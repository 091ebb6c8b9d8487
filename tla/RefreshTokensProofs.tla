------------------------ MODULE RefreshTokensProofs ------------------------
(***************************************************************************)
(* Safety of RefreshTokens for any number of concurrent requests, users,   *)
(* tenants and tokens.  The properties are not inductive: they need to     *)
(* know which rows a request may still touch after it read them, so they   *)
(* are proved together with the facts below about the rows, the row locks  *)
(* and the requests in flight.                                             *)
(***************************************************************************)
EXTENDS RefreshTokens, FiniteSetTheorems, TLAPS

TokenSteps == {"refresh_found", "refresh_revoked", "refresh_loaded", "revoke_found"}

\* An id is blank until a row is inserted; every row has a user and that
\* user's tenant.
RowsOK ==
    \A t \in TokenIds :
        /\ rt[t].state = "unused" => rt[t] = NoRow
        /\ rt[t].state # "unused" => rt[t].user \in Users /\ rt[t].tenant = TenantOf[rt[t].user]

\* Only rows that are in the table are locked.
LocksOK ==
    \A t \in TokenIds : lock[t] # None => Stored(t)

\* A request refers to rows that were inserted, inserts rows of its user's
\* tenant, and revoke-all has killed or locked the rows it has passed.
RequestOK(w) ==
    /\ req[w].step \in TokenSteps =>
          /\ req[w].tok \in TokenIds
          /\ rt[req[w].tok].state # "unused"
          /\ req[w].user \in Users
    /\ req[w].step \in {"refresh_loaded", "sign_in"} =>
          /\ req[w].user \in Users
          /\ req[w].tenant = TenantOf[req[w].user]
    /\ \A t \in req[w].snap : rt[t].state # "unused"
    /\ req[w].todo \subseteq req[w].snap
    /\ \A t \in req[w].snap \ req[w].todo : Dead(t) \/ lock[t] = w

\* The inductive invariant.
Inv ==
    /\ TypeOK
    /\ RowsOK
    /\ LocksOK
    /\ \A w \in Workers : RequestOK(w)
    /\ RotationAtomic

-----------------------------------------------------------------------------
(* Type correctness *)

\* The requests that Start and Finish write are requests.
LEMMA IdleType == Idle \in Request
BY ConstantsAssumption DEF Idle, Request, Steps

\* store_refresh_token writes a row.
LEMMA NewRowType ==
    ASSUME TypeOK, NEW ctx \in Tenants \cup {None}, NEW u \in Users \cup {None}, NEW ttl \in Nat
    PROVE  NewRow(ctx, u, ttl) \in Row
BY DEF TypeOK, NewRow, Row

\* Setting revoked_at or deleting a row leaves a row.
LEMMA RowUpdateType ==
    ASSUME NEW r \in Row
    PROVE  /\ [r EXCEPT !.revoked = TRUE] \in Row
           /\ [r EXCEPT !.state = "deleted"] \in Row
BY DEF Row

\* The initial state has the declared types.
LEMMA InitType == Init => TypeOK
BY ConstantsAssumption, IdleType DEF Init, TypeOK, Row, NoRow

\* Every step keeps the declared types.
LEMMA NextType == TypeOK /\ [Next]_vars => TypeOK'
<1> SUFFICES ASSUME TypeOK, [Next]_vars PROVE TypeOK'
    OBVIOUS
<1> USE ConstantsAssumption
<1>1. ASSUME NEW w \in Workers, NEW ctx \in Tenants, NEW t \in TokenIds, RefreshFind(w, ctx, t)
      PROVE  TypeOK'
  BY <1>1, IdleType DEF RefreshFind, TypeOK, Request, Row, Steps
<1>2. ASSUME NEW w \in Workers, NEW u \in Users, NEW ctx \in Tenants, NEW t \in TokenIds,
             LogoutFind(w, u, ctx, t)
      PROVE  TypeOK'
  BY <1>2, IdleType DEF LogoutFind, TypeOK, Request, Row, Steps
<1>3. ASSUME NEW w \in Workers, NEW u \in Users, NEW t \in TokenIds, OauthRevokeFind(w, u, t)
      PROVE  TypeOK'
  BY <1>3, IdleType DEF OauthRevokeFind, TypeOK, Request, Row, Steps
<1>4. ASSUME NEW w \in Workers, NEW u \in Users, NEW ctx \in Tenants, SweepStart(w, u, ctx)
      PROVE  TypeOK'
  BY <1>4, IdleType DEF SweepStart, TypeOK, Request, Row, Steps
<1>5. ASSUME NEW w \in Workers, NEW u \in Users, NEW b \in BOOLEAN, SignInLoad(w, u, b)
      PROVE  TypeOK'
  BY <1>5, IdleType DEF SignInLoad, TypeOK, Request, Row, Steps
<1>6. ASSUME NEW w \in Workers, RefreshRevoke(w)
      PROVE  TypeOK'
  <2>1. req' \in [Workers -> Request]
    BY <1>6 DEF RefreshRevoke, TypeOK, Request, Steps
  <2>2. lock' \in [TokenIds -> Workers \cup {None}]
    BY <1>6 DEF RefreshRevoke, TypeOK
  <2> QED
    BY <1>6, <2>1, <2>2 DEF RefreshRevoke, TypeOK
<1>7. ASSUME NEW w \in Workers, RefreshLoadUser(w)
      PROVE  TypeOK'
  BY <1>7 DEF RefreshLoadUser, TypeOK, Request, Steps
<1>8. ASSUME NEW w \in Workers, RefreshDenied(w)
      PROVE  TypeOK'
  BY <1>8, IdleType DEF RefreshDenied, TypeOK, Unlocked, Finish
<1>9. ASSUME NEW w \in Workers, RefreshCommit(w)
      PROVE  TypeOK'
  <2>1. PICK n \in TokenIds :
           /\ rt' = [rt EXCEPT ![req[w].tok].revoked = TRUE,
                               ![n] = NewRow(req[w].tenant, req[w].user, RefreshTtl)]
           /\ parent' = [parent EXCEPT ![n] = req[w].tok]
    BY <1>9 DEF RefreshCommit
  <2>2. NewRow(req[w].tenant, req[w].user, RefreshTtl) \in Row
    BY NewRowType DEF TypeOK, Request
  <2>3. rt' \in [TokenIds -> Row]
    BY <2>1, <2>2, RowUpdateType DEF TypeOK
  <2>4. parent' \in [TokenIds -> TokenIds \cup {None}]
    BY <2>1 DEF TypeOK, Request
  <2> QED
    BY <1>9, <2>3, <2>4, IdleType DEF RefreshCommit, TypeOK, Unlocked, Finish
<1>10. ASSUME NEW w \in Workers, RevokeCommit(w)
       PROVE  TypeOK'
  BY <1>10, IdleType, RowUpdateType DEF RevokeCommit, TypeOK, Finish
<1>11. ASSUME NEW w \in Workers, RowGone(w)
       PROVE  TypeOK'
  BY <1>11, IdleType DEF RowGone, TypeOK, Finish
<1>12. ASSUME NEW w \in Workers, SweepRow(w)
       PROVE  TypeOK'
  <2>1. PICK t \in req[w].todo :
           /\ lock' = IF Dead(t) THEN lock ELSE [lock EXCEPT ![t] = w]
           /\ req' = [req EXCEPT ![w].todo = @ \ {t}]
    BY <1>12 DEF SweepRow
  <2>2. req' \in [Workers -> Request]
    BY <2>1 DEF TypeOK, Request
  <2> QED
    BY <1>12, <2>1, <2>2 DEF SweepRow, TypeOK
<1>13. ASSUME NEW w \in Workers, SweepCommit(w)
       PROVE  TypeOK'
  BY <1>13, IdleType, RowUpdateType DEF SweepCommit, TypeOK, Unlocked, Finish
<1>14. ASSUME NEW w \in Workers, NEW ttl \in SignInTtls, SignInCommit(w, ttl)
       PROVE  TypeOK'
  <2>1. PICK n \in TokenIds : rt' = [rt EXCEPT ![n] = NewRow(req[w].tenant, req[w].user, ttl)]
    BY <1>14 DEF SignInCommit
  <2>2. NewRow(req[w].tenant, req[w].user, ttl) \in Row
    BY NewRowType DEF TypeOK, Request
  <2> QED
    BY <1>14, <2>1, <2>2, IdleType DEF SignInCommit, TypeOK, Finish
<1>15. ASSUME NEW w \in Workers, Abort(w)
       PROVE  TypeOK'
  BY <1>15, IdleType DEF Abort, TypeOK, Unlocked, Finish
<1>16. ASSUME NEW u \in Users, NEW b \in BOOLEAN, SetActive(u, b)
       PROVE  TypeOK'
  BY <1>16 DEF SetActive, TypeOK
<1>17. CASE Cleanup
  BY <1>17, RowUpdateType DEF Cleanup, TypeOK
<1>18. CASE Tick
  BY <1>18 DEF Tick, TypeOK
<1>19. CASE UNCHANGED vars
  BY <1>19 DEF vars, TypeOK
<1> QED
  BY <1>1, <1>2, <1>3, <1>4, <1>5, <1>6, <1>7, <1>8, <1>9, <1>10, <1>11, <1>12, <1>13,
     <1>14, <1>15, <1>16, <1>17, <1>18, <1>19 DEF Next, Start, Proceed

\* The table, the locks and the requests always have their declared types.
THEOREM TypeCorrect == Spec => []TypeOK
BY InitType, NextType, PTL DEF Spec

-----------------------------------------------------------------------------
(* The inductive invariant *)

\* A row is never un-inserted and a dead row stays dead.
Monotone ==
    \A t \in TokenIds :
        /\ rt[t].state # "unused" => rt'[t].state # "unused"
        /\ Dead(t) => Dead(t)'

\* A row that is not in the table yet is not dead.
LEMMA FreshNotDead ==
    ASSUME Inv, NEW n \in TokenIds, Fresh(n)
    PROVE  rt[n].state = "unused" /\ ~Dead(n)
BY DEF Inv, RowsOK, Fresh, Dead, NoRow

\* Each statement that writes the table is monotone: rotation, sign-in,
\* revocation of one or of many rows, and cleanup.
LEMMA NextMonotone ==
    ASSUME Inv, [Next]_vars
    PROVE  Monotone
<1> USE DEF Monotone
<1>1. ASSUME rt' = rt PROVE Monotone
  BY <1>1 DEF Dead
<1>2. ASSUME NEW w \in Workers, RefreshCommit(w)
      PROVE  Monotone
  <2>1. PICK n \in TokenIds :
           /\ Fresh(n)
           /\ rt' = [rt EXCEPT ![req[w].tok].revoked = TRUE,
                               ![n] = NewRow(req[w].tenant, req[w].user, RefreshTtl)]
    BY <1>2 DEF RefreshCommit
  <2>2. rt[n].state = "unused" /\ ~Dead(n)
    BY <2>1, FreshNotDead
  <2> QED
    BY <2>1, <2>2 DEF Inv, TypeOK, Row, Dead, NewRow
<1>3. ASSUME NEW w \in Workers, NEW ttl \in SignInTtls, SignInCommit(w, ttl)
      PROVE  Monotone
  <2>1. PICK n \in TokenIds :
           /\ Fresh(n)
           /\ rt' = [rt EXCEPT ![n] = NewRow(req[w].tenant, req[w].user, ttl)]
    BY <1>3 DEF SignInCommit
  <2>2. rt[n].state = "unused" /\ ~Dead(n)
    BY <2>1, FreshNotDead
  <2> QED
    BY <2>1, <2>2 DEF Inv, TypeOK, Row, Dead, NewRow
<1>4. ASSUME NEW w \in Workers, RevokeCommit(w)
      PROVE  Monotone
  BY <1>4 DEF RevokeCommit, Inv, TypeOK, Row, Dead
<1>5. ASSUME NEW w \in Workers, SweepCommit(w)
      PROVE  Monotone
  BY <1>5 DEF SweepCommit, Inv, TypeOK, Row, Dead
<1>6. ASSUME Cleanup
      PROVE  Monotone
  BY <1>6 DEF Cleanup, Inv, TypeOK, Row, Dead
<1> QED
  BY <1>1, <1>2, <1>3, <1>4, <1>5, <1>6
  DEF Next, Start, Proceed, RefreshFind, LogoutFind, OauthRevokeFind, SweepStart, SignInLoad,
      RefreshRevoke, RefreshLoadUser, RefreshDenied, RowGone, SweepRow, Abort, SetActive, Tick, vars

\* A step of another request, or of nobody's, keeps what is known of request
\* v as long as it takes none of v's row locks.
LEMMA OthersKept ==
    ASSUME Inv, TypeOK', Monotone, NEW v \in Workers,
           req'[v] = req[v],
           \A t \in TokenIds : lock[t] = v => lock'[t] = v
    PROVE  RequestOK(v)'
BY DEF Inv, TypeOK, Request, Monotone, RequestOK, Dead

\* A request that has ended says nothing.
LEMMA IdleOK ==
    ASSUME NEW w \in Workers, req'[w] = Idle
    PROVE  RequestOK(w)'
BY DEF RequestOK, Idle, TokenSteps

\* With the table and the parents unchanged, what is known of the rows stays.
LEMMA SameRows ==
    ASSUME Inv, rt' = rt, parent' = parent
    PROVE  RowsOK' /\ RotationAtomic'
BY DEF Inv, RowsOK, RotationAtomic, Dead, NoRow

\* Rows that are in the table may change anything but their user and tenant.
LEMMA RowsKept ==
    ASSUME Inv,
           \A t \in TokenIds : \/ rt'[t] = rt[t]
                              \/ /\ rt[t].state # "unused" /\ rt'[t].state # "unused"
                                 /\ rt'[t].user = rt[t].user /\ rt'[t].tenant = rt[t].tenant
    PROVE  RowsOK'
BY DEF Inv, RowsOK, NoRow

\* No row has a parent that dies undone: rotations only add dead parents.
LEMMA SameParents ==
    ASSUME Inv, Monotone, parent' = parent
    PROVE  RotationAtomic'
BY DEF Inv, TypeOK, RotationAtomic, Monotone

\* The initial state satisfies the invariant.
LEMMA InitInv == Init => Inv
<1> SUFFICES ASSUME Init PROVE Inv
    OBVIOUS
<1>1. TypeOK
  BY InitType
<1>2. RowsOK /\ LocksOK /\ RotationAtomic
  BY DEF Init, RowsOK, LocksOK, RotationAtomic, NoRow
<1>3. \A w \in Workers : RequestOK(w)
  BY DEF Init, RequestOK, Idle, TokenSteps
<1> QED
  BY <1>1, <1>2, <1>3 DEF Inv

\* Every step of every request keeps the invariant.
LEMMA NextInv == Inv /\ [Next]_vars => Inv'
<1> SUFFICES ASSUME Inv, [Next]_vars PROVE Inv'
    OBVIOUS
<1> USE ConstantsAssumption
<1>t. TypeOK'
  BY NextType DEF Inv
<1>m. Monotone
  BY NextMonotone
\* a request reads, or the step belongs to no request
<1>r. ASSUME NEW w \in Workers, rt' = rt, lock' = lock, parent' = parent,
             \A v \in Workers \ {w} : req'[v] = req[v],
             RequestOK(w)'
      PROVE  Inv'
  <2>1. \A v \in Workers : RequestOK(v)'
    BY <1>r, <1>t, <1>m, OthersKept
  <2>2. LocksOK'
    BY <1>r DEF Inv, LocksOK, Stored
  <2> QED
    BY <1>r, <1>t, <2>1, <2>2, SameRows DEF Inv
<1>n. ASSUME rt' = rt, lock' = lock, parent' = parent, req' = req
      PROVE  Inv'
  <2>1. \A v \in Workers : RequestOK(v)'
    BY <1>n, <1>t, <1>m, OthersKept
  <2>2. LocksOK'
    BY <1>n DEF Inv, LocksOK, Stored
  <2> QED
    BY <1>n, <1>t, <2>1, <2>2, SameRows DEF Inv
\* a transaction rolls back
<1>b. ASSUME NEW w \in Workers, rt' = rt, lock' = Unlocked(w), parent' = parent, Finish(w)
      PROVE  Inv'
  <2>1. RequestOK(w)'
    BY <1>b, IdleOK DEF Finish, Inv, TypeOK
  <2>2. \A v \in Workers \ {w} : RequestOK(v)'
    BY <1>b, <1>t, <1>m, OthersKept DEF Unlocked, Finish, Inv, TypeOK
  <2>3. LocksOK'
    BY <1>b DEF Inv, LocksOK, Stored, Unlocked
  <2> QED
    BY <1>b, <1>t, <2>1, <2>2, <2>3, SameRows DEF Inv
<1>1. ASSUME NEW w \in Workers, NEW ctx \in Tenants, NEW t \in TokenIds, RefreshFind(w, ctx, t)
      PROVE  Inv'
  <2>1. RequestOK(w)'
    BY <1>1 DEF RefreshFind, FindValid, Stored, Inv, TypeOK, RowsOK, RequestOK, Idle, TokenSteps
  <2> QED
    BY <1>1, <1>r, <2>1 DEF RefreshFind, Inv, TypeOK
<1>2. ASSUME NEW w \in Workers, NEW u \in Users, NEW ctx \in Tenants, NEW t \in TokenIds,
             LogoutFind(w, u, ctx, t)
      PROVE  Inv'
  <2>1. RequestOK(w)'
    BY <1>2 DEF LogoutFind, FindValid, Stored, Inv, TypeOK, RequestOK, Idle, TokenSteps
  <2> QED
    BY <1>2, <1>r, <2>1 DEF LogoutFind, Inv, TypeOK
<1>3. ASSUME NEW w \in Workers, NEW u \in Users, NEW t \in TokenIds, OauthRevokeFind(w, u, t)
      PROVE  Inv'
  <2>1. RequestOK(w)'
    BY <1>3 DEF OauthRevokeFind, Stored, Inv, TypeOK, RequestOK, Idle, TokenSteps
  <2> QED
    BY <1>3, <1>r, <2>1 DEF OauthRevokeFind, Inv, TypeOK
<1>4. ASSUME NEW w \in Workers, NEW u \in Users, NEW ctx \in Tenants, SweepStart(w, u, ctx)
      PROVE  Inv'
  <2>1. RequestOK(w)'
    BY <1>4 DEF SweepStart, Stored, Inv, TypeOK, RequestOK, Idle, TokenSteps
  <2> QED
    BY <1>4, <1>r, <2>1 DEF SweepStart, Inv, TypeOK
<1>5. ASSUME NEW w \in Workers, NEW u \in Users, NEW b \in BOOLEAN, SignInLoad(w, u, b)
      PROVE  Inv'
  <2>1. RequestOK(w)'
    BY <1>5 DEF SignInLoad, Inv, TypeOK, RequestOK, Idle, TokenSteps
  <2> QED
    BY <1>5, <1>r, <2>1 DEF SignInLoad, Inv, TypeOK
<1>6. ASSUME NEW w \in Workers, RefreshRevoke(w)
      PROVE  Inv'
  <2>1. RequestOK(w)'
    BY <1>6 DEF RefreshRevoke, Inv, TypeOK, Request, RequestOK, TokenSteps, Dead
  <2>2. \A v \in Workers \ {w} : RequestOK(v)'
    BY <1>6, <1>t, <1>m, OthersKept DEF RefreshRevoke, Inv, TypeOK
  <2>3. LocksOK'
    BY <1>6 DEF RefreshRevoke, Inv, TypeOK, LocksOK, Stored
  <2> QED
    BY <1>6, <1>t, <2>1, <2>2, <2>3, SameRows DEF RefreshRevoke, Inv
<1>7. ASSUME NEW w \in Workers, RefreshLoadUser(w)
      PROVE  Inv'
  <2>1. RequestOK(w)'
    BY <1>7 DEF RefreshLoadUser, Inv, TypeOK, Request, RequestOK, TokenSteps, Dead
  <2> QED
    BY <1>7, <1>r, <2>1 DEF RefreshLoadUser, Inv, TypeOK
<1>8. ASSUME NEW w \in Workers, RefreshDenied(w)
      PROVE  Inv'
  BY <1>8, <1>b DEF RefreshDenied
<1>9. ASSUME NEW w \in Workers, RefreshCommit(w)
      PROVE  Inv'
  <2>1. PICK n \in TokenIds :
           /\ Fresh(n)
           /\ rt' = [rt EXCEPT ![req[w].tok].revoked = TRUE,
                               ![n] = NewRow(req[w].tenant, req[w].user, RefreshTtl)]
           /\ parent' = [parent EXCEPT ![n] = req[w].tok]
    BY <1>9 DEF RefreshCommit
  <2>2. rt[n].state = "unused" /\ ~Dead(n)
    BY <2>1, FreshNotDead
  <2>3. PICK tok \in TokenIds : tok = req[w].tok /\ rt[tok].state # "unused" /\ tok # n
    BY <1>9, <2>2 DEF RefreshCommit, Inv, RequestOK, TokenSteps
  <2>4. RowsOK'
    <3>1. rt'[n].state = "stored" /\ rt'[n].user \in Users /\ rt'[n].tenant = TenantOf[rt'[n].user]
      BY <1>9, <2>1, <2>3 DEF RefreshCommit, Inv, TypeOK, RequestOK, NewRow
    <3>2. \A t \in TokenIds \ {n, tok} : rt'[t] = rt[t]
      BY <2>1, <2>3 DEF Inv, TypeOK
    <3>3. rt'[tok].state = rt[tok].state /\ rt'[tok].user = rt[tok].user /\ rt'[tok].tenant = rt[tok].tenant
      BY <2>1, <2>3 DEF Inv, TypeOK, Row
    <3>4. SUFFICES ASSUME NEW t \in TokenIds
                   PROVE  /\ rt'[t].state = "unused" => rt'[t] = NoRow
                          /\ rt'[t].state # "unused" => /\ rt'[t].user \in Users
                                                       /\ rt'[t].tenant = TenantOf[rt'[t].user]
      BY DEF RowsOK, NoRow
    <3>5. CASE t = n
      BY <3>1, <3>5
    <3>6. CASE t = tok
      BY <3>3, <3>6, <2>3 DEF Inv, RowsOK
    <3>7. CASE t \notin {n, tok}
      BY <3>2, <3>7 DEF Inv, RowsOK
    <3> QED
      BY <3>5, <3>6, <3>7
  <2>5. LocksOK'
    BY <1>9, <2>1, <2>2, <2>3 DEF RefreshCommit, Inv, TypeOK, LocksOK, Stored, Unlocked, Row, NewRow
  <2>6. RotationAtomic'
    <3>1. Dead(tok)'
      BY <2>1, <2>3 DEF Inv, TypeOK, Row, Dead
    <3>2. SUFFICES ASSUME NEW m \in TokenIds, NEW p \in TokenIds \cup {None}, p = parent'[m], p # None
                   PROVE  Dead(p)'
      BY <1>t DEF RotationAtomic, TypeOK, Dead
    <3>3. CASE m = n
      BY <3>1, <3>2, <3>3, <2>1, <2>3 DEF Inv, TypeOK
    <3>4. CASE m # n
      BY <3>2, <3>4, <2>1, <1>m DEF Inv, TypeOK, RotationAtomic, Monotone
    <3> QED
      BY <3>3, <3>4
  <2>7. RequestOK(w)'
    BY <1>9, IdleOK DEF RefreshCommit, Finish, Inv, TypeOK
  <2>8. \A v \in Workers \ {w} : RequestOK(v)'
    BY <1>9, <1>t, <1>m, OthersKept DEF RefreshCommit, Unlocked, Finish, Inv, TypeOK
  <2> QED
    BY <1>t, <2>4, <2>5, <2>6, <2>7, <2>8 DEF Inv
<1>10. ASSUME NEW w \in Workers, RevokeCommit(w)
       PROVE  Inv'
  <2>1. RowsOK'
    <3>1. req[w].tok \in TokenIds /\ rt[req[w].tok].state # "unused"
      BY <1>10 DEF RevokeCommit, Inv, RequestOK, TokenSteps
    <3> QED
      BY <1>10, <3>1, RowsKept DEF RevokeCommit, Inv, TypeOK, Row
  <2>2. LocksOK'
    BY <1>10 DEF RevokeCommit, Inv, TypeOK, LocksOK, Stored, Row
  <2>3. RequestOK(w)'
    BY <1>10, IdleOK DEF RevokeCommit, Finish, Inv, TypeOK
  <2>4. \A v \in Workers \ {w} : RequestOK(v)'
    BY <1>10, <1>t, <1>m, OthersKept DEF RevokeCommit, Finish, Inv, TypeOK
  <2> QED
    BY <1>10, <1>t, <1>m, <2>1, <2>2, <2>3, <2>4, SameParents DEF RevokeCommit, Inv
<1>11. ASSUME NEW w \in Workers, RowGone(w)
       PROVE  Inv'
  <2>1. RequestOK(w)'
    BY <1>11, IdleOK DEF RowGone, Finish, Inv, TypeOK
  <2> QED
    BY <1>11, <1>r, <2>1 DEF RowGone, Finish, Inv, TypeOK
<1>12. ASSUME NEW w \in Workers, SweepRow(w)
       PROVE  Inv'
  <2>1. PICK t \in req[w].todo :
           /\ lock[t] = None
           /\ lock' = IF Dead(t) THEN lock ELSE [lock EXCEPT ![t] = w]
           /\ req' = [req EXCEPT ![w].todo = @ \ {t}]
           /\ UNCHANGED <<rt, parent>>
    BY <1>12 DEF SweepRow
  <2>2. t \in TokenIds /\ t \in req[w].snap /\ rt[t].state # "unused"
    BY <2>1 DEF Inv, TypeOK, Request, RequestOK
  <2>3. RequestOK(w)'
    <3>1. \A s \in TokenIds : lock[s] = w => lock'[s] = w
      BY <2>1, <2>2 DEF Inv, TypeOK
    <3>2. Dead(t)' \/ lock'[t] = w
      BY <2>1, <2>2 DEF Dead, Inv, TypeOK
    <3>3. /\ req'[w].snap = req[w].snap
          /\ req'[w].todo = req[w].todo \ {t}
          /\ req'[w].step = "sweep"
          /\ req[w].snap \subseteq TokenIds
      BY <1>12, <2>1 DEF SweepRow, Inv, TypeOK, Request
    <3> QED
      BY <2>1, <2>2, <3>1, <3>2, <3>3 DEF Inv, RequestOK, TokenSteps, Dead
  <2>4. \A v \in Workers \ {w} : RequestOK(v)'
    BY <2>1, <2>2, <1>t, <1>m, OthersKept DEF Inv, TypeOK
  <2>5. LocksOK'
    BY <2>1, <2>2 DEF Inv, TypeOK, Row, LocksOK, Stored, Dead
  <2> QED
    BY <1>t, <2>1, <2>3, <2>4, <2>5, SameRows DEF Inv
<1>13. ASSUME NEW w \in Workers, SweepCommit(w)
       PROVE  Inv'
  <2>1. RowsOK'
    <3>1. \A t \in TokenIds : lock[t] = w => rt[t].state # "unused"
      BY ConstantsAssumption DEF Inv, LocksOK, Stored
    <3> QED
      BY <1>13, <3>1, RowsKept DEF SweepCommit, Inv, TypeOK, Row
  <2>2. LocksOK'
    BY <1>13 DEF SweepCommit, Inv, TypeOK, LocksOK, Stored, Unlocked, Row
  <2>3. RequestOK(w)'
    BY <1>13, IdleOK DEF SweepCommit, Finish, Inv, TypeOK
  <2>4. \A v \in Workers \ {w} : RequestOK(v)'
    BY <1>13, <1>t, <1>m, OthersKept DEF SweepCommit, Unlocked, Finish, Inv, TypeOK
  <2> QED
    BY <1>13, <1>t, <1>m, <2>1, <2>2, <2>3, <2>4, SameParents DEF SweepCommit, Inv
<1>14. ASSUME NEW w \in Workers, NEW ttl \in SignInTtls, SignInCommit(w, ttl)
       PROVE  Inv'
  <2>1. PICK n \in TokenIds :
           /\ Fresh(n)
           /\ rt' = [rt EXCEPT ![n] = NewRow(req[w].tenant, req[w].user, ttl)]
    BY <1>14 DEF SignInCommit
  <2>2. rt[n].state = "unused"
    BY <2>1, FreshNotDead
  <2>3. req[w].user \in Users /\ req[w].tenant = TenantOf[req[w].user]
    BY <1>14 DEF SignInCommit, Inv, RequestOK
  <2>4. RowsOK'
    BY <2>1, <2>2, <2>3 DEF Inv, TypeOK, RowsOK, NewRow, NoRow
  <2>5. LocksOK'
    BY <1>14, <2>1 DEF SignInCommit, Inv, TypeOK, LocksOK, Stored, NewRow
  <2>6. RequestOK(w)'
    BY <1>14, IdleOK DEF SignInCommit, Finish, Inv, TypeOK
  <2>7. \A v \in Workers \ {w} : RequestOK(v)'
    BY <1>14, <1>t, <1>m, OthersKept DEF SignInCommit, Finish, Inv, TypeOK
  <2> QED
    BY <1>14, <1>t, <1>m, <2>4, <2>5, <2>6, <2>7, SameParents DEF SignInCommit, Inv
<1>15. ASSUME NEW w \in Workers, Abort(w)
       PROVE  Inv'
  BY <1>15, <1>b DEF Abort
<1>16. ASSUME NEW u \in Users, NEW b \in BOOLEAN, SetActive(u, b)
       PROVE  Inv'
  BY <1>16, <1>n DEF SetActive
<1>17. ASSUME Cleanup
       PROVE  Inv'
  <2>1. RowsOK'
    BY <1>17, RowsKept DEF Cleanup, Inv, TypeOK, Row, Stored
  <2>2. LocksOK'
    BY <1>17 DEF Cleanup, Inv, TypeOK, LocksOK, Stored, Row
  <2>3. \A v \in Workers : RequestOK(v)'
    BY <1>17, <1>t, <1>m, OthersKept DEF Cleanup
  <2> QED
    BY <1>17, <1>t, <1>m, <2>1, <2>2, <2>3, SameParents DEF Cleanup, Inv
<1>18. CASE Tick
  BY <1>18, <1>n DEF Tick
<1>19. CASE UNCHANGED vars
  BY <1>19, <1>n DEF vars
<1> QED
  BY <1>1, <1>2, <1>3, <1>4, <1>5, <1>6, <1>7, <1>8, <1>9, <1>10, <1>11, <1>12, <1>13,
     <1>14, <1>15, <1>16, <1>17, <1>18, <1>19 DEF Next, Start, Proceed

\* The inductive invariant holds in every reachable state.
THEOREM Invariance == Spec => []Inv
BY InitInv, NextInv, PTL DEF Spec

-----------------------------------------------------------------------------
(* What the invariant gives *)

\* A row's tenant is its user's tenant.
THEOREM TenantBoundHolds == Spec => []TenantBound
<1>1. Inv => TenantBound
  BY DEF Inv, RowsOK, TenantBound, NoRow
<1> QED
  BY <1>1, Invariance, PTL

\* A token that came out of a rotation is in the table only if the token it
\* replaces is dead.
THEOREM RotationAtomicHolds == Spec => []RotationAtomic
<1>1. Inv => RotationAtomic
  BY DEF Inv
<1> QED
  BY <1>1, Invariance, PTL

\* No step revives a dead token.
THEOREM NeverRevivedHolds == Spec => NeverRevived
<1>1. Inv /\ [Next]_vars => [\A t \in TokenIds : Dead(t) => Dead(t)']_vars
  BY NextMonotone DEF Monotone
<1> QED
  BY <1>1, Invariance, PTL DEF Spec, NeverRevived

\* When revoke-all commits, every row its statement saw is dead.
THEOREM SweptRowsDeadHolds == Spec => SweptRowsDead
<1>1. ASSUME Inv, NEW w \in Workers, SweepCommit(w), NEW t \in req[w].snap
      PROVE  Dead(t)'
  <2>1. t \in TokenIds /\ (Dead(t) \/ lock[t] = w)
    BY <1>1 DEF Inv, TypeOK, Request, RequestOK, SweepCommit
  <2> QED
    BY <1>1, <2>1 DEF SweepCommit, Inv, TypeOK, Row, Dead
<1>2. Inv /\ [Next]_vars =>
        [\A w \in Workers : SweepCommit(w) => \A t \in req[w].snap : Dead(t)']_vars
  BY <1>1
<1> QED
  BY <1>2, Invariance, PTL DEF Spec, SweptRowsDead

-----------------------------------------------------------------------------
(* How often one token can be exchanged *)

RefreshSteps == {"refresh_found", "refresh_revoked", "refresh_loaded"}

\* the refresh requests that found t valid and have not ended
Inflight(t) == {w \in Workers : req[w].step \in RefreshSteps /\ req[w].tok = t}

\* Each successor of t used up one request that was in flight when t died, and
\* no new request finds t afterwards.
ForkInv ==
    \A t \in TokenIds : Cardinality(Children(t)) + Cardinality(Inflight(t)) <= Cardinality(Workers)

\* The sets counted are finite.
LEMMA FiniteCounts ==
    ASSUME NEW t
    PROVE  /\ IsFiniteSet(Children(t)) /\ Cardinality(Children(t)) \in Nat
           /\ IsFiniteSet(Inflight(t)) /\ Cardinality(Inflight(t)) \in Nat
           /\ Cardinality(Inflight(t)) <= Cardinality(Workers)
           /\ Cardinality(Workers) \in Nat
<1>1. IsFiniteSet(TokenIds)
  BY FS_Interval, ConstantsAssumption DEF TokenIds
<1>2. Children(t) \subseteq TokenIds /\ Inflight(t) \subseteq Workers
  BY DEF Children, Inflight
<1> QED
  BY <1>1, <1>2, FS_Subset, FS_CardinalityType, ConstantsAssumption

\* The same for the next state.
LEMMA FiniteCountsNext ==
    ASSUME NEW t
    PROVE  /\ IsFiniteSet(Children(t)') /\ Cardinality(Children(t)') \in Nat
           /\ IsFiniteSet(Inflight(t)') /\ Cardinality(Inflight(t)') \in Nat
           /\ Cardinality(Inflight(t)') <= Cardinality(Workers)
<1>1. IsFiniteSet(TokenIds)
  BY FS_Interval, ConstantsAssumption DEF TokenIds
<1>2. Children(t)' \subseteq TokenIds /\ Inflight(t)' \subseteq Workers
  BY DEF Children, Inflight
<1> QED
  BY <1>1, <1>2, FS_Subset, FS_CardinalityType, ConstantsAssumption

\* Only a commit of a rotation adds a successor, and only finding a token
\* that is not dead adds a request in flight for it.
LEMMA ForkStep ==
    ASSUME Inv, ForkInv, [Next]_vars
    PROVE  ForkInv'
<1> USE ConstantsAssumption
<1> SUFFICES ASSUME NEW t \in TokenIds
             PROVE  Cardinality(Children(t)') + Cardinality(Inflight(t)') <= Cardinality(Workers)
    BY DEF ForkInv
<1>0. /\ Cardinality(Children(t)) + Cardinality(Inflight(t)) <= Cardinality(Workers)
      /\ ~Dead(t) => Children(t) = {}
  BY DEF ForkInv, Inv, RotationAtomic, Children, TokenIds
<1>1. ASSUME NEW w \in Workers, RefreshCommit(w)
      PROVE  Cardinality(Children(t)') + Cardinality(Inflight(t)') <= Cardinality(Workers)
  <2>1. PICK n \in TokenIds : parent' = [parent EXCEPT ![n] = req[w].tok]
    BY <1>1 DEF RefreshCommit
  <2>2. req' = [req EXCEPT ![w] = Idle]
    BY <1>1 DEF RefreshCommit, Finish
  <2>3. Inflight(t)' = Inflight(t) \ {w}
    BY <2>2 DEF Inflight, Inv, TypeOK, Idle, RefreshSteps
  <2>4. CASE req[w].tok = t
    <3>1. w \in Inflight(t)
      BY <1>1, <2>4 DEF RefreshCommit, Inflight, RefreshSteps
    <3>2. Cardinality(Inflight(t)') = Cardinality(Inflight(t)) - 1
      BY <2>3, <3>1, FS_RemoveElement, FiniteCounts
    <3>3. Children(t)' \subseteq Children(t) \cup {n}
      BY <2>1 DEF Children, Inv, TypeOK
    <3>4. Cardinality(Children(t)') <= Cardinality(Children(t)) + 1
      <4>0. IsFiniteSet(Children(t)) /\ Cardinality(Children(t)) \in Nat
        BY FiniteCounts
      <4>1. /\ IsFiniteSet(Children(t) \cup {n})
            /\ Cardinality(Children(t) \cup {n}) <= Cardinality(Children(t)) + 1
        <5>1. /\ IsFiniteSet(Children(t) \cup {n})
              /\ Cardinality(Children(t) \cup {n}) =
                   IF n \in Children(t) THEN Cardinality(Children(t)) ELSE Cardinality(Children(t)) + 1
          BY <4>0, FS_AddElement, Zenon
        <5> QED
          BY <4>0, <5>1
      <4>2. Cardinality(Children(t)') <= Cardinality(Children(t) \cup {n})
        BY <3>3, <4>1, FS_Subset
      <4> QED
        BY <4>1, <4>2, FS_CardinalityType, FiniteCounts, FiniteCountsNext
    <3> QED
      BY <1>0, <3>2, <3>4, FiniteCounts, FiniteCountsNext
  <2>5. CASE req[w].tok # t
    <3>1. Children(t)' \subseteq Children(t)
      BY <2>1, <2>5 DEF Children, Inv, TypeOK
    <3>2. Cardinality(Children(t)') <= Cardinality(Children(t))
      BY <3>1, FS_Subset, FiniteCounts
    <3>3. Cardinality(Inflight(t)') <= Cardinality(Inflight(t))
      BY <2>3, FS_Subset, FiniteCounts
    <3> QED
      BY <1>0, <3>2, <3>3, FiniteCounts, FiniteCountsNext
  <2> QED
    BY <2>4, <2>5
<1>2. ASSUME parent' = parent, Inflight(t)' \subseteq Inflight(t)
      PROVE  Cardinality(Children(t)') + Cardinality(Inflight(t)') <= Cardinality(Workers)
  <2>1. Children(t)' = Children(t)
    BY <1>2 DEF Children
  <2>2. Cardinality(Inflight(t)') <= Cardinality(Inflight(t))
    BY <1>2, FS_Subset, FiniteCounts
  <2> QED
    BY <1>0, <2>1, <2>2, FiniteCounts, FiniteCountsNext
<1>3. ASSUME parent' = parent, ~Dead(t)
      PROVE  Cardinality(Children(t)') + Cardinality(Inflight(t)') <= Cardinality(Workers)
  <2>1. Children(t)' = {}
    BY <1>0, <1>3 DEF Children
  <2> QED
    BY <2>1, FS_EmptySet, FiniteCountsNext
<1>4. ASSUME NEW w \in Workers, NEW ctx \in Tenants, NEW s \in TokenIds, RefreshFind(w, ctx, s)
      PROVE  Cardinality(Children(t)') + Cardinality(Inflight(t)') <= Cardinality(Workers)
  <2>1. CASE s = t
    BY <1>4, <2>1, <1>3 DEF RefreshFind, FindValid, Stored, Dead
  <2>2. CASE s # t
    BY <1>4, <2>2, <1>2 DEF RefreshFind, Inflight, Inv, TypeOK, Idle
  <2> QED
    BY <2>1, <2>2
\* every other step of a request leaves the refresh requests, or takes one out
<1>5. ASSUME NEW w \in Workers, parent' = parent,
             req' = [req EXCEPT ![w] = req'[w]],
             req'[w].step \in RefreshSteps =>
                /\ req[w].step \in RefreshSteps
                /\ req'[w].tok = req[w].tok
      PROVE  Cardinality(Children(t)') + Cardinality(Inflight(t)') <= Cardinality(Workers)
  BY <1>5, <1>2 DEF Inflight, Inv, TypeOK
<1>6. ASSUME parent' = parent, req' = req
      PROVE  Cardinality(Children(t)') + Cardinality(Inflight(t)') <= Cardinality(Workers)
  BY <1>6, <1>2 DEF Inflight
<1>7. ASSUME NEW w \in Workers,
             \/ RefreshDenied(w) \/ RevokeCommit(w) \/ RowGone(w) \/ SweepCommit(w) \/ Abort(w)
             \/ \E ttl \in SignInTtls : SignInCommit(w, ttl)
      PROVE  Cardinality(Children(t)') + Cardinality(Inflight(t)') <= Cardinality(Workers)
  BY <1>7, <1>5 DEF RefreshDenied, RevokeCommit, RowGone, SweepCommit, Abort, SignInCommit, Finish,
                    Inv, TypeOK, Idle, RefreshSteps
<1>8. ASSUME NEW w \in Workers, RefreshRevoke(w) \/ RefreshLoadUser(w) \/ SweepRow(w)
      PROVE  Cardinality(Children(t)') + Cardinality(Inflight(t)') <= Cardinality(Workers)
  BY <1>8, <1>5 DEF RefreshRevoke, RefreshLoadUser, SweepRow, Inv, TypeOK, Request, RefreshSteps
<1>9. ASSUME NEW w \in Workers, NEW u \in Users, NEW ctx \in Tenants, NEW s \in TokenIds,
             LogoutFind(w, u, ctx, s)
      PROVE  Cardinality(Children(t)') + Cardinality(Inflight(t)') <= Cardinality(Workers)
  BY <1>9, <1>5 DEF LogoutFind, Inv, TypeOK, Idle, RefreshSteps
<1>10. ASSUME NEW w \in Workers, NEW u \in Users, NEW s \in TokenIds, OauthRevokeFind(w, u, s)
       PROVE  Cardinality(Children(t)') + Cardinality(Inflight(t)') <= Cardinality(Workers)
  BY <1>10, <1>5 DEF OauthRevokeFind, Inv, TypeOK, Idle, RefreshSteps
<1>11. ASSUME NEW w \in Workers, NEW u \in Users, NEW ctx \in Tenants, SweepStart(w, u, ctx)
       PROVE  Cardinality(Children(t)') + Cardinality(Inflight(t)') <= Cardinality(Workers)
  BY <1>11, <1>5 DEF SweepStart, Inv, TypeOK, Idle, RefreshSteps
<1>12. ASSUME NEW w \in Workers, NEW u \in Users, NEW b \in BOOLEAN, SignInLoad(w, u, b)
       PROVE  Cardinality(Children(t)') + Cardinality(Inflight(t)') <= Cardinality(Workers)
  BY <1>12, <1>5 DEF SignInLoad, Inv, TypeOK, Idle, RefreshSteps
<1> QED
  BY <1>1, <1>4, <1>6, <1>7, <1>8, <1>9, <1>10, <1>11, <1>12
  DEF Next, Start, Proceed, SetActive, Cleanup, Tick, vars

\* However many requests race, a token is exchanged at most once per request
\* that can be in flight.
THEOREM ForkBoundHolds == Spec => []ForkBound
<1>1. Init => ForkInv
  <2> SUFFICES ASSUME Init, NEW t \in TokenIds
               PROVE  Cardinality(Children(t)) + Cardinality(Inflight(t)) <= Cardinality(Workers)
      BY DEF ForkInv
  <2>1. Children(t) = {}
    BY ConstantsAssumption DEF Init, Children, TokenIds
  <2> QED
    BY <2>1, FS_EmptySet, FiniteCounts
<1>2. Inv /\ ForkInv /\ [Next]_vars => ForkInv'
  BY ForkStep
<1>3. ForkInv => ForkBound
  BY FiniteCounts DEF ForkInv, ForkBound
<1> QED
  BY <1>1, <1>2, <1>3, Invariance, PTL DEF Spec
=============================================================================
