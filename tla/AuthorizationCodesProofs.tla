---------------------- MODULE AuthorizationCodesProofs ----------------------
(***************************************************************************)
(* Safety of AuthorizationCodes for any number of requests, codes and      *)
(* clients, and any lifetime of a code.                                    *)
(***************************************************************************)
EXTENDS AuthorizationCodes, FiniteSetTheorems, TLAPS

\* Under way: a code has been read and its exchange has not ended.
Loaded(w) == req[w].step \in {"loaded", "checked", "marked"}
Exchanging(c) == {w \in Workers : Loaded(w) /\ req[w].code = c}

\* An exchange knows a code that was there, in time.
ExchangesOK ==
    \A w \in Workers : Loaded(w) =>
        /\ codes[req[w].code] # None
        /\ req[w].at <= codes[req[w].code].expires

\* Each redemption takes one exchange, and none enters once there was one.
ExchangesBounded ==
    \A c \in Codes : issued[c] + Cardinality(Exchanging(c)) <= Cardinality(Workers)

\* a code that is not in the table has not been redeemed
UnbornUnissued == \A c \in Codes : codes[c] = None => issued[c] = 0

\* the inductive invariant, but for the count
Inv == TypeOK /\ ExchangesOK /\ LocksHeld /\ RedemptionAtomic /\ UsedInTime /\ UnbornUnissued

-----------------------------------------------------------------------------
(* Requests *)

\* A request is idle, authorizing or exchanging a code.
LEMMA RequestForms ==
    ASSUME TypeOK, NEW w \in Workers
    PROVE  /\ req[w] \in Request
           /\ req[w].step \in {"idle", "authorizing", "loaded", "checked", "marked"}
           /\ req[w].step = "idle" <=> req[w] = Idle
           /\ Loaded(w) => req[w].code \in Codes /\ req[w].client \in Clients /\ req[w].at \in Nat
           /\ req[w].step = "authorizing" => req[w].client \in Clients
BY DEF TypeOK, Request, Idle, Loaded

\* The initial state satisfies the invariant.
LEMMA InitInv == Init => Inv
BY ConstantsAssumption DEF Init, Inv, TypeOK, Request, Idle, Code, Loaded, ExchangesOK, LocksHeld,
   RedemptionAtomic, UsedInTime, UnbornUnissued

\* The end of a request keeps the types of requests and locks.
LEMMA FinishType ==
    ASSUME TypeOK, NEW w \in Workers, Finish(w)
    PROVE  /\ req' \in [Workers -> Request]
           /\ locks' \in [Codes -> Workers \cup {None}]
BY DEF Finish, Release, TypeOK, Request, Idle

\* Every step keeps the declared types.
LEMMA NextType == TypeOK /\ ExchangesOK /\ [Next]_vars => TypeOK'
<1> SUFFICES ASSUME TypeOK, ExchangesOK, [Next]_vars PROVE TypeOK'
    OBVIOUS
<1> USE ConstantsAssumption
<1>1. ASSUME NEW w \in Workers, NEW a \in Clients, AuthorizeClient(w, a)
      PROVE  TypeOK'
  BY <1>1 DEF AuthorizeClient, TypeOK, Request, Idle
<1>2. ASSUME NEW w \in Workers, AuthorizeCommit(w)
      PROVE  TypeOK'
  <2>1. PICK c \in Codes :
            codes' = [codes EXCEPT ![c] = [client |-> req[w].client, expires |-> now + CodeTTL, used |-> None]]
    BY <1>2 DEF AuthorizeCommit
  <2>2. [client |-> req[w].client, expires |-> now + CodeTTL, used |-> None] \in Code
    BY <1>2, RequestForms DEF AuthorizeCommit, Code, TypeOK
  <2>3. codes' \in [Codes -> Code \cup {None}]
    BY <2>1, <2>2 DEF TypeOK
  <2> QED
    BY <1>2, <2>3, FinishType DEF AuthorizeCommit, TypeOK
<1>3. ASSUME NEW w \in Workers, NEW c \in Codes, Load(w, c)
      PROVE  TypeOK'
  <2>1. codes[c] \in Code
    BY <1>3 DEF Load, Usable, TypeOK
  <2>2. [step |-> "loaded", code |-> c, client |-> codes[c].client, at |-> now] \in Request
    BY <2>1 DEF Code, Request, TypeOK
  <2> QED
    BY <1>3, <2>2 DEF Load, TypeOK
<1>4. ASSUME NEW w \in Workers, CheckClient(w)
      PROVE  TypeOK'
  BY <1>4 DEF CheckClient, TypeOK, Request
<1>5. ASSUME NEW w \in Workers, Refuse(w) \/ Rollback(w)
      PROVE  TypeOK'
  BY <1>5, FinishType DEF Refuse, Rollback, TypeOK
<1>6. ASSUME NEW w \in Workers, MarkUsed(w)
      PROVE  TypeOK'
  <2>1. req[w].code \in Codes
    BY <1>6, RequestForms DEF MarkUsed, Loaded
  <2>2. locks' \in [Codes -> Workers \cup {None}]
    BY <1>6, <2>1 DEF MarkUsed, TypeOK
  <2>3. req' \in [Workers -> Request]
    BY <1>6 DEF MarkUsed, TypeOK, Request
  <2> QED
    BY <1>6, <2>2, <2>3 DEF MarkUsed, TypeOK
<1>7. ASSUME NEW w \in Workers, Commit(w)
      PROVE  TypeOK'
  <2>1. req[w].code \in Codes /\ req[w].at \in Nat
    BY <1>7, RequestForms DEF Commit, Loaded
  <2>2. codes[req[w].code] \in Code
    BY <1>7, <2>1 DEF Commit, TypeOK, ExchangesOK, Loaded
  <2>3. codes' \in [Codes -> Code \cup {None}]
    BY <1>7, <2>1, <2>2 DEF Commit, TypeOK, Code
  <2>4. issued' \in [Codes -> Nat]
    BY <1>7, <2>1 DEF Commit, TypeOK
  <2> QED
    BY <1>7, <2>3, <2>4, FinishType DEF Commit, TypeOK
<1>8. ASSUME NEW a \in Clients, Deactivate(a)
      PROVE  TypeOK'
  BY <1>8 DEF Deactivate, TypeOK
<1>9. CASE Tick
  BY <1>9 DEF Tick, TypeOK
<1>10. CASE UNCHANGED vars
  BY <1>10 DEF vars, TypeOK
<1> QED
  BY <1>1, <1>2, <1>3, <1>4, <1>5, <1>6, <1>7, <1>8, <1>9, <1>10 DEF Next

-----------------------------------------------------------------------------
(* The codes and the exchanges *)

\* A step of a request leaves the requests of others alone.
LEMMA OnlyOwnRequest ==
    ASSUME TypeOK, [Next]_vars
    PROVE  \A v \in Workers : req'[v] = req[v] \/
              \E w \in Workers :
                 /\ v = w
                 /\ \/ \E a \in Clients : AuthorizeClient(w, a)
                    \/ \E c \in Codes : Load(w, c)
                    \/ AuthorizeCommit(w) \/ CheckClient(w) \/ Refuse(w)
                    \/ MarkUsed(w) \/ Commit(w) \/ Rollback(w)
BY DEF Next, vars, TypeOK, AuthorizeClient, Load, AuthorizeCommit, CheckClient, Refuse, MarkUsed,
   Commit, Rollback, Finish, Deactivate, Tick

\* Authorizing, and every end of a request, leaves no exchange under way.
LEMMA NotLoaded ==
    ASSUME TypeOK, NEW w \in Workers,
           \/ \E a \in Clients : AuthorizeClient(w, a)
           \/ AuthorizeCommit(w) \/ Refuse(w) \/ Commit(w) \/ Rollback(w)
    PROVE  ~Loaded(w)'
<1>1. ASSUME NEW a \in Clients, AuthorizeClient(w, a)
      PROVE  ~Loaded(w)'
  <2>1. req'[w].step = "authorizing"
    BY <1>1 DEF AuthorizeClient, Idle, TypeOK
  <2> QED
    BY <2>1 DEF Loaded
<1>2. ASSUME Finish(w)
      PROVE  ~Loaded(w)'
  <2>1. req'[w].step = "idle"
    BY <1>2 DEF Finish, Idle, TypeOK
  <2> QED
    BY <2>1 DEF Loaded
<1> QED
  BY <1>1, <1>2 DEF AuthorizeCommit, Refuse, Commit, Rollback

\* A code that is in the table stays there, with the expiry it was given.
LEMMA CodesStay ==
    ASSUME TypeOK, ExchangesOK, [Next]_vars, NEW c \in Codes, codes[c] # None
    PROVE  codes'[c] # None /\ codes'[c].expires = codes[c].expires
<1> USE ConstantsAssumption
<1>1. codes[c] \in Code
  BY DEF TypeOK
<1>2. ASSUME NEW w \in Workers, AuthorizeCommit(w)
      PROVE  codes'[c] = codes[c]
  BY <1>2 DEF AuthorizeCommit, TypeOK
<1>3. ASSUME NEW w \in Workers, Commit(w)
      PROVE  codes'[c] \in Code /\ codes'[c].expires = codes[c].expires
  <2>1. req[w].code \in Codes /\ req[w].at \in Nat
    BY <1>3, RequestForms DEF Commit, Loaded
  <2> QED
    BY <1>1, <1>3, <2>1 DEF Commit, TypeOK, Code
<1>4. codes' = codes \/ \E w \in Workers : AuthorizeCommit(w) \/ Commit(w)
  BY DEF Next, vars, AuthorizeClient, Load, CheckClient, Refuse, MarkUsed, Rollback, Deactivate, Tick
<1>5. codes[c] # None /\ None \notin Code
  BY DEF Code
<1> QED
  BY <1>1, <1>2, <1>3, <1>4, <1>5

\* Exchanges keep knowing a code that is there.
LEMMA NextExchanges ==
    ASSUME TypeOK, ExchangesOK, [Next]_vars
    PROVE  ExchangesOK'
<1> USE ConstantsAssumption
<1> SUFFICES ASSUME NEW v \in Workers, Loaded(v)'
             PROVE  /\ codes'[req'[v].code] # None
                    /\ req'[v].at <= codes'[req'[v].code].expires
  BY DEF ExchangesOK
<1>1. CASE Loaded(v) /\ req'[v].code = req[v].code /\ req'[v].at = req[v].at
  <2>1. req[v].code \in Codes
    BY <1>1, RequestForms
  <2> QED
    BY <1>1, <2>1, CodesStay DEF ExchangesOK
<1>2. CASE ~(Loaded(v) /\ req'[v].code = req[v].code /\ req'[v].at = req[v].at)
  <2>1. req'[v] # req[v]
    BY <1>2 DEF Loaded
  <2>2. ASSUME \/ \E a \in Clients : AuthorizeClient(v, a)
               \/ AuthorizeCommit(v) \/ Refuse(v) \/ Commit(v) \/ Rollback(v)
        PROVE  FALSE
    BY <2>2, NotLoaded
  <2>3. ASSUME CheckClient(v) \/ MarkUsed(v)
        PROVE  FALSE
    BY <1>2, <2>3 DEF CheckClient, MarkUsed, Loaded, TypeOK, Request
  <2>4. PICK c \in Codes : Load(v, c)
    BY <2>1, <2>2, <2>3, OnlyOwnRequest
  <2>5. codes[c] # None /\ codes[c].expires \in Nat /\ now <= codes[c].expires
    BY <2>4 DEF Load, Usable, TypeOK, Code
  <2>6. req'[v].code = c /\ req'[v].at = now /\ codes' = codes
    BY <2>4 DEF Load, TypeOK
  <2> QED
    BY <2>5, <2>6
<1> QED
  BY <1>1, <1>2

\* A lock is held by the exchange that has marked the row, and by one at a time.
LEMMA NextLocks ==
    ASSUME TypeOK, LocksHeld, [Next]_vars
    PROVE  LocksHeld'
<1> USE ConstantsAssumption
<1>1. ASSUME NEW w \in Workers, Finish(w)
      PROVE  LocksHeld'
  BY <1>1, RequestForms DEF Finish, Release, LocksHeld, TypeOK, Idle, Loaded
<1>2. ASSUME NEW w \in Workers, MarkUsed(w)
      PROVE  LocksHeld'
  <2>1. req[w].code \in Codes
    BY <1>2, RequestForms DEF MarkUsed, Loaded
  <2>2. req' = [req EXCEPT ![w].step = "marked"] /\ req[w].step = "checked"
    BY <1>2 DEF MarkUsed
  <2>3. \A v \in Workers : req'[v].code = req[v].code /\ (v # w => req'[v] = req[v])
    BY <2>2 DEF TypeOK, Request
  <2>4. req'[w].step = "marked"
    BY <2>2 DEF TypeOK, Request
  <2> QED
    BY <1>2, <2>1, <2>2, <2>3, <2>4 DEF MarkUsed, LocksHeld, TypeOK
<1>3. ASSUME NEW w \in Workers, NEW r, req' = [req EXCEPT ![w] = r], locks' = locks,
             req[w].step # "marked", r.step # "marked"
      PROVE  LocksHeld'
  BY <1>3 DEF LocksHeld, TypeOK
<1>4. ASSUME NEW w \in Workers, NEW a \in Clients, AuthorizeClient(w, a)
      PROVE  LocksHeld'
  <2>1. req[w].step # "marked" /\ [Idle EXCEPT !.step = "authorizing", !.client = a].step # "marked"
    BY <1>4 DEF AuthorizeClient, Idle
  <2> QED
    BY <1>3, <1>4, <2>1 DEF AuthorizeClient
<1>5. ASSUME NEW w \in Workers, NEW c \in Codes, Load(w, c)
      PROVE  LocksHeld'
  <2>1. req[w].step # "marked"
    BY <1>5 DEF Load, Idle
  <2> DEFINE r == [step |-> "loaded", code |-> c, client |-> codes[c].client, at |-> now]
  <2>2. req' = [req EXCEPT ![w] = r] /\ locks' = locks /\ r.step # "marked"
    BY <1>5 DEF Load
  <2> HIDE DEF r
  <2> QED
    BY <1>3, <2>1, <2>2
<1>6. ASSUME NEW w \in Workers, CheckClient(w)
      PROVE  LocksHeld'
  <2>1. req' = [req EXCEPT ![w] = [req[w] EXCEPT !.step = "checked"]] /\ locks' = locks
    BY <1>6 DEF CheckClient
  <2>2. req[w].step # "marked" /\ [req[w] EXCEPT !.step = "checked"].step # "marked"
    BY <1>6 DEF CheckClient, TypeOK, Request
  <2> QED
    BY <1>3, <2>1, <2>2
<1>7. ASSUME req' = req, locks' = locks
      PROVE  LocksHeld'
  BY <1>7 DEF LocksHeld
<1> QED
  BY <1>1, <1>2, <1>4, <1>5, <1>6, <1>7
     DEF Next, AuthorizeCommit, Refuse, Commit, Rollback, Deactivate, Tick, vars

\* The mark and the refresh token come together, and in time.
LEMMA NextRedemption ==
    ASSUME Inv, [Next]_vars
    PROVE  RedemptionAtomic' /\ UsedInTime' /\ UnbornUnissued'
<1> USE ConstantsAssumption DEF Inv
<1>1. ASSUME NEW w \in Workers, AuthorizeCommit(w)
      PROVE  RedemptionAtomic' /\ UsedInTime' /\ UnbornUnissued'
  <2> DEFINE new == [client |-> req[w].client, expires |-> now + CodeTTL, used |-> None]
  <2>1. PICK c \in Codes : codes[c] = None /\ codes' = [codes EXCEPT ![c] = new]
    BY <1>1 DEF AuthorizeCommit
  <2>2. issued' = issued /\ new.used = None
    BY <1>1 DEF AuthorizeCommit
  <2>3. new \in Code
    BY <1>1, RequestForms DEF AuthorizeCommit, Code, TypeOK
  <2>4. new # None
    BY <2>3 DEF Code
  <2> HIDE DEF new
  <2> QED
    BY <2>1, <2>2, <2>4 DEF RedemptionAtomic, UsedInTime, UnbornUnissued, TypeOK
<1>2. ASSUME NEW w \in Workers, Commit(w)
      PROVE  RedemptionAtomic' /\ UsedInTime' /\ UnbornUnissued'
  <2> DEFINE c == req[w].code
  <2>1. c \in Codes /\ req[w].at \in Nat /\ Loaded(w)
    BY <1>2, RequestForms DEF Commit, Loaded
  <2>2. codes[c] \in Code /\ req[w].at <= codes[c].expires
    BY <2>1 DEF TypeOK, ExchangesOK
  <2>3. codes'[c] = [codes[c] EXCEPT !.used = req[w].at] /\ issued'[c] = issued[c] + 1
    BY <1>2, <2>1 DEF Commit, TypeOK
  <2>4. \A d \in Codes \ {c} : codes'[d] = codes[d] /\ issued'[d] = issued[d]
    BY <1>2, <2>1 DEF Commit, TypeOK
  <2>5. codes'[c] \in Code /\ codes'[c].used = req[w].at /\ codes'[c].expires = codes[c].expires
    BY <2>1, <2>2, <2>3 DEF Code
  <2>6. issued'[c] > 0
    BY <2>1, <2>3 DEF TypeOK
  <2>7. codes'[c] # None /\ codes'[c].used # None
    BY <2>1, <2>5 DEF Code
  <2> HIDE DEF c
  <2> QED
    BY <2>1, <2>2, <2>4, <2>5, <2>6, <2>7 DEF RedemptionAtomic, UsedInTime, UnbornUnissued
<1>3. (codes' = codes /\ issued' = issued) \/ \E w \in Workers : AuthorizeCommit(w) \/ Commit(w)
  BY DEF Next, vars, AuthorizeClient, Load, CheckClient, Refuse, MarkUsed, Rollback, Deactivate, Tick
<1>4. ASSUME codes' = codes, issued' = issued
      PROVE  RedemptionAtomic' /\ UsedInTime' /\ UnbornUnissued'
  BY <1>4 DEF RedemptionAtomic, UsedInTime, UnbornUnissued
<1> QED
  BY <1>1, <1>2, <1>3, <1>4

\* The invariant is inductive.
LEMMA NextInv == Inv /\ [Next]_vars => Inv'
BY NextType, NextExchanges, NextLocks, NextRedemption DEF Inv

-----------------------------------------------------------------------------
(* How often a code is redeemed *)

\* Exchanges are requests, of which there are finitely many.
LEMMA ExchangingFinite ==
    ASSUME NEW c \in Codes
    PROVE  /\ IsFiniteSet(Exchanging(c))
           /\ Cardinality(Exchanging(c)) \in Nat
           /\ Cardinality(Exchanging(c)) <= Cardinality(Workers)
           /\ Cardinality(Workers) \in Nat
<1>1. Exchanging(c) \subseteq Workers /\ IsFiniteSet(Workers)
  BY ConstantsAssumption DEF Exchanging
<1> QED
  BY <1>1, FS_Subset, FS_CardinalityType

\* An exchange enters only for a code that has not been redeemed, and one that
\* redeems it leaves.
LEMMA NextBounded ==
    ASSUME Inv, Inv', ExchangesBounded, [Next]_vars
    PROVE  ExchangesBounded'
<1> USE ConstantsAssumption
<1> SUFFICES ASSUME NEW c \in Codes
             PROVE  issued'[c] + Cardinality(Exchanging(c)') <= Cardinality(Workers)
  BY DEF ExchangesBounded
<1>1. /\ issued[c] \in Nat /\ issued'[c] \in Nat
      /\ issued[c] + Cardinality(Exchanging(c)) <= Cardinality(Workers)
  BY DEF Inv, TypeOK, ExchangesBounded
<1>2. Cardinality(Exchanging(c)') \in Nat /\ Cardinality(Exchanging(c)') <= Cardinality(Workers)
  <2>1. Exchanging(c)' \subseteq Workers /\ IsFiniteSet(Workers)
    BY DEF Exchanging
  <2> QED
    BY <2>1, FS_Subset, FS_CardinalityType
<1>3. CASE \E w \in Workers : Load(w, c)
  <2>1. issued[c] = 0
    BY <1>1, <1>3 DEF Load, Usable, Inv, RedemptionAtomic
  <2>2. issued'[c] = issued[c]
    BY <1>3 DEF Load
  <2> QED
    BY <1>2, <2>1, <2>2
<1>4. ASSUME NEW w \in Workers, Commit(w), req[w].code = c
      PROVE  issued'[c] + Cardinality(Exchanging(c)') <= Cardinality(Workers)
  <2>1. w \in Exchanging(c) /\ Loaded(w)
    BY <1>4 DEF Commit, Exchanging, Loaded
  <2>2. issued'[c] = issued[c] + 1
    BY <1>4 DEF Commit, Inv, TypeOK
  <2>3. req' = [req EXCEPT ![w] = Idle]
    BY <1>4 DEF Commit, Finish
  <2>4. Exchanging(c)' = Exchanging(c) \ {w}
    BY <2>3 DEF Exchanging, Loaded, Idle, Inv, TypeOK
  <2>5. Cardinality(Exchanging(c)') = Cardinality(Exchanging(c)) - 1
    BY <2>1, <2>4, ExchangingFinite, FS_RemoveElement
  <2> QED
    BY <1>1, <2>2, <2>5, ExchangingFinite
<1>5. ASSUME ~\E w \in Workers : Load(w, c), ~\E w \in Workers : Commit(w) /\ req[w].code = c
      PROVE  issued'[c] + Cardinality(Exchanging(c)') <= Cardinality(Workers)
  <2>1. issued'[c] = issued[c]
    <3>1. ASSUME NEW w \in Workers, Commit(w) PROVE issued'[c] = issued[c]
      <4>1. req[w].code # c
        BY <1>5, <3>1
      <4> QED
        BY <3>1, <4>1 DEF Commit, Inv, TypeOK
    <3> QED
      BY <3>1 DEF Next, vars, AuthorizeClient, AuthorizeCommit, Load, CheckClient, Refuse, MarkUsed,
         Rollback, Deactivate, Tick
  <2>2. Exchanging(c)' \subseteq Exchanging(c)
    <3> SUFFICES ASSUME NEW v \in Workers, Loaded(v)', req'[v].code = c
                 PROVE  Loaded(v) /\ req[v].code = c
      BY DEF Exchanging
    <3>0. \A w \in Workers : ~Load(w, c)
      BY <1>5
    <3>1. CASE req'[v] = req[v]
      BY <3>1 DEF Loaded
    <3>2. CASE CheckClient(v) \/ MarkUsed(v)
      BY <3>2 DEF CheckClient, MarkUsed, Loaded, Inv, TypeOK, Request
    <3>3. CASE \E d \in Codes : Load(v, d)
      <4>1. PICK d \in Codes : Load(v, d)
        BY <3>3
      <4>2. req'[v].code = d
        BY <4>1 DEF Load, Inv, TypeOK
      <4> QED
        BY <3>0, <4>1, <4>2
    <3>4. CASE (\E a \in Clients : AuthorizeClient(v, a)) \/ AuthorizeCommit(v) \/ Refuse(v)
               \/ Commit(v) \/ Rollback(v)
      BY <3>4, NotLoaded DEF Inv
    <3> QED
      BY <3>1, <3>2, <3>3, <3>4, OnlyOwnRequest DEF Inv
  <2>3. Cardinality(Exchanging(c)') <= Cardinality(Exchanging(c))
    BY <2>2, ExchangingFinite, FS_Subset
  <2> QED
    BY <1>1, <1>2, <2>1, <2>3, ExchangingFinite
<1> QED
  BY <1>3, <1>4, <1>5

\* At first nothing is redeemed and nobody exchanges anything.
LEMMA InitBounded == Init => ExchangesBounded
<1> SUFFICES ASSUME Init, NEW c \in Codes
             PROVE  issued[c] + Cardinality(Exchanging(c)) <= Cardinality(Workers)
  BY DEF ExchangesBounded
<1>1. issued[c] = 0
  BY DEF Init
<1> QED
  BY <1>1, ExchangingFinite

-----------------------------------------------------------------------------
(* The theorems *)

\* The invariant holds in every reachable state of the authorization-code grant.
THEOREM Invariance == Spec => [](Inv /\ ExchangesBounded)
<1>1. Init => Inv /\ ExchangesBounded
  BY InitInv, InitBounded
<1>2. Inv /\ ExchangesBounded /\ [Next]_vars => (Inv /\ ExchangesBounded)'
  BY NextInv, NextBounded
<1> QED
  BY <1>1, <1>2, PTL DEF Spec

\* The table, the locks and the requests keep their types (oauth_as.rs).
THEOREM TypeCorrect == Spec => []TypeOK
<1>1. Inv => TypeOK
  BY DEF Inv
<1> QED
  BY <1>1, Invariance, PTL

\* However exchanges fail, a code is marked used exactly if a refresh token
\* was issued for it (exchange_code, oauth_as.rs:282).
THEOREM RedemptionAtomicHolds == Spec => []RedemptionAtomic
<1>1. Inv => RedemptionAtomic
  BY DEF Inv
<1> QED
  BY <1>1, Invariance, PTL

\* A code is never marked used later than it expires (oauth_as.rs:238).
THEOREM UsedInTimeHolds == Spec => []UsedInTime
<1>1. Inv => UsedInTime
  BY DEF Inv
<1> QED
  BY <1>1, Invariance, PTL

\* A row of authorization_codes is held by the one exchange that marked it.
THEOREM LocksHeldHolds == Spec => []LocksHeld
<1>1. Inv => LocksHeld
  BY DEF Inv
<1> QED
  BY <1>1, Invariance, PTL

\* A code is redeemed at most once by each request that is served, however
\* many requests race for it (used_at is read before the transaction that
\* sets it, oauth_as.rs:241).
THEOREM RedemptionsBoundedHolds == Spec => []RedemptionsBounded
<1>1. Inv /\ ExchangesBounded => RedemptionsBounded
  <2> SUFFICES ASSUME Inv, ExchangesBounded, NEW c \in Codes
               PROVE  issued[c] <= Cardinality(Workers)
    BY DEF RedemptionsBounded
  <2>1. issued[c] \in Nat /\ issued[c] + Cardinality(Exchanging(c)) <= Cardinality(Workers)
    BY DEF Inv, TypeOK, ExchangesBounded
  <2> QED
    BY <2>1, ExchangingFinite
<1> QED
  BY <1>1, Invariance, PTL

=============================================================================
