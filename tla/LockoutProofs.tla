--------------------------- MODULE LockoutProofs ---------------------------
(***************************************************************************)
(* Safety of Lockout for any number of logins and accounts, and any        *)
(* lockout policy.                                                         *)
(***************************************************************************)
EXTENDS Lockout, FiniteSetTheorems, TLAPS

\* the logins of k that passed is_locked and have not ended
Busy(k) == {w \in Workers : req[w].step # "idle" /\ req[w].key = k}

\* Every login that may still record a failure was let in below the limit.
BusyBounded ==
    \A k \in Keys :
        Cardinality(Recent(k)) + Cardinality(Busy(k)) <= MaxAttempts - 1 + Cardinality(Workers)

\* lockedAt tells the locked keys, and who is busy with a locked key came first.
LockedAtOK ==
    /\ \A k \in Keys : lockedAt[k] = None <=> ~Locked(k)
    /\ \A w \in Workers : req[w].step # "idle" =>
          /\ req[w].at <= now
          /\ \A k \in Keys : req[w].key = k /\ Locked(k) => req[w].at <= lockedAt[k]

-----------------------------------------------------------------------------
(* Type correctness *)

\* The initial state has the declared types.
LEMMA InitType == Init => TypeOK
BY DEF Init, TypeOK, Request, Idle

\* lockedAt stays a time or None.
LEMMA RelockType ==
    ASSUME TypeOK, Relock, now' \in Nat
    PROVE  lockedAt' \in [Keys -> Nat \cup {None}]
<1> DEFINE L(k) == Locked(k)'
<1>1. lockedAt' = [k \in Keys |-> IF ~L(k) THEN None
                                  ELSE IF lockedAt[k] = None THEN now' ELSE lockedAt[k]]
  BY DEF Relock
<1> HIDE DEF L
<1> QED
  BY <1>1 DEF TypeOK

\* Every step keeps the declared types.
LEMMA NextType == TypeOK /\ [Next]_vars => TypeOK'
<1> SUFFICES ASSUME TypeOK, [Next]_vars PROVE TypeOK'
    OBVIOUS
<1> USE ConstantsAssumption
<1>1. ASSUME NEW w \in Workers, NEW k \in Keys, Check(w, k)
      PROVE  TypeOK'
  BY <1>1 DEF Check, TypeOK, Request
<1>2. ASSUME NEW w \in Workers, Refuse(w) \/ Verify(w)
      PROVE  TypeOK'
  BY <1>2 DEF Refuse, Verify, TypeOK, Request
<1>3. ASSUME NEW w \in Workers, Abandon(w)
      PROVE  TypeOK'
  BY <1>3 DEF Abandon, Finish, TypeOK, Request, Idle
<1>4. ASSUME NEW w \in Workers, RecordAttempt(w)
      PROVE  TypeOK'
  <2>1. PICK r \in RowIds : attempts' = [attempts EXCEPT ![r] = [key |-> req[w].key, at |-> now]]
    BY <1>4 DEF RecordAttempt
  <2>2. [key |-> req[w].key, at |-> now] \in Attempt
    BY <1>4 DEF RecordAttempt, TypeOK, Request, Attempt
  <2>3. attempts' \in [RowIds -> Attempt \cup {None}]
    BY <2>1, <2>2 DEF TypeOK
  <2>4. lockedAt' \in [Keys -> Nat \cup {None}]
    BY <1>4, RelockType DEF RecordAttempt, TypeOK
  <2> QED
    BY <1>4, <2>3, <2>4 DEF RecordAttempt, Finish, TypeOK, Request, Idle
<1>5. ASSUME NEW w \in Workers, ClearAttempts(w)
      PROVE  TypeOK'
  <2>1. attempts' \in [RowIds -> Attempt \cup {None}]
    BY <1>5 DEF ClearAttempts, TypeOK
  <2>2. lockedAt' \in [Keys -> Nat \cup {None}]
    BY <1>5, RelockType DEF ClearAttempts, TypeOK
  <2> QED
    BY <1>5, <2>1, <2>2 DEF ClearAttempts, Finish, TypeOK, Request, Idle
<1>6. CASE Cleanup
  <2>1. attempts' \in [RowIds -> Attempt \cup {None}]
    BY <1>6 DEF Cleanup, TypeOK
  <2>2. lockedAt' \in [Keys -> Nat \cup {None}]
    BY <1>6, RelockType DEF Cleanup, TypeOK
  <2> QED
    BY <1>6, <2>1, <2>2 DEF Cleanup, TypeOK
<1>7. CASE Tick
  <2>1. now' \in Nat
    BY <1>7 DEF Tick, TypeOK
  <2>2. lockedAt' \in [Keys -> Nat \cup {None}]
    BY <1>7, <2>1, RelockType DEF Tick
  <2> QED
    BY <1>7, <2>1, <2>2 DEF Tick, TypeOK
<1>8. CASE UNCHANGED vars
  BY <1>8 DEF vars, TypeOK
<1> QED
  BY <1>1, <1>2, <1>3, <1>4, <1>5, <1>6, <1>7, <1>8 DEF Next

\* The table, the logins and the locks always have their declared types.
THEOREM TypeCorrect == Spec => []TypeOK
BY InitType, NextType, PTL DEF Spec

-----------------------------------------------------------------------------
(* How many failures fit into a window *)

\* The sets counted are finite.
LEMMA FiniteCounts ==
    ASSUME NEW k
    PROVE  /\ IsFiniteSet(Recent(k)) /\ Cardinality(Recent(k)) \in Nat
           /\ IsFiniteSet(Busy(k)) /\ Cardinality(Busy(k)) \in Nat
           /\ Cardinality(Busy(k)) <= Cardinality(Workers)
           /\ Cardinality(Workers) \in Nat
<1>1. IsFiniteSet(RowIds)
  BY FS_Interval, ConstantsAssumption DEF RowIds
<1>2. Recent(k) \subseteq RowIds /\ Busy(k) \subseteq Workers
  BY DEF Recent, Busy
<1> QED
  BY <1>1, <1>2, FS_Subset, FS_CardinalityType, ConstantsAssumption

\* The same for the next state.
LEMMA FiniteCountsNext ==
    ASSUME NEW k
    PROVE  /\ IsFiniteSet(Recent(k)') /\ Cardinality(Recent(k)') \in Nat
           /\ IsFiniteSet(Busy(k)') /\ Cardinality(Busy(k)') \in Nat
           /\ Cardinality(Busy(k)') <= Cardinality(Workers)
<1>1. IsFiniteSet(RowIds)
  BY FS_Interval, ConstantsAssumption DEF RowIds
<1>2. Recent(k)' \subseteq RowIds /\ Busy(k)' \subseteq Workers
  BY DEF Recent, Busy
<1> QED
  BY <1>1, <1>2, FS_Subset, FS_CardinalityType, ConstantsAssumption

\* A set with one element more has a cardinality of at most one more.
LEMMA OneMore ==
    ASSUME NEW S, NEW T, NEW x, IsFiniteSet(S), T \subseteq S \cup {x}
    PROVE  Cardinality(T) <= Cardinality(S) + 1
<1>1. /\ IsFiniteSet(S \cup {x})
      /\ Cardinality(S \cup {x}) = IF x \in S THEN Cardinality(S) ELSE Cardinality(S) + 1
  BY FS_AddElement, Zenon
<1>2. Cardinality(T) <= Cardinality(S \cup {x}) /\ Cardinality(T) \in Nat
  BY <1>1, FS_Subset, FS_CardinalityType
<1>3. Cardinality(S) \in Nat
  BY FS_CardinalityType
<1> QED
  BY <1>1, <1>2, <1>3

\* Being let in needs fewer than MaxAttempts failures; recording one ends the
\* login; nothing else adds a failure or a login.
LEMMA BusyStep ==
    ASSUME TypeOK, BusyBounded, [Next]_vars
    PROVE  BusyBounded'
<1> USE ConstantsAssumption
<1> SUFFICES ASSUME NEW k \in Keys
             PROVE  Cardinality(Recent(k)') + Cardinality(Busy(k)') <= MaxAttempts - 1 + Cardinality(Workers)
    BY DEF BusyBounded
<1>0. Cardinality(Recent(k)) + Cardinality(Busy(k)) <= MaxAttempts - 1 + Cardinality(Workers)
  BY DEF BusyBounded
<1>1. ASSUME Recent(k)' \subseteq Recent(k), Busy(k)' \subseteq Busy(k)
      PROVE  Cardinality(Recent(k)') + Cardinality(Busy(k)') <= MaxAttempts - 1 + Cardinality(Workers)
  <2>1. Cardinality(Recent(k)') <= Cardinality(Recent(k)) /\ Cardinality(Busy(k)') <= Cardinality(Busy(k))
    BY <1>1, FS_Subset, FiniteCounts
  <2> QED
    BY <1>0, <2>1, FiniteCounts, FiniteCountsNext
<1>2. ASSUME NEW w \in Workers, NEW j \in Keys, Check(w, j)
      PROVE  Cardinality(Recent(k)') + Cardinality(Busy(k)') <= MaxAttempts - 1 + Cardinality(Workers)
  <2>1. Recent(k)' = Recent(k)
    BY <1>2 DEF Check, Recent, Row
  <2>2. CASE j = k
    <3>1. Cardinality(Recent(k)) <= MaxAttempts - 1
      BY <1>2, <2>2, FiniteCounts DEF Check, Locked
    <3> QED
      BY <2>1, <3>1, FiniteCounts, FiniteCountsNext
  <2>3. CASE j # k
    BY <1>1, <1>2, <2>1, <2>3 DEF Check, Busy, TypeOK
  <2> QED
    BY <2>2, <2>3
<1>3. ASSUME NEW w \in Workers, RecordAttempt(w)
      PROVE  Cardinality(Recent(k)') + Cardinality(Busy(k)') <= MaxAttempts - 1 + Cardinality(Workers)
  <2>1. PICK r \in RowIds : attempts' = [attempts EXCEPT ![r] = [key |-> req[w].key, at |-> now]]
    BY <1>3 DEF RecordAttempt
  <2>2. Busy(k)' = Busy(k) \ {w}
    BY <1>3 DEF RecordAttempt, Finish, Busy, Idle, TypeOK
  <2>3. CASE req[w].key = k
    <3>1. w \in Busy(k)
      BY <1>3, <2>3 DEF RecordAttempt, Busy
    <3>2. Cardinality(Busy(k)') = Cardinality(Busy(k)) - 1
      BY <2>2, <3>1, FS_RemoveElement, FiniteCounts
    <3>3. Recent(k)' \subseteq Recent(k) \cup {r}
      BY <1>3, <2>1 DEF RecordAttempt, Recent, Row, TypeOK
    <3>4. Cardinality(Recent(k)') <= Cardinality(Recent(k)) + 1
      BY <3>3, OneMore, FiniteCounts
    <3> QED
      BY <1>0, <3>2, <3>4, FiniteCounts, FiniteCountsNext
  <2>4. CASE req[w].key # k
    <3>1. Recent(k)' \subseteq Recent(k)
      BY <1>3, <2>1, <2>4 DEF RecordAttempt, Recent, Row, TypeOK
    <3> QED
      BY <1>1, <2>2, <3>1
  <2> QED
    BY <2>3, <2>4
<1>4. ASSUME NEW w \in Workers, Refuse(w) \/ Verify(w) \/ Abandon(w)
      PROVE  Recent(k)' \subseteq Recent(k) /\ Busy(k)' \subseteq Busy(k)
  BY <1>4 DEF Refuse, Verify, Abandon, Finish, Recent, Row, Busy, Idle, TypeOK, Request
<1>5. ASSUME NEW w \in Workers, ClearAttempts(w)
      PROVE  Recent(k)' \subseteq Recent(k) /\ Busy(k)' \subseteq Busy(k)
  BY <1>5 DEF ClearAttempts, Finish, Recent, Row, Busy, Idle, TypeOK
<1>6. CASE Cleanup
  <2>1. Recent(k)' \subseteq Recent(k) /\ Busy(k)' \subseteq Busy(k)
    BY <1>6 DEF Cleanup, Recent, Row, Busy, TypeOK
  <2> QED
    BY <1>1, <2>1
<1>7. CASE Tick
  <2>1. Recent(k)' \subseteq Recent(k)
    BY <1>7 DEF Tick, Recent, Row, TypeOK, Attempt
  <2>2. Busy(k)' \subseteq Busy(k)
    BY <1>7 DEF Tick, Busy
  <2> QED
    BY <1>1, <2>1, <2>2
<1>8. CASE UNCHANGED vars
  BY <1>8, <1>1 DEF vars, Recent, Row, Busy
<1> QED
  BY <1>1, <1>2, <1>3, <1>4, <1>5, <1>6, <1>7, <1>8 DEF Next

\* A window holds at most MaxAttempts - 1 failures and one per login in flight.
THEOREM FailuresBoundedHolds == Spec => []FailuresBounded
<1>1. Init => BusyBounded
  <2> SUFFICES ASSUME Init, NEW k \in Keys
               PROVE  Cardinality(Recent(k)) + Cardinality(Busy(k)) <= MaxAttempts - 1 + Cardinality(Workers)
      BY DEF BusyBounded
  <2>1. Recent(k) = {} /\ Busy(k) = {}
    BY DEF Init, Recent, Row, Busy, Idle
  <2> QED
    BY <2>1, FS_EmptySet, FiniteCounts, ConstantsAssumption
<1>2. TypeOK /\ BusyBounded /\ [Next]_vars => BusyBounded'
  BY BusyStep
<1>3. BusyBounded => FailuresBounded
  BY FiniteCounts, ConstantsAssumption DEF BusyBounded, FailuresBounded
<1> QED
  BY <1>1, <1>2, <1>3, TypeCorrect, PTL DEF Spec

-----------------------------------------------------------------------------
(* Who may unlock a key *)

\* A step that follows is_locked keeps LockedAtOK: logins only end in it, and
\* the clock is not set back.
LEMMA RelockKeeps ==
    ASSUME TypeOK, LockedAtOK, Relock, now' \in Nat, now <= now',
           \A w \in Workers : req'[w] = req[w] \/ req'[w] = Idle
    PROVE  LockedAtOK'
<1> DEFINE L(k) == Locked(k)'
<1>1. \A k \in Keys : lockedAt'[k] = IF ~L(k) THEN None
                                     ELSE IF lockedAt[k] = None THEN now' ELSE lockedAt[k]
  BY DEF Relock
<1>2. \A k \in Keys : lockedAt[k] = None <=> ~Locked(k)
  BY DEF LockedAtOK
<1>3. \A k \in Keys : lockedAt[k] \in Nat \cup {None}
  BY DEF TypeOK
<1>4. \A w \in Workers : req[w].step # "idle" => req[w].at \in Nat /\ req[w].at <= now
  BY DEF LockedAtOK, TypeOK, Request
<1>5. \A w \in Workers, k \in Keys :
         req[w].step # "idle" /\ req[w].key = k /\ Locked(k) => req[w].at <= lockedAt[k]
  BY DEF LockedAtOK
<1>6. \A w \in Workers : req'[w].step # "idle" => req'[w] = req[w]
  BY DEF Idle
<1>7. now \in Nat /\ None \notin Nat
  BY ConstantsAssumption DEF TypeOK
<1> HIDE DEF L
<1>8. \A k \in Keys : lockedAt'[k] = None <=> ~L(k)
  BY <1>1, <1>3, <1>7
<1>9. ASSUME NEW w \in Workers, req'[w].step # "idle"
      PROVE  req'[w].at <= now'
  BY <1>4, <1>6, <1>7, <1>9
<1>10. ASSUME NEW w \in Workers, req'[w].step # "idle",
              NEW k \in Keys, req'[w].key = k, L(k)
       PROVE  req'[w].at <= lockedAt'[k]
  <2>1. req'[w] = req[w] /\ req[w].at \in Nat /\ req[w].at <= now'
    BY <1>4, <1>6, <1>7, <1>10
  <2>2. CASE lockedAt[k] = None
    BY <1>1, <1>10, <2>1, <2>2
  <2>3. CASE lockedAt[k] # None
    <3>1. Locked(k)
      BY <1>2, <2>3
    <3> QED
      BY <1>1, <1>5, <1>10, <2>1, <2>3, <3>1
  <2> QED
    BY <2>2, <2>3
<1> QED
  BY <1>8, <1>9, <1>10 DEF L, LockedAtOK

\* A login is let in while its key is not locked; whatever may lock or unlock
\* a key follows is_locked.
LEMMA LockedAtStep == TypeOK /\ LockedAtOK /\ [Next]_vars => LockedAtOK'
<1> SUFFICES ASSUME TypeOK, LockedAtOK, [Next]_vars PROVE LockedAtOK'
    OBVIOUS
<1>0. now \in Nat
  BY DEF TypeOK
<1>1. ASSUME attempts' = attempts, now' = now, lockedAt' = lockedAt,
             \A u \in Workers : req'[u].step # "idle" =>
                \/ req[u].step # "idle" /\ req'[u].key = req[u].key /\ req'[u].at = req[u].at
                \/ \E k \in Keys : req'[u].key = k /\ req'[u].at = now /\ ~Locked(k)
      PROVE  LockedAtOK'
  <2>1. \A k \in Keys : Locked(k)' <=> Locked(k)
    BY <1>1 DEF Locked, Recent, Row
  <2> QED
    BY <1>0, <1>1, <2>1 DEF LockedAtOK
<1>2. ASSUME NEW w \in Workers, NEW k \in Keys, Check(w, k)
      PROVE  LockedAtOK'
  <2>1. \A u \in Workers : req'[u] = IF u = w THEN [step |-> "checked", key |-> k, at |-> now] ELSE req[u]
    BY <1>2 DEF Check, TypeOK
  <2>2. ~Locked(k) /\ attempts' = attempts /\ now' = now /\ lockedAt' = lockedAt
    BY <1>2 DEF Check
  <2>3. \A u \in Workers : req'[u].step # "idle" =>
           \/ req[u].step # "idle" /\ req'[u].key = req[u].key /\ req'[u].at = req[u].at
           \/ \E j \in Keys : req'[u].key = j /\ req'[u].at = now /\ ~Locked(j)
    BY <2>1, <2>2
  <2> QED
    BY <1>1, <2>2, <2>3
<1>3. ASSUME NEW w \in Workers, Refuse(w) \/ Verify(w)
      PROVE  LockedAtOK'
  <2>1. attempts' = attempts /\ now' = now /\ lockedAt' = lockedAt
    BY <1>3 DEF Refuse, Verify
  <2>2. \A u \in Workers : req'[u].step # "idle" =>
           req[u].step # "idle" /\ req'[u].key = req[u].key /\ req'[u].at = req[u].at
    BY <1>3 DEF Refuse, Verify, TypeOK, Request
  <2> QED
    BY <1>1, <2>1, <2>2
<1>4. ASSUME NEW w \in Workers, Abandon(w)
      PROVE  LockedAtOK'
  <2>1. attempts' = attempts /\ now' = now /\ lockedAt' = lockedAt
    BY <1>4 DEF Abandon
  <2>2. \A u \in Workers : req'[u].step # "idle" =>
           req[u].step # "idle" /\ req'[u].key = req[u].key /\ req'[u].at = req[u].at
    BY <1>4 DEF Abandon, Finish, Idle, TypeOK
  <2> QED
    BY <1>1, <2>1, <2>2
<1>5. ASSUME NEW w \in Workers, RecordAttempt(w) \/ ClearAttempts(w)
      PROVE  LockedAtOK'
  BY <1>0, <1>5, RelockKeeps DEF RecordAttempt, ClearAttempts, Finish, TypeOK
<1>6. CASE Cleanup
  BY <1>0, <1>6, RelockKeeps DEF Cleanup
<1>7. CASE Tick
  BY <1>0, <1>7, RelockKeeps DEF Tick
<1>8. CASE UNCHANGED vars
  <2>1. attempts' = attempts /\ now' = now /\ lockedAt' = lockedAt /\ req' = req
    BY <1>8 DEF vars
  <2> QED
    BY <1>1, <2>1
<1> QED
  BY <1>2, <1>3, <1>4, <1>5, <1>6, <1>7, <1>8 DEF Next

\* Only a login let in before the lock began can take the lock away.
THEOREM OnlyEarlierLoginUnlocksHolds == Spec => OnlyEarlierLoginUnlocks
<1>1. Init => LockedAtOK
  <2> SUFFICES ASSUME Init PROVE LockedAtOK
      OBVIOUS
  <2>1. \A k \in Keys : ~Locked(k)
    <3> SUFFICES ASSUME NEW k \in Keys PROVE ~Locked(k)
        OBVIOUS
    <3>1. Recent(k) = {}
      BY DEF Init, Recent, Row
    <3> QED
      BY <3>1, FS_EmptySet, ConstantsAssumption DEF Locked
  <2> QED
    BY <2>1 DEF Init, LockedAtOK, Idle
<1>2. TypeOK /\ LockedAtOK /\ [Next]_vars => LockedAtOK'
  BY LockedAtStep
<1>3. LockedAtOK =>
        [\A w \in Workers, k \in Keys :
            ClearAttempts(w) /\ req[w].key = k /\ Locked(k) => req[w].at <= lockedAt[k]]_vars
  BY DEF LockedAtOK, ClearAttempts
<1> QED
  BY <1>1, <1>2, <1>3, TypeCorrect, PTL DEF Spec, OnlyEarlierLoginUnlocks

-----------------------------------------------------------------------------
(* What the cleanup leaves *)

\* With a window no longer than what the cleanup keeps, it takes no failure
\* that is_locked counts.  put_lockout accepts longer windows.
THEOREM CleanupKeepsRecentHolds ==
    ASSUME Window <= CleanupWindow
    PROVE  Spec => CleanupKeepsRecent
<1>1. TypeOK => [Cleanup => \A k \in Keys : Recent(k)' = Recent(k)]_vars
  <2> SUFFICES ASSUME TypeOK, Cleanup, NEW k \in Keys PROVE Recent(k)' = Recent(k)
      OBVIOUS
  <2>1. now \in Nat /\ now' = now /\ Window \in Nat /\ CleanupWindow \in Nat
    BY ConstantsAssumption DEF TypeOK, Cleanup
  <2>2. \A r \in RowIds : attempts'[r] = IF attempts[r] # None /\ attempts[r].at < now - CleanupWindow
                                         THEN None ELSE attempts[r]
    BY DEF Cleanup
  <2>3. \A r \in RowIds : attempts[r] # None => attempts[r].at \in Nat
    BY DEF TypeOK, Attempt
  <2> QED
    BY <2>1, <2>2, <2>3 DEF Recent, Row
<1> QED
  BY <1>1, TypeCorrect, PTL DEF CleanupKeepsRecent
=============================================================================
