-------------------------- MODULE RateLimitProofs --------------------------
(***************************************************************************)
(* The rate limiter implements the fixed-window limiter, for any number of *)
(* requests, clients and server processes.                                 *)
(***************************************************************************)
EXTENDS RateLimit, FiniteSetTheorems, TLAPS

\* every time of window w is over, whatever clock shows it
Over(w) == \A t \in Times : WindowOf(t) = w => t + Width < now

\* A bucket outlives its window by a window; a request that is waiting read a
\* clock that was Skew away at most.
BucketsLast ==
    /\ \A k \in Keys, w \in Windows, t \in Times :
          buckets[k][w] # None /\ WindowOf(t) = w => t + Width < buckets[k][w].expires
    /\ \A i \in Requests : requests[i].step = "waiting" => requests[i].sent <= requests[i].at + Skew

\* A window whose requests are no longer counted in a bucket is over.
Inv ==
    /\ BucketsLast
    /\ CountsExecuted
    /\ \A k \in Keys, w \in Windows :
          buckets[k][w] = None /\ Executed(k, w) # {} => Over(w)

-----------------------------------------------------------------------------
(* Windows and counts *)

\* Two times of a window are less than a window apart.
LEMMA SameWindow ==
    ASSUME NEW s \in Nat, NEW t \in Nat, WindowOf(s) = WindowOf(t)
    PROVE  t < s + Width
<1>1. Width \in Nat \ {0}
  BY ConstantsAssumption
<1>2. /\ Width * (s \div Width) <= s /\ s < Width * (s \div Width) + Width
      /\ Width * (t \div Width) <= t /\ t < Width * (t \div Width) + Width
  BY <1>1, Z3
<1> QED
  BY <1>1, <1>2 DEF WindowOf

\* A window is a natural number.
LEMMA WindowNat == Windows \subseteq Nat
<1> SUFFICES ASSUME NEW t \in Nat PROVE t \div Width \in Nat
    BY ConstantsAssumption DEF Windows, WindowOf, Times
<1>1. Width \in Nat \ {0}
  BY ConstantsAssumption
<1> QED
  BY <1>1, Z3

\* The sets counted are finite.
LEMMA FiniteExecuted ==
    ASSUME NEW k, NEW w
    PROVE  /\ IsFiniteSet(Executed(k, w)) /\ Cardinality(Executed(k, w)) \in Nat
           /\ Executed(k, w) = {} <=> Cardinality(Executed(k, w)) = 0
<1>1. Executed(k, w) \subseteq Requests /\ IsFiniteSet(Requests)
  BY ConstantsAssumption DEF Executed
<1> QED
  BY <1>1, FS_Subset, FS_CardinalityType, FS_EmptySet

-----------------------------------------------------------------------------
(* Type correctness *)

\* A request that is counted leaves a well-typed bucket.
LEMMA UpsertType ==
    ASSUME TypeOK, NEW i \in Requests, requests[i].step = "waiting", Upsert(i)
    PROVE  buckets' \in [Keys -> [Windows -> Bucket \cup {None}]]
<1> DEFINE k == requests[i].key
           w == Window(i)
           b == [count   |-> Count(k, w) + 1,
                 expires |-> IF buckets[k][w] = None THEN requests[i].at + 2 * Width ELSE buckets[k][w].expires]
<1>1. requests[i].at \in Times /\ requests[i].at \in Nat /\ k \in Keys
  BY ConstantsAssumption DEF TypeOK, Request, Times
<1>2. w \in Windows
  BY <1>1 DEF Window, Windows
<1>3. buckets[k] \in [Windows -> Bucket \cup {None}] /\ buckets[k][w] \in Bucket \cup {None}
  BY <1>1, <1>2 DEF TypeOK
<1>4. b \in Bucket
  <2>1. Count(k, w) \in Nat
    BY <1>3 DEF Count, Bucket
  <2>2. requests[i].at + 2 * Width \in Nat
    BY <1>1, ConstantsAssumption
  <2>3. buckets[k][w] # None => buckets[k][w].expires \in Nat
    BY <1>3 DEF Bucket
  <2> QED
    BY <2>1, <2>2, <2>3 DEF Bucket
<1>5. buckets' = [buckets EXCEPT ![k] = [buckets[k] EXCEPT ![w] = b]]
  BY <1>1, <1>2 DEF Upsert, TypeOK
<1> HIDE DEF b, k, w
<1> QED
  BY <1>1, <1>2, <1>3, <1>4, <1>5 DEF TypeOK

\* Every step keeps the declared types.
LEMMA NextType == TypeOK /\ [Next]_vars => TypeOK'
<1> SUFFICES ASSUME TypeOK, [Next]_vars PROVE TypeOK'
    OBVIOUS
<1> USE ConstantsAssumption
<1>1. ASSUME NEW i \in Requests, Arrive(i)
      PROVE  TypeOK'
  <2>1. PICK t \in Times : requests' = [requests EXCEPT ![i] = [@ EXCEPT !.step = "waiting", !.at = t, !.sent = now]]
    BY <1>1 DEF Arrive, Clock
  <2>2. requests[i].key \in Keys
    BY DEF TypeOK, Request
  <2>3. requests'[i] = [step |-> "waiting", key |-> requests[i].key, at |-> t, sent |-> now]
    BY <2>1 DEF TypeOK, Request
  <2>4. now \in Nat
    BY DEF TypeOK
  <2>5. requests'[i] \in Request
    BY <2>2, <2>3, <2>4 DEF Request
  <2> QED
    BY <1>1, <2>1, <2>5 DEF Arrive, TypeOK
<1>2. ASSUME NEW i \in Requests, NEW s \in {"allowed", "denied", "lost", "failed"},
             requests[i].step = "waiting", Becomes(i, s)
      PROVE  requests' \in [Requests -> Request]
  BY <1>2 DEF Becomes, TypeOK, Request
<1>3. ASSUME NEW i \in Requests, Execute(i) \/ ExecuteLost(i)
      PROVE  TypeOK'
  <2>1. requests' \in [Requests -> Request]
    BY <1>2, <1>3 DEF Execute, ExecuteLost, InTime, Verdict
  <2>2. buckets' \in [Keys -> [Windows -> Bucket \cup {None}]]
    BY <1>3, UpsertType DEF Execute, ExecuteLost, InTime
  <2> QED
    BY <1>3, <2>1, <2>2 DEF Execute, ExecuteLost, TypeOK
<1>4. ASSUME NEW i \in Requests, Fail(i)
      PROVE  TypeOK'
  BY <1>2, <1>4 DEF Fail, TypeOK
<1>5. CASE Cleanup
  BY <1>5 DEF Cleanup, TypeOK
<1>6. CASE Tick
  BY <1>6 DEF Tick, TypeOK
<1>7. CASE UNCHANGED vars
  BY <1>7 DEF vars, TypeOK
<1> QED
  BY <1>1, <1>3, <1>4, <1>5, <1>6, <1>7 DEF Next

\* The clock, the table and the requests always have their declared types.
THEOREM TypeCorrect == Spec => []TypeOK
<1>1. Init => TypeOK
  BY ConstantsAssumption DEF Init, TypeOK, Request
<1> QED
  BY <1>1, NextType, PTL DEF Spec

-----------------------------------------------------------------------------
(* Every bucket counts its window *)

\* A request that can still be counted belongs to a window that is not over.
LEMMA InTimeNotOver ==
    ASSUME TypeOK, BucketsLast, NEW i \in Requests, InTime(i)
    PROVE  ~Over(Window(i))
<1> USE ConstantsAssumption
<1>1. requests[i].at \in Times /\ requests[i].at \in Nat /\ requests[i].sent \in Nat /\ now \in Nat
  BY DEF InTime, TypeOK, Request, Times
<1>2. requests[i].sent <= requests[i].at + Skew /\ now <= requests[i].sent + MaxDelay
  BY DEF InTime, BucketsLast
<1>3. now <= requests[i].at + Width
  BY <1>1, <1>2
<1>4. ~(requests[i].at + Width < now)
  BY <1>1, <1>3
<1> QED
  BY <1>1, <1>4 DEF Over, Window

\* Counting a request adds it to its window and to that window's bucket.
LEMMA UpsertStep ==
    ASSUME TypeOK, Inv, NEW i \in Requests, InTime(i), Upsert(i), now' = now,
           NEW s \in {"allowed", "denied", "lost"}, Becomes(i, s)
    PROVE  /\ Inv'
           /\ Count(requests[i].key, Window(i)) = Cardinality(Executed(requests[i].key, Window(i)))
<1> USE ConstantsAssumption
<1>0. requests[i].at \in Times /\ requests[i].key \in Keys /\ Window(i) \in Windows
  BY DEF InTime, TypeOK, Request, Window, Windows
<1>1. PICK k \in Keys, w \in Windows : k = requests[i].key /\ w = Window(i)
  BY <1>0
<1>2. requests[i].at \in Nat /\ requests[i].step = "waiting"
  BY <1>0 DEF InTime, Times
<1>3. buckets[k][w] \in Bucket \cup {None}
  BY <1>1, <1>2 DEF TypeOK
<1>4. \A j \in Keys, v \in Windows :
         buckets'[j][v] = IF j = k /\ v = w
                          THEN [count   |-> Count(k, w) + 1,
                                expires |-> IF buckets[k][w] = None THEN requests[i].at + 2 * Width
                                            ELSE buckets[k][w].expires]
                          ELSE buckets[j][v]
  BY <1>1, <1>2 DEF Upsert, TypeOK
<1>5. \A j \in Requests : /\ requests'[j].at = requests[j].at
                          /\ requests'[j].key = requests[j].key
                          /\ requests'[j].sent = requests[j].sent
                          /\ requests'[j].step = IF j = i THEN s ELSE requests[j].step
  BY DEF Becomes, TypeOK, Request
<1>6. Executed(k, w)' = Executed(k, w) \cup {i} /\ i \notin Executed(k, w)
  BY <1>1, <1>2, <1>5 DEF Executed, Window
<1>7. \A j \in Keys, v \in Windows : j # k \/ v # w => Executed(j, v)' = Executed(j, v)
  BY <1>1, <1>2, <1>5 DEF Executed, Window
<1>8. Cardinality(Executed(k, w)') = Cardinality(Executed(k, w)) + 1
  BY <1>6, FiniteExecuted, FS_AddElement
<1>9. Count(k, w) = Cardinality(Executed(k, w))
  <2>1. CASE buckets[k][w] = None
    <3>1. ~Over(w)
      BY <1>1, InTimeNotOver DEF Inv
    <3>2. Executed(k, w) = {}
      BY <1>1, <1>2, <2>1, <3>1 DEF Inv
    <3> QED
      BY <2>1, <3>2, FS_EmptySet DEF Count
  <2>2. CASE buckets[k][w] # None
    BY <1>1, <1>2, <2>2 DEF Inv, CountsExecuted, Count
  <2> QED
    BY <2>1, <2>2
<1>10. \A t \in Times : WindowOf(t) = w => t \in Nat /\ t < requests[i].at + Width
  BY <1>1, <1>2, SameWindow DEF Window, Times
<1>11. None # [count   |-> Count(k, w) + 1,
               expires |-> IF buckets[k][w] = None THEN requests[i].at + 2 * Width
                           ELSE buckets[k][w].expires]
  <2>1. Count(k, w) + 1 \in Nat
    BY <1>3 DEF Count, Bucket
  <2>2. requests[i].at + 2 * Width \in Nat
    BY <1>2
  <2>3. buckets[k][w] # None => buckets[k][w].expires \in Nat
    BY <1>3 DEF Bucket
  <2> QED
    BY <2>1, <2>2, <2>3
<1>12. CountsExecuted'
  <2>1. buckets'[k][w].count = Cardinality(Executed(k, w)')
    <3>1. buckets'[k][w].count = Count(k, w) + 1
      BY <1>1, <1>2, <1>4
    <3> QED
      BY <1>8, <1>9, <3>1
  <2>2. ASSUME NEW j \in Keys, NEW v \in Windows, ~(j = k /\ v = w), buckets'[j][v] # None
        PROVE  buckets'[j][v].count = Cardinality(Executed(j, v)')
    <3>1. buckets'[j][v] = buckets[j][v] /\ Executed(j, v)' = Executed(j, v)
      BY <1>4, <1>7, <2>2
    <3> QED
      BY <2>2, <3>1 DEF Inv, CountsExecuted
  <2>3. ASSUME NEW j \in Keys, NEW v \in Windows, buckets'[j][v] # None
        PROVE  buckets'[j][v].count = Cardinality(Executed(j, v)')
    BY <2>1, <2>2, <2>3
  <2> QED
    BY <2>3 DEF CountsExecuted
<1>13. BucketsLast'
  <2>1. ASSUME NEW j \in Keys, NEW v \in Windows, NEW t \in Times, buckets'[j][v] # None, WindowOf(t) = v
        PROVE  t + Width < buckets'[j][v].expires
    <3>1. CASE j = k /\ v = w /\ buckets[k][w] = None
      <4>1. buckets'[j][v].expires = requests[i].at + 2 * Width
        BY <1>1, <1>2, <1>4, <3>1
      <4>2. t \in Nat /\ t < requests[i].at + Width
        BY <1>10, <2>1, <3>1
      <4> QED
        BY <1>2, <4>1, <4>2
    <3>2. CASE j = k /\ v = w /\ buckets[k][w] # None
      <4>1. buckets'[j][v].expires = buckets[k][w].expires
        BY <1>1, <1>2, <1>4, <3>2
      <4> QED
        BY <1>1, <1>2, <2>1, <3>2, <4>1 DEF Inv, BucketsLast
    <3>3. CASE ~(j = k /\ v = w)
      BY <1>4, <2>1, <3>3 DEF Inv, BucketsLast
    <3> QED
      BY <3>1, <3>2, <3>3
  <2>2. \A j \in Requests : requests'[j].step = "waiting" => requests'[j].sent <= requests'[j].at + Skew
    BY <1>5 DEF Inv, BucketsLast
  <2> QED
    BY <2>1, <2>2 DEF BucketsLast
<1>14. ASSUME NEW j \in Keys, NEW v \in Windows, buckets'[j][v] = None, Executed(j, v)' # {}
       PROVE  Over(v)'
  <2>1. j # k \/ v # w
    BY <1>1, <1>2, <1>4, <1>11, <1>14
  <2>2. buckets[j][v] = None /\ Executed(j, v) # {}
    BY <1>4, <1>7, <1>14, <2>1
  <2> QED
    BY <2>2 DEF Inv, Over
<1> QED
  BY <1>1, <1>9, <1>12, <1>13, <1>14 DEF Inv

\* The cleanup takes buckets of windows that are over only.
LEMMA CleanupOver ==
    ASSUME TypeOK, BucketsLast, NEW k \in Keys, NEW w \in Windows, Expired(buckets[k][w])
    PROVE  Over(w)
<1>1. buckets[k][w] # None /\ buckets[k][w].expires < now
  BY DEF Expired
<1>2. buckets[k][w].expires \in Nat /\ now \in Nat
  BY <1>1 DEF TypeOK, Bucket
<1>3. ASSUME NEW t \in Times, WindowOf(t) = w PROVE t + Width < now
  BY <1>1, <1>2, <1>3, ConstantsAssumption DEF BucketsLast, Times
<1> QED
  BY <1>3 DEF Over

\* Every step keeps the invariant.
LEMMA InvStep == TypeOK /\ Inv /\ [Next]_vars => Inv'
<1> SUFFICES ASSUME TypeOK, Inv, [Next]_vars PROVE Inv'
    OBVIOUS
<1> USE ConstantsAssumption
<1>1. ASSUME NEW i \in Requests, Execute(i) \/ ExecuteLost(i)
      PROVE  Inv'
  BY <1>1, UpsertStep DEF Execute, ExecuteLost, Verdict
<1>2. ASSUME buckets' = buckets, now' \in Nat, now <= now', NEW i \in Requests,
             \A j \in Requests : j # i => requests'[j] = requests[j],
             requests[i].step \in Open, requests'[i].step \in Open \cup {"failed"},
             requests'[i].step = "waiting" => requests'[i].sent <= requests'[i].at + Skew
      PROVE  Inv'
  <2>1. \A k \in Keys, w \in Windows : Executed(k, w)' = Executed(k, w)
    BY <1>2 DEF Executed, Window, Open
  <2>2. \A w \in Windows : Over(w) => Over(w)'
    BY <1>2 DEF Over, TypeOK, Times
  <2>3. CountsExecuted'
    BY <1>2, <2>1 DEF Inv, CountsExecuted
  <2>4. BucketsLast'
    BY <1>2 DEF Inv, BucketsLast
  <2> QED
    BY <1>2, <2>1, <2>2, <2>3, <2>4 DEF Inv
<1>3. ASSUME NEW i \in Requests, Arrive(i)
      PROVE  Inv'
  <2>1. PICK t \in Clock : requests' = [requests EXCEPT ![i] = [@ EXCEPT !.step = "waiting", !.at = t, !.sent = now]]
    BY <1>3 DEF Arrive
  <2>2. requests'[i].step = "waiting" /\ requests'[i].at = t /\ requests'[i].sent = now
    BY <2>1 DEF TypeOK, Request
  <2>3. now \in Nat /\ t \in Nat /\ now <= t + Skew
    BY DEF TypeOK, Clock, Times
  <2>4. \A j \in Requests : j # i => requests'[j] = requests[j]
    BY <2>1 DEF TypeOK
  <2>5. buckets' = buckets /\ now' = now /\ requests[i].step \in Open
    BY <1>3 DEF Arrive, Open
  <2> QED
    BY <1>2, <2>2, <2>3, <2>4, <2>5 DEF Open
<1>4. ASSUME NEW i \in Requests, Fail(i)
      PROVE  Inv'
  <2>1. requests'[i].step = "failed"
    BY <1>4 DEF Fail, Becomes, TypeOK, Request
  <2>2. \A j \in Requests : j # i => requests'[j] = requests[j]
    BY <1>4 DEF Fail, Becomes, TypeOK
  <2>3. buckets' = buckets /\ now' = now /\ now \in Nat /\ requests[i].step \in Open
    BY <1>4 DEF Fail, TypeOK, Open
  <2> QED
    BY <1>2, <2>1, <2>2, <2>3
<1>5. CASE Cleanup
  <2>1. \A k \in Keys, w \in Windows :
           buckets'[k][w] = IF Expired(buckets[k][w]) THEN None ELSE buckets[k][w]
    BY <1>5 DEF Cleanup
  <2>2. now' = now /\ requests' = requests
    BY <1>5 DEF Cleanup
  <2>3. \A k \in Keys, w \in Windows : Executed(k, w)' = Executed(k, w) /\ (Over(w)' <=> Over(w))
    BY <2>2 DEF Executed, Window, Over
  <2>4. BucketsLast' /\ CountsExecuted'
    BY <2>1, <2>2, <2>3 DEF Inv, BucketsLast, CountsExecuted
  <2> QED
    BY <2>1, <2>3, <2>4, CleanupOver DEF Inv
<1>6. CASE Tick
  <2>1. buckets' = buckets /\ requests' = requests /\ now \in Nat /\ now' = now + 1
    BY <1>6 DEF Tick, TypeOK
  <2>2. \A k \in Keys, w \in Windows : Executed(k, w)' = Executed(k, w) /\ (Over(w) => Over(w)')
    BY <2>1 DEF Executed, Window, Over, Times
  <2>3. BucketsLast' /\ CountsExecuted'
    BY <2>1, <2>2 DEF Inv, BucketsLast, CountsExecuted
  <2> QED
    BY <2>1, <2>2, <2>3 DEF Inv
<1>7. CASE UNCHANGED vars
  BY <1>7 DEF vars, Inv, BucketsLast, CountsExecuted, Executed, Window, Over
<1> QED
  BY <1>1, <1>3, <1>4, <1>5, <1>6, <1>7 DEF Next

\* Inv holds throughout.
THEOREM Invariance == Spec => []Inv
<1>1. Init => Inv
  BY ConstantsAssumption DEF Init, Inv, BucketsLast, CountsExecuted, Executed
<1> QED
  BY <1>1, InvStep, TypeCorrect, PTL DEF Spec

\* A bucket counts each request of its window once.
THEOREM CountsExecutedHolds == Spec => []CountsExecuted
<1>1. Inv => CountsExecuted
  BY DEF Inv
<1> QED
  BY <1>1, Invariance, PTL

\* The cleanup takes no bucket that is still needed.
THEOREM CleanupAfterWindowHolds == Spec => CleanupAfterWindow
<1> DEFINE Step == \A k \in Keys, w \in Windows :
                      Cleanup /\ buckets[k][w] # None /\ buckets'[k][w] = None =>
                         /\ \A i \in Requests : InTime(i) /\ requests[i].key = k => Window(i) # w
                         /\ \A t \in Clock : WindowOf(t) # w
<1>1. TypeOK /\ Inv => [Step]_vars
  <2> SUFFICES ASSUME TypeOK, Inv, NEW k \in Keys, NEW w \in Windows,
                      Cleanup, buckets[k][w] # None, buckets'[k][w] = None
               PROVE  /\ \A i \in Requests : InTime(i) /\ requests[i].key = k => Window(i) # w
                      /\ \A t \in Clock : WindowOf(t) # w
      OBVIOUS
  <2>1. Expired(buckets[k][w])
    BY DEF Cleanup
  <2>2. Over(w)
    BY <2>1, CleanupOver DEF Inv
  <2>3. \A i \in Requests : InTime(i) => Window(i) # w
    BY <2>2, InTimeNotOver DEF Inv
  <2>4. ASSUME NEW t \in Clock PROVE WindowOf(t) # w
    <3>1. t \in Times /\ t \in Nat /\ now \in Nat /\ now <= t + Skew
      BY ConstantsAssumption DEF Clock, Times, TypeOK
    <3>2. ~(t + Width < now)
      BY <3>1, ConstantsAssumption
    <3> QED
      BY <2>2, <3>1, <3>2 DEF Over
  <2> QED
    BY <2>3, <2>4
<1> QED
  BY <1>1, TypeCorrect, Invariance, PTL DEF CleanupAfterWindow

-----------------------------------------------------------------------------
(* The fixed-window limiter *)

\* An answer is not None.
LEMMA AnswerNotNone ==
    ASSUME TypeOK, NEW i \in Requests, requests[i].step \notin Open
    PROVE  /\ [key |-> requests[i].key, window |-> Window(i), outcome |-> requests[i].step] # None
           /\ requests[i].key \in Keys /\ Window(i) \in Windows
           /\ requests[i].step \in {"allowed", "denied", "lost", "failed"}
<1>1. /\ requests[i].key \in Keys /\ requests[i].at \in Times
      /\ requests[i].step \in {"allowed", "denied", "lost", "failed"}
  BY DEF TypeOK, Request, Open
<1>2. Window(i) \in Windows /\ Window(i) \in Nat
  BY <1>1, WindowNat DEF Window, Windows
<1> QED
  BY <1>1, <1>2, ConstantsAssumption

\* The limiter counts as this module does.
LEMMA SameCardinality == \A S : Limiter!Cardinality(S) = Cardinality(S)
BY DEF Limiter!Cardinality, Cardinality

\* The requests that the limiter counts are those that were counted.
LEMMA CountedIsExecuted ==
    ASSUME TypeOK, NEW k, NEW w
    PROVE  Limiter!Counted(k, w) = Executed(k, w)
<1>1. \A i \in Requests : i \in Limiter!Counted(k, w) <=> i \in Executed(k, w)
  <2> TAKE i \in Requests
  <2>1. CASE requests[i].step \in Open
    BY <2>1 DEF Limiter!Counted, Answers, Executed, Open
  <2>2. CASE requests[i].step \notin Open
    <3>1. Answers[i] = [key |-> requests[i].key, window |-> Window(i), outcome |-> requests[i].step]
      BY <2>2 DEF Answers
    <3>2. Answers[i] # None /\ requests[i].step \in {"allowed", "denied", "lost", "failed"}
      BY <2>2, <3>1, AnswerNotNone
    <3> QED
      BY <3>1, <3>2 DEF Limiter!Counted, Executed
  <2> QED
    BY <2>1, <2>2
<1> QED
  BY <1>1 DEF Limiter!Counted, Executed

\* A request that is answered changes its own answer only.
LEMMA AnswerStep ==
    ASSUME TypeOK, NEW i \in Requests, requests[i].step = "waiting",
           NEW s \in {"allowed", "denied", "lost", "failed"}, Becomes(i, s)
    PROVE  /\ Answers[i] = None
           /\ Answers' = [Answers EXCEPT ![i] = [key |-> requests[i].key, window |-> Window(i), outcome |-> s]]
<1>1. \A j \in Requests : requests'[j] = IF j = i THEN [requests[i] EXCEPT !.step = s] ELSE requests[j]
  BY DEF Becomes, TypeOK
<1>2. /\ requests'[i].step = s /\ requests'[i].key = requests[i].key
      /\ requests'[i].at = requests[i].at
  BY <1>1 DEF TypeOK, Request
<1>3. s \notin Open
  BY DEF Open
<1>4. \A j \in Requests : Answers'[j] =
         IF j = i THEN [key |-> requests[i].key, window |-> Window(i), outcome |-> s] ELSE Answers[j]
  BY <1>1, <1>2, <1>3 DEF Answers, Window
<1>5. Answers[i] = None
  BY DEF Answers, Open
<1> QED
  BY <1>4, <1>5 DEF Answers

\* Every step is a step of the fixed-window limiter or leaves the answers alone.
LEMMA LimiterStep == TypeOK /\ Inv /\ [Next]_vars => [Limiter!Next]_Answers
<1> SUFFICES ASSUME TypeOK, Inv, [Next]_vars PROVE Limiter!Next \/ Answers' = Answers
    OBVIOUS
<1>1. ASSUME NEW i \in Requests, Execute(i)
      PROVE  Limiter!Next
  <2> DEFINE k == requests[i].key
             w == Window(i)
             n == Cardinality(Limiter!Counted(k, w))
  <2>1. requests[i].step = "waiting" /\ k \in Keys /\ w \in Windows
    BY <1>1 DEF Execute, InTime, TypeOK, Request, Window, Windows
  <2>2. Verdict(Count(k, w) + 1) \in {"allowed", "denied"}
    BY DEF Verdict
  <2>3. Count(k, w) = n /\ n \in Nat
    <3>1. Count(k, w) = Cardinality(Executed(k, w))
      BY <1>1, <2>2, UpsertStep DEF Execute
    <3> QED
      BY <3>1, CountedIsExecuted, FiniteExecuted
  <2>4. /\ Answers[i] = None
        /\ Answers' = [Answers EXCEPT ![i] = [key |-> k, window |-> w, outcome |-> Verdict(n + 1)]]
    BY <1>1, <2>1, <2>2, <2>3, AnswerStep DEF Execute
  <2> HIDE DEF k, w, n
  <2>5. CASE n < MaxRequests
    <3>1. Verdict(n + 1) = "allowed"
      BY <2>3, <2>5, ConstantsAssumption DEF Verdict
    <3>2. Limiter!Allow(i, k, w)
      BY <2>4, <2>5, <3>1, SameCardinality DEF n, Limiter!Allow
    <3> QED
      BY <2>1, <3>2 DEF Limiter!Next
  <2>6. CASE ~(n < MaxRequests)
    <3>1. Verdict(n + 1) = "denied" /\ n >= MaxRequests
      BY <2>3, <2>6, ConstantsAssumption DEF Verdict
    <3>2. Limiter!Deny(i, k, w)
      BY <2>4, <3>1, SameCardinality DEF n, Limiter!Deny
    <3> QED
      BY <2>1, <3>2 DEF Limiter!Next
  <2> QED
    BY <2>5, <2>6
<1>2. ASSUME NEW i \in Requests, ExecuteLost(i) \/ Fail(i)
      PROVE  Limiter!Next
  <2>1. PICK s \in {"lost", "failed"} : Becomes(i, s)
    BY <1>2 DEF ExecuteLost, Fail
  <2>2. requests[i].step = "waiting"
    BY <1>2 DEF ExecuteLost, Fail, InTime
  <2>3. requests[i].key \in Keys /\ Window(i) \in Windows
    BY <2>2 DEF TypeOK, Request, Window, Windows
  <2>4. /\ Answers[i] = None
        /\ Answers' = [Answers EXCEPT ![i] = [key |-> requests[i].key, window |-> Window(i), outcome |-> s]]
    BY <2>1, <2>2, AnswerStep
  <2> QED
    BY <2>3, <2>4 DEF Limiter!Next, Limiter!Lose
<1>3. ASSUME NEW i \in Requests, Arrive(i)
      PROVE  Answers' = Answers
  <2>1. \A j \in Requests : j # i => requests'[j] = requests[j]
    BY <1>3 DEF Arrive, TypeOK
  <2>2. requests[i].step \in Open /\ requests'[i].step \in Open
    BY <1>3 DEF Arrive, Open, TypeOK, Request
  <2> QED
    BY <2>1, <2>2 DEF Answers, Window
<1>4. CASE Cleanup \/ Tick \/ UNCHANGED vars
  BY <1>4 DEF Cleanup, Tick, vars, Answers, Window
<1> QED
  BY <1>1, <1>2, <1>3, <1>4 DEF Next

\* The rate limiter implements the fixed-window limiter: of the requests that
\* are counted for a client in a window, exactly the first MaxRequests are
\* allowed, however they interleave with each other and with the cleanup.
THEOREM IsFixedWindowLimiterHolds == Spec => IsFixedWindowLimiter
<1>1. Init => Limiter!Init
  BY DEF Init, Limiter!Init, Answers, Open
<1> QED
  BY <1>1, LimiterStep, TypeCorrect, Invariance, PTL DEF Spec, IsFixedWindowLimiter, Limiter!Spec
=============================================================================
