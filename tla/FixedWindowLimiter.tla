------------------------- MODULE FixedWindowLimiter -------------------------
(***************************************************************************)
(* What the rate limiter of ovlt-core promises: of the requests that are   *)
(* counted for a client in a window of time, the first Limit are allowed   *)
(* and all later ones are denied.  A request whose answer is lost may have *)
(* been counted or not.                                                    *)
(***************************************************************************)
EXTENDS Naturals, FiniteSets

CONSTANTS Requests, Keys, Windows, Limit, None

VARIABLE answers    \* what became of each request, None while it is open

Answer == [key : Keys, window : Windows, outcome : {"allowed", "denied", "lost", "failed"}]

Counted(k, w) ==
    {i \in Requests : /\ answers[i] # None
                      /\ answers[i].key = k /\ answers[i].window = w
                      /\ answers[i].outcome # "failed"}

Init == answers = [i \in Requests |-> None]

Allow(i, k, w) ==
    /\ answers[i] = None
    /\ Cardinality(Counted(k, w)) < Limit
    /\ answers' = [answers EXCEPT ![i] = [key |-> k, window |-> w, outcome |-> "allowed"]]

Deny(i, k, w) ==
    /\ answers[i] = None
    /\ Cardinality(Counted(k, w)) >= Limit
    /\ answers' = [answers EXCEPT ![i] = [key |-> k, window |-> w, outcome |-> "denied"]]

\* The request gets no answer, whether it is counted ("lost") or not.
Lose(i, k, w) ==
    /\ answers[i] = None
    /\ \E o \in {"lost", "failed"} :
          answers' = [answers EXCEPT ![i] = [key |-> k, window |-> w, outcome |-> o]]

Next == \E i \in Requests, k \in Keys, w \in Windows : Allow(i, k, w) \/ Deny(i, k, w) \/ Lose(i, k, w)

Spec == Init /\ [][Next]_answers
=============================================================================
