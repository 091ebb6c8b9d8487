----------------------------- MODULE RateLimit -----------------------------
(***************************************************************************)
(* The per-client rate limiter of ovlt-core: rate_limit_middleware and the *)
(* rate_limit_buckets table it counts in.                                  *)
(*                                                                         *)
(* A request reads the clock of its server process, which fixes its window *)
(* and the expiry of the bucket, then waits for a database connection, and *)
(* only then counts itself with one INSERT ... ON CONFLICT.  Several       *)
(* processes share the table, each with a clock of its own; the cleanup    *)
(* goes by the clock of the database.                                      *)
(***************************************************************************)
EXTENDS Integers, FiniteSets

CONSTANTS
    Requests,        \* the requests that are ever made
    Keys,            \* client addresses
    Width,           \* WINDOW_SECS
    MaxRequests,     \* MAX_REQUESTS
    Skew,            \* how far a server's clock may be from the database's
    MaxDelay,        \* how long a request may wait until it is counted
    MaxTime,         \* bound of the clock
    None

\* The wait for a connection ends after acquire_timeout (10 s), a sixth of the
\* window: a request is counted before its bucket may expire.
ASSUME ConstantsAssumption ==
    /\ IsFiniteSet(Requests)
    /\ Width \in Nat \ {0} /\ MaxRequests \in Nat \ {0}
    /\ Skew \in Nat /\ MaxDelay \in Nat /\ MaxTime \in Nat
    /\ Skew + MaxDelay <= Width
    /\ None \notin [count : Nat, expires : Nat]
    /\ None \notin [key : Keys, window : Nat, outcome : {"allowed", "denied", "lost", "failed"}]

VARIABLES
    now,         \* the clock of the database
    buckets,     \* the rate_limit_buckets table
    requests     \* what each request has done so far

vars == <<now, buckets, requests>>

Times == 0..(MaxTime + Skew)

WindowOf(t) == t \div Width

Windows == {WindowOf(t) : t \in Times}

Bucket == [count : Nat \ {0}, expires : Nat]

Request == [step : {"new"}, key : Keys, at : {0}, sent : {0}]
           \cup [step : {"waiting", "allowed", "denied", "lost", "failed"},
                 key  : Keys,
                 at   : Times,     \* the server's clock when the request came in
                 sent : Nat]       \* history: the database's clock then

TypeOK ==
    /\ now \in 0..MaxTime
    /\ buckets \in [Keys -> [Windows -> Bucket \cup {None}]]
    /\ requests \in [Requests -> Request]

Init ==
    /\ now = 0
    /\ buckets = [k \in Keys |-> [w \in Windows |-> None]]
    /\ requests \in [Requests -> [step : {"new"}, key : Keys, at : {0}, sent : {0}]]

-----------------------------------------------------------------------------
(* Helpers *)

\* what the clock of a server process may show
Clock == {t \in Times : now - Skew <= t /\ t <= now + Skew}

Window(i) == WindowOf(requests[i].at)

Count(k, w) == IF buckets[k][w] = None THEN 0 ELSE buckets[k][w].count

\* INSERT ... ON CONFLICT DO UPDATE SET count = count + 1: the expiry stays
\* that of the first insert.
Upsert(i) ==
    buckets' = [buckets EXCEPT ![requests[i].key][Window(i)] =
                   [count   |-> Count(requests[i].key, Window(i)) + 1,
                    expires |-> IF @ = None THEN requests[i].at + 2 * Width ELSE @.expires]]

\* the request can still be counted
InTime(i) == requests[i].step = "waiting" /\ now <= requests[i].sent + MaxDelay

Becomes(i, step) == requests' = [requests EXCEPT ![i].step = step]

\* mutant of Verdict: the limit itself is refused
VerdictOffByOne(n) == IF n < MaxRequests THEN "allowed" ELSE "denied"

\* Ok(count <= MAX_REQUESTS)
Verdict(n) == IF n <= MaxRequests THEN "allowed" ELSE "denied"

-----------------------------------------------------------------------------
(* rate_limit_middleware and check_and_increment *)

\* The request comes in and reads the clock.
Arrive(i) ==
    /\ requests[i].step = "new"
    /\ \E t \in Clock :
          requests' = [requests EXCEPT ![i] = [@ EXCEPT !.step = "waiting", !.at = t, !.sent = now]]
    /\ UNCHANGED <<now, buckets>>

\* The statement runs and its count decides.
Execute(i) ==
    /\ InTime(i)
    /\ Upsert(i)
    /\ Becomes(i, Verdict(Count(requests[i].key, Window(i)) + 1))
    /\ UNCHANGED now

\* The statement runs, but its answer does not reach the middleware: the
\* connection breaks, the client hangs up or the process stops.
ExecuteLost(i) ==
    /\ InTime(i)
    /\ Upsert(i)
    /\ Becomes(i, "lost")
    /\ UNCHANGED now

\* The statement does not run: no connection in time, or an error.
Fail(i) ==
    /\ requests[i].step = "waiting"
    /\ Becomes(i, "failed")
    /\ UNCHANGED <<now, buckets>>

Expired(b) == b # None /\ b.expires < now

\* cleanup_expired
Cleanup ==
    /\ \E k \in Keys, w \in Windows : Expired(buckets[k][w])
    /\ buckets' = [k \in Keys |-> [w \in Windows |->
                      IF Expired(buckets[k][w]) THEN None ELSE buckets[k][w]]]
    /\ UNCHANGED <<now, requests>>

Tick ==
    /\ now < MaxTime
    /\ now' = now + 1
    /\ UNCHANGED <<buckets, requests>>

Next ==
    \/ \E i \in Requests : Arrive(i) \/ Execute(i) \/ ExecuteLost(i) \/ Fail(i)
    \/ Cleanup
    \/ Tick

Spec == Init /\ [][Next]_vars

-----------------------------------------------------------------------------
(* Properties *)

Open == {"new", "waiting"}

\* the requests of k that were counted in window w
Executed(k, w) ==
    {i \in Requests : /\ requests[i].step \in {"allowed", "denied", "lost"}
                      /\ requests[i].key = k /\ Window(i) = w}

\* However statements of several processes interleave, are lost or are late, a
\* bucket counts each request of its window once, including those from before
\* the cleanup last ran.
CountsExecuted ==
    \A k \in Keys, w \in Windows :
        buckets[k][w] # None => buckets[k][w].count = Cardinality(Executed(k, w))

\* The cleanup takes no bucket that a request under way, or one yet to come on
\* the slowest clock, will still be counted in.
CleanupAfterWindow ==
    [][\A k \in Keys, w \in Windows :
          Cleanup /\ buckets[k][w] # None /\ buckets'[k][w] = None =>
             /\ \A i \in Requests : InTime(i) /\ requests[i].key = k => Window(i) # w
             /\ \A t \in Clock : WindowOf(t) # w]_vars

\* what became of each request
Answers == [i \in Requests |->
              IF requests[i].step \in Open THEN None
              ELSE [key |-> requests[i].key, window |-> Window(i), outcome |-> requests[i].step]]

Limiter == INSTANCE FixedWindowLimiter WITH Limit <- MaxRequests, answers <- Answers

\* The limiter keeps what a fixed-window limiter promises: in every window
\* exactly the first MaxRequests requests counted for a client are allowed.
IsFixedWindowLimiter == Limiter!Spec

-----------------------------------------------------------------------------
(* What the documentation says and the code does not do *)

\* docs/security.md:130: "Per-IP sliding-window rate limiting", so no span as
\* long as the window holds more than MaxRequests allowed requests of a client.
SlidingWindow ==
    \A k \in Keys, t \in Times :
        Cardinality({i \in Requests : /\ requests[i].step = "allowed" /\ requests[i].key = k
                                      /\ requests[i].at \in t..(t + Width - 1)}) <= MaxRequests
=============================================================================
