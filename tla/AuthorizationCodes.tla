------------------------- MODULE AuthorizationCodes -------------------------
(***************************************************************************)
(* The authorization-code grant of ovlt-core: the authorization_codes      *)
(* table, GET /oauth/authorize, the exchange at POST /oauth/token, and the *)
(* deactivation of a client.                                               *)
(*                                                                         *)
(* An exchange reads the code outside of any transaction and checks it;    *)
(* then, in a transaction of the code's tenant, it checks the client,      *)
(* marks the code used and stores a refresh token.  The update that marks  *)
(* it names the code alone: it waits for the row, but does not look again  *)
(* whether the code has been used meanwhile.                               *)
(***************************************************************************)
EXTENDS Integers, FiniteSets

CONSTANTS
    Workers,         \* requests being served concurrently
    Codes,           \* the codes ever issued
    Clients,         \* OAuth clients
    CodeTTL,         \* ten minutes
    MaxTime,         \* bound of the clock
    None

ASSUME ConstantsAssumption ==
    /\ IsFiniteSet(Workers)
    /\ CodeTTL \in Nat /\ MaxTime \in Nat
    /\ None \notin Nat \cup Codes \cup Clients \cup Workers
    /\ None \notin [client : Clients, expires : Nat, used : Nat \cup {None}]

VARIABLES
    now,         \* wall clock
    codes,       \* the authorization_codes table, as committed
    active,      \* oauth_clients.is_active, as committed
    locks,       \* the transaction that has updated a code's row and is not over
    req,         \* the request each worker is serving
    issued       \* history: how many refresh tokens were issued for a code

vars == <<now, codes, active, locks, req, issued>>

Code == [client : Clients, expires : Nat, used : Nat \cup {None}]

Request == [step : {"idle"}, code : {None}, client : {None}, at : {0}]
           \cup [step : {"authorizing"}, code : {None}, client : Clients, at : {0}]
           \cup [step   : {"loaded", "checked", "marked"},
                 code   : Codes,
                 client : Clients,
                 at     : Nat]     \* now, as the exchange read it

Idle == [step |-> "idle", code |-> None, client |-> None, at |-> 0]

TypeOK ==
    /\ now \in Nat
    /\ codes \in [Codes -> Code \cup {None}]
    /\ active \in [Clients -> BOOLEAN]
    /\ locks \in [Codes -> Workers \cup {None}]
    /\ req \in [Workers -> Request]
    /\ issued \in [Codes -> Nat]

Init ==
    /\ now = 0
    /\ codes = [c \in Codes |-> None]
    /\ active = [a \in Clients |-> TRUE]
    /\ locks = [c \in Codes |-> None]
    /\ req = [w \in Workers |-> Idle]
    /\ issued = [c \in Codes |-> 0]

-----------------------------------------------------------------------------
(* Helpers *)

\* The end of a transaction releases the row it has updated.
Release(w) == locks' = [c \in Codes |-> IF locks[c] = w THEN None ELSE locks[c]]

Finish(w) ==
    /\ req' = [req EXCEPT ![w] = Idle]
    /\ Release(w)

\* bound: there is a code left for every authorization under way
CodeLeft == Cardinality({w \in Workers : req[w].step = "authorizing"})
            < Cardinality({c \in Codes : codes[c] = None})

\* mutant of Usable: used_at is not looked at
UsableTwice(c) == codes[c] # None /\ now <= codes[c].expires

Usable(c) == codes[c] # None /\ now <= codes[c].expires /\ codes[c].used = None

-----------------------------------------------------------------------------
(* GET /oauth/authorize, for a user with a valid token or session *)

\* find_by_client_id finds active clients only.
AuthorizeClient(w, a) ==
    /\ req[w] = Idle
    /\ CodeLeft
    /\ active[a]
    /\ req' = [req EXCEPT ![w] = [Idle EXCEPT !.step = "authorizing", !.client = a]]
    /\ UNCHANGED <<now, codes, active, locks, issued>>

\* The code is inserted and committed.
AuthorizeCommit(w) ==
    /\ req[w].step = "authorizing"
    /\ \E c \in Codes :
        /\ codes[c] = None
        /\ codes' = [codes EXCEPT ![c] = [client |-> req[w].client, expires |-> now + CodeTTL, used |-> None]]
    /\ Finish(w)
    /\ UNCHANGED <<now, active, issued>>

-----------------------------------------------------------------------------
(* POST /oauth/token with grant_type=authorization_code *)

\* The code is read and passes: in time, unused, and the redirect URI and the
\* verifier match.  An exchange that is refused here changes nothing.
Load(w, c) ==
    /\ req[w] = Idle
    /\ Usable(c)
    /\ req' = [req EXCEPT ![w] = [step |-> "loaded", code |-> c, client |-> codes[c].client, at |-> now]]
    /\ UNCHANGED <<now, codes, active, locks, issued>>

\* The transaction begins; the client is active, is the code's and knows its secret.
CheckClient(w) ==
    /\ req[w].step = "loaded"
    /\ active[req[w].client]
    /\ req' = [req EXCEPT ![w].step = "checked"]
    /\ UNCHANGED <<now, codes, active, locks, issued>>

\* The client has been deactivated: the transaction ends with nothing done.
Refuse(w) ==
    /\ req[w].step = "loaded"
    /\ ~active[req[w].client]
    /\ Finish(w)
    /\ UNCHANGED <<now, codes, active, issued>>

\* active.update(&txn): it waits while another transaction has updated the row.
MarkUsed(w) ==
    /\ req[w].step = "checked"
    /\ locks[req[w].code] = None
    /\ locks' = [locks EXCEPT ![req[w].code] = w]
    /\ req' = [req EXCEPT ![w].step = "marked"]
    /\ UNCHANGED <<now, codes, active, issued>>

\* mutant of Commit: the refresh token is committed without the mark
CommitUnmarked(w) ==
    /\ req[w].step = "marked"
    /\ issued' = [issued EXCEPT ![req[w].code] = @ + 1]
    /\ Finish(w)
    /\ UNCHANGED <<now, codes, active>>

\* The tenant is active, the user exists, and the refresh token and the mark
\* are committed together.
Commit(w) ==
    /\ req[w].step = "marked"
    /\ codes' = [codes EXCEPT ![req[w].code].used = req[w].at]
    /\ issued' = [issued EXCEPT ![req[w].code] = @ + 1]
    /\ Finish(w)
    /\ UNCHANGED <<now, active>>

\* mutant of Rollback: the row stays locked
RollbackLeaks(w) ==
    /\ req[w] # Idle
    /\ req' = [req EXCEPT ![w] = Idle]
    /\ UNCHANGED <<now, codes, active, locks, issued>>

\* A check fails, a statement fails, the client hangs up or the process stops:
\* whatever the transaction did is undone.
Rollback(w) ==
    /\ req[w] # Idle
    /\ Finish(w)
    /\ UNCHANGED <<now, codes, active, issued>>

-----------------------------------------------------------------------------
(* The rest of the system *)

\* DELETE /clients/:id; there is no way back.
Deactivate(a) ==
    /\ active[a]
    /\ active' = [active EXCEPT ![a] = FALSE]
    /\ UNCHANGED <<now, codes, locks, req, issued>>

Tick ==
    /\ now < MaxTime
    /\ now' = now + 1
    /\ UNCHANGED <<codes, active, locks, req, issued>>

Next ==
    \/ \E w \in Workers :
          \/ \E a \in Clients : AuthorizeClient(w, a)
          \/ AuthorizeCommit(w)
          \/ \E c \in Codes : Load(w, c)
          \/ CheckClient(w) \/ Refuse(w) \/ MarkUsed(w) \/ Commit(w) \/ Rollback(w)
    \/ \E a \in Clients : Deactivate(a)
    \/ Tick

Spec == Init /\ [][Next]_vars

\* A request that is served goes on, and who waits for a row gets it in its
\* turn; nothing makes a request fail or come.
Fairness ==
    \A w \in Workers :
        /\ WF_vars(AuthorizeCommit(w) \/ CheckClient(w) \/ Refuse(w) \/ Commit(w))
        /\ SF_vars(MarkUsed(w))

FairSpec == Spec /\ Fairness

-----------------------------------------------------------------------------
(* Properties *)

\* A code is marked used exactly if a refresh token was issued for it: a
\* failed exchange neither burns the code nor leaves a token behind.
RedemptionAtomic ==
    \A c \in Codes : codes[c] # None => (codes[c].used # None <=> issued[c] > 0)

\* A code is never marked used later than it expires, however late the
\* exchange that was in time commits.
UsedInTime ==
    \A c \in Codes :
        codes[c] # None /\ codes[c].used # None => codes[c].used <= codes[c].expires

\* However exchanges of a code race, only those that were under way when the
\* first of them committed can redeem it again.
RedemptionsBounded == \A c \in Codes : issued[c] <= Cardinality(Workers)

\* A row is held by an exchange that has marked it, and by one at a time, so
\* that no row stays locked when its exchange ends.
LocksHeld ==
    /\ \A c \in Codes : locks[c] # None => req[locks[c]].step = "marked" /\ req[locks[c]].code = c
    /\ \A w \in Workers : req[w].step = "marked" => locks[req[w].code] = w

\* Every request that is served ends, also those that wait for a code's row.
RequestsEnd == \A w \in Workers : req[w] # Idle ~> req[w] = Idle

-----------------------------------------------------------------------------
(* What the documentation says and the code does not do *)

\* docs/database.md:352: "single-use"; tests/oidc_test.rs:395: "code reuse must
\* be rejected".  So no code is ever redeemed twice.
SingleUse == \A c \in Codes : issued[c] <= 1
=============================================================================
