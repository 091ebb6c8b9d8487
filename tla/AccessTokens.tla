---------------------------- MODULE AccessTokens ----------------------------
(***************************************************************************)
(* Access tokens of ovlt-core and their blocklist, the revoked_jtis table. *)
(*                                                                         *)
(* An access token is a JWT that nobody stores.  It is valid while its     *)
(* signature verifies under the current or the previous HS256 secret and   *)
(* its exp, plus the JWT library's leeway, is not past.  Logout and        *)
(* /oauth/revoke end it early by inserting its jti in revoked_jtis, with   *)
(* the time after which the six-hourly cleanup may drop the row again;     *)
(* auth_middleware looks the jti up after it has validated the token.      *)
(*                                                                         *)
(* A worker is one request that passes through auth_middleware.  Between   *)
(* the validation, the lookup and the handler other requests, the cleanup, *)
(* the clock and a restart may come.  Secrets are numbered by generation.  *)
(***************************************************************************)
EXTENDS Integers, FiniteSets

CONSTANTS
    Workers,      \* requests being served concurrently
    Users,        \* subjects of tokens
    TokenIds,     \* access tokens (jti)
    Ttl,          \* exp - iat
    Leeway,       \* jsonwebtoken's Validation::default().leeway
    MaxTime,      \* bound of the clock
    MaxSecret,    \* bound: generations of jwt_secret
    Lossy,        \* whether an insert into revoked_jtis may fail
    None

ASSUME ConstantsAssumption ==
    /\ Ttl \in Nat
    /\ Leeway \in Nat
    /\ MaxTime \in Nat
    /\ MaxSecret \in Nat
    /\ Lossy \in BOOLEAN
    /\ None \notin Workers \cup Users \cup TokenIds \cup Int

VARIABLES
    now,         \* wall clock; the epoch, 0, is long past
    secret,      \* config.jwt_secret
    previous,    \* config.jwt_secret_previous
    tok,         \* the claims and the signing secret of each token issued
    blocklist,   \* the revoked_jtis table: jti to expires_at
    req,         \* the request each worker is serving
    firstRow,    \* history: expires_at of the first row a token got
    loggedOut    \* history: tokens whose logout answered 204

vars == <<now, secret, previous, tok, blocklist, req, firstRow, loggedOut>>

Claims == [user : Users, exp : Nat, secret : Nat]

\* late (history): the token had been revoked when it was validated
Request == [step : {"idle"}, tok : {None}, late : {FALSE}]
           \cup [step : {"validated", "admitted"}, tok : TokenIds, late : BOOLEAN]

Idle == [step |-> "idle", tok |-> None, late |-> FALSE]

TypeOK ==
    /\ now \in Nat
    /\ secret \in Nat
    /\ previous \in Nat \cup {None}
    /\ tok \in [TokenIds -> Claims \cup {None}]
    /\ blocklist \in [TokenIds -> Nat \cup {None}]
    /\ req \in [Workers -> Request]
    /\ firstRow \in [TokenIds -> Nat \cup {None}]
    /\ loggedOut \subseteq TokenIds

Init ==
    /\ now = 1
    /\ secret = 1
    /\ previous = None
    /\ tok = [t \in TokenIds |-> None]
    /\ blocklist = [t \in TokenIds |-> None]
    /\ req = [w \in Workers |-> Idle]
    /\ firstRow = [t \in TokenIds |-> None]
    /\ loggedOut = {}

-----------------------------------------------------------------------------
(* Helpers *)

Issued(t) == tok[t] # None

\* decode::<Claims> under one secret
Decodes(t, s) == Issued(t) /\ tok[t].secret = s /\ tok[t].exp >= now - Leeway

\* validate_access_token
Valid(t) == Decodes(t, secret) \/ (previous # None /\ Decodes(t, previous))

\* is_jti_revoked
Blocked(t) == blocklist[t] # None

\* Revoked with the expiry of the token itself: what every revocation but a
\* logout under the previous secret records.
RevokedExactly(t) == Issued(t) /\ firstRow[t] = tok[t].exp

\* revoke_jti: an INSERT whose conflict with an existing row is ignored
RevokeJti(t, e) ==
    /\ blocklist' = [blocklist EXCEPT ![t] = IF @ = None THEN e ELSE @]
    /\ firstRow' = [firstRow EXCEPT ![t] = IF @ = None THEN e ELSE @]

\* any other failure of the INSERT is ignored as well
RevokeJtiLost == Lossy /\ UNCHANGED <<blocklist, firstRow>>

Finish(w) == req' = [req EXCEPT ![w] = Idle]

-----------------------------------------------------------------------------
(* Issuing: sign-in, refresh, code exchange *)

\* bound: the clock gets past the end of every token that is issued
ClockReachesEnd == now + Ttl + Leeway < MaxTime

Issue(t, u) ==
    /\ ~Issued(t)
    /\ ClockReachesEnd
    /\ tok' = [tok EXCEPT ![t] = [user |-> u, exp |-> now + Ttl, secret |-> secret]]
    /\ UNCHANGED <<now, secret, previous, blocklist, req, firstRow, loggedOut>>

-----------------------------------------------------------------------------
(* A request with a bearer token: auth_middleware, then the handler *)

Validate(w, t) ==
    /\ req[w] = Idle
    /\ Valid(t)
    /\ req' = [req EXCEPT ![w] = [step |-> "validated", tok |-> t, late |-> RevokedExactly(t)]]
    /\ UNCHANGED <<now, secret, previous, tok, blocklist, firstRow, loggedOut>>

\* mutant of Lookup: the table is not consulted
LookupSkipped(w) ==
    /\ req[w].step = "validated"
    /\ req' = [req EXCEPT ![w].step = "admitted"]
    /\ UNCHANGED <<now, secret, previous, tok, blocklist, firstRow, loggedOut>>

Lookup(w) ==
    /\ req[w].step = "validated"
    /\ req' = [req EXCEPT ![w] = IF Blocked(req[w].tok) THEN Idle
                                 ELSE [req[w] EXCEPT !.step = "admitted"]]
    /\ UNCHANGED <<now, secret, previous, tok, blocklist, firstRow, loggedOut>>

\* any protected handler but logout
Serve(w) ==
    /\ req[w].step = "admitted"
    /\ Finish(w)
    /\ UNCHANGED <<now, secret, previous, tok, blocklist, firstRow, loggedOut>>

\* Logout decodes its token again, under the current secret alone; where that
\* fails it takes the epoch for the expiry.  Its answer is 204 either way,
\* unless the revocation of the refresh token, which comes after, fails.
Logout(w) ==
    /\ req[w].step = "admitted"
    /\ LET t == req[w].tok
           e == IF Decodes(t, secret) THEN tok[t].exp ELSE 0
       IN /\ RevokeJti(t, e) \/ RevokeJtiLost
          /\ loggedOut' \in {loggedOut \cup {t}, loggedOut}
    /\ Finish(w)
    /\ UNCHANGED <<now, secret, previous, tok>>

-----------------------------------------------------------------------------
(* POST /oauth/revoke of an access token, outside auth_middleware: the      *)
(* caller's token is validated and not looked up.                           *)

OauthRevoke(caller, t) ==
    /\ Valid(caller)
    /\ Valid(t)
    /\ tok[t].user = tok[caller].user
    /\ RevokeJti(t, tok[t].exp) \/ RevokeJtiLost
    /\ UNCHANGED <<now, secret, previous, tok, req, loggedOut>>

\* POST /oauth/introspect answers "active" (its caller shows the admin key)
IntrospectedActive(t) == Valid(t)

-----------------------------------------------------------------------------
(* The rest of the system *)

\* mutant of Cleanup: rows go in the very second they run out
CleanupTooEarly ==
    /\ \E t \in TokenIds : Blocked(t) /\ blocklist[t] <= now
    /\ blocklist' = [t \in TokenIds |-> IF Blocked(t) /\ blocklist[t] <= now THEN None
                                       ELSE blocklist[t]]
    /\ UNCHANGED <<now, secret, previous, tok, req, firstRow, loggedOut>>

\* mutant of Cleanup: the comparison is turned round
CleanupUnexpired ==
    /\ \E t \in TokenIds : Blocked(t) /\ blocklist[t] > now
    /\ blocklist' = [t \in TokenIds |-> IF Blocked(t) /\ blocklist[t] > now THEN None
                                       ELSE blocklist[t]]
    /\ UNCHANGED <<now, secret, previous, tok, req, firstRow, loggedOut>>

\* cleanup_expired_jtis
Cleanup ==
    /\ \E t \in TokenIds : Blocked(t) /\ blocklist[t] < now
    /\ blocklist' = [t \in TokenIds |-> IF Blocked(t) /\ blocklist[t] < now THEN None
                                       ELSE blocklist[t]]
    /\ UNCHANGED <<now, secret, previous, tok, req, firstRow, loggedOut>>

\* A restart drops the requests.  The operator may have put a new secret in
\* the environment and moved the old one to JWT_SECRET_PREVIOUS or not, or
\* have ended the grace period.
Restart ==
    /\ \/ secret' = secret /\ previous' \in {previous, None}
       \/ secret < MaxSecret /\ secret' = secret + 1 /\ previous' \in {secret, None}
    /\ req' = [w \in Workers |-> Idle]
    /\ UNCHANGED <<now, tok, blocklist, firstRow, loggedOut>>

Tick ==
    /\ now < MaxTime
    /\ now' = now + 1
    /\ UNCHANGED <<secret, previous, tok, blocklist, req, firstRow, loggedOut>>

Next ==
    \/ \E t \in TokenIds, u \in Users : Issue(t, u)
    \/ \E w \in Workers :
          \/ \E t \in TokenIds : Validate(w, t)
          \/ Lookup(w) \/ Serve(w) \/ Logout(w)
    \/ \E caller, t \in TokenIds : OauthRevoke(caller, t)
    \/ Cleanup
    \/ Restart
    \/ Tick

Spec == Init /\ [][Next]_vars

\* Time passes, and the process is up for six hours again and again, so that
\* the cleanup loop comes to its DELETE.
FairSpec == Spec /\ WF_vars(Tick) /\ WF_vars(Cleanup)

-----------------------------------------------------------------------------
(* Properties *)

\* A row that carries its token's expiry is there for as long as the token
\* has not expired, whatever is revoked again, cleaned up or restarted.
BlockedUntilExpiry ==
    \A t \in TokenIds : RevokedExactly(t) /\ now <= tok[t].exp => Blocked(t)

\* A handler that runs for a revoked, unexpired token belongs to a request
\* that was validated before the revocation: the lookup comes after the
\* validation, so only requests in flight can slip through.
OnlyInFlightSlipThrough ==
    [][\A w \in Workers : Serve(w) \/ Logout(w) =>
          LET t == req[w].tok
          IN RevokedExactly(t) /\ now <= tok[t].exp => ~req[w].late]_vars

\* A second revocation, such as a logout racing /oauth/revoke, never brings
\* the end of a row forward.
NeverShortened ==
    [][\A t \in TokenIds : Blocked(t) /\ Blocked(t)' => blocklist'[t] >= blocklist[t]]_vars

\* The blocklist does not grow for ever: every row is cleaned up.
BlocklistDrains ==
    \A t \in TokenIds : Blocked(t) ~> ~Blocked(t)

-----------------------------------------------------------------------------
(* What the documentation says and the code does not do *)

\* docs/architecture.md:95: "JTI tracked in DB - replayed or revoked tokens are
\* rejected at introspection".
IntrospectionHonoursBlocklist ==
    \A t \in TokenIds : Blocked(t) => ~IntrospectedActive(t)

\* logout.rs:47, "Revoke the access token JTI": a token whose logout answered
\* 204 is refused for the rest of its life.
LogoutRevokes ==
    \A t \in loggedOut : now <= tok[t].exp => Blocked(t)

\* docs/security.md:104: revocation by /oauth/revoke takes effect; a revoked
\* token that still validates is found in the blocklist.
RevokedNeverAccepted ==
    \A t \in TokenIds : RevokedExactly(t) /\ Valid(t) => Blocked(t)

\* token_service.rs:212: the error of the INSERT is dropped to "ignore conflict
\* if already revoked", so after a revocation there is a row.
RevocationLeavesRow ==
    [][\A w \in Workers, t \in TokenIds : req[w].tok = t /\ Logout(w) => Blocked(t)']_vars
=============================================================================
