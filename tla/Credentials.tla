---------------------------- MODULE Credentials ----------------------------
(***************************************************************************)
(* The password of one user and what hangs on it: the row in users and its *)
(* password_history, the reset links and verification codes in             *)
(* one_time_tokens, and the refresh token and the browser session that a   *)
(* login leaves behind.                                                    *)
(*                                                                         *)
(* A handler runs statements under READ COMMITTED, some of them in a       *)
(* transaction and some on a connection of their own, which commit at      *)
(* once.  Hashing and policy are left out: a password is a value, and one  *)
(* that the policy refuses ends its request like any other failure.        *)
(***************************************************************************)
EXTENDS Integers, FiniteSets, Sequences

CONSTANTS
    Workers,         \* requests being served concurrently
    Passwords,
    Initial,         \* the password the account was created with
    HistorySize,     \* password_policies.history_size
    RequireVerified, \* tenant_settings.require_email_verified
    Links,           \* bound: reset links ever issued
    OTPs,            \* bound: verification codes ever issued
    MaxLogins,       \* bound: logins ever begun
    MaxChanges,      \* bound: password changes ever begun
    None

Logins == 1 .. MaxLogins
Kinds == {"reset", "update", "verify", "login", "authorize", "logout"}

ASSUME ConstantsAssumption ==
    /\ IsFiniteSet(Workers)
    /\ Initial \in Passwords
    /\ RequireVerified \in BOOLEAN
    /\ HistorySize \in Nat /\ MaxLogins \in Nat /\ MaxChanges \in Nat
    /\ None \notin Workers /\ None \notin Links /\ None \notin OTPs
    /\ None \notin Passwords /\ None \notin Logins /\ None \notin Kinds

VARIABLES
    user,       \* the user's row, as committed
    userLock,   \* the transaction that has updated it
    history,    \* password_history, in the order of the commits
    changes,    \* transactions begun that change the password: their created_at
    link,       \* reset links in one_time_tokens
    otp,        \* verification codes in one_time_tokens, as committed
    otpLock,    \* the transaction that has updated a code's row
    token,      \* the refresh token of each login
    session,    \* the browser session of each login: ended when deleted or expired
    begun,      \* logins begun
    req,        \* the request each worker is serving
    resets,     \* history: password changes committed for each link
    stale,      \* history: logins that used a password that a reset has replaced
    racing,     \* history: logins that overlapped the transaction of a reset
    afterwards  \* history: codes issued to a session that was no more

userVars == <<user, userLock, history, changes>>
oneTimeVars == <<link, otp, otpLock>>
loginVars == <<token, session, begun>>
traces == <<resets, stale, racing, afterwards>>
vars == <<userVars, oneTimeVars, loginVars, req, traces>>

Statuses == {"none", "fresh", "used", "expired"}

Idle == [step |-> "idle", kind |-> None, link |-> None, otp |-> None, login |-> None,
         password |-> None, at |-> 0, raced |-> FALSE, seen |-> {}]

Request ==
    [step     : {"idle", "found", "spent", "email", "checking", "writing", "revoking",
                 "committing", "password", "session", "authorizing", "signing-out"},
     kind     : Kinds \cup {None},
     link     : Links \cup {None},
     otp      : OTPs \cup {None},
     login    : Logins \cup {None},
     password : Passwords \cup {None},   \* the new one, once the history is checked
     at       : 0 .. MaxChanges,         \* when its transaction began
     raced    : BOOLEAN,                 \* history: another change was under way
     seen     : SUBSET Logins]           \* the tokens revoke_all_user_tokens found

TypeOK ==
    /\ user \in [password : Passwords, active : BOOLEAN, verified : BOOLEAN]
    /\ userLock \in Workers \cup {None}
    /\ history \in Seq([password : Passwords, at : 1 .. MaxChanges, raced : BOOLEAN])
    /\ Len(history) <= MaxChanges
    /\ changes \in 0 .. MaxChanges
    /\ link \in [Links -> Statuses] /\ otp \in [OTPs -> Statuses]
    /\ otpLock \in [OTPs -> Workers \cup {None}]
    /\ token \in [Logins -> {"none", "live", "revoked"}]
    /\ session \in [Logins -> {"none", "live", "ended"}]
    /\ begun \in 0 .. MaxLogins
    /\ req \in [Workers -> Request]
    /\ resets \in [Links -> Nat] /\ afterwards \in [Logins -> Nat]
    /\ stale \subseteq Logins /\ racing \subseteq Logins

Init ==
    /\ user = [password |-> Initial, active |-> TRUE, verified |-> FALSE]
    /\ userLock = None /\ history = <<>> /\ changes = 0
    /\ link = [l \in Links |-> "none"] /\ otp = [o \in OTPs |-> "none"]
    /\ otpLock = [o \in OTPs |-> None]
    /\ token = [i \in Logins |-> "none"] /\ session = [i \in Logins |-> "none"]
    /\ begun = 0
    /\ req = [w \in Workers |-> Idle]
    /\ resets = [l \in Links |-> 0] /\ afterwards = [i \in Logins |-> 0]
    /\ stale = {} /\ racing = {}

-----------------------------------------------------------------------------
(* Helpers *)

At(w, step) == req[w].step = step
Is(w, kind) == req[w].kind = kind
Goto(w, step) == req' = [req EXCEPT ![w].step = step]

\* Under way: a transaction that changes the password, a login.
Changing(w) == req[w].at # 0
Resetting(w) == Is(w, "reset") /\ Changing(w)
SigningIn == {req[w].login : w \in {v \in Workers : At(v, "password")}}

\* The end of a transaction gives its rows back.
Finish(w) ==
    /\ req' = [req EXCEPT ![w] = Idle]
    /\ userLock' = IF userLock = w THEN None ELSE userLock
    /\ otpLock' = [o \in OTPs |-> IF otpLock[o] = w THEN None ELSE otpLock[o]]

Leave(w) == Finish(w) /\ UNCHANGED <<user, history, changes, link, otp>>

Recent(n) == {i \in DOMAIN history :
                Cardinality({j \in DOMAIN history : history[j].at > history[i].at}) < n}

\* A transaction that changes the password begins: now() stays what it is now.
Begin(w, as) ==
    /\ changes < MaxChanges
    /\ changes' = changes + 1
    /\ LET raced == \E v \in Workers : Changing(v) IN
       req' = [v \in Workers |-> IF v = w THEN [as EXCEPT !.at = changes + 1, !.raced = raced]
                                          ELSE [req[v] EXCEPT !.raced = @ \/ Changing(v)]]

-----------------------------------------------------------------------------
(* One-time tokens *)

\* POST /auth/forgot-password, for a user that is found and active
ForgotPassword(l) ==
    /\ link[l] = "none" /\ user.active
    /\ link' = [link EXCEPT ![l] = "fresh"]
    /\ UNCHANGED <<userVars, otp, otpLock, loginVars, req, traces>>

\* GET /users/:id/password-reset-token, for any user
IssueResetToken(l) ==
    /\ link[l] = "none"
    /\ link' = [link EXCEPT ![l] = "fresh"]
    /\ UNCHANGED <<userVars, otp, otpLock, loginVars, req, traces>>

\* GET /users/:id/verification-code, and the end of a registration
IssueOTP(o) ==
    /\ otp[o] = "none"
    /\ otp' = [otp EXCEPT ![o] = "fresh"]
    /\ UNCHANGED <<userVars, link, otpLock, loginVars, req, traces>>

\* expires_at comes; nothing removes the row.
OneTimeExpires ==
    /\ \/ \E l \in Links : link[l] = "fresh" /\ link' = [link EXCEPT ![l] = "expired"] /\ UNCHANGED otp
       \/ \E o \in OTPs : otp[o] = "fresh" /\ otp' = [otp EXCEPT ![o] = "expired"] /\ UNCHANGED link
    /\ UNCHANGED <<userVars, otpLock, loginVars, req, traces>>

-----------------------------------------------------------------------------
(* POST /auth/reset-password *)

\* mutant of ConsumeFind: used_at is not looked at
ConsumeFindUsed(w, l) ==
    /\ At(w, "idle") /\ link[l] \in {"fresh", "used"}
    /\ req' = [req EXCEPT ![w] = [Idle EXCEPT !.step = "found", !.kind = "reset", !.link = l]]
    /\ UNCHANGED <<userVars, oneTimeVars, loginVars, traces>>

\* consume: the link is there, unused and has not expired.
ConsumeFind(w, l) ==
    /\ At(w, "idle") /\ link[l] = "fresh"
    /\ req' = [req EXCEPT ![w] = [Idle EXCEPT !.step = "found", !.kind = "reset", !.link = l]]
    /\ UNCHANGED <<userVars, oneTimeVars, loginVars, traces>>

\* mutant of ConsumeMark: left to the end of the reset, which forgets it
ConsumeMarkLater(w) ==
    /\ At(w, "found") /\ Is(w, "reset")
    /\ Goto(w, "spent")
    /\ UNCHANGED <<userVars, oneTimeVars, loginVars, traces>>

\* It is marked, for good, whether it still is unused or not.
ConsumeMark(w) ==
    /\ At(w, "found") /\ Is(w, "reset")
    /\ link' = [link EXCEPT ![req[w].link] = "used"]
    /\ Goto(w, "spent")
    /\ UNCHANGED <<userVars, otp, otpLock, loginVars, traces>>

\* The tenant and the policy are right: the transaction begins.
ResetBegin(w) ==
    /\ At(w, "spent")
    /\ Begin(w, [req[w] EXCEPT !.step = "checking"])
    /\ racing' = racing \cup SigningIn
    /\ UNCHANGED <<user, userLock, history, oneTimeVars, loginVars, resets, stale, afterwards>>

\* revoke_all_user_tokens: the refresh tokens that are committed now
RevokeAll(w) ==
    /\ At(w, "revoking")
    /\ req' = [req EXCEPT ![w].step = "committing", ![w].seen = {i \in Logins : token[i] = "live"}]
    /\ UNCHANGED <<userVars, oneTimeVars, loginVars, traces>>

-----------------------------------------------------------------------------
(* PUT /users/:id, and DELETE, which sets is_active alone *)

\* The body may hold a new address and a new password.
UpdateBegin(w, email, password) ==
    /\ At(w, "idle")
    /\ LET as == [Idle EXCEPT !.kind = "update",
                              !.step = IF email THEN "email"
                                       ELSE IF password THEN "checking" ELSE "writing"] IN
       IF password
         THEN Begin(w, as)
         ELSE req' = [req EXCEPT ![w] = as] /\ UNCHANGED changes
    /\ UNCHANGED <<user, userLock, history, oneTimeVars, loginVars, traces>>

\* The new address: email_verified stays as it is.
UpdateEmail(w) ==
    /\ At(w, "email") /\ userLock = None
    /\ userLock' = w
    /\ Goto(w, IF Changing(w) THEN "checking" ELSE "writing")
    /\ UNCHANGED <<user, history, changes, oneTimeVars, loginVars, traces>>

-----------------------------------------------------------------------------
(* The part that resets and updates share *)

\* mutant of CheckHistory: one entry too few
CheckHistoryShort(w, p) ==
    /\ At(w, "checking")
    /\ IF \E i \in Recent(HistorySize - 1) : history[i].password = p
         THEN Leave(w)
         ELSE /\ req' = [req EXCEPT ![w].step = "writing", ![w].password = p]
              /\ UNCHANGED <<userVars, oneTimeVars>>
    /\ UNCHANGED <<loginVars, traces>>

\* The new password is compared with the last entries by created_at, of those
\* that are committed.
CheckHistory(w, p) ==
    /\ At(w, "checking")
    /\ IF \E i \in Recent(HistorySize) : history[i].password = p
         THEN Leave(w)
         ELSE /\ req' = [req EXCEPT ![w].step = "writing", ![w].password = p]
              /\ UNCHANGED <<userVars, oneTimeVars>>
    /\ UNCHANGED <<loginVars, traces>>

\* The user's row is updated; the columns that are not set stay.
WriteUser(w) ==
    /\ At(w, "writing") /\ userLock \in {None, w}
    /\ userLock' = w
    /\ Goto(w, IF Is(w, "reset") THEN "revoking" ELSE "committing")
    /\ UNCHANGED <<user, history, changes, oneTimeVars, loginVars, traces>>

\* What the transaction has recorded in password_history.
Recorded(w) ==
    IF Changing(w)
      THEN Append(history, [password |-> req[w].password, at |-> req[w].at, raced |-> req[w].raced])
      ELSE history

\* mutant of ResetCommit: the refresh tokens stay
ResetCommitKeepsTokens(w) ==
    /\ At(w, "committing") /\ Is(w, "reset")
    /\ user' = [user EXCEPT !.password = req[w].password]
    /\ history' = Recorded(w)
    /\ resets' = [resets EXCEPT ![req[w].link] = @ + 1]
    /\ stale' = stale \cup (1 .. begun)
    /\ Finish(w)
    /\ UNCHANGED <<changes, link, otp, loginVars, racing, afterwards>>

\* Password, history and refresh tokens change together.  Sessions stay.
ResetCommit(w) ==
    /\ At(w, "committing") /\ Is(w, "reset")
    /\ user' = [user EXCEPT !.password = req[w].password]
    /\ history' = Recorded(w)
    /\ token' = [i \in Logins |-> IF i \in req[w].seen THEN "revoked" ELSE token[i]]
    /\ resets' = [resets EXCEPT ![req[w].link] = @ + 1]
    /\ stale' = stale \cup (1 .. begun)
    /\ Finish(w)
    /\ UNCHANGED <<changes, link, otp, session, begun, racing, afterwards>>

\* An update leaves the tokens alone as well; is_active is whatever the body says.
UpdateCommit(w, active) ==
    /\ At(w, "committing") /\ Is(w, "update")
    /\ user' = [user EXCEPT !.active = active,
                            !.password = IF Changing(w) THEN req[w].password ELSE @]
    /\ history' = Recorded(w)
    /\ Finish(w)
    /\ UNCHANGED <<changes, link, otp, loginVars, traces>>

-----------------------------------------------------------------------------
(* POST /auth/verify-otp: one transaction *)

\* consume_otp: the code is one of this user, unused, not expired.
VerifyFind(w, o) ==
    /\ At(w, "idle") /\ otp[o] = "fresh"
    /\ req' = [req EXCEPT ![w] = [Idle EXCEPT !.step = "found", !.kind = "verify", !.otp = o]]
    /\ UNCHANGED <<userVars, oneTimeVars, loginVars, traces>>

VerifyMark(w) ==
    /\ At(w, "found") /\ Is(w, "verify") /\ otpLock[req[w].otp] = None
    /\ otpLock' = [otpLock EXCEPT ![req[w].otp] = w]
    /\ Goto(w, "writing")
    /\ UNCHANGED <<userVars, link, otp, loginVars, traces>>

VerifyCommit(w) ==
    /\ At(w, "committing") /\ Is(w, "verify")
    /\ user' = [user EXCEPT !.verified = TRUE]
    /\ otp' = [otp EXCEPT ![req[w].otp] = "used"]
    /\ Finish(w)
    /\ UNCHANGED <<history, changes, link, loginVars, traces>>

-----------------------------------------------------------------------------
(* POST /auth/login *)

\* The user is active, verified if the tenant asks for it, and the password is
\* the one that is stored.
LoginFind(w) ==
    /\ At(w, "idle") /\ begun < MaxLogins
    /\ user.active /\ (RequireVerified => user.verified)
    /\ begun' = begun + 1
    /\ req' = [req EXCEPT ![w] = [Idle EXCEPT !.step = "password", !.kind = "login", !.login = begun + 1]]
    /\ racing' = IF \E v \in Workers : Resetting(v) THEN racing \cup {begun + 1} ELSE racing
    /\ UNCHANGED <<userVars, oneTimeVars, token, session, resets, stale, afterwards>>

LoginCommit(w) ==
    /\ At(w, "password")
    /\ token' = [token EXCEPT ![req[w].login] = "live"]
    /\ Goto(w, "session")
    /\ UNCHANGED <<userVars, oneTimeVars, session, begun, traces>>

\* The session comes after the commit; without it the cookie is empty.
LoginSession(w) ==
    /\ At(w, "session")
    /\ session' = [session EXCEPT ![req[w].login] = "live"]
    /\ Leave(w)
    /\ UNCHANGED <<token, begun, traces>>

-----------------------------------------------------------------------------
(* Browser sessions: GET /oauth/authorize, POST /auth/logout, sessions *)

\* mutant of AuthorizeFind: a session that is over will do
AuthorizeFindEnded(w, i) ==
    /\ At(w, "idle") /\ session[i] # "none"
    /\ req' = [req EXCEPT ![w] = [Idle EXCEPT !.step = "authorizing", !.kind = "authorize", !.login = i]]
    /\ UNCHANGED <<userVars, oneTimeVars, loginVars, traces>>

\* find_valid: the session exists and has not expired.
AuthorizeFind(w, i) ==
    /\ At(w, "idle") /\ session[i] = "live"
    /\ req' = [req EXCEPT ![w] = [Idle EXCEPT !.step = "authorizing", !.kind = "authorize", !.login = i]]
    /\ UNCHANGED <<userVars, oneTimeVars, loginVars, traces>>

\* The code is stored, whatever has become of the session and its user.
AuthorizeCommit(w) ==
    /\ At(w, "authorizing")
    /\ afterwards' = [afterwards EXCEPT ![req[w].login] = IF session[req[w].login] = "live" THEN @ ELSE @ + 1]
    /\ Leave(w)
    /\ UNCHANGED <<loginVars, resets, stale, racing>>

\* The refresh token that is given is revoked, if there is one ...
Logout(w, i) ==
    /\ At(w, "idle") /\ token[i] # "none"
    /\ token' = [token EXCEPT ![i] = "revoked"]
    /\ req' = [req EXCEPT ![w] = [Idle EXCEPT !.step = "signing-out", !.kind = "logout", !.login = i]]
    /\ UNCHANGED <<userVars, oneTimeVars, session, begun, traces>>

\* ... and then the session of the cookie goes.
LogoutSession(w) ==
    /\ At(w, "signing-out")
    /\ session' = [session EXCEPT ![req[w].login] = IF @ = "none" THEN @ ELSE "ended"]
    /\ Leave(w)
    /\ UNCHANGED <<token, begun, traces>>

\* DELETE /admin/sessions/:id: the refresh token stays.
DeleteSession(i) ==
    /\ session[i] = "live"
    /\ session' = [session EXCEPT ![i] = "ended"]
    /\ UNCHANGED <<userVars, oneTimeVars, token, begun, req, traces>>

\* expires_at comes.  The clean-up that main starts every six hours takes only
\* sessions that are not valid any more.
SessionExpires(i) ==
    /\ session[i] = "live"
    /\ session' = [session EXCEPT ![i] = "ended"]
    /\ UNCHANGED <<userVars, oneTimeVars, token, begun, req, traces>>

-----------------------------------------------------------------------------

\* A failed statement, a refusal, a dropped request, a crash: a transaction is
\* undone, what was committed before it stays.
Rollback(w) ==
    /\ ~At(w, "idle")
    /\ Leave(w)
    /\ UNCHANGED <<loginVars, traces>>

Next ==
    \/ \E l \in Links : ForgotPassword(l) \/ IssueResetToken(l)
    \/ \E o \in OTPs : IssueOTP(o)
    \/ OneTimeExpires
    \/ \E w \in Workers :
        \/ \E l \in Links : ConsumeFind(w, l)
        \/ ConsumeMark(w) \/ ResetBegin(w) \/ RevokeAll(w) \/ ResetCommit(w)
        \/ \E email, password \in BOOLEAN : UpdateBegin(w, email, password)
        \/ UpdateEmail(w) \/ WriteUser(w)
        \/ \E p \in Passwords : CheckHistory(w, p)
        \/ \E active \in BOOLEAN : UpdateCommit(w, active)
        \/ \E o \in OTPs : VerifyFind(w, o)
        \/ VerifyMark(w) \/ VerifyCommit(w)
        \/ LoginFind(w) \/ LoginCommit(w) \/ LoginSession(w)
        \/ \E i \in Logins : AuthorizeFind(w, i) \/ Logout(w, i)
        \/ AuthorizeCommit(w) \/ LogoutSession(w)
        \/ Rollback(w)
    \/ \E i \in Logins : DeleteSession(i) \/ SessionExpires(i)

Spec == Init /\ [][Next]_vars

-----------------------------------------------------------------------------
(* Properties *)

\* However resets race, only those that found the link unused before the first
\* of them marked it can change the password with it.
ResetsBounded == \A l \in Links : resets[l] <= Cardinality(Workers)

\* A link is spent before its password is: no crash between the two leaves one
\* that has changed the password and can be used again.
SpentBeforeReset == \A l \in Links : resets[l] > 0 => link[l] = "used"

\* The password in force is the one the account was created with or stands in
\* the history: row and history are committed together, also when updates and
\* resets wait for each other's row.
CurrentRecorded ==
    user.password # Initial => \E i \in DOMAIN history : history[i].password = user.password

\* The history keeps its promise for changes that do not overlap: none of the
\* last HistorySize passwords comes back, in the order in which they were in
\* force, although the code orders them by the beginning of their transactions.
NoReuse ==
    \A i \in DOMAIN history :
        LET before == {j \in DOMAIN history : j < i /\ i - j <= HistorySize} IN
        (\A j \in before \cup {i} : ~history[j].raced)
            => \A j \in before : history[j].password # history[i].password

\* A reset ends every refresh token of an earlier login but those of logins
\* that were under way while its transaction was: they had checked the old
\* password and are committed behind revoke_all_user_tokens.
ResetEndsLogins == \A i \in stale : token[i] = "live" => i \in racing

\* An address is verified only by a code, which is spent by the same commit.
VerifiedByCode == user.verified => \E o \in OTPs : otp[o] = "used"

\* There is a session only for a login whose refresh token was committed.
SessionsOfLogins == \A i \in Logins : session[i] # "none" => token[i] # "none"

\* A session that has ended gives a code only to requests that found it valid
\* before, one each.
EndedSessionsQuiet == \A i \in Logins : afterwards[i] <= Cardinality(Workers)

-----------------------------------------------------------------------------
(* What the documentation says and the code does not do *)

\* handlers/reset_password.rs:86: "Revoke all refresh tokens so existing
\* sessions must re-login."  The sessions themselves stay.
ResetEndsSessions == \A i \in stale : session[i] = "live" => i \in racing

\* docs/admin-tui.md:228, of deleting a session: "The associated refresh token
\* is also invalidated."
SessionEndsToken == [][\A i \in Logins : session[i] = "live" /\ session'[i] = "ended"
                                          => token'[i] # "live"]_vars

\* docs/security.md:81: "the last N hashes are checked on every password
\* change".  The password the account was created with is in no history.
InitialCounts == [][user.password = Initial /\ history # history'
                     => history'[Len(history')].password # Initial]_vars
=============================================================================
