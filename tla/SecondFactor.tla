---------------------------- MODULE SecondFactor ----------------------------
(***************************************************************************)
(* The second factor of one user of one tenant: the user's row in          *)
(* totp_secrets, the rows in mfa_backup_codes, and the handlers that set   *)
(* it up, confirm, challenge and disable it.  Every statement names the    *)
(* tenant and the user, so users do not meet here.                         *)
(*                                                                         *)
(* A handler is one transaction of several statements under READ           *)
(* COMMITTED.  A statement that deletes or updates looks at the rows that  *)
(* are committed when it begins, waits for those another transaction has   *)
(* touched, and passes over those that are gone by then; the ORM reports   *)
(* an update that found no row as an error.  A code that does not verify   *)
(* ends its request with nothing changed and has no action.                *)
(***************************************************************************)
EXTENDS Integers, FiniteSets

CONSTANTS
    Workers,         \* requests being served concurrently
    MaxSecrets,      \* bound: secrets ever set up
    MaxCodes,        \* bound: backup codes ever generated
    BatchSize,       \* BACKUP_CODE_COUNT
    None

Secrets == 1 .. MaxSecrets
Codes == 1 .. MaxCodes
Kinds == {"login", "challenge", "setup", "confirm", "disable", "generate"}

ASSUME ConstantsAssumption ==
    /\ IsFiniteSet(Workers)
    /\ MaxSecrets \in Nat /\ MaxCodes \in Nat /\ BatchSize \in Nat
    /\ None \notin Workers /\ None \notin Secrets /\ None \notin Kinds
    /\ None \notin [secret : Secrets, enabled : BOOLEAN]

VARIABLES
    row,         \* the user's row in totp_secrets, as committed
    rowLock,     \* the transaction that has deleted or updated it
    inserter,    \* the transaction that has inserted a row
    codes,       \* mfa_backup_codes, as committed
    codeLock,    \* the transaction that has deleted or updated a code's row
    active,      \* users.is_active
    mfaToken,    \* an mfa_token that has not expired is around
    req,         \* the request each worker is serving
    made,        \* how many secrets were ever stored
    uses,        \* history: tokens issued for a backup code
    accounted,   \* history: secrets that were confirmed, or came in the middle of a confirmation
    doomed       \* history: codes a committed deletion saw

rowVars == <<row, rowLock, inserter, made>>
codeVars == <<codes, codeLock>>
userVars == <<active, mfaToken>>
history == <<uses, accounted, doomed>>
vars == <<rowVars, codeVars, userVars, req, history>>

Idle == [step |-> "idle", kind |-> None, on |-> None, target |-> None, codes |-> {}, saw |-> {}]

Steps == {"user", "passed",                                       \* login
          "factor", "backup", "verified", "cleared",              \* challenge
          "dropping", "dropped", "inserted",                      \* setup
          "confirming", "activating", "activated",                \* confirm
          "disabling", "generating", "sweeping"}                  \* disable, generate

Running ==
    [step   : Steps,
     kind   : Kinds,
     on     : Secrets \cup {None},   \* history: the secret that was enabled when a login began
     target : Secrets \cup {None},   \* the row its statement aims at
     codes  : SUBSET Codes,          \* the rows its statement has yet to reach, or the code given
     saw    : SUBSET Codes]          \* the rows its deletion began with

Request == {Idle} \cup Running

TypeOK ==
    /\ row \in [secret : Secrets, enabled : BOOLEAN] \cup {None}
    /\ rowLock \in Workers \cup {None} /\ inserter \in Workers \cup {None}
    /\ codes \in [Codes -> {"unborn", "fresh", "used", "gone"}]
    /\ codeLock \in [Codes -> Workers \cup {None}]
    /\ active \in BOOLEAN /\ mfaToken \in BOOLEAN
    /\ req \in [Workers -> Request]
    /\ made \in 0 .. MaxSecrets
    /\ uses \in [Codes -> Nat]
    /\ accounted \subseteq Secrets /\ doomed \subseteq Codes

Init ==
    /\ row = None /\ rowLock = None /\ inserter = None
    /\ codes = [c \in Codes |-> "unborn"]
    /\ codeLock = [c \in Codes |-> None]
    /\ active = TRUE /\ mfaToken = FALSE
    /\ req = [w \in Workers |-> Idle]
    /\ made = 0
    /\ uses = [c \in Codes |-> 0]
    /\ accounted = {} /\ doomed = {}

-----------------------------------------------------------------------------
(* Helpers *)

Secret == IF row = None THEN None ELSE row.secret
Enabled == row # None /\ row.enabled            \* find_enabled

At(w, step) == req[w].step = step
Is(w, kind) == req[w].kind = kind

Goto(w, step) == req' = [req EXCEPT ![w].step = step]

\* The end of a transaction gives its rows back.
Finish(w) ==
    /\ req' = [req EXCEPT ![w] = Idle]
    /\ rowLock' = IF rowLock = w THEN None ELSE rowLock
    /\ inserter' = IF inserter = w THEN None ELSE inserter
    /\ codeLock' = [c \in Codes |-> IF codeLock[c] = w THEN None ELSE codeLock[c]]

\* A request without writes of its own comes to its end.
Leave(w) == Finish(w) /\ UNCHANGED <<row, made, codes>>

Locked(w) == {c \in Codes : codeLock[c] = w}
Stored == {c \in Codes : codes[c] \in {"fresh", "used"}}
Unborn == {c \in Codes : codes[c] = "unborn"}

\* mutant of NextCode: disabling takes them the other way round
NextCodeReversed(w) ==
    CHOOSE c \in req[w].codes : \A d \in req[w].codes : IF Is(w, "disable") THEN c >= d ELSE c <= d

\* The row a statement comes to next, in the order of the table.
NextCode(w) == CHOOSE c \in req[w].codes : \A d \in req[w].codes : c <= d

\* bound: codes are left for every generation under way
CodesLeft == Cardinality(Unborn)
             >= BatchSize * (1 + Cardinality({w \in Workers : Is(w, "generate")}))

\* bound: secrets are left for every setup under way
SecretsLeft == made + Cardinality({w \in Workers : Is(w, "setup")}) < MaxSecrets

-----------------------------------------------------------------------------
(* POST /auth/login: the part about the second factor *)

\* The user is found, active, and the password is right.
LoginUser(w) ==
    /\ At(w, "idle") /\ active
    /\ req' = [req EXCEPT ![w] = [Idle EXCEPT !.step = "user", !.kind = "login",
                                              !.on = IF Enabled THEN row.secret ELSE None]]
    /\ UNCHANGED <<rowVars, codeVars, userVars, history>>

\* mutant of LoginFactor: a factor that is being changed is not asked for
LoginFactorSkipsLocked(w) ==
    /\ At(w, "user")
    /\ IF Enabled /\ rowLock = None
         THEN mfaToken' = TRUE /\ Leave(w)
         ELSE Goto(w, "passed") /\ UNCHANGED <<mfaToken, rowVars, codeVars>>
    /\ UNCHANGED <<active, history>>

\* With a second factor the answer is an mfa_token, else the login goes on.
LoginFactor(w) ==
    /\ At(w, "user")
    /\ IF Enabled
         THEN mfaToken' = TRUE /\ Leave(w)
         ELSE Goto(w, "passed") /\ UNCHANGED <<mfaToken, rowVars, codeVars>>
    /\ UNCHANGED <<active, history>>

\* Tokens are stored and issued.
LoginCommit(w) ==
    /\ At(w, "passed")
    /\ Leave(w)
    /\ UNCHANGED <<userVars, history>>

-----------------------------------------------------------------------------
(* POST /auth/mfa/challenge *)

\* The mfa_token is valid and the factor is on; the token is not used up.
ChallengeFind(w) ==
    /\ At(w, "idle") /\ mfaToken /\ Enabled
    /\ req' = [req EXCEPT ![w] = [Idle EXCEPT !.step = "factor", !.kind = "challenge"]]
    /\ UNCHANGED <<rowVars, codeVars, userVars, history>>

\* A code of the secret that was read.
ChallengeTotp(w) ==
    /\ At(w, "factor")
    /\ Goto(w, "verified")
    /\ UNCHANGED <<rowVars, codeVars, userVars, history>>

\* mutant of BackupFind: used_at is not looked at
BackupFindUsed(w, c) ==
    /\ At(w, "factor") /\ c \in Stored
    /\ req' = [req EXCEPT ![w].step = "backup", ![w].codes = {c}]
    /\ UNCHANGED <<rowVars, codeVars, userVars, history>>

\* consume_backup_code: the code is there and unused.
BackupFind(w, c) ==
    /\ At(w, "factor") /\ codes[c] = "fresh"
    /\ req' = [req EXCEPT ![w].step = "backup", ![w].codes = {c}]
    /\ UNCHANGED <<rowVars, codeVars, userVars, history>>

\* ... and marked used, whether it still is unused or not.  A code that was
\* deleted meanwhile fails the request.
BackupMark(w, c) ==
    /\ At(w, "backup") /\ c \in req[w].codes /\ codeLock[c] = None
    /\ IF c \in Stored
         THEN /\ codeLock' = [codeLock EXCEPT ![c] = w]
              /\ Goto(w, "verified")
              /\ UNCHANGED <<rowVars, codes>>
         ELSE Leave(w)
    /\ UNCHANGED <<userVars, history>>

\* The user is looked up; one who is inactive is refused with a commit, which
\* leaves the code used.
ChallengeUser(w) ==
    /\ At(w, "verified")
    /\ IF active
         THEN Goto(w, "cleared") /\ UNCHANGED <<rowVars, codeVars>>
         ELSE /\ codes' = [c \in Codes |-> IF c \in Locked(w) THEN "used" ELSE codes[c]]
              /\ Finish(w) /\ UNCHANGED <<row, made>>
    /\ UNCHANGED <<userVars, history>>

\* The mark and the refresh token are committed together.
ChallengeCommit(w) ==
    /\ At(w, "cleared")
    /\ codes' = [c \in Codes |-> IF c \in Locked(w) THEN "used" ELSE codes[c]]
    /\ uses' = [c \in Codes |-> IF c \in Locked(w) THEN uses[c] + 1 ELSE uses[c]]
    /\ Finish(w)
    /\ UNCHANGED <<row, made, userVars, accounted, doomed>>

-----------------------------------------------------------------------------
(* Deleting the secret: upsert_pending and disable *)

\* The DELETE sees the row that is committed now.
DropStart(w, kind) == [Idle EXCEPT !.step = "dropping", !.kind = kind, !.target = Secret]

\* It waits for a transaction that has touched that row, and deletes it if it
\* is still there.
DropSecret(w) ==
    /\ At(w, "dropping")
    /\ IF req[w].target # None /\ Secret = req[w].target
         THEN rowLock = None /\ rowLock' = w
         ELSE UNCHANGED rowLock
    /\ Goto(w, "dropped")
    /\ UNCHANGED <<row, inserter, made, codeVars, userVars, history>>

-----------------------------------------------------------------------------
(* POST /auth/mfa/setup *)

\* The user's row goes, enabled or not.
Setup(w) ==
    /\ At(w, "idle") /\ SecretsLeft
    /\ req' = [req EXCEPT ![w] = DropStart(w, "setup")]
    /\ UNCHANGED <<rowVars, codeVars, userVars, history>>

\* The new row is unique for the user: the INSERT waits for a transaction that
\* is deleting or inserting one, and fails if there is one then.
SetupInsert(w) ==
    /\ At(w, "dropped") /\ Is(w, "setup") /\ inserter = None
    /\ row # None => rowLock = w
    /\ inserter' = w
    /\ req' = [req EXCEPT ![w].step = "inserted"]
    /\ UNCHANGED <<row, rowLock, made, codeVars, userVars, history>>

SetupConflict(w) ==
    /\ At(w, "dropped") /\ Is(w, "setup") /\ inserter = None
    /\ row # None /\ rowLock = None
    /\ Leave(w)
    /\ UNCHANGED <<userVars, history>>

\* mutant of SetupCommit: the new secret is enabled like the one before it
SetupCommitEnabled(w) ==
    /\ At(w, "inserted")
    /\ row' = [secret |-> made + 1, enabled |-> Enabled]
    /\ made' = made + 1
    /\ Finish(w)
    /\ UNCHANGED <<codes, userVars, history>>

\* The new secret is pending.
SetupCommit(w) ==
    /\ At(w, "inserted")
    /\ row' = [secret |-> made + 1, enabled |-> FALSE]
    /\ made' = made + 1
    /\ accounted' = IF \E v \in Workers : Is(v, "confirm")
                      THEN accounted \cup {made + 1} ELSE accounted
    /\ Finish(w)
    /\ UNCHANGED <<codes, userVars, uses, doomed>>

-----------------------------------------------------------------------------
(* POST /auth/mfa/confirm *)

\* The secret, pending or not, is read and the code is one of it.
ConfirmFind(w) ==
    /\ At(w, "idle") /\ row # None
    /\ req' = [req EXCEPT ![w] = [Idle EXCEPT !.step = "confirming", !.kind = "confirm"]]
    /\ accounted' = accounted \cup {row.secret}
    /\ UNCHANGED <<rowVars, codeVars, userVars, uses, doomed>>

\* activate reads the user's row once more, whichever it is by now.
ActivateFind(w) ==
    /\ At(w, "confirming")
    /\ IF row = None
         THEN Leave(w)
         ELSE /\ req' = [req EXCEPT ![w].step = "activating", ![w].target = row.secret]
              /\ UNCHANGED <<rowVars, codeVars>>
    /\ UNCHANGED <<userVars, history>>

\* It updates that row, and fails if it is gone.
ActivateUpdate(w) ==
    /\ At(w, "activating")
    /\ IF Secret = req[w].target
         THEN /\ rowLock = None /\ rowLock' = w
              /\ Goto(w, "activated")
              /\ UNCHANGED <<row, inserter, made, codeVars>>
         ELSE Leave(w)
    /\ UNCHANGED <<userVars, history>>

ConfirmCommit(w) ==
    /\ At(w, "activated")
    /\ row' = [row EXCEPT !.enabled = TRUE]
    /\ Finish(w)
    /\ UNCHANGED <<made, codes, userVars, history>>

-----------------------------------------------------------------------------
(* POST /auth/mfa/disable and DELETE /users/:id/mfa *)

\* The factor is on and the code is one of its secret.
DisableFind(w) ==
    /\ At(w, "idle") /\ Enabled
    /\ req' = [req EXCEPT ![w] = [Idle EXCEPT !.step = "disabling", !.kind = "disable"]]
    /\ UNCHANGED <<rowVars, codeVars, userVars, history>>

\* disable deletes whichever row there is by now.
Disable(w) ==
    /\ At(w, "disabling")
    /\ req' = [req EXCEPT ![w] = DropStart(w, "disable")]
    /\ UNCHANGED <<rowVars, codeVars, userVars, history>>

\* An administrator needs no code.
AdminDisable(w) ==
    /\ At(w, "idle")
    /\ req' = [req EXCEPT ![w] = DropStart(w, "disable")]
    /\ UNCHANGED <<rowVars, codeVars, userVars, history>>

-----------------------------------------------------------------------------
(* POST /auth/mfa/backup-codes, and the deletion of backup codes *)

GenerateFind(w) ==
    /\ At(w, "idle") /\ Enabled /\ CodesLeft
    /\ req' = [req EXCEPT ![w] = [Idle EXCEPT !.step = "generating", !.kind = "generate"]]
    /\ UNCHANGED <<rowVars, codeVars, userVars, history>>

\* The DELETE sees the codes that are committed now.
SweepStart(w) ==
    /\ At(w, "generating") \/ (At(w, "dropped") /\ Is(w, "disable"))
    /\ req' = [req EXCEPT ![w].step = "sweeping", ![w].codes = Stored, ![w].saw = Stored]
    /\ UNCHANGED <<rowVars, codeVars, userVars, history>>

\* mutant of SweepCode: a row that is locked is passed over
SweepCodeSkipsLocked(w) ==
    /\ At(w, "sweeping") /\ req[w].codes # {}
    /\ LET c == NextCode(w) IN
        /\ codeLock' = IF c \in Stored /\ codeLock[c] = None THEN [codeLock EXCEPT ![c] = w] ELSE codeLock
        /\ req' = [req EXCEPT ![w].codes = @ \ {c}]
    /\ UNCHANGED <<rowVars, codes, userVars, history>>

\* It takes them one by one.
SweepCode(w) ==
    /\ At(w, "sweeping") /\ req[w].codes # {}
    /\ LET c == NextCode(w) IN
        /\ codeLock[c] = None
        /\ codeLock' = IF c \in Stored THEN [codeLock EXCEPT ![c] = w] ELSE codeLock
        /\ req' = [req EXCEPT ![w].codes = @ \ {c}]
    /\ UNCHANGED <<rowVars, codes, userVars, history>>

Swept(w) == At(w, "sweeping") /\ req[w].codes = {}

\* What a commit makes of the codes, with a batch of new ones.
AfterSweep(w, batch) ==
    /\ codes' = [c \in Codes |-> CASE c \in Locked(w) -> "gone"
                                   [] c \in batch     -> "fresh"
                                   [] OTHER           -> codes[c]]
    /\ doomed' = doomed \cup req[w].saw
    /\ Finish(w)

\* The new codes are inserted and committed.
GenerateCommit(w) ==
    /\ Swept(w) /\ Is(w, "generate")
    /\ AfterSweep(w, {c \in Unborn : Cardinality({d \in Unborn : d < c}) < BatchSize})
    /\ UNCHANGED <<row, made, userVars, uses, accounted>>

\* The secret and the codes go together.
DisableCommit(w) ==
    /\ Swept(w) /\ Is(w, "disable")
    /\ row' = IF rowLock = w THEN None ELSE row
    /\ AfterSweep(w, {})
    /\ UNCHANGED <<made, userVars, uses, accounted>>

-----------------------------------------------------------------------------
(* The rest of the system *)

\* A failed statement, a dropped request, a crash: the transaction is undone.
Rollback(w) ==
    /\ ~At(w, "idle")
    /\ Leave(w)
    /\ UNCHANGED <<userVars, history>>

\* PUT /users/:id with is_active
SetActive(a) ==
    /\ active # a
    /\ active' = a
    /\ UNCHANGED <<rowVars, codeVars, mfaToken, req, history>>

\* Five minutes pass without a login.
TokenExpires ==
    /\ mfaToken
    /\ mfaToken' = FALSE
    /\ UNCHANGED <<rowVars, codeVars, active, req, history>>

Next ==
    \/ \E w \in Workers :
        \/ LoginUser(w) \/ ChallengeFind(w) \/ Setup(w) \/ ConfirmFind(w)
        \/ DisableFind(w) \/ AdminDisable(w) \/ GenerateFind(w)
        \/ \E c \in Codes : BackupFind(w, c) \/ BackupMark(w, c)
        \/ LoginFactor(w) \/ LoginCommit(w)
        \/ ChallengeTotp(w) \/ ChallengeUser(w) \/ ChallengeCommit(w)
        \/ DropSecret(w) \/ SetupInsert(w) \/ SetupConflict(w) \/ SetupCommit(w)
        \/ ActivateFind(w) \/ ActivateUpdate(w) \/ ConfirmCommit(w)
        \/ Disable(w) \/ SweepStart(w) \/ SweepCode(w) \/ GenerateCommit(w) \/ DisableCommit(w)
        \/ Rollback(w)
    \/ \E a \in BOOLEAN : SetActive(a)
    \/ TokenExpires

Spec == Init /\ [][Next]_vars

-----------------------------------------------------------------------------
(* Properties *)

\* The transaction whose end a request's next statement waits for.
WaitsFor(w) ==
    CASE At(w, "dropping") /\ req[w].target # None /\ Secret = req[w].target -> rowLock
      [] At(w, "activating") /\ Secret = req[w].target -> rowLock
      [] At(w, "dropped") /\ Is(w, "setup") -> IF inserter # None THEN inserter
                                              ELSE IF rowLock # w THEN rowLock ELSE None
      [] At(w, "backup") -> codeLock[NextCode(w)]
      [] At(w, "sweeping") /\ req[w].codes # {} -> codeLock[NextCode(w)]
      [] OTHER -> None

\* However challenges race, only those under way when the first of them
\* committed can be answered with the same backup code again
\* (consume_backup_code reads and writes in two statements).
BackupUsesBounded == \A c \in Codes : uses[c] <= Cardinality(Workers)

\* A backup code is spent in the very commit that stores tokens for it: no
\* other commit spends one but that of a user found inactive, and none issues
\* tokens for a code that it leaves unused.
ConsumptionAtomic ==
    [][\A c \in Codes :
          /\ codes[c] = "fresh" /\ codes'[c] = "used" => uses'[c] > uses[c] \/ ~active
          /\ uses'[c] > uses[c] => codes'[c] = "used"]_vars

\* A login that began while a factor was on is challenged, unless that factor
\* has been taken away in the meantime, for good.
LoginsChallenged ==
    \A w \in Workers :
        At(w, "passed") /\ req[w].on # None => Secret # req[w].on

\* A secret is enabled only if a code of it was verified, unless its setup
\* committed in the middle of a confirmation: activate looks the row up again.
EnabledAccounted == Enabled => row.secret \in accounted

\* Every backup code that was there when a generation or a disabling came to
\* the codes is gone once it has committed, also one that a challenge was
\* marking at the time.
SweptCodesDead == \A c \in doomed : codes[c] = "gone"

\* A code that is gone never comes back, and a used one is never unused again.
DeadCodesStayDead ==
    [][\A c \in Codes : /\ codes[c] = "gone" => codes'[c] = "gone"
                        /\ codes[c] = "used" => codes'[c] # "fresh"]_vars

\* Setup, confirmation and disabling lock the secret before the codes, and the
\* codes are locked in one order: requests never wait for each other in a circle.
NoDeadlock ==
    \A S \in (SUBSET Workers) \ {{}} : \E w \in S : WaitsFor(w) \notin S

-----------------------------------------------------------------------------
(* What the documentation says and the code does not do *)

\* docs/database.md:350: "Single-use MFA recovery codes".
BackupSingleUse == \A c \in Codes : uses[c] <= 1

\* docs/mfa.md, "Disable MFA": the user must provide a valid code, or an
\* administrator does it.  Setting the factor up again takes neither.
OnlyDisableTurnsOff ==
    [][Enabled /\ ~Enabled' => \E w \in Workers : Is(w, "disable") /\ Swept(w)]_vars
=============================================================================
