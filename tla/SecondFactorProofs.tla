------------------------- MODULE SecondFactorProofs -------------------------
(***************************************************************************)
(* Safety of SecondFactor for any number of requests, secrets, backup      *)
(* codes and any size of a batch.                                          *)
(***************************************************************************)
EXTENDS SecondFactor, FiniteSetTheorems, WellFoundedInduction, TLAPS

(* The types, and the bound on secrets that they need *)

Setups == {w \in Workers : Is(w, "setup")}

SecretsBounded == made + Cardinality(Setups) <= MaxSecrets

\* A request at this step is of this kind.
KindOfStep ==
    \A w \in Workers :
        /\ At(w, "inserted") => Is(w, "setup")
        /\ req[w].step \in {"confirming", "activating", "activated"} => Is(w, "confirm")

(* The row of the secret *)

RowMade == row # None => row.secret <= made

\* While a confirmation is under way the row in force is accounted for.
ConfirmsAccounted ==
    \A w \in Workers : Is(w, "confirm") /\ row # None => row.secret \in accounted

\* Who has updated the row holds it, and it is there.
ActivationsHold ==
    \A w \in Workers :
        /\ At(w, "activating") => req[w].target # None
        /\ At(w, "activated") => rowLock = w /\ row # None

\* Who has inserted a row is the only one, and holds the one it replaces.
InsertionsHold ==
    \A w \in Workers :
        At(w, "inserted") => inserter = w /\ (row # None => rowLock = w)

\* The factor that a login began with is enabled as long as it is there, and
\* once it has gone it does not come back.
LoginsKnow ==
    \A w \in Workers : req[w].on # None =>
        /\ At(w, "user") => req[w].on <= made /\ (Secret = req[w].on => row.enabled)
        /\ At(w, "passed") => req[w].on <= made /\ Secret # req[w].on

RowInv == RowMade /\ ConfirmsAccounted /\ ActivationsHold /\ InsertionsHold
          /\ LoginsKnow /\ EnabledAccounted

(* The backup codes *)

\* Only codes that are there are locked: by the challenge that has marked the
\* one it was given, or by a deletion.
LocksOK ==
    \A c \in Codes : codeLock[c] # None =>
        /\ codes[c] \in {"fresh", "used"}
        /\ LET w == codeLock[c] IN
             \/ At(w, "sweeping")
             \/ (At(w, "verified") \/ At(w, "cleared")) /\ c \in req[w].codes

FreshUnused == \A c \in Codes : codes[c] \in {"unborn", "fresh"} => uses[c] = 0

\* A deletion has every row that it saw still ahead, in its hands, or gone.
SweepsOK ==
    \A w \in Workers : At(w, "sweeping") =>
        \A c \in req[w].saw :
            /\ codes[c] # "unborn"
            /\ c \in req[w].codes \/ codeLock[c] = w \/ codes[c] = "gone"

\* A challenge that has not seen a backup code aims at none.
FactorClean == \A w \in Workers : At(w, "factor") => req[w].codes = {}

CodeInv == LocksOK /\ FreshUnused /\ SweepsOK /\ FactorClean /\ SweptCodesDead

\* the inductive invariant, but for the counts
Inv == TypeOK /\ KindOfStep /\ RowInv /\ CodeInv

\* Challenges that hold a code in hand; each use takes one of them.
Pending(c) ==
    {w \in Workers : req[w].step \in {"backup", "verified", "cleared"} /\ c \in req[w].codes}

UsesBounded == \A c \in Codes : uses[c] + Cardinality(Pending(c)) <= Cardinality(Workers)

-----------------------------------------------------------------------------
(* Types *)

\* The initial state satisfies the invariant.
LEMMA InitInv == Init => Inv
<1> USE ConstantsAssumption
<1> SUFFICES ASSUME Init PROVE Inv
    OBVIOUS
<1>1. TypeOK
  <2>1. Idle \in Request /\ 0 \in 0 .. MaxSecrets
    BY DEF Request
  <2> QED
    BY <2>1 DEF Init, TypeOK
<1>2. \A w \in Workers : req[w] = Idle /\ Idle.step = "idle" /\ Idle.kind = None /\ Idle.on = None
  BY DEF Init, Idle
<1>3. KindOfStep /\ RowInv
  BY <1>2 DEF Init, KindOfStep, RowInv, RowMade, ConfirmsAccounted, ActivationsHold,
     InsertionsHold, LoginsKnow, EnabledAccounted, Enabled, At, Is, Kinds
<1>4. CodeInv
  BY <1>2 DEF Init, CodeInv, LocksOK, FreshUnused, SweepsOK, FactorClean, SweptCodesDead, At
<1> QED
  BY <1>1, <1>3, <1>4 DEF Inv

\* A request is idle or a record of the kind that is declared.
LEMMA RequestForms ==
    ASSUME TypeOK, NEW w \in Workers
    PROVE  /\ req[w] \in Request
           /\ req[w].on \in Secrets \cup {None}
           /\ req[w].target \in Secrets \cup {None}
           /\ req[w].codes \in SUBSET Codes
           /\ req[w].saw \in SUBSET Codes
           /\ req[w].step # "idle" => req[w] # Idle /\ req[w].kind \in Kinds
BY DEF TypeOK, Request, Running, Steps, Idle

\* The end of a transaction keeps the types.
LEMMA FinishType ==
    ASSUME TypeOK, NEW w \in Workers, Finish(w)
    PROVE  /\ req' \in [Workers -> Request]
           /\ rowLock' \in Workers \cup {None} /\ inserter' \in Workers \cup {None}
           /\ codeLock' \in [Codes -> Workers \cup {None}]
BY DEF Finish, TypeOK, Request

\* What a step may set in a running request.
LEMMA RunningExcept ==
    ASSUME NEW r \in Running, NEW s \in Steps, NEW t \in Secrets \cup {None},
           NEW c \in SUBSET Codes, NEW a \in SUBSET Codes
    PROVE  /\ [r EXCEPT !.step = s] \in Running
           /\ [r EXCEPT !.codes = c] \in Running
           /\ [r EXCEPT !.step = s, !.codes = c] \in Running
           /\ [r EXCEPT !.step = s, !.target = t] \in Running
           /\ [r EXCEPT !.step = s, !.codes = c, !.saw = a] \in Running
BY DEF Running

\* What a request begins with.
LEMMA RunningBegins ==
    ASSUME NEW s \in Steps, NEW k \in Kinds, NEW t \in Secrets \cup {None}
    PROVE  /\ [Idle EXCEPT !.step = s, !.kind = k] \in Running
           /\ [Idle EXCEPT !.step = s, !.kind = k, !.on = t] \in Running
           /\ [Idle EXCEPT !.step = s, !.kind = k, !.target = t] \in Running
BY DEF Running, Idle

LEMMA SecretType == TypeOK => Secret \in Secrets \cup {None}
BY DEF TypeOK, Secret

\* Every step keeps the declared types of requests.
LEMMA NextRequestType ==
    ASSUME TypeOK, [Next]_vars
    PROVE  req' \in [Workers -> Request]
<1> USE ConstantsAssumption
<1>0. ASSUME NEW w \in Workers, NEW r \in Running, req' = [req EXCEPT ![w] = r]
      PROVE  req' \in [Workers -> Request]
  BY <1>0 DEF TypeOK, Request
<1>1. ASSUME NEW w \in Workers, \/ LoginUser(w) \/ ChallengeFind(w) \/ Setup(w) \/ ConfirmFind(w)
                                \/ DisableFind(w) \/ AdminDisable(w) \/ Disable(w) \/ GenerateFind(w)
      PROVE  req' \in [Workers -> Request]
  <2>1. (IF Enabled THEN row.secret ELSE None) \in Secrets \cup {None}
    BY DEF Enabled, TypeOK
  <2>2. /\ {"user", "factor", "dropping", "confirming", "disabling", "generating"} \subseteq Steps
        /\ {"login", "challenge", "setup", "confirm", "disable", "generate"} = Kinds
    BY DEF Steps, Kinds
  <2>3. \E r \in Running : req' = [req EXCEPT ![w] = r]
    BY <1>1, <2>1, <2>2, SecretType, RunningBegins
       DEF LoginUser, ChallengeFind, Setup, ConfirmFind, DisableFind, AdminDisable, Disable,
           GenerateFind, DropStart
  <2> QED
    BY <2>3, <1>0
<1>2. ASSUME NEW w \in Workers, Finish(w)
      PROVE  req' \in [Workers -> Request]
  BY <1>2, FinishType
<1>3. ASSUME NEW w \in Workers, req[w].step # "idle",
             NEW s \in {"passed", "verified", "cleared", "dropped", "inserted", "activated"}, Goto(w, s)
      PROVE  req' \in [Workers -> Request]
  <2>1. req[w] \in Running /\ s \in Steps
    BY <1>3, RequestForms DEF Request, Steps
  <2>2. req' = [req EXCEPT ![w] = [req[w] EXCEPT !.step = s]]
    BY <1>3 DEF Goto
  <2> QED
    BY <2>1, <2>2, <1>0, RunningExcept
<1>4. ASSUME NEW w \in Workers, NEW c \in Codes, BackupFind(w, c)
      PROVE  req' \in [Workers -> Request]
  <2>1. req[w] \in Running /\ "backup" \in Steps
    BY <1>4, RequestForms DEF Request, Steps, BackupFind, At
  <2>2. req' = [req EXCEPT ![w] = [req[w] EXCEPT !.step = "backup", !.codes = {c}]]
    BY <1>4 DEF BackupFind, TypeOK
  <2> QED
    BY <2>1, <2>2, <1>0, RunningExcept
<1>5. ASSUME NEW w \in Workers, SetupInsert(w)
      PROVE  req' \in [Workers -> Request]
  BY <1>3, <1>5 DEF SetupInsert, At, Goto
<1>6. ASSUME NEW w \in Workers, At(w, "confirming"), row # None,
             req' = [req EXCEPT ![w].step = "activating", ![w].target = row.secret]
      PROVE  req' \in [Workers -> Request]
  <2>1. req[w] \in Running /\ "activating" \in Steps
    BY <1>6, RequestForms DEF Request, Steps, At
  <2>2. req' = [req EXCEPT ![w] = [req[w] EXCEPT !.step = "activating", !.target = row.secret]]
    BY <1>6 DEF TypeOK
  <2>3. row.secret \in Secrets
    BY <1>6 DEF TypeOK
  <2> QED
    BY <2>1, <2>2, <2>3, <1>0, RunningExcept
<1>7. ASSUME NEW w \in Workers, SweepStart(w)
      PROVE  req' \in [Workers -> Request]
  <2>1. req[w] \in Running /\ "sweeping" \in Steps
    BY <1>7, RequestForms DEF Request, Steps, SweepStart, At
  <2>2. req' = [req EXCEPT ![w] = [req[w] EXCEPT !.step = "sweeping", !.codes = Stored, !.saw = Stored]]
    BY <1>7 DEF SweepStart, TypeOK
  <2>3. Stored \in SUBSET Codes
    BY DEF Stored
  <2> QED
    BY <2>1, <2>2, <2>3, <1>0, RunningExcept
<1>8. ASSUME NEW w \in Workers, SweepCode(w)
      PROVE  req' \in [Workers -> Request]
  <2>1. req[w] \in Running /\ req[w].step \in Steps /\ req[w].codes \in SUBSET Codes
    BY <1>8, RequestForms DEF Request, Running, SweepCode, At
  <2>2. req' = [req EXCEPT ![w] = [req[w] EXCEPT !.codes = @ \ {NextCode(w)}]]
    BY <1>8 DEF SweepCode, TypeOK
  <2>3. req[w].codes \ {NextCode(w)} \in SUBSET Codes
    BY <2>1
  <2> QED
    BY <2>1, <2>2, <2>3, <1>0, RunningExcept
<1>9. ASSUME UNCHANGED req
      PROVE  req' \in [Workers -> Request]
  BY <1>9 DEF TypeOK
<1> QED
  BY <1>1, <1>2, <1>3, <1>4, <1>5, <1>6, <1>7, <1>8, <1>9
     DEF Next, vars, LoginFactor, LoginCommit, ChallengeTotp, BackupMark, ChallengeUser, ChallengeCommit,
         DropSecret, SetupConflict, SetupCommit, ActivateFind, ActivateUpdate, ConfirmCommit, AfterSweep,
         GenerateCommit, DisableCommit, Rollback, SetActive, TokenExpires, Leave, At

-----------------------------------------------------------------------------
(* The bound on secrets, and the types of the tables *)

\* Setups are requests, of which there are finitely many.
LEMMA SetupsFinite ==
    /\ IsFiniteSet(Setups) /\ Cardinality(Setups) \in Nat
    /\ \A w \in Setups : Cardinality(Setups \ {w}) = Cardinality(Setups) - 1
    /\ Cardinality(Workers) \in Nat
<1>1. Setups \subseteq Workers /\ IsFiniteSet(Workers)
  BY ConstantsAssumption DEF Setups
<1>2. IsFiniteSet(Setups)
  BY <1>1, FS_Subset
<1> QED
  BY <1>1, <1>2, FS_CardinalityType, FS_RemoveElement

\* A step at the end of a setup has secrets left.
LEMMA SecretLeft ==
    ASSUME TypeOK, KindOfStep, SecretsBounded, NEW w \in Workers, SetupCommit(w)
    PROVE  made + 1 \in Secrets /\ made + 1 \in 0 .. MaxSecrets /\ w \in Setups
<1>1. w \in Setups
  BY DEF SetupCommit, KindOfStep, Setups
<1>2. Setups # {} /\ Cardinality(Setups) # 0
  BY <1>1, SetupsFinite, FS_EmptySet
<1> QED
  BY <1>1, <1>2, SetupsFinite, ConstantsAssumption DEF SecretsBounded, TypeOK, Secrets

\* Every step keeps the declared types.
LEMMA NextType ==
    ASSUME TypeOK, KindOfStep, ActivationsHold, SecretsBounded, [Next]_vars
    PROVE  TypeOK'
<1> USE ConstantsAssumption
<1>1. req' \in [Workers -> Request]
  BY NextRequestType
<1>2. /\ row' \in [secret : Secrets, enabled : BOOLEAN] \cup {None}
      /\ made' \in 0 .. MaxSecrets
      /\ accounted' \subseteq Secrets
  <2>1. ASSUME NEW w \in Workers, SetupCommit(w)
        PROVE  <1>2
    <3>1. made + 1 \in Secrets /\ made + 1 \in 0 .. MaxSecrets
      BY <2>1, SecretLeft
    <3> QED
      BY <2>1, <3>1 DEF SetupCommit, TypeOK
  <2>2. ASSUME NEW w \in Workers, ConfirmCommit(w)
        PROVE  <1>2
    <3>1. row \in [secret : Secrets, enabled : BOOLEAN]
      BY <2>2 DEF ConfirmCommit, ActivationsHold, TypeOK
    <3>2. [row EXCEPT !.enabled = TRUE] \in [secret : Secrets, enabled : BOOLEAN]
      BY <3>1
    <3> QED
      BY <2>2, <3>2 DEF ConfirmCommit, TypeOK, history
  <2>3. ASSUME NEW w \in Workers, DisableCommit(w)
        PROVE  <1>2
    BY <2>3 DEF DisableCommit, TypeOK
  <2>4. ASSUME NEW w \in Workers, ConfirmFind(w)
        PROVE  <1>2
    BY <2>4 DEF ConfirmFind, rowVars, TypeOK
  <2>5. ASSUME UNCHANGED <<row, made, accounted>>
        PROVE  <1>2
    BY <2>5 DEF TypeOK
  <2> QED
    BY <2>1, <2>2, <2>3, <2>4, <2>5
       DEF Next, vars, rowVars, history, LoginUser, ChallengeFind, Setup, DisableFind, AdminDisable,
           GenerateFind, BackupFind, BackupMark, LoginFactor, LoginCommit, ChallengeTotp, ChallengeUser,
           ChallengeCommit, DropSecret, SetupInsert, SetupConflict, ActivateFind, ActivateUpdate,
           Disable, SweepStart, SweepCode, GenerateCommit, Rollback, SetActive, TokenExpires, Leave
<1>3. rowLock' \in Workers \cup {None} /\ inserter' \in Workers \cup {None}
  <2>1. ASSUME NEW w \in Workers, Finish(w)
        PROVE  <1>3
    BY <2>1, FinishType
  <2>2. ASSUME NEW w \in Workers, DropSecret(w) \/ SetupInsert(w)
        PROVE  <1>3
    BY <2>2 DEF DropSecret, SetupInsert, TypeOK
  <2>3. ASSUME NEW w \in Workers, ActivateUpdate(w)
        PROVE  <1>3
    BY <2>1, <2>3 DEF ActivateUpdate, Leave, TypeOK
  <2>4. ASSUME UNCHANGED <<rowLock, inserter>>
        PROVE  <1>3
    BY <2>4 DEF TypeOK
  <2> QED
    BY <2>1, <2>2, <2>3, <2>4
       DEF Next, vars, rowVars, LoginUser, ChallengeFind, Setup, ConfirmFind, DisableFind,
           AdminDisable, GenerateFind, BackupFind, BackupMark, LoginFactor, LoginCommit, ChallengeTotp,
           ChallengeUser, ChallengeCommit, SetupConflict, SetupCommit, ActivateFind, ConfirmCommit,
           Disable, SweepStart, SweepCode, AfterSweep, GenerateCommit, DisableCommit, Rollback, SetActive,
           TokenExpires, Leave
<1>4. /\ codes' \in [Codes -> {"unborn", "fresh", "used", "gone"}]
      /\ uses' \in [Codes -> Nat]
      /\ doomed' \subseteq Codes
  <2>1. ASSUME NEW w \in Workers, ChallengeCommit(w)
        PROVE  <1>4
    BY <2>1 DEF ChallengeCommit, TypeOK
  <2>2. ASSUME NEW w \in Workers, ChallengeUser(w)
        PROVE  <1>4
    BY <2>2 DEF ChallengeUser, codeVars, history, TypeOK
  <2>3. ASSUME NEW w \in Workers, NEW b, AfterSweep(w, b), uses' = uses
        PROVE  <1>4
    <3>1. req[w].saw \subseteq Codes
      BY RequestForms
    <3> QED
      BY <2>3, <3>1 DEF AfterSweep, TypeOK
  <2>4. ASSUME UNCHANGED <<codes, uses, doomed>>
        PROVE  <1>4
    BY <2>4 DEF TypeOK
  <2> QED
    BY <2>1, <2>2, <2>3, <2>4
       DEF Next, vars, codeVars, history, LoginUser, ChallengeFind, Setup, ConfirmFind, DisableFind,
           AdminDisable, GenerateFind, BackupFind, BackupMark, LoginFactor, LoginCommit, ChallengeTotp,
           DropSecret, SetupInsert, SetupConflict, SetupCommit, ActivateFind, ActivateUpdate, ConfirmCommit,
           Disable, SweepStart, SweepCode, GenerateCommit, DisableCommit, Rollback, SetActive, TokenExpires,
           Leave
<1>5. codeLock' \in [Codes -> Workers \cup {None}]
  <2>1. ASSUME NEW w \in Workers, Finish(w)
        PROVE  <1>5
    BY <2>1, FinishType
  <2>2. ASSUME NEW w \in Workers, NEW c \in Codes, BackupMark(w, c)
        PROVE  <1>5
    BY <2>1, <2>2 DEF BackupMark, Leave, TypeOK
  <2>3. ASSUME NEW w \in Workers, SweepCode(w)
        PROVE  <1>5
    BY <2>3 DEF SweepCode, TypeOK
  <2>4. ASSUME UNCHANGED codeLock
        PROVE  <1>5
    BY <2>4 DEF TypeOK
  <2> QED
    BY <2>1, <2>2, <2>3, <2>4
       DEF Next, vars, codeVars, LoginUser, ChallengeFind, Setup, ConfirmFind, DisableFind,
           AdminDisable, GenerateFind, BackupFind, LoginFactor, LoginCommit, ChallengeTotp,
           ChallengeUser, ChallengeCommit, DropSecret, SetupInsert, SetupConflict, SetupCommit, ActivateFind,
           ActivateUpdate, ConfirmCommit, Disable, SweepStart, AfterSweep, GenerateCommit, DisableCommit,
           Rollback, SetActive, TokenExpires, Leave
<1>6. active' \in BOOLEAN /\ mfaToken' \in BOOLEAN
  <2>1. ASSUME NEW w \in Workers, LoginFactor(w)
        PROVE  <1>6
    BY <2>1 DEF LoginFactor, TypeOK
  <2>2. ASSUME NEW a \in BOOLEAN, SetActive(a)
        PROVE  <1>6
    BY <2>2 DEF SetActive, TypeOK
  <2>3. CASE TokenExpires
    BY <2>3 DEF TokenExpires, TypeOK
  <2>4. ASSUME UNCHANGED userVars
        PROVE  <1>6
    BY <2>4 DEF userVars, TypeOK
  <2> QED
    BY <2>1, <2>2, <2>3, <2>4
       DEF Next, vars, LoginUser, ChallengeFind, Setup, ConfirmFind, DisableFind,
           AdminDisable, GenerateFind, BackupFind, BackupMark, LoginCommit, ChallengeTotp,
           ChallengeUser, ChallengeCommit, DropSecret, SetupInsert, SetupConflict, SetupCommit, ActivateFind,
           ActivateUpdate, ConfirmCommit, Disable, SweepStart, SweepCode, GenerateCommit, DisableCommit,
           Rollback
<1> QED
  BY <1>1, <1>2, <1>3, <1>4, <1>5, <1>6 DEF TypeOK

-----------------------------------------------------------------------------
(* What a step makes of the requests *)

\* A step of a request leaves the other requests alone.
LEMMA OthersStay ==
    ASSUME TypeOK, NEW w \in Workers, NEW r, req' = [req EXCEPT ![w] = r]
    PROVE  req'[w] = r /\ \A v \in Workers \ {w} : req'[v] = req[v]
BY DEF TypeOK

\* The end of a request.
LEMMA FinishRequest ==
    ASSUME TypeOK, NEW w \in Workers, Finish(w)
    PROVE  /\ req'[w] = Idle /\ req'[w].step = "idle" /\ req'[w].kind = None /\ req'[w].on = None
           /\ req'[w].codes = {} /\ req'[w].saw = {}
           /\ \A v \in Workers \ {w} : req'[v] = req[v]
BY DEF Finish, Idle, TypeOK

\* The request that goes on to the next step is otherwise what it was.
LEMMA GotoRequest ==
    ASSUME TypeOK, NEW w \in Workers, NEW s, Goto(w, s), req[w].step # "idle"
    PROVE  /\ req'[w].step = s /\ req'[w].kind = req[w].kind /\ req'[w].on = req[w].on
           /\ req'[w].target = req[w].target /\ req'[w].codes = req[w].codes /\ req'[w].saw = req[w].saw
           /\ \A v \in Workers \ {w} : req'[v] = req[v]
<1>1. req' = [req EXCEPT ![w] = [req[w] EXCEPT !.step = s]] /\ req[w] \in Running
  BY RequestForms DEF Goto, Request
<1>2. req'[w] = [req[w] EXCEPT !.step = s] /\ \A v \in Workers \ {w} : req'[v] = req[v]
  BY <1>1 DEF TypeOK
<1> QED
  BY <1>1, <1>2 DEF Running

\* A request that begins, or begins its deletion.
LEMMA BeginRequest ==
    ASSUME TypeOK, NEW w \in Workers
    PROVE  /\ LoginUser(w) =>
                /\ req'[w].step = "user" /\ req'[w].kind = "login"
                /\ req'[w].on = IF Enabled THEN row.secret ELSE None
           /\ ChallengeFind(w) => req'[w].step = "factor" /\ req'[w].kind = "challenge"
           /\ Setup(w) => req'[w].step = "dropping" /\ req'[w].kind = "setup"
           /\ ConfirmFind(w) => req'[w].step = "confirming" /\ req'[w].kind = "confirm"
           /\ DisableFind(w) => req'[w].step = "disabling" /\ req'[w].kind = "disable"
           /\ Disable(w) \/ AdminDisable(w) => req'[w].step = "dropping" /\ req'[w].kind = "disable"
           /\ GenerateFind(w) => req'[w].step = "generating" /\ req'[w].kind = "generate"
           /\ (\/ ChallengeFind(w) \/ Setup(w) \/ ConfirmFind(w) \/ DisableFind(w) \/ AdminDisable(w)
               \/ Disable(w) \/ GenerateFind(w))
                => req'[w].on = None
           /\ (\/ LoginUser(w) \/ ChallengeFind(w) \/ Setup(w) \/ ConfirmFind(w) \/ DisableFind(w)
               \/ AdminDisable(w) \/ Disable(w) \/ GenerateFind(w))
                => req'[w].codes = {} /\ \A v \in Workers \ {w} : req'[v] = req[v]
<1>1. ASSUME LoginUser(w)
      PROVE  /\ req'[w].step = "user" /\ req'[w].kind = "login" /\ req'[w].codes = {}
             /\ req'[w].on = IF Enabled THEN row.secret ELSE None
             /\ \A v \in Workers \ {w} : req'[v] = req[v]
  BY <1>1 DEF LoginUser, Idle, TypeOK
<1>2. ASSUME ChallengeFind(w)
      PROVE  /\ req'[w].step = "factor" /\ req'[w].kind = "challenge" /\ req'[w].on = None /\ req'[w].codes = {}
             /\ \A v \in Workers \ {w} : req'[v] = req[v]
  BY <1>2 DEF ChallengeFind, Idle, TypeOK
<1>3. ASSUME ConfirmFind(w)
      PROVE  /\ req'[w].step = "confirming" /\ req'[w].kind = "confirm" /\ req'[w].on = None /\ req'[w].codes = {}
             /\ \A v \in Workers \ {w} : req'[v] = req[v]
  BY <1>3 DEF ConfirmFind, Idle, TypeOK
<1>4. ASSUME DisableFind(w)
      PROVE  /\ req'[w].step = "disabling" /\ req'[w].kind = "disable" /\ req'[w].on = None /\ req'[w].codes = {}
             /\ \A v \in Workers \ {w} : req'[v] = req[v]
  BY <1>4 DEF DisableFind, Idle, TypeOK
<1>5. ASSUME GenerateFind(w)
      PROVE  /\ req'[w].step = "generating" /\ req'[w].kind = "generate" /\ req'[w].on = None /\ req'[w].codes = {}
             /\ \A v \in Workers \ {w} : req'[v] = req[v]
  BY <1>5 DEF GenerateFind, Idle, TypeOK
<1>6. ASSUME Setup(w)
      PROVE  /\ req'[w].step = "dropping" /\ req'[w].kind = "setup" /\ req'[w].on = None /\ req'[w].codes = {}
             /\ \A v \in Workers \ {w} : req'[v] = req[v]
  BY <1>6 DEF Setup, DropStart, Idle, TypeOK
<1>7. ASSUME Disable(w)
      PROVE  /\ req'[w].step = "dropping" /\ req'[w].kind = "disable" /\ req'[w].on = None /\ req'[w].codes = {}
             /\ \A v \in Workers \ {w} : req'[v] = req[v]
  BY <1>7 DEF Disable, DropStart, Idle, TypeOK
<1>8. ASSUME AdminDisable(w)
      PROVE  /\ req'[w].step = "dropping" /\ req'[w].kind = "disable" /\ req'[w].on = None /\ req'[w].codes = {}
             /\ \A v \in Workers \ {w} : req'[v] = req[v]
  BY <1>8 DEF AdminDisable, DropStart, Idle, TypeOK
<1> QED
  BY <1>1, <1>2, <1>3, <1>4, <1>5, <1>6, <1>7, <1>8

\* The other steps that set more than the step itself.
LEMMA AimRequest ==
    ASSUME TypeOK, NEW w \in Workers
    PROVE  /\ \A c \in Codes : BackupFind(w, c) =>
                req'[w].step = "backup" /\ req'[w].kind = req[w].kind /\ req'[w].on = req[w].on
                /\ req'[w].codes = {c}
           /\ SetupInsert(w) => Goto(w, "inserted")
           /\ At(w, "confirming") /\ req' = [req EXCEPT ![w].step = "activating", ![w].target = row.secret] =>
                req'[w].step = "activating" /\ req'[w].kind = req[w].kind /\ req'[w].on = req[w].on
                /\ req'[w].target = row.secret /\ req'[w].codes = req[w].codes
           /\ SweepStart(w) =>
                req'[w].step = "sweeping" /\ req'[w].kind = req[w].kind /\ req'[w].on = req[w].on
                /\ req'[w].codes = Stored /\ req'[w].saw = Stored
           /\ SweepCode(w) =>
                req'[w].step = "sweeping" /\ req'[w].kind = req[w].kind /\ req'[w].on = req[w].on
                /\ req'[w].codes = req[w].codes \ {NextCode(w)} /\ req'[w].saw = req[w].saw
           /\ (\/ \E c \in Codes : BackupFind(w, c)
               \/ At(w, "confirming") /\ req' = [req EXCEPT ![w].step = "activating", ![w].target = row.secret]
               \/ SweepStart(w) \/ SweepCode(w))
                => \A v \in Workers \ {w} : req'[v] = req[v]
<1>1. req[w].step # "idle" => req[w] \in Running
  BY RequestForms DEF Request
<1>2. ASSUME NEW c \in Codes, BackupFind(w, c)
      PROVE  req' = [req EXCEPT ![w] = [req[w] EXCEPT !.step = "backup", !.codes = {c}]]
             /\ req[w] \in Running
  BY <1>1, <1>2 DEF BackupFind, At, TypeOK
<1>3. ASSUME At(w, "confirming"), req' = [req EXCEPT ![w].step = "activating", ![w].target = row.secret]
      PROVE  req' = [req EXCEPT ![w] = [req[w] EXCEPT !.step = "activating", !.target = row.secret]]
             /\ req[w] \in Running
  BY <1>1, <1>3 DEF At, TypeOK
<1>4. ASSUME SweepStart(w)
      PROVE  req' = [req EXCEPT ![w] = [req[w] EXCEPT !.step = "sweeping", !.codes = Stored, !.saw = Stored]]
             /\ req[w] \in Running
  BY <1>1, <1>4 DEF SweepStart, At, TypeOK
<1>5. ASSUME SweepCode(w)
      PROVE  req' = [req EXCEPT ![w] = [req[w] EXCEPT !.codes = @ \ {NextCode(w)}]]
             /\ req[w] \in Running /\ req[w].step = "sweeping"
  BY <1>1, <1>5 DEF SweepCode, At, TypeOK
<1>6. SetupInsert(w) => Goto(w, "inserted")
  BY DEF SetupInsert, Goto
<1>7. ASSUME NEW c \in Codes, BackupFind(w, c)
      PROVE  /\ req'[w].step = "backup" /\ req'[w].kind = req[w].kind /\ req'[w].on = req[w].on
             /\ req'[w].codes = {c}
             /\ \A v \in Workers \ {w} : req'[v] = req[v]
  <2>1. req'[w] = [req[w] EXCEPT !.step = "backup", !.codes = {c}]
        /\ \A v \in Workers \ {w} : req'[v] = req[v]
    BY <1>2, <1>7 DEF TypeOK
  <2>2. req[w] \in Running
    BY <1>2, <1>7
  <2> QED
    BY <2>1, <2>2 DEF Running
<1>8. ASSUME At(w, "confirming"), req' = [req EXCEPT ![w].step = "activating", ![w].target = row.secret]
      PROVE  /\ req'[w].step = "activating" /\ req'[w].kind = req[w].kind /\ req'[w].on = req[w].on
             /\ req'[w].target = row.secret /\ req'[w].codes = req[w].codes
             /\ \A v \in Workers \ {w} : req'[v] = req[v]
  <2>1. req'[w] = [req[w] EXCEPT !.step = "activating", !.target = row.secret]
        /\ \A v \in Workers \ {w} : req'[v] = req[v]
    BY <1>3, <1>8 DEF TypeOK
  <2>2. req[w] \in Running
    BY <1>3, <1>8
  <2> QED
    BY <2>1, <2>2 DEF Running
<1>9. ASSUME SweepStart(w)
      PROVE  /\ req'[w].step = "sweeping" /\ req'[w].kind = req[w].kind /\ req'[w].on = req[w].on
             /\ req'[w].codes = Stored /\ req'[w].saw = Stored
             /\ \A v \in Workers \ {w} : req'[v] = req[v]
  <2>1. req'[w] = [req[w] EXCEPT !.step = "sweeping", !.codes = Stored, !.saw = Stored]
        /\ \A v \in Workers \ {w} : req'[v] = req[v]
    BY <1>4, <1>9 DEF TypeOK
  <2>2. req[w] \in Running
    BY <1>4, <1>9
  <2> QED
    BY <2>1, <2>2 DEF Running
<1>10. ASSUME SweepCode(w)
      PROVE  /\ req'[w].step = "sweeping" /\ req'[w].kind = req[w].kind /\ req'[w].on = req[w].on
             /\ req'[w].codes = req[w].codes \ {NextCode(w)} /\ req'[w].saw = req[w].saw
             /\ \A v \in Workers \ {w} : req'[v] = req[v]
  <2>1. req'[w] = [req[w] EXCEPT !.codes = @ \ {NextCode(w)}]
        /\ \A v \in Workers \ {w} : req'[v] = req[v]
    BY <1>5, <1>10 DEF TypeOK
  <2>2. req[w] \in Running /\ req[w].step = "sweeping"
    BY <1>5, <1>10
  <2> QED
    BY <2>1, <2>2 DEF Running
<1> QED
  BY <1>6, <1>7, <1>8, <1>9, <1>10

\* Every step but these ends its request, or goes on with it at another step.
LEMMA Actors ==
    ASSUME TypeOK, [Next]_vars
    PROVE  \/ UNCHANGED req
           \/ \E w \in Workers :
                \/ LoginUser(w) \/ ChallengeFind(w) \/ Setup(w) \/ ConfirmFind(w)
                \/ DisableFind(w) \/ AdminDisable(w) \/ Disable(w) \/ GenerateFind(w)
                \/ \E c \in Codes : BackupFind(w, c)
                \/ SweepStart(w) \/ SweepCode(w)
                \/ At(w, "confirming") /\ row # None
                   /\ req' = [req EXCEPT ![w].step = "activating", ![w].target = row.secret]
                \/ Finish(w)
                \/ At(w, "user") /\ Goto(w, "passed")
                \/ At(w, "factor") /\ Goto(w, "verified")
                \/ At(w, "backup") /\ Goto(w, "verified")
                \/ At(w, "verified") /\ Goto(w, "cleared")
                \/ At(w, "dropping") /\ Goto(w, "dropped")
                \/ At(w, "dropped") /\ Is(w, "setup") /\ Goto(w, "inserted")
                \/ At(w, "activating") /\ Goto(w, "activated")
BY DEF Next, vars, LoginFactor, LoginCommit, ChallengeTotp, BackupMark, ChallengeUser, ChallengeCommit,
       DropSecret, SetupInsert, SetupConflict, SetupCommit, ActivateFind, ActivateUpdate, ConfirmCommit,
       AfterSweep, GenerateCommit, DisableCommit, Rollback, SetActive, TokenExpires, Leave, Goto

\* Requests keep the kind that their step belongs to.
LEMMA NextKinds ==
    ASSUME TypeOK, KindOfStep, FactorClean, [Next]_vars
    PROVE  KindOfStep' /\ FactorClean'
<1> SUFFICES ASSUME NEW v \in Workers
             PROVE  /\ req'[v].step = "inserted" => req'[v].kind = "setup"
                    /\ req'[v].step \in {"confirming", "activating", "activated"} => req'[v].kind = "confirm"
                    /\ req'[v].step = "factor" => req'[v].codes = {}
  BY DEF KindOfStep, FactorClean, At, Is
<1>1. /\ req[v].step = "inserted" => req[v].kind = "setup"
      /\ req[v].step \in {"confirming", "activating", "activated"} => req[v].kind = "confirm"
      /\ req[v].step = "factor" => req[v].codes = {}
  BY DEF KindOfStep, FactorClean, At, Is
<1>2. CASE UNCHANGED req
  BY <1>1, <1>2
<1>3. ASSUME NEW w \in Workers,
             \/ LoginUser(w) \/ ChallengeFind(w) \/ Setup(w) \/ ConfirmFind(w)
             \/ DisableFind(w) \/ AdminDisable(w) \/ Disable(w) \/ GenerateFind(w)
      PROVE  /\ v # w => req'[v] = req[v]
             /\ req'[w].step \in {"user", "factor", "dropping", "confirming", "disabling", "generating"}
             /\ req'[w].step = "confirming" => req'[w].kind = "confirm"
             /\ req'[w].codes = {}
  BY <1>3, BeginRequest
<1>4. ASSUME NEW w \in Workers,
             \/ \E c \in Codes : BackupFind(w, c)
             \/ SweepStart(w) \/ SweepCode(w) \/ Finish(w)
      PROVE  /\ v # w => req'[v] = req[v]
             /\ req'[w].step \in {"backup", "sweeping", "idle"}
  BY <1>4, AimRequest, FinishRequest
<1>5. ASSUME NEW w \in Workers, At(w, "confirming"),
             req' = [req EXCEPT ![w].step = "activating", ![w].target = row.secret]
      PROVE  /\ v # w => req'[v] = req[v]
             /\ req'[w].step = "activating" /\ req'[w].kind = req[w].kind /\ req[w].step = "confirming"
  BY <1>5, AimRequest DEF At
<1>6. ASSUME NEW w \in Workers,
             \/ At(w, "user") /\ Goto(w, "passed")
             \/ At(w, "factor") /\ Goto(w, "verified")
             \/ At(w, "backup") /\ Goto(w, "verified")
             \/ At(w, "verified") /\ Goto(w, "cleared")
             \/ At(w, "dropping") /\ Goto(w, "dropped")
             \/ At(w, "dropped") /\ Is(w, "setup") /\ Goto(w, "inserted")
             \/ At(w, "activating") /\ Goto(w, "activated")
      PROVE  /\ v # w => req'[v] = req[v]
             /\ req'[w].kind = req[w].kind
             /\ req'[w].step \in {"passed", "verified", "cleared", "dropped", "inserted", "activated"}
             /\ req'[w].step = "inserted" => req[w].kind = "setup"
             /\ req'[w].step = "activated" => req[w].step = "activating"
  BY <1>6, GotoRequest DEF At, Is
<1> QED
  BY <1>1, <1>2, <1>3, <1>4, <1>5, <1>6, Actors

-----------------------------------------------------------------------------
(* The backup codes *)

\* A step that leaves the codes alone, by a request that has none locked and
\* does not begin a deletion.
LEMMA CodesNeutral ==
    ASSUME TypeOK, LocksOK, FreshUnused, SweepsOK, SweptCodesDead,
           UNCHANGED <<codes, codeLock, uses, doomed>>,
           NEW w \in Workers, req[w].step \notin {"verified", "cleared", "sweeping"},
           req'[w].step # "sweeping", \A v \in Workers \ {w} : req'[v] = req[v]
    PROVE  LocksOK' /\ FreshUnused' /\ SweepsOK' /\ SweptCodesDead'
<1>1. \A c \in Codes : codeLock[c] # w
  BY ConstantsAssumption DEF LocksOK, At
<1>2. LocksOK'
  BY <1>1 DEF LocksOK, At, TypeOK
<1>3. SweepsOK'
  BY DEF SweepsOK, At
<1> QED
  BY <1>2, <1>3 DEF FreshUnused, SweptCodesDead

\* The end of a request that leaves the codes as they are.
LEMMA CodesFinish ==
    ASSUME TypeOK, LocksOK, FreshUnused, SweepsOK, SweptCodesDead,
           UNCHANGED <<codes, uses, doomed>>, NEW w \in Workers, Finish(w)
    PROVE  LocksOK' /\ FreshUnused' /\ SweepsOK' /\ SweptCodesDead'
<1> USE ConstantsAssumption
<1>1. req'[w].step = "idle" /\ \A v \in Workers \ {w} : req'[v] = req[v]
  BY FinishRequest
<1>2. \A c \in Codes : codeLock'[c] = IF codeLock[c] = w THEN None ELSE codeLock[c]
  BY DEF Finish
<1>3. LocksOK'
  BY <1>1, <1>2 DEF LocksOK, At, TypeOK
<1>4. SweepsOK'
  <2> SUFFICES ASSUME NEW v \in Workers, req'[v].step = "sweeping", NEW c \in req'[v].saw
               PROVE  codes'[c] # "unborn" /\ (c \in req'[v].codes \/ codeLock'[c] = v \/ codes'[c] = "gone")
    BY DEF SweepsOK, At
  <2>1. v # w /\ req'[v] = req[v]
    BY <1>1
  <2>2. c \in Codes
    BY <2>1, RequestForms
  <2> QED
    BY <1>2, <2>1, <2>2 DEF SweepsOK, At
<1> QED
  BY <1>3, <1>4 DEF FreshUnused, SweptCodesDead

\* A challenge marks the code it was given, or goes on once it is marked.
LEMMA CodesMark ==
    ASSUME TypeOK, LocksOK, FreshUnused, SweepsOK, SweptCodesDead,
           UNCHANGED <<codes, uses, doomed>>, NEW w \in Workers,
           \/ /\ At(w, "backup") /\ Goto(w, "verified")
              /\ \E c \in req[w].codes : c \in Stored /\ codeLock[c] = None
                                         /\ codeLock' = [codeLock EXCEPT ![c] = w]
           \/ At(w, "verified") /\ Goto(w, "cleared") /\ UNCHANGED codeLock
    PROVE  LocksOK' /\ FreshUnused' /\ SweepsOK' /\ SweptCodesDead'
<1> USE ConstantsAssumption
<1>1. /\ req[w].step # "sweeping" /\ req'[w].step \in {"verified", "cleared"}
      /\ req'[w].codes = req[w].codes /\ req[w].codes \subseteq Codes
      /\ \A v \in Workers \ {w} : req'[v] = req[v]
  BY RequestForms, GotoRequest DEF At
<1>2. \A c \in Codes : \/ codeLock'[c] = codeLock[c]
                       \/ codeLock'[c] = w /\ codes[c] \in {"fresh", "used"} /\ c \in req[w].codes
                          /\ codeLock[c] = None
  BY <1>1 DEF TypeOK, Stored
<1>3. LocksOK'
  <2> SUFFICES ASSUME NEW c \in Codes, codeLock'[c] # None
               PROVE  /\ codes[c] \in {"fresh", "used"}
                      /\ \/ req'[codeLock'[c]].step = "sweeping"
                         \/ req'[codeLock'[c]].step \in {"verified", "cleared"}
                            /\ c \in req'[codeLock'[c]].codes
    BY DEF LocksOK, At
  <2>1. CASE codeLock'[c] = w /\ codes[c] \in {"fresh", "used"} /\ c \in req[w].codes
    BY <1>1, <2>1
  <2>2. CASE codeLock'[c] = codeLock[c]
    BY <1>1, <2>2 DEF LocksOK, At, TypeOK
  <2> QED
    BY <1>2, <2>1, <2>2
<1>4. SweepsOK'
  <2> SUFFICES ASSUME NEW v \in Workers, req'[v].step = "sweeping", NEW c \in req'[v].saw
               PROVE  codes[c] # "unborn" /\ (c \in req'[v].codes \/ codeLock'[c] = v \/ codes[c] = "gone")
    BY DEF SweepsOK, At
  <2>1. v # w /\ req'[v] = req[v] /\ c \in Codes
    BY <1>1, RequestForms
  <2>2. codes[c] # "unborn" /\ (c \in req[v].codes \/ codeLock[c] = v \/ codes[c] = "gone")
    BY <2>1 DEF SweepsOK, At
  <2> QED
    BY <1>2, <2>1, <2>2
<1> QED
  BY <1>3, <1>4 DEF FreshUnused, SweptCodesDead

\* A challenge ends with its code used, with tokens or without.
LEMMA CodesUse ==
    ASSUME TypeOK, LocksOK, FreshUnused, SweepsOK, SweptCodesDead, UNCHANGED doomed,
           NEW w \in Workers, Finish(w), req[w].step # "sweeping",
           codes' = [c \in Codes |-> IF c \in Locked(w) THEN "used" ELSE codes[c]],
           UNCHANGED uses \/ uses' = [c \in Codes |-> IF c \in Locked(w) THEN uses[c] + 1 ELSE uses[c]]
    PROVE  LocksOK' /\ FreshUnused' /\ SweepsOK' /\ SweptCodesDead'
<1> USE ConstantsAssumption
<1>1. req'[w].step = "idle" /\ \A v \in Workers \ {w} : req'[v] = req[v]
  BY FinishRequest
<1>2. \A c \in Codes : codeLock'[c] = IF codeLock[c] = w THEN None ELSE codeLock[c]
  BY DEF Finish
<1>3. \A c \in Codes : codes'[c] = IF codeLock[c] = w THEN "used" ELSE codes[c]
  BY DEF Locked
<1>4. \A c \in Codes : codeLock[c] # w => uses'[c] = uses[c]
  BY DEF Locked, TypeOK
<1>5. \A c \in Codes : codeLock[c] = w => codes[c] \in {"fresh", "used"}
  BY DEF LocksOK
<1>6. LocksOK'
  BY <1>1, <1>2, <1>3 DEF LocksOK, At, TypeOK
<1>7. FreshUnused'
  BY <1>3, <1>4 DEF FreshUnused
<1>8. SweepsOK'
  <2> SUFFICES ASSUME NEW v \in Workers, req'[v].step = "sweeping", NEW c \in req'[v].saw
               PROVE  codes'[c] # "unborn" /\ (c \in req'[v].codes \/ codeLock'[c] = v \/ codes'[c] = "gone")
    BY DEF SweepsOK, At
  <2>1. v # w /\ req'[v] = req[v] /\ c \in Codes
    BY <1>1, RequestForms
  <2>2. codes[c] # "unborn" /\ (c \in req[v].codes \/ codeLock[c] = v \/ codes[c] = "gone")
    BY <2>1 DEF SweepsOK, At
  <2> QED
    BY <1>2, <1>3, <1>5, <2>1, <2>2
<1>9. SweptCodesDead'
  BY <1>3, <1>5 DEF SweptCodesDead, TypeOK
<1> QED
  BY <1>6, <1>7, <1>8, <1>9

\* A deletion begins with what is committed.
LEMMA CodesSweepStart ==
    ASSUME TypeOK, LocksOK, FreshUnused, SweepsOK, SweptCodesDead, NEW w \in Workers, SweepStart(w)
    PROVE  LocksOK' /\ FreshUnused' /\ SweepsOK' /\ SweptCodesDead'
<1> USE ConstantsAssumption
<1>1. /\ req[w].step \notin {"verified", "cleared", "sweeping"}
      /\ req'[w].codes = Stored /\ req'[w].saw = Stored
      /\ \A v \in Workers \ {w} : req'[v] = req[v]
      /\ UNCHANGED <<codes, codeLock, uses, doomed>>
  BY AimRequest DEF SweepStart, At, codeVars, history
<1>2. \A c \in Codes : codeLock[c] # w
  BY <1>1 DEF LocksOK, At
<1>3. LocksOK'
  BY <1>1, <1>2 DEF LocksOK, At, TypeOK
<1>4. SweepsOK'
  BY <1>1 DEF SweepsOK, At, Stored
<1> QED
  BY <1>1, <1>3, <1>4 DEF FreshUnused, SweptCodesDead

\* It takes one row after the other.
LEMMA CodesSweep ==
    ASSUME TypeOK, LocksOK, FreshUnused, SweepsOK, SweptCodesDead, NEW w \in Workers, SweepCode(w)
    PROVE  LocksOK' /\ FreshUnused' /\ SweepsOK' /\ SweptCodesDead'
<1> USE ConstantsAssumption
<1> DEFINE n == NextCode(w)
<1>1. /\ req[w].step = "sweeping" /\ req'[w].step = "sweeping"
      /\ req'[w].codes = req[w].codes \ {n} /\ req'[w].saw = req[w].saw
      /\ \A v \in Workers \ {w} : req'[v] = req[v]
      /\ UNCHANGED <<codes, uses, doomed>>
      /\ codeLock[n] = None
      /\ codeLock' = IF n \in Stored THEN [codeLock EXCEPT ![n] = w] ELSE codeLock
  BY AimRequest DEF SweepCode, At, history
<1> HIDE DEF n
<1>2. \A c \in Codes : \/ codeLock'[c] = codeLock[c] /\ (c = n => codes[c] \in {"unborn", "gone"})
                       \/ codeLock'[c] = w /\ c = n /\ codes[c] \in {"fresh", "used"}
  BY <1>1 DEF TypeOK, Stored
<1>3. LocksOK'
  <2> SUFFICES ASSUME NEW c \in Codes, codeLock'[c] # None
               PROVE  /\ codes[c] \in {"fresh", "used"}
                      /\ \/ req'[codeLock'[c]].step = "sweeping"
                         \/ req'[codeLock'[c]].step \in {"verified", "cleared"}
                            /\ c \in req'[codeLock'[c]].codes
    BY <1>1 DEF LocksOK, At
  <2> QED
    BY <1>1, <1>2 DEF LocksOK, At, TypeOK
<1>4. SweepsOK'
  <2> SUFFICES ASSUME NEW v \in Workers, req'[v].step = "sweeping", NEW c \in req'[v].saw
               PROVE  codes[c] # "unborn" /\ (c \in req'[v].codes \/ codeLock'[c] = v \/ codes[c] = "gone")
    BY <1>1 DEF SweepsOK, At
  <2>1. c \in req[v].saw /\ req[v].step = "sweeping" /\ c \in Codes
    BY <1>1, RequestForms
  <2>2. codes[c] # "unborn" /\ (c \in req[v].codes \/ codeLock[c] = v \/ codes[c] = "gone")
    BY <2>1 DEF SweepsOK, At
  <2> QED
    BY <1>1, <1>2, <2>1, <2>2
<1> QED
  BY <1>1, <1>3, <1>4 DEF FreshUnused, SweptCodesDead

\* It ends with all of them gone.
LEMMA CodesSwept ==
    ASSUME TypeOK, LocksOK, FreshUnused, SweepsOK, SweptCodesDead, UNCHANGED uses,
           NEW w \in Workers, Swept(w), NEW b \in SUBSET Unborn, AfterSweep(w, b)
    PROVE  LocksOK' /\ FreshUnused' /\ SweepsOK' /\ SweptCodesDead'
<1> USE ConstantsAssumption
<1>1. req'[w].step = "idle" /\ \A v \in Workers \ {w} : req'[v] = req[v]
  BY FinishRequest DEF AfterSweep
<1>2. \A c \in Codes : codeLock'[c] = IF codeLock[c] = w THEN None ELSE codeLock[c]
  BY DEF AfterSweep, Finish
<1>0. codes' = [c \in Codes |-> CASE c \in Locked(w) -> "gone"
                                 [] c \in b          -> "fresh"
                                 [] OTHER            -> codes[c]]
  BY DEF AfterSweep
<1>3. \A c \in Codes : /\ codeLock[c] = w => codes'[c] = "gone"
                       /\ codeLock[c] # w /\ codes[c] # "unborn" => codes'[c] = codes[c]
                       /\ codeLock[c] # w /\ codes[c] = "unborn" => codes'[c] \in {"unborn", "fresh"}
  <2> TAKE c \in Codes
  <2>1. CASE c \in Locked(w)
    <3>1. codeLock[c] = w /\ c \notin b
      BY <2>1 DEF Locked, LocksOK, Unborn
    <3>2. codes'[c] = "gone"
      BY <1>0, <2>1, <3>1
    <3> QED
      BY <3>1, <3>2
  <2>2. CASE c \notin Locked(w) /\ c \in b
    <3>1. codes'[c] = "fresh"
      BY <1>0, <2>2
    <3> QED
      BY <2>2, <3>1 DEF Locked, Unborn
  <2>3. CASE c \notin Locked(w) /\ c \notin b
    <3>1. codes'[c] = codes[c]
      BY <1>0, <2>3
    <3> QED
      BY <2>3, <3>1 DEF Locked
  <2> QED
    BY <2>1, <2>2, <2>3
<1>4. LocksOK'
  BY <1>1, <1>2, <1>3 DEF LocksOK, At, TypeOK
<1>5. FreshUnused'
  BY <1>3 DEF FreshUnused, TypeOK
<1>6. SweepsOK'
  <2> SUFFICES ASSUME NEW v \in Workers, req'[v].step = "sweeping", NEW c \in req'[v].saw
               PROVE  codes'[c] # "unborn" /\ (c \in req'[v].codes \/ codeLock'[c] = v \/ codes'[c] = "gone")
    BY DEF SweepsOK, At
  <2>1. v # w /\ req'[v] = req[v] /\ c \in Codes
    BY <1>1, RequestForms
  <2>2. codes[c] # "unborn" /\ (c \in req[v].codes \/ codeLock[c] = v \/ codes[c] = "gone")
    BY <2>1 DEF SweepsOK, At
  <2> QED
    BY <1>2, <1>3, <2>1, <2>2
<1>7. SweptCodesDead'
  <2>1. \A c \in req[w].saw : c \in Codes /\ (codeLock[c] = w \/ codes[c] = "gone")
    BY RequestForms DEF Swept, SweepsOK, At
  <2>2. doomed' = doomed \cup req[w].saw
    BY DEF AfterSweep
  <2> QED
    BY <1>3, <2>1, <2>2 DEF SweptCodesDead, TypeOK
<1> QED
  BY <1>4, <1>5, <1>6, <1>7

\* Every step keeps what is known of the backup codes.
LEMMA NextCodes ==
    ASSUME TypeOK, CodeInv, [Next]_vars
    PROVE  LocksOK' /\ FreshUnused' /\ SweepsOK' /\ SweptCodesDead'
<1> USE DEF CodeInv
<1>1. ASSUME UNCHANGED <<codes, codeLock, uses, doomed, req>>
      PROVE  LocksOK' /\ FreshUnused' /\ SweepsOK' /\ SweptCodesDead'
  BY <1>1 DEF LocksOK, FreshUnused, SweepsOK, SweptCodesDead, At
<1>2. ASSUME NEW w \in Workers, Leave(w) \/ SetupCommit(w) \/ ConfirmCommit(w),
             UNCHANGED <<uses, doomed>>
      PROVE  LocksOK' /\ FreshUnused' /\ SweepsOK' /\ SweptCodesDead'
  BY <1>2, CodesFinish DEF Leave, SetupCommit, ConfirmCommit
<1>3. ASSUME NEW w \in Workers,
             \/ LoginUser(w) \/ ChallengeFind(w) \/ Setup(w) \/ ConfirmFind(w)
             \/ DisableFind(w) \/ AdminDisable(w) \/ Disable(w) \/ GenerateFind(w)
      PROVE  LocksOK' /\ FreshUnused' /\ SweepsOK' /\ SweptCodesDead'
  <2>1. req[w].step \in {"idle", "disabling"} /\ UNCHANGED <<codes, codeLock, uses, doomed>>
    BY <1>3 DEF LoginUser, ChallengeFind, Setup, ConfirmFind, DisableFind, AdminDisable, Disable,
       GenerateFind, At, codeVars, history
  <2>2. req'[w].step # "sweeping" /\ \A v \in Workers \ {w} : req'[v] = req[v]
    BY <1>3, BeginRequest
  <2> QED
    BY <2>1, <2>2, CodesNeutral
<1>4. ASSUME NEW w \in Workers, UNCHANGED <<codes, codeLock, uses, doomed>>,
             \/ At(w, "user") /\ Goto(w, "passed")
             \/ At(w, "factor") /\ Goto(w, "verified")
             \/ At(w, "dropping") /\ Goto(w, "dropped")
             \/ At(w, "dropped") /\ Goto(w, "inserted")
             \/ At(w, "activating") /\ Goto(w, "activated")
      PROVE  LocksOK' /\ FreshUnused' /\ SweepsOK' /\ SweptCodesDead'
  <2>1. /\ req[w].step \notin {"verified", "cleared", "sweeping"} /\ req'[w].step # "sweeping"
        /\ \A v \in Workers \ {w} : req'[v] = req[v]
    BY <1>4, GotoRequest DEF At
  <2> QED
    BY <1>4, <2>1, CodesNeutral
<1>5. ASSUME NEW w \in Workers, UNCHANGED <<codes, codeLock, uses, doomed>>,
             \/ \E c \in Codes : BackupFind(w, c)
             \/ At(w, "confirming") /\ req' = [req EXCEPT ![w].step = "activating", ![w].target = row.secret]
      PROVE  LocksOK' /\ FreshUnused' /\ SweepsOK' /\ SweptCodesDead'
  <2>1. /\ req[w].step \in {"factor", "confirming"} /\ req'[w].step # "sweeping"
        /\ \A v \in Workers \ {w} : req'[v] = req[v]
    BY <1>5, AimRequest DEF BackupFind, At
  <2> QED
    BY <1>5, <2>1, CodesNeutral
<1>6. ASSUME NEW w \in Workers, NEW c \in Codes, BackupMark(w, c)
      PROVE  LocksOK' /\ FreshUnused' /\ SweepsOK' /\ SweptCodesDead'
  BY <1>2, <1>6, CodesMark DEF BackupMark, history, rowVars
<1>7. ASSUME NEW w \in Workers, ChallengeUser(w)
      PROVE  LocksOK' /\ FreshUnused' /\ SweepsOK' /\ SweptCodesDead'
  <2>1. CASE Goto(w, "cleared") /\ UNCHANGED codeVars
    BY <1>7, <2>1, CodesMark DEF ChallengeUser, codeVars, history
  <2>2. CASE Finish(w) /\ codes' = [c \in Codes |-> IF c \in Locked(w) THEN "used" ELSE codes[c]]
    BY <1>7, <2>2, CodesUse DEF ChallengeUser, At, history
  <2> QED
    BY <1>7, <2>1, <2>2 DEF ChallengeUser
<1>8. ASSUME NEW w \in Workers, ChallengeCommit(w)
      PROVE  LocksOK' /\ FreshUnused' /\ SweepsOK' /\ SweptCodesDead'
  BY <1>8, CodesUse DEF ChallengeCommit, At
<1>9. ASSUME NEW w \in Workers, SweepStart(w) \/ SweepCode(w)
      PROVE  LocksOK' /\ FreshUnused' /\ SweepsOK' /\ SweptCodesDead'
  BY <1>9, CodesSweepStart, CodesSweep
<1>10. ASSUME NEW w \in Workers, GenerateCommit(w)
      PROVE  LocksOK' /\ FreshUnused' /\ SweepsOK' /\ SweptCodesDead'
  <2>1. {c \in Unborn : Cardinality({d \in Unborn : d < c}) < BatchSize} \in SUBSET Unborn
    OBVIOUS
  <2> QED
    BY <1>10, <2>1, CodesSwept DEF GenerateCommit
<1>11. ASSUME NEW w \in Workers, DisableCommit(w)
      PROVE  LocksOK' /\ FreshUnused' /\ SweepsOK' /\ SweptCodesDead'
  BY <1>11, CodesSwept DEF DisableCommit
<1> QED
  BY <1>1, <1>2, <1>3, <1>4, <1>5, <1>6, <1>7, <1>8, <1>9, <1>10, <1>11
     DEF Next, vars, codeVars, history, LoginFactor, LoginCommit, ChallengeTotp, BackupFind, DropSecret,
         SetupInsert, SetupConflict, SetupCommit, ActivateFind, ActivateUpdate, ConfirmCommit, Rollback,
         SetActive, TokenExpires, Goto

-----------------------------------------------------------------------------
(* The row of the secret *)

\* What RowInv says of one request.
OwnRow(w) ==
    /\ Is(w, "confirm") /\ row # None => row.secret \in accounted
    /\ At(w, "activating") => req[w].target # None
    /\ At(w, "activated") => rowLock = w /\ row # None
    /\ At(w, "inserted") => inserter = w /\ (row # None => rowLock = w)
    /\ req[w].on # None =>
        /\ At(w, "user") => req[w].on <= made /\ (Secret = req[w].on => row.enabled)
        /\ At(w, "passed") => req[w].on <= made /\ Secret # req[w].on

LEMMA RowParts ==
    RowInv <=> RowMade /\ EnabledAccounted /\ \A w \in Workers : OwnRow(w)
BY DEF RowInv, ConfirmsAccounted, ActivationsHold, InsertionsHold, LoginsKnow, OwnRow

\* A step that leaves the row alone need only be looked at by its own request.
LEMMA RowNeutral ==
    ASSUME RowInv, NEW w \in Workers, UNCHANGED <<row, made>>, accounted \subseteq accounted',
           \A v \in Workers \ {w} :
              req'[v] = req[v] /\ (rowLock = v => rowLock' = v) /\ (inserter = v => inserter' = v),
           OwnRow(w)'
    PROVE  RowInv'
<1>1. RowMade' /\ EnabledAccounted'
  BY RowParts DEF RowMade, EnabledAccounted, Enabled
<1>2. \A v \in Workers \ {w} : OwnRow(v)'
  BY RowParts DEF OwnRow, At, Is, Secret
<1>3. \A v \in Workers : OwnRow(v)'
  BY <1>2
<1>4. RowInv' <=> RowMade' /\ EnabledAccounted' /\ \A v \in Workers : OwnRow(v)'
  BY DEF RowInv, ConfirmsAccounted, ActivationsHold, InsertionsHold, LoginsKnow, OwnRow
<1> QED
  BY <1>1, <1>3, <1>4

\* The end of a request that leaves the row alone.
LEMMA RowFinish ==
    ASSUME TypeOK, RowInv, NEW w \in Workers, Finish(w), UNCHANGED <<row, made, accounted>>
    PROVE  RowInv'
<1>1. /\ req'[w].step = "idle" /\ req'[w].kind = None /\ req'[w].on = None
      /\ \A v \in Workers \ {w} : req'[v] = req[v]
  BY FinishRequest
<1>2. OwnRow(w)'
  BY <1>1, ConstantsAssumption DEF OwnRow, At, Is, Kinds
<1>3. \A v \in Workers \ {w} : (rowLock = v => rowLock' = v) /\ (inserter = v => inserter' = v)
  BY DEF Finish
<1> QED
  BY <1>1, <1>2, <1>3, RowNeutral

\* What a set-up secret replaces was its own to replace, and nobody who is
\* still under way knows the new one.
LEMMA RowSetup ==
    ASSUME TypeOK, KindOfStep, RowInv, SecretsBounded, NEW w \in Workers, SetupCommit(w)
    PROVE  RowInv'
<1> USE ConstantsAssumption
<1>1. /\ req'[w].step = "idle" /\ req'[w].kind = None /\ req'[w].on = None
      /\ \A v \in Workers \ {w} : req'[v] = req[v]
  BY FinishRequest DEF SetupCommit
<1>2. inserter = w /\ (row # None => rowLock = w)
  BY RowParts DEF SetupCommit, OwnRow
<1>3. /\ row' = [secret |-> made + 1, enabled |-> FALSE] /\ made' = made + 1 /\ made \in Nat
      /\ made + 1 \in Secrets
      /\ accounted' = IF \E v \in Workers : Is(v, "confirm") THEN accounted \cup {made + 1} ELSE accounted
  BY SecretLeft DEF SetupCommit, TypeOK
<1>4. row' # None /\ row'.secret = made + 1 /\ row'.enabled = FALSE
  <2>1. row' \in [secret : Secrets, enabled : BOOLEAN]
    BY <1>3
  <2> QED
    BY <1>3, <2>1
<1>5. Secret' = made + 1
  BY <1>4 DEF Secret
<1>6. RowMade' /\ EnabledAccounted'
  BY <1>3, <1>4 DEF RowMade, EnabledAccounted, Enabled
<1>7. OwnRow(w)'
  BY <1>1 DEF OwnRow, At, Is, Kinds
<1>8. ASSUME NEW v \in Workers \ {w}
      PROVE  OwnRow(v)'
  <2>1. OwnRow(v) /\ req'[v] = req[v]
    BY <1>1, RowParts
  <2>2. req[v].step # "activated" /\ req[v].step # "inserted"
    BY <1>2, <2>1 DEF OwnRow, At
  <2>3. req[v].kind = "confirm" => row'.secret \in accounted'
    BY <1>3, <1>4 DEF Is
  <2>4. req[v].on # None => req[v].on \in Nat
    BY RequestForms DEF Secrets
  <2> QED
    BY <1>3, <1>5, <2>1, <2>2, <2>3, <2>4 DEF OwnRow, At, Is
<1>9. RowInv' <=> RowMade' /\ EnabledAccounted' /\ \A v \in Workers : OwnRow(v)'
  BY DEF RowInv, ConfirmsAccounted, ActivationsHold, InsertionsHold, LoginsKnow, OwnRow
<1> QED
  BY <1>6, <1>7, <1>8, <1>9

\* The row that a confirmation enables is accounted for.
LEMMA RowConfirm ==
    ASSUME TypeOK, KindOfStep, RowInv, NEW w \in Workers, ConfirmCommit(w)
    PROVE  RowInv'
<1> USE ConstantsAssumption
<1>1. /\ req'[w].step = "idle" /\ req'[w].kind = None /\ req'[w].on = None
      /\ \A v \in Workers \ {w} : req'[v] = req[v]
  BY FinishRequest DEF ConfirmCommit
<1>2. rowLock = w /\ row # None /\ row.secret \in accounted
  BY RowParts DEF ConfirmCommit, OwnRow, KindOfStep, At
<1>3. row \in [secret : Secrets, enabled : BOOLEAN] /\ row' = [row EXCEPT !.enabled = TRUE]
      /\ UNCHANGED <<made, accounted>>
  BY <1>2 DEF ConfirmCommit, TypeOK, history
<1>4. row' # None /\ row'.secret = row.secret /\ row'.enabled = TRUE
  <2>1. row' \in [secret : Secrets, enabled : BOOLEAN]
    BY <1>3
  <2> QED
    BY <1>3, <2>1
<1>5. Secret' = Secret
  BY <1>2, <1>4 DEF Secret
<1>6. RowMade' /\ EnabledAccounted'
  BY <1>2, <1>3, <1>4, RowParts DEF RowMade, EnabledAccounted, Enabled
<1>7. OwnRow(w)'
  BY <1>1 DEF OwnRow, At, Is, Kinds
<1>8. ASSUME NEW v \in Workers \ {w}
      PROVE  OwnRow(v)'
  <2>1. OwnRow(v) /\ req'[v] = req[v]
    BY <1>1, RowParts
  <2>2. req[v].step # "activated" /\ req[v].step # "inserted"
    BY <1>2, <2>1 DEF OwnRow, At
  <2> QED
    BY <1>2, <1>3, <1>4, <1>5, <2>1, <2>2 DEF OwnRow, At, Is
<1>9. RowInv' <=> RowMade' /\ EnabledAccounted' /\ \A v \in Workers : OwnRow(v)'
  BY DEF RowInv, ConfirmsAccounted, ActivationsHold, InsertionsHold, LoginsKnow, OwnRow
<1> QED
  BY <1>6, <1>7, <1>8, <1>9

\* The row that disabling removes was in the hands of nobody else.
LEMMA RowDisable ==
    ASSUME TypeOK, RowInv, NEW w \in Workers, DisableCommit(w)
    PROVE  RowInv'
<1> USE ConstantsAssumption
<1>1. CASE rowLock # w
  BY <1>1, RowFinish DEF DisableCommit, AfterSweep
<1>2. CASE rowLock = w
  <2>1. /\ req'[w].step = "idle" /\ req'[w].kind = None /\ req'[w].on = None
        /\ \A v \in Workers \ {w} : req'[v] = req[v] /\ (inserter = v => inserter' = v)
    BY FinishRequest DEF DisableCommit, AfterSweep, Finish
  <2>2. row' = None /\ Secret' = None /\ UNCHANGED <<made, accounted>>
    BY <1>2 DEF DisableCommit, Secret
  <2>3. RowMade' /\ EnabledAccounted'
    BY <2>2 DEF RowMade, EnabledAccounted, Enabled
  <2>4. OwnRow(w)'
    BY <2>1 DEF OwnRow, At, Is, Kinds
  <2>5. ASSUME NEW v \in Workers \ {w}
        PROVE  OwnRow(v)'
    <3>1. OwnRow(v) /\ req'[v] = req[v]
      BY <2>1, RowParts
    <3> QED
      BY <1>2, <2>1, <2>2, <3>1 DEF OwnRow, At, Is
  <2>6. RowInv' <=> RowMade' /\ EnabledAccounted' /\ \A v \in Workers : OwnRow(v)'
    BY DEF RowInv, ConfirmsAccounted, ActivationsHold, InsertionsHold, LoginsKnow, OwnRow
  <2> QED
    BY <2>3, <2>4, <2>5, <2>6
<1> QED
  BY <1>1, <1>2

\* Every step keeps what is known of the row.
LEMMA NextRow ==
    ASSUME TypeOK, KindOfStep, RowInv, SecretsBounded, [Next]_vars
    PROVE  RowInv'
<1> USE ConstantsAssumption
<1>1. ASSUME UNCHANGED <<row, made, accounted, rowLock, inserter, req>>
      PROVE  RowInv'
  BY <1>1 DEF RowInv, RowMade, ConfirmsAccounted, ActivationsHold, InsertionsHold, LoginsKnow,
     EnabledAccounted, Enabled, Secret, At, Is
<1>2. ASSUME NEW w \in Workers, SetupCommit(w) \/ ConfirmCommit(w) \/ DisableCommit(w)
      PROVE  RowInv'
  BY <1>2, RowSetup, RowConfirm, RowDisable
<1>3. ASSUME NEW w \in Workers, Finish(w), UNCHANGED <<row, made, accounted>>
      PROVE  RowInv'
  BY <1>3, RowFinish
<1>4. ASSUME NEW w \in Workers, LoginUser(w)
      PROVE  RowInv'
  <2>1. /\ req'[w].step = "user" /\ req'[w].kind = "login"
        /\ req'[w].on = IF Enabled THEN row.secret ELSE None
        /\ \A v \in Workers \ {w} : req'[v] = req[v]
        /\ UNCHANGED <<row, rowLock, inserter, made, accounted>>
    BY <1>4, BeginRequest DEF LoginUser, rowVars, history
  <2>2. OwnRow(w)'
    BY <2>1, RowParts DEF OwnRow, At, Is, Enabled, Secret, RowMade
  <2> QED
    BY <2>1, <2>2, RowNeutral
<1>5. ASSUME NEW w \in Workers, ConfirmFind(w)
      PROVE  RowInv'
  <2>1. /\ req'[w].step = "confirming" /\ req'[w].kind = "confirm" /\ req'[w].on = None
        /\ \A v \in Workers \ {w} : req'[v] = req[v]
        /\ UNCHANGED <<row, rowLock, inserter, made>> /\ accounted' = accounted \cup {row.secret}
    BY <1>5, BeginRequest DEF ConfirmFind, rowVars
  <2>2. OwnRow(w)'
    BY <2>1 DEF OwnRow, At, Is
  <2> QED
    BY <2>1, <2>2, RowNeutral
<1>6. ASSUME NEW w \in Workers,
             \/ ChallengeFind(w) \/ Setup(w) \/ DisableFind(w) \/ AdminDisable(w) \/ Disable(w) \/ GenerateFind(w)
      PROVE  RowInv'
  <2>1. /\ req'[w].step \in {"factor", "dropping", "disabling", "generating"}
        /\ req'[w].kind # "confirm" /\ req'[w].on = None
        /\ \A v \in Workers \ {w} : req'[v] = req[v]
    BY <1>6, BeginRequest
  <2>2. UNCHANGED <<row, rowLock, inserter, made, accounted>>
    BY <1>6 DEF ChallengeFind, Setup, DisableFind, AdminDisable, Disable, GenerateFind, rowVars, history
  <2>3. OwnRow(w)'
    BY <2>1 DEF OwnRow, At, Is
  <2> QED
    BY <2>1, <2>2, <2>3, RowNeutral
<1>7. ASSUME NEW w \in Workers, UNCHANGED <<row, made, accounted>>,
             \A v \in Workers \ {w} : (rowLock = v => rowLock' = v) /\ (inserter = v => inserter' = v),
             req'[w].kind = req[w].kind, \A v \in Workers \ {w} : req'[v] = req[v],
             req'[w].step \in {"verified", "cleared", "dropped", "backup", "sweeping"}
      PROVE  RowInv'
  <2>1. OwnRow(w)'
    BY <1>7, RowParts DEF OwnRow, At, Is
  <2> QED
    BY <1>7, <2>1, RowNeutral
<1>8. ASSUME NEW w \in Workers, UNCHANGED <<row, rowLock, inserter, made, accounted>>,
             \/ At(w, "factor") /\ Goto(w, "verified")
             \/ At(w, "backup") /\ Goto(w, "verified")
             \/ At(w, "verified") /\ Goto(w, "cleared")
      PROVE  RowInv'
  <2>1. /\ req'[w].kind = req[w].kind /\ req'[w].step \in {"verified", "cleared"}
        /\ \A v \in Workers \ {w} : req'[v] = req[v]
    BY <1>8, GotoRequest DEF At
  <2> QED
    BY <1>7, <1>8, <2>1
<1>9. ASSUME NEW w \in Workers, DropSecret(w)
      PROVE  RowInv'
  <2>1. /\ req'[w].kind = req[w].kind /\ req'[w].step = "dropped"
        /\ \A v \in Workers \ {w} : req'[v] = req[v]
    BY <1>9, GotoRequest DEF DropSecret, At
  <2>2. /\ UNCHANGED <<row, made, accounted, inserter>>
        /\ \A v \in Workers \ {w} : rowLock = v => rowLock' = v
    BY <1>9 DEF DropSecret, history
  <2> QED
    BY <1>7, <2>1, <2>2
<1>10. ASSUME NEW w \in Workers, (\E c \in Codes : BackupFind(w, c)) \/ SweepStart(w) \/ SweepCode(w)
       PROVE  RowInv'
  <2>1. /\ req'[w].kind = req[w].kind /\ req'[w].step \in {"backup", "sweeping"}
        /\ \A v \in Workers \ {w} : req'[v] = req[v]
    BY <1>10, AimRequest
  <2>2. UNCHANGED <<row, rowLock, inserter, made, accounted>>
    BY <1>10 DEF BackupFind, SweepStart, SweepCode, rowVars, history
  <2> QED
    BY <1>7, <2>1, <2>2
<1>11. ASSUME NEW w \in Workers, At(w, "user"), ~Enabled, Goto(w, "passed"),
              UNCHANGED <<row, rowLock, inserter, made, accounted>>
       PROVE  RowInv'
  <2>1. /\ req'[w].kind = req[w].kind /\ req'[w].on = req[w].on /\ req'[w].step = "passed"
        /\ \A v \in Workers \ {w} : req'[v] = req[v]
    BY <1>11, GotoRequest DEF At
  <2>2. OwnRow(w)'
    BY <1>11, <2>1, RowParts DEF OwnRow, At, Is, Enabled, Secret
  <2> QED
    BY <1>11, <2>1, <2>2, RowNeutral
<1>12. ASSUME NEW w \in Workers, SetupInsert(w)
       PROVE  RowInv'
  <2>1. /\ req'[w].kind = req[w].kind /\ req'[w].step = "inserted"
        /\ \A v \in Workers \ {w} : req'[v] = req[v]
    <3>1. Goto(w, "inserted") /\ req[w].step # "idle"
      BY <1>12 DEF SetupInsert, Goto, At
    <3> QED
      BY <3>1, GotoRequest
  <2>2. /\ UNCHANGED <<row, rowLock, made, accounted>> /\ inserter = None /\ inserter' = w
        /\ (row # None => rowLock = w)
    BY <1>12 DEF SetupInsert, history
  <2>3. OwnRow(w)'
    BY <2>1, <2>2, RowParts DEF OwnRow, At, Is
  <2> QED
    BY <2>1, <2>2, <2>3, RowNeutral
<1>13. ASSUME NEW w \in Workers, At(w, "confirming"), row # None,
              req' = [req EXCEPT ![w].step = "activating", ![w].target = row.secret],
              UNCHANGED <<row, rowLock, inserter, made, accounted>>
       PROVE  RowInv'
  <2>1. /\ req'[w].kind = req[w].kind /\ req'[w].step = "activating" /\ req'[w].target = row.secret
        /\ \A v \in Workers \ {w} : req'[v] = req[v]
    BY <1>13, AimRequest
  <2>2. row.secret # None
    BY <1>13 DEF TypeOK
  <2>3. OwnRow(w)'
    BY <1>13, <2>1, <2>2, RowParts DEF OwnRow, At, Is
  <2> QED
    BY <1>13, <2>1, <2>3, RowNeutral
<1>14. ASSUME NEW w \in Workers, At(w, "activating"), Secret = req[w].target, rowLock = None, rowLock' = w,
              Goto(w, "activated"), UNCHANGED <<row, inserter, made, accounted>>
       PROVE  RowInv'
  <2>1. /\ req'[w].kind = req[w].kind /\ req'[w].step = "activated"
        /\ \A v \in Workers \ {w} : req'[v] = req[v]
    BY <1>14, GotoRequest DEF At
  <2>2. row # None
    BY <1>14, RowParts DEF OwnRow, Secret
  <2>3. OwnRow(w)'
    BY <1>14, <2>1, <2>2, RowParts DEF OwnRow, At, Is
  <2> QED
    BY <1>14, <2>1, <2>3, RowNeutral
<1>15. ASSUME NEW w \in Workers, LoginFactor(w) \/ ActivateFind(w) \/ ActivateUpdate(w)
       PROVE  RowInv'
  BY <1>3, <1>11, <1>13, <1>14, <1>15
     DEF LoginFactor, ActivateFind, ActivateUpdate, Leave, rowVars, history
<1>16. ASSUME NEW w \in Workers,
              \/ ChallengeTotp(w) \/ ChallengeUser(w) \/ ChallengeCommit(w)
              \/ \E c \in Codes : BackupMark(w, c)
       PROVE  RowInv'
  <2>1. ASSUME ChallengeTotp(w)
        PROVE  RowInv'
    BY <1>8, <2>1 DEF ChallengeTotp, rowVars, history
  <2>2. ASSUME ChallengeUser(w)
        PROVE  RowInv'
    BY <1>3, <1>8, <2>2 DEF ChallengeUser, rowVars, history
  <2>3. ASSUME ChallengeCommit(w)
        PROVE  RowInv'
    BY <1>3, <2>3 DEF ChallengeCommit
  <2>4. ASSUME NEW c \in Codes, BackupMark(w, c)
        PROVE  RowInv'
    BY <1>3, <1>8, <2>4 DEF BackupMark, Leave, rowVars, history
  <2> QED
    BY <1>16, <2>1, <2>2, <2>3, <2>4
<1>17. ASSUME NEW w \in Workers, LoginCommit(w) \/ SetupConflict(w) \/ GenerateCommit(w) \/ Rollback(w)
       PROVE  RowInv'
  BY <1>3, <1>17 DEF LoginCommit, SetupConflict, GenerateCommit, Rollback, AfterSweep, Leave, history
<1>18. CASE (\E a \in BOOLEAN : SetActive(a)) \/ TokenExpires \/ UNCHANGED vars
  BY <1>1, <1>18 DEF SetActive, TokenExpires, vars, rowVars, history
<1> QED
  BY <1>2, <1>4, <1>5, <1>6, <1>9, <1>10, <1>12, <1>15, <1>16, <1>17, <1>18 DEF Next

-----------------------------------------------------------------------------
(* Counting *)

\* Only Setup begins a setup.
LEMMA SetupsOnly ==
    ASSUME TypeOK, KindOfStep, [Next]_vars, ~\E w \in Workers : Setup(w)
    PROVE  Setups' \subseteq Setups
<1> SUFFICES ASSUME NEW v \in Workers, req'[v].kind = "setup"
             PROVE  req[v].kind = "setup"
  BY DEF Setups, Is
<1>1. CASE UNCHANGED req
  BY <1>1
<1>2. ASSUME NEW w \in Workers,
             \/ LoginUser(w) \/ ChallengeFind(w) \/ ConfirmFind(w)
             \/ DisableFind(w) \/ AdminDisable(w) \/ Disable(w) \/ GenerateFind(w)
      PROVE  v # w /\ req'[v] = req[v]
  BY <1>2, BeginRequest
<1>3. ASSUME NEW w \in Workers, Finish(w)
      PROVE  v # w /\ req'[v] = req[v]
  BY <1>3, FinishRequest, ConstantsAssumption DEF Kinds
<1>4. ASSUME NEW w \in Workers,
             \/ \E c \in Codes : BackupFind(w, c)
             \/ SweepStart(w) \/ SweepCode(w)
             \/ At(w, "confirming") /\ row # None
                /\ req' = [req EXCEPT ![w].step = "activating", ![w].target = row.secret]
      PROVE  req'[v].kind = req[v].kind
  BY <1>4, AimRequest
<1>5. ASSUME NEW w \in Workers,
             \/ At(w, "user") /\ Goto(w, "passed")
             \/ At(w, "factor") /\ Goto(w, "verified")
             \/ At(w, "backup") /\ Goto(w, "verified")
             \/ At(w, "verified") /\ Goto(w, "cleared")
             \/ At(w, "dropping") /\ Goto(w, "dropped")
             \/ At(w, "dropped") /\ Is(w, "setup") /\ Goto(w, "inserted")
             \/ At(w, "activating") /\ Goto(w, "activated")
      PROVE  req'[v].kind = req[v].kind
  BY <1>5, GotoRequest DEF At
<1> QED
  BY <1>1, <1>2, <1>3, <1>4, <1>5, Actors

\* There is a secret for every setup under way.
LEMMA NextSecretsBounded ==
    ASSUME TypeOK, KindOfStep, SecretsBounded, [Next]_vars
    PROVE  SecretsBounded'
<1> USE ConstantsAssumption
<1>1. made \in Nat /\ Setups' \subseteq Workers /\ IsFiniteSet(Workers)
  BY DEF TypeOK, Setups
<1>2. ASSUME NEW w \in Workers, Setup(w)
      PROVE  SecretsBounded'
  <2>1. made' = made /\ made + Cardinality(Setups) < MaxSecrets
    BY <1>2 DEF Setup, SecretsLeft, Setups, rowVars
  <2>2. Setups' \subseteq Setups \cup {w}
    BY <1>2, BeginRequest DEF Setups, Is
  <2>3. IsFiniteSet(Setups \cup {w}) /\ Cardinality(Setups \cup {w}) <= Cardinality(Setups) + 1
        /\ Cardinality(Setups \cup {w}) \in Nat
    <3>1. /\ IsFiniteSet(Setups \cup {w})
          /\ Cardinality(Setups \cup {w}) = IF w \in Setups THEN Cardinality(Setups) ELSE Cardinality(Setups) + 1
      BY SetupsFinite, FS_AddElement
    <3> QED
      BY <3>1, SetupsFinite
  <2>4. Cardinality(Setups') <= Cardinality(Setups \cup {w}) /\ Cardinality(Setups') \in Nat
    BY <2>2, <2>3, FS_Subset, FS_CardinalityType
  <2> QED
    BY <1>1, <2>1, <2>3, <2>4, SetupsFinite DEF SecretsBounded
<1>3. ASSUME NEW w \in Workers, SetupCommit(w)
      PROVE  SecretsBounded'
  <2>1. w \in Setups /\ made' = made + 1
    BY <1>3, SecretLeft DEF SetupCommit
  <2>2. Setups' = Setups \ {w}
    BY <1>3, FinishRequest DEF SetupCommit, Setups, Is, Kinds
  <2>3. Cardinality(Setups') = Cardinality(Setups) - 1
    BY <2>1, <2>2, SetupsFinite
  <2> QED
    BY <1>1, <2>1, <2>3, SetupsFinite DEF SecretsBounded
<1>4. ASSUME UNCHANGED made, ~\E w \in Workers : Setup(w)
      PROVE  SecretsBounded'
  <2>1. Setups' \subseteq Setups
    BY <1>4, SetupsOnly
  <2>2. Cardinality(Setups') <= Cardinality(Setups) /\ Cardinality(Setups') \in Nat
    BY <2>1, SetupsFinite, FS_Subset, FS_CardinalityType
  <2> QED
    BY <1>1, <1>4, <2>2, SetupsFinite DEF SecretsBounded
<1>5. UNCHANGED made \/ \E w \in Workers : SetupCommit(w)
  BY DEF Next, vars, rowVars, LoginUser, ChallengeFind, Setup, ConfirmFind, DisableFind, AdminDisable,
         GenerateFind, BackupFind, BackupMark, LoginFactor, LoginCommit, ChallengeTotp, ChallengeUser,
         ChallengeCommit, DropSecret, SetupInsert, SetupConflict, ActivateFind, ActivateUpdate, ConfirmCommit,
         Disable, SweepStart, SweepCode, GenerateCommit, DisableCommit, Rollback, SetActive, TokenExpires,
         Leave
<1> QED
  BY <1>2, <1>3, <1>4, <1>5

\* Challenges are requests, of which there are finitely many.
LEMMA PendingFinite ==
    ASSUME NEW c \in Codes
    PROVE  /\ IsFiniteSet(Pending(c)) /\ Cardinality(Pending(c)) \in Nat
           /\ Cardinality(Pending(c)) <= Cardinality(Workers) /\ Cardinality(Workers) \in Nat
<1>1. Pending(c) \subseteq Workers /\ IsFiniteSet(Workers)
  BY ConstantsAssumption DEF Pending
<1> QED
  BY <1>1, FS_Subset, FS_CardinalityType

\* Only BackupFind takes a code in hand.
LEMMA PendingOnly ==
    ASSUME TypeOK, FactorClean, [Next]_vars, NEW c \in Codes, ~\E w \in Workers : BackupFind(w, c)
    PROVE  Pending(c)' \subseteq Pending(c)
<1> SUFFICES ASSUME NEW v \in Workers, req'[v].step \in {"backup", "verified", "cleared"}, c \in req'[v].codes
             PROVE  req[v].step \in {"backup", "verified", "cleared"} /\ c \in req[v].codes
  BY DEF Pending
<1>1. CASE UNCHANGED req
  BY <1>1
<1>2. ASSUME NEW w \in Workers,
             \/ LoginUser(w) \/ ChallengeFind(w) \/ Setup(w) \/ ConfirmFind(w)
             \/ DisableFind(w) \/ AdminDisable(w) \/ Disable(w) \/ GenerateFind(w)
      PROVE  v # w /\ req'[v] = req[v]
  BY <1>2, BeginRequest
<1>3. ASSUME NEW w \in Workers, Finish(w)
      PROVE  v # w /\ req'[v] = req[v]
  BY <1>3, FinishRequest
<1>4. ASSUME NEW w \in Workers,
             \/ SweepStart(w) \/ SweepCode(w)
             \/ At(w, "confirming") /\ row # None
                /\ req' = [req EXCEPT ![w].step = "activating", ![w].target = row.secret]
      PROVE  v # w /\ req'[v] = req[v]
  <2>1. req'[w].step \in {"sweeping", "activating"} /\ (v # w => req'[v] = req[v])
    BY <1>4, AimRequest
  <2> QED
    BY <2>1
<1>5. ASSUME NEW w \in Workers, NEW d \in Codes, BackupFind(w, d)
      PROVE  v # w /\ req'[v] = req[v]
  <2>1. req'[w].codes = {d} /\ (v # w => req'[v] = req[v])
    BY <1>5, AimRequest
  <2>2. \A u \in Workers : ~BackupFind(u, c)
    OBVIOUS
  <2>3. d # c
    BY <1>5, <2>2
  <2> QED
    BY <2>1, <2>3
<1>6. ASSUME NEW w \in Workers,
             \/ At(w, "user") /\ Goto(w, "passed")
             \/ At(w, "dropping") /\ Goto(w, "dropped")
             \/ At(w, "dropped") /\ Is(w, "setup") /\ Goto(w, "inserted")
             \/ At(w, "activating") /\ Goto(w, "activated")
      PROVE  v # w /\ req'[v] = req[v]
  BY <1>6, GotoRequest DEF At
<1>7. ASSUME NEW w \in Workers,
             \/ At(w, "factor") /\ Goto(w, "verified")
             \/ At(w, "backup") /\ Goto(w, "verified")
             \/ At(w, "verified") /\ Goto(w, "cleared")
      PROVE  \/ v # w /\ req'[v] = req[v]
             \/ v = w /\ req[v].step \in {"factor", "backup", "verified"} /\ req'[v].codes = req[v].codes
  BY <1>7, GotoRequest DEF At
<1>8. req[v].step = "factor" => req[v].codes = {}
  BY DEF FactorClean, At
<1> QED
  BY <1>1, <1>2, <1>3, <1>4, <1>5, <1>6, <1>7, <1>8, Actors

\* A code is taken in hand before it is used first, and who uses it lets it go.
LEMMA NextUsesBounded ==
    ASSUME TypeOK, TypeOK', CodeInv, UsesBounded, [Next]_vars
    PROVE  UsesBounded'
<1> USE ConstantsAssumption
<1> SUFFICES ASSUME NEW c \in Codes
             PROVE  uses'[c] + Cardinality(Pending(c)') <= Cardinality(Workers)
  BY DEF UsesBounded
<1>1. uses[c] \in Nat /\ uses'[c] \in Nat /\ uses[c] + Cardinality(Pending(c)) <= Cardinality(Workers)
  BY DEF TypeOK, UsesBounded
<1>2. Cardinality(Pending(c)') \in Nat /\ Cardinality(Pending(c)') <= Cardinality(Workers)
  <2>1. Pending(c)' \subseteq Workers /\ IsFiniteSet(Workers)
    BY DEF Pending
  <2> QED
    BY <2>1, FS_Subset, FS_CardinalityType
<1>3. CASE \E w \in Workers : BackupFind(w, c)
  <2>1. uses[c] = 0 /\ uses' = uses
    BY <1>3 DEF BackupFind, CodeInv, FreshUnused, history
  <2> QED
    BY <1>2, <2>1
<1>4. ASSUME NEW w \in Workers, ChallengeCommit(w), codeLock[c] = w
      PROVE  uses'[c] + Cardinality(Pending(c)') <= Cardinality(Workers)
  <2>1. w \in Pending(c)
    BY <1>4 DEF ChallengeCommit, CodeInv, LocksOK, At, Pending
  <2>2. uses'[c] = uses[c] + 1
    BY <1>4 DEF ChallengeCommit, Locked
  <2>3. Pending(c)' = Pending(c) \ {w}
    BY <1>4, FinishRequest DEF ChallengeCommit, Pending
  <2>4. Cardinality(Pending(c)') = Cardinality(Pending(c)) - 1
    BY <2>1, <2>3, PendingFinite, FS_RemoveElement
  <2> QED
    BY <1>1, <2>2, <2>4, PendingFinite
<1>5. ASSUME UNCHANGED uses \/ uses'[c] = uses[c], ~\E w \in Workers : BackupFind(w, c)
      PROVE  uses'[c] + Cardinality(Pending(c)') <= Cardinality(Workers)
  <2>1. Pending(c)' \subseteq Pending(c)
    BY <1>5, PendingOnly DEF CodeInv
  <2>2. Cardinality(Pending(c)') <= Cardinality(Pending(c))
    BY <2>1, PendingFinite, FS_Subset
  <2> QED
    BY <1>1, <1>2, <1>5, <2>2, PendingFinite
<1>6. ASSUME NEW w \in Workers, ChallengeCommit(w), codeLock[c] # w
      PROVE  uses'[c] = uses[c]
  BY <1>6 DEF ChallengeCommit, Locked
<1>7. UNCHANGED uses \/ \E w \in Workers : ChallengeCommit(w)
  BY DEF Next, vars, history, LoginUser, ChallengeFind, Setup, ConfirmFind, DisableFind, AdminDisable,
         GenerateFind, BackupFind, BackupMark, LoginFactor, LoginCommit, ChallengeTotp, ChallengeUser,
         DropSecret, SetupInsert, SetupConflict, SetupCommit, ActivateFind, ActivateUpdate, ConfirmCommit,
         Disable, SweepStart, SweepCode, GenerateCommit, DisableCommit, Rollback, SetActive, TokenExpires
<1> QED
  BY <1>3, <1>4, <1>5, <1>6, <1>7

-----------------------------------------------------------------------------
(* The theorems *)

Safe == Inv /\ SecretsBounded /\ UsesBounded

\* At first there is no setup and no challenge under way.
LEMMA InitSafe == Init => Safe
<1> SUFFICES ASSUME Init PROVE Safe
    OBVIOUS
<1>1. Inv
  BY InitInv
<1>2. SecretsBounded
  <2>1. Setups = {}
    BY ConstantsAssumption DEF Init, Setups, Is, Idle, Kinds
  <2>2. made = 0 /\ Cardinality(Setups) = 0
    BY <2>1, FS_EmptySet DEF Init
  <2> QED
    BY <2>2, ConstantsAssumption DEF SecretsBounded
<1>3. UsesBounded
  <2> SUFFICES ASSUME NEW c \in Codes
               PROVE  uses[c] + Cardinality(Pending(c)) <= Cardinality(Workers)
    BY DEF UsesBounded
  <2>1. uses[c] = 0
    BY DEF Init
  <2> QED
    BY <2>1, PendingFinite
<1> QED
  BY <1>1, <1>2, <1>3 DEF Safe

\* The invariant is inductive.
LEMMA NextSafe == Safe /\ [Next]_vars => Safe'
<1> SUFFICES ASSUME Safe, [Next]_vars PROVE Safe'
    OBVIOUS
<1>1. /\ TypeOK /\ KindOfStep /\ RowInv /\ CodeInv /\ SecretsBounded /\ UsesBounded
      /\ ActivationsHold /\ FactorClean
  BY DEF Safe, Inv, RowInv, CodeInv
<1>2. TypeOK'
  BY <1>1, NextType
<1>3. KindOfStep' /\ FactorClean'
  BY <1>1, NextKinds
<1>4. RowInv'
  BY <1>1, NextRow
<1>5. CodeInv'
  BY <1>1, <1>3, NextCodes DEF CodeInv
<1>6. SecretsBounded' /\ UsesBounded'
  BY <1>1, <1>2, NextSecretsBounded, NextUsesBounded
<1> QED
  BY <1>2, <1>3, <1>4, <1>5, <1>6 DEF Safe, Inv

\* The invariant holds in every reachable state of the second factor.
THEOREM Invariance == Spec => []Safe
BY InitSafe, NextSafe, PTL DEF Spec

\* The secret, the codes, the locks and the requests keep their types, and the
\* setups under way stay within their bound (mfa_service.rs).
THEOREM TypeCorrect == Spec => []TypeOK
<1>1. Safe => TypeOK
  BY DEF Safe, Inv
<1> QED
  BY <1>1, Invariance, PTL

\* A backup code is used at most once by each request that is served, however
\* many challenges, generations and disablings race for it
\* (consume_backup_code, mfa_service.rs:56).
THEOREM BackupUsesBoundedHolds == Spec => []BackupUsesBounded
<1>1. Safe => BackupUsesBounded
  <2> SUFFICES ASSUME Safe, NEW c \in Codes
               PROVE  uses[c] <= Cardinality(Workers)
    BY DEF BackupUsesBounded
  <2>1. uses[c] \in Nat /\ uses[c] + Cardinality(Pending(c)) <= Cardinality(Workers)
    BY DEF Safe, Inv, TypeOK, UsesBounded
  <2> QED
    BY <2>1, PendingFinite
<1> QED
  BY <1>1, Invariance, PTL

\* A login that began while a factor was on is challenged unless that factor
\* has gone, for good (login, handlers/login.rs).
THEOREM LoginsChallengedHolds == Spec => []LoginsChallenged
<1>1. Safe => LoginsChallenged
  BY DEF Safe, Inv, RowInv, LoginsKnow, LoginsChallenged
<1> QED
  BY <1>1, Invariance, PTL

\* The factor that is on was verified with a code, or was set up in the middle
\* of a confirmation (activate, mfa_service.rs:177).
THEOREM EnabledAccountedHolds == Spec => []EnabledAccounted
<1>1. Safe => EnabledAccounted
  BY DEF Safe, Inv, RowInv
<1> QED
  BY <1>1, Invariance, PTL

\* What a deletion of backup codes saw is gone once it has committed
\* (replace_backup_codes and disable, mfa_service.rs).
THEOREM SweptCodesDeadHolds == Spec => []SweptCodesDead
<1>1. Safe => SweptCodesDead
  BY DEF Safe, Inv, CodeInv
<1> QED
  BY <1>1, Invariance, PTL

\* What a step can make of the codes and their uses.
LEMMA CodeSteps ==
    ASSUME Safe, [Next]_vars
    PROVE  \A c \in Codes :
              \/ codes'[c] = codes[c] /\ uses'[c] = uses[c]
              \/ /\ codes[c] \in {"fresh", "used"} /\ codes'[c] = "used"
                 /\ uses'[c] > uses[c] \/ (uses'[c] = uses[c] /\ ~active)
              \/ codes[c] \in {"fresh", "used"} /\ codes'[c] = "gone" /\ uses'[c] = uses[c]
              \/ codes[c] = "unborn" /\ codes'[c] = "fresh" /\ uses'[c] = uses[c]
<1> SUFFICES ASSUME NEW c \in Codes
             PROVE  \/ codes'[c] = codes[c] /\ uses'[c] = uses[c]
                    \/ /\ codes[c] \in {"fresh", "used"} /\ codes'[c] = "used"
                       /\ uses'[c] > uses[c] \/ (uses'[c] = uses[c] /\ ~active)
                    \/ codes[c] \in {"fresh", "used"} /\ codes'[c] = "gone" /\ uses'[c] = uses[c]
                    \/ codes[c] = "unborn" /\ codes'[c] = "fresh" /\ uses'[c] = uses[c]
  OBVIOUS
<1>1. /\ codeLock[c] # None => codes[c] \in {"fresh", "used"}
      /\ uses[c] \in Nat /\ codes[c] \in {"unborn", "fresh", "used", "gone"}
  BY DEF Safe, Inv, CodeInv, LocksOK, TypeOK
<1>2. ASSUME NEW w \in Workers, ChallengeCommit(w)
      PROVE  IF codeLock[c] = w THEN codes'[c] = "used" /\ uses'[c] > uses[c]
                                ELSE codes'[c] = codes[c] /\ uses'[c] = uses[c]
  BY <1>1, <1>2 DEF ChallengeCommit, Locked
<1>3. ASSUME NEW w \in Workers, ChallengeUser(w)
      PROVE  \/ codes'[c] = codes[c] /\ uses'[c] = uses[c]
             \/ codeLock[c] = w /\ ~active /\ codes'[c] = "used" /\ uses'[c] = uses[c]
  BY <1>3 DEF ChallengeUser, Locked, codeVars, history
<1>4. ASSUME NEW w \in Workers, NEW b \in SUBSET Unborn, AfterSweep(w, b)
      PROVE  \/ codes'[c] = codes[c]
             \/ codeLock[c] = w /\ codes'[c] = "gone"
             \/ codes[c] = "unborn" /\ codes'[c] = "fresh"
  <2>1. codes'[c] = CASE c \in Locked(w) -> "gone" [] c \in b -> "fresh" [] OTHER -> codes[c]
    BY <1>4 DEF AfterSweep
  <2>2. c \in Locked(w) => codeLock[c] = w
    BY DEF Locked
  <2>3. c \in b => codes[c] = "unborn"
    BY DEF Unborn
  <2> QED
    BY <2>1, <2>2, <2>3
<1>5. ASSUME NEW w \in Workers, GenerateCommit(w) \/ DisableCommit(w)
      PROVE  /\ uses'[c] = uses[c]
             /\ \E b \in SUBSET Unborn : AfterSweep(w, b)
  <2>1. {d \in Unborn : Cardinality({e \in Unborn : e < d}) < BatchSize} \in SUBSET Unborn
        /\ {} \in SUBSET Unborn
    OBVIOUS
  <2> QED
    BY <1>5, <2>1 DEF GenerateCommit, DisableCommit
<1>6. \/ UNCHANGED <<codes, uses>>
      \/ \E w \in Workers : ChallengeCommit(w) \/ ChallengeUser(w) \/ GenerateCommit(w) \/ DisableCommit(w)
  <2>1. ASSUME NEW w \in Workers,
               \/ LoginUser(w) \/ ChallengeFind(w) \/ Setup(w) \/ ConfirmFind(w)
               \/ DisableFind(w) \/ AdminDisable(w) \/ GenerateFind(w) \/ Disable(w)
               \/ \E d \in Codes : BackupFind(w, d) \/ BackupMark(w, d)
               \/ LoginFactor(w) \/ LoginCommit(w) \/ ChallengeTotp(w)
        PROVE  UNCHANGED <<codes, uses>>
    BY <2>1 DEF codeVars, history, LoginUser, ChallengeFind, Setup, ConfirmFind, DisableFind, AdminDisable,
       GenerateFind, Disable, BackupFind, BackupMark, LoginFactor, LoginCommit, ChallengeTotp, Leave
  <2>2. ASSUME NEW w \in Workers,
               \/ DropSecret(w) \/ SetupInsert(w) \/ SetupConflict(w) \/ SetupCommit(w)
               \/ ActivateFind(w) \/ ActivateUpdate(w) \/ ConfirmCommit(w)
               \/ SweepStart(w) \/ SweepCode(w) \/ Rollback(w)
        PROVE  UNCHANGED <<codes, uses>>
    BY <2>2 DEF codeVars, history, DropSecret, SetupInsert, SetupConflict, SetupCommit, ActivateFind,
       ActivateUpdate, ConfirmCommit, SweepStart, SweepCode, Rollback, Leave
  <2>3. CASE (\E a \in BOOLEAN : SetActive(a)) \/ TokenExpires \/ UNCHANGED vars
    BY <2>3 DEF SetActive, TokenExpires, vars, codeVars, history
  <2> QED
    BY <2>1, <2>2, <2>3 DEF Next
<1>7. \A w \in Workers : w # None
  BY ConstantsAssumption
<1>8. CASE UNCHANGED <<codes, uses>>
  BY <1>8
<1>9. ASSUME NEW w \in Workers, ChallengeCommit(w)
      PROVE  \/ codes'[c] = codes[c] /\ uses'[c] = uses[c]
             \/ codes[c] \in {"fresh", "used"} /\ codes'[c] = "used" /\ uses'[c] > uses[c]
  BY <1>1, <1>2, <1>7, <1>9
<1>10. ASSUME NEW w \in Workers, ChallengeUser(w)
       PROVE  \/ codes'[c] = codes[c] /\ uses'[c] = uses[c]
              \/ codes[c] \in {"fresh", "used"} /\ codes'[c] = "used" /\ uses'[c] = uses[c] /\ ~active
  BY <1>1, <1>3, <1>7, <1>10
<1>11. ASSUME NEW w \in Workers, GenerateCommit(w) \/ DisableCommit(w)
       PROVE  /\ uses'[c] = uses[c]
              /\ \/ codes'[c] = codes[c]
                 \/ codes[c] \in {"fresh", "used"} /\ codes'[c] = "gone"
                 \/ codes[c] = "unborn" /\ codes'[c] = "fresh"
  BY <1>1, <1>4, <1>5, <1>7, <1>11
<1> QED
  BY <1>6, <1>8, <1>9, <1>10, <1>11

\* A backup code is spent in the very commit that stores tokens for it, or for
\* a user found inactive, and tokens are issued for no other (mfa_challenge,
\* mfa.rs).
THEOREM ConsumptionAtomicHolds == Spec => ConsumptionAtomic
<1>1. Safe /\ [Next]_vars =>
        [\A c \in Codes :
            /\ codes[c] = "fresh" /\ codes'[c] = "used" => uses'[c] > uses[c] \/ ~active
            /\ uses'[c] > uses[c] => codes'[c] = "used"]_vars
  <2> SUFFICES ASSUME Safe, [Next]_vars, NEW c \in Codes
               PROVE  /\ codes[c] = "fresh" /\ codes'[c] = "used" => uses'[c] > uses[c] \/ ~active
                      /\ uses'[c] > uses[c] => codes'[c] = "used"
    OBVIOUS
  <2>1. uses[c] \in Nat
    BY DEF Safe, Inv, TypeOK
  <2> QED
    BY <2>1, CodeSteps
<1> QED
  BY <1>1, Invariance, PTL DEF Spec, ConsumptionAtomic

\* A backup code that is gone stays gone, and a used one is never unused again
\* (replace_backup_codes, mfa_service.rs).
THEOREM DeadCodesStayDeadHolds == Spec => DeadCodesStayDead
<1>1. Safe /\ [Next]_vars =>
        [\A c \in Codes : /\ codes[c] = "gone" => codes'[c] = "gone"
                          /\ codes[c] = "used" => codes'[c] # "fresh"]_vars
  BY CodeSteps
<1> QED
  BY <1>1, Invariance, PTL DEF Spec, DeadCodesStayDead

-----------------------------------------------------------------------------
(* Locks are taken in one order *)

\* Who holds a row of the secret is past the statement that took it; the codes
\* that a deletion has in its hands come before those it has yet to reach.
OrderOK ==
    /\ inserter # None => At(inserter, "inserted")
    /\ rowLock # None => req[rowLock].step \in {"dropped", "inserted", "activated", "sweeping"}
    /\ \A w \in Workers :
          /\ At(w, "backup") => req[w].codes # {}
          /\ At(w, "sweeping") =>
                \A c \in Codes : codeLock[c] = w => \A d \in req[w].codes : c < d

\* A set of naturals has a least element ...
LEMMA LeastOf ==
    ASSUME NEW T \in SUBSET Nat, T # {}
    PROVE  \E x \in T : \A y \in T : x <= y
<1> DEFINE R == OpToRel(<, Nat)
<1>1. IsWellFoundedOn(R, Nat)
  BY NatLessThanWellFounded, Zenon
<1>2. \A x, y \in Nat : y < x => <<y, x>> \in R
  BY DEF OpToRel
<1> HIDE DEF R
<1>3. PICK x \in T : \A y \in T : ~ (<<y, x>> \in R)
  BY <1>1, WFMin
<1>4. \A y \in T : x <= y
  <2> TAKE y \in T
  <2>1. x \in Nat /\ y \in Nat
    OBVIOUS
  <2>2. ~ (y < x)
    BY <2>1, <1>2, <1>3
  <2> QED
    BY <2>1, <2>2
<1> QED
  BY <1>4

\* ... and if it is bounded a greatest one.
LEMMA GreatestOf ==
    ASSUME NEW n \in Nat, NEW T \in SUBSET (1 .. n), T # {}
    PROVE  \E x \in T : \A y \in T : y <= x
<1> DEFINE D == {n - t : t \in T}
<1>0. \A t \in T : t \in 1 .. n
  OBVIOUS
<1>1. \A t \in T : n - t \in Nat /\ t \in Int
  BY <1>0
<1>2. D \in SUBSET Nat /\ D # {}
  BY <1>1
<1>3. PICK d \in D : \A e \in D : d <= e
  <2> HIDE DEF D
  <2> QED
    BY <1>2, LeastOf
<1>4. PICK x \in T : d = n - x
  BY <1>3
<1>5. \A y \in T : d <= n - y
  BY <1>3
<1>6. \A y \in T : y <= x
  BY <1>1, <1>4, <1>5
<1> QED
  BY <1>6

\* The next code of a statement is one of those it has yet to reach, and the
\* first of them.
LEMMA NextCodeFirst ==
    ASSUME TypeOK, NEW w \in Workers, req[w].codes # {}
    PROVE  NextCode(w) \in req[w].codes /\ \A d \in req[w].codes : NextCode(w) <= d
<1>1. req[w].codes \in SUBSET Codes
  BY RequestForms
<1>2. Codes \in SUBSET Nat
  BY ConstantsAssumption DEF Codes
<1>3. \E c \in req[w].codes : \A d \in req[w].codes : c <= d
  BY <1>1, <1>2, LeastOf
<1> QED
  BY <1>3 DEF NextCode

\* A step that takes no lock, of a request that keeps those it may have.
LEMMA OrderNeutral ==
    ASSUME TypeOK, LocksOK, OrderOK, NEW w \in Workers, UNCHANGED <<rowLock, inserter, codeLock>>,
           \A v \in Workers \ {w} : req'[v] = req[v],
           req[w].step # "sweeping",
           req[w].step \in {"inserted", "activated"} => req'[w].step = req[w].step,
           req[w].step = "dropped" => req'[w].step \in {"dropped", "sweeping"},
           req'[w].step = "sweeping" => req[w].step \notin {"verified", "cleared"},
           req'[w].step = "backup" => req'[w].codes # {}
    PROVE  OrderOK'
<1>1. (inserter # None => req'[inserter].step = "inserted")
  BY DEF OrderOK, At, TypeOK
<1>2. rowLock # None => req'[rowLock].step \in {"dropped", "inserted", "activated", "sweeping"}
  BY DEF OrderOK, TypeOK
<1>3. req'[w].step = "sweeping" => \A c \in Codes : codeLock[c] # w
  BY ConstantsAssumption DEF LocksOK, At
<1> QED
  BY <1>1, <1>2, <1>3 DEF OrderOK, At

\* The end of a request gives its locks back.
LEMMA OrderFinish ==
    ASSUME TypeOK, OrderOK, NEW w \in Workers, Finish(w)
    PROVE  OrderOK'
<1>1. req'[w].step = "idle" /\ \A v \in Workers \ {w} : req'[v] = req[v]
  BY FinishRequest
<1>2. /\ rowLock' \in {rowLock, None} /\ rowLock' # w
      /\ inserter' \in {inserter, None} /\ inserter' # w
      /\ \A c \in Codes : codeLock'[c] \in {codeLock[c], None} /\ codeLock'[c] # w
  BY ConstantsAssumption DEF Finish
<1>3. inserter' # None => req'[inserter'].step = "inserted"
  BY <1>1, <1>2 DEF OrderOK, At, TypeOK
<1>4. rowLock' # None => req'[rowLock'].step \in {"dropped", "inserted", "activated", "sweeping"}
  BY <1>1, <1>2 DEF OrderOK, TypeOK
<1>5. ASSUME NEW v \in Workers
      PROVE  /\ req'[v].step = "backup" => req'[v].codes # {}
             /\ req'[v].step = "sweeping" =>
                   \A c \in Codes : codeLock'[c] = v => \A d \in req'[v].codes : c < d
  <2>1. CASE v = w
    BY <1>1, <2>1
  <2>2. CASE v # w
    <3>1. req'[v] = req[v] /\ \A c \in Codes : codeLock'[c] = v => codeLock[c] = v
      BY <1>1, <1>2, <2>2, ConstantsAssumption
    <3> QED
      BY <3>1 DEF OrderOK, At
  <2> QED
    BY <2>1, <2>2
<1> QED
  BY <1>3, <1>4, <1>5 DEF OrderOK, At

\* A statement takes the row of the secret, or the place of a new one.
LEMMA OrderRow ==
    ASSUME TypeOK, OrderOK, NEW w \in Workers, UNCHANGED codeLock,
           \/ At(w, "dropping") /\ Goto(w, "dropped") /\ rowLock' \in {rowLock, w} /\ UNCHANGED inserter
           \/ At(w, "dropped") /\ Goto(w, "inserted") /\ inserter' = w /\ UNCHANGED rowLock
           \/ At(w, "activating") /\ Goto(w, "activated") /\ rowLock' = w /\ UNCHANGED inserter
    PROVE  OrderOK'
<1>1. /\ req'[w].step \in {"dropped", "inserted", "activated"}
      /\ inserter' = w => req'[w].step = "inserted" \/ inserter = w
      /\ req[w].step # "inserted"
      /\ \A v \in Workers \ {w} : req'[v] = req[v]
  BY GotoRequest DEF At
<1>2. inserter' # None => req'[inserter'].step = "inserted"
  BY <1>1 DEF OrderOK, At, TypeOK
<1>3. rowLock' # None => req'[rowLock'].step \in {"dropped", "inserted", "activated", "sweeping"}
  BY <1>1 DEF OrderOK, TypeOK
<1> QED
  BY <1>1, <1>2, <1>3 DEF OrderOK, At

\* A challenge takes the code that it was given, a deletion the first of those
\* it has yet to reach.
LEMMA OrderCode ==
    ASSUME TypeOK, LocksOK, OrderOK, NEW w \in Workers, UNCHANGED <<rowLock, inserter>>,
           \/ /\ At(w, "backup") /\ Goto(w, "verified")
              /\ \E c \in Codes : codeLock' = [codeLock EXCEPT ![c] = w]
           \/ SweepCode(w)
    PROVE  OrderOK'
<1>1. CASE /\ At(w, "backup") /\ Goto(w, "verified")
           /\ \E c \in Codes : codeLock' = [codeLock EXCEPT ![c] = w]
  <2>1. req'[w].step = "verified" /\ \A v \in Workers \ {w} : req'[v] = req[v]
    BY <1>1, GotoRequest DEF At
  <2>2. \A c \in Codes : codeLock'[c] = w \/ codeLock'[c] = codeLock[c]
    BY <1>1 DEF TypeOK
  <2>3. inserter # None => req'[inserter].step = "inserted"
    BY <1>1, <2>1 DEF OrderOK, At, TypeOK
  <2>4. rowLock # None => req'[rowLock].step \in {"dropped", "inserted", "activated", "sweeping"}
    BY <1>1, <2>1 DEF OrderOK, At, TypeOK
  <2> QED
    BY <2>1, <2>2, <2>3, <2>4 DEF OrderOK, At
<1>2. CASE SweepCode(w)
  <2> DEFINE n == NextCode(w)
  <2>1. /\ req[w].step = "sweeping" /\ req'[w].step = "sweeping"
        /\ req'[w].codes = req[w].codes \ {n} /\ req[w].codes # {}
        /\ \A v \in Workers \ {w} : req'[v] = req[v]
        /\ codeLock' = IF n \in Stored THEN [codeLock EXCEPT ![n] = w] ELSE codeLock
    BY <1>2, AimRequest DEF SweepCode, At
  <2>2. n \in req[w].codes /\ \A d \in req[w].codes : n <= d
    BY <2>1, NextCodeFirst
  <2>3. n \in Codes /\ req[w].codes \in SUBSET Codes /\ Codes \in SUBSET Int
    BY <2>2, RequestForms, ConstantsAssumption DEF Codes
  <2> HIDE DEF n
  <2>4. \A c \in Codes : codeLock'[c] = codeLock[c] \/ (c = n /\ codeLock'[c] = w)
    BY <2>1 DEF TypeOK
  <2>5. \A d \in req'[w].codes : n < d
    BY <2>1, <2>2, <2>3
  <2>6. inserter # None => req'[inserter].step = "inserted"
    BY <2>1 DEF OrderOK, At, TypeOK
  <2>7. rowLock # None => req'[rowLock].step \in {"dropped", "inserted", "activated", "sweeping"}
    BY <2>1 DEF OrderOK, At, TypeOK
  <2>8. \A c \in Codes : codeLock'[c] = w => \A d \in req'[w].codes : c < d
    BY <2>1, <2>4, <2>5 DEF OrderOK, At
  <2>9. ASSUME NEW v \in Workers \ {w}, NEW c \in Codes
        PROVE  codeLock'[c] = v => codeLock[c] = v
    BY <2>4
  <2> QED
    BY <2>1, <2>6, <2>7, <2>8, <2>9 DEF OrderOK, At
<1> QED
  BY <1>1, <1>2

\* Every step keeps the order.
LEMMA NextOrder ==
    ASSUME TypeOK, LocksOK, OrderOK, [Next]_vars
    PROVE  OrderOK'
<1>1. ASSUME NEW w \in Workers,
             \/ LoginUser(w) \/ ChallengeFind(w) \/ Setup(w) \/ ConfirmFind(w)
             \/ DisableFind(w) \/ AdminDisable(w) \/ Disable(w) \/ GenerateFind(w)
      PROVE  OrderOK'
  <2>1. req[w].step \in {"idle", "disabling"} /\ UNCHANGED <<rowLock, inserter, codeLock>>
    BY <1>1 DEF LoginUser, ChallengeFind, Setup, ConfirmFind, DisableFind, AdminDisable, Disable,
       GenerateFind, At, codeVars, rowVars
  <2>2. /\ req'[w].step \in {"user", "factor", "dropping", "confirming", "disabling", "generating"}
        /\ \A v \in Workers \ {w} : req'[v] = req[v]
    BY <1>1, BeginRequest
  <2> QED
    BY <2>1, <2>2, OrderNeutral
<1>2. ASSUME NEW w \in Workers, Finish(w)
      PROVE  OrderOK'
  BY <1>2, OrderFinish
<1>3. ASSUME NEW w \in Workers, UNCHANGED <<rowLock, inserter, codeLock>>,
             \/ At(w, "user") /\ Goto(w, "passed")
             \/ At(w, "factor") /\ Goto(w, "verified")
             \/ At(w, "verified") /\ Goto(w, "cleared")
      PROVE  OrderOK'
  <2>1. /\ req'[w].step \in {"passed", "verified", "cleared"}
        /\ req[w].step \in {"user", "factor", "verified"}
        /\ \A v \in Workers \ {w} : req'[v] = req[v]
    BY <1>3, GotoRequest DEF At
  <2> QED
    BY <1>3, <2>1, OrderNeutral
<1>4. ASSUME NEW w \in Workers, UNCHANGED <<rowLock, inserter, codeLock>>,
             \/ \E c \in Codes : BackupFind(w, c)
             \/ SweepStart(w)
             \/ At(w, "confirming") /\ req' = [req EXCEPT ![w].step = "activating", ![w].target = row.secret]
      PROVE  OrderOK'
  <2>1. ASSUME NEW c \in Codes, BackupFind(w, c)
        PROVE  /\ req[w].step = "factor" /\ req'[w].step = "backup" /\ req'[w].codes # {}
               /\ \A v \in Workers \ {w} : req'[v] = req[v]
    <3>1. req[w].step = "factor"
      BY <2>1 DEF BackupFind, At
    <3>2. req'[w].step = "backup" /\ req'[w].codes = {c} /\ \A v \in Workers \ {w} : req'[v] = req[v]
      BY <2>1, AimRequest
    <3> QED
      BY <3>1, <3>2
  <2>2. ASSUME SweepStart(w)
        PROVE  /\ req[w].step \in {"generating", "dropped"} /\ req'[w].step = "sweeping"
               /\ \A v \in Workers \ {w} : req'[v] = req[v]
    <3>1. req[w].step \in {"generating", "dropped"}
      BY <2>2 DEF SweepStart, At
    <3>2. req'[w].step = "sweeping" /\ \A v \in Workers \ {w} : req'[v] = req[v]
      BY <2>2, AimRequest
    <3> QED
      BY <3>1, <3>2
  <2>3. ASSUME At(w, "confirming"), req' = [req EXCEPT ![w].step = "activating", ![w].target = row.secret]
        PROVE  /\ req[w].step = "confirming" /\ req'[w].step = "activating"
               /\ \A v \in Workers \ {w} : req'[v] = req[v]
    <3>1. req[w].step = "confirming"
      BY <2>3 DEF At
    <3>2. req'[w].step = "activating" /\ \A v \in Workers \ {w} : req'[v] = req[v]
      BY <2>3, AimRequest
    <3> QED
      BY <3>1, <3>2
  <2>4. ASSUME NEW c \in Codes, BackupFind(w, c)
        PROVE  OrderOK'
    BY <1>4, <2>1, <2>4, OrderNeutral
  <2>5. CASE SweepStart(w)
    BY <1>4, <2>2, <2>5, OrderNeutral
  <2>6. CASE At(w, "confirming") /\ req' = [req EXCEPT ![w].step = "activating", ![w].target = row.secret]
    BY <1>4, <2>3, <2>6, OrderNeutral
  <2> QED
    BY <1>4, <2>4, <2>5, <2>6
<1>5. CASE UNCHANGED <<req, rowLock, inserter, codeLock>>
  BY <1>5 DEF OrderOK, At
<1>6. ASSUME NEW w \in Workers, NEW c \in Codes, BackupMark(w, c)
      PROVE  OrderOK'
  BY <1>2, <1>6, OrderCode DEF BackupMark, Leave, rowVars
<1>7. ASSUME NEW w \in Workers, SweepCode(w)
      PROVE  OrderOK'
  BY <1>7, OrderCode DEF SweepCode, rowVars
<1>8. ASSUME NEW w \in Workers, DropSecret(w) \/ SetupInsert(w)
      PROVE  OrderOK'
  BY <1>8, OrderRow DEF DropSecret, SetupInsert, Goto, codeVars
<1>9. ASSUME NEW w \in Workers, ActivateUpdate(w)
      PROVE  OrderOK'
  BY <1>2, <1>9, OrderRow DEF ActivateUpdate, Leave, codeVars
<1>10. ASSUME NEW w \in Workers, LoginFactor(w) \/ ChallengeTotp(w) \/ ChallengeUser(w)
       PROVE  OrderOK'
  BY <1>2, <1>3, <1>10 DEF LoginFactor, ChallengeTotp, ChallengeUser, Leave, rowVars, codeVars
<1>13. ASSUME NEW w \in Workers, ActivateFind(w) \/ SweepStart(w) \/ \E c \in Codes : BackupFind(w, c)
       PROVE  OrderOK'
  <2>1. ASSUME ActivateFind(w)
        PROVE  \/ Finish(w)
               \/ /\ At(w, "confirming") /\ UNCHANGED <<rowLock, inserter, codeLock>>
                  /\ req' = [req EXCEPT ![w].step = "activating", ![w].target = row.secret]
    BY <2>1 DEF ActivateFind, Leave, rowVars, codeVars
  <2>2. ASSUME SweepStart(w) \/ \E c \in Codes : BackupFind(w, c)
        PROVE  UNCHANGED <<rowLock, inserter, codeLock>>
    BY <2>2 DEF SweepStart, BackupFind, rowVars, codeVars
  <2> QED
    BY <1>2, <1>4, <1>13, <2>1, <2>2
<1>11. ASSUME NEW w \in Workers,
              \/ LoginCommit(w) \/ ChallengeCommit(w) \/ SetupConflict(w) \/ SetupCommit(w)
              \/ ConfirmCommit(w) \/ GenerateCommit(w) \/ DisableCommit(w) \/ Rollback(w)
       PROVE  OrderOK'
  BY <1>2, <1>11 DEF LoginCommit, ChallengeCommit, SetupConflict, SetupCommit, ConfirmCommit,
     GenerateCommit, DisableCommit, Rollback, Leave, AfterSweep
<1>12. CASE (\E a \in BOOLEAN : SetActive(a)) \/ TokenExpires \/ UNCHANGED vars
  BY <1>5, <1>12 DEF SetActive, TokenExpires, vars, rowVars, codeVars
<1> QED
  BY <1>1, <1>6, <1>7, <1>8, <1>9, <1>10, <1>11, <1>12, <1>13 DEF Next

\* A request that waits for a code waits for one that it has yet to reach, and
\* one that waits for the secret for a request that waits for nobody else.
LEMMA Waits ==
    ASSUME TypeOK, LocksOK, OrderOK, NEW w \in Workers, NEW v \in Workers, WaitsFor(w) = v
    PROVE  \/ /\ req[w].step \in {"backup", "sweeping"} /\ req[w].codes # {}
              /\ NextCode(w) \in Codes /\ codeLock[NextCode(w)] = v
           \/ /\ req[w].step \in {"dropping", "activating", "dropped"}
              /\ v = inserter \/ (v = rowLock /\ (req[w].step = "dropped" => Is(w, "setup")))
              /\ req[w].step = "dropped" => v = inserter \/ v # w
<1> USE ConstantsAssumption
<1>1. v # None
  OBVIOUS
<1>2. CASE req[w].step \in {"backup", "sweeping"}
  <2>1. req[w].codes # {} /\ codeLock[NextCode(w)] = v
    BY <1>1, <1>2 DEF WaitsFor, At, OrderOK
  <2>2. NextCode(w) \in Codes
    BY <2>1, NextCodeFirst, RequestForms
  <2> QED
    BY <1>2, <2>1, <2>2
<1>3. CASE req[w].step \notin {"backup", "sweeping"}
  BY <1>1, <1>3 DEF WaitsFor, At
<1> QED
  BY <1>2, <1>3

\* Requests never wait for each other in a circle.
LEMMA OrderSafe ==
    ASSUME TypeOK, LocksOK, OrderOK
    PROVE  NoDeadlock
<1> USE ConstantsAssumption
<1> SUFFICES ASSUME NEW S \in SUBSET Workers, S # {}, \A w \in S : WaitsFor(w) \in S
             PROVE  FALSE
  BY Zenon DEF NoDeadlock
<1>1. \A w \in S : w \in Workers /\ WaitsFor(w) \in Workers /\ WaitsFor(w) # None
  <2> HIDE DEF WaitsFor
  <2> QED
    OBVIOUS
<1> DEFINE OnCode(w) == req[w].step \in {"backup", "sweeping"} /\ req[w].codes # {}
           B == {w \in S : OnCode(w)}
           C == {NextCode(w) : w \in B}
<1>2. CASE B = {}
  <2>1. \A w \in S : /\ req[w].step \in {"dropping", "activating", "dropped"}
                     /\ WaitsFor(w) \in {inserter, rowLock}
                     /\ req[w].step = "dropped" /\ WaitsFor(w) # inserter => WaitsFor(w) # w
    BY <1>1, <1>2, Waits
  <2>2. \A w \in S : WaitsFor(w) # inserter
    BY <1>1, <2>1 DEF OrderOK, At
  <2>3. PICK w \in S : TRUE
    OBVIOUS
  <2>4. WaitsFor(w) = rowLock /\ rowLock \in S /\ rowLock # None
    BY <1>1, <2>1, <2>2
  <2>5. req[rowLock].step = "dropped"
    BY <2>1, <2>4 DEF OrderOK
  <2>6. WaitsFor(rowLock) = rowLock /\ WaitsFor(rowLock) # rowLock
    BY <2>1, <2>2, <2>4, <2>5
  <2> QED
    BY <2>6
<1>3. CASE B # {}
  <2>1. ASSUME NEW w \in B
        PROVE  /\ NextCode(w) \in Codes /\ codeLock[NextCode(w)] = WaitsFor(w)
               /\ WaitsFor(w) \in S
    BY <1>1, <2>1, Waits
  <2>2. C \in SUBSET Codes /\ C # {}
    BY <1>3, <2>1
  <2>3. PICK c \in C : \A d \in C : d <= c
    <3> HIDE DEF C
    <3> QED
      BY <2>2, GreatestOf DEF Codes
  <2>4. PICK w \in B : c = NextCode(w)
    BY <2>3
  <2> DEFINE v == WaitsFor(w)
  <2>5. c \in Codes /\ codeLock[c] = v /\ v \in S /\ v \in Workers
    BY <1>1, <2>1, <2>4
  <2>6. req[v].step = "sweeping"
    <3>1. req[v].step \in {"sweeping", "verified", "cleared"}
      BY <2>5 DEF LocksOK, At
    <3>2. WaitsFor(v) \in Workers
      BY <1>1, <2>5
    <3> QED
      BY <3>1, <3>2, <2>5, Waits
  <2>7. v \in B
    BY <1>1, <2>5, <2>6, Waits
  <2>8. NextCode(v) \in req[v].codes /\ NextCode(v) \in C
    BY <2>5, <2>7, NextCodeFirst
  <2>9. c < NextCode(v) /\ NextCode(v) <= c
    BY <2>3, <2>5, <2>6, <2>8 DEF OrderOK, At
  <2>10. c \in Int /\ NextCode(v) \in Int
    BY <2>1, <2>5, <2>7 DEF Codes
  <2> QED
    BY <2>9, <2>10
<1> QED
  BY <1>2, <1>3

\* Setups, confirmations, disablings, challenges and generations never wait for
\* each other in a circle, however many there are (mfa.rs, mfa_service.rs).
THEOREM NoDeadlockHolds == Spec => []NoDeadlock
<1>1. Init => OrderOK
  BY ConstantsAssumption DEF Init, OrderOK, At, Idle
<1>2. Safe /\ OrderOK /\ [Next]_vars => OrderOK'
  BY NextOrder DEF Safe, Inv, CodeInv
<1>3. Safe /\ OrderOK => NoDeadlock
  BY OrderSafe DEF Safe, Inv, CodeInv
<1> QED
  BY <1>1, <1>2, <1>3, Invariance, PTL DEF Spec

=============================================================================
