-------------------------- MODULE CredentialsProofs --------------------------
(***************************************************************************)
(* Safety of Credentials for any number of requests, passwords, links,     *)
(* codes, logins and changes.                                              *)
(***************************************************************************)
EXTENDS Credentials, FiniteSetTheorems, SequenceTheorems, TLAPS

\* What a request of each kind looks like.
Shape(w) ==
    /\ Is(w, None) => At(w, "idle") /\ req[w].at = 0
    /\ Is(w, "reset") =>
        /\ req[w].link \in Links
        /\ req[w].step \in {"found", "spent", "checking", "writing", "revoking", "committing"}
        /\ req[w].at = 0 <=> req[w].step \in {"found", "spent"}
        /\ req[w].step \in {"writing", "revoking", "committing"} => req[w].password \in Passwords
    /\ Is(w, "update") =>
        /\ req[w].step \in {"email", "checking", "writing", "committing"}
        /\ At(w, "checking") => req[w].at # 0
        /\ req[w].at # 0 /\ req[w].step \in {"writing", "committing"} => req[w].password \in Passwords
    /\ Is(w, "verify") =>
        /\ req[w].otp \in OTPs /\ req[w].at = 0
        /\ req[w].step \in {"found", "writing", "committing"}
    /\ Is(w, "login") =>
        /\ req[w].login \in 1 .. begun /\ req[w].at = 0
        /\ req[w].step \in {"password", "session"}
    /\ Is(w, "authorize") => req[w].login \in Logins /\ req[w].at = 0 /\ At(w, "authorizing")
    /\ Is(w, "logout") => req[w].login \in Logins /\ req[w].at = 0 /\ At(w, "signing-out")

Shapes == \A w \in Workers : Shape(w)

(* One-time tokens *)

\* A reset that has gone on has marked its link, for good.
MarkedBeforehand ==
    \A w \in Workers : Is(w, "reset") /\ ~At(w, "found") => link[req[w].link] = "used"

TokenInv == MarkedBeforehand /\ SpentBeforeReset /\ VerifiedByCode

(* The password in force *)

PasswordInv == CurrentRecorded

(* Logins and sessions *)

\* Each login belongs to one request, which stores the session after the token.
LoginsApart ==
    \A w \in Workers : Is(w, "login") =>
        /\ session[req[w].login] = "none"
        /\ At(w, "session") => token[req[w].login] # "none"
        /\ \A v \in Workers : Is(v, "login") /\ v # w => req[v].login # req[w].login

\* There are tokens and sessions of logins that have begun only.
BegunOnly ==
    \A i \in Logins : i > begun => token[i] = "none" /\ i \notin stale

\* ... also in what a reset has found.
SeenBegun ==
    \A w \in Workers : Is(w, "reset") /\ At(w, "committing") => \A i \in req[w].seen : i <= begun

\* A session that gives out codes is or was there; one that did so afterwards
\* is no more.
AuthorizationsOK ==
    /\ \A w \in Workers : Is(w, "authorize") => session[req[w].login] # "none"
    /\ \A i \in Logins : afterwards[i] > 0 => session[i] = "ended"

SessionInv == LoginsApart /\ BegunOnly /\ SeenBegun /\ AuthorizationsOK /\ SessionsOfLogins

(* What a reset does to logins *)

\* Who signs in while a reset is under way is known to race with it.
RacersKnown ==
    \A w, v \in Workers : Resetting(w) /\ At(v, "password") => req[v].login \in racing

\* What a reset has not found live is a racer's.
SeenOrRacing ==
    \A w \in Workers : Is(w, "reset") /\ At(w, "committing") =>
        \A i \in Logins : token[i] = "live" => i \in req[w].seen \/ i \in racing

\* Who has used the replaced password and is not done yet is a racer.
StaleRace ==
    \A v \in Workers : At(v, "password") /\ req[v].login \in stale => req[v].login \in racing

RaceInv == RacersKnown /\ SeenOrRacing /\ StaleRace /\ ResetEndsLogins

\* the inductive invariant, but for the counts
Inv == TypeOK /\ Shapes /\ TokenInv /\ PasswordInv /\ SessionInv /\ RaceInv

(* Counts *)

\* Every change has been recorded, is under way, or has been given up.
Changers == {w \in Workers : Changing(w)}
ChangesBounded == Len(history) + Cardinality(Changers) <= changes

\* Each reset by a link takes one request, and none enters after the first.
Holders(l) == {w \in Workers : Is(w, "reset") /\ req[w].link = l}
LinksBounded == \A l \in Links : resets[l] + Cardinality(Holders(l)) <= Cardinality(Workers)

\* Each code after the end of a session takes one request.
Authorizing(i) == {w \in Workers : Is(w, "authorize") /\ req[w].login = i}
SessionsBounded ==
    \A i \in Logins : afterwards[i] + Cardinality(Authorizing(i)) <= Cardinality(Workers)

(* The history *)

\* Nothing is later than the last change that was begun.
ChangesCounted ==
    /\ \A w \in Workers : req[w].at <= changes
    /\ \A i \in DOMAIN history : history[i].at <= changes

\* Changes that overlap know it.
OverlapsNoted ==
    \A w, v \in Workers : Changing(w) /\ Changing(v) /\ v # w => req[w].raced

\* A change under way is later than what is recorded, unless both overlapped
\* others.
Ahead ==
    \A w \in Workers : Changing(w) => \A i \in DOMAIN history :
        ~req[w].raced \/ ~history[i].raced => history[i].at < req[w].at

\* The order of the commits is that of the beginnings, with the same exception.
Ordered ==
    \A i, j \in DOMAIN history :
        i < j /\ (~history[i].raced \/ ~history[j].raced) => history[i].at < history[j].at

\* What was compared with the history still differs from it.
Compared ==
    \A w \in Workers : Changing(w) /\ ~req[w].raced /\ req[w].step \in {"writing", "revoking", "committing"} =>
        \A i \in Recent(HistorySize) : history[i].password # req[w].password

ReuseInv == ChangesCounted /\ OverlapsNoted /\ Ahead /\ Ordered /\ Compared /\ NoReuse

-----------------------------------------------------------------------------
(* What a step makes of the requests *)

\* Nothing but the note of a race has changed in a request.
Same(v) ==
    /\ req'[v].step = req[v].step /\ req'[v].kind = req[v].kind
    /\ req'[v].link = req[v].link /\ req'[v].otp = req[v].otp /\ req'[v].login = req[v].login
    /\ req'[v].password = req[v].password /\ req'[v].at = req[v].at /\ req'[v].seen = req[v].seen

OthersSame(w) == \A v \in Workers \ {w} : Same(v)

\* Who goes on otherwise as before.
KeepsData(w) ==
    /\ req'[w].kind = req[w].kind /\ req'[w].link = req[w].link /\ req'[w].otp = req[w].otp
    /\ req'[w].login = req[w].login /\ req'[w].password = req[w].password /\ req'[w].at = req[w].at
    /\ req'[w].seen = req[w].seen

LEMMA IdleRequest == Idle \in Request
BY ConstantsAssumption DEF Idle, Request

LEMMA RequestFields ==
    ASSUME TypeOK, NEW w \in Workers
    PROVE  /\ req[w] \in Request /\ req[w].kind \in Kinds \cup {None}
           /\ req[w].link \in Links \cup {None} /\ req[w].otp \in OTPs \cup {None}
           /\ req[w].login \in Logins \cup {None} /\ req[w].password \in Passwords \cup {None}
           /\ req[w].at \in Nat /\ req[w].at \in 0 .. MaxChanges /\ req[w].seen \subseteq Logins
           /\ req[w].raced \in BOOLEAN
BY ConstantsAssumption DEF TypeOK, Request

\* A request that is replaced as a whole.
LEMMA ReplaceRequest ==
    ASSUME TypeOK, NEW w \in Workers, NEW r \in Request, req' = [req EXCEPT ![w] = r]
    PROVE  req' \in [Workers -> Request] /\ req'[w] = r /\ OthersSame(w)
BY DEF TypeOK, OthersSame, Same

\* The end of a request.
LEMMA FinishRequest ==
    ASSUME TypeOK, NEW w \in Workers, Finish(w)
    PROVE  /\ req' \in [Workers -> Request] /\ OthersSame(w)
           /\ req'[w].step = "idle" /\ req'[w].kind = None /\ req'[w].at = 0
           /\ userLock' \in Workers \cup {None} /\ otpLock' \in [OTPs -> Workers \cup {None}]
<1>1. req' = [req EXCEPT ![w] = Idle]
  BY DEF Finish
<1>2. req' \in [Workers -> Request] /\ req'[w] = Idle /\ OthersSame(w)
  BY <1>1, IdleRequest, ReplaceRequest
<1> QED
  BY <1>2 DEF Idle, Finish, TypeOK

\* The step to another step.
LEMMA GotoRequest ==
    ASSUME TypeOK, NEW w \in Workers,
           NEW s \in {"spent", "checking", "writing", "revoking", "committing", "session"}, Goto(w, s)
    PROVE  req' \in [Workers -> Request] /\ req'[w].step = s /\ KeepsData(w) /\ OthersSame(w)
<1>1. req[w] \in Request
  BY RequestFields
<1>2. [req[w] EXCEPT !.step = s] \in Request
  BY <1>1 DEF Request
<1>3. req' = [req EXCEPT ![w] = [req[w] EXCEPT !.step = s]]
  BY DEF Goto
<1>4. req' \in [Workers -> Request] /\ req'[w] = [req[w] EXCEPT !.step = s] /\ OthersSame(w)
  BY <1>2, <1>3, ReplaceRequest
<1> QED
  BY <1>1, <1>4 DEF KeepsData, Request

\* A request that begins outside a transaction that changes the password.
LEMMA BeginActions ==
    ASSUME TypeOK, NEW w \in Workers
    PROVE  /\ \A l \in Links : ConsumeFind(w, l) =>
                /\ req' \in [Workers -> Request] /\ OthersSame(w)
                /\ req'[w].step = "found" /\ req'[w].kind = "reset" /\ req'[w].link = l /\ req'[w].at = 0
           /\ \A o \in OTPs : VerifyFind(w, o) =>
                /\ req' \in [Workers -> Request] /\ OthersSame(w)
                /\ req'[w].step = "found" /\ req'[w].kind = "verify" /\ req'[w].otp = o /\ req'[w].at = 0
           /\ LoginFind(w) =>
                /\ req' \in [Workers -> Request] /\ OthersSame(w)
                /\ req'[w].step = "password" /\ req'[w].kind = "login" /\ req'[w].login = begun + 1
                /\ req'[w].at = 0 /\ begun + 1 \in Logins
           /\ \A i \in Logins : AuthorizeFind(w, i) =>
                /\ req' \in [Workers -> Request] /\ OthersSame(w)
                /\ req'[w].step = "authorizing" /\ req'[w].kind = "authorize" /\ req'[w].login = i
                /\ req'[w].at = 0
           /\ \A i \in Logins : Logout(w, i) =>
                /\ req' \in [Workers -> Request] /\ OthersSame(w)
                /\ req'[w].step = "signing-out" /\ req'[w].kind = "logout" /\ req'[w].login = i
                /\ req'[w].at = 0
<1> USE ConstantsAssumption
<1>1. ASSUME NEW l \in Links, ConsumeFind(w, l)
      PROVE  /\ req' \in [Workers -> Request] /\ OthersSame(w)
             /\ req'[w].step = "found" /\ req'[w].kind = "reset" /\ req'[w].link = l /\ req'[w].at = 0
  <2> DEFINE r == [Idle EXCEPT !.step = "found", !.kind = "reset", !.link = l]
  <2>1. /\ r \in Request /\ r.step = "found" /\ r.kind = "reset" /\ r.link = l /\ r.at = 0
    <3>1. Idle \in Request /\ Idle.at = 0
      BY IdleRequest DEF Idle
    <3> QED
      BY <3>1 DEF Request, Kinds
  <2>2. req' = [req EXCEPT ![w] = r]
    BY <1>1 DEF ConsumeFind
  <2> HIDE DEF r
  <2> QED
    BY <2>1, <2>2, ReplaceRequest
<1>2. ASSUME NEW o \in OTPs, VerifyFind(w, o)
      PROVE  /\ req' \in [Workers -> Request] /\ OthersSame(w)
             /\ req'[w].step = "found" /\ req'[w].kind = "verify" /\ req'[w].otp = o /\ req'[w].at = 0
  <2> DEFINE r == [Idle EXCEPT !.step = "found", !.kind = "verify", !.otp = o]
  <2>1. /\ r \in Request /\ r.step = "found" /\ r.kind = "verify" /\ r.otp = o /\ r.at = 0
    <3>1. Idle \in Request /\ Idle.at = 0
      BY IdleRequest DEF Idle
    <3> QED
      BY <3>1 DEF Request, Kinds
  <2>2. req' = [req EXCEPT ![w] = r]
    BY <1>2 DEF VerifyFind
  <2> HIDE DEF r
  <2> QED
    BY <2>1, <2>2, ReplaceRequest
<1>3. ASSUME LoginFind(w)
      PROVE  /\ req' \in [Workers -> Request] /\ OthersSame(w)
             /\ req'[w].step = "password" /\ req'[w].kind = "login" /\ req'[w].login = begun + 1
             /\ req'[w].at = 0 /\ begun + 1 \in Logins
  <2>0. begun + 1 \in Logins
    BY <1>3 DEF LoginFind, TypeOK, Logins
  <2> DEFINE r == [Idle EXCEPT !.step = "password", !.kind = "login", !.login = begun + 1]
  <2>1. /\ r \in Request /\ r.step = "password" /\ r.kind = "login" /\ r.login = begun + 1 /\ r.at = 0
    <3>1. Idle \in Request /\ Idle.at = 0
      BY IdleRequest DEF Idle
    <3> QED
      BY <2>0, <3>1 DEF Request, Kinds
  <2>2. req' = [req EXCEPT ![w] = r]
    BY <1>3 DEF LoginFind
  <2> HIDE DEF r
  <2> QED
    BY <2>0, <2>1, <2>2, ReplaceRequest
<1>4. ASSUME NEW i \in Logins, AuthorizeFind(w, i)
      PROVE  /\ req' \in [Workers -> Request] /\ OthersSame(w)
             /\ req'[w].step = "authorizing" /\ req'[w].kind = "authorize" /\ req'[w].login = i
             /\ req'[w].at = 0
  <2> DEFINE r == [Idle EXCEPT !.step = "authorizing", !.kind = "authorize", !.login = i]
  <2>1. /\ r \in Request /\ r.step = "authorizing" /\ r.kind = "authorize" /\ r.login = i /\ r.at = 0
    <3>1. Idle \in Request /\ Idle.at = 0
      BY IdleRequest DEF Idle
    <3> QED
      BY <3>1 DEF Request, Kinds
  <2>2. req' = [req EXCEPT ![w] = r]
    BY <1>4 DEF AuthorizeFind
  <2> HIDE DEF r
  <2> QED
    BY <2>1, <2>2, ReplaceRequest
<1>5. ASSUME NEW i \in Logins, Logout(w, i)
      PROVE  /\ req' \in [Workers -> Request] /\ OthersSame(w)
             /\ req'[w].step = "signing-out" /\ req'[w].kind = "logout" /\ req'[w].login = i
             /\ req'[w].at = 0
  <2> DEFINE r == [Idle EXCEPT !.step = "signing-out", !.kind = "logout", !.login = i]
  <2>1. /\ r \in Request /\ r.step = "signing-out" /\ r.kind = "logout" /\ r.login = i /\ r.at = 0
    <3>1. Idle \in Request /\ Idle.at = 0
      BY IdleRequest DEF Idle
    <3> QED
      BY <3>1 DEF Request, Kinds
  <2>2. req' = [req EXCEPT ![w] = r]
    BY <1>5 DEF Logout
  <2> HIDE DEF r
  <2> QED
    BY <2>1, <2>2, ReplaceRequest
<1> QED
  BY <1>1, <1>2, <1>3, <1>4, <1>5

LEMMA RaceNoted ==
    ASSUME NEW r \in Request, NEW b \in BOOLEAN
    PROVE  [r EXCEPT !.raced = b] \in Request
BY DEF Request

\* A transaction that changes the password begins.
LEMMA ChangeBegins ==
    ASSUME TypeOK, NEW w \in Workers, NEW r \in Request, Begin(w, r)
    PROVE  /\ req' \in [Workers -> Request] /\ OthersSame(w)
           /\ req'[w].step = r.step /\ req'[w].kind = r.kind /\ req'[w].link = r.link
           /\ req'[w].otp = r.otp /\ req'[w].login = r.login /\ req'[w].password = r.password
           /\ req'[w].seen = r.seen
           /\ req'[w].at = changes + 1 /\ changes' = changes + 1 /\ changes' \in 0 .. MaxChanges
           /\ req'[w].at # 0
<1> USE ConstantsAssumption
<1>0. changes < MaxChanges /\ changes' = changes + 1
  BY DEF Begin
<1>1. changes \in Nat /\ changes + 1 \in 0 .. MaxChanges /\ changes + 1 # 0
  BY <1>0 DEF TypeOK
<1> DEFINE raced == \E v \in Workers : Changing(v)
           f(v) == IF v = w THEN [r EXCEPT !.at = changes + 1, !.raced = raced]
                            ELSE [req[v] EXCEPT !.raced = @ \/ Changing(v)]
<1>2. req' = [v \in Workers |-> f(v)]
  BY DEF Begin
<1>3. raced \in BOOLEAN
  OBVIOUS
<1>4. f(w) \in Request /\ f(w) = [r EXCEPT !.at = changes + 1, !.raced = raced]
  <2> HIDE DEF raced
  <2> QED
    BY <1>1, <1>3 DEF Request
<1>5. ASSUME NEW v \in Workers \ {w}
      PROVE  /\ f(v) \in Request
             /\ f(v) = [req[v] EXCEPT !.raced = @ \/ Changing(v)]
  <2>1. req[v] \in Request /\ req[v].raced \in BOOLEAN
    BY RequestFields
  <2>2. (req[v].raced \/ Changing(v)) \in BOOLEAN
    OBVIOUS
  <2>3. f(v) = [req[v] EXCEPT !.raced = (req[v].raced \/ Changing(v))]
    OBVIOUS
  <2> HIDE DEF f
  <2> QED
    BY <2>1, <2>2, <2>3, RaceNoted
<1>6. req' \in [Workers -> Request]
  <2> HIDE DEF f
  <2> QED
    BY <1>2, <1>4, <1>5
<1>7. OthersSame(w)
  <2> SUFFICES ASSUME NEW v \in Workers \ {w} PROVE Same(v)
    BY DEF OthersSame
  <2>1. req'[v] = [req[v] EXCEPT !.raced = @ \/ Changing(v)]
    BY <1>2, <1>5
  <2>2. req[v] \in Request
    BY RequestFields
  <2> QED
    BY <2>1, <2>2 DEF Same, Request
<1>8. req'[w] = [r EXCEPT !.at = changes + 1, !.raced = raced]
  BY <1>2, <1>4
<1>9. /\ req'[w].step = r.step /\ req'[w].kind = r.kind /\ req'[w].link = r.link
      /\ req'[w].otp = r.otp /\ req'[w].login = r.login /\ req'[w].password = r.password
      /\ req'[w].seen = r.seen /\ req'[w].at = changes + 1
  <2> HIDE DEF raced
  <2> QED
    BY <1>8 DEF Request
<1> QED
  BY <1>0, <1>1, <1>6, <1>7, <1>9

\* An update begins, with a new password or without.
LEMMA UpdateBegins ==
    ASSUME TypeOK, NEW w \in Workers, NEW e \in BOOLEAN, NEW p \in BOOLEAN, UpdateBegin(w, e, p)
    PROVE  /\ req' \in [Workers -> Request] /\ OthersSame(w) /\ req'[w].kind = "update"
           /\ req'[w].step = IF e THEN "email" ELSE IF p THEN "checking" ELSE "writing"
           /\ p => req'[w].at # 0 /\ changes' = changes + 1 /\ changes' \in 0 .. MaxChanges
           /\ ~p => req'[w].at = 0 /\ changes' = changes
<1> DEFINE s == IF e THEN "email" ELSE IF p THEN "checking" ELSE "writing"
           r == [Idle EXCEPT !.kind = "update", !.step = s]
<1>1. s \in {"email", "checking", "writing"}
  OBVIOUS
<1>2. /\ p => Begin(w, r)
      /\ ~p => req' = [req EXCEPT ![w] = r] /\ changes' = changes
  BY DEF UpdateBegin
<1> HIDE DEF s
<1>3. /\ r \in Request /\ r.step = s /\ r.kind = "update" /\ r.at = 0
  <2>1. Idle \in Request /\ Idle.at = 0
    BY IdleRequest DEF Idle
  <2> QED
    BY <1>1, <2>1 DEF Request, Kinds
<1> HIDE DEF r
<1>4. CASE p
  BY <1>2, <1>3, <1>4, ChangeBegins DEF s
<1>5. CASE ~p
  BY <1>2, <1>3, <1>5, ReplaceRequest DEF s
<1> QED
  BY <1>4, <1>5

\* The transaction of a reset begins.
LEMMA ResetBegins ==
    ASSUME TypeOK, NEW w \in Workers, ResetBegin(w)
    PROVE  /\ req' \in [Workers -> Request] /\ OthersSame(w)
           /\ req'[w].kind = req[w].kind /\ req'[w].link = req[w].link /\ req'[w].step = "checking"
           /\ req'[w].at # 0 /\ changes' = changes + 1 /\ changes' \in 0 .. MaxChanges
<1> DEFINE r == [req[w] EXCEPT !.step = "checking"]
<1>1. req[w] \in Request
  BY RequestFields
<1>2. r \in Request /\ r.step = "checking" /\ r.kind = req[w].kind /\ r.link = req[w].link
  BY <1>1 DEF Request
<1>3. Begin(w, r)
  BY DEF ResetBegin
<1> HIDE DEF r
<1> QED
  BY <1>2, <1>3, ChangeBegins

\* The steps that write a field besides the step.
LEMMA RevokeAllRequest ==
    ASSUME TypeOK, NEW w \in Workers, RevokeAll(w)
    PROVE  /\ req' \in [Workers -> Request] /\ OthersSame(w) /\ req'[w].step = "committing"
           /\ req'[w].seen = {i \in Logins : token[i] = "live"}
           /\ req'[w].kind = req[w].kind /\ req'[w].link = req[w].link /\ req'[w].at = req[w].at
           /\ req'[w].password = req[w].password
<1> DEFINE a == {i \in Logins : token[i] = "live"}
           r == [req[w] EXCEPT !.step = "committing", !.seen = a]
<1>1. req[w] \in Request /\ a \subseteq Logins
  BY RequestFields
<1>2. req' = [req EXCEPT ![w] = r]
  BY DEF RevokeAll, TypeOK
<1> HIDE DEF a
<1>3. /\ r \in Request /\ r.step = "committing" /\ r.seen = a /\ r.kind = req[w].kind
      /\ r.link = req[w].link /\ r.at = req[w].at /\ r.password = req[w].password
  BY <1>1 DEF Request
<1> HIDE DEF r
<1> QED
  BY <1>2, <1>3, ReplaceRequest DEF a

LEMMA CheckRequest ==
    ASSUME TypeOK, NEW w \in Workers, NEW p \in Passwords,
           req' = [req EXCEPT ![w].step = "writing", ![w].password = p]
    PROVE  /\ req' \in [Workers -> Request] /\ OthersSame(w) /\ req'[w].step = "writing"
           /\ req'[w].password = p
           /\ req'[w].kind = req[w].kind /\ req'[w].link = req[w].link /\ req'[w].at = req[w].at
<1> DEFINE r == [req[w] EXCEPT !.step = "writing", !.password = p]
<1>1. req[w] \in Request
  BY RequestFields
<1>2. req' = [req EXCEPT ![w] = r]
  BY DEF TypeOK
<1>3. /\ r \in Request /\ r.step = "writing" /\ r.password = p /\ r.kind = req[w].kind
      /\ r.link = req[w].link /\ r.at = req[w].at
  BY <1>1 DEF Request
<1> HIDE DEF r
<1> QED
  BY <1>2, <1>3, ReplaceRequest

\* Every step is of one of these kinds.
LEMMA Actors ==
    ASSUME TypeOK, [Next]_vars
    PROVE  \/ UNCHANGED req /\ UNCHANGED changes
           \/ \E w \in Workers :
                \/ \E l \in Links : ConsumeFind(w, l)
                \/ \E o \in OTPs : VerifyFind(w, o)
                \/ \E i \in Logins : AuthorizeFind(w, i) \/ Logout(w, i)
                \/ LoginFind(w)
                \/ \E e, p \in BOOLEAN : UpdateBegin(w, e, p)
                \/ ResetBegin(w) \/ RevokeAll(w)
                \/ \E p \in Passwords :
                      /\ At(w, "checking") /\ UNCHANGED changes
                      /\ req' = [req EXCEPT ![w].step = "writing", ![w].password = p]
                \/ Finish(w) /\ UNCHANGED changes
                \/ ConsumeMark(w) /\ At(w, "found") /\ Is(w, "reset") /\ Goto(w, "spent") /\ UNCHANGED changes
                \/ At(w, "found") /\ Is(w, "verify") /\ Goto(w, "writing") /\ UNCHANGED changes
                \/ At(w, "email") /\ Goto(w, IF Changing(w) THEN "checking" ELSE "writing")
                                  /\ UNCHANGED changes
                \/ At(w, "writing") /\ Goto(w, IF Is(w, "reset") THEN "revoking" ELSE "committing")
                                    /\ UNCHANGED changes
                \/ LoginCommit(w) /\ At(w, "password") /\ Goto(w, "session") /\ UNCHANGED changes
<1>1. ASSUME NEW w \in Workers,
             \/ LoginSession(w) \/ AuthorizeCommit(w) \/ LogoutSession(w) \/ Rollback(w)
             \/ ResetCommit(w) \/ VerifyCommit(w) \/ \E a \in BOOLEAN : UpdateCommit(w, a)
      PROVE  Finish(w) /\ UNCHANGED changes
  BY <1>1 DEF LoginSession, AuthorizeCommit, LogoutSession, Rollback, ResetCommit, VerifyCommit,
     UpdateCommit, Leave
<1>2. ASSUME NEW w \in Workers,
             ConsumeMark(w) \/ UpdateEmail(w) \/ WriteUser(w) \/ VerifyMark(w) \/ LoginCommit(w)
      PROVE  \/ ConsumeMark(w) /\ At(w, "found") /\ Is(w, "reset") /\ Goto(w, "spent") /\ UNCHANGED changes
             \/ At(w, "found") /\ Is(w, "verify") /\ Goto(w, "writing") /\ UNCHANGED changes
             \/ At(w, "email") /\ Goto(w, IF Changing(w) THEN "checking" ELSE "writing")
                               /\ UNCHANGED changes
             \/ At(w, "writing") /\ Goto(w, IF Is(w, "reset") THEN "revoking" ELSE "committing")
                                 /\ UNCHANGED changes
             \/ LoginCommit(w) /\ At(w, "password") /\ Goto(w, "session") /\ UNCHANGED changes
  BY <1>2 DEF ConsumeMark, UpdateEmail, WriteUser, VerifyMark, LoginCommit, userVars
<1>3. ASSUME NEW w \in Workers, NEW p \in Passwords, CheckHistory(w, p)
      PROVE  \/ Finish(w) /\ UNCHANGED changes
             \/ /\ At(w, "checking") /\ UNCHANGED changes
                /\ req' = [req EXCEPT ![w].step = "writing", ![w].password = p]
  BY <1>3 DEF CheckHistory, Leave, userVars
<1>4. ASSUME \/ \E l \in Links : ForgotPassword(l) \/ IssueResetToken(l)
             \/ \E o \in OTPs : IssueOTP(o)
             \/ OneTimeExpires
             \/ \E i \in Logins : DeleteSession(i) \/ SessionExpires(i)
             \/ UNCHANGED vars
      PROVE  UNCHANGED req /\ UNCHANGED changes
  BY <1>4 DEF ForgotPassword, IssueResetToken, IssueOTP, OneTimeExpires, DeleteSession, SessionExpires,
     vars, userVars
<1> QED
  BY <1>1, <1>2, <1>3, <1>4 DEF Next

-----------------------------------------------------------------------------
(* The shapes of requests *)

\* Requests keep their type, and changes their bound.
LEMMA NextRequestType ==
    ASSUME TypeOK, [Next]_vars
    PROVE  req' \in [Workers -> Request] /\ changes' \in 0 .. MaxChanges
<1>1. CASE UNCHANGED req /\ UNCHANGED changes
  BY <1>1 DEF TypeOK
<1>2. ASSUME NEW w \in Workers,
             \/ \E l \in Links : ConsumeFind(w, l)
             \/ \E o \in OTPs : VerifyFind(w, o)
             \/ \E i \in Logins : AuthorizeFind(w, i) \/ Logout(w, i)
             \/ LoginFind(w)
      PROVE  req' \in [Workers -> Request] /\ changes' \in 0 .. MaxChanges
  <2>1. UNCHANGED changes
    BY <1>2 DEF ConsumeFind, VerifyFind, AuthorizeFind, Logout, LoginFind, userVars
  <2> QED
    BY <1>2, <2>1, BeginActions DEF TypeOK
<1>3. ASSUME NEW w \in Workers, NEW e \in BOOLEAN, NEW p \in BOOLEAN, UpdateBegin(w, e, p)
      PROVE  req' \in [Workers -> Request] /\ changes' \in 0 .. MaxChanges
  BY <1>3, UpdateBegins DEF TypeOK
<1>4. ASSUME NEW w \in Workers, ResetBegin(w)
      PROVE  req' \in [Workers -> Request] /\ changes' \in 0 .. MaxChanges
  BY <1>4, ResetBegins
<1>5. ASSUME NEW w \in Workers, RevokeAll(w)
      PROVE  req' \in [Workers -> Request] /\ changes' \in 0 .. MaxChanges
  BY <1>5, RevokeAllRequest DEF RevokeAll, userVars, TypeOK
<1>6. ASSUME NEW w \in Workers, UNCHANGED changes,
             \/ Finish(w)
             \/ \E s \in {"spent", "checking", "writing", "revoking", "committing", "session"} : Goto(w, s)
             \/ \E p \in Passwords : req' = [req EXCEPT ![w].step = "writing", ![w].password = p]
      PROVE  req' \in [Workers -> Request] /\ changes' \in 0 .. MaxChanges
  <2>1. ASSUME NEW s \in {"spent", "checking", "writing", "revoking", "committing", "session"}, Goto(w, s)
        PROVE  req' \in [Workers -> Request]
    BY <2>1, GotoRequest
  <2>2. ASSUME NEW p \in Passwords, req' = [req EXCEPT ![w].step = "writing", ![w].password = p]
        PROVE  req' \in [Workers -> Request]
    BY <2>2, CheckRequest
  <2>3. Finish(w) => req' \in [Workers -> Request]
    BY FinishRequest
  <2> QED
    BY <1>6, <2>1, <2>2, <2>3 DEF TypeOK
<1>7. ASSUME NEW w \in Workers
      PROVE  /\ (IF Changing(w) THEN "checking" ELSE "writing")
                  \in {"spent", "checking", "writing", "revoking", "committing", "session"}
             /\ (IF Is(w, "reset") THEN "revoking" ELSE "committing")
                  \in {"spent", "checking", "writing", "revoking", "committing", "session"}
  OBVIOUS
<1> QED
  BY <1>1, <1>2, <1>3, <1>4, <1>5, <1>6, <1>7, Actors

\* No login is forgotten.
LEMMA BegunGrows ==
    ASSUME TypeOK, [Next]_vars
    PROVE  begun' \in 0 .. MaxLogins /\ begun <= begun'
<1>1. ASSUME NEW w \in Workers, LoginFind(w)
      PROVE  begun' \in 0 .. MaxLogins /\ begun <= begun'
  BY <1>1, ConstantsAssumption DEF LoginFind, TypeOK
<1>2. ASSUME UNCHANGED begun
      PROVE  begun' \in 0 .. MaxLogins /\ begun <= begun'
  BY <1>2 DEF TypeOK
<1>3. ASSUME NEW w \in Workers,
             \/ \E l \in Links : ConsumeFind(w, l)
             \/ ConsumeMark(w) \/ ResetBegin(w) \/ RevokeAll(w) \/ ResetCommit(w)
             \/ \E e, p \in BOOLEAN : UpdateBegin(w, e, p)
             \/ UpdateEmail(w) \/ WriteUser(w)
             \/ \E p \in Passwords : CheckHistory(w, p)
             \/ \E a \in BOOLEAN : UpdateCommit(w, a)
      PROVE  UNCHANGED begun
  BY <1>3 DEF ConsumeFind, ConsumeMark, ResetBegin, RevokeAll, ResetCommit, UpdateBegin, UpdateEmail,
     WriteUser, CheckHistory, UpdateCommit, loginVars
<1>4. ASSUME NEW w \in Workers,
             \/ \E o \in OTPs : VerifyFind(w, o)
             \/ VerifyMark(w) \/ VerifyCommit(w) \/ LoginCommit(w) \/ LoginSession(w)
             \/ \E i \in Logins : AuthorizeFind(w, i) \/ Logout(w, i)
             \/ AuthorizeCommit(w) \/ LogoutSession(w) \/ Rollback(w)
      PROVE  UNCHANGED begun
  BY <1>4 DEF VerifyFind, VerifyMark, VerifyCommit, LoginCommit, LoginSession, AuthorizeFind, Logout,
     AuthorizeCommit, LogoutSession, Rollback, loginVars
<1>5. ASSUME \/ \E l \in Links : ForgotPassword(l) \/ IssueResetToken(l)
             \/ \E o \in OTPs : IssueOTP(o)
             \/ OneTimeExpires
             \/ \E i \in Logins : DeleteSession(i) \/ SessionExpires(i)
             \/ UNCHANGED vars
      PROVE  UNCHANGED begun
  BY <1>5 DEF ForgotPassword, IssueResetToken, IssueOTP, OneTimeExpires, DeleteSession, SessionExpires,
     vars, loginVars
<1> QED
  BY <1>1, <1>2, <1>3, <1>4, <1>5 DEF Next

\* A request that a step does not touch keeps its shape.
LEMMA ShapeStays ==
    ASSUME TypeOK, NEW v \in Workers, Shape(v), Same(v), begun' \in Nat, begun <= begun'
    PROVE  Shape(v)'
<1>1. req[v].login \in 1 .. begun => req[v].login \in 1 .. begun'
  BY DEF TypeOK
<1> QED
  BY <1>1 DEF Shape, Same, Is, At

\* A step and the kind determine each other.
LEMMA ShapeFacts ==
    ASSUME TypeOK, Shapes, NEW w \in Workers
    PROVE  /\ req[w].kind \in Kinds \cup {None}
           /\ At(w, "idle") => Is(w, None)
           /\ At(w, "spent") \/ At(w, "revoking") => Is(w, "reset")
           /\ At(w, "email") => Is(w, "update")
           /\ At(w, "checking") => Is(w, "reset") \/ Is(w, "update")
           /\ At(w, "checking") => Changing(w)
           /\ At(w, "writing") \/ At(w, "committing") => Is(w, "reset") \/ Is(w, "update") \/ Is(w, "verify")
           /\ At(w, "found") => Is(w, "reset") \/ Is(w, "verify")
           /\ At(w, "password") \/ At(w, "session") => Is(w, "login")
           /\ At(w, "authorizing") => Is(w, "authorize")
           /\ At(w, "signing-out") => Is(w, "logout")
<1>1. req[w].kind \in Kinds \cup {None}
  BY RequestFields
<1>2. Shape(w)
  BY DEF Shapes
<1> QED
  BY <1>1, <1>2, ConstantsAssumption DEF Shape, Is, At, Kinds, Changing

\* Every step keeps the shapes.
LEMMA NextShapes ==
    ASSUME TypeOK, Shapes, [Next]_vars
    PROVE  Shapes'
<1> USE ConstantsAssumption
<1>0. begun \in Nat /\ begun' \in Nat /\ begun <= begun'
  BY BegunGrows DEF TypeOK
<1>1. ASSUME NEW w \in Workers, OthersSame(w), Shape(w)'
      PROVE  Shapes'
  BY <1>0, <1>1, ShapeStays DEF Shapes, OthersSame
<1>2. CASE UNCHANGED req
  <2>1. \A v \in Workers : Same(v)
    BY <1>2 DEF Same
  <2> QED
    BY <1>0, <2>1, ShapeStays DEF Shapes
<1>3. ASSUME NEW w \in Workers, NEW l \in Links, ConsumeFind(w, l)
      PROVE  Shapes'
  <2>1. OthersSame(w) /\ req'[w].step = "found" /\ req'[w].kind = "reset" /\ req'[w].link = l /\ req'[w].at = 0
    BY <1>3, BeginActions
  <2>2. Shape(w)'
    BY <2>1 DEF Shape, Is, At, Kinds
  <2> QED
    BY <1>1, <2>1, <2>2
<1>4. ASSUME NEW w \in Workers, NEW o \in OTPs, VerifyFind(w, o)
      PROVE  Shapes'
  <2>1. OthersSame(w) /\ req'[w].step = "found" /\ req'[w].kind = "verify" /\ req'[w].otp = o /\ req'[w].at = 0
    BY <1>4, BeginActions
  <2>2. Shape(w)'
    BY <2>1 DEF Shape, Is, At, Kinds
  <2> QED
    BY <1>1, <2>1, <2>2
<1>5. ASSUME NEW w \in Workers, LoginFind(w)
      PROVE  Shapes'
  <2>1. /\ OthersSame(w) /\ req'[w].step = "password" /\ req'[w].kind = "login"
        /\ req'[w].login = begun + 1 /\ req'[w].at = 0
    BY <1>5, BeginActions
  <2>2. begun' = begun + 1
    BY <1>5 DEF LoginFind
  <2>3. Shape(w)'
    BY <1>0, <2>1, <2>2 DEF Shape, Is, At, Kinds
  <2> QED
    BY <1>1, <2>1, <2>3
<1>6. ASSUME NEW w \in Workers, NEW i \in Logins, AuthorizeFind(w, i) \/ Logout(w, i)
      PROVE  Shapes'
  <2>1. /\ OthersSame(w) /\ req'[w].login = i /\ req'[w].at = 0
        /\ \/ req'[w].step = "authorizing" /\ req'[w].kind = "authorize"
           \/ req'[w].step = "signing-out" /\ req'[w].kind = "logout"
    BY <1>6, BeginActions
  <2>2. Shape(w)'
    BY <2>1 DEF Shape, Is, At, Kinds
  <2> QED
    BY <1>1, <2>1, <2>2
<1>7. ASSUME NEW w \in Workers, NEW e \in BOOLEAN, NEW p \in BOOLEAN, UpdateBegin(w, e, p)
      PROVE  Shapes'
  <2>1. /\ OthersSame(w) /\ req'[w].kind = "update" /\ (p => req'[w].at # 0) /\ (~p => req'[w].at = 0)
        /\ req'[w].step = IF e THEN "email" ELSE IF p THEN "checking" ELSE "writing"
    BY <1>7, UpdateBegins
  <2>2. Shape(w)'
    BY <2>1 DEF Shape, Is, At, Kinds
  <2> QED
    BY <1>1, <2>1, <2>2
<1>8. ASSUME NEW w \in Workers, ResetBegin(w)
      PROVE  Shapes'
  <2>1. /\ OthersSame(w) /\ req'[w].kind = req[w].kind /\ req'[w].link = req[w].link
        /\ req'[w].step = "checking" /\ req'[w].at # 0
    BY <1>8, ResetBegins
  <2>2. req[w].kind = "reset" /\ req[w].link \in Links
    BY <1>8, ShapeFacts DEF ResetBegin, Shapes, Shape, Is
  <2>3. Shape(w)'
    BY <2>1, <2>2 DEF Shape, Is, At, Kinds
  <2> QED
    BY <1>1, <2>1, <2>3
<1>9. ASSUME NEW w \in Workers, RevokeAll(w)
      PROVE  Shapes'
  <2>1. /\ OthersSame(w) /\ req'[w].kind = req[w].kind /\ req'[w].link = req[w].link
        /\ req'[w].step = "committing" /\ req'[w].at = req[w].at /\ req'[w].password = req[w].password
    BY <1>9, RevokeAllRequest
  <2>2. req[w].step = "revoking" /\ req[w].kind = "reset" /\ Shape(w)
    BY <1>9, ShapeFacts DEF RevokeAll, Shapes, Is, At
  <2>3. Shape(w)'
    BY <2>1, <2>2 DEF Shape, Is, At, Kinds
  <2> QED
    BY <1>1, <2>1, <2>3
<1>10. ASSUME NEW w \in Workers, NEW p \in Passwords, At(w, "checking"),
              req' = [req EXCEPT ![w].step = "writing", ![w].password = p]
       PROVE  Shapes'
  <2>1. /\ OthersSame(w) /\ req'[w].kind = req[w].kind /\ req'[w].link = req[w].link
        /\ req'[w].step = "writing" /\ req'[w].at = req[w].at /\ req'[w].password = p
    BY <1>10, CheckRequest
  <2>2. req[w].step = "checking" /\ req[w].kind \in {"reset", "update"} /\ Shape(w)
    BY <1>10, ShapeFacts DEF Shapes, Is, At
  <2>3. Shape(w)'
    BY <2>1, <2>2 DEF Shape, Is, At, Kinds
  <2> QED
    BY <1>1, <2>1, <2>3
<1>11. ASSUME NEW w \in Workers, Finish(w)
       PROVE  Shapes'
  <2>1. OthersSame(w) /\ req'[w].step = "idle" /\ req'[w].kind = None /\ req'[w].at = 0
    BY <1>11, FinishRequest
  <2>2. Shape(w)'
    BY <2>1 DEF Shape, Is, At, Kinds
  <2> QED
    BY <1>1, <2>1, <2>2
<1>12. ASSUME NEW w \in Workers, At(w, "found"), Is(w, "reset"), Goto(w, "spent")
       PROVE  Shapes'
  <2>1. OthersSame(w) /\ req'[w].step = "spent" /\ KeepsData(w)
    BY <1>12, GotoRequest
  <2>2. Shape(w)'
    BY <1>12, <2>1 DEF Shapes, Shape, KeepsData, Is, At, Kinds
  <2> QED
    BY <1>1, <2>1, <2>2
<1>13. ASSUME NEW w \in Workers, At(w, "found"), Is(w, "verify"), Goto(w, "writing")
       PROVE  Shapes'
  <2>1. OthersSame(w) /\ req'[w].step = "writing" /\ KeepsData(w)
    BY <1>13, GotoRequest
  <2>2. Shape(w)'
    BY <1>13, <2>1 DEF Shapes, Shape, KeepsData, Is, At, Kinds
  <2> QED
    BY <1>1, <2>1, <2>2
<1>14. ASSUME NEW w \in Workers, At(w, "email"), Goto(w, IF Changing(w) THEN "checking" ELSE "writing")
       PROVE  Shapes'
  <2>1. OthersSame(w) /\ req'[w].step = (IF Changing(w) THEN "checking" ELSE "writing") /\ KeepsData(w)
    BY <1>14, GotoRequest
  <2>2. req[w].kind = "update"
    BY <1>14, ShapeFacts DEF Is
  <2>3. Shape(w)'
    BY <1>14, <2>1, <2>2 DEF Shapes, Shape, KeepsData, Is, At, Kinds, Changing
  <2> QED
    BY <1>1, <2>1, <2>3
<1>15. ASSUME NEW w \in Workers, At(w, "writing"), Goto(w, IF Is(w, "reset") THEN "revoking" ELSE "committing")
       PROVE  Shapes'
  <2>1. OthersSame(w) /\ req'[w].step = (IF Is(w, "reset") THEN "revoking" ELSE "committing") /\ KeepsData(w)
    BY <1>15, GotoRequest
  <2>2. req[w].kind \in {"reset", "update", "verify"} /\ Shape(w)
    BY <1>15, ShapeFacts DEF Is, Shapes
  <2>3. Shape(w)'
    BY <1>15, <2>1, <2>2 DEF Shape, KeepsData, Is, At, Kinds
  <2> QED
    BY <1>1, <2>1, <2>3
<1>16. ASSUME NEW w \in Workers, At(w, "password"), Goto(w, "session")
       PROVE  Shapes'
  <2>1. OthersSame(w) /\ req'[w].step = "session" /\ KeepsData(w)
    BY <1>16, GotoRequest
  <2>2. req[w].kind = "login" /\ Shape(w)
    BY <1>16, ShapeFacts DEF Is, Shapes
  <2>3. UNCHANGED begun \/ begun <= begun'
    BY <1>0
  <2>4. req[w].login \in 1 .. begun => req[w].login \in 1 .. begun'
    BY <1>0
  <2>5. Shape(w)'
    BY <1>16, <2>1, <2>2, <2>4 DEF Shape, KeepsData, Is, At, Kinds
  <2> QED
    BY <1>1, <2>1, <2>5
<1> QED
  BY <1>2, <1>3, <1>4, <1>5, <1>6, <1>7, <1>8, <1>9, <1>10, <1>11, <1>12, <1>13, <1>14, <1>15, <1>16, Actors

\* What a step can have made of a request.
Origin(v) ==
    \/ Same(v)
    \/ req'[v].kind \in {None, "update", "verify"}
    \/ \E l \in Links : /\ ConsumeFind(v, l) /\ req'[v].step = "found" /\ req'[v].kind = "reset"
                        /\ req'[v].link = l /\ req'[v].at = 0
    \/ ConsumeMark(v) /\ KeepsData(v) /\ Is(v, "reset") /\ req'[v].step = "spent"
    \/ /\ ResetBegin(v) /\ Is(v, "reset") /\ req'[v].kind = "reset" /\ req'[v].link = req[v].link
       /\ req'[v].step = "checking" /\ req'[v].at # 0
    \/ /\ RevokeAll(v) /\ Is(v, "reset") /\ req'[v].kind = "reset" /\ req'[v].link = req[v].link
       /\ req'[v].step = "committing" /\ req'[v].at = req[v].at
       /\ req'[v].seen = {i \in Logins : token[i] = "live"}
    \/ /\ Is(v, "reset") /\ req'[v].kind = "reset" /\ req'[v].link = req[v].link
       /\ req'[v].at = req[v].at
       /\ req[v].step \in {"checking", "writing"} /\ req'[v].step \in {"writing", "revoking"}
    \/ /\ LoginFind(v) /\ req'[v].kind = "login" /\ req'[v].step = "password"
       /\ req'[v].login = begun + 1 /\ req'[v].at = 0
    \/ LoginCommit(v) /\ Is(v, "login") /\ KeepsData(v) /\ req'[v].step = "session"
    \/ \E i \in Logins : AuthorizeFind(v, i) /\ req'[v].kind = "authorize" /\ req'[v].login = i
    \/ \E i \in Logins : Logout(v, i) /\ req'[v].kind = "logout" /\ req'[v].login = i

\* Each request of the next state comes from one of them.
LEMMA Origins ==
    ASSUME TypeOK, Shapes, [Next]_vars, NEW v \in Workers
    PROVE  Origin(v)
<1>1. CASE UNCHANGED req
  BY <1>1 DEF Origin, Same
<1>2. ASSUME NEW w \in Workers, OthersSame(w), v # w
      PROVE  Origin(v)
  BY <1>2 DEF Origin, OthersSame
<1>3. ASSUME NEW w \in Workers, NEW l \in Links, ConsumeFind(w, l)
      PROVE  Origin(v)
  BY <1>2, <1>3, BeginActions DEF Origin
<1>4. ASSUME NEW w \in Workers, NEW o \in OTPs, VerifyFind(w, o)
      PROVE  Origin(v)
  BY <1>2, <1>4, BeginActions DEF Origin
<1>5. ASSUME NEW w \in Workers, LoginFind(w)
      PROVE  Origin(v)
  BY <1>2, <1>5, BeginActions DEF Origin
<1>6. ASSUME NEW w \in Workers, NEW i \in Logins, AuthorizeFind(w, i) \/ Logout(w, i)
      PROVE  Origin(v)
  BY <1>2, <1>6, BeginActions DEF Origin
<1>7. ASSUME NEW w \in Workers, NEW e \in BOOLEAN, NEW p \in BOOLEAN, UpdateBegin(w, e, p)
      PROVE  Origin(v)
  BY <1>2, <1>7, UpdateBegins DEF Origin
<1>8. ASSUME NEW w \in Workers, ResetBegin(w)
      PROVE  Origin(v)
  <2>1. OthersSame(w)
    BY <1>8, ResetBegins
  <2>2. ASSUME w = v PROVE Origin(v)
    <3>1. At(v, "spent") /\ Is(v, "reset") /\ ResetBegin(v)
      BY <1>8, <2>2, ShapeFacts DEF ResetBegin
    <3> QED
      BY <3>1, ResetBegins DEF Origin, Is
  <2> QED
    BY <1>2, <2>1, <2>2
<1>9. ASSUME NEW w \in Workers, RevokeAll(w)
      PROVE  Origin(v)
  <2>1. OthersSame(w)
    BY <1>9, RevokeAllRequest
  <2>2. ASSUME w = v PROVE Origin(v)
    <3>1. At(v, "revoking") /\ Is(v, "reset") /\ RevokeAll(v)
      BY <1>9, <2>2, ShapeFacts DEF RevokeAll
    <3> QED
      BY <3>1, RevokeAllRequest DEF Origin, Is
  <2> QED
    BY <1>2, <2>1, <2>2
<1>10. ASSUME NEW w \in Workers, NEW p \in Passwords, At(w, "checking"),
              req' = [req EXCEPT ![w].step = "writing", ![w].password = p]
       PROVE  Origin(v)
  <2>1. OthersSame(w) /\ req'[w].kind = req[w].kind /\ req'[w].link = req[w].link
        /\ req'[w].step = "writing" /\ req'[w].at = req[w].at
    BY <1>10, CheckRequest
  <2>2. req[w].step = "checking" /\ req[w].kind \in {"reset", "update"}
    BY <1>10, ShapeFacts DEF Is, At
  <2> QED
    BY <1>2, <2>1, <2>2 DEF Origin, Is
<1>11. ASSUME NEW w \in Workers, Finish(w)
       PROVE  Origin(v)
  BY <1>2, <1>11, FinishRequest DEF Origin
<1>12. ASSUME NEW w \in Workers, ConsumeMark(w), Is(w, "reset"), Goto(w, "spent")
       PROVE  Origin(v)
  BY <1>2, <1>12, GotoRequest DEF Origin
<1>13. ASSUME NEW w \in Workers, Is(w, "verify"), Goto(w, "writing")
       PROVE  Origin(v)
  BY <1>2, <1>13, GotoRequest DEF Origin, KeepsData, Is
<1>14. ASSUME NEW w \in Workers, At(w, "email"), Goto(w, IF Changing(w) THEN "checking" ELSE "writing")
       PROVE  Origin(v)
  <2>1. OthersSame(w) /\ KeepsData(w)
    BY <1>14, GotoRequest
  <2>2. req[w].kind = "update"
    BY <1>14, ShapeFacts DEF Is
  <2> QED
    BY <1>2, <2>1, <2>2 DEF Origin, KeepsData
<1>15. ASSUME NEW w \in Workers, At(w, "writing"), Goto(w, IF Is(w, "reset") THEN "revoking" ELSE "committing")
       PROVE  Origin(v)
  <2>1. /\ OthersSame(w) /\ KeepsData(w)
        /\ req'[w].step = (IF Is(w, "reset") THEN "revoking" ELSE "committing")
    BY <1>15, GotoRequest
  <2>2. req[w].step = "writing" /\ req[w].kind \in {"reset", "update", "verify"}
    BY <1>15, ShapeFacts DEF Is, At
  <2> QED
    BY <1>2, <2>1, <2>2 DEF Origin, KeepsData, Is
<1>16. ASSUME NEW w \in Workers, LoginCommit(w), At(w, "password"), Goto(w, "session")
       PROVE  Origin(v)
  <2>1. OthersSame(w) /\ KeepsData(w) /\ req'[w].step = "session" /\ Is(w, "login")
    BY <1>16, GotoRequest, ShapeFacts
  <2> QED
    BY <1>2, <1>16, <2>1 DEF Origin
<1> QED
  BY <1>1, <1>3, <1>4, <1>5, <1>6, <1>7, <1>8, <1>9, <1>10, <1>11, <1>12, <1>13, <1>14, <1>15, <1>16, Actors

-----------------------------------------------------------------------------
(* Types *)

\* Which actions write which variables.
LEMMA Frames ==
    ASSUME [Next]_vars
    PROVE  /\ UNCHANGED <<user, history>> \/ (\E w \in Workers : ResetCommit(w)
                 \/ (\E a \in BOOLEAN : UpdateCommit(w, a)) \/ VerifyCommit(w))
           /\ UNCHANGED link \/ (\E w \in Workers : ConsumeMark(w))
                 \/ (\E l \in Links : ForgotPassword(l)) \/ (\E l \in Links : IssueResetToken(l)) \/ OneTimeExpires
           /\ UNCHANGED otp \/ (\E w \in Workers : VerifyCommit(w))
                 \/ (\E o \in OTPs : IssueOTP(o)) \/ OneTimeExpires
           /\ UNCHANGED token \/ (\E w \in Workers : ResetCommit(w)
                 \/ LoginCommit(w) \/ (\E i \in Logins : Logout(w, i)))
           /\ UNCHANGED session \/ (\E w \in Workers : LoginSession(w)
                 \/ LogoutSession(w)) \/ (\E i \in Logins : DeleteSession(i)) \/ (\E i \in Logins : SessionExpires(i))
           /\ UNCHANGED <<resets, stale>> \/ (\E w \in Workers : ResetCommit(w))
           /\ UNCHANGED racing \/ (\E w \in Workers : ResetBegin(w) \/ LoginFind(w))
           /\ UNCHANGED afterwards \/ (\E w \in Workers : AuthorizeCommit(w))
<1>1. UNCHANGED <<user, history>> \/ (\E w \in Workers : ResetCommit(w)
      \/ (\E a \in BOOLEAN : UpdateCommit(w, a)) \/ VerifyCommit(w))
  <2>1. ASSUME NEW w \in Workers,
               \/ \E l \in Links : ConsumeFind(w, l)
               \/ ConsumeMark(w)
               \/ ResetBegin(w)
               \/ RevokeAll(w)
               \/ \E e, p \in BOOLEAN : UpdateBegin(w, e, p)
               \/ UpdateEmail(w)
               \/ WriteUser(w)
               \/ \E p \in Passwords : CheckHistory(w, p)
        PROVE  UNCHANGED <<user, history>>
    BY <2>1 DEF ConsumeFind, ConsumeMark, ResetBegin, RevokeAll, UpdateBegin, UpdateEmail, WriteUser,
       CheckHistory, Leave, userVars
  <2>2. ASSUME NEW w \in Workers,
               \/ \E o \in OTPs : VerifyFind(w, o)
               \/ VerifyMark(w)
               \/ LoginFind(w)
               \/ LoginCommit(w)
               \/ LoginSession(w)
               \/ \E i \in Logins : AuthorizeFind(w, i)
               \/ \E i \in Logins : Logout(w, i)
               \/ AuthorizeCommit(w)
               \/ LogoutSession(w)
               \/ Rollback(w)
        PROVE  UNCHANGED <<user, history>>
    BY <2>2 DEF VerifyFind, VerifyMark, LoginFind, LoginCommit, LoginSession, AuthorizeFind, Logout,
       AuthorizeCommit, LogoutSession, Rollback, Leave, userVars
  <2>3. ASSUME \/ \E l \in Links : ForgotPassword(l)
               \/ \E l \in Links : IssueResetToken(l)
               \/ \E o \in OTPs : IssueOTP(o)
               \/ OneTimeExpires
               \/ \E i \in Logins : DeleteSession(i)
               \/ \E i \in Logins : SessionExpires(i)
               \/ UNCHANGED vars
        PROVE  UNCHANGED <<user, history>>
    BY <2>3 DEF ForgotPassword, IssueResetToken, IssueOTP, OneTimeExpires, DeleteSession, SessionExpires,
       vars, userVars
  <2> QED
    BY <2>1, <2>2, <2>3 DEF Next
<1>2. UNCHANGED link \/ (\E w \in Workers : ConsumeMark(w))
      \/ (\E l \in Links : ForgotPassword(l)) \/ (\E l \in Links : IssueResetToken(l)) \/ OneTimeExpires
  <2>1. ASSUME NEW w \in Workers,
               \/ \E l \in Links : ConsumeFind(w, l)
               \/ ResetBegin(w)
               \/ RevokeAll(w)
               \/ ResetCommit(w)
               \/ \E e, p \in BOOLEAN : UpdateBegin(w, e, p)
               \/ UpdateEmail(w)
               \/ WriteUser(w)
               \/ \E p \in Passwords : CheckHistory(w, p)
               \/ \E a \in BOOLEAN : UpdateCommit(w, a)
        PROVE  UNCHANGED link
    BY <2>1 DEF ConsumeFind, ResetBegin, RevokeAll, ResetCommit, UpdateBegin, UpdateEmail, WriteUser,
       CheckHistory, UpdateCommit, Leave, oneTimeVars
  <2>2. ASSUME NEW w \in Workers,
               \/ \E o \in OTPs : VerifyFind(w, o)
               \/ VerifyMark(w)
               \/ VerifyCommit(w)
               \/ LoginFind(w)
               \/ LoginCommit(w)
               \/ LoginSession(w)
               \/ \E i \in Logins : AuthorizeFind(w, i)
               \/ \E i \in Logins : Logout(w, i)
               \/ AuthorizeCommit(w)
               \/ LogoutSession(w)
               \/ Rollback(w)
        PROVE  UNCHANGED link
    BY <2>2 DEF VerifyFind, VerifyMark, VerifyCommit, LoginFind, LoginCommit, LoginSession,
       AuthorizeFind, Logout, AuthorizeCommit, LogoutSession, Rollback, Leave, oneTimeVars
  <2>3. ASSUME \/ \E o \in OTPs : IssueOTP(o)
               \/ \E i \in Logins : DeleteSession(i)
               \/ \E i \in Logins : SessionExpires(i)
               \/ UNCHANGED vars
        PROVE  UNCHANGED link
    BY <2>3 DEF IssueOTP, DeleteSession, SessionExpires, vars, oneTimeVars
  <2> QED
    BY <2>1, <2>2, <2>3 DEF Next
<1>3. UNCHANGED otp \/ (\E w \in Workers : VerifyCommit(w))
      \/ (\E o \in OTPs : IssueOTP(o)) \/ OneTimeExpires
  <2>1. ASSUME NEW w \in Workers,
               \/ \E l \in Links : ConsumeFind(w, l)
               \/ ConsumeMark(w)
               \/ ResetBegin(w)
               \/ RevokeAll(w)
               \/ ResetCommit(w)
               \/ \E e, p \in BOOLEAN : UpdateBegin(w, e, p)
               \/ UpdateEmail(w)
               \/ WriteUser(w)
               \/ \E p \in Passwords : CheckHistory(w, p)
               \/ \E a \in BOOLEAN : UpdateCommit(w, a)
        PROVE  UNCHANGED otp
    BY <2>1 DEF ConsumeFind, ConsumeMark, ResetBegin, RevokeAll, ResetCommit, UpdateBegin, UpdateEmail,
       WriteUser, CheckHistory, UpdateCommit, Leave, oneTimeVars
  <2>2. ASSUME NEW w \in Workers,
               \/ \E o \in OTPs : VerifyFind(w, o)
               \/ VerifyMark(w)
               \/ LoginFind(w)
               \/ LoginCommit(w)
               \/ LoginSession(w)
               \/ \E i \in Logins : AuthorizeFind(w, i)
               \/ \E i \in Logins : Logout(w, i)
               \/ AuthorizeCommit(w)
               \/ LogoutSession(w)
               \/ Rollback(w)
        PROVE  UNCHANGED otp
    BY <2>2 DEF VerifyFind, VerifyMark, LoginFind, LoginCommit, LoginSession, AuthorizeFind, Logout,
       AuthorizeCommit, LogoutSession, Rollback, Leave, oneTimeVars
  <2>3. ASSUME \/ \E l \in Links : ForgotPassword(l)
               \/ \E l \in Links : IssueResetToken(l)
               \/ \E i \in Logins : DeleteSession(i)
               \/ \E i \in Logins : SessionExpires(i)
               \/ UNCHANGED vars
        PROVE  UNCHANGED otp
    BY <2>3 DEF ForgotPassword, IssueResetToken, DeleteSession, SessionExpires, vars, oneTimeVars
  <2> QED
    BY <2>1, <2>2, <2>3 DEF Next
<1>4. UNCHANGED token \/ (\E w \in Workers : ResetCommit(w)
      \/ LoginCommit(w) \/ (\E i \in Logins : Logout(w, i)))
  <2>1. ASSUME NEW w \in Workers,
               \/ \E l \in Links : ConsumeFind(w, l)
               \/ ConsumeMark(w)
               \/ ResetBegin(w)
               \/ RevokeAll(w)
               \/ \E e, p \in BOOLEAN : UpdateBegin(w, e, p)
               \/ UpdateEmail(w)
               \/ WriteUser(w)
               \/ \E p \in Passwords : CheckHistory(w, p)
               \/ \E a \in BOOLEAN : UpdateCommit(w, a)
        PROVE  UNCHANGED token
    BY <2>1 DEF ConsumeFind, ConsumeMark, ResetBegin, RevokeAll, UpdateBegin, UpdateEmail, WriteUser,
       CheckHistory, UpdateCommit, Leave, loginVars
  <2>2. ASSUME NEW w \in Workers,
               \/ \E o \in OTPs : VerifyFind(w, o)
               \/ VerifyMark(w)
               \/ VerifyCommit(w)
               \/ LoginFind(w)
               \/ LoginSession(w)
               \/ \E i \in Logins : AuthorizeFind(w, i)
               \/ AuthorizeCommit(w)
               \/ LogoutSession(w)
               \/ Rollback(w)
        PROVE  UNCHANGED token
    BY <2>2 DEF VerifyFind, VerifyMark, VerifyCommit, LoginFind, LoginSession, AuthorizeFind,
       AuthorizeCommit, LogoutSession, Rollback, Leave, loginVars
  <2>3. ASSUME \/ \E l \in Links : ForgotPassword(l)
               \/ \E l \in Links : IssueResetToken(l)
               \/ \E o \in OTPs : IssueOTP(o)
               \/ OneTimeExpires
               \/ \E i \in Logins : DeleteSession(i)
               \/ \E i \in Logins : SessionExpires(i)
               \/ UNCHANGED vars
        PROVE  UNCHANGED token
    BY <2>3 DEF ForgotPassword, IssueResetToken, IssueOTP, OneTimeExpires, DeleteSession, SessionExpires,
       vars, loginVars
  <2> QED
    BY <2>1, <2>2, <2>3 DEF Next
<1>5. UNCHANGED session \/ (\E w \in Workers : LoginSession(w)
      \/ LogoutSession(w)) \/ (\E i \in Logins : DeleteSession(i)) \/ (\E i \in Logins : SessionExpires(i))
  <2>1. ASSUME NEW w \in Workers,
               \/ \E l \in Links : ConsumeFind(w, l)
               \/ ConsumeMark(w)
               \/ ResetBegin(w)
               \/ RevokeAll(w)
               \/ ResetCommit(w)
               \/ \E e, p \in BOOLEAN : UpdateBegin(w, e, p)
               \/ UpdateEmail(w)
               \/ WriteUser(w)
               \/ \E p \in Passwords : CheckHistory(w, p)
               \/ \E a \in BOOLEAN : UpdateCommit(w, a)
        PROVE  UNCHANGED session
    BY <2>1 DEF ConsumeFind, ConsumeMark, ResetBegin, RevokeAll, ResetCommit, UpdateBegin, UpdateEmail,
       WriteUser, CheckHistory, UpdateCommit, Leave, loginVars
  <2>2. ASSUME NEW w \in Workers,
               \/ \E o \in OTPs : VerifyFind(w, o)
               \/ VerifyMark(w)
               \/ VerifyCommit(w)
               \/ LoginFind(w)
               \/ LoginCommit(w)
               \/ \E i \in Logins : AuthorizeFind(w, i)
               \/ \E i \in Logins : Logout(w, i)
               \/ AuthorizeCommit(w)
               \/ Rollback(w)
        PROVE  UNCHANGED session
    BY <2>2 DEF VerifyFind, VerifyMark, VerifyCommit, LoginFind, LoginCommit, AuthorizeFind, Logout,
       AuthorizeCommit, Rollback, Leave, loginVars
  <2>3. ASSUME \/ \E l \in Links : ForgotPassword(l)
               \/ \E l \in Links : IssueResetToken(l)
               \/ \E o \in OTPs : IssueOTP(o)
               \/ OneTimeExpires
               \/ UNCHANGED vars
        PROVE  UNCHANGED session
    BY <2>3 DEF ForgotPassword, IssueResetToken, IssueOTP, OneTimeExpires, vars, loginVars
  <2> QED
    BY <2>1, <2>2, <2>3 DEF Next
<1>6. UNCHANGED <<resets, stale>> \/ (\E w \in Workers : ResetCommit(w))
  <2>1. ASSUME NEW w \in Workers,
               \/ \E l \in Links : ConsumeFind(w, l)
               \/ ConsumeMark(w)
               \/ ResetBegin(w)
               \/ RevokeAll(w)
               \/ \E e, p \in BOOLEAN : UpdateBegin(w, e, p)
               \/ UpdateEmail(w)
               \/ WriteUser(w)
               \/ \E p \in Passwords : CheckHistory(w, p)
               \/ \E a \in BOOLEAN : UpdateCommit(w, a)
        PROVE  UNCHANGED <<resets, stale>>
    BY <2>1 DEF ConsumeFind, ConsumeMark, ResetBegin, RevokeAll, UpdateBegin, UpdateEmail, WriteUser,
       CheckHistory, UpdateCommit, Leave, traces
  <2>2. ASSUME NEW w \in Workers,
               \/ \E o \in OTPs : VerifyFind(w, o)
               \/ VerifyMark(w)
               \/ VerifyCommit(w)
               \/ LoginFind(w)
               \/ LoginCommit(w)
               \/ LoginSession(w)
               \/ \E i \in Logins : AuthorizeFind(w, i)
               \/ \E i \in Logins : Logout(w, i)
               \/ AuthorizeCommit(w)
               \/ LogoutSession(w)
               \/ Rollback(w)
        PROVE  UNCHANGED <<resets, stale>>
    BY <2>2 DEF VerifyFind, VerifyMark, VerifyCommit, LoginFind, LoginCommit, LoginSession,
       AuthorizeFind, Logout, AuthorizeCommit, LogoutSession, Rollback, Leave, traces
  <2>3. ASSUME \/ \E l \in Links : ForgotPassword(l)
               \/ \E l \in Links : IssueResetToken(l)
               \/ \E o \in OTPs : IssueOTP(o)
               \/ OneTimeExpires
               \/ \E i \in Logins : DeleteSession(i)
               \/ \E i \in Logins : SessionExpires(i)
               \/ UNCHANGED vars
        PROVE  UNCHANGED <<resets, stale>>
    BY <2>3 DEF ForgotPassword, IssueResetToken, IssueOTP, OneTimeExpires, DeleteSession, SessionExpires,
       vars, traces
  <2> QED
    BY <2>1, <2>2, <2>3 DEF Next
<1>7. UNCHANGED racing \/ (\E w \in Workers : ResetBegin(w) \/ LoginFind(w))
  <2>1. ASSUME NEW w \in Workers,
               \/ \E l \in Links : ConsumeFind(w, l)
               \/ ConsumeMark(w)
               \/ RevokeAll(w)
               \/ ResetCommit(w)
               \/ \E e, p \in BOOLEAN : UpdateBegin(w, e, p)
               \/ UpdateEmail(w)
               \/ WriteUser(w)
               \/ \E p \in Passwords : CheckHistory(w, p)
               \/ \E a \in BOOLEAN : UpdateCommit(w, a)
        PROVE  UNCHANGED racing
    BY <2>1 DEF ConsumeFind, ConsumeMark, RevokeAll, ResetCommit, UpdateBegin, UpdateEmail, WriteUser,
       CheckHistory, UpdateCommit, Leave, traces
  <2>2. ASSUME NEW w \in Workers,
               \/ \E o \in OTPs : VerifyFind(w, o)
               \/ VerifyMark(w)
               \/ VerifyCommit(w)
               \/ LoginCommit(w)
               \/ LoginSession(w)
               \/ \E i \in Logins : AuthorizeFind(w, i)
               \/ \E i \in Logins : Logout(w, i)
               \/ AuthorizeCommit(w)
               \/ LogoutSession(w)
               \/ Rollback(w)
        PROVE  UNCHANGED racing
    BY <2>2 DEF VerifyFind, VerifyMark, VerifyCommit, LoginCommit, LoginSession, AuthorizeFind, Logout,
       AuthorizeCommit, LogoutSession, Rollback, Leave, traces
  <2>3. ASSUME \/ \E l \in Links : ForgotPassword(l)
               \/ \E l \in Links : IssueResetToken(l)
               \/ \E o \in OTPs : IssueOTP(o)
               \/ OneTimeExpires
               \/ \E i \in Logins : DeleteSession(i)
               \/ \E i \in Logins : SessionExpires(i)
               \/ UNCHANGED vars
        PROVE  UNCHANGED racing
    BY <2>3 DEF ForgotPassword, IssueResetToken, IssueOTP, OneTimeExpires, DeleteSession, SessionExpires,
       vars, traces
  <2> QED
    BY <2>1, <2>2, <2>3 DEF Next
<1>8. UNCHANGED afterwards \/ (\E w \in Workers : AuthorizeCommit(w))
  <2>1. ASSUME NEW w \in Workers,
               \/ \E l \in Links : ConsumeFind(w, l)
               \/ ConsumeMark(w)
               \/ ResetBegin(w)
               \/ RevokeAll(w)
               \/ ResetCommit(w)
               \/ \E e, p \in BOOLEAN : UpdateBegin(w, e, p)
               \/ UpdateEmail(w)
               \/ WriteUser(w)
               \/ \E p \in Passwords : CheckHistory(w, p)
               \/ \E a \in BOOLEAN : UpdateCommit(w, a)
        PROVE  UNCHANGED afterwards
    BY <2>1 DEF ConsumeFind, ConsumeMark, ResetBegin, RevokeAll, ResetCommit, UpdateBegin, UpdateEmail,
       WriteUser, CheckHistory, UpdateCommit, Leave, traces
  <2>2. ASSUME NEW w \in Workers,
               \/ \E o \in OTPs : VerifyFind(w, o)
               \/ VerifyMark(w)
               \/ VerifyCommit(w)
               \/ LoginFind(w)
               \/ LoginCommit(w)
               \/ LoginSession(w)
               \/ \E i \in Logins : AuthorizeFind(w, i)
               \/ \E i \in Logins : Logout(w, i)
               \/ LogoutSession(w)
               \/ Rollback(w)
        PROVE  UNCHANGED afterwards
    BY <2>2 DEF VerifyFind, VerifyMark, VerifyCommit, LoginFind, LoginCommit, LoginSession,
       AuthorizeFind, Logout, LogoutSession, Rollback, Leave, traces
  <2>3. ASSUME \/ \E l \in Links : ForgotPassword(l)
               \/ \E l \in Links : IssueResetToken(l)
               \/ \E o \in OTPs : IssueOTP(o)
               \/ OneTimeExpires
               \/ \E i \in Logins : DeleteSession(i)
               \/ \E i \in Logins : SessionExpires(i)
               \/ UNCHANGED vars
        PROVE  UNCHANGED afterwards
    BY <2>3 DEF ForgotPassword, IssueResetToken, IssueOTP, OneTimeExpires, DeleteSession, SessionExpires,
       vars, traces
  <2> QED
    BY <2>1, <2>2, <2>3 DEF Next
<1> QED
  BY <1>1, <1>2, <1>3, <1>4, <1>5, <1>6, <1>7, <1>8

-----------------------------------------------------------------------------
(* The history *)

LEMMA ChangersFinite ==
    IsFiniteSet(Changers) /\ Cardinality(Changers) \in Nat
<1>1. Changers \subseteq Workers /\ IsFiniteSet(Workers)
  BY ConstantsAssumption DEF Changers
<1> QED
  BY <1>1, FS_Subset, FS_CardinalityType

\* A request that changes the password was begun by a step of its own.
LEMMA ChangersGrow ==
    ASSUME TypeOK, Shapes, [Next]_vars
    PROVE  \/ Changers' \subseteq Changers /\ changes' = changes
           \/ \E w \in Workers : Changers' \subseteq Changers \cup {w} /\ changes' = changes + 1
<1>1. ASSUME NEW w \in Workers, OthersSame(w)
      PROVE  /\ Changers' \subseteq Changers \cup {w}
             /\ req'[w].at = req[w].at \/ req'[w].at = 0 => Changers' \subseteq Changers
  BY <1>1 DEF OthersSame, Same, Changers, Changing
<1>2. CASE UNCHANGED req /\ UNCHANGED changes
  BY <1>2 DEF Changers, Changing
<1>3. ASSUME NEW w \in Workers,
             \/ \E l \in Links : ConsumeFind(w, l)
             \/ \E o \in OTPs : VerifyFind(w, o)
             \/ \E i \in Logins : AuthorizeFind(w, i) \/ Logout(w, i)
             \/ LoginFind(w)
      PROVE  Changers' \subseteq Changers /\ changes' = changes
  <2>1. UNCHANGED changes
    BY <1>3 DEF ConsumeFind, VerifyFind, AuthorizeFind, Logout, LoginFind, userVars
  <2>2. OthersSame(w) /\ req'[w].at = 0
    BY <1>3, BeginActions
  <2> QED
    BY <1>1, <2>1, <2>2
<1>4. ASSUME NEW w \in Workers, NEW e \in BOOLEAN, NEW p \in BOOLEAN, UpdateBegin(w, e, p)
      PROVE  \/ Changers' \subseteq Changers /\ changes' = changes
             \/ Changers' \subseteq Changers \cup {w} /\ changes' = changes + 1
  BY <1>1, <1>4, UpdateBegins
<1>5. ASSUME NEW w \in Workers, ResetBegin(w)
      PROVE  Changers' \subseteq Changers \cup {w} /\ changes' = changes + 1
  BY <1>1, <1>5, ResetBegins
<1>6. ASSUME NEW w \in Workers, RevokeAll(w)
      PROVE  Changers' \subseteq Changers /\ changes' = changes
  BY <1>1, <1>6, RevokeAllRequest DEF RevokeAll, userVars
<1>7. ASSUME NEW w \in Workers, UNCHANGED changes,
             \/ Finish(w)
             \/ \E p \in Passwords : req' = [req EXCEPT ![w].step = "writing", ![w].password = p]
      PROVE  Changers' \subseteq Changers /\ changes' = changes
  BY <1>1, <1>7, FinishRequest, CheckRequest
<1>8. ASSUME NEW w \in Workers, UNCHANGED changes,
             NEW s \in {"spent", "checking", "writing", "revoking", "committing", "session"}, Goto(w, s)
      PROVE  Changers' \subseteq Changers /\ changes' = changes
  BY <1>1, <1>8, GotoRequest DEF KeepsData
<1>9. ASSUME NEW w \in Workers
      PROVE  /\ (IF Changing(w) THEN "checking" ELSE "writing")
                  \in {"spent", "checking", "writing", "revoking", "committing", "session"}
             /\ (IF Is(w, "reset") THEN "revoking" ELSE "committing")
                  \in {"spent", "checking", "writing", "revoking", "committing", "session"}
  OBVIOUS
<1> QED
  BY <1>2, <1>3, <1>4, <1>5, <1>6, <1>7, <1>8, <1>9, Actors

Entry == [password : Passwords, at : 1 .. MaxChanges, raced : BOOLEAN]

\* Who commits a new password records it, and is done.
LEMMA Commits ==
    ASSUME TypeOK, Shapes, NEW w \in Workers, At(w, "committing"), Is(w, "reset") \/ Is(w, "update"),
           history' = Recorded(w), Finish(w)
    PROVE  \/ ~Changing(w) /\ history' = history /\ Is(w, "update")
           \/ /\ Changing(w) /\ req[w].password \in Passwords
              /\ history' \in Seq(Entry) /\ Len(history') = Len(history) + 1
              /\ \A i \in 1 .. Len(history) : history'[i] = history[i]
              /\ history'[Len(history) + 1].password = req[w].password
              /\ Changers' \subseteq Changers \ {w}
<1>1. Shape(w)
  BY DEF Shapes
<1>2. CASE ~Changing(w)
  BY <1>1, <1>2 DEF Recorded, Shape, Is, At, Changing
<1>3. CASE Changing(w)
  <2> DEFINE x == [password |-> req[w].password, at |-> req[w].at, raced |-> req[w].raced]
  <2>1. req[w].password \in Passwords
    BY <1>1, <1>3 DEF Shape, Is, At, Changing
  <2>2. req[w].at \in 1 .. MaxChanges /\ req[w].raced \in BOOLEAN
    BY <1>3, RequestFields, ConstantsAssumption DEF Changing
  <2>3. x \in Entry /\ x.password = req[w].password
    BY <2>1, <2>2 DEF Entry
  <2>4. history' = Append(history, x)
    BY <1>3 DEF Recorded
  <2>5. history \in Seq(Entry)
    BY DEF TypeOK, Entry
  <2> HIDE DEF x
  <2>6. /\ history' \in Seq(Entry) /\ Len(history') = Len(history) + 1
        /\ \A i \in 1 .. Len(history) : history'[i] = history[i]
        /\ history'[Len(history) + 1] = x
    BY <2>3, <2>4, <2>5, AppendProperties
  <2>7. Changers' \subseteq Changers \ {w}
    BY FinishRequest DEF OthersSame, Same, Changers, Changing
  <2> QED
    BY <1>3, <2>1, <2>3, <2>6, <2>7
<1> QED
  BY <1>2, <1>3

\* The row of the user and the history change together.
LEMMA UserSteps ==
    ASSUME TypeOK, Shapes, [Next]_vars
    PROVE  \/ UNCHANGED <<user, history>>
           \/ \E w \in Workers :
                /\ At(w, "committing") /\ Finish(w) /\ UNCHANGED <<history, changes>>
                /\ user'.password = user.password
                /\ user' \in [password : Passwords, active : BOOLEAN, verified : BOOLEAN]
           \/ \E w \in Workers :
                /\ Changing(w) /\ At(w, "committing") /\ Finish(w) /\ UNCHANGED changes
                /\ history' \in Seq(Entry) /\ Len(history') = Len(history) + 1
                /\ \A i \in 1 .. Len(history) : history'[i] = history[i]
                /\ history'[Len(history) + 1].password = user'.password
                /\ Changers' \subseteq Changers \ {w}
                /\ user' \in [password : Passwords, active : BOOLEAN, verified : BOOLEAN]
<1>0. user \in [password : Passwords, active : BOOLEAN, verified : BOOLEAN]
  BY DEF TypeOK
<1>1. ASSUME NEW w \in Workers, ResetCommit(w)
      PROVE  /\ Changing(w) /\ At(w, "committing") /\ Finish(w) /\ UNCHANGED changes
             /\ history' \in Seq(Entry) /\ Len(history') = Len(history) + 1
             /\ \A i \in 1 .. Len(history) : history'[i] = history[i]
             /\ history'[Len(history) + 1].password = user'.password
             /\ Changers' \subseteq Changers \ {w}
             /\ user' \in [password : Passwords, active : BOOLEAN, verified : BOOLEAN]
  <2>1. /\ At(w, "committing") /\ Is(w, "reset") /\ history' = Recorded(w) /\ Finish(w) /\ UNCHANGED changes
        /\ user' = [user EXCEPT !.password = req[w].password]
    BY <1>1 DEF ResetCommit
  <2>2. ~Is(w, "update")
    BY <2>1 DEF Is
  <2>3. /\ Changing(w) /\ req[w].password \in Passwords
        /\ history' \in Seq(Entry) /\ Len(history') = Len(history) + 1
        /\ \A i \in 1 .. Len(history) : history'[i] = history[i]
        /\ history'[Len(history) + 1].password = req[w].password
        /\ Changers' \subseteq Changers \ {w}
    BY <2>1, <2>2, Commits
  <2>4. user'.password = req[w].password /\ user' \in [password : Passwords, active : BOOLEAN, verified : BOOLEAN]
    BY <1>0, <2>1, <2>3
  <2> QED
    BY <2>1, <2>3, <2>4
<1>2. ASSUME NEW w \in Workers, NEW a \in BOOLEAN, UpdateCommit(w, a), ~Changing(w)
      PROVE  /\ At(w, "committing") /\ Finish(w) /\ UNCHANGED <<history, changes>> /\ user'.password = user.password
             /\ user' \in [password : Passwords, active : BOOLEAN, verified : BOOLEAN]
  BY <1>0, <1>2 DEF UpdateCommit, Recorded
<1>3. ASSUME NEW w \in Workers, NEW a \in BOOLEAN, UpdateCommit(w, a), Changing(w)
      PROVE  /\ Changing(w) /\ At(w, "committing") /\ Finish(w) /\ UNCHANGED changes
             /\ history' \in Seq(Entry) /\ Len(history') = Len(history) + 1
             /\ \A i \in 1 .. Len(history) : history'[i] = history[i]
             /\ history'[Len(history) + 1].password = user'.password
             /\ Changers' \subseteq Changers \ {w}
             /\ user' \in [password : Passwords, active : BOOLEAN, verified : BOOLEAN]
  <2>1. /\ At(w, "committing") /\ Is(w, "update") /\ history' = Recorded(w) /\ Finish(w) /\ UNCHANGED changes
        /\ user' = [user EXCEPT !.active = a, !.password = req[w].password]
    BY <1>3 DEF UpdateCommit
  <2>3. /\ req[w].password \in Passwords
        /\ history' \in Seq(Entry) /\ Len(history') = Len(history) + 1
        /\ \A i \in 1 .. Len(history) : history'[i] = history[i]
        /\ history'[Len(history) + 1].password = req[w].password
        /\ Changers' \subseteq Changers \ {w}
    BY <1>3, <2>1, Commits
  <2>4. user'.password = req[w].password /\ user' \in [password : Passwords, active : BOOLEAN, verified : BOOLEAN]
    BY <1>0, <2>1, <2>3
  <2> QED
    BY <1>3, <2>1, <2>3, <2>4
<1>4. ASSUME NEW w \in Workers, VerifyCommit(w)
      PROVE  /\ At(w, "committing") /\ Finish(w) /\ UNCHANGED <<history, changes>> /\ user'.password = user.password
             /\ user' \in [password : Passwords, active : BOOLEAN, verified : BOOLEAN]
  BY <1>0, <1>4 DEF VerifyCommit
<1>5. UNCHANGED <<user, history>> \/ (\E w \in Workers : ResetCommit(w)
         \/ (\E a \in BOOLEAN : UpdateCommit(w, a)) \/ VerifyCommit(w))
  BY Frames
<1> QED
  BY <1>1, <1>2, <1>3, <1>4, <1>5

\* The history never outgrows the changes that have begun.
LEMMA NextChangesBounded ==
    ASSUME TypeOK, Shapes, ChangesBounded, [Next]_vars
    PROVE  ChangesBounded' /\ Len(history') <= MaxChanges /\ history' \in Seq(Entry)
<1>1. history \in Seq(Entry) /\ Len(history) \in Nat /\ changes \in Nat
  BY LenProperties DEF TypeOK, Entry
<1>2. IsFiniteSet(Changers') /\ Cardinality(Changers') \in Nat
  <2>1. Changers' \subseteq Workers /\ IsFiniteSet(Workers)
    BY ConstantsAssumption DEF Changers
  <2> QED
    BY <2>1, FS_Subset, FS_CardinalityType
<1>3. changes' \in 0 .. MaxChanges
  BY NextRequestType
<1>4. ASSUME UNCHANGED history
      PROVE  ChangesBounded' /\ Len(history') <= MaxChanges /\ history' \in Seq(Entry)
  <2>1. ASSUME Changers' \subseteq Changers, changes' = changes
        PROVE  ChangesBounded'
    <3>1. Cardinality(Changers') <= Cardinality(Changers)
      BY <2>1, ChangersFinite, FS_Subset
    <3> QED
      BY <1>1, <1>2, <1>4, <2>1, <3>1, ChangersFinite DEF ChangesBounded
  <2>2. ASSUME NEW w \in Workers, Changers' \subseteq Changers \cup {w}, changes' = changes + 1
        PROVE  ChangesBounded'
    <3>1. /\ IsFiniteSet(Changers \cup {w})
          /\ Cardinality(Changers \cup {w}) = IF w \in Changers THEN Cardinality(Changers) ELSE Cardinality(Changers) + 1
      BY ChangersFinite, FS_AddElement
    <3>2. Cardinality(Changers') <= Cardinality(Changers \cup {w})
      BY <2>2, <3>1, FS_Subset
    <3> QED
      BY <1>1, <1>2, <1>4, <2>2, <3>1, <3>2, ChangersFinite DEF ChangesBounded
  <2> QED
    BY <1>1, <1>4, <2>1, <2>2, ChangersGrow DEF TypeOK
<1>5. ASSUME NEW w \in Workers, Changing(w), UNCHANGED changes, history' \in Seq(Entry),
             Len(history') = Len(history) + 1, Changers' \subseteq Changers \ {w}
      PROVE  ChangesBounded' /\ Len(history') <= MaxChanges /\ history' \in Seq(Entry)
  <2>1. w \in Changers
    BY <1>5 DEF Changers
  <2>2. IsFiniteSet(Changers \ {w}) /\ Cardinality(Changers \ {w}) = Cardinality(Changers) - 1
    BY <2>1, ChangersFinite, FS_RemoveElement
  <2>3. Cardinality(Changers') <= Cardinality(Changers \ {w})
    BY <1>5, <2>2, FS_Subset
  <2>4. Len(history') + Cardinality(Changers') <= changes'
    BY <1>1, <1>2, <1>5, <2>2, <2>3, ChangersFinite DEF ChangesBounded
  <2> QED
    BY <1>1, <1>2, <1>3, <1>5, <2>4, ConstantsAssumption DEF ChangesBounded
<1> QED
  BY <1>4, <1>5, UserSteps

-----------------------------------------------------------------------------
(* Types *)

\* The locks are held by requests.
LEMMA NextLocksType ==
    ASSUME TypeOK, [Next]_vars
    PROVE  userLock' \in Workers \cup {None} /\ otpLock' \in [OTPs -> Workers \cup {None}]
<1>1. ASSUME NEW w \in Workers,
             \/ LoginSession(w) \/ AuthorizeCommit(w) \/ LogoutSession(w) \/ Rollback(w)
             \/ ResetCommit(w) \/ VerifyCommit(w) \/ \E a \in BOOLEAN : UpdateCommit(w, a)
      PROVE  userLock' \in Workers \cup {None} /\ otpLock' \in [OTPs -> Workers \cup {None}]
  <2>1. Finish(w)
    BY <1>1 DEF LoginSession, AuthorizeCommit, LogoutSession, Rollback, ResetCommit, VerifyCommit,
       UpdateCommit, Leave
  <2> QED
    BY <2>1, FinishRequest
<1>2. ASSUME NEW w \in Workers, UpdateEmail(w) \/ WriteUser(w) \/ VerifyMark(w)
      PROVE  userLock' \in Workers \cup {None} /\ otpLock' \in [OTPs -> Workers \cup {None}]
  <2>1. CASE UpdateEmail(w) \/ WriteUser(w)
    BY <2>1 DEF UpdateEmail, WriteUser, oneTimeVars, TypeOK
  <2>2. CASE VerifyMark(w)
    <3>1. otpLock' = [otpLock EXCEPT ![req[w].otp] = w] /\ UNCHANGED userLock
      BY <2>2 DEF VerifyMark, userVars
    <3> QED
      BY <3>1 DEF TypeOK
  <2> QED
    BY <1>2, <2>1, <2>2
<1>3. ASSUME NEW w \in Workers, NEW p \in Passwords, CheckHistory(w, p)
      PROVE  userLock' \in Workers \cup {None} /\ otpLock' \in [OTPs -> Workers \cup {None}]
  <2>1. Finish(w) \/ UNCHANGED <<userLock, otpLock>>
    BY <1>3 DEF CheckHistory, Leave, userVars, oneTimeVars
  <2> QED
    BY <2>1, FinishRequest DEF TypeOK
<1>4. ASSUME NEW w \in Workers,
             \/ \E l \in Links : ConsumeFind(w, l)
             \/ ConsumeMark(w) \/ ResetBegin(w) \/ RevokeAll(w)
             \/ \E e, p \in BOOLEAN : UpdateBegin(w, e, p)
             \/ \E o \in OTPs : VerifyFind(w, o)
             \/ LoginFind(w) \/ LoginCommit(w)
             \/ \E i \in Logins : AuthorizeFind(w, i) \/ Logout(w, i)
      PROVE  UNCHANGED <<userLock, otpLock>>
  BY <1>4 DEF ConsumeFind, ConsumeMark, ResetBegin, RevokeAll, UpdateBegin, VerifyFind, LoginFind,
     LoginCommit, AuthorizeFind, Logout, userVars, oneTimeVars
<1>5. ASSUME \/ \E l \in Links : ForgotPassword(l) \/ IssueResetToken(l)
             \/ \E o \in OTPs : IssueOTP(o)
             \/ OneTimeExpires
             \/ \E i \in Logins : DeleteSession(i) \/ SessionExpires(i)
             \/ UNCHANGED vars
      PROVE  UNCHANGED <<userLock, otpLock>>
  BY <1>5 DEF ForgotPassword, IssueResetToken, IssueOTP, OneTimeExpires, DeleteSession, SessionExpires,
     vars, userVars, oneTimeVars
<1>6. UNCHANGED <<userLock, otpLock>> =>
        userLock' \in Workers \cup {None} /\ otpLock' \in [OTPs -> Workers \cup {None}]
  BY DEF TypeOK
<1> QED
  BY <1>1, <1>2, <1>3, <1>4, <1>5, <1>6 DEF Next

\* A one-time token that is used stays used.
LEMMA NextOneTime ==
    ASSUME TypeOK, Shapes, [Next]_vars
    PROVE  /\ link' \in [Links -> Statuses] /\ otp' \in [OTPs -> Statuses]
           /\ \A l \in Links : link[l] = "used" => link'[l] = "used"
           /\ \A o \in OTPs : otp[o] = "used" => otp'[o] = "used"
           /\ \A w \in Workers : VerifyCommit(w) => \E o \in OTPs : otp'[o] = "used"
<1>0. link \in [Links -> Statuses] /\ otp \in [OTPs -> Statuses]
  BY DEF TypeOK
<1>1. ASSUME NEW w \in Workers, ConsumeMark(w)
      PROVE  link' \in [Links -> Statuses] /\ \A l \in Links : link[l] = "used" => link'[l] = "used"
  BY <1>0, <1>1 DEF ConsumeMark, Statuses
<1>2. ASSUME NEW l \in Links, ForgotPassword(l) \/ IssueResetToken(l)
      PROVE  link' \in [Links -> Statuses] /\ \A k \in Links : link[k] = "used" => link'[k] = "used"
  BY <1>0, <1>2 DEF ForgotPassword, IssueResetToken, Statuses
<1>3. ASSUME OneTimeExpires
      PROVE  /\ link' \in [Links -> Statuses] /\ otp' \in [OTPs -> Statuses]
             /\ \A l \in Links : link[l] = "used" => link'[l] = "used"
             /\ \A o \in OTPs : otp[o] = "used" => otp'[o] = "used"
  BY <1>0, <1>3 DEF OneTimeExpires, Statuses
<1>4. ASSUME NEW o \in OTPs, IssueOTP(o)
      PROVE  otp' \in [OTPs -> Statuses] /\ \A p \in OTPs : otp[p] = "used" => otp'[p] = "used"
  BY <1>0, <1>4 DEF IssueOTP, Statuses
<1>5. ASSUME NEW w \in Workers, VerifyCommit(w)
      PROVE  /\ otp' \in [OTPs -> Statuses] /\ \A p \in OTPs : otp[p] = "used" => otp'[p] = "used"
             /\ \E o \in OTPs : otp'[o] = "used"
  <2>1. otp' = [otp EXCEPT ![req[w].otp] = "used"] /\ Is(w, "verify")
    BY <1>5 DEF VerifyCommit
  <2>2. req[w].otp \in OTPs
    BY <2>1 DEF Shapes, Shape
  <2> QED
    BY <1>0, <2>1, <2>2 DEF Statuses
<1>6. link' \in [Links -> Statuses] /\ \A l \in Links : link[l] = "used" => link'[l] = "used"
  BY <1>0, <1>1, <1>2, <1>3, Frames
<1>7. otp' \in [OTPs -> Statuses] /\ \A o \in OTPs : otp[o] = "used" => otp'[o] = "used"
  BY <1>0, <1>3, <1>4, <1>5, Frames
<1> QED
  BY <1>5, <1>6, <1>7

\* A token or a session, once there, leaves its trace.
LEMMA NextTokensType ==
    ASSUME TypeOK, Shapes, [Next]_vars
    PROVE  /\ token' \in [Logins -> {"none", "live", "revoked"}]
           /\ session' \in [Logins -> {"none", "live", "ended"}]
           /\ \A i \in Logins : token[i] # "none" => token'[i] # "none"
           /\ \A i \in Logins : session[i] # "none" => session'[i] # "none"
           /\ \A i \in Logins : session[i] = "ended" =>
                session'[i] = "ended" \/ \E w \in Workers : LoginSession(w) /\ Is(w, "login") /\ req[w].login = i
<1>0. token \in [Logins -> {"none", "live", "revoked"}] /\ session \in [Logins -> {"none", "live", "ended"}]
  BY DEF TypeOK
<1>1. ASSUME NEW w \in Workers, ResetCommit(w) \/ LoginCommit(w) \/ \E i \in Logins : Logout(w, i)
      PROVE  /\ token' \in [Logins -> {"none", "live", "revoked"}]
             /\ \A i \in Logins : token[i] # "none" => token'[i] # "none"
  BY <1>0, <1>1 DEF ResetCommit, LoginCommit, Logout
<1>2. ASSUME NEW w \in Workers, LoginSession(w)
      PROVE  /\ session' \in [Logins -> {"none", "live", "ended"}]
             /\ \A i \in Logins : session[i] # "none" => session'[i] # "none"
             /\ \A i \in Logins : session[i] = "ended" =>
                  session'[i] = "ended" \/ (LoginSession(w) /\ Is(w, "login") /\ req[w].login = i)
  <2>1. session' = [session EXCEPT ![req[w].login] = "live"] /\ At(w, "session")
    BY <1>2 DEF LoginSession
  <2>2. Is(w, "login")
    BY <2>1, ShapeFacts
  <2> QED
    BY <1>0, <1>2, <2>1, <2>2
<1>3. ASSUME NEW w \in Workers, LogoutSession(w)
      PROVE  /\ session' \in [Logins -> {"none", "live", "ended"}]
             /\ \A i \in Logins : session[i] # "none" => session'[i] # "none"
             /\ \A i \in Logins : session[i] = "ended" => session'[i] = "ended"
  BY <1>0, <1>3 DEF LogoutSession
<1>4. ASSUME NEW i \in Logins, DeleteSession(i) \/ SessionExpires(i)
      PROVE  /\ session' \in [Logins -> {"none", "live", "ended"}]
             /\ \A j \in Logins : session[j] # "none" => session'[j] # "none"
             /\ \A j \in Logins : session[j] = "ended" => session'[j] = "ended"
  BY <1>0, <1>4 DEF DeleteSession, SessionExpires
<1>5. /\ token' \in [Logins -> {"none", "live", "revoked"}]
      /\ \A i \in Logins : token[i] # "none" => token'[i] # "none"
  BY <1>0, <1>1, Frames
<1>6. /\ session' \in [Logins -> {"none", "live", "ended"}]
      /\ \A i \in Logins : session[i] # "none" => session'[i] # "none"
      /\ \A i \in Logins : session[i] = "ended" =>
           session'[i] = "ended" \/ \E w \in Workers : LoginSession(w) /\ Is(w, "login") /\ req[w].login = i
  BY <1>0, <1>2, <1>3, <1>4, Frames
<1> QED
  BY <1>5, <1>6

\* The traces keep their types.
LEMMA NextTracesType ==
    ASSUME TypeOK, Shapes, [Next]_vars
    PROVE  /\ resets' \in [Links -> Nat] /\ afterwards' \in [Logins -> Nat]
           /\ stale' \subseteq Logins /\ racing' \subseteq Logins
<1>0. /\ resets \in [Links -> Nat] /\ afterwards \in [Logins -> Nat]
      /\ stale \subseteq Logins /\ racing \subseteq Logins
      /\ begun \in 0 .. MaxLogins
  BY DEF TypeOK
<1>1. ASSUME NEW w \in Workers, ResetCommit(w)
      PROVE  resets' \in [Links -> Nat] /\ stale' \subseteq Logins
  <2>1. resets' = [resets EXCEPT ![req[w].link] = @ + 1] /\ stale' = stale \cup (1 .. begun) /\ Is(w, "reset")
    BY <1>1 DEF ResetCommit
  <2>2. req[w].link \in Links
    BY <2>1 DEF Shapes, Shape
  <2>3. 1 .. begun \subseteq Logins
    BY <1>0, ConstantsAssumption DEF Logins
  <2> QED
    BY <1>0, <2>1, <2>2, <2>3
<1>2. ASSUME NEW w \in Workers, AuthorizeCommit(w)
      PROVE  afterwards' \in [Logins -> Nat]
  <2>1. At(w, "authorizing")
    BY <1>2 DEF AuthorizeCommit
  <2>2. req[w].login \in Logins
    BY <2>1, ShapeFacts DEF Shapes, Shape
  <2>3. afterwards[req[w].login] \in Nat
    BY <1>0, <2>2
  <2> QED
    BY <1>0, <1>2, <2>2, <2>3 DEF AuthorizeCommit
<1>3. ASSUME NEW v \in Workers, At(v, "password")
      PROVE  req[v].login \in Logins
  BY <1>0, <1>3, ShapeFacts, ConstantsAssumption DEF Shapes, Shape, Logins
<1>4. SigningIn \subseteq Logins
  BY <1>3 DEF SigningIn
<1>5. ASSUME NEW w \in Workers, ResetBegin(w) \/ LoginFind(w)
      PROVE  racing' \subseteq Logins
  <2>1. LoginFind(w) => begun + 1 \in Logins
    BY BeginActions
  <2> QED
    BY <1>0, <1>4, <1>5, <2>1 DEF ResetBegin, LoginFind
<1>6. UNCHANGED <<resets, stale>> \/ \E w \in Workers : ResetCommit(w)
  BY Frames
<1>7. UNCHANGED racing \/ \E w \in Workers : ResetBegin(w) \/ LoginFind(w)
  BY Frames
<1>8. UNCHANGED afterwards \/ \E w \in Workers : AuthorizeCommit(w)
  BY Frames
<1> QED
  BY <1>0, <1>1, <1>2, <1>5, <1>6, <1>7, <1>8

\* Every step keeps the types.
LEMMA NextType ==
    ASSUME TypeOK, Shapes, ChangesBounded, [Next]_vars
    PROVE  TypeOK'
<1>1. user' \in [password : Passwords, active : BOOLEAN, verified : BOOLEAN]
  BY UserSteps DEF TypeOK
<1>2. history' \in Seq(Entry) /\ Len(history') <= MaxChanges
  BY NextChangesBounded
<1>3. req' \in [Workers -> Request] /\ changes' \in 0 .. MaxChanges
  BY NextRequestType
<1>4. begun' \in 0 .. MaxLogins
  BY BegunGrows
<1>5. userLock' \in Workers \cup {None} /\ otpLock' \in [OTPs -> Workers \cup {None}]
  BY NextLocksType
<1>6. link' \in [Links -> Statuses] /\ otp' \in [OTPs -> Statuses]
  BY NextOneTime
<1>7. token' \in [Logins -> {"none", "live", "revoked"}] /\ session' \in [Logins -> {"none", "live", "ended"}]
  BY NextTokensType
<1>8. /\ resets' \in [Links -> Nat] /\ afterwards' \in [Logins -> Nat]
      /\ stale' \subseteq Logins /\ racing' \subseteq Logins
  BY NextTracesType
<1> QED
  BY <1>1, <1>2, <1>3, <1>4, <1>5, <1>6, <1>7, <1>8 DEF TypeOK, Entry

-----------------------------------------------------------------------------
(* One-time tokens and the password *)

\* A link is marked before its reset goes on.
LEMMA NextMarked ==
    ASSUME TypeOK, Shapes, MarkedBeforehand, [Next]_vars
    PROVE  MarkedBeforehand'
<1> SUFFICES ASSUME NEW v \in Workers, req'[v].kind = "reset", req'[v].step # "found"
             PROVE  link'[req'[v].link] = "used"
  BY DEF MarkedBeforehand, Is, At
<1>0. Shape(v) /\ Origin(v)
  BY Origins DEF Shapes
<1>1. ASSUME req[v].kind = "reset", req[v].step # "found", req'[v].link = req[v].link
      PROVE  link'[req'[v].link] = "used"
  <2>1. req[v].link \in Links /\ link[req[v].link] = "used"
    BY <1>0, <1>1 DEF Shape, MarkedBeforehand, Is, At
  <2> QED
    BY <1>1, <2>1, NextOneTime
<1>2. CASE Same(v)
  BY <1>1, <1>2 DEF Same
<1>3. CASE ConsumeMark(v) /\ KeepsData(v) /\ Is(v, "reset")
  <2>1. req[v].link \in Links /\ req'[v].link = req[v].link
    BY <1>0, <1>3 DEF Shape, KeepsData
  <2> QED
    BY <1>3, <2>1 DEF ConsumeMark, TypeOK
<1>4. CASE ResetBegin(v) /\ Is(v, "reset") /\ req'[v].link = req[v].link
  BY <1>1, <1>4 DEF ResetBegin, At, Is
<1>5. CASE RevokeAll(v) /\ Is(v, "reset") /\ req'[v].link = req[v].link
  BY <1>1, <1>5 DEF RevokeAll, At, Is
<1>6. CASE Is(v, "reset") /\ req'[v].link = req[v].link /\ req[v].step \in {"checking", "writing"}
  BY <1>1, <1>6 DEF Is
<1>7. ASSUME LoginCommit(v), Is(v, "login"), KeepsData(v)
      PROVE  FALSE
  BY <1>7 DEF Is, KeepsData
<1> QED
  BY <1>0, <1>2, <1>3, <1>4, <1>5, <1>6, <1>7, ConstantsAssumption DEF Origin, Kinds

\* A reset commits behind its mark, a verification with its code.
LEMMA NextTokens ==
    ASSUME TypeOK, Shapes, TokenInv, [Next]_vars
    PROVE  TokenInv'
<1>1. MarkedBeforehand'
  BY NextMarked DEF TokenInv
<1>2. SpentBeforeReset'
  <2> SUFFICES ASSUME NEW l \in Links, resets'[l] > 0
               PROVE  link'[l] = "used"
    BY DEF SpentBeforeReset
  <2>1. CASE UNCHANGED resets
    BY <2>1, NextOneTime DEF TokenInv, SpentBeforeReset
  <2>2. ASSUME NEW w \in Workers, ResetCommit(w)
        PROVE  link'[l] = "used"
    <3>1. /\ At(w, "committing") /\ Is(w, "reset")
          /\ resets' = [resets EXCEPT ![req[w].link] = @ + 1]
      BY <2>2 DEF ResetCommit
    <3>2. req[w].link \in Links /\ link[req[w].link] = "used"
      BY <3>1 DEF Shapes, Shape, TokenInv, MarkedBeforehand, At
    <3>3. l # req[w].link => resets'[l] = resets[l]
      BY <3>1 DEF TypeOK
    <3>4. link[l] = "used"
      BY <3>2, <3>3 DEF TokenInv, SpentBeforeReset
    <3> QED
      BY <3>4, NextOneTime
  <2> QED
    BY <2>1, <2>2, Frames
<1>3. VerifiedByCode'
  <2>1. ASSUME NEW o \in OTPs, otp[o] = "used"
        PROVE  otp'[o] = "used"
    BY <2>1, NextOneTime
  <2>2. ASSUME NEW w \in Workers, VerifyCommit(w)
        PROVE  \E o \in OTPs : otp'[o] = "used"
    BY <2>2, NextOneTime
  <2>3. ASSUME NEW w \in Workers, ResetCommit(w) \/ \E a \in BOOLEAN : UpdateCommit(w, a)
        PROVE  user'.verified = user.verified
    BY <2>3 DEF ResetCommit, UpdateCommit, TypeOK
  <2>4. user'.verified = user.verified \/ \E w \in Workers : VerifyCommit(w)
    BY <2>3, Frames
  <2> QED
    BY <2>1, <2>2, <2>4 DEF VerifiedByCode, TokenInv
<1> QED
  BY <1>1, <1>2, <1>3 DEF TokenInv

\* A password comes into force together with its entry.
LEMMA NextRecorded ==
    ASSUME TypeOK, Shapes, ChangesBounded, CurrentRecorded, [Next]_vars
    PROVE  CurrentRecorded'
<1> SUFFICES ASSUME user'.password # Initial
             PROVE  \E i \in DOMAIN history' : history'[i].password = user'.password
  BY DEF CurrentRecorded
<1>1. /\ history \in Seq(Entry) /\ Len(history) \in Nat /\ DOMAIN history = 1 .. Len(history)
      /\ history' \in Seq(Entry) /\ DOMAIN history' = 1 .. Len(history')
  BY NextChangesBounded, LenProperties DEF TypeOK, Entry
<1>2. ASSUME UNCHANGED history, user'.password = user.password
      PROVE  \E i \in DOMAIN history' : history'[i].password = user'.password
  BY <1>2 DEF CurrentRecorded
<1>3. ASSUME Len(history') = Len(history) + 1, history'[Len(history) + 1].password = user'.password
      PROVE  \E i \in DOMAIN history' : history'[i].password = user'.password
  BY <1>1, <1>3
<1> QED
  BY <1>2, <1>3, UserSteps

-----------------------------------------------------------------------------
(* Logins and sessions *)

\* A login under way goes on, or has just begun.
LEMMA LoginOrigins ==
    ASSUME TypeOK, Shapes, [Next]_vars, NEW v \in Workers, req'[v].kind = "login"
    PROVE  \/ /\ Is(v, "login") /\ req'[v].login = req[v].login
              /\ \/ Same(v)
                 \/ LoginCommit(v) /\ req'[v].step = "session"
           \/ LoginFind(v) /\ req'[v].login = begun + 1 /\ req'[v].step = "password"
BY Origins, ConstantsAssumption DEF Origin, Same, KeepsData, Is, Kinds

\* Where a token and a session come from.
LEMMA Beginnings ==
    ASSUME TypeOK, Shapes, [Next]_vars, NEW i \in Logins
    PROVE  /\ session[i] = "none" /\ session'[i] # "none" =>
                \E w \in Workers : LoginSession(w) /\ At(w, "session") /\ Is(w, "login") /\ req[w].login = i
           /\ token[i] # "live" /\ token'[i] = "live" =>
                \E w \in Workers : LoginCommit(w) /\ At(w, "password") /\ Is(w, "login") /\ req[w].login = i
<1>0. token \in [Logins -> {"none", "live", "revoked"}] /\ session \in [Logins -> {"none", "live", "ended"}]
  BY DEF TypeOK
<1>1. ASSUME NEW w \in Workers, LoginSession(w), session'[i] # session[i]
      PROVE  At(w, "session") /\ Is(w, "login") /\ req[w].login = i
  BY <1>0, <1>1, ShapeFacts DEF LoginSession
<1>2. ASSUME NEW w \in Workers, LogoutSession(w), session[i] = "none"
      PROVE  session'[i] = "none"
  BY <1>0, <1>2 DEF LogoutSession
<1>3. ASSUME NEW j \in Logins, DeleteSession(j) \/ SessionExpires(j), session[i] = "none"
      PROVE  session'[i] = "none"
  BY <1>0, <1>3 DEF DeleteSession, SessionExpires
<1>4. ASSUME NEW w \in Workers, LoginCommit(w), token'[i] # token[i]
      PROVE  At(w, "password") /\ Is(w, "login") /\ req[w].login = i
  BY <1>0, <1>4, ShapeFacts DEF LoginCommit
<1>5. ASSUME NEW w \in Workers, ResetCommit(w), token'[i] = "live"
      PROVE  token[i] = "live"
  BY <1>0, <1>5 DEF ResetCommit
<1>6. ASSUME NEW w \in Workers, NEW j \in Logins, Logout(w, j), token'[i] = "live"
      PROVE  token[i] = "live"
  BY <1>0, <1>6 DEF Logout
<1>7. UNCHANGED session \/ (\E w \in Workers : LoginSession(w) \/ LogoutSession(w))
      \/ (\E j \in Logins : DeleteSession(j)) \/ (\E j \in Logins : SessionExpires(j))
  BY Frames
<1>8. UNCHANGED token \/ (\E w \in Workers : ResetCommit(w) \/ LoginCommit(w) \/ (\E j \in Logins : Logout(w, j)))
  BY Frames
<1> QED
  BY <1>1, <1>2, <1>3, <1>4, <1>5, <1>6, <1>7, <1>8

\* Logins stay apart.
LEMMA NextLoginsApart ==
    ASSUME TypeOK, Shapes, LoginsApart, BegunOnly, SessionsOfLogins, [Next]_vars
    PROVE  LoginsApart'
<1> SUFFICES ASSUME NEW v \in Workers, req'[v].kind = "login"
             PROVE  /\ session'[req'[v].login] = "none"
                    /\ req'[v].step = "session" => token'[req'[v].login] # "none"
                    /\ \A u \in Workers : req'[u].kind = "login" /\ u # v => req'[u].login # req'[v].login
  BY DEF LoginsApart, Is, At
<1>0. begun \in Nat /\ begun <= MaxLogins
  BY ConstantsAssumption DEF TypeOK
<1>1. ASSUME NEW u \in Workers, Is(u, "login")
      PROVE  req[u].login \in Logins /\ req[u].login <= begun
  BY <1>0, <1>1, ConstantsAssumption DEF Shapes, Shape, Logins
<1>2. ASSUME NEW u \in Workers, NEW w \in Workers, LoginFind(u), LoginFind(w), u # w
      PROVE  FALSE
  <2>1. req'[u].step = "password" /\ OthersSame(w)
    BY <1>2, BeginActions
  <2>2. req[u].step = "idle" /\ req'[u].step = req[u].step
    BY <1>2, <2>1 DEF LoginFind, At, OthersSame, Same
  <2> QED
    BY <2>1, <2>2
<1>3. ASSUME NEW u \in Workers, req'[u].kind = "login", u # v
      PROVE  req'[u].login # req'[v].login
  <2>1. CASE Is(u, "login") /\ req'[u].login = req[u].login /\ Is(v, "login") /\ req'[v].login = req[v].login
    BY <1>3, <2>1 DEF LoginsApart
  <2>2. CASE Is(u, "login") /\ req'[u].login = req[u].login /\ req'[v].login = begun + 1
    BY <1>0, <1>1, <2>2 DEF Logins
  <2>3. CASE req'[u].login = begun + 1 /\ Is(v, "login") /\ req'[v].login = req[v].login
    BY <1>0, <1>1, <2>3 DEF Logins
  <2> QED
    BY <1>2, <1>3, <2>1, <2>2, <2>3, LoginOrigins
<1>4. ASSUME LoginFind(v), req'[v].login = begun + 1, req'[v].step = "password"
      PROVE  session'[req'[v].login] = "none" /\ req'[v].step # "session"
  <2>1. begun + 1 \in Logins /\ begun + 1 > begun
    BY <1>0, <1>4, BeginActions
  <2>2. session[begun + 1] = "none" /\ session' = session
    BY <1>4, <2>1 DEF LoginFind, BegunOnly, SessionsOfLogins
  <2> QED
    BY <1>4, <2>2
<1>5. ASSUME Is(v, "login"), req'[v].login = req[v].login
      PROVE  session'[req'[v].login] = "none"
  <2>1. req[v].login \in Logins /\ session[req[v].login] = "none"
    BY <1>1, <1>5 DEF LoginsApart
  <2>2. ASSUME NEW w \in Workers, LoginSession(w), Is(w, "login"), req[w].login = req[v].login
        PROVE  FALSE
    <3>1. Finish(w)
      BY <2>2 DEF LoginSession, Leave
    <3>2. w # v
      BY <3>1, FinishRequest, ConstantsAssumption DEF Kinds
    <3> QED
      BY <1>5, <2>2, <3>2 DEF LoginsApart
  <2> QED
    BY <1>5, <2>1, <2>2, Beginnings
<1>6. ASSUME Is(v, "login"), Same(v), req'[v].step = "session"
      PROVE  token'[req'[v].login] # "none"
  <2>1. req[v].login \in Logins /\ token[req[v].login] # "none" /\ req'[v].login = req[v].login
    BY <1>1, <1>6 DEF LoginsApart, Same, At
  <2> QED
    BY <2>1, NextTokensType
<1>7. ASSUME Is(v, "login"), LoginCommit(v), req'[v].login = req[v].login
      PROVE  token'[req'[v].login] # "none"
  <2>1. req[v].login \in Logins
    BY <1>1, <1>7
  <2> QED
    BY <1>7, <2>1 DEF LoginCommit, TypeOK
<1> QED
  BY <1>3, <1>4, <1>5, <1>6, <1>7, LoginOrigins

\* Nothing is known of logins that have not begun.
LEMMA NextBegunOnly ==
    ASSUME TypeOK, Shapes, BegunOnly, SeenBegun, [Next]_vars
    PROVE  BegunOnly' /\ SeenBegun'
<1>0. begun \in Nat /\ begun' \in Nat /\ begun <= begun' /\ token \in [Logins -> {"none", "live", "revoked"}]
  BY BegunGrows DEF TypeOK
<1>1. ASSUME NEW i \in Logins, i > begun'
      PROVE  token'[i] = "none" /\ i \notin stale'
  <2>1. i \in Nat /\ i > begun /\ token[i] = "none" /\ i \notin stale
    BY <1>0, <1>1 DEF BegunOnly, Logins
  <2>2. ASSUME NEW w \in Workers, ResetCommit(w)
        PROVE  token'[i] = "none" /\ i \notin stale'
    <3>1. At(w, "committing") /\ Is(w, "reset")
      BY <2>2 DEF ResetCommit
    <3>2. i \notin req[w].seen
      BY <1>0, <2>1, <3>1 DEF SeenBegun
    <3>3. i \notin 1 .. begun
      BY <1>0, <2>1
    <3>4. token'[i] = token[i] /\ stale' = stale \cup (1 .. begun)
      BY <2>2, <3>2 DEF ResetCommit
    <3> QED
      BY <2>1, <3>3, <3>4
  <2>3. ASSUME NEW w \in Workers, LoginCommit(w)
        PROVE  token'[i] = "none"
    <3>1. req[w].login \in 1 .. begun
      BY <2>3, ShapeFacts DEF LoginCommit, Shapes, Shape
    <3>2. req[w].login # i
      BY <1>0, <2>1, <3>1
    <3> QED
      BY <1>0, <2>1, <2>3, <3>2 DEF LoginCommit
  <2>4. ASSUME NEW w \in Workers, NEW j \in Logins, Logout(w, j)
        PROVE  token'[i] = "none"
    BY <1>0, <2>1, <2>4 DEF Logout
  <2>5. UNCHANGED <<resets, stale>> \/ \E w \in Workers : ResetCommit(w)
    BY Frames
  <2>6. UNCHANGED token \/ (\E w \in Workers : ResetCommit(w) \/ LoginCommit(w) \/ (\E j \in Logins : Logout(w, j)))
    BY Frames
  <2> QED
    BY <2>1, <2>2, <2>3, <2>4, <2>5, <2>6
<1>2. ASSUME NEW v \in Workers, req'[v].kind = "reset", req'[v].step = "committing", NEW i \in req'[v].seen
      PROVE  i <= begun'
  <2>1. CASE Same(v)
    <3>1. i \in req[v].seen /\ i <= begun
      BY <1>2, <2>1 DEF Same, SeenBegun, Is, At
    <3>2. i \in Nat
      BY <3>1, RequestFields DEF Logins
    <3> QED
      BY <1>0, <3>1, <3>2
  <2>2. CASE req'[v].seen = {k \in Logins : token[k] = "live"}
    <3>1. i \in Logins /\ i \in Nat /\ token[i] = "live"
      BY <1>2, <2>2 DEF Logins
    <3> QED
      BY <1>0, <3>1 DEF BegunOnly
  <2> QED
    BY <1>2, <2>1, <2>2, Origins, ConstantsAssumption DEF Origin, KeepsData, Is, Kinds
<1> QED
  BY <1>1, <1>2 DEF BegunOnly, SeenBegun, Is, At

\* What sessions give out, and what they come from.
LEMMA NextAuthorizations ==
    ASSUME TypeOK, Shapes, LoginsApart, AuthorizationsOK, SessionsOfLogins, [Next]_vars
    PROVE  AuthorizationsOK' /\ SessionsOfLogins'
<1>1. ASSUME NEW v \in Workers, req'[v].kind = "authorize"
      PROVE  session'[req'[v].login] # "none"
  <2>1. CASE Same(v)
    <3>1. req[v].login \in Logins /\ session[req[v].login] # "none" /\ req'[v].login = req[v].login
      BY <1>1, <2>1 DEF Same, AuthorizationsOK, Shapes, Shape, Is
    <3> QED
      BY <3>1, NextTokensType
  <2>2. ASSUME NEW i \in Logins, AuthorizeFind(v, i), req'[v].login = i
        PROVE  session'[req'[v].login] # "none"
    BY <2>2, NextTokensType DEF AuthorizeFind
  <2> QED
    BY <1>1, <2>1, <2>2, Origins, ConstantsAssumption DEF Origin, KeepsData, Is, Kinds
<1>2. ASSUME NEW i \in Logins, afterwards'[i] > 0
      PROVE  session'[i] = "ended"
  <2>1. ASSUME afterwards[i] > 0
        PROVE  session'[i] = "ended"
    <3>1. session[i] = "ended"
      BY <2>1 DEF AuthorizationsOK
    <3> QED
      BY <3>1, NextTokensType DEF LoginsApart
  <2>2. ASSUME NEW w \in Workers, AuthorizeCommit(w)
        PROVE  session'[i] = "ended"
    <3>1. Is(w, "authorize") /\ req[w].login \in Logins /\ session[req[w].login] # "none"
      BY <2>2, ShapeFacts DEF AuthorizeCommit, AuthorizationsOK, Shapes, Shape
    <3>2. session' = session
      BY <2>2 DEF AuthorizeCommit, loginVars
    <3>3. ASSUME i = req[w].login, session[i] # "live"
          PROVE  session'[i] = "ended"
      BY <3>1, <3>2, <3>3 DEF TypeOK
    <3>4. ASSUME i # req[w].login \/ session[i] = "live"
          PROVE  afterwards'[i] = afterwards[i]
      BY <2>2, <3>1, <3>4 DEF AuthorizeCommit, TypeOK
    <3> QED
      BY <1>2, <2>1, <3>3, <3>4
  <2>3. UNCHANGED afterwards \/ \E w \in Workers : AuthorizeCommit(w)
    BY Frames
  <2> QED
    BY <1>2, <2>1, <2>2, <2>3
<1>3. ASSUME NEW i \in Logins, session'[i] # "none"
      PROVE  token'[i] # "none"
  <2>1. token[i] # "none"
    <3>1. CASE session[i] # "none"
      BY <3>1 DEF SessionsOfLogins
    <3>2. CASE session[i] = "none"
      BY <1>3, <3>2, Beginnings DEF LoginsApart
    <3> QED
      BY <3>1, <3>2
  <2> QED
    BY <2>1, NextTokensType
<1> QED
  BY <1>1, <1>2, <1>3 DEF AuthorizationsOK, SessionsOfLogins, Is

LEMMA NextSession ==
    ASSUME TypeOK, Shapes, SessionInv, [Next]_vars
    PROVE  SessionInv'
BY NextLoginsApart, NextBegunOnly, NextAuthorizations DEF SessionInv

-----------------------------------------------------------------------------
(* Resets and logins *)

\* A login that has checked the password but is not committed.
LEMMA PasswordOrigins ==
    ASSUME TypeOK, Shapes, [Next]_vars, NEW v \in Workers, req'[v].step = "password"
    PROVE  \/ At(v, "password") /\ req'[v].login = req[v].login
           \/ LoginFind(v) /\ req'[v].login = begun + 1
<1>1. Shape(v)' /\ req'[v].kind \in Kinds \cup {None}
  <2>1. req'[v] \in Request
    BY NextRequestType
  <2> QED
    BY <2>1, NextShapes DEF Shapes, Request
<1>2. req'[v].kind = "login"
  BY <1>1, ConstantsAssumption DEF Shape, Is, At, Kinds
<1> QED
  BY <1>2, LoginOrigins DEF Same, At

\* A transaction of a reset goes on, or has just begun.
LEMMA ResettingOrigins ==
    ASSUME TypeOK, Shapes, [Next]_vars, NEW w \in Workers, Resetting(w)'
    PROVE  Resetting(w) \/ ResetBegin(w)
<1>1. req'[w].kind = "reset" /\ req'[w].at # 0
  BY DEF Resetting, Is, Changing
<1>2. CASE Same(w)
  BY <1>1, <1>2 DEF Same, Resetting, Is, Changing
<1>3. ASSUME ConsumeMark(w), KeepsData(w)
      PROVE  Resetting(w)
  BY <1>1, <1>3 DEF KeepsData, Resetting, Is, Changing
<1>4. ASSUME Is(w, "reset"), req'[w].at = req[w].at
      PROVE  Resetting(w)
  BY <1>1, <1>4 DEF Resetting, Changing
<1>5. ASSUME Is(w, "login"), KeepsData(w)
      PROVE  FALSE
  BY <1>1, <1>5 DEF KeepsData, Is
<1> QED
  BY <1>1, <1>2, <1>3, <1>4, <1>5, Origins, ConstantsAssumption DEF Origin, Kinds

\* Every step keeps what is known of races.
LEMMA NextRace ==
    ASSUME TypeOK, Shapes, BegunOnly, RaceInv, [Next]_vars
    PROVE  RaceInv'
<1>0. racing \subseteq racing'
  <2>1. UNCHANGED racing \/ \E w \in Workers : ResetBegin(w) \/ LoginFind(w)
    BY Frames
  <2> QED
    BY <2>1 DEF ResetBegin, LoginFind
<1>1. UNCHANGED <<resets, stale>> \/ \E w \in Workers : ResetCommit(w)
  BY Frames
<1>2. ASSUME NEW w \in Workers, ResetCommit(w)
      PROVE  /\ Resetting(w) /\ At(w, "committing") /\ Is(w, "reset")
             /\ stale' = stale \cup (1 .. begun) /\ racing' = racing
             /\ \A i \in Logins : token'[i] = "live" => token[i] = "live" /\ i \notin req[w].seen
  <2>1. At(w, "committing") /\ Is(w, "reset")
    BY <1>2 DEF ResetCommit
  <2>2. Resetting(w)
    BY <2>1 DEF Shapes, Shape, Resetting, Changing, At
  <2> QED
    BY <1>2, <2>1, <2>2 DEF ResetCommit
<1>3. ASSUME NEW w \in Workers, NEW v \in Workers, Resetting(w)', req'[v].step = "password"
      PROVE  req'[v].login \in racing'
  <2>1. ASSUME Resetting(w), At(v, "password"), req'[v].login = req[v].login
        PROVE  req'[v].login \in racing'
    BY <1>0, <2>1 DEF RaceInv, RacersKnown
  <2>2. ASSUME Resetting(w), LoginFind(v), req'[v].login = begun + 1
        PROVE  req'[v].login \in racing'
    BY <2>2 DEF LoginFind
  <2>3. ASSUME ResetBegin(w), At(v, "password"), req'[v].login = req[v].login
        PROVE  req'[v].login \in racing'
    BY <2>3 DEF ResetBegin, SigningIn
  <2>4. ASSUME ResetBegin(w), LoginFind(v)
        PROVE  FALSE
    <3>1. changes' = changes + 1 /\ changes' = changes /\ changes \in Nat
      BY <2>4, ResetBegins DEF LoginFind, userVars, TypeOK
    <3> QED
      BY <3>1
  <2> QED
    BY <1>3, <2>1, <2>2, <2>3, <2>4, PasswordOrigins, ResettingOrigins
<1>4. ASSUME NEW w \in Workers, req'[w].kind = "reset", req'[w].step = "committing",
             NEW i \in Logins, token'[i] = "live"
      PROVE  i \in req'[w].seen \/ i \in racing'
  <2>1. CASE Same(w)
    <3>1. Is(w, "reset") /\ At(w, "committing") /\ req'[w].seen = req[w].seen
      BY <1>4, <2>1 DEF Same, Is, At
    <3>2. CASE token[i] = "live"
      BY <1>0, <3>1, <3>2 DEF RaceInv, SeenOrRacing
    <3>3. CASE token[i] # "live"
      <4>1. Resetting(w)
        BY <3>1 DEF Shapes, Shape, Resetting, Changing, At
      <4>2. \E v \in Workers : At(v, "password") /\ req[v].login = i
        BY <1>4, <3>3, Beginnings
      <4> QED
        BY <1>0, <4>1, <4>2 DEF RaceInv, RacersKnown
    <3> QED
      BY <3>2, <3>3
  <2>2. CASE RevokeAll(w) /\ req'[w].seen = {k \in Logins : token[k] = "live"}
    BY <1>4, <2>2 DEF RevokeAll, loginVars
  <2> QED
    BY <1>4, <2>1, <2>2, Origins, ConstantsAssumption DEF Origin, KeepsData, Is, Kinds
<1>5. ASSUME NEW v \in Workers, req'[v].step = "password", req'[v].login \in stale'
      PROVE  req'[v].login \in racing'
  <2>1. ASSUME At(v, "password"), req'[v].login = req[v].login
        PROVE  req'[v].login \in racing'
    <3>1. CASE req[v].login \in stale
      BY <1>0, <2>1, <3>1 DEF RaceInv, StaleRace
    <3>2. CASE \E w \in Workers : ResetCommit(w)
      <4>1. \E w \in Workers : Resetting(w)
        BY <1>2, <3>2
      <4> QED
        BY <1>0, <2>1, <4>1 DEF RaceInv, RacersKnown
    <3> QED
      BY <1>1, <1>5, <2>1, <3>1, <3>2
  <2>2. ASSUME LoginFind(v), req'[v].login = begun + 1
        PROVE  FALSE
    <3>1. stale' = stale
      BY <2>2 DEF LoginFind
    <3>2. begun + 1 \in Logins
      BY <2>2, BeginActions
    <3>3. begun + 1 > begun
      BY DEF TypeOK
    <3> QED
      BY <1>5, <2>2, <3>1, <3>2, <3>3 DEF BegunOnly
  <2> QED
    BY <1>5, <2>1, <2>2, PasswordOrigins
<1>6. ASSUME NEW i \in stale', i \in Logins, token'[i] = "live"
      PROVE  i \in racing'
  <2>1. ASSUME NEW w \in Workers, ResetCommit(w)
        PROVE  i \in racing'
    BY <1>2, <1>6, <2>1 DEF RaceInv, SeenOrRacing
  <2>2. CASE UNCHANGED <<resets, stale>>
    <3>1. CASE token[i] = "live"
      BY <1>0, <1>6, <2>2, <3>1 DEF RaceInv, ResetEndsLogins
    <3>2. CASE token[i] # "live"
      <4>1. \E v \in Workers : At(v, "password") /\ req[v].login = i
        BY <1>6, <3>2, Beginnings
      <4> QED
        BY <1>0, <1>6, <2>2, <4>1 DEF RaceInv, StaleRace
    <3> QED
      BY <3>1, <3>2
  <2> QED
    BY <1>1, <2>1, <2>2
<1>7. stale' \subseteq Logins
  BY NextTracesType
<1> QED
  BY <1>3, <1>4, <1>5, <1>6, <1>7 DEF RaceInv, RacersKnown, SeenOrRacing, StaleRace, ResetEndsLogins, Is, At

-----------------------------------------------------------------------------
(* Counting *)

\* Requests are finitely many.
LEMMA HoldersFinite ==
    ASSUME NEW S, S \subseteq Workers
    PROVE  /\ IsFiniteSet(S) /\ Cardinality(S) \in Nat
           /\ Cardinality(S) <= Cardinality(Workers) /\ Cardinality(Workers) \in Nat
BY ConstantsAssumption, FS_Subset, FS_CardinalityType

\* Only ConsumeFind takes a link in hand.
LEMMA HoldersOnly ==
    ASSUME TypeOK, Shapes, [Next]_vars, NEW l \in Links, ~\E w \in Workers : ConsumeFind(w, l)
    PROVE  Holders(l)' \subseteq Holders(l)
<1> SUFFICES ASSUME NEW v \in Workers, req'[v].kind = "reset", req'[v].link = l
             PROVE  req[v].kind = "reset" /\ req[v].link = l
  BY DEF Holders, Is
<1>1. ASSUME NEW k \in Links, ConsumeFind(v, k), req'[v].link = k
      PROVE  FALSE
  BY <1>1
<1> QED
  BY <1>1, Origins, ConstantsAssumption DEF Origin, Same, KeepsData, Is, Kinds

\* A link is taken in hand before its first reset, which lets it go.
LEMMA NextLinksBounded ==
    ASSUME TypeOK, Shapes, SpentBeforeReset, LinksBounded, [Next]_vars
    PROVE  LinksBounded'
<1> SUFFICES ASSUME NEW l \in Links
             PROVE  resets'[l] + Cardinality(Holders(l)') <= Cardinality(Workers)
  BY DEF LinksBounded
<1>1. Holders(l) \subseteq Workers /\ Holders(l)' \subseteq Workers
  BY DEF Holders
<1>2. /\ resets[l] \in Nat /\ resets'[l] \in Nat
      /\ resets[l] + Cardinality(Holders(l)) <= Cardinality(Workers)
  BY NextTracesType DEF TypeOK, LinksBounded
<1>3. ASSUME NEW w \in Workers, ConsumeFind(w, l)
      PROVE  resets'[l] + Cardinality(Holders(l)') <= Cardinality(Workers)
  <2>1. link[l] = "fresh" /\ resets' = resets
    BY <1>3 DEF ConsumeFind, traces
  <2>2. resets[l] = 0
    BY <1>2, <2>1 DEF SpentBeforeReset
  <2> QED
    BY <1>1, <2>1, <2>2, HoldersFinite
<1>4. ASSUME ~\E w \in Workers : ConsumeFind(w, l)
      PROVE  resets'[l] + Cardinality(Holders(l)') <= Cardinality(Workers)
  <2>1. Holders(l)' \subseteq Holders(l)
    BY <1>4, HoldersOnly
  <2>2. Cardinality(Holders(l)') <= Cardinality(Holders(l))
    BY <1>1, <2>1, HoldersFinite, FS_Subset
  <2>3. CASE resets'[l] = resets[l]
    BY <1>1, <1>2, <2>2, <2>3, HoldersFinite
  <2>4. ASSUME NEW w \in Workers, ResetCommit(w), resets'[l] # resets[l]
        PROVE  resets'[l] + Cardinality(Holders(l)') <= Cardinality(Workers)
    <3>1. Is(w, "reset") /\ Finish(w) /\ resets' = [resets EXCEPT ![req[w].link] = @ + 1]
      BY <2>4 DEF ResetCommit
    <3>2. req[w].link = l /\ resets'[l] = resets[l] + 1
      BY <2>4, <3>1 DEF TypeOK
    <3>3. w \in Holders(l)
      BY <3>1, <3>2 DEF Holders
    <3>4. w \notin Holders(l)'
      BY <3>1, FinishRequest, ConstantsAssumption DEF Holders, Is, Kinds
    <3>5. IsFiniteSet(Holders(l) \ {w}) /\ Cardinality(Holders(l) \ {w}) = Cardinality(Holders(l)) - 1
      BY <1>1, <3>3, HoldersFinite, FS_RemoveElement
    <3>6. Holders(l)' \subseteq Holders(l) \ {w}
      BY <2>1, <3>4
    <3>7. Cardinality(Holders(l)') <= Cardinality(Holders(l) \ {w})
      BY <3>5, <3>6, FS_Subset
    <3> QED
      BY <1>1, <1>2, <3>2, <3>5, <3>7, HoldersFinite
  <2>5. UNCHANGED <<resets, stale>> \/ \E w \in Workers : ResetCommit(w)
    BY Frames
  <2> QED
    BY <2>3, <2>4, <2>5
<1> QED
  BY <1>3, <1>4

\* Only AuthorizeFind relies on a session.
LEMMA AuthorizingOnly ==
    ASSUME TypeOK, Shapes, [Next]_vars, NEW i \in Logins, ~\E w \in Workers : AuthorizeFind(w, i)
    PROVE  Authorizing(i)' \subseteq Authorizing(i)
<1> SUFFICES ASSUME NEW v \in Workers, req'[v].kind = "authorize", req'[v].login = i
             PROVE  req[v].kind = "authorize" /\ req[v].login = i
  BY DEF Authorizing, Is
<1>1. ASSUME NEW j \in Logins, AuthorizeFind(v, j), req'[v].login = j
      PROVE  FALSE
  BY <1>1
<1> QED
  BY <1>1, Origins, ConstantsAssumption DEF Origin, Same, KeepsData, Is, Kinds

\* A session is relied on before it ends, and a code is given once for that.
LEMMA NextSessionsBounded ==
    ASSUME TypeOK, Shapes, AuthorizationsOK, SessionsBounded, [Next]_vars
    PROVE  SessionsBounded'
<1> SUFFICES ASSUME NEW i \in Logins
             PROVE  afterwards'[i] + Cardinality(Authorizing(i)') <= Cardinality(Workers)
  BY DEF SessionsBounded
<1>1. Authorizing(i) \subseteq Workers /\ Authorizing(i)' \subseteq Workers
  BY DEF Authorizing
<1>2. /\ afterwards[i] \in Nat /\ afterwards'[i] \in Nat
      /\ afterwards[i] + Cardinality(Authorizing(i)) <= Cardinality(Workers)
  BY NextTracesType DEF TypeOK, SessionsBounded
<1>3. ASSUME NEW w \in Workers, AuthorizeFind(w, i)
      PROVE  afterwards'[i] + Cardinality(Authorizing(i)') <= Cardinality(Workers)
  <2>1. session[i] = "live" /\ afterwards' = afterwards
    BY <1>3 DEF AuthorizeFind, traces
  <2>2. afterwards[i] = 0
    BY <1>2, <2>1 DEF AuthorizationsOK
  <2> QED
    BY <1>1, <2>1, <2>2, HoldersFinite
<1>4. ASSUME ~\E w \in Workers : AuthorizeFind(w, i)
      PROVE  afterwards'[i] + Cardinality(Authorizing(i)') <= Cardinality(Workers)
  <2>1. Authorizing(i)' \subseteq Authorizing(i)
    BY <1>4, AuthorizingOnly
  <2>2. Cardinality(Authorizing(i)') <= Cardinality(Authorizing(i))
    BY <1>1, <2>1, HoldersFinite, FS_Subset
  <2>3. CASE afterwards'[i] = afterwards[i]
    BY <1>1, <1>2, <2>2, <2>3, HoldersFinite
  <2>4. ASSUME NEW w \in Workers, AuthorizeCommit(w), afterwards'[i] # afterwards[i]
        PROVE  afterwards'[i] + Cardinality(Authorizing(i)') <= Cardinality(Workers)
    <3>1. Is(w, "authorize") /\ req[w].login \in Logins
      BY <2>4, ShapeFacts DEF AuthorizeCommit, Shapes, Shape
    <3>2. /\ Finish(w)
          /\ afterwards' = [afterwards EXCEPT ![req[w].login] = IF session[req[w].login] = "live" THEN @ ELSE @ + 1]
      BY <2>4 DEF AuthorizeCommit, Leave
    <3>3. req[w].login = i /\ afterwards'[i] = afterwards[i] + 1
      BY <2>4, <3>1, <3>2 DEF TypeOK
    <3>4. w \in Authorizing(i)
      BY <3>1, <3>3 DEF Authorizing
    <3>5. w \notin Authorizing(i)'
      BY <3>2, FinishRequest, ConstantsAssumption DEF Authorizing, Is, Kinds
    <3>6. IsFiniteSet(Authorizing(i) \ {w}) /\ Cardinality(Authorizing(i) \ {w}) = Cardinality(Authorizing(i)) - 1
      BY <1>1, <3>4, HoldersFinite, FS_RemoveElement
    <3>7. Authorizing(i)' \subseteq Authorizing(i) \ {w}
      BY <2>1, <3>5
    <3>8. Cardinality(Authorizing(i)') <= Cardinality(Authorizing(i) \ {w})
      BY <3>6, <3>7, FS_Subset
    <3> QED
      BY <1>1, <1>2, <3>3, <3>6, <3>8, HoldersFinite
  <2>5. UNCHANGED afterwards \/ \E w \in Workers : AuthorizeCommit(w)
    BY Frames
  <2> QED
    BY <2>3, <2>4, <2>5
<1> QED
  BY <1>3, <1>4

-----------------------------------------------------------------------------
(* No password comes back *)

\* A change of the password goes on, and knows of the same overlaps.  It writes
\* what it has just compared with the history, or what it was going to write.
Carried(v) ==
    req'[v].at # 0 =>
        /\ req'[v].at = req[v].at /\ req'[v].raced = req[v].raced
        /\ req'[v].step \in {"writing", "revoking", "committing"} =>
            \/ req[v].step \in {"writing", "revoking", "committing"} /\ req'[v].password = req[v].password
            \/ \A i \in Recent(HistorySize) : history[i].password # req'[v].password

\* A change begins beside all those that are under way.
Entered(w) ==
    /\ changes' = changes + 1 /\ history' = history
    /\ req'[w].at = changes + 1 /\ req'[w].step \notin {"writing", "revoking", "committing"}
    /\ \A v \in Workers \ {w} : /\ req'[v].at = req[v].at
                                /\ Changing(v) => req'[v].raced /\ req'[w].raced

LEMMA OthersCarried ==
    ASSUME TypeOK, NEW w \in Workers, NEW r, req' = [req EXCEPT ![w] = r], Carried(w)
    PROVE  \A v \in Workers : Carried(v)
<1> SUFFICES ASSUME NEW v \in Workers, v # w PROVE Carried(v)
  OBVIOUS
<1>1. req'[v] = req[v]
  BY DEF TypeOK
<1> QED
  BY <1>1 DEF Carried

LEMMA GotoCarried ==
    ASSUME TypeOK, NEW w \in Workers, NEW s, Goto(w, s),
           req[w].at # 0 /\ s \in {"writing", "revoking", "committing"}
               => req[w].step \in {"writing", "revoking", "committing"}
    PROVE  \A v \in Workers : Carried(v)
<1> DEFINE r == [req[w] EXCEPT !.step = s]
<1>1. req' = [req EXCEPT ![w] = r]
  BY DEF Goto
<1>2. req[w] \in Request
  BY RequestFields
<1>3. r.step = s /\ r.at = req[w].at /\ r.raced = req[w].raced /\ r.password = req[w].password
  BY <1>2 DEF Request
<1> HIDE DEF r
<1>4. req'[w] = r
  BY <1>1 DEF TypeOK
<1>5. Carried(w)
  BY <1>3, <1>4 DEF Carried
<1> QED
  BY <1>1, <1>5, OthersCarried

\* A change that begins notes the others, and they note it.
LEMMA BeginEnters ==
    ASSUME TypeOK, NEW w \in Workers, NEW r \in Request, r.step \notin {"writing", "revoking", "committing"},
           Begin(w, r), history' = history
    PROVE  Entered(w)
<1>1. /\ OthersSame(w) /\ req'[w].step = r.step
      /\ req'[w].at = changes + 1 /\ changes' = changes + 1
  BY ChangeBegins
<1> DEFINE raced == \E v \in Workers : Changing(v)
           f(v) == IF v = w THEN [r EXCEPT !.at = changes + 1, !.raced = raced]
                            ELSE [req[v] EXCEPT !.raced = @ \/ Changing(v)]
<1>2. req' = [v \in Workers |-> f(v)]
  BY Zenon DEF Begin
<1>3. ASSUME NEW u \in Workers \ {w}, Changing(u)
      PROVE  req'[u].raced /\ req'[w].raced
  <2>1. raced
    BY <1>3
  <2>2. req'[u] = f(u) /\ req'[w] = f(w)
    <3> HIDE DEF f
    <3> QED
      BY <1>2
  <2>3. f(u) = [req[u] EXCEPT !.raced = @ \/ Changing(u)]
    OBVIOUS
  <2>4. f(w) = [r EXCEPT !.at = changes + 1, !.raced = raced]
    OBVIOUS
  <2> HIDE DEF f
  <2>5. req[u] \in Request
    BY RequestFields
  <2>6. req'[u].raced = (req[u].raced \/ Changing(u))
    BY <2>2, <2>3, <2>5 DEF Request
  <2>7. req'[w].raced = raced
    <3> HIDE DEF raced
    <3> QED
      BY <2>2, <2>4 DEF Request
  <2> QED
    BY <1>3, <2>1, <2>6, <2>7
<1>4. \A v \in Workers \ {w} : req'[v].at = req[v].at
  BY <1>1 DEF OthersSame, Same
<1> QED
  BY <1>1, <1>3, <1>4 DEF Entered

\* Every step lets the changes go on, or begins another.
LEMMA ChangeSteps ==
    ASSUME TypeOK, Shapes, [Next]_vars
    PROVE  \/ UNCHANGED changes /\ \A v \in Workers : Carried(v)
           \/ \E w \in Workers : Entered(w)
<1>1. ASSUME UNCHANGED req
      PROVE  \A v \in Workers : Carried(v)
  BY <1>1 DEF Carried
<1>2. ASSUME NEW w \in Workers,
             \/ \E l \in Links : ConsumeFind(w, l)
             \/ \E o \in OTPs : VerifyFind(w, o)
             \/ \E i \in Logins : AuthorizeFind(w, i) \/ Logout(w, i)
             \/ LoginFind(w)
      PROVE  UNCHANGED changes /\ \A v \in Workers : Carried(v)
  <2>1. UNCHANGED changes /\ \E r : req' = [req EXCEPT ![w] = r]
    <3>1. ASSUME NEW l \in Links, ConsumeFind(w, l)
          PROVE  UNCHANGED changes /\ \E r : req' = [req EXCEPT ![w] = r]
      BY <3>1 DEF ConsumeFind, userVars
    <3>2. ASSUME NEW o \in OTPs, VerifyFind(w, o)
          PROVE  UNCHANGED changes /\ \E r : req' = [req EXCEPT ![w] = r]
      BY <3>2 DEF VerifyFind, userVars
    <3>3. ASSUME NEW i \in Logins, AuthorizeFind(w, i) \/ Logout(w, i)
          PROVE  UNCHANGED changes /\ \E r : req' = [req EXCEPT ![w] = r]
      BY <3>3 DEF AuthorizeFind, Logout, userVars
    <3>4. ASSUME LoginFind(w)
          PROVE  UNCHANGED changes /\ \E r : req' = [req EXCEPT ![w] = r]
      BY <3>4 DEF LoginFind, userVars
    <3> QED
      BY <1>2, <3>1, <3>2, <3>3, <3>4
  <2>2. req'[w].at = 0
    BY <1>2, BeginActions
  <2> QED
    BY <2>1, <2>2, OthersCarried DEF Carried
<1>3. ASSUME NEW w \in Workers, Finish(w)
      PROVE  \A v \in Workers : Carried(v)
  <2>1. req' = [req EXCEPT ![w] = Idle] /\ req'[w].at = 0
    BY <1>3, FinishRequest DEF Finish
  <2> QED
    BY <2>1, OthersCarried DEF Carried
<1>4. ASSUME NEW w \in Workers, NEW e \in BOOLEAN, NEW p \in BOOLEAN, UpdateBegin(w, e, p)
      PROVE  \/ UNCHANGED changes /\ \A v \in Workers : Carried(v)
             \/ Entered(w)
  <2> DEFINE s == IF e THEN "email" ELSE IF p THEN "checking" ELSE "writing"
             r == [Idle EXCEPT !.kind = "update", !.step = s]
  <2>1. /\ p => Begin(w, r)
        /\ ~p => req' = [req EXCEPT ![w] = r] /\ changes' = changes
        /\ history' = history
    BY <1>4 DEF UpdateBegin
  <2>2. s \in {"email", "checking", "writing"} /\ (p => s \in {"email", "checking"})
    OBVIOUS
  <2> HIDE DEF s
  <2>3. r \in Request /\ r.step = s /\ r.at = 0
    <3>1. Idle \in Request /\ Idle.at = 0
      BY IdleRequest DEF Idle
    <3> QED
      BY <2>2, <3>1 DEF Request, Kinds
  <2> HIDE DEF r
  <2>4. CASE p
    BY <2>1, <2>2, <2>3, <2>4, BeginEnters
  <2>5. CASE ~p
    <3>1. req'[w] = r
      BY <2>1, <2>5 DEF TypeOK
    <3> QED
      BY <2>1, <2>3, <2>5, <3>1, OthersCarried DEF Carried
  <2> QED
    BY <2>4, <2>5
<1>5. ASSUME NEW w \in Workers, ResetBegin(w)
      PROVE  Entered(w)
  <2> DEFINE r == [req[w] EXCEPT !.step = "checking"]
  <2>1. req[w] \in Request
    BY RequestFields
  <2>2. r \in Request /\ r.step = "checking"
    BY <2>1 DEF Request
  <2>3. Begin(w, r) /\ history' = history
    BY <1>5 DEF ResetBegin
  <2> HIDE DEF r
  <2> QED
    BY <2>2, <2>3, BeginEnters
<1>6. ASSUME NEW w \in Workers, RevokeAll(w)
      PROVE  UNCHANGED changes /\ \A v \in Workers : Carried(v)
  <2> DEFINE a == {i \in Logins : token[i] = "live"}
             r == [req[w] EXCEPT !.step = "committing", !.seen = a]
  <2>1. req[w] \in Request /\ At(w, "revoking") /\ UNCHANGED changes
    BY <1>6, RequestFields DEF RevokeAll, userVars
  <2>2. req' = [req EXCEPT ![w] = r]
    BY <1>6 DEF RevokeAll, TypeOK
  <2> HIDE DEF a
  <2>3. r.at = req[w].at /\ r.raced = req[w].raced /\ r.password = req[w].password
    BY <2>1 DEF Request
  <2> HIDE DEF r
  <2>4. req'[w] = r
    BY <2>2 DEF TypeOK
  <2> QED
    BY <2>1, <2>2, <2>3, <2>4, OthersCarried DEF Carried, At
<1>7. ASSUME NEW w \in Workers, NEW p \in Passwords, CheckHistory(w, p)
      PROVE  UNCHANGED changes /\ \A v \in Workers : Carried(v)
  <2>1. CASE Leave(w)
    BY <1>3, <2>1 DEF Leave
  <2>2. CASE /\ \A i \in Recent(HistorySize) : history[i].password # p
             /\ req' = [req EXCEPT ![w].step = "writing", ![w].password = p]
             /\ UNCHANGED changes
    <3> DEFINE r == [req[w] EXCEPT !.step = "writing", !.password = p]
    <3>1. req[w] \in Request
      BY RequestFields
    <3>2. req' = [req EXCEPT ![w] = r]
      BY <2>2 DEF TypeOK
    <3>3. r.at = req[w].at /\ r.raced = req[w].raced /\ r.password = p
      BY <3>1 DEF Request
    <3> HIDE DEF r
    <3>4. req'[w] = r
      BY <3>2 DEF TypeOK
    <3>5. Carried(w)
      BY <2>2, <3>3, <3>4 DEF Carried
    <3> QED
      BY <2>2, <3>2, <3>5, OthersCarried
  <2> QED
    BY <1>7, <2>1, <2>2 DEF CheckHistory, userVars
<1>8. ASSUME NEW w \in Workers,
             ConsumeMark(w) \/ UpdateEmail(w) \/ WriteUser(w) \/ VerifyMark(w) \/ LoginCommit(w)
      PROVE  UNCHANGED changes /\ \A v \in Workers : Carried(v)
  <2>1. CASE ConsumeMark(w)
    BY <2>1, GotoCarried DEF ConsumeMark, userVars
  <2>2. CASE UpdateEmail(w)
    BY <2>2, GotoCarried DEF UpdateEmail, Changing
  <2>3. CASE WriteUser(w)
    BY <2>3, GotoCarried DEF WriteUser, At
  <2>4. CASE VerifyMark(w)
    <3>1. req[w].at = 0
      BY <2>4 DEF VerifyMark, Shapes, Shape
    <3> QED
      BY <2>4, <3>1, GotoCarried DEF VerifyMark, userVars
  <2>5. CASE LoginCommit(w)
    BY <2>5, GotoCarried DEF LoginCommit, userVars
  <2> QED
    BY <1>8, <2>1, <2>2, <2>3, <2>4, <2>5
<1>9. ASSUME NEW w \in Workers,
             \/ LoginSession(w) \/ AuthorizeCommit(w) \/ LogoutSession(w) \/ Rollback(w)
             \/ ResetCommit(w) \/ VerifyCommit(w) \/ \E a \in BOOLEAN : UpdateCommit(w, a)
      PROVE  UNCHANGED changes /\ \A v \in Workers : Carried(v)
  <2>1. CASE LoginSession(w) \/ AuthorizeCommit(w) \/ LogoutSession(w) \/ Rollback(w)
    <3>1. Finish(w) /\ UNCHANGED changes
      BY <2>1 DEF LoginSession, AuthorizeCommit, LogoutSession, Rollback, Leave
    <3> QED
      BY <1>3, <3>1
  <2>2. CASE ResetCommit(w) \/ VerifyCommit(w)
    <3>1. Finish(w) /\ UNCHANGED changes
      BY <2>2 DEF ResetCommit, VerifyCommit
    <3> QED
      BY <1>3, <3>1
  <2>3. ASSUME NEW a \in BOOLEAN, UpdateCommit(w, a)
        PROVE  UNCHANGED changes /\ \A v \in Workers : Carried(v)
    <3>1. Finish(w) /\ UNCHANGED changes
      BY <2>3 DEF UpdateCommit
    <3> QED
      BY <1>3, <3>1
  <2> QED
    BY <1>9, <2>1, <2>2, <2>3
<1>10. ASSUME \/ \E l \in Links : ForgotPassword(l) \/ IssueResetToken(l)
              \/ \E o \in OTPs : IssueOTP(o)
              \/ OneTimeExpires
              \/ \E i \in Logins : DeleteSession(i) \/ SessionExpires(i)
              \/ UNCHANGED vars
       PROVE  UNCHANGED <<req, changes>>
  BY <1>10 DEF ForgotPassword, IssueResetToken, IssueOTP, OneTimeExpires, DeleteSession, SessionExpires,
     vars, userVars
<1> QED
  BY <1>1, <1>2, <1>4, <1>5, <1>6, <1>7, <1>8, <1>9, <1>10 DEF Next

\* The history grows by the entry of a change that is done.
LEMMA Recording ==
    ASSUME TypeOK, Shapes, [Next]_vars, history' # history
    PROVE  \E w \in Workers :
               /\ Changing(w) /\ At(w, "committing") /\ UNCHANGED changes
               /\ req' = [req EXCEPT ![w] = Idle]
               /\ history' = Append(history, [password |-> req[w].password, at |-> req[w].at,
                                              raced |-> req[w].raced])
<1>1. PICK w \in Workers : ResetCommit(w) \/ (\E a \in BOOLEAN : UpdateCommit(w, a)) \/ VerifyCommit(w)
  BY Frames
<1>2. /\ At(w, "committing") /\ Finish(w) /\ UNCHANGED changes
      /\ history' = Recorded(w)
  <2>1. CASE ResetCommit(w)
    BY <2>1 DEF ResetCommit
  <2>2. ASSUME NEW a \in BOOLEAN, UpdateCommit(w, a)
        PROVE  At(w, "committing") /\ Finish(w) /\ UNCHANGED changes /\ history' = Recorded(w)
    BY <2>2 DEF UpdateCommit
  <2>3. ~VerifyCommit(w)
    BY DEF VerifyCommit
  <2> QED
    BY <1>1, <2>1, <2>2, <2>3
<1> QED
  BY <1>2 DEF Recorded, Finish

LEMMA HistoryFacts ==
    ASSUME TypeOK
    PROVE  /\ history \in Seq(Entry) /\ Len(history) \in Nat /\ DOMAIN history = 1 .. Len(history)
           /\ changes \in Nat
           /\ \A i \in DOMAIN history : history[i].at \in Nat /\ history[i].raced \in BOOLEAN
<1>1. history \in Seq(Entry) /\ changes \in Nat
  BY ConstantsAssumption DEF TypeOK, Entry
<1>2. Len(history) \in Nat /\ DOMAIN history = 1 .. Len(history)
      /\ \A i \in 1 .. Len(history) : history[i] \in Entry
  BY <1>1, LenProperties, ElementOfSeq
<1> QED
  BY <1>1, <1>2, ConstantsAssumption DEF Entry

\* The last entries by the time of their beginning are the last that were
\* committed, as far as they did not overlap.
LEMMA RecentMember ==
    ASSUME TypeOK, Ordered, NEW j \in DOMAIN history, ~history[j].raced,
           Len(history) + 1 - j <= HistorySize
    PROVE  j \in Recent(HistorySize)
<1> DEFINE later == {k \in DOMAIN history : history[k].at > history[j].at}
           n == Len(history)
<1>1. n \in Nat /\ DOMAIN history = 1 .. n /\ j \in 1 .. n /\ HistorySize \in Nat
  BY HistoryFacts, ConstantsAssumption
<1>2. later \subseteq (j + 1) .. n
  <2> SUFFICES ASSUME NEW k \in DOMAIN history, history[k].at > history[j].at
               PROVE  k \in (j + 1) .. n
    OBVIOUS
  <2>1. history[k].at \in Nat /\ history[j].at \in Nat
    BY HistoryFacts
  <2>2. k # j
    BY <2>1
  <2>3. k < j => history[k].at < history[j].at
    BY DEF Ordered
  <2>4. ~(k < j)
    BY <2>1, <2>3
  <2>5. k \in 1 .. n
    BY <1>1
  <2> HIDE DEF n
  <2> QED
    BY <1>1, <2>2, <2>4, <2>5
<1>3. IsFiniteSet((j + 1) .. n) /\ Cardinality((j + 1) .. n) = (IF j + 1 > n THEN 0 ELSE n - (j + 1) + 1)
  <2>1. j + 1 \in Int /\ n \in Int
    BY <1>1
  <2> HIDE DEF n
  <2> QED
    BY <2>1, FS_Interval
<1>4. Cardinality(later) <= Cardinality((j + 1) .. n) /\ Cardinality(later) \in Nat
  BY <1>2, <1>3, FS_Subset, FS_CardinalityType
<1>5. Cardinality(later) < HistorySize
  <2> HIDE DEF later
  <2> QED
    BY <1>1, <1>3, <1>4
<1> QED
  BY <1>5 DEF Recent

\* A step that records nothing.
LEMMA ReuseUnrecorded ==
    ASSUME TypeOK, Shapes, ReuseInv, [Next]_vars, history' = history
    PROVE  ReuseInv'
<1>0. /\ ChangesCounted /\ OverlapsNoted /\ Ahead /\ Ordered /\ Compared /\ NoReuse
      /\ changes \in Nat /\ \A i \in DOMAIN history : history[i].at \in Nat
      /\ \A v \in Workers : req[v].at \in Nat
  BY HistoryFacts, RequestFields DEF ReuseInv
<1>1. Ordered' /\ NoReuse'
  BY <1>0 DEF Ordered, NoReuse
<1>2. Recent(HistorySize)' = Recent(HistorySize)
  BY DEF Recent
<1>3. CASE UNCHANGED changes /\ \A v \in Workers : Carried(v)
  <2>1. \A v \in Workers : Changing(v)' =>
            Changing(v) /\ req'[v].at = req[v].at /\ req'[v].raced = req[v].raced
    BY <1>3 DEF Carried, Changing
  <2>2. ChangesCounted'
    BY <1>0, <1>3 DEF ChangesCounted, Carried
  <2>3. OverlapsNoted' /\ Ahead'
    BY <1>0, <2>1 DEF OverlapsNoted, Ahead
  <2>4. Compared'
    <3> SUFFICES ASSUME NEW v \in Workers, Changing(v)', ~req'[v].raced,
                        req'[v].step \in {"writing", "revoking", "committing"},
                        NEW i \in Recent(HistorySize)
                 PROVE  history[i].password # req'[v].password
      BY <1>2 DEF Compared
    <3>1. Carried(v) /\ req'[v].at # 0
      BY <1>3 DEF Changing
    <3> QED
      BY <1>0, <2>1, <3>1 DEF Carried, Compared
  <2> QED
    BY <1>1, <2>2, <2>3, <2>4 DEF ReuseInv
<1>4. ASSUME NEW w \in Workers, Entered(w)
      PROVE  ReuseInv'
  <2>1. /\ changes' = changes + 1 /\ req'[w].at = changes + 1
        /\ req'[w].step \notin {"writing", "revoking", "committing"}
        /\ \A v \in Workers \ {w} : req'[v].at = req[v].at
        /\ \A v \in Workers \ {w} : Changing(v)' => Changing(v) /\ req'[v].raced /\ req'[w].raced
    BY <1>4 DEF Entered, Changing
  <2>2. ChangesCounted'
    BY <1>0, <2>1 DEF ChangesCounted
  <2>3. OverlapsNoted'
    BY <2>1 DEF OverlapsNoted
  <2>4. Ahead'
    BY <1>0, <2>1 DEF Ahead, ChangesCounted
  <2>5. Compared'
    BY <2>1 DEF Compared
  <2> QED
    BY <1>1, <2>2, <2>3, <2>4, <2>5 DEF ReuseInv
<1> QED
  BY <1>3, <1>4, ChangeSteps

\* A step that records a change.
LEMMA ReuseRecorded ==
    ASSUME TypeOK, Shapes, ReuseInv, NEW w \in Workers, Changing(w), At(w, "committing"), UNCHANGED changes,
           req' = [req EXCEPT ![w] = Idle],
           history' = Append(history, [password |-> req[w].password, at |-> req[w].at,
                                       raced |-> req[w].raced])
    PROVE  ReuseInv'
<1> DEFINE x == [password |-> req[w].password, at |-> req[w].at, raced |-> req[w].raced]
           n == Len(history)
<1>0. /\ ChangesCounted /\ OverlapsNoted /\ Ahead /\ Ordered /\ Compared /\ NoReuse
      /\ changes \in Nat /\ \A i \in DOMAIN history : history[i].at \in Nat
      /\ \A v \in Workers : req[v].at \in Nat
  BY HistoryFacts, RequestFields DEF ReuseInv
<1>1. x \in Entry /\ x.password = req[w].password /\ x.at = req[w].at /\ x.raced = req[w].raced
  <2>1. req[w].password \in Passwords
    <3>1. Is(w, "reset") \/ Is(w, "update")
      BY ShapeFacts DEF Shapes, Shape, Changing, Is
    <3> QED
      BY <3>1 DEF Shapes, Shape, Is, At, Changing
  <2>2. req[w].at \in 1 .. MaxChanges /\ req[w].raced \in BOOLEAN
    BY RequestFields, ConstantsAssumption DEF Changing
  <2> QED
    BY <2>1, <2>2 DEF Entry
<1>2. history \in Seq(Entry) /\ n \in Nat /\ DOMAIN history = 1 .. n
  BY HistoryFacts
<1> HIDE DEF x
<1>3. history' = Append(history, x)
  BY DEF x
<1>4. /\ history' \in Seq(Entry) /\ Len(history') = n + 1
      /\ \A i \in 1 .. n : history'[i] = history[i]
      /\ history'[n + 1] = x
  BY <1>1, <1>2, <1>3, AppendProperties
<1>5. DOMAIN history' = 1 .. n + 1
  BY <1>4, LenProperties
<1>6. /\ req'[w].at = 0
      /\ \A v \in Workers \ {w} : req'[v] = req[v]
  BY DEF TypeOK, Idle
<1>7. \A v \in Workers : Changing(v)' =>
          v # w /\ req'[v] = req[v] /\ Changing(v) /\ req[v].raced /\ req[w].raced
  BY <1>0, <1>6 DEF Changing, OverlapsNoted
<1> HIDE DEF n
<1>8. \A i \in DOMAIN history' :
          \/ i \in DOMAIN history /\ history'[i] = history[i]
          \/ i = n + 1 /\ history'[i] = x
  <2> SUFFICES ASSUME NEW i \in 1 .. n + 1, i # n + 1
               PROVE  i \in 1 .. n
    BY <1>2, <1>4, <1>5
  <2> QED
    BY <1>2
<1>9. ChangesCounted'
  BY <1>0, <1>1, <1>6, <1>8 DEF ChangesCounted
<1>10. OverlapsNoted'
  BY <1>7 DEF OverlapsNoted
<1>11. Ahead'
  BY <1>0, <1>1, <1>7, <1>8 DEF Ahead
<1>12. Ordered'
  <2> SUFFICES ASSUME NEW i \in DOMAIN history', NEW j \in DOMAIN history', i < j,
                      ~history'[i].raced \/ ~history'[j].raced
               PROVE  history'[i].at < history'[j].at
    BY DEF Ordered
  <2>1. i \in DOMAIN history /\ history'[i] = history[i]
    BY <1>2, <1>4, <1>5
  <2> QED
    BY <1>0, <1>1, <1>8, <2>1 DEF Ordered, Ahead
<1>13. Compared'
  BY <1>7 DEF Compared
<1>14. NoReuse'
  <2> SUFFICES ASSUME NEW i \in DOMAIN history',
                      \A k \in {k \in DOMAIN history' : k < i /\ i - k <= HistorySize} \cup {i} : ~history'[k].raced,
                      NEW j \in DOMAIN history', j < i, i - j <= HistorySize
               PROVE  history'[j].password # history'[i].password
    BY DEF NoReuse
  <2>1. j \in 1 .. n /\ history'[j] = history[j] /\ ~history[j].raced
    BY <1>2, <1>4, <1>5
  <2>2. CASE i \in 1 .. n
    <3>1. \A k \in {k \in DOMAIN history : k < i /\ i - k <= HistorySize} \cup {i} : ~history[k].raced
      BY <1>2, <1>4, <1>5, <2>2
    <3>2. history[j].password # history[i].password
      BY <1>0, <1>2, <2>1, <2>2, <3>1 DEF NoReuse
    <3> QED
      BY <1>4, <2>1, <2>2, <3>2
  <2>3. CASE i = n + 1
    <3>1. ~req[w].raced
      BY <1>1, <1>4, <2>3
    <3>2. j \in Recent(HistorySize)
      BY <1>0, <1>2, <2>1, <2>3, RecentMember DEF n
    <3>3. history[j].password # req[w].password
      BY <1>0, <3>1, <3>2 DEF Compared, At
    <3> QED
      BY <1>1, <1>4, <2>1, <2>3, <3>3
  <2> QED
    BY <1>2, <1>5, <2>2, <2>3
<1> QED
  BY <1>9, <1>10, <1>11, <1>12, <1>13, <1>14 DEF ReuseInv

\* Every step keeps the promise of the history.
LEMMA NextReuse ==
    ASSUME TypeOK, Shapes, ReuseInv, [Next]_vars
    PROVE  ReuseInv'
BY Recording, ReuseUnrecorded, ReuseRecorded

-----------------------------------------------------------------------------
(* The theorems *)

Safe == Inv /\ ReuseInv /\ ChangesBounded /\ LinksBounded /\ SessionsBounded

\* At first nothing is under way.
LEMMA InitSafe == Init => Safe
<1> USE ConstantsAssumption
<1> SUFFICES ASSUME Init PROVE Safe
    OBVIOUS
<1>1. \A w \in Workers : req[w] = Idle
  BY DEF Init
<1>2. \A w \in Workers : req[w].step = "idle" /\ req[w].kind = None /\ req[w].at = 0
  BY <1>1 DEF Idle
<1>3. TypeOK
  <2>1. req \in [Workers -> Request]
    BY IdleRequest DEF Init
  <2>2. history \in Seq([password : Passwords, at : 1 .. MaxChanges, raced : BOOLEAN]) /\ Len(history) = 0
    BY EmptySeq DEF Init
  <2>3. user \in [password : Passwords, active : BOOLEAN, verified : BOOLEAN]
    BY DEF Init
  <2>4. /\ userLock \in Workers \cup {None} /\ changes \in 0 .. MaxChanges
        /\ begun \in 0 .. MaxLogins /\ stale \subseteq Logins /\ racing \subseteq Logins
    BY DEF Init
  <2>5. /\ link \in [Links -> Statuses] /\ otp \in [OTPs -> Statuses]
        /\ otpLock \in [OTPs -> Workers \cup {None}]
    BY DEF Init, Statuses
  <2>6. /\ token \in [Logins -> {"none", "live", "revoked"}]
        /\ session \in [Logins -> {"none", "live", "ended"}]
        /\ resets \in [Links -> Nat] /\ afterwards \in [Logins -> Nat]
    BY DEF Init
  <2> QED
    BY <2>1, <2>2, <2>3, <2>4, <2>5, <2>6 DEF TypeOK
<1>4. Shapes
  BY <1>2 DEF Shapes, Shape, Is, At, Kinds
<1>5. TokenInv /\ PasswordInv
  BY <1>2 DEF Init, TokenInv, MarkedBeforehand, SpentBeforeReset, VerifiedByCode, PasswordInv,
     CurrentRecorded, Is, Kinds
<1>6. SessionInv
  BY <1>2 DEF Init, SessionInv, LoginsApart, BegunOnly, SeenBegun, AuthorizationsOK, SessionsOfLogins, Is, Kinds
<1>7. RaceInv
  BY <1>2 DEF Init, RaceInv, RacersKnown, SeenOrRacing, StaleRace, ResetEndsLogins, Is, At, Resetting, Kinds
<1>8. ChangesBounded
  <2>1. Changers = {}
    BY <1>2 DEF Changers, Changing
  <2>2. Len(history) = 0 /\ changes = 0 /\ Cardinality(Changers) = 0
    BY <2>1, FS_EmptySet, EmptySeq DEF Init
  <2> QED
    BY <2>2 DEF ChangesBounded
<1>9. LinksBounded
  <2> SUFFICES ASSUME NEW l \in Links
               PROVE  resets[l] + Cardinality(Holders(l)) <= Cardinality(Workers)
    BY DEF LinksBounded
  <2>1. resets[l] = 0 /\ Holders(l) \subseteq Workers
    BY DEF Init, Holders
  <2> QED
    BY <2>1, HoldersFinite
<1>10. SessionsBounded
  <2> SUFFICES ASSUME NEW i \in Logins
               PROVE  afterwards[i] + Cardinality(Authorizing(i)) <= Cardinality(Workers)
    BY DEF SessionsBounded
  <2>1. afterwards[i] = 0 /\ Authorizing(i) \subseteq Workers
    BY DEF Init, Authorizing
  <2> QED
    BY <2>1, HoldersFinite
<1>11. ReuseInv
  <2>1. DOMAIN history = {} /\ changes = 0
    BY DEF Init
  <2> QED
    BY <1>2, <2>1 DEF ReuseInv, ChangesCounted, OverlapsNoted, Ahead, Ordered, Compared, NoReuse, Changing
<1> QED
  BY <1>3, <1>4, <1>5, <1>6, <1>7, <1>8, <1>9, <1>10, <1>11 DEF Safe, Inv

\* The invariant is inductive.
LEMMA NextSafe == Safe /\ [Next]_vars => Safe'
<1> SUFFICES ASSUME Safe, [Next]_vars PROVE Safe'
    OBVIOUS
<1>1. /\ TypeOK /\ Shapes /\ TokenInv /\ CurrentRecorded /\ SessionInv /\ RaceInv
      /\ ReuseInv /\ ChangesBounded /\ LinksBounded /\ SessionsBounded
  BY DEF Safe, Inv, PasswordInv
<1>2. TypeOK' /\ Shapes'
  BY <1>1, NextType, NextShapes
<1>3. TokenInv' /\ PasswordInv'
  BY <1>1, NextTokens, NextRecorded DEF PasswordInv
<1>4. SessionInv' /\ RaceInv'
  BY <1>1, NextSession, NextRace DEF SessionInv
<1>5. ChangesBounded'
  BY <1>1, NextChangesBounded
<1>6. LinksBounded' /\ SessionsBounded'
  BY <1>1, NextLinksBounded, NextSessionsBounded DEF TokenInv, SessionInv
<1>7. ReuseInv'
  BY <1>1, NextReuse
<1> QED
  BY <1>2, <1>3, <1>4, <1>5, <1>6, <1>7 DEF Safe, Inv

\* The invariant holds in every reachable state of the accounts.
THEOREM Invariance == Spec => []Safe
BY InitSafe, NextSafe, PTL DEF Spec

\* The rows, the locks and the requests keep their types, and the history stays
\* within the changes that were begun (user_service.rs, one_time_token_service.rs).
THEOREM TypeCorrect == Spec => []TypeOK
<1>1. Safe => TypeOK
  BY DEF Safe, Inv
<1> QED
  BY <1>1, Invariance, PTL

\* One reset link changes the password at most once for each request that is
\* served (consume, one_time_token_service.rs).
THEOREM ResetsBoundedHolds == Spec => []ResetsBounded
<1>1. Safe => ResetsBounded
  <2> SUFFICES ASSUME Safe, NEW l \in Links
               PROVE  resets[l] <= Cardinality(Workers)
    BY DEF ResetsBounded
  <2>1. resets[l] \in Nat /\ resets[l] + Cardinality(Holders(l)) <= Cardinality(Workers)
    BY DEF Safe, Inv, TypeOK, LinksBounded
  <2>2. Holders(l) \subseteq Workers
    BY DEF Holders
  <2> QED
    BY <2>1, <2>2, HoldersFinite
<1> QED
  BY <1>1, Invariance, PTL

\* A link that has changed the password is spent: no crash leaves it usable
\* (reset_password, handlers/reset_password.rs).
THEOREM SpentBeforeResetHolds == Spec => []SpentBeforeReset
<1>1. Safe => SpentBeforeReset
  BY DEF Safe, Inv, TokenInv
<1> QED
  BY <1>1, Invariance, PTL

\* An address is verified together with the code that verifies it
\* (verify_email, handlers/verify_email.rs).
THEOREM VerifiedByCodeHolds == Spec => []VerifiedByCode
<1>1. Safe => VerifiedByCode
  BY DEF Safe, Inv, TokenInv
<1> QED
  BY <1>1, Invariance, PTL

\* The password in force stands in the history, unless it is the first one
\* (record, password_history_service.rs).
THEOREM CurrentRecordedHolds == Spec => []CurrentRecorded
<1>1. Safe => CurrentRecorded
  BY DEF Safe, Inv, PasswordInv
<1> QED
  BY <1>1, Invariance, PTL

\* Of changes that do not overlap, none brings back one of the HistorySize
\* passwords in force before it (check and record, password_history_service.rs).
THEOREM NoReuseHolds == Spec => []NoReuse
<1>1. Safe => NoReuse
  BY DEF Safe, ReuseInv
<1> QED
  BY <1>1, Invariance, PTL

\* A session has a login whose refresh token was committed before it
\* (login, handlers/login.rs).
THEOREM SessionsOfLoginsHolds == Spec => []SessionsOfLogins
<1>1. Safe => SessionsOfLogins
  BY DEF Safe, Inv, SessionInv
<1> QED
  BY <1>1, Invariance, PTL

\* A reset leaves no refresh token of a login that had checked the old password
\* but those that overlapped its transaction (revoke_all_user_tokens).
THEOREM ResetEndsLoginsHolds == Spec => []ResetEndsLogins
<1>1. Safe => ResetEndsLogins
  BY DEF Safe, Inv, RaceInv
<1> QED
  BY <1>1, Invariance, PTL

\* A session that is over gives at most one more code to each request that is
\* served (find_valid, session_service.rs).
THEOREM EndedSessionsQuietHolds == Spec => []EndedSessionsQuiet
<1>1. Safe => EndedSessionsQuiet
  <2> SUFFICES ASSUME Safe, NEW i \in Logins
               PROVE  afterwards[i] <= Cardinality(Workers)
    BY DEF EndedSessionsQuiet
  <2>1. afterwards[i] \in Nat /\ afterwards[i] + Cardinality(Authorizing(i)) <= Cardinality(Workers)
    BY DEF Safe, Inv, TypeOK, SessionsBounded
  <2>2. Authorizing(i) \subseteq Workers
    BY DEF Authorizing
  <2> QED
    BY <2>1, <2>2, HoldersFinite
<1> QED
  BY <1>1, Invariance, PTL

=============================================================================
