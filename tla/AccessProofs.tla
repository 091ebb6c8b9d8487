---------------------------- MODULE AccessProofs ----------------------------
(***************************************************************************)
(* Safety of AccessTokens for any number of tokens, requests, secrets and  *)
(* any lifetime and leeway; and, in the second half, safety of AdminTui,   *)
(* the terminal that administrators use with such a token, for any number  *)
(* of tenants and of calls that fail.                                      *)
(***************************************************************************)
EXTENDS AccessTokens, AdminTui, FiniteSetTheorems, TLAPS

\* Until its expiry the row a token got first is the row in the table.
FirstRowStays ==
    \A t \in TokenIds :
        /\ firstRow[t] # None /\ now <= firstRow[t] => blocklist[t] = firstRow[t]
        /\ firstRow[t] = None => blocklist[t] = None

\* A request validated after its token was revoked is admitted only once the
\* token's expiry, and with it perhaps its row, has gone.
LateRequests ==
    \A w \in Workers :
        /\ req[w].step # "idle" /\ req[w].late => RevokedExactly(req[w].tok)
        /\ req[w].step = "admitted" /\ req[w].late => tok[req[w].tok].exp < now

\* The inductive invariant.
Inv ==
    /\ TypeOK
    /\ FirstRowStays
    /\ LateRequests

-----------------------------------------------------------------------------
(* Type correctness *)

\* A token's lifetime ends in the future, so its expiry is a number.
LEMMA ClaimsType ==
    ASSUME TypeOK, NEW t \in TokenIds
    PROVE  Valid(t) => tok[t] \in Claims /\ tok[t].exp \in Nat
BY DEF TypeOK, Valid, Decodes, Issued, Claims

\* The initial state has the declared types.
LEMMA InitType == Init => TypeOK
BY DEF Init, TypeOK, Request, Idle

\* Every step keeps the declared types.
LEMMA NextType == TypeOK /\ [Next]_vars => TypeOK'
<1> SUFFICES ASSUME TypeOK, [Next]_vars PROVE TypeOK'
    OBVIOUS
<1> USE ConstantsAssumption
<1>1. ASSUME NEW t \in TokenIds, NEW u \in Users, Issue(t, u)
      PROVE  TypeOK'
  BY <1>1 DEF Issue, TypeOK, Claims
<1>2. ASSUME NEW w \in Workers, NEW t \in TokenIds, Validate(w, t)
      PROVE  TypeOK'
  BY <1>2 DEF Validate, TypeOK, Request, RevokedExactly, Issued
<1>3. ASSUME NEW w \in Workers, Lookup(w)
      PROVE  TypeOK'
  BY <1>3, Zenon DEF Lookup, TypeOK, Request, Idle
<1>4. ASSUME NEW w \in Workers, Serve(w)
      PROVE  TypeOK'
  BY <1>4 DEF Serve, Finish, TypeOK, Request, Idle
<1>5. ASSUME NEW w \in Workers, Logout(w)
      PROVE  TypeOK'
  <2> DEFINE t == req[w].tok
             e == IF Decodes(t, secret) THEN tok[t].exp ELSE 0
  <2>1. /\ RevokeJti(t, e) \/ RevokeJtiLost
        /\ loggedOut' \in {loggedOut \cup {t}, loggedOut}
        /\ req' = [req EXCEPT ![w] = Idle]
        /\ UNCHANGED <<now, secret, previous, tok>>
    BY <1>5 DEF Logout, Finish
  <2>2. t \in TokenIds
    BY <1>5 DEF Logout, TypeOK, Request
  <2>3. e \in Nat
    BY <2>2 DEF Decodes, Issued, TypeOK, Claims
  <2> HIDE DEF e, t
  <2>4. blocklist' \in [TokenIds -> Nat \cup {None}] /\ firstRow' \in [TokenIds -> Nat \cup {None}]
    BY <2>1, <2>2, <2>3 DEF RevokeJti, RevokeJtiLost, TypeOK
  <2> QED
    BY <2>1, <2>2, <2>4 DEF TypeOK, Request, Idle
<1>6. ASSUME NEW caller \in TokenIds, NEW t \in TokenIds, OauthRevoke(caller, t)
      PROVE  TypeOK'
  BY <1>6, ClaimsType DEF OauthRevoke, RevokeJti, RevokeJtiLost, TypeOK
<1>7. CASE Cleanup
  BY <1>7 DEF Cleanup, TypeOK
<1>8. CASE Restart
  BY <1>8 DEF Restart, TypeOK, Request, Idle
<1>9. CASE Tick
  BY <1>9 DEF Tick, TypeOK
<1>10. CASE UNCHANGED vars
  BY <1>10 DEF vars, TypeOK
<1> QED
  BY <1>1, <1>2, <1>3, <1>4, <1>5, <1>6, <1>7, <1>8, <1>9, <1>10 DEF Next

\* The blocklist, the tokens and the requests always have their declared types.
THEOREM TypeCorrect == Spec => []TypeOK
BY InitType, NextType, PTL DEF Spec

-----------------------------------------------------------------------------
(* The inductive invariant *)

\* Inserting a row keeps the first rows: only a token whose first row has run
\* out can be without a row and get another one.
LEMMA InsertKeepsFirstRows ==
    ASSUME Inv, NEW s \in TokenIds, NEW e \in Nat, RevokeJti(s, e), now' = now
    PROVE  FirstRowStays'
<1>1. ASSUME NEW t \in TokenIds, t # s
      PROVE  firstRow'[t] = firstRow[t] /\ blocklist'[t] = blocklist[t]
  BY <1>1 DEF RevokeJti, Inv, TypeOK
<1>2. /\ blocklist'[s] = IF blocklist[s] = None THEN e ELSE blocklist[s]
      /\ firstRow'[s] = IF firstRow[s] = None THEN e ELSE firstRow[s]
  BY DEF RevokeJti, Inv, TypeOK
<1> QED
  BY <1>1, <1>2, ConstantsAssumption DEF Inv, FirstRowStays

\* What is known of a request stays known while the tokens, their first rows
\* and the request stay and the clock does not go back.
LEMMA LateKept ==
    ASSUME Inv, now' \in Nat, now' >= now, NEW w \in Workers, req'[w] = req[w],
           \A t \in TokenIds : Issued(t) => tok'[t] = tok[t],
           \A t \in TokenIds : firstRow[t] # None => firstRow'[t] = firstRow[t]
    PROVE  /\ req'[w].step # "idle" /\ req'[w].late => RevokedExactly(req[w].tok)'
           /\ req'[w].step = "admitted" /\ req'[w].late => tok'[req'[w].tok].exp < now'
<1> SUFFICES ASSUME req[w].step # "idle", req[w].late
             PROVE  /\ RevokedExactly(req[w].tok)'
                    /\ req[w].step = "admitted" => tok'[req[w].tok].exp < now'
    BY DEF Inv, LateRequests
<1>1. PICK t \in TokenIds : t = req[w].tok /\ RevokedExactly(t)
  BY DEF Inv, TypeOK, Request, LateRequests
<1>2. tok'[t] = tok[t] /\ tok[t] \in Claims /\ firstRow[t] # None /\ firstRow'[t] = firstRow[t]
  BY <1>1, ConstantsAssumption DEF RevokedExactly, Issued, Inv, TypeOK, Claims
<1> QED
  BY <1>1, <1>2, ConstantsAssumption DEF Inv, LateRequests, TypeOK, RevokedExactly, Issued, Claims

\* Every step keeps the invariant.
LEMMA NextInv == Inv /\ [Next]_vars => Inv'
<1> SUFFICES ASSUME Inv, [Next]_vars PROVE Inv'
    OBVIOUS
<1> USE ConstantsAssumption
<1>t. TypeOK'
  BY NextType DEF Inv
<1>1. ASSUME NEW t \in TokenIds, NEW u \in Users, Issue(t, u)
      PROVE  Inv'
  <2>1. FirstRowStays'
    BY <1>1 DEF Issue, Inv, FirstRowStays
  <2>2. LateRequests'
    BY <1>1, LateKept DEF Issue, Inv, TypeOK, LateRequests
  <2> QED
    BY <1>t, <2>1, <2>2 DEF Inv
<1>2. ASSUME NEW w \in Workers, NEW t \in TokenIds, Validate(w, t)
      PROVE  Inv'
  <2>1. FirstRowStays'
    BY <1>2 DEF Validate, Inv, FirstRowStays
  <2>2. LateRequests'
    BY <1>2 DEF Validate, Inv, TypeOK, LateRequests, RevokedExactly, Issued
  <2> QED
    BY <1>t, <2>1, <2>2 DEF Inv
<1>3. ASSUME NEW w \in Workers, Lookup(w)
      PROVE  Inv'
  <2>1. FirstRowStays'
    BY <1>3 DEF Lookup, Inv, FirstRowStays
  <2>2. LateRequests'
    <3>1. ASSUME ~Blocked(req[w].tok), req[w].late
          PROVE  RevokedExactly(req[w].tok) /\ tok[req[w].tok].exp < now
      <4>1. PICK t \in TokenIds : t = req[w].tok /\ RevokedExactly(t)
        BY <1>3, <3>1 DEF Lookup, Inv, TypeOK, Request, LateRequests
      <4>2. tok[t].exp \in Nat /\ firstRow[t] = tok[t].exp /\ blocklist[t] = None
        BY <3>1, <4>1 DEF RevokedExactly, Issued, Blocked, Inv, TypeOK, Claims
      <4> QED
        BY <4>1, <4>2 DEF Inv, TypeOK, FirstRowStays
    <3>2. ASSUME NEW v \in Workers, v # w
          PROVE  req'[v] = req[v]
      BY <1>3, <3>2 DEF Lookup, Inv, TypeOK
    <3>3. \/ req'[w] = Idle
          \/ /\ ~Blocked(req[w].tok)
             /\ req'[w].tok = req[w].tok /\ req'[w].late = req[w].late /\ req'[w].step = "admitted"
      BY <1>3 DEF Lookup, Inv, TypeOK, Request
    <3> QED
      BY <1>3, <3>1, <3>2, <3>3 DEF Lookup, Inv, LateRequests, Idle, RevokedExactly, Issued
  <2> QED
    BY <1>t, <2>1, <2>2 DEF Inv
<1>4. ASSUME NEW w \in Workers, Serve(w)
      PROVE  Inv'
  <2>1. FirstRowStays'
    BY <1>4 DEF Serve, Inv, FirstRowStays
  <2>2. LateRequests'
    BY <1>4 DEF Serve, Finish, Inv, TypeOK, LateRequests, Idle, RevokedExactly, Issued
  <2> QED
    BY <1>t, <2>1, <2>2 DEF Inv
\* a revocation: the requests other than the one that ends are left alone
<1>5. ASSUME NEW t \in TokenIds, NEW e \in Nat, RevokeJti(t, e) \/ RevokeJtiLost,
             now' = now, tok' = tok,
             \A v \in Workers : req'[v] = req[v] \/ req'[v] = Idle
      PROVE  Inv'
  <2>1. FirstRowStays'
    BY <1>5, InsertKeepsFirstRows DEF RevokeJtiLost, Inv, FirstRowStays
  <2>2. \A s \in TokenIds : firstRow[s] # None => firstRow'[s] = firstRow[s]
    BY <1>5 DEF RevokeJti, RevokeJtiLost, Inv, TypeOK
  <2>3. now' \in Nat /\ now' >= now
    BY <1>5 DEF Inv, TypeOK
  <2>4. ASSUME NEW v \in Workers, req'[v] = req[v]
        PROVE  /\ req'[v].step # "idle" /\ req'[v].late => RevokedExactly(req[v].tok)'
               /\ req'[v].step = "admitted" /\ req'[v].late => tok'[req'[v].tok].exp < now'
    BY <1>5, <2>2, <2>3, <2>4, LateKept
  <2>5. LateRequests'
    BY <1>5, <2>4 DEF LateRequests, Idle
  <2> QED
    BY <1>t, <2>1, <2>5 DEF Inv
<1>6. ASSUME NEW w \in Workers, Logout(w)
      PROVE  Inv'
  <2> DEFINE t == req[w].tok
             e == IF Decodes(t, secret) THEN tok[t].exp ELSE 0
  <2>1. /\ RevokeJti(t, e) \/ RevokeJtiLost
        /\ now' = now /\ tok' = tok
    BY <1>6 DEF Logout
  <2>2. \A v \in Workers : req'[v] = req[v] \/ req'[v] = Idle
    BY <1>6 DEF Logout, Finish, Inv, TypeOK
  <2>3. t \in TokenIds
    BY <1>6 DEF Logout, Inv, TypeOK, Request
  <2>4. e \in Nat
    BY <2>3 DEF Decodes, Issued, Inv, TypeOK, Claims
  <2> HIDE DEF e, t
  <2> QED
    BY <1>5, <2>1, <2>2, <2>3, <2>4
<1>7. ASSUME NEW caller \in TokenIds, NEW t \in TokenIds, OauthRevoke(caller, t)
      PROVE  Inv'
  BY <1>7, <1>5, ClaimsType DEF OauthRevoke, Inv
<1>8. CASE Cleanup
  <2>1. FirstRowStays'
    BY <1>8 DEF Cleanup, Blocked, Inv, TypeOK, FirstRowStays
  <2>2. LateRequests'
    BY <1>8 DEF Cleanup, Inv, LateRequests, RevokedExactly, Issued
  <2> QED
    BY <1>t, <2>1, <2>2 DEF Inv
<1>9. CASE Restart
  <2>1. FirstRowStays'
    BY <1>9 DEF Restart, Inv, FirstRowStays
  <2>2. LateRequests'
    BY <1>9 DEF Restart, LateRequests, Idle
  <2> QED
    BY <1>t, <2>1, <2>2 DEF Inv
<1>10. CASE Tick
  <2>1. FirstRowStays'
    BY <1>10 DEF Tick, Inv, TypeOK, FirstRowStays
  <2>2. now' \in Nat /\ now' >= now
    BY <1>10 DEF Tick, Inv, TypeOK
  <2>3. LateRequests'
    BY <1>10, <2>2, LateKept DEF Tick, LateRequests
  <2> QED
    BY <1>t, <2>1, <2>3 DEF Inv
<1>11. CASE UNCHANGED vars
  BY <1>11, <1>t DEF vars, Inv, FirstRowStays, LateRequests, RevokedExactly, Issued
<1> QED
  BY <1>1, <1>2, <1>3, <1>4, <1>6, <1>7, <1>8, <1>9, <1>10, <1>11 DEF Next

\* The inductive invariant holds in every reachable state.
THEOREM Invariance == Spec => []Inv
<1>1. Init => Inv
  BY InitType, ConstantsAssumption DEF Init, Inv, FirstRowStays, LateRequests, Idle
<1> QED
  BY <1>1, NextInv, PTL DEF Spec

-----------------------------------------------------------------------------
(* What the invariant gives *)

\* A revoked token stays in the blocklist until it has expired.
THEOREM BlockedUntilExpiryHolds == Spec => []BlockedUntilExpiry
<1>1. Inv => BlockedUntilExpiry
  BY ConstantsAssumption
  DEF Inv, TypeOK, FirstRowStays, BlockedUntilExpiry, RevokedExactly, Issued, Blocked, Claims
<1> QED
  BY <1>1, Invariance, PTL

\* A handler runs for a revoked token only in a request that was validated
\* before the revocation.
THEOREM OnlyInFlightSlipThroughHolds == Spec => OnlyInFlightSlipThrough
<1>1. ASSUME Inv, NEW w \in Workers, Serve(w) \/ Logout(w),
             RevokedExactly(req[w].tok), now <= tok[req[w].tok].exp
      PROVE  ~req[w].late
  <2>1. req[w].step = "admitted" /\ req[w].tok \in TokenIds
    BY <1>1 DEF Serve, Logout, Inv, TypeOK, Request
  <2>2. tok[req[w].tok].exp \in Nat /\ now \in Nat
    BY <1>1, <2>1 DEF RevokedExactly, Issued, Inv, TypeOK, Claims
  <2> QED
    BY <1>1, <2>1, <2>2 DEF Inv, LateRequests
<1>2. Inv /\ [Next]_vars =>
        [\A w \in Workers : Serve(w) \/ Logout(w) =>
            LET t == req[w].tok
            IN RevokedExactly(t) /\ now <= tok[t].exp => ~req[w].late]_vars
  BY <1>1
<1> QED
  BY <1>2, Invariance, PTL DEF Spec, OnlyInFlightSlipThrough

\* A row that stays in the table keeps its expiry.
THEOREM NeverShortenedHolds == Spec => NeverShortened
<1>1. ASSUME TypeOK, [Next]_vars, NEW t \in TokenIds, Blocked(t), Blocked(t)'
      PROVE  blocklist'[t] >= blocklist[t]
  <2>1. blocklist'[t] = blocklist[t]
    <3>1. ASSUME NEW s, NEW e, RevokeJti(s, e) \/ RevokeJtiLost
          PROVE  blocklist'[t] = blocklist[t]
      BY <1>1, <3>1 DEF RevokeJti, RevokeJtiLost, Blocked, TypeOK
    <3> QED
      BY <1>1, <3>1 DEF Next, Issue, Validate, Lookup, Serve, Logout, OauthRevoke, Cleanup, Restart,
                        Tick, vars, Blocked
  <2> QED
    BY <1>1, <2>1 DEF TypeOK, Blocked
<1>2. TypeOK /\ [Next]_vars =>
        [\A t \in TokenIds : Blocked(t) /\ Blocked(t)' => blocklist'[t] >= blocklist[t]]_vars
  BY <1>1
<1> QED
  BY <1>2, TypeCorrect, PTL DEF Spec, NeverShortened

-----------------------------------------------------------------------------
(* The terminal *)

\* The calls that are noted in sent
Ops == {"create_client", "create_user", "create_role", "create_permission",
        "create_identity_provider", "update_client", "update_user", "update_role",
        "update_permission", "update_identity_provider", "save_client_roles",
        "save_user_roles", "save_role_permissions", "deactivate_client",
        "deactivate_user", "delete_role", "delete_permission", "delete_session",
        "delete_identity_provider", "delete_user_passkey", "disable_mfa", "put_settings"}

Calls == [op : Ops, tenant : Maybe(Tenants), owner : Maybe(Tenants)]

\* The fields of an App
Apps ==
    [running : BOOLEAN, mode : Modes, focus : {"Sidebar", "Content"}, tab : Tabs,
     modal : Modals, tenants : Seq(Tenants), selected : Nat, active : Maybe(Tenants),
     rows : [Lists -> Maybe(Tenants)], settings : [Sections -> Maybe(Tenants)],
     token : Maybe(Tenants), live : BOOLEAN, saved : Maybe(Tenants),
     server : SUBSET Tenants, made : SUBSET (Tenants \X {"create_client", "create_user"}),
     sent : SUBSET Calls, faults : 0 .. MaxFaults]

\* The tenants an App knows of are on the server.
Known(a) ==
    /\ Master \in a.server /\ a.token \in Maybe(a.server) /\ a.saved \in Maybe(a.server)
    /\ Range(a.tenants) \subseteq a.server
    /\ a.selected = 0 \/ a.selected < Len(a.tenants)

\* A choice is one of the tenants that were offered.
ModeFits(m, server) ==
    /\ m.kind = "Login" => /\ Range(m.choices) \subseteq server
                           /\ m.idx = 0 \/ m.idx < Len(m.choices)
    /\ m.kind = "MfaChallenge" => m.slug \in server /\ m.issuer \in server

\* The dialog d may be open in a: over the login screen only two are, the
\* wizard has made what it says, and without faults the row a dialog is about
\* belongs to the active tenant.
Fits(d, a) ==
    /\ a.mode.kind # "Admin" => \/ d \in {NoModal, Alert}
                                \/ d.kind = "QuickStart" /\ d.part = 2
    /\ d.kind = "QuickStart" =>
          /\ d.part > 1 => d.owner \in a.server
          /\ d.part > 2 => <<d.owner, "create_client">> \in a.made
          /\ d.part > 3 => <<d.owner, "create_user">> \in a.made
    /\ d.kind = "PostCreateTenant" => d.owner \in a.server
    /\ a.faults = 0 /\ d.kind \notin {"None", "QuickStart", "PostCreateTenant"} =>
          d.owner \in {NoTenant, a.active}

\* A call about a row goes to the tenant of the row, as long as there are no faults.
SentScoped(a) ==
    a.faults = 0 => \A r \in a.sent : r.owner \in {NoTenant, r.tenant} \/ r.op = "put_settings"

\* And so do all rows but those of the audit log, which no call is about.
RowsScoped(a) ==
    a.faults = 0 => \A k \in Lists \ {"AuditLog"} : a.rows[k] \in {NoTenant, a.active}

\* All but RowsScoped, which does not hold in the middle of a switch.
Nearly(K) ==
    {a \in Apps : /\ Known(a) /\ ModeFits(a.mode, a.server) /\ Fits(a.modal, a)
                  /\ SentScoped(a) /\ Foreign(a) \subseteq K}

\* What every function of the terminal leaves, when K may be foreign.
Good(K) == {a \in Nearly(K) : RowsScoped(a)}

\* The inductive invariant.
TuiInv == app \in Good(ClearedOnSwitch)

-----------------------------------------------------------------------------
(* Changes that every function is made of *)

\* All that a call leaves alone
Same(a, b) ==
    /\ b.running = a.running /\ b.mode = a.mode /\ b.focus = a.focus /\ b.tab = a.tab
    /\ b.modal = a.modal /\ b.tenants = a.tenants /\ b.selected = a.selected
    /\ b.active = a.active /\ b.rows = a.rows /\ b.settings = a.settings
    /\ b.token = a.token /\ b.saved = a.saved /\ b.server = a.server /\ b.made = a.made
    /\ b.sent = a.sent /\ (b.faults = 0 => a.faults = 0)

LEMMA Constants ==
    /\ BlankLogin \in Modes /\ Admin \in Modes
    /\ BlankLogin.kind = "Login" /\ Admin.kind = "Admin"
    /\ BlankLogin.choices = <<>> /\ BlankLogin.idx = 0
    /\ NoModal \in Modals /\ Alert \in Modals /\ Wizard \in Modals
    /\ \A kind \in Kinds, owner \in Maybe(Tenants), filled \in SUBSET (0 .. 2) :
          Dialog(kind, owner, filled) \in Modals
    /\ \A step \in 1 .. 4, t \in Maybe(Tenants) : WizardAt(step, t) \in Modals
<1> USE TerminalAssumption DEF Maybe
<1>1. BlankLogin \in Modes /\ Admin \in Modes /\ BlankLogin.kind = "Login" /\ Admin.kind = "Admin"
      /\ BlankLogin.choices = <<>> /\ BlankLogin.idx = 0
  BY DEF Modes, BlankLogin, Login, Admin
<1>2. \A kind \in Kinds, owner \in Maybe(Tenants), filled \in SUBSET (0 .. 2) :
          Dialog(kind, owner, filled) \in Modals
  BY DEF Dialog, Modals
<1>3. {"None", "Error", "QuickStart"} \subseteq Kinds
  BY DEF Kinds
<1>4. NoModal \in Modals /\ Alert \in Modals /\ Wizard \in Modals
  <2>1. NoModal \in Modals /\ Alert \in Modals /\ Dialog("QuickStart", NoTenant, {1}) \in Modals
    BY <1>2, <1>3 DEF NoModal, Alert
  <2> DEFINE d == [Dialog("QuickStart", NoTenant, {1}) EXCEPT !.part = 1]
  <2>2. d \in Modals
    BY <2>1 DEF Modals
  <2>3. Wizard = [d EXCEPT !.filled = {}]
    BY DEF Wizard
  <2> HIDE DEF d
  <2>4. Wizard \in Modals
    BY <2>2, <2>3 DEF Modals
  <2> QED
    BY <2>1, <2>4
<1>5. ASSUME NEW step \in 1 .. 4, NEW t \in Maybe(Tenants)
      PROVE  WizardAt(step, t) \in Modals
  <2> DEFINE d == Dialog("QuickStart", t, IF step = 2 THEN {1} ELSE {})
  <2>1. d \in Modals
    BY <1>2, <1>3
  <2>2. WizardAt(step, t) = [d EXCEPT !.part = step]
    BY DEF WizardAt
  <2> QED
    BY <2>1, <2>2 DEF Modals
<1> QED
  BY <1>1, <1>2, <1>4, <1>5

\* A field may take any value of its type.
LEMMA FieldTypes ==
    /\ \A a \in Apps, v \in Modes : [a EXCEPT !.mode = v] \in Apps
    /\ \A a \in Apps, v \in {"Sidebar", "Content"} : [a EXCEPT !.focus = v] \in Apps
    /\ \A a \in Apps, v \in Tabs : [a EXCEPT !.tab = v] \in Apps
    /\ \A a \in Apps, v \in Modals : [a EXCEPT !.modal = v] \in Apps
    /\ \A a \in Apps, v \in Seq(Tenants) : [a EXCEPT !.tenants = v] \in Apps
    /\ \A a \in Apps, v \in Nat : [a EXCEPT !.selected = v] \in Apps
    /\ \A a \in Apps, v \in Maybe(Tenants) : [a EXCEPT !.active = v] \in Apps
    /\ \A a \in Apps, v \in [Lists -> Maybe(Tenants)] : [a EXCEPT !.rows = v] \in Apps
    /\ \A a \in Apps, v \in [Sections -> Maybe(Tenants)] : [a EXCEPT !.settings = v] \in Apps
    /\ \A a \in Apps, v \in Maybe(Tenants) : [a EXCEPT !.token = v] \in Apps
    /\ \A a \in Apps, v \in Maybe(Tenants) : [a EXCEPT !.saved = v] \in Apps
    /\ \A a \in Apps, v \in SUBSET Tenants : [a EXCEPT !.server = v] \in Apps
    /\ \A a \in Apps, v \in SUBSET (Tenants \X {"create_client", "create_user"}) :
          [a EXCEPT !.made = v] \in Apps
    /\ \A a \in Apps, v \in SUBSET Calls : [a EXCEPT !.sent = v] \in Apps
    /\ \A a \in Apps, v \in 0 .. MaxFaults : [a EXCEPT !.faults = v] \in Apps
<1>1. \A a \in Apps, v \in Modes : [a EXCEPT !.mode = v] \in Apps
  BY DEF Apps
<1>2. \A a \in Apps, v \in {"Sidebar", "Content"} : [a EXCEPT !.focus = v] \in Apps
  BY DEF Apps
<1>3. \A a \in Apps, v \in Tabs : [a EXCEPT !.tab = v] \in Apps
  BY DEF Apps
<1>4. \A a \in Apps, v \in Modals : [a EXCEPT !.modal = v] \in Apps
  BY DEF Apps
<1>5. \A a \in Apps, v \in Seq(Tenants) : [a EXCEPT !.tenants = v] \in Apps
  BY DEF Apps
<1>6. \A a \in Apps, v \in Nat : [a EXCEPT !.selected = v] \in Apps
  BY DEF Apps
<1>7. \A a \in Apps, v \in Maybe(Tenants) : [a EXCEPT !.active = v] \in Apps
  BY DEF Apps
<1>8. \A a \in Apps, v \in [Lists -> Maybe(Tenants)] : [a EXCEPT !.rows = v] \in Apps
  BY DEF Apps
<1>9. \A a \in Apps, v \in [Sections -> Maybe(Tenants)] : [a EXCEPT !.settings = v] \in Apps
  BY DEF Apps
<1>10. \A a \in Apps, v \in Maybe(Tenants) : [a EXCEPT !.token = v] \in Apps
  BY DEF Apps
<1>11. \A a \in Apps, v \in Maybe(Tenants) : [a EXCEPT !.saved = v] \in Apps
  BY DEF Apps
<1>12. \A a \in Apps, v \in SUBSET Tenants : [a EXCEPT !.server = v] \in Apps
  BY DEF Apps
<1>13. \A a \in Apps, v \in SUBSET (Tenants \X {"create_client", "create_user"}) : [a EXCEPT !.made = v] \in Apps
  BY DEF Apps
<1>14. \A a \in Apps, v \in SUBSET Calls : [a EXCEPT !.sent = v] \in Apps
  BY DEF Apps
<1>15. \A a \in Apps, v \in 0 .. MaxFaults : [a EXCEPT !.faults = v] \in Apps
  BY DEF Apps
<1> QED
  BY <1>1, <1>2, <1>3, <1>4, <1>5, <1>6, <1>7, <1>8, <1>9, <1>10, <1>11, <1>12, <1>13, <1>14, <1>15

LEMMA Dead == ASSUME NEW a \in Apps PROVE [a EXCEPT !.live = FALSE] \in Apps
BY DEF Apps

LEMMA Live == ASSUME NEW a \in Apps PROVE [a EXCEPT !.live = TRUE] \in Apps
BY DEF Apps

LEMMA Running == ASSUME NEW a \in Apps PROVE [a EXCEPT !.running = TRUE] \in Apps
BY DEF Apps

\* A dialog that fits may be opened.
LEMMA SetModal ==
    ASSUME NEW K, NEW a \in Good(K), NEW d \in Modals, Fits(d, a)
    PROVE  [a EXCEPT !.modal = d] \in Good(K)
<1> DEFINE b == [a EXCEPT !.modal = d]
<1>1. a \in Apps /\ b \in Apps
  BY DEF Good, Nearly, Apps
<1>2. b.modal = d /\ b.mode = a.mode /\ b.server = a.server /\ b.made = a.made /\ b.faults = a.faults
      /\ b.active = a.active /\ b.token = a.token /\ b.saved = a.saved /\ b.tenants = a.tenants
      /\ b.selected = a.selected /\ b.sent = a.sent /\ b.rows = a.rows
  BY <1>1 DEF Apps
<1> HIDE DEF b
<1>3. Known(b) /\ ModeFits(b.mode, b.server)
  BY <1>2 DEF Good, Nearly, Known
<1>4. Fits(b.modal, b)
  BY <1>2 DEF Fits
<1>5. SentScoped(b) /\ Foreign(b) \subseteq K /\ RowsScoped(b)
  BY <1>2 DEF Good, Nearly, SentScoped, Foreign, RowsScoped
<1> QED
  BY <1>1, <1>3, <1>4, <1>5 DEF b, Good, Nearly

\* No dialog and an error fit everywhere.
LEMMA PlainFits ==
    ASSUME NEW a
    PROVE  Fits(NoModal, a) /\ Fits(Alert, a)
BY DEF Fits, NoModal, Alert, Dialog

LEMMA PlainModal ==
    ASSUME NEW K, NEW a \in Good(K)
    PROVE  [a EXCEPT !.modal = NoModal] \in Good(K) /\ [a EXCEPT !.modal = Alert] \in Good(K)
BY PlainFits, SetModal, Constants

LEMMA NewAppGood ==
    ASSUME NEW K, NEW server \in SUBSET Tenants, Master \in server, NEW saved \in Maybe(server),
           NEW made \in SUBSET (Tenants \X {"create_client", "create_user"}), NEW faults \in 0 .. MaxFaults
    PROVE  NewApp(saved, server, made, faults) \in Good(K)
<1> DEFINE b == NewApp(saved, server, made, faults)
<1>1. b \in Apps
  BY Constants DEF NewApp, Apps, Maybe, Tabs, Lists
<1>2. b.modal = NoModal /\ b.mode = BlankLogin /\ b.server = server /\ b.faults = faults
      /\ b.active = NoTenant /\ b.token = NoTenant /\ b.saved = saved /\ b.tenants = <<>>
      /\ b.selected = 0 /\ b.sent = {} /\ b.rows = [k \in Lists |-> NoTenant]
  BY DEF NewApp
<1> HIDE DEF b
<1>3. Range(<<>>) = {}
  BY DEF Range
<1>4. Known(b) /\ ModeFits(b.mode, b.server) /\ Fits(b.modal, b) /\ SentScoped(b)
  BY <1>2, <1>3, PlainFits, Constants DEF Known, ModeFits, SentScoped, Maybe
<1>5. Foreign(b) = {} /\ RowsScoped(b)
  BY <1>2 DEF Foreign, RowsScoped, ClearedOnSwitch, Lists
<1> QED
  BY <1>1, <1>4, <1>5 DEF b, Good, Nearly

\* What is left alone by a call is what Nearly and Good speak of.
LEMMA SameGood ==
    ASSUME NEW K, NEW a \in Nearly(K), NEW b \in Apps, Same(a, b)
    PROVE  b \in Nearly(K) /\ (RowsScoped(a) => RowsScoped(b))
<1>1. Known(b) /\ ModeFits(b.mode, b.server)
  BY DEF Same, Nearly, Known
<1>2. Fits(b.modal, b)
  <2>1. Fits(a.modal, a)
    BY DEF Nearly
  <2> QED
    BY <2>1 DEF Same, Fits
<1>3. SentScoped(b) /\ Foreign(b) \subseteq K /\ (RowsScoped(a) => RowsScoped(b))
  BY DEF Same, Nearly, SentScoped, Foreign, RowsScoped
<1> QED
  BY <1>1, <1>2, <1>3 DEF Nearly

\* The answers there are
LEMMA AnswerForms ==
    ASSUME NEW a, NEW t, NEW r \in Answers(a, t)
    PROVE  \/ /\ r.app = a /\ r.reply \in {"ok", "refused", "unauthorized"}
              /\ r.reply = "ok" => Allowed(a, t)
           \/ /\ a.faults < MaxFaults /\ r.reply = "failed"
              /\ r.app = [a EXCEPT !.faults = @ + 1]
           \/ /\ a.faults < MaxFaults /\ r.reply = "unauthorized"
              /\ r.app = [[a EXCEPT !.faults = @ + 1] EXCEPT !.live = FALSE]
<1> DEFINE late == [a EXCEPT !.faults = @ + 1]
           R == IF Allowed(a, t) THEN {"ok", "refused"} ELSE {"unauthorized"}
           S == {[reply |-> q, app |-> a] : q \in R}
           x == [reply |-> "failed", app |-> late]
           y == [reply |-> "unauthorized", app |-> [late EXCEPT !.live = FALSE]]
<1>1. Answers(a, t) = S \cup IF a.faults < MaxFaults THEN {x, y} ELSE {}
  BY Zenon DEF Answers
<1>2. CASE r \in S
  <2>1. PICK q \in R : r = [reply |-> q, app |-> a]
    BY <1>2
  <2>2. q = "ok" => Allowed(a, t)
    OBVIOUS
  <2>3. q \in {"ok", "refused", "unauthorized"}
    OBVIOUS
  <2> HIDE DEF R
  <2> QED
    BY <2>1, <2>2, <2>3
<1>3. CASE a.faults < MaxFaults /\ r = x
  BY <1>3
<1>4. CASE a.faults < MaxFaults /\ r = y
  BY <1>4
<1> HIDE DEF S, x, y
<1> QED
  BY <1>1, <1>2, <1>3, <1>4

\* A call changes at most the faults and the session.
LEMMA Answering ==
    ASSUME NEW K, NEW a \in Nearly(K), NEW t, NEW r \in Answers(a, t)
    PROVE  /\ r.app \in Nearly(K) /\ Same(a, r.app) /\ (RowsScoped(a) => RowsScoped(r.app))
           /\ r.reply \in {"ok", "refused", "unauthorized", "failed"}
           /\ r.reply = "ok" => Allowed(a, t) /\ r.app = a
<1> USE TerminalAssumption
<1> DEFINE late == [a EXCEPT !.faults = @ + 1]
           dead == [late EXCEPT !.live = FALSE]
<1>1. a \in Apps /\ Same(a, a)
  BY DEF Nearly, Same
<1>2. ASSUME a.faults < MaxFaults PROVE late \in Apps /\ Same(a, late)
  <2>1. a.faults + 1 \in 0 .. MaxFaults
    BY <1>1, <1>2 DEF Apps
  <2>2. late \in Apps
    BY <1>1, <2>1, FieldTypes, Zenon
  <2>3. Same(a, late)
    BY <1>1, <1>2 DEF Apps, Same
  <2> QED
    BY <2>2, <2>3
<1>3. ASSUME a.faults < MaxFaults PROVE dead \in Apps /\ Same(a, dead)
  <2> HIDE DEF late
  <2>1. dead \in Apps
    BY <1>2, <1>3, Dead
  <2>2. Same(late, dead)
    BY <1>2, <1>3 DEF Apps, Same
  <2> QED
    BY <1>2, <1>3, <2>1, <2>2 DEF Same
<1>4. /\ r.app \in Apps /\ Same(a, r.app)
      /\ r.reply \in {"ok", "refused", "unauthorized", "failed"}
      /\ r.reply = "ok" => Allowed(a, t) /\ r.app = a
  <2> HIDE DEF late, dead
  <2>1. \/ /\ r.app = a /\ r.reply \in {"ok", "refused", "unauthorized"}
           /\ r.reply = "ok" => Allowed(a, t)
        \/ a.faults < MaxFaults /\ r.reply = "failed" /\ r.app = late
        \/ a.faults < MaxFaults /\ r.reply = "unauthorized" /\ r.app = dead
    BY AnswerForms, Zenon DEF late, dead
  <2> QED
    BY <1>1, <1>2, <1>3, <2>1
<1> QED
  BY <1>4, SameGood

LEMMA AnsweringGood ==
    ASSUME NEW K, NEW a \in Good(K), NEW t, NEW r \in Answers(a, t)
    PROVE  /\ r.app \in Good(K) /\ Same(a, r.app)
           /\ r.reply \in {"ok", "refused", "unauthorized", "failed"}
           /\ r.reply = "ok" => Allowed(a, t) /\ r.app = a
BY Answering DEF Good

\* A call about a row of the active tenant is noted.
LEMMA Sending ==
    ASSUME NEW K, NEW a \in Good(K), NEW op \in Ops, NEW owner \in Maybe(Tenants),
           a.faults = 0 => owner \in {NoTenant, a.active} \/ op = "put_settings"
    PROVE  LET b == Send(a, op, owner)
           IN  /\ b \in Good(K) /\ b.mode = a.mode /\ b.modal = a.modal /\ b.active = a.active
               /\ b.token = a.token /\ b.server = a.server /\ b.made = a.made /\ b.tab = a.tab /\ b.faults = a.faults
<1> DEFINE c == [op |-> op, tenant |-> a.active, owner |-> owner]
           b == Send(a, op, owner)
<1>1. a \in Apps
  BY DEF Good, Nearly
<1>2. c \in Calls /\ c.op = op /\ c.tenant = a.active /\ c.owner = owner
  BY <1>1 DEF Apps, Calls
<1>3. b = [a EXCEPT !.sent = @ \cup {c}]
  BY DEF Send
<1> HIDE DEF b, c
<1>4. b \in Apps
  BY <1>1, <1>2, <1>3 DEF Apps
<1>5. b.modal = a.modal /\ b.mode = a.mode /\ b.server = a.server /\ b.made = a.made /\ b.faults = a.faults
      /\ b.active = a.active /\ b.token = a.token /\ b.saved = a.saved /\ b.tenants = a.tenants /\ b.tab = a.tab
      /\ b.selected = a.selected /\ b.sent = a.sent \cup {c} /\ b.rows = a.rows
  BY <1>1, <1>3 DEF Apps
<1>6. SentScoped(b)
  BY <1>2, <1>5 DEF Good, Nearly, SentScoped
<1>7. b \in Good(K)
  BY <1>4, <1>5, <1>6 DEF Good, Nearly, Known, Fits, Foreign, RowsScoped
<1> QED
  BY <1>5, <1>7 DEF b

-----------------------------------------------------------------------------
(* The functions that load lists *)

\* Nothing is fetched from the server but by a call.
LEMMA Fetching ==
    ASSUME NEW K, NEW a \in Nearly(K), NEW t, NEW r \in Fetches(a, t)
    PROVE  /\ r \in Answers(a, t) /\ r.reply \in {"ok", "unauthorized", "failed"}
           /\ r.app \in Nearly(K) /\ Same(a, r.app) /\ (RowsScoped(a) => RowsScoped(r.app))
           /\ r.reply = "ok" => Allowed(a, t) /\ r.app = a /\ a.token # NoTenant
<1>1. r \in Answers(a, t) /\ r.reply # "refused"
  BY Zenon DEF Fetches
<1> QED
  BY <1>1, Answering DEF Allowed

\* Whatever there was, the login screen shows no rows.
LEMMA Resetting ==
    ASSUME NEW K, NEW a \in Nearly(K)
    PROVE  LET b == ResetToLogin(a)
           IN  b \in Good(K) /\ b.token = NoTenant /\ b.server = a.server
<1> DEFINE rows == [k \in Lists |-> IF k = "AuditLog" THEN a.rows[k] ELSE NoTenant]
           b == ResetToLogin(a)
<1>1. a \in Apps
  BY DEF Nearly
<1>2. rows \in [Lists -> Maybe(Tenants)] /\ \A k \in Lists \ {"AuditLog"} : rows[k] = NoTenant
  BY <1>1 DEF Apps, Maybe
<1>3. b = [a EXCEPT !.saved = NoTenant, !.token = NoTenant, !.live = FALSE, !.mode = BlankLogin,
                    !.active = NoTenant, !.modal = NoModal, !.rows = rows]
  BY <1>1 DEF ResetToLogin, Apps
<1> HIDE DEF rows, b
<1>4. b \in Apps
  <2>1. NoTenant \in Maybe(Tenants) /\ BlankLogin \in Modes /\ NoModal \in Modals
    BY Constants DEF Maybe
  <2> DEFINE b1 == [a EXCEPT !.saved = NoTenant, !.token = NoTenant]
             b2 == [b1 EXCEPT !.live = FALSE]
  <2>2. b1 \in Apps
    BY <1>1, <2>1, FieldTypes
  <2>3. b2 \in Apps
    <3> HIDE DEF b1
    <3> QED
      BY <2>2, Dead
  <2>4. b = [b2 EXCEPT !.mode = BlankLogin, !.active = NoTenant, !.modal = NoModal, !.rows = rows]
    BY <1>3, Zenon
  <2> HIDE DEF b1, b2
  <2> QED
    BY <1>2, <2>1, <2>3, <2>4, FieldTypes
<1>5. /\ b.saved = NoTenant /\ b.token = NoTenant /\ b.mode = BlankLogin /\ b.active = NoTenant
      /\ b.modal = NoModal /\ b.rows = rows /\ b.server = a.server /\ b.tenants = a.tenants
      /\ b.selected = a.selected /\ b.sent = a.sent /\ b.faults = a.faults
  BY <1>1, <1>3 DEF Apps
<1>6. Known(b)
  BY <1>5 DEF Nearly, Known, Maybe
<1>7. ModeFits(b.mode, b.server)
  BY <1>5, Constants DEF ModeFits, Range
<1>8. Fits(b.modal, b) /\ SentScoped(b)
  BY <1>5, PlainFits DEF Nearly, SentScoped
<1>9. Foreign(b) = {} /\ RowsScoped(b)
  BY <1>2, <1>5 DEF Foreign, RowsScoped, ClearedOnSwitch, Lists
<1> QED
  BY <1>4, <1>5, <1>6, <1>7, <1>8, <1>9 DEF b, Good, Nearly

\* Sets of failures are finite.
LEMMA FailuresCounted ==
    ASSUME NEW F \in SUBSET Lists
    PROVE  Cardinality(F) \in Nat /\ (Cardinality(F) = 0 => F = {})
<1>1. IsFiniteSet(Lists)
  <2>1. \A x : IsFiniteSet({x})
    BY FS_Singleton
  <2>2. \A S, T : IsFiniteSet(S) /\ IsFiniteSet(T) => IsFiniteSet(S \cup T)
    BY FS_Union
  <2>3. Lists = {"Clients"} \cup ({"Users"} \cup ({"Roles"} \cup ({"Permissions"} \cup
                 ({"Sessions"} \cup ({"IdentityProviders"} \cup {"AuditLog"})))))
    BY DEF Lists
  <2> QED
    BY <2>1, <2>2, <2>3, Zenon
<1> QED
  BY <1>1, FS_Subset, FS_CardinalityType, FS_EmptySet

\* load_all leaves rows of the active tenant, where it leaves any, even if the
\* tenant has just become active.
LEMMA LoadingAll ==
    ASSUME NEW K, NEW a \in Nearly(K), a.active = NoTenant => RowsScoped(a), NEW c \in LoadAll(a)
    PROVE  /\ c \in Good(K) /\ c.server = a.server
           /\ c.token # NoTenant => c.mode = a.mode /\ c.active = a.active
<1> USE TerminalAssumption
<1>1. a \in Apps /\ a.active \in Maybe(Tenants)
  BY DEF Nearly, Apps
<1>2. CASE a.active = NoTenant
  <2>1. c = a
    BY <1>2, Zenon DEF LoadAll
  <2> QED
    BY <1>2, <2>1 DEF Good
<1>3. CASE a.active # NoTenant
  <2> DEFINE Loaded(failed) ==
                LET Before(k) == \E i \in DOMAIN Awaited :
                        /\ Awaited[i] = k
                        /\ \A j \in 1 .. i : Awaited[j] \notin failed
                    early == \E i \in DOMAIN Awaited : Awaited[i] \in failed
                IN  {k \in Lists \ failed : Before(k) \/ (~early /\ k \notin Range(Awaited))}
             After(F) == [a EXCEPT !.rows = [k \in Lists |->
                              IF k \in Loaded(F) THEN a.active ELSE a.rows[k]],
                          !.faults = a.faults + Cardinality(F)]
             Failing == {F \in SUBSET Lists : Cardinality(F) <= MaxFaults - a.faults}
  <2>1. PICK r \in Fetches(a, a.active) :
           \/ r.reply = "ok" /\ c \in {After(F) : F \in Failing}
           \/ r.reply = "unauthorized" /\ c = ResetToLogin(r.app)
    <3>1. PICK r \in Fetches(a, a.active) :
             c \in CASE r.reply = "ok" -> {After(F) : F \in Failing}
                     [] r.reply = "unauthorized" -> {ResetToLogin(r.app)}
                     [] OTHER -> {}
      BY <1>3, Zenon DEF LoadAll
    <3> HIDE DEF After, Failing
    <3> QED
      BY <3>1
  <2>2. CASE r.reply = "unauthorized" /\ c = ResetToLogin(r.app)
    BY <2>2, Fetching, Resetting DEF Same
  <2>3. CASE c \in {After(F) : F \in Failing}
    <3>1. PICK F \in Failing : c = After(F)
      <4> HIDE DEF After, Failing
      <4> QED
        BY <2>3
    <3>2. F \in SUBSET Lists /\ Cardinality(F) \in Nat /\ (Cardinality(F) = 0 => F = {})
          /\ a.faults + Cardinality(F) \in 0 .. MaxFaults
      <4>1. F \in SUBSET Lists /\ Cardinality(F) <= MaxFaults - a.faults
        BY <3>1
      <4>2. a.faults \in 0 .. MaxFaults
        BY <1>1 DEF Apps
      <4> QED
        BY <4>1, <4>2, FailuresCounted
    <3> DEFINE L == Loaded(F)
               rows == [k \in Lists |-> IF k \in L THEN a.active ELSE a.rows[k]]
               n == a.faults + Cardinality(F)
    <3>3. F = {} => L = Lists
      <4> SUFFICES ASSUME F = {}, NEW k \in Lists PROVE k \in L
        OBVIOUS
      <4>1. CASE k \in Range(Awaited)
        BY <4>1 DEF Range
      <4>2. CASE k \notin Range(Awaited)
        BY <4>2
      <4> QED
        BY <4>1, <4>2
    <3>4. c = [a EXCEPT !.rows = rows, !.faults = n]
      BY <3>1, Zenon
    <3> HIDE DEF L, Loaded, After
    <3>5. rows \in [Lists -> Maybe(Tenants)]
      BY <1>1 DEF Apps
    <3>6. \A k \in Lists : rows[k] \in {a.active, a.rows[k]} /\ (F = {} => rows[k] = a.active)
      BY <3>3
    <3>7. n \in 0 .. MaxFaults /\ (n = 0 => a.faults = 0 /\ F = {})
      <4>1. a.faults \in Nat
        BY <1>1 DEF Apps
      <4> QED
        BY <3>2, <4>1
    <3> HIDE DEF rows, n
    <3>8. c \in Apps
      BY <1>1, <3>4, <3>5, <3>7, FieldTypes
    <3>9. /\ c.mode = a.mode /\ c.modal = a.modal /\ c.tenants = a.tenants /\ c.selected = a.selected
          /\ c.active = a.active /\ c.token = a.token /\ c.saved = a.saved /\ c.server = a.server
          /\ c.made = a.made /\ c.sent = a.sent /\ c.rows = rows /\ c.faults = n
      BY <1>1, <3>4 DEF Apps
    <3>10. Known(c) /\ ModeFits(c.mode, c.server) /\ SentScoped(c)
      BY <3>7, <3>9 DEF Nearly, Known, SentScoped
    <3>11. Fits(c.modal, c)
      <4>1. Fits(a.modal, a)
        BY DEF Nearly
      <4> QED
        BY <3>7, <3>9, <4>1 DEF Fits
    <3>12. Foreign(c) \subseteq Foreign(a)
      <4>1. ClearedOnSwitch \subseteq Lists
        BY DEF ClearedOnSwitch, Lists
      <4> QED
        BY <3>6, <3>9, <4>1 DEF Foreign
    <3>13. RowsScoped(c)
      BY <3>6, <3>7, <3>9 DEF RowsScoped
    <3> QED
      BY <3>8, <3>9, <3>10, <3>11, <3>12, <3>13 DEF Good, Nearly
  <2> HIDE DEF Loaded, After, Failing
  <2> QED
    BY <2>1, <2>2, <2>3
<1> QED
  BY <1>2, <1>3

\* A list may be emptied or filled with rows of the active tenant.
Filled(a, k, t) == [a EXCEPT !.rows[k] = t]

LEMMA SetRows ==
    ASSUME NEW K, NEW a \in Good(K), NEW k \in Lists, NEW t \in {NoTenant, a.active}
    PROVE  LET b == Filled(a, k, t)
           IN  /\ b \in Good(K) /\ b.mode = a.mode /\ b.modal = a.modal /\ b.active = a.active
               /\ b.token = a.token /\ b.server = a.server /\ b.made = a.made /\ b.faults = a.faults
<1> DEFINE rows == [a.rows EXCEPT ![k] = t]
           b == Filled(a, k, t)
<1>1. a \in Apps /\ a.rows \in [Lists -> Maybe(Tenants)] /\ a.active \in Maybe(Tenants)
  BY DEF Good, Nearly, Apps
<1>2. rows \in [Lists -> Maybe(Tenants)] /\ \A i \in Lists : rows[i] \in {NoTenant, a.active, a.rows[i]}
  BY <1>1 DEF Maybe
<1>3. b = [a EXCEPT !.rows = rows]
  BY <1>1 DEF Apps, Filled
<1> HIDE DEF rows, b
<1>4. b \in Apps
  BY <1>1, <1>2, <1>3, FieldTypes
<1>5. b.modal = a.modal /\ b.mode = a.mode /\ b.server = a.server /\ b.made = a.made /\ b.faults = a.faults
      /\ b.active = a.active /\ b.token = a.token /\ b.saved = a.saved /\ b.tenants = a.tenants
      /\ b.selected = a.selected /\ b.sent = a.sent /\ b.rows = rows
  BY <1>1, <1>3 DEF Apps
<1>6. Known(b) /\ ModeFits(b.mode, b.server) /\ SentScoped(b)
  BY <1>5 DEF Good, Nearly, Known, SentScoped
<1>7. Fits(b.modal, b)
  <2>1. Fits(a.modal, a)
    BY DEF Good, Nearly
  <2> QED
    BY <1>5, <2>1 DEF Fits
<1>8. Foreign(b) \subseteq Foreign(a)
  <2>1. ClearedOnSwitch \subseteq Lists
    BY DEF ClearedOnSwitch, Lists
  <2> QED
    BY <1>2, <1>5, <2>1 DEF Foreign
<1>9. RowsScoped(b)
  BY <1>2, <1>5 DEF Good, RowsScoped
<1> QED
  BY <1>4, <1>5, <1>6, <1>7, <1>8, <1>9 DEF b, Good, Nearly

LEMMA LoadingList ==
    ASSUME NEW K, NEW a \in Good(K), NEW k \in Lists
    PROVE  LoadList(a, k) \subseteq Good(K)
<1> DEFINE cleared == Filled(a, k, NoTenant)
           Loaded(b) == Filled(b, k, a.active)
<1>1. cleared \in Good(K) /\ cleared.active = a.active
  BY SetRows
<1> SUFFICES ASSUME NEW c \in LoadList(a, k) PROVE c \in Good(K)
  OBVIOUS
<1>2. PICK r \in Fetches(cleared, a.active) : c = IF r.reply = "ok" THEN Loaded(r.app) ELSE OnLoadErr(r)
  BY Zenon DEF LoadList, Filled
<1> HIDE DEF cleared, Loaded
<1>3. cleared \in Nearly(K) /\ RowsScoped(cleared)
  BY <1>1 DEF Good
<1>4. r.app \in Nearly(K) /\ r.app \in Good(K) /\ Same(cleared, r.app)
  BY <1>3, Fetching DEF Good
<1>5. Loaded(r.app) \in Good(K)
  <2>1. a.active \in {NoTenant, r.app.active}
    BY <1>1, <1>4 DEF Same
  <2> QED
    BY <1>4, <2>1, SetRows DEF Loaded
<1>6. OnLoadErr(r) \in Good(K)
  BY <1>4, Resetting DEF OnLoadErr
<1> QED
  BY <1>2, <1>5, <1>6

LEMMA LoadingSettings ==
    ASSUME NEW K, NEW a \in Good(K)
    PROVE  LoadSettings(a) \subseteq Good(K)
<1> SUFFICES ASSUME NEW c \in LoadSettings(a) PROVE c \in Good(K)
  OBVIOUS
<1> USE TerminalAssumption
<1> DEFINE After(F) == [a EXCEPT !.settings = [s \in Sections |-> IF s \in F THEN a.settings[s] ELSE a.active],
                                 !.faults = a.faults + Cardinality(F)]
           Failing == {F \in SUBSET Sections : Cardinality(F) <= MaxFaults - a.faults}
<1>1. c = a \/ c \in {After(F) : F \in Failing}
  BY Zenon DEF LoadSettings
<1>2. CASE c = a
  BY <1>2
<1>3. CASE c \in {After(F) : F \in Failing}
  <2>1. PICK F \in Failing : c = After(F)
    <3> HIDE DEF After, Failing
    <3> QED
      BY <1>3
  <2>2. a \in Apps /\ a.active \in Maybe(Tenants) /\ a.settings \in [Sections -> Maybe(Tenants)]
        /\ a.faults \in 0 .. MaxFaults
    BY DEF Good, Nearly, Apps
  <2>3. Cardinality(F) \in Nat
    <3>1. 0 \in Int /\ 4 \in Int
      OBVIOUS
    <3>2. IsFiniteSet(Sections)
      BY <3>1, FS_Interval, Zenon DEF Sections
    <3>3. F \subseteq Sections
      OBVIOUS
    <3> QED
      BY <3>2, <3>3, FS_Subset, FS_CardinalityType
  <2> DEFINE settings == [s \in Sections |-> IF s \in F THEN a.settings[s] ELSE a.active]
             n == a.faults + Cardinality(F)
  <2>4. settings \in [Sections -> Maybe(Tenants)]
    BY <2>2
  <2>5. n \in 0 .. MaxFaults /\ (n = 0 => a.faults = 0)
    BY <2>2, <2>3
  <2>6. c = [a EXCEPT !.settings = settings, !.faults = n]
    BY <2>1, Zenon
  <2> HIDE DEF settings, n, After, Failing
  <2>7. c \in Apps
    BY <2>2, <2>4, <2>5, <2>6, FieldTypes
  <2>8. /\ c.mode = a.mode /\ c.modal = a.modal /\ c.tenants = a.tenants /\ c.selected = a.selected
        /\ c.active = a.active /\ c.token = a.token /\ c.saved = a.saved /\ c.server = a.server
        /\ c.made = a.made /\ c.sent = a.sent /\ c.rows = a.rows /\ c.faults = n
    BY <2>2, <2>6 DEF Apps
  <2>9. Known(c) /\ ModeFits(c.mode, c.server) /\ SentScoped(c)
    BY <2>5, <2>8 DEF Good, Nearly, Known, SentScoped
  <2>10. Fits(c.modal, c)
    <3>1. Fits(a.modal, a)
      BY DEF Good, Nearly
    <3> QED
      BY <2>5, <2>8, <3>1 DEF Fits
  <2>11. Foreign(c) \subseteq K /\ RowsScoped(c)
    BY <2>5, <2>8 DEF Good, Nearly, Foreign, RowsScoped
  <2> QED
    BY <2>7, <2>9, <2>10, <2>11 DEF Good, Nearly
<1> HIDE DEF After, Failing
<1> QED
  BY <1>1, <1>2, <1>3

LEMMA LoadingTab ==
    ASSUME NEW K, NEW a \in Good(K)
    PROVE  LoadCurrentTab(a) \subseteq Good(K)
<1>1. a.tab \in Tabs
  BY DEF Good, Nearly, Apps
<1> QED
  BY <1>1, LoadingList, LoadingSettings DEF LoadCurrentTab, Tabs

\* The orders in which a set of tenants may be listed.
LEMMA Listing ==
    ASSUME NEW S \in SUBSET Tenants, NEW list \in SetToSeqs(S)
    PROVE  /\ list \in Seq(Tenants) /\ Range(list) \subseteq S
           /\ Len(list) = Cardinality(S) /\ (S # {} => Len(list) > 0)
<1>1. IsFiniteSet(S) /\ Cardinality(S) \in Nat /\ (S # {} => Cardinality(S) > 0)
  BY TerminalAssumption, FS_Subset, FS_CardinalityType, FS_EmptySet
<1>2. list \in [1 .. Cardinality(S) -> S]
  BY DEF SetToSeqs
<1>3. list \in Seq(Tenants) /\ Len(list) = Cardinality(S) /\ DOMAIN list = 1 .. Cardinality(S)
  BY <1>1, <1>2
<1>4. Range(list) \subseteq S
  BY <1>2, <1>3 DEF Range
<1> QED
  BY <1>1, <1>3, <1>4

\* load_tenants: the cursor stays on the list.
LEMMA LoadingTenants ==
    ASSUME NEW K, NEW a \in Good(K), NEW c \in LoadTenants(a)
    PROVE  /\ c \in Good(K) /\ c.mode = a.mode /\ c.modal = a.modal /\ c.active = a.active
           /\ c.token = a.token /\ c.server = a.server
<1> DEFINE visible(b) == IF b.token = Master THEN b.server ELSE {b.token}
           Listed(b, list) == [b EXCEPT !.tenants = list,
                                        !.selected = IF @ < Len(list) THEN @ ELSE Len(list) - 1]
<1>1. PICK r \in Fetches(a, NoTenant) :
         c \in IF r.reply = "ok" THEN {Listed(r.app, list) : list \in SetToSeqs(visible(r.app))}
               ELSE {r.app}
  BY Zenon DEF LoadTenants
<1> HIDE DEF visible, Listed
<1>2. a \in Nearly(K) /\ a \in Apps /\ RowsScoped(a)
  BY DEF Good, Nearly
<1>3. r.app \in Good(K) /\ Same(a, r.app) /\ (r.reply = "ok" => r.app = a /\ a.token # NoTenant)
  BY <1>2, Fetching DEF Good
<1>4. CASE r.reply # "ok"
  BY <1>1, <1>3, <1>4 DEF Same
<1>5. CASE r.reply = "ok"
  <2>1. PICK list \in SetToSeqs(visible(a)) : c = Listed(a, list)
    BY <1>1, <1>3, <1>5
  <2>2. visible(a) \in SUBSET a.server /\ visible(a) # {} /\ a.server \in SUBSET Tenants
    BY <1>2, <1>3, <1>5 DEF Nearly, Known, visible, Apps, Maybe
  <2>3. list \in Seq(Tenants) /\ Range(list) \subseteq a.server /\ Len(list) > 0 /\ Len(list) \in Nat
    BY <2>1, <2>2, Listing
  <2> DEFINE n == IF a.selected < Len(list) THEN a.selected ELSE Len(list) - 1
  <2>4. n \in Nat /\ n < Len(list)
    BY <1>2, <2>3 DEF Apps
  <2>5. c = [a EXCEPT !.tenants = list, !.selected = n]
    BY <1>2, <2>1 DEF Apps, Listed
  <2> HIDE DEF n
  <2>6. c \in Apps
    BY <1>2, <2>3, <2>4, <2>5, FieldTypes
  <2>7. /\ c.mode = a.mode /\ c.modal = a.modal /\ c.tenants = list /\ c.selected = n
        /\ c.active = a.active /\ c.token = a.token /\ c.saved = a.saved /\ c.server = a.server
        /\ c.made = a.made /\ c.sent = a.sent /\ c.rows = a.rows /\ c.faults = a.faults
    BY <1>2, <2>5 DEF Apps
  <2>8. Known(c) /\ ModeFits(c.mode, c.server) /\ SentScoped(c)
    BY <2>3, <2>4, <2>7 DEF Good, Nearly, Known, SentScoped
  <2>9. Fits(c.modal, c)
    <3>1. Fits(a.modal, a)
      BY DEF Good, Nearly
    <3> QED
      BY <2>7, <3>1 DEF Fits
  <2>10. Foreign(c) \subseteq K /\ RowsScoped(c)
    BY <2>7 DEF Good, Nearly, Foreign, RowsScoped
  <2> QED
    BY <2>6, <2>7, <2>8, <2>9, <2>10 DEF Good, Nearly
<1> QED
  BY <1>4, <1>5

-----------------------------------------------------------------------------
(* The functions that perform what a dialog asked for *)

\* Whoever signs in does so to a tenant of the server, and is shown the
\* dialog that was left open.
LEMMA SigningIn ==
    ASSUME NEW K, NEW a \in Good(K), NEW tenant \in a.server, NEW c \in SignIn(a, tenant)
    PROVE  c \in Good(K) /\ c.mode = Admin
<1> DEFINE At(accepted) == [a EXCEPT !.token = tenant, !.live = accepted, !.saved = tenant, !.mode = Admin]
<1>1. PICK accepted \in {TRUE, tenant = Master} : c \in LoadTenants(At(accepted))
  <2> HIDE DEF At
  <2> QED
    BY Zenon DEF SignIn, At
<1>2. accepted = TRUE \/ accepted = FALSE
  BY Zenon
<1>3. a \in Apps /\ tenant \in Maybe(Tenants)
  BY DEF Good, Nearly, Apps, Maybe
<1> DEFINE b1 == [a EXCEPT !.token = tenant]
           b2 == [b1 EXCEPT !.live = accepted]
           b == At(accepted)
<1>4. b2 \in Apps
  <2>1. b1 \in Apps
    BY <1>3, FieldTypes
  <2> HIDE DEF b1
  <2>2. CASE accepted = TRUE
    BY <2>1, <2>2, Live
  <2>3. CASE accepted = FALSE
    BY <2>1, <2>3, Dead
  <2> QED
    BY <1>2, <2>2, <2>3
<1>5. b = [b2 EXCEPT !.saved = tenant, !.mode = Admin]
  BY Zenon
<1>6. b.token = tenant /\ b.saved = tenant /\ b.mode = Admin /\ b.modal = a.modal /\ b.server = a.server
      /\ b.made = a.made /\ b.faults = a.faults /\ b.active = a.active /\ b.tenants = a.tenants
      /\ b.selected = a.selected /\ b.sent = a.sent /\ b.rows = a.rows
  <2>1. b1.token = tenant /\ b1.modal = a.modal /\ b1.server = a.server
        /\ b1.made = a.made /\ b1.faults = a.faults /\ b1.active = a.active /\ b1.tenants = a.tenants
        /\ b1.selected = a.selected /\ b1.sent = a.sent /\ b1.rows = a.rows
    BY <1>3 DEF Apps
  <2>4. b1 \in Apps
    BY <1>3, FieldTypes
  <2> HIDE DEF b1
  <2>2. b2.token = tenant /\ b2.modal = b1.modal /\ b2.server = b1.server
        /\ b2.made = b1.made /\ b2.faults = b1.faults /\ b2.active = b1.active /\ b2.tenants = b1.tenants
        /\ b2.selected = b1.selected /\ b2.sent = b1.sent /\ b2.rows = b1.rows
    BY <2>1, <2>4 DEF Apps
  <2> HIDE DEF b2, b
  <2>3. b.token = b2.token /\ b.saved = tenant /\ b.mode = Admin /\ b.modal = b2.modal /\ b.server = b2.server
        /\ b.made = b2.made /\ b.faults = b2.faults /\ b.active = b2.active /\ b.tenants = b2.tenants
        /\ b.selected = b2.selected /\ b.sent = b2.sent /\ b.rows = b2.rows
    BY <1>4, <1>5 DEF Apps
  <2> QED
    BY <2>1, <2>2, <2>3
<1> HIDE DEF b1, b2
<1>7. b \in Apps
  BY <1>3, <1>4, <1>5, Constants, FieldTypes
<1> HIDE DEF At, b
<1>8. Known(b) /\ ModeFits(b.mode, b.server) /\ SentScoped(b)
  BY <1>6, Constants DEF Good, Nearly, Known, ModeFits, SentScoped, Maybe
<1>9. Fits(b.modal, b)
  <2>1. Fits(a.modal, a)
    BY DEF Good, Nearly
  <2> QED
    BY <1>6, <2>1, Constants DEF Fits
<1>10. Foreign(b) \subseteq K /\ RowsScoped(b)
  BY <1>6 DEF Good, Nearly, Foreign, RowsScoped
<1>11. b \in Good(K)
  BY <1>7, <1>8, <1>9, <1>10 DEF Good, Nearly
<1> QED
  BY <1>1, <1>6, <1>11, LoadingTenants DEF b

\* A call that makes something has one answer more: it failed and did it all the same.
LEMMA Created ==
    ASSUME NEW K, NEW a \in Good(K), NEW t \in Tenants
    PROVE  LET b == [a EXCEPT !.server = @ \cup {t}]
           IN  /\ b \in Good(K) /\ b.mode = a.mode /\ b.modal = a.modal /\ b.active = a.active
               /\ t \in b.server /\ b.faults = a.faults /\ b.made = a.made
<1> DEFINE b == [a EXCEPT !.server = @ \cup {t}]
           server == a.server \cup {t}
<1>1. a \in Apps /\ server \in SUBSET Tenants
  BY DEF Good, Nearly, Apps
<1>2. b = [a EXCEPT !.server = server]
  BY <1>1 DEF Apps
<1>3. a.server \subseteq server /\ t \in server
  OBVIOUS
<1> HIDE DEF b, server
<1>4. b \in Apps
  BY <1>1, <1>2, FieldTypes
<1>5. b.modal = a.modal /\ b.mode = a.mode /\ b.server = server /\ b.made = a.made /\ b.faults = a.faults
      /\ b.active = a.active /\ b.token = a.token /\ b.saved = a.saved /\ b.tenants = a.tenants
      /\ b.selected = a.selected /\ b.sent = a.sent /\ b.rows = a.rows
  BY <1>1, <1>2 DEF Apps
<1>6. Known(b) /\ ModeFits(b.mode, b.server) /\ SentScoped(b)
  BY <1>3, <1>5 DEF Good, Nearly, Known, ModeFits, SentScoped, Maybe
<1>7. Fits(b.modal, b)
  <2>1. Fits(a.modal, a)
    BY DEF Good, Nearly
  <2> QED
    BY <1>3, <1>5, <2>1 DEF Fits
<1>8. Foreign(b) \subseteq K /\ RowsScoped(b)
  BY <1>5 DEF Good, Nearly, Foreign, RowsScoped
<1> QED
  BY <1>3, <1>4, <1>5, <1>6, <1>7, <1>8 DEF b, Good, Nearly

\* A call may always fail.
LEMMA Failing ==
    ASSUME NEW K, NEW a \in Good(K), a.faults < MaxFaults
    PROVE  [a EXCEPT !.faults = @ + 1] \in Good(K)
<1> DEFINE r == [reply |-> "failed", app |-> [a EXCEPT !.faults = @ + 1]]
<1>1. r \in Answers(a, NoTenant)
  BY Zenon DEF Answers
<1> QED
  BY <1>1, AnsweringGood

\* submit: the call is noted; an answer other than "ok" opens an error.
LEMMA Submitting ==
    ASSUME NEW K, NEW a \in Good(K), NEW op \in Ops, NEW owner \in Maybe(Tenants),
           a.faults = 0 => owner \in {NoTenant, a.active} \/ op = "put_settings",
           NEW r \in Answers(Send(a, op, owner), a.active)
    PROVE  /\ r.app \in Good(K) /\ [r.app EXCEPT !.modal = Alert] \in Good(K)
           /\ r.app.mode = a.mode /\ r.app.modal = a.modal /\ r.app.active = a.active
           /\ r.app.server = a.server /\ r.app.made = a.made /\ (r.app.faults = 0 => a.faults = 0)
<1> DEFINE b == Send(a, op, owner)
<1>1. b \in Good(K) /\ b.mode = a.mode /\ b.modal = a.modal /\ b.active = a.active
      /\ b.server = a.server /\ b.made = a.made /\ b.faults = a.faults
  BY Sending
<1> HIDE DEF b
<1>2. r.app \in Good(K) /\ Same(b, r.app)
  BY <1>1, AnsweringGood DEF b
<1>3. [r.app EXCEPT !.modal = Alert] \in Good(K)
  BY <1>2, PlainModal
<1> QED
  BY <1>1, <1>2, <1>3 DEF Same

\* Most of them load all lists again.
LoadAfter(a, op, owner) == Submit(a, op, owner, LoadAll)

LEMMA LoadingAfter ==
    ASSUME NEW K, NEW a \in Good(K), NEW op \in Ops, NEW owner \in Maybe(Tenants),
           a.faults = 0 => owner \in {NoTenant, a.active}
    PROVE  LoadAfter(a, op, owner) \subseteq Good(K)
<1> SUFFICES ASSUME NEW c \in LoadAfter(a, op, owner) PROVE c \in Good(K)
  OBVIOUS
<1>1. CASE c = a
  BY <1>1
<1>2. ASSUME NEW r \in Answers(Send(a, op, owner), a.active),
             c \in IF r.reply = "ok" THEN LoadAll(r.app) ELSE {[r.app EXCEPT !.modal = Alert]}
      PROVE  c \in Good(K)
  <2>1. r.app \in Good(K) /\ r.app \in Nearly(K) /\ RowsScoped(r.app) /\ [r.app EXCEPT !.modal = Alert] \in Good(K)
    BY Submitting DEF Good
  <2> QED
    BY <1>2, <2>1, LoadingAll
<1> QED
  BY <1>1, <1>2, Zenon DEF LoadAfter, Submit

\* In a dialog that fits, a row's owner does.
OwnerFits(owner, a) == owner \in Maybe(Tenants) /\ (a.faults = 0 => owner \in {NoTenant, a.active})

\* open_edit_role, open_edit_user: the dialog opens only if there is a session.
LEMMA OpeningRole ==
    ASSUME NEW K, NEW a \in Good(K), NEW owner, NEW t,
           a.token # NoTenant => a.mode.kind = "Admin" /\ t = a.active /\ OwnerFits(owner, a)
    PROVE  OpenEditRole(a, owner, t) \subseteq Good(K)
<1> DEFINE Shown(b) == Filled(b, "Permissions", t)
           dialog == Dialog("EditRole", owner, {0})
           Opened(b) == [b EXCEPT !.modal = dialog]
           Failed(b) == [b EXCEPT !.modal = Alert, !.faults = @ + 1]
<1> SUFFICES ASSUME NEW c \in OpenEditRole(a, owner, t) PROVE c \in Good(K)
  OBVIOUS
<1>1. PICK r \in Fetches(a, t) :
         c \in IF r.reply = "ok"
               THEN {Opened(Shown(r.app))} \cup IF Shown(r.app).faults < MaxFaults THEN {Failed(Shown(r.app))} ELSE {}
               ELSE {[r.app EXCEPT !.modal = Alert]}
  BY Zenon DEF OpenEditRole, Filled
<1> DEFINE b == Shown(a)
<1> HIDE DEF Shown, Opened, Failed, dialog
<1>2. r.app \in Good(K) /\ (r.reply = "ok" => r.app = a /\ a.token # NoTenant)
  BY Fetching DEF Good
<1>3. CASE r.reply # "ok"
  BY <1>1, <1>2, <1>3, PlainModal
<1>4. CASE r.reply = "ok"
  <2>1. a.mode.kind = "Admin" /\ t = a.active /\ OwnerFits(owner, a)
    BY <1>2, <1>4
  <2>2. b \in Good(K) /\ b.mode = a.mode /\ b.active = a.active /\ b.faults = a.faults
    <3>1. "Permissions" \in Lists /\ t \in {NoTenant, a.active}
      BY <2>1 DEF Lists
    <3> QED
      BY <3>1, SetRows DEF Shown
  <2>3. Opened(b) \in Good(K)
    <3>1. dialog \in Modals
      BY <2>1, Constants DEF OwnerFits, dialog, Kinds, Required
    <3>2. Fits(dialog, b)
      BY <2>1, <2>2 DEF dialog, Dialog, Fits, OwnerFits
    <3> QED
      BY <2>2, <3>1, <3>2, SetModal DEF Opened
  <2>4. ASSUME b.faults < MaxFaults PROVE Failed(b) \in Good(K)
    <3> DEFINE d == [b EXCEPT !.modal = Alert]
    <3>1. d \in Good(K)
      BY <2>2, PlainModal
    <3>2. d.faults < MaxFaults
      BY <2>2, <2>4 DEF Good, Nearly, Apps
    <3>3. Failed(b) = [d EXCEPT !.faults = @ + 1]
      BY Zenon DEF Failed
    <3> HIDE DEF d
    <3> QED
      BY <3>1, <3>2, <3>3, Failing
  <2>5. c = Opened(b) \/ (b.faults < MaxFaults /\ c = Failed(b))
    BY <1>1, <1>2, <1>4
  <2> QED
    BY <2>3, <2>4, <2>5
<1> QED
  BY <1>3, <1>4

LEMMA OpeningUser ==
    ASSUME NEW K, NEW a \in Good(K), NEW owner, a.mode.kind = "Admin", OwnerFits(owner, a)
    PROVE  OpenEditUser(a, owner) \subseteq Good(K)
<1> DEFINE Shown(b) == Filled(b, "Roles", a.active)
           dialog == Dialog("EditUser", owner, {0})
           Opened(b) == [b EXCEPT !.modal = dialog]
           Failed(b) == [b EXCEPT !.modal = Alert, !.faults = @ + 1]
<1> SUFFICES ASSUME NEW c \in OpenEditUser(a, owner) PROVE c \in Good(K)
  OBVIOUS
<1>1. PICK r \in Fetches(a, a.active) :
         c \in IF r.reply = "ok"
               THEN {Opened(Shown(r.app))} \cup IF Shown(r.app).faults < MaxFaults THEN {Failed(Shown(r.app))} ELSE {}
               ELSE {[r.app EXCEPT !.modal = Alert]}
  BY Zenon DEF OpenEditUser, Filled
<1> DEFINE b == Shown(a)
<1> HIDE DEF Shown, Opened, Failed, dialog
<1>2. r.app \in Good(K) /\ (r.reply = "ok" => r.app = a)
  BY Fetching DEF Good
<1>3. CASE r.reply # "ok"
  BY <1>1, <1>2, <1>3, PlainModal
<1>4. CASE r.reply = "ok"
  <2>1. b \in Good(K) /\ b.mode = a.mode /\ b.active = a.active /\ b.faults = a.faults
    <3>1. "Roles" \in Lists /\ a.active \in {NoTenant, a.active}
      BY DEF Lists
    <3> QED
      BY <3>1, SetRows DEF Shown
  <2>2. Opened(b) \in Good(K)
    <3>1. dialog \in Modals
      BY Constants DEF OwnerFits, dialog, Kinds, Required
    <3>2. Fits(dialog, b)
      BY <2>1 DEF dialog, Dialog, Fits, OwnerFits
    <3> QED
      BY <2>1, <3>1, <3>2, SetModal DEF Opened
  <2>3. ASSUME b.faults < MaxFaults PROVE Failed(b) \in Good(K)
    <3> DEFINE d == [b EXCEPT !.modal = Alert]
    <3>1. d \in Good(K)
      BY <2>1, PlainModal
    <3>2. d.faults < MaxFaults
      BY <2>1, <2>3 DEF Good, Nearly, Apps
    <3>3. Failed(b) = [d EXCEPT !.faults = @ + 1]
      BY Zenon DEF Failed
    <3> HIDE DEF d
    <3> QED
      BY <3>1, <3>2, <3>3, Failing
  <2>4. c = Opened(b) \/ (b.faults < MaxFaults /\ c = Failed(b))
    BY <1>1, <1>2, <1>4
  <2> QED
    BY <2>2, <2>3, <2>4
<1> QED
  BY <1>3, <1>4

\* The functions that send one call and load all lists again
LEMMA Performing ==
    ASSUME NEW K, NEW a \in Good(K), NEW owner, OwnerFits(owner, a)
    PROVE  /\ PerformCreateUser(a) \subseteq Good(K) /\ PerformCreatePermission(a) \subseteq Good(K)
           /\ PerformCreateIdp(a) \subseteq Good(K) /\ PerformEditClient(a, owner) \subseteq Good(K)
           /\ PerformEditIdp(a, owner) \subseteq Good(K) /\ PerformEditPermission(a, owner) \subseteq Good(K)
           /\ PerformDelete(a, owner) \subseteq Good(K)
<1>1. ASSUME NEW op \in Ops PROVE LoadAfter(a, op, owner) \subseteq Good(K)
  BY LoadingAfter DEF OwnerFits
<1>2. ASSUME NEW op \in Ops PROVE LoadAfter(a, op, NoTenant) \subseteq Good(K)
  BY LoadingAfter DEF Maybe
<1>3. /\ PerformCreateUser(a) = LoadAfter(a, "create_user", NoTenant)
      /\ PerformCreatePermission(a) = LoadAfter(a, "create_permission", NoTenant)
      /\ PerformCreateIdp(a) = LoadAfter(a, "create_identity_provider", NoTenant)
      /\ PerformEditClient(a, owner) = LoadAfter(a, "update_client", owner)
      /\ PerformEditIdp(a, owner) = LoadAfter(a, "update_identity_provider", owner)
      /\ PerformEditPermission(a, owner) = LoadAfter(a, "update_permission", owner)
  BY Zenon DEF PerformCreateUser, PerformCreatePermission, PerformCreateIdp, PerformEditClient,
               PerformEditIdp, PerformEditPermission, LoadAfter
<1>4. PerformDelete(a, owner) \subseteq Good(K)
  <2> DEFINE op == [Clients |-> "deactivate_client", Users |-> "deactivate_user",
                    Roles |-> "delete_role", Permissions |-> "delete_permission",
                    Sessions |-> "delete_session", IdentityProviders |-> "delete_identity_provider"]
  <2>1. \A tab \in DOMAIN op : op[tab] \in Ops
    <3>1. DOMAIN op = {"Clients", "Users", "Roles", "Permissions", "Sessions", "IdentityProviders"}
      OBVIOUS
    <3>2. /\ op["Clients"] \in Ops /\ op["Users"] \in Ops /\ op["Roles"] \in Ops
          /\ op["Permissions"] \in Ops /\ op["Sessions"] \in Ops /\ op["IdentityProviders"] \in Ops
      BY DEF Ops
    <3> HIDE DEF op
    <3> QED
      BY <3>1, <3>2
  <2>2. PerformDelete(a, owner) = IF a.tab \in DOMAIN op THEN LoadAfter(a, op[a.tab], owner) ELSE {a}
    BY Zenon DEF PerformDelete, LoadAfter
  <2> HIDE DEF op
  <2> QED
    BY <1>1, <2>1, <2>2
<1>5. /\ "create_user" \in Ops /\ "create_permission" \in Ops /\ "create_identity_provider" \in Ops
      /\ "update_client" \in Ops /\ "update_identity_provider" \in Ops /\ "update_permission" \in Ops
  BY DEF Ops
<1> QED
  BY <1>1, <1>2, <1>3, <1>4, <1>5, Zenon

\* perform_edit_user, perform_edit_role: the assignments go to the tenant of the update.
LEMMA PerformingAssignments ==
    ASSUME NEW K, NEW a \in Good(K), NEW owner, OwnerFits(owner, a)
    PROVE  PerformEditUser(a, owner) \subseteq Good(K) /\ PerformEditRole(a, owner) \subseteq Good(K)
<1>1. ASSUME NEW op \in Ops, NEW then \in Ops, NEW r \in Answers(Send(a, op, owner), a.active),
             NEW c \in IF r.reply = "ok" THEN LoadAll(Send(r.app, then, owner)) ELSE {[r.app EXCEPT !.modal = Alert]}
      PROVE  c \in Good(K)
  <2>1. r.app \in Good(K) /\ [r.app EXCEPT !.modal = Alert] \in Good(K) /\ OwnerFits(owner, r.app)
    BY Submitting DEF OwnerFits
  <2> DEFINE b == Send(r.app, then, owner)
  <2>2. b \in Good(K)
    BY <2>1, Sending DEF OwnerFits
  <2> HIDE DEF b
  <2>3. LoadAll(b) \subseteq Good(K)
    BY <2>2, LoadingAll DEF Good
  <2> QED
    BY <1>1, <2>1, <2>3 DEF b
<1>2. ASSUME NEW c \in PerformEditUser(a, owner) PROVE c \in Good(K)
  <2>1. \/ c = a
        \/ \E r \in Answers(Send(a, "update_user", owner), a.active) :
              c \in IF r.reply = "ok" THEN LoadAll(Send(r.app, "save_user_roles", owner))
                    ELSE {[r.app EXCEPT !.modal = Alert]}
    BY <1>2, Zenon DEF PerformEditUser, Submit
  <2>2. "update_user" \in Ops /\ "save_user_roles" \in Ops
    BY DEF Ops
  <2> QED
    BY <1>1, <2>1, <2>2
<1>3. ASSUME NEW c \in PerformEditRole(a, owner) PROVE c \in Good(K)
  <2>1. \/ c = a
        \/ \E r \in Answers(Send(a, "update_role", owner), a.active) :
              c \in IF r.reply = "ok" THEN LoadAll(Send(r.app, "save_role_permissions", owner))
                    ELSE {[r.app EXCEPT !.modal = Alert]}
    BY <1>3, Zenon DEF PerformEditRole, Submit
  <2>2. "update_role" \in Ops /\ "save_role_permissions" \in Ops
    BY DEF Ops
  <2> QED
    BY <1>1, <2>1, <2>2
<1> QED
  BY <1>2, <1>3

\* perform_create_client: the secret is shown over the lists.
LEMMA PerformingClient ==
    ASSUME NEW K, NEW a \in Good(K), a.mode.kind = "Admin", NEW type
    PROVE  PerformCreateClient(a, type) \subseteq Good(K)
<1> DEFINE dialog == Dialog("ShowSecret", NoTenant, {})
           Told(b) == IF type = 1 THEN b ELSE [b EXCEPT !.modal = dialog]
<1> SUFFICES ASSUME NEW c \in PerformCreateClient(a, type) PROVE c \in Good(K)
  OBVIOUS
<1>1. \/ c = a
      \/ \E r \in Answers(Send(a, "create_client", NoTenant), a.active) :
            c \in IF r.reply = "ok" THEN LoadAll(Told(r.app)) ELSE {[r.app EXCEPT !.modal = Alert]}
  BY Zenon DEF PerformCreateClient, Submit
<1>2. CASE c = a
  BY <1>2
<1>3. ASSUME NEW r \in Answers(Send(a, "create_client", NoTenant), a.active),
             c \in IF r.reply = "ok" THEN LoadAll(Told(r.app)) ELSE {[r.app EXCEPT !.modal = Alert]}
      PROVE  c \in Good(K)
  <2>1. "create_client" \in Ops /\ NoTenant \in Maybe(Tenants)
    BY DEF Ops, Maybe
  <2>2. r.app \in Good(K) /\ [r.app EXCEPT !.modal = Alert] \in Good(K) /\ r.app.mode = a.mode
    BY <2>1, Submitting
  <2>3. dialog \in Modals /\ Fits(dialog, r.app)
    <3>1. "ShowSecret" \in Kinds /\ NoTenant \in Maybe(Tenants)
      BY DEF Kinds, Maybe
    <3>2. dialog \in Modals
      BY <3>1, Constants
    <3>3. Fits(dialog, r.app)
      BY <2>2 DEF Fits, Dialog
    <3> QED
      BY <3>2, <3>3
  <2> HIDE DEF dialog
  <2>4. Told(r.app) \in Good(K)
    BY <2>2, <2>3, SetModal
  <2> HIDE DEF Told
  <2>5. LoadAll(Told(r.app)) \subseteq Good(K)
    BY <2>4, LoadingAll DEF Good
  <2> QED
    BY <1>3, <2>2, <2>5
<1> HIDE DEF Told
<1> QED
  BY <1>1, <1>2, <1>3

\* perform_create_role: the dialog of the new role opens if the session has
\* outlived the reload, and then it is about the tenant the role was made in.
LEMMA PerformingRole ==
    ASSUME NEW K, NEW a \in Good(K), a.mode.kind = "Admin"
    PROVE  PerformCreateRole(a) \subseteq Good(K)
<1> SUFFICES ASSUME NEW c \in PerformCreateRole(a) PROVE c \in Good(K)
  OBVIOUS
<1>1. \/ c = a
      \/ \E r \in Answers(Send(a, "create_role", NoTenant), a.active) :
            IF r.reply = "ok" THEN \E d \in LoadAll(r.app) : c \in OpenEditRole(d, r.app.active, r.app.active)
            ELSE c = [r.app EXCEPT !.modal = Alert]
  BY Zenon DEF PerformCreateRole, Submit, Then
<1>2. CASE c = a
  BY <1>2
<1>3. ASSUME NEW r \in Answers(Send(a, "create_role", NoTenant), a.active),
             IF r.reply = "ok" THEN \E d \in LoadAll(r.app) : c \in OpenEditRole(d, r.app.active, r.app.active)
             ELSE c = [r.app EXCEPT !.modal = Alert]
      PROVE  c \in Good(K)
  <2>1. "create_role" \in Ops /\ NoTenant \in Maybe(Tenants)
    BY DEF Ops, Maybe
  <2>2. r.app \in Good(K) /\ [r.app EXCEPT !.modal = Alert] \in Good(K) /\ r.app.mode = a.mode
    BY <2>1, Submitting
  <2>3. ASSUME NEW d \in LoadAll(r.app), c \in OpenEditRole(d, r.app.active, r.app.active) PROVE c \in Good(K)
    <3>1. r.app \in Nearly(K) /\ RowsScoped(r.app) /\ r.app.active \in Maybe(Tenants)
      BY <2>2 DEF Good, Nearly, Apps
    <3>2. d \in Good(K) /\ (d.token # NoTenant => d.mode = a.mode /\ d.active = r.app.active)
      BY <2>2, <3>1, LoadingAll
    <3>3. d.token # NoTenant => OwnerFits(r.app.active, d)
      BY <3>1, <3>2 DEF OwnerFits
    <3> QED
      BY <2>3, <3>2, <3>3, OpeningRole
  <2> QED
    BY <1>3, <2>2, <2>3
<1> QED
  BY <1>1, <1>2, <1>3

\* perform_create_tenant: the next dialog is about a tenant there is.
LEMMA PerformingTenant ==
    ASSUME NEW K, NEW a \in Good(K), a.mode.kind = "Admin"
    PROVE  PerformCreateTenant(a) \subseteq Good(K)
<1> DEFINE Grown(b, t) == [b EXCEPT !.server = @ \cup {t}]
           Offered(b, t) == [b EXCEPT !.modal = Dialog("PostCreateTenant", t, {})]
<1> SUFFICES ASSUME NEW c \in PerformCreateTenant(a) PROVE c \in Good(K)
  OBVIOUS
<1>1. \E r \in Answers(a, NoTenant) :
         \/ \E t \in Tenants \ a.server : c \in LoadTenants(Offered(Grown(r.app, t), t))
         \/ c = [r.app EXCEPT !.modal = Alert]
         \/ \E t \in Tenants \ a.server : c = [Grown(r.app, t) EXCEPT !.modal = Alert]
  <2>1. PICK r \in Answers(a, NoTenant) :
           c \in CASE r.reply = "ok" ->
                        UNION {LoadTenants(Offered(Grown(r.app, t), t)) : t \in Tenants \ a.server}
                   [] r.reply = "failed" ->
                        {[r.app EXCEPT !.modal = Alert]}
                        \cup UNION {{[Grown(r.app, t) EXCEPT !.modal = Alert]} : t \in Tenants \ a.server}
                   [] OTHER -> {[r.app EXCEPT !.modal = Alert]}
    BY Zenon DEF PerformCreateTenant, CreateTenantCall
  <2> HIDE DEF Grown, Offered
  <2> QED
    BY <2>1
<1>2. ASSUME NEW r \in Answers(a, NoTenant)
      PROVE  r.app \in Good(K) /\ r.app.mode = a.mode
  BY <1>2, AnsweringGood DEF Same
<1>3. ASSUME NEW r \in Answers(a, NoTenant), NEW t \in Tenants
      PROVE  /\ Grown(r.app, t) \in Good(K) /\ Grown(r.app, t).mode = a.mode
             /\ t \in Grown(r.app, t).server
  BY <1>2, <1>3, Created
<1>4. ASSUME NEW r \in Answers(a, NoTenant), NEW t \in Tenants
      PROVE  Offered(Grown(r.app, t), t) \in Good(K)
  <2> DEFINE b == Grown(r.app, t)
             dialog == Dialog("PostCreateTenant", t, {})
  <2>1. b \in Good(K) /\ b.mode = a.mode /\ t \in b.server
    BY <1>3
  <2> HIDE DEF b, Grown
  <2>2. dialog \in Modals
    <3>1. "PostCreateTenant" \in Kinds /\ t \in Maybe(Tenants) /\ {} \in SUBSET (0 .. 2)
      BY DEF Kinds, Maybe
    <3> QED
      BY <3>1, Constants
  <2>3. Fits(dialog, b)
    BY <2>1 DEF Fits, Dialog
  <2> HIDE DEF dialog
  <2> QED
    BY <2>1, <2>2, <2>3, SetModal DEF b, dialog
<1> HIDE DEF Grown, Offered
<1>5. PICK r \in Answers(a, NoTenant) :
         \/ \E t \in Tenants \ a.server : c \in LoadTenants(Offered(Grown(r.app, t), t))
         \/ c = [r.app EXCEPT !.modal = Alert]
         \/ \E t \in Tenants \ a.server : c = [Grown(r.app, t) EXCEPT !.modal = Alert]
  BY <1>1
<1>6. ASSUME NEW t \in Tenants, c \in LoadTenants(Offered(Grown(r.app, t), t)) PROVE c \in Good(K)
  BY <1>4, <1>6, LoadingTenants
<1>7. CASE c = [r.app EXCEPT !.modal = Alert]
  BY <1>2, <1>7, PlainModal
<1>8. ASSUME NEW t \in Tenants, c = [Grown(r.app, t) EXCEPT !.modal = Alert] PROVE c \in Good(K)
  BY <1>3, <1>8, PlainModal
<1> QED
  BY <1>5, <1>6, <1>7, <1>8

\* The rest
LEMMA PerformingOthers ==
    ASSUME NEW K, NEW a \in Good(K), a.mode.kind = "Admin", NEW owner, OwnerFits(owner, a), NEW s \in Sections
    PROVE  /\ OpenClientRoles(a, owner) \subseteq Good(K) /\ PerformSaveClientRoles(a, owner) \subseteq Good(K)
           /\ PerformSaveSettings(a, s) \subseteq Good(K)
<1>1. ASSUME NEW c \in OpenClientRoles(a, owner) PROVE c \in Good(K)
  <2> DEFINE dialog == Dialog("ClientRoles", owner, {})
  <2>1. PICK r \in Fetches(a, a.active) :
           c = [r.app EXCEPT !.modal = IF r.reply = "ok" THEN dialog ELSE Alert]
    BY <1>1, Zenon DEF OpenClientRoles
  <2>2. r.app \in Good(K) /\ (r.reply = "ok" => r.app = a)
    BY Fetching DEF Good
  <2>3. dialog \in Modals /\ Fits(dialog, a)
    <3>1. "ClientRoles" \in Kinds /\ {} \in SUBSET (0 .. 2)
      BY DEF Kinds
    <3>2. dialog \in Modals
      BY <3>1, Constants DEF OwnerFits
    <3>3. Fits(dialog, a)
      BY DEF Fits, Dialog, OwnerFits
    <3> QED
      BY <3>2, <3>3
  <2> HIDE DEF dialog
  <2> QED
    BY <2>1, <2>2, <2>3, PlainModal, SetModal
<1>2. ASSUME NEW c \in PerformSaveClientRoles(a, owner) PROVE c \in Good(K)
  <2>1. c = a \/ c = Send(a, "save_client_roles", owner)
    BY <1>2, Zenon DEF PerformSaveClientRoles
  <2>2. "save_client_roles" \in Ops
    BY DEF Ops
  <2> QED
    BY <2>1, <2>2, Sending DEF OwnerFits
<1>3. ASSUME NEW c \in PerformSaveSettings(a, s) PROVE c \in Good(K)
  <2>1. \/ c = a
        \/ \E r \in Answers(Send(a, "put_settings", a.settings[s]), a.active) :
              c \in IF r.reply = "ok" THEN {r.app} ELSE {[r.app EXCEPT !.modal = Alert]}
    BY <1>3, Zenon DEF PerformSaveSettings, Submit
  <2>2. "put_settings" \in Ops /\ a.settings[s] \in Maybe(Tenants)
    BY DEF Ops, Good, Nearly, Apps
  <2>3. ASSUME NEW r \in Answers(Send(a, "put_settings", a.settings[s]), a.active)
        PROVE  r.app \in Good(K) /\ [r.app EXCEPT !.modal = Alert] \in Good(K)
    <3> DEFINE op == "put_settings"
               from == a.settings[s]
    <3>1. op \in Ops /\ from \in Maybe(Tenants) /\ op = "put_settings"
      BY <2>2
    <3>2. r \in Answers(Send(a, op, from), a.active)
      OBVIOUS
    <3> HIDE DEF op, from
    <3> QED
      BY <3>1, <3>2, Submitting
  <2> QED
    BY <2>1, <2>3
<1> QED
  BY <1>1, <1>2, <1>3

-----------------------------------------------------------------------------
(* The keys *)

\* Where the handler of a key starts
LEMMA Beginning ==
    ASSUME NEW K, app \in Good(K)
    PROVE  /\ app \in Apps /\ Now \in Good(K) /\ Closed \in Good(K)
           /\ Now.mode = app.mode /\ Now.modal = app.modal /\ Now.active = app.active /\ Now.rows = app.rows
           /\ Now.faults = app.faults /\ Now.tab = app.tab /\ Now.server = app.server /\ Now.made = app.made
           /\ Now.tenants = app.tenants /\ Now.selected = app.selected /\ Now.token = app.token
           /\ Now.saved = app.saved /\ Now.sent = {}
           /\ Closed.mode = app.mode /\ Closed.modal = NoModal /\ Closed.active = app.active
           /\ Closed.faults = app.faults /\ Closed.server = app.server /\ Closed.settings = app.settings
<1>1. app \in Apps
  BY DEF Good, Nearly
<1>2. Now \in Apps
  <2>1. {} \in SUBSET Calls
    OBVIOUS
  <2> QED
    BY <1>1, <2>1, FieldTypes, Zenon DEF Now
<1>3. /\ Now.mode = app.mode /\ Now.modal = app.modal /\ Now.active = app.active /\ Now.rows = app.rows
      /\ Now.faults = app.faults /\ Now.tab = app.tab /\ Now.server = app.server /\ Now.made = app.made
      /\ Now.tenants = app.tenants /\ Now.selected = app.selected /\ Now.token = app.token
      /\ Now.saved = app.saved /\ Now.sent = {} /\ Now.settings = app.settings
  BY <1>1 DEF Apps, Now
<1>4. Known(Now) /\ ModeFits(Now.mode, Now.server) /\ SentScoped(Now)
  BY <1>3 DEF Good, Nearly, Known, SentScoped
<1>5. Fits(Now.modal, Now)
  <2>1. Fits(app.modal, app)
    BY DEF Good, Nearly
  <2> QED
    BY <1>3, <2>1 DEF Fits
<1>6. Foreign(Now) \subseteq K /\ RowsScoped(Now)
  BY <1>3 DEF Good, Nearly, Foreign, RowsScoped
<1>7. Now \in Good(K)
  BY <1>2, <1>4, <1>5, <1>6 DEF Good, Nearly
<1>8. Closed \in Good(K)
  BY <1>7, PlainModal DEF Closed
<1>9. Closed.mode = app.mode /\ Closed.modal = NoModal /\ Closed.active = app.active
      /\ Closed.faults = app.faults /\ Closed.server = app.server /\ Closed.settings = app.settings
  BY <1>2, <1>3 DEF Closed, Apps
<1> QED
  BY <1>1, <1>3, <1>7, <1>8, <1>9

\* Another screen, next to the dialog there is
LEMMA SetMode ==
    ASSUME NEW K, NEW a \in Good(K), NEW m \in Modes, ModeFits(m, a.server),
           a.mode.kind # "Admin" \/ a.modal = NoModal \/ m = Admin
    PROVE  [a EXCEPT !.mode = m] \in Good(K)
<1> DEFINE b == [a EXCEPT !.mode = m]
<1>1. a \in Apps /\ b \in Apps
  BY FieldTypes DEF Good, Nearly
<1>2. b.modal = a.modal /\ b.mode = m /\ b.server = a.server /\ b.made = a.made /\ b.faults = a.faults
      /\ b.active = a.active /\ b.token = a.token /\ b.saved = a.saved /\ b.tenants = a.tenants
      /\ b.selected = a.selected /\ b.sent = a.sent /\ b.rows = a.rows
  BY <1>1 DEF Apps
<1> HIDE DEF b
<1>3. Known(b) /\ ModeFits(b.mode, b.server) /\ SentScoped(b)
  BY <1>2 DEF Good, Nearly, Known, SentScoped
<1>4. Fits(b.modal, b)
  <2>1. CASE a.modal = NoModal
    BY <1>2, <2>1, PlainFits
  <2>2. CASE a.mode.kind # "Admin" \/ m = Admin
    <3>1. Fits(a.modal, a) /\ Admin.kind = "Admin"
      BY Constants DEF Good, Nearly
    <3> QED
      BY <1>2, <2>2, <3>1 DEF Fits
  <2> QED
    BY <2>1, <2>2
<1>5. Foreign(b) \subseteq K /\ RowsScoped(b)
  BY <1>2 DEF Good, Nearly, Foreign, RowsScoped
<1> QED
  BY <1>1, <1>3, <1>4, <1>5 DEF b, Good, Nearly

\* Another tenant under the cursor
LEMMA Moving ==
    ASSUME NEW K, NEW a \in Good(K), NEW n \in Nat, n < Len(a.tenants)
    PROVE  [a EXCEPT !.selected = n] \in Good(K)
<1> DEFINE b == [a EXCEPT !.selected = n]
<1>1. a \in Apps /\ b \in Apps
  BY FieldTypes DEF Good, Nearly
<1>2. b.modal = a.modal /\ b.mode = a.mode /\ b.server = a.server /\ b.made = a.made /\ b.faults = a.faults
      /\ b.active = a.active /\ b.token = a.token /\ b.saved = a.saved /\ b.tenants = a.tenants
      /\ b.selected = n /\ b.sent = a.sent /\ b.rows = a.rows
  BY <1>1 DEF Apps
<1> HIDE DEF b
<1>3. Known(b) /\ ModeFits(b.mode, b.server) /\ SentScoped(b)
  BY <1>2 DEF Good, Nearly, Known, SentScoped
<1>4. Fits(b.modal, b)
  <2>1. Fits(a.modal, a)
    BY DEF Good, Nearly
  <2> QED
    BY <1>2, <2>1 DEF Fits
<1>5. Foreign(b) \subseteq K /\ RowsScoped(b)
  BY <1>2 DEF Good, Nearly, Foreign, RowsScoped
<1> QED
  BY <1>1, <1>3, <1>4, <1>5 DEF b, Good, Nearly

\* What no invariant speaks of may change.
LEMMA Turning ==
    ASSUME NEW K, NEW a \in Good(K), NEW b \in Apps,
           b.modal = a.modal /\ b.mode = a.mode /\ b.server = a.server /\ b.made = a.made /\ b.faults = a.faults
             /\ b.active = a.active /\ b.token = a.token /\ b.saved = a.saved /\ b.tenants = a.tenants
             /\ b.selected = a.selected /\ b.sent = a.sent /\ b.rows = a.rows
    PROVE  b \in Good(K)
<1>1. Known(b) /\ ModeFits(b.mode, b.server) /\ SentScoped(b)
  BY DEF Good, Nearly, Known, SentScoped
<1>2. Fits(b.modal, b)
  <2>1. Fits(a.modal, a)
    BY DEF Good, Nearly
  <2> QED
    BY <2>1 DEF Fits
<1>3. Foreign(b) \subseteq K /\ RowsScoped(b)
  BY DEF Good, Nearly, Foreign, RowsScoped
<1> QED
  BY <1>1, <1>2, <1>3 DEF Good, Nearly

\* Something more has been made in a tenant.
LEMMA Making ==
    ASSUME NEW K, NEW a \in Good(K), NEW x \in Tenants \X {"create_client", "create_user"}
    PROVE  LET b == [a EXCEPT !.made = @ \cup {x}]
           IN  b \in Good(K) /\ b.mode = a.mode /\ b.server = a.server /\ b.made = a.made \cup {x}
               /\ b.modal = a.modal
<1> DEFINE b == [a EXCEPT !.made = @ \cup {x}]
           made == a.made \cup {x}
<1>1. a \in Apps /\ made \in SUBSET (Tenants \X {"create_client", "create_user"})
  BY DEF Good, Nearly, Apps
<1>2. b = [a EXCEPT !.made = made]
  BY <1>1 DEF Apps
<1>3. a.made \subseteq made /\ made = a.made \cup {x}
  OBVIOUS
<1> HIDE DEF b, made
<1>4. b \in Apps
  BY <1>1, <1>2, FieldTypes
<1>5. b.modal = a.modal /\ b.mode = a.mode /\ b.server = a.server /\ b.made = made /\ b.faults = a.faults
      /\ b.active = a.active /\ b.token = a.token /\ b.saved = a.saved /\ b.tenants = a.tenants
      /\ b.selected = a.selected /\ b.sent = a.sent /\ b.rows = a.rows
  BY <1>1, <1>2 DEF Apps
<1>6. Known(b) /\ ModeFits(b.mode, b.server) /\ SentScoped(b)
  BY <1>5 DEF Good, Nearly, Known, SentScoped
<1>7. Fits(b.modal, b)
  <2>1. Fits(a.modal, a)
    BY DEF Good, Nearly
  <2> QED
    BY <1>3, <1>5, <2>1 DEF Fits
<1>8. Foreign(b) \subseteq K /\ RowsScoped(b)
  BY <1>5 DEF Good, Nearly, Foreign, RowsScoped
<1> QED
  BY <1>3, <1>4, <1>5, <1>6, <1>7, <1>8 DEF b, Good, Nearly

\* A dialog on its own: of the kinds that say nothing but whose row they are about
LEMMA ShowingNew ==
    ASSUME NEW K, app \in Good(K), InMode("Admin"), NEW owner, OwnerFits(owner, app),
           NEW kind \in Kinds \ {"None", "QuickStart", "PostCreateTenant"}, NEW filled \in SUBSET (0 .. 2),
           Show(Dialog(kind, owner, filled))
    PROVE  app' \in Good(K)
<1> DEFINE d == Dialog(kind, owner, filled)
<1>1. d \in Modals
  BY Constants DEF OwnerFits
<1>2. Fits(d, Now)
  <2>1. Now.mode.kind = "Admin" /\ Now.faults = app.faults /\ Now.active = app.active
    BY Beginning DEF InMode
  <2> QED
    BY <2>1 DEF Fits, Dialog, OwnerFits
<1>3. app' = [Now EXCEPT !.modal = d]
  BY DEF Show
<1>4. Now \in Good(K)
  BY Beginning
<1> HIDE DEF d
<1> QED
  BY <1>1, <1>2, <1>3, <1>4, SetModal

\* A dialog whose form has changed
LEMMA ShowingSame ==
    ASSUME NEW K, app \in Good(K), NEW m \in Modals, Show(m),
           m.kind = app.modal.kind /\ m.owner = app.modal.owner /\ m.part = app.modal.part,
           InMode("Admin")
    PROVE  app' \in Good(K)
<1>1. Fits(app.modal, app) /\ Now \in Good(K)
  BY Beginning DEF Good, Nearly
<1>2. Now.mode = app.mode /\ Now.active = app.active /\ Now.faults = app.faults
      /\ Now.server = app.server /\ Now.made = app.made
  BY Beginning
<1>3. Fits(m, Now)
  BY <1>1, <1>2 DEF Fits, InMode
<1> QED
  BY <1>1, <1>3, SetModal DEF Show

LEMMA TypedForms ==
    ASSUME NEW d \in Modals, NEW required \in SUBSET (0 .. 2), NEW m \in Typed(d, required)
    PROVE  m \in Modals /\ m.kind = d.kind /\ m.owner = d.owner /\ m.part = d.part
<1>1. PICK f \in UNION {{d.filled \cup {i}, d.filled \ {i}} : i \in required} : m = [d EXCEPT !.filled = f]
  BY Zenon DEF Typed
<1>2. f \in SUBSET (0 .. 2)
  BY <1>1 DEF Modals
<1> QED
  BY <1>1, <1>2 DEF Modals

LEMMA Forms ==
    ASSUME NEW K, app \in Good(K), NEW kind \in DOMAIN Required, Showing(kind),
           FormKey(kind) \/ (kind \in DOMAIN FieldCount /\ FieldKey(kind))
    PROVE  app' \in Good(K)
<1>1. app.modal \in Modals /\ InMode("Admin") /\ app.modal.kind = kind
  BY Beginning DEF Showing, Apps
<1>2. Required[kind] \in SUBSET (0 .. 2)
  BY DEF Required
<1>3. CASE Close
  BY <1>3, Beginning DEF Close
<1>4. ASSUME NEW required \in SUBSET (0 .. 2), NEW m \in Typed(app.modal, required), Show(m)
      PROVE  app' \in Good(K)
  BY <1>1, <1>4, TypedForms, ShowingSame
<1>5. CASE Show(Cycled(app.modal))
  <2> DEFINE m == Cycled(app.modal)
  <2>1. (app.modal.type + 1) % 3 \in 0 .. 2
    BY <1>1 DEF Modals
  <2>2. m \in Modals /\ m.kind = app.modal.kind /\ m.owner = app.modal.owner /\ m.part = app.modal.part
    BY <1>1, <2>1 DEF Modals, Cycled
  <2> HIDE DEF m
  <2> QED
    BY <1>1, <1>5, <2>2, ShowingSame DEF m
<1>6. CASE kind \in DOMAIN FieldCount /\ Show([app.modal EXCEPT !.field = (@ + 1) % FieldCount[kind]])
  <2> DEFINE m == [app.modal EXCEPT !.field = (@ + 1) % FieldCount[kind]]
  <2>1. FieldCount[kind] \in 3 .. 5
    BY <1>6 DEF FieldCount
  <2>2. (app.modal.field + 1) % FieldCount[kind] \in 0 .. 4
    BY <1>1, <2>1 DEF Modals
  <2>3. m \in Modals /\ m.kind = app.modal.kind /\ m.owner = app.modal.owner /\ m.part = app.modal.part
    BY <1>1, <2>2 DEF Modals
  <2> HIDE DEF m
  <2> QED
    BY <1>1, <1>6, <2>3, ShowingSame DEF m
<1>7. CASE FormKey(kind)
  BY <1>2, <1>3, <1>4, <1>5, <1>7 DEF FormKey
<1>8. CASE kind \in DOMAIN FieldCount /\ FieldKey(kind)
  <2>1. app.modal.field \in Required[kind] => {app.modal.field} \in SUBSET (0 .. 2)
    BY <1>2
  <2> QED
    BY <1>3, <1>4, <1>6, <1>8, <2>1 DEF FieldKey
<1> QED
  BY <1>7, <1>8

\* The owner of the row a dialog is about, as its handler finds it
LEMMA OwnerOfDialog ==
    ASSUME NEW K, app \in Good(K), InMode("Admin"),
           app.modal.kind \notin {"None", "QuickStart", "PostCreateTenant"}
    PROVE  /\ Closed \in Good(K) /\ Now \in Good(K) /\ Closed.mode.kind = "Admin" /\ Now.mode.kind = "Admin"
           /\ OwnerFits(app.modal.owner, Closed) /\ OwnerFits(app.modal.owner, Now)
           /\ OwnerFits(NoTenant, Closed)
           /\ app.modal.part \in Sections
<1>1. app.modal.owner \in Maybe(Tenants) /\ app.modal.part \in Sections
  BY Beginning DEF Apps, Modals, Sections
<1>2. app.faults = 0 => app.modal.owner \in {NoTenant, app.active}
  BY DEF Good, Nearly, Fits
<1>3. OwnerFits(NoTenant, Closed)
  BY DEF OwnerFits, Maybe
<1> QED
  BY <1>1, <1>2, <1>3, Beginning DEF OwnerFits, InMode

LEMMA DialogKinds ==
    DOMAIN Required = {"CreateTenant", "CreateClient", "CreateUser", "CreateRole", "EditClient", "CreateIdp",
                       "EditIdp", "EditUser", "EditRole", "CreatePermission", "EditPermission"}
BY DEF Required

\* The dialogs that end in one call and a reload
LEMMA PlainDialogs ==
    ASSUME NEW K, app \in Good(K),
           \/ CreateUserDialog \/ EditClientDialog \/ CreateIdpDialog \/ EditIdpDialog
           \/ CreatePermissionDialog \/ EditPermissionDialog \/ ConfirmDialog
    PROVE  app' \in Good(K)
<1>1. ASSUME NEW kind \in DOMAIN Required, Showing(kind), FormKey(kind) PROVE app' \in Good(K)
  BY <1>1, Forms
<1>2. ASSUME NEW kind \in Kinds \ {"None", "QuickStart", "PostCreateTenant"}, Showing(kind)
      PROVE  /\ PerformCreateUser(Closed) \subseteq Good(K) /\ PerformCreatePermission(Closed) \subseteq Good(K)
             /\ PerformCreateIdp(Closed) \subseteq Good(K)
             /\ PerformEditClient(Closed, app.modal.owner) \subseteq Good(K)
             /\ PerformEditIdp(Closed, app.modal.owner) \subseteq Good(K)
             /\ PerformEditPermission(Closed, app.modal.owner) \subseteq Good(K)
             /\ PerformDelete(Closed, app.modal.owner) \subseteq Good(K)
  <2>1. InMode("Admin") /\ app.modal.kind \notin {"None", "QuickStart", "PostCreateTenant"}
    BY <1>2 DEF Showing
  <2> QED
    BY <2>1, OwnerOfDialog, Performing
<1>3. Close => app' \in Good(K)
  BY Beginning DEF Close
<1>4. {"CreateUser", "EditClient", "CreateIdp", "EditIdp", "CreatePermission", "EditPermission", "ConfirmDelete"}
         \subseteq Kinds \ {"None", "QuickStart", "PostCreateTenant"}
  BY DialogKinds DEF Kinds
<1>5. CASE CreateUserDialog
  BY <1>1, <1>2, <1>4, <1>5, DialogKinds DEF CreateUserDialog
<1>6. CASE EditClientDialog
  BY <1>1, <1>2, <1>4, <1>6, DialogKinds DEF EditClientDialog
<1>7. CASE CreateIdpDialog
  BY <1>1, <1>2, <1>4, <1>7, DialogKinds DEF CreateIdpDialog
<1>8. CASE EditIdpDialog
  BY <1>1, <1>2, <1>4, <1>8, DialogKinds DEF EditIdpDialog
<1>9. CASE CreatePermissionDialog
  BY <1>1, <1>2, <1>4, <1>9, DialogKinds DEF CreatePermissionDialog
<1>10. CASE EditPermissionDialog
  BY <1>1, <1>2, <1>4, <1>10, DialogKinds DEF EditPermissionDialog
<1>11. CASE ConfirmDialog
  BY <1>2, <1>3, <1>4, <1>11 DEF ConfirmDialog
<1> QED
  BY <1>5, <1>6, <1>7, <1>8, <1>9, <1>10, <1>11

\* The others that are about one list
LEMMA OtherDialogs ==
    ASSUME NEW K, app \in Good(K),
           \/ CreateTenantDialog \/ CreateClientDialog \/ CreateRoleDialog \/ ClientRolesDialog
           \/ EditUserKey \/ EditUserDialog \/ EditRoleDialog \/ EditSettingsDialog
    PROVE  app' \in Good(K)
<1>1. ASSUME NEW kind \in DOMAIN Required, Showing(kind),
             FormKey(kind) \/ (kind \in DOMAIN FieldCount /\ FieldKey(kind))
      PROVE  app' \in Good(K)
  BY <1>1, Forms
<1>2. ASSUME NEW kind \in Kinds \ {"None", "QuickStart", "PostCreateTenant"}, Showing(kind)
      PROVE  /\ Closed \in Good(K) /\ Now \in Good(K) /\ Closed.mode.kind = "Admin"
             /\ OwnerFits(app.modal.owner, Closed) /\ OwnerFits(app.modal.owner, Now)
             /\ app.modal.part \in Sections
  <2>1. InMode("Admin") /\ app.modal.kind \notin {"None", "QuickStart", "PostCreateTenant"}
    BY <1>2 DEF Showing
  <2> QED
    BY <2>1, OwnerOfDialog
<1>3. Close => app' \in Good(K)
  BY Beginning DEF Close
<1>4. {"CreateTenant", "CreateClient", "CreateRole", "ClientRoles", "EditUser", "EditRole", "EditSettings"}
         \subseteq Kinds \ {"None", "QuickStart", "PostCreateTenant"}
  BY DialogKinds DEF Kinds
<1>5. CASE CreateTenantDialog
  BY <1>1, <1>2, <1>4, <1>5, DialogKinds, PerformingTenant DEF CreateTenantDialog
<1>6. CASE CreateClientDialog
  BY <1>1, <1>2, <1>4, <1>6, DialogKinds, PerformingClient DEF CreateClientDialog
<1>7. CASE CreateRoleDialog
  BY <1>1, <1>2, <1>4, <1>7, DialogKinds, PerformingRole DEF CreateRoleDialog
<1>8. CASE ClientRolesDialog
  <2>1. Showing("ClientRoles") /\ (Close \/ app' \in PerformSaveClientRoles(Closed, app.modal.owner))
    BY <1>8 DEF ClientRolesDialog
  <2>2. PerformSaveClientRoles(Closed, app.modal.owner) \subseteq Good(K)
    <3>1. 0 \in Sections
      BY DEF Sections
    <3> QED
      BY <1>2, <1>4, <2>1, <3>1, PerformingOthers
  <2> QED
    BY <1>3, <2>1, <2>2
<1>9. CASE EditUserKey
  BY <1>1, <1>9, DialogKinds DEF EditUserKey, FieldCount
<1>10. CASE EditUserDialog
  <2>1. Showing("EditUser")
    BY <1>10 DEF EditUserDialog
  <2>2. /\ Closed \in Good(K) /\ Now \in Good(K)
        /\ OwnerFits(app.modal.owner, Closed) /\ OwnerFits(app.modal.owner, Now) /\ Now.active = app.active
    BY <1>2, <1>4, <2>1, Beginning
  <2>3. ASSUME NEW r \in Answers(Send(Now, "delete_user_passkey", app.modal.owner), app.active)
        PROVE  r.app \in Good(K)
    <3>1. "delete_user_passkey" \in Ops
      BY DEF Ops
    <3>2. r \in Answers(Send(Now, "delete_user_passkey", app.modal.owner), Now.active)
      BY <2>2, <2>3
    <3> QED
      BY <2>2, <3>1, <3>2, Submitting DEF OwnerFits
  <2>4. PerformEditUser(Closed, app.modal.owner) \subseteq Good(K)
    BY <2>2, PerformingAssignments
  <2> QED
    BY <1>10, <2>3, <2>4 DEF EditUserDialog
<1>11. CASE EditRoleDialog
  <2>1. Showing("EditRole")
    BY <1>11 DEF EditRoleDialog
  <2>2. PerformEditRole(Closed, app.modal.owner) \subseteq Good(K)
    BY <1>2, <1>4, <2>1, PerformingAssignments
  <2>3. "EditRole" \in DOMAIN Required /\ "EditRole" \in DOMAIN FieldCount
    BY DialogKinds DEF FieldCount
  <2> QED
    BY <1>1, <1>11, <2>2, <2>3 DEF EditRoleDialog
<1>12. CASE EditSettingsDialog
  <2>1. Showing("EditSettings") /\ (Close \/ app' \in PerformSaveSettings(Closed, app.modal.part))
    BY <1>12 DEF EditSettingsDialog
  <2>2. PerformSaveSettings(Closed, app.modal.part) \subseteq Good(K)
    BY <1>2, <1>4, <2>1, PerformingOthers
  <2> QED
    BY <1>3, <2>1, <2>2
<1> QED
  BY <1>5, <1>6, <1>7, <1>8, <1>9, <1>10, <1>11, <1>12

\* Over another tenant than before only the lists that a switch forgets may
\* be foreign.
LEMMA Activating ==
    ASSUME NEW K, NEW a \in Good(K), a.modal = NoModal, NEW t \in a.server, NEW n \in Nat, n < Len(a.tenants)
    PROVE  LET b == [a EXCEPT !.active = t, !.focus = "Content", !.selected = n]
           IN  b \in Nearly(ClearedOnSwitch) /\ b.active = t /\ b.server = a.server /\ b.mode = a.mode
<1> DEFINE b == [a EXCEPT !.active = t, !.focus = "Content", !.selected = n]
<1>1. a \in Apps /\ t \in Maybe(Tenants)
  BY DEF Good, Nearly, Apps, Maybe
<1>2. b \in Apps
  BY <1>1, FieldTypes
<1>3. b.modal = a.modal /\ b.mode = a.mode /\ b.server = a.server /\ b.made = a.made /\ b.faults = a.faults
      /\ b.active = t /\ b.token = a.token /\ b.saved = a.saved /\ b.tenants = a.tenants
      /\ b.selected = n /\ b.sent = a.sent /\ b.rows = a.rows
  BY <1>1 DEF Apps
<1> HIDE DEF b
<1>4. Known(b) /\ ModeFits(b.mode, b.server) /\ SentScoped(b)
  BY <1>3 DEF Good, Nearly, Known, SentScoped
<1>5. Fits(b.modal, b)
  BY <1>3, PlainFits
<1>6. Foreign(b) \subseteq ClearedOnSwitch
  BY DEF Foreign
<1> QED
  BY <1>2, <1>3, <1>4, <1>5, <1>6 DEF b, Nearly

\* A step of the wizard that fits
LEMMA WizardFits ==
    ASSUME NEW a, NEW t \in a.server, NEW step \in 1 .. 4, a.mode.kind = "Admin" \/ step = 2,
           step > 2 => <<t, "create_client">> \in a.made,
           step > 3 => <<t, "create_user">> \in a.made
    PROVE  Fits(WizardAt(step, t), a)
<1>1. WizardAt(step, t).kind = "QuickStart" /\ WizardAt(step, t).part = step /\ WizardAt(step, t).owner = t
  BY DEF WizardAt, Dialog
<1> QED
  BY <1>1 DEF Fits

LEMMA WizardModal ==
    ASSUME NEW K, NEW a \in Good(K), NEW t \in a.server, NEW step \in 1 .. 4, a.mode.kind = "Admin" \/ step = 2,
           step > 2 => <<t, "create_client">> \in a.made,
           step > 3 => <<t, "create_user">> \in a.made
    PROVE  [a EXCEPT !.modal = WizardAt(step, t)] \in Good(K)
<1>1. t \in Maybe(Tenants)
  BY DEF Good, Nearly, Apps, Maybe
<1>2. WizardAt(step, t) \in Modals
  BY <1>1, Constants
<1>3. Fits(WizardAt(step, t), a)
  BY WizardFits
<1> QED
  BY <1>2, <1>3, SetModal

LEMMA WizardOpens ==
    ASSUME NEW K, NEW a \in Good(K), NEW t \in a.server
    PROVE  [a EXCEPT !.modal = WizardAt(2, t)] \in Good(K)
<1>1. t \in Maybe(Tenants)
  BY DEF Good, Nearly, Apps, Maybe
<1>2. WizardAt(2, t) \in Modals
  BY <1>1, Constants
<1>3. WizardAt(2, t).kind = "QuickStart" /\ WizardAt(2, t).part = 2 /\ WizardAt(2, t).owner = t
  BY DEF WizardAt, Dialog
<1>4. Fits(WizardAt(2, t), a)
  BY <1>3 DEF Fits
<1> QED
  BY <1>2, <1>4, SetModal

\* Enter on a tenant that has just been created
LEMMA CreatedTenant ==
    ASSUME NEW K, app \in Good(K), PostCreateTenantDialog
    PROVE  app' \in Good(ClearedOnSwitch)
<1>1. Showing("PostCreateTenant")
  BY Zenon DEF PostCreateTenantDialog
<1> DEFINE t == app.modal.owner
           Index(a) == (CHOOSE i \in DOMAIN a.tenants : a.tenants[i] = t) - 1
           Chosen(a) == [a EXCEPT !.active = t, !.focus = "Content", !.selected = Index(a)]
           Listed(a) == \E i \in DOMAIN a.tenants : a.tenants[i] = t
           Activate(a) == IF Listed(a) THEN LoadAll(Chosen(a)) ELSE {a}
<1>2. \/ \E a \in LoadTenants(Closed) :
            \E c \in Activate(a) : app' = [c EXCEPT !.modal = WizardAt(2, t)]
      \/ app' \in LoadTenants(Closed)
  <2>1. \/ \E c \in Then(LoadTenants(Closed), Activate) : app' = [c EXCEPT !.modal = WizardAt(2, t)]
        \/ app' \in LoadTenants(Closed)
    BY Zenon DEF PostCreateTenantDialog
  <2>2. Then(LoadTenants(Closed), Activate) = UNION {Activate(a) : a \in LoadTenants(Closed)}
    BY Zenon DEF Then
  <2> HIDE DEF Activate, t
  <2> QED
    BY <2>1, <2>2
<1>3. /\ Closed \in Good(K) /\ Closed.mode.kind = "Admin" /\ Closed.modal = NoModal
      /\ t \in Closed.server /\ t # NoTenant
  <2>1. app.mode.kind = "Admin" /\ app.modal.kind = "PostCreateTenant"
    BY <1>1 DEF Showing, InMode
  <2>2. app.modal.owner \in app.server
    BY <2>1 DEF Good, Nearly, Fits
  <2>3. NoTenant \notin app.server
    BY TerminalAssumption DEF Good, Nearly, Apps
  <2> QED
    BY <2>1, <2>2, <2>3, Beginning
<1>4. ASSUME NEW a \in Good(K) PROVE a \in Good(ClearedOnSwitch)
  BY DEF Good, Nearly, Foreign
<1>5. ASSUME NEW a \in LoadTenants(Closed)
      PROVE  a \in Good(K) /\ a \in Good(ClearedOnSwitch) /\ a.mode.kind = "Admin" /\ a.modal = NoModal
             /\ t \in a.server
  <2> HIDE DEF t
  <2> QED
    BY <1>3, <1>4, LoadingTenants
<1>6. ASSUME NEW a \in LoadTenants(Closed), NEW c \in Activate(a)
      PROVE  c \in Good(ClearedOnSwitch) /\ t \in c.server
  <2>1. CASE ~Listed(a)
    BY <1>5, <1>6, <2>1
  <2>2. CASE Listed(a)
    <3>1. Index(a) \in Nat /\ Index(a) < Len(a.tenants)
      <4>1. a.tenants \in Seq(Tenants)
        BY <1>5 DEF Good, Nearly, Apps
      <4>2. (CHOOSE i \in DOMAIN a.tenants : a.tenants[i] = t) \in DOMAIN a.tenants
        BY <2>2
      <4> QED
        BY <4>1, <4>2
    <3> DEFINE n == Index(a)
               b == [a EXCEPT !.active = t, !.focus = "Content", !.selected = n]
    <3>2. Chosen(a) \in Nearly(ClearedOnSwitch) /\ Chosen(a).active = t /\ Chosen(a).server = a.server
      <4>1. a \in Good(K) /\ a.modal = NoModal /\ t \in a.server /\ n \in Nat /\ n < Len(a.tenants)
        BY <1>5, <3>1
      <4>2. Chosen(a) = b
        BY Zenon
      <4> HIDE DEF n, t, Chosen
      <4>3. b \in Nearly(ClearedOnSwitch) /\ b.active = t /\ b.server = a.server /\ b.mode = a.mode
        BY <4>1, Activating, Zenon
      <4> QED
        BY <4>2, <4>3, Zenon
    <3> HIDE DEF t
    <3>3. Chosen(a).active # NoTenant
      BY <1>3, <3>2, Zenon
    <3>4. c \in LoadAll(Chosen(a))
      BY <1>6, <2>2
    <3> HIDE DEF Chosen
    <3> QED
      BY <1>5, <3>2, <3>3, <3>4, LoadingAll
  <2> QED
    BY <2>1, <2>2
<1>7. ASSUME NEW c \in Good(ClearedOnSwitch), t \in c.server
      PROVE  [c EXCEPT !.modal = WizardAt(2, t)] \in Good(ClearedOnSwitch)
  BY <1>7, WizardOpens
<1> HIDE DEF Activate, t
<1> QED
  BY <1>2, <1>5, <1>6, <1>7

\* The other pages of the wizard
LEMMA WizardKeys ==
    ASSUME NEW K, app \in Good(K), QuickstartKey \/ QuickstartDone
    PROVE  app' \in Good(K)
<1>1. InMode("Admin") /\ app.modal \in Modals
  BY Beginning DEF QuickstartKey, QuickstartDone, Showing, Apps
<1>2. CASE QuickstartKey
  <2>1. CASE Close
    BY <2>1, Beginning DEF Close
  <2>2. ASSUME NEW m \in Typed(app.modal, {0, 1}), Show(m) PROVE app' \in Good(K)
    BY <1>1, <2>2, TypedForms, ShowingSame
  <2>3. CASE Show(Cycled(app.modal))
    <3> DEFINE m == Cycled(app.modal)
    <3>1. (app.modal.type + 1) % 3 \in 0 .. 2
      BY <1>1 DEF Modals
    <3>2. m \in Modals /\ m.kind = app.modal.kind /\ m.owner = app.modal.owner /\ m.part = app.modal.part
      BY <1>1, <3>1 DEF Modals, Cycled
    <3> HIDE DEF m
    <3> QED
      BY <1>1, <2>3, <3>2, ShowingSame DEF m
  <2> QED
    BY <1>2, <2>1, <2>2, <2>3 DEF QuickstartKey
<1>3. CASE QuickstartDone
  BY <1>3, Beginning, LoadingTenants DEF QuickstartDone
<1> QED
  BY <1>2, <1>3

LEMMA WizardTenant ==
    ASSUME NEW K, app \in Good(K), QuickstartTenant
    PROVE  app' \in Good(K)
<1> DEFINE Grown(b, t) == [b EXCEPT !.server = @ \cup {t}]
<1>1. \E r \in Answers(Now, NoTenant) :
         \/ \E t \in Tenants \ Now.server : app' = [Grown(r.app, t) EXCEPT !.modal = WizardAt(2, t)]
         \/ app' = r.app
         \/ \E t \in Tenants \ Now.server : app' = Grown(r.app, t)
  <2>1. app' \in CreateTenantCall(Now, LAMBDA b, t : {[b EXCEPT !.modal = WizardAt(2, t)]}, LAMBDA b : {b})
    BY Zenon DEF QuickstartTenant
  <2>2. PICK r \in Answers(Now, NoTenant) :
           app' \in CASE r.reply = "ok" ->
                           UNION {{[Grown(r.app, t) EXCEPT !.modal = WizardAt(2, t)]} : t \in Tenants \ Now.server}
                      [] r.reply = "failed" ->
                           {r.app} \cup UNION {{Grown(r.app, t)} : t \in Tenants \ Now.server}
                      [] OTHER -> {r.app}
    BY <2>1, Zenon DEF CreateTenantCall
  <2> HIDE DEF Grown
  <2> QED
    BY <2>2
<1>2. ASSUME NEW r \in Answers(Now, NoTenant) PROVE r.app \in Good(K)
  BY <1>2, Beginning, AnsweringGood
<1>3. ASSUME NEW r \in Answers(Now, NoTenant), NEW t \in Tenants
      PROVE  Grown(r.app, t) \in Good(K) /\ t \in Grown(r.app, t).server
  BY <1>2, <1>3, Created
<1> HIDE DEF Grown
<1>4. ASSUME NEW r \in Answers(Now, NoTenant), NEW t \in Tenants
      PROVE  [Grown(r.app, t) EXCEPT !.modal = WizardAt(2, t)] \in Good(K)
  BY <1>3, <1>4, WizardOpens
<1> QED
  BY <1>1, <1>2, <1>3, <1>4

\* The call of the wizard, which is about no row
LEMMA WizardMakes ==
    ASSUME NEW K, app \in Good(K), Showing("QuickStart"), app.modal.owner # NoTenant, app.modal.part > 1,
           NEW what \in {"create_client", "create_user"}, NEW next \in 3 .. 4,
           what = IF next = 3 THEN "create_client" ELSE "create_user", next = app.modal.part + 1,
           Make(what, next)
    PROVE  app' \in Good(K)
<1> DEFINE t == app.modal.owner
           call == [op |-> what, tenant |-> t, owner |-> NoTenant]
           a == [Now EXCEPT !.sent = {call}]
           Done(b) == [b EXCEPT !.made = @ \cup {<<t, what>>}]
<1>1. PICK r \in Answers(a, t) :
         \/ app' = [Done(r.app) EXCEPT !.modal = WizardAt(next, t)]
         \/ app' = r.app
         \/ app' = Done(r.app)
  BY Zenon DEF Make
<1>2. app.mode.kind = "Admin" /\ t \in Tenants /\ t \in app.server
      /\ (next = 4 => <<t, "create_client">> \in app.made)
  <2>1. app.mode.kind = "Admin" /\ app.modal.kind = "QuickStart" /\ app \in Apps
    BY Beginning DEF Showing, InMode
  <2>2. app.modal.owner \in app.server /\ app.server \in SUBSET Tenants
    BY <2>1 DEF Good, Nearly, Fits, Apps
  <2>3. next = 4 => <<app.modal.owner, "create_client">> \in app.made
    <3>1. app.modal.part \in 0 .. 4
      BY <2>1 DEF Apps, Modals
    <3>2. next = 4 => app.modal.part > 2
      BY <3>1
    <3> QED
      BY <2>1, <3>2 DEF Good, Nearly, Fits
  <2> QED
    BY <2>1, <2>2, <2>3
<1> HIDE DEF t
<1>3. a \in Good(K) /\ a.mode = app.mode /\ a.server = app.server /\ a.made = app.made
  <2>1. Now \in Good(K) /\ Now \in Apps
    BY Beginning DEF Good, Nearly
  <2>2. call \in Calls /\ call.owner = NoTenant
    BY <1>2 DEF Calls, Maybe, Ops
  <2> HIDE DEF call
  <2>3. a \in Apps
    <3>1. {call} \in SUBSET Calls
      BY <2>2
    <3> QED
      BY <2>1, <3>1, FieldTypes
  <2>4. a.modal = Now.modal /\ a.mode = Now.mode /\ a.server = Now.server /\ a.made = Now.made /\ a.faults = Now.faults
        /\ a.active = Now.active /\ a.token = Now.token /\ a.saved = Now.saved /\ a.tenants = Now.tenants
        /\ a.selected = Now.selected /\ a.sent = {call} /\ a.rows = Now.rows
    BY <2>1 DEF Apps
  <2> HIDE DEF a
  <2>5. SentScoped(a)
    BY <2>2, <2>4 DEF SentScoped
  <2>6. Known(a) /\ ModeFits(a.mode, a.server) /\ Foreign(a) \subseteq K /\ RowsScoped(a)
    BY <2>1, <2>4 DEF Good, Nearly, Known, Foreign, RowsScoped
  <2>7. Fits(a.modal, a)
    <3>1. Fits(Now.modal, Now)
      BY <2>1 DEF Good, Nearly
    <3> QED
      BY <2>4, <3>1 DEF Fits
  <2> QED
    BY <2>3, <2>4, <2>5, <2>6, <2>7, Beginning DEF Good, Nearly
<1> HIDE DEF a
<1>4. r.app \in Good(K) /\ r.app.mode = a.mode /\ r.app.server = a.server /\ r.app.made = a.made
  BY <1>3, AnsweringGood DEF Same
<1>5. /\ Done(r.app) \in Good(K) /\ Done(r.app).mode = a.mode /\ t \in Done(r.app).server
      /\ Done(r.app).made = a.made \cup {<<t, what>>}
  <2>1. <<t, what>> \in Tenants \X {"create_client", "create_user"}
    BY <1>2
  <2> QED
    BY <1>2, <1>3, <1>4, <2>1, Making
<1> HIDE DEF Done
<1>6. [Done(r.app) EXCEPT !.modal = WizardAt(next, t)] \in Good(K)
  <2>1. /\ next > 2 => <<t, "create_client">> \in Done(r.app).made
        /\ next > 3 => <<t, "create_user">> \in Done(r.app).made
    BY <1>2, <1>3, <1>5
  <2> QED
    <3> DEFINE b == Done(r.app)
    <3>1. b \in Good(K) /\ b.mode.kind = "Admin" /\ t \in b.server /\ next \in 1 .. 4
      BY <1>2, <1>3, <1>5
    <3> HIDE DEF b
    <3> QED
      BY <2>1, <3>1, WizardModal, Zenon DEF b
<1> QED
  BY <1>1, <1>4, <1>5, <1>6

LEMMA WizardCalls ==
    ASSUME NEW K, app \in Good(K), QuickstartClient \/ QuickstartUser
    PROVE  app' \in Good(K)
BY WizardMakes DEF QuickstartClient, QuickstartUser

\* The lists of the tenants and of the tabs
LEMMA Screen ==
    ASSUME NEW K, app \in Good(K), Screens
    PROVE  app' \in Good(K)
<1>1. InMode("Admin") /\ app.mode.kind = "Admin"
  BY DEF Screens, Help, SidebarMove, SidebarEnter, SidebarOther, TabMove, SettingsEnter, ContentNew,
         ContentEdit, ContentClientRoles, ContentDisableMfa, ContentDelete, ContentExport, OnRow, Reading,
         Showing, InMode
<1>2. /\ Now \in Good(K) /\ Now \in Apps /\ Now.mode = app.mode /\ Now.modal = app.modal
      /\ Now.active = app.active /\ Now.rows = app.rows /\ Now.faults = app.faults /\ Now.tab = app.tab
      /\ Now.tenants = app.tenants /\ Now.selected = app.selected /\ Now.server = app.server /\ app \in Apps
  BY Beginning DEF Good, Nearly
<1>3. OwnerFits(NoTenant, app) /\ OwnerFits(NoTenant, Now)
  BY DEF OwnerFits, Maybe
<1>4. ASSUME NEW kind \in {"CreateTenant", "CreateClient", "CreateUser", "CreateRole", "CreatePermission",
                           "CreateIdp", "EditClient", "EditPermission", "EditIdp", "ConfirmDelete"},
             NEW owner, OwnerFits(owner, app), NEW filled \in {{}, {0}}, Show(Dialog(kind, owner, filled))
      PROVE  app' \in Good(K)
  <2>1. kind \in Kinds \ {"None", "QuickStart", "PostCreateTenant"} /\ filled \in SUBSET (0 .. 2)
    BY DialogKinds DEF Kinds
  <2> QED
    BY <1>1, <1>4, <2>1, ShowingNew
<1>5. ASSUME OnRow, app.tab # "AuditLog" PROVE OwnerFits(RowOwner, app) /\ OwnerFits(RowOwner, Now)
  <2>1. app.tab \in Lists \ {"AuditLog"}
    BY <1>5 DEF OnRow
  <2>2. app.rows[app.tab] \in Maybe(Tenants) /\ (app.faults = 0 => app.rows[app.tab] \in {NoTenant, app.active})
    BY <1>2, <2>1 DEF Good, RowsScoped, Apps
  <2> QED
    BY <1>2, <2>2 DEF OwnerFits, RowOwner
<1>6. CASE Help
  <2>1. Fits(Wizard, Now)
    BY <1>1, <1>2 DEF Fits, Wizard, Dialog
  <2> QED
    BY <1>2, <1>6, <2>1, Constants, SetModal DEF Help, Show
<1>7. CASE SidebarMove
  <2>1. PICK i \in {app.selected - 1, app.selected + 1} :
           i \in 0 .. Len(app.tenants) - 1 /\ app' = [Now EXCEPT !.selected = i]
    BY <1>7 DEF SidebarMove
  <2>2. i \in Nat /\ i < Len(Now.tenants)
    <3>1. Len(app.tenants) \in Nat
      BY <1>2 DEF Apps
    <3> QED
      BY <1>2, <2>1, <3>1
  <2> QED
    BY <1>2, <2>1, <2>2, Moving
<1>8. CASE SidebarEnter
  <2> DEFINE t == app.tenants[app.selected + 1]
             rows == [k \in Lists |-> IF app.active # t /\ k \in ClearedOnSwitch THEN NoTenant ELSE app.rows[k]]
             b == [Now EXCEPT !.rows = rows, !.active = t, !.focus = "Content"]
  <2>1. app' \in LoadAll(b) /\ app.modal.kind = "None" /\ app.tenants # <<>>
    BY <1>8, Zenon DEF SidebarEnter, Reading, Showing
  <2>2. t \in Tenants /\ t \in Maybe(Tenants) /\ t # NoTenant
    <3>1. app.tenants \in Seq(Tenants) /\ app.selected \in Nat /\ (app.selected = 0 \/ app.selected < Len(app.tenants))
      BY <1>2, Beginning DEF Apps, Good, Nearly, Known
    <3>2. app.selected + 1 \in 1 .. Len(app.tenants)
      BY <2>1, <3>1
    <3> QED
      BY <3>1, <3>2, TerminalAssumption DEF Maybe
  <2>3. rows \in [Lists -> Maybe(Tenants)]
    BY <1>2 DEF Apps, Maybe
  <2>4. \A k \in ClearedOnSwitch : rows[k] = NoTenant \/ (app.active = t /\ rows[k] = app.rows[k])
    BY DEF ClearedOnSwitch, Lists
  <2> HIDE DEF rows, t
  <2>5. b \in Apps
    BY <1>2, <2>2, <2>3, FieldTypes
  <2>6. b.modal = Now.modal /\ b.mode = Now.mode /\ b.server = Now.server /\ b.made = Now.made
        /\ b.faults = Now.faults /\ b.active = t /\ b.token = Now.token /\ b.saved = Now.saved
        /\ b.tenants = Now.tenants /\ b.selected = Now.selected /\ b.sent = Now.sent /\ b.rows = rows
    BY <1>2 DEF Apps
  <2> HIDE DEF b
  <2>7. Known(b) /\ ModeFits(b.mode, b.server) /\ SentScoped(b)
    BY <1>2, <2>6 DEF Good, Nearly, Known, SentScoped
  <2>8. Fits(b.modal, b)
    BY <1>1, <1>2, <2>1, <2>6 DEF Fits
  <2>9. Foreign(b) \subseteq K
    <3>1. Foreign(app) \subseteq K
      BY DEF Good, Nearly
    <3>2. Foreign(b) \subseteq Foreign(app)
      BY <2>4, <2>6 DEF Foreign
    <3> QED
      BY <3>1, <3>2
  <2>10. b \in Nearly(K) /\ b.active # NoTenant
    BY <2>2, <2>5, <2>6, <2>7, <2>8, <2>9 DEF Nearly
  <2> QED
    BY <2>1, <2>10, LoadingAll
<1>9. CASE SidebarOther
  <2>1. [Now EXCEPT !.focus = "Content"] \in Good(K)
    <3>1. [Now EXCEPT !.focus = "Content"] \in Apps
      BY <1>2, FieldTypes
    <3> QED
      BY <1>2, <3>1, Turning DEF Apps
  <2> QED
    BY <1>2, <1>3, <1>4, <1>9, <2>1, LoadingTenants DEF SidebarOther
<1>10. CASE TabMove
  <2>1. [Now EXCEPT !.focus = "Sidebar"] \in Good(K)
    <3>1. [Now EXCEPT !.focus = "Sidebar"] \in Apps
      BY <1>2, FieldTypes
    <3> QED
      BY <1>2, <3>1, Turning DEF Apps
  <2>2. ASSUME NEW tab \in Tabs PROVE LoadCurrentTab([Now EXCEPT !.tab = tab]) \subseteq Good(K)
    <3>1. [Now EXCEPT !.tab = tab] \in Apps
      BY <1>2, FieldTypes
    <3>2. [Now EXCEPT !.tab = tab] \in Good(K)
      BY <1>2, <3>1, Turning DEF Apps
    <3> QED
      BY <3>2, LoadingTab
  <2>3. \A j \in DOMAIN TabOrder : TabOrder[j] \in Tabs
    BY DEF TabOrder, Tabs, Lists
  <2> QED
    BY <1>10, <2>1, <2>2, <2>3 DEF TabMove
<1>11. CASE SettingsEnter
  <2>1. PICK s \in Sections : Show([Dialog("EditSettings", NoTenant, {}) EXCEPT !.part = s])
    BY <1>11 DEF SettingsEnter
  <2> DEFINE d == [Dialog("EditSettings", NoTenant, {}) EXCEPT !.part = s]
  <2>2. d \in Modals
    BY DEF Modals, Dialog, Kinds, Maybe, Sections
  <2>3. Fits(d, Now)
    BY <1>1, <1>2 DEF Dialog, Fits
  <2> HIDE DEF d
  <2> QED
    BY <1>2, <2>1, <2>2, <2>3, SetModal DEF Show, d
<1>12. CASE ContentNew
  BY <1>3, <1>4, <1>12 DEF ContentNew
<1>13. CASE ContentEdit
  <2>1. OnRow /\ (app.tab \in {"Clients", "Users", "Roles", "Permissions", "IdentityProviders"})
    BY <1>13 DEF ContentEdit
  <2>2. OwnerFits(RowOwner, app) /\ OwnerFits(RowOwner, Now)
    BY <1>5, <2>1
  <2>3. OpenEditUser(Now, RowOwner) \subseteq Good(K)
    BY <1>1, <1>2, <2>2, OpeningUser
  <2>4. OpenEditRole(Now, RowOwner, app.active) \subseteq Good(K)
    BY <1>1, <1>2, <2>2, OpeningRole
  <2> QED
    BY <1>4, <1>13, <2>2, <2>3, <2>4 DEF ContentEdit
<1>14. CASE ContentClientRoles
  <2>1. OwnerFits(RowOwner, Now) /\ app' \in OpenClientRoles(Now, RowOwner) /\ 0 \in Sections
    BY <1>5, <1>14 DEF ContentClientRoles, Sections
  <2> QED
    BY <1>1, <1>2, <2>1, PerformingOthers
<1>15. CASE ContentDisableMfa
  <2>1. OwnerFits(RowOwner, Now)
    BY <1>5, <1>15 DEF ContentDisableMfa
  <2>2. PICK r \in Answers(Send(Now, "disable_mfa", RowOwner), app.active) :
           IF r.reply = "ok" THEN app' \in LoadList(r.app, "Users") ELSE app' = r.app
    BY <1>15 DEF ContentDisableMfa
  <2>3. r.app \in Good(K)
    <3>1. "disable_mfa" \in Ops
      BY DEF Ops
    <3>2. r \in Answers(Send(Now, "disable_mfa", RowOwner), Now.active)
      BY <1>2, <2>2
    <3> QED
      BY <1>2, <2>1, <3>1, <3>2, Submitting DEF OwnerFits
  <2>4. LoadList(r.app, "Users") \subseteq Good(K)
    BY <2>3, LoadingList DEF Lists
  <2> QED
    BY <2>2, <2>3, <2>4
<1>16. CASE ContentDelete
  BY <1>4, <1>5, <1>16 DEF ContentDelete
<1>17. CASE ContentExport
  BY <1>2, <1>17, Fetching DEF ContentExport, Good
<1> QED
  BY <1>6, <1>7, <1>8, <1>9, <1>10, <1>11, <1>12, <1>13, <1>14, <1>15, <1>16, <1>17 DEF Screens

\* The process that starts signs in with what the config file has.
LEMMA Launching ==
    ASSUME NEW K, app \in Good(K), Start
    PROVE  app' \in Good(K)
<1> DEFINE x == NewApp(app.saved, app.server, app.made, app.faults)
           new == [x EXCEPT !.running = TRUE]
           At(live) == [new EXCEPT !.mode = Admin, !.token = new.saved, !.live = live]
           Restored(b) == IF b.tenants = <<>> THEN [b EXCEPT !.mode = BlankLogin] ELSE b
<1>1. \/ new.saved = NoTenant /\ app' = new
      \/ /\ new.saved # NoTenant
         /\ \E live \in BOOLEAN : \E b \in LoadTenants(At(live)) : app' = Restored(b)
  BY Zenon DEF Start
<1>2. x \in Good(K) /\ x \in Apps /\ x.saved \in Maybe(x.server) /\ x.modal = NoModal
  <2>1. /\ app.server \in SUBSET Tenants /\ Master \in app.server /\ app.saved \in Maybe(app.server)
        /\ app.made \in SUBSET (Tenants \X {"create_client", "create_user"}) /\ app.faults \in 0 .. MaxFaults
    BY DEF Good, Nearly, Known, Apps
  <2>2. x \in Good(K)
    BY <2>1, NewAppGood
  <2>3. x.saved = app.saved /\ x.server = app.server /\ x.modal = NoModal
    BY DEF NewApp
  <2> HIDE DEF x
  <2> QED
    BY <2>1, <2>2, <2>3 DEF Good, Nearly
<1> HIDE DEF x
<1>3. new \in Good(K) /\ new.saved = x.saved /\ new.server = x.server /\ new.modal = NoModal /\ new \in Apps
  <2>1. new \in Apps
    BY <1>2, Running
  <2>2. new.modal = x.modal /\ new.mode = x.mode /\ new.server = x.server /\ new.made = x.made /\ new.faults = x.faults
        /\ new.active = x.active /\ new.token = x.token /\ new.saved = x.saved /\ new.tenants = x.tenants
        /\ new.selected = x.selected /\ new.sent = x.sent /\ new.rows = x.rows
    BY <1>2 DEF Apps
  <2> HIDE DEF new
  <2> QED
    BY <1>2, <2>1, <2>2, Turning
<1> HIDE DEF new
<1>4. ASSUME NEW live \in BOOLEAN, new.saved # NoTenant
      PROVE  At(live) \in Good(K) /\ At(live).modal = NoModal
  <2> DEFINE b1 == [new EXCEPT !.mode = Admin]
             b2 == [b1 EXCEPT !.token = new.saved]
             b == At(live)
  <2>1. new.saved \in Maybe(Tenants) /\ Admin \in Modes /\ Admin.kind = "Admin"
    BY <1>3, Constants DEF Apps
  <2>2. b1 \in Good(K) /\ b1 \in Apps
    <3>1. ModeFits(Admin, new.server)
      BY <2>1 DEF ModeFits
    <3>2. b1 \in Good(K)
      BY <1>3, <2>1, <3>1, SetMode
    <3> HIDE DEF b1
    <3> QED
      BY <3>2 DEF Good, Nearly
  <2>3. b1.modal = new.modal /\ b1.saved = new.saved /\ b1.server = new.server
    BY <1>3 DEF Apps
  <2>4. b = [b2 EXCEPT !.live = live]
    BY Zenon
  <2> HIDE DEF b, b1
  <2>5. b2 \in Apps
    BY <2>1, <2>2, FieldTypes
  <2>6. b2.modal = b1.modal /\ b2.mode = b1.mode /\ b2.server = b1.server /\ b2.made = b1.made
        /\ b2.faults = b1.faults /\ b2.active = b1.active /\ b2.token = new.saved /\ b2.saved = b1.saved
        /\ b2.tenants = b1.tenants /\ b2.selected = b1.selected /\ b2.sent = b1.sent /\ b2.rows = b1.rows
    BY <2>2 DEF Apps
  <2> HIDE DEF b2
  <2>7. b2 \in Good(K)
    <3>1. Known(b2) /\ ModeFits(b2.mode, b2.server) /\ SentScoped(b2)
      BY <1>2, <1>3, <2>2, <2>3, <2>6 DEF Good, Nearly, Known, SentScoped
    <3>2. Fits(b2.modal, b2)
      BY <1>3, <2>3, <2>6, PlainFits
    <3>3. Foreign(b2) \subseteq K /\ RowsScoped(b2)
      BY <2>2, <2>6 DEF Good, Nearly, Foreign, RowsScoped
    <3> QED
      BY <2>5, <3>1, <3>2, <3>3 DEF Good, Nearly
  <2>8. b \in Apps
    <3>1. CASE live = TRUE
      BY <2>4, <2>5, <3>1, Live
    <3>2. CASE live = FALSE
      BY <2>4, <2>5, <3>2, Dead
    <3> QED
      BY <3>1, <3>2
  <2>9. b.modal = b2.modal /\ b.mode = b2.mode /\ b.server = b2.server /\ b.made = b2.made
        /\ b.faults = b2.faults /\ b.active = b2.active /\ b.token = b2.token /\ b.saved = b2.saved
        /\ b.tenants = b2.tenants /\ b.selected = b2.selected /\ b.sent = b2.sent /\ b.rows = b2.rows
    BY <2>4, <2>5 DEF Apps
  <2>10. b \in Good(K) /\ b.modal = NoModal
    BY <1>3, <2>3, <2>6, <2>7, <2>8, <2>9, Turning
  <2> QED
    BY <2>10 DEF b
<1> HIDE DEF At
<1>5. ASSUME NEW live \in BOOLEAN, new.saved # NoTenant, NEW b \in LoadTenants(At(live))
      PROVE  Restored(b) \in Good(K)
  <2>1. b \in Good(K) /\ b.modal = NoModal
    BY <1>4, <1>5, LoadingTenants
  <2>2. BlankLogin \in Modes /\ ModeFits(BlankLogin, b.server)
    BY Constants DEF ModeFits, Range
  <2> QED
    BY <2>1, <2>2, SetMode
<1> HIDE DEF Restored
<1> QED
  BY <1>1, <1>3, <1>5

\* What happens next to the keys
LEMMA Surroundings ==
    ASSUME NEW K, app \in Good(K), Quit \/ TenantCreatedElsewhere
    PROVE  app' \in Good(K)
<1>1. CASE Quit
  <2>1. /\ app.server \in SUBSET Tenants /\ Master \in app.server /\ app.saved \in Maybe(app.server)
        /\ app.made \in SUBSET (Tenants \X {"create_client", "create_user"}) /\ app.faults \in 0 .. MaxFaults
    BY DEF Good, Nearly, Known, Apps
  <2> QED
    BY <1>1, <2>1, NewAppGood DEF Quit
<1>2. CASE TenantCreatedElsewhere
  <2>1. PICK t \in Tenants : app' = [app EXCEPT !.server = @ \cup {t}, !.sent = {}]
    BY <1>2, Zenon DEF TenantCreatedElsewhere
  <2>2. app \in Apps /\ Now \in Good(K)
    BY Beginning
  <2>3. app' = [Now EXCEPT !.server = @ \cup {t}]
    BY <2>1, <2>2 DEF Now, Apps
  <2> QED
    BY <2>2, <2>3, Created
<1> QED
  BY <1>1, <1>2

\* The wizard opens over whatever a good sign-in has left.
LEMMA Welcoming ==
    ASSUME NEW K, app \in Good(K), NEW t \in app.server, NEW offered, Welcome(SignIn(Now, t), offered)
    PROVE  app' \in Good(K)
<1>1. PICK b \in SignIn(Now, t) : app' = IF offered /\ OnlyMaster(b) THEN [b EXCEPT !.modal = Wizard] ELSE b
  BY Zenon DEF Welcome
<1>2. b \in Good(K) /\ b.mode = Admin
  <2>1. Now \in Good(K) /\ t \in Now.server
    BY Beginning
  <2> QED
    BY <2>1, SigningIn
<1>3. Fits(Wizard, b)
  BY <1>2, Constants DEF Fits, Wizard, Dialog
<1>4. [b EXCEPT !.modal = Wizard] \in Good(K)
  BY <1>2, <1>3, Constants, SetModal
<1> QED
  BY <1>1, <1>2, <1>4, Zenon

\* The login screen and the second factor
LEMMA LoginForms ==
    ASSUME NEW K, app \in Good(K), InMode("Login")
    PROVE  /\ app.mode.filled \in SUBSET {0, 1} /\ app.mode.field \in 0 .. 1 /\ app.mode.idx \in Nat
           /\ app.mode.choices \in Seq(Tenants) /\ Range(app.mode.choices) \subseteq app.server
           /\ app.mode.idx = 0 \/ app.mode.idx < Len(app.mode.choices)
           /\ app.mode \in [kind : {"Login"}, filled : SUBSET {0, 1}, field : 0 .. 1,
                            choices : {<<>>} \cup UNION {SetToSeqs(S) : S \in SUBSET Tenants}, idx : Nat]
<1>1. app.mode \in Modes /\ app.mode.kind = "Login"
  BY Beginning DEF InMode, Apps
<1>2. app.mode \in [kind : {"Login"}, filled : SUBSET {0, 1}, field : 0 .. 1,
                    choices : {<<>>} \cup UNION {SetToSeqs(S) : S \in SUBSET Tenants}, idx : Nat]
  BY <1>1 DEF Modes, Admin
<1>3. Range(app.mode.choices) \subseteq app.server /\ (app.mode.idx = 0 \/ app.mode.idx < Len(app.mode.choices))
  BY <1>1 DEF Good, Nearly, ModeFits
<1>4. app.mode.choices \in Seq(Tenants)
  <2>1. CASE app.mode.choices = <<>>
    BY <2>1
  <2>2. ASSUME NEW S \in SUBSET Tenants, app.mode.choices \in SetToSeqs(S) PROVE app.mode.choices \in Seq(Tenants)
    BY <2>2, Listing
  <2>3. app.mode.choices \in {<<>>} \cup UNION {SetToSeqs(S) : S \in SUBSET Tenants}
    BY <1>2
  <2> QED
    BY <2>1, <2>2, <2>3
<1> QED
  BY <1>2, <1>3, <1>4

LEMMA LoggingIn ==
    ASSUME NEW K, app \in Good(K), LoginKey \/ LoginUniversal \/ LoginToChoice
    PROVE  app' \in Good(K)
<1> DEFINE m == app.mode
           Forms1 == [kind : {"Login"}, filled : SUBSET {0, 1}, field : 0 .. 1,
                      choices : {<<>>} \cup UNION {SetToSeqs(S) : S \in SUBSET Tenants}, idx : Nat]
<1>1. InMode("Login") /\ m.kind = "Login" /\ m.kind # "Admin"
  BY DEF LoginKey, LoginUniversal, LoginToChoice, InMode
<1>2. /\ m.filled \in SUBSET {0, 1} /\ m.field \in 0 .. 1 /\ m.idx \in Nat
      /\ m.choices \in Seq(Tenants) /\ Range(m.choices) \subseteq app.server
      /\ m.idx = 0 \/ m.idx < Len(m.choices)
      /\ m \in Forms1
  BY <1>1, LoginForms
<1>3. Now \in Good(K) /\ Now \in Apps /\ Now.mode = m /\ Now.server = app.server /\ app.server \in SUBSET Tenants
  BY Beginning DEF Good, Nearly, Apps
<1>4. ASSUME NEW f \in Modes, ModeFits(f, app.server), app' = [Now EXCEPT !.mode = f] PROVE app' \in Good(K)
  <2> HIDE DEF m
  <2> QED
    BY <1>1, <1>3, <1>4, SetMode
<1>5. Forms1 \subseteq Modes
  BY DEF Modes
<1>6. ASSUME NEW t \in app.server PROVE Welcome(SignIn(Now, t), TRUE) => app' \in Good(K)
  BY <1>6, Welcoming
<1>7. ASSUME NEW t \in app.server, NEW offered, Welcome(SignIn(Now, t), offered) PROVE app' \in Good(K)
  BY <1>7, Welcoming
<1>8. ASSUME NEW t \in app.server, NEW u \in app.server, app' = [Now EXCEPT !.mode = MfaChallenge(u, t, FALSE)]
      PROVE  app' \in Good(K)
  <2>1. MfaChallenge(u, t, FALSE) \in Modes
    BY <1>3 DEF MfaChallenge, Modes
  <2>2. ModeFits(MfaChallenge(u, t, FALSE), app.server)
    BY DEF MfaChallenge, ModeFits
  <2> QED
    BY <1>4, <1>8, <2>1, <2>2
<1> HIDE DEF Forms1
<1>9. CASE LoginKey
  <2>1. CASE app' = [Now EXCEPT !.mode = [m EXCEPT !.field = (@ + 1) % 2]]
    <3> DEFINE f == [m EXCEPT !.field = (@ + 1) % 2]
    <3>1. (m.field + 1) % 2 \in 0 .. 1
      BY <1>2
    <3>2. f \in Forms1 /\ f.kind = m.kind /\ f.choices = m.choices /\ f.idx = m.idx
      BY <1>2, <3>1 DEF Forms1
    <3>3. ModeFits(f, app.server) /\ f \in Modes
      BY <1>1, <1>2, <1>5, <3>2 DEF ModeFits
    <3> HIDE DEF f
    <3> QED
      BY <1>4, <2>1, <3>3 DEF f
  <2>2. ASSUME NEW filled \in SUBSET {0, 1}, app' = [Now EXCEPT !.mode = Login(filled, m.field, <<>>, 0)]
        PROVE  app' \in Good(K)
    <3> DEFINE f == Login(filled, m.field, <<>>, 0)
    <3>1. f \in Forms1 /\ ModeFits(f, app.server)
      BY <1>2 DEF Login, Forms1, ModeFits, Range
    <3> HIDE DEF f
    <3> QED
      BY <1>4, <1>5, <2>2, <3>1 DEF f
  <2>3. ASSUME NEW i \in Nat, i < Len(m.choices), app' = [Now EXCEPT !.mode.idx = i] PROVE app' \in Good(K)
    <3> DEFINE f == [m EXCEPT !.idx = i]
    <3>1. app' = [Now EXCEPT !.mode = f]
      BY <1>3, <2>3 DEF Apps
    <3>2. f \in Forms1 /\ f.kind = m.kind /\ f.choices = m.choices /\ f.idx = i
      BY <1>2, <2>3 DEF Forms1
    <3>3. ModeFits(f, app.server) /\ f \in Modes
      BY <1>1, <1>2, <1>5, <2>3, <3>2 DEF ModeFits
    <3> HIDE DEF f
    <3> QED
      BY <1>4, <3>1, <3>3
  <2>4. \/ app' = [Now EXCEPT !.mode = [m EXCEPT !.field = (@ + 1) % 2]]
        \/ \E filled \in {m.filled \cup {m.field}, m.filled \ {m.field}, m.filled} :
              app' = [Now EXCEPT !.mode = Login(filled, m.field, <<>>, 0)]
        \/ /\ Len(m.choices) > 0
           /\ \E i \in {(m.idx + 1) % Len(m.choices), (m.idx + Len(m.choices) - 1) % Len(m.choices)} :
                 app' = [Now EXCEPT !.mode.idx = i]
    BY <1>9, Zenon DEF LoginKey
  <2>5. {m.filled \cup {m.field}, m.filled \ {m.field}, m.filled} \subseteq SUBSET {0, 1}
    BY <1>2
  <2>6. ASSUME Len(m.choices) > 0
        PROVE  \A i \in {(m.idx + 1) % Len(m.choices), (m.idx + Len(m.choices) - 1) % Len(m.choices)} :
                  i \in Nat /\ i < Len(m.choices)
    <3> DEFINE n == Len(m.choices)
               x == m.idx
    <3>1. n \in Nat /\ n > 0 /\ x \in Nat
      BY <1>2, <2>6
    <3> HIDE DEF n, x
    <3>2. x + 1 \in Nat /\ x + n - 1 \in Nat
      BY <3>1
    <3>3. ASSUME NEW y \in Nat PROVE y % n \in Nat /\ y % n < n
      BY <3>1
    <3>4. \A i \in {(x + 1) % n, (x + n - 1) % n} : i \in Nat /\ i < n
      BY <3>2, <3>3
    <3> QED
      BY <3>4 DEF n, x
  <2> HIDE DEF m
  <2> QED
    BY <2>1, <2>2, <2>3, <2>4, <2>5, <2>6
<1>10. CASE LoginUniversal
  <2>1. \/ \E t \in app.server : Welcome(SignIn(Now, t), TRUE)
        \/ \E t \in app.server : app' = [Now EXCEPT !.mode = MfaChallenge(Master, t, FALSE)]
        \/ \E S \in SUBSET app.server : \E list \in SetToSeqs(S) :
              Cardinality(S) > 1 /\ app' = [Now EXCEPT !.mode.choices = list]
        \/ app' = Now
    BY <1>10, Zenon DEF LoginUniversal
  <2>2. Master \in app.server /\ m.choices = <<>>
    BY <1>10 DEF LoginUniversal, Good, Nearly, Known
  <2>3. ASSUME NEW S \in SUBSET app.server, NEW list \in SetToSeqs(S), Cardinality(S) > 1,
               app' = [Now EXCEPT !.mode.choices = list]
        PROVE  app' \in Good(K)
    <3> DEFINE f == [m EXCEPT !.choices = list]
    <3>1. S \in SUBSET Tenants
      BY <1>3
    <3>2. Range(list) \subseteq S /\ Len(list) = Cardinality(S) /\ list \in Seq(Tenants)
      BY <2>3, <3>1, Listing
    <3>3. app' = [Now EXCEPT !.mode = f]
      BY <1>3, <2>3 DEF Apps
    <3>4. list \in {<<>>} \cup UNION {SetToSeqs(T) : T \in SUBSET Tenants}
      BY <2>3, <3>1
    <3>5. f \in Forms1 /\ f.kind = m.kind /\ f.choices = list /\ f.idx = m.idx
      BY <1>2, <3>4 DEF Forms1
    <3>6. m.idx = 0
      BY <1>2, <2>2
    <3>7. ModeFits(f, app.server) /\ f \in Modes
      BY <1>1, <1>5, <2>3, <3>2, <3>5, <3>6 DEF ModeFits
    <3> HIDE DEF f
    <3> QED
      BY <1>4, <3>3, <3>7
  <2> HIDE DEF m
  <2> QED
    BY <1>3, <1>6, <1>8, <2>1, <2>2, <2>3
<1>11. CASE LoginToChoice
  <2> DEFINE t == m.choices[m.idx + 1]
  <2>1. \/ Welcome(SignIn(Now, t), t = Master)
        \/ app' = [Now EXCEPT !.mode = MfaChallenge(t, t, FALSE)]
        \/ app' = Now
    BY <1>11, Zenon DEF LoginToChoice
  <2>2. t \in app.server
    <3>1. m.choices # <<>> /\ m.idx + 1 \in 1 .. Len(m.choices)
      BY <1>2, <1>11 DEF LoginToChoice
    <3>2. DOMAIN m.choices = 1 .. Len(m.choices)
      BY <1>2
    <3> QED
      BY <1>2, <3>1, <3>2 DEF Range
  <2> HIDE DEF t, m
  <2>3. CASE Welcome(SignIn(Now, t), t = Master)
    <3> DEFINE offered == t = Master
    <3>1. Welcome(SignIn(Now, t), offered)
      BY <2>3
    <3> HIDE DEF offered
    <3> QED
      BY <1>7, <2>2, <3>1, Zenon
  <2> QED
    BY <1>3, <1>8, <2>1, <2>2, <2>3
<1> QED
  BY <1>9, <1>10, <1>11

LEMMA Challenged ==
    ASSUME NEW K, app \in Good(K), MfaKey
    PROVE  app' \in Good(K)
<1> DEFINE m == app.mode
<1>1. m.kind = "MfaChallenge" /\ m.kind # "Admin" /\ m \in Modes /\ m.slug \in app.server /\ m.issuer \in app.server
  <2>1. m.kind = "MfaChallenge" /\ m \in Modes
    BY Beginning DEF MfaKey, InMode, Apps
  <2> QED
    BY <2>1 DEF Good, Nearly, ModeFits
<1>2. m \in [kind : {"MfaChallenge"}, slug : Tenants, issuer : Tenants, complete : BOOLEAN]
  BY <1>1 DEF Modes, Admin
<1>3. Now \in Good(K) /\ Now \in Apps /\ Now.mode = m /\ Now.server = app.server
  BY Beginning DEF Good, Nearly
<1>4. ASSUME NEW f \in Modes, ModeFits(f, app.server), app' = [Now EXCEPT !.mode = f] PROVE app' \in Good(K)
  <2> HIDE DEF m
  <2> QED
    BY <1>1, <1>3, <1>4, SetMode
<1>5. CASE app' = [Now EXCEPT !.mode = BlankLogin]
  <2>1. BlankLogin \in Modes /\ ModeFits(BlankLogin, app.server)
    BY Constants DEF ModeFits, Range
  <2> QED
    BY <1>4, <1>5, <2>1
<1>6. ASSUME NEW complete \in BOOLEAN, app' = [Now EXCEPT !.mode.complete = complete] PROVE app' \in Good(K)
  <2> DEFINE f == [m EXCEPT !.complete = complete]
  <2>1. app' = [Now EXCEPT !.mode = f]
    BY <1>3, <1>6 DEF Apps
  <2>2. f \in [kind : {"MfaChallenge"}, slug : Tenants, issuer : Tenants, complete : BOOLEAN]
        /\ f.kind = m.kind /\ f.slug = m.slug /\ f.issuer = m.issuer
    BY <1>2
  <2>3. f \in Modes /\ ModeFits(f, app.server)
    BY <1>1, <2>2 DEF Modes, ModeFits
  <2> HIDE DEF f
  <2> QED
    BY <1>4, <2>1, <2>3
<1>7. ASSUME NEW offered, Welcome(SignIn(Now, m.slug), offered) PROVE app' \in Good(K)
  <2> HIDE DEF m
  <2> QED
    BY <1>1, <1>7, Welcoming
<1>8. \/ app' = [Now EXCEPT !.mode = BlankLogin]
      \/ \E complete \in BOOLEAN : app' = [Now EXCEPT !.mode.complete = complete]
      \/ Welcome(SignIn(Now, m.slug), m.slug = Master)
      \/ app' = [Now EXCEPT !.mode.complete = FALSE]
  BY Zenon DEF MfaKey
<1>9. CASE Welcome(SignIn(Now, m.slug), m.slug = Master)
  <2> DEFINE offered == m.slug = Master
  <2>1. Welcome(SignIn(Now, m.slug), offered)
    BY <1>9
  <2> HIDE DEF offered, m
  <2> QED
    BY <1>7, <2>1, Zenon
<1> HIDE DEF m
<1> QED
  BY <1>5, <1>6, <1>8, <1>9

-----------------------------------------------------------------------------
(* Every step *)

LEMMA TuiSteps ==
    ASSUME NEW K, app \in Good(K), TuiNext
    PROVE  app' \in Good(K) \/ (app.modal.kind = "PostCreateTenant" /\ app' \in Good(ClearedOnSwitch))
<1>1. CASE Start
  BY <1>1, Launching
<1>2. CASE Quit \/ TenantCreatedElsewhere
  BY <1>2, Surroundings
<1>3. CASE LoginKey \/ LoginUniversal \/ LoginToChoice
  BY <1>3, LoggingIn
<1>4. CASE MfaKey
  BY <1>4, Challenged
<1>5. CASE PostCreateTenantDialog
  <2>1. app.modal.kind = "PostCreateTenant"
    BY <1>5, Zenon DEF PostCreateTenantDialog, Showing
  <2>2. app' \in Good(ClearedOnSwitch)
    BY <1>5, CreatedTenant, Zenon
  <2> QED
    BY <2>1, <2>2
<1>6. CASE \/ CreateUserDialog \/ EditClientDialog \/ CreateIdpDialog \/ EditIdpDialog
           \/ CreatePermissionDialog \/ EditPermissionDialog \/ ConfirmDialog
  BY <1>6, PlainDialogs
<1>7. CASE \/ CreateTenantDialog \/ CreateClientDialog \/ CreateRoleDialog \/ ClientRolesDialog
           \/ EditUserKey \/ EditUserDialog \/ EditRoleDialog \/ EditSettingsDialog
  BY <1>7, OtherDialogs
<1>8. CASE QuickstartKey \/ QuickstartTenant \/ QuickstartClient \/ QuickstartUser \/ QuickstartDone
  BY <1>8, WizardKeys, WizardTenant, WizardCalls
<1>9. CASE Screens
  BY <1>9, Screen
<1> QED
  BY <1>1, <1>2, <1>3, <1>4, <1>5, <1>6, <1>7, <1>8, <1>9 DEF TuiNext, Dialogs

LEMMA TuiStart == TuiInit => TuiInv
<1> SUFFICES ASSUME TuiInit PROVE TuiInv
  OBVIOUS
<1>1. PICK server \in SUBSET Tenants, saved \in Maybe(Tenants) :
         Master \in server /\ saved \in Maybe(server) /\ app = NewApp(saved, server, {}, 0)
  BY DEF TuiInit
<1>2. 0 \in 0 .. MaxFaults /\ {} \in SUBSET (Tenants \X {"create_client", "create_user"})
  BY TerminalAssumption
<1> QED
  BY <1>1, <1>2, NewAppGood DEF TuiInv

\* The step as the theorems need it: no list but those that were foreign
LEMMA TuiStep ==
    ASSUME TuiInv, [TuiNext]_app
    PROVE  /\ TuiInv'
           /\ app' = app \/ Foreign(app') \subseteq Foreign(app) \/ app.modal.kind = "PostCreateTenant"
<1>1. CASE UNCHANGED app
  BY <1>1 DEF TuiInv
<1>2. CASE TuiNext
  <2> DEFINE K == Foreign(app)
  <2>1. app \in Good(K)
    BY DEF TuiInv, Good, Nearly
  <2>2. K \subseteq ClearedOnSwitch
    BY DEF Foreign
  <2> HIDE DEF K
  <2>3. app' \in Good(K) \/ (app.modal.kind = "PostCreateTenant" /\ app' \in Good(ClearedOnSwitch))
    BY <1>2, <2>1, TuiSteps
  <2>4. app' \in Good(K) => Foreign(app') \subseteq K /\ app' \in Good(ClearedOnSwitch)
    BY <2>2 DEF Good, Nearly
  <2> QED
    BY <2>3, <2>4 DEF K, TuiInv
<1> QED
  BY <1>1, <1>2

\* In every state of the terminal the dialog that is open fits the screen, the
\* tenants it knows of exist, and without faults its lists and the calls of the
\* last key are of one tenant: whatever the tenants are and however many calls
\* fail (app.rs:177, tui.rs).
THEOREM TuiInvariance == TuiSpec => []TuiInv
<1>1. TuiInv /\ [TuiNext]_app => TuiInv'
  BY TuiStep
<1> QED
  BY <1>1, TuiStart, PTL DEF TuiSpec

\* The state of the terminal and what surrounds it keep their types.
THEOREM TuiTypeCorrect == TuiSpec => []TuiTypeOK
<1>1. TuiInv => TuiTypeOK
  <2> SUFFICES ASSUME app \in Good(ClearedOnSwitch) PROVE TuiTypeOK
    BY DEF TuiInv
  <2>1. app \in Apps /\ Range(app.tenants) \subseteq app.server /\ (app.selected = 0 \/ app.selected < Len(app.tenants))
    BY DEF Good, Nearly, Known
  <2> QED
    BY <2>1 DEF Apps, TuiTypeOK
<1> QED
  BY <1>1, TuiInvariance, PTL

\* Whoever signs in after a session that ended meets no dialog of that session
\* but the wizard at its second step, in whatever handler the end was noticed
\* (reset_to_login and its callers).
THEOREM DialogsOutliveSessionHolds == TuiSpec => []DialogsOutliveSession
<1>1. TuiInv => DialogsOutliveSession
  BY DEF TuiInv, Good, Nearly, Fits, DialogsOutliveSession, InMode
<1> QED
  BY <1>1, TuiInvariance, PTL

\* The wizard shows its last page only if the client and the user are there, in
\* the tenant it was opened for, also when answers were lost on the way
\* (handle_quickstart_key).
THEOREM WizardCompleteHolds == TuiSpec => []WizardComplete
<1>1. TuiInv => WizardComplete
  BY DEF TuiInv, Good, Nearly, Fits, WizardComplete
<1> QED
  BY <1>1, TuiInvariance, PTL

\* No key but Enter on a tenant that was just created leaves rows of another
\* tenant in a list that a switch forgets (load_all, handle_sidebar_key,
\* tui.rs:1704).
THEOREM OnlyNewTenantLeavesRowsHolds == TuiSpec => OnlyNewTenantLeavesRows
<1>1. TuiInv /\ [TuiNext]_app =>
         [Foreign(app') \subseteq Foreign(app) \/ app.modal.kind = "PostCreateTenant"]_app
  BY TuiStep
<1> QED
  BY <1>1, TuiInvariance, PTL DEF TuiSpec, OnlyNewTenantLeavesRows

\* As long as every call is answered, no call about a row leaves for another
\* tenant than the row's own, settings apart (load_all, load_current_tab,
\* perform_*).
THEOREM RequestsScopedHolds == TuiSpec => RequestsScoped
<1> DEFINE Scoped == \A r \in app'.sent :
                        \/ r.owner \in {NoTenant, r.tenant}
                        \/ r.op = "put_settings"
                        \/ app'.faults > 0
<1>1. TuiInv /\ [TuiNext]_app => [Scoped]_app
  <2> SUFFICES ASSUME TuiInv, [TuiNext]_app PROVE Scoped
    OBVIOUS
  <2>1. app' \in Good(ClearedOnSwitch)
    BY TuiStep DEF TuiInv
  <2>2. SentScoped(app') /\ app'.faults \in Nat
    BY <2>1, TerminalAssumption DEF Good, Nearly, Apps
  <2> QED
    BY <2>2 DEF SentScoped
<1> QED
  BY <1>1, TuiInvariance, PTL DEF TuiSpec, RequestsScoped
=============================================================================
