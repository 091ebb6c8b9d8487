------------------------------ MODULE AdminApp ------------------------------
(***************************************************************************)
(* The state of the admin terminal (ovlt-cli: app.rs, config_file.rs), the *)
(* calls it makes (api.rs) and the functions of tui.rs that load lists and *)
(* perform what a dialog asked for.                                        *)
(*                                                                         *)
(* Those functions take the App by mutable reference, call one another and *)
(* await answers, while no key is read: one key press is one step.  A      *)
(* function is an operator from an App to the set of Apps it may leave     *)
(* behind, one per answer the server may give.  What surrounds the program *)
(* is kept in the same record: the config file (saved), the tenants of the *)
(* server (server), what has been created there (made), whether the server *)
(* still accepts the token (live), and the calls of the last key (sent).   *)
(*                                                                         *)
(* A list is represented by the tenant its rows belong to.  Which row is   *)
(* under the cursor, and the text of a form beyond "empty or not", are     *)
(* left out; so are status messages.                                       *)
(***************************************************************************)
EXTENDS Naturals, FiniteSets, Sequences, SequencesExt

CONSTANTS Tenants,      \* all tenants there may ever be
          Master,       \* the master tenant
          MaxFaults,    \* bound: calls that fail, and tokens that expire
          NoTenant      \* no tenant: none is active, nobody has signed in

ASSUME TerminalAssumption ==
    /\ IsFiniteSet(Tenants) /\ Master \in Tenants /\ NoTenant \notin Tenants
    /\ MaxFaults \in Nat

Lists == {"Clients", "Users", "Roles", "Permissions", "Sessions",
          "IdentityProviders", "AuditLog"}

\* the order in which load_all looks at the answers it returns early from
Awaited == <<"Clients", "Users", "Roles", "Permissions", "Sessions">>

Tabs == Lists \cup {"Settings"}

Sections == 0 .. 4

Maybe(S) == S \cup {NoTenant}

-----------------------------------------------------------------------------
\* Dialogs.  owner: the tenant of the row that the dialog is about, or the
\* tenant the wizard has created; filled: the required fields that are not
\* empty; type: 0 web, 1 single-page, 2 machine client; part: the step of the
\* wizard or the section of the settings.
Dialog(kind, owner, filled) ==
    [kind |-> kind, owner |-> owner, filled |-> filled,
     field |-> 0, type |-> 0, part |-> 0]

NoModal == Dialog("None", NoTenant, {})
Alert == Dialog("Error", NoTenant, {})
Wizard == [Dialog("QuickStart", NoTenant, {1}) EXCEPT !.part = 1, !.filled = {}]

\* the wizard starts its second step with the redirect URI pre-filled
WizardAt(step, tenant) ==
    [Dialog("QuickStart", tenant, IF step = 2 THEN {1} ELSE {})
        EXCEPT !.part = step]

\* the modes of the terminal
Login(filled, field, choices, idx) ==
    [kind |-> "Login", filled |-> filled, field |-> field,
     choices |-> choices, idx |-> idx]
BlankLogin == Login({}, 0, <<>>, 0)
MfaChallenge(slug, issuer, complete) ==
    [kind |-> "MfaChallenge", slug |-> slug, issuer |-> issuer,
     complete |-> complete]
Admin == [kind |-> "Admin"]

\* a new process, next to a config file and a server
NewApp(saved, server, made, faults) ==
    [running |-> FALSE, mode |-> BlankLogin, focus |-> "Sidebar",
     tab |-> "Clients", modal |-> NoModal,
     tenants |-> <<>>, selected |-> 0, active |-> NoTenant,
     rows |-> [k \in Lists |-> NoTenant],
     settings |-> [s \in Sections |-> NoTenant],
     token |-> NoTenant, live |-> FALSE,
     saved |-> saved, server |-> server, made |-> made,
     sent |-> {}, faults |-> faults]

-----------------------------------------------------------------------------
Then(S, F(_)) == UNION {F(a) : a \in S}

\* require_admin: a token of the master tenant is good for every tenant, one
\* of another tenant for its own and for calls that name none
Allowed(a, t) ==
    /\ a.token # NoTenant
    /\ a.live
    /\ a.token = Master \/ t \in {a.token, NoTenant}

\* the ways in which one call can end: done, refused with no effect, 401, or
\* failed: no connection, a 5xx, the timeout of 10 seconds
Answers(a, t) ==
    LET late == [a EXCEPT !.faults = @ + 1] IN
    {[reply |-> r, app |-> a] :
        r \in IF Allowed(a, t) THEN {"ok", "refused"} ELSE {"unauthorized"}}
    \cup IF a.faults < MaxFaults
         THEN {[reply |-> "failed", app |-> late],
               [reply |-> "unauthorized", app |-> [late EXCEPT !.live = FALSE]]}
         ELSE {}

\* answers to a GET, which the server has no reason to refuse
Fetches(a, t) == {r \in Answers(a, t) : r.reply # "refused"}

Send(a, op, owner) ==
    [a EXCEPT !.sent = @ \cup {[op |-> op, tenant |-> a.active, owner |-> owner]}]

\* one call for the active tenant: After if it is done, else an error dialog
Submit(a, op, owner, After(_)) ==
    IF a.active = NoTenant
    THEN {a}
    ELSE UNION {IF r.reply = "ok" THEN After(r.app)
                ELSE {[r.app EXCEPT !.modal = Alert]} :
                r \in Answers(Send(a, op, owner), a.active)}

-----------------------------------------------------------------------------
\* mutant of ResetToLogin: the dialog stays open
ResetToLoginKeepsDialog(a) ==
    [a EXCEPT !.saved = NoTenant, !.token = NoTenant, !.live = FALSE,
              !.mode = BlankLogin, !.active = NoTenant,
              !.rows = [k \in Lists |-> IF k = "AuditLog" THEN @[k] ELSE NoTenant]]

\* The tenants, the focus, the tab, the settings and the audit log stay.
ResetToLogin(a) ==
    [a EXCEPT !.saved = NoTenant, !.token = NoTenant, !.live = FALSE,
              !.mode = BlankLogin, !.active = NoTenant, !.modal = NoModal,
              !.rows = [k \in Lists |-> IF k = "AuditLog" THEN @[k] ELSE NoTenant]]

OnLoadErr(r) ==
    IF r.reply = "unauthorized" THEN ResetToLogin(r.app) ELSE r.app

\* mutant of LoadAll: the identity providers are left to their own tab
LoadAllForgets(a) ==
    UNION {IF r.reply = "ok"
           THEN {[a EXCEPT !.rows = [k \in Lists |->
                            IF k = "IdentityProviders" THEN @[k] ELSE a.active]]}
           ELSE {OnLoadErr(r)} : r \in Fetches(a, a.active)}

\* The answers come together; the first failure among Awaited ends the
\* function, one of the last two does not.
LoadAll(a) ==
    LET Loaded(failed) ==
            LET Before(k) == \E i \in DOMAIN Awaited :
                    /\ Awaited[i] = k
                    /\ \A j \in 1 .. i : Awaited[j] \notin failed
                early == \E i \in DOMAIN Awaited : Awaited[i] \in failed
            IN  {k \in Lists \ failed : Before(k) \/ (~early /\ k \notin Range(Awaited))}
        Failing == {F \in SUBSET Lists : Cardinality(F) <= MaxFaults - a.faults}
    IN  IF a.active = NoTenant THEN {a}
        ELSE UNION {
            CASE r.reply = "ok" ->
                    {[a EXCEPT !.rows = [k \in Lists |->
                                  IF k \in Loaded(F) THEN a.active ELSE @[k]],
                               !.faults = @ + Cardinality(F)] : F \in Failing}
              [] r.reply = "unauthorized" -> {ResetToLogin(r.app)}
              [] OTHER -> {} :
            r \in Fetches(a, a.active)}

LoadList(a, k) ==
    LET cleared == [a EXCEPT !.rows[k] = NoTenant] IN
    {IF r.reply = "ok" THEN [r.app EXCEPT !.rows[k] = a.active] ELSE OnLoadErr(r) :
        r \in Fetches(cleared, a.active)}

\* Five calls at once; one that fails leaves its section as it was, and
\* nobody is told, not even of a 401.
LoadSettings(a) ==
    IF ~Allowed(a, a.active) THEN {a}
    ELSE {[a EXCEPT !.settings = [s \in Sections |->
                        IF s \in F THEN @[s] ELSE a.active],
                    !.faults = @ + Cardinality(F)] :
            F \in {G \in SUBSET Sections : Cardinality(G) <= MaxFaults - a.faults}}

LoadCurrentTab(a) ==
    IF a.active = NoTenant THEN {a}
    ELSE IF a.tab = "Settings" THEN LoadSettings(a) ELSE LoadList(a, a.tab)

\* mutant of LoadTenants: the cursor may be left beyond the end of the list
LoadTenantsUnclamped(a) ==
    LET visible(b) == IF b.token = Master THEN b.server ELSE {b.token}
    IN  UNION {IF r.reply = "ok"
               THEN {[r.app EXCEPT !.tenants = list] : list \in SetToSeqs(visible(r.app))}
               ELSE {r.app} : r \in Fetches(a, NoTenant)}

\* The server gives its tenants in no particular order, and a tenant's own
\* administrator only his.  The cursor keeps its index.
LoadTenants(a) ==
    LET visible(b) == IF b.token = Master THEN b.server ELSE {b.token}
        Listed(b, list) ==
            [b EXCEPT !.tenants = list,
                      !.selected = IF @ < Len(list) THEN @ ELSE Len(list) - 1]
    IN  UNION {IF r.reply = "ok"
               THEN {Listed(r.app, list) : list \in SetToSeqs(visible(r.app))}
               ELSE {r.app} : r \in Fetches(a, NoTenant)}

-----------------------------------------------------------------------------
\* The token is kept by the client and in the config file.  Any user may sign
\* in; one of another tenant who is no SuperAdmin is refused by every call.
SignIn(a, tenant) ==
    UNION {LoadTenants([a EXCEPT !.token = tenant, !.live = accepted,
                                 !.saved = tenant, !.mode = Admin]) :
           accepted \in {TRUE, tenant = Master}}

OnlyMaster(a) == Range(a.tenants) \subseteq {Master}

\* what a call that creates a tenant may end in, and the tenants it may create
CreateTenantCall(a, Done(_, _), Failed(_)) ==
    UNION {CASE r.reply = "ok" ->
                UNION {Done([r.app EXCEPT !.server = @ \cup {t}], t) :
                       t \in Tenants \ a.server}
             [] r.reply = "failed" ->
                Failed(r.app) \cup UNION {Failed([r.app EXCEPT !.server = @ \cup {t}]) :
                                          t \in Tenants \ a.server}
             [] OTHER -> Failed(r.app) :
           r \in Answers(a, NoTenant)}

PerformCreateTenant(a) ==
    CreateTenantCall(a,
        LAMBDA b, t : LoadTenants([b EXCEPT !.modal = Dialog("PostCreateTenant", t, {})]),
        LAMBDA b : {[b EXCEPT !.modal = Alert]})

\* A confidential client has a secret, which is shown now or never.
PerformCreateClient(a, type) ==
    Submit(a, "create_client", NoTenant,
           LAMBDA b : LoadAll(IF type = 1 THEN b
                              ELSE [b EXCEPT !.modal = Dialog("ShowSecret", NoTenant, {})]))

PerformCreateUser(a) == Submit(a, "create_user", NoTenant, LoadAll)

\* open_edit_role: the permissions of the tenant and those of the role
OpenEditRole(a, owner, tenant) ==
    UNION {IF r.reply = "ok"
           THEN LET b == [r.app EXCEPT !.rows["Permissions"] = tenant]
                IN  {[b EXCEPT !.modal = Dialog("EditRole", owner, {0})]}
                    \cup IF b.faults < MaxFaults
                         THEN {[b EXCEPT !.modal = Alert, !.faults = @ + 1]} ELSE {}
           ELSE {[r.app EXCEPT !.modal = Alert]} :
           r \in Fetches(a, tenant)}

\* The dialog for the permissions of the new role follows, whatever load_all
\* has met.
PerformCreateRole(a) ==
    Submit(a, "create_role", NoTenant,
           LAMBDA b : Then(LoadAll(b), LAMBDA c : OpenEditRole(c, b.active, b.active)))

OpenClientRoles(a, owner) ==
    {[r.app EXCEPT !.modal = IF r.reply = "ok" THEN Dialog("ClientRoles", owner, {})
                             ELSE Alert] : r \in Fetches(a, a.active)}

\* every assignment is sent again; failures are ignored
PerformSaveClientRoles(a, owner) ==
    IF a.active = NoTenant THEN {a} ELSE {Send(a, "save_client_roles", owner)}

PerformEditClient(a, owner) == Submit(a, "update_client", owner, LoadAll)

PerformCreateIdp(a) == Submit(a, "create_identity_provider", NoTenant, LoadAll)

PerformEditIdp(a, owner) == Submit(a, "update_identity_provider", owner, LoadAll)

\* the roles of the tenant, those of the user and his passkeys; the list of
\* roles is kept even if the second call fails
OpenEditUser(a, owner) ==
    UNION {IF r.reply = "ok"
           THEN LET b == [r.app EXCEPT !.rows["Roles"] = a.active]
                IN  {[b EXCEPT !.modal = Dialog("EditUser", owner, {0})]}
                    \cup IF b.faults < MaxFaults
                         THEN {[b EXCEPT !.modal = Alert, !.faults = @ + 1]} ELSE {}
           ELSE {[r.app EXCEPT !.modal = Alert]} :
           r \in Fetches(a, a.active)}

\* the role assignments are sent one by one after the update, failures ignored
PerformEditUser(a, owner) ==
    Submit(a, "update_user", owner,
           LAMBDA b : LoadAll(Send(b, "save_user_roles", owner)))

PerformEditRole(a, owner) ==
    Submit(a, "update_role", owner,
           LAMBDA b : LoadAll(Send(b, "save_role_permissions", owner)))

PerformCreatePermission(a) == Submit(a, "create_permission", NoTenant, LoadAll)

PerformEditPermission(a, owner) == Submit(a, "update_permission", owner, LoadAll)

\* the call depends on the tab that is open when the answer is given
PerformDelete(a, owner) ==
    LET op == [Clients |-> "deactivate_client", Users |-> "deactivate_user",
               Roles |-> "delete_role", Permissions |-> "delete_permission",
               Sessions |-> "delete_session",
               IdentityProviders |-> "delete_identity_provider"]
    IN  IF a.tab \in DOMAIN op THEN Submit(a, op[a.tab], owner, LoadAll) ELSE {a}

\* Enter in the settings dialog: the section as it stands goes to the active
\* tenant
PerformSaveSettings(a, section) ==
    Submit(a, "put_settings", a.settings[section], LAMBDA b : {b})
=============================================================================
