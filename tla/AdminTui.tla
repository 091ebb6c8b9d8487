------------------------------ MODULE AdminTui ------------------------------
(***************************************************************************)
(* The key handlers of the admin terminal (ovlt-cli: tui.rs).  A step is   *)
(* one key press with everything its handler awaits; a dialog, if there is *)
(* one, takes the key before the sidebar or the tabs do.  Meanwhile the    *)
(* server may create tenants for others, and the program may be quit and   *)
(* started again next to the config file it left.                          *)
(***************************************************************************)
EXTENDS AdminApp

VARIABLE app

TuiInit ==
    \E server \in SUBSET Tenants, saved \in Maybe(Tenants) :
        /\ Master \in server
        /\ saved \in Maybe(server)
        /\ app = NewApp(saved, server, {}, 0)

\* the handler of a key starts from here
Now == [app EXCEPT !.sent = {}]
Closed == [Now EXCEPT !.modal = NoModal]

InMode(kind) == app.running /\ app.mode.kind = kind
Showing(kind) == InMode("Admin") /\ app.modal.kind = kind
Reading(focus) == Showing("None") /\ app.focus = focus

Show(dialog) == app' = [Now EXCEPT !.modal = dialog]
Close == app' = Closed

-----------------------------------------------------------------------------
\* run: a saved token is tried by listing the tenants
Start ==
    /\ ~app.running
    /\ LET new == [NewApp(app.saved, app.server, app.made, app.faults)
                       EXCEPT !.running = TRUE]
           Restored(b) == IF b.tenants = <<>> THEN [b EXCEPT !.mode = BlankLogin] ELSE b
       IN  IF new.saved = NoTenant
           THEN app' = new
           ELSE \E live \in BOOLEAN :
                   \E b \in LoadTenants([new EXCEPT !.mode = Admin, !.token = new.saved,
                                             !.live = live]) :
                       app' = Restored(b)

\* q quits: on the login screen always, else where no dialog is open
Quit ==
    /\ InMode("Login") \/ Showing("None")
    /\ app' = NewApp(app.saved, app.server, app.made, app.faults)

\* Another administrator creates a tenant.
TenantCreatedElsewhere ==
    \E t \in Tenants \ app.server :
        app' = [app EXCEPT !.server = @ \cup {t}, !.sent = {}]

-----------------------------------------------------------------------------
\* Login.  Any edit of a field drops the tenants that were offered.
LoginKey ==
    /\ InMode("Login")
    /\ LET m == app.mode
           n == Len(m.choices)
       IN  \/ app' = [Now EXCEPT !.mode = [m EXCEPT !.field = (@ + 1) % 2]]
           \/ \E f \in {m.filled \cup {m.field}, m.filled \ {m.field}, m.filled} :
                  app' = [Now EXCEPT !.mode = Login(f, m.field, <<>>, 0)]
           \/ /\ n > 0
              /\ \E i \in {(m.idx + 1) % n, (m.idx + n - 1) % n} :
                     app' = [Now EXCEPT !.mode.idx = i]

\* the wizard opens by itself where there is only the master tenant
Welcome(S, offered) ==
    \E b \in S :
        app' = IF offered /\ OnlyMaster(b) THEN [b EXCEPT !.modal = Wizard] ELSE b

\* Enter without a choice: login_universal looks for the address in every
\* tenant; the account it finds may ask for a second factor.
LoginUniversal ==
    /\ InMode("Login")
    /\ app.mode.filled = {0, 1}
    /\ app.mode.choices = <<>>
    /\ \/ \E t \in app.server :
              \/ Welcome(SignIn(Now, t), TRUE)
              \/ app' = [Now EXCEPT !.mode = MfaChallenge(Master, t, FALSE)]
       \/ \E S \in SUBSET app.server :
              /\ Cardinality(S) > 1
              /\ \E list \in SetToSeqs(S) :
                     app' = [Now EXCEPT !.mode.choices = list]
       \/ app' = Now

\* Enter on one of the tenants that were offered
LoginToChoice ==
    /\ InMode("Login")
    /\ app.mode.filled = {0, 1}
    /\ app.mode.choices # <<>>
    /\ LET t == app.mode.choices[app.mode.idx + 1]
       IN  \/ Welcome(SignIn(Now, t), t = Master)
           \/ app' = [Now EXCEPT !.mode = MfaChallenge(t, t, FALSE)]
           \/ app' = Now

\* The challenge goes to the tenant named by slug; any other than the issuer
\* of the token refuses it.
MfaKey ==
    /\ InMode("MfaChallenge")
    /\ \/ app' = [Now EXCEPT !.mode = BlankLogin]
       \/ \E complete \in BOOLEAN : app' = [Now EXCEPT !.mode.complete = complete]
       \/ /\ app.mode.complete
          /\ \/ /\ app.mode.slug = app.mode.issuer
                /\ Welcome(SignIn(Now, app.mode.slug), app.mode.slug = Master)
             \/ app' = [Now EXCEPT !.mode.complete = FALSE]

-----------------------------------------------------------------------------
\* Forms.  Tab chooses the field a key goes to; which one it is matters only
\* in the two dialogs with lists, so that everywhere else a key may go to any.
Required ==
    [CreateTenant |-> {0, 1}, CreateClient |-> {0, 1}, CreateUser |-> {0, 1},
     CreateRole |-> {0}, EditClient |-> {0}, CreateIdp |-> {0, 1, 2},
     EditIdp |-> {}, EditUser |-> {0}, EditRole |-> {0},
     CreatePermission |-> {0}, EditPermission |-> {0}]

FieldCount == [EditUser |-> 5, EditRole |-> 3]

\* a character or Backspace in a required field
Typed(m, required) ==
    {[m EXCEPT !.filled = f] :
        f \in UNION {{m.filled \cup {i}, m.filled \ {i}} : i \in required}}

\* the types of a client in turn
Cycled(m) == [m EXCEPT !.type = (@ + 1) % 3]

\* Esc, or any key that only changes the form
FormKey(kind) ==
    \/ Close
    \/ \E m \in Typed(app.modal, Required[kind]) : Show(m)
    \/ kind \in {"CreateClient", "EditClient"} /\ Show(Cycled(app.modal))

\* the same in a dialog whose field matters
FieldKey(kind) ==
    \/ Close
    \/ Show([app.modal EXCEPT !.field = (@ + 1) % FieldCount[kind]])
    \/ /\ app.modal.field \in Required[kind]
       /\ \E m \in Typed(app.modal, {app.modal.field}) : Show(m)

Complete == Required[app.modal.kind] \subseteq app.modal.filled

CreateTenantDialog ==
    /\ Showing("CreateTenant")
    /\ \/ FormKey("CreateTenant")
       \/ Complete /\ app' \in PerformCreateTenant(Closed)

\* a machine client needs no redirect URI
CreateClientDialog ==
    /\ Showing("CreateClient")
    /\ \/ FormKey("CreateClient")
       \/ /\ 0 \in app.modal.filled
          /\ app.modal.type = 2 \/ 1 \in app.modal.filled
          /\ app' \in PerformCreateClient(Closed, app.modal.type)

CreateUserDialog ==
    /\ Showing("CreateUser")
    /\ \/ FormKey("CreateUser")
       \/ Complete /\ app' \in PerformCreateUser(Closed)

CreateRoleDialog ==
    /\ Showing("CreateRole")
    /\ \/ FormKey("CreateRole")
       \/ Complete /\ app' \in PerformCreateRole(Closed)

ClientRolesDialog ==
    /\ Showing("ClientRoles")
    /\ Close \/ app' \in PerformSaveClientRoles(Closed, app.modal.owner)

EditClientDialog ==
    /\ Showing("EditClient")
    /\ \/ FormKey("EditClient")
       \/ Complete /\ app' \in PerformEditClient(Closed, app.modal.owner)

CreateIdpDialog ==
    /\ Showing("CreateIdp")
    /\ \/ FormKey("CreateIdp")
       \/ Complete /\ app' \in PerformCreateIdp(Closed)

\* a blank secret keeps the one that is stored
EditIdpDialog ==
    /\ Showing("EditIdp")
    /\ \/ FormKey("EditIdp")
       \/ app' \in PerformEditIdp(Closed, app.modal.owner)

\* the movements inside the form; the roles and the passkeys have cursors of
\* their own
EditUserKey ==
    /\ Showing("EditUser")
    /\ FieldKey("EditUser")

\* d among the passkeys deletes at once; Enter saves, blank or not
EditUserDialog ==
    /\ Showing("EditUser")
    /\ \/ /\ app.modal.field = 4
          /\ app.active # NoTenant
          /\ \E r \in Answers(Send(Now, "delete_user_passkey", app.modal.owner), app.active) :
                 app' = r.app
       \/ app' \in PerformEditUser(Closed, app.modal.owner)

\* Enter among the permissions saves without a look at the name
EditRoleDialog ==
    /\ Showing("EditRole")
    /\ \/ FieldKey("EditRole")
       \/ /\ Complete \/ app.modal.field = 2
          /\ app' \in PerformEditRole(Closed, app.modal.owner)

CreatePermissionDialog ==
    /\ Showing("CreatePermission")
    /\ \/ FormKey("CreatePermission")
       \/ Complete /\ app' \in PerformCreatePermission(Closed)

EditPermissionDialog ==
    /\ Showing("EditPermission")
    /\ \/ FormKey("EditPermission")
       \/ Complete /\ app' \in PerformEditPermission(Closed, app.modal.owner)

\* y deletes, any other key does not; errors and secrets go with any key
ConfirmDialog ==
    \/ /\ Showing("ConfirmDelete")
       /\ Close \/ app' \in PerformDelete(Closed, app.modal.owner)
    \/ Showing("Error") /\ Close
    \/ Showing("ShowSecret") /\ Close

EditSettingsDialog ==
    /\ Showing("EditSettings")
    /\ Close \/ app' \in PerformSaveSettings(Closed, app.modal.part)

\* Enter makes the new tenant the active one, if it is listed by now, and
\* opens the wizard at the client; Esc only lists the tenants.
PostCreateTenantDialog ==
    /\ Showing("PostCreateTenant")
    /\ LET t == app.modal.owner
           Activate(a) ==
               IF \E i \in DOMAIN a.tenants : a.tenants[i] = t
               THEN LoadAll([a EXCEPT !.active = t, !.focus = "Content",
                        !.selected = (CHOOSE i \in DOMAIN a.tenants : a.tenants[i] = t) - 1])
               ELSE {a}
       IN  \/ \E a \in Then(LoadTenants(Closed), Activate) :
                  app' = [a EXCEPT !.modal = WizardAt(2, t)]
           \/ app' \in LoadTenants(Closed)

-----------------------------------------------------------------------------
\* The wizard: a tenant, a client, a user, and a page with the results.  An
\* error keeps it where it is.
QuickstartKey ==
    /\ Showing("QuickStart")
    /\ app.modal.part < 4
    /\ \/ Close
       \/ \E m \in Typed(app.modal, {0, 1}) : Show(m)
       \/ app.modal.part = 2 /\ Show(Cycled(app.modal))

QuickstartTenant ==
    /\ Showing("QuickStart")
    /\ app.modal.part = 1
    /\ app.modal.filled = {0, 1}
    /\ app' \in CreateTenantCall(Now,
                    LAMBDA b, t : {[b EXCEPT !.modal = WizardAt(2, t)]},
                    LAMBDA b : {b})

\* mutant of Make: the wizard goes on when there was no answer
MakeAdvances(what, next) ==
    LET t == app.modal.owner
        Done(b) == [b EXCEPT !.made = @ \cup {<<t, what>>},
                             !.modal = WizardAt(next, t)]
    IN  \E r \in Answers([Now EXCEPT !.sent =
                     {[op |-> what, tenant |-> t, owner |-> NoTenant]}], t) :
            \/ r.reply = "ok" /\ app' = Done(r.app)
            \/ r.reply # "ok" /\ app' = [r.app EXCEPT !.modal = WizardAt(next, t)]

\* a call for the wizard's tenant that makes something there; one that fails
\* may have done so all the same
Make(what, next) ==
    LET t == app.modal.owner
        Done(b) == [b EXCEPT !.made = @ \cup {<<t, what>>}]
    IN  \E r \in Answers([Now EXCEPT !.sent =
                     {[op |-> what, tenant |-> t, owner |-> NoTenant]}], t) :
            \/ r.reply = "ok" /\ app' = [Done(r.app) EXCEPT !.modal = WizardAt(next, t)]
            \/ r.reply # "ok" /\ app' = r.app
            \/ r.reply = "failed" /\ app' = Done(r.app)

QuickstartClient ==
    /\ Showing("QuickStart")
    /\ app.modal.part = 2
    /\ 0 \in app.modal.filled
    /\ app.modal.type = 2 \/ 1 \in app.modal.filled
    /\ app.modal.owner # NoTenant
    /\ Make("create_client", 3)

QuickstartUser ==
    /\ Showing("QuickStart")
    /\ app.modal.part = 3
    /\ app.modal.filled = {0, 1}
    /\ app.modal.owner # NoTenant
    /\ Make("create_user", 4)

QuickstartDone ==
    /\ Showing("QuickStart")
    /\ app.modal.part = 4
    /\ app' \in LoadTenants(Closed)

-----------------------------------------------------------------------------
Help == Showing("None") /\ Show(Wizard)

\* The cursor of the sidebar moves without any effect on the tabs; Enter makes
\* the tenant under it the active one.
SidebarMove ==
    /\ Reading("Sidebar")
    /\ \E i \in {app.selected - 1, app.selected + 1} :
           /\ i \in 0 .. Len(app.tenants) - 1
           /\ app' = [Now EXCEPT !.selected = i]

\* the lists that are forgotten when another tenant becomes active
ClearedOnSwitch == {"Clients", "Users", "Roles", "Permissions", "Sessions"}

\* mutant of SidebarEnter: the lists are left to be overwritten by load_all
SidebarEnterKeeps ==
    /\ Reading("Sidebar")
    /\ app.tenants # <<>>
    /\ app' \in LoadAll([Now EXCEPT !.active = app.tenants[app.selected + 1],
                                    !.focus = "Content"])

SidebarEnter ==
    /\ Reading("Sidebar")
    /\ app.tenants # <<>>
    /\ LET t == app.tenants[app.selected + 1]
           rows == [k \in Lists |-> IF app.active # t /\ k \in ClearedOnSwitch
                                    THEN NoTenant ELSE app.rows[k]]
       IN  app' \in LoadAll([Now EXCEPT !.rows = rows, !.active = t,
                                        !.focus = "Content"])

SidebarOther ==
    /\ Reading("Sidebar")
    /\ \/ app.active # NoTenant /\ app' = [Now EXCEPT !.focus = "Content"]
       \/ Show(Dialog("CreateTenant", NoTenant, {}))
       \/ app' \in LoadTenants(Now)

-----------------------------------------------------------------------------
TabOrder == <<"Clients", "Users", "Roles", "Permissions", "Sessions",
              "Settings", "IdentityProviders", "AuditLog">>

\* Esc, the arrows and r
TabMove ==
    /\ Reading("Content")
    /\ \/ app' = [Now EXCEPT !.focus = "Sidebar"]
       \/ \E i, j \in DOMAIN TabOrder :
              /\ app.tab = TabOrder[i]
              /\ j \in {i, (i % 8) + 1, ((i + 6) % 8) + 1}
              /\ app' \in LoadCurrentTab([Now EXCEPT !.tab = TabOrder[j]])

\* Enter on one of the sections
SettingsEnter ==
    /\ Reading("Content")
    /\ app.tab = "Settings"
    /\ \E s \in Sections : Show([Dialog("EditSettings", NoTenant, {}) EXCEPT !.part = s])

ContentNew ==
    /\ Reading("Content")
    /\ app.active # NoTenant
    /\ \/ app.tab = "Clients" /\ Show(Dialog("CreateClient", NoTenant, {}))
       \/ app.tab = "Users" /\ Show(Dialog("CreateUser", NoTenant, {}))
       \/ app.tab = "Roles" /\ Show(Dialog("CreateRole", NoTenant, {}))
       \/ app.tab = "Permissions" /\ Show(Dialog("CreatePermission", NoTenant, {}))
       \/ app.tab = "IdentityProviders" /\ Show(Dialog("CreateIdp", NoTenant, {0}))

\* some row of the tab is under the cursor
OnRow == Reading("Content") /\ app.tab \in Lists /\ app.rows[app.tab] # NoTenant
RowOwner == app.rows[app.tab]

ContentEdit ==
    /\ OnRow
    /\ \/ app.tab = "Clients" /\ Show(Dialog("EditClient", RowOwner, {0}))
       \/ app.tab = "Users" /\ app.active # NoTenant /\ app' \in OpenEditUser(Now, RowOwner)
       \/ app.tab = "Roles" /\ app.active # NoTenant /\ app' \in OpenEditRole(Now, RowOwner, app.active)
       \/ app.tab = "Permissions" /\ Show(Dialog("EditPermission", RowOwner, {0}))
       \/ app.tab = "IdentityProviders" /\ Show(Dialog("EditIdp", RowOwner, {}))

\* l, for the roles of a machine client
ContentClientRoles ==
    /\ OnRow
    /\ app.tab = "Clients"
    /\ app.active # NoTenant
    /\ app' \in OpenClientRoles(Now, RowOwner)

\* m, which asks for no confirmation
ContentDisableMfa ==
    /\ OnRow
    /\ app.tab = "Users"
    /\ app.active # NoTenant
    /\ \E r \in Answers(Send(Now, "disable_mfa", RowOwner), app.active) :
           IF r.reply = "ok" THEN app' \in LoadList(r.app, "Users") ELSE app' = r.app

ContentDelete ==
    /\ OnRow
    /\ app.tab # "AuditLog"
    /\ Show(Dialog("ConfirmDelete", RowOwner, {}))

\* x; the file is written next to the terminal
ContentExport ==
    /\ OnRow
    /\ app.tab = "AuditLog"
    /\ app.active # NoTenant
    /\ \E r \in Fetches(Now, app.active) : app' = r.app

-----------------------------------------------------------------------------
Dialogs ==
    \/ CreateTenantDialog \/ CreateClientDialog \/ CreateUserDialog
    \/ CreateRoleDialog \/ ClientRolesDialog \/ EditClientDialog
    \/ CreateIdpDialog \/ EditIdpDialog \/ EditUserKey \/ EditUserDialog
    \/ EditRoleDialog \/ CreatePermissionDialog \/ EditPermissionDialog
    \/ ConfirmDialog \/ EditSettingsDialog \/ PostCreateTenantDialog
    \/ QuickstartKey \/ QuickstartTenant \/ QuickstartClient
    \/ QuickstartUser \/ QuickstartDone

Screens ==
    \/ Help \/ SidebarMove \/ SidebarEnter \/ SidebarOther
    \/ TabMove \/ SettingsEnter \/ ContentNew \/ ContentEdit
    \/ ContentClientRoles \/ ContentDisableMfa \/ ContentDelete \/ ContentExport

TuiNext ==
    \/ Start \/ Quit \/ TenantCreatedElsewhere
    \/ LoginKey \/ LoginUniversal \/ LoginToChoice \/ MfaKey
    \/ Dialogs \/ Screens

TuiSpec == TuiInit /\ [][TuiNext]_app

-----------------------------------------------------------------------------
Modes ==
    [kind : {"Login"}, filled : SUBSET {0, 1}, field : 0 .. 1,
     choices : {<<>>} \cup UNION {SetToSeqs(S) : S \in SUBSET Tenants}, idx : Nat]
    \cup [kind : {"MfaChallenge"}, slug : Tenants, issuer : Tenants, complete : BOOLEAN]
    \cup {Admin}

Kinds == {"None", "Error", "ConfirmDelete", "ShowSecret", "QuickStart", "EditSettings",
          "ClientRoles", "PostCreateTenant"} \cup DOMAIN Required

Modals == [kind : Kinds, owner : Maybe(Tenants), filled : SUBSET (0 .. 2),
           field : 0 .. 4, type : 0 .. 2, part : 0 .. 4]

\* The type invariant of the App and its surroundings (app.rs:177).
TuiTypeOK ==
    /\ app.mode \in Modes
    /\ app.focus \in {"Sidebar", "Content"} /\ app.tab \in Tabs
    /\ app.modal \in Modals
    /\ Range(app.tenants) \subseteq app.server
    /\ app.selected = 0 \/ app.selected < Len(app.tenants)
    /\ app.active \in Maybe(Tenants)
    /\ app.rows \in [Lists -> Maybe(Tenants)]
    /\ app.settings \in [Sections -> Maybe(Tenants)]
    /\ app.token \in Maybe(Tenants) /\ app.saved \in Maybe(Tenants)
    /\ app.live \in BOOLEAN /\ app.running \in BOOLEAN
    /\ app.server \subseteq Tenants
    /\ app.made \subseteq Tenants \X {"create_client", "create_user"}
    /\ app.faults \in 0 .. MaxFaults

\* rows of another tenant than the active one, in the lists that a switch
\* forgets
Foreign(a) == {k \in ClearedOnSwitch : a.rows[k] \notin {NoTenant, a.active}}

\* A reload that breaks off, a sign-out in the middle of a handler and a new
\* sign-in leave no rows of another tenant in these lists; only Enter on a
\* tenant that has just been created may, which makes it the active one and
\* does not forget the lists (load_all, handle_sidebar_key, tui.rs:1704).
OnlyNewTenantLeavesRows ==
    [][\/ Foreign(app') \subseteq Foreign(app)
       \/ app.modal.kind = "PostCreateTenant"]_app

\* As long as every call has been answered, a call about a row is sent for the
\* tenant the row belongs to, however its dialog was opened, in whatever tab
\* and across switches of the tenant (load_all, load_current_tab, perform_*).
\* Settings, which a switch does not load again, are the exception.
RequestsScoped ==
    [][\A r \in app'.sent :
          \/ r.owner \in {NoTenant, r.tenant}
          \/ r.op = "put_settings"
          \/ app'.faults > 0]_app

\* When the session has ended, in whatever handler that was noticed, only
\* the wizard past its first step and an error may be left open for whoever
\* signs in next (reset_to_login, and what its callers do after it).
DialogsOutliveSession ==
    InMode("Login") =>
        \/ app.modal \in {NoModal, Alert}
        \/ app.modal.kind = "QuickStart" /\ app.modal.part = 2

\* The wizard makes its client and its user in the tenant it was opened for,
\* and reaches its last page only if both are there, also if answers were
\* lost, the session ended and another administrator went on with it
\* (handle_quickstart_key).
WizardComplete ==
    app.modal.kind = "QuickStart" =>
        /\ app.modal.part > 1 => app.modal.owner \in app.server
        /\ app.modal.part > 2 => <<app.modal.owner, "create_client">> \in app.made
        /\ app.modal.part > 3 => <<app.modal.owner, "create_user">> \in app.made

\* docs/admin-tui.md: "Selecting a tenant scopes all content tabs to it."
\* Settings that are saved for a tenant were read from it.
SettingsOfActive ==
    [][\A r \in app'.sent : r.op = "put_settings" => r.owner = r.tenant]_app
=============================================================================
