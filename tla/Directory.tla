----------------------------- MODULE Directory -----------------------------
(***************************************************************************)
(* One tenant from its creation on: the first start of the process or      *)
(* POST /tenants, the role and the permission that are seeded, the users   *)
(* that register or come by a provider, the grants, and the claims that a  *)
(* login copies from them into a token.                                    *)
(*                                                                         *)
(* The tenant's tables are seen by its own transactions alone (row-level   *)
(* security), so tenants do not meet here.  Of the roles there is one at a *)
(* time, whatever its name.  A handler of a single statement is one step;  *)
(* the administrator who calls it has the key.                             *)
(***************************************************************************)
EXTENDS Integers, FiniteSets

CONSTANTS
    Workers,      \* requests and starting processes
    MaxUsers,     \* bound: rows in users
    MaxChanges,   \* bound: changes of roles and permissions by an administrator
    Emails,       \* addresses as they are looked up
    AdminEmail,   \* BOOTSTRAP_ADMIN_EMAIL
    Identities,   \* accounts at a provider
    None

Ids == 1 .. MaxUsers
SuperAdmin == "SuperAdmin"                  \* the role, and the permission of the seed
Names == {SuperAdmin, "other"}

ASSUME ConstantsAssumption ==
    /\ MaxUsers \in Nat /\ MaxChanges \in Nat
    /\ AdminEmail \in Emails
    /\ None \notin Workers /\ None \notin Emails /\ None \notin Identities
    /\ None \notin Ids /\ None \notin Names /\ None \notin {"bootstrap", "create"}

VARIABLES
    tenant,       \* its row exists
    users,        \* the address of each row
    account,      \* oauth_accounts: the user of each identity
    role,         \* the name of the role, if there is one
    permission,   \* the name of the permission, if there is one
    linked,       \* role_permissions holds the two
    held,         \* user_roles: those who have the role
    scoped,       \* client_roles: a client asks for the role
    admins,       \* users with a valid token that says SuperAdmin
    emailLock,    \* the transaction that has inserted an address
    accountLock,  \* the transaction that has inserted an identity
    req,          \* what each worker is doing
    creation,     \* history: what created the tenant, or that it was cut off
    changes,      \* history: how often an administrator has changed roles or permissions
    outdated      \* history: users whose role went while a token or a login had it

userVars == <<users, account, emailLock, accountLock>>
roleVars == <<role, permission, linked, held, scoped>>
traces == <<creation, changes, outdated>>
vars == <<tenant, userVars, roleVars, admins, req, traces>>

Idle == [step |-> "idle", kind |-> None, user |-> None, email |-> None, identity |-> None,
         made |-> {}, found |-> {}, lost |-> FALSE, claims |-> {}, current |-> FALSE]

Request ==
    [step     : {"idle", "inserting", "admin", "permission", "role", "linking", "assigning",
                 "registering", "matching", "creating", "connecting", "signing",
                 "roles", "permissions", "issuing"},
     kind     : {"bootstrap", "create", "register", "callback", "login", None},
     user     : Ids \cup {None},
     email    : Emails \cup {None},
     identity : Identities \cup {None},
     made     : SUBSET {"permission", "role"},   \* inserted by a seed, not committed yet
     found    : SUBSET {"permission", "role"},   \* found by a seed
     lost     : BOOLEAN,                         \* what it found has been deleted
     claims   : SUBSET (Names \cup {"permission", "client"}),
     current  : BOOLEAN]                         \* history: nothing has changed since it began

TypeOK ==
    /\ tenant \in BOOLEAN
    /\ users \in [Ids -> Emails \cup {None}]
    /\ account \in [Identities -> Ids \cup {None}]
    /\ role \in Names \cup {None} /\ permission \in Names \cup {None}
    /\ linked \in BOOLEAN /\ (linked => role # None /\ permission # None)
    /\ held \subseteq Ids /\ (held # {} => role # None)
    /\ scoped \in BOOLEAN /\ (scoped => role # None)
    /\ admins \subseteq Ids
    /\ emailLock \in [Emails -> Workers \cup {None}]
    /\ accountLock \in [Identities -> Workers \cup {None}]
    /\ req \in [Workers -> Request]
    /\ creation \in {"bootstrap", "create", "aborted", None} /\ changes \in 0 .. MaxChanges /\ outdated \subseteq Ids

Init ==
    /\ tenant = FALSE
    /\ users = [i \in Ids |-> None] /\ account = [d \in Identities |-> None]
    /\ role = None /\ permission = None /\ linked = FALSE /\ held = {} /\ scoped = FALSE
    /\ admins = {}
    /\ emailLock = [e \in Emails |-> None] /\ accountLock = [d \in Identities |-> None]
    /\ req = [w \in Workers |-> Idle]
    /\ creation = None /\ changes = 0 /\ outdated = {}

-----------------------------------------------------------------------------
(* Helpers *)

At(w, step) == req[w].step = step
Is(w, kind) == req[w].kind = kind
Goto(w, step) == req' = [req EXCEPT ![w].step = step]

Creating(w) == Is(w, "bootstrap") \/ Is(w, "create")

Finish(w) ==
    /\ req' = [req EXCEPT ![w] = Idle]
    /\ emailLock' = [e \in Emails |-> IF emailLock[e] = w THEN None ELSE emailLock[e]]
    /\ accountLock' = [d \in Identities |-> IF accountLock[d] = w THEN None ELSE accountLock[d]]

\* A request comes to an end with nothing (more) changed.
Leave(w) ==
    /\ Finish(w)
    /\ creation' = IF Creating(w) /\ ~At(w, "inserting") THEN "aborted" ELSE creation
    /\ UNCHANGED <<tenant, users, account, roleVars, admins, changes, outdated>>

UserOf(e) == {i \in Ids : users[i] = e}

\* The ids that no row has, committed or not.
Unused == {i \in Ids : users[i] = None /\ \A w \in Workers : At(w, "idle") \/ req[w].user # i}
NewId == CHOOSE i \in Unused : \A j \in Unused : i <= j

\* mutant of Free: the constraint is missing
FreeAlways(e) == TRUE

\* UNIQUE (tenant_id, email_lookup)
Free(e) == UserOf(e) = {}

\* mutant of Roles: the assignments are not filtered by the user
RolesOfAnyone(u) == IF held # {} THEN {role} \cup (IF scoped THEN {"client"} ELSE {}) ELSE {}

\* What the two queries of a login find for a user.
Roles(u) == IF u \in held THEN {role} \cup (IF scoped THEN {"client"} ELSE {}) ELSE {}
Permissions(u) == IF u \in held /\ linked THEN {"permission"} ELSE {}

\* Logins under way are overtaken by a change of what they read.
Overtaken == [w \in Workers |-> [req[w] EXCEPT !.current = FALSE]]

\* Those whose SuperAdmin role is in a valid token or about to be.
Claiming(u) == u \in admins \/ \E w \in Workers : req[w].user = u /\ SuperAdmin \in req[w].claims

-----------------------------------------------------------------------------
(* The creation of the tenant *)

\* bootstrap_service::run counts no tenant.
BootstrapCount(w) ==
    /\ At(w, "idle") /\ ~tenant
    /\ req' = [req EXCEPT ![w] = [Idle EXCEPT !.step = "inserting", !.kind = "bootstrap"]]
    /\ UNCHANGED <<tenant, userVars, roleVars, admins, traces>>

\* POST /tenants finds no tenant with the slug.
CreateTenant(w) ==
    /\ At(w, "idle") /\ ~tenant
    /\ req' = [req EXCEPT ![w] = [Idle EXCEPT !.step = "inserting", !.kind = "create"]]
    /\ UNCHANGED <<tenant, userVars, roleVars, admins, traces>>

\* The row is there at once; the slug is unique, so the second one fails.
InsertTenant(w) ==
    /\ At(w, "inserting")
    /\ IF tenant
         THEN Leave(w)
         ELSE /\ tenant' = TRUE /\ creation' = req[w].kind
              /\ Goto(w, IF Is(w, "bootstrap") THEN "admin" ELSE "permission")
              /\ UNCHANGED <<userVars, roleVars, admins, changes, outdated>>

\* A transaction of its own for the administrator's row
BootstrapUser(w) ==
    /\ At(w, "admin") /\ emailLock[AdminEmail] = None
    /\ IF Free(AdminEmail)
         THEN /\ Unused # {}
              /\ users' = [users EXCEPT ![NewId] = AdminEmail]
              /\ req' = [req EXCEPT ![w].step = "permission", ![w].user = NewId]
              /\ UNCHANGED <<tenant, account, emailLock, accountLock, roleVars, admins, traces>>
         ELSE Leave(w)

\* seed_tenant_defaults: the permission is found or inserted ...
SeedPermission(w) ==
    /\ At(w, "permission")
    /\ req' = IF permission = SuperAdmin
                THEN [req EXCEPT ![w].step = "role", ![w].found = {"permission"}]
                ELSE [req EXCEPT ![w].step = "role", ![w].made = {"permission"}]
    /\ permission \in {SuperAdmin, None}      \* bound: one permission at a time
    /\ UNCHANGED <<tenant, userVars, roleVars, admins, traces>>

\* ... then the role.
SeedRole(w) ==
    /\ At(w, "role")
    /\ req' = IF role = SuperAdmin
                THEN [req EXCEPT ![w].step = "linking", ![w].found = @ \cup {"role"}]
                ELSE [req EXCEPT ![w].step = "linking", ![w].made = @ \cup {"role"}]
    /\ role \in {SuperAdmin, None}            \* bound: one role at a time
    /\ UNCHANGED <<tenant, userVars, roleVars, admins, traces>>

\* mutant of AfterSeed: the first start ends with the seed
AfterSeedDone(w) == Idle

AfterSeed(w) == IF Is(w, "bootstrap") THEN [req[w] EXCEPT !.step = "assigning", !.made = {}, !.found = {}]
                                      ELSE Idle

\* mutant of SeedCommit: the role and the permission are committed before they are linked
SeedCommitUnlinked(w) ==
    /\ At(w, "linking")
    /\ role' = SuperAdmin /\ permission' = SuperAdmin
    /\ req' = [req EXCEPT ![w] = AfterSeed(w)]
    /\ UNCHANGED <<tenant, userVars, linked, held, scoped, admins, traces>>

\* They are linked and committed.  Where one of the two was found and is gone
\* the link fails, assign_to_role drops the error, and the COMMIT of the failed
\* transaction undoes it all: the seed has succeeded without a trace.
SeedCommit(w) ==
    /\ At(w, "linking")
    /\ IF req[w].lost
         THEN UNCHANGED <<role, permission, linked>>
         ELSE /\ role' = IF "role" \in req[w].made THEN SuperAdmin ELSE role
              /\ permission' = IF "permission" \in req[w].made THEN SuperAdmin ELSE permission
              /\ linked' = TRUE
    /\ req' = [Overtaken EXCEPT ![w] = AfterSeed(w)]
    /\ UNCHANGED <<tenant, userVars, held, scoped, admins, traces>>

\* assign_super_admin_role, if there is a role of that name
AssignAdmin(w) ==
    /\ At(w, "assigning")
    /\ held' = IF role = SuperAdmin THEN held \cup {req[w].user} ELSE held
    /\ req' = [Overtaken EXCEPT ![w] = Idle]
    /\ UNCHANGED <<tenant, userVars, role, permission, linked, scoped, admins, traces>>

-----------------------------------------------------------------------------
(* Users: POST /auth/register and POST /users, GET /auth/:provider/callback *)

\* email_lookup_exists says no.
RegisterFind(w, e) ==
    /\ At(w, "idle") /\ tenant /\ Free(e)
    /\ req' = [req EXCEPT ![w] = [Idle EXCEPT !.step = "registering", !.kind = "register", !.email = e]]
    /\ UNCHANGED <<tenant, userVars, roleVars, admins, traces>>

\* The INSERT waits for one of the same address and fails if that was committed.
RegisterCommit(w) ==
    /\ At(w, "registering") /\ emailLock[req[w].email] = None
    /\ IF Free(req[w].email)
         THEN /\ Unused # {}
              /\ users' = [users EXCEPT ![NewId] = req[w].email]
              /\ Finish(w)
              /\ UNCHANGED <<tenant, account, roleVars, admins, traces>>
         ELSE Leave(w)

\* find_or_create_user: an identity that is linked already signs its user in.
\* The address is looked up as the provider spells it, not normalised.
CallbackFind(w, d, e) ==
    /\ At(w, "idle") /\ tenant
    /\ req' = [req EXCEPT ![w] = [Idle EXCEPT !.kind = "callback", !.identity = d, !.email = e,
                                     !.step = IF account[d] = None THEN "matching" ELSE "signing",
                                     !.user = account[d]]]
    /\ UNCHANGED <<tenant, userVars, roleVars, admins, traces>>

\* Otherwise the user of the address is taken ...
CallbackMatch(w) ==
    /\ At(w, "matching")
    /\ req' = [req EXCEPT ![w].step = IF Free(req[w].email) THEN "creating" ELSE "connecting",
                          ![w].user = IF Free(req[w].email) THEN None
                                      ELSE CHOOSE i \in UserOf(req[w].email) : TRUE]
    /\ UNCHANGED <<tenant, userVars, roleVars, admins, traces>>

\* ... or created.
CallbackCreate(w) ==
    /\ At(w, "creating") /\ emailLock[req[w].email] = None
    /\ IF Free(req[w].email)
         THEN /\ Unused # {}
              /\ emailLock' = [emailLock EXCEPT ![req[w].email] = w]
              /\ req' = [req EXCEPT ![w].step = "connecting", ![w].user = NewId]
              /\ UNCHANGED <<tenant, users, account, accountLock, roleVars, admins, traces>>
         ELSE Leave(w)

\* mutant of CallbackLink: ON CONFLICT DO NOTHING
CallbackLinkIgnores(w) ==
    /\ At(w, "connecting") /\ accountLock[req[w].identity] = None
    /\ accountLock' = IF account[req[w].identity] = None
                        THEN [accountLock EXCEPT ![req[w].identity] = w] ELSE accountLock
    /\ Goto(w, "signing")
    /\ UNCHANGED <<tenant, users, account, emailLock, roleVars, admins, traces>>

\* The identity is linked, once: UNIQUE (tenant_id, provider, provider_user_id)
CallbackLink(w) ==
    /\ At(w, "connecting") /\ accountLock[req[w].identity] = None
    /\ IF account[req[w].identity] = None
         THEN /\ accountLock' = [accountLock EXCEPT ![req[w].identity] = w]
              /\ Goto(w, "signing")
              /\ UNCHANGED <<tenant, users, account, emailLock, roleVars, admins, traces>>
         ELSE Leave(w)

\* Row, link and refresh token are committed together; the token has no roles.
CallbackCommit(w) ==
    /\ At(w, "signing")
    /\ users' = IF emailLock[req[w].email] = w THEN [users EXCEPT ![req[w].user] = req[w].email] ELSE users
    /\ account' = IF accountLock[req[w].identity] = w
                    THEN [account EXCEPT ![req[w].identity] = req[w].user] ELSE account
    /\ Finish(w)
    /\ UNCHANGED <<tenant, roleVars, admins, traces>>

-----------------------------------------------------------------------------
(* The claims of a token: login, refresh, code exchange, challenge *)

LoginUser(w, u) ==
    /\ At(w, "idle") /\ users[u] # None
    /\ req' = [req EXCEPT ![w] = [Idle EXCEPT !.step = "roles", !.kind = "login",
                                              !.user = u, !.current = TRUE]]
    /\ UNCHANGED <<tenant, userVars, roleVars, admins, traces>>

\* list_names_for_user, of the roles and then of the permissions
LoginRoles(w) ==
    /\ At(w, "roles")
    /\ req' = [req EXCEPT ![w].step = "permissions", ![w].claims = Roles(req[w].user)]
    /\ UNCHANGED <<tenant, userVars, roleVars, admins, traces>>

\* mutant of LoginPermissions: the permissions of every role
LoginPermissionsOfAll(w) ==
    /\ At(w, "permissions")
    /\ req' = [req EXCEPT ![w].step = "issuing",
                          ![w].claims = @ \cup (IF linked THEN {"permission"} ELSE {})]
    /\ UNCHANGED <<tenant, userVars, roleVars, admins, traces>>

LoginPermissions(w) ==
    /\ At(w, "permissions")
    /\ req' = [req EXCEPT ![w].step = "issuing", ![w].claims = @ \cup Permissions(req[w].user)]
    /\ UNCHANGED <<tenant, userVars, roleVars, admins, traces>>

\* From here on require_admin looks at the claims alone.
LoginCommit(w) ==
    /\ At(w, "issuing")
    /\ admins' = IF SuperAdmin \in req[w].claims THEN admins \cup {req[w].user} ELSE admins
    /\ Finish(w)
    /\ UNCHANGED <<tenant, users, account, roleVars, traces>>

\* All of a user's tokens expire.
TokensExpire(u) ==
    /\ u \in admins
    /\ admins' = admins \ {u}
    /\ outdated' = IF \E w \in Workers : req[w].user = u /\ SuperAdmin \in req[w].claims
                     THEN outdated ELSE outdated \ {u}
    /\ UNCHANGED <<tenant, userVars, roleVars, req, creation, changes>>

-----------------------------------------------------------------------------
(* Roles and permissions: handlers of one statement *)

\* Seeding workers that have inserted a role or found it
Seeding(what) == \E w \in Workers : what \in req[w].made

\* What a change does to those under way: a seed may lose what it has found.
Changed(gone) ==
    /\ tenant /\ changes < MaxChanges
    /\ changes' = changes + 1
    /\ req' = [w \in Workers |-> [req[w] EXCEPT !.current = FALSE,
                                                !.lost = @ \/ gone \cap req[w].found # {}]]
    /\ UNCHANGED <<tenant, userVars, admins, creation>>

\* SuperAdmin is taken from some users.
Demoted(who) == outdated' = outdated \cup {u \in who : role = SuperAdmin /\ Claiming(u)}

\* The name is unique: this waits for a seed that has inserted it.
CreateRole(name) ==
    /\ role = None /\ ~Seeding("role")
    /\ role' = name
    /\ Changed({}) /\ Demoted({})
    /\ UNCHANGED <<permission, linked, held, scoped>>

RenameRole(name) ==
    /\ role \notin {None, name} /\ ~Seeding("role")
    /\ role' = name
    /\ Changed({}) /\ Demoted(held)
    /\ UNCHANGED <<permission, linked, held, scoped>>

\* mutant of DeleteRole: no ON DELETE CASCADE
DeleteRoleAlone ==
    /\ role # None
    /\ role' = None
    /\ Changed({"role"}) /\ Demoted(held)
    /\ UNCHANGED <<permission, linked, held, scoped>>

\* ON DELETE CASCADE takes its grants along.
DeleteRole ==
    /\ role # None
    /\ role' = None /\ linked' = FALSE /\ held' = {} /\ scoped' = FALSE
    /\ Changed({"role"}) /\ Demoted(held)
    /\ UNCHANGED permission

\* Assigning what is not there is answered like a success and does nothing.
AssignRole(u) ==
    /\ role # None /\ users[u] # None
    /\ held' = held \cup {u}
    /\ Changed({}) /\ Demoted({})
    /\ UNCHANGED <<role, permission, linked, scoped>>

RevokeRole(u) ==
    /\ u \in held
    /\ held' = held \ {u}
    /\ Changed({}) /\ Demoted({u})
    /\ UNCHANGED <<role, permission, linked, scoped>>

\* POST and DELETE /clients/:id/roles
ScopeRole(to) ==
    /\ role # None /\ scoped # to
    /\ scoped' = to
    /\ Changed({}) /\ Demoted({})
    /\ UNCHANGED <<role, permission, linked, held>>

CreatePermission(name) ==
    /\ permission = None /\ ~Seeding("permission")
    /\ permission' = name
    /\ Changed({}) /\ Demoted({})
    /\ UNCHANGED <<role, linked, held, scoped>>

RenamePermission(name) ==
    /\ permission \notin {None, name} /\ ~Seeding("permission")
    /\ permission' = name
    /\ Changed({}) /\ Demoted({})
    /\ UNCHANGED <<role, linked, held, scoped>>

DeletePermission ==
    /\ permission # None
    /\ permission' = None /\ linked' = FALSE
    /\ Changed({"permission"}) /\ Demoted({})
    /\ UNCHANGED <<role, held, scoped>>

GrantPermission ==
    /\ role # None /\ permission # None /\ ~linked
    /\ linked' = TRUE
    /\ Changed({}) /\ Demoted({})
    /\ UNCHANGED <<role, permission, held, scoped>>

RevokePermission ==
    /\ linked
    /\ linked' = FALSE
    /\ Changed({}) /\ Demoted({})
    /\ UNCHANGED <<role, permission, held, scoped>>

-----------------------------------------------------------------------------

\* A failed statement, a dropped request, a crash: the transaction is undone,
\* what was committed before it stays.  A start that fails ends the process.
Rollback(w) == ~At(w, "idle") /\ Leave(w)

Next ==
    \/ \E w \in Workers :
        \/ BootstrapCount(w) \/ CreateTenant(w) \/ InsertTenant(w) \/ BootstrapUser(w)
        \/ SeedPermission(w) \/ SeedRole(w) \/ SeedCommit(w) \/ AssignAdmin(w)
        \/ \E e \in Emails : RegisterFind(w, e) \/ \E d \in Identities : CallbackFind(w, d, e)
        \/ RegisterCommit(w)
        \/ CallbackMatch(w) \/ CallbackCreate(w) \/ CallbackLink(w) \/ CallbackCommit(w)
        \/ \E u \in Ids : LoginUser(w, u)
        \/ LoginRoles(w) \/ LoginPermissions(w) \/ LoginCommit(w)
        \/ Rollback(w)
    \/ \E u \in Ids : TokensExpire(u) \/ AssignRole(u) \/ RevokeRole(u)
    \/ \E name \in Names : \/ CreateRole(name) \/ RenameRole(name)
                           \/ CreatePermission(name) \/ RenamePermission(name)
    \/ DeleteRole \/ DeletePermission \/ GrantPermission \/ RevokePermission
    \/ \E to \in BOOLEAN : ScopeRole(to)

Spec == Init /\ [][Next]_vars

-----------------------------------------------------------------------------
(* Properties *)

Touched == changes > 0
Underway == \E w \in Workers : Creating(w) /\ ~At(w, "inserting")

Seeded == role = SuperAdmin /\ permission = SuperAdmin /\ linked

\* As long as no administrator changes them, role, permission and link are there
\* together or not at all, wherever a creation is cut off.
SeedAtomic == ~Touched => Seeded \/ (role = None /\ permission = None)

\* A tenant without its seed is one whose creation was cut off, is under way, or
\* whose roles an administrator has changed; and after a first start that went
\* through, its administrator has the role.
TenantsSeeded ==
    tenant /\ creation # "aborted" /\ ~Touched /\ ~Underway
        => /\ Seeded
           /\ creation = "bootstrap" => UserOf(AdminEmail) # {} /\ UserOf(AdminEmail) \subseteq held

\* Only one creation gets past its first INSERT.
OneCreation ==
    Cardinality({w \in Workers : Creating(w) /\ ~At(w, "inserting")}) <= 1

\* A registration, the first start and callbacks that meet never make two users
\* of one address.
OneUserPerAddress == \A e \in Emails : Cardinality(UserOf(e)) <= 1

\* A callback signs in the user that its identity is linked to when it commits,
\* also one that found no link and met another callback on the way.
IdentitySignsIn ==
    [][\A w \in Workers : At(w, "signing") /\ req'[w] = Idle /\ ~UNCHANGED <<users, account>>
          => account'[req[w].identity] = req[w].user /\ users'[req[w].user] # None]_vars

\* Links are for ever: whoever an identity has signed in as, it always will.
LinksStay == [][\A d \in Identities : account[d] # None => account'[d] = account[d]]_vars

\* Roles and permissions are read in two queries: if nothing changes between
\* the first of them and the end, the claims are those of that moment.
ClaimsOfMoment ==
    \A w \in Workers : At(w, "issuing") /\ req[w].current
        => req[w].claims = Roles(req[w].user) \cup Permissions(req[w].user)

\* A user whose tokens say SuperAdmin has the role, or has lost it after they
\* were issued or while they were: require_admin goes on accepting those.
AdminsHadRole == \A u \in admins : (u \in held /\ role = SuperAdmin) \/ u \in outdated
=============================================================================
