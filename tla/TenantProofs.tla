---------------------------- MODULE TenantProofs ----------------------------
(***************************************************************************)
(* Safety of Directory for any number of requests, users, addresses and    *)
(* identities, and of TenantSettings for any number of saves, sections and *)
(* values.                                                                 *)
(***************************************************************************)
EXTENDS Directory, TenantSettings, FiniteSetTheorems, WellFoundedInduction, TLAPS

-----------------------------------------------------------------------------
(* Directory: the inductive invariant *)

CreationSteps == {"inserting", "admin", "permission", "role", "linking", "assigning"}
SeedSteps == {"permission", "role", "linking", "assigning"}

\* What a request holds at each of its steps
Form(r) ==
    /\ r.step = "idle" => r = Idle
    /\ r.step \in CreationSteps <=> r.kind \in {"bootstrap", "create"}
    /\ r.step \in {"admin", "assigning"} => r.kind = "bootstrap"
    /\ r.step = "registering" => r.email # None
    /\ r.step \in {"matching", "creating", "connecting", "signing"} => r.email # None /\ r.identity # None
    /\ r.user # None <=> \/ r.step \in {"connecting", "signing", "roles", "permissions", "issuing"}
                         \/ r.step \in SeedSteps /\ r.kind = "bootstrap"
    /\ r.claims # {} => r.step \in {"permissions", "issuing"}
    /\ r.step \notin {"role", "linking"} => r.made = {} /\ r.found = {}
    /\ r.step = "role" => r.made \cup r.found = {"permission"}
    /\ r.step = "linking" => r.made \cup r.found = {"permission", "role"}

Forms == \A w \in Workers : Form(req[w])

\* The user of a request is committed, or it is the one that has inserted it.
UsersKnown ==
    \A w \in Workers : req[w].user # None =>
        \/ users[req[w].user] # None
        \/ req[w].step \in {"connecting", "signing"} /\ emailLock[req[w].email] = w

\* The first start seeds for the administrator's row.
AdminKnown ==
    \A w \in Workers : req[w].step \in SeedSteps /\ Is(w, "bootstrap") => users[req[w].user] = AdminEmail

\* A callback that signs in has found its link or inserted it.
LinkKnown ==
    \A w \in Workers : At(w, "signing") =>
        account[req[w].identity] = req[w].user \/ accountLock[req[w].identity] = w

\* An address that is locked is not committed, nor is the row it is locked for;
\* and an identity that is locked is not linked.
EmailLocks ==
    \A e \in Emails, w \in Workers : emailLock[e] = w =>
        /\ req[w].step \in {"connecting", "signing"} /\ req[w].email = e
        /\ users[req[w].user] = None /\ Free(e)
AccountLocks ==
    \A d \in Identities, w \in Workers : accountLock[d] = w =>
        At(w, "signing") /\ req[w].identity = d /\ account[d] = None

\* A row that is not committed belongs to one request.
RowsApart ==
    \A w, v \in Workers : req[w].user # None /\ req[w].user = req[v].user /\ users[req[w].user] = None => w = v

\* No two rows have one address.
AddressesApart == \A i, j \in Ids : users[i] # None /\ users[i] = users[j] => i = j

\* Links lead to users.
LinksLead == \A d \in Identities : account[d] # None => users[account[d]] # None

UsersOK ==
    /\ Forms /\ UsersKnown /\ AdminKnown /\ LinkKnown /\ EmailLocks /\ AccountLocks
    /\ RowsApart /\ AddressesApart /\ LinksLead

\* Past the first INSERT of a creation
Past(r) == r.kind \in {"bootstrap", "create"} /\ r.step # "inserting"

\* One creation gets there, and it is the one the tenant is known for.
OnePast ==
    /\ \A w \in Workers : Past(req[w]) => tenant /\ creation = req[w].kind
    /\ \A w, v \in Workers : Past(req[w]) /\ Past(req[v]) => w = v

\* What a seed has found is there unless it has been told otherwise, and is
\* what it looked for as long as no administrator changes it.
FoundThere ==
    \A w \in Workers :
        /\ req[w].lost => Touched
        /\ ~req[w].lost => /\ "role" \in req[w].found => role # None
                           /\ "permission" \in req[w].found => permission # None
        /\ ~Touched => /\ "role" \in req[w].found => role = SuperAdmin
                       /\ "permission" \in req[w].found => permission = SuperAdmin
                       /\ At(w, "assigning") => Seeded

SeedOK == OnePast /\ FoundThere /\ SeedAtomic /\ TenantsSeeded

\* The claims read so far are those of the moment unless something has changed,
ClaimsCurrent ==
    \A w \in Workers : req[w].current =>
        /\ At(w, "permissions") => req[w].claims = Roles(req[w].user)
        /\ At(w, "issuing") => req[w].claims = Roles(req[w].user) \cup Permissions(req[w].user)

\* and whoever is claimed to be an administrator is one or was one.
ClaimsHeld ==
    \A u \in Ids : Claiming(u) => (u \in held /\ role = SuperAdmin) \/ u \in outdated

Inv == TypeOK /\ UsersOK /\ SeedOK /\ ClaimsCurrent /\ ClaimsHeld

-----------------------------------------------------------------------------
(* Directory: helpers *)

\* A set of ids has a least one.
LEMMA LeastOf ==
    ASSUME NEW S \in SUBSET Nat, S # {}
    PROVE  \E n \in S : \A m \in S : n <= m
<1> DEFINE R == OpToRel(<, Nat)
<1>1. IsWellFoundedOn(R, Nat)
  BY NatLessThanWellFounded, Zenon
<1>2. \A x, y \in Nat : y < x => <<y, x>> \in R
  BY DEF OpToRel
<1> HIDE DEF R
<1>3. PICK n \in S : \A m \in S : ~(<<m, n>> \in R)
  BY <1>1, WFMin
<1>4. \A m \in S : ~(m < n)
  BY <1>2, <1>3
<1> QED
  BY <1>4

\* A new id belongs to no row and to no request.
LEMMA NewIdUnused ==
    ASSUME ConstantsAssumption, Unused # {}
    PROVE  /\ NewId \in Ids /\ users[NewId] = None
           /\ \A w \in Workers : At(w, "idle") \/ req[w].user # NewId
<1>1. Unused \in SUBSET Nat
  BY DEF Unused, Ids
<1>2. NewId \in Unused
  BY <1>1, LeastOf DEF NewId
<1> QED
  BY <1>2 DEF Unused

\* The creation that is under way is the request past its first INSERT.
LEMMA UnderwayPast == Underway <=> \E w \in Workers : Past(req[w])
BY DEF Underway, Past, Creating, Is, At

\* The initial state satisfies the invariant.
LEMMA InitInv == Init => Inv
<1> SUFFICES ASSUME Init PROVE Inv
  OBVIOUS
<1> USE ConstantsAssumption
<1>0. Idle.step = "idle" /\ Idle.user = None
  BY DEF Idle
<1>1. Idle \in Request /\ Form(Idle) /\ ~Past(Idle)
  BY DEF Idle, Request, Form, CreationSteps, SeedSteps, Past
<1>2. \A w \in Workers : req[w] = Idle
  BY DEF Init
<1>3. TypeOK
  <2>1. tenant \in BOOLEAN /\ linked \in BOOLEAN /\ ~linked /\ scoped \in BOOLEAN /\ ~scoped
    BY DEF Init
  <2>2. /\ users \in [Ids -> Emails \cup {None}] /\ account \in [Identities -> Ids \cup {None}]
        /\ emailLock \in [Emails -> Workers \cup {None}] /\ accountLock \in [Identities -> Workers \cup {None}]
        /\ req \in [Workers -> Request] /\ changes \in 0 .. MaxChanges
    BY <1>1 DEF Init
  <2>3. /\ role \in Names \cup {None} /\ permission \in Names \cup {None}
        /\ held = {} /\ admins = {} /\ outdated = {}
        /\ creation \in {"bootstrap", "create", "aborted", None}
    BY DEF Init
  <2> QED
    BY <2>1, <2>2, <2>3 DEF TypeOK
<1>4. UsersOK
  <2>1. Forms /\ UsersKnown /\ AdminKnown /\ LinkKnown
    BY <1>0, <1>1, <1>2 DEF Forms, UsersKnown, AdminKnown, LinkKnown, At, SeedSteps
  <2>2. EmailLocks /\ AccountLocks
    BY DEF Init, EmailLocks, AccountLocks
  <2>3. RowsApart /\ AddressesApart /\ LinksLead
    BY <1>2 DEF Init, RowsApart, AddressesApart, LinksLead, Idle
  <2> QED
    BY <2>1, <2>2, <2>3 DEF UsersOK
<1>5. SeedOK
  BY <1>1, <1>2 DEF Init, SeedOK, OnePast, FoundThere, SeedAtomic, TenantsSeeded, At, Idle
<1>6. ClaimsCurrent /\ ClaimsHeld
  BY <1>2 DEF Init, ClaimsCurrent, ClaimsHeld, Claiming, Idle
<1> QED
  BY <1>3, <1>4, <1>5, <1>6 DEF Inv

-----------------------------------------------------------------------------
(* Directory: steps that change a request alone *)

\* A request goes on with r and nothing else changes: what r must satisfy.
LEMMA Advance ==
    ASSUME Inv, NEW w \in Workers, NEW r \in Request, Form(r), req' = [req EXCEPT ![w] = r],
           UNCHANGED <<tenant, userVars, roleVars, admins, traces>>,
           req[w].step \notin {"connecting", "signing"},
           r.user # None => users[r.user] # None,
           r.step = "signing" => account[r.identity] = r.user,
           r.step \in SeedSteps /\ r.kind = "bootstrap" => users[r.user] = AdminEmail,
           Past(r) <=> Past(req[w]), Past(r) => r.kind = req[w].kind, r.step # "assigning",
           r.lost => Touched,
           "role" \in r.found => (~r.lost => role # None) /\ (~Touched => role = SuperAdmin),
           "permission" \in r.found =>
                (~r.lost => permission # None) /\ (~Touched => permission = SuperAdmin),
           r.current =>
              /\ r.step = "permissions" => r.claims = Roles(r.user)
              /\ r.step = "issuing" => r.claims = Roles(r.user) \cup Permissions(r.user),
           SuperAdmin \in r.claims => (r.user \in held /\ role = SuperAdmin) \/ r.user \in outdated
    PROVE  Inv'
<1> USE ConstantsAssumption
<1>1. req \in [Workers -> Request] /\ req' \in [Workers -> Request]
      /\ req'[w] = r /\ \A v \in Workers : v # w => req'[v] = req[v]
  BY DEF Inv, TypeOK
<1>2. UNCHANGED <<tenant, users, account, emailLock, accountLock, role, permission, linked, held, scoped,
                  admins, creation, changes, outdated>>
  BY DEF userVars, roleVars, traces
<1>3. TypeOK'
  BY <1>1, <1>2 DEF Inv, TypeOK
<1>4. UsersOK'
  <2>1. Forms'
    BY <1>1 DEF Inv, UsersOK, Forms
  <2>2. UsersKnown'
    BY <1>1, <1>2 DEF Inv, UsersOK, UsersKnown
  <2>3. AdminKnown' /\ LinkKnown'
    BY <1>1, <1>2 DEF Inv, UsersOK, AdminKnown, LinkKnown, At, Is
  <2>4. EmailLocks' /\ AccountLocks'
    BY <1>1, <1>2 DEF Inv, UsersOK, EmailLocks, AccountLocks, At, Free, UserOf
  <2>5. RowsApart'
    BY <1>1, <1>2 DEF Inv, UsersOK, RowsApart
  <2>6. AddressesApart' /\ LinksLead'
    BY <1>2 DEF Inv, UsersOK, AddressesApart, LinksLead
  <2> QED
    BY <2>1, <2>2, <2>3, <2>4, <2>5, <2>6 DEF UsersOK
<1>5. SeedOK'
  <2>1. OnePast'
    BY <1>1, <1>2 DEF Inv, SeedOK, OnePast, Past
  <2>2. FoundThere'
    BY <1>1, <1>2 DEF Inv, SeedOK, FoundThere, Touched, Seeded, At
  <2>3. Underway' <=> Underway
    BY <1>1, UnderwayPast DEF Underway, Past, Creating, Is, At
  <2>4. SeedAtomic' /\ TenantsSeeded'
    BY <1>2, <2>3 DEF Inv, SeedOK, SeedAtomic, TenantsSeeded, Touched, Seeded, UserOf
  <2> QED
    BY <2>1, <2>2, <2>4 DEF SeedOK
<1>6. ClaimsCurrent'
  BY <1>1, <1>2 DEF Inv, ClaimsCurrent, At, Roles, Permissions
<1>7. ClaimsHeld'
  BY <1>1, <1>2 DEF Inv, ClaimsHeld, Claiming
<1> QED
  BY <1>3, <1>4, <1>5, <1>6, <1>7 DEF Inv

\* The claims of a request that has not read any are current.
LEMMA ClaimsKept ==
    ASSUME ClaimsCurrent, UNCHANGED <<role, linked, held, scoped>>,
           \A v \in Workers : req'[v] = req[v] \/ ~req'[v].current \/ req'[v].step \notin {"permissions", "issuing"}
    PROVE  ClaimsCurrent'
<1> SUFFICES ASSUME NEW v \in Workers, req'[v].current, req'[v].step \in {"permissions", "issuing"}
             PROVE  /\ (At(v, "permissions") => req[v].claims = Roles(req[v].user))'
                    /\ (At(v, "issuing") => req[v].claims = Roles(req[v].user) \cup Permissions(req[v].user))'
  BY Zenon DEF ClaimsCurrent, At
<1>1. req'[v] = req[v] /\ req[v].current
  OBVIOUS
<1>2. /\ req[v].step = "permissions" => req[v].claims = Roles(req[v].user)
      /\ req[v].step = "issuing" => req[v].claims = Roles(req[v].user) \cup Permissions(req[v].user)
  BY <1>1 DEF ClaimsCurrent, At
<1> QED
  BY <1>1, <1>2 DEF At, Roles, Permissions

\* A creation that has nothing yet, past its first INSERT or about to be cut
\* off; a callback or a registration: what the seed and the claims rest on is
\* untouched.
LEMMA Aside ==
    ASSUME Inv, NEW w \in Workers, NEW r \in Request, req' = [req EXCEPT ![w] = r],
           UNCHANGED <<tenant, roleVars, admins, traces>>,
           Past(r) <=> Past(req[w]), Past(r) => r.kind = req[w].kind, r.step # "assigning",
           r.found = {}, r.lost => Touched, r.claims = {}, r.step \notin {"permissions", "issuing"},
           UserOf(AdminEmail) # {} => UserOf(AdminEmail)' = UserOf(AdminEmail)
    PROVE  SeedOK' /\ ClaimsCurrent' /\ ClaimsHeld'
<1> USE ConstantsAssumption
<1>1. req'[w] = r /\ \A v \in Workers : v # w => req'[v] = req[v]
  BY DEF Inv, TypeOK
<1>2. UNCHANGED <<tenant, role, permission, linked, held, scoped, admins, creation, changes, outdated>>
  BY DEF roleVars, traces
<1>3. OnePast'
  BY <1>1, <1>2 DEF Inv, SeedOK, OnePast, Past
<1>4. FoundThere'
  BY <1>1, <1>2 DEF Inv, SeedOK, FoundThere, Touched, Seeded, At
<1>5. Underway' <=> Underway
  BY <1>1, UnderwayPast DEF Underway, Past, Creating, Is, At
<1>6. SeedAtomic'
  BY <1>2 DEF Inv, SeedOK, SeedAtomic, Touched, Seeded
<1>7. TenantsSeeded'
  BY <1>2, <1>5 DEF Inv, SeedOK, TenantsSeeded, Touched, Seeded
<1>8. ClaimsCurrent'
  BY <1>1, <1>2, ClaimsKept DEF Inv
<1>9. ClaimsHeld'
  BY <1>1, <1>2 DEF Inv, ClaimsHeld, Claiming
<1> QED
  BY <1>3, <1>4, <1>6, <1>7, <1>8, <1>9 DEF SeedOK

\* What a request that is not linking or signing in holds: no locks.
LEMMA LocksOf ==
    ASSUME Inv, NEW w \in Workers
    PROVE  /\ req[w].step \notin {"connecting", "signing"} =>
                 /\ \A e \in Emails : emailLock[e] # w
                 /\ \A d \in Identities : accountLock[d] # w
           /\ req[w].step = "connecting" => \A d \in Identities : accountLock[d] # w
BY DEF Inv, UsersOK, EmailLocks, AccountLocks, At

\* A request ends: what it has not committed is gone, and its locks are free.
LEMMA FinishInv ==
    ASSUME Inv, NEW w \in Workers, Finish(w), UNCHANGED <<tenant, users, account, roleVars, changes, outdated>>,
           \/ admins' = admins
           \/ SuperAdmin \in req[w].claims /\ req[w].user \in Ids /\ admins' = admins \cup {req[w].user},
           creation' = IF Past(req[w]) THEN "aborted" ELSE creation
    PROVE  Inv'
<1> USE ConstantsAssumption
<1>1. Idle \in Request /\ Form(Idle) /\ ~Past(Idle) /\ Idle.step = "idle" /\ Idle.user = None
      /\ Idle.found = {} /\ Idle.lost = FALSE /\ Idle.current = FALSE /\ Idle.claims = {}
  BY DEF Idle, Request, Form, CreationSteps, SeedSteps, Past
<1>2. /\ req' \in [Workers -> Request] /\ req'[w] = Idle
      /\ \A v \in Workers : v # w => req'[v] = req[v]
  BY <1>1 DEF Inv, TypeOK, Finish
<1>3. /\ emailLock' \in [Emails -> Workers \cup {None}] /\ accountLock' \in [Identities -> Workers \cup {None}]
      /\ \A e \in Emails : emailLock'[e] # w /\ \A v \in Workers : v # w => (emailLock'[e] = v <=> emailLock[e] = v)
      /\ \A d \in Identities : accountLock'[d] # w /\ \A v \in Workers : v # w => (accountLock'[d] = v <=> accountLock[d] = v)
  BY DEF Inv, TypeOK, Finish
<1>4. UNCHANGED <<tenant, users, account, role, permission, linked, held, scoped, changes, outdated>>
  BY DEF roleVars
<1>5. TypeOK'
  BY <1>2, <1>3, <1>4 DEF Inv, TypeOK
<1>6. UsersOK'
  <2>1. Forms'
    BY <1>1, <1>2 DEF Inv, UsersOK, Forms
  <2>2. UsersKnown'
    <3> SUFFICES ASSUME NEW v \in Workers, req'[v].user # None
                 PROVE  \/ users'[req'[v].user] # None
                        \/ req'[v].step \in {"connecting", "signing"} /\ emailLock'[req'[v].email] = v
      BY DEF UsersKnown
    <3>1. v # w /\ req'[v] = req[v]
      BY <1>1, <1>2
    <3>2. req[v].step \in {"connecting", "signing"} => req[v].email \in Emails
      BY DEF Inv, TypeOK, Request, UsersOK, Forms, Form
    <3> QED
      BY <1>3, <1>4, <3>1, <3>2 DEF Inv, UsersOK, UsersKnown
  <2>3. AdminKnown'
    BY <1>1, <1>2, <1>4 DEF Inv, UsersOK, AdminKnown, Is, SeedSteps
  <2>4. LinkKnown'
    <3> SUFFICES ASSUME NEW v \in Workers, req'[v].step = "signing"
                 PROVE  account'[req'[v].identity] = req'[v].user \/ accountLock'[req'[v].identity] = v
      BY DEF LinkKnown, At
    <3>1. v # w /\ req'[v] = req[v]
      BY <1>1, <1>2
    <3>2. req[v].identity \in Identities
      BY <3>1 DEF Inv, TypeOK, Request, UsersOK, Forms, Form
    <3> QED
      BY <1>3, <1>4, <3>1, <3>2 DEF Inv, UsersOK, LinkKnown, At
  <2>5. EmailLocks'
    BY <1>2, <1>3, <1>4 DEF Inv, UsersOK, EmailLocks, Free, UserOf
  <2>6. AccountLocks'
    BY <1>2, <1>3, <1>4 DEF Inv, UsersOK, AccountLocks, At
  <2>7. RowsApart' /\ AddressesApart' /\ LinksLead'
    BY <1>1, <1>2, <1>4 DEF Inv, UsersOK, RowsApart, AddressesApart, LinksLead
  <2> QED
    BY <2>1, <2>2, <2>3, <2>4, <2>5, <2>6, <2>7 DEF UsersOK
<1>7. SeedOK'
  <2>1. OnePast'
    BY <1>1, <1>2, <1>4 DEF Inv, SeedOK, OnePast
  <2>2. FoundThere'
    BY <1>1, <1>2, <1>4 DEF Inv, SeedOK, FoundThere, Touched, Seeded, At
  <2>3. SeedAtomic'
    BY <1>4 DEF Inv, SeedOK, SeedAtomic, Touched, Seeded
  <2>4. TenantsSeeded'
    <3>1. ASSUME ~Past(req[w])
          PROVE  Underway' <=> Underway
      BY <1>1, <1>2, <3>1, UnderwayPast DEF Underway, Past, Creating, Is, At
    <3> QED
      BY <1>4, <3>1 DEF Inv, SeedOK, TenantsSeeded, Touched, Seeded, UserOf
  <2> QED
    BY <2>1, <2>2, <2>3, <2>4 DEF SeedOK
<1>8. ClaimsCurrent'
  BY <1>1, <1>2, <1>4, ClaimsKept DEF Inv
<1>9. ClaimsHeld'
  <2> SUFFICES ASSUME NEW u \in Ids, Claiming(u)'
               PROVE  Claiming(u)
    BY <1>4 DEF Inv, ClaimsHeld
  <2>1. CASE u \in admins'
    BY <2>1 DEF Claiming
  <2>2. CASE \E v \in Workers : req'[v].user = u /\ SuperAdmin \in req'[v].claims
    BY <1>1, <1>2, <2>2 DEF Claiming
  <2> QED
    BY <2>1, <2>2 DEF Claiming
<1> QED
  BY <1>5, <1>6, <1>7, <1>8, <1>9 DEF Inv

\* Nothing is left behind by a request that fails.
LEMMA LeaveInv ==
    ASSUME Inv, NEW w \in Workers, Leave(w)
    PROVE  Inv'
<1>1. creation' = IF Past(req[w]) THEN "aborted" ELSE creation
  BY DEF Leave, Past, Creating, Is, At
<1>2. Finish(w) /\ admins' = admins /\ UNCHANGED <<tenant, users, account, roleVars, changes, outdated>>
  BY DEF Leave
<1> QED
  BY <1>1, <1>2, FinishInv

-----------------------------------------------------------------------------
(* Directory: steps that change users and links *)

\* A row is committed for an address that is free, by a request that goes on
\* with r, or ends.
LEMMA AddUser ==
    ASSUME Inv, NEW w \in Workers, NEW r \in Request, Form(r), req' = [req EXCEPT ![w] = r],
           UNCHANGED <<tenant, account, emailLock, accountLock, roleVars, admins, traces>>,
           NEW e \in Emails, Free(e), emailLock[e] = None, Unused # {}, users' = [users EXCEPT ![NewId] = e],
           req[w].step \notin {"connecting", "signing"},
           Past(r) <=> Past(req[w]), Past(r) => r.kind = req[w].kind,
           r.found = {}, r.lost => Touched, r.claims = {},
           \/ r.step = "idle"
           \/ r.step = "permission" /\ r.user = NewId /\ e = AdminEmail
    PROVE  Inv'
<1> USE ConstantsAssumption
<1>1. /\ req' \in [Workers -> Request] /\ req'[w] = r
      /\ \A v \in Workers : v # w => req'[v] = req[v]
  BY DEF Inv, TypeOK
<1>2. UNCHANGED <<tenant, account, emailLock, accountLock, role, permission, linked, held, scoped, admins,
                  creation, changes, outdated>>
  BY DEF roleVars, traces
<1> DEFINE n == NewId
<1>3. n \in Ids /\ n # None /\ users[n] = None /\ \A v \in Workers : req[v].user # n
  <2>1. \A v \in Workers : At(v, "idle") => req[v].user = None
    BY DEF Inv, UsersOK, Forms, Form, At, SeedSteps
  <2> QED
    BY <2>1, NewIdUnused
<1> HIDE DEF n
<1>4. /\ users' \in [Ids -> Emails \cup {None}] /\ users'[n] = e /\ e # None
      /\ \A i \in Ids : i # n => users'[i] = users[i]
  BY <1>3 DEF Inv, TypeOK, n
<1>5. \A i \in Ids : users[i] # e
  BY DEF Free, UserOf
<1>6. /\ r.step = "permission" => r.user = n
      /\ r.step = "idle" => r.user = None
  BY DEF n, Form, SeedSteps
<1>7. TypeOK'
  BY <1>1, <1>2, <1>4 DEF Inv, TypeOK
<1>8. \A v \in Workers : req[v].user \in Ids \cup {None}
  BY DEF Inv, TypeOK, Request
<1>9. UsersOK'
  <2>1. Forms'
    BY <1>1 DEF Inv, UsersOK, Forms
  <2>2. UsersKnown'
    BY <1>1, <1>2, <1>3, <1>4, <1>6, <1>8 DEF Inv, UsersOK, UsersKnown
  <2>3. AdminKnown'
    <3> SUFFICES ASSUME NEW v \in Workers, req'[v].step \in SeedSteps, req'[v].kind = "bootstrap"
                 PROVE  users'[req'[v].user] = AdminEmail
      BY DEF AdminKnown, Is
    <3>1. CASE v = w
      BY <1>1, <1>4, <1>6, <3>1 DEF SeedSteps
    <3>2. CASE v # w
      <4>1. users[req[v].user] = AdminEmail /\ req[v].user # None
        BY <1>1, <3>2 DEF Inv, UsersOK, AdminKnown, Forms, Form, Is
      <4> QED
        BY <1>1, <1>3, <1>4, <1>8, <3>2, <4>1
    <3> QED
      BY <3>1, <3>2
  <2>4. LinkKnown'
    BY <1>1, <1>2 DEF Inv, UsersOK, LinkKnown, At
  <2>5. EmailLocks'
    <3> SUFFICES ASSUME NEW a \in Emails, NEW v \in Workers, emailLock'[a] = v
                 PROVE  /\ req'[v].step \in {"connecting", "signing"} /\ req'[v].email = a
                        /\ users'[req'[v].user] = None /\ UserOf(a)' = {}
      BY DEF EmailLocks, Free
    <3>1. /\ req[v].step \in {"connecting", "signing"} /\ req[v].email = a
          /\ users[req[v].user] = None /\ UserOf(a) = {}
      BY <1>2 DEF Inv, UsersOK, EmailLocks, Free
    <3>2. a # e /\ v # w /\ req[v].user \in Ids
      BY <1>2, <1>8, <3>1 DEF Inv, UsersOK, Forms, Form
    <3> QED
      BY <1>1, <1>3, <1>4, <3>1, <3>2 DEF UserOf
  <2>6. AccountLocks'
    BY <1>1, <1>2 DEF Inv, UsersOK, AccountLocks, At
  <2>7. RowsApart'
    BY <1>1, <1>3, <1>4, <1>6, <1>8 DEF Inv, UsersOK, RowsApart
  <2>8. AddressesApart'
    BY <1>4, <1>5 DEF Inv, UsersOK, AddressesApart
  <2>9. LinksLead'
    BY <1>2, <1>3, <1>4 DEF Inv, TypeOK, UsersOK, LinksLead
  <2> QED
    BY <2>1, <2>2, <2>3, <2>4, <2>5, <2>6, <2>7, <2>8, <2>9 DEF UsersOK
<1>10. UserOf(AdminEmail) # {} => UserOf(AdminEmail)' = UserOf(AdminEmail)
  BY <1>3, <1>4, <1>5 DEF UserOf
<1>11. SeedOK' /\ ClaimsCurrent' /\ ClaimsHeld'
  BY <1>10, Aside
<1> QED
  BY <1>7, <1>9, <1>11 DEF Inv

\* The first start inserts the administrator's row.
LEMMA BootstrapUserInv ==
    ASSUME Inv, NEW w \in Workers, BootstrapUser(w)
    PROVE  Inv'
<1> USE ConstantsAssumption
<1>1. CASE ~Free(AdminEmail)
  BY <1>1, LeaveInv DEF BootstrapUser
<1>2. CASE Free(AdminEmail)
  <2> DEFINE r == [req[w] EXCEPT !.step = "permission", !.user = NewId]
  <2>1. req[w] \in Request /\ req[w].step = "admin" /\ Form(req[w]) /\ NewId \in Ids
        /\ Unused # {} /\ emailLock[AdminEmail] = None
    BY <1>2, NewIdUnused DEF BootstrapUser, At, Inv, TypeOK, UsersOK, Forms
  <2>2. req[w].kind = "bootstrap" /\ req[w].claims = {} /\ req[w].made = {} /\ req[w].found = {}
        /\ (req[w].lost => Touched)
    BY <2>1 DEF Form, Inv, SeedOK, FoundThere
  <2>3. /\ r \in Request /\ r.step = "permission" /\ r.user = NewId /\ r.kind = "bootstrap"
        /\ r.claims = {} /\ r.made = {} /\ r.found = {} /\ r.lost = req[w].lost
    BY <2>1, <2>2 DEF Request
  <2>4. req' = [req EXCEPT ![w] = r] /\ users' = [users EXCEPT ![NewId] = AdminEmail]
        /\ UNCHANGED <<tenant, account, emailLock, accountLock, roleVars, admins, traces>>
    BY <1>2, <2>1 DEF BootstrapUser, Inv, TypeOK
  <2> HIDE DEF r
  <2>5. Form(r) /\ Past(r) /\ Past(req[w])
    BY <2>1, <2>2, <2>3 DEF Form, Past, CreationSteps, SeedSteps
  <2> QED
    BY <1>2, <2>1, <2>2, <2>3, <2>4, <2>5, AddUser
<1> QED
  BY <1>1, <1>2

\* A registration commits its row.
LEMMA RegisterCommitInv ==
    ASSUME Inv, NEW w \in Workers, RegisterCommit(w)
    PROVE  Inv'
<1> USE ConstantsAssumption
<1>1. CASE ~Free(req[w].email)
  BY <1>1, LeaveInv DEF RegisterCommit
<1>2. CASE Free(req[w].email)
  <2>1. req[w].step = "registering" /\ req[w] \in Request /\ Form(req[w])
    BY DEF RegisterCommit, At, Inv, TypeOK, UsersOK, Forms
  <2>2. req[w].email \in Emails /\ ~Past(req[w])
    BY <2>1 DEF Request, Form, Past, CreationSteps
  <2>3. Idle \in Request /\ Form(Idle) /\ ~Past(Idle) /\ Idle.step = "idle"
        /\ Idle.found = {} /\ Idle.lost = FALSE /\ Idle.claims = {}
    BY DEF Idle, Request, Form, CreationSteps, SeedSteps, Past
  <2>4. emailLock' = emailLock /\ accountLock' = accountLock
    BY <1>2, <2>1, LocksOf DEF RegisterCommit, Finish, Inv, TypeOK
  <2>5. req' = [req EXCEPT ![w] = Idle] /\ users' = [users EXCEPT ![NewId] = req[w].email]
        /\ UNCHANGED <<tenant, account, roleVars, admins, traces>> /\ Unused # {} /\ emailLock[req[w].email] = None
    BY <1>2 DEF RegisterCommit, Finish
  <2> HIDE DEF Idle
  <2> QED
    BY <1>2, <2>1, <2>2, <2>3, <2>4, <2>5, AddUser
<1> QED
  BY <1>1, <1>2

\* A callback inserts a user, which is not committed yet.
LEMMA CallbackCreateInv ==
    ASSUME Inv, NEW w \in Workers, CallbackCreate(w)
    PROVE  Inv'
<1> USE ConstantsAssumption
<1>1. CASE ~Free(req[w].email)
  BY <1>1, LeaveInv DEF CallbackCreate
<1>2. CASE Free(req[w].email)
  <2> DEFINE n == NewId
             e == req[w].email
             r == [req[w] EXCEPT !.step = "connecting", !.user = n]
  <2>1. req[w].step = "creating" /\ req[w] \in Request /\ Form(req[w]) /\ Unused # {} /\ emailLock[e] = None
    BY <1>2 DEF CallbackCreate, At, Inv, TypeOK, UsersOK, Forms
  <2>2. /\ e \in Emails /\ e # None /\ req[w].identity # None /\ req[w].user = None
        /\ req[w].kind \notin {"bootstrap", "create"}
        /\ req[w].claims = {} /\ req[w].made = {} /\ req[w].found = {} /\ (req[w].lost => Touched)
    BY <2>1 DEF Request, Form, CreationSteps, SeedSteps, Inv, SeedOK, FoundThere
  <2>3. n \in Ids /\ n # None /\ users[n] = None /\ \A v \in Workers : req[v].user # n
    <3>1. \A v \in Workers : At(v, "idle") => req[v].user = None
      BY DEF Inv, UsersOK, Forms, Form, At, SeedSteps
    <3> QED
      BY <2>1, <3>1, NewIdUnused
  <2>4. /\ req' = [req EXCEPT ![w] = r] /\ emailLock' = [emailLock EXCEPT ![e] = w]
        /\ UNCHANGED <<tenant, users, account, accountLock, roleVars, admins, traces>>
    BY <1>2, <2>1 DEF CallbackCreate, Inv, TypeOK
  <2> HIDE DEF n
  <2>5. /\ r \in Request /\ r.step = "connecting" /\ r.user = n /\ r.kind = req[w].kind /\ r.email = e
        /\ r.identity = req[w].identity
        /\ r.claims = {} /\ r.made = {} /\ r.found = {} /\ r.lost = req[w].lost
    BY <2>1, <2>2, <2>3 DEF Request
  <2> HIDE DEF r, e
  <2>6. Form(r) /\ ~Past(r) /\ ~Past(req[w])
    BY <2>2, <2>3, <2>5 DEF Form, Past, CreationSteps, SeedSteps
  <2>7. /\ req' \in [Workers -> Request] /\ req'[w] = r
        /\ \A v \in Workers : v # w => req'[v] = req[v]
    BY <2>4, <2>5 DEF Inv, TypeOK
  <2>8. /\ emailLock' \in [Emails -> Workers \cup {None}] /\ emailLock'[e] = w
        /\ \A a \in Emails : a # e => emailLock'[a] = emailLock[a] /\ emailLock[a] # w
    BY <2>1, <2>2, <2>4, LocksOf DEF Inv, TypeOK
  <2>9. TypeOK'
    BY <2>4, <2>7, <2>8 DEF Inv, TypeOK, roleVars, traces
  <2>10. UsersOK'
    <3>1. Forms'
      BY <2>6, <2>7 DEF Inv, UsersOK, Forms
    <3>2. UsersKnown'
      <4> SUFFICES ASSUME NEW v \in Workers, req'[v].user # None
                   PROVE  \/ users'[req'[v].user] # None
                          \/ req'[v].step \in {"connecting", "signing"} /\ emailLock'[req'[v].email] = v
        BY DEF UsersKnown
      <4>1. CASE v = w
        BY <2>5, <2>7, <2>8, <4>1
      <4>2. CASE v # w
        <5>1. req[v].step \in {"connecting", "signing"} => req[v].email \in Emails
          BY DEF Inv, TypeOK, Request, UsersOK, Forms, Form
        <5>2. req[v].email = e => emailLock[req[v].email] # v
          BY <2>1
        <5> QED
          BY <2>4, <2>7, <2>8, <4>2, <5>1, <5>2 DEF Inv, UsersOK, UsersKnown
      <4> QED
        BY <4>1, <4>2
    <3>3. AdminKnown' /\ LinkKnown'
      BY <2>4, <2>5, <2>7 DEF Inv, UsersOK, AdminKnown, LinkKnown, At, Is, SeedSteps
    <3>4. EmailLocks'
      <4> SUFFICES ASSUME NEW a \in Emails, NEW v \in Workers, emailLock'[a] = v
                   PROVE  /\ req'[v].step \in {"connecting", "signing"} /\ req'[v].email = a
                          /\ users'[req'[v].user] = None /\ UserOf(a)' = {}
        BY DEF EmailLocks, Free
      <4>1. CASE a = e
        BY <1>2, <2>3, <2>4, <2>5, <2>7, <2>8, <4>1 DEF Free, UserOf, e
      <4>2. CASE a # e
        BY <2>4, <2>7, <2>8, <4>2 DEF Inv, UsersOK, EmailLocks, Free, UserOf
      <4> QED
        BY <4>1, <4>2
    <3>5. AccountLocks'
      BY <2>1, <2>4, <2>7 DEF Inv, UsersOK, AccountLocks, At
    <3>6. RowsApart'
      BY <2>3, <2>4, <2>5, <2>7 DEF Inv, UsersOK, RowsApart
    <3>7. AddressesApart' /\ LinksLead'
      BY <2>4 DEF Inv, UsersOK, AddressesApart, LinksLead
    <3> QED
      BY <3>1, <3>2, <3>3, <3>4, <3>5, <3>6, <3>7 DEF UsersOK
  <2>11. UserOf(AdminEmail)' = UserOf(AdminEmail)
    BY <2>4 DEF UserOf
  <2>12. SeedOK' /\ ClaimsCurrent' /\ ClaimsHeld'
    BY <2>2, <2>4, <2>5, <2>6, <2>11, Aside
  <2> QED
    BY <2>9, <2>10, <2>12 DEF Inv
<1> QED
  BY <1>1, <1>2

\* A callback inserts the link, which is not committed yet.
LEMMA CallbackLinkInv ==
    ASSUME Inv, NEW w \in Workers, CallbackLink(w)
    PROVE  Inv'
<1> USE ConstantsAssumption
<1>1. CASE account[req[w].identity] # None
  BY <1>1, LeaveInv DEF CallbackLink
<1>2. CASE account[req[w].identity] = None
  <2> DEFINE d == req[w].identity
             r == [req[w] EXCEPT !.step = "signing"]
  <2>1. req[w].step = "connecting" /\ req[w] \in Request /\ Form(req[w]) /\ accountLock[d] = None
    BY <1>2 DEF CallbackLink, At, Inv, TypeOK, UsersOK, Forms
  <2>2. /\ req[w].email # None /\ d \in Identities /\ req[w].user # None
        /\ req[w].kind \notin {"bootstrap", "create"}
        /\ req[w].claims = {} /\ req[w].made = {} /\ req[w].found = {} /\ (req[w].lost => Touched)
    BY <2>1 DEF Request, Form, CreationSteps, SeedSteps, Inv, SeedOK, FoundThere
  <2>3. /\ req' = [req EXCEPT ![w] = r] /\ accountLock' = [accountLock EXCEPT ![d] = w]
        /\ UNCHANGED <<tenant, users, account, emailLock, roleVars, admins, traces>>
    BY <1>2, <2>1 DEF CallbackLink, Goto, Inv, TypeOK
  <2>4. /\ r \in Request /\ r.step = "signing" /\ r.user = req[w].user /\ r.kind = req[w].kind
        /\ r.email = req[w].email /\ r.identity = d
        /\ r.claims = {} /\ r.made = {} /\ r.found = {} /\ r.lost = req[w].lost
    BY <2>1, <2>2 DEF Request
  <2> HIDE DEF r, d
  <2>5. Form(r) /\ ~Past(r) /\ ~Past(req[w])
    BY <2>2, <2>4 DEF Form, Past, CreationSteps, SeedSteps, d
  <2>6. /\ req' \in [Workers -> Request] /\ req'[w] = r
        /\ \A v \in Workers : v # w => req'[v] = req[v]
    BY <2>3, <2>4 DEF Inv, TypeOK
  <2>7. /\ accountLock' \in [Identities -> Workers \cup {None}] /\ accountLock'[d] = w
        /\ \A b \in Identities : b # d => accountLock'[b] = accountLock[b] /\ accountLock[b] # w
    BY <2>1, <2>2, <2>3, LocksOf DEF Inv, TypeOK
  <2>8. TypeOK'
    BY <2>3, <2>6, <2>7 DEF Inv, TypeOK, roleVars, traces
  <2>9. UsersOK'
    <3>1. Forms'
      BY <2>5, <2>6 DEF Inv, UsersOK, Forms
    <3>2. UsersKnown' /\ AdminKnown'
      BY <2>1, <2>3, <2>4, <2>6 DEF Inv, UsersOK, UsersKnown, AdminKnown, Is, SeedSteps
    <3>3. LinkKnown'
      <4> SUFFICES ASSUME NEW v \in Workers, req'[v].step = "signing"
                   PROVE  account'[req'[v].identity] = req'[v].user \/ accountLock'[req'[v].identity] = v
        BY DEF LinkKnown, At
      <4>1. CASE v = w
        BY <2>4, <2>6, <2>7, <4>1
      <4>2. CASE v # w
        <5>1. req[v].step = "signing" => req[v].identity \in Identities
          BY DEF Inv, TypeOK, Request, UsersOK, Forms, Form
        <5>2. req[v].identity = d => accountLock[req[v].identity] # v
          BY <2>1
        <5> QED
          BY <2>3, <2>6, <2>7, <4>2, <5>1, <5>2 DEF Inv, UsersOK, LinkKnown, At
      <4> QED
        BY <4>1, <4>2
    <3>4. EmailLocks'
      BY <2>1, <2>3, <2>4, <2>6 DEF Inv, UsersOK, EmailLocks, Free, UserOf
    <3>5. AccountLocks'
      <4> SUFFICES ASSUME NEW b \in Identities, NEW v \in Workers, accountLock'[b] = v
                   PROVE  req'[v].step = "signing" /\ req'[v].identity = b /\ account'[b] = None
        BY DEF AccountLocks, At
      <4>1. CASE b = d
        BY <1>2, <2>3, <2>4, <2>6, <2>7, <4>1 DEF d
      <4>2. CASE b # d
        BY <2>3, <2>6, <2>7, <4>2 DEF Inv, UsersOK, AccountLocks, At
      <4> QED
        BY <4>1, <4>2
    <3>6. RowsApart'
      BY <2>3, <2>4, <2>6 DEF Inv, UsersOK, RowsApart
    <3>7. AddressesApart' /\ LinksLead'
      BY <2>3 DEF Inv, UsersOK, AddressesApart, LinksLead
    <3> QED
      BY <3>1, <3>2, <3>3, <3>4, <3>5, <3>6, <3>7 DEF UsersOK
  <2>10. UserOf(AdminEmail)' = UserOf(AdminEmail)
    BY <2>3 DEF UserOf
  <2>11. SeedOK' /\ ClaimsCurrent' /\ ClaimsHeld'
    BY <2>2, <2>3, <2>4, <2>5, <2>10, Aside
  <2> QED
    BY <2>8, <2>9, <2>11 DEF Inv
<1> QED
  BY <1>1, <1>2

\* What a callback that commits does to users and links: its own row and its
\* own link are there, whoever inserted them, and no others change.
LEMMA CallbackCommitted ==
    ASSUME Inv, NEW w \in Workers, CallbackCommit(w)
    PROVE  /\ req[w].user \in Ids /\ req[w].identity \in Identities /\ req[w].email \in Emails
           /\ users' \in [Ids -> Emails \cup {None}] /\ account' \in [Identities -> Ids \cup {None}]
           /\ users'[req[w].user] # None /\ account'[req[w].identity] = req[w].user
           /\ \A i \in Ids : i # req[w].user => users'[i] = users[i]
           /\ \A i \in Ids : users[i] # None => users'[i] = users[i]
           /\ \A b \in Identities : b # req[w].identity => account'[b] = account[b]
           /\ \A b \in Identities : account[b] # None => account'[b] = account[b]
           /\ \/ users' = users
              \/ /\ emailLock[req[w].email] = w /\ users[req[w].user] = None /\ Free(req[w].email)
                 /\ users'[req[w].user] = req[w].email
           /\ account' = account \/ accountLock[req[w].identity] = w
<1> USE ConstantsAssumption
<1> DEFINE e == req[w].email
           d == req[w].identity
           u == req[w].user
<1>1. req[w].step = "signing" /\ req[w] \in Request /\ Form(req[w])
  BY DEF CallbackCommit, At, Inv, TypeOK, UsersOK, Forms
<1>2. u \in Ids /\ u # None /\ d \in Identities /\ e \in Emails /\ e # None
  BY <1>1 DEF Form, Request
<1>3. /\ users' = IF emailLock[e] = w THEN [users EXCEPT ![u] = e] ELSE users
      /\ account' = IF accountLock[d] = w THEN [account EXCEPT ![d] = u] ELSE account
  BY DEF CallbackCommit
<1>4. /\ emailLock[e] = w => users[u] = None /\ Free(e)
      /\ emailLock[e] # w => users[u] # None
  BY <1>1, <1>2 DEF Inv, UsersOK, EmailLocks, UsersKnown
<1>5. /\ accountLock[d] = w => account[d] = None
      /\ accountLock[d] # w => account[d] = u
  BY <1>1, <1>2 DEF Inv, UsersOK, AccountLocks, LinkKnown, At
<1>6. users \in [Ids -> Emails \cup {None}] /\ account \in [Identities -> Ids \cup {None}]
  BY DEF Inv, TypeOK
<1> HIDE DEF e, d, u
<1>7. /\ users' \in [Ids -> Emails \cup {None}] /\ users'[u] # None
      /\ \A i \in Ids : i # u => users'[i] = users[i]
      /\ \A i \in Ids : users[i] # None => users'[i] = users[i]
      /\ users' = users \/ (emailLock[e] = w /\ users[u] = None /\ Free(e) /\ users'[u] = e)
  BY <1>2, <1>3, <1>4, <1>6
<1>8. /\ account' \in [Identities -> Ids \cup {None}] /\ account'[d] = u
      /\ \A b \in Identities : b # d => account'[b] = account[b]
      /\ \A b \in Identities : account[b] # None => account'[b] = account[b]
      /\ account' = account \/ accountLock[d] = w
  BY <1>2, <1>3, <1>5, <1>6
<1> QED
  BY <1>2, <1>7, <1>8 DEF e, d, u

\* A callback commits its row and its link.
LEMMA CallbackCommitInv ==
    ASSUME Inv, NEW w \in Workers, CallbackCommit(w)
    PROVE  Inv'
<1> USE ConstantsAssumption
<1> DEFINE e == req[w].email
           d == req[w].identity
           u == req[w].user
<1>1. /\ u \in Ids /\ d \in Identities /\ e \in Emails
      /\ users' \in [Ids -> Emails \cup {None}] /\ account' \in [Identities -> Ids \cup {None}]
      /\ users'[u] # None /\ account'[d] = u
      /\ \A i \in Ids : i # u => users'[i] = users[i]
      /\ \A i \in Ids : users[i] # None => users'[i] = users[i]
      /\ \A b \in Identities : b # d => account'[b] = account[b]
      /\ \A b \in Identities : account[b] # None => account'[b] = account[b]
      /\ users' = users \/ (emailLock[e] = w /\ users[u] = None /\ Free(e) /\ users'[u] = e)
      /\ account' = account \/ accountLock[d] = w
  BY CallbackCommitted, Zenon
<1>2. req[w].step = "signing" /\ ~Past(req[w]) /\ u # None
  BY DEF CallbackCommit, At, Inv, UsersOK, Forms, Form, Past, CreationSteps
<1>3. Idle \in Request /\ Form(Idle) /\ ~Past(Idle) /\ Idle.step = "idle" /\ Idle.user = None
      /\ Idle.found = {} /\ Idle.lost = FALSE /\ Idle.current = FALSE /\ Idle.claims = {}
  BY DEF Idle, Request, Form, CreationSteps, SeedSteps, Past
<1>4. /\ req' = [req EXCEPT ![w] = Idle] /\ req' \in [Workers -> Request] /\ req'[w] = Idle
      /\ \A v \in Workers : v # w => req'[v] = req[v]
  BY <1>3 DEF Inv, TypeOK, CallbackCommit, Finish
<1>5. /\ emailLock' \in [Emails -> Workers \cup {None}] /\ accountLock' \in [Identities -> Workers \cup {None}]
      /\ \A a \in Emails : emailLock'[a] # w /\ \A v \in Workers : v # w => (emailLock'[a] = v <=> emailLock[a] = v)
      /\ \A b \in Identities : accountLock'[b] # w /\ \A v \in Workers : v # w => (accountLock'[b] = v <=> accountLock[b] = v)
  BY DEF Inv, TypeOK, CallbackCommit, Finish
<1>6. UNCHANGED <<tenant, roleVars, admins, traces>>
  BY DEF CallbackCommit
<1> HIDE DEF e, d, u, Idle
<1>7. TypeOK'
  BY <1>1, <1>4, <1>5, <1>6 DEF Inv, TypeOK, roleVars, traces
<1>8. \A v \in Workers : /\ req[v].user \in Ids \cup {None}
                         /\ v # w /\ req[v].user = u => users' = users
  BY <1>1, <1>2 DEF Inv, TypeOK, Request, UsersOK, RowsApart, u
<1>9. \A v \in Workers : req[v].step \in {"connecting", "signing"} =>
          req[v].email \in Emails /\ req[v].identity \in Identities /\ req[v].user \in Ids
  BY DEF Inv, TypeOK, Request, UsersOK, Forms, Form
<1>10. UsersOK'
  <2>1. Forms'
    BY <1>3, <1>4 DEF Inv, UsersOK, Forms
  <2>2. UsersKnown'
    BY <1>1, <1>3, <1>4, <1>5, <1>8, <1>9 DEF Inv, UsersOK, UsersKnown
  <2>3. AdminKnown'
    <3> SUFFICES ASSUME NEW v \in Workers, req'[v].step \in SeedSteps, req'[v].kind = "bootstrap"
                 PROVE  users'[req'[v].user] = AdminEmail
      BY DEF AdminKnown, Is
    <3>1. v # w /\ req'[v] = req[v]
      BY <1>3, <1>4 DEF SeedSteps
    <3>2. users[req[v].user] = AdminEmail /\ req[v].user # None
      BY <3>1 DEF Inv, UsersOK, AdminKnown, Forms, Form, Is
    <3> QED
      BY <1>1, <1>8, <3>1, <3>2
  <2>4. LinkKnown'
    <3> SUFFICES ASSUME NEW v \in Workers, req'[v].step = "signing"
                 PROVE  account'[req'[v].identity] = req'[v].user \/ accountLock'[req'[v].identity] = v
      BY DEF LinkKnown, At
    <3>1. v # w /\ req'[v] = req[v]
      BY <1>3, <1>4
    <3>2. \/ account[req[v].identity] = req[v].user
          \/ accountLock[req[v].identity] = v
      BY <3>1 DEF Inv, UsersOK, LinkKnown, At
    <3>3. req[v].identity \in Identities /\ req[v].user # None
      BY <1>9, <3>1
    <3> QED
      BY <1>1, <1>5, <3>1, <3>2, <3>3
  <2>5. EmailLocks'
    <3> SUFFICES ASSUME NEW a \in Emails, NEW v \in Workers, emailLock'[a] = v
                 PROVE  /\ req'[v].step \in {"connecting", "signing"} /\ req'[v].email = a
                        /\ users'[req'[v].user] = None /\ UserOf(a)' = {}
      BY DEF EmailLocks, Free
    <3>1. v # w /\ req'[v] = req[v] /\ emailLock[a] = v
      BY <1>4, <1>5
    <3>2. /\ req[v].step \in {"connecting", "signing"} /\ req[v].email = a
          /\ users[req[v].user] = None /\ UserOf(a) = {}
      BY <3>1 DEF Inv, UsersOK, EmailLocks, Free
    <3>3. CASE users' = users
      BY <3>1, <3>2, <3>3 DEF UserOf
    <3>4. CASE users' # users
      <4>1. a # e /\ req[v].user # u /\ users'[u] = e /\ req[v].user \in Ids
        BY <1>1, <1>8, <1>9, <3>1, <3>2, <3>4
      <4> QED
        BY <1>1, <3>1, <3>2, <4>1 DEF UserOf
    <3> QED
      BY <3>3, <3>4
  <2>6. AccountLocks'
    <3> SUFFICES ASSUME NEW b \in Identities, NEW v \in Workers, accountLock'[b] = v
                 PROVE  req'[v].step = "signing" /\ req'[v].identity = b /\ account'[b] = None
      BY DEF AccountLocks, At
    <3>1. v # w /\ req'[v] = req[v] /\ accountLock[b] = v
      BY <1>4, <1>5
    <3>2. req[v].step = "signing" /\ req[v].identity = b /\ account[b] = None
      BY <3>1 DEF Inv, UsersOK, AccountLocks, At
    <3> QED
      BY <1>1, <3>1, <3>2
  <2>7. RowsApart'
    BY <1>1, <1>3, <1>4, <1>8 DEF Inv, UsersOK, RowsApart
  <2>8. AddressesApart'
    <3>1. CASE users' = users
      BY <3>1 DEF Inv, UsersOK, AddressesApart
    <3>2. CASE users' # users
      <4>1. \A i \in Ids : users[i] # e
        BY <1>1, <3>2 DEF Free, UserOf
      <4> QED
        BY <1>1, <3>2, <4>1 DEF Inv, UsersOK, AddressesApart
    <3> QED
      BY <3>1, <3>2
  <2>9. LinksLead'
    BY <1>1 DEF Inv, TypeOK, UsersOK, LinksLead
  <2> QED
    BY <2>1, <2>2, <2>3, <2>4, <2>5, <2>6, <2>7, <2>8, <2>9 DEF UsersOK
<1>11. UserOf(AdminEmail) # {} => UserOf(AdminEmail)' = UserOf(AdminEmail)
  <2>1. CASE users' = users
    BY <2>1 DEF UserOf
  <2>2. CASE users' # users
    BY <1>1, <2>2 DEF Free, UserOf
  <2> QED
    BY <2>1, <2>2
<1>12. SeedOK' /\ ClaimsCurrent' /\ ClaimsHeld'
  BY <1>2, <1>3, <1>4, <1>6, <1>11, Aside
<1> QED
  BY <1>7, <1>10, <1>12 DEF Inv

-----------------------------------------------------------------------------
(* Directory: steps that change roles and permissions *)

\* Nothing of a request has changed but what it is told: that it has been
\* overtaken, that it has lost what it found.
Marked(v) ==
    /\ req'[v].step = req[v].step /\ req'[v].kind = req[v].kind /\ req'[v].user = req[v].user
    /\ req'[v].email = req[v].email /\ req'[v].identity = req[v].identity
    /\ req'[v].made = req[v].made /\ req'[v].found = req[v].found /\ req'[v].claims = req[v].claims
    /\ req[v].step = "idle" => req'[v] = req[v]

\* A request that is marked keeps its form.
LEMMA MarkedForm ==
    ASSUME Inv, NEW v \in Workers, Marked(v)
    PROVE  Form(req'[v]) /\ (Past(req'[v]) <=> Past(req[v]))
<1>1. Form(req[v])
  BY DEF Inv, UsersOK, Forms
<1> QED
  BY <1>1 DEF Form, Past, Marked

\* A change of a request's current and lost is a mark.
LEMMA MarkRequest ==
    ASSUME Inv, NEW v \in Workers, NEW c \in BOOLEAN, NEW l \in BOOLEAN,
           req[v].step = "idle" => c = FALSE /\ l = FALSE,
           req'[v] = [req[v] EXCEPT !.current = c, !.lost = l]
    PROVE  Marked(v) /\ req'[v] \in Request /\ req'[v].current = c /\ req'[v].lost = l
<1>1. req[v] \in Request /\ Form(req[v])
  BY DEF Inv, TypeOK, UsersOK, Forms
<1>2. req'[v] \in Request
  BY <1>1 DEF Request
<1>3. /\ req'[v].step = req[v].step /\ req'[v].kind = req[v].kind /\ req'[v].user = req[v].user
      /\ req'[v].email = req[v].email /\ req'[v].identity = req[v].identity
      /\ req'[v].made = req[v].made /\ req'[v].found = req[v].found /\ req'[v].claims = req[v].claims
      /\ req'[v].current = c /\ req'[v].lost = l
  BY <1>1 DEF Request
<1>4. req[v].step = "idle" => req'[v] = req[v]
  <2> SUFFICES ASSUME req[v].step = "idle" PROVE [req[v] EXCEPT !.current = FALSE, !.lost = FALSE] = req[v]
    OBVIOUS
  <2>1. req[v].current = FALSE /\ req[v].lost = FALSE
    BY <1>1 DEF Form, Idle
  <2> QED
    BY <1>1, <2>1 DEF Request
<1> QED
  BY <1>2, <1>3, <1>4 DEF Marked

\* As far as users and links go, marks do not matter, nor do a seed's last steps.
LEMMA MarkedUsers ==
    ASSUME Inv, req' \in [Workers -> Request], UNCHANGED userVars,
           \A v \in Workers :
              \/ Marked(v)
              \/ /\ Form(req'[v]) /\ req[v].step \notin {"connecting", "signing"}
                 /\ req'[v].step \notin {"connecting", "signing"}
                 /\ req'[v].user # None => req'[v].user = req[v].user
                 /\ req'[v].step \in SeedSteps /\ req'[v].kind = "bootstrap"
                       => req[v].step \in SeedSteps /\ req[v].kind = "bootstrap" /\ req'[v].user = req[v].user
    PROVE  UsersOK'
<1>1. UNCHANGED <<users, account, emailLock, accountLock>>
  BY DEF userVars
<1>2. Forms'
  BY MarkedForm DEF Forms
<1>3. UsersKnown'
  BY <1>1 DEF Inv, UsersOK, UsersKnown, Marked
<1>4. AdminKnown' /\ LinkKnown'
  BY <1>1 DEF Inv, UsersOK, AdminKnown, LinkKnown, At, Is, Marked
<1>5. EmailLocks' /\ AccountLocks'
  BY <1>1 DEF Inv, UsersOK, EmailLocks, AccountLocks, At, Free, UserOf, Marked
<1>6. RowsApart'
  BY <1>1 DEF Inv, UsersOK, RowsApart, Marked
<1>7. AddressesApart' /\ LinksLead'
  BY <1>1 DEF Inv, UsersOK, AddressesApart, LinksLead
<1> QED
  BY <1>2, <1>3, <1>4, <1>5, <1>6, <1>7 DEF UsersOK

\* What an administrator changes: a role or a permission that goes is told to
\* the seeds that have found it, and those who lose SuperAdmin are written down.
LEMMA ChangedInv ==
    ASSUME Inv, NEW gone \in SUBSET {"role", "permission"}, NEW who, Changed(gone), Demoted(who),
           role' \in Names \cup {None}, permission' \in Names \cup {None},
           linked' \in BOOLEAN, linked' => role' # None /\ permission' # None,
           held' \subseteq Ids, held' # {} => role' # None,
           scoped' \in BOOLEAN, scoped' => role' # None,
           role' = None => role = None \/ "role" \in gone,
           permission' = None => permission = None \/ "permission" \in gone,
           who \subseteq held,
           \A u \in held : role = SuperAdmin => (u \in held' /\ role' = SuperAdmin) \/ u \in who
    PROVE  Inv'
<1> USE ConstantsAssumption
<1>1. /\ UNCHANGED <<tenant, users, account, emailLock, accountLock, admins, creation>>
      /\ outdated' = outdated \cup {u \in who : role = SuperAdmin /\ Claiming(u)}
  <2>1. UNCHANGED <<tenant, userVars, admins, creation>>
    BY Zenon DEF Changed
  <2>2. outdated' = outdated \cup {u \in who : role = SuperAdmin /\ Claiming(u)}
    BY Zenon DEF Demoted
  <2> QED
    BY <2>1, <2>2 DEF userVars
<1>2. changes \in Nat /\ changes' \in 0 .. MaxChanges /\ changes' > 0
  <2>1. changes < MaxChanges /\ changes' = changes + 1
    BY Zenon DEF Changed
  <2> QED
    BY <2>1 DEF Inv, TypeOK
<1>3. ASSUME NEW v \in Workers
      PROVE  /\ Marked(v) /\ req'[v] \in Request /\ req'[v].current = FALSE
             /\ req'[v].lost = (req[v].lost \/ gone \cap req[v].found # {})
  <2> DEFINE l == req[v].lost \/ gone \cap req[v].found # {}
  <2>1. l \in BOOLEAN
    OBVIOUS
  <2>2. req[v].step = "idle" => l = FALSE
    BY DEF Inv, UsersOK, Forms, Form, Idle
  <2>3. req'[v] = [req[v] EXCEPT !.current = FALSE, !.lost = l]
    BY Zenon DEF Changed
  <2> HIDE DEF l
  <2>4. Marked(v) /\ req'[v] \in Request /\ req'[v].current = FALSE /\ req'[v].lost = l
    BY <2>1, <2>2, <2>3, MarkRequest, Zenon
  <2> QED
    BY <2>4 DEF l
<1>4. req' \in [Workers -> Request]
  <2>1. req' = [w \in Workers |-> req'[w]]
    BY Zenon DEF Changed
  <2> QED
    BY <1>3, <2>1
<1>5. TypeOK'
  <2>1. outdated' \subseteq Ids
    BY <1>1 DEF Inv, TypeOK
  <2>2. /\ tenant' \in BOOLEAN /\ users' \in [Ids -> Emails \cup {None}]
        /\ account' \in [Identities -> Ids \cup {None}] /\ admins' \subseteq Ids
        /\ emailLock' \in [Emails -> Workers \cup {None}]
        /\ accountLock' \in [Identities -> Workers \cup {None}]
        /\ creation' \in {"bootstrap", "create", "aborted", None}
    BY <1>1 DEF Inv, TypeOK
  <2> QED
    BY <1>2, <1>4, <2>1, <2>2 DEF TypeOK
<1>6. UsersOK'
  BY <1>1, <1>3, <1>4, MarkedUsers DEF userVars
<1>7. SeedOK'
  <2>1. OnePast'
    <3>1. \A v \in Workers : (Past(req'[v]) <=> Past(req[v])) /\ req'[v].kind = req[v].kind
      BY <1>3, MarkedForm DEF Marked
    <3> QED
      BY <1>1, <3>1 DEF Inv, SeedOK, OnePast
  <2>2. FoundThere'
    <3> SUFFICES ASSUME NEW v \in Workers, ~req'[v].lost
                 PROVE  /\ "role" \in req'[v].found => role' # None
                        /\ "permission" \in req'[v].found => permission' # None
      BY <1>2 DEF FoundThere, Touched
    <3>1. ~req[v].lost /\ gone \cap req[v].found = {} /\ req'[v].found = req[v].found
      BY <1>3 DEF Marked
    <3>2. /\ "role" \in req[v].found => role # None /\ "role" \notin gone
          /\ "permission" \in req[v].found => permission # None /\ "permission" \notin gone
      BY <3>1 DEF Inv, SeedOK, FoundThere
    <3> QED
      BY <3>1, <3>2
  <2>3. SeedAtomic' /\ TenantsSeeded'
    BY <1>2 DEF SeedAtomic, TenantsSeeded, Touched
  <2> QED
    BY <2>1, <2>2, <2>3 DEF SeedOK
<1>8. ClaimsCurrent'
  BY <1>3 DEF ClaimsCurrent
<1>9. ClaimsHeld'
  <2> SUFFICES ASSUME NEW u \in Ids, Claiming(u)'
               PROVE  (u \in held' /\ role' = SuperAdmin) \/ u \in outdated'
    BY DEF ClaimsHeld
  <2>1. Claiming(u)
    BY <1>1, <1>3 DEF Claiming, Marked
  <2>2. (u \in held /\ role = SuperAdmin) \/ u \in outdated
    BY <2>1 DEF Inv, ClaimsHeld
  <2> QED
    BY <1>1, <2>1, <2>2
<1> QED
  BY <1>5, <1>6, <1>7, <1>8, <1>9 DEF Inv

\* Every change that an administrator makes keeps the invariant.
LEMMA AdministrationInv ==
    ASSUME Inv,
           \/ \E u \in Ids : AssignRole(u) \/ RevokeRole(u)
           \/ \E name \in Names : \/ CreateRole(name) \/ RenameRole(name)
                                  \/ CreatePermission(name) \/ RenamePermission(name)
           \/ DeleteRole \/ DeletePermission \/ GrantPermission \/ RevokePermission
           \/ \E to \in BOOLEAN : ScopeRole(to)
    PROVE  Inv'
<1> USE ConstantsAssumption
<1>1. /\ role \in Names \cup {None} /\ permission \in Names \cup {None}
      /\ linked \in BOOLEAN /\ (linked => role # None /\ permission # None)
      /\ held \subseteq Ids /\ (held # {} => role # None)
      /\ scoped \in BOOLEAN /\ (scoped => role # None)
  BY DEF Inv, TypeOK
<1>2. ASSUME NEW u \in Ids, AssignRole(u)
      PROVE  Inv'
  BY <1>1, <1>2, ChangedInv DEF AssignRole
<1>3. ASSUME NEW u \in Ids, RevokeRole(u)
      PROVE  Inv'
  BY <1>1, <1>3, ChangedInv DEF RevokeRole
<1>4. ASSUME NEW name \in Names, CreateRole(name)
      PROVE  Inv'
  BY <1>1, <1>4, ChangedInv DEF CreateRole
<1>5. ASSUME NEW name \in Names, RenameRole(name)
      PROVE  Inv'
  BY <1>1, <1>5, ChangedInv DEF RenameRole
<1>6. ASSUME NEW name \in Names, CreatePermission(name)
      PROVE  Inv'
  BY <1>1, <1>6, ChangedInv DEF CreatePermission
<1>7. ASSUME NEW name \in Names, RenamePermission(name)
      PROVE  Inv'
  BY <1>1, <1>7, ChangedInv DEF RenamePermission
<1>8. CASE DeleteRole
  BY <1>1, <1>8, ChangedInv DEF DeleteRole
<1>9. CASE DeletePermission
  BY <1>1, <1>9, ChangedInv DEF DeletePermission
<1>10. CASE GrantPermission
  BY <1>1, <1>10, ChangedInv DEF GrantPermission
<1>11. CASE RevokePermission
  BY <1>1, <1>11, ChangedInv DEF RevokePermission
<1>12. ASSUME NEW to \in BOOLEAN, ScopeRole(to)
       PROVE  Inv'
  BY <1>1, <1>12, ChangedInv DEF ScopeRole
<1> QED
  BY <1>2, <1>3, <1>4, <1>5, <1>6, <1>7, <1>8, <1>9, <1>10, <1>11, <1>12

-----------------------------------------------------------------------------
(* Directory: the creation's steps on the tenant and its seed *)

\* The tenant's row is inserted by a request that is alone from then on.
LEMMA InsertTenantInv ==
    ASSUME Inv, NEW w \in Workers, InsertTenant(w)
    PROVE  Inv'
<1> USE ConstantsAssumption
<1>1. CASE tenant
  BY <1>1, LeaveInv DEF InsertTenant
<1>2. CASE ~tenant
  <2> DEFINE r == [req[w] EXCEPT !.step = IF Is(w, "bootstrap") THEN "admin" ELSE "permission"]
  <2>1. req[w].step = "inserting" /\ req[w] \in Request /\ Form(req[w])
    BY DEF InsertTenant, At, Inv, TypeOK, UsersOK, Forms
  <2>2. /\ req[w].kind \in {"bootstrap", "create"} /\ req[w].user = None /\ req[w].claims = {}
        /\ req[w].made = {} /\ req[w].found = {} /\ (req[w].lost => Touched)
    BY <2>1 DEF Form, CreationSteps, SeedSteps, Inv, SeedOK, FoundThere
  <2>3. /\ req' = [req EXCEPT ![w] = r] /\ creation' = req[w].kind
        /\ UNCHANGED <<users, account, emailLock, accountLock, role, permission, linked, held, scoped,
                       admins, changes, outdated>>
    BY <1>2, <2>1 DEF InsertTenant, Goto, Inv, TypeOK, userVars, roleVars
  <2>4. tenant' = TRUE
    BY <1>2 DEF InsertTenant
  <2>5. /\ r \in Request /\ r.step \in {"admin", "permission"} /\ (r.step = "permission" => req[w].kind = "create")
        /\ (r.step = "admin" => req[w].kind = "bootstrap")
        /\ r.kind = req[w].kind /\ r.user = None /\ r.claims = {} /\ r.made = {} /\ r.found = {}
        /\ r.lost = req[w].lost
    BY <2>1, <2>2 DEF Request, Is
  <2> HIDE DEF r
  <2>6. Form(r) /\ Past(r) /\ ~Past(req[w])
    BY <2>1, <2>2, <2>5 DEF Form, Past, CreationSteps, SeedSteps
  <2>7. /\ req' \in [Workers -> Request] /\ req'[w] = r
        /\ \A v \in Workers : v # w => req'[v] = req[v]
    BY <2>3, <2>5 DEF Inv, TypeOK
  <2>8. \A v \in Workers : ~Past(req[v])
    BY <1>2 DEF Inv, SeedOK, OnePast
  <2>9. TypeOK'
    <3>1. creation' \in {"bootstrap", "create", "aborted", None}
      BY <2>2, <2>3
    <3> QED
      BY <2>3, <2>4, <2>7, <3>1 DEF Inv, TypeOK
  <2>10. UsersOK'
    <3>1. \A v \in Workers :
              \/ Marked(v)
              \/ /\ Form(req'[v]) /\ req[v].step \notin {"connecting", "signing"}
                 /\ req'[v].step \notin {"connecting", "signing"}
                 /\ req'[v].user = None /\ ~(req'[v].step \in SeedSteps /\ req'[v].kind = "bootstrap")
      BY <2>1, <2>5, <2>6, <2>7 DEF Marked, SeedSteps
    <3> QED
      BY <2>3, <2>7, <3>1, MarkedUsers DEF userVars
  <2>11. SeedOK'
    <3>1. OnePast'
      BY <2>3, <2>4, <2>5, <2>7, <2>8 DEF OnePast
    <3>2. FoundThere'
      BY <2>2, <2>3, <2>5, <2>7 DEF Inv, SeedOK, FoundThere, Touched, Seeded, At
    <3>3. SeedAtomic'
      BY <2>3 DEF Inv, SeedOK, SeedAtomic, Touched, Seeded
    <3>4. Underway'
      BY <2>6, <2>7 DEF Underway, Past, Creating, Is, At
    <3> QED
      BY <3>1, <3>2, <3>3, <3>4 DEF SeedOK, TenantsSeeded
  <2>12. ClaimsCurrent'
    BY <2>3, <2>5, <2>7, ClaimsKept DEF Inv
  <2>13. ClaimsHeld'
    BY <2>3, <2>5, <2>7 DEF Inv, ClaimsHeld, Claiming
  <2> QED
    BY <2>9, <2>10, <2>11, <2>12, <2>13 DEF Inv
<1> QED
  BY <1>1, <1>2

\* A request that has been overtaken is a request.
LEMMA OvertakenRequest == \A q \in Request : [q EXCEPT !.current = FALSE] \in Request
BY DEF Request

\* Logins that are overtaken are only marked.
LEMMA OvertakenMarks ==
    ASSUME Inv, NEW w \in Workers, NEW r \in Request, req' = [Overtaken EXCEPT ![w] = r]
    PROVE  /\ req' \in [Workers -> Request] /\ req'[w] = r
           /\ \A v \in Workers : v # w => /\ Marked(v) /\ req'[v].current = FALSE
                                          /\ req'[v].lost = req[v].lost
<1>1. ASSUME NEW v \in Workers, v # w
      PROVE  /\ Marked(v) /\ req'[v].current = FALSE /\ req'[v].lost = req[v].lost /\ req'[v] \in Request
  <2>1. req[v] \in Request /\ Form(req[v])
    BY DEF Inv, TypeOK, UsersOK, Forms
  <2>2. req'[v] = [req[v] EXCEPT !.current = FALSE]
    BY <1>1 DEF Overtaken
  <2>3. req'[v] \in Request
    BY <2>1, <2>2, OvertakenRequest
  <2>4. /\ req'[v].step = req[v].step /\ req'[v].kind = req[v].kind /\ req'[v].user = req[v].user
        /\ req'[v].email = req[v].email /\ req'[v].identity = req[v].identity
        /\ req'[v].made = req[v].made /\ req'[v].found = req[v].found /\ req'[v].claims = req[v].claims
        /\ req'[v].current = FALSE /\ req'[v].lost = req[v].lost
    BY <2>1, <2>2 DEF Request
  <2>5. req[v].step = "idle" => req'[v] = req[v]
    <3> SUFFICES ASSUME req[v].step = "idle" PROVE [req[v] EXCEPT !.current = FALSE] = req[v]
      BY <2>2
    <3>1. req[v].current = FALSE
      BY <2>1 DEF Form, Idle
    <3> QED
      BY <2>1, <3>1 DEF Request
  <2> QED
    BY <2>3, <2>4, <2>5 DEF Marked
<1>2. req'[w] = r
  BY DEF Overtaken
<1>3. req' = [v \in Workers |-> req'[v]]
  BY DEF Overtaken
<1> QED
  BY <1>1, <1>2, <1>3

\* Where there is one creation the others have found nothing.
LEMMA OthersFindNothing ==
    ASSUME Inv, NEW w \in Workers, Past(req[w]), NEW v \in Workers, v # w
    PROVE  ~Past(req[v]) /\ req[v].found = {} /\ req[v].step # "assigning"
BY DEF Inv, SeedOK, OnePast, UsersOK, Forms, Form, CreationSteps, Past

\* The seed is committed, or lost without a trace.
LEMMA SeedCommitInv ==
    ASSUME Inv, NEW w \in Workers, SeedCommit(w)
    PROVE  Inv'
<1> USE ConstantsAssumption
<1> DEFINE r == AfterSeed(w)
<1>1. /\ req[w].step = "linking" /\ req[w] \in Request /\ Form(req[w])
      /\ req' = [Overtaken EXCEPT ![w] = r]
      /\ UNCHANGED <<tenant, userVars, held, scoped, admins, traces>>
  BY DEF SeedCommit, At, Inv, TypeOK, UsersOK, Forms
<1>2. /\ req[w].kind \in {"bootstrap", "create"} /\ req[w].claims = {} /\ Past(req[w])
      /\ req[w].made \cup req[w].found = {"permission", "role"}
      /\ (req[w].kind = "bootstrap" => req[w].user # None)
  BY <1>1 DEF Form, CreationSteps, SeedSteps, Past
<1>3. /\ r \in Request /\ r.found = {} /\ r.made = {} /\ r.claims = {}
      /\ \/ /\ r.step = "idle" /\ r.user = None /\ r.lost = FALSE /\ ~Past(r) /\ req[w].kind = "create" /\ Form(r)
         \/ /\ r.step = "assigning" /\ r.user = req[w].user /\ r.lost = req[w].lost /\ r.kind = req[w].kind
            /\ req[w].kind = "bootstrap"
  <2>1. CASE req[w].kind = "create"
    BY <2>1 DEF AfterSeed, Is, Idle, Request, Form, CreationSteps, SeedSteps, Past
  <2>2. CASE req[w].kind = "bootstrap"
    <3>1. r = [req[w] EXCEPT !.step = "assigning", !.made = {}, !.found = {}]
      BY <2>2 DEF AfterSeed, Is
    <3> HIDE DEF r
    <3> QED
      BY <1>1, <1>2, <2>2, <3>1 DEF Request
  <2> QED
    BY <1>2, <2>1, <2>2
<1> HIDE DEF r
<1>4. Form(r) /\ (Past(r) <=> r.step = "assigning")
  BY <1>2, <1>3 DEF Form, CreationSteps, SeedSteps, Past
<1>5. /\ req' \in [Workers -> Request] /\ req'[w] = r
      /\ \A v \in Workers : v # w => Marked(v) /\ req'[v].current = FALSE /\ req'[v].lost = req[v].lost
  BY <1>1, <1>3, OvertakenMarks
<1>6. \A v \in Workers : v # w => ~Past(req'[v]) /\ req'[v].found = {} /\ req'[v].step # "assigning"
  BY <1>2, <1>5, OthersFindNothing, MarkedForm DEF Marked
<1>7. UNCHANGED <<tenant, users, account, emailLock, accountLock, held, scoped, admins, creation, changes, outdated>>
  BY <1>1 DEF userVars, traces
<1>8. /\ role' \in Names \cup {None} /\ permission' \in Names \cup {None} /\ linked' \in BOOLEAN
      /\ (linked' => role' # None /\ permission' # None)
      /\ (role # None => role' # None) /\ (role = SuperAdmin => role' = SuperAdmin)
  <2>1. CASE req[w].lost
    <3>1. UNCHANGED <<role, permission, linked>>
      BY <2>1 DEF SeedCommit
    <3> QED
      BY <3>1 DEF Inv, TypeOK
  <2>2. CASE ~req[w].lost
    <3>1. /\ role' = IF "role" \in req[w].made THEN SuperAdmin ELSE role
          /\ permission' = IF "permission" \in req[w].made THEN SuperAdmin ELSE permission
      BY <2>2 DEF SeedCommit
    <3>2. linked' \in BOOLEAN
      BY <2>2 DEF SeedCommit
    <3>3. /\ "role" \in req[w].found => role # None
          /\ "permission" \in req[w].found => permission # None
      BY <2>2 DEF Inv, SeedOK, FoundThere
    <3>4. role' # None /\ permission' # None /\ (role = SuperAdmin => role' = SuperAdmin)
      BY <1>2, <3>1, <3>3 DEF Names
    <3>5. role' \in Names \cup {None} /\ permission' \in Names \cup {None}
      BY <3>1 DEF Inv, TypeOK, Names
    <3> QED
      BY <3>2, <3>4, <3>5
  <2> QED
    BY <2>1, <2>2
<1>9. ~Touched => Seeded'
  <2> SUFFICES ASSUME ~Touched PROVE Seeded'
    OBVIOUS
  <2>1. /\ ~req[w].lost /\ ("role" \in req[w].found => role = SuperAdmin)
        /\ ("permission" \in req[w].found => permission = SuperAdmin)
    BY DEF Inv, SeedOK, FoundThere
  <2>2. /\ role' = IF "role" \in req[w].made THEN SuperAdmin ELSE role
        /\ permission' = IF "permission" \in req[w].made THEN SuperAdmin ELSE permission
    BY <2>1 DEF SeedCommit
  <2>3. linked'
    BY <2>1 DEF SeedCommit
  <2>4. role' = SuperAdmin /\ permission' = SuperAdmin
    BY <1>2, <2>1, <2>2
  <2> QED
    BY <2>3, <2>4 DEF Seeded
<1>10. TypeOK'
  <2>1. /\ users' \in [Ids -> Emails \cup {None}] /\ account' \in [Identities -> Ids \cup {None}]
        /\ admins' \subseteq Ids /\ held' \subseteq Ids /\ outdated' \subseteq Ids /\ changes' \in 0 .. MaxChanges
        /\ emailLock' \in [Emails -> Workers \cup {None}] /\ accountLock' \in [Identities -> Workers \cup {None}]
        /\ creation' \in {"bootstrap", "create", "aborted", None}
    BY <1>7 DEF Inv, TypeOK
  <2>2. /\ tenant' \in BOOLEAN /\ scoped' \in BOOLEAN /\ (scoped' => role' # None)
        /\ (held' # {} => role' # None)
    BY <1>7, <1>8 DEF Inv, TypeOK
  <2> QED
    BY <1>5, <1>8, <2>1, <2>2 DEF TypeOK
<1>11. UsersOK'
  <2>1. \A v \in Workers :
            \/ Marked(v)
            \/ /\ Form(req'[v]) /\ req[v].step \notin {"connecting", "signing"}
               /\ req'[v].step \notin {"connecting", "signing"}
               /\ req'[v].user # None => req'[v].user = req[v].user
               /\ req'[v].step \in SeedSteps /\ req'[v].kind = "bootstrap"
                     => req[v].step \in SeedSteps /\ req[v].kind = "bootstrap" /\ req'[v].user = req[v].user
    BY <1>1, <1>3, <1>4, <1>5 DEF SeedSteps
  <2> QED
    BY <1>5, <1>7, <2>1, MarkedUsers DEF userVars
<1>12. SeedOK'
  <2>1. OnePast'
    <3>1. tenant' /\ creation' = req[w].kind
      BY <1>2, <1>7 DEF Inv, SeedOK, OnePast
    <3>2. \A v \in Workers : Past(req'[v]) => v = w /\ req'[v].kind = req[w].kind
      BY <1>3, <1>4, <1>5, <1>6
    <3> QED
      BY <3>1, <3>2 DEF OnePast
  <2>2. FoundThere'
    <3> SUFFICES ASSUME NEW v \in Workers
                 PROVE  /\ req'[v].lost => Touched
                        /\ req'[v].found = {}
                        /\ ~Touched /\ req'[v].step = "assigning" => Seeded'
      BY <1>7 DEF FoundThere, At, Touched
    <3>1. req'[v].lost => req[v].lost
      BY <1>3, <1>5
    <3> QED
      BY <1>3, <1>5, <1>6, <1>9, <3>1 DEF Inv, SeedOK, FoundThere
  <2>3. SeedAtomic'
    BY <1>7, <1>9 DEF SeedAtomic, Touched
  <2>4. TenantsSeeded'
    <3>1. ASSUME ~Underway'
          PROVE  creation' = "create"
      <4>1. ~Past(r)
        BY <1>5, <3>1 DEF Underway, Past, Creating, Is, At
      <4>2. creation = req[w].kind /\ req[w].kind = "create"
        BY <1>2, <1>3, <1>4, <4>1 DEF Inv, SeedOK, OnePast
      <4> QED
        BY <1>7, <4>2
    <3> QED
      BY <1>7, <1>9, <3>1 DEF TenantsSeeded, Touched
  <2> QED
    BY <2>1, <2>2, <2>3, <2>4 DEF SeedOK
<1>13. ClaimsCurrent'
  BY <1>3, <1>5 DEF ClaimsCurrent, At
<1>14. ClaimsHeld'
  <2> SUFFICES ASSUME NEW u \in Ids, Claiming(u)'
               PROVE  (u \in held' /\ role' = SuperAdmin) \/ u \in outdated'
    BY DEF ClaimsHeld
  <2>1. Claiming(u)
    BY <1>3, <1>5, <1>7 DEF Claiming, Marked
  <2> QED
    BY <1>7, <1>8, <2>1 DEF Inv, ClaimsHeld
<1> QED
  BY <1>10, <1>11, <1>12, <1>13, <1>14 DEF Inv

\* The administrator is given the role.
LEMMA AssignAdminInv ==
    ASSUME Inv, NEW w \in Workers, AssignAdmin(w)
    PROVE  Inv'
<1> USE ConstantsAssumption
<1>1. /\ req[w].step = "assigning" /\ req[w] \in Request /\ Form(req[w])
      /\ req' = [Overtaken EXCEPT ![w] = Idle]
      /\ UNCHANGED <<tenant, users, account, emailLock, accountLock, role, permission, linked, scoped, admins,
                     creation, changes, outdated>>
      /\ held' = IF role = SuperAdmin THEN held \cup {req[w].user} ELSE held
  BY DEF AssignAdmin, At, Inv, TypeOK, UsersOK, Forms, userVars, traces
<1>2. req[w].kind = "bootstrap" /\ Past(req[w]) /\ req[w].user \in Ids
  BY <1>1 DEF Form, CreationSteps, SeedSteps, Past, Request
<1>3. Idle \in Request /\ Form(Idle) /\ ~Past(Idle) /\ Idle.step = "idle" /\ Idle.user = None
      /\ Idle.found = {} /\ Idle.lost = FALSE /\ Idle.current = FALSE /\ Idle.claims = {}
  BY DEF Idle, Request, Form, CreationSteps, SeedSteps, Past
<1> HIDE DEF Idle
<1>4. /\ req' \in [Workers -> Request] /\ req'[w] = Idle
      /\ \A v \in Workers : v # w => Marked(v) /\ req'[v].current = FALSE /\ req'[v].lost = req[v].lost
  BY <1>1, <1>3, OvertakenMarks
<1>5. \A v \in Workers : ~Past(req'[v]) /\ req'[v].found = {} /\ req'[v].step # "assigning"
  <2>1. \A v \in Workers : v # w => ~Past(req'[v]) /\ req'[v].found = {} /\ req'[v].step # "assigning"
    BY <1>2, <1>4, OthersFindNothing, MarkedForm DEF Marked
  <2> QED
    BY <1>3, <1>4, <2>1
<1>6. TypeOK'
  <2>1. held' \subseteq Ids /\ (held' # {} => role' # None)
    BY <1>1, <1>2 DEF Inv, TypeOK, Names
  <2> QED
    BY <1>1, <1>4, <2>1 DEF Inv, TypeOK
<1>7. UsersOK'
  <2>1. \A v \in Workers :
            \/ Marked(v)
            \/ /\ Form(req'[v]) /\ req[v].step \notin {"connecting", "signing"}
               /\ req'[v].step \notin {"connecting", "signing"}
               /\ req'[v].user = None /\ req'[v].step \notin SeedSteps
    BY <1>1, <1>3, <1>4 DEF SeedSteps
  <2> QED
    BY <1>1, <1>4, <2>1, MarkedUsers DEF userVars
<1>8. SeedOK'
  <2>1. OnePast'
    BY <1>5 DEF OnePast
  <2>2. FoundThere'
    <3> SUFFICES ASSUME NEW v \in Workers
                 PROVE  (req'[v].lost => Touched) /\ req'[v].found = {} /\ req'[v].step # "assigning"
      BY <1>1 DEF FoundThere, At, Touched
    <3>1. req'[v].lost => req[v].lost
      BY <1>3, <1>4
    <3> QED
      BY <1>5, <3>1 DEF Inv, SeedOK, FoundThere
  <2>3. ~Touched => Seeded
    BY <1>1 DEF Inv, SeedOK, FoundThere, At
  <2>4. SeedAtomic'
    BY <1>1 DEF Inv, SeedOK, SeedAtomic, Touched, Seeded
  <2>5. ~Touched => UserOf(AdminEmail) # {} /\ UserOf(AdminEmail) \subseteq held'
    <3>1. users[req[w].user] = AdminEmail
      BY <1>1, <1>2 DEF Inv, UsersOK, AdminKnown, Is, SeedSteps
    <3>2. \A i \in Ids : users[i] = AdminEmail => i = req[w].user
      BY <1>2, <3>1 DEF Inv, UsersOK, AddressesApart
    <3> QED
      BY <1>1, <1>2, <2>3, <3>1, <3>2 DEF UserOf, Seeded
  <2>6. TenantsSeeded'
    BY <1>1, <2>3, <2>5 DEF TenantsSeeded, Touched, Seeded, UserOf
  <2> QED
    BY <2>1, <2>2, <2>4, <2>6 DEF SeedOK
<1>9. ClaimsCurrent'
  BY <1>3, <1>4 DEF ClaimsCurrent, At
<1>10. ClaimsHeld'
  <2> SUFFICES ASSUME NEW u \in Ids, Claiming(u)'
               PROVE  (u \in held' /\ role' = SuperAdmin) \/ u \in outdated'
    BY DEF ClaimsHeld
  <2>1. Claiming(u)
    BY <1>1, <1>3, <1>4 DEF Claiming, Marked
  <2> QED
    BY <1>1, <2>1 DEF Inv, ClaimsHeld
<1> QED
  BY <1>6, <1>7, <1>8, <1>9, <1>10 DEF Inv

-----------------------------------------------------------------------------
(* Directory: the other steps *)

\* The tokens of a user expire.
LEMMA TokensExpireInv ==
    ASSUME Inv, NEW u \in Ids, TokensExpire(u)
    PROVE  Inv'
<1>1. /\ admins' = admins \ {u}
      /\ outdated' = IF \E w \in Workers : req[w].user = u /\ SuperAdmin \in req[w].claims
                       THEN outdated ELSE outdated \ {u}
      /\ UNCHANGED <<tenant, users, account, emailLock, accountLock, role, permission, linked, held, scoped,
                     req, creation, changes>>
  BY DEF TokensExpire, userVars, roleVars
<1>2. TypeOK'
  BY <1>1 DEF Inv, TypeOK
<1>3. UsersOK'
  BY <1>1 DEF Inv, UsersOK, Forms, UsersKnown, AdminKnown, LinkKnown, EmailLocks, AccountLocks, RowsApart,
     AddressesApart, LinksLead, At, Is, Free, UserOf
<1>4. SeedOK'
  BY <1>1 DEF Inv, SeedOK, OnePast, FoundThere, SeedAtomic, TenantsSeeded, Touched, Seeded, Underway,
     Creating, At, Is, UserOf
<1>5. ClaimsCurrent'
  BY <1>1, ClaimsKept DEF Inv
<1>6. ClaimsHeld'
  BY <1>1 DEF Inv, ClaimsHeld, Claiming
<1> QED
  BY <1>2, <1>3, <1>4, <1>5, <1>6 DEF Inv

\* A token is issued with the claims that were read.
LEMMA LoginCommitInv ==
    ASSUME Inv, NEW w \in Workers, LoginCommit(w)
    PROVE  Inv'
<1>1. /\ Finish(w) /\ creation' = creation
      /\ UNCHANGED <<tenant, users, account, roleVars, changes, outdated>>
      /\ admins' = IF SuperAdmin \in req[w].claims THEN admins \cup {req[w].user} ELSE admins
  BY DEF LoginCommit, traces
<1>2. ~Past(req[w]) /\ req[w].user \in Ids
  BY DEF LoginCommit, At, Inv, TypeOK, Request, UsersOK, Forms, Form, Past, CreationSteps
<1> QED
  BY <1>1, <1>2, FinishInv

\* A request begins with r.
LEMMA Begin ==
    ASSUME Inv, NEW w \in Workers, At(w, "idle"), NEW r \in Request, req' = [req EXCEPT ![w] = r],
           UNCHANGED <<tenant, userVars, roleVars, admins, traces>>, Form(r), ~Past(r),
           r.user # None => users[r.user] # None,
           r.step = "signing" => account[r.identity] = r.user,
           r.lost = FALSE, r.claims = {}, r.found = {},
           r.step \in {"inserting", "registering", "matching", "signing", "roles"}
    PROVE  Inv'
<1>1. req[w] = Idle /\ req[w].step = "idle"
  BY DEF At, Inv, UsersOK, Forms, Form
<1>2. ~Past(Idle)
  BY ConstantsAssumption DEF Past, Idle
<1> HIDE DEF Idle
<1> QED
  BY <1>1, <1>2, Advance DEF SeedSteps

\* A creation begins.
LEMMA BeginCreation ==
    ASSUME Inv, NEW w \in Workers, BootstrapCount(w) \/ CreateTenant(w)
    PROVE  Inv'
<1>1. PICK k \in {"bootstrap", "create"} : req' = [req EXCEPT ![w] = [Idle EXCEPT !.step = "inserting", !.kind = k]]
  BY DEF BootstrapCount, CreateTenant
<1> DEFINE r == [Idle EXCEPT !.step = "inserting", !.kind = k]
<1>2. /\ r \in Request /\ r.step = "inserting" /\ r.kind = k /\ r.user = None /\ r.lost = FALSE
      /\ r.claims = {} /\ r.made = {} /\ r.found = {}
  BY DEF Idle, Request
<1> HIDE DEF r
<1>3. Form(r) /\ ~Past(r)
  BY <1>2 DEF Form, CreationSteps, SeedSteps, Past
<1>4. At(w, "idle") /\ UNCHANGED <<tenant, userVars, roleVars, admins, traces>>
  BY DEF BootstrapCount, CreateTenant
<1>5. req' = [req EXCEPT ![w] = r]
  BY <1>1 DEF r
<1> QED
  BY <1>2, <1>3, <1>4, <1>5, Begin

\* A registration begins.
LEMMA BeginRegistration ==
    ASSUME Inv, NEW w \in Workers, NEW e \in Emails, RegisterFind(w, e)
    PROVE  Inv'
<1> USE ConstantsAssumption
<1> DEFINE r == [Idle EXCEPT !.step = "registering", !.kind = "register", !.email = e]
<1>1. At(w, "idle") /\ req' = [req EXCEPT ![w] = r] /\ UNCHANGED <<tenant, userVars, roleVars, admins, traces>>
  BY DEF RegisterFind
<1>2. /\ r \in Request /\ r.step = "registering" /\ r.kind = "register" /\ r.email = e /\ r.user = None
      /\ r.lost = FALSE /\ r.claims = {} /\ r.made = {} /\ r.found = {}
  BY DEF Idle, Request
<1> HIDE DEF r
<1>3. Form(r) /\ ~Past(r)
  BY <1>2 DEF Form, CreationSteps, SeedSteps, Past
<1> QED
  BY <1>1, <1>2, <1>3, Begin

\* A callback begins.
LEMMA BeginCallback ==
    ASSUME Inv, NEW w \in Workers, NEW e \in Emails, NEW d \in Identities, CallbackFind(w, d, e)
    PROVE  Inv'
<1> USE ConstantsAssumption
<1> DEFINE s == IF account[d] = None THEN "matching" ELSE "signing"
           r == [Idle EXCEPT !.kind = "callback", !.identity = d, !.email = e, !.step = s, !.user = account[d]]
<1>1. At(w, "idle") /\ req' = [req EXCEPT ![w] = r] /\ UNCHANGED <<tenant, userVars, roleVars, admins, traces>>
  BY DEF CallbackFind
<1>2. s \in {"matching", "signing"} /\ (s = "signing" <=> account[d] # None)
  OBVIOUS
<1>3. account[d] \in Ids \cup {None} /\ (account[d] # None => users[account[d]] # None)
  BY DEF Inv, TypeOK, UsersOK, LinksLead
<1> HIDE DEF s
<1>4. /\ r \in Request /\ r.step = s /\ r.kind = "callback" /\ r.email = e /\ r.identity = d
      /\ r.user = account[d]
      /\ r.lost = FALSE /\ r.claims = {} /\ r.made = {} /\ r.found = {}
  BY <1>2, <1>3 DEF Idle, Request
<1> HIDE DEF r
<1>5. Form(r) /\ ~Past(r)
  BY <1>2, <1>4 DEF Form, CreationSteps, SeedSteps, Past
<1> QED
  BY <1>1, <1>2, <1>3, <1>4, <1>5, Begin

\* A login begins.
LEMMA BeginLogin ==
    ASSUME Inv, NEW w \in Workers, NEW u \in Ids, LoginUser(w, u)
    PROVE  Inv'
<1> USE ConstantsAssumption
<1> DEFINE r == [Idle EXCEPT !.step = "roles", !.kind = "login", !.user = u, !.current = TRUE]
<1>1. /\ At(w, "idle") /\ req' = [req EXCEPT ![w] = r] /\ users[u] # None
      /\ UNCHANGED <<tenant, userVars, roleVars, admins, traces>>
  BY DEF LoginUser
<1>2. /\ r \in Request /\ r.step = "roles" /\ r.kind = "login" /\ r.user = u
      /\ r.lost = FALSE /\ r.claims = {} /\ r.made = {} /\ r.found = {}
  BY DEF Idle, Request
<1> HIDE DEF r
<1>3. Form(r) /\ ~Past(r)
  BY <1>2 DEF Form, CreationSteps, SeedSteps, Past
<1> QED
  BY <1>1, <1>2, <1>3, Begin

\* A seed goes on: it has found or inserted one more.
LEMMA SeedOn ==
    ASSUME Inv, NEW w \in Workers, req[w].step \in {"permission", "role"},
           NEW r \in Request, req' = [req EXCEPT ![w] = r],
           UNCHANGED <<tenant, userVars, roleVars, admins, traces>>,
           r.kind = req[w].kind, r.user = req[w].user, r.claims = req[w].claims, r.lost = req[w].lost,
           \/ r.step = "role" /\ r.made \cup r.found = {"permission"}
           \/ r.step = "linking" /\ r.made \cup r.found = {"permission", "role"},
           "role" \in r.found => "role" \in req[w].found \/ role = SuperAdmin,
           "permission" \in r.found => "permission" \in req[w].found \/ permission = SuperAdmin
    PROVE  Inv'
<1> USE ConstantsAssumption
<1>1. req[w] \in Request /\ Form(req[w])
  BY DEF Inv, TypeOK, UsersOK, Forms
<1>2. /\ req[w].kind \in {"bootstrap", "create"} /\ Past(req[w]) /\ req[w].claims = {}
      /\ (req[w].lost => Touched)
      /\ (req[w].user # None <=> req[w].kind = "bootstrap")
      /\ (req[w].kind = "bootstrap" => users[req[w].user] = AdminEmail)
  BY <1>1 DEF Form, CreationSteps, SeedSteps, Past, Inv, SeedOK, FoundThere, UsersOK, AdminKnown, Is
<1>3. /\ "role" \in req[w].found => (~req[w].lost => role # None) /\ (~Touched => role = SuperAdmin)
      /\ "permission" \in req[w].found =>
            (~req[w].lost => permission # None) /\ (~Touched => permission = SuperAdmin)
  BY DEF Inv, SeedOK, FoundThere
<1>4. Form(r) /\ Past(r)
  BY <1>2 DEF Form, CreationSteps, SeedSteps, Past
<1>5. /\ "role" \in r.found => (~r.lost => role # None) /\ (~Touched => role = SuperAdmin)
      /\ "permission" \in r.found =>
            (~r.lost => permission # None) /\ (~Touched => permission = SuperAdmin)
  BY <1>3 DEF Names
<1>6. /\ r.user # None => users[r.user] # None
      /\ r.step \in SeedSteps /\ r.kind = "bootstrap" => users[r.user] = AdminEmail
  BY <1>2
<1> QED
  BY <1>2, <1>4, <1>5, <1>6, Advance

\* The permission is found or inserted.
LEMMA SeedPermissionInv ==
    ASSUME Inv, NEW w \in Workers, SeedPermission(w)
    PROVE  Inv'
<1> DEFINE r == IF permission = SuperAdmin THEN [req[w] EXCEPT !.step = "role", !.found = {"permission"}]
                                           ELSE [req[w] EXCEPT !.step = "role", !.made = {"permission"}]
<1>1. req[w].step = "permission" /\ req[w] \in Request /\ req[w].made = {} /\ req[w].found = {}
  BY DEF SeedPermission, At, Inv, TypeOK, UsersOK, Forms, Form
<1>2. req' = [req EXCEPT ![w] = r] /\ UNCHANGED <<tenant, userVars, roleVars, admins, traces>>
  BY DEF SeedPermission, Inv, TypeOK
<1>3. /\ r \in Request /\ r.step = "role" /\ r.made \cup r.found = {"permission"}
      /\ r.kind = req[w].kind /\ r.user = req[w].user /\ r.claims = req[w].claims /\ r.lost = req[w].lost
      /\ "role" \notin r.found /\ ("permission" \in r.found => permission = SuperAdmin)
  BY <1>1 DEF Request
<1> HIDE DEF r
<1> QED
  BY <1>1, <1>2, <1>3, SeedOn

\* The role is found or inserted.
LEMMA SeedRoleInv ==
    ASSUME Inv, NEW w \in Workers, SeedRole(w)
    PROVE  Inv'
<1> DEFINE r == IF role = SuperAdmin THEN [req[w] EXCEPT !.step = "linking", !.found = @ \cup {"role"}]
                                     ELSE [req[w] EXCEPT !.step = "linking", !.made = @ \cup {"role"}]
<1>1. req[w].step = "role" /\ req[w] \in Request /\ req[w].made \cup req[w].found = {"permission"}
  BY DEF SeedRole, At, Inv, TypeOK, UsersOK, Forms, Form
<1>2. req' = [req EXCEPT ![w] = r] /\ UNCHANGED <<tenant, userVars, roleVars, admins, traces>>
  BY DEF SeedRole, Inv, TypeOK
<1>3. /\ r \in Request /\ r.step = "linking" /\ r.made \cup r.found = {"permission", "role"}
      /\ r.kind = req[w].kind /\ r.user = req[w].user /\ r.claims = req[w].claims /\ r.lost = req[w].lost
      /\ ("role" \in r.found => "role" \in req[w].found \/ role = SuperAdmin)
      /\ ("permission" \in r.found => "permission" \in req[w].found)
  BY <1>1 DEF Request
<1> HIDE DEF r
<1> QED
  BY <1>1, <1>2, <1>3, SeedOn

\* A callback takes the user of its address, if there is one.
LEMMA CallbackMatchInv ==
    ASSUME Inv, NEW w \in Workers, CallbackMatch(w)
    PROVE  Inv'
<1> USE ConstantsAssumption
<1> DEFINE s == IF Free(req[w].email) THEN "creating" ELSE "connecting"
           i == IF Free(req[w].email) THEN None ELSE CHOOSE j \in UserOf(req[w].email) : TRUE
           r == [req[w] EXCEPT !.step = s, !.user = i]
<1>1. /\ req[w].step = "matching" /\ req[w] \in Request /\ Form(req[w])
      /\ UNCHANGED <<tenant, userVars, roleVars, admins, traces>>
  BY DEF CallbackMatch, At, Inv, TypeOK, UsersOK, Forms
<1>2. /\ req[w].kind \notin {"bootstrap", "create"} /\ ~Past(req[w]) /\ req[w].claims = {}
      /\ req[w].email # None /\ req[w].identity # None
      /\ req[w].made = {} /\ req[w].found = {} /\ (req[w].lost => Touched)
  BY <1>1 DEF Form, CreationSteps, Past, Inv, SeedOK, FoundThere
<1>3. \/ s = "creating" /\ i = None
      \/ s = "connecting" /\ i \in Ids /\ i # None /\ users[i] # None
  <2>1. CASE Free(req[w].email)
    BY <2>1
  <2>2. CASE ~Free(req[w].email)
    <3>1. i \in UserOf(req[w].email)
      BY <2>2 DEF Free
    <3> QED
      BY <1>2, <2>2, <3>1 DEF UserOf
  <2> QED
    BY <2>1, <2>2
<1>4. req' = [req EXCEPT ![w].step = s, ![w].user = i]
  BY Zenon DEF CallbackMatch
<1> HIDE DEF s, i
<1>7. req' = [req EXCEPT ![w] = r]
  BY <1>4 DEF Inv, TypeOK
<1>5. /\ r \in Request /\ r.step = s /\ r.user = i /\ r.kind = req[w].kind /\ r.claims = {}
      /\ r.email = req[w].email /\ r.identity = req[w].identity
      /\ r.made = {} /\ r.found = {} /\ r.lost = req[w].lost
  BY <1>1, <1>2, <1>3 DEF Request
<1> HIDE DEF r
<1>6. Form(r) /\ ~Past(r) /\ r.step \notin SeedSteps
  BY <1>2, <1>3, <1>5 DEF Form, CreationSteps, SeedSteps, Past
<1> QED
  BY <1>1, <1>2, <1>3, <1>5, <1>6, <1>7, Advance

\* A login reads roles, then permissions: what it has then is current.
LEMMA LoginReadInv ==
    ASSUME Inv, NEW w \in Workers, LoginRoles(w) \/ LoginPermissions(w)
    PROVE  Inv'
<1> USE ConstantsAssumption
<1> DEFINE u == req[w].user
           s == IF At(w, "roles") THEN "permissions" ELSE "issuing"
           c == IF At(w, "roles") THEN Roles(u) ELSE req[w].claims \cup Permissions(u)
           r == [req[w] EXCEPT !.step = s, !.claims = c]
<1>1. /\ req[w].step \in {"roles", "permissions"} /\ req[w] \in Request /\ Form(req[w])
      /\ UNCHANGED <<tenant, userVars, roleVars, admins, traces>>
  BY DEF LoginRoles, LoginPermissions, At, Inv, TypeOK, UsersOK, Forms
<1>2. /\ req[w].kind \notin {"bootstrap", "create"} /\ ~Past(req[w]) /\ u \in Ids /\ u # None
      /\ users[u] # None /\ req[w].made = {} /\ req[w].found = {} /\ (req[w].lost => Touched)
  BY <1>1 DEF Form, CreationSteps, SeedSteps, Past, Request, Inv, SeedOK, FoundThere, UsersOK, UsersKnown
<1>3. req' = [req EXCEPT ![w] = r]
  BY DEF LoginRoles, LoginPermissions, At, Inv, TypeOK
<1>4. c \in SUBSET (Names \cup {"permission", "client"})
  <2>1. Roles(u) \in SUBSET (Names \cup {"permission", "client"})
    BY DEF Roles, Inv, TypeOK
  <2>2. Permissions(u) \in SUBSET {"permission"}
    BY DEF Permissions
  <2>3. req[w].claims \in SUBSET (Names \cup {"permission", "client"})
    BY <1>1 DEF Request
  <2> QED
    BY <2>1, <2>2, <2>3
<1>5. SuperAdmin \in c => (u \in held /\ role = SuperAdmin) \/ u \in outdated
  <2>1. SuperAdmin \in Roles(u) => u \in held /\ role = SuperAdmin
    BY DEF Roles, SuperAdmin
  <2>2. SuperAdmin \notin Permissions(u)
    BY DEF Permissions, SuperAdmin
  <2>3. SuperAdmin \in req[w].claims => (u \in held /\ role = SuperAdmin) \/ u \in outdated
    BY <1>2 DEF Inv, ClaimsHeld, Claiming
  <2> QED
    BY <2>1, <2>2, <2>3
<1>6. req[w].current => /\ s = "permissions" => c = Roles(u)
                        /\ s = "issuing" => c = Roles(u) \cup Permissions(u)
  BY <1>1 DEF Inv, ClaimsCurrent, At
<1>7. s \in {"permissions", "issuing"}
  OBVIOUS
<1> HIDE DEF s, c, u
<1>8. /\ r \in Request /\ r.step = s /\ r.user = u /\ r.kind = req[w].kind /\ r.claims = c
      /\ r.made = {} /\ r.found = {} /\ r.lost = req[w].lost /\ r.current = req[w].current
  BY <1>1, <1>2, <1>4, <1>7 DEF Request, u
<1> HIDE DEF r
<1>9. Form(r) /\ ~Past(r) /\ r.step \notin SeedSteps
  BY <1>2, <1>7, <1>8 DEF Form, CreationSteps, SeedSteps, Past
<1> QED
  BY <1>1, <1>2, <1>3, <1>5, <1>6, <1>7, <1>8, <1>9, Advance

\* The invariant is inductive.
LEMMA NextInv == Inv /\ [Next]_vars => Inv'
<1> SUFFICES ASSUME Inv, [Next]_vars PROVE Inv'
  OBVIOUS
<1>1. ASSUME NEW w \in Workers,
             \/ BootstrapCount(w) \/ CreateTenant(w) \/ InsertTenant(w) \/ BootstrapUser(w)
             \/ SeedPermission(w) \/ SeedRole(w) \/ SeedCommit(w) \/ AssignAdmin(w)
             \/ \E e \in Emails : RegisterFind(w, e) \/ \E d \in Identities : CallbackFind(w, d, e)
      PROVE  Inv'
  BY <1>1, BeginCreation, InsertTenantInv, BootstrapUserInv, SeedPermissionInv, SeedRoleInv, SeedCommitInv,
     AssignAdminInv, BeginRegistration, BeginCallback
<1>2. ASSUME NEW w \in Workers,
             \/ RegisterCommit(w)
             \/ CallbackMatch(w) \/ CallbackCreate(w) \/ CallbackLink(w) \/ CallbackCommit(w)
             \/ \E u \in Ids : LoginUser(w, u)
             \/ LoginRoles(w) \/ LoginPermissions(w) \/ LoginCommit(w)
      PROVE  Inv'
  BY <1>2, RegisterCommitInv, CallbackMatchInv, CallbackCreateInv, CallbackLinkInv, CallbackCommitInv,
     BeginLogin, LoginReadInv, LoginCommitInv
<1>3. ASSUME NEW w \in Workers, Rollback(w)
      PROVE  Inv'
  BY <1>3, LeaveInv DEF Rollback
<1>4. ASSUME NEW u \in Ids, TokensExpire(u)
      PROVE  Inv'
  BY <1>4, TokensExpireInv
<1>5. CASE \/ \E u \in Ids : AssignRole(u) \/ RevokeRole(u)
           \/ \E name \in Names : \/ CreateRole(name) \/ RenameRole(name)
                                  \/ CreatePermission(name) \/ RenamePermission(name)
           \/ DeleteRole \/ DeletePermission \/ GrantPermission \/ RevokePermission
           \/ \E to \in BOOLEAN : ScopeRole(to)
  BY <1>5, AdministrationInv
<1>6. CASE UNCHANGED vars
  <2>1. UNCHANGED <<tenant, users, account, emailLock, accountLock, role, permission, linked, held, scoped, admins,
                    req, creation, changes, outdated>>
    BY <1>6 DEF vars, userVars, roleVars, traces
  <2>2. TypeOK'
    BY <2>1 DEF Inv, TypeOK
  <2>3. UsersOK'
    BY <2>1 DEF Inv, UsersOK, Forms, UsersKnown, AdminKnown, LinkKnown, EmailLocks, AccountLocks, RowsApart,
       AddressesApart, LinksLead, At, Is, Free, UserOf
  <2>4. SeedOK'
    BY <2>1 DEF Inv, SeedOK, OnePast, FoundThere, SeedAtomic, TenantsSeeded, Touched, Seeded, Underway,
       Creating, At, Is, UserOf
  <2>5. ClaimsCurrent'
    BY <2>1, ClaimsKept DEF Inv
  <2>6. ClaimsHeld'
    BY <2>1 DEF Inv, ClaimsHeld, Claiming
  <2> QED
    BY <2>2, <2>3, <2>4, <2>5, <2>6 DEF Inv
<1> QED
  BY <1>1, <1>2, <1>3, <1>4, <1>5, <1>6 DEF Next

-----------------------------------------------------------------------------
(* Directory: the theorems *)

\* The invariant holds in every reachable state of a tenant.
THEOREM Invariance == Spec => []Inv
<1>1. Init => Inv
  BY InitInv
<1>2. Inv /\ [Next]_vars => Inv'
  BY NextInv
<1> QED
  BY <1>1, <1>2, PTL DEF Spec

\* Rows, grants, requests and locks keep their types, and no grant is left of a
\* role or a permission that is gone (role_service.rs, permission_service.rs).
THEOREM TypeCorrect == Spec => []TypeOK
<1>1. Inv => TypeOK
  BY DEF Inv
<1> QED
  BY <1>1, Invariance, PTL

\* Wherever a creation is cut off, the seed is there as a whole or not at all
\* (tenant_service.rs).
THEOREM SeedAtomicHolds == Spec => []SeedAtomic
<1>1. Inv => SeedAtomic
  BY DEF Inv, SeedOK
<1> QED
  BY <1>1, Invariance, PTL

\* A tenant whose creation went through has its seed, and after a first start
\* its administrator has the role, however many starts and creations race
\* (bootstrap_service.rs).
THEOREM TenantsSeededHolds == Spec => []TenantsSeeded
<1>1. Inv => TenantsSeeded
  BY DEF Inv, SeedOK
<1> QED
  BY <1>1, Invariance, PTL

\* Registrations, first starts and callbacks never make two users of one
\* address (user_service.rs, social_service.rs).
THEOREM OneUserPerAddressHolds == Spec => []OneUserPerAddress
<1>1. Inv => OneUserPerAddress
  <2> SUFFICES ASSUME Inv, NEW e \in Emails
               PROVE  Cardinality(UserOf(e)) <= 1
    BY DEF OneUserPerAddress
  <2>1. CASE UserOf(e) = {}
    BY <2>1, FS_EmptySet
  <2>2. CASE UserOf(e) # {}
    <3>1. PICK i \in UserOf(e) : TRUE
      BY <2>2
    <3>2. UserOf(e) = {i}
      BY <3>1, ConstantsAssumption DEF UserOf, Inv, UsersOK, AddressesApart
    <3> QED
      BY <3>2, FS_Singleton
  <2> QED
    BY <2>1, <2>2
<1> QED
  BY <1>1, Invariance, PTL

\* Two queries give the claims of one moment unless a change comes between
\* (auth_service.rs).
THEOREM ClaimsOfMomentHolds == Spec => []ClaimsOfMoment
<1>1. Inv => ClaimsOfMoment
  BY DEF Inv, ClaimsCurrent, ClaimsOfMoment
<1> QED
  BY <1>1, Invariance, PTL

\* Whoever require_admin accepts has the role or had it when the token's claims
\* were read (admin_auth.rs).
THEOREM AdminsHadRoleHolds == Spec => []AdminsHadRole
<1>1. Inv => AdminsHadRole
  BY DEF Inv, TypeOK, ClaimsHeld, Claiming, AdminsHadRole
<1> QED
  BY <1>1, Invariance, PTL

\* Rows and links are committed by three actions alone.
LEMMA RowsFrom ==
    ASSUME [Next]_vars, ~UNCHANGED <<users, account>>
    PROVE  \E v \in Workers : RegisterCommit(v) \/ BootstrapUser(v) \/ CallbackCommit(v)
<1>1. UNCHANGED vars => UNCHANGED <<users, account>>
  BY DEF vars, userVars
<1>2. \A w \in Workers : Leave(w) => UNCHANGED <<users, account>>
  BY DEF Leave
<1>3. ASSUME NEW w \in Workers, \/ BootstrapCount(w) \/ CreateTenant(w) \/ SeedPermission(w) \/ SeedRole(w)
                               \/ SeedCommit(w) \/ AssignAdmin(w) \/ CallbackMatch(w)
                               \/ LoginRoles(w) \/ LoginPermissions(w)
      PROVE  UNCHANGED <<users, account>>
  <2>1. userVars' = userVars
    BY <1>3, Zenon DEF BootstrapCount, CreateTenant, SeedPermission, SeedRole, SeedCommit, AssignAdmin,
       CallbackMatch, LoginRoles, LoginPermissions
  <2> QED
    BY <2>1 DEF userVars
<1>4. ASSUME NEW w \in Workers, NEW e \in Emails,
             RegisterFind(w, e) \/ \E d \in Identities : CallbackFind(w, d, e)
      PROVE  UNCHANGED <<users, account>>
  <2>1. userVars' = userVars
    BY <1>4, Zenon DEF RegisterFind, CallbackFind
  <2> QED
    BY <2>1 DEF userVars
<1>5. ASSUME NEW w \in Workers, InsertTenant(w) \/ CallbackCreate(w) \/ CallbackLink(w) \/ LoginCommit(w)
      PROVE  UNCHANGED <<users, account>>
  <2>1. CASE InsertTenant(w)
    BY <1>2, <2>1 DEF InsertTenant, userVars
  <2>2. CASE CallbackCreate(w)
    BY <1>2, <2>2 DEF CallbackCreate
  <2>3. CASE CallbackLink(w)
    BY <1>2, <2>3 DEF CallbackLink
  <2>4. CASE LoginCommit(w)
    BY <2>4 DEF LoginCommit
  <2> QED
    BY <1>5, <2>1, <2>2, <2>3, <2>4
<1>6. ASSUME NEW u \in Ids, TokensExpire(u) \/ \E w \in Workers : LoginUser(w, u)
      PROVE  UNCHANGED <<users, account>>
  <2>1. userVars' = userVars
    BY <1>6, Zenon DEF TokensExpire, LoginUser
  <2> QED
    BY <2>1 DEF userVars
<1>7. ASSUME NEW gone, Changed(gone)
      PROVE  UNCHANGED <<users, account>>
  <2>1. userVars' = userVars
    BY <1>7, Zenon DEF Changed
  <2> QED
    BY <2>1 DEF userVars
<1>8. ASSUME NEW u \in Ids, AssignRole(u) \/ RevokeRole(u)
      PROVE  UNCHANGED <<users, account>>
  BY <1>7, <1>8, Zenon DEF AssignRole, RevokeRole
<1>9. ASSUME NEW name \in Names, \/ CreateRole(name) \/ RenameRole(name)
                                 \/ CreatePermission(name) \/ RenamePermission(name)
      PROVE  UNCHANGED <<users, account>>
  BY <1>7, <1>9, Zenon DEF CreateRole, RenameRole, CreatePermission, RenamePermission
<1>10. ASSUME \/ DeleteRole \/ DeletePermission \/ GrantPermission \/ RevokePermission
              \/ \E to \in BOOLEAN : ScopeRole(to)
       PROVE  UNCHANGED <<users, account>>
  BY <1>7, <1>10, Zenon DEF DeleteRole, DeletePermission, GrantPermission, RevokePermission, ScopeRole
<1> QED
  BY <1>1, <1>2, <1>3, <1>4, <1>5, <1>6, <1>8, <1>9, <1>10 DEF Next, Rollback

\* A callback signs in the user that its identity is linked to when it commits
\* (social_service.rs).
THEOREM IdentitySignsInHolds == Spec => IdentitySignsIn
<1>1. Inv /\ [Next]_vars =>
        [\A w \in Workers : At(w, "signing") /\ req'[w] = Idle /\ ~UNCHANGED <<users, account>>
            => account'[req[w].identity] = req[w].user /\ users'[req[w].user] # None]_vars
  <2> SUFFICES ASSUME Inv, [Next]_vars, NEW w \in Workers, req[w].step = "signing", req'[w] = Idle,
                      ~UNCHANGED <<users, account>>
               PROVE  account'[req[w].identity] = req[w].user /\ users'[req[w].user] # None
    BY DEF At
  <2>1. PICK v \in Workers : RegisterCommit(v) \/ BootstrapUser(v) \/ CallbackCommit(v)
    BY RowsFrom
  <2>2. v = w
    <3>1. \E r \in Request : req' = [req EXCEPT ![v] = r]
      <4>1. Idle \in Request
        BY DEF Idle, Request
      <4>2. CASE RegisterCommit(v) \/ CallbackCommit(v)
        BY <4>1, <4>2 DEF RegisterCommit, CallbackCommit, Leave, Finish
      <4>3. CASE BootstrapUser(v)
        <5>1. CASE Free(AdminEmail)
          <6>1. req' = [req EXCEPT ![v] = [req[v] EXCEPT !.step = "permission", !.user = NewId]] /\ Unused # {}
            BY <4>3, <5>1 DEF BootstrapUser, Inv, TypeOK
          <6>2. NewId \in Ids
            BY <6>1, NewIdUnused, ConstantsAssumption DEF Unused
          <6>3. req[v] \in Request
            BY DEF Inv, TypeOK
          <6>4. [req[v] EXCEPT !.step = "permission", !.user = NewId] \in Request
            BY <6>2, <6>3 DEF Request
          <6> QED
            BY <6>1, <6>4
        <5>2. CASE ~Free(AdminEmail)
          BY <4>1, <4>3, <5>2 DEF BootstrapUser, Leave, Finish
        <5> QED
          BY <5>1, <5>2
      <4> QED
        BY <2>1, <4>2, <4>3
    <3>2. v # w => req'[w] = req[w]
      BY <3>1 DEF Inv, TypeOK
    <3> QED
      BY <3>2 DEF Idle
  <2>3. CallbackCommit(w)
    BY <2>1, <2>2 DEF RegisterCommit, BootstrapUser, At
  <2> QED
    BY <2>3, CallbackCommitted
<1> QED
  BY <1>1, Invariance, PTL DEF Spec, IdentitySignsIn

\* An identity that is linked stays linked to the same user: no handler writes
\* the row again (social_service.rs).
THEOREM LinksStayHolds == Spec => LinksStay
<1>1. Inv /\ [Next]_vars => [\A d \in Identities : account[d] # None => account'[d] = account[d]]_vars
  <2> SUFFICES ASSUME Inv, [Next]_vars, NEW d \in Identities, account[d] # None
               PROVE  account'[d] = account[d]
    OBVIOUS
  <2>1. CASE UNCHANGED <<users, account>>
    BY <2>1
  <2>2. ASSUME NEW v \in Workers, RegisterCommit(v) \/ BootstrapUser(v)
        PROVE  account'[d] = account[d]
    BY <2>2 DEF RegisterCommit, BootstrapUser, Leave
  <2>3. ASSUME NEW v \in Workers, CallbackCommit(v)
        PROVE  account'[d] = account[d]
    BY <2>3, CallbackCommitted
  <2> QED
    BY <2>1, <2>2, <2>3, RowsFrom
<1> QED
  BY <1>1, Invariance, PTL DEF Spec, LinksStay

\* A first start and POST /tenants that race end in one creation: the others
\* fail at the first INSERT (bootstrap_service.rs, tenants.rs).
THEOREM OneCreationHolds == Spec => []OneCreation
<1>1. Inv => OneCreation
  <2> SUFFICES ASSUME Inv PROVE Cardinality({w \in Workers : Past(req[w])}) <= 1
    <3>1. \A w \in Workers : Past(req[w]) <=> Creating(w) /\ ~At(w, "inserting")
      BY DEF Past, Creating, Is, At
    <3> QED
      BY <3>1 DEF OneCreation
  <2> DEFINE S == {w \in Workers : Past(req[w])}
  <2>1. \A w, v \in S : w = v
    BY DEF Inv, SeedOK, OnePast
  <2> HIDE DEF S
  <2>2. ASSUME NEW w \in S
        PROVE  Cardinality(S) <= 1
    <3>1. S = {w}
      BY <2>1
    <3>2. Cardinality({w}) = 1
      BY FS_Singleton
    <3> QED
      BY <3>1, <3>2
  <2>3. Cardinality(S) <= 1
    <3>1. Cardinality({}) = 0
      BY FS_EmptySet
    <3> QED
      BY <2>2, <3>1
  <2> QED
    BY <2>3 DEF S
<1> QED
  BY <1>1, Invariance, PTL

-----------------------------------------------------------------------------
(* TenantSettings *)

\* What a save will write of the other sections is what the row held when it
\* began: as long as nobody has written since, that is what the row holds now.
SavesOK ==
    \A w \in Savers : saving[w] # Absent =>
        /\ saving[w].begun <= saves
        /\ saving[w].begun = saves =>
              \A t \in Sections \ {saving[w].section} : saving[w].values[t] = Current[t]

\* the inductive invariant
SettingsInv == SettingsTypeOK /\ SavesOK /\ (row = Absent <=> saves = 0)

-----------------------------------------------------------------------------
\* What get returns are settings.
LEMMA CurrentType == SettingsTypeOK => Current \in Settings
BY SettingsAssumption DEF SettingsTypeOK, Current, Settings

\* No request is Absent.
LEMMA AbsentIsNoSettings == Absent \notin Settings
BY SettingsAssumption DEF Settings

\* The initial state satisfies the invariant.
LEMMA SettingsInitInv == SettingsInit => SettingsInv
BY SettingsAssumption DEF SettingsInit, SettingsInv, SettingsTypeOK, SavesOK

\* A step that writes nothing, and leaves a request whose values are current,
\* keeps the invariant.
LEMMA KeepInv ==
    ASSUME SettingsInv, NEW w \in Savers, NEW r \in SettingsRequest \cup {Absent},
           saving' = [saving EXCEPT ![w] = r], UNCHANGED <<row, saves>>,
           r # Absent =>
              /\ r.begun <= saves
              /\ r.begun = saves => \A t \in Sections \ {r.section} : r.values[t] = Current[t]
    PROVE  SettingsInv'
<1>1. Current' = Current
  BY DEF Current
<1>2. SettingsTypeOK'
  BY DEF SettingsInv, SettingsTypeOK
<1>3. SavesOK'
  BY <1>1 DEF SettingsInv, SettingsTypeOK, SavesOK
<1> QED
  BY <1>2, <1>3 DEF SettingsInv

\* A step that writes the row leaves every other save behind it.
LEMMA WriteInv ==
    ASSUME SettingsInv, NEW w \in Savers, saving[w] # Absent, saves < MaxSaves,
           row' = saving[w].values, saves' = saves + 1, SettingsFinish(w)
    PROVE  SettingsInv'
<1>1. saving[w] \in SettingsRequest /\ row' \in Settings /\ saves \in Nat
  BY SettingsAssumption DEF SettingsInv, SettingsTypeOK, SettingsRequest
<1>2. SettingsTypeOK'
  BY <1>1, SettingsAssumption DEF SettingsInv, SettingsTypeOK, SettingsFinish
<1>3. SavesOK'
  <2> SUFFICES ASSUME NEW v \in Savers, saving'[v] # Absent
               PROVE  saving'[v].begun <= saves' /\ saving'[v].begun # saves'
    BY DEF SavesOK
  <2>1. v # w /\ saving'[v] = saving[v] /\ saving[v] # Absent
    BY DEF SettingsFinish, SettingsInv, SettingsTypeOK
  <2>2. saving[v].begun \in 0 .. MaxSaves /\ saving[v].begun <= saves
    BY <2>1 DEF SettingsInv, SettingsTypeOK, SavesOK, SettingsRequest
  <2> QED
    BY <1>1, <2>1, <2>2, SettingsAssumption
<1>4. row' # Absent /\ saves' # 0
  BY <1>1, AbsentIsNoSettings
<1> QED
  BY <1>2, <1>3, <1>4 DEF SettingsInv

\* The invariant is inductive.
LEMMA SettingsNextInv == SettingsInv /\ [SettingsNext]_settingsVars => SettingsInv'
<1> SUFFICES ASSUME SettingsInv, [SettingsNext]_settingsVars PROVE SettingsInv'
    OBVIOUS
<1> USE SettingsAssumption
<1>1. ASSUME NEW w \in Savers, NEW s \in Sections, NEW v \in Values, Get(w, s, v)
      PROVE  SettingsInv'
  <2> DEFINE r == [step |-> "got", section |-> s, begun |-> saves, values |-> [Current EXCEPT ![s] = v]]
  <2>1. r \in SettingsRequest
    BY CurrentType DEF SettingsInv, SettingsTypeOK, SettingsRequest, Settings
  <2>2. \A t \in Sections \ {s} : r.values[t] = Current[t]
    BY CurrentType DEF SettingsInv, Settings
  <2>3. saves \in Nat
    BY DEF SettingsInv, SettingsTypeOK
  <2>4. saving' = [saving EXCEPT ![w] = r] /\ UNCHANGED <<row, saves>>
    BY <1>1 DEF Get
  <2>5. r.begun <= saves /\ r.section = s
    BY <2>3
  <2> HIDE DEF r
  <2> QED
    BY <2>1, <2>2, <2>4, <2>5, KeepInv
<1>2. ASSUME NEW w \in Savers, Find(w)
      PROVE  SettingsInv'
  <2> DEFINE r == [saving[w] EXCEPT !.step = IF row = Absent THEN "insert" ELSE "update"]
  <2>1. saving[w] \in SettingsRequest /\ saving[w] # Absent
    BY <1>2 DEF Find, SettingsInv, SettingsTypeOK
  <2>2. r \in SettingsRequest /\ r.begun = saving[w].begun /\ r.section = saving[w].section /\ r.values = saving[w].values
    BY <2>1 DEF SettingsRequest
  <2>3. saving' = [saving EXCEPT ![w] = r] /\ UNCHANGED <<row, saves>>
    BY <1>2 DEF Find
  <2> HIDE DEF r
  <2> QED
    BY <2>1, <2>2, <2>3, KeepInv DEF SettingsInv, SavesOK
<1>3. ASSUME NEW w \in Savers, Update(w) \/ Insert(w)
      PROVE  SettingsInv'
  BY <1>3, WriteInv DEF Update, Insert
<1>4. ASSUME NEW w \in Savers, Fail(w)
      PROVE  SettingsInv'
  BY <1>4, KeepInv DEF Fail, SettingsFinish
<1>5. CASE UNCHANGED settingsVars
  BY <1>5 DEF settingsVars, SettingsInv, SettingsTypeOK, SavesOK, Current
<1> QED
  BY <1>1, <1>2, <1>3, <1>4, <1>5 DEF SettingsNext

-----------------------------------------------------------------------------
(* The theorems *)

\* The invariant holds in every reachable state of the settings.
THEOREM SettingsInvariance == SettingsSpec => []SettingsInv
<1>1. SettingsInit => SettingsInv
  BY SettingsInitInv
<1>2. SettingsInv /\ [SettingsNext]_settingsVars => SettingsInv'
  BY SettingsNextInv
<1> QED
  BY <1>1, <1>2, PTL DEF SettingsSpec

\* The row and the saves keep their types (tenant_settings_service.rs).
THEOREM SettingsTypeCorrect == SettingsSpec => []SettingsTypeOK
<1>1. SettingsInv => SettingsTypeOK
  BY DEF SettingsInv
<1> QED
  BY <1>1, SettingsInvariance, PTL

\* A save disturbs another section only if the row was written after it
\* began, however many administrators save (admin_tenant_settings.rs:183).
THEOREM OnlyOverlapDisturbsHolds == SettingsSpec => OnlyOverlapDisturbs
<1>1. SettingsInv => [\A w \in Savers :
                Save(w) /\ Disturbed(saving[w].section) # {} => saving[w].begun < saves]_settingsVars
  <2> SUFFICES ASSUME SettingsInv, NEW w \in Savers, Save(w), ~(saving[w].begun < saves)
               PROVE  Disturbed(saving[w].section) = {}
    OBVIOUS
  <2>1. saving[w] \in SettingsRequest /\ saving[w] # Absent /\ row' = saving[w].values
    BY DEF Save, Update, Insert, SettingsInv, SettingsTypeOK
  <2>2. saving[w].begun = saves
    BY <2>1, SettingsAssumption DEF SettingsInv, SettingsTypeOK, SavesOK, SettingsRequest
  <2>3. Current' = saving[w].values
    BY <2>1, AbsentIsNoSettings DEF Current, SettingsRequest
  <2> QED
    BY <2>1, <2>2, <2>3 DEF Disturbed, SettingsInv, SavesOK
<1> QED
  BY <1>1, SettingsInvariance, PTL DEF OnlyOverlapDisturbs

\* Of the first saves of a tenant the one that inserts takes nothing away from
\* the others (tenant_settings_service.rs:63).
THEOREM InsertDisturbsNothingHolds == SettingsSpec => InsertDisturbsNothing
<1>1. SettingsInv => [\A w \in Savers : Insert(w) => Disturbed(saving[w].section) = {}]_settingsVars
  <2> SUFFICES ASSUME SettingsInv, NEW w \in Savers, Insert(w)
               PROVE  Disturbed(saving[w].section) = {}
    OBVIOUS
  <2>1. saving[w] \in SettingsRequest /\ saving[w] # Absent /\ row' = saving[w].values
    BY DEF Insert, SettingsInv, SettingsTypeOK
  <2>2. saving[w].begun = saves
    BY <2>1, SettingsAssumption DEF Insert, SettingsInv, SettingsTypeOK, SavesOK, SettingsRequest
  <2>3. Current' = saving[w].values
    BY <2>1, AbsentIsNoSettings DEF Current, SettingsRequest
  <2> QED
    BY <2>1, <2>2, <2>3 DEF Disturbed, SettingsInv, SavesOK
<1> QED
  BY <1>1, SettingsInvariance, PTL DEF InsertDisturbsNothing

=============================================================================
