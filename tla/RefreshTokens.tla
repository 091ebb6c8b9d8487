--------------------------- MODULE RefreshTokens ---------------------------
(***************************************************************************)
(* The refresh_tokens table of ovlt-core and the handlers that write it:   *)
(* sign-in (store_refresh_token), /auth/refresh (rotation), /auth/logout,  *)
(* /oauth/revoke, /auth/revoke (revoke all), the six-hourly cleanup, and   *)
(* the admin switch of users.is_active.                                    *)
(*                                                                         *)
(* A worker is one HTTP request being served.  A handler is split at the   *)
(* SQL statements it awaits: PostgreSQL runs at READ COMMITTED, so every   *)
(* statement sees what is committed when it starts, an UPDATE waits for    *)
(* the row lock of another transaction, and what a transaction writes is   *)
(* seen by the others only at its commit.  Uncommitted writes are          *)
(* therefore kept in the request (its row locks) and applied by the action *)
(* that commits.  A request that is refused before its first write changes *)
(* nothing and has no action.                                              *)
(*                                                                         *)
(* A token id stands for the opaque token, its hash and its row; ids are   *)
(* handed out in insertion order, which is the order of a scan of the      *)
(* table.                                                                  *)
(***************************************************************************)
EXTENDS Integers, FiniteSets

CONSTANTS
    Workers,      \* requests being served concurrently
    Users,
    Tenants,
    TenantOf,     \* users.tenant_id
    Master,       \* the master tenant (AppState.master_tenant_id)
    MaxTokens,    \* bound: refresh tokens ever issued
    SignInTtls,   \* lifetimes given at sign-in (tenant setting, client override, config)
    RefreshTtl,   \* lifetime given by /auth/refresh (config)
    MaxTime,      \* bound of the clock
    None

ASSUME ConstantsAssumption ==
    /\ IsFiniteSet(Workers)
    /\ TenantOf \in [Users -> Tenants]
    /\ Master \in Tenants \cup {None}
    /\ MaxTokens \in Nat
    /\ MaxTime \in Nat
    /\ SignInTtls \subseteq Nat
    /\ RefreshTtl \in Nat
    /\ None \notin Workers \cup Users \cup Tenants \cup Nat

VARIABLES
    now,      \* wall clock
    active,   \* users.is_active
    rt,       \* the refresh_tokens table, committed rows
    lock,     \* row locks held by open transactions
    req,      \* the request each worker is serving
    parent    \* history: the token a row was rotated from

vars == <<now, active, rt, lock, req, parent>>

TokenIds == 1..MaxTokens

Row == [state      : {"unused", "stored", "deleted"},
        tenant     : Tenants \cup {None},
        user       : Users \cup {None},
        expires_at : Nat,
        revoked    : BOOLEAN]

Steps == {"idle", "refresh_found", "refresh_revoked", "refresh_loaded",
          "revoke_found", "sweep", "sign_in"}

Request == [step   : Steps,
            tok    : TokenIds \cup {None},
            user   : Users \cup {None},
            tenant : Tenants \cup {None},
            snap   : SUBSET TokenIds,    \* rows a revoke-all statement saw
            todo   : SUBSET TokenIds]    \* of these, rows it has not reached

Idle == [step |-> "idle", tok |-> None, user |-> None, tenant |-> None,
         snap |-> {}, todo |-> {}]

NoRow == [state |-> "unused", tenant |-> None, user |-> None,
          expires_at |-> 0, revoked |-> FALSE]

TypeOK ==
    /\ now \in Nat
    /\ active \in [Users -> BOOLEAN]
    /\ rt \in [TokenIds -> Row]
    /\ lock \in [TokenIds -> Workers \cup {None}]
    /\ req \in [Workers -> Request]
    /\ parent \in [TokenIds -> TokenIds \cup {None}]

Init ==
    /\ now = 0
    /\ active = [u \in Users |-> TRUE]
    /\ rt = [t \in TokenIds |-> NoRow]
    /\ lock = [t \in TokenIds |-> None]
    /\ req = [w \in Workers |-> Idle]
    /\ parent = [t \in TokenIds |-> None]

-----------------------------------------------------------------------------
(* Helpers *)

Stored(t) == rt[t].state = "stored"

Dead(t) == rt[t].state = "deleted" \/ rt[t].revoked

\* mutant of FindValid: the revoked_at filter is forgotten
FindValidRevokedToo(t, ctx) ==
    /\ Stored(t)
    /\ rt[t].tenant = ctx
    /\ rt[t].expires_at > now

\* find_valid_refresh_token, in a transaction of tenant ctx (row-level
\* security hides the rows of every other tenant)
FindValid(t, ctx) ==
    /\ Stored(t)
    /\ rt[t].tenant = ctx
    /\ ~rt[t].revoked
    /\ rt[t].expires_at > now

\* auth_middleware: the token's tenant is the request's tenant, or the master
AuthCtx(u, ctx) == TenantOf[u] = ctx \/ TenantOf[u] = Master

\* store_refresh_token
NewRow(ctx, u, ttl) == [state |-> "stored", tenant |-> ctx, user |-> u,
                        expires_at |-> now + ttl, revoked |-> FALSE]

\* the id the next insert gets
Fresh(n) == /\ rt[n].state = "unused"
            /\ \A m \in TokenIds : rt[m].state = "unused" => n <= m

\* bound: every request that will insert a row has an id left
IdLeft == Cardinality({w \in Workers : req[w].step \in
                          {"refresh_found", "refresh_revoked", "refresh_loaded", "sign_in"}})
          < Cardinality({t \in TokenIds : rt[t].state = "unused"})

\* the row locks after the transaction of w ends
Unlocked(w) == [t \in TokenIds |-> IF lock[t] = w THEN None ELSE lock[t]]

Finish(w) == req' = [req EXCEPT ![w] = Idle]

-----------------------------------------------------------------------------
(* POST /auth/refresh *)

RefreshFind(w, ctx, t) ==
    /\ req[w] = Idle
    /\ FindValid(t, ctx)
    /\ IdLeft
    /\ req' = [req EXCEPT ![w] = [Idle EXCEPT !.step = "refresh_found", !.tok = t,
                                              !.user = rt[t].user, !.tenant = ctx]]
    /\ UNCHANGED <<now, active, rt, lock, parent>>

\* revoke_token: UPDATE ... WHERE id = tok, whatever revoked_at is by now
RefreshRevoke(w) ==
    /\ req[w].step = "refresh_found"
    /\ Stored(req[w].tok)
    /\ lock[req[w].tok] = None
    /\ lock' = [lock EXCEPT ![req[w].tok] = w]
    /\ req' = [req EXCEPT ![w].step = "refresh_revoked"]
    /\ UNCHANGED <<now, active, rt, parent>>

RefreshLoadUser(w) ==
    /\ req[w].step = "refresh_revoked"
    /\ TenantOf[req[w].user] = req[w].tenant
    /\ active[req[w].user]
    /\ req' = [req EXCEPT ![w].step = "refresh_loaded"]
    /\ UNCHANGED <<now, active, rt, lock, parent>>

\* mutant of RefreshDenied: the revocation was committed and is undone by hand
RefreshDeniedUndone(w) ==
    /\ req[w].step = "refresh_revoked"
    /\ TenantOf[req[w].user] # req[w].tenant \/ ~active[req[w].user]
    /\ rt' = [rt EXCEPT ![req[w].tok].revoked = FALSE]
    /\ lock' = Unlocked(w)
    /\ Finish(w)
    /\ UNCHANGED <<now, active, parent>>

\* mutant of RefreshDenied: the transaction is left open
RefreshDeniedLeaks(w) ==
    /\ req[w].step = "refresh_revoked"
    /\ TenantOf[req[w].user] # req[w].tenant \/ ~active[req[w].user]
    /\ Finish(w)
    /\ UNCHANGED <<now, active, rt, lock, parent>>

\* The user is gone from the tenant or inactive: the error drops the
\* transaction, which rolls the revocation back.
RefreshDenied(w) ==
    /\ req[w].step = "refresh_revoked"
    /\ TenantOf[req[w].user] # req[w].tenant \/ ~active[req[w].user]
    /\ lock' = Unlocked(w)
    /\ Finish(w)
    /\ UNCHANGED <<now, active, rt, parent>>

\* mutant of RefreshCommit: the new row is stored, the old one not revoked
RefreshCommitKeepsOld(w) ==
    /\ req[w].step = "refresh_loaded"
    /\ \E n \in TokenIds :
        /\ Fresh(n)
        /\ rt' = [rt EXCEPT ![n] = NewRow(req[w].tenant, req[w].user, RefreshTtl)]
        /\ parent' = [parent EXCEPT ![n] = req[w].tok]
    /\ lock' = Unlocked(w)
    /\ Finish(w)
    /\ UNCHANGED <<now, active>>

RefreshCommit(w) ==
    /\ req[w].step = "refresh_loaded"
    /\ \E n \in TokenIds :
        /\ Fresh(n)
        /\ rt' = [rt EXCEPT ![req[w].tok].revoked = TRUE,
                            ![n] = NewRow(req[w].tenant, req[w].user, RefreshTtl)]
        /\ parent' = [parent EXCEPT ![n] = req[w].tok]
    /\ lock' = Unlocked(w)
    /\ Finish(w)
    /\ UNCHANGED <<now, active>>

-----------------------------------------------------------------------------
(* Revocation of one token: POST /auth/logout and POST /oauth/revoke *)

LogoutFind(w, u, ctx, t) ==
    /\ req[w] = Idle
    /\ AuthCtx(u, ctx)
    /\ FindValid(t, ctx)
    /\ rt[t].user = u
    /\ req' = [req EXCEPT ![w] = [Idle EXCEPT !.step = "revoke_found", !.tok = t,
                                              !.user = u, !.tenant = ctx]]
    /\ UNCHANGED <<now, active, rt, lock, parent>>

\* try_revoke_refresh reads without a tenant and without the expiry filter.
OauthRevokeFind(w, u, t) ==
    /\ req[w] = Idle
    /\ Stored(t) /\ ~rt[t].revoked
    /\ rt[t].user = u
    /\ req' = [req EXCEPT ![w] = [Idle EXCEPT !.step = "revoke_found", !.tok = t,
                                              !.user = u, !.tenant = rt[t].tenant]]
    /\ UNCHANGED <<now, active, rt, lock, parent>>

RevokeCommit(w) ==
    /\ req[w].step = "revoke_found"
    /\ Stored(req[w].tok)
    /\ lock[req[w].tok] = None
    /\ rt' = [rt EXCEPT ![req[w].tok].revoked = TRUE]
    /\ Finish(w)
    /\ UNCHANGED <<now, active, lock, parent>>

\* The row was cleaned up since it was read: the UPDATE matches nothing and
\* SeaORM reports an error.
RowGone(w) ==
    /\ req[w].step \in {"refresh_found", "revoke_found"}
    /\ rt[req[w].tok].state = "deleted"
    /\ Finish(w)
    /\ UNCHANGED <<now, active, rt, lock, parent>>

-----------------------------------------------------------------------------
(* Revocation of all tokens of a user: POST /auth/revoke, and the password *)
(* reset, whose tenant is its user's                                       *)

\* The UPDATE takes its snapshot ...
SweepStart(w, u, ctx) ==
    /\ req[w] = Idle
    /\ AuthCtx(u, ctx)
    /\ LET seen == {t \in TokenIds : /\ Stored(t) /\ ~rt[t].revoked
                                     /\ rt[t].tenant = ctx /\ rt[t].user = u}
       IN req' = [req EXCEPT ![w] = [Idle EXCEPT !.step = "sweep", !.user = u, !.tenant = ctx,
                                                 !.snap = seen, !.todo = seen]]
    /\ UNCHANGED <<now, active, rt, lock, parent>>

\* mutant of SweepRow: SKIP LOCKED
SweepRowSkipsLocked(w) ==
    /\ req[w].step = "sweep"
    /\ \E t \in req[w].todo :
        /\ \A s \in req[w].todo : t <= s
        /\ lock' = IF Dead(t) \/ lock[t] # None THEN lock ELSE [lock EXCEPT ![t] = w]
        /\ req' = [req EXCEPT ![w].todo = @ \ {t}]
    /\ UNCHANGED <<now, active, rt, parent>>

\* ... and reaches its rows in table order, waiting for each row's lock and
\* then judging the row as it is committed by now.
SweepRow(w) ==
    /\ req[w].step = "sweep"
    /\ \E t \in req[w].todo :
        /\ \A s \in req[w].todo : t <= s
        /\ lock[t] = None
        /\ lock' = IF Dead(t) THEN lock ELSE [lock EXCEPT ![t] = w]
        /\ req' = [req EXCEPT ![w].todo = @ \ {t}]
    /\ UNCHANGED <<now, active, rt, parent>>

SweepCommit(w) ==
    /\ req[w].step = "sweep"
    /\ req[w].todo = {}
    /\ rt' = [t \in TokenIds |-> IF lock[t] = w THEN [rt[t] EXCEPT !.revoked = TRUE] ELSE rt[t]]
    /\ lock' = Unlocked(w)
    /\ Finish(w)
    /\ UNCHANGED <<now, active, parent>>

-----------------------------------------------------------------------------
(* Sign-in.  Password login, the MFA challenge and passkeys read is_active; *)
(* the social-login callback and the code exchange do not.                  *)

\* mutant of SignInLoad: the user is looked up without row-level security, in
\* the tenant the request names
SignInLoadAnyTenant(w, u, checksActive) ==
    /\ req[w] = Idle
    /\ checksActive => active[u]
    /\ IdLeft
    /\ \E ctx \in Tenants :
        req' = [req EXCEPT ![w] = [Idle EXCEPT !.step = "sign_in", !.user = u, !.tenant = ctx]]
    /\ UNCHANGED <<now, active, rt, lock, parent>>

SignInLoad(w, u, checksActive) ==
    /\ req[w] = Idle
    /\ checksActive => active[u]
    /\ IdLeft
    /\ req' = [req EXCEPT ![w] = [Idle EXCEPT !.step = "sign_in", !.user = u,
                                              !.tenant = TenantOf[u]]]
    /\ UNCHANGED <<now, active, rt, lock, parent>>

SignInCommit(w, ttl) ==
    /\ req[w].step = "sign_in"
    /\ \E n \in TokenIds :
        /\ Fresh(n)
        /\ rt' = [rt EXCEPT ![n] = NewRow(req[w].tenant, req[w].user, ttl)]
    /\ Finish(w)
    /\ UNCHANGED <<now, active, lock, parent>>

-----------------------------------------------------------------------------
(* The rest of the system *)

\* set_active, from PUT and DELETE /users/{id}; tokens are left alone
SetActive(u, b) ==
    /\ active' = [active EXCEPT ![u] = b]
    /\ UNCHANGED <<now, rt, lock, req, parent>>

\* cleanup_expired_tokens: one DELETE, which waits for locked rows
Cleanup ==
    LET expired == {t \in TokenIds : Stored(t) /\ rt[t].expires_at < now} IN
    /\ expired # {}
    /\ \A t \in expired : lock[t] = None
    /\ rt' = [t \in TokenIds |-> IF t \in expired THEN [rt[t] EXCEPT !.state = "deleted"] ELSE rt[t]]
    /\ UNCHANGED <<now, active, lock, req, parent>>

\* A request ends early: the client disconnects and the future is dropped,
\* a statement fails, or the process dies.  Its transaction rolls back.
Abort(w) ==
    /\ req[w] # Idle
    /\ lock' = Unlocked(w)
    /\ Finish(w)
    /\ UNCHANGED <<now, active, rt, parent>>

Tick ==
    /\ now < MaxTime
    /\ now' = now + 1
    /\ UNCHANGED <<active, rt, lock, req, parent>>

\* what a request does once it has started
Proceed(w) ==
    \/ RefreshRevoke(w) \/ RefreshLoadUser(w) \/ RefreshDenied(w) \/ RefreshCommit(w)
    \/ RevokeCommit(w) \/ RowGone(w)
    \/ SweepRow(w) \/ SweepCommit(w)
    \/ \E ttl \in SignInTtls : SignInCommit(w, ttl)

Start(w) ==
    \/ \E ctx \in Tenants, t \in TokenIds : RefreshFind(w, ctx, t)
    \/ \E u \in Users, ctx \in Tenants, t \in TokenIds : LogoutFind(w, u, ctx, t)
    \/ \E u \in Users, t \in TokenIds : OauthRevokeFind(w, u, t)
    \/ \E u \in Users, ctx \in Tenants : SweepStart(w, u, ctx)
    \/ \E u \in Users, b \in BOOLEAN : SignInLoad(w, u, b)

Next ==
    \/ \E w \in Workers : Start(w) \/ Proceed(w) \/ Abort(w)
    \/ \E u \in Users, b \in BOOLEAN : SetActive(u, b)
    \/ Cleanup
    \/ Tick

Spec == Init /\ [][Next]_vars

\* The runtime keeps polling every request, and PostgreSQL hands a row lock
\* to its waiters in turn, so a request that can go on again and again does.
FairSpec == Spec /\ \A w \in Workers : SF_vars(Proceed(w))

-----------------------------------------------------------------------------
(* Properties *)

Children(t) == {n \in TokenIds : parent[n] = t}

Live(t) == Stored(t) /\ ~rt[t].revoked

\* Rotation is atomic: wherever a request stops, a token that came out of
\* /auth/refresh is in the table only if the token it replaces is dead.
RotationAtomic ==
    \A n \in TokenIds : parent[n] # None => Dead(parent[n])

\* A row's tenant is its user's tenant, whatever tenant header, master-tenant
\* admin or stale read the requests came with.
TenantBound ==
    \A t \in TokenIds : rt[t].user # None => rt[t].tenant = TenantOf[rt[t].user]

\* A token is exchanged at most once per request in flight: every request that
\* found the token valid did so before its revocation was committed.
ForkBound ==
    \A t \in TokenIds : Cardinality(Children(t)) <= Cardinality(Workers)

\* A dead token is never valid again, through rollbacks and late UPDATEs.
NeverRevived ==
    [][\A t \in TokenIds : Dead(t) => Dead(t)']_vars

\* When revoke-all commits, every row its statement saw is dead, also the
\* rows it had to wait for (the other transaction may have rolled back).
SweptRowsDead ==
    [][\A w \in Workers : SweepCommit(w) => \A t \in req[w].snap : Dead(t)']_vars

\* No request waits for ever: the row locks are always given back, and
\* revoke-all and rotation never wait for each other in a circle.
RequestsEnd ==
    \A w \in Workers : (req[w] # Idle) ~> (req[w] = Idle)

-----------------------------------------------------------------------------
(* What the documentation says and the code does not do *)

\* docs/architecture.md:100: each /auth/refresh call issues a new token and
\* invalidates the old one, so a token has one successor.
SingleSuccessor ==
    \A t \in TokenIds : Cardinality(Children(t)) <= 1

\* revoke.rs:16: "All refresh tokens revoked" when /auth/revoke answers 204.
\* A sign-in that began later may of course keep its token; a token rotated
\* from one the statement saw belongs to what it was asked to end.
AllRefreshTokensRevoked ==
    [][\A w \in Workers : SweepCommit(w) =>
          \A n \in TokenIds : parent[n] \in req[w].snap => ~Live(n)']_vars
=============================================================================
