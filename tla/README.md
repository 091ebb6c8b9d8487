# TLA+ models of OVLT

OVLT (`src/ovlt-core`, `src/ovlt-cli`) is a multi-tenant identity server: an Axum
HTTP service over PostgreSQL, and a terminal client for its administrators. The
modules of this directory model the parts of the server that decide who may sign
in, who is signed in and for how long, at the level of the SQL statements its
handlers await, and the terminal client, key by key. TLC checks them on small
instances; TLAPS proves every safety property that they check and find to hold, for
every value of the constants. `PROJECT.json` maps each definition to the lines
it translates.

    tlc -workers 2 -config RefreshTokens.cfg MCRefreshTokens
    tlapm RefreshTokensProofs.tla

## 1. The system

### How it runs

`main.rs` opens a connection pool (`db.rs`), runs the migrations, bootstraps a
master tenant, starts a loop that cleans up every six hours, and serves. Each
HTTP request is a future of the Tokio runtime; a client that hangs up drops the
future, and with it an open transaction, which rolls back. Several server
processes may share one database, so almost all of the state that matters is in
PostgreSQL tables, and the interleavings that matter are those of statements and
transactions. The database runs at its default isolation, READ COMMITTED: a
statement sees what was committed when it began; an `UPDATE` or `DELETE` waits
for a row another transaction has updated and then judges the row as it is by
then. Row-level security hides from a tenant's transaction
(`begin_tenant_txn`: `SET LOCAL ROLE`, `app.tenant_id`) the rows of every other
tenant; statements on the pool itself run as the owner of the tables.

A request to a public auth route passes `rate_limit_middleware`, then
`tenant_middleware` (tenant header, decrypted key from a five-minute cache). A
request to a protected route passes `tenant_middleware`, then `auth_middleware`
(JWT, then the blocklist). `/oauth/*` and the admin routes check for themselves.

### Components

| Component | State | Operations | Hard behaviour | What makes it correct |
|---|---|---|---|---|
| Refresh tokens | `refresh_tokens` | sign-in, rotate, logout, RFC 7009 revoke, revoke all, cleanup | two rotations of one token; revoke-all against a rotation that holds a row; requests dropped half way | rotation is atomic, dead tokens stay dead, revoke-all ends what it saw, rows stay in their tenant |
| Access tokens | none but `revoked_jtis`; the secrets in the environment | issue, validate, look up, logout, revoke, introspect, cleanup, restart | revocation between validation and lookup; expiry against leeway; a rotated secret | a revoked token is listed until it expires; only requests in flight slip through |
| Account lockout | `login_attempts` | `is_locked`, record, clear, cleanup | logins that pass the check together; a success that clears the failures of an attack | bounded failures per window; only time or an earlier login unlocks |
| Rate limiting | `rate_limit_buckets` | upsert, verdict, cleanup | several processes, skewed clocks, lost answers, cleanup of a bucket still in use | exactly the first N counted requests of a window are allowed |
| Tenant settings | `tenant_settings`, `password_policies` | get, put of four sections | read-modify-write without a transaction | a setting is lost only to an overlapping save |
| Authorization codes | `authorization_codes`, `oauth_clients` | authorize, exchange, deactivate client | `used_at` read before the transaction that sets it | a code is used exactly if tokens were issued for it |
| MFA | `totp_secrets`, `mfa_backup_codes` | setup, confirm, disable, challenge | backup code consumed twice; setup that deletes an enabled secret; activation of a secret that replaced the confirmed one | a code works once; a second factor never vanishes without its owner's consent |
| One-time tokens | `one_time_tokens` | create, consume | consumed before the checks that may refuse; consumed twice | a token is used once, and not for nothing |
| Sessions | `sessions` | create, look up, touch, revoke, cleanup | sessions that outlive reset, logout, deactivation | an ended login has no session |
| Passkeys | `webauthn_credentials`; challenges in memory | register, authenticate | challenges without expiry, lost at restart; the counter | a challenge is answered once |
| Social login | `oauth_accounts`, `identity_providers` | redirect, callback | two first callbacks of a user | one account per identity |
| Users | `users`, `password_history` | register, update, deactivate, change password | registration races; history against reset | one user per email; no recent password again |
| Roles, permissions | five tables | create, grant, revoke | roles in tokens already issued | a grant refers to what exists |
| Tenants, bootstrap | `tenants`, seeds | create, seed, first start | a crash between the tenant and its administrator; two first starts | a tenant is usable or absent |
| Tenant context | key cache in memory | resolve, decrypt, cache | a stale key | a key is its tenant's |
| Connection pool | connections | acquire, release | a second acquisition while one is held | not everyone waits on everyone |
| Admin authorization | none | `require_admin` | no blocklist, no `is_active` | an administrator stripped of the role is refused |
| OIDC metadata, keys | keys, constant after start | serve | - | - |
| Email, audit | `tenant_smtp_config`, `audit_log` | send, append | best effort | - |
| Admin TUI | screens, forms, modals | key events, API calls | focus and modal stacks | a dialog's answer goes to its dialog |

### Interactions

- *Sign-in* (password, MFA challenge, passkey, social callback, code exchange)
  stores a refresh token and signs an access token. All five are
  `SignInLoad; SignInCommit` in `RefreshTokens`. `AuthorizationCodes` details the last.
- *Login* asks the lockout, verifies, commits the tokens, and then records or
  clears failures, outside the transaction.
- *Logout* writes the blocklist, on a connection of its own, before it revokes
  the refresh token in its transaction.
- *Password reset* ends with the revoke-all of `RefreshTokens`.
- *Deactivation* of a user writes `users.is_active`, which rotation and three of
  the five sign-ins read; tokens are left alone.
- *The cleanup loop* runs one `DELETE` on each of five tables every six hours:
  refresh tokens, login attempts, blocklist, sessions, rate-limit buckets.

## 2. The modules

Each component has a module (state, `Init`, one action per step), an `MC` module
that instantiates it for TLC and, where there are theorems, a `Proofs` module.
`TenantProofs` proves two components, `Directory` and `TenantSettings`, and `AccessProofs`
two, `AccessTokens` and `AdminTui`: the definitions of the second of each pair carry
names of their own (`TuiInit`, `NoTenant`, ...), so that one module can extend both.

| Module | Models | State and actions in the code |
|---|---|---|
| `RefreshTokens` | the `refresh_tokens` table and all its writers | `rt` the committed rows; `lock` row locks; `req` each request's progress. Rotation: `RefreshFind`, `RefreshRevoke`, `RefreshLoadUser`, `RefreshCommit` or `RefreshDenied` (`refresh.rs`). Logout and `/oauth/revoke`: `LogoutFind`, `OauthRevokeFind`, then `RevokeCommit` or `RowGone`. Revoke-all: `SweepStart` (the snapshot), `SweepRow` per row, `SweepCommit`. `Abort` is a dropped request |
| `AccessTokens` | issuing, validation, the blocklist | `tok` the claims of tokens (stored nowhere in the code), `blocklist` the `revoked_jtis` rows, `secret`/`previous` the configuration. `Validate`, `Lookup`, then `Serve` or `Logout`; `OauthRevoke`; `Cleanup`; `Restart` |
| `Lockout` | `lockout_service.rs` and the password step of the logins | `attempts` the rows; `Check`, `Refuse`/`Verify`, `RecordAttempt`/`ClearAttempts`, `Abandon`, `Cleanup` |
| `FixedWindowLimiter` | the promise of a fixed-window limiter | `answers`; `Allow`, `Deny`, `Lose` |
| `RateLimit` | `rate_limit_service.rs` and its middleware | `buckets` the rows, `requests`; `Arrive` reads the process's clock, `Execute`/`ExecuteLost`/`Fail` the statement, `Cleanup`. Implements `FixedWindowLimiter` under the mapping `Answers` |
| `TenantSettings` | saves of the lockout, token and registration sections | `row`; `Get`, `Find`, `Update` or `Insert`, `Fail` |
| `AuthorizationCodes` | the authorization-code grant | `codes`, `active`, `locks`; `AuthorizeClient`, `AuthorizeCommit`; `Load`, `CheckClient` or `Refuse`, `MarkUsed`, `Commit`, `Rollback`; `Deactivate` |
| `SecondFactor` | TOTP secret and backup codes of one user | `row` in `totp_secrets` and its locks, `codes` in `mfa_backup_codes` and theirs, `active`, `mfaToken`. Login: `LoginUser`, `LoginFactor`, `LoginCommit`. Challenge: `ChallengeFind`, then `ChallengeTotp` or `BackupFind`, `BackupMark`, then `ChallengeUser`, `ChallengeCommit`. Setup: `Setup`, `DropSecret`, `SetupInsert` or `SetupConflict`, `SetupCommit`. Confirmation: `ConfirmFind`, `ActivateFind`, `ActivateUpdate`, `ConfirmCommit`. Disabling by the user or an administrator: `DisableFind`, `Disable` or `AdminDisable`, `DropSecret`, then the codes (`SweepStart`, `SweepCode`), `DisableCommit`. New codes: `GenerateFind`, the same sweep, `GenerateCommit`. `Rollback` |
| `Credentials` | the password of one user, its history, its reset links and verification codes, and the refresh token and browser session of each login | `user`, `userLock`, `history`, `link`, `otp`, `otpLock`, `token`, `session`. `ForgotPassword`, `IssueResetToken`, `IssueOTP`, `OneTimeExpires`; the reset: `ConsumeFind`, `ConsumeMark` (each on a connection of its own), `ResetBegin`, `CheckHistory`, `WriteUser`, `RevokeAll`, `ResetCommit`; the administrator's update: `UpdateBegin`, `UpdateEmail` or `CheckHistory`, `WriteUser`, `UpdateCommit`; `VerifyFind`, `VerifyMark`, `VerifyCommit`; `LoginFind`, `LoginCommit`, `LoginSession`; `AuthorizeFind`, `AuthorizeCommit`; `Logout`, `LogoutSession`; `DeleteSession`, `SessionExpires`; `Rollback` |
| `Directory` | one tenant: first start or `POST /tenants`, seed, users, social accounts, one role and one permission, the administrators' tokens | `tenant`, `users`, `account`, `role`, `permission`, `linked`, `held`, `scoped`, `admins`. Bootstrap: `BootstrapCount`, `InsertTenant`, the `Seed*` steps, `BootstrapUser`, `AssignAdmin`, each transaction of its own as in `bootstrap_service.rs`; `CreateTenant`; `Register*`, `Callback*`, `Login*`; the changes an administrator makes; `Rollback` |
| `AdminApp` | the state of the terminal, the calls it makes and the functions of `tui.rs` that make them | an `App` (mode, focus, tab, dialog with what is filled in, lists with the tenant they were read for, token, config file) beside the tenants the server has. A function is an operator from an `App` to the set of those it may leave: every call may succeed, fail, or find the session expired |
| `AdminTui` | the key handlers | one variable, `app`; one key with everything its handler awaits is one step, as in the loop of `run` |

Conventions shared by the modules of the server:

- A *worker* is a request being served. A handler is split at the statements it
  awaits. Writes of an open transaction are kept in the request (and its row
  locks) and applied by the action that commits, because nobody else sees them
  earlier. A request that is refused before it writes anything has no action.
- `Abort`, `Abandon`, `Rollback` and `Fail` stand for a dropped future, a failed
  statement and a crash of the process alike: the database undoes the
  transaction. What was committed before stays.
- Tokens, codes, emails and addresses are ids; hashing and encryption are
  injective and left out. Cryptographic checks are the guards they imply.
- Variables marked *history* (`parent`, `firstRow`, `lockedAt`, `issued`, ...)
  are not read by any guard. They state properties.
- An operator with the comment *mutant of X* is a plausible bug in `X`, used to
  see that a property notices it (`PROJECT.json`, mutants). No specification uses one.
- `SecondFactor` and `Credentials` follow one user, `Directory` one tenant: every
  statement they model names the user or the tenant, or runs under its row-level
  security, so that two users or tenants share no row there. `RefreshTokens`, where a
  master-tenant user can name another tenant, has both.
- An `UPDATE` or `DELETE` that looks at several rows is split into a start, which
  notes the rows committed at that moment, and a step per row, which waits for its
  lock and passes over a row that is gone by then. An `UPDATE` by primary key that
  finds no row is an error of the ORM and ends the request.

Row locks are taken in the order of insertion by the revoke-all statement (a
scan of the table). The code's comment above `cleanup_expired_tokens` says that
`refresh_tokens` does not force row-level security; migration `000009` forces it.
The cleanup still reaches every row where the server's database user is a
superuser, as the `POSTGRES_USER` of `docker-compose.yml` is; that deployment is
what `Cleanup` and `OauthRevokeFind` model.

## 3. What the runs check

| Run | Instance | Result |
|---|---|---|
| `refresh` | 2 requests, 4 tokens, clock 0..2 | `RotationAtomic`, `ForkBound`, `NeverRevived`, `SweptRowsDead` hold |
| `refresh_live` | 2 requests, 3 tokens, 1 master-tenant user, 2 tenants, clock 0..2, fair | `TenantBound` holds, and `RequestsEnd`: nobody waits for a row for ever |
| `access` | 2 requests, 2 tokens, 2 secrets, clock 1..5, fair | `BlockedUntilExpiry`, `OnlyInFlightSlipThrough`, `BlocklistDrains` hold |
| `access_logout` | 1 request, 1 token, 2 secrets, no failing insert | `LogoutRevokes` is violated |
| `lockout` | 2 logins, 2 accounts, limit 2, clock 0..3 | `FailuresBounded`, `OnlyEarlierLoginUnlocks`, `CleanupKeepsRecent` hold |
| `rate` | 3 requests, 1 client, limit 2, window 2, skew 1, delay 1, clock 0..6 | the refinement `IsFixedWindowLimiter` holds |
| `settings` | 3 saves, 3 sections, 2 values | `OnlyOverlapDisturbs`, `InsertDisturbsNothing` hold |
| `codes` | 2 requests, 2 codes, 2 clients, clock 0..2, fair | `RedemptionAtomic`, `RedemptionsBounded`, `RequestsEnd` hold |
| `mfa` | 2 requests, 2 secrets, 3 backup codes in batches of 1 (953 430 states) | `BackupUsesBounded`, `LoginsChallenged`, `EnabledAccounted`, `SweptCodesDead`, `NoDeadlock` hold |
| `accounts` | 2 requests, 2 passwords, a history of 1, 1 reset link, 1 verification code, 1 login, 3 changes (1 639 198 states) | `ResetsBounded`, `SpentBeforeReset`, `NoReuse`, `ResetEndsLogins`, `EndedSessionsQuiet` hold |
| `directory` | 2 requests or starting processes, 2 users, 2 addresses, 1 identity, 2 changes (791 701 states) | `TypeOK`, `SeedAtomic`, `TenantsSeeded`, `OneUserPerAddress`, `ClaimsOfMoment`, `AdminsHadRole`, `IdentitySignsIn` hold |
| `tui` | 2 tenants, 1 fault (837 618 states) | `TuiTypeOK`, `DialogsOutliveSession`, `WizardComplete`, `OnlyNewTenantLeavesRows`, `RequestsScoped` hold |

A run checks what bears on a hazard or has no proof. Where a property that is proved for
every instance adds nothing to the others of its run, it is stated in its module and left
out of the cfg: the type invariants but two, `NeverShortened`, `CountsExecuted`,
`CleanupAfterWindow`, `UsedInTime`, `LocksHeld`, `ConsumptionAtomic`,
`DeadCodesStayDead`, `CurrentRecorded`, `VerifiedByCode`, `SessionsOfLogins`,
`OneCreation`, `LinksStay`. Any of them may be named in the cfg of its module.

What the properties of the larger modules say:

- *A backup code or a reset link* can be consumed by every request that read it unused
  before the first of them marked it, and by no other (`BackupUsesBounded`,
  `ResetsBounded`): the code reads and writes in two statements. A spent link stays
  spent whatever happens to the reset (`SpentBeforeReset`).
- *A login without challenge* (`LoginsChallenged`) happens only to a user who had no
  factor on when it began, or whose factor was replaced or removed since. A secret is
  on only if a code of it was verified, or if its setup committed in the middle of
  another confirmation (`EnabledAccounted`), which turns on whichever secret it finds.
- *A reset* ends all earlier logins but those already past the password check
  (`ResetEndsLogins`); an ended session gives codes only to requests that saw it alive.
- *A tenant* that was created is usable unless its creation was cut off
  (`TenantsSeeded`, `SeedAtomic`); a token says no more than the roles of one moment, unless they were
  changed while it was made (`ClaimsOfMoment`), and an administrator's token means that
  the role was there (`AdminsHadRole`).
- *The terminal* sends a call for the tenant that its rows were read from
  (`RequestsScoped`), keeps no rows of another tenant but after one shortcut
  (`OnlyNewTenantLeavesRows`), leaves no dialog open over a session that ended, save the
  wizard's second page and the error alert (`DialogsOutliveSession`), and its wizard does not skip a step (`WizardComplete`).

### Why the bounds are enough

- *Requests.* A race in this code is between two transactions on one row, so two
  requests show it. The rate limiter needs three, to pass its limit of two. The
  properties that depend on the number of requests (`ForkBound`,
  `FailuresBounded`) have it as a parameter and are proved for every number.
- *Tokens.* Four ids let one token get three successors, one more than
  `ForkBound` allows; `IdLeft` keeps a request from starting an insert that has
  no id left, so no request is stuck by the bound.
- *Time.* A lifetime of one tick and a clock that runs two ticks past it let a
  row be valid, expire, and be cleaned up while a request still refers to it.
  `AccessTokens` only issues a token whose whole life fits the clock
  (`ClockReachesEnd`), so that no property holds for want of time.
- *Rows of `login_attempts`, saves, secrets* are bounded by `MaxRows`, `MaxSaves`,
  `MaxSecret`: enough for one more failure than the limit, for each of three
  saves to be written, and for one rotation of the secret.
- *Secrets, codes, links, passwords.* Two secrets let a setup replace the one a
  confirmation or a login has read; three backup codes in batches of one let a code be
  deleted by a generation while a challenge marks it, twice. One link and one
  verification code are enough for the races on a row; three changes let two overlap
  and a third come after, which is what the order of the history depends on; one login
  is enough for `ResetEndsLogins`, which speaks of one at a time. `BackupUsesBounded`, `ResetsBounded` and
  the others proved in section 4 hold for every number of each.
- *Tenants of the terminal.* Two, one of which may be created on the way, are enough
  for a row, a dialog or a call to belong to the wrong one. One fault is a call that
  fails or a session that ends, at any call of any handler. `RequestsScoped` speaks of
  runs without faults: after one the lists may be older than the switch.
- *Directory.* Two processes race for the first start; two addresses separate the
  administrator's from another user's; two changes let a role be renamed or removed and
  come back under a token.
- `SignInTtls` and `RefreshTtl` are sets or single values; the code's lifetimes come from the
  settings, and only whether a row has expired matters to the properties.
- Deadlock checking is off in `Lockout`, `RateLimit` and `AuthorizationCodes`,
  whose bounded clock and tables leave an idle server with nothing to do.
  The other runs check it: in the terminal a key can always be pressed, and the servers
  of the other modules can always begin or drop a request.
- Symmetry (requests, accounts, sections, codes, links, passwords) is used for safety runs only.

### Fairness

- `RefreshTokens.FairSpec`: strong fairness of what a started request does next.
  The Tokio runtime keeps polling every future, and PostgreSQL hands a row lock
  to its waiters in their turn, so a request whose row is free again and again
  gets it. Nothing is assumed of new requests, aborts, the cleanup or the clock.
- `AuthorizationCodes.Fairness`: the same, strong only for `MarkUsed`, the one
  step that waits for a row; weak for the others. `Rollback` is not fair.
- `AccessTokens.FairSpec`: weak fairness of the clock and of the cleanup loop:
  the process is up for six hours again and again.
- The safety properties do not depend on fairness. `SecondFactor`, whose requests wait
  for each other's rows in several places, has `NoDeadlock`, which is proved: no set of
  requests all of which wait for one of the set. Liveness is not claimed elsewhere.

### Disagreements between the code and what is said of it

One has a run and a counterexample (`PROJECT.json`, findings): `access_logout` violates
`LogoutRevokes`. The comment at `handlers/logout.rs:47` says that logout revokes the
access token; a token signed under the previous secret is listed with the epoch as its
expiry, and the next cleanup drops it while it is still accepted.

The others were met while modelling and have no run of their own. Those named here are
stated in the last section of their module, where a configuration can name them; TLC
finds a counterexample on the instance of the run.

Tokens and codes:

- `AllRefreshTokensRevoked` (`handlers/revoke.rs:16`, "All refresh tokens revoked"): a
  rotation that commits after the statement's snapshot leaves its new token valid.
- `IntrospectionHonoursBlocklist` (`docs/architecture.md:95`, `docs/security.md:23`):
  `introspect` does not look at `revoked_jtis`; `tests/auth_test.rs:555` calls it a known gap.
- `LockLastsDuration` (`docs/admin-tui.md:256`): the setting is never read; the lock
  ends when the oldest counted failure leaves the window.
- `SingleUse` (`docs/database.md:352`, `tests/oidc_test.rs:395`): two exchanges that
  both read the code unused both succeed.
- `SingleSuccessor` (`docs/architecture.md:100`): a refresh token raced by two
  rotations gets two successors. `ForkBound` says what does hold.
- `docs/security.md:99` promises (and line 22 repeats) that reuse of a rotated token ends the session;
  the code answers 401 and changes nothing.
- `RevokedNeverAccepted` (`docs/security.md:104`): the cleanup drops a row at
  `exp`, but validation accepts the token for 60 s more (the JWT library's leeway).
- `RevocationLeavesRow` (`token_service.rs:212`): `.ok()` is there for conflicts
  and drops every other error of the insert as well.
- `LockedAfterMaxAttempts` (`docs/security.md:85`): concurrent logins can record more failures
  than the limit. `FailuresBounded` says how many.
- `CleanupKeepsRecent` fails when a tenant's window is longer than the cleanup's
  fixed 60 minutes (`Window > CleanupWindow`); the theorem has that assumption.
- `SlidingWindow` (`docs/security.md:130`): windows are fixed, so twice the limit
  passes around a border. Line 132 there says limits are per process; they are
  counted in PostgreSQL.
- `SavesOnlyItsSection` (`docs/admin-tui.md:331`): a save writes every section.

Second factor:

- `BackupSingleUse` (`docs/database.md:350`, `tests/auth_test.rs:600`): two challenges
  that both read the code unused both succeed.
- `OnlyDisableTurnsOff` (`docs/mfa.md`, "Disable MFA"): setting the factor up again
  deletes the enabled secret without asking for a code, and the login is not challenged
  until the new one is confirmed.
- Two overlapping generations leave both batches of backup codes: neither deletes the
  codes the other has yet to commit.

Passwords, sessions, one-time tokens:

- `ResetEndsSessions` (`handlers/reset_password.rs:86`, "so existing sessions must
  re-login"): the browser sessions stay, and a session is enough for `/oauth/authorize`.
- `SessionEndsToken` (`docs/admin-tui.md:228`): deleting a session leaves the refresh
  token of its login.
- `InitialCounts` (`docs/security.md:81`): the password an account was created with is in
  no history.
- A password that the policy or the history refuses costs the user the link, which is
  consumed first, outside the transaction.
- `cleanup_expired` of one-time tokens has no caller: the rows stay for ever.

Tenants, users, roles:

- A first start cut off between the tenant and the last of its steps leaves a tenant without
  administrator or seed, and no later start repairs it: there is a tenant by then.
- `role_service::assign` and `permission_service::assign_to_role` drop every error of
  their insert ("ignore conflict"), which has already aborted the transaction by then: the `COMMIT` rolls
  back, and the seed or the call reports that it worked.
- `require_admin` looks at the claims alone: a role that is taken away counts until the token
  expires, and an administrator of the master tenant may act in every tenant.
- The social callback looks at neither `is_active` nor the second factor.
- `docs/social-login.md:131` has addresses matched case-insensitively; the callback looks the
  address up as the provider spells it. Line 128 there has an existing account updated;
  it is read only.

Terminal:

- `SettingsOfActive` (`docs/admin-tui.md:330`): a switch of the tenant in the sidebar leaves the
  settings of the one before on the screen, and a save writes them to the new one.
  Values typed before `Esc` are kept and saved by the next `Enter`.
- After a login with the universal form the code of the second factor is always sent to the tenant
  `master` (`tui.rs:570`), whatever tenant answered the login.
- `Enter` after a tenant was created makes it the active one without forgetting the
  lists of the one before.
- `perform_edit_user`, `perform_edit_role` and `perform_save_client_roles` ignore
  role calls that fail, and write back the snapshot their dialog was opened with, which undoes
  concurrent changes. `load_settings` ignores failures as well.
- A dialog may open over the login screen when a session ends inside
  `perform_create_role` or after the creation of a tenant; `Esc` in the wizard's step 3 loses
  the secret of the client it has just made.
- `list_tenants` has no order: the selected index may name another tenant after a reload.

## 4. What is proved

`*Proofs.tla` hold the theorems. Each rests on its module's
`ConstantsAssumption` (`TerminalAssumption` in the terminal), which TLC evaluates in
every run, and on nothing else except where said. None depends on the bounds being small.

- **RefreshTokensProofs.** `TenantBound`, `RotationAtomic`, `NeverRevived`,
  `SweptRowsDead` and `ForkBound`, for any number of requests, users, tenants
  and tokens. None is inductive: a rotation commits long after it found its
  token, so `Inv` adds what a request knows at each step (`RequestOK`: its token
  was inserted, its tenant is its user's, revoke-all has killed or *locked*
  each row it passed), `RowsOK` (an unused id is blank) and `LocksOK` (only rows in the
  table are locked). A lemma, `NextMonotone`, says no step revives a
  row; it carries `RequestOK` over the steps of other requests (`OthersKept`).
  `ForkBound` needs a count: successors of a token plus requests in flight that
  found it never exceed the number of requests (`ForkInv`): a rotation moves one from
  the second number to the first, and once one has moved the token is dead and no request can enter.
- **AccessProofs**, of the tokens: `BlockedUntilExpiry`, `OnlyInFlightSlipThrough` and
  `NeverShortened`. The invariant: the first row a token gets is the row the table holds
  until the time in it has passed (`FirstRowStays`), and a request validated
  after the revocation is past the lookup only if the token has expired (`LateRequests`).
- **LockoutProofs.** `FailuresBounded`, by counting failures in the window plus
  logins in flight (`BusyBounded`), `OnlyEarlierLoginUnlocks` and, assuming
  `Window <= CleanupWindow`, `CleanupKeepsRecent`.
- **RateLimitProofs.** `CountsExecuted`, `CleanupAfterWindow` and the refinement
  `Spec => Limiter!Spec`. The invariant: a bucket outlives its window by a
  window, a bucket counts the requests executed in its window, and a window with
  executed requests but no bucket is over. It needs `Skew + MaxDelay <= Width`:
  a request waits at most ten seconds for its connection (`db.rs`,
  `acquire_timeout`), the window is a minute, so clocks of the processes may be
  50 s apart. Beyond that the cleanup may drop a bucket that still counts.

- **AuthorizationCodesProofs.** `RedemptionAtomic`, `UsedInTime`, `LocksHeld`,
  `RedemptionsBounded`. Tokens issued for a code plus exchanges of it under way never
  exceed the number of requests (`ExchangesBounded`); `ExchangesOK` says what an exchange
  has read of its code and that nobody but the holder of a lock can have marked it.
- **TenantProofs**, of the settings: `OnlyOverlapDisturbs` and `InsertDisturbsNothing`: a save
  that began at the present number of saves carries the values of the row (`SavesOK`).
- **TenantProofs**, of `Directory`: `TypeOK`, `SeedAtomic`, `TenantsSeeded`,
  `OneUserPerAddress`, `ClaimsOfMoment`, `AdminsHadRole`, `IdentitySignsIn`, `LinksStay`
  and `OneCreation`. Only one part of this needs a count: at most one creation is past
  its `INSERT` (`OnePast`), since the second would have met the tenant of the first. The rest is
  what a request carries at each of its steps: the record has the fields of its kind
  (`Forms`), the users and the account it holds are in the tables or its own (`UsersKnown`,
  `LinkKnown`, `FoundThere`), it holds the unique key it will insert (`EmailLocks`,
  `AccountLocks`), so that what two requests are about to insert
  differs (`RowsApart`, `AddressesApart`), and the roles it has read are those of the
  moment it notes, or the change that overtook it is on record (`ClaimsCurrent`, `ClaimsHeld`).
- **SecondFactorProofs.** `BackupUsesBounded` from a count of uses and challenges holding the code
  (`UsesBounded`); `SweptCodesDead` from what a deletion in progress has before and behind
  it: each row it saw is still ahead, locked by it, or gone (`SweepsOK`); `EnabledAccounted`,
  since an activation holds the row it read until it commits, `LoginsChallenged`, since
  secrets are never reused (setups under way plus secrets made stay within the bound) and
  a secret that is on is turned off by nothing but its deletion (`LoginsKnow`); and the
  action properties `ConsumptionAtomic` and `DeadCodesStayDead`. `LocksOK` ties each lock to a request at a
  step that holds one. `NoDeadlock` is proved from the order in which locks are taken
  (`OrderOK`): whoever holds a row of the secret is past the statement that took it, and the
  codes a deletion holds come before those it has yet to reach. In a set of requests that
  all wait for one of the set, whoever holds the greatest code waited for would have to wait
  for a greater one; and if none waits for a code, the holder of the secret would wait for itself.
- **CredentialsProofs.** `ResetsBounded`, `SpentBeforeReset`, `VerifiedByCode`,
  `CurrentRecorded`, `SessionsOfLogins`, `ResetEndsLogins`, `EndedSessionsQuiet`, `NoReuse`. The
  invariant has the shape of each kind of request; that a reset has marked its link
  before it changes anything (`MarkedBeforehand`); that two requests never carry the
  same login (`LoginsApart`); what a reset has yet to reach and which logins race with it
  (`RacersKnown`, `SeenOrRacing`, `StaleRace`); and the counts of changes, links and
  sessions against requests under way. Two lemmas carry the bulk: `Origins` says which action and
  which earlier request a request of the next state comes from, `Frames` which actions
  write which variables, so that each conjunct is proved only over the actions that touch
  it. `NoReuse` has an invariant of its own (`ReuseInv`), because the history is ordered by
  `created_at`, the start of a transaction, and not by its commit. A change nobody
  raced with was alone while it ran, so the rows of unraced changes are committed in the
  order they began (`Ordered`) and each counted change since is later than they are (`Ahead`). The
  last `HistorySize` of them are then the last `HistorySize` rows by `created_at`, which is
  what `CheckHistory` reads: a statement about the size of an interval (`RecentMember`).
- **AccessProofs**, of the terminal: `TuiTypeOK`, `DialogsOutliveSession`, `WizardComplete`,
  `OnlyNewTenantLeavesRows`, `RequestsScoped`, for any finite set of tenants and any number
  of calls that fail or sessions that end. A function of `tui.rs` is a set of states it may
  leave, and the proof is one lemma per function: `Good(K)` is the set of the states that
  satisfy the invariant when at most the lists in `K` show rows of another tenant, and each
  function leads from `Good(K)` into `Good(K)`. With `K` all lists that a switch forgets this
  is the invariant (`TuiInv`); with `K` the lists that are foreign now, it says that none is
  added, which is `OnlyNewTenantLeavesRows`. Inside a switch the active tenant has changed
  and the rows have not: `Nearly(K)` is `Good(K)` without the claim about rows, and
  `LoadingAll` leads from there back into `Good(K)`. `Fits` relates the open dialog to the
  screen, to what the wizard has made and to the active tenant; `Known` says that every
  tenant the terminal refers to is on the server.

Only model-checked: liveness (`RequestsEnd`, `BlocklistDrains`), which involves fairness and
`ENABLED` and is out of the prover's reach, and the violation that `access_logout` expects.

## 5. What is not modelled

Of the modelled parts: a change of the lockout settings while logins run; the
password policy section, a row that is written whole; `client_credentials`, which writes
nothing; creation and update of clients in the server; the contents of tokens beyond
user, roles, expiry and secret; the replay of a TOTP code within its 30 s, of which the
code keeps no record; `last_seen_at` of sessions. `RefreshTokens` has users that are
never deleted, since no handler deletes one. Of the terminal, drawing (`ui/*`,
`components/modal.rs`) and the contents of forms beyond which required fields are
filled: both only read what `AdminApp` keeps.

Components left out:

- *Passkeys.* The ceremony, its challenge and the signature counter are a library; the
  code around it stores a row and signs in as `RefreshTokens` models it. Challenges
  stay in memory until they are answered (listed as a hazard).
- *Connection pool.* A wait for a connection ends after ten seconds as a failed
  statement, which every module has. That everyone waits meanwhile is listed as a
  hazard; a model of it would count connections and little else.
- *Tenant key cache.* The key of a tenant never changes, so a cached one is not stale.
- *Email, audit log, OIDC metadata, migrations, configuration, routing* keep no state that another
  component decides by, or are constant after start.

## 6. Plan

Done: the modules above and the proofs of their safety properties. Worth adding next:

1. The lockout with settings that change, composed with `TenantSettings`.
2. `ConnectionPool`: handlers as sequences of acquire and release, and the bound on the wait.
3. `Passkeys`: registration against removal, and the counter.
4. An abstract `SignedIn` that `Credentials` and `RefreshTokens` both implement.
