------------------------------ MODULE Lockout ------------------------------
(***************************************************************************)
(* Account lockout of ovlt-core: the login_attempts table, the password    *)
(* step of the two login handlers, and the cleanup of old attempts.        *)
(*                                                                         *)
(* A login asks is_locked, verifies the password in a transaction, and     *)
(* then, outside of any transaction, records the failure or clears the     *)
(* failures of its account.  Other logins of the account, the cleanup and  *)
(* the clock come between these steps.                                     *)
(*                                                                         *)
(* A key stands for a tenant and the lookup hash of an email in it; an     *)
(* email that no user has is counted like any other.                       *)
(***************************************************************************)
EXTENDS Integers, FiniteSets

CONSTANTS
    Workers,          \* logins being served concurrently
    Keys,             \* (tenant_id, email_lookup)
    MaxRows,          \* bound: rows of the table
    MaxAttempts,      \* tenant_settings.lockout_max_attempts
    Window,           \* tenant_settings.lockout_window_minutes
    Duration,         \* tenant_settings.lockout_duration_minutes
    CleanupWindow,    \* CLEANUP_WINDOW_MINUTES
    MaxTime,          \* bound of the clock
    None

\* put_lockout refuses values below 1.
ASSUME ConstantsAssumption ==
    /\ IsFiniteSet(Workers)
    /\ MaxAttempts \in Nat \ {0} /\ Window \in Nat \ {0} /\ Duration \in Nat \ {0}
    /\ MaxRows \in Nat /\ CleanupWindow \in Nat /\ MaxTime \in Nat
    /\ None \notin Keys \cup Nat

VARIABLES
    now,         \* wall clock, in minutes
    attempts,    \* the login_attempts table
    req,         \* the login each worker is serving
    lockedAt     \* history: when the lock that a key is under began

vars == <<now, attempts, req, lockedAt>>

RowIds == 1..MaxRows

Attempt == [key : Keys, at : Nat]

Request == [step : {"idle"}, key : {None}, at : {0}]
           \cup [step : {"checked", "refused", "verified"},
                 key  : Keys,
                 at   : Nat]    \* history: when is_locked answered

Idle == [step |-> "idle", key |-> None, at |-> 0]

TypeOK ==
    /\ now \in Nat
    /\ attempts \in [RowIds -> Attempt \cup {None}]
    /\ req \in [Workers -> Request]
    /\ lockedAt \in [Keys -> Nat \cup {None}]

Init ==
    /\ now = 0
    /\ attempts = [r \in RowIds |-> None]
    /\ req = [w \in Workers |-> Idle]
    /\ lockedAt = [k \in Keys |-> None]

-----------------------------------------------------------------------------
(* Helpers *)

Row(r, k) == attempts[r] # None /\ attempts[r].key = k

\* the rows is_locked counts
Recent(k) == {r \in RowIds : Row(r, k) /\ attempts[r].at >= now - Window}

\* is_locked
Locked(k) == Cardinality(Recent(k)) >= MaxAttempts

\* lockedAt follows is_locked
Relock ==
    lockedAt' = [k \in Keys |-> IF ~Locked(k)' THEN None
                                ELSE IF lockedAt[k] = None THEN now' ELSE lockedAt[k]]

\* bound: there is a row left for every login that may record a failure
RowLeft == Cardinality({w \in Workers : req[w] # Idle})
           < Cardinality({r \in RowIds : attempts[r] = None})

Finish(w) == req' = [req EXCEPT ![w] = Idle]

-----------------------------------------------------------------------------
(* POST /auth/login and POST /login (after the tenant is known) *)

\* mutant of Check: is_locked is not asked
CheckSkipped(w, k) ==
    /\ req[w] = Idle
    /\ RowLeft
    /\ req' = [req EXCEPT ![w] = [step |-> "checked", key |-> k, at |-> now]]
    /\ UNCHANGED <<now, attempts, lockedAt>>

\* A login of a locked key is refused here and changes nothing.
Check(w, k) ==
    /\ req[w] = Idle
    /\ RowLeft
    /\ ~Locked(k)
    /\ req' = [req EXCEPT ![w] = [step |-> "checked", key |-> k, at |-> now]]
    /\ UNCHANGED <<now, attempts, lockedAt>>

\* no such user, or the wrong password
Refuse(w) ==
    /\ req[w].step = "checked"
    /\ req' = [req EXCEPT ![w].step = "refused"]
    /\ UNCHANGED <<now, attempts, lockedAt>>

\* The right password: the second factor is asked for, or the tokens are
\* stored and committed.
Verify(w) ==
    /\ req[w].step = "checked"
    /\ req' = [req EXCEPT ![w].step = "verified"]
    /\ UNCHANGED <<now, attempts, lockedAt>>

\* record_attempt
RecordAttempt(w) ==
    /\ req[w].step = "refused"
    /\ \E r \in RowIds :
        /\ attempts[r] = None
        /\ \A s \in RowIds : attempts[s] = None => r <= s
        /\ attempts' = [attempts EXCEPT ![r] = [key |-> req[w].key, at |-> now]]
    /\ Finish(w)
    /\ UNCHANGED now
    /\ Relock

\* clear_attempts
ClearAttempts(w) ==
    /\ req[w].step = "verified"
    /\ attempts' = [r \in RowIds |-> IF Row(r, req[w].key) THEN None ELSE attempts[r]]
    /\ Finish(w)
    /\ UNCHANGED now
    /\ Relock

\* The login ends without a row written: the user is inactive or unverified,
\* a statement fails, the client hangs up or the process stops.
Abandon(w) ==
    /\ req[w] # Idle
    /\ Finish(w)
    /\ UNCHANGED <<now, attempts, lockedAt>>

-----------------------------------------------------------------------------
(* The rest of the system *)

\* mutant of Cleanup: the cutoff is the present
CleanupEverything ==
    /\ \E r \in RowIds : attempts[r] # None /\ attempts[r].at < now
    /\ attempts' = [r \in RowIds |-> IF attempts[r] # None /\ attempts[r].at < now
                                     THEN None ELSE attempts[r]]
    /\ UNCHANGED <<now, req>>
    /\ Relock

\* cleanup_old_attempts
Cleanup ==
    /\ \E r \in RowIds : attempts[r] # None /\ attempts[r].at < now - CleanupWindow
    /\ attempts' = [r \in RowIds |-> IF attempts[r] # None /\ attempts[r].at < now - CleanupWindow
                                     THEN None ELSE attempts[r]]
    /\ UNCHANGED <<now, req>>
    /\ Relock

Tick ==
    /\ now < MaxTime
    /\ now' = now + 1
    /\ UNCHANGED <<attempts, req>>
    /\ Relock

Next ==
    \/ \E w \in Workers :
          \/ \E k \in Keys : Check(w, k)
          \/ Refuse(w) \/ Verify(w) \/ RecordAttempt(w) \/ ClearAttempts(w) \/ Abandon(w)
    \/ Cleanup
    \/ Tick

Spec == Init /\ [][Next]_vars

-----------------------------------------------------------------------------
(* Properties *)

\* However logins race, a window holds at most MaxAttempts - 1 failures and
\* one for each login in flight: those are all that the last failure before
\* the lock cannot stop.
FailuresBounded ==
    \A k \in Keys : Cardinality(Recent(k)) <= MaxAttempts - 1 + Cardinality(Workers)

\* While a key is locked nothing but time unlocks it, except for a right
\* password that was already being verified when the lock began.
OnlyEarlierLoginUnlocks ==
    [][\A w \in Workers, k \in Keys :
          ClearAttempts(w) /\ req[w].key = k /\ Locked(k) => req[w].at <= lockedAt[k]]_vars

\* The cleanup never takes away a failure that is_locked would count.
CleanupKeepsRecent ==
    [][Cleanup => \A k \in Keys : Recent(k)' = Recent(k)]_vars

-----------------------------------------------------------------------------
(* What the documentation says and the code does not do *)

\* docs/security.md:85: "After 5 consecutive failed login attempts, the account
\* is locked", so no window ever holds a sixth failure.
LockedAfterMaxAttempts ==
    \A k \in Keys : Cardinality(Recent(k)) <= MaxAttempts

\* docs/security.md:85, docs/admin-tui.md:256: the lock lasts for the lockout
\* duration, unless a login that was under way clears the failures.
LockLastsDuration ==
    [][Tick => \A k \in Keys : Locked(k) /\ ~Locked(k)' => now' >= lockedAt[k] + Duration]_vars
=============================================================================
