---------------------------- MODULE LoginLockout ----------------------------
(***************************************************************************)
(* How many passwords can be tried against one account: the login of       *)
(* server/src/repo/auth-service.ts up to where it issues a session, with   *)
(* domain/lockout-policy.ts.  A login reads the clock, counts its attempt  *)
(* and only then checks the password, which takes a while: other logins,   *)
(* the operator's command line and a restart of the server fall in         *)
(* between.                                                                *)
(***************************************************************************)
EXTENDS LockoutPolicy

CONSTANTS Calls,      \* logins that can be in flight at once (a bound)
          Horizon     \* the last minute (a bound)

LockoutAssumption == PolicyAssumption /\ Horizon \in Nat

VARIABLE checking     \* the logins that wait for the password hash

vars == <<now, failedAttempts, lockedUntil, checking, checked, since>>

Idle == [stage |-> "idle", attempt |-> 0, at |-> 0]
Checking(attempt) == [stage |-> "checking", attempt |-> attempt, at |-> now]

TypeOK ==
    /\ now \in Nat /\ since \in Nat
    /\ failedAttempts \in 0..MaxAttempts + 1
    /\ lockedUntil \in Nat \cup {NotLocked}
    /\ checking \in [Calls -> [stage : {"idle", "checking"}, attempt : 0..MaxAttempts, at : Nat]]
    /\ checked \in Nat

Init ==
    /\ now = 0 /\ since = 0
    /\ failedAttempts = 0 /\ lockedUntil = NotLocked
    /\ checking = [c \in Calls |-> Idle]
    /\ checked = 0

-----------------------------------------------------------------------------
Begin(c) ==
    /\ checking[c].stage = "idle"
    /\ ~IsLocked
    /\ failedAttempts' = Attempt

Try(c) ==
    /\ Begin(c)
    /\ Attempt <= MaxAttempts
    /\ lockedUntil' = IF HasExpired THEN NotLocked ELSE lockedUntil
    /\ checking' = [checking EXCEPT ![c] = Checking(Attempt)]
    /\ checked' = checked + 1
    /\ UNCHANGED <<now, since>>

\* The attempts are used up: locked without looking at the password.
Refuse(c) ==
    /\ Begin(c)
    /\ Attempt > MaxAttempts
    /\ lockedUntil' = now + LockMinutes
    /\ UNCHANGED <<now, checking, checked, since>>

\* recordSuccess, or clearLock from the command line.
Clear ==
    /\ failedAttempts' = 0
    /\ lockedUntil' = NotLocked
    /\ checked' = 0
    /\ since' = now
    /\ UNCHANGED now

Succeed(c) ==
    /\ checking[c].stage = "checking"
    /\ checking' = [checking EXCEPT ![c] = Idle]
    /\ Clear

\* The lock is counted from when the login came in.
Fail(c) ==
    /\ checking[c].stage = "checking"
    /\ checking' = [checking EXCEPT ![c] = Idle]
    /\ lockedUntil' = IF checking[c].attempt >= MaxAttempts
                      THEN checking[c].at + LockMinutes ELSE lockedUntil
    /\ UNCHANGED <<now, failedAttempts, checked, since>>

\* unlock and reset-pwd.
Unlock == Clear /\ UNCHANGED checking

Tick ==
    /\ now < Horizon
    /\ \A c \in Calls : checking[c].stage = "checking" => now < checking[c].at + Slowest
    /\ now' = now + 1
    /\ UNCHANGED <<failedAttempts, lockedUntil, checking, checked, since>>

\* The server stops: the logins in flight are lost, what they counted is not.
Restart ==
    /\ checking' = [c \in Calls |-> Idle]
    /\ UNCHANGED <<now, failedAttempts, lockedUntil, checked, since>>

Next ==
    \/ \E c \in Calls : Try(c) \/ Refuse(c) \/ Succeed(c) \/ Fail(c)
    \/ Unlock \/ Tick \/ Restart

Spec == Init /\ [][Next]_vars
=============================================================================
