--------------------------- MODULE LockoutPolicy ---------------------------
(***************************************************************************)
(* What is counted against an account and when it is closed:               *)
(* domain/lockout-policy.ts over two columns of users.  Time is in         *)
(* minutes, or any other unit.                                             *)
(***************************************************************************)
EXTENDS Integers

CONSTANTS MaxAttempts,    \* LockoutPolicy.MAX_ATTEMPTS
          LockMinutes,    \* LockoutPolicy.LOCK_MINUTES
          Slowest         \* no password takes longer than this to check

VARIABLES
    now,
    failedAttempts, lockedUntil,   \* users.failed_attempts and users.locked_until
    checked, since                 \* history: passwords checked since the count was cleared, and when

\* A lock outlasts two checks, so that none is still running when it expires.
PolicyAssumption ==
    /\ MaxAttempts \in Nat \ {0} /\ LockMinutes \in Nat \ {0}
    /\ Slowest \in Nat /\ 2 * Slowest < LockMinutes

NotLocked == -1            \* no time: users.locked_until is NULL

IsLocked   == lockedUntil # NotLocked /\ lockedUntil > now
HasExpired == lockedUntil # NotLocked /\ lockedUntil <= now

\* A fault: an expired lock starts the count again.
AttemptAfresh == IF HasExpired THEN 1 ELSE failedAttempts + 1

\* reserveAttempt: a lock that has expired leaves the count one short of the limit.
Attempt == IF HasExpired THEN MaxAttempts ELSE failedAttempts + 1

-----------------------------------------------------------------------------
(* Safety *)

\* However many logins run at once and however they end, between two clearings no
\* more passwords are checked than the limit and one for each lock that can have
\* passed.  A lock is set from a login's start and may replace one set later, so
\* the account opens at most the time of one check too soon.
PasswordsAreLimited == checked <= MaxAttempts + (now - since + Slowest) \div LockMinutes

\* Nobody is ever locked out for longer than one lock from now, whichever of the
\* logins in flight sets it last.
LockIsBounded == lockedUntil <= now + LockMinutes

\* What the lock promises against guessing, and to whoever forgets their password
\* (lockout-policy.ts).
RateLimited == PasswordsAreLimited /\ LockIsBounded
=============================================================================
