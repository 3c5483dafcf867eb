----------------------------- MODULE BankPoller -----------------------------
(***************************************************************************)
(* When the bank account is read: server/src/bizum/bank-poller.ts, on a    *)
(* schedule that survives a restart and on the organiser's request, with   *)
(* the waits the bank asks for.                                            *)
(*                                                                         *)
(* Instants are kept as ticks from now, so that time never runs out: what  *)
(* is left of the timer and of the bank's wait, and what has passed since  *)
(* the last read.  An account never read is one whose last read is an      *)
(* interval ago, which no test of the code tells apart.                    *)
(***************************************************************************)
EXTENDS Integers

CONSTANTS Interval,    \* INTERVAL_MS, from one read to the next scheduled one
          MinGap,      \* MIN_GAP_MS, from one read to a requested one
          StartDelay,  \* START_DELAY_MS, from a start to a read already due
          Waits        \* what the bank may ask to wait: retryAfter (a bound)

PollerAssumption ==
    /\ Interval \in Nat \ {0} /\ StartDelay \in 1..Interval /\ MinGap \in 1..Interval
    /\ Waits \subseteq Nat

ASSUME PollerAssumption

VARIABLES
    up,       \* the server runs
    ready,    \* FeedSourceProvider.source() gives a source
    reading,  \* the poller's flag
    reads,    \* how many reads of the account are in flight
    timer,    \* ticks until the scheduled task, NoTimer when there is none
    since,    \* bizum_feed_state.finished_at: ticks since, an interval at most
    limit     \* bizum_feed_state.rate_limited_until: ticks until, 0 when null or past

vars == <<up, ready, reading, reads, timer, since, limit>>

NoTimer == -1

TypeOK ==
    /\ up \in BOOLEAN /\ ready \in BOOLEAN /\ reading \in BOOLEAN
    /\ reads \in Nat
    /\ timer \in Nat \union {NoTimer}
    /\ since \in 0..Interval
    /\ limit \in Nat

Init ==
    /\ up = FALSE
    /\ ready \in BOOLEAN
    /\ reading = FALSE
    /\ reads = 0
    /\ timer = NoTimer
    /\ since = Interval
    /\ limit = 0

Longer(a, b) == IF a >= b THEN a ELSE b

\* What is left of a wait, no less than nothing; NoTimer stays.
Less(n) == IF n > 0 THEN n - 1 ELSE n

\* A fault: the schedule forgets what the bank asked.
DueAfterForgetful(passed, wait) == Interval - passed

\* Ticks until the last read allows another scheduled one.
DueAfter(passed, wait) == Longer(Interval - passed, wait)

Start ==
    /\ ~up
    /\ up' = TRUE
    /\ timer' = LET due == DueAfter(since, limit) IN IF due > 0 THEN due ELSE StartDelay
    /\ UNCHANGED <<ready, reading, reads, since, limit>>

\* The process ends at any moment: only what is in the database stays.
Stop ==
    /\ up
    /\ up' = FALSE
    /\ reading' = FALSE
    /\ reads' = 0
    /\ timer' = NoTimer
    /\ UNCHANGED <<ready, since, limit>>

\* Time passes, whether the server runs or not; a timer that is due may fire late.
Tick ==
    /\ timer' = Less(timer)
    /\ since' = IF since < Interval THEN since + 1 ELSE since
    /\ limit' = Less(limit)
    /\ UNCHANGED <<up, ready, reading, reads>>

\* The connection, the settings and the session's validity change under the poller.
ReadinessChanges ==
    /\ ready' = ~ready
    /\ UNCHANGED <<up, reading, reads, timer, since, limit>>

\* A fault: a request does not look whether a read is under way.
RequestReadOver ==
    /\ up /\ limit = 0 /\ since >= MinGap /\ ready
    /\ reading' = TRUE
    /\ reads' = reads + 1
    /\ UNCHANGED <<up, ready, timer, since, limit>>

\* 'Leer ahora', refused in progress, while limited, too soon or when not ready.
RequestRead ==
    /\ up
    /\ ~reading
    /\ limit = 0
    /\ since >= MinGap
    /\ ready
    /\ reading' = TRUE
    /\ reads' = reads + 1
    /\ UNCHANGED <<up, ready, timer, since, limit>>

\* A fault: a task that cannot read does not ask for another.
ScheduledOnce ==
    /\ up /\ timer = 0
    /\ timer' = NoTimer
    /\ IF ~reading /\ ready THEN reading' = TRUE /\ reads' = reads + 1
                            ELSE UNCHANGED <<reading, reads>>
    /\ UNCHANGED <<up, ready, since, limit>>

\* The timer fires: a read, or the next interval when there is nothing to read or one is under way.
Scheduled ==
    /\ up
    /\ timer = 0
    /\ \/ /\ ~reading /\ ready
          /\ reading' = TRUE
          /\ reads' = reads + 1
          /\ timer' = NoTimer
       \/ /\ reading \/ ~ready
          /\ timer' = Interval
          /\ UNCHANGED <<reading, reads>>
    /\ UNCHANGED <<up, ready, since, limit>>

\* A fault: the timer set before a requested read is kept.
EndReadKeeping(wait) ==
    /\ reads > 0
    /\ reads' = reads - 1
    /\ reading' = FALSE
    /\ since' = 0
    /\ limit' = wait
    /\ timer' = IF timer = NoTimer THEN DueAfter(0, wait) ELSE timer

\* A read ends, is recorded, and the next one is scheduled, all before anything else runs.
EndRead(wait) ==
    /\ reads > 0
    /\ reads' = reads - 1
    /\ reading' = FALSE
    /\ since' = 0
    /\ limit' = wait
    /\ timer' = DueAfter(0, wait)

\* Ended well, or by a failure that neither limits nor ends the session.
ReadEnds == EndRead(0) /\ UNCHANGED <<up, ready>>

ReadLimited == \E wait \in Waits : EndRead(wait) /\ UNCHANGED <<up, ready>>

\* The bank says that the session is over: the provider is ready no more.
ReadFindsSessionEnded == EndRead(0) /\ ready' = FALSE /\ UNCHANGED up

AnyReadEnds == ReadEnds \/ ReadLimited \/ ReadFindsSessionEnded

Next ==
    \/ Start \/ Stop \/ Tick \/ ReadinessChanges
    \/ RequestRead \/ Scheduled
    \/ AnyReadEnds

\* Time passes, the event loop runs what is due, and a read ends: its HTTP calls time out.
\* The organiser asks for nothing, and the server may stop as often as it likes.
Fairness == WF_vars(Tick) /\ WF_vars(Scheduled) /\ WF_vars(AnyReadEnds)

Spec == Init /\ [][Next]_vars /\ Fairness

-----------------------------------------------------------------------------
\* "Reads one at a time": requests, timers and restarts never put two reads in flight, and the
\* flag that refuses a second one says exactly whether there is one.
OneReadAtATime == reads \in {0, 1} /\ (reading <=> reads = 1)

\* No read, scheduled or requested, asks the bank while its wait lasts or within the least gap
\* since the last read that was recorded, over restarts too.  Only a request checks either; a
\* scheduled read depends on when its timer was set.
NeverAsksTooSoon == [][reads' > reads => limit = 0 /\ since >= MinGap]_vars

\* A scheduled read comes an interval after the last one or later, whatever requested reads
\* and restarts came between: the schedule survives a restart.
KeepsTheInterval == [][Scheduled /\ reads' > reads => since = Interval]_vars

\* A running server is reading or has a timer set, never further away than an interval or the
\* bank's wait.
NextReadInSight == up /\ ~reading => timer \in 0..Longer(Interval, limit)

\* Once the server stays up and there stays something to read, it is read again and again.
ReadAgainAndAgain == <>[](up /\ ready) => []<>reading

=============================================================================
