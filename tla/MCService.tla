------------------------------ MODULE MCService ------------------------------
(***************************************************************************)
(* What the server does with nobody looking, and what it shares with the   *)
(* browsers: logins and sessions, the reading of the bank and the database *)
(* file, each walked by itself.  `part` says which one a behaviour is      *)
(* about; what belongs to the others stays as it starts, or is None.       *)
(***************************************************************************)
EXTENDS Sessions, LockoutPolicy, TLC

CONSTANTS Parts,                 \* those that are walked
          c1, c2,                \* calls in flight
          ana, bob, luis,        \* accounts, and players
          tab, switch, request,    \* a tab, and what it asks of the server
          server, hand,          \* processes
          Half

VARIABLES part,
          checking,
          live, cookie, token, status, reported, waiting, ended, signedOut,
          bank, settings, connection, exchanging, read, handled, failures,
          file, work, writer, backups, parts, proc, second, faults

OfLockout  == <<now, failedAttempts, lockedUntil, checking, checked, since>>
OfSessions == <<users, rows, viewAs, chosen>>
OfWeb      == <<live, cookie, token, status, reported, waiting, ended, signedOut>>
OfReading  == <<bank, settings, connection, exchanging, read, handled, failures>>
OfFile     == <<file, work, writer, backups, parts, proc, second, faults>>

allVars == <<part, calls, issued, OfLockout, OfSessions, OfWeb, OfReading, OfFile>>

-----------------------------------------------------------------------------
(* Three logins at once, and time for three locks. *)

Lockout == INSTANCE LoginLockout WITH
    Calls <- {1, 2, 3}, Horizon <- 7

(* An account there is and one that may be created; and what a behaviour keeps to: the one
   account renewing and logging out from two calls at once, or accounts made, linked,
   demoted, deactivated and looked at, with a session of one token. *)

Admin == [role |-> "admin", active |-> TRUE, password |-> 1, player |-> None]

OnlyAna == [u \in Users |-> IF u = ana THEN Admin ELSE NotCreated]

InTokens ==
    /\ users = Accounts
    /\ \A c \in Calls : /\ calls[c].kind # "changing"
                        /\ calls[c].kind = "switching" => calls[c].view = "admin"

InOperated == issued <= 1 /\ calls[c2] = Idle

Within == /\ part = "tokens" => InTokens
          /\ part = "operated" => InOperated

(* One tab, two requests at once of which one changes the view; and the same with fewer
   tokens, where what is asked is waited for. *)

Web == INSTANCE WebSession WITH
    Tabs <- {tab}, Requests <- {switch, request}, Switch <- switch, MaxTokens <- 3

Waiting == INSTANCE WebSession WITH
    Tabs <- {tab}, Requests <- {switch, request}, Switch <- switch, MaxTokens <- 2

(* Four entries on three days of which the bank gives the last two unless asked for all,
   a page of two; the last entry arrives while reading. *)

Days == <<1, 2, 3, 3>>

Reading == INSTANCE BankReading WITH
    Accounts <- {"main"}, CurrencyOf <- [a \in {"main"} |-> "EUR"],
    Entries <- 1..4, Day <- Days, AccountOf <- [e \in 1..4 |-> "main"],
    IsBizum <- [e \in 1..4 |-> e # 3], Late <- {4}, Today <- 3, Window <- 2, PageSize <- 2,
    Sessions <- {1, 2}, Failures <- 2, Changeable <- {"from"}, StartDates <- {1}, MidRead <- TRUE

(* Three of them, and settings changed only between reads. *)

Settled == INSTANCE BankReading WITH
    Accounts <- {"main"}, CurrencyOf <- [a \in {"main"} |-> "EUR"],
    Entries <- {1, 2, 4}, Day <- [e \in {1, 2, 4} |-> Days[e]],
    AccountOf <- [e \in {1, 2, 4} |-> "main"], IsBizum <- [e \in {1, 2, 4} |-> TRUE],
    Late <- {4}, Today <- 3, Window <- 2, PageSize <- 2,
    Sessions <- {1, 2}, Failures <- 2, Changeable <- {"from"}, StartDates <- {1}, MidRead <- FALSE

(* An account of each of two currencies and a second of one of them, chosen between. *)

Currencies == INSTANCE BankReading WITH
    Accounts <- {"main", "other", "usd"},
    CurrencyOf <- [a \in {"main", "other", "usd"} |-> IF a = "usd" THEN "USD" ELSE "EUR"],
    Entries <- 1..3, Day <- [e \in 1..3 |-> Days[e]],
    AccountOf <- <<"main", "other", "usd">>, IsBizum <- [e \in 1..3 |-> TRUE],
    Late <- {}, Today <- 3, Window <- 2, PageSize <- 2,
    Sessions <- {1, 2}, Failures <- 0, Changeable <- {"currency", "account", "from"},
    StartDates <- {1}, MidRead <- FALSE

(* A file of each kind the steps treat apart, opened by the service and by `backup`; and
   every file there may be, opened by the service alone. *)

File == INSTANCE DatabaseFile WITH
    Servers <- {server}, Hands <- {hand}, FirstFiles <- {None, 4, 6, 8},
    Apart <- TRUE, Seconds <- 0, Faults <- 1

Service == INSTANCE DatabaseFile WITH
    Servers <- {server}, Hands <- {}, FirstFiles <- {None, 0, 2, 3, 4, 5, 6, 7},
    Apart <- FALSE, Seconds <- 1, Faults <- 2

ASSUME Assumptions ==
    /\ Lockout!LockoutAssumption
    /\ SessionsAssumption
    /\ Web!WebAssumption /\ Waiting!WebAssumption
    /\ Reading!BankReadingAssumption /\ Settled!BankReadingAssumption
    /\ Currencies!BankReadingAssumption
    /\ File!DatabaseFileAssumption /\ Service!DatabaseFileAssumption

-----------------------------------------------------------------------------
NoLockout  == Lockout!Init
NoSessions == /\ users = Accounts /\ rows = {} /\ viewAs = {}
              /\ chosen = [s \in Serials |-> "admin"]
NoWeb      == /\ live = None /\ cookie = None /\ token = None /\ status = None
              /\ reported = None /\ waiting = None /\ ended = None /\ signedOut = None
NoCalls    == calls = None /\ issued = None
NoReading  == /\ bank = None /\ settings = None /\ connection = None /\ exchanging = None
              /\ read = None /\ handled = None /\ failures = None
NoFile     == /\ file = None /\ work = None /\ writer = None /\ backups = None
              /\ parts = None /\ proc = None /\ second = None /\ faults = None

InitLockout  == /\ part = "lockout" /\ Lockout!Init
                /\ NoCalls /\ NoSessions /\ NoWeb /\ NoReading /\ NoFile
InitSessions == /\ part \in {"tokens", "operated"} /\ Init
                /\ NoLockout /\ NoWeb /\ NoReading /\ NoFile
InitWeb      == /\ \/ part = "web" /\ Web!Init
                   \/ part = "waiting" /\ Waiting!Init
                /\ NoLockout /\ NoSessions /\ NoReading /\ NoFile
InitReading  == /\ \/ part = "reading" /\ Reading!Init
                   \/ part = "settled" /\ Settled!Init
                   \/ part = "currencies" /\ Currencies!Init
                /\ NoLockout /\ NoCalls /\ NoSessions /\ NoWeb /\ NoFile
InitFile     == /\ \/ part = "file" /\ File!Init
                   \/ part = "service" /\ Service!Init
                /\ NoLockout /\ NoCalls /\ NoSessions /\ NoWeb /\ NoReading

InitParts == /\ part \in Parts
             /\ InitLockout \/ InitSessions \/ InitWeb \/ InitReading \/ InitFile

-----------------------------------------------------------------------------
(* What a step of each part leaves alone *)

ElsewhereLockout  == <<part, calls, issued, OfSessions, OfWeb, OfReading, OfFile>>
ElsewhereSessions == <<part, OfLockout, OfWeb, OfReading, OfFile>>
ElsewhereWeb      == <<part, OfLockout, OfSessions, OfReading, OfFile>>
ElsewhereReading  == <<part, calls, issued, OfLockout, OfSessions, OfWeb, OfFile>>
ElsewhereFile     == <<part, calls, issued, OfLockout, OfSessions, OfWeb, OfReading>>

NextLockout    == part = "lockout" /\ Lockout!Next /\ UNCHANGED ElsewhereLockout
NextSessions   == part \in {"tokens", "operated"} /\ Next /\ UNCHANGED ElsewhereSessions /\ Within'
NextWeb        == part = "web" /\ Web!Next /\ UNCHANGED ElsewhereWeb
NextWaiting    == part = "waiting" /\ Waiting!Next /\ UNCHANGED ElsewhereWeb
NextReading    == part = "reading" /\ Reading!Next /\ UNCHANGED ElsewhereReading
NextSettled    == part = "settled" /\ Settled!Next /\ UNCHANGED ElsewhereReading
NextCurrencies == part = "currencies" /\ Currencies!Next /\ UNCHANGED ElsewhereReading
NextFile       == part = "file" /\ File!Next /\ UNCHANGED ElsewhereFile
NextService    == part = "service" /\ Service!Next /\ UNCHANGED ElsewhereFile

NextParts == \/ NextLockout \/ NextSessions \/ NextWeb \/ NextWaiting
             \/ NextReading \/ NextSettled \/ NextCurrencies \/ NextFile \/ NextService

\* The server answers and the network delivers, or fails: no call is left in the air.  At
\* the bound on tokens a call can only be lost.
FairWeb ==
    \A s \in {switch, request, "refresh", "session"} :
        WF_allVars(part = "waiting" /\ Waiting!Goes(tab, s) /\ UNCHANGED ElsewhereWeb)

\* The poller reads again and again, and a read goes on until it ends.
FairReading == WF_allVars(part = "settled" /\ Settled!Reads /\ UNCHANGED ElsewhereReading)

\* The service is started again when it stops (Restart=on-failure), and what runs goes on.
FairService ==
    /\ WF_allVars(part = "service" /\ Service!Open(server) /\ UNCHANGED ElsewhereFile)
    /\ WF_allVars(part = "service" /\ Service!Starts(server) /\ UNCHANGED ElsewhereFile)

SpecParts == InitParts /\ [][NextParts]_allVars /\ FairWeb /\ FairReading /\ FairService

-----------------------------------------------------------------------------
(* Properties *)

\* RateLimited is of LockoutPolicy, SessionsAreAccountedFor of Sessions.

\* A session lasts until it is ended and no longer: none whose tokens are all revoked has a
\* good one again, and no tab is sent back to the login while the cookie is good and nothing
\* was lost (sessionClient.ts).
SessionsLastUntilEnded ==
    [][/\ part = "tokens" => RevokedStaysRevoked
       /\ part = "web" => Web!KeptWhileValid]_allVars

\* Each entry of the bank is handled once, the older Bizums first, and a read that ends well
\* has handled all that was booked from its start date on, of an account in the currency set;
\* and where settings wait for the read, nothing else is handled (feed.ts, "handles every one
\* exactly once").
ReadIsComplete ==
    [][/\ part = "reading" => /\ Reading!ReadIsComplete /\ Reading!OldestFirst
                              /\ Reading!HandledOnce'
       /\ part = "currencies" => /\ Currencies!HandlesTheCurrency
                                 /\ Currencies!HandlesWhatIsAsked]_allVars

\* Opening the database changes an older file only beside a whole copy of what it said, loses
\* nothing it says on the way, and touches neither the copies there are nor what a newer
\* application wrote; what is stamped with today's version is whole (SchemaMigrator.run, "if
\* the copy fails nothing is changed").
CopyBeforeChange ==
    [][/\ part = "file" => /\ File!CopyBeforeChange /\ File!BackupsAreKept
                           /\ File!NewerIsLeftAlone /\ File!NothingForgotten
                           /\ File!ClearedStaysCleared /\ File!LatestIsWhole'
       /\ part = "service" => Service!NothingForgotten /\ Service!LatestIsWhole']_allVars

\* Every request of the application ends, answered, repeated once and answered, or failed.
Unanswered(r) == part = "waiting" /\ Waiting!Unanswered(tab, r)

\* While its session lasts and is not held to be over, whatever is booked from the start date
\* on is handled in the end, though reads fail, crash or end under another session
\* (bank-feed-source.ts, "The first read of a session is the deep one").
ToBeHandled(e, s)   == part = "settled" /\ Settled!ToBeHandled(e, s)
HandledOrOver(e, s) == part = "settled" /\ Settled!HandledOrOver(e, s)

\* The server comes up on whatever it finds, a new file, an older one, a restored copy or what
\* a crash left, once the disk and the machine let it (index.ts, "open and migrate before
\* accepting traffic").
ComesUp == []<>(part = "service" => Service!Up)

\* The three together: nobody waits for the server for ever.
EndsInTheEnd ==
    /\ \A r \in {switch, request} : Unanswered(r) ~> ~Unanswered(r)
    /\ \A e \in {1, 2, 4}, s \in {1, 2} : ToBeHandled(e, s) ~> HandledOrOver(e, s)
    /\ ComesUp
=============================================================================
