--------------------------- MODULE BankConnection ---------------------------
(***************************************************************************)
(* The bank access: how it is authorised, renewed, read and closed.        *)
(* repo/bank-connection-service.ts, its two repositories and               *)
(* repo/bank-feed-source.ts, all in server/src.                            *)
(*                                                                         *)
(* These are the handlers that wait for the bank halfway, so an action is  *)
(* what runs between two waits.  An authorisation is named by its random   *)
(* state, and the session its code is exchanged for is named by it too.    *)
(* The poller keeps to one read at a time (BankPoller).  The bank offered, *)
(* the accounts and the address of its page are left out, and the setup is *)
(* complete: without it nothing here starts.                               *)
(***************************************************************************)
EXTENDS Naturals

CONSTANTS Authorizations,  \* the states the organiser's connects are given (a bound)
          Callbacks,       \* calls of complete that may be in flight together (a bound)
          Disconnects,     \* calls of disconnect that may be in flight together (a bound)
          None             \* no row, no call

Sessions == Authorizations

VARIABLES
    authorization,  \* bank_authorizations
    stored,         \* the row of bank_connection, or None
    callback,       \* what each call of complete waits for
    disconnecting,  \* the session each call of disconnect asked the bank to close
    reading,        \* the session and the depth of the read in flight
    open,           \* at the bank: the sessions that can be read
    exchanged,      \* at the bank: how many times each code has been asked for
    deepRead        \* the sessions whose deep read has ended well

vars == <<authorization, stored, callback, disconnecting, reading, open, exchanged, deepRead>>

Purposes == {"connect", "renew"}
Pending  == [purpose : Purposes, used : BOOLEAN, expired : BOOLEAN]
Stored   == [session : Sessions, state : {"connected", "reconnect_needed"}, deepReadDone : BOOLEAN]
Waiting  == [does : {"exchange", "close"}, session : Sessions]
Reading  == [session : Sessions, deep : BOOLEAN]

ASSUME ConnectionAssumption ==
    None \notin Sessions \union Pending \union Stored \union Waiting \union Reading

TypeOK ==
    /\ authorization \in [Authorizations -> Pending \union {None}]
    /\ stored \in Stored \union {None}
    /\ callback \in [Callbacks -> Waiting \union {None}]
    /\ disconnecting \in [Disconnects -> Sessions \union {None}]
    /\ reading \in Reading \union {None}
    /\ open \subseteq Sessions
    /\ exchanged \in [Authorizations -> Nat]
    /\ deepRead \subseteq Sessions

NobodyCalls ==
    /\ callback = [c \in Callbacks |-> None]
    /\ disconnecting = [d \in Disconnects |-> None]
    /\ reading = None

Init ==
    /\ authorization = [a \in Authorizations |-> None]
    /\ stored = None
    /\ NobodyCalls
    /\ open = {}
    /\ exchanged = [a \in Authorizations |-> 0]
    /\ deepRead = {}

Is(c, does, s)  == callback[c] # None /\ callback[c].does = does /\ callback[c].session = s
IsStored(s)     == stored # None /\ stored.session = s
BeingClosed(s)  == \/ \E c \in Callbacks : Is(c, "close", s)
                   \/ \E d \in Disconnects : disconnecting[d] = s

-----------------------------------------------------------------------------
\* Authorising.

\* connect, up to the address of the bank's page; the row stays when the bank gives none.
Connect(a) ==
    /\ authorization[a] = None
    /\ authorization' = [authorization EXCEPT ![a] =
           [purpose |-> IF stored = None THEN "connect" ELSE "renew",
            used |-> FALSE, expired |-> FALSE]]
    /\ UNCHANGED <<stored, callback, disconnecting, reading, open, exchanged, deepRead>>

\* PENDING_MINUTES pass.  deleteStale drops the row a day later, which complete refuses alike.
Expire(a) ==
    /\ authorization[a] # None
    /\ authorization' = [authorization EXCEPT ![a].expired = TRUE]
    /\ UNCHANGED <<stored, callback, disconnecting, reading, open, exchanged, deepRead>>

Usable(a) == authorization[a] # None /\ ~authorization[a].used /\ ~authorization[a].expired

\* A fault: the state is marked used once the code has been exchanged.
RedirectedUnmarked(c, a) ==
    /\ callback[c] = None
    /\ Usable(a)
    /\ callback' = [callback EXCEPT ![c] = [does |-> "exchange", session |-> a]]
    /\ exchanged' = [exchanged EXCEPT ![a] = @ + 1]
    /\ UNCHANGED <<authorization, stored, disconnecting, reading, open, deepRead>>

\* complete, up to the exchange of the code.  The browser may follow the redirect again.
Redirected(c, a) ==
    /\ callback[c] = None
    /\ Usable(a)
    /\ authorization' = [authorization EXCEPT ![a].used = TRUE]
    /\ callback' = [callback EXCEPT ![c] = [does |-> "exchange", session |-> a]]
    /\ exchanged' = [exchanged EXCEPT ![a] = @ + 1]
    /\ UNCHANGED <<stored, disconnecting, reading, open, deepRead>>

\* The bank redirects with an error, or with no code.
RedirectedRefused(a) ==
    /\ Usable(a)
    /\ authorization' = [authorization EXCEPT ![a].used = TRUE]
    /\ UNCHANGED <<stored, callback, disconnecting, reading, open, exchanged, deepRead>>

Previous == IF stored = None THEN None ELSE stored.session

New(s) == [session |-> s, state |-> "connected", deepReadDone |-> FALSE]

\* A fault: the session to close is read after the new one is stored.
ExchangedLate(c, a) ==
    /\ Is(c, "exchange", a)
    /\ open' = open \union {a}
    /\ stored' = New(a)
    /\ callback' = [callback EXCEPT ![c] =
           IF authorization[a].purpose = "renew"
           THEN [does |-> "close", session |-> stored'.session] ELSE None]
    /\ UNCHANGED <<authorization, disconnecting, reading, exchanged, deepRead>>

\* complete, from the bank's session on: it is stored in place of the previous one, which a
\* renewal then asks the bank to close.
Exchanged(c, a) ==
    /\ Is(c, "exchange", a)
    /\ open' = open \union {a}
    /\ stored' = New(a)
    /\ callback' = [callback EXCEPT ![c] =
           IF authorization[a].purpose = "renew" /\ Previous # None
           THEN [does |-> "close", session |-> Previous] ELSE None]
    /\ UNCHANGED <<authorization, disconnecting, reading, exchanged, deepRead>>

\* The code is refused or no answer comes, which the bank may have given.
ExchangeFailed(c, a) ==
    /\ Is(c, "exchange", a)
    /\ open' \in {open, open \union {a}}
    /\ callback' = [callback EXCEPT ![c] = None]
    /\ UNCHANGED <<authorization, stored, disconnecting, reading, exchanged, deepRead>>

\* closeQuietly ends, closed or not.
PreviousClosed(c) ==
    /\ \E s \in Sessions : Is(c, "close", s)
    /\ callback' = [callback EXCEPT ![c] = None]
    /\ UNCHANGED <<authorization, stored, disconnecting, reading, open, exchanged, deepRead>>

-----------------------------------------------------------------------------
\* Closing.

Disconnect(d) ==
    /\ stored # None
    /\ disconnecting[d] = None
    /\ disconnecting' = [disconnecting EXCEPT ![d] = stored.session]
    /\ UNCHANGED <<authorization, stored, callback, reading, open, exchanged, deepRead>>

\* disconnect, from the bank's answer on, good or bad: the row is deleted.
Disconnected(d) ==
    /\ disconnecting[d] # None
    /\ disconnecting' = [disconnecting EXCEPT ![d] = None]
    /\ stored' = None
    /\ UNCHANGED <<authorization, callback, reading, open, exchanged, deepRead>>

\* The bank does what a call in flight asks it; it may also never get to it.
BankCloses(s) ==
    /\ BeingClosed(s)
    /\ open' = open \ {s}
    /\ UNCHANGED <<authorization, stored, callback, disconnecting, reading, exchanged, deepRead>>

\* The session runs out, or is revoked at the bank.
SessionEnds(s) ==
    /\ open' = open \ {s}
    /\ UNCHANGED <<authorization, stored, callback, disconnecting, reading, exchanged, deepRead>>

-----------------------------------------------------------------------------
\* Reading.

\* BankFeedSource.source, and the read that starts with it.
StartRead ==
    /\ reading = None
    /\ stored # None /\ stored.state = "connected"
    /\ reading' = [session |-> stored.session, deep |-> ~stored.deepReadDone]
    /\ UNCHANGED <<authorization, stored, callback, disconnecting, open, exchanged, deepRead>>

\* succeeded: a deep read marks whatever row there is.
ReadSucceeded ==
    /\ reading # None
    /\ reading' = None
    /\ deepRead' = IF reading.deep THEN deepRead \union {reading.session} ELSE deepRead
    /\ stored' = IF reading.deep /\ stored # None THEN [stored EXCEPT !.deepReadDone = TRUE]
                                                  ELSE stored
    /\ UNCHANGED <<authorization, callback, disconnecting, open, exchanged>>

\* failed, with the bank's word that the session read is over: it marks whatever row there is.
ReadFoundSessionEnded ==
    /\ reading # None /\ reading.session \notin open
    /\ reading' = None
    /\ stored' = IF stored = None THEN None ELSE [stored EXCEPT !.state = "reconnect_needed"]
    /\ UNCHANGED <<authorization, callback, disconnecting, open, exchanged, deepRead>>

\* Any other failure changes nothing.
ReadFailed ==
    /\ reading # None
    /\ reading' = None
    /\ UNCHANGED <<authorization, stored, callback, disconnecting, open, exchanged, deepRead>>

\* The server restarts: the database stays, and what was in flight is lost.
Restart ==
    /\ callback' = [c \in Callbacks |-> None]
    /\ disconnecting' = [d \in Disconnects |-> None]
    /\ reading' = None
    /\ UNCHANGED <<authorization, stored, open, exchanged, deepRead>>

Next ==
    \/ \E a \in Authorizations :
           \/ Connect(a) \/ Expire(a) \/ RedirectedRefused(a)
           \/ \E c \in Callbacks : Redirected(c, a) \/ Exchanged(c, a) \/ ExchangeFailed(c, a)
    \/ \E c \in Callbacks : PreviousClosed(c)
    \/ \E d \in Disconnects : Disconnect(d) \/ Disconnected(d)
    \/ \E s \in Sessions : BankCloses(s) \/ SessionEnds(s)
    \/ StartRead \/ ReadSucceeded \/ ReadFoundSessionEnded \/ ReadFailed
    \/ Restart

Spec == Init /\ [][Next]_vars

-----------------------------------------------------------------------------
\* "Used before the exchange, so a replay cannot exchange twice while the first is in flight":
\* however redirects are repeated, overlap or are cut by a restart, a code is asked for once.
ExchangedOnce == \A a \in Authorizations : exchanged[a] <= 1

\* A renewal asks the bank to close the session it replaced and no other: no call of complete
\* in flight is closing the session stored, whatever was authorised or disconnected meanwhile.
RenewalSparesTheStored == \A c \in Callbacks, s \in Sessions : Is(c, "close", s) => ~IsStored(s)

\* "Whether the first, deep read of this session has been done": the row says so only of a
\* session whose deep read has ended well.
DeepReadIsTheSessions == stored # None /\ stored.deepReadDone => stored.session \in deepRead

\* "A read found the session over: the organiser must connect again": the row asks to connect
\* again only when its session is over.
ReconnectOnlyWhenOver ==
    stored # None /\ stored.state = "reconnect_needed" => stored.session \notin open

\* "Closes the session at the bank and forgets it": a row is deleted only by a disconnect that
\* asked the bank to close the session in it.
ForgetsWhatItClosed ==
    [][stored # None /\ stored' = None =>
           \E d \in Disconnects : disconnecting[d] = stored.session /\ disconnecting'[d] = None]_vars

=============================================================================
