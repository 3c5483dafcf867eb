----------------------------- MODULE BankReading -----------------------------
(***************************************************************************)
(* What is read of the bank, and how far: the settings                     *)
(* (repo/bank-settings-service.ts), the source of each read                *)
(* (bank-feed-source.ts), the pages the connector asks for                 *)
(* (bank/enable-banking-connector.ts) and the feed that handles what they  *)
(* brought (bizum/feed.ts), against the bank as the fake one of the tests  *)
(* answers (bank/fake/fake-enable-banking-server.ts), all in server/src.   *)
(*                                                                         *)
(* A read waits for the bank between pages, where anything else may run;   *)
(* once it has them all it handles them with nothing between but a crash,  *)
(* each entry in a transaction of its own.  What becomes of a Bizum kept   *)
(* is BizumDesk's; when a read starts, BankPoller's; the two halves of an  *)
(* authorisation and of a disconnection, BankConnection's; the bank is the *)
(* one the catalogue of production lists.                                  *)
(***************************************************************************)
EXTENDS Integers, FiniteSets

CONSTANTS Accounts, CurrencyOf,          \* what each session gives access to
          Entries, Day, AccountOf, IsBizum,
          Late,                          \* entries the bank has not yet (a bound)
          Today, Window,                 \* the days the bank answers with unless asked for all
          PageSize,
          Sessions,                      \* 1..n (a bound)
          Failures,                      \* failures and crashes (a bound)
          Changeable,                    \* which settings are changed (a bound)
          StartDates,                    \* the days asked for (a bound)
          MidRead,                       \* they are changed while a read waits too
          None

BankReadingAssumption ==
    /\ CurrencyOf \in [Accounts -> STRING] /\ AccountOf \in [Entries -> Accounts]
    /\ Day \in [Entries -> 1..Today] /\ IsBizum \in [Entries -> BOOLEAN]
    /\ Entries \subseteq Nat /\ IsFiniteSet(Entries) /\ Late \subseteq Entries
    /\ \A e \in Late : Day[e] > Today - Window
    /\ {Today, Window, PageSize} \subseteq Nat \ {0} /\ Failures \in Nat
    /\ Sessions \subseteq Nat \ {0} /\ MidRead \in BOOLEAN
    /\ Changeable \subseteq {"currency", "account", "from"} /\ StartDates \subseteq 1..Today

VARIABLES
    bank,        \* the entries it has, those booked, the sessions open and the newest
    settings,    \* bank_settings
    connection,  \* bank_connection, or None
    exchanging,  \* a code of the bank is being exchanged
    read,        \* the read in flight, or None
    handled,     \* how many times each entry has been handled
    failures

vars == <<bank, settings, connection, exchanging, read, handled, failures>>

Currencies == {CurrencyOf[a] : a \in Accounts}
Connection == [session : Sessions, over : BOOLEAN, deepReadDone : BOOLEAN]
Source     == [session : Sessions, account : Accounts, from : 1..Today, deep : BOOLEAN]
Read       == [source : Source, offset : Nat, found : SUBSET Entries, booked : SUBSET Entries,
               all : BOOLEAN, due : SUBSET Entries]

TypeOK ==
    /\ bank \in [has : SUBSET Entries, booked : SUBSET Entries, open : SUBSET Sessions,
                 newest : Sessions \cup {0}]
    /\ bank.booked \subseteq bank.has
    /\ settings \in [currency : Currencies, account : Accounts \cup {None},
                     from : 1..Today \cup {None}]
    /\ connection \in Connection \cup {None}
    /\ exchanging \in BOOLEAN
    /\ read # None => read \in Read
    /\ handled \in [Entries -> Nat] /\ failures \in 0..Failures

Init ==
    /\ bank = [has |-> Entries \ Late, booked |-> Entries \ Late, open |-> {},
               newest |-> 0]
    /\ \E c \in Currencies : settings = [currency |-> c, account |-> None, from |-> None]
    /\ connection = None /\ exchanging = FALSE
    /\ read = None /\ handled = [e \in Entries |-> 0] /\ failures = 0

\* Nothing else runs between two entries being handled.
Waiting == read # None => ~read.all

-----------------------------------------------------------------------------
(* The settings *)

\* One account in the currency by itself, or the one chosen among several.
Selection ==
    LET inCurrency == {a \in Accounts : CurrencyOf[a] = settings.currency} IN
    IF connection = None THEN None
    ELSE IF Cardinality(inCurrency) = 1 THEN CHOOSE a \in inCurrency : TRUE
    ELSE IF settings.account \in inCurrency THEN settings.account ELSE None

\* Everything asked is in order, or nothing changes.
Accepted(change) ==
    /\ change.account # None =>
          /\ connection # None
          /\ CurrencyOf[change.account] =
             IF change.currency = None THEN settings.currency ELSE change.currency
    /\ change.from # None => change.from <= Today

\* A field left out is kept.
Update(change) ==
    /\ Waiting /\ (~MidRead => read = None) /\ Accepted(change)
    /\ settings' = [f \in DOMAIN settings |-> IF change[f] = None THEN settings[f] ELSE change[f]]
    /\ UNCHANGED <<bank, connection, exchanging, read, handled, failures>>

Given(field, values) == IF field \in Changeable THEN values \cup {None} ELSE {None}
Changes == [currency : Given("currency", Currencies), account : Given("account", Accounts),
            from : Given("from", StartDates)]

-----------------------------------------------------------------------------
(* The connection *)

\* The redirect comes back: the code it brings is exchanged.
Redirected ==
    /\ Waiting /\ ~exchanging /\ exchanging' = TRUE
    /\ UNCHANGED <<bank, settings, connection, read, handled, failures>>

\* The bank's session is stored in the place of any other, its deep read to do.
Exchanged(s) ==
    /\ Waiting /\ exchanging /\ s = bank.newest + 1
    /\ bank' = [bank EXCEPT !.open = @ \cup {s}, !.newest = s]
    /\ connection' = [session |-> s, over |-> FALSE, deepReadDone |-> FALSE]
    /\ exchanging' = FALSE
    /\ UNCHANGED <<settings, read, handled, failures>>

ExchangeFailed ==
    /\ Waiting /\ exchanging /\ exchanging' = FALSE
    /\ UNCHANGED <<bank, settings, connection, read, handled, failures>>

\* A session that has been replaced is closed, when the bank gets to it.
CloseReplaced(s) ==
    /\ Waiting /\ s \in bank.open /\ (connection # None => s # connection.session)
    /\ bank' = [bank EXCEPT !.open = @ \ {s}]
    /\ UNCHANGED <<settings, connection, exchanging, read, handled, failures>>

\* Forgotten whether or not the bank closes it.
Disconnect ==
    /\ Waiting /\ connection # None /\ connection' = None
    /\ UNCHANGED <<bank, settings, exchanging, read, handled, failures>>

\* The session runs out or is revoked at the bank.
SessionEnds(s) ==
    /\ Waiting /\ s \in bank.open /\ failures < Failures /\ failures' = failures + 1
    /\ bank' = [bank EXCEPT !.open = @ \ {s}]
    /\ UNCHANGED <<settings, connection, exchanging, read, handled>>

-----------------------------------------------------------------------------
(* The bank *)

\* An entry appears, booked or pending, and is booked later.
Arrive(e, booked) ==
    /\ Waiting /\ e \in Late \ bank.has
    /\ bank' = [bank EXCEPT !.has = @ \cup {e}, !.booked = IF booked THEN @ \cup {e} ELSE @]
    /\ UNCHANGED <<settings, connection, exchanging, read, handled, failures>>

Book(e) ==
    /\ Waiting /\ e \in bank.has \ bank.booked
    /\ bank' = [bank EXCEPT !.booked = @ \cup {e}]
    /\ UNCHANGED <<settings, connection, exchanging, read, handled, failures>>

\* What it answers from a day on; without being asked for all, only so far back.
Matching(source) ==
    {e \in bank.has : /\ AccountOf[e] = source.account /\ Day[e] >= source.from
                      /\ source.deep \/ Day[e] > Today - Window}

\* The newest first.
Newer(d, e) == Day[d] > Day[e] \/ (Day[d] = Day[e] /\ d > e)
Place(e, entries) == Cardinality({d \in entries : d = e \/ Newer(d, e)})
Between(entries, first, last) == {e \in entries : Place(e, entries) \in first..last}

-----------------------------------------------------------------------------
(* A read *)

\* All of it is there, and nothing is missing.
Ready == connection # None /\ ~connection.over /\ settings.from # None /\ Selection # None

\* What is booked and within the source's dates when the read starts.
DueOf(source) == {e \in bank.booked : AccountOf[e] = source.account /\ Day[e] >= source.from}

StartRead ==
    /\ Waiting /\ read = None /\ Ready
    /\ LET source == [session |-> connection.session, account |-> Selection,
                      from |-> settings.from, deep |-> ~connection.deepReadDone]
       IN read' = [source |-> source, offset |-> 0, found |-> {}, booked |-> {}, all |-> FALSE,
                   due |-> DueOf(source)]
    /\ UNCHANGED <<bank, settings, connection, exchanging, handled, failures>>

\* A fault: the last entry of a page that is not the last is left out.
PageSkipping ==
    /\ read # None /\ ~read.all /\ read.source.session \in bank.open
    /\ LET own  == Matching(read.source)
           next == read.offset + PageSize
           page == Between(own, read.offset + 1, IF next < Cardinality(own) THEN next - 1 ELSE next)
       IN read' = [read EXCEPT !.found = @ \cup page, !.booked = @ \cup bank.booked,
                               !.offset = next, !.all = next >= Cardinality(own)]
    /\ UNCHANGED <<bank, settings, connection, exchanging, handled, failures>>

\* One page more, of what there is by then, until the bank gives no continuation key.
Page ==
    /\ read # None /\ ~read.all /\ read.source.session \in bank.open
    /\ LET own  == Matching(read.source)
           next == read.offset + PageSize
           page == Between(own, read.offset + 1, next)
       IN read' = [read EXCEPT !.found = @ \cup page, !.booked = @ \cup (page \cap bank.booked),
                               !.offset = next, !.all = next >= Cardinality(own)]
    /\ UNCHANGED <<bank, settings, connection, exchanging, handled, failures>>

\* A fault: the deep read counts as done though it failed.
PageFailedDeep ==
    /\ read # None /\ ~read.all /\ failures < Failures /\ read' = None
    /\ connection' = (IF read.source.deep /\ connection # None
                      THEN [connection EXCEPT !.deepReadDone = TRUE] ELSE connection)
    /\ failures' = failures + 1 /\ UNCHANGED <<bank, settings, exchanging, handled>>

\* The bank does not answer, or asks to wait: nothing of this read is handled.
PageFailed ==
    /\ read # None /\ ~read.all /\ failures < Failures /\ read' = None
    /\ failures' = failures + 1 /\ UNCHANGED <<bank, settings, connection, exchanging, handled>>

\* The session is over: the organiser must connect again.
PageFoundSessionEnded ==
    /\ read # None /\ ~read.all /\ read.source.session \notin bank.open /\ read' = None
    /\ connection' = (IF connection = None THEN None ELSE [connection EXCEPT !.over = TRUE])
    /\ UNCHANGED <<bank, settings, exchanging, handled, failures>>

\* Everything booked that was found, from its start date on and not in the ledger yet.
ToHandle == {e \in read.found \cap read.booked : handled[e] = 0 /\ Day[e] >= read.source.from}

\* What is not a Bizum is remembered first.
First(e, d) ==
    IF IsBizum[e] # IsBizum[d] THEN ~IsBizum[e]
    ELSE Day[e] < Day[d] \/ (Day[e] = Day[d] /\ e < d)

\* Oldest booking first, each remembered with what is done with it.
Handle(e) ==
    /\ read # None /\ read.all /\ e \in ToHandle /\ \A d \in ToHandle \ {e} : First(e, d)
    /\ handled' = [handled EXCEPT ![e] = @ + 1]
    /\ UNCHANGED <<bank, settings, connection, exchanging, read, failures>>

\* A deep read marks whatever connection there is.
Ended == /\ read # None /\ read.all /\ ToHandle = {}
         /\ connection' = (IF read.source.deep /\ connection # None
                           THEN [connection EXCEPT !.deepReadDone = TRUE] ELSE connection)
         /\ read' = None
         /\ UNCHANGED <<bank, settings, exchanging, handled, failures>>

\* What was handled stays handled; the rest is found again.
Crash ==
    /\ failures < Failures /\ failures' = failures + 1
    /\ (read # None \/ exchanging)
    /\ read' = None /\ exchanging' = FALSE
    /\ UNCHANGED <<bank, settings, connection, handled>>

-----------------------------------------------------------------------------
\* What a read does next, if the bank answers.
Reads == StartRead \/ Page \/ PageFoundSessionEnded \/ (\E e \in Entries : Handle(e)) \/ Ended

Next ==
    \/ \E change \in Changes : Update(change)
    \/ Redirected \/ ExchangeFailed \/ Disconnect
    \/ \E s \in Sessions : Exchanged(s) \/ CloseReplaced(s) \/ SessionEnds(s)
    \/ \E e \in Entries : Book(e) \/ \E booked \in BOOLEAN : Arrive(e, booked)
    \/ Reads \/ PageFailed \/ Crash

Spec == Init /\ [][Next]_vars

-----------------------------------------------------------------------------
(* Properties *)

\* Each entry is handled once, whatever reads fail, crash or are repeated, and though the
\* pages shift under a read when entries arrive (feed.ts, "handles every one exactly once").
HandledOnce == \A e \in Entries : handled[e] <= 1

\* A Bizum is handled only after every older one that was booked and to be read when the
\* read started (feed.ts, "oldest booking first").
OldestFirst ==
    \A e \in Entries : handled'[e] > handled[e] /\ IsBizum[e] =>
       \A d \in read.due : IsBizum[d] /\ Day[d] < Day[e] => handled[d] > 0

\* A read that ends well has handled everything that was booked from its start date on
\* (feed.ts, "A start date moved back later can still read it").
ReadIsComplete ==
    read # None /\ read' = None /\ failures' = failures
    /\ read.source.session \in bank.open /\ read.all
       => \A e \in read.due : handled[e] > 0

\* Nothing is handled but of the account chosen and from the day set (BankReadingSettings,
\* "Se ignora todo lo anterior al").
HandlesWhatIsAsked ==
    \A e \in Entries : handled'[e] > handled[e] /\ connection # None =>
       Day[e] >= settings.from /\ AccountOf[e] = Selection

\* Nothing is handled of an account in another currency than the one set, though another was
\* set before, and though the connection is ended or renewed while it is read
\* (account-selection.ts).
HandlesTheCurrency ==
    \A e \in Entries : handled'[e] > handled[e] => CurrencyOf[AccountOf[e]] = settings.currency

\* An entry is booked, and session s is to read it.
ToBeHandled(e, s) ==
    e \in bank.booked /\ Ready /\ AccountOf[e] = Selection /\ connection.session = s
    /\ Day[e] >= settings.from

\* It is, or the session does not last or is held to be over.
HandledOrOver(e, s) ==
    handled[e] > 0 \/ s \notin bank.open
    \/ (connection # None => connection.session # s \/ connection.over)
=============================================================================
