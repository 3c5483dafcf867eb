--------------------------- MODULE BankReads_proofs ---------------------------
(***************************************************************************)
(* Proofs about the reads of the account: when it is read, of BankPoller,  *)
(* for any intervals and any waits of the bank; and what is read, of       *)
(* BankReading, for any entries, pages and failures.                       *)
(***************************************************************************)
EXTENDS BankPoller, FiniteSetTheorems, TLAPS

CONSTANTS Accounts, CurrencyOf, Entries, Day, AccountOf, IsBizum, Late, Today, Window,
          PageSize, Sessions, Failures, Changeable, StartDates, MidRead, None   \* of BankReading
VARIABLES bank, settings, connection, exchanging, read, handled, failures

Feed == INSTANCE BankReading

-----------------------------------------------------------------------------
(* When the account is read.  A timer that is set is never shorter than what the last *)
(* read still asks to wait.                                                           *)

\* A set timer covers the rest of the interval and of the bank's wait.
TimerCoversTheWait == timer # NoTimer => timer >= Interval - since /\ timer >= limit

\* A server that is down has no timer and no read.
DownIsIdle == ~up => timer = NoTimer /\ reads = 0

Inv == TypeOK /\ OneReadAtATime /\ NextReadInSight /\ TimerCoversTheWait /\ DownIsIdle

LEMMA InitInv == Init => Inv
  <1> SUFFICES ASSUME Init PROVE Inv
    OBVIOUS
  <1>1. TypeOK
    <2>1. up \in BOOLEAN /\ ready \in BOOLEAN /\ reading \in BOOLEAN
      BY Zenon DEF Init
    <2>2. /\ reads \in Nat /\ timer \in Nat \union {NoTimer}
          /\ since \in 0..Interval /\ limit \in Nat
      BY PollerAssumption DEF PollerAssumption, Init
    <2> QED
      BY <2>1, <2>2 DEF TypeOK
  <1>2. OneReadAtATime
    BY DEF Init, OneReadAtATime
  <1>3. NextReadInSight /\ TimerCoversTheWait /\ DownIsIdle
    BY DEF Init, NextReadInSight, TimerCoversTheWait, DownIsIdle
  <1> QED
    BY <1>1, <1>2, <1>3 DEF Inv

\* What DueAfter returns: the longer of what is left of the interval and the wait.
LEMMA DueAfterBounds ==
  ASSUME NEW passed \in 0..Interval, NEW wait \in Nat
  PROVE  /\ DueAfter(passed, wait) \in 0..Longer(Interval, wait)
         /\ DueAfter(passed, wait) >= Interval - passed
         /\ DueAfter(passed, wait) >= wait
  BY PollerAssumption DEF PollerAssumption, DueAfter, Longer

LEMMA FlagsType ==
  ASSUME Inv, [Next]_vars
  PROVE  up' \in BOOLEAN /\ ready' \in BOOLEAN /\ reading' \in BOOLEAN
  BY Zenon DEF Inv, TypeOK, Next, vars, Start, Stop, Tick, ReadinessChanges, RequestRead,
     Scheduled, AnyReadEnds, ReadEnds, ReadLimited, ReadFindsSessionEnded, EndRead

\* The conjuncts of Inv, given that the flags are Boolean.
LEMMA InvFromParts ==
  ASSUME up' \in BOOLEAN /\ ready' \in BOOLEAN /\ reading' \in BOOLEAN,
         reads' \in Nat /\ timer' \in Nat \union {NoTimer},
         since' \in 0..Interval /\ limit' \in Nat,
         OneReadAtATime', NextReadInSight', TimerCoversTheWait', DownIsIdle'
  PROVE  Inv'
  BY DEF Inv, TypeOK

LEMMA EndReadKeepsInv ==
  ASSUME Inv, [Next]_vars, NEW wait \in Nat, EndRead(wait), up' = up
  PROVE  Inv'
  <1>1. up /\ up' /\ ~reading'
    <2>1. reads # 0
      BY DEF Inv, TypeOK, EndRead
    <2>2. up
      BY <2>1 DEF Inv, DownIsIdle
    <2> QED
      BY <2>2, Zenon DEF EndRead
  <1>2. timer' \in 0..Longer(Interval, wait) /\ timer' >= Interval /\ timer' >= wait
    BY DueAfterBounds, PollerAssumption DEF PollerAssumption, EndRead
  <1>3. reads' = 0
    BY DEF Inv, OneReadAtATime, EndRead
  <1>4. since' = 0 /\ limit' = wait
    BY DEF EndRead
  <1>5. timer' \in Nat /\ since' \in 0..Interval
    BY <1>2, <1>4, PollerAssumption DEF PollerAssumption, Longer
  <1>6. OneReadAtATime' /\ DownIsIdle'
    BY <1>1, <1>3 DEF OneReadAtATime, DownIsIdle
  <1>7. NextReadInSight'
    BY <1>2, <1>4 DEF NextReadInSight, Longer
  <1>8. TimerCoversTheWait'
    BY <1>2, <1>4, PollerAssumption DEF PollerAssumption, TimerCoversTheWait
  <1> QED
    BY <1>3, <1>4, <1>5, <1>6, <1>7, <1>8, FlagsType, InvFromParts

LEMMA NextInv == Inv /\ [Next]_vars => Inv'
  <1> SUFFICES ASSUME Inv, [Next]_vars PROVE Inv'
    OBVIOUS
  <1> USE PollerAssumption DEF PollerAssumption
  <1>1. CASE Start
    <2> DEFINE due == DueAfter(since, limit)
    <2>1. reads = 0
      BY <1>1 DEF Start, Inv, DownIsIdle
    <2>2. ~reading
      BY <2>1 DEF Inv, OneReadAtATime
    <2>3. up' /\ ~reading'
      BY <1>1, <2>2, Zenon DEF Start
    <2>4. due \in 0..Longer(Interval, limit) /\ due >= Interval - since /\ due >= limit
      BY DueAfterBounds DEF Inv, TypeOK
    <2>5. timer' = IF due > 0 THEN due ELSE StartDelay
      BY <1>1 DEF Start
    <2> HIDE DEF due
    <2>6. /\ timer' \in 1..Longer(Interval, limit)
          /\ timer' >= Interval - since /\ timer' >= limit
      BY <2>4, <2>5 DEF Inv, TypeOK, Longer
    <2>7. timer' \in Nat /\ UNCHANGED <<reads, since, limit>>
      BY <1>1, <2>6 DEF Start
    <2> QED
      BY <2>1, <2>3, <2>6, <2>7, FlagsType, InvFromParts DEF Inv, TypeOK, OneReadAtATime,
         NextReadInSight, TimerCoversTheWait, DownIsIdle, Longer
  <1>2. CASE Stop
    <2>1. ~up' /\ ~reading'
      BY <1>2, Zenon DEF Stop
    <2>2. reads' = 0 /\ timer' = NoTimer /\ UNCHANGED <<since, limit>>
      BY <1>2 DEF Stop
    <2> QED
      BY <2>1, <2>2, FlagsType, InvFromParts DEF Inv, TypeOK, OneReadAtATime,
         NextReadInSight, TimerCoversTheWait, DownIsIdle
  <1>3. CASE Tick
    BY <1>3, FlagsType, InvFromParts DEF Tick, Less, Longer, Inv, TypeOK, OneReadAtATime,
       NextReadInSight, TimerCoversTheWait, DownIsIdle, NoTimer
  <1>4. CASE ReadinessChanges
    BY <1>4, FlagsType, InvFromParts DEF ReadinessChanges, Inv, TypeOK, OneReadAtATime,
       NextReadInSight, TimerCoversTheWait, DownIsIdle
  <1>5. CASE RequestRead
    <2>1. reading' /\ ~reading /\ up
      BY <1>5, Zenon DEF RequestRead
    <2>2. reads' = 1
      BY <1>5, <2>1 DEF RequestRead, Inv, OneReadAtATime
    <2>3. UNCHANGED <<up, timer, since, limit>>
      BY <1>5 DEF RequestRead
    <2> QED
      BY <2>1, <2>2, <2>3, FlagsType, InvFromParts DEF Inv, TypeOK, OneReadAtATime,
         NextReadInSight, TimerCoversTheWait, DownIsIdle
  <1>6. CASE Scheduled
    <2>1. /\ up /\ up'
          /\ since = Interval /\ limit = 0 /\ UNCHANGED <<since, limit>>
      BY <1>6 DEF Scheduled, Inv, TypeOK, TimerCoversTheWait, NoTimer
    <2>2. CASE ~reading /\ ready
      <3>1. reading'
        BY <1>6, <2>2, Zenon DEF Scheduled
      <3>2. reads' = 1 /\ timer' = NoTimer
        BY <1>6, <2>2 DEF Scheduled, Inv, OneReadAtATime
      <3> QED
        BY <2>1, <3>1, <3>2, FlagsType, InvFromParts DEF Inv, TypeOK, OneReadAtATime,
           NextReadInSight, TimerCoversTheWait, DownIsIdle
    <2>3. CASE reading \/ ~ready
      <3>1. timer' = Interval /\ UNCHANGED <<reading, reads>>
        BY <1>6, <2>3 DEF Scheduled
      <3> QED
        BY <2>1, <3>1, FlagsType, InvFromParts DEF Inv, TypeOK, OneReadAtATime,
           NextReadInSight, TimerCoversTheWait, DownIsIdle, Longer
    <2> QED
      BY <2>2, <2>3
  <1>7. CASE AnyReadEnds
    BY <1>7, EndReadKeepsInv DEF AnyReadEnds, ReadEnds, ReadLimited, ReadFindsSessionEnded
  <1>8. CASE UNCHANGED vars
    BY <1>8 DEF vars, Inv, TypeOK, OneReadAtATime, NextReadInSight, TimerCoversTheWait, DownIsIdle
  <1> QED
    BY <1>1, <1>2, <1>3, <1>4, <1>5, <1>6, <1>7, <1>8 DEF Next

LEMMA InvHolds == Spec => []Inv
  BY InitInv, NextInv, PTL DEF Spec

\* Reads one at a time, for any intervals: bank-poller.ts sets its flag before its first await
\* and clears it when the read has been recorded.
THEOREM ReadsOneAtATime == Spec => []OneReadAtATime
  <1>1. Inv => OneReadAtATime
    BY DEF Inv
  <1> QED
    BY <1>1, InvHolds, PTL

\* A running server always has its next read in sight: no refusal, failure or limit drops the
\* schedule.  It is the safety half of being read again and again.
THEOREM AlwaysANextRead == Spec => []NextReadInSight
  <1>1. Inv => NextReadInSight
    BY DEF Inv
  <1> QED
    BY <1>1, InvHolds, PTL

\* No read asks the bank while it is limited or within the least gap.
THEOREM PatientReads == Spec => NeverAsksTooSoon
  <1>1. Inv /\ [Next]_vars => [reads' > reads => limit = 0 /\ since >= MinGap]_vars
    <2> SUFFICES ASSUME Inv, Next, reads' > reads PROVE limit = 0 /\ since >= MinGap
      BY DEF vars
    <2> USE PollerAssumption DEF PollerAssumption, Inv, TypeOK
    <2>1. CASE RequestRead
      BY <2>1 DEF RequestRead
    <2>2. CASE Scheduled
      BY <2>2 DEF Scheduled, TimerCoversTheWait, NoTimer
    <2>3. CASE Start \/ Stop \/ Tick \/ ReadinessChanges
      BY <2>3 DEF Start, Stop, Tick, ReadinessChanges, OneReadAtATime
    <2>4. CASE AnyReadEnds
      BY <2>4 DEF AnyReadEnds, ReadEnds, ReadLimited, ReadFindsSessionEnded, EndRead
    <2> QED
      BY <2>1, <2>2, <2>3, <2>4 DEF Next
  <1> QED
    BY <1>1, InvHolds, PTL DEF Spec, NeverAsksTooSoon

\* The schedule survives restarts and requests: a scheduled read comes a whole interval after
\* the last read or later.
THEOREM ScheduleKept == Spec => KeepsTheInterval
  <1>1. Inv => [Scheduled /\ reads' > reads => since = Interval]_vars
    BY PollerAssumption DEF PollerAssumption, Inv, TypeOK, TimerCoversTheWait, NoTimer, Scheduled
  <1> QED
    BY <1>1, InvHolds, PTL DEF KeepsTheInterval

-----------------------------------------------------------------------------
(* What is read.  An entry is in the ledger, found, or further down than the pages asked *)
(* for: an entry that arrives moves those below it down, never up.                        *)

\* The one account there is in the currency set.
Only == CHOOSE a \in {a \in Accounts : CurrencyOf[a] = settings.currency} : TRUE

\* The account and the currency stay as they are, and the start date is chosen once.
OneStart == Changeable \subseteq {"from"} /\ \A c, d \in StartDates : c = d

\* An entry of the account read, of the start date or after it.
Asked(e) == AccountOf[e] = Only /\ Day[e] >= settings.from

\* Entry e, which read r is to handle, has not been missed.
InSight(e, r) ==
    \/ handled[e] > 0
    \/ e \in r.found /\ e \in r.booked
    \/ /\ ~r.all /\ e \in Feed!Matching(r.source)
       /\ Feed!Place(e, Feed!Matching(r.source)) > r.offset

\* What was booked before anything arrived is in the ledger once a deep read has ended.
OldAreHandled == \A e \in Entries \ Late : Asked(e) => handled[e] > 0

ReadIsSound ==
    /\ read.source.account = Only /\ read.source.from = settings.from
    /\ \A e \in read.due : Asked(e) /\ e \in bank.booked /\ InSight(e, read)
    /\ read.source.deep => \A e \in Entries \ Late : Asked(e) => e \in read.due

ReadingTypes == Feed!TypeOK /\ handled \in [Entries -> 0..1]

ReadingInv ==
    /\ ReadingTypes
    /\ settings.account = None /\ settings.from \in StartDates \cup {None}
    /\ Entries \ Late \subseteq bank.booked
    /\ read # None => settings.from # None /\ ReadIsSound
    /\ connection # None /\ connection.deepReadDone => settings.from # None /\ OldAreHandled

\* The counting of BankReading is that of the library.
LEMMA SameCount ==
    ASSUME NEW S
    PROVE  Feed!Cardinality(S) = Cardinality(S) /\ (Feed!IsFiniteSet(S) <=> IsFiniteSet(S))
  BY DEF Feed!Cardinality, Cardinality, Feed!IsFiniteSet, IsFiniteSet

\* An entry's place among others only grows as others arrive.
LEMMA PlaceGrows ==
    ASSUME NEW T, IsFiniteSet(T), NEW S \in SUBSET T, NEW e \in S
    PROVE  /\ Feed!Place(e, S) \in Nat /\ Feed!Place(e, S) >= 1
           /\ Feed!Place(e, S) <= Feed!Place(e, T) /\ Feed!Place(e, T) \in Nat
           /\ Cardinality(S) \in Nat /\ Feed!Place(e, S) <= Cardinality(S)
<1> DEFINE Above(U) == {d \in U : d = e \/ Feed!Newer(d, e)}
<1>1. /\ IsFiniteSet(S) /\ IsFiniteSet(Above(T)) /\ IsFiniteSet(Above(S))
      /\ Above(S) \subseteq Above(T) /\ Above(S) \subseteq S /\ Above(T) \subseteq T
  <2>1. Above(S) \subseteq Above(T) /\ Above(S) \subseteq S /\ Above(T) \subseteq T
    OBVIOUS
  <2> HIDE DEF Above
  <2> QED
    BY <2>1, FS_Subset
<1>2. e \in Above(S)
  OBVIOUS
<1>3. Feed!Place(e, S) = Cardinality(Above(S)) /\ Feed!Place(e, T) = Cardinality(Above(T))
  BY SameCount DEF Feed!Place
<1> HIDE DEF Above
<1>4. /\ Cardinality(Above(S)) \in Nat /\ Cardinality(Above(T)) \in Nat /\ Cardinality(S) \in Nat
  BY <1>1, FS_CardinalityType
<1>5. Cardinality(Above(S)) <= Cardinality(Above(T)) /\ Cardinality(Above(S)) <= Cardinality(S)
  BY <1>1, FS_Subset
<1>6. Cardinality(Above(S)) # 0
  BY <1>1, <1>2, FS_EmptySet
<1> QED
  BY <1>3, <1>4, <1>5, <1>6

LEMMA ReadingTypesAtFirst ==
    ASSUME Feed!BankReadingAssumption, Feed!Init PROVE ReadingTypes
<1>1. /\ bank.has = Entries \ Late /\ bank.booked = Entries \ Late
      /\ bank \in [has : SUBSET Entries, booked : SUBSET Entries, open : SUBSET Sessions,
                   newest : Sessions \cup {0}]
  BY DEF Feed!Init
<1>2. settings \in [currency : Feed!Currencies, account : Accounts \cup {None},
                    from : 1..Today \cup {None}]
  BY DEF Feed!Init
<1>3. /\ connection = None /\ exchanging = FALSE /\ read = None /\ failures = 0
      /\ handled = [e \in Entries |-> 0] /\ Failures \in Nat
  BY DEF Feed!Init, Feed!BankReadingAssumption
<1>4. handled \in [Entries -> 0..1] /\ handled \in [Entries -> Nat] /\ failures \in 0..Failures
  BY <1>3
<1>5. exchanging \in BOOLEAN
  BY <1>3
<1> QED
  BY <1>1, <1>2, <1>3, <1>4, <1>5 DEF ReadingTypes, Feed!TypeOK

\* The account a read is started for is the only one, or the one chosen, of the currency set.
LEMMA SelectionIs ==
    ASSUME Feed!Selection # None
    PROVE  /\ Feed!Selection \in Accounts /\ CurrencyOf[Feed!Selection] = settings.currency
           /\ settings.account = None => Feed!Selection = Only
<1> DEFINE inCurrency == {a \in Accounts : CurrencyOf[a] = settings.currency}
<1>1. Cardinality({}) = 0
  BY FS_EmptySet
<1>2. CASE Cardinality(inCurrency) = 1
  <2>1. inCurrency # {} /\ Feed!Selection = CHOOSE a \in inCurrency : TRUE
    BY <1>1, <1>2 DEF Feed!Selection
  <2>2. Feed!Selection \in inCurrency
    BY <2>1
  <2> QED
    BY <2>1, <2>2 DEF Only
<1>3. CASE Cardinality(inCurrency) # 1
  <2>1. settings.account \in inCurrency /\ Feed!Selection = settings.account
    BY <1>3, SameCount DEF Feed!Selection
  <2> QED
    BY <2>1
<1> QED
  BY <1>2, <1>3

LEMMA ChangeIs ==
    ASSUME ReadingTypes, NEW change \in Feed!Changes,
           settings' = [f \in DOMAIN settings |->
                          IF change[f] = None THEN settings[f] ELSE change[f]],
           Feed!BankReadingAssumption
    PROVE  /\ settings' \in [currency : Feed!Currencies, account : Accounts \cup {None},
                             from : 1..Today \cup {None}]
           /\ "currency" \notin Changeable => settings'.currency = settings.currency
           /\ "account" \notin Changeable => settings'.account = settings.account
           /\ settings'.from = settings.from \/ settings'.from \in StartDates
           /\ settings'.from = None => settings.from = None
<1>1. DOMAIN settings = {"currency", "account", "from"}
  BY DEF ReadingTypes, Feed!TypeOK
<1>2. settings' = [currency |-> IF change.currency = None THEN settings.currency
                                ELSE change.currency,
                   account |-> IF change.account = None THEN settings.account ELSE change.account,
                   from |-> IF change.from = None THEN settings.from ELSE change.from]
  BY <1>1
<1>3. /\ change.currency \in Feed!Currencies \cup {None}
      /\ change.account \in Accounts \cup {None}
      /\ change.from \in StartDates \cup {None} /\ StartDates \subseteq 1..Today
      /\ "currency" \notin Changeable => change.currency = None
      /\ "account" \notin Changeable => change.account = None
  BY DEF Feed!Changes, Feed!Given, Feed!BankReadingAssumption
<1> QED
  BY <1>2, <1>3 DEF ReadingTypes, Feed!TypeOK

-----------------------------------------------------------------------------
(* The types of what is read *)

LEMMA StartReadTypes ==
    ASSUME Feed!BankReadingAssumption, ReadingTypes, Feed!StartRead PROVE ReadingTypes'
<1>1. /\ connection # None /\ settings.from # None /\ Feed!Selection # None
      /\ UNCHANGED <<bank, settings, connection, exchanging, handled, failures>>
  BY DEF Feed!StartRead, Feed!Ready
<1> DEFINE source == [session |-> connection.session, account |-> Feed!Selection,
                      from |-> settings.from, deep |-> ~connection.deepReadDone]
           due == Feed!DueOf(source)
<1>2. read' = [source |-> source, offset |-> 0, found |-> {}, booked |-> {}, all |-> FALSE,
               due |-> due]
  BY DEF Feed!StartRead
<1>3. source \in Feed!Source
  BY <1>1, SelectionIs DEF ReadingTypes, Feed!TypeOK, Feed!Connection, Feed!Source
<1>4. due \subseteq Entries
  BY DEF Feed!DueOf, ReadingTypes, Feed!TypeOK
<1> HIDE DEF source, due
<1>5. read' \in Feed!Read
  BY <1>2, <1>3, <1>4 DEF Feed!Read
<1> QED
  BY <1>1, <1>5 DEF ReadingTypes, Feed!TypeOK

LEMMA PageTypes ==
    ASSUME Feed!BankReadingAssumption, ReadingTypes, Feed!Page PROVE ReadingTypes'
<1> DEFINE own == Feed!Matching(read.source)
           next == read.offset + PageSize
           page == Feed!Between(own, read.offset + 1, next)
           all == next >= Cardinality(own)
<1>1. /\ read' = [read EXCEPT !.found = @ \cup page, !.booked = @ \cup (page \cap bank.booked),
                              !.offset = next, !.all = all]
      /\ read \in Feed!Read
      /\ UNCHANGED <<bank, settings, connection, exchanging, handled, failures>>
  BY SameCount DEF Feed!Page, ReadingTypes, Feed!TypeOK
<1>2. own \subseteq Entries /\ page \subseteq own
  BY DEF Feed!Matching, Feed!Between, ReadingTypes, Feed!TypeOK
<1>3. next \in Nat /\ all \in BOOLEAN
  BY <1>1 DEF Feed!Read, Feed!BankReadingAssumption
<1> HIDE DEF own, next, page, all
<1>4. read' \in Feed!Read
  BY <1>1, <1>2, <1>3 DEF Feed!Read
<1> QED
  BY <1>1, <1>4 DEF ReadingTypes, Feed!TypeOK

LEMMA BankTypes ==
    ASSUME Feed!BankReadingAssumption, ReadingTypes,
           \/ \E s \in Sessions : Feed!Exchanged(s) \/ Feed!CloseReplaced(s) \/ Feed!SessionEnds(s)
           \/ \E e \in Entries : Feed!Book(e) \/ \E booked \in BOOLEAN : Feed!Arrive(e, booked)
    PROVE  /\ ReadingTypes' /\ bank.has \subseteq bank'.has /\ bank.booked \subseteq bank'.booked
           /\ UNCHANGED <<settings, read, handled>>
           /\ connection' = connection \/ ~connection'.deepReadDone
<1> DEFINE Banks == [has : SUBSET Entries, booked : SUBSET Entries, open : SUBSET Sessions,
                     newest : Sessions \cup {0}]
<1>1. bank \in Banks /\ bank.booked \subseteq bank.has /\ connection \in Feed!Connection \cup {None}
  BY DEF ReadingTypes, Feed!TypeOK
<1>2. ASSUME bank' \in Banks, bank'.booked \subseteq bank'.has,
             UNCHANGED <<settings, read, handled>>, connection' \in Feed!Connection \cup {None},
             exchanging' \in BOOLEAN, failures' \in 0..Failures
      PROVE  ReadingTypes'
  BY <1>2 DEF ReadingTypes, Feed!TypeOK
<1>3. failures \in 0..Failures /\ exchanging \in BOOLEAN /\ Failures \in Nat
  BY DEF ReadingTypes, Feed!TypeOK, Feed!BankReadingAssumption
<1>4. ASSUME NEW s \in Sessions, Feed!Exchanged(s)
      PROVE  ReadingTypes' /\ bank'.has = bank.has /\ bank'.booked = bank.booked
             /\ UNCHANGED <<settings, read, handled>> /\ ~connection'.deepReadDone
  <2>1. bank' = [bank EXCEPT !.open = @ \cup {s}, !.newest = s]
        /\ connection' = [session |-> s, over |-> FALSE, deepReadDone |-> FALSE]
        /\ exchanging' = FALSE /\ UNCHANGED <<settings, read, handled, failures>>
    BY <1>4 DEF Feed!Exchanged
  <2>2. bank' \in Banks /\ bank'.has = bank.has /\ bank'.booked = bank.booked
    BY <1>1, <2>1
  <2>3. connection' \in Feed!Connection /\ ~connection'.deepReadDone
    BY <2>1 DEF Feed!Connection
  <2> QED
    BY <1>1, <1>2, <1>3, <2>1, <2>2, <2>3
<1>5. ASSUME NEW s \in Sessions, Feed!CloseReplaced(s) \/ Feed!SessionEnds(s)
      PROVE  ReadingTypes' /\ bank'.has = bank.has /\ bank'.booked = bank.booked
             /\ UNCHANGED <<settings, read, handled, connection>>
  <2>1. bank' = [bank EXCEPT !.open = @ \ {s}] /\ failures' \in 0..Failures
        /\ UNCHANGED <<settings, connection, exchanging, read, handled>>
    BY <1>3, <1>5 DEF Feed!CloseReplaced, Feed!SessionEnds
  <2>2. bank' \in Banks /\ bank'.has = bank.has /\ bank'.booked = bank.booked
    BY <1>1, <2>1
  <2> QED
    BY <1>1, <1>2, <1>3, <2>1, <2>2
<1>6. ASSUME NEW e \in Entries, Feed!Book(e) \/ \E booked \in BOOLEAN : Feed!Arrive(e, booked)
      PROVE  ReadingTypes' /\ bank.has \subseteq bank'.has /\ bank.booked \subseteq bank'.booked
             /\ UNCHANGED <<settings, read, handled, connection>>
  <2>1. UNCHANGED <<settings, connection, exchanging, read, handled, failures>>
    BY <1>6 DEF Feed!Book, Feed!Arrive
  <2>2. PICK has \in SUBSET Entries, booked \in SUBSET Entries :
            /\ booked \subseteq has
            /\ bank' = [has |-> has, booked |-> booked, open |-> bank.open, newest |-> bank.newest]
            /\ bank.has \subseteq has /\ bank.booked \subseteq booked
    <3>1. CASE Feed!Book(e)
      <4> DEFINE booked == bank.booked \cup {e}
      <4>1. /\ bank' = [has |-> bank.has, booked |-> booked, open |-> bank.open,
                        newest |-> bank.newest]
            /\ booked \subseteq bank.has /\ bank.booked \subseteq booked
        BY <1>1, <3>1 DEF Feed!Book
      <4>2. bank.has \in SUBSET Entries /\ booked \in SUBSET Entries
        BY <1>1, <4>1
      <4> HIDE DEF booked
      <4> QED
        BY <4>1, <4>2
    <3>2. CASE \E booked \in BOOLEAN : Feed!Arrive(e, booked)
      <4>1. PICK b \in BOOLEAN : Feed!Arrive(e, b)
        BY <3>2
      <4> DEFINE booked == IF b THEN bank.booked \cup {e} ELSE bank.booked
      <4>2. bank' = [has |-> bank.has \cup {e}, booked |-> booked, open |-> bank.open,
                     newest |-> bank.newest]
        BY <1>1, <4>1 DEF Feed!Arrive
      <4>3. /\ bank.has \cup {e} \in SUBSET Entries /\ booked \in SUBSET Entries
            /\ booked \subseteq bank.has \cup {e} /\ bank.booked \subseteq booked
        BY <1>1
      <4> HIDE DEF booked
      <4> QED
        BY <4>2, <4>3
    <3> QED
      BY <1>6, <3>1, <3>2
  <2>3. bank' \in Banks /\ bank'.has = has /\ bank'.booked = booked
    BY <1>1, <2>2
  <2> QED
    BY <1>1, <1>2, <1>3, <2>1, <2>2, <2>3
<1> QED
  BY <1>4, <1>5, <1>6

LEMMA OtherTypes ==
    ASSUME Feed!BankReadingAssumption, ReadingTypes,
           \/ Feed!Redirected \/ Feed!ExchangeFailed \/ Feed!Disconnect \/ Feed!PageFailed
           \/ Feed!Crash
           \/ Feed!PageFoundSessionEnded \/ Feed!Ended \/ \E e \in Entries : Feed!Handle(e)
    PROVE  /\ ReadingTypes' /\ UNCHANGED <<bank, settings>>
           /\ read' = None \/ read' = read
           /\ \A e \in Entries : handled'[e] >= handled[e]
<1>1. /\ failures \in 0..Failures /\ Failures \in Nat /\ handled \in [Entries -> 0..1]
      /\ connection \in Feed!Connection \cup {None} /\ exchanging \in BOOLEAN
  BY DEF ReadingTypes, Feed!TypeOK, Feed!BankReadingAssumption
<1>2. UNCHANGED <<bank, settings>> /\ (read' = None \/ read' = read)
  BY DEF Feed!Redirected, Feed!ExchangeFailed, Feed!Disconnect, Feed!PageFailed, Feed!Crash,
         Feed!PageFoundSessionEnded, Feed!Ended, Feed!Handle
<1>3. failures' \in 0..Failures /\ exchanging' \in BOOLEAN
  <2>1. CASE Feed!PageFailed \/ Feed!Crash
    <3>1. failures < Failures /\ failures' = failures + 1 /\ exchanging' \in {exchanging, FALSE}
      BY <2>1 DEF Feed!PageFailed, Feed!Crash
    <3>2. failures + 1 \in 0..Failures
      BY <1>1, <3>1
    <3> QED
      BY <1>1, <3>1, <3>2
  <2>2. CASE ~(Feed!PageFailed \/ Feed!Crash)
    <3>1. failures' = failures /\ exchanging' \in {exchanging, TRUE, FALSE}
      BY <2>2
         DEF Feed!Redirected, Feed!ExchangeFailed, Feed!Disconnect, Feed!PageFoundSessionEnded,
             Feed!Ended, Feed!Handle
    <3> QED
      BY <1>1, <3>1
  <2> QED
    BY <2>1, <2>2
<1>4. connection' \in Feed!Connection \cup {None}
  <2>1. \/ connection' \in {connection, None}
        \/ connection' = [connection EXCEPT !.over = TRUE] /\ connection # None
        \/ connection' = [connection EXCEPT !.deepReadDone = TRUE] /\ connection # None
    BY DEF Feed!Redirected, Feed!ExchangeFailed, Feed!Disconnect, Feed!PageFailed, Feed!Crash,
           Feed!PageFoundSessionEnded, Feed!Ended, Feed!Handle
  <2> QED
    BY <1>1, <2>1 DEF Feed!Connection
<1>5. /\ handled' \in [Entries -> 0..1] /\ handled' \in [Entries -> Nat]
      /\ \A e \in Entries : handled'[e] >= handled[e]
  <2>1. \/ handled' = handled
        \/ \E e \in Entries : handled[e] = 0 /\ handled' = [handled EXCEPT ![e] = @ + 1]
    BY DEF Feed!Redirected, Feed!ExchangeFailed, Feed!Disconnect, Feed!PageFailed, Feed!Crash,
           Feed!PageFoundSessionEnded, Feed!Ended, Feed!Handle, Feed!ToHandle
  <2>2. CASE handled' = handled
    BY <1>1, <2>2
  <2>3. ASSUME NEW e \in Entries, handled[e] = 0, handled' = [handled EXCEPT ![e] = @ + 1]
        PROVE  handled' \in [Entries -> 0..1] /\ \A d \in Entries : handled'[d] >= handled[d]
    BY <1>1, <2>3
  <2>4. handled' \in [Entries -> 0..1] /\ \A d \in Entries : handled'[d] >= handled[d]
    BY <2>1, <2>2, <2>3
  <2> QED
    BY <2>4
<1> QED
  BY <1>2, <1>3, <1>4, <1>5 DEF ReadingTypes, Feed!TypeOK

LEMMA UpdateTypes ==
    ASSUME Feed!BankReadingAssumption, ReadingTypes, NEW change \in Feed!Changes,
           Feed!Update(change)
    PROVE  ReadingTypes' /\ UNCHANGED <<bank, connection, read, handled>>
<1>1. /\ settings' \in [currency : Feed!Currencies, account : Accounts \cup {None},
                        from : 1..Today \cup {None}]
      /\ UNCHANGED <<bank, connection, exchanging, read, handled, failures>>
  BY ChangeIs DEF Feed!Update
<1> QED
  BY <1>1 DEF ReadingTypes, Feed!TypeOK

LEMMA NextTypes ==
    ASSUME Feed!BankReadingAssumption, ReadingTypes, [Feed!Next]_(Feed!vars) PROVE ReadingTypes'
<1>1. CASE \E change \in Feed!Changes : Feed!Update(change)
  BY <1>1, UpdateTypes
<1>2. CASE Feed!StartRead
  BY <1>2, StartReadTypes
<1>3. CASE Feed!Page
  BY <1>3, PageTypes
<1>4. CASE \/ \E s \in Sessions : Feed!Exchanged(s) \/ Feed!CloseReplaced(s) \/ Feed!SessionEnds(s)
           \/ \E e \in Entries : Feed!Book(e) \/ \E booked \in BOOLEAN : Feed!Arrive(e, booked)
  BY <1>4, BankTypes
<1>5. CASE \/ Feed!Redirected \/ Feed!ExchangeFailed \/ Feed!Disconnect \/ Feed!PageFailed
           \/ Feed!Crash
           \/ Feed!PageFoundSessionEnded \/ Feed!Ended \/ \E e \in Entries : Feed!Handle(e)
  BY <1>5, OtherTypes
<1>6. CASE UNCHANGED Feed!vars
  BY <1>6 DEF ReadingTypes, Feed!TypeOK, Feed!vars
<1> QED
  BY <1>1, <1>2, <1>3, <1>4, <1>5, <1>6 DEF Feed!Next, Feed!Reads

\* The bank's entries are whole, and what is found, asked for and handled is among them,
\* whatever reads fail and however the settings change while they wait.
THEOREM ReadsAreTyped ==
    ASSUME Feed!BankReadingAssumption PROVE Feed!Spec => []ReadingTypes
<1>1. Feed!Init => ReadingTypes
  BY ReadingTypesAtFirst
<1>2. ReadingTypes /\ [Feed!Next]_(Feed!vars) => ReadingTypes'
  BY NextTypes
<1> QED
  BY <1>1, <1>2, PTL DEF Feed!Spec

\* However many reads find an entry, page after page and after every failure and crash, it is
\* handled once (feed.ts, "handles every one exactly once").
THEOREM OnlyOnce ==
    ASSUME Feed!BankReadingAssumption PROVE Feed!Spec => []Feed!HandledOnce
<1>1. ReadingTypes => Feed!HandledOnce
  BY DEF ReadingTypes, Feed!HandledOnce
<1> QED
  BY <1>1, ReadsAreTyped, PTL

-----------------------------------------------------------------------------
(* What is to be handled stays in sight *)

LEMMA ReadingInvAtFirst ==
    ASSUME Feed!BankReadingAssumption, Feed!Init PROVE ReadingInv
<1>1. ReadingTypes
  BY ReadingTypesAtFirst
<1>2. /\ settings.account = None /\ settings.from = None /\ read = None /\ connection = None
      /\ bank.booked = Entries \ Late
  BY DEF Feed!Init
<1> QED
  BY <1>1, <1>2 DEF ReadingInv

\* What the bank gets, what is handled and a read that is given up lose nothing.
LEMMA Steady ==
    ASSUME ReadingInv, ReadingTypes', Feed!BankReadingAssumption, settings' = settings,
           bank.has \subseteq bank'.has, bank.booked \subseteq bank'.booked,
           read' = None \/ read' = read, \A e \in Entries : handled'[e] >= handled[e],
           connection' # None /\ connection'.deepReadDone =>
              connection # None /\ connection.deepReadDone
    PROVE  ReadingInv'
<1>1. /\ handled \in [Entries -> 0..1] /\ handled' \in [Entries -> 0..1]
      /\ bank.has \subseteq Entries /\ bank'.has \subseteq Entries
      /\ read # None => read \in Feed!Read
  BY DEF ReadingInv, ReadingTypes, Feed!TypeOK
<1>2. \A e \in Entries : handled[e] > 0 => handled'[e] > 0
  BY <1>1
<1>3. ASSUME NEW e \in Entries, read # None, read' = read, InSight(e, read)
      PROVE  InSight(e, read)'
  <2>1. CASE handled[e] > 0 \/ (e \in read.found /\ e \in read.booked)
    BY <1>2, <1>3, <2>1 DEF InSight
  <2>2. CASE /\ ~read.all /\ e \in Feed!Matching(read.source)
             /\ Feed!Place(e, Feed!Matching(read.source)) > read.offset
    <3> DEFINE was == Feed!Matching(read.source)
               is == Feed!Matching(read.source)'
    <3>1. e \in was /\ was \subseteq is /\ is \subseteq Entries
      BY <1>1, <1>3, <2>2 DEF Feed!Matching
    <3>2. IsFiniteSet(is) /\ was \in SUBSET is
      BY <3>1, FS_Subset, SameCount DEF Feed!BankReadingAssumption
    <3>3. /\ Feed!Place(e, was) \in Nat /\ Feed!Place(e, is) \in Nat
          /\ Feed!Place(e, was) <= Feed!Place(e, is)
      <4> HIDE DEF was, is
      <4> QED
        BY <3>1, <3>2, PlaceGrows
    <3>4. Feed!Place(e, was) > read.offset /\ read.offset \in Nat
      BY <1>1, <1>3, <2>2 DEF Feed!Read
    <3>5. Feed!Place(e, is) > read.offset
      BY <3>3, <3>4
    <3>6. Feed!Place(e, is) = Feed!Place(e, Feed!Matching(read.source))'
      BY DEF Feed!Place, Feed!Newer
    <3>7. /\ e \in Feed!Matching(read.source)'
          /\ Feed!Place(e, Feed!Matching(read.source))' > read.offset
      BY <3>1, <3>5, <3>6
    <3> QED
      BY <1>3, <2>2, <3>7 DEF InSight
  <2> QED
    BY <1>3, <2>1, <2>2 DEF InSight
<1>4. read' # None => settings'.from # None /\ ReadIsSound'
  <2> SUFFICES ASSUME read' # None PROVE settings.from # None /\ ReadIsSound'
    OBVIOUS
  <2>1. read # None /\ read' = read /\ ReadIsSound /\ settings.from # None
    BY DEF ReadingInv
  <2>2. read.due \subseteq Entries
    BY <1>1, <2>1 DEF Feed!Read
  <2>3. \A e : Asked(e)' = Asked(e)
    BY DEF Asked, Only
  <2>4. \A e \in read.due : Asked(e) /\ e \in bank'.booked /\ InSight(e, read)'
    BY <1>3, <2>1, <2>2 DEF ReadIsSound
  <2>5. Only' = Only
    BY DEF Only
  <2> QED
    BY <2>1, <2>3, <2>4, <2>5 DEF ReadIsSound
<1>5. ASSUME connection' # None /\ connection'.deepReadDone
      PROVE  settings'.from # None /\ OldAreHandled'
  <2>1. settings.from # None /\ OldAreHandled
    BY <1>5 DEF ReadingInv
  <2>2. \A e : Asked(e)' = Asked(e)
    BY DEF Asked, Only
  <2> QED
    BY <1>2, <2>1, <2>2 DEF OldAreHandled
<1> QED
  BY <1>4, <1>5 DEF ReadingInv

LEMMA UpdateSees ==
    ASSUME ReadingInv, Feed!BankReadingAssumption, OneStart, NEW change \in Feed!Changes,
           Feed!Update(change)
    PROVE  ReadingInv'
<1>1. ReadingTypes /\ ReadingTypes' /\ UNCHANGED <<bank, connection, read, handled>>
  BY UpdateTypes DEF ReadingInv
<1>2. /\ settings \in [currency : Feed!Currencies, account : Accounts \cup {None},
                       from : 1..Today \cup {None}]
      /\ settings' \in [currency : Feed!Currencies, account : Accounts \cup {None},
                        from : 1..Today \cup {None}]
      /\ settings'.currency = settings.currency /\ settings'.account = settings.account
      /\ settings'.from = settings.from \/ settings'.from \in StartDates
  BY <1>1, ChangeIs DEF Feed!Update, OneStart, ReadingTypes, Feed!TypeOK
<1>3. CASE settings.from = None
  <2>1. read' = None /\ ~(connection' # None /\ connection'.deepReadDone)
    BY <1>1, <1>3 DEF ReadingInv
  <2>2. settings'.account = None /\ settings'.from \in StartDates \cup {None}
    BY <1>2, <1>3 DEF ReadingInv
  <2> QED
    BY <1>1, <2>1, <2>2 DEF ReadingInv
<1>4. CASE settings.from # None
  <2>1. settings.from \in StartDates
    BY <1>4 DEF ReadingInv
  <2>2. settings'.from = settings.from
    BY <1>2, <2>1 DEF OneStart
  <2>3. settings' = settings
    BY <1>2, <2>2
  <2>4. \A e \in Entries : handled'[e] >= handled[e]
    BY <1>1 DEF ReadingTypes
  <2> QED
    BY <1>1, <2>3, <2>4, Steady
<1> QED
  BY <1>3, <1>4

LEMMA StartReadSees ==
    ASSUME ReadingInv, Feed!BankReadingAssumption, Feed!StartRead PROVE ReadingInv'
<1>1. /\ connection # None /\ settings.from # None /\ Feed!Selection # None
      /\ UNCHANGED <<bank, settings, connection, exchanging, handled, failures>>
  BY DEF Feed!StartRead, Feed!Ready
<1> DEFINE source == [session |-> connection.session, account |-> Feed!Selection,
                      from |-> settings.from, deep |-> ~connection.deepReadDone]
           due == Feed!DueOf(source)
<1>2. read' = [source |-> source, offset |-> 0, found |-> {}, booked |-> {}, all |-> FALSE,
               due |-> due]
  BY DEF Feed!StartRead
<1>3. /\ source.account = Only /\ source.from = settings.from
      /\ source.deep = ~connection.deepReadDone
  BY <1>1, SelectionIs DEF ReadingInv
<1>4. ReadingTypes' /\ bank \in [has : SUBSET Entries, booked : SUBSET Entries,
                                 open : SUBSET Sessions, newest : Sessions \cup {0}]
      /\ bank.booked \subseteq bank.has
  BY StartReadTypes DEF ReadingInv, ReadingTypes, Feed!TypeOK
<1> HIDE DEF source
<1>5. due = {e \in bank.booked : Asked(e)}
  BY <1>3 DEF Feed!DueOf, Asked
<1>6. ASSUME NEW e \in due PROVE handled[e] > 0 \/ e \in Feed!Matching(source)
  <2>1. e \in bank.has /\ e \in Entries /\ Asked(e)
    BY <1>4, <1>5
  <2>2. AccountOf[e] = source.account /\ Day[e] >= source.from
    BY <1>3, <2>1 DEF Asked
  <2>3. CASE source.deep \/ Day[e] > Today - Window
    BY <2>1, <2>2, <2>3 DEF Feed!Matching
  <2>4. CASE connection.deepReadDone /\ ~(Day[e] > Today - Window)
    <3>1. e \in Entries \ Late
      BY <2>1, <2>4 DEF Feed!BankReadingAssumption
    <3> QED
      BY <1>1, <2>1, <2>4, <3>1 DEF ReadingInv, OldAreHandled
  <2>5. connection.deepReadDone \in BOOLEAN
    BY <1>1 DEF ReadingInv, ReadingTypes, Feed!TypeOK, Feed!Connection
  <2> QED
    BY <1>3, <2>3, <2>4, <2>5
<1>7. ASSUME NEW e \in due, e \in Feed!Matching(source)
      PROVE  Feed!Place(e, Feed!Matching(source)) > 0
  <2>1. Feed!Matching(source) \subseteq Entries
    BY <1>4 DEF Feed!Matching
  <2>2. IsFiniteSet(Feed!Matching(source))
    BY <2>1, FS_Subset, SameCount DEF Feed!BankReadingAssumption
  <2>3. Feed!Place(e, Feed!Matching(source)) \in Nat /\ Feed!Place(e, Feed!Matching(source)) >= 1
    BY <1>7, <2>2, PlaceGrows
  <2> QED
    BY <2>3
<1>8. Feed!Matching(read.source)' = Feed!Matching(source)
  BY <1>1, <1>2 DEF Feed!Matching
<1>9. ASSUME NEW e \in due PROVE InSight(e, read)'
  <2>1. Feed!Place(e, Feed!Matching(read.source))' = Feed!Place(e, Feed!Matching(source))
    BY <1>8 DEF Feed!Place, Feed!Newer
  <2>2. /\ read'.all = FALSE /\ read'.offset = 0 /\ handled' = handled
    BY <1>1, <1>2
  <2>3. CASE handled[e] > 0
    BY <2>2, <2>3 DEF InSight
  <2>4. CASE e \in Feed!Matching(source)
    <3>1. /\ e \in Feed!Matching(read.source)'
          /\ Feed!Place(e, Feed!Matching(read.source))' > read'.offset
      BY <1>7, <1>8, <2>1, <2>2, <2>4
    <3> QED
      BY <2>2, <3>1 DEF InSight
  <2> QED
    BY <1>6, <2>3, <2>4
<1>10. ReadIsSound'
  <2>1. /\ read'.source = source /\ read'.due = due /\ bank' = bank /\ settings' = settings
    BY <1>1, <1>2
  <2>2. Only' = Only /\ \A e : Asked(e)' = Asked(e)
    BY <2>1 DEF Only, Asked
  <2>3. \A e \in read'.due : Asked(e) /\ e \in bank'.booked /\ InSight(e, read)'
    BY <1>5, <1>9, <2>1
  <2>4. \A e \in Entries \ Late : Asked(e) => e \in read'.due
    BY <1>5, <2>1 DEF ReadingInv
  <2>5. read'.source.account = Only /\ read'.source.from = settings.from
    BY <1>3, <2>1
  <2> HIDE DEF due
  <2> QED
    BY <2>1, <2>2, <2>3, <2>4, <2>5 DEF ReadIsSound
<1>11. OldAreHandled' = OldAreHandled
  BY <1>1 DEF OldAreHandled, Asked, Only
<1> QED
  BY <1>1, <1>4, <1>10, <1>11 DEF ReadingInv

LEMMA PageSees ==
    ASSUME ReadingInv, Feed!BankReadingAssumption, Feed!Page PROVE ReadingInv'
<1> DEFINE own == Feed!Matching(read.source)
           next == read.offset + PageSize
           page == Feed!Between(own, read.offset + 1, next)
           all == next >= Cardinality(own)
<1>1. /\ read' = [read EXCEPT !.found = @ \cup page, !.booked = @ \cup (page \cap bank.booked),
                              !.offset = next, !.all = all]
      /\ read # None /\ ~read.all
      /\ UNCHANGED <<bank, settings, connection, exchanging, handled, failures>>
  BY SameCount DEF Feed!Page
<1>2. ReadingTypes' /\ read \in Feed!Read /\ bank.has \subseteq Entries
  BY <1>1, PageTypes DEF ReadingInv, ReadingTypes, Feed!TypeOK
<1>3. ReadIsSound /\ settings.from # None
  BY <1>1 DEF ReadingInv
<1>4. /\ own \subseteq Entries /\ IsFiniteSet(own)
      /\ read.offset \in Nat /\ PageSize \in Nat /\ next \in Nat
  <2>1. own \subseteq Entries
    BY <1>2 DEF Feed!Matching
  <2> QED
    BY <1>2, <2>1, FS_Subset, SameCount DEF Feed!BankReadingAssumption, Feed!Read
<1>5. /\ read'.source = read.source /\ read'.due = read.due
      /\ read'.found = read.found \cup page
      /\ read'.booked = read.booked \cup (page \cap bank.booked)
      /\ read'.offset = next /\ read'.all = all
  <2> HIDE DEF own, next, page, all
  <2> QED
    BY <1>1, <1>2 DEF Feed!Read
<1>6. Feed!Matching(read.source)' = own
  BY <1>1, <1>5 DEF Feed!Matching
<1>7. ASSUME NEW e \in read.due PROVE InSight(e, read)'
  <2>1. InSight(e, read) /\ e \in bank.booked
    BY <1>3 DEF ReadIsSound
  <2>2. CASE handled[e] > 0 \/ (e \in read.found /\ e \in read.booked)
    BY <1>1, <1>5, <2>2 DEF InSight
  <2>3. CASE e \in own /\ Feed!Place(e, own) > read.offset
    <3>1. /\ Feed!Place(e, own) \in Nat /\ Feed!Place(e, own) <= Cardinality(own)
          /\ Cardinality(own) \in Nat
      <4> HIDE DEF own
      <4> QED
        BY <1>4, <2>3, PlaceGrows
    <3>2. CASE Feed!Place(e, own) <= next
      <4>1. Feed!Place(e, own) \in (read.offset + 1)..next
        BY <1>4, <2>3, <3>1, <3>2
      <4>2. e \in page
        BY <2>3, <4>1 DEF Feed!Between
      <4>3. e \in read'.found /\ e \in read'.booked
        BY <1>5, <2>1, <4>2
      <4> QED
        BY <4>3 DEF InSight
    <3>3. CASE Feed!Place(e, own) > next
      <4>1. ~(next >= Cardinality(own))
        <5> HIDE DEF own, next
        <5> QED
          BY <1>4, <3>1, <3>3
      <4>2. Feed!Place(e, Feed!Matching(read.source))' = Feed!Place(e, own)
        BY <1>6 DEF Feed!Place, Feed!Newer
      <4>3. /\ ~read'.all /\ e \in Feed!Matching(read.source)'
            /\ Feed!Place(e, Feed!Matching(read.source))' > read'.offset
        BY <1>5, <1>6, <2>3, <3>3, <4>1, <4>2
      <4> QED
        BY <4>3 DEF InSight
    <3> QED
      BY <1>4, <3>1, <3>2, <3>3
  <2> QED
    BY <2>1, <2>2, <2>3 DEF InSight
<1>8. ReadIsSound'
  <2>1. Only' = Only /\ \A e : Asked(e)' = Asked(e)
    BY <1>1 DEF Only, Asked
  <2>2. \A e \in read'.due : Asked(e) /\ e \in bank'.booked /\ InSight(e, read)'
    BY <1>1, <1>3, <1>5, <1>7 DEF ReadIsSound
  <2> QED
    BY <1>1, <1>3, <1>5, <2>1, <2>2 DEF ReadIsSound
<1>9. OldAreHandled' = OldAreHandled
  BY <1>1 DEF OldAreHandled, Asked, Only
<1> QED
  BY <1>1, <1>2, <1>3, <1>8, <1>9 DEF ReadingInv

\* A read that has its pages and nothing left to handle has handled all it was to.
LEMMA NothingIsLeft ==
    ASSUME ReadingInv, read # None, read.all, Feed!ToHandle = {}
    PROVE  \A e \in read.due : handled[e] > 0
<1> SUFFICES ASSUME NEW e \in read.due, ~(handled[e] > 0) PROVE FALSE
  OBVIOUS
<1>1. read \in Feed!Read /\ handled \in [Entries -> 0..1] /\ ReadIsSound
  BY DEF ReadingInv, ReadingTypes, Feed!TypeOK
<1>2. e \in Entries /\ InSight(e, read) /\ Asked(e) /\ read.source.from = settings.from
  BY <1>1 DEF Feed!Read, ReadIsSound
<1>3. e \in read.found \cap read.booked /\ handled[e] = 0 /\ Day[e] >= read.source.from
  BY <1>1, <1>2 DEF InSight, Asked
<1> QED
  BY <1>3 DEF Feed!ToHandle

LEMMA EndedSees ==
    ASSUME ReadingInv, Feed!BankReadingAssumption, Feed!Ended PROVE ReadingInv'
<1>1. /\ read # None /\ read.all /\ Feed!ToHandle = {} /\ read' = None
      /\ connection' = (IF read.source.deep /\ connection # None
                        THEN [connection EXCEPT !.deepReadDone = TRUE] ELSE connection)
      /\ UNCHANGED <<bank, settings, exchanging, handled, failures>>
  BY DEF Feed!Ended
<1>2. ReadingTypes'
  BY OtherTypes DEF ReadingInv
<1>3. settings.from # None /\ ReadIsSound /\ \A e \in read.due : handled[e] > 0
  BY <1>1, NothingIsLeft DEF ReadingInv
<1>4. OldAreHandled' = OldAreHandled
  BY <1>1 DEF OldAreHandled, Asked, Only
<1>5. CASE read.source.deep
  <2>1. OldAreHandled
    BY <1>3, <1>5 DEF ReadIsSound, OldAreHandled
  <2> QED
    BY <1>1, <1>2, <1>3, <1>4, <2>1 DEF ReadingInv
<1>6. CASE ~read.source.deep
  BY <1>1, <1>2, <1>4, <1>6 DEF ReadingInv
<1> QED
  BY <1>5, <1>6

LEMMA OtherSees ==
    ASSUME ReadingInv, Feed!BankReadingAssumption,
           \/ \E s \in Sessions : Feed!Exchanged(s) \/ Feed!CloseReplaced(s) \/ Feed!SessionEnds(s)
           \/ \E e \in Entries : Feed!Book(e) \/ \E booked \in BOOLEAN : Feed!Arrive(e, booked)
           \/ Feed!Redirected \/ Feed!ExchangeFailed \/ Feed!Disconnect \/ Feed!PageFailed
           \/ Feed!Crash
           \/ Feed!PageFoundSessionEnded
           \/ (\E e \in Entries : Feed!Handle(e)) \/ UNCHANGED Feed!vars
    PROVE  ReadingInv'
<1>1. ReadingTypes /\ ReadingTypes'
  BY NextTypes DEF ReadingInv, Feed!Next, Feed!Reads
<1>2. handled \in [Entries -> 0..1] /\ connection \in Feed!Connection \cup {None}
  BY <1>1 DEF ReadingTypes, Feed!TypeOK
<1>3. CASE \/ \E s \in Sessions : Feed!Exchanged(s) \/ Feed!CloseReplaced(s) \/ Feed!SessionEnds(s)
           \/ \E e \in Entries : Feed!Book(e) \/ \E booked \in BOOLEAN : Feed!Arrive(e, booked)
  <2>1. /\ bank.has \subseteq bank'.has /\ bank.booked \subseteq bank'.booked
        /\ UNCHANGED <<settings, read, handled>>
        /\ connection' = connection \/ ~connection'.deepReadDone
    BY <1>1, <1>3, BankTypes
  <2>2. \A e \in Entries : handled'[e] >= handled[e]
    BY <1>2, <2>1
  <2> QED
    BY <1>1, <2>1, <2>2, Steady
<1>4. CASE \/ Feed!Redirected \/ Feed!ExchangeFailed \/ Feed!Disconnect \/ Feed!PageFailed
           \/ Feed!Crash
           \/ Feed!PageFoundSessionEnded \/ \E e \in Entries : Feed!Handle(e)
  <2>1. /\ UNCHANGED <<bank, settings>> /\ (read' = None \/ read' = read)
        /\ \A e \in Entries : handled'[e] >= handled[e]
    BY <1>1, <1>4, OtherTypes
  <2>2. connection' # None /\ connection'.deepReadDone =>
           connection # None /\ connection.deepReadDone
    <3>1. CASE Feed!PageFoundSessionEnded
      BY <1>2, <3>1 DEF Feed!PageFoundSessionEnded, Feed!Connection
    <3>2. CASE ~Feed!PageFoundSessionEnded
      BY <1>4, <3>2
         DEF Feed!Redirected, Feed!ExchangeFailed, Feed!Disconnect, Feed!PageFailed, Feed!Crash,
             Feed!Handle
    <3> QED
      BY <3>1, <3>2
  <2> QED
    BY <1>1, <2>1, <2>2, Steady
<1>5. CASE UNCHANGED Feed!vars
  <2>1. UNCHANGED <<bank, settings, connection, read, handled>>
    BY <1>5 DEF Feed!vars
  <2>2. \A e \in Entries : handled'[e] >= handled[e]
    BY <1>2, <2>1
  <2> QED
    BY <1>1, <2>1, <2>2, Steady
<1> QED
  BY <1>3, <1>4, <1>5

LEMMA NothingIsMissed ==
    ASSUME Feed!BankReadingAssumption, OneStart PROVE Feed!Spec => []ReadingInv
<1>1. Feed!Init => ReadingInv
  BY ReadingInvAtFirst
<1>2. ReadingInv /\ [Feed!Next]_(Feed!vars) => ReadingInv'
  BY UpdateSees, StartReadSees, PageSees, EndedSees, OtherSees DEF Feed!Next, Feed!Reads
<1> QED
  BY <1>1, <1>2, PTL DEF Feed!Spec

\* A read that ends well has handled all that was booked, of the account and from the start
\* date on, when it began: however entries arrived and moved the pages under it, and whatever
\* earlier reads failed, crashed or found the session ended (feed.ts).  The start date is
\* chosen once: one moved back later is read from only after the next authorisation.
THEOREM NothingBookedIsMissed ==
    ASSUME Feed!BankReadingAssumption, OneStart
    PROVE  Feed!Spec => [][Feed!ReadIsComplete]_(Feed!vars)
<1>1. ASSUME ReadingInv, Feed!Next, read # None, read' = None, failures' = failures, read.all
      PROVE  \A e \in read.due : handled[e] > 0
  <2>1. Feed!Ended
    <3>1. handled \in [Entries -> 0..1] /\ failures \in 0..Failures
      BY <1>1 DEF ReadingInv, ReadingTypes, Feed!TypeOK
    <3>2. failures + 1 # failures
      BY <3>1
    <3> QED
      BY <1>1, <3>2
         DEF Feed!Next, Feed!Reads, Feed!Update, Feed!Redirected, Feed!ExchangeFailed,
             Feed!Disconnect, Feed!Exchanged, Feed!CloseReplaced, Feed!SessionEnds, Feed!Book,
             Feed!Arrive, Feed!StartRead, Feed!Page, Feed!PageFoundSessionEnded, Feed!Handle,
             Feed!PageFailed, Feed!Crash
  <2> QED
    BY <1>1, <2>1, NothingIsLeft DEF Feed!Ended
<1>2. ReadingInv /\ [Feed!Next]_(Feed!vars) => [Feed!ReadIsComplete]_(Feed!vars)
  BY <1>1 DEF Feed!ReadIsComplete
<1> QED
  BY <1>2, NothingIsMissed, PTL DEF Feed!Spec

\* A Bizum is handled after every older one that was booked when its read began: pages that
\* come newest first, and entries that arrive between them, do not turn the order
\* (feed.ts, "oldest booking first").
THEOREM TheOldestIsFirst ==
    ASSUME Feed!BankReadingAssumption, OneStart PROVE Feed!Spec => [][Feed!OldestFirst]_(Feed!vars)
<1>1. ASSUME ReadingInv, Feed!Next, NEW e \in Entries, handled'[e] > handled[e], IsBizum[e],
             NEW d \in read.due, IsBizum[d], Day[d] < Day[e]
      PROVE  handled[d] > 0
  <2>1. /\ handled \in [Entries -> 0..1] /\ handled[e] \in 0..1 /\ ~(handled[e] > handled[e])
    BY <1>1 DEF ReadingInv, ReadingTypes, Feed!TypeOK
  <2>2. PICK f \in Entries : Feed!Handle(f)
    BY <1>1, <2>1
       DEF Feed!Next, Feed!Reads, Feed!Update, Feed!Redirected, Feed!ExchangeFailed,
           Feed!Disconnect, Feed!Exchanged, Feed!CloseReplaced, Feed!SessionEnds, Feed!Book,
           Feed!Arrive, Feed!StartRead, Feed!Page, Feed!PageFoundSessionEnded, Feed!Ended,
           Feed!PageFailed, Feed!Crash
  <2>3. /\ read # None /\ read.all /\ f \in Feed!ToHandle
        /\ \A c \in Feed!ToHandle \ {f} : Feed!First(f, c)
        /\ handled' = [handled EXCEPT ![f] = @ + 1]
    BY <2>2 DEF Feed!Handle
  <2>4. f = e
    BY <1>1, <2>1, <2>3
  <2>5. read \in Feed!Read /\ ReadIsSound
    BY <1>1, <2>3 DEF ReadingInv, ReadingTypes, Feed!TypeOK
  <2>6. d \in Entries /\ InSight(d, read) /\ Asked(d) /\ read.source.from = settings.from
    BY <2>5, <1>1 DEF Feed!Read, ReadIsSound
  <2> SUFFICES ASSUME ~(handled[d] > 0) PROVE FALSE
    OBVIOUS
  <2>7. d \in Feed!ToHandle
    BY <2>1, <2>3, <2>6 DEF InSight, Asked, Feed!ToHandle
  <2>8. Day[d] \in Int /\ Day[e] \in Int
    <3>1. Day \in [Entries -> 1..Today] /\ d \in Entries /\ e \in Entries
      BY <2>6 DEF Feed!BankReadingAssumption
    <3>2. Day[d] \in 1..Today /\ Day[e] \in 1..Today
      BY <3>1
    <3> QED
      BY <3>2
  <2>9. d # e
    BY <1>1, <2>8
  <2>10. Feed!First(e, d)
    BY <2>3, <2>4, <2>7, <2>9
  <2> QED
    BY <1>1, <2>8, <2>10 DEF Feed!First
<1>2. ReadingInv /\ [Feed!Next]_(Feed!vars) => [Feed!OldestFirst]_(Feed!vars)
  <2> SUFFICES ASSUME ReadingInv, Feed!Next PROVE Feed!OldestFirst
    OBVIOUS
  <2> QED
    BY <1>1 DEF Feed!OldestFirst
<1> QED
  BY <1>2, NothingIsMissed, PTL DEF Feed!Spec

-----------------------------------------------------------------------------
(* Only what is asked for, when the settings are not changed in mid read *)

\* The account a connection gives to read.
Chosen ==
    LET inCurrency == {a \in Accounts : CurrencyOf[a] = settings.currency} IN
    IF Cardinality(inCurrency) = 1 THEN CHOOSE a \in inCurrency : TRUE
    ELSE IF settings.account \in inCurrency THEN settings.account ELSE None

FindsWhatIsAsked ==
    read # None =>
       /\ read.source.account = Chosen /\ read.source.from = settings.from
       /\ CurrencyOf[read.source.account] = settings.currency
       /\ \A e \in read.found : AccountOf[e] = read.source.account

AskedInv == ReadingTypes /\ FindsWhatIsAsked

LEMMA SelectionIsChosen == connection # None => Feed!Selection = Chosen
  BY SameCount DEF Feed!Selection, Chosen

LEMMA NextFindsWhatIsAsked ==
    ASSUME Feed!BankReadingAssumption, ~MidRead, AskedInv, [Feed!Next]_(Feed!vars) PROVE AskedInv'
<1>1. ReadingTypes /\ ReadingTypes' /\ FindsWhatIsAsked
  BY NextTypes DEF AskedInv
<1>2. CASE Feed!StartRead
  <2>1. /\ connection # None /\ settings' = settings /\ Feed!Selection = Chosen
        /\ read'.source.account = Feed!Selection /\ read'.source.from = settings.from
        /\ read'.found = {}
    BY <1>2, SelectionIsChosen DEF Feed!StartRead, Feed!Ready
  <2>2. Chosen' = Chosen
    BY <2>1 DEF Chosen
  <2>3. CurrencyOf[Feed!Selection] = settings.currency
    BY <1>2, SelectionIs DEF Feed!StartRead, Feed!Ready
  <2> QED
    BY <1>1, <2>1, <2>2, <2>3 DEF AskedInv, FindsWhatIsAsked
<1>3. CASE Feed!Page
  <2> DEFINE own == Feed!Matching(read.source)
             page == Feed!Between(own, read.offset + 1, read.offset + PageSize)
  <2>1. /\ read # None /\ read \in Feed!Read /\ settings' = settings
        /\ read'.source = read.source /\ read'.found = read.found \cup page
    <3> DEFINE all == read.offset + PageSize >= Cardinality(own)
    <3>1. /\ read' = [read EXCEPT !.found = @ \cup page, !.booked = @ \cup (page \cap bank.booked),
                                  !.offset = read.offset + PageSize, !.all = all]
          /\ read # None /\ settings' = settings
      BY <1>3, SameCount DEF Feed!Page
    <3>2. read \in Feed!Read
      BY <1>1, <3>1 DEF ReadingTypes, Feed!TypeOK
    <3> HIDE DEF own, page, all
    <3> QED
      BY <3>1, <3>2 DEF Feed!Read
  <2>2. \A e \in page : AccountOf[e] = read.source.account
    BY DEF Feed!Between, Feed!Matching
  <2>3. Chosen' = Chosen
    BY <2>1 DEF Chosen
  <2> HIDE DEF page
  <2> QED
    BY <1>1, <2>1, <2>2, <2>3 DEF AskedInv, FindsWhatIsAsked
<1>4. CASE \E change \in Feed!Changes : Feed!Update(change)
  <2>1. read' = None
    BY <1>4 DEF Feed!Update
  <2> QED
    BY <1>1, <2>1 DEF AskedInv, FindsWhatIsAsked
<1>5. CASE /\ [Feed!Next]_(Feed!vars) /\ ~Feed!StartRead /\ ~Feed!Page
           /\ ~\E change \in Feed!Changes : Feed!Update(change)
  <2>1. settings' = settings /\ (read' = None \/ read' = read)
    BY <1>5
       DEF Feed!Next, Feed!Reads, Feed!Redirected, Feed!ExchangeFailed, Feed!Disconnect,
           Feed!Exchanged, Feed!CloseReplaced, Feed!SessionEnds, Feed!Book, Feed!Arrive,
           Feed!PageFoundSessionEnded, Feed!Handle, Feed!Ended, Feed!PageFailed, Feed!Crash,
           Feed!vars
  <2>2. Chosen' = Chosen
    BY <2>1 DEF Chosen
  <2> QED
    BY <1>1, <2>1, <2>2 DEF AskedInv, FindsWhatIsAsked
<1> QED
  BY <1>2, <1>3, <1>4, <1>5

LEMMA AskedHolds ==
    ASSUME Feed!BankReadingAssumption, ~MidRead PROVE Feed!Spec => []AskedInv
<1>1. Feed!Init => AskedInv
  BY ReadingTypesAtFirst DEF AskedInv, FindsWhatIsAsked, Feed!Init
<1>2. AskedInv /\ [Feed!Next]_(Feed!vars) => AskedInv'
  BY NextFindsWhatIsAsked
<1> QED
  BY <1>1, <1>2, PTL DEF Feed!Spec

\* What is handled was found by the read there is.
LEMMA HandledWasFound ==
    ASSUME AskedInv, Feed!Next, NEW e \in Entries, handled'[e] > handled[e]
    PROVE  read # None /\ e \in read.found /\ Day[e] >= read.source.from
<1>1. handled \in [Entries -> 0..1] /\ handled[e] \in 0..1 /\ ~(handled[e] > handled[e])
  BY DEF AskedInv, ReadingTypes
<1>2. PICK f \in Entries : Feed!Handle(f)
  BY <1>1
     DEF Feed!Next, Feed!Reads, Feed!Update, Feed!Redirected, Feed!ExchangeFailed,
         Feed!Disconnect, Feed!Exchanged, Feed!CloseReplaced, Feed!SessionEnds, Feed!Book,
         Feed!Arrive, Feed!StartRead, Feed!Page, Feed!PageFoundSessionEnded, Feed!Ended,
         Feed!PageFailed, Feed!Crash
<1>3. /\ read # None /\ f \in Feed!ToHandle /\ handled' = [handled EXCEPT ![f] = @ + 1]
  BY <1>2 DEF Feed!Handle
<1>4. f = e
  BY <1>1, <1>3
<1> QED
  BY <1>3, <1>4 DEF Feed!ToHandle

\* Nothing of another account or from before the day set is handled, whatever connection there
\* is by then and however often the settings change between reads (BankReadingSettings,
\* "Se ignora todo lo anterior al").  In mid read they may: see feed.ts:88.
THEOREM OnlyWhatIsAsked ==
    ASSUME Feed!BankReadingAssumption, ~MidRead
    PROVE  Feed!Spec => [][Feed!HandlesWhatIsAsked]_(Feed!vars)
<1>1. AskedInv /\ [Feed!Next]_(Feed!vars) => [Feed!HandlesWhatIsAsked]_(Feed!vars)
  <2> SUFFICES ASSUME AskedInv, Feed!Next, NEW e \in Entries,
                      handled'[e] > handled[e], connection # None
               PROVE  Day[e] >= settings.from /\ AccountOf[e] = Feed!Selection
    BY DEF Feed!HandlesWhatIsAsked
  <2>1. read # None /\ e \in read.found /\ Day[e] >= read.source.from
    BY HandledWasFound
  <2> QED
    BY <2>1, SelectionIsChosen DEF AskedInv, FindsWhatIsAsked
<1> QED
  BY <1>1, AskedHolds, PTL DEF Feed!Spec

\* Nothing of an account in another currency is handled, whatever was set before, and though
\* the connection is ended or renewed while it is read (account-selection.ts).
THEOREM InTheCurrency ==
    ASSUME Feed!BankReadingAssumption, ~MidRead
    PROVE  Feed!Spec => [][Feed!HandlesTheCurrency]_(Feed!vars)
<1>1. AskedInv /\ [Feed!Next]_(Feed!vars) => [Feed!HandlesTheCurrency]_(Feed!vars)
  <2> SUFFICES ASSUME AskedInv, Feed!Next, NEW e \in Entries, handled'[e] > handled[e]
               PROVE  CurrencyOf[AccountOf[e]] = settings.currency
    BY DEF Feed!HandlesTheCurrency
  <2>1. read # None /\ e \in read.found
    BY HandledWasFound
  <2> QED
    BY <2>1 DEF AskedInv, FindsWhatIsAsked
<1> QED
  BY <1>1, AskedHolds, PTL DEF Feed!Spec

=============================================================================
