----------------------------- MODULE BizumDesk -----------------------------
(***************************************************************************)
(* The bank's transfers, from the read that finds them to the shares they  *)
(* pay: the feed (server/src/bizum/feed.ts), the rules                     *)
(* (domain/bizum-rules.ts) and the services that settle, rule, pair, undo  *)
(* and dismiss, over the tables of Shares.  Every action is one request or *)
(* the synchronous part of one read; a read that stops halfway has handled *)
(* the oldest of what it collected, each entry in its own transaction.     *)
(*                                                                         *)
(* Days are numbers.  A sender is the phone and the name the bank shows;   *)
(* names are equal or not, and keyword lists are fixed, so a subject is    *)
(* the list it has a word of.  The games only play, reopen and go: GameDay *)
(* has their lists and convocatorias.  Why a Bizum waits is left out.      *)
(***************************************************************************)
EXTENDS Shares, FiniteSetsExt, Sequences

CONSTANTS Seasons, Starts, Ends,   \* the seasons and their days
          SeasonOf, PlayedOn,      \* the season and the day of each game
          Lineups, HolderOf,       \* who may play a game, who answers for each member
          ShareAmounts,            \* the shares a season's price can come to (a bound)
          BizumOrder,              \* the Bizums, oldest booking first, then reference
          BookedOn, Amount, Word, Incoming, Sender,   \* what the bank says of each
          SenderNames, Phones,     \* the names and phones a sender can have
          StartDates,              \* where the organiser has reading start (a bound)
          NewHolders               \* players a debt is passed to (a bound)

BizumDeskAssumption ==
    /\ Starts \in [Seasons -> Nat] /\ Ends \in [Seasons -> Nat]
    /\ \A s, t \in Seasons : s # t => Ends[s] < Starts[t] \/ Ends[t] < Starts[s]
    /\ SeasonOf \in [Games -> Seasons] /\ PlayedOn \in [Games -> Nat]
    /\ \A g, h \in Games : PlayedOn[g] = PlayedOn[h] => g = h
    /\ \A g \in Games : PlayedOn[g] \in Starts[SeasonOf[g]]..Ends[SeasonOf[g]]
    /\ Lineups \in [Games -> SUBSET SUBSET Members] /\ HolderOf \in [Members -> Players]
    /\ IsFiniteSet(Games) /\ IsFiniteSet(Players)
    /\ \A g \in Games : \A line \in Lineups[g] : IsFiniteSet(line)
    /\ ShareAmounts \subseteq Cents
    /\ BookedOn \in [Bizums -> Nat] /\ Amount \in [Bizums -> Cents]
    /\ Word \in [Bizums -> {"none", "include", "exclude"}] /\ Incoming \in [Bizums -> BOOLEAN]
    /\ None \notin SenderNames \union Phones \union Seasons
    /\ Sender \in [Bizums -> [name : SenderNames \union {None}, phone : Phones \union {None}]]
    /\ StartDates \subseteq Nat /\ NewHolders \subseteq Players

BizumOrderAssumption ==
    /\ BizumOrder \in Seq(Bizums)
    /\ \A b \in Bizums : \E i \in 1..Len(BizumOrder) : BizumOrder[i] = b
    /\ \A i, j \in 1..Len(BizumOrder) : i < j => /\ BizumOrder[i] # BizumOrder[j]
                                                 /\ BookedOn[BizumOrder[i]] <= BookedOn[BizumOrder[j]]

VARIABLES
    book,         \* participations, share_debts and payments
    played,       \* the games whose status is played
    shareCents,   \* the share of each season, as its price is now
    entry,        \* bizum_entries.outcome; "unseen" while there is no row
    handling,     \* bizum_handling: status, settled_how, unallocated_cents
    phone,        \* the phone in each player's contacts
    names         \* player_bizum_names

vars == <<book, played, shareCents, entry, handling, phone, names>>

Unhandled == [status |-> "none", how |-> None, left |-> 0]
Waiting   == [status |-> "waiting", how |-> None, left |-> 0]
Settled(how, left) == [status |-> "settled", how |-> how, left |-> left]

TypeOK ==
    /\ book \in Books
    /\ played \subseteq Games
    /\ shareCents \in [Seasons -> ShareAmounts]
    /\ entry \in [Bizums -> {"unseen", "kept", "discarded", "dismissed"}]
    /\ handling \in [Bizums -> [status : {"none", "waiting", "settled"},
                                how : {None, "automatic", "organiser"}, left : Nat]]
    /\ phone \in [Players -> Phones \union {None}]
    /\ names \in [Players -> SUBSET SenderNames]

Init ==
    /\ book = EmptyBook
    /\ played = {}
    /\ shareCents \in [Seasons -> ShareAmounts]
    /\ entry = [b \in Bizums |-> "unseen"]
    /\ handling = [b \in Bizums |-> Unhandled]
    /\ phone = [p \in Players |-> None]
    /\ names = [p \in Players |-> {}]

-----------------------------------------------------------------------------
(* A transaction reads and writes these tables; t is what it has so far. *)

Tables == [book |-> book, played |-> played, entry |-> entry, handling |-> handling,
           phone |-> phone, names |-> names]

Commit(t) ==
    /\ book' = t.book /\ played' = t.played /\ entry' = t.entry
    /\ handling' = t.handling /\ phone' = t.phone /\ names' = t.names
    /\ UNCHANGED shareCents

SeasonAt(day) == IF \E s \in Seasons : day \in Starts[s]..Ends[s]
                 THEN CHOOSE s \in Seasons : day \in Starts[s]..Ends[s] ELSE None

SeasonFor(b) == SeasonAt(BookedOn[b])

\* A phone that is found decides; otherwise the name does.
PlayersBehind(t, b) ==
    LET byPhone == {p \in Players : Sender[b].phone # None /\ t.phone[p] = Sender[b].phone}
        byName  == {p \in Players : Sender[b].name \in t.names[p]}
    IN IF byPhone # {} THEN byPhone ELSE byName

SameSender(b, c) ==
    IF Sender[b].phone # None THEN Sender[c].phone = Sender[b].phone
    ELSE Sender[b].name # None /\ Sender[c].name = Sender[b].name

-----------------------------------------------------------------------------
(* Which shares a Bizum may pay, and in which order *)

\* The shares the rules use, the later ones, and those of seasons before.
Kinds == {"near", "later", "before"}

KindFor(b, debt) ==
    IF PlayedOn[debt.game] < Starts[SeasonFor(b)] THEN "before"
    ELSE IF SeasonOf[debt.game] # SeasonFor(b) THEN "none"
    ELSE IF PlayedOn[debt.game] <= BookedOn[b] THEN "near" ELSE "later"

SharesFor(t, b, p, kinds) ==
    {d \in t.book.debts : /\ SeasonFor(b) # None
                          /\ p \in {d.holder, d.member}
                          /\ d.game \in t.played
                          /\ KindFor(b, d) \in kinds}

\* Within a game: their own share, the named guests they answer for, the '+1's.
Place(p, debt) == IF debt.member = p THEN 0
                  ELSE IF debt.member \in Players THEN 1 ELSE 1 + debt.member.ordinal

Precedence == [near |-> 0, later |-> 1, before |-> 2]

Nearer(b, p, d, e) ==
    LET kind == KindFor(b, d) IN
    \/ Precedence[kind] < Precedence[KindFor(b, e)]
    \/ /\ kind = KindFor(b, e)
       /\ \/ d.game = e.game /\ Place(p, d) < Place(p, e)
          \/ kind = "later" /\ PlayedOn[d.game] < PlayedOn[e.game]
          \/ kind # "later" /\ PlayedOn[d.game] > PlayedOn[e.game]

\* The n nearest; guests of one game held alike are told apart by row, left out.
NearestOf(b, p, shares, n) ==
    CHOOSE chosen \in SUBSET shares :
        /\ Cardinality(chosen) = n
        /\ \A d \in chosen, e \in shares \ chosen : ~Nearer(b, p, e, d)

Total(shares) == MapThenSumSet(LAMBDA s : s.amount, shares)

-----------------------------------------------------------------------------
(* The rules *)

Share(b) == shareCents[SeasonFor(b)]

Whole(b)     == SeasonFor(b) # None /\ Amount[b] % Share(b) = 0
OverSeven(b) == SeasonFor(b) # None /\ Amount[b] > 7 * Share(b)
Playable(b)  == Whole(b) /\ Amount[b] \div Share(b) \in 1..7

\* R1, R2 and R6, which only a new Bizum meets; R3, R4 and R5 come before R6.
Discards(b) ==
    \/ Word[b] = "exclude"
    \/ OverSeven(b)
    \/ SeasonFor(b) # None /\ ~Whole(b) /\ Word[b] # "include"

\* R3: one known player, and debts to cover the shares paid.
Settles(t, b) ==
    /\ Cardinality(PlayersBehind(t, b)) = 1
    /\ Playable(b)
    /\ \E p \in PlayersBehind(t, b) :
          Cardinality(SharesFor(t, b, p, {"near"})) >= Amount[b] \div Share(b)

-----------------------------------------------------------------------------
(* Settling and waiting *)

Wait(t, b) == [t EXCEPT !.handling[b] = Waiting]

\* Shares worth more than the Bizum are not paid, none of them: it waits.
Pay(t, b, payer, debts, how, rest) ==
    IF Total(debts) > Amount[b] THEN Wait(t, b)
    ELSE [t EXCEPT !.book = Settle(@, {PaymentOf(d, payer, d.amount, b) : d \in debts}),
                   !.handling[b] = Settled(how, IF rest = "dismiss" THEN 0
                                                ELSE Amount[b] - Total(debts))]

\* A fault: the games after the booking date are paid too.
ApplyAhead(t, b) ==
    IF Settles(t, b)
    THEN LET payer == CHOOSE p \in PlayersBehind(t, b) : TRUE
             open  == SharesFor(t, b, payer, {"near", "later"})
             last  == CHOOSE chosen \in SUBSET open :
                         /\ Cardinality(chosen) = Amount[b] \div Share(b)
                         /\ \A d \in chosen, e \in open \ chosen : ~Nearer(b, payer, d, e)
         IN Pay(t, b, payer, last, "automatic", "keep")
    ELSE Wait(t, b)

\* What the rules say of a Bizum that is kept.
Apply(t, b) ==
    IF Settles(t, b)
    THEN LET payer == CHOOSE p \in PlayersBehind(t, b) : TRUE
             near  == SharesFor(t, b, payer, {"near"})
         IN Pay(t, b, payer, NearestOf(b, payer, near, Amount[b] \div Share(b)),
                "automatic", "keep")
    ELSE Wait(t, b)

\* What t becomes when each Bizum has had its turn, up to the n-th.
InTurn(t, Turn(_, _), n) ==
    LET after[i \in 0..n] == IF i = 0 THEN t ELSE Turn(after[i - 1], BizumOrder[i])
    IN after[n]

\* A fault: the newest first.
RejudgeNewestFirst(t, bizums) ==
    LET after[i \in 1..(Len(BizumOrder) + 1)] ==
            IF i = Len(BizumOrder) + 1 THEN t
            ELSE LET u == after[i + 1]
                     b == BizumOrder[i]
                 IN IF b \in bizums /\ u.handling[b].status = "waiting" THEN Apply(u, b) ELSE u
    IN after[1]

\* Each against what the ones before it settled; what waits is never discarded.
Rejudge(t, bizums) ==
    LET rejudge(u, b) == IF b \in bizums /\ u.handling[b].status = "waiting" THEN Apply(u, b)
                                                                           ELSE u
    IN InTurn(t, rejudge, Len(BizumOrder))

\* A fault: not the Bizums of the game's own day.
WaitingSince(t, g) ==
    {b \in Bizums : /\ t.handling[b].status = "waiting"
                    /\ SeasonFor(b) = SeasonOf[g] /\ BookedOn[b] > PlayedOn[g]}

WaitingFrom(t, g) ==
    {b \in Bizums : /\ t.handling[b].status = "waiting"
                    /\ SeasonFor(b) = SeasonOf[g] /\ BookedOn[b] >= PlayedOn[g]}

-----------------------------------------------------------------------------
(* The feed *)

\* A fault: the ledger is not asked whether the entry was handled.
HandleAgain(t, b, from) ==
    IF BookedOn[b] < from THEN t
    ELSE IF ~Incoming[b] \/ Discards(b) THEN [t EXCEPT !.entry[b] = "discarded"]
    ELSE [Apply(t, b) EXCEPT !.entry[b] = "kept"]

\* An entry before the start date is not remembered: the date may move back.
Handle(t, b, from) ==
    IF t.entry[b] # "unseen" \/ BookedOn[b] < from THEN t
    ELSE IF ~Incoming[b] \/ Discards(b) THEN [t EXCEPT !.entry[b] = "discarded"]
    ELSE [Apply(t, b) EXCEPT !.entry[b] = "kept"]

\* Whatever of the account's entries the bank gives, handled up to where the
\* process stops or an entry fails; nothing when a page fails.
Read(given, from, upTo) ==
    LET handle(t, b) == IF b \in given THEN Handle(t, b, from) ELSE t
    IN Commit(InTurn(Tables, handle, upTo))

-----------------------------------------------------------------------------
(* The games and the seasons *)

ShareCents == [g \in Games |-> shareCents[SeasonOf[g]]]

\* The played outcome, the billing, then the Bizums that wait for its debts.
PlayGame(g, playing) ==
    LET billed == Bill(SetPlayed(book, g, playing \intersect Players),
                       g, playing, HolderOf, shareCents[SeasonOf[g]])
        t == [Tables EXCEPT !.book = billed, !.played = @ \union {g}]
    IN /\ g \notin played
       /\ Commit(Rejudge(t, WaitingFrom(t, g)))

\* A payment made from a Bizum outlives the game being played.
ReopenGame(g) ==
    /\ g \in played
    /\ Commit([Tables EXCEPT !.book = SetPlayed(@, g, {}), !.played = @ \ {g}])

DeleteGame(g) ==
    Commit([Tables EXCEPT !.book = Forget(@, g), !.played = @ \ {g}])

EditSeason(s, cents) ==
    /\ shareCents' = [shareCents EXCEPT ![s] = cents]
    /\ UNCHANGED <<book, played, entry, handling, phone, names>>

-----------------------------------------------------------------------------
(* The organiser's requests *)

\* Some of the payer's shares, nearest first, and some of other players' own.
Rule(b, payer, n, others, rest) ==
    LET open    == SharesFor(Tables, b, payer, Kinds)
        own(q)  == {d \in SharesFor(Tables, b, q, Kinds) : d.member = q}
        helped  == {q \in Players : others[q] > 0}
        chosen  == NearestOf(b, payer, open, n)
                   \union UNION {NearestOf(b, q, own(q), others[q]) : q \in helped}
    IN /\ handling[b].status = "waiting"
       /\ n > 0 \/ helped # {}
       /\ payer \notin helped
       /\ n <= Cardinality(open)
       /\ \A q \in helped : others[q] <= Cardinality(own(q))
       /\ Cardinality(chosen) = n + MapThenSumSet(LAMBDA q : others[q], helped)
       /\ Total(chosen) <= Amount[b]
       /\ Commit(Pay(Tables, b, payer, chosen, "organiser", rest))

Dismiss(b) ==
    /\ handling[b].status = "waiting"
    /\ Commit([Tables EXCEPT !.entry[b] = "dismissed", !.handling[b] = Unhandled])

\* The sender becomes the player's phone, or one more of their Bizum names.
Pair(b, p) ==
    LET sender == Sender[b]
        t == IF sender.phone # None THEN [Tables EXCEPT !.phone[p] = sender.phone]
             ELSE [Tables EXCEPT !.names[p] = @ \union {sender.name}]
    IN /\ handling[b].status = "waiting"
       /\ sender.phone # None \/ sender.name # None
       /\ Commit(Rejudge(t, {c \in Bizums : /\ t.handling[c].status = "waiting"
                                            /\ SameSender(b, c)}))

AddBizumName(p, name)    == Commit([Tables EXCEPT !.names[p] = @ \union {name}])
RemoveBizumName(p, name) == Commit([Tables EXCEPT !.names[p] = @ \ {name}])

PayByHand(debt, payer) ==
    /\ debt.game \in played
    /\ MayPay(payer, debt)
    /\ Commit([Tables EXCEPT !.book = Settle(@, {PaymentOf(debt, payer, debt.amount, None)})])

PaymentsFrom(b) == {p \in book.payments : p.bizum = b}

\* A fault: only the payment named is undone.
UndoOne(payment) ==
    LET b == payment.bizum IN
    /\ b # None
    /\ payment.game \in played
    /\ Commit(Wait([Tables EXCEPT !.book = Unsettle(@, {payment}, ShareCents)], b))

\* A Bizum's payments are all undone, of every game, and it waits again.
UndoBizum(payment) ==
    LET b   == payment.bizum
        all == PaymentsFrom(b)
    IN /\ b # None
       /\ \A p \in all : p.game \in played
       /\ Commit(Wait([Tables EXCEPT !.book = Unsettle(@, all, ShareCents)], b))

UndoByHand(payment) ==
    /\ payment.bizum = None
    /\ payment.game \in played
    /\ Commit([Tables EXCEPT !.book = Unsettle(@, {payment}, ShareCents)])

Reassign(debt, holder) ==
    LET t == [Tables EXCEPT !.book = SetHolder(@, debt, holder)]
    IN /\ debt.game \in played
       /\ debt.member \in Players
       /\ holder # debt.holder
       /\ Commit(Rejudge(t, WaitingFrom(t, debt.game)))

-----------------------------------------------------------------------------
Counts == 0..Cardinality(Games)

Next ==
    \/ \E given \in SUBSET Bizums, from \in StartDates, upTo \in 0..Len(BizumOrder) :
          Read(given, from, upTo)
    \/ \E g \in Games : \/ \E playing \in Lineups[g] : PlayGame(g, playing)
                        \/ ReopenGame(g) \/ DeleteGame(g)
    \/ \E s \in Seasons, cents \in ShareAmounts : EditSeason(s, cents)
    \/ \E b \in Bizums, p \in Players : Pair(b, p)
    \/ \E b \in Bizums, p \in Players, n \in Counts, others \in [Players -> Counts],
          rest \in {"keep", "dismiss"} : Rule(b, p, n, others, rest)
    \/ \E b \in Bizums : Dismiss(b)
    \/ \E p \in Players, name \in SenderNames : AddBizumName(p, name) \/ RemoveBizumName(p, name)
    \/ \E debt \in book.debts : \/ \E payer \in Players : PayByHand(debt, payer)
                                \/ \E holder \in NewHolders : Reassign(debt, holder)
    \/ \E payment \in book.payments : UndoBizum(payment) \/ UndoByHand(payment)

Spec == Init /\ [][Next]_vars

-----------------------------------------------------------------------------
(* Safety *)

\* However Bizums are read, judged again, ruled, undone and judged once more, and
\* whatever requests compete for it, a share is one debt or one payment.
ShareInOneTable == OneTable(book)

PaidFrom(b) == Total(PaymentsFrom(b))

\* What a Bizum paid and what it has left never add up to more than it brought,
\* even after the season's price changed between a payment and its undoing.
MoneyAccounted ==
    \A b \in Bizums : /\ PaidFrom(b) <= Amount[b]
                       /\ PaidFrom(b) + handling[b].left <= Amount[b]

\* The rules on their own pay only games of the season of the Bizum up to its
\* day, and for a share the sender answers for or is the one of.
RulesPayOnlyThePast ==
    \A p \in book.payments : p.bizum # None /\ handling[p.bizum].how = "automatic" =>
        /\ SeasonOf[p.game] = SeasonFor(p.bizum)
        /\ PlayedOn[p.game] <= BookedOn[p.bizum]
        /\ MayPay(p.payer, p)

(* Action properties *)

\* A payment of a Bizum that becomes a debt again takes with it every other one
\* of that Bizum, of any game, in the same step, and the Bizum waits.
UndoesThemAll ==
    \A b \in Bizums :
      (\E p \in PaymentsFrom(b), d \in book'.debts : SameShare(p, d))
      => /\ PaymentsFrom(b)' = {}
         /\ \A p \in PaymentsFrom(b) : \E d \in book'.debts : SameShare(p, d)
         /\ handling'[b] = Waiting

\* Each undoing is of all or of none, and what a Bizum pays and has left still never
\* adds up to more than it brought (bizum-undo-service.ts).
UndoAllOrNothing == [][UndoesThemAll /\ MoneyAccounted']_vars

Payable(b) ==
    /\ handling[b].status = "waiting"
    /\ Settles(Tables, b)

OnePrice == \A d \in book.debts : d.amount = shareCents[SeasonOf[d.game]]

\* Playing a game leaves no Bizum of its day or later waiting that the rules
\* would pay: what arrived before its debts is not forgotten.  While debts of
\* several prices are open a Bizum may stay, as its share was too dear in its turn.
WaitedIsPaid ==
    \A g \in played' \ played, b \in Bizums :
      /\ OnePrice /\ OnePrice'
      /\ SeasonFor(b) = SeasonOf[g] /\ PlayedOn[g] <= BookedOn[b]
      => ~Payable(b)'

\* Every game that is played (bizum-settlement-service.ts).
PlayingPaysWhatWaited == [][WaitedIsPaid]_vars

IsBefore(b, c) ==
    \E i, j \in DOMAIN BizumOrder : i < j /\ BizumOrder[i] = b /\ BizumOrder[j] = c

\* A step judges b when it pairs a sender or plays a game of no later day.
Judges(b) ==
    \/ phone' # phone \/ names' # names
    \/ \E g \in played' \ played : PlayedOn[g] <= BookedOn[b]

\* Of two equal Bizums of one sender judged together, the later one never pays a
\* share that the earlier one could have paid.  Of several prices, the earlier one
\* may have found its shares too dear, and others paid them before the later one.
OlderIsPreferred ==
    \A b, c \in Bizums :
      /\ OnePrice
      /\ IsBefore(b, c) /\ Sender[b] = Sender[c]
      /\ Amount[b] = Amount[c] /\ SeasonFor(b) = SeasonFor(c)
      /\ Judges(b)
      /\ handling[b].status = "waiting" /\ handling[c].status = "waiting"
      /\ handling'[c].how = "automatic" /\ handling'[b].status = "waiting"
      => \E p \in PaymentsFrom(c)' : PlayedOn[p.game] > BookedOn[b]

\* Every time Bizums are judged again (bizum-resolution-service.ts).
OldestPaysFirst == [][OlderIsPreferred]_vars

(* What BizumLedger calls the stage of each Bizum *)

StageOf(b) ==
    IF entry[b] # "kept" THEN entry[b]
    ELSE IF handling[b].status = "settled" THEN "settled" ELSE "waiting"

Treasury == INSTANCE BizumLedger WITH
    stage <- [b \in Bizums |-> StageOf(b)], paid <- [b \in Bizums |-> PaidFrom(b)]

\* Every transaction moves each Bizum as the treasury promises, or not at all.
KeepsTheTreasury == Treasury!Spec

(* What the repository says of the program and the code does otherwise *)

\* ciclo-del-partido.md: a Bizum pays only debts of the season of its date,
\* neither the rules nor a ruling carry debts to another season.  A ruling also
\* pays the shares of the seasons before.
PaysItsSeasonOnly ==
    \A p \in book.payments : p.bizum # None => SeasonOf[p.game] = SeasonFor(p.bizum)
=============================================================================
