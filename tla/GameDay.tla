------------------------------ MODULE GameDay ------------------------------
(***************************************************************************)
(* A game from its candidate list to its payments, as the server's         *)
(* services write it: repo/game-lifecycle-service.ts and the services it   *)
(* coordinates.  Every request is one synchronous transaction, so every    *)
(* action is one whole request; what interleaves is the order requests     *)
(* come in, and the organiser may send any of them at any time.            *)
(*                                                                         *)
(* Names, positions, points and dates are abstracted: the selection is any *)
(* one the rules of ConvocatoriaBuilder and GuestSlotAllocator could make, *)
(* and reading the pasted text is any list of known players.               *)
(***************************************************************************)
EXTENDS Shares, GameLifecycle, FiniteSets

CONSTANTS Seasons, SeasonOf,   \* the seasons and the one each game falls in
          UsualHosts,          \* who may bring a player as a named guest
          ShareAmounts,        \* the shares a season's price can come to (a bound)
          SlotCounts,          \* the slots a season can have (a bound)
          MercySeats,          \* mercy seats of a selection
          Adjustments,         \* odd amounts a single share may be paid with (a bound)
          EditedAlone,         \* players whose participation is edited on its own (a bound)
          NewHolders           \* players a debt is passed to (a bound)

ASSUME GameDayAssumption ==
    /\ SeasonOf \in [Games -> Seasons]
    /\ UsualHosts \in [Players -> SUBSET Players]
    /\ ShareAmounts \subseteq Cents /\ ShareAmounts # {}
    /\ SlotCounts \subseteq Nat \ {0} /\ SlotCounts # {}
    /\ MercySeats \in Nat
    /\ Adjustments \subseteq Cents
    /\ EditedAlone \subseteq Players /\ NewHolders \subseteq Players

VARIABLES
    position,    \* status and cancelled_from of each game
    hostOf,      \* guest_candidates: who brings each named guest, per game
    plusOnes,    \* guest_candidates: the anonymous '+1's of each game
    outcome,     \* convocatoria_entries.outcome, None where there is no entry
    playing,     \* the members whose entry has playing = 1
    ruledSlots,  \* slots frozen in rules_json; 0 while no convocatoria is stored
    exclusion,   \* exclusions.kind of each game and player
    book,        \* participations, share_debts and payments
    season       \* the share amount and the slots of each season, as they are now

vars == <<position, hostOf, plusOnes, outcome, playing, ruledSlots, exclusion, book, season>>

list         == <<hostOf, plusOnes>>
convocatoria == <<outcome, playing, ruledSlots>>

\* The status of an id no row of games has.
NoGame == [status |-> "absent", cancelledFrom |-> NotCancelled]

Outcomes   == {"called_up", "mercy", "demoted", "excluded"}
Exclusions == {"points", "demoted", "mercy"}

TypeOK ==
    /\ position \in [Games -> Positions \union {NoGame}]
    /\ hostOf \in [Games -> [Players -> Players \union {None}]]
    /\ plusOnes \in [Games -> SUBSET PlusOnes]
    /\ outcome \in [Games -> [Members -> Outcomes \union {None}]]
    /\ playing \in [Games -> SUBSET Members]
    /\ ruledSlots \in [Games -> Nat]
    /\ exclusion \in [Games -> [Players -> Exclusions \union {None}]]
    /\ book \in Books
    /\ season \in [Seasons -> [shareCents : ShareAmounts, slots : SlotCounts]]

NoHosts      == [p \in Players |-> None]
NoEntries    == [m \in Members |-> None]
NoExclusions == [p \in Players |-> None]

Init ==
    /\ position = [g \in Games |-> NoGame]
    /\ hostOf = [g \in Games |-> NoHosts]
    /\ plusOnes = [g \in Games |-> {}]
    /\ outcome = [g \in Games |-> NoEntries]
    /\ playing = [g \in Games |-> {}]
    /\ ruledSlots = [g \in Games |-> 0]
    /\ exclusion = [g \in Games |-> NoExclusions]
    /\ book = EmptyBook
    /\ season \in [Seasons -> [shareCents : ShareAmounts, slots : SlotCounts]]

-----------------------------------------------------------------------------
(* What the services read *)

Exists(g) == position[g] # NoGame

Require(g, capability) == Exists(g) /\ Allows(position[g], capability)

HasConvocatoria(g) == ruledSlots[g] # 0

SignedUp(g) == {p \in Players : <<g, p>> \in book.signed}

HasEntry(g, m) == outcome[g][m] # None

ChangedByHand(g, m) ==
    HasEntry(g, m) /\ (m \in playing[g]) # (outcome[g][m] \in {"called_up", "mercy"})

\* The share of a guest is held by whoever brought them, a '+1''s by its host.
HolderIn(g) ==
    [m \in Members |-> IF m \notin Players THEN m.host
                       ELSE IF hostOf[g][m] # None THEN hostOf[g][m] ELSE m]

ShareCents == [g \in Games |-> season[SeasonOf[g]].shareCents]

-----------------------------------------------------------------------------
(* The games themselves *)

CreateGame(g) ==
    /\ ~Exists(g)
    /\ position' = [position EXCEPT ![g] = At(Open)]
    /\ UNCHANGED <<list, convocatoria, exclusion, book, season>>

\* Nothing is asked of the game's state: every row that refers to it goes.
DeleteGame(g) ==
    /\ Exists(g)
    /\ position' = [position EXCEPT ![g] = NoGame]
    /\ hostOf' = [hostOf EXCEPT ![g] = NoHosts]
    /\ plusOnes' = [plusOnes EXCEPT ![g] = {}]
    /\ outcome' = [outcome EXCEPT ![g] = NoEntries]
    /\ playing' = [playing EXCEPT ![g] = {}]
    /\ ruledSlots' = [ruledSlots EXCEPT ![g] = 0]
    /\ exclusion' = [exclusion EXCEPT ![g] = NoExclusions]
    /\ book' = Forget(book, g)
    /\ UNCHANGED season

EditSeason(s) ==
    /\ \E cents \in ShareAmounts, slots \in SlotCounts :
          season' = [season EXCEPT ![s] = [shareCents |-> cents, slots |-> slots]]
    /\ UNCHANGED <<position, list, convocatoria, exclusion, book>>

-----------------------------------------------------------------------------
(* The candidate list *)

\* Entries follow the sign-ups: the new ones below the line, the gone dropped.
Aligned(entries, members) ==
    [m \in Members |-> IF m \notin members THEN None
                       ELSE IF entries[m] = None THEN "excluded" ELSE entries[m]]

SaveList(g, signed, hosts, extra) ==
    LET guests  == {x \in PlusOnes : x.ordinal <= extra[x.host]}
        members == signed \union guests
    IN /\ Require(g, "edit_apuntados")
       /\ \A p \in Players \ signed : hosts[p] = None /\ extra[p] = 0
       /\ HasConvocatoria(g) => playing[g] \subseteq members
       /\ hostOf' = [hostOf EXCEPT ![g] = hosts]
       /\ plusOnes' = [plusOnes EXCEPT ![g] = guests]
       /\ book' = ReplaceSignUps(book, g, signed)
       /\ outcome' = IF HasConvocatoria(g)
                     THEN [outcome EXCEPT ![g] = Aligned(outcome[g], members)]
                     ELSE outcome
       /\ UNCHANGED <<position, playing, ruledSlots, exclusion, season>>

\* A participation edited on its own: neither the guests nor the entries follow.
SetSignUp(g, p, signedUp) ==
    /\ Require(g, "edit_apuntados")
    /\ ~signedUp => p \notin playing[g]
    /\ book' = IF signedUp THEN SignUp(book, {<<g, p>>}) ELSE SignOut(book, {<<g, p>>})
    /\ UNCHANGED <<position, list, convocatoria, exclusion, season>>

RemoveParticipation(g, p) ==
    /\ Require(g, "edit_apuntados")
    /\ p \notin playing[g]
    /\ book' = RemoveRow(book, g, p)
    /\ UNCHANGED <<position, list, convocatoria, exclusion, season>>

-----------------------------------------------------------------------------
(* The convocatoria *)

NamedGuests(g) == {p \in Players : hostOf[g][p] # None}
Regulars(g)    == SignedUp(g) \ NamedGuests(g)
Guests(g)      == NamedGuests(g) \union plusOnes[g]
Candidates(g)  == Regulars(g) \union Guests(g)
SlotsNow(g)    == season[SeasonOf[g]].slots

\* The regulars fit: they all play and guests fill what is left.
ByArrival(g, slots, calledUp, mercy, demoted) ==
    /\ Cardinality(Regulars(g)) <= slots
    /\ Regulars(g) \subseteq calledUp /\ calledUp \subseteq Candidates(g)
    /\ Cardinality(calledUp) <= slots
    /\ Cardinality(calledUp) < slots => calledUp = Candidates(g)
    /\ mercy = {} /\ demoted = {}

\* They do not: they compete, each mercy seat demotes someone, no guest plays.
ByPoints(g, slots, calledUp, mercy, demoted) ==
    /\ Cardinality(Regulars(g)) > slots
    /\ calledUp \union mercy \union demoted \subseteq Regulars(g)
    /\ calledUp \intersect (mercy \union demoted) = {} /\ mercy \intersect demoted = {}
    /\ Cardinality(calledUp \union mercy) = slots
    /\ Cardinality(mercy) = Cardinality(demoted) /\ Cardinality(mercy) <= MercySeats

\* Everyone the selection saw, labelled.
Labelled(candidates, calledUp, mercy, demoted) ==
    [m \in Members |-> IF m \notin candidates THEN None
                       ELSE IF m \in mercy THEN "mercy"
                       ELSE IF m \in demoted THEN "demoted"
                       ELSE IF m \in calledUp THEN "called_up" ELSE "excluded"]

Select(g, slots, calledUp, mercy, demoted) ==
    /\ \/ ByArrival(g, slots, calledUp, mercy, demoted)
       \/ ByPoints(g, slots, calledUp, mercy, demoted)
    /\ playing' = [playing EXCEPT ![g] = calledUp \union mercy]
    /\ outcome' = [outcome EXCEPT ![g] = Labelled(Candidates(g), calledUp, mercy, demoted)]

CreateConvocatoria(g, discardEdits) ==
    /\ Exists(g) /\ CanPerform(position[g], "create")
    /\ SignedUp(g) # {}
    /\ discardEdits \/ \A m \in Members : ~ChangedByHand(g, m)
    /\ \E calledUp \in SUBSET Candidates(g), mercy, demoted \in SUBSET Regulars(g) :
          Select(g, SlotsNow(g), calledUp, mercy, demoted)
    /\ position' = [position EXCEPT ![g] = NextPosition(@, "create")]
    /\ ruledSlots' = [ruledSlots EXCEPT ![g] = SlotsNow(g)]
    /\ UNCHANGED <<list, exclusion, book, season>>

Confirm(g) ==
    /\ Exists(g) /\ CanPerform(position[g], "confirm")
    /\ position' = [position EXCEPT ![g] = NextPosition(@, "confirm")]
    /\ UNCHANGED <<list, convocatoria, exclusion, book, season>>

MoveIn(g, m) ==
    /\ Require(g, "edit_convocatoria")
    /\ HasEntry(g, m)
    /\ m \in playing[g] \/ Cardinality(playing[g]) < ruledSlots[g]
    /\ playing' = [playing EXCEPT ![g] = @ \union {m}]
    /\ UNCHANGED <<position, list, outcome, ruledSlots, exclusion, book, season>>

\* A fault: the game's state is not asked.
MoveOutAnytime(g, m) ==
    /\ HasEntry(g, m)
    /\ playing' = [playing EXCEPT ![g] = @ \ {m}]
    /\ UNCHANGED <<position, list, outcome, ruledSlots, exclusion, book, season>>

MoveOut(g, m) ==
    /\ Require(g, "edit_convocatoria")
    /\ HasEntry(g, m)
    /\ playing' = [playing EXCEPT ![g] = @ \ {m}]
    /\ UNCHANGED <<position, list, outcome, ruledSlots, exclusion, book, season>>

-----------------------------------------------------------------------------
(* Entering and leaving played *)

ExclusionOf(entry, plays) ==
    IF plays THEN (IF entry = "mercy" THEN "mercy" ELSE None)
    ELSE IF entry = "demoted" THEN "demoted" ELSE "points"

DerivedExclusions(g) ==
    [p \in Players |-> IF HasEntry(g, p) THEN ExclusionOf(outcome[g][p], p \in playing[g])
                       ELSE None]

\* PlayedOutcomeEffect, then BillingEffect.  BizumReevaluationEffect is BizumDesk's.
EnterPlayed(g) ==
    /\ exclusion' = [exclusion EXCEPT ![g] = DerivedExclusions(g)]
    /\ book' = Bill(SetPlayed(book, g, playing[g] \intersect Players),
                    g, playing[g], HolderIn(g), ShareCents[g])

\* A fault: the points of the game outlive it.
LeavePlayedKeepingPoints(g) ==
    /\ book' = SetPlayed(book, g, {})
    /\ UNCHANGED exclusion

\* A fault: what is owed goes as well.
LeavePlayedUnbilling(g) ==
    /\ exclusion' = [exclusion EXCEPT ![g] = NoExclusions]
    /\ book' = [SetPlayed(book, g, {}) EXCEPT !.debts = @ \ DebtsOf(book, g)]

LeavePlayed(g) ==
    /\ exclusion' = [exclusion EXCEPT ![g] = NoExclusions]
    /\ book' = SetPlayed(book, g, {})

ChangeState(g, action) ==
    LET next == NextPosition(position[g], action)
        wasPlayed == position[g].status = Played
        isPlayed  == next.status = Played
    IN /\ Exists(g) /\ CanPerform(position[g], action)
       /\ position' = [position EXCEPT ![g] = next]
       /\ \/ ~wasPlayed /\ isPlayed /\ EnterPlayed(g)
          \/ wasPlayed /\ ~isPlayed /\ LeavePlayed(g)
          \/ ~wasPlayed /\ ~isPlayed /\ UNCHANGED <<exclusion, book>>
       /\ UNCHANGED <<list, convocatoria, season>>

-----------------------------------------------------------------------------
(* Payments made by hand *)

Pay(g, debts, payer) ==
    /\ Require(g, "pay")
    /\ debts # {}
    /\ \A d \in debts : MayPay(payer, d)
    /\ book' = Settle(book, {PaymentOf(d, payer, d.amount, None) : d \in debts})
    /\ UNCHANGED <<position, list, convocatoria, exclusion, season>>

PayAdjusted(g, debt, payer, amount) ==
    /\ Require(g, "pay")
    /\ MayPay(payer, debt)
    /\ book' = Settle(book, {PaymentOf(debt, payer, amount, None)})
    /\ UNCHANGED <<position, list, convocatoria, exclusion, season>>

\* A fault: a payment can be undone whatever the game's state.
UndoAnytime(g, payment) ==
    /\ payment.bizum = None
    /\ book' = Unsettle(book, {payment}, ShareCents)
    /\ UNCHANGED <<position, list, convocatoria, exclusion, season>>

Undo(g, payment) ==
    /\ Require(g, "pay")
    /\ payment.bizum = None
    /\ book' = Unsettle(book, {payment}, ShareCents)
    /\ UNCHANGED <<position, list, convocatoria, exclusion, season>>

Reassign(g, debt, holder) ==
    /\ Require(g, "pay")
    /\ debt.member \in Players
    /\ holder # debt.holder
    /\ book' = SetHolder(book, debt, holder)
    /\ UNCHANGED <<position, list, convocatoria, exclusion, season>>

-----------------------------------------------------------------------------
HostChoices == {h \in [Players -> Players \union {None}] :
                  \A p \in Players : h[p] \in UsualHosts[p] \union {None}}

ExtraChoices == {x \in [Players -> UNION {0..PlusOnesOf[p] : p \in Players}] :
                   \A p \in Players : x[p] <= PlusOnesOf[p]}

EditList(g) ==
    \/ \E signed \in SUBSET Players, hosts \in HostChoices,
          extra \in ExtraChoices : SaveList(g, signed, hosts, extra)
    \/ \E p \in EditedAlone, signedUp \in BOOLEAN : SetSignUp(g, p, signedUp)
    \/ \E p \in EditedAlone : RemoveParticipation(g, p)

EditConvocatoria(g) ==
    \/ \E discardEdits \in BOOLEAN : CreateConvocatoria(g, discardEdits)
    \/ Confirm(g)
    \/ \E m \in Members : MoveIn(g, m) \/ MoveOut(g, m)

HandlePayments(g) ==
    \/ \E payer \in Players, debts \in SUBSET DebtsOf(book, g) : Pay(g, debts, payer)
    \/ \E debt \in DebtsOf(book, g), payer \in Players, amount \in Adjustments :
          PayAdjusted(g, debt, payer, amount)
    \/ \E payment \in PaymentsOf(book, g) : Undo(g, payment)
    \/ \E debt \in DebtsOf(book, g), holder \in NewHolders : Reassign(g, debt, holder)

Next ==
    \/ \E g \in Games :
          \/ CreateGame(g) \/ DeleteGame(g)
          \/ EditList(g) \/ EditConvocatoria(g)
          \/ \E action \in {"play", "reopen", "cancel", "uncancel"} : ChangeState(g, action)
          \/ HandlePayments(g)
    \/ \E s \in Seasons : EditSeason(s)

Spec == Init /\ [][Next]_vars

-----------------------------------------------------------------------------
(* Safety *)

IsPlayed(g) == position[g].status = Played

\* A share is a debt or a payment, never both and never twice: what schema.sql
\* says the code that moves it keeps, through any pay, undo, reopen and replay.
ShareInOneTable == OneTable(book)

\* Whoever plays in a played game owes their share or has paid it, and that
\* still holds when the game was cancelled as played.
PlayedIsBilled ==
    \A g \in Games : Played \in {position[g].status, position[g].cancelledFrom} =>
        playing[g] \subseteq BilledMembers(book, g)

\* Attendance and exclusion points exist exactly while the game is played: each
\* player of the convocatoria then either played or earned a point, never both.
OutcomeFollowsTheGame ==
    \A g \in Games, p \in Players :
        LET played  == <<g, p>> \in book.played
            scored  == exclusion[g][p] \in {"points", "demoted"}
        IN /\ played <=> IsPlayed(g) /\ p \in playing[g]
           /\ scored <=> IsPlayed(g) /\ HasEntry(g, p) /\ p \notin playing[g]
           /\ exclusion[g][p] = "mercy" => played /\ outcome[g][p] = "mercy"

\* A paid game, which is an attendance point, is always backed by the payment of
\* that player's share, for that amount.
PaidGameHasPayment ==
    \A g \in Games, p \in Players : book.paid[<<g, p>>] # 0 =>
        \E payment \in book.payments :
            /\ payment.game = g /\ payment.member = p
            /\ payment.amount = book.paid[<<g, p>>]

(* Action properties *)

\* A played or cancelled game is frozen: no request changes its list or its
\* convocatoria unless it first takes it out of that state.
FrozenOncePlayed ==
    [][\A g \in Games :
        /\ position[g].status \in {Played, Cancelled}
        /\ position'[g].status \in {Played, Cancelled}
        => /\ hostOf'[g] = hostOf[g] /\ plusOnes'[g] = plusOnes[g]
           /\ outcome'[g] = outcome[g] /\ playing'[g] = playing[g]
           /\ ruledSlots'[g] = ruledSlots[g]]_vars

\* Undoing the cancellation of a played game bills nothing and touches no payment:
\* everyone playing was billed already and nobody could be moved meanwhile.
UncancelBillsNothing ==
    [][\A g \in Games :
        position[g].cancelledFrom = Played /\ position'[g].status = Played
        => /\ book'.debts \subseteq book.debts
           /\ book'.payments = book.payments]_vars

(* Refinement: what the tables say of each share *)

StageOf(g, m) ==
    IF \E p \in book.payments : p.game = g /\ p.member = m THEN "paid"
    ELSE IF \E d \in book.debts : d.game = g /\ d.member = m THEN "owed" ELSE "unbilled"

Ledger == INSTANCE ShareLedger WITH
    taking <- {g \in Games : IsPlayed(g)},
    share  <- [g \in Games |-> [m \in Members |-> StageOf(g, m)]]

\* Every step of the services is a step of the share ledger, or changes no share.
KeepsTheLedger == Ledger!Spec

(* What the repository says of the program and these requests break *)

\* points.md: an exclusion point exists while the game is played, the player
\* signed up and they were left out.  A participation edited on its own signs a
\* player out and leaves their entry, which scores when the game is played.
PointsOnlyForSignedUp ==
    \A g \in Games, p \in Players :
        exclusion[g][p] \in {"points", "demoted"} => p \in SignedUp(g)

\* ShareSettler keeps the paid game in step with the payment, so whoever played a
\* game and paid it has it as a paid game.  Removing a participation while the
\* game is reopened forgets it, and neither signing up nor playing again restores it.
PaidGameInStep ==
    \A payment \in book.payments :
        /\ IsPlayed(payment.game)
        /\ payment.member \in Players \intersect playing[payment.game]
        => book.paid[<<payment.game, payment.member>>] = payment.amount
=============================================================================
