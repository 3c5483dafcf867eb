--------------------------- MODULE GameDay_proofs ---------------------------
(***************************************************************************)
(* Proofs about GameDay, for every set of games, players, seasons, share   *)
(* amounts and slots: its types are kept, a share is in one table, a       *)
(* played game is frozen, its outcome and its bills are there exactly      *)
(* while it is played, a paid game has its payment, uncancelling bills     *)
(* nothing, and every request is a step of ShareLedger.  And about the     *)
(* page that runs a game, of GameScreen: its buttons act on the game on    *)
(* screen, which is the one chosen, and at rest it is as it is stored.     *)
(***************************************************************************)
EXTENDS GameDay, Shares_proofs, FiniteSetTheorems, WellFoundedInduction, TLAPS

-----------------------------------------------------------------------------
(* Type correctness *)

\* A legal move goes from a position the schema accepts to another one.
LEMMA PositionType ==
    ASSUME NEW pos \in Positions, NEW action \in GameActions, CanPerform(pos, action)
    PROVE  NextPosition(pos, action) \in Positions
BY DEF Positions, GameActions, CanPerform, NextPosition, LeavesFrom, Destination, At,
       CancelledFrom, GameStates, LiveStates, NotCancelled,
       Open, Created, Confirmed, Played, Cancelled

\* Everyone who may hold a share is a player.
LEMMA HolderType ==
    ASSUME TypeOK, NEW g \in Games
    PROVE  HolderIn(g) \in [Members -> Players]
<1> SUFFICES ASSUME NEW m \in Members
             PROVE  (IF m \notin Players THEN m.host
                     ELSE IF hostOf[g][m] # None THEN hostOf[g][m] ELSE m) \in Players
  BY DEF HolderIn
<1>1. CASE m \notin Players
  BY <1>1 DEF Members, PlusOnes
<1>2. CASE m \in Players
  BY <1>2 DEF TypeOK
<1> QED BY <1>1, <1>2

\* The share amounts a settlement or an undo uses are positive.
LEMMA ShareCentsType ==
    ASSUME TypeOK
    PROVE  ShareCents \in [Games -> Cents]
BY GameDayAssumption DEF TypeOK, ShareCents

\* The database starts with rows its schema accepts.
LEMMA InitType == Init => TypeOK
<1> SUFFICES ASSUME Init PROVE TypeOK
  OBVIOUS
<1>1. EmptyBook \in Books
  BY DEF EmptyBook, Books
<1> QED BY <1>1 DEF Init, TypeOK, NoHosts, NoEntries, NoExclusions, NoGame

\* Every request leaves rows its schema accepts.
LEMMA NextType == TypeOK /\ [Next]_vars => TypeOK'
<1> SUFFICES ASSUME TypeOK, [Next]_vars PROVE TypeOK'
  OBVIOUS
<1> USE DEF TypeOK
<1>1. ASSUME NEW g \in Games, CreateGame(g) PROVE TypeOK'
  BY <1>1 DEF CreateGame, list, convocatoria, Positions, LiveStates
<1>2. ASSUME NEW g \in Games, DeleteGame(g) PROVE TypeOK'
  BY <1>2, ForgetType DEF DeleteGame, NoHosts, NoEntries, NoExclusions
<1>3. ASSUME NEW s \in Seasons, EditSeason(s) PROVE TypeOK'
  BY <1>3 DEF EditSeason, list, convocatoria
<1>4. ASSUME NEW g \in Games, EditList(g) PROVE TypeOK'
  <2>1. ASSUME NEW signed \in SUBSET Players, NEW hosts \in HostChoices,
               NEW extra \in ExtraChoices, SaveList(g, signed, hosts, extra)
        PROVE  TypeOK'
    <3>1. book' \in Books
      BY <2>1, ReplaceSignUpsType DEF SaveList
    <3>2. hostOf' \in [Games -> [Players -> Players \union {None}]]
      BY <2>1 DEF SaveList, HostChoices
    <3>3. plusOnes' \in [Games -> SUBSET PlusOnes]
      BY <2>1 DEF SaveList
    <3>4. outcome' \in [Games -> [Members -> Outcomes \union {None}]]
      BY <2>1 DEF SaveList, Aligned, Outcomes
    <3> QED BY <2>1, <3>1, <3>2, <3>3, <3>4 DEF SaveList
  <2>2. ASSUME NEW p \in EditedAlone, NEW signedUp \in BOOLEAN, SetSignUp(g, p, signedUp)
        PROVE  TypeOK'
    <3>1. {<<g, p>>} \in SUBSET (Games \X Players)
      BY GameDayAssumption
    <3>2. book' \in Books
      BY <2>2, <3>1, SignUpType DEF SetSignUp
    <3> QED BY <2>2, <3>2 DEF SetSignUp, list, convocatoria
  <2>3. ASSUME NEW p \in EditedAlone, RemoveParticipation(g, p) PROVE TypeOK'
    <3>1. book' \in Books
      BY <2>3, RemoveRowType, GameDayAssumption DEF RemoveParticipation
    <3> QED BY <2>3, <3>1 DEF RemoveParticipation, list, convocatoria
  <2> QED BY <1>4, <2>1, <2>2, <2>3 DEF EditList
<1>5. ASSUME NEW g \in Games, EditConvocatoria(g) PROVE TypeOK'
  <2>1. ASSUME NEW discardEdits \in BOOLEAN, CreateConvocatoria(g, discardEdits)
        PROVE  TypeOK'
    <3>1. Candidates(g) \subseteq Members /\ Regulars(g) \subseteq Members
      BY DEF Candidates, Regulars, Guests, SignedUp, NamedGuests, Members
    <3>2. PICK calledUp \in SUBSET Candidates(g), mercy \in SUBSET Regulars(g),
               demoted \in SUBSET Regulars(g) :
            Select(g, SlotsNow(g), calledUp, mercy, demoted)
      BY <2>1 DEF CreateConvocatoria
    <3>3. playing' \in [Games -> SUBSET Members]
      BY <3>1, <3>2 DEF Select
    <3>4. outcome' \in [Games -> [Members -> Outcomes \union {None}]]
      BY <3>2 DEF Select, Labelled, Outcomes
    <3>5. NextPosition(position[g], "create") \in Positions
      BY <2>1, PositionType DEF CreateConvocatoria, Exists, GameActions
    <3>6. SlotsNow(g) \in Nat
      BY GameDayAssumption DEF SlotsNow
    <3> QED BY <2>1, <3>3, <3>4, <3>5, <3>6 DEF CreateConvocatoria, list
  <2>2. ASSUME Confirm(g) PROVE TypeOK'
    <3>1. NextPosition(position[g], "confirm") \in Positions
      BY <2>2, PositionType DEF Confirm, Exists, GameActions
    <3> QED BY <2>2, <3>1 DEF Confirm, list, convocatoria
  <2>3. ASSUME NEW m \in Members, MoveIn(g, m) \/ MoveOut(g, m) PROVE TypeOK'
    <3>1. playing[g] \union {m} \in SUBSET Members /\ playing[g] \ {m} \in SUBSET Members
      OBVIOUS
    <3>2. CASE MoveIn(g, m)
      BY <3>1, <3>2 DEF MoveIn, list
    <3>3. CASE MoveOut(g, m)
      BY <3>1, <3>3 DEF MoveOut, list
    <3> QED BY <2>3, <3>2, <3>3
  <2> QED BY <1>5, <2>1, <2>2, <2>3 DEF EditConvocatoria
<1>6. ASSUME NEW g \in Games, NEW action \in {"play", "reopen", "cancel", "uncancel"},
             ChangeState(g, action)
      PROVE  TypeOK'
  <2>1. NextPosition(position[g], action) \in Positions
    BY <1>6, PositionType DEF ChangeState, Exists, GameActions
  <2>2. CASE EnterPlayed(g)
    <3> DEFINE marked == SetPlayed(book, g, playing[g] \intersect Players)
    <3>1. marked \in Books
      BY SetPlayedType
    <3>2. HolderIn(g) \in [Members -> Players] /\ ShareCents[g] \in Cents
      BY HolderType, ShareCentsType
    <3>3. book' \in Books
      BY <2>2, <3>1, <3>2, BillType DEF EnterPlayed
    <3>4. exclusion' \in [Games -> [Players -> Exclusions \union {None}]]
      BY <2>2 DEF EnterPlayed, DerivedExclusions, ExclusionOf, Exclusions
    <3> QED BY <1>6, <2>1, <3>3, <3>4 DEF ChangeState, list, convocatoria
  <2>3. CASE LeavePlayed(g)
    <3>1. book' \in Books
      BY <2>3, SetPlayedType DEF LeavePlayed
    <3>2. exclusion' \in [Games -> [Players -> Exclusions \union {None}]]
      BY <2>3 DEF LeavePlayed, NoExclusions
    <3> QED BY <1>6, <2>1, <3>1, <3>2 DEF ChangeState, list, convocatoria
  <2>4. CASE UNCHANGED <<exclusion, book>>
    BY <1>6, <2>1, <2>4 DEF ChangeState, list, convocatoria
  <2> QED BY <1>6, <2>2, <2>3, <2>4 DEF ChangeState
<1>7. ASSUME NEW g \in Games, HandlePayments(g) PROVE TypeOK'
  <2>1. DebtsOf(book, g) \subseteq Debts /\ DebtsOf(book, g) \subseteq book.debts
        /\ PaymentsOf(book, g) \subseteq Payments
    BY DEF DebtsOf, PaymentsOf, Books
  <2>2. ASSUME NEW payer \in Players, NEW debts \in SUBSET DebtsOf(book, g),
               Pay(g, debts, payer)
        PROVE  TypeOK'
    <3>1. {PaymentOf(d, payer, d.amount, None) : d \in debts} \in SUBSET Payments
      BY <2>1 DEF PaymentOf, Payments, Debts
    <3>2. book' \in Books
      BY <2>2, <3>1, SettleType DEF Pay
    <3> QED BY <2>2, <3>2 DEF Pay, list, convocatoria
  <2>3. ASSUME NEW debt \in DebtsOf(book, g), NEW payer \in Players,
               NEW amount \in Adjustments, PayAdjusted(g, debt, payer, amount)
        PROVE  TypeOK'
    <3>1. {PaymentOf(debt, payer, amount, None)} \in SUBSET Payments
      BY <2>1, GameDayAssumption DEF PaymentOf, Payments, Debts
    <3>2. book' \in Books
      BY <2>3, <3>1, SettleType DEF PayAdjusted
    <3> QED BY <2>3, <3>2 DEF PayAdjusted, list, convocatoria
  <2>4. ASSUME NEW payment \in PaymentsOf(book, g), Undo(g, payment) PROVE TypeOK'
    <3>1. book' \in Books
      BY <2>1, <2>4, UnsettleType, ShareCentsType DEF Undo
    <3> QED BY <2>4, <3>1 DEF Undo, list, convocatoria
  <2>5. ASSUME NEW debt \in DebtsOf(book, g), NEW holder \in NewHolders,
               Reassign(g, debt, holder)
        PROVE  TypeOK'
    <3>1. book' \in Books
      BY <2>1, <2>5, SetHolderType, GameDayAssumption DEF Reassign
    <3> QED BY <2>5, <3>1 DEF Reassign, list, convocatoria
  <2> QED BY <1>7, <2>2, <2>3, <2>4, <2>5 DEF HandlePayments
<1>8. CASE UNCHANGED vars
  BY <1>8 DEF vars
<1> QED BY <1>1, <1>2, <1>3, <1>4, <1>5, <1>6, <1>7, <1>8 DEF Next

\* The tables always hold rows their schema accepts, whatever requests come in
\* and in whatever order.
THEOREM TypeCorrect == Spec => []TypeOK
<1>1. Init => TypeOK
  BY InitType
<1>2. TypeOK /\ [Next]_vars => TypeOK'
  BY NextType
<1> QED BY <1>1, <1>2, PTL DEF Spec

-----------------------------------------------------------------------------
(* A share is a debt or a payment, never both and never twice *)

\* Every request keeps each share in one table.
LEMMA NextKeepsOneTable == TypeOK /\ ShareInOneTable /\ [Next]_vars => ShareInOneTable'
<1> SUFFICES ASSUME TypeOK, ShareInOneTable, [Next]_vars PROVE OneTable(book')
  BY DEF ShareInOneTable, OneTable
<1>0. book \in Books /\ OneTable(book)
  BY DEF TypeOK, ShareInOneTable
<1>1. ASSUME book' = book PROVE OneTable(book')
  BY <1>0, <1>1
<1>2. ASSUME book'.debts = book.debts, book'.payments = book.payments PROVE OneTable(book')
  BY <1>0, <1>2 DEF OneTable
<1>3. ASSUME NEW g \in Games, DeleteGame(g) PROVE OneTable(book')
  BY <1>0, <1>3 DEF DeleteGame, Forget, OneTable
<1>4. ASSUME NEW g \in Games, EditList(g) PROVE OneTable(book')
  <2>1. ASSUME NEW signed \in SUBSET Players, NEW hosts, NEW extra,
               SaveList(g, signed, hosts, extra)
        PROVE  OneTable(book')
    BY <1>0, <1>2, <2>1, ParticipationsKeepMoney DEF SaveList
  <2>2. ASSUME NEW p, NEW signedUp, SetSignUp(g, p, signedUp) PROVE OneTable(book')
    BY <1>0, <1>2, <2>2, ParticipationsKeepMoney DEF SetSignUp
  <2>3. ASSUME NEW p, RemoveParticipation(g, p) PROVE OneTable(book')
    BY <1>0, <1>2, <2>3, ParticipationsKeepMoney DEF RemoveParticipation
  <2> QED BY <1>4, <2>1, <2>2, <2>3 DEF EditList
<1>5. ASSUME NEW g \in Games, NEW action, ChangeState(g, action) PROVE OneTable(book')
  <2>1. CASE EnterPlayed(g)
    <3> DEFINE marked == SetPlayed(book, g, playing[g] \intersect Players)
    <3>1. marked \in Books /\ marked.debts = book.debts /\ marked.payments = book.payments
      BY <1>0, SetPlayedType
    <3>2. OneTable(marked)
      BY <1>0, <3>1 DEF OneTable
    <3> QED BY <2>1, <3>1, <3>2, BillKeepsOneTable DEF EnterPlayed
  <2>2. CASE LeavePlayed(g)
    BY <1>0, <1>2, <2>2, SetPlayedType DEF LeavePlayed
  <2> QED BY <1>1, <1>5, <2>1, <2>2 DEF ChangeState
<1>6. ASSUME NEW g \in Games, HandlePayments(g) PROVE OneTable(book')
  <2>1. ASSUME NEW payer, NEW debts \in SUBSET DebtsOf(book, g), Pay(g, debts, payer)
        PROVE  OneTable(book')
    <3> DEFINE ps == {PaymentOf(d, payer, d.amount, None) : d \in debts}
    <3>1. \A p \in ps : \E d \in debts : p = PaymentOf(d, payer, d.amount, None)
                                         /\ SameShare(d, p)
      BY DEF PaymentOf, SameShare
    <3>2. debts \subseteq book.debts
      BY DEF DebtsOf
    <3>3. \A p, q \in ps : SameShare(p, q) => p = q
      BY <1>0, <3>1, <3>2 DEF OneTable, SameShare
    <3> QED BY <1>0, <2>1, <3>1, <3>2, <3>3, SettleKeepsOneTable DEF Pay
  <2>2. ASSUME NEW debt \in DebtsOf(book, g), NEW payer, NEW amount,
               PayAdjusted(g, debt, payer, amount)
        PROVE  OneTable(book')
    <3>1. SameShare(debt, PaymentOf(debt, payer, amount, None)) /\ debt \in book.debts
      BY DEF PaymentOf, SameShare, DebtsOf
    <3> QED BY <1>0, <2>2, <3>1, SettleKeepsOneTable DEF PayAdjusted
  <2>3. ASSUME NEW payment \in PaymentsOf(book, g), Undo(g, payment) PROVE OneTable(book')
    BY <1>0, <2>3, UnsettleKeepsOneTable DEF Undo, PaymentsOf
  <2>4. ASSUME NEW debt \in DebtsOf(book, g), NEW holder, Reassign(g, debt, holder)
        PROVE  OneTable(book')
    BY <1>0, <2>4, SetHolderKeepsOneTable DEF Reassign, DebtsOf
  <2> QED BY <1>6, <2>1, <2>2, <2>3, <2>4 DEF HandlePayments
<1>7. ASSUME NEW g \in Games, CreateGame(g) \/ EditConvocatoria(g) PROVE OneTable(book')
  BY <1>1, <1>7 DEF CreateGame, EditConvocatoria, CreateConvocatoria, Confirm, MoveIn, MoveOut
<1>8. ASSUME NEW s \in Seasons, EditSeason(s) PROVE OneTable(book')
  BY <1>1, <1>8 DEF EditSeason
<1>9. CASE UNCHANGED vars
  BY <1>1, <1>9 DEF vars
<1> QED BY <1>3, <1>4, <1>5, <1>6, <1>7, <1>8, <1>9 DEF Next

\* A share is never in debts and payments at once, nor twice in either, through
\* any sequence of plays, payments, undos, reopenings, cancellations and edits.
THEOREM SharesStayInOneTable == Spec => []ShareInOneTable
<1>1. Init => ShareInOneTable
  BY DEF Init, ShareInOneTable, OneTable, EmptyBook
<1>2. TypeOK /\ ShareInOneTable /\ [Next]_vars => ShareInOneTable'
  BY NextKeepsOneTable
<1> QED BY <1>1, <1>2, TypeCorrect, PTL DEF Spec

-----------------------------------------------------------------------------
(* A played or cancelled game is frozen *)

\* Going from one state to another, a game is played only by `play`, or by the
\* `uncancel` of a game that was cancelled as played.
LEMMA WaysToPlayed ==
    ASSUME TypeOK, NEW g \in Games, Exists(g), NEW action \in GameActions,
           CanPerform(position[g], action)
    PROVE  /\ NextPosition(position[g], action) \in Positions
           /\ NextPosition(position[g], action).status = Played =>
                \/ action = "play" /\ position[g] = At(Confirmed)
                \/ action = "uncancel" /\ position[g] = CancelledFrom(Played)
           /\ action \in {"create", "confirm"} =>
                position[g].status \in {Open, Created, Confirmed}
<1>1. position[g] \in Positions
  BY DEF TypeOK, Exists
<1>2. NextPosition(position[g], action) \in Positions
  BY <1>1, PositionType
<1>3. NextPosition(position[g], action).status = Played =>
        \/ action = "play" /\ position[g] = At(Confirmed)
        \/ action = "uncancel" /\ position[g] = CancelledFrom(Played)
  BY <1>1 DEF Positions, GameActions, CanPerform, NextPosition, LeavesFrom, Destination, At,
     CancelledFrom, LiveStates, NotCancelled, Open, Created, Confirmed, Played, Cancelled
<1>4. action \in {"create", "confirm"} => position[g].status \in {Open, Created, Confirmed}
  BY DEF CanPerform, LeavesFrom
<1> QED BY <1>2, <1>3, <1>4

\* What a request leaves alone of a game's list and convocatoria.
ListStays(g) ==
    /\ hostOf'[g] = hostOf[g] /\ plusOnes'[g] = plusOnes[g]
    /\ outcome'[g] = outcome[g] /\ playing'[g] = playing[g]
    /\ ruledSlots'[g] = ruledSlots[g]

\* The one fact behind the frozen games: a request that changes a game's list or its
\* convocatoria finds it open, created or confirmed, or deletes it.
LEMMA OnlyAliveListsChange ==
    ASSUME TypeOK, [Next]_vars, NEW h \in Games
    PROVE  \/ ListStays(h)
           \/ position[h].status \in {Open, Created, Confirmed}
           \/ position'[h] = NoGame
<1> USE DEF TypeOK
<1>1. ASSUME NEW g \in Games, CreateGame(g) PROVE ListStays(h)
  BY <1>1 DEF CreateGame, list, convocatoria, ListStays
<1>2. ASSUME NEW g \in Games, DeleteGame(g) PROVE ListStays(h) \/ position'[h] = NoGame
  BY <1>2 DEF DeleteGame, ListStays
<1>3. ASSUME NEW s \in Seasons, EditSeason(s) PROVE ListStays(h)
  BY <1>3 DEF EditSeason, list, convocatoria, ListStays
<1>4. ASSUME NEW g \in Games, EditList(g)
      PROVE  ListStays(h) \/ position[h].status \in {Open, Created, Confirmed}
  <2>1. ASSUME NEW signed, NEW hosts, NEW extra, SaveList(g, signed, hosts, extra)
        PROVE  ListStays(h) \/ position[h].status \in {Open, Created, Confirmed}
    BY <2>1 DEF SaveList, Require, Allows, AllowedIn, ListStays
  <2>2. ASSUME NEW p, NEW signedUp, SetSignUp(g, p, signedUp) PROVE ListStays(h)
    BY <2>2 DEF SetSignUp, list, convocatoria, ListStays
  <2>3. ASSUME NEW p, RemoveParticipation(g, p) PROVE ListStays(h)
    BY <2>3 DEF RemoveParticipation, list, convocatoria, ListStays
  <2> QED BY <1>4, <2>1, <2>2, <2>3 DEF EditList
<1>5. ASSUME NEW g \in Games, EditConvocatoria(g)
      PROVE  ListStays(h) \/ position[h].status \in {Open, Created, Confirmed}
  <2>1. ASSUME NEW discardEdits, CreateConvocatoria(g, discardEdits)
        PROVE  ListStays(h) \/ position[h].status \in {Open, Created, Confirmed}
    <3>1. position[g].status \in {Open, Created, Confirmed}
      BY <2>1 DEF CreateConvocatoria, CanPerform, LeavesFrom
    <3> QED BY <2>1, <3>1 DEF CreateConvocatoria, Select, list, ListStays
  <2>2. ASSUME Confirm(g) PROVE ListStays(h)
    BY <2>2 DEF Confirm, list, convocatoria, ListStays
  <2>3. ASSUME NEW m, MoveIn(g, m) \/ MoveOut(g, m)
        PROVE  ListStays(h) \/ position[h].status \in {Open, Created, Confirmed}
    BY <2>3 DEF MoveIn, MoveOut, Require, Allows, AllowedIn, list, ListStays
  <2> QED BY <1>5, <2>1, <2>2, <2>3 DEF EditConvocatoria
<1>6. ASSUME NEW g \in Games, NEW action, ChangeState(g, action) PROVE ListStays(h)
  BY <1>6 DEF ChangeState, list, convocatoria, ListStays
<1>7. ASSUME NEW g \in Games, HandlePayments(g) PROVE ListStays(h)
  BY <1>7 DEF HandlePayments, Pay, PayAdjusted, Undo, Reassign, list, convocatoria, ListStays
<1>8. CASE UNCHANGED vars
  BY <1>8 DEF vars, ListStays
<1> QED BY <1>1, <1>2, <1>3, <1>4, <1>5, <1>6, <1>7, <1>8 DEF Next

\* No request changes the list or the convocatoria of a game that is played or
\* cancelled before it and after it.
THEOREM PlayedGamesAreFrozen == Spec => FrozenOncePlayed
<1>1. TypeOK /\ [Next]_vars =>
        [\A g \in Games :
            /\ position[g].status \in {Played, Cancelled}
            /\ position'[g].status \in {Played, Cancelled}
            => /\ hostOf'[g] = hostOf[g] /\ plusOnes'[g] = plusOnes[g]
               /\ outcome'[g] = outcome[g] /\ playing'[g] = playing[g]
               /\ ruledSlots'[g] = ruledSlots[g]]_vars
  <2>1. ASSUME TypeOK, [Next]_vars, NEW g \in Games,
               position[g].status \in {Played, Cancelled},
               position'[g].status \in {Played, Cancelled}
        PROVE  ListStays(g)
    BY <2>1, OnlyAliveListsChange
       DEF NoGame, Open, Created, Confirmed, Played, Cancelled
  <2> QED BY <2>1 DEF ListStays
<1> QED BY <1>1, TypeCorrect, PTL DEF Spec, FrozenOncePlayed

-----------------------------------------------------------------------------
(* Attendance and exclusion points follow the game *)

\* What OutcomeFollowsTheGame says of one player in one game.
OutcomeOf(g, p) ==
    /\ <<g, p>> \in book.played <=> IsPlayed(g) /\ p \in playing[g]
    /\ exclusion[g][p] \in {"points", "demoted"}
         <=> IsPlayed(g) /\ HasEntry(g, p) /\ p \notin playing[g]
    /\ exclusion[g][p] = "mercy" => <<g, p>> \in book.played /\ outcome[g][p] = "mercy"

LEMMA OutcomeIsPointwise ==
    OutcomeFollowsTheGame <=> \A g \in Games, p \in Players : OutcomeOf(g, p)
BY DEF OutcomeFollowsTheGame, OutcomeOf

\* A request that leaves a game's marks, points and state, and a played game's
\* convocatoria, leaves its outcome true.
LEMMA OutcomeStays ==
    ASSUME NEW h \in Games, NEW p \in Players, OutcomeOf(h, p),
           <<h, p>> \in book'.played <=> <<h, p>> \in book.played,
           exclusion'[h][p] = exclusion[h][p],
           IsPlayed(h)' <=> IsPlayed(h),
           IsPlayed(h) => playing'[h] = playing[h] /\ outcome'[h] = outcome[h]
    PROVE  OutcomeOf(h, p)'
BY DEF OutcomeOf, HasEntry

\* Entering played marks who plays and scores who was left out.
LEMMA EnteringSetsTheOutcome ==
    ASSUME TypeOK, NEW g \in Games, NEW action, ChangeState(g, action), EnterPlayed(g),
           IsPlayed(g)', NEW p \in Players
    PROVE  OutcomeOf(g, p)'
<1> DEFINE attending == playing[g] \intersect Players
           marked    == SetPlayed(book, g, attending)
<1> USE DEF TypeOK
<1>1. playing' = playing /\ outcome' = outcome
  BY DEF ChangeState, convocatoria
<1>2. exclusion'[g][p] = IF HasEntry(g, p) THEN ExclusionOf(outcome[g][p], p \in playing[g])
                         ELSE None
  BY DEF EnterPlayed, DerivedExclusions
<1>3. marked \in Books
  BY SetPlayedType
<1>4. book'.played = marked.played
  BY <1>3, MoneyKeepsPlayed DEF EnterPlayed
<1>5. p \in attending <=> p \in playing[g]
  OBVIOUS
<1> HIDE DEF attending
<1>6. <<g, p>> \in marked.played <=> p \in attending
  BY MarksOfAGame
<1>7. <<g, p>> \in book'.played <=> p \in playing[g]
  BY <1>4, <1>5, <1>6
<1> QED BY <1>1, <1>2, <1>7 DEF OutcomeOf, HasEntry, ExclusionOf, None

\* A change of state leaves every other game's outcome, and its own as it should be.
LEMMA ChangeStateKeepsOutcome ==
    ASSUME TypeOK, OutcomeFollowsTheGame, NEW g \in Games, NEW action, ChangeState(g, action),
           NEW h \in Games, NEW p \in Players
    PROVE  OutcomeOf(h, p)'
<1> DEFINE next == NextPosition(position[g], action)
<1> USE DEF TypeOK
<1>1. /\ playing' = playing /\ outcome' = outcome
      /\ position'[g] = next /\ (h # g => position'[h] = position[h])
  BY DEF ChangeState, convocatoria
<1>2. OutcomeOf(h, p)
  BY OutcomeIsPointwise
<1>3. CASE ~IsPlayed(g) /\ next.status = Played /\ EnterPlayed(g)
  <2> DEFINE attending == playing[g] \intersect Players
             marked    == SetPlayed(book, g, attending)
  <2>1. CASE h = g
    BY <1>1, <1>3, <2>1, EnteringSetsTheOutcome DEF IsPlayed
  <2>2. CASE h # g
    <3>1. marked \in Books
      BY SetPlayedType
    <3>2. book'.played = marked.played
      BY <1>3, <3>1, MoneyKeepsPlayed DEF EnterPlayed
    <3> HIDE DEF attending
    <3>3. <<h, p>> \in marked.played <=> <<h, p>> \in book.played
      BY <2>2, MarksOfAGame
    <3>4. exclusion'[h] = exclusion[h]
      BY <1>3, <2>2 DEF EnterPlayed
    <3> QED BY <1>1, <1>2, <2>2, <3>2, <3>3, <3>4, OutcomeStays DEF IsPlayed
  <2> QED BY <2>1, <2>2
<1>4. CASE next.status # Played /\ LeavePlayed(g)
  <2>1. <<h, p>> \in book'.played <=> IF h = g THEN p \in {} ELSE <<h, p>> \in book.played
    BY <1>4, MarksOfAGame DEF LeavePlayed
  <2>2. CASE h = g
    <3>1. exclusion'[h][p] = None
      BY <1>4, <2>2 DEF LeavePlayed, NoExclusions
    <3> QED BY <1>1, <1>4, <2>1, <2>2, <3>1 DEF OutcomeOf, IsPlayed, None
  <2>3. CASE h # g
    <3>1. exclusion'[h] = exclusion[h]
      BY <1>4, <2>3 DEF LeavePlayed
    <3> QED BY <1>1, <1>2, <2>1, <2>3, <3>1, OutcomeStays DEF IsPlayed
  <2> QED BY <2>2, <2>3
<1>5. CASE ~IsPlayed(g) /\ next.status # Played /\ UNCHANGED <<exclusion, book>>
  <2>1. IsPlayed(h)' <=> IsPlayed(h)
    BY <1>1, <1>5 DEF IsPlayed
  <2> QED BY <1>1, <1>2, <1>5, <2>1, OutcomeStays
<1> QED BY <1>3, <1>4, <1>5 DEF ChangeState, IsPlayed

\* Every request keeps attendance and points with the game.
LEMMA NextKeepsOutcome ==
    TypeOK /\ OutcomeFollowsTheGame /\ [Next]_vars => OutcomeFollowsTheGame'
<1> SUFFICES ASSUME TypeOK, OutcomeFollowsTheGame, [Next]_vars,
                    NEW h \in Games, NEW p \in Players
             PROVE  OutcomeOf(h, p)'
  BY DEF OutcomeFollowsTheGame, OutcomeOf
<1> USE DEF TypeOK
<1>0. OutcomeOf(h, p)
  BY OutcomeIsPointwise
<1>1. ASSUME NEW g \in Games, CreateGame(g) PROVE OutcomeOf(h, p)'
  <2>1. IsPlayed(h)' <=> IsPlayed(h)
    BY <1>1 DEF CreateGame, Exists, NoGame, IsPlayed, At, Open, Played
  <2> QED BY <1>0, <1>1, <2>1, OutcomeStays DEF CreateGame, convocatoria
<1>2. ASSUME NEW g \in Games, DeleteGame(g) PROVE OutcomeOf(h, p)'
  <2>1. <<h, p>> \in book'.played <=> <<h, p>> \in book.played /\ h # g
    BY <1>2, MarksOfAGame DEF DeleteGame
  <2>2. CASE h = g
    <3>1. ~IsPlayed(h)' /\ exclusion'[h][p] = None
      BY <1>2, <2>2 DEF DeleteGame, IsPlayed, NoGame, Played, NoExclusions
    <3> QED BY <2>1, <2>2, <3>1 DEF OutcomeOf, None
  <2>3. CASE h # g
    BY <1>0, <1>2, <2>1, <2>3, OutcomeStays DEF DeleteGame, IsPlayed
  <2> QED BY <2>2, <2>3
<1>3. ASSUME NEW s \in Seasons, EditSeason(s) PROVE OutcomeOf(h, p)'
  BY <1>0, <1>3, OutcomeStays DEF EditSeason, convocatoria, IsPlayed
<1>4. ASSUME NEW g \in Games, EditList(g) PROVE OutcomeOf(h, p)'
  <2>1. ASSUME NEW signed, NEW hosts, NEW extra, SaveList(g, signed, hosts, extra)
        PROVE  OutcomeOf(h, p)'
    <3>1. book'.played = book.played
      BY <2>1, MoneyKeepsPlayed DEF SaveList
    <3>2. IsPlayed(h) => h # g
      BY <2>1 DEF SaveList, Require, Allows, AllowedIn, IsPlayed, Open, Created, Confirmed, Played
    <3>3. position' = position /\ playing' = playing /\ exclusion' = exclusion
      BY <2>1 DEF SaveList
    <3>4. IsPlayed(h) => outcome'[h] = outcome[h]
      BY <2>1, <3>2 DEF SaveList
    <3> QED BY <1>0, <3>1, <3>3, <3>4, OutcomeStays DEF IsPlayed
  <2>2. ASSUME NEW q, NEW signedUp, SetSignUp(g, q, signedUp) PROVE OutcomeOf(h, p)'
    <3>1. book'.played = book.played
      BY <2>2, MoneyKeepsPlayed DEF SetSignUp
    <3> QED BY <1>0, <2>2, <3>1, OutcomeStays DEF SetSignUp, convocatoria, IsPlayed
  <2>3. ASSUME NEW q, RemoveParticipation(g, q) PROVE OutcomeOf(h, p)'
    <3>1. IsPlayed(h) => h # g
      BY <2>3 DEF RemoveParticipation, Require, Allows, AllowedIn, IsPlayed,
                  Open, Created, Confirmed, Played
    <3>2. <<h, p>> \in book'.played <=> <<h, p>> \in book.played /\ <<h, p>> # <<g, q>>
      BY <2>3, MarksOfAGame DEF RemoveParticipation
    <3>3. <<h, p>> \in book'.played <=> <<h, p>> \in book.played
      BY <1>0, <3>1, <3>2 DEF OutcomeOf
    <3> QED BY <1>0, <2>3, <3>3, OutcomeStays DEF RemoveParticipation, convocatoria, IsPlayed
  <2> QED BY <1>4, <2>1, <2>2, <2>3 DEF EditList
<1>5. ASSUME NEW g \in Games, EditConvocatoria(g) PROVE OutcomeOf(h, p)'
  <2>1. book' = book /\ exclusion' = exclusion
    BY <1>5 DEF EditConvocatoria, CreateConvocatoria, Confirm, MoveIn, MoveOut
  <2>2. IsPlayed(h)' <=> IsPlayed(h)
    <3>1. ASSUME NEW action \in {"create", "confirm"}, CanPerform(position[g], action),
                 position' = [position EXCEPT ![g] = NextPosition(@, action)]
          PROVE  IsPlayed(h)' <=> IsPlayed(h)
      <4>1. position[g].status \in {Open, Created, Confirmed}
        BY <3>1 DEF CanPerform, LeavesFrom
      <4>2. NextPosition(position[g], action).status \in {Created, Confirmed}
        BY DEF NextPosition, Destination, At
      <4>3. position'[h] = IF h = g THEN NextPosition(position[g], action) ELSE position[h]
        BY <3>1
      <4> QED BY <4>1, <4>2, <4>3 DEF IsPlayed, Open, Created, Confirmed, Played
    <3>2. ASSUME position' = position PROVE IsPlayed(h)' <=> IsPlayed(h)
      BY <3>2 DEF IsPlayed
    <3> QED BY <1>5, <3>1, <3>2 DEF EditConvocatoria, CreateConvocatoria, Confirm, MoveIn, MoveOut
  <2>3. ListStays(h) \/ position[h].status \in {Open, Created, Confirmed} \/ position'[h] = NoGame
    BY <1>5, OnlyAliveListsChange DEF Next
  <2>4. IsPlayed(h) => playing'[h] = playing[h] /\ outcome'[h] = outcome[h]
    BY <2>2, <2>3 DEF IsPlayed, ListStays, NoGame, Open, Created, Confirmed, Played
  <2> QED BY <1>0, <2>1, <2>2, <2>4, OutcomeStays
<1>6. ASSUME NEW g \in Games, NEW action, ChangeState(g, action) PROVE OutcomeOf(h, p)'
  BY <1>6, ChangeStateKeepsOutcome
<1>7. ASSUME NEW g \in Games, HandlePayments(g) PROVE OutcomeOf(h, p)'
  <2>0. \/ \E ps : book' = Settle(book, ps)
        \/ \E ps, cents : book' = Unsettle(book, ps, cents)
        \/ \E d, holder : book' = SetHolder(book, d, holder)
    BY <1>7 DEF HandlePayments, Pay, PayAdjusted, Undo, Reassign
  <2>1. book'.played = book.played
    BY <2>0, MoneyKeepsPlayed
  <2>2. UNCHANGED <<position, convocatoria, exclusion>>
    BY <1>7 DEF HandlePayments, Pay, PayAdjusted, Undo, Reassign
  <2> QED BY <1>0, <2>1, <2>2, OutcomeStays DEF convocatoria, IsPlayed
<1>8. CASE UNCHANGED vars
  BY <1>0, <1>8, OutcomeStays DEF vars, IsPlayed
<1> QED BY <1>1, <1>2, <1>3, <1>4, <1>5, <1>6, <1>7, <1>8 DEF Next

\* Attendance and exclusion points exist exactly while their game is played, however
\* often it is played, reopened, cancelled, edited and played again.
THEOREM OutcomeIsTheGames == Spec => []OutcomeFollowsTheGame
<1>1. Init => OutcomeFollowsTheGame
  BY DEF Init, OutcomeFollowsTheGame, EmptyBook, NoGame, NoExclusions, IsPlayed, Played, None
<1>2. TypeOK /\ OutcomeFollowsTheGame /\ [Next]_vars => OutcomeFollowsTheGame'
  BY NextKeepsOutcome
<1> QED BY <1>1, <1>2, TypeCorrect, PTL DEF Spec

-----------------------------------------------------------------------------
(* Whoever plays in a played game is billed *)

\* Payments, undos and changes of holder are one of three operations of Shares,
\* on debts and payments the book has.
LEMMA WaysToHandlePayments ==
    ASSUME NEW g \in Games, HandlePayments(g)
    PROVE  /\ Require(g, "pay")
           /\ UNCHANGED <<position, list, convocatoria, exclusion, season>>
           /\ \/ \E debts \in SUBSET DebtsOf(book, g), payer \in Players :
                    book' = Settle(book, {PaymentOf(d, payer, d.amount, None) : d \in debts})
              \/ \E debt \in DebtsOf(book, g), payer \in Players, amount \in Adjustments :
                    book' = Settle(book, {PaymentOf(debt, payer, amount, None)})
              \/ \E payment \in PaymentsOf(book, g) :
                    book' = Unsettle(book, {payment}, ShareCents)
              \/ \E debt \in DebtsOf(book, g), holder \in NewHolders :
                    book' = SetHolder(book, debt, holder)
BY DEF HandlePayments, Pay, PayAdjusted, Undo, Reassign

\* Nobody stops being billed because of a payment, an undo or a change of holder.
LEMMA PaymentsKeepBilled ==
    ASSUME TypeOK, ShareInOneTable, NEW g \in Games, HandlePayments(g), NEW h \in Games, NEW m,
           m \in BilledMembers(book, h)
    PROVE  m \in BilledMembers(book', h)
<1>0. book \in Books /\ OneTable(book)
  BY DEF TypeOK, ShareInOneTable
<1>1. IsOwed(book, h, m) \/ IsPaid(book, h, m)
  BY BilledIsOwedOrPaid
<1>2. ASSUME NEW ps, book' = Settle(book, ps) PROVE IsOwed(book', h, m) \/ IsPaid(book', h, m)
  BY <1>0, <1>1, <1>2, SettleShares
<1>3. ASSUME NEW payment \in PaymentsOf(book, g), book' = Unsettle(book, {payment}, ShareCents)
      PROVE  IsOwed(book', h, m) \/ IsPaid(book', h, m)
  <2>1. {payment} \in SUBSET book.payments
    BY DEF PaymentsOf
  <2> QED BY <1>0, <1>1, <1>3, <2>1, UnsettleShares
<1>4. ASSUME NEW debt \in DebtsOf(book, g), NEW holder, book' = SetHolder(book, debt, holder)
      PROVE  IsOwed(book', h, m) \/ IsPaid(book', h, m)
  <2>1. debt \in book.debts
    BY DEF DebtsOf
  <2> QED BY <1>0, <1>1, <1>4, <2>1, SetHolderShares
<1>5. IsOwed(book', h, m) \/ IsPaid(book', h, m)
  BY <1>2, <1>3, <1>4, WaysToHandlePayments
<1> QED BY <1>5, BilledIsOwedOrPaid

\* The games whose playing members have to be billed: played, or cancelled as such.
MustBeBilled(g) == Played \in {position[g].status, position[g].cancelledFrom}

LEMMA BilledIsPointwise ==
    PlayedIsBilled <=> \A g \in Games : MustBeBilled(g) =>
                          \A m \in playing[g] : m \in BilledMembers(book, g)
BY DEF PlayedIsBilled, MustBeBilled

\* Entering played bills whoever plays and was not billed, and no other game.
LEMMA EnteringBills ==
    ASSUME TypeOK, ShareInOneTable, NEW g \in Games, EnterPlayed(g), NEW h \in Games, NEW m
    PROVE  /\ m \in playing[g] => m \in BilledMembers(book', g)
           /\ h # g => (m \in BilledMembers(book', h) <=> m \in BilledMembers(book, h))
           /\ IsPaid(book', h, m) <=> IsPaid(book, h, m)
           /\ IsOwed(book', g, m) <=> m \in playing[g] /\ ~IsPaid(book, g, m)
           /\ h # g => (IsOwed(book', h, m) <=> IsOwed(book, h, m))
<1> DEFINE attending == playing[g] \intersect Players
           marked    == SetPlayed(book, g, attending)
<1>0. book \in Books /\ OneTable(book) /\ attending \in SUBSET Players
  BY DEF TypeOK, ShareInOneTable
<1> HIDE DEF attending
<1>1. marked \in Books /\ marked.debts = book.debts /\ marked.payments = book.payments
  BY <1>0, SetPlayedType
<1>2. book' = Bill(marked, g, playing[g], HolderIn(g), ShareCents[g])
  BY DEF EnterPlayed, attending
<1>3. \A k : (IsOwed(marked, k, m) <=> IsOwed(book, k, m))
             /\ (IsPaid(marked, k, m) <=> IsPaid(book, k, m))
  BY <1>1 DEF IsOwed, IsPaid
<1>4. OneTable(marked)
  BY <1>0, <1>1 DEF OneTable
<1> HIDE DEF marked
<1>5. /\ IsPaid(book', h, m) <=> IsPaid(marked, h, m)
      /\ IsPaid(book', g, m) <=> IsPaid(marked, g, m)
      /\ h # g => (IsOwed(book', h, m) <=> IsOwed(marked, h, m))
      /\ IsOwed(book', g, m) <=> m \in playing[g] /\ ~IsPaid(marked, g, m)
  BY <1>1, <1>2, <1>4, BillShares
<1>6. /\ m \in BilledMembers(book', h) <=> IsOwed(book', h, m) \/ IsPaid(book', h, m)
      /\ m \in BilledMembers(book, h) <=> IsOwed(book, h, m) \/ IsPaid(book, h, m)
      /\ m \in BilledMembers(book', g) <=> IsOwed(book', g, m) \/ IsPaid(book', g, m)
  BY BilledIsOwedOrPaid
<1> QED BY <1>3, <1>5, <1>6

\* A game has to be billed after a change of state that does not enter played only if
\* it had to be before.
LEMMA LeavingOwesNothingNew ==
    ASSUME TypeOK, NEW g \in Games, Exists(g), NEW action \in GameActions,
           CanPerform(position[g], action),
           NextPosition(position[g], action).status # Played
    PROVE  Played = NextPosition(position[g], action).cancelledFrom =>
             position[g] = At(Played) /\ action = "cancel"
<1>1. position[g] \in Positions
  BY DEF TypeOK, Exists
<1> QED BY <1>1 DEF Positions, GameActions, CanPerform, NextPosition, LeavesFrom, Destination,
             At, CancelledFrom, LiveStates, NotCancelled, Open, Created, Confirmed, Played,
             Cancelled

\* Every request keeps the playing members of a played game billed.
LEMMA NextKeepsBilled ==
    TypeOK /\ ShareInOneTable /\ PlayedIsBilled /\ [Next]_vars => PlayedIsBilled'
<1> SUFFICES ASSUME TypeOK, ShareInOneTable, PlayedIsBilled, [Next]_vars,
                    NEW h \in Games, MustBeBilled(h)', NEW m \in playing'[h]
             PROVE  m \in BilledMembers(book', h)
  BY DEF PlayedIsBilled, MustBeBilled
<1> USE DEF TypeOK
<1>0. ASSUME MustBeBilled(h), playing'[h] = playing[h],
             m \in BilledMembers(book, h) => m \in BilledMembers(book', h)
      PROVE  m \in BilledMembers(book', h)
  BY <1>0, BilledIsPointwise
<1>1. MustBeBilled(h) => position[h].status \in {Played, Cancelled}
  <2>1. position[h] \in Positions \/ position[h] = NoGame
    OBVIOUS
  <2> QED BY <2>1 DEF MustBeBilled, Positions, At, CancelledFrom, NoGame, LiveStates,
                      NotCancelled, Open, Created, Confirmed, Played, Cancelled
<1>2. MustBeBilled(h) => playing'[h] = playing[h]
  <2>1. position'[h] # NoGame
    BY DEF MustBeBilled, NoGame, NotCancelled, Played
  <2>2. ListStays(h) \/ position[h].status \in {Open, Created, Confirmed}
    BY <2>1, OnlyAliveListsChange
  <2> QED BY <1>1, <2>2 DEF ListStays, Open, Created, Confirmed, Played, Cancelled
<1>3. ASSUME NEW g \in Games, CreateGame(g) PROVE m \in BilledMembers(book', h)
  BY <1>0, <1>2, <1>3 DEF CreateGame, MustBeBilled, At, Open, NotCancelled, Played
<1>4. ASSUME NEW g \in Games, DeleteGame(g) PROVE m \in BilledMembers(book', h)
  <2>1. h # g /\ MustBeBilled(h)
    BY <1>4 DEF DeleteGame, MustBeBilled, NoGame, NotCancelled, Played
  <2>2. m \in BilledMembers(book, h) => m \in BilledMembers(book', h)
    BY <1>4, <2>1 DEF DeleteGame, Forget, BilledMembers, DebtsOf, PaymentsOf
  <2> QED BY <1>0, <1>2, <2>1, <2>2
<1>5. ASSUME book'.debts = book.debts, book'.payments = book.payments, position'[h] = position[h]
      PROVE  m \in BilledMembers(book', h)
  BY <1>0, <1>2, <1>5 DEF BilledMembers, DebtsOf, PaymentsOf, MustBeBilled
<1>6. ASSUME NEW g \in Games, EditList(g) PROVE m \in BilledMembers(book', h)
  <2>1. ASSUME NEW signed \in SUBSET Players, NEW hosts, NEW extra,
               SaveList(g, signed, hosts, extra)
        PROVE  m \in BilledMembers(book', h)
    BY <1>5, <2>1, ParticipationsKeepMoney DEF SaveList
  <2>2. ASSUME NEW p, NEW signedUp, SetSignUp(g, p, signedUp)
        PROVE  m \in BilledMembers(book', h)
    BY <1>5, <2>2, ParticipationsKeepMoney DEF SetSignUp
  <2>3. ASSUME NEW p, RemoveParticipation(g, p) PROVE m \in BilledMembers(book', h)
    BY <1>5, <2>3, ParticipationsKeepMoney DEF RemoveParticipation
  <2> QED BY <1>6, <2>1, <2>2, <2>3 DEF EditList
<1>7. ASSUME NEW g \in Games, EditConvocatoria(g) PROVE m \in BilledMembers(book', h)
  <2>1. book' = book
    BY <1>7 DEF EditConvocatoria, CreateConvocatoria, Confirm, MoveIn, MoveOut
  <2>2. \/ position' = position
        \/ \E action \in {"create", "confirm"} :
              position' = [position EXCEPT ![g] = NextPosition(@, action)]
    BY <1>7 DEF EditConvocatoria, CreateConvocatoria, Confirm, MoveIn, MoveOut
  <2>3. \A action \in {"create", "confirm"} :
          /\ NextPosition(position[g], action).status # Played
          /\ NextPosition(position[g], action).cancelledFrom # Played
    BY DEF NextPosition, Destination, At, NotCancelled, Created, Confirmed, Played
  <2>4. position'[h] = position[h]
    BY <2>2, <2>3 DEF MustBeBilled
  <2> QED BY <1>5, <2>1, <2>4
<1>8. ASSUME NEW g \in Games, NEW action \in {"play", "reopen", "cancel", "uncancel"},
             ChangeState(g, action)
      PROVE  m \in BilledMembers(book', h)
  <2> DEFINE next == NextPosition(position[g], action)
  <2>1. /\ playing' = playing
        /\ position'[g] = next /\ (h # g => position'[h] = position[h])
        /\ Exists(g) /\ CanPerform(position[g], action) /\ action \in GameActions
    BY <1>8 DEF ChangeState, convocatoria, GameActions
  <2>2. CASE EnterPlayed(g)
    <3>1. CASE h = g
      BY <2>1, <2>2, <3>1, EnteringBills
    <3>2. CASE h # g
      <4>1. m \in BilledMembers(book, h) => m \in BilledMembers(book', h)
        BY <2>2, <3>2, EnteringBills
      <4> QED BY <1>0, <2>1, <3>2, <4>1 DEF MustBeBilled
    <3> QED BY <3>1, <3>2
  <2>3. CASE next.status # Played /\ (LeavePlayed(g) \/ UNCHANGED <<exclusion, book>>)
    <3>1. book'.debts = book.debts /\ book'.payments = book.payments
      BY <2>3, SetPlayedType DEF LeavePlayed
    <3>2. MustBeBilled(h)
      BY <2>1, <2>3, LeavingOwesNothingNew DEF MustBeBilled, At
    <3>3. m \in BilledMembers(book, h) => m \in BilledMembers(book', h)
      BY <3>1 DEF BilledMembers, DebtsOf, PaymentsOf
    <3> QED BY <1>0, <1>2, <3>2, <3>3
  <2> QED BY <1>8, <2>2, <2>3 DEF ChangeState
<1>9. ASSUME NEW g \in Games, HandlePayments(g) PROVE m \in BilledMembers(book', h)
  <2>1. position' = position
    BY <1>9, WaysToHandlePayments
  <2>2. m \in BilledMembers(book, h) => m \in BilledMembers(book', h)
    BY <1>9, PaymentsKeepBilled
  <2> QED BY <1>0, <1>2, <2>1, <2>2 DEF MustBeBilled
<1>10. ASSUME NEW s \in Seasons, EditSeason(s) PROVE m \in BilledMembers(book', h)
  BY <1>5, <1>10 DEF EditSeason
<1>11. CASE UNCHANGED vars
  BY <1>5, <1>11 DEF vars
<1> QED BY <1>3, <1>4, <1>6, <1>7, <1>8, <1>9, <1>10, <1>11 DEF Next

\* In a played game, and in one cancelled as played, whoever plays owes their share or
\* has paid it.
THEOREM PlayersAreBilled == Spec => []PlayedIsBilled
<1>1. Init => PlayedIsBilled
  BY DEF Init, PlayedIsBilled, NoGame, NotCancelled, Played
<1>2. TypeOK /\ ShareInOneTable /\ PlayedIsBilled /\ [Next]_vars => PlayedIsBilled'
  BY NextKeepsBilled
<1> QED BY <1>1, <1>2, TypeCorrect, SharesStayInOneTable, PTL DEF Spec

-----------------------------------------------------------------------------
(* A paid game is backed by a payment *)

LEMMA BackedIsPaidGameHasPayment == PaidGameHasPayment <=> PaidIsBacked(book)
BY DEF PaidGameHasPayment, PaidIsBacked

\* Every request keeps each paid game backed by a payment of its amount.
LEMMA NextKeepsBacked == TypeOK /\ PaidGameHasPayment /\ [Next]_vars => PaidGameHasPayment'
<1> SUFFICES ASSUME TypeOK, PaidIsBacked(book), [Next]_vars PROVE PaidIsBacked(book')
  BY DEF PaidGameHasPayment, PaidIsBacked
<1>0. book \in Books
  BY DEF TypeOK
<1>1. ASSUME book' = book PROVE PaidIsBacked(book')
  BY <1>1
<1>2. ASSUME NEW g \in Games, DeleteGame(g) PROVE PaidIsBacked(book')
  BY <1>0, <1>2, ForgetKeepsBacked DEF DeleteGame
<1>3. ASSUME NEW g \in Games, EditList(g) PROVE PaidIsBacked(book')
  <2>1. ASSUME NEW signed, NEW hosts, NEW extra, SaveList(g, signed, hosts, extra)
        PROVE  PaidIsBacked(book')
    BY <1>0, <2>1, ParticipationsKeepBacked DEF SaveList
  <2>2. ASSUME NEW p, NEW signedUp, SetSignUp(g, p, signedUp) PROVE PaidIsBacked(book')
    BY <1>0, <2>2, ParticipationsKeepBacked DEF SetSignUp
  <2>3. ASSUME NEW p \in EditedAlone, RemoveParticipation(g, p) PROVE PaidIsBacked(book')
    BY <1>0, <2>3, ParticipationsKeepBacked, GameDayAssumption DEF RemoveParticipation
  <2> QED BY <1>3, <2>1, <2>2, <2>3 DEF EditList
<1>4. ASSUME NEW g \in Games, NEW action, ChangeState(g, action) PROVE PaidIsBacked(book')
  <2>1. CASE EnterPlayed(g)
    <3> DEFINE attending == playing[g] \intersect Players
               marked    == SetPlayed(book, g, attending)
    <3>1. attending \in SUBSET Players
      OBVIOUS
    <3> HIDE DEF attending
    <3>2. marked \in Books /\ PaidIsBacked(marked)
      BY <1>0, <3>1, SetPlayedType, ParticipationsKeepBacked
    <3>3. book' = Bill(marked, g, playing[g], HolderIn(g), ShareCents[g])
      BY <2>1 DEF EnterPlayed, attending
    <3> HIDE DEF marked
    <3> QED BY <3>2, <3>3, ParticipationsKeepBacked
  <2>2. CASE LeavePlayed(g)
    BY <1>0, <2>2, ParticipationsKeepBacked DEF LeavePlayed
  <2> QED BY <1>1, <1>4, <2>1, <2>2 DEF ChangeState
<1>5. ASSUME NEW g \in Games, HandlePayments(g) PROVE PaidIsBacked(book')
  <2>1. DebtsOf(book, g) \subseteq Debts /\ PaymentsOf(book, g) \subseteq Payments
    BY <1>0 DEF DebtsOf, PaymentsOf, Books
  <2>2. ASSUME NEW debts \in SUBSET DebtsOf(book, g), NEW payer \in Players,
               book' = Settle(book, {PaymentOf(d, payer, d.amount, None) : d \in debts})
        PROVE  PaidIsBacked(book')
    <3>1. {PaymentOf(d, payer, d.amount, None) : d \in debts} \in SUBSET Payments
      BY <2>1 DEF PaymentOf, Payments, Debts
    <3> QED BY <1>0, <2>2, <3>1, SettleKeepsBacked
  <2>3. ASSUME NEW debt \in DebtsOf(book, g), NEW payer \in Players, NEW amount \in Adjustments,
               book' = Settle(book, {PaymentOf(debt, payer, amount, None)})
        PROVE  PaidIsBacked(book')
    <3>1. {PaymentOf(debt, payer, amount, None)} \in SUBSET Payments
      BY <2>1, GameDayAssumption DEF PaymentOf, Payments, Debts
    <3> QED BY <1>0, <2>3, <3>1, SettleKeepsBacked
  <2>4. ASSUME NEW payment, book' = Unsettle(book, {payment}, ShareCents)
        PROVE  PaidIsBacked(book')
    BY <1>0, <2>4, UnsettleKeepsBacked
  <2>5. ASSUME NEW debt, NEW holder, book' = SetHolder(book, debt, holder)
        PROVE  PaidIsBacked(book')
    BY <1>0, <2>5, ParticipationsKeepBacked
  <2> QED BY <1>5, <2>2, <2>3, <2>4, <2>5, WaysToHandlePayments
<1>6. ASSUME NEW g \in Games, CreateGame(g) \/ EditConvocatoria(g) PROVE PaidIsBacked(book')
  BY <1>1, <1>6 DEF CreateGame, EditConvocatoria, CreateConvocatoria, Confirm, MoveIn, MoveOut
<1>7. ASSUME NEW s \in Seasons, EditSeason(s) PROVE PaidIsBacked(book')
  BY <1>1, <1>7 DEF EditSeason
<1>8. CASE UNCHANGED vars
  BY <1>1, <1>8 DEF vars
<1> QED BY <1>2, <1>3, <1>4, <1>5, <1>6, <1>7, <1>8 DEF Next

\* A paid game, which counts as an attendance, always has the payment of that player's
\* share, of that amount.
THEOREM PaidGamesHavePayments == Spec => []PaidGameHasPayment
<1>1. Init => PaidGameHasPayment
  BY DEF Init, PaidGameHasPayment, EmptyBook
<1>2. TypeOK /\ PaidGameHasPayment /\ [Next]_vars => PaidGameHasPayment'
  BY NextKeepsBacked
<1> QED BY <1>1, <1>2, TypeCorrect, PTL DEF Spec

-----------------------------------------------------------------------------
(* Undoing the cancellation of a played game bills nothing *)

\* The step that takes a game cancelled as played back to played bills nobody: they
\* were billed, and nobody could be moved in meanwhile.
LEMMA UncancelFindsThemBilled ==
    ASSUME TypeOK, PlayedIsBilled, [Next]_vars, NEW g \in Games,
           position[g].cancelledFrom = Played, position'[g].status = Played
    PROVE  book'.debts \subseteq book.debts /\ book'.payments = book.payments
<1> USE DEF TypeOK
<1>0. position[g] = CancelledFrom(Played)
  <2>1. position[g] \in Positions \/ position[g] = NoGame
    OBVIOUS
  <2> QED BY <2>1 DEF Positions, At, CancelledFrom, NoGame, LiveStates, NotCancelled, Open,
                      Created, Confirmed, Played, Cancelled
<1>1. position'[g] # position[g]
  BY <1>0 DEF CancelledFrom, Played, Cancelled
<1>2. ASSUME NEW h \in Games, CreateGame(h) \/ DeleteGame(h) PROVE FALSE
  BY <1>1, <1>2 DEF CreateGame, DeleteGame, At, NoGame, Open, Played
<1>3. ASSUME NEW h \in Games, EditList(h) \/ HandlePayments(h) PROVE FALSE
  BY <1>1, <1>3, WaysToHandlePayments
     DEF EditList, SaveList, SetSignUp, RemoveParticipation
<1>4. ASSUME NEW h \in Games, EditConvocatoria(h) PROVE FALSE
  <2>1. \/ position' = position
        \/ \E action \in {"create", "confirm"} :
              position' = [position EXCEPT ![h] = NextPosition(@, action)]
    BY <1>4 DEF EditConvocatoria, CreateConvocatoria, Confirm, MoveIn, MoveOut
  <2>2. \A action \in {"create", "confirm"} :
          NextPosition(position[h], action).status # Played
    BY DEF NextPosition, Destination, At, Created, Confirmed, Played
  <2> QED BY <1>1, <2>1, <2>2
<1>5. ASSUME NEW h \in Games, NEW action \in {"play", "reopen", "cancel", "uncancel"},
             ChangeState(h, action)
      PROVE  book'.debts \subseteq book.debts /\ book'.payments = book.payments
  <2>1. h = g
    BY <1>1, <1>5 DEF ChangeState
  <2>2. EnterPlayed(g)
    BY <1>0, <1>5, <2>1 DEF ChangeState, CancelledFrom, Played, Cancelled
  <2> DEFINE attending == playing[g] \intersect Players
             marked    == SetPlayed(book, g, attending)
  <2>3. attending \in SUBSET Players /\ book \in Books
    OBVIOUS
  <2>4. playing[g] \subseteq BilledMembers(book, g)
    BY <1>0 DEF PlayedIsBilled, CancelledFrom
  <2> HIDE DEF attending
  <2>5. marked \in Books /\ marked.debts = book.debts /\ marked.payments = book.payments
    BY <2>3, SetPlayedType
  <2>6. book' = Bill(marked, g, playing[g], HolderIn(g), ShareCents[g])
    BY <2>2 DEF EnterPlayed, attending
  <2> HIDE DEF marked
  <2>7. BilledMembers(marked, g) = BilledMembers(book, g)
    BY <2>5 DEF BilledMembers, DebtsOf, PaymentsOf
  <2>8. playing[g] \ BilledMembers(marked, g) = {}
    BY <2>4, <2>7
  <2>9. /\ book'.payments = marked.payments
        /\ book'.debts = {d \in marked.debts : d.game = g => d.member \in playing[g]} \union
             {[game |-> g, member |-> m, holder |-> HolderIn(g)[m], amount |-> ShareCents[g]] :
                m \in playing[g] \ BilledMembers(marked, g)}
    BY <2>5, <2>6 DEF Bill, Books
  <2> QED BY <2>5, <2>8, <2>9
<1>6. ASSUME NEW s \in Seasons, EditSeason(s) PROVE FALSE
  BY <1>1, <1>6 DEF EditSeason
<1>7. CASE UNCHANGED vars
  BY <1>1, <1>7 DEF vars
<1> QED BY <1>2, <1>3, <1>4, <1>5, <1>6, <1>7 DEF Next

\* However a game was paid, undone and reassigned before it was cancelled, taking the
\* cancellation back bills nothing and touches no payment.
THEOREM UncancelIsFree == Spec => UncancelBillsNothing
<1>1. TypeOK /\ PlayedIsBilled /\ [Next]_vars =>
        [\A g \in Games :
            position[g].cancelledFrom = Played /\ position'[g].status = Played
            => /\ book'.debts \subseteq book.debts
               /\ book'.payments = book.payments]_vars
  BY UncancelFindsThemBilled
<1> QED BY <1>1, TypeCorrect, PlayersAreBilled, PTL DEF Spec, UncancelBillsNothing

-----------------------------------------------------------------------------
(* The tables keep the ledger's promise *)

\* What Ledger substitutes for its variables.
Taking      == {g \in Games : IsPlayed(g)}
ShareStages == [g \in Games |-> [m \in Members |-> StageOf(g, m)]]

LEMMA StageIsWhatTheBookSays ==
    ASSUME NEW g, NEW m
    PROVE  /\ StageOf(g, m) = "paid" <=> IsPaid(book, g, m)
           /\ StageOf(g, m) = "owed" <=> IsOwed(book, g, m) /\ ~IsPaid(book, g, m)
           /\ StageOf(g, m) = "unbilled" <=> ~IsOwed(book, g, m) /\ ~IsPaid(book, g, m)
           /\ StageOf(g, m) \in {"paid", "owed", "unbilled"}
BY DEF StageOf, IsPaid, IsOwed

\* The same of the book a step leaves.
LEMMA StageIsWhatTheBookWillSay ==
    ASSUME NEW g, NEW m
    PROVE  /\ StageOf(g, m)' = "paid" <=> IsPaid(book', g, m)
           /\ StageOf(g, m)' = "owed" <=> IsOwed(book', g, m) /\ ~IsPaid(book', g, m)
           /\ StageOf(g, m)' = "unbilled" <=> ~IsOwed(book', g, m) /\ ~IsPaid(book', g, m)
           /\ StageOf(g, m)' \in {"paid", "owed", "unbilled"}
BY DEF StageOf, IsPaid, IsOwed

\* A share of which the book says the same is at the same stage.
LEMMA SameStage ==
    ASSUME NEW g, NEW m, IsPaid(book', g, m) <=> IsPaid(book, g, m),
           IsOwed(book', g, m) <=> IsOwed(book, g, m)
    PROVE  StageOf(g, m)' = StageOf(g, m)
BY DEF StageOf, IsPaid, IsOwed

\* A step that changes the shares of one game changes one row of the ledger.
LEMMA OneRow ==
    ASSUME NEW g \in Games, NEW row, row = [m \in Members |-> row[m]],
           \A m \in Members : StageOf(g, m)' = row[m],
           \A h \in Games \ {g}, m \in Members : StageOf(h, m)' = StageOf(h, m)
    PROVE  ShareStages' = [ShareStages EXCEPT ![g] = row]
<1>1. ShareStages' = [h \in Games |-> [m \in Members |-> StageOf(h, m)']]
  BY DEF ShareStages
<1>2. \A h \in Games : [m \in Members |-> StageOf(h, m)']
                         = IF h = g THEN row ELSE [m \in Members |-> StageOf(h, m)]
  OBVIOUS
<1> QED BY <1>1, <1>2 DEF ShareStages

\* A step that leaves every share at its stage leaves the ledger's.
LEMMA NoRow ==
    ASSUME \A h \in Games, m \in Members : StageOf(h, m)' = StageOf(h, m)
    PROVE  ShareStages' = ShareStages
BY DEF ShareStages

\* Entering played starts the game in the ledger: it bills the playing members not
\* billed yet and drops what is owed by the rest.
LEMMA EnteringStarts ==
    ASSUME TypeOK, ShareInOneTable, NEW g \in Games, NEW action, ChangeState(g, action),
           EnterPlayed(g), ~IsPlayed(g), IsPlayed(g)'
    PROVE  \E billed, dropped \in SUBSET Members : Ledger!Start(g, billed, dropped)
<1> DEFINE billed  == {m \in playing[g] : StageOf(g, m) = "unbilled"}
           dropped == {m \in Members \ playing[g] : StageOf(g, m) = "owed"}
           row     == [m \in Members |-> IF m \in billed THEN "owed"
                                         ELSE IF m \in dropped THEN "unbilled"
                                         ELSE StageOf(g, m)]
<1>0. playing[g] \subseteq Members
  BY DEF TypeOK
<1>1. ASSUME NEW m \in Members PROVE StageOf(g, m)' = row[m]
  <2>1. /\ IsPaid(book', g, m) <=> IsPaid(book, g, m)
        /\ IsOwed(book', g, m) <=> m \in playing[g] /\ ~IsPaid(book, g, m)
    BY EnteringBills
  <2>2. /\ StageOf(g, m)' = "paid" <=> IsPaid(book, g, m)
        /\ StageOf(g, m)' = "owed" <=> m \in playing[g] /\ ~IsPaid(book, g, m)
        /\ StageOf(g, m)' \in {"paid", "owed", "unbilled"}
    BY <2>1, StageIsWhatTheBookWillSay
  <2>3. /\ StageOf(g, m) = "paid" <=> IsPaid(book, g, m)
        /\ StageOf(g, m) \in {"paid", "owed", "unbilled"}
    BY StageIsWhatTheBookSays
  <2> QED BY <1>0, <2>2, <2>3
<1>2. ASSUME NEW h \in Games \ {g}, NEW m \in Members PROVE StageOf(h, m)' = StageOf(h, m)
  BY EnteringBills, SameStage
<1>3. ShareStages' = [ShareStages EXCEPT ![g] = row]
  <2> HIDE DEF row
  <2>1. row = [m \in Members |-> row[m]]
    BY DEF row
  <2> QED BY <1>1, <1>2, <2>1, OneRow
<1>4. Taking' = Taking \union {g} /\ g \notin Taking
  <2>1. \A h \in Games \ {g} : IsPlayed(h)' <=> IsPlayed(h)
    BY DEF ChangeState, TypeOK, IsPlayed
  <2> QED BY <2>1 DEF Taking
<1>5. \A m \in Members : ShareStages[g][m] = StageOf(g, m)
  BY DEF ShareStages
<1>6. ShareStages[g] = [m \in Members |-> StageOf(g, m)]
  BY DEF ShareStages
<1>7. row = [m \in Members |-> IF m \in billed THEN "owed"
                               ELSE IF m \in dropped THEN "unbilled"
                               ELSE ShareStages[g][m]]
  BY <1>5
<1>8. Ledger!Start(g, billed, dropped)
  <2> HIDE DEF row
  <2>1. /\ \A m \in billed : ShareStages[g][m] = "unbilled"
        /\ \A m \in dropped : ShareStages[g][m] = "owed"
    BY <1>0, <1>5
  <2> HIDE DEF billed, dropped
  <2> QED BY <1>3, <1>4, <1>7, <2>1 DEF Ledger!Start, Taking, ShareStages
<1>9. billed \in SUBSET Members /\ dropped \in SUBSET Members
  BY <1>0
<1> QED BY <1>8, <1>9

\* Leaving played stops the game in the ledger and touches no share.
LEMMA LeavingStops ==
    ASSUME TypeOK, NEW g \in Games, NEW action, ChangeState(g, action), LeavePlayed(g),
           IsPlayed(g), ~IsPlayed(g)'
    PROVE  Ledger!Stop(g)
<1>1. book'.debts = book.debts /\ book'.payments = book.payments
  BY SetPlayedType DEF LeavePlayed, TypeOK
<1>2. ShareStages' = ShareStages
  BY <1>1, NoRow DEF StageOf
<1>3. Taking' = Taking \ {g} /\ g \in Taking
  <2>1. \A h \in Games \ {g} : IsPlayed(h)' <=> IsPlayed(h)
    BY DEF ChangeState, TypeOK, IsPlayed
  <2> QED BY <2>1 DEF Taking
<1> QED BY <1>2, <1>3 DEF Ledger!Stop, Taking, ShareStages

\* Deleting a game forgets it in the ledger.
LEMMA DeletingForgets ==
    ASSUME TypeOK, NEW g \in Games, DeleteGame(g)
    PROVE  Ledger!Forget(g)
<1> DEFINE row == [m \in Members |-> "unbilled"]
<1>1. ASSUME NEW h \in Games, NEW m \in Members
      PROVE  /\ IsOwed(book', h, m) <=> h # g /\ IsOwed(book, h, m)
             /\ IsPaid(book', h, m) <=> h # g /\ IsPaid(book, h, m)
  BY ForgetShares DEF DeleteGame
<1>2. \A m \in Members : StageOf(g, m)' = row[m]
  BY <1>1, StageIsWhatTheBookWillSay
<1>3. \A h \in Games \ {g}, m \in Members : StageOf(h, m)' = StageOf(h, m)
  BY <1>1, SameStage
<1>4. ShareStages' = [ShareStages EXCEPT ![g] = row]
  BY <1>2, <1>3, OneRow
<1>5. Taking' = Taking \ {g}
  <2>1. \A h \in Games : IsPlayed(h)' <=> h # g /\ IsPlayed(h)
    BY DEF DeleteGame, TypeOK, IsPlayed, NoGame, Played
  <2> QED BY <2>1 DEF Taking
<1> QED BY <1>4, <1>5 DEF Ledger!Forget, Taking, ShareStages

\* Settling owed shares of a played game pays them in the ledger.
LEMMA SettlingPays ==
    ASSUME TypeOK, ShareInOneTable, NEW g \in Games, IsPlayed(g), Taking' = Taking,
           NEW ps, \A p \in ps : p.game = g /\ p.member \in Members,
           \A p \in ps : IsOwed(book, g, p.member),
           book' = Settle(book, ps)
    PROVE  \E moved \in SUBSET Members : Ledger!Pay(g, moved)
<1> DEFINE moved == {m \in Members : IsAmong(ps, g, m)}
           row   == [m \in Members |-> IF m \in moved THEN "paid" ELSE StageOf(g, m)]
<1>0. book \in Books /\ OneTable(book)
  BY DEF TypeOK, ShareInOneTable
<1>1. ASSUME NEW h \in Games, NEW m \in Members
      PROVE  /\ IsOwed(book', h, m) <=> IsOwed(book, h, m) /\ ~IsAmong(ps, h, m)
             /\ IsPaid(book', h, m) <=> IsPaid(book, h, m) \/ IsAmong(ps, h, m)
  BY <1>0, SettleShares
<1>2. \A h \in Games \ {g}, m \in Members : ~IsAmong(ps, h, m)
  BY DEF IsAmong
<1>3. \A m \in moved : IsOwed(book, g, m) /\ ~IsPaid(book, g, m)
  <2>1. \A m \in moved : IsOwed(book, g, m)
    BY DEF IsAmong
  <2> QED BY <1>0, <2>1, OwedIsNotPaid
<1>4. ASSUME NEW m \in Members PROVE StageOf(g, m)' = row[m]
  <2>1. CASE m \in moved
    BY <1>1, <2>1, StageIsWhatTheBookWillSay
  <2>2. CASE m \notin moved
    BY <1>1, <2>2, SameStage
  <2> QED BY <2>1, <2>2
<1>5. \A h \in Games \ {g}, m \in Members : StageOf(h, m)' = StageOf(h, m)
  BY <1>1, <1>2, SameStage
<1>6. ShareStages' = [ShareStages EXCEPT ![g] = row]
  <2> HIDE DEF row
  <2>1. row = [m \in Members |-> row[m]]
    BY DEF row
  <2> QED BY <1>4, <1>5, <2>1, OneRow
<1>7. \A m \in Members : ShareStages[g][m] = StageOf(g, m)
  BY DEF ShareStages
<1>8. row = [m \in Members |-> IF m \in moved THEN "paid" ELSE ShareStages[g][m]]
  BY <1>7
<1>9. \A m \in moved : ShareStages[g][m] = "owed"
  BY <1>3, <1>7, StageIsWhatTheBookSays
<1>10. moved \in SUBSET Members /\ g \in Taking
  BY DEF Taking
<1> HIDE DEF row, moved
<1>11. Ledger!Step(g, "owed", "paid", moved)
  BY <1>6, <1>8, <1>9 DEF Ledger!Step, ShareStages
<1>12. Ledger!Pay(g, moved)
  BY <1>10, <1>11 DEF Ledger!Pay, Taking
<1> QED BY <1>10, <1>12

\* Undoing a payment of a played game brings its share back as owed in the ledger.
LEMMA UndoingOwes ==
    ASSUME TypeOK, ShareInOneTable, NEW g \in Games, IsPlayed(g), Taking' = Taking,
           NEW payment \in PaymentsOf(book, g),
           book' = Unsettle(book, {payment}, ShareCents)
    PROVE  \E moved \in SUBSET Members : Ledger!Undo(g, moved)
<1> DEFINE moved == {payment.member}
           row   == [m \in Members |-> IF m \in moved THEN "owed" ELSE StageOf(g, m)]
<1>0. book \in Books /\ OneTable(book) /\ {payment} \in SUBSET book.payments
      /\ payment.game = g /\ payment.member \in Members
  BY DEF TypeOK, ShareInOneTable, PaymentsOf, Books, Payments
<1>1. ASSUME NEW h \in Games, NEW m \in Members
      PROVE  /\ IsOwed(book', h, m) <=> IsOwed(book, h, m) \/ (h = g /\ m \in moved)
             /\ IsPaid(book', h, m) <=> IsPaid(book, h, m) /\ ~(h = g /\ m \in moved)
  <2>1. /\ IsOwed(book', h, m) <=> IsOwed(book, h, m) \/ IsAmong({payment}, h, m)
        /\ IsPaid(book', h, m) <=> IsPaid(book, h, m) /\ ~IsAmong({payment}, h, m)
    BY <1>0, UnsettleShares
  <2>2. IsAmong({payment}, h, m) <=> h = g /\ m \in moved
    BY <1>0 DEF IsAmong
  <2> QED BY <2>1, <2>2
<1>2. IsPaid(book, g, payment.member)
  BY <1>0 DEF IsPaid
<1>3. ASSUME NEW m \in Members PROVE StageOf(g, m)' = row[m]
  <2>1. CASE m \in moved
    BY <1>1, <2>1, StageIsWhatTheBookWillSay
  <2>2. CASE m \notin moved
    BY <1>1, <2>2, SameStage
  <2> QED BY <2>1, <2>2
<1>4. \A h \in Games \ {g}, m \in Members : StageOf(h, m)' = StageOf(h, m)
  BY <1>1, SameStage
<1>5. ShareStages' = [ShareStages EXCEPT ![g] = row]
  <2> HIDE DEF row
  <2>1. row = [m \in Members |-> row[m]]
    BY DEF row
  <2> QED BY <1>3, <1>4, <2>1, OneRow
<1>6. \A m \in Members : ShareStages[g][m] = StageOf(g, m)
  BY DEF ShareStages
<1>7. row = [m \in Members |-> IF m \in moved THEN "owed" ELSE ShareStages[g][m]]
  BY <1>6
<1>8. \A m \in moved : ShareStages[g][m] = "paid"
  BY <1>0, <1>2, <1>6, StageIsWhatTheBookSays
<1>9. moved \in SUBSET Members /\ g \in Taking
  BY <1>0 DEF Taking
<1> HIDE DEF row, moved
<1>10. Ledger!Step(g, "paid", "owed", moved)
  BY <1>5, <1>7, <1>8 DEF Ledger!Step, ShareStages
<1>11. Ledger!Undo(g, moved)
  BY <1>9, <1>10 DEF Ledger!Undo, Taking
<1> QED BY <1>9, <1>11

\* Every request is a step of the ledger, or changes no share of it.
LEMMA NextIsALedgerStep ==
    TypeOK /\ ShareInOneTable /\ [Next]_vars => [Ledger!Next]_(Ledger!vars)
<1> SUFFICES ASSUME TypeOK, ShareInOneTable, [Next]_vars
             PROVE  Ledger!Next \/ (Taking' = Taking /\ ShareStages' = ShareStages)
  BY DEF Ledger!vars, Taking, ShareStages
<1>0. book \in Books /\ OneTable(book)
  BY DEF TypeOK, ShareInOneTable
<1>1. ASSUME book'.debts = book.debts, book'.payments = book.payments
      PROVE  ShareStages' = ShareStages
  BY <1>1, NoRow DEF StageOf
<1>2. ASSUME position' = position PROVE Taking' = Taking
  BY <1>2 DEF Taking, IsPlayed
<1>3. ASSUME NEW g \in Games, CreateGame(g)
      PROVE  Taking' = Taking /\ ShareStages' = ShareStages
  <2>1. \A h \in Games : IsPlayed(h)' <=> IsPlayed(h)
    BY <1>3 DEF CreateGame, Exists, NoGame, At, Open, Played, IsPlayed, TypeOK
  <2> QED BY <1>1, <1>3, <2>1 DEF CreateGame, Taking
<1>4. ASSUME NEW g \in Games, DeleteGame(g) PROVE Ledger!Next
  BY <1>4, DeletingForgets DEF Ledger!Next
<1>5. ASSUME NEW s \in Seasons, EditSeason(s)
      PROVE  Taking' = Taking /\ ShareStages' = ShareStages
  BY <1>1, <1>2, <1>5 DEF EditSeason
<1>6. ASSUME NEW g \in Games, EditList(g)
      PROVE  Taking' = Taking /\ ShareStages' = ShareStages
  <2>1. ASSUME NEW signed, NEW hosts, NEW extra, SaveList(g, signed, hosts, extra)
        PROVE  Taking' = Taking /\ ShareStages' = ShareStages
    BY <1>0, <1>1, <1>2, <2>1, ParticipationsKeepMoney DEF SaveList
  <2>2. ASSUME NEW p, NEW signedUp, SetSignUp(g, p, signedUp)
        PROVE  Taking' = Taking /\ ShareStages' = ShareStages
    BY <1>0, <1>1, <1>2, <2>2, ParticipationsKeepMoney DEF SetSignUp
  <2>3. ASSUME NEW p, RemoveParticipation(g, p)
        PROVE  Taking' = Taking /\ ShareStages' = ShareStages
    BY <1>0, <1>1, <1>2, <2>3, ParticipationsKeepMoney DEF RemoveParticipation
  <2> QED BY <1>6, <2>1, <2>2, <2>3 DEF EditList
<1>7. ASSUME NEW g \in Games, EditConvocatoria(g)
      PROVE  Taking' = Taking /\ ShareStages' = ShareStages
  <2>1. book' = book
    BY <1>7 DEF EditConvocatoria, CreateConvocatoria, Confirm, MoveIn, MoveOut
  <2>2. CASE position' = position
    BY <1>1, <1>2, <2>1, <2>2
  <2>3. ASSUME NEW action \in {"create", "confirm"}, CanPerform(position[g], action),
               position' = [position EXCEPT ![g] = NextPosition(@, action)]
        PROVE  Taking' = Taking
    <3>1. position[g].status # Played
      BY <2>3 DEF CanPerform, LeavesFrom, Open, Created, Confirmed, Played
    <3>2. NextPosition(position[g], action).status # Played
      BY DEF NextPosition, Destination, At, Created, Confirmed, Played
    <3>3. \A h \in Games : IsPlayed(h)' <=> IsPlayed(h)
      BY <2>3, <3>1, <3>2 DEF IsPlayed, TypeOK
    <3> QED BY <3>3 DEF Taking
  <2> QED BY <1>1, <1>7, <2>1, <2>2, <2>3
          DEF EditConvocatoria, CreateConvocatoria, Confirm, MoveIn, MoveOut
<1>8. ASSUME NEW g \in Games, NEW action, ChangeState(g, action)
      PROVE  Ledger!Next \/ (Taking' = Taking /\ ShareStages' = ShareStages)
  <2> DEFINE next == NextPosition(position[g], action)
  <2>1. \A h \in Games : position'[h] = IF h = g THEN next ELSE position[h]
    BY <1>8 DEF ChangeState, TypeOK
  <2>2. CASE ~IsPlayed(g) /\ next.status = Played /\ EnterPlayed(g)
    <3>1. IsPlayed(g)'
      BY <2>1, <2>2 DEF IsPlayed
    <3> QED BY <1>8, <2>2, <3>1, EnteringStarts DEF Ledger!Next
  <2>3. CASE IsPlayed(g) /\ next.status # Played /\ LeavePlayed(g)
    <3>1. ~IsPlayed(g)'
      BY <2>1, <2>3 DEF IsPlayed
    <3> QED BY <1>8, <2>3, <3>1, LeavingStops DEF Ledger!Next
  <2>4. CASE ~IsPlayed(g) /\ next.status # Played /\ UNCHANGED <<exclusion, book>>
    <3>1. \A h \in Games : IsPlayed(h)' <=> IsPlayed(h)
      BY <2>1, <2>4 DEF IsPlayed
    <3> QED BY <1>1, <2>4, <3>1 DEF Taking
  <2> QED BY <1>8, <2>2, <2>3, <2>4 DEF ChangeState, IsPlayed
<1>9. ASSUME NEW g \in Games, HandlePayments(g)
      PROVE  Ledger!Next \/ (Taking' = Taking /\ ShareStages' = ShareStages)
  <2>0. Taking' = Taking /\ IsPlayed(g)
    BY <1>2, <1>9, WaysToHandlePayments
       DEF Require, Allows, AllowedIn, IsPlayed
  <2>1. \A d \in DebtsOf(book, g) : d \in book.debts /\ d.game = g /\ d.member \in Members
    BY <1>0 DEF DebtsOf, Books, Debts
  <2>2. ASSUME NEW debts \in SUBSET DebtsOf(book, g), NEW payer,
               book' = Settle(book, {PaymentOf(d, payer, d.amount, None) : d \in debts})
        PROVE  Ledger!Next
    <3> DEFINE ps == {PaymentOf(d, payer, d.amount, None) : d \in debts}
    <3>1. \A p \in ps : /\ p.game = g /\ p.member \in Members
                        /\ IsOwed(book, g, p.member)
      BY <2>1 DEF PaymentOf, IsOwed
    <3> HIDE DEF ps
    <3>2. book' = Settle(book, ps)
      BY <2>2 DEF ps
    <3>3. \E moved \in SUBSET Members : Ledger!Pay(g, moved)
      BY <2>0, <3>1, <3>2, SettlingPays
    <3> QED BY <3>3 DEF Ledger!Next
  <2>3. ASSUME NEW debt \in DebtsOf(book, g), NEW payer, NEW amount,
               book' = Settle(book, {PaymentOf(debt, payer, amount, None)})
        PROVE  Ledger!Next
    <3> DEFINE ps == {PaymentOf(debt, payer, amount, None)}
    <3>1. \A p \in ps : /\ p.game = g /\ p.member \in Members
                        /\ IsOwed(book, g, p.member)
      BY <2>1 DEF PaymentOf, IsOwed
    <3> HIDE DEF ps
    <3>2. book' = Settle(book, ps)
      BY <2>3 DEF ps
    <3>3. \E moved \in SUBSET Members : Ledger!Pay(g, moved)
      BY <2>0, <3>1, <3>2, SettlingPays
    <3> QED BY <3>3 DEF Ledger!Next
  <2>4. ASSUME NEW payment \in PaymentsOf(book, g),
               book' = Unsettle(book, {payment}, ShareCents)
        PROVE  Ledger!Next
    <3>1. \E moved \in SUBSET Members : Ledger!Undo(g, moved)
      BY <2>0, <2>4, UndoingOwes
    <3> QED BY <3>1 DEF Ledger!Next
  <2>5. ASSUME NEW debt \in DebtsOf(book, g), NEW holder,
               book' = SetHolder(book, debt, holder)
        PROVE  ShareStages' = ShareStages
    <3>1. \A h \in Games, m \in Members : StageOf(h, m)' = StageOf(h, m)
      BY <1>0, <2>1, <2>5, SetHolderShares, SameStage
    <3> QED BY <3>1, NoRow
  <2> QED BY <1>9, <2>0, <2>2, <2>3, <2>4, <2>5, WaysToHandlePayments
<1>10. CASE UNCHANGED vars
  BY <1>1, <1>2, <1>10 DEF vars
<1> QED BY <1>3, <1>4, <1>5, <1>6, <1>7, <1>8, <1>9, <1>10 DEF Next

\* GameDay implements ShareLedger: whatever tables keep a share and whatever is asked, it
\* goes from unbilled to owed to paid and back only as the ledger says, and takes payments
\* only while its game is played.
THEOREM TablesKeepTheLedger == Spec => KeepsTheLedger
<1>1. Init => Ledger!Init
  <2>1. ASSUME Init PROVE Taking = {}
    BY <2>1 DEF Init, Taking, IsPlayed, NoGame, Played
  <2>2. ASSUME Init PROVE \A g \in Games, m \in Members : StageOf(g, m) = "unbilled"
    BY <2>2 DEF Init, EmptyBook, StageOf
  <2> QED BY <2>1, <2>2 DEF Ledger!Init, Taking
<1>2. TypeOK /\ ShareInOneTable /\ [Next]_vars => [Ledger!Next]_(Ledger!vars)
  BY NextIsALedgerStep
<1> QED BY <1>1, <1>2, TypeCorrect, SharesStayInOneTable, PTL
        DEF Spec, KeepsTheLedger, Ledger!Spec

-----------------------------------------------------------------------------
(* The page that runs a game, of GameScreen *)

CONSTANTS Dated, Unrecorded, Deletable, Today, MaxEdits, MaxCalls, Habits, LosesAnswers, Nothing
VARIABLES server, listed, lists, chosen, detail, reads, calls, busy

Page == INSTANCE GameScreen WITH Games <- Dated, None <- Nothing

\* The organiser waits for what was asked, and every answer comes.
Waiting == Habits = {} /\ ~LosesAnswers

PageType ==
    /\ server \in [Dated -> Page!Stored \cup {Nothing}]
    /\ listed \in Page!Listing
    /\ lists \subseteq [slot : Nat, answered : BOOLEAN, rows : Page!Listing]
    /\ chosen \in Dated \cup {Nothing} /\ detail \in Page!Detail \cup {Nothing}
    /\ reads \subseteq Page!Read
    /\ calls \in [Page!Slots -> Page!Call \cup {Nothing}]

\* What is shown is stored so.
Fresh == detail # Nothing => detail = Page!View(detail.game)

\* A request is the only thing on its way; until it is done all that is shown is stored so,
\* and what it changes is read again before another.
CallFits(s) ==
    LET call == calls[s] IN
    /\ reads = {} /\ lists = {} /\ \A t \in Page!Slots : calls[t] # Nothing => t = s
    /\ call.kind \notin {"delete", "record"} =>
          detail # Nothing /\ call.game = chosen /\ call.back = chosen
    /\ call.kind = "record" => Fresh
    /\ call.stage = "sent" => Fresh /\ listed = Page!Listed
    /\ call.stage # "sent" /\ call.kind # "delete" => server[call.game] # Nothing
    /\ call.kind \in {"move", "pay", "save", "teams"} => listed = Page!Listed
    /\ call.stage \in {"reload", "answered"} => call.kind \notin {"delete", "record"}
    /\ call.stage = "answered" => call.view = Page!View(chosen)

\* The game shown is the one chosen, or that one, which exists, is being read.
PageInv ==
    /\ detail # Nothing => /\ chosen # Nothing
                           /\ detail.game = chosen \/ (server[chosen] # Nothing /\ reads # {})
    /\ \A r \in reads : r.game = chosen /\ (r.answered => r.view = Page!View(chosen))
    /\ \A l, m \in lists : l = m
    /\ \A l \in lists : l.answered => l.rows = Page!Listed
    /\ Page!NoCalls => Fresh /\ (lists = {} => listed = Page!Listed)
    /\ \A s \in Page!Slots : calls[s] # Nothing => CallFits(s)

\* A nonempty set of numbers has a least one, and a highest if it is finite (the library's
\* theorems take the property as an operator, which the provers cannot instantiate).
LEMMA LeastNumber ==
    ASSUME NEW T \in SUBSET Nat, T # {}
    PROVE  \E x \in T : \A y \in T : x <= y
<1> DEFINE R == OpToRel(<, Nat)
<1>1. \A x, y \in Nat : y < x => <<y, x>> \in R
  BY DEF OpToRel
<1>2. IsWellFoundedOn(R, Nat)
  BY NatLessThanWellFounded
<1> HIDE DEF R
<1>3. PICK x \in T : \A y \in T : ~(<<y, x>> \in R)
  BY <1>2, WFMin
<1>4. \A y \in T : ~(y < x)
  BY <1>1, <1>3
<1> QED BY <1>4

LEMMA HighestNumber ==
    ASSUME NEW S \in SUBSET Nat, IsFiniteSet(S), S # {}
    PROVE  \E m \in S : \A x \in S : m >= x
<1> DEFINE Low(T) == T # {} /\ ~ \E m \in T : \A x \in T : x <= m
           Sizes == {Cardinality(T) : T \in {U \in SUBSET S : Low(U)}}
<1>0. \A T \in SUBSET S : IsFiniteSet(T) /\ Cardinality(T) \in Nat
  BY FS_Subset, FS_CardinalityType
<1>1. Sizes = {}
  <2>1. SUFFICES ASSUME Sizes # {} PROVE FALSE
    OBVIOUS
  <2>2. PICK n \in Sizes : \A m \in Sizes : n <= m
    <3>1. Sizes \in SUBSET Nat
      BY <1>0
    <3> QED BY <2>1, <3>1, LeastNumber
  <2>3. PICK T \in SUBSET S : Low(T) /\ n = Cardinality(T)
    BY <2>2
  <2>4. PICK y \in T : TRUE
    BY <2>3
  <2> DEFINE U == T \ {y}
  <2>5. U \in SUBSET S /\ Cardinality(U) = n - 1 /\ n \in Nat
    BY <1>0, <2>3, <2>4, FS_RemoveElement
  <2>6. ~Low(U)
    <3>1. n - 1 < n
      BY <2>5
    <3>2. Low(U) => n - 1 \in Sizes
      BY <2>5
    <3> QED BY <2>2, <2>5, <3>1, <3>2
  <2>7. CASE U = {}
    BY <2>3, <2>4, <2>7
  <2>8. CASE U # {}
    <3>1. PICK m \in U : \A x \in U : x <= m
      BY <2>6, <2>8
    <3>2. m \in Nat /\ y \in Nat /\ T = U \cup {y}
      BY <2>4
    <3> QED BY <2>3, <3>1, <3>2
  <2> QED BY <2>7, <2>8
<1>2. ~Low(S)
  BY <1>1
<1>3. PICK m \in S : \A x \in S : x <= m
  BY <1>2
<1> QED BY <1>3

\* The game pinned is one of them, or none.
LEMMA DefaultIsAGame ==
    ASSUME Page!GameScreenAssumption, NEW rows
    PROVE  Page!DefaultGame(rows) \in Dated \cup {Nothing}
<1> DEFINE known    == {g \in Dated : rows[g] # "none"}
           upcoming == {g \in known : g >= Today /\ rows[g] # Page!Cancelled}
           waiting  == {g \in known : rows[g] \notin {Page!Played, Page!Cancelled}}
<1>1. upcoming \in SUBSET Nat /\ waiting \in SUBSET Nat /\ IsFiniteSet(waiting)
      /\ upcoming \subseteq Dated /\ waiting \subseteq Dated
  <2>1. Dated \subseteq Nat /\ IsFiniteSet(Dated)
    BY DEF Page!GameScreenAssumption, Page!IsFiniteSet, IsFiniteSet
  <2>2. upcoming \subseteq Dated /\ waiting \in SUBSET Dated
    OBVIOUS
  <2>3. IsFiniteSet(waiting)
    BY <2>1, <2>2, FS_Subset
  <2> QED BY <2>1, <2>2, <2>3
<1>2. upcoming # {} => Page!Min(upcoming) \in upcoming
  BY <1>1, LeastNumber DEF Page!Min
<1>3. waiting # {} => Page!Max(waiting) \in waiting
  BY <1>1, HighestNumber DEF Page!Max
<1>4. Page!DefaultGame(rows) \in upcoming \cup waiting \cup {Nothing}
  BY <1>2, <1>3 DEF Page!DefaultGame
<1> QED BY <1>1, <1>4

LEMMA ViewIsOfTheGame ==
    ASSUME Page!GameScreenAssumption, PageType, NEW g \in Dated
    PROVE  /\ server[g] = Nothing => Page!View(g) = Nothing
           /\ server[g] # Nothing =>
                 Page!View(g) \in Page!Detail /\ Page!View(g) # Nothing /\ Page!View(g).game = g
<1>1. CASE server[g] = Nothing
  BY <1>1 DEF Page!View
<1>2. CASE server[g] # Nothing
  <2>1. server[g].position.status \in Page!GameStates /\ server[g].edits \in 0..MaxEdits
    <3>1. server[g] \in Page!Stored
      BY <1>2 DEF PageType
    <3>2. \A p \in Page!Positions : p.status \in Page!GameStates
      BY DEF Page!Positions, Page!GameStates, Page!At, Page!CancelledFrom
    <3> QED BY <3>1, <3>2 DEF Page!Stored
  <2>2. Page!View(g) = [game |-> g, state |-> server[g].position.status,
                        edits |-> server[g].edits]
    BY <1>2 DEF Page!View, Page!GameScreenAssumption
  <2>3. Page!View(g) \in Page!Detail /\ Page!View(g).game = g
    BY <2>1, <2>2 DEF Page!Detail
  <2> QED BY <1>2, <2>3 DEF Page!GameScreenAssumption
<1> QED BY <1>1, <1>2

LEMMA ListedIsTyped ==
    ASSUME PageType PROVE Page!Listed \in Page!Listing
<1>1. \A p \in Page!Positions : p.status \in Page!GameStates
  BY DEF Page!Positions, Page!GameStates, Page!At, Page!CancelledFrom
<1>2. ASSUME NEW g \in Dated, server[g] # Nothing
      PROVE  server[g].position.status \in Page!GameStates
  BY <1>1, <1>2 DEF PageType, Page!Stored
<1> QED BY <1>2 DEF Page!Listed, Page!Listing

LEMMA SameServer ==
    ASSUME UNCHANGED server
    PROVE  Page!Listed' = Page!Listed /\ \A g : Page!View(g)' = Page!View(g)
  BY DEF Page!Listed, Page!View

\* What a request leaves stored.
LEMMA DoneIsStored ==
    ASSUME Page!GameScreenAssumption, PageType, NEW g \in Dated, NEW kind \in Page!Kinds,
           Page!Can(kind, g)
    PROVE  /\ Page!Done(kind, g) \in Page!Stored \cup {Nothing}
           /\ kind # "delete" => Page!Done(kind, g) # Nothing
           /\ kind \in {"move", "pay", "save", "teams"} =>
                 server[g] # Nothing /\ Page!Done(kind, g).position = server[g].position
           /\ kind = "record" => server[g] = Nothing
<1>0. Nothing \notin Page!Stored /\ MaxEdits \in Nat /\ Page!New \in Page!Stored
  BY DEF Page!GameScreenAssumption, Page!New, Page!Stored, Page!Positions, Page!At,
         Page!LiveStates, Page!Open
<1>1. CASE kind = "delete"
  BY <1>1 DEF Page!Done
<1>2. CASE kind = "record"
  <2>1. server[g] = Nothing
    BY <1>2 DEF Page!Can, Page!GameActions
  <2> QED BY <1>0, <1>2, <2>1 DEF Page!Done
<1>3. CASE kind \notin {"delete", "record"}
  <2>1. server[g] # Nothing /\ server[g] \in Page!Stored
    BY <1>3 DEF Page!Can, PageType
  <2>2. CASE kind \in Page!GameActions
    <3>1. Page!CanPerform(server[g].position, kind)
      BY <1>3, <2>1, <2>2 DEF Page!Can, Page!GameActions
    <3>2. \A p \in Page!Positions : Page!CanPerform(p, kind) =>
             Page!NextPosition(p, kind) \in Page!Positions
      BY <2>2
      DEF Page!Positions, Page!GameActions, Page!CanPerform, Page!NextPosition, Page!LeavesFrom,
          Page!Destination, Page!At, Page!CancelledFrom, Page!GameStates, Page!LiveStates,
          Page!NotCancelled, Page!Open, Page!Created, Page!Confirmed, Page!Played, Page!Cancelled
    <3>3. Page!NextPosition(server[g].position, kind) \in Page!Positions
      BY <2>1, <3>1, <3>2 DEF Page!Stored
    <3>4. Page!Done(kind, g) =
             [server[g] EXCEPT !.position = Page!NextPosition(server[g].position, kind)]
      BY <1>3, <2>2 DEF Page!Done
    <3>5. Page!Done(kind, g) \in Page!Stored
      BY <2>1, <3>3, <3>4 DEF Page!Stored
    <3> QED BY <1>0, <1>3, <2>2, <3>5 DEF Page!GameActions
  <2>3. CASE kind \notin Page!GameActions
    <3>1. Page!Done(kind, g) =
             [server[g] EXCEPT !.edits = IF server[g].edits < MaxEdits THEN server[g].edits + 1
                                         ELSE server[g].edits]
      BY <1>3, <2>3 DEF Page!Done
    <3>2. /\ Page!Done(kind, g) \in Page!Stored
          /\ Page!Done(kind, g).position = server[g].position
      BY <1>0, <2>1, <3>1 DEF Page!Stored
    <3> QED BY <1>0, <1>3, <2>1, <3>2
  <2> QED BY <2>2, <2>3
<1> QED BY <1>1, <1>2, <1>3

\* A change of game reads the new one, unless there is none.
LEMMA ChoosingReads ==
    ASSUME Page!GameScreenAssumption, PageType, NEW g \in Dated \cup {Nothing}, NEW rows,
           Page!Choose(g, rows)
    PROVE  /\ chosen' \in Dated \cup {Nothing} /\ reads' \subseteq Page!Read
           /\ g # Nothing => chosen' = g
           /\ chosen' = chosen => reads' = reads
           /\ chosen' # chosen =>
                 \/ chosen' = Nothing /\ reads' = {}
                 \/ reads' = {[game |-> chosen', answered |-> FALSE, view |-> Nothing]}
<1> DEFINE to == IF g = Nothing THEN Page!DefaultGame(rows) ELSE g
<1>1. to \in Dated \cup {Nothing}
  BY DefaultIsAGame
<1>2. chosen' = to /\ reads' = IF to = chosen THEN reads
                               ELSE IF to = Nothing THEN {}
                               ELSE {[game |-> to, answered |-> FALSE, view |-> Nothing]}
  BY DEF Page!Choose
<1>3. \A x \in Dated : [game |-> x, answered |-> FALSE, view |-> Nothing] \in Page!Read
  BY DEF Page!Read
<1> HIDE DEF to
<1>4. reads' \subseteq Page!Read
  BY <1>1, <1>2, <1>3 DEF PageType
<1>5. g # Nothing => to = g
  BY DEF to
<1> QED BY <1>1, <1>2, <1>4, <1>5

\* With a request on its way the rest of the page waits for it.
LEMMA CallIsAlone ==
    ASSUME PageInv, NEW s \in Page!Slots, calls[s] # Nothing
    PROVE  /\ reads = {} /\ lists = {} /\ \A t \in Page!Slots : t # s => calls[t] = Nothing
           /\ CallFits(s) /\ (detail # Nothing => detail.game = chosen /\ chosen # Nothing)
  BY DEF PageInv, CallFits

\* TypeOK, with the choice read once said without a cardinality.
PageTyped ==
    /\ PageType /\ \A l \in lists : l.slot \in Page!Slots
    /\ \A q, r \in reads : q = r
    /\ busy => \E s \in Page!Slots : calls[s] # Nothing /\ calls[s].kind \in Page!Moves

LEMMA AskedIsTyped ==
    ASSUME PageTyped, NEW kind \in Page!Kinds, NEW g \in Dated, NEW back \in Dated \cup {Nothing},
           Page!GameScreenAssumption, Page!Ask(kind, g, back),
           UNCHANGED <<server, listed, lists, chosen, detail, reads>>,
           busy' => busy \/ kind \in Page!Moves
    PROVE  PageTyped'
<1> DEFINE call == [kind |-> kind, game |-> g, back |-> back, stage |-> "sent", view |-> Nothing]
<1>1. PICK s \in Page!Slots : calls[s] = Nothing /\ calls' = [calls EXCEPT ![s] = call]
  BY DEF Page!Ask
<1>2. call \in Page!Call /\ call.kind = kind
  BY DEF Page!Call
<1> HIDE DEF call
<1>3. PageType' /\ \A t \in Page!Slots : t # s => calls'[t] = calls[t]
  BY <1>1, <1>2 DEF PageTyped, PageType
<1>4. calls'[s] = call /\ call # Nothing
  BY <1>1, <1>2 DEF PageTyped, PageType, Page!GameScreenAssumption
<1> QED BY <1>1, <1>2, <1>3, <1>4 DEF PageTyped

LEMMA StageIsTyped ==
    ASSUME PageTyped, NEW s \in Page!Slots, NEW call \in Page!Call, call # Nothing,
           calls[s] # Nothing, call.kind = calls[s].kind, calls' = [calls EXCEPT ![s] = call],
           server' \in [Dated -> Page!Stored \cup {Nothing}],
           UNCHANGED <<listed, lists, chosen, detail, reads, busy>>
    PROVE  PageTyped'
<1>1. PageType' /\ calls'[s] = call /\ \A t \in Page!Slots : t # s => calls'[t] = calls[t]
  BY DEF PageTyped, PageType
<1> QED BY <1>1 DEF PageTyped

LEMMA OverIsTyped ==
    ASSUME PageTyped, NEW s \in Page!Slots, calls[s] # Nothing,
           calls' = [calls EXCEPT ![s] = Nothing], UNCHANGED <<server, listed>>,
           chosen' \in Dated \cup {Nothing}, detail' \in Page!Detail \cup {Nothing},
           reads' \subseteq Page!Read, \A q, r \in reads' : q = r,
           Page!AskList \/ UNCHANGED lists, busy' => busy /\ calls[s].kind \notin Page!Moves
    PROVE  PageTyped'
<1>1. ASSUME Page!AskList
      PROVE  /\ lists' \subseteq [slot : Nat, answered : BOOLEAN, rows : Page!Listing]
             /\ \A l \in lists' : l.slot \in Page!Slots
  <2>1. PICK t \in Page!Slots :
           lists' = lists \cup {[slot |-> t, answered |-> FALSE, rows |-> Page!NoRows]}
    BY <1>1 DEF Page!AskList
  <2> DEFINE only == [slot |-> t, answered |-> FALSE, rows |-> Page!NoRows]
  <2>2. only \in [slot : Nat, answered : BOOLEAN, rows : Page!Listing] /\ only.slot = t
    BY DEF Page!NoRows, Page!Listing, Page!Slots
  <2>3. lists' = lists \cup {only}
    BY <2>1
  <2> HIDE DEF only
  <2> QED BY <2>2, <2>3 DEF PageTyped, PageType
<1>2. /\ lists' \subseteq [slot : Nat, answered : BOOLEAN, rows : Page!Listing]
      /\ \A l \in lists' : l.slot \in Page!Slots
  BY <1>1 DEF PageTyped, PageType
<1>3. PageType' /\ \A t \in Page!Slots : t # s => calls'[t] = calls[t]
  BY <1>2 DEF PageTyped, PageType
<1> QED BY <1>2, <1>3 DEF PageTyped

\* A change of game leaves one read at most.
LEMMA ChosenIsTyped ==
    ASSUME Page!GameScreenAssumption, PageTyped, NEW g \in Dated \cup {Nothing}, NEW rows,
           Page!Choose(g, rows)
    PROVE  /\ chosen' \in Dated \cup {Nothing} /\ reads' \subseteq Page!Read
           /\ \A q, r \in reads' : q = r
<1> DEFINE only == [game |-> chosen', answered |-> FALSE, view |-> Nothing]
<1>1. chosen' \in Dated \cup {Nothing} /\ reads' \subseteq Page!Read
  BY ChoosingReads DEF PageTyped
<1>2. reads' = reads \/ reads' = {} \/ reads' = {only}
  BY ChoosingReads DEF PageTyped
<1> HIDE DEF only
<1> QED BY <1>1, <1>2 DEF PageTyped

LEMMA PressIsTyped ==
    ASSUME Page!GameScreenAssumption, PageTyped, Page!Press
    PROVE  PageTyped'
<1>1. chosen \in Dated \cup {Nothing} /\ (detail # Nothing => detail.game \in Dated)
  BY DEF PageTyped, PageType, Page!Detail
<1>2. ASSUME NEW g \in Dated, Page!Select(g) PROVE PageTyped'
  <2>1. Page!Choose(g, listed) /\ UNCHANGED <<server, listed, lists, detail, calls, busy>>
    BY <1>2 DEF Page!Select
  <2>2. /\ chosen' \in Dated \cup {Nothing} /\ reads' \subseteq Page!Read
        /\ \A q, r \in reads' : q = r
    BY <2>1, ChosenIsTyped
  <2> QED BY <2>1, <2>2 DEF PageTyped, PageType
<1>3. ASSUME NEW g \in Dated, Page!RecordGame(g) PROVE PageTyped'
  BY <1>3, AskedIsTyped DEF Page!RecordGame, Page!Kinds
<1>4. ASSUME NEW kind \in Page!GameActions \cup {"delete"}, Page!PressBar(kind) PROVE PageTyped'
  BY <1>1, <1>4, AskedIsTyped DEF Page!PressBar, Page!Kinds, Page!Moves
<1>5. ASSUME Page!MoveMember \/ Page!DragMember PROVE PageTyped'
  BY <1>1, <1>5, AskedIsTyped DEF Page!MoveMember, Page!DragMember, Page!Kinds, Page!Moves
<1>6. ASSUME Page!PayShare PROVE PageTyped'
  BY <1>1, <1>6, AskedIsTyped DEF Page!PayShare, Page!CanEdit, Page!Kinds
<1>7. ASSUME NEW kind \in {"save", "teams"}, Page!SaveBelow(kind) PROVE PageTyped'
  BY <1>1, <1>7, AskedIsTyped DEF Page!SaveBelow, Page!CanEdit, Page!Kinds
<1> QED BY <1>2, <1>3, <1>4, <1>5, <1>6, <1>7 DEF Page!Press

\* The stages of a request, lost or not.
LEMMA CallIsTyped ==
    ASSUME Page!GameScreenAssumption, PageTyped, NEW s \in Page!Slots,
           Page!OfCall(s) \/ Page!LoseReload(s)
    PROVE  PageTyped'
<1> DEFINE call == calls[s]
<1>1. call # Nothing /\ call \in Page!Call /\ call.game \in Dated /\ call.kind \in Page!Kinds
      /\ call.back \in Dated \cup {Nothing} /\ call.view \in Page!Detail \cup {Nothing}
  <2>1. call # Nothing
    BY DEF Page!OfCall, Page!Perform, Page!Refuse, Page!Reload, Page!AnswerReload,
           Page!EndReload, Page!EndDelete, Page!EndRecord, Page!LoseReload
  <2> QED BY <2>1 DEF PageTyped, PageType, Page!Call
<1>2. PageType
  BY DEF PageTyped
<1>3. \A g \in Dated \cup {Nothing} : Page!View(g) \in Page!Detail \cup {Nothing}
  BY <1>2, ViewIsOfTheGame DEF Page!View
<1>4. Page!FreeBusy(call.kind) => busy /\ call.kind \notin Page!Moves
  BY DEF Page!FreeBusy
<1>5. /\ chosen \in Dated \cup {Nothing} /\ detail \in Page!Detail \cup {Nothing}
      /\ reads \subseteq Page!Read /\ \A q, r \in reads : q = r
  BY DEF PageTyped, PageType
<1>6. ASSUME NEW next \in Page!Call, next.kind = call.kind, calls' = [calls EXCEPT ![s] = next],
             server' \in [Dated -> Page!Stored \cup {Nothing}],
             UNCHANGED <<listed, lists, chosen, detail, reads, busy>>
      PROVE  PageTyped'
  BY <1>1, <1>6, StageIsTyped DEF Page!GameScreenAssumption
<1>7. CASE Page!Perform(s)
  <2> DEFINE next == [call EXCEPT !.stage = "done"]
  <2>1. next \in Page!Call /\ next.kind = call.kind
    BY <1>1 DEF Page!Call
  <2>2. Page!Done(call.kind, call.game) \in Page!Stored \cup {Nothing}
    BY <1>1, <1>2, <1>7, DoneIsStored DEF Page!Perform
  <2>3. server' \in [Dated -> Page!Stored \cup {Nothing}]
    BY <1>2, <1>7, <2>2 DEF Page!Perform, PageType
  <2> QED BY <1>6, <1>7, <2>1, <2>3 DEF Page!Perform
<1>8. CASE Page!Reload(s)
  <2> DEFINE next == [call EXCEPT !.stage = "reload"]
  <2>1. next \in Page!Call /\ next.kind = call.kind
    BY <1>1 DEF Page!Call
  <2> QED BY <1>2, <1>6, <1>8, <2>1 DEF Page!Reload, PageType
<1>9. CASE Page!AnswerReload(s)
  <2> DEFINE next == [call EXCEPT !.stage = "answered", !.view = Page!View(call.back)]
  <2>1. next \in Page!Call /\ next.kind = call.kind
    BY <1>1, <1>3 DEF Page!Call
  <2> QED BY <1>2, <1>6, <1>9, <2>1 DEF Page!AnswerReload, PageType
<1>10. CASE Page!Refuse(s)
  BY <1>1, <1>4, <1>5, <1>10, OverIsTyped DEF Page!Refuse
<1>11. ASSUME NEW view \in Page!Detail \cup {Nothing}, Page!ShowReload(s, view) PROVE PageTyped'
  <2>1. detail' \in Page!Detail \cup {Nothing}
    BY <1>5, <1>11 DEF Page!ShowReload, Page!Shown
  <2> QED BY <1>1, <1>4, <1>5, <1>11, <2>1, OverIsTyped DEF Page!ShowReload
<1>12. CASE Page!EndReload(s)
  BY <1>1, <1>11, <1>12 DEF Page!EndReload
<1>13. CASE Page!LoseReload(s)
  BY <1>11, <1>13 DEF Page!LoseReload
<1>14. CASE Page!EndDelete(s)
  <2>1. /\ chosen' \in Dated \cup {Nothing} /\ reads' \subseteq Page!Read
        /\ \A q, r \in reads' : q = r
    BY <1>14, ChosenIsTyped DEF Page!EndDelete
  <2>2. call.kind \notin Page!Moves
    BY <1>14 DEF Page!EndDelete, Page!Moves, Page!GameActions
  <2> QED BY <1>1, <1>14, <2>1, <2>2, OverIsTyped DEF Page!EndDelete
<1>15. CASE Page!EndRecord(s)
  <2>1. /\ chosen' \in Dated \cup {Nothing} /\ reads' \subseteq Page!Read
        /\ \A q, r \in reads' : q = r
    BY <1>1, <1>15, ChosenIsTyped DEF Page!EndRecord
  <2>2. call.kind \notin Page!Moves
    BY <1>15 DEF Page!EndRecord, Page!Moves, Page!GameActions
  <2> QED BY <1>1, <1>5, <1>15, <2>1, <2>2, OverIsTyped DEF Page!EndRecord
<1> QED BY <1>7, <1>8, <1>9, <1>10, <1>12, <1>13, <1>14, <1>15 DEF Page!OfCall

LEMMA PageAtFirst ==
    ASSUME Page!GameScreenAssumption, Page!Init PROVE PageType /\ PageInv
<1>1. Page!New \in Page!Stored
  BY DEF Page!GameScreenAssumption, Page!New, Page!Stored, Page!Positions, Page!At,
         Page!LiveStates, Page!Open
<1>2. Page!NoRows \in Page!Listing
  BY DEF Page!NoRows, Page!Listing
<1>3. /\ server = [g \in Dated |-> IF g \in Unrecorded THEN Nothing ELSE Page!New]
      /\ listed = Page!NoRows /\ lists = {[slot |-> 1, answered |-> FALSE, rows |-> Page!NoRows]}
      /\ chosen = Nothing /\ detail = Nothing /\ reads = {}
      /\ calls = [s \in Page!Slots |-> Nothing]
  BY DEF Page!Init
<1>4. PageType
  <2>1. server \in [Dated -> Page!Stored \cup {Nothing}]
    BY <1>1, <1>3
  <2>2. lists \subseteq [slot : Nat, answered : BOOLEAN, rows : Page!Listing]
    BY <1>2, <1>3
  <2>3. calls \in [Page!Slots -> Page!Call \cup {Nothing}]
    BY <1>3
  <2> QED BY <1>2, <1>3, <2>1, <2>2, <2>3 DEF PageType
<1>5. PageInv
  <2>1. \A l, m \in lists : l = m /\ ~l.answered
    <3> DEFINE only == [slot |-> 1, answered |-> FALSE, rows |-> Page!NoRows]
    <3>1. lists = {only} /\ only.answered = FALSE
      BY <1>3
    <3> HIDE DEF only
    <3> QED BY <3>1
  <2>2. lists # {} /\ Fresh
    BY <1>3 DEF Fresh
  <2>3. \A s \in Page!Slots : calls[s] = Nothing
    BY <1>3
  <2> QED BY <1>3, <2>1, <2>2, <2>3 DEF PageInv
<1> QED BY <1>4, <1>5

\* The reads of the game and of the season's list, lost or not.
LEMMA AnswerIsTyped ==
    ASSUME Page!GameScreenAssumption, PageTyped,
           \/ \E r \in reads : Page!AnswerRead(r) \/ Page!ShowRead(r) \/ Page!LoseRead(r)
           \/ \E l \in lists : Page!AnswerList(l) \/ Page!ShowList(l) \/ Page!LoseList(l)
    PROVE  PageTyped'
<1>1. /\ PageType /\ UNCHANGED <<server, calls, busy>> /\ \A q, r \in reads : q = r
      /\ reads \subseteq Page!Read /\ chosen \in Dated \cup {Nothing}
      /\ \A l \in lists : l.slot \in Page!Slots
  BY DEF PageTyped, PageType, Page!AnswerRead, Page!ShowRead, Page!LoseRead, Page!AnswerList,
         Page!ShowList, Page!LoseList
<1>2. ASSUME UNCHANGED <<listed, lists, chosen>>, detail' \in Page!Detail \cup {Nothing},
             reads' \subseteq Page!Read, \A q, r \in reads' : q = r
      PROVE  PageTyped'
  BY <1>1, <1>2 DEF PageTyped, PageType
<1>3. ASSUME NEW r \in reads, Page!AnswerRead(r) PROVE PageTyped'
  <2> DEFINE told == [r EXCEPT !.answered = TRUE, !.view = Page!View(r.game)]
  <2>1. r \in Page!Read /\ r.game \in Dated
    BY <1>1 DEF Page!Read
  <2>2. Page!View(r.game) \in Page!Detail \cup {Nothing}
    BY <1>1, <2>1, ViewIsOfTheGame
  <2>3. told \in Page!Read
    BY <2>1, <2>2 DEF Page!Read
  <2> HIDE DEF told
  <2>4. reads' = {told} /\ UNCHANGED <<listed, lists, chosen, detail>>
    <3>1. reads' = (reads \ {r}) \cup {told} /\ UNCHANGED <<listed, lists, chosen, detail>>
      BY <1>3 DEF Page!AnswerRead, told
    <3> QED BY <1>1, <3>1
  <2> QED BY <1>1, <1>2, <2>3, <2>4 DEF PageType
<1>4. ASSUME NEW r \in reads, Page!ShowRead(r) PROVE PageTyped'
  <2>1. detail' \in Page!Detail \cup {Nothing}
    BY <1>1, <1>4 DEF Page!ShowRead, Page!Shown, Page!Read, PageType
  <2> QED BY <1>1, <1>2, <1>4, <2>1 DEF Page!ShowRead
<1>5. ASSUME NEW r \in reads, Page!LoseRead(r) PROVE PageTyped'
  BY <1>1, <1>2, <1>5 DEF Page!LoseRead, PageType
<1>6. ASSUME NEW l \in lists, Page!AnswerList(l) PROVE PageTyped'
  <2> DEFINE told == [l EXCEPT !.answered = TRUE, !.rows = Page!Listed]
  <2>1. l \in [slot : Nat, answered : BOOLEAN, rows : Page!Listing]
    BY <1>1 DEF PageType
  <2>2. told \in [slot : Nat, answered : BOOLEAN, rows : Page!Listing] /\ told.slot = l.slot
    BY <1>1, <2>1, ListedIsTyped
  <2> HIDE DEF told
  <2>3. lists' = (lists \ {l}) \cup {told} /\ UNCHANGED <<listed, chosen, detail, reads>>
    BY <1>6 DEF Page!AnswerList, told
  <2> QED BY <1>1, <2>2, <2>3 DEF PageTyped, PageType
<1>7. ASSUME NEW l \in lists, Page!ShowList(l) PROVE PageTyped'
  <2>1. l.rows \in Page!Listing /\ listed' = l.rows /\ lists' = lists \ {l}
        /\ Page!Choose(chosen, l.rows) /\ UNCHANGED detail
    BY <1>1, <1>7 DEF Page!ShowList, PageType
  <2>2. /\ chosen' \in Dated \cup {Nothing} /\ reads' \subseteq Page!Read
        /\ \A q, r \in reads' : q = r
    BY <1>1, <2>1, ChosenIsTyped
  <2> QED BY <1>1, <2>1, <2>2 DEF PageTyped, PageType
<1>8. ASSUME NEW l \in lists, Page!LoseList(l) PROVE PageTyped'
  BY <1>1, <1>8 DEF Page!LoseList, PageTyped, PageType
<1> QED BY <1>3, <1>4, <1>5, <1>6, <1>7, <1>8

LEMMA PageStaysTyped ==
    ASSUME Page!GameScreenAssumption PROVE Page!Spec => []PageTyped
<1>1. ASSUME Page!Init PROVE PageTyped
  <2>1. 1 \in Page!Slots
    BY DEF Page!GameScreenAssumption, Page!Slots
  <2>2. \A l \in lists : l.slot = 1
    <3> DEFINE only == [slot |-> 1, answered |-> FALSE, rows |-> Page!NoRows]
    <3>1. lists = {only} /\ only.slot = 1
      BY <1>1 DEF Page!Init
    <3> HIDE DEF only
    <3> QED BY <3>1
  <2>3. reads = {} /\ busy = FALSE
    BY <1>1 DEF Page!Init
  <2> QED BY <1>1, <2>1, <2>2, <2>3, PageAtFirst DEF PageTyped
<1>2. ASSUME PageTyped, [Page!Next]_(Page!vars) PROVE PageTyped'
  <2>1. CASE Page!Press
    BY <1>2, <2>1, PressIsTyped
  <2>2. CASE Page!Losses
    BY <1>2, <2>2, CallIsTyped, AnswerIsTyped DEF Page!Losses
  <2>3. CASE UNCHANGED Page!vars
    BY <1>2, <2>3 DEF Page!vars, PageTyped, PageType
  <2>4. CASE Page!Rest
    BY <2>3, <2>4 DEF Page!Rest
  <2>5. ASSUME NEW s \in Page!Slots, Page!OfCall(s) \/ Page!OfList(s) PROVE PageTyped'
    BY <1>2, <2>5, CallIsTyped, AnswerIsTyped DEF Page!OfList
  <2>6. ASSUME NEW g \in Dated, Page!OfRead(g) PROVE PageTyped'
    BY <1>2, <2>6, AnswerIsTyped DEF Page!OfRead
  <2> QED BY <1>2, <2>1, <2>2, <2>3, <2>4, <2>5, <2>6 DEF Page!Next
<1> QED BY <1>1, <1>2, PTL DEF Page!Spec

\* TypeOK of GameScreen, whatever the organiser does and whichever answers are lost: no choice
\* is read twice, and the bar is not left disabled with nothing on its way (useGuarded.ts).
THEOREM PageIsTyped ==
    ASSUME Page!GameScreenAssumption PROVE Page!Spec => []Page!TypeOK
<1>1. ASSUME PageTyped PROVE Page!TypeOK
  <2>1. lists \subseteq [slot : Page!Slots, answered : BOOLEAN, rows : Page!Listing]
    <3>1. ASSUME NEW l \in lists
          PROVE  l \in [slot : Page!Slots, answered : BOOLEAN, rows : Page!Listing]
      BY <1>1 DEF PageTyped, PageType
    <3> QED BY <3>1
  <2>2. Page!Cardinality(reads) <= 1
    <3>1. \A S : Page!Cardinality(S) = Cardinality(S)
      BY DEF Page!Cardinality, Cardinality, Page!IsFiniteSet, IsFiniteSet
    <3>2. reads = {} \/ \E r : reads = {r}
      BY <1>1 DEF PageTyped
    <3>3. Cardinality(reads) \in {0, 1}
      BY <3>2, FS_EmptySet, FS_Singleton
    <3> QED BY <3>1, <3>3
  <2> QED BY <1>1, <2>1, <2>2 DEF Page!TypeOK, PageTyped, PageType
<1> QED BY <1>1, PageStaysTyped, PTL

\* A request for the game chosen, made with nothing on its way.
LEMMA AskingKeeps ==
    ASSUME Page!GameScreenAssumption, PageType, PageInv, Page!Quiet,
           NEW kind \in Page!Kinds, NEW g \in Dated, NEW back \in Dated \cup {Nothing},
           Page!Ask(kind, g, back), UNCHANGED <<server, listed, lists, chosen, detail, reads>>,
           kind \notin {"delete", "record"} => detail # Nothing /\ g = chosen /\ back = chosen
    PROVE  PageType' /\ PageInv'
<1> DEFINE call == [kind |-> kind, game |-> g, back |-> back, stage |-> "sent", view |-> Nothing]
<1>1. PICK s \in Page!Slots : calls' = [calls EXCEPT ![s] = call]
  BY DEF Page!Ask
<1>2. call \in Page!Call /\ call.kind = kind /\ call.game = g /\ call.back = back
      /\ call.stage = "sent"
  BY DEF Page!Call
<1> HIDE DEF call
<1>3. PageType'
  BY <1>1, <1>2 DEF PageType
<1>4. /\ calls'[s] = call /\ \A t \in Page!Slots : t # s => calls'[t] = Nothing
  BY <1>1 DEF PageType, Page!Quiet, Page!NoCalls
<1>5. reads = {} /\ lists = {} /\ Fresh /\ listed = Page!Listed
  BY DEF Page!Quiet, PageInv
<1>6. Fresh' /\ Page!Listed' = Page!Listed
  BY <1>5, SameServer DEF Fresh
<1>7. CallFits(s)'
  BY <1>2, <1>4, <1>5, <1>6 DEF CallFits
<1>8. \A t \in Page!Slots : calls'[t] # Nothing => CallFits(t)'
  BY <1>4, <1>7
<1>9. Page!NoCalls' => Fresh' /\ (lists' = {} => listed' = Page!Listed')
  BY <1>5, <1>6
<1> QED BY <1>3, <1>5, <1>8, <1>9 DEF PageInv

\* What the organiser does while nothing is on its way.
LEMMA PressKeeps ==
    ASSUME Page!GameScreenAssumption, Waiting, PageType, PageInv, Page!Press
    PROVE  PageType' /\ PageInv'
<1>0. Page!Patient => Page!Quiet
  BY DEF Waiting, Page!Patient
<1>1. Page!Quiet /\ detail # Nothing => detail.game = chosen /\ chosen # Nothing
  BY DEF PageInv, Page!Quiet
<1>2. detail # Nothing => detail.game \in Dated
  BY DEF PageType, Page!Detail
<1>3. chosen \in Dated \cup {Nothing} /\ Nothing \notin Dated
  BY DEF PageType, Page!GameScreenAssumption
<1>4. ASSUME NEW g \in Dated, Page!Select(g) PROVE PageType' /\ PageInv'
  <2>1. Page!NoCalls /\ lists = {} /\ listed[g] # "none" /\ g # chosen /\ Page!Choose(g, listed)
        /\ UNCHANGED <<server, listed, lists, detail, calls, busy>>
    BY <1>4 DEF Page!Select, Waiting
  <2>2. chosen' = g /\ reads' = {[game |-> g, answered |-> FALSE, view |-> Nothing]}
        /\ reads' \subseteq Page!Read
    BY <1>3, <2>1, ChoosingReads
  <2>3. server[g] # Nothing
    BY <2>1 DEF PageInv, Page!Listed
  <2>4. PageType'
    BY <2>1, <2>2 DEF PageType
  <2>5. Page!NoCalls' /\ Fresh' /\ listed' = Page!Listed'
    BY <2>1, SameServer DEF PageInv, Fresh, Page!NoCalls
  <2>6. \A r \in reads' : r.game = chosen' /\ ~r.answered
    BY <2>2
  <2>7. reads' # {} /\ chosen' # Nothing /\ server'[chosen'] # Nothing
    BY <1>3, <2>1, <2>2, <2>3
  <2> QED BY <2>1, <2>4, <2>5, <2>6, <2>7 DEF PageInv, Page!NoCalls
<1>5. ASSUME NEW g \in Dated, Page!RecordGame(g) PROVE PageType' /\ PageInv'
  BY <1>0, <1>5, AskingKeeps DEF Page!RecordGame, Page!Kinds
<1>6. ASSUME NEW kind \in Page!GameActions \cup {"delete"}, Page!PressBar(kind)
      PROVE  PageType' /\ PageInv'
  BY <1>0, <1>3, <1>6, AskingKeeps DEF Page!PressBar, Page!Kinds, Page!Moves
<1>7. ASSUME Page!MoveMember PROVE PageType' /\ PageInv'
  BY <1>0, <1>3, <1>7, AskingKeeps DEF Page!MoveMember, Page!CanEdit, Page!Kinds, Page!Moves
<1>8. ASSUME Page!PayShare PROVE PageType' /\ PageInv'
  BY <1>0, <1>1, <1>2, <1>3, <1>8, AskingKeeps DEF Page!PayShare, Page!CanEdit, Page!Kinds
<1>9. ASSUME NEW kind \in {"save", "teams"}, Page!SaveBelow(kind) PROVE PageType' /\ PageInv'
  BY <1>0, <1>1, <1>2, <1>3, <1>9, AskingKeeps DEF Page!SaveBelow, Page!CanEdit, Page!Kinds
<1>10. ~Page!DragMember
  BY DEF Waiting, Page!DragMember
<1> QED BY <1>4, <1>5, <1>6, <1>7, <1>8, <1>9, <1>10 DEF Page!Press

\* A request moves on to its next stage with nothing else changed.
LEMMA StageKeeps ==
    ASSUME Page!GameScreenAssumption, PageType, PageInv, NEW s \in Page!Slots, NEW call,
           calls[s] # Nothing, call \in Page!Call, call # Nothing,
           calls' = [calls EXCEPT ![s] = call],
           UNCHANGED <<listed, lists, chosen, detail, reads>>,
           server' \in [Dated -> Page!Stored \cup {Nothing}], CallFits(s)'
    PROVE  PageType' /\ PageInv'
<1>1. reads = {} /\ lists = {} /\ (detail # Nothing => detail.game = chosen /\ chosen # Nothing)
  BY CallIsAlone
<1>2. PageType'
  BY DEF PageType
<1>3. calls'[s] # Nothing /\ \A t \in Page!Slots : t # s => calls'[t] = Nothing
  BY CallIsAlone DEF PageType
<1> QED BY <1>1, <1>2, <1>3 DEF PageInv, Page!NoCalls

\* A request is over, and the page is as stored, or the list of games has been asked for.
LEMMA OverKeeps ==
    ASSUME Page!GameScreenAssumption, PageType, PageInv, NEW s \in Page!Slots,
           calls[s] # Nothing, calls' = [calls EXCEPT ![s] = Nothing],
           UNCHANGED <<server, listed>>,
           chosen' \in Dated \cup {Nothing}, detail' \in Page!Detail \cup {Nothing},
           reads' \subseteq Page!Read, \A r \in reads' : r.game = chosen' /\ ~r.answered,
           detail' # Nothing => /\ chosen' # Nothing
                                /\ detail'.game = chosen' \/ (server[chosen'] # Nothing /\ reads' # {}),
           Fresh', Page!AskList \/ (lists' = lists /\ listed = Page!Listed)
    PROVE  PageType' /\ PageInv'
<1>1. lists = {}
  BY CallIsAlone
<1>2. ASSUME Page!AskList
      PROVE  /\ lists' \subseteq [slot : Nat, answered : BOOLEAN, rows : Page!Listing]
             /\ lists' # {} /\ \A l, m \in lists' : l = m /\ ~l.answered
  <2>1. PICK t \in Page!Slots : lists' = {[slot |-> t, answered |-> FALSE, rows |-> Page!NoRows]}
    BY <1>1, <1>2 DEF Page!AskList
  <2> DEFINE only == [slot |-> t, answered |-> FALSE, rows |-> Page!NoRows]
  <2>2. only \in [slot : Nat, answered : BOOLEAN, rows : Page!Listing] /\ only.answered = FALSE
    BY DEF Page!NoRows, Page!Listing, Page!Slots
  <2>3. lists' = {only}
    BY <2>1
  <2> HIDE DEF only
  <2> QED BY <2>2, <2>3
<1>3. /\ lists' \subseteq [slot : Nat, answered : BOOLEAN, rows : Page!Listing]
      /\ \A l, m \in lists' : l = m /\ ~l.answered
      /\ lists' = {} => listed' = Page!Listed'
  BY <1>1, <1>2, SameServer
<1>4. PageType'
  BY <1>3 DEF PageType
<1>5. \A t \in Page!Slots : calls'[t] = Nothing
  BY CallIsAlone DEF PageType
<1> QED BY <1>3, <1>4, <1>5 DEF PageInv

\* The server does what is asked.
LEMMA PerformKeeps ==
    ASSUME Page!GameScreenAssumption, PageType, PageInv, NEW s \in Page!Slots, Page!Perform(s)
    PROVE  PageType' /\ PageInv'
<1> DEFINE call == calls[s]
           done == [calls[s] EXCEPT !.stage = "done"]
           g    == call.game
           kind == call.kind
<1>1. /\ call # Nothing /\ call.stage = "sent" /\ Page!Can(kind, g)
      /\ server' = [server EXCEPT ![g] = Page!Done(kind, g)]
      /\ calls' = [calls EXCEPT ![s] = done]
      /\ UNCHANGED <<listed, lists, chosen, detail, reads, busy>>
  BY DEF Page!Perform
<1>2. call \in Page!Call /\ g \in Dated /\ kind \in Page!Kinds
  BY <1>1 DEF PageType, Page!Call
<1>3. done \in Page!Call /\ done.kind = kind /\ done.game = g /\ done.back = call.back
      /\ done.stage = "done"
  BY <1>2 DEF Page!Call
<1>4. done # Nothing
  BY <1>3 DEF Page!GameScreenAssumption
<1>5. /\ Page!Done(kind, g) \in Page!Stored \cup {Nothing}
      /\ kind # "delete" => Page!Done(kind, g) # Nothing
      /\ kind \in {"move", "pay", "save", "teams"} =>
            server[g] # Nothing /\ Page!Done(kind, g).position = server[g].position
      /\ kind = "record" => server[g] = Nothing
  BY <1>1, <1>2, DoneIsStored
<1>6. /\ server' \in [Dated -> Page!Stored \cup {Nothing}]
      /\ server'[g] = Page!Done(kind, g) /\ \A h \in Dated : h # g => server'[h] = server[h]
  BY <1>1, <1>2, <1>5 DEF PageType
<1>7. CallFits(s) /\ Fresh /\ listed = Page!Listed
  BY <1>1, CallIsAlone DEF CallFits
<1>8. kind = "record" => Fresh'
  <2>1. SUFFICES ASSUME kind = "record", detail # Nothing
                 PROVE  detail = Page!View(detail.game)'
    BY <1>1 DEF Fresh
  <2>2. detail.game \in Dated
    BY <2>1 DEF PageType, Page!Detail
  <2>3. detail = Page!View(detail.game) /\ server[detail.game] # Nothing
    BY <1>7, <2>1 DEF Fresh, Page!View
  <2>4. server'[detail.game] = server[detail.game]
    BY <1>5, <1>6, <2>1, <2>2, <2>3
  <2> QED BY <1>1, <2>3, <2>4 DEF Page!View
<1>9. kind \in {"move", "pay", "save", "teams"} => Page!Listed' = Page!Listed
  <2>1. SUFFICES ASSUME kind \in {"move", "pay", "save", "teams"}, NEW h \in Dated
                 PROVE  (IF server'[h] = Nothing THEN "none" ELSE server'[h].position.status)
                        = (IF server[h] = Nothing THEN "none" ELSE server[h].position.status)
    BY DEF Page!Listed
  <2>2. server'[g] # Nothing /\ server[g] # Nothing /\ server'[g].position = server[g].position
    BY <1>5, <1>6, <2>1
  <2> QED BY <1>6, <2>2
<1> HIDE DEF done
<1>10. calls'[s] = done /\ \A t \in Page!Slots : t # s => calls'[t] = calls[t]
  BY <1>1 DEF PageType
<1>11. CallFits(s)'
  <2>1. reads' = {} /\ lists' = {} /\ \A t \in Page!Slots : calls'[t] # Nothing => t = s
    BY <1>1, <1>10, CallIsAlone
  <2>2. kind \notin {"delete", "record"} => detail' # Nothing /\ g = chosen' /\ done.back = chosen'
    BY <1>1, <1>3, <1>7 DEF CallFits
  <2>3. kind # "delete" => server'[g] # Nothing
    BY <1>5, <1>6
  <2>4. kind \in {"move", "pay", "save", "teams"} => listed' = Page!Listed'
    BY <1>1, <1>7, <1>9
  <2> HIDE DEF call, g, kind
  <2> QED BY <1>3, <1>8, <1>10, <2>1, <2>2, <2>3, <2>4 DEF CallFits
<1> QED BY <1>1, <1>3, <1>4, <1>6, <1>11, StageKeeps

\* A refusal leaves the page as it was, which is as stored.
LEMMA RefuseKeeps ==
    ASSUME Page!GameScreenAssumption, Waiting, PageType, PageInv, NEW s \in Page!Slots,
           Page!Refuse(s)
    PROVE  PageType' /\ PageInv'
<1>1. /\ calls[s] # Nothing /\ calls[s].stage = "sent"
      /\ calls' = [calls EXCEPT ![s] = Nothing]
      /\ UNCHANGED <<server, listed, lists, chosen, detail, reads>>
  BY DEF Page!Refuse, Waiting
<1>2. reads = {} /\ Fresh /\ listed = Page!Listed
      /\ (detail # Nothing => detail.game = chosen /\ chosen # Nothing)
  BY <1>1, CallIsAlone DEF CallFits
<1>3. Fresh'
  BY <1>1, <1>2, SameServer DEF Fresh
<1>4. chosen \in Dated \cup {Nothing} /\ detail \in Page!Detail \cup {Nothing}
      /\ reads \subseteq Page!Read
  BY DEF PageType
<1> QED BY <1>1, <1>2, <1>3, <1>4, OverKeeps

\* What was done is asked for again, and answered as it is stored.
LEMMA ReloadKeeps ==
    ASSUME Page!GameScreenAssumption, PageType, PageInv, NEW s \in Page!Slots,
           Page!Reload(s) \/ Page!AnswerReload(s)
    PROVE  PageType' /\ PageInv'
<1> DEFINE call  == calls[s]
           again == [calls[s] EXCEPT !.stage = "reload"]
           told  == [calls[s] EXCEPT !.stage = "answered", !.view = Page!View(call.back)]
<1>1. /\ call # Nothing /\ call \in Page!Call /\ call.stage \in {"done", "reload"}
      /\ UNCHANGED <<server, listed, lists, chosen, detail, reads>>
  BY DEF Page!Reload, Page!AnswerReload, PageType
<1>2. /\ CallFits(s) /\ call.kind \notin {"delete", "record"}
      /\ call.game = chosen /\ call.back = chosen /\ chosen \in Dated /\ detail # Nothing
  BY <1>1, CallIsAlone DEF Page!Reload, Page!AnswerReload, CallFits, PageType, Page!Call
<1>3. Page!View(call.back) \in Page!Detail \cup {Nothing}
  BY <1>2, ViewIsOfTheGame
<1>4. again \in Page!Call /\ told \in Page!Call
  BY <1>1, <1>3 DEF Page!Call
<1>5. again # Nothing /\ told # Nothing
  BY <1>4 DEF Page!GameScreenAssumption
<1>6. again.kind = call.kind /\ again.game = call.game /\ again.back = call.back
      /\ again.stage = "reload"
  BY <1>1 DEF Page!Call
<1>7. told.kind = call.kind /\ told.game = call.game /\ told.back = call.back
      /\ told.stage = "answered" /\ told.view = Page!View(call.back)
  BY <1>1 DEF Page!Call
<1> HIDE DEF again, told
<1>8. ASSUME NEW next \in {again, told}, calls' = [calls EXCEPT ![s] = next]
      PROVE  PageType' /\ PageInv'
  <2>1. calls'[s] = next /\ \A t \in Page!Slots : t # s => calls'[t] = calls[t]
    BY <1>8 DEF PageType
  <2>2. reads = {} /\ lists = {} /\ \A t \in Page!Slots : calls'[t] # Nothing => t = s
    BY <1>1, <2>1, CallIsAlone
  <2>3. next.kind = call.kind /\ next.game = chosen /\ next.back = chosen
        /\ next.stage \in {"reload", "answered"}
        /\ (next.stage = "answered" => next.view = Page!View(chosen)')
    BY <1>1, <1>2, <1>6, <1>7, SameServer
  <2>4. call.kind \in {"move", "pay", "save", "teams"} => listed' = Page!Listed'
    BY <1>1, <1>2, SameServer DEF CallFits
  <2>5. server'[chosen] # Nothing
    BY <1>1, <1>2 DEF CallFits
  <2>6. CallFits(s)'
    BY <1>1, <1>2, <2>1, <2>2, <2>3, <2>4, <2>5 DEF CallFits
  <2>7. next \in Page!Call /\ next # Nothing
    BY <1>4, <1>5
  <2> QED BY <1>1, <1>8, <2>6, <2>7, StageKeeps DEF PageType
<1> QED BY <1>8 DEF Page!Reload, Page!AnswerReload, again, told

\* The game acted on is shown as it was read again.
LEMMA EndReloadKeeps ==
    ASSUME Page!GameScreenAssumption, PageType, PageInv, NEW s \in Page!Slots, Page!EndReload(s)
    PROVE  /\ PageType' /\ PageInv'
           /\ detail' # Nothing /\ detail'.game = chosen'
<1>1. /\ calls[s] # Nothing /\ calls[s].stage = "answered" /\ calls[s] \in Page!Call
      /\ detail' = Page!Shown(calls[s].view)
      /\ IF calls[s].kind \in Page!GameActions THEN Page!AskList ELSE UNCHANGED lists
      /\ calls' = [calls EXCEPT ![s] = Nothing]
      /\ UNCHANGED <<server, listed, chosen, reads>>
  BY DEF Page!EndReload, Page!ShowReload, PageType
<1>2. /\ reads = {} /\ CallFits(s) /\ calls[s].kind \notin {"delete", "record"}
      /\ calls[s].game = chosen /\ chosen \in Dated /\ chosen # Nothing
      /\ server[chosen] # Nothing /\ calls[s].view = Page!View(chosen)
  BY <1>1, CallIsAlone DEF CallFits, Page!Call, Page!GameScreenAssumption
<1>3. /\ detail' = Page!View(chosen) /\ detail' \in Page!Detail /\ detail' # Nothing
      /\ detail'.game = chosen
  BY <1>1, <1>2, ViewIsOfTheGame DEF Page!Shown
<1>4. Fresh'
  BY <1>1, <1>3, SameServer DEF Fresh
<1>5. Page!AskList \/ (lists' = lists /\ listed = Page!Listed)
  <2>1. calls[s].kind \in Page!GameActions \cup {"move", "pay", "save", "teams"}
    BY <1>1, <1>2 DEF Page!Call, Page!Kinds, Page!Moves
  <2> QED BY <1>1, <1>2, <2>1 DEF CallFits
<1>6. PageType' /\ PageInv'
  BY <1>1, <1>2, <1>3, <1>4, <1>5, OverKeeps DEF PageType
<1> QED BY <1>1, <1>3, <1>6

\* A game deleted is shown no more; one recorded is chosen and read.
LEMMA EndingKeeps ==
    ASSUME Page!GameScreenAssumption, PageType, PageInv, NEW s \in Page!Slots,
           Page!EndDelete(s) \/ Page!EndRecord(s)
    PROVE  PageType' /\ PageInv'
<1>1. /\ calls[s] # Nothing /\ calls[s].stage = "done" /\ calls[s] \in Page!Call
      /\ Page!AskList /\ calls' = [calls EXCEPT ![s] = Nothing] /\ UNCHANGED <<server, listed>>
  BY DEF Page!EndDelete, Page!EndRecord, PageType
<1>2. reads = {} /\ (detail # Nothing => detail.game = chosen /\ chosen # Nothing) /\ CallFits(s)
  BY <1>1, CallIsAlone
<1>3. ASSUME NEW g \in Dated \cup {Nothing}, Page!Choose(g, listed)
      PROVE  /\ chosen' \in Dated \cup {Nothing} /\ reads' \subseteq Page!Read
             /\ \A r \in reads' : r.game = chosen' /\ ~r.answered
             /\ g # Nothing => chosen' = g /\ (chosen' = chosen \/ reads' # {})
  <2> DEFINE only == [game |-> chosen', answered |-> FALSE, view |-> Nothing]
  <2>1. only.game = chosen' /\ only.answered = FALSE
    OBVIOUS
  <2>2. reads' = {} \/ reads' = {only}
    BY <1>2, <1>3, ChoosingReads
  <2>3. chosen' \in Dated \cup {Nothing} /\ reads' \subseteq Page!Read
    BY <1>3, ChoosingReads
  <2>4. g # Nothing => chosen' = g /\ (chosen' = chosen \/ reads' = {only})
    BY <1>3, ChoosingReads DEF Page!GameScreenAssumption
  <2> HIDE DEF only
  <2> QED BY <2>1, <2>2, <2>3, <2>4
<1>4. CASE Page!EndDelete(s)
  <2>1. detail' = Nothing /\ Page!Choose(Nothing, listed)
    BY <1>4 DEF Page!EndDelete
  <2>2. Fresh'
    BY <2>1 DEF Fresh
  <2> QED BY <1>1, <1>3, <2>1, <2>2, OverKeeps
<1>5. CASE Page!EndRecord(s)
  <2> DEFINE g == calls[s].game
  <2>1. g \in Dated /\ g # Nothing
    BY <1>1 DEF Page!Call, Page!GameScreenAssumption
  <2>2. detail' = detail /\ Page!Choose(g, listed) /\ server[g] # Nothing /\ Fresh
    BY <1>2, <1>5 DEF Page!EndRecord, CallFits
  <2>3. Fresh'
    BY <1>1, <2>2, SameServer DEF Fresh
  <2>4. chosen' = g /\ (chosen' = chosen \/ reads' # {})
    BY <1>3, <2>1, <2>2
  <2>5. detail' \in Page!Detail \cup {Nothing}
    BY <2>2 DEF PageType
  <2> HIDE DEF g
  <2>6. detail' # Nothing => /\ chosen' # Nothing
                             /\ detail'.game = chosen' \/ (server[chosen'] # Nothing /\ reads' # {})
    BY <1>2, <2>1, <2>2, <2>4
  <2> QED BY <1>1, <1>3, <2>1, <2>2, <2>3, <2>5, <2>6, OverKeeps
<1> QED BY <1>4, <1>5

\* The game chosen is read, and shown if the answer has it.
LEMMA ReadKeeps ==
    ASSUME Page!GameScreenAssumption, PageType, PageInv, NEW r \in reads,
           Page!AnswerRead(r) \/ Page!ShowRead(r)
    PROVE  /\ PageType' /\ PageInv'
           /\ detail' # detail => detail' # Nothing /\ detail'.game = chosen'
<1>1. /\ r \in Page!Read /\ r.game = chosen /\ (r.answered => r.view = Page!View(chosen))
      /\ UNCHANGED <<server, listed, lists, chosen, calls>> /\ chosen \in Dated
      /\ \A q \in reads : q.game = chosen /\ (q.answered => q.view = Page!View(chosen))
  BY DEF PageType, PageInv, Page!Read, Page!AnswerRead, Page!ShowRead
<1>2. chosen # Nothing
  BY <1>1 DEF Page!GameScreenAssumption
<1>3. Page!NoCalls /\ Fresh /\ (lists = {} => listed = Page!Listed)
  BY CallIsAlone DEF PageInv, Page!NoCalls
<1>4. CASE Page!AnswerRead(r)
  <2> DEFINE told == [r EXCEPT !.answered = TRUE, !.view = Page!View(r.game)]
  <2>1. reads' = (reads \ {r}) \cup {told} /\ UNCHANGED detail
    BY <1>4 DEF Page!AnswerRead
  <2>2. Page!View(chosen) \in Page!Detail \cup {Nothing}
    BY <1>1, ViewIsOfTheGame
  <2>3. told \in Page!Read /\ told.game = chosen /\ told.view = Page!View(chosen)
    BY <1>1, <2>2 DEF Page!Read
  <2> HIDE DEF told
  <2>4. \A q \in reads' : q.game = chosen' /\ (q.answered => q.view = Page!View(chosen)')
    BY <1>1, <2>1, <2>3, SameServer
  <2>5. PageType'
    BY <1>1, <2>1, <2>3 DEF PageType
  <2>6. Page!NoCalls' /\ Fresh' /\ (lists' = {} => listed' = Page!Listed')
    BY <1>1, <1>3, <2>1, SameServer DEF Page!NoCalls, Fresh
  <2>7. reads' # {} /\ (detail # Nothing => detail.game = chosen \/ server[chosen] # Nothing)
    BY <2>1 DEF PageInv
  <2>8. \A l, m \in lists : l = m /\ (l.answered => l.rows = Page!Listed')
    BY <1>1, SameServer DEF PageInv
  <2>9. PageInv'
    BY <1>1, <1>2, <2>1, <2>4, <2>6, <2>7, <2>8 DEF PageInv, Page!NoCalls
  <2> QED BY <2>1, <2>5, <2>9
<1>5. CASE Page!ShowRead(r)
  <2>1. /\ r.answered /\ detail' = (IF Page!View(chosen) = Nothing THEN detail ELSE Page!View(chosen))
        /\ reads' = reads \ {r}
    BY <1>1, <1>5 DEF Page!ShowRead, Page!Shown
  <2>2. /\ Page!View(chosen) = Nothing => server[chosen] = Nothing
        /\ Page!View(chosen) # Nothing =>
              Page!View(chosen) \in Page!Detail /\ Page!View(chosen).game = chosen
    BY <1>1, ViewIsOfTheGame
  <2>3. detail' # Nothing => detail'.game = chosen
    BY <2>1, <2>2 DEF PageInv
  <2>4. PageType'
    BY <1>1, <2>1, <2>2 DEF PageType
  <2>5. Fresh'
    BY <1>1, <1>3, <2>1, <2>2, SameServer DEF Fresh
  <2>6. Page!NoCalls' /\ (lists' = {} => listed' = Page!Listed')
    BY <1>1, <1>3, SameServer DEF Page!NoCalls
  <2>7. \A q \in reads' : q.game = chosen' /\ (q.answered => q.view = Page!View(chosen)')
    BY <1>1, <2>1, SameServer
  <2>8. \A l, m \in lists : l = m /\ (l.answered => l.rows = Page!Listed')
    BY <1>1, SameServer DEF PageInv
  <2>9. PageInv'
    BY <1>1, <1>2, <2>3, <2>5, <2>6, <2>7, <2>8 DEF PageInv, Page!NoCalls
  <2>10. detail' # detail => detail' # Nothing /\ detail'.game = chosen'
    BY <1>1, <2>1, <2>2
  <2> QED BY <2>4, <2>9, <2>10
<1> QED BY <1>4, <1>5

\* The games of the season are read, and the first choice is pinned from them.
LEMMA ListKeeps ==
    ASSUME Page!GameScreenAssumption, PageType, PageInv, NEW l \in lists,
           Page!AnswerList(l) \/ Page!ShowList(l)
    PROVE  PageType' /\ PageInv'
<1>1. /\ lists = {l} /\ l \in [slot : Nat, answered : BOOLEAN, rows : Page!Listing]
      /\ (l.answered => l.rows = Page!Listed) /\ UNCHANGED <<server, detail, calls>>
  BY DEF PageType, PageInv, Page!AnswerList, Page!ShowList
<1>2. Page!NoCalls /\ Fresh
  BY CallIsAlone DEF PageInv, Page!NoCalls
<1>3. Page!NoCalls' /\ Fresh'
  BY <1>1, <1>2, SameServer DEF Page!NoCalls, Fresh
<1>4. CASE Page!AnswerList(l)
  <2> DEFINE told == [l EXCEPT !.answered = TRUE, !.rows = Page!Listed]
  <2>1. lists' = {told} /\ UNCHANGED <<listed, chosen, reads>>
    BY <1>1, <1>4 DEF Page!AnswerList
  <2>2. told \in [slot : Nat, answered : BOOLEAN, rows : Page!Listing] /\ told.rows = Page!Listed
    BY <1>1, ListedIsTyped
  <2> HIDE DEF told
  <2>3. PageType'
    BY <1>1, <2>1, <2>2 DEF PageType
  <2>4. \A k, m \in lists' : k = m /\ k.rows = Page!Listed'
    BY <1>1, <2>1, <2>2, SameServer
  <2>5. \A r \in reads' : r.game = chosen' /\ (r.answered => r.view = Page!View(chosen)')
    BY <1>1, <2>1, SameServer DEF PageInv
  <2>6. detail' # Nothing =>
           chosen' # Nothing /\ (detail'.game = chosen' \/ (server'[chosen'] # Nothing /\ reads' # {}))
    BY <1>1, <2>1 DEF PageInv
  <2> QED BY <1>3, <2>1, <2>3, <2>4, <2>5, <2>6 DEF PageInv, Page!NoCalls
<1>5. CASE Page!ShowList(l)
  <2>1. lists' = {} /\ listed' = Page!Listed /\ Page!Choose(chosen, l.rows)
    BY <1>1, <1>5 DEF Page!ShowList
  <2>2. chosen \in Dated \cup {Nothing}
    BY DEF PageType
  <2>3. /\ chosen' \in Dated \cup {Nothing} /\ reads' \subseteq Page!Read
        /\ chosen # Nothing => chosen' = chosen /\ reads' = reads
        /\ chosen' = chosen => reads' = reads
        /\ chosen' # chosen => reads' = {} \/
              reads' = {[game |-> chosen', answered |-> FALSE, view |-> Nothing]}
    BY <2>1, <2>2, ChoosingReads
  <2>4. \A r \in reads' : r.game = chosen' /\ (r.answered => r.view = Page!View(chosen)')
    <3>1. CASE chosen' = chosen
      BY <1>1, <2>3, <3>1, SameServer DEF PageInv
    <3>2. CASE chosen' # chosen
      <4> DEFINE only == [game |-> chosen', answered |-> FALSE, view |-> Nothing]
      <4>1. only.game = chosen' /\ only.answered = FALSE
        OBVIOUS
      <4>2. reads' = {} \/ reads' = {only}
        BY <2>3, <3>2
      <4> HIDE DEF only
      <4> QED BY <4>1, <4>2
    <3> QED BY <3>1, <3>2
  <2>5. PageType'
    BY <1>1, <2>1, <2>3, ListedIsTyped DEF PageType
  <2>6. detail' # Nothing =>
           chosen' # Nothing /\ (detail'.game = chosen' \/ (server'[chosen'] # Nothing /\ reads' # {}))
    BY <1>1, <2>3 DEF PageInv
  <2>7. listed' = Page!Listed'
    BY <1>1, <2>1, SameServer
  <2> QED BY <1>3, <2>1, <2>4, <2>5, <2>6, <2>7 DEF PageInv, Page!NoCalls
<1> QED BY <1>4, <1>5

LEMMA PageStep ==
    ASSUME Page!GameScreenAssumption, Waiting, PageType, PageInv, [Page!Next]_(Page!vars)
    PROVE  PageType' /\ PageInv'
<1>1. CASE Page!Press
  BY <1>1, PressKeeps
<1>2. ASSUME NEW s \in Page!Slots, Page!OfCall(s) PROVE PageType' /\ PageInv'
  BY <1>2, PerformKeeps, RefuseKeeps, ReloadKeeps, EndReloadKeeps, EndingKeeps DEF Page!OfCall
<1>3. ASSUME NEW s \in Page!Slots, Page!OfList(s) PROVE PageType' /\ PageInv'
  BY <1>3, ListKeeps DEF Page!OfList
<1>4. ASSUME NEW g \in Dated, Page!OfRead(g) PROVE PageType' /\ PageInv'
  BY <1>4, ReadKeeps DEF Page!OfRead
<1>5. CASE UNCHANGED Page!vars
  <2>1. UNCHANGED <<server, listed, lists, chosen, detail, reads, calls>>
    BY <1>5 DEF Page!vars
  <2>2. PageType'
    BY <2>1 DEF PageType
  <2>3. PageInv'
    BY <2>1, SameServer DEF PageInv, CallFits, Fresh, Page!NoCalls
  <2> QED BY <2>2, <2>3
<1>6. ~Page!Losses
  BY DEF Waiting, Page!Losses, Page!LoseRead, Page!LoseList, Page!LoseReload
<1>7. Page!Rest => UNCHANGED Page!vars
  BY DEF Page!Rest
<1> QED BY <1>1, <1>2, <1>3, <1>4, <1>5, <1>6, <1>7 DEF Page!Next

\* The game on screen is the one chosen, as it is stored or as it is being read.
LEMMA PageHolds ==
    ASSUME Page!GameScreenAssumption, Waiting PROVE Page!Spec => [](PageType /\ PageInv)
<1>1. Page!Init => PageType /\ PageInv
  BY PageAtFirst
<1>2. PageType /\ PageInv /\ [Page!Next]_(Page!vars) => PageType' /\ PageInv'
  BY PageStep
<1> QED BY <1>1, <1>2, PTL DEF Page!Spec

\* A request that is asked for is of the game on screen; a step of one that was, or an
\* answer to the page, asks for nothing.
LEMMA AskedIsShown ==
    ASSUME Waiting, PageType, PageInv, [Page!Next]_(Page!vars)
    PROVE  Page!ActsOnWhatIsShown
<1>0. Page!Patient => Page!Quiet
  BY DEF Waiting, Page!Patient
<1>1. Page!Quiet /\ detail # Nothing => detail.game = chosen /\ chosen # Nothing
  BY DEF PageInv, Page!Quiet
<1>2. ASSUME NEW kind, NEW g, NEW back, Page!Ask(kind, g, back), kind # "record" => g = detail.game
      PROVE  Page!ActsOnWhatIsShown
  <2> DEFINE call == [kind |-> kind, game |-> g, back |-> back, stage |-> "sent", view |-> Nothing]
  <2>1. PICK s \in Page!Slots : calls' = [calls EXCEPT ![s] = call]
    BY <1>2 DEF Page!Ask
  <2>2. call.kind = kind /\ call.game = g
    OBVIOUS
  <2> HIDE DEF call
  <2>3. calls'[s] = call /\ \A t \in Page!Slots : t # s => calls'[t] = calls[t]
    BY <2>1 DEF PageType
  <2> QED BY <1>2, <2>2, <2>3 DEF Page!ActsOnWhatIsShown
<1>3. CASE Page!Press
  <2>1. ASSUME NEW g \in Dated, Page!Select(g) PROVE Page!ActsOnWhatIsShown
    BY <2>1 DEF Page!Select, Page!ActsOnWhatIsShown
  <2>2. ASSUME NEW g \in Dated, Page!RecordGame(g) PROVE Page!ActsOnWhatIsShown
    BY <1>2, <2>2 DEF Page!RecordGame
  <2>3. ASSUME NEW kind, Page!PressBar(kind) PROVE Page!ActsOnWhatIsShown
    BY <1>0, <1>1, <1>2, <2>3 DEF Page!PressBar
  <2>4. ASSUME Page!MoveMember PROVE Page!ActsOnWhatIsShown
    BY <1>0, <1>1, <1>2, <2>4 DEF Page!MoveMember, Page!CanEdit
  <2>5. ASSUME Page!PayShare PROVE Page!ActsOnWhatIsShown
    BY <1>2, <2>5 DEF Page!PayShare
  <2>6. ASSUME NEW kind, Page!SaveBelow(kind) PROVE Page!ActsOnWhatIsShown
    BY <1>2, <2>6 DEF Page!SaveBelow
  <2>7. ~Page!DragMember
    BY DEF Waiting, Page!DragMember
  <2> QED BY <1>3, <2>1, <2>2, <2>3, <2>4, <2>5, <2>6, <2>7 DEF Page!Press
<1>4. ASSUME NEW s \in Page!Slots, Page!OfCall(s) PROVE Page!ActsOnWhatIsShown
  <2>1. calls[s] # Nothing /\ \E call : calls' = [calls EXCEPT ![s] = call]
    BY <1>4 DEF Page!OfCall, Page!Perform, Page!Refuse, Page!Reload, Page!AnswerReload,
                Page!EndReload, Page!ShowReload, Page!EndDelete, Page!EndRecord
  <2>2. \A t \in Page!Slots : t # s => calls'[t] = calls[t]
    BY <2>1 DEF PageType
  <2> QED BY <2>1, <2>2 DEF Page!ActsOnWhatIsShown
<1>5. CASE UNCHANGED calls
  BY <1>5 DEF Page!ActsOnWhatIsShown
<1>6. (\E s \in Page!Slots : Page!OfList(s)) \/ (\E g \in Dated : Page!OfRead(g)) => UNCHANGED calls
  BY DEF Page!OfList, Page!OfRead, Page!AnswerList, Page!ShowList, Page!AnswerRead, Page!ShowRead
<1>7. ~Page!Losses
  BY DEF Waiting, Page!Losses, Page!LoseRead, Page!LoseList, Page!LoseReload
<1>8. Page!Rest \/ UNCHANGED Page!vars => UNCHANGED calls
  BY DEF Page!Rest, Page!vars
<1> QED BY <1>3, <1>4, <1>5, <1>6, <1>7, <1>8 DEF Page!Next

\* ActsOnWhatIsShown: while the organiser waits and every answer comes, a button of the page
\* asks for the game on screen (GameBar.tsx, which takes the game and its state apart).
THEOREM ButtonsActOnWhatIsShown ==
    ASSUME Page!GameScreenAssumption, Waiting
    PROVE  Page!Spec => [][Page!ActsOnWhatIsShown]_(Page!vars)
<1>1. PageType /\ PageInv /\ [Page!Next]_(Page!vars) => [Page!ActsOnWhatIsShown]_(Page!vars)
  BY AskedIsShown
<1> QED BY <1>1, PageHolds, PTL DEF Page!Spec

\* SettledIsFresh: under the same, the page at rest shows the game and the season's games as
\* they are stored (useGameDetail.ts, useGameActions.ts, useDeleteGame.ts).
THEOREM GameShownIsStored ==
    ASSUME Page!GameScreenAssumption, Waiting PROVE Page!Spec => []Page!SettledIsFresh
<1>1. PageType /\ PageInv => Page!SettledIsFresh
  BY DEF PageInv, Fresh, Page!SettledIsFresh, Page!Quiet
<1> QED BY <1>1, PageHolds, PTL

\* With the organiser waiting, whichever answers are lost, a request is alone on its way, and
\* what is read, of it or of a choice, is the game chosen.
OfTheChosen(view) == view # Nothing => view.game = chosen

Alone ==
    /\ \A r \in reads : r.game = chosen /\ OfTheChosen(r.view)
    /\ \A s \in Page!Slots : calls[s] # Nothing =>
          /\ reads = {} /\ lists = {} /\ \A t \in Page!Slots : calls[t] # Nothing => t = s
          /\ calls[s].back \in {chosen, Nothing} /\ OfTheChosen(calls[s].view)

LEMMA ViewOfTheChosen ==
    ASSUME Page!GameScreenAssumption, PageTyped, NEW g \in {chosen, Nothing}
    PROVE  OfTheChosen(Page!View(g))
<1>1. CASE g = Nothing
  BY <1>1 DEF Page!View, OfTheChosen
<1>2. CASE g = chosen /\ g # Nothing
  BY <1>2, ViewIsOfTheGame DEF PageTyped, PageType, OfTheChosen
<1> QED BY <1>1, <1>2

LEMMA AskedAlone ==
    ASSUME PageTyped, Alone, Page!Quiet, NEW kind, NEW g, Page!Ask(kind, g, chosen) \/ Page!Ask(kind, g, Nothing),
           UNCHANGED <<lists, chosen, reads>>
    PROVE  Alone'
<1>1. PICK s \in Page!Slots, back \in {chosen, Nothing} :
         calls' = [calls EXCEPT ![s] = [kind |-> kind, game |-> g, back |-> back,
                                        stage |-> "sent", view |-> Nothing]]
  BY DEF Page!Ask
<1> DEFINE call == [kind |-> kind, game |-> g, back |-> back, stage |-> "sent", view |-> Nothing]
<1>2. call.back = back /\ call.view = Nothing
  OBVIOUS
<1> HIDE DEF call
<1>3. calls'[s] = call /\ \A t \in Page!Slots : t # s => calls'[t] = Nothing
  BY <1>1 DEF PageTyped, PageType, Page!Quiet, Page!NoCalls, call
<1> QED BY <1>2, <1>3 DEF Alone, OfTheChosen, Page!Quiet

LEMMA ChoosingAlone ==
    ASSUME Page!GameScreenAssumption, PageTyped, Alone, NEW g \in Dated \cup {Nothing}, NEW rows,
           Page!Choose(g, rows)
    PROVE  \A r \in reads' : r.game = chosen' /\ OfTheChosen(r.view)'
<1>1. CASE chosen' = chosen
  BY <1>1, ChoosingReads DEF PageTyped, Alone, OfTheChosen
<1>2. CASE chosen' # chosen
  <2> DEFINE only == [game |-> chosen', answered |-> FALSE, view |-> Nothing]
  <2>1. only.game = chosen' /\ only.view = Nothing
    OBVIOUS
  <2>2. reads' = {} \/ reads' = {only}
    BY <1>2, ChoosingReads DEF PageTyped
  <2> HIDE DEF only
  <2> QED BY <2>1, <2>2 DEF OfTheChosen
<1> QED BY <1>1, <1>2

LEMMA PressAlone ==
    ASSUME Page!GameScreenAssumption, Habits = {}, PageTyped, Alone, Page!Press
    PROVE  Alone'
<1>0. Page!Patient => Page!Quiet
  BY DEF Page!Patient
<1>1. ASSUME NEW g \in Dated, Page!Select(g) PROVE Alone'
  <2>1. Page!NoCalls' /\ Page!Choose(g, listed)
    BY <1>1 DEF Page!Select, Page!NoCalls
  <2> QED BY <2>1, ChoosingAlone DEF Alone, Page!NoCalls
<1>2. ASSUME NEW g \in Dated, Page!RecordGame(g) PROVE Alone'
  BY <1>0, <1>2, AskedAlone DEF Page!RecordGame
<1>3. ASSUME NEW kind, Page!PressBar(kind) PROVE Alone'
  BY <1>0, <1>3, AskedAlone DEF Page!PressBar
<1>4. ASSUME Page!MoveMember \/ Page!PayShare PROVE Alone'
  BY <1>0, <1>4, AskedAlone DEF Page!MoveMember, Page!PayShare
<1>5. ASSUME NEW kind, Page!SaveBelow(kind) PROVE Alone'
  BY <1>0, <1>5, AskedAlone DEF Page!SaveBelow
<1>6. ~Page!DragMember
  BY DEF Page!DragMember
<1> QED BY <1>1, <1>2, <1>3, <1>4, <1>5, <1>6 DEF Page!Press

LEMMA CallAlone ==
    ASSUME Page!GameScreenAssumption, PageTyped, Alone, NEW s \in Page!Slots,
           Page!OfCall(s) \/ Page!LoseReload(s)
    PROVE  Alone' /\ Page!AnswersOfTheChosen
<1> DEFINE call == calls[s]
<1>1. call # Nothing
  BY DEF Page!OfCall, Page!Perform, Page!Refuse, Page!Reload, Page!AnswerReload,
         Page!EndReload, Page!EndDelete, Page!EndRecord, Page!LoseReload
<1>2. call \in Page!Call /\ calls \in [Page!Slots -> Page!Call \cup {Nothing}]
  BY <1>1 DEF PageTyped, PageType
<1>3. /\ reads = {} /\ lists = {} /\ \A t \in Page!Slots : t # s => calls[t] = Nothing
      /\ call.back \in {chosen, Nothing} /\ OfTheChosen(call.view)
  BY <1>1 DEF Alone
<1>4. ASSUME NEW next, next.back = call.back, OfTheChosen(next.view),
             calls' = [calls EXCEPT ![s] = next], UNCHANGED <<lists, chosen, detail, reads>>
      PROVE  Alone' /\ Page!AnswersOfTheChosen
  <2>1. calls'[s] = next /\ \A t \in Page!Slots : t # s => calls'[t] = Nothing
    BY <1>2, <1>3, <1>4
  <2>2. Alone'
    BY <1>3, <1>4, <2>1 DEF Alone, OfTheChosen
  <2> QED BY <1>4, <2>2 DEF Page!AnswersOfTheChosen
<1>5. ASSUME calls' = [calls EXCEPT ![s] = Nothing],
             \A r \in reads' : r.game = chosen' /\ OfTheChosen(r.view)'
      PROVE  Alone'
  <2>1. \A t \in Page!Slots : calls'[t] = Nothing
    BY <1>2, <1>3, <1>5
  <2> QED BY <1>5, <2>1 DEF Alone
<1>6. CASE Page!Perform(s)
  <2> DEFINE next == [call EXCEPT !.stage = "done"]
  <2>1. next.back = call.back /\ next.view = call.view
    BY <1>2 DEF Page!Call
  <2> QED BY <1>3, <1>4, <1>6, <2>1 DEF Page!Perform
<1>7. CASE Page!Reload(s)
  <2> DEFINE next == [call EXCEPT !.stage = "reload"]
  <2>1. next.back = call.back /\ next.view = call.view
    BY <1>2 DEF Page!Call
  <2> QED BY <1>3, <1>4, <1>7, <2>1 DEF Page!Reload
<1>8. CASE Page!AnswerReload(s)
  <2> DEFINE next == [call EXCEPT !.stage = "answered", !.view = Page!View(call.back)]
  <2>1. next.back = call.back /\ next.view = Page!View(call.back)
    BY <1>2 DEF Page!Call
  <2>2. OfTheChosen(Page!View(call.back))
    BY <1>3, ViewOfTheChosen
  <2> HIDE DEF call
  <2> QED BY <1>4, <1>8, <2>1, <2>2 DEF Page!AnswerReload, call
<1>9. CASE Page!Refuse(s)
  BY <1>3, <1>5, <1>9 DEF Page!Refuse, Page!AnswersOfTheChosen
<1>10. ASSUME NEW view, OfTheChosen(view), Page!ShowReload(s, view)
       PROVE  Alone' /\ Page!AnswersOfTheChosen
  BY <1>3, <1>5, <1>10 DEF Page!ShowReload, Page!Shown, OfTheChosen, Page!AnswersOfTheChosen
<1>11. CASE Page!EndReload(s) \/ Page!LoseReload(s)
  BY <1>3, <1>10, <1>11 DEF Page!EndReload, Page!LoseReload, OfTheChosen
<1>12. CASE Page!EndDelete(s)
  <2>1. \A r \in reads' : r.game = chosen' /\ OfTheChosen(r.view)'
    BY <1>12, ChoosingAlone DEF Page!EndDelete
  <2> QED BY <1>5, <1>12, <2>1 DEF Page!EndDelete, Page!AnswersOfTheChosen
<1>13. CASE Page!EndRecord(s)
  <2>1. call.game \in Dated
    BY <1>2 DEF Page!Call
  <2>2. \A r \in reads' : r.game = chosen' /\ OfTheChosen(r.view)'
    BY <1>13, <2>1, ChoosingAlone DEF Page!EndRecord
  <2> QED BY <1>5, <1>13, <2>2 DEF Page!EndRecord, Page!AnswersOfTheChosen
<1> QED BY <1>6, <1>7, <1>8, <1>9, <1>11, <1>12, <1>13 DEF Page!OfCall

LEMMA AnswerAlone ==
    ASSUME Page!GameScreenAssumption, PageTyped, Alone,
           \/ \E r \in reads : Page!AnswerRead(r) \/ Page!ShowRead(r) \/ Page!LoseRead(r)
           \/ \E l \in lists : Page!AnswerList(l) \/ Page!ShowList(l) \/ Page!LoseList(l)
    PROVE  Alone' /\ Page!AnswersOfTheChosen
<1>1. Page!NoCalls /\ UNCHANGED calls
  BY DEF Alone, Page!NoCalls, Page!AnswerRead, Page!ShowRead, Page!LoseRead, Page!AnswerList,
         Page!ShowList, Page!LoseList
<1>2. ASSUME \A r \in reads' : r.game = chosen' /\ OfTheChosen(r.view)' PROVE Alone'
  BY <1>1, <1>2 DEF Alone, Page!NoCalls
<1>3. ASSUME NEW r \in reads, Page!AnswerRead(r) PROVE Alone' /\ Page!AnswersOfTheChosen
  <2> DEFINE told == [r EXCEPT !.answered = TRUE, !.view = Page!View(r.game)]
  <2>1. r.game = chosen /\ r \in Page!Read
    BY DEF Alone, PageTyped, PageType
  <2>2. told.game = chosen /\ told.view = Page!View(chosen)
    BY <2>1 DEF Page!Read
  <2>3. OfTheChosen(Page!View(chosen))
    BY ViewOfTheChosen
  <2>4. reads' = (reads \ {r}) \cup {told} /\ UNCHANGED <<chosen, detail>>
    BY <1>3 DEF Page!AnswerRead
  <2> HIDE DEF told
  <2>5. \A q \in reads' : q.game = chosen' /\ OfTheChosen(q.view)'
    BY <2>2, <2>3, <2>4 DEF Alone, OfTheChosen
  <2> QED BY <1>2, <2>4, <2>5 DEF Page!AnswersOfTheChosen
<1>4. ASSUME NEW r \in reads, Page!ShowRead(r) \/ Page!LoseRead(r)
      PROVE  Alone' /\ Page!AnswersOfTheChosen
  <2>1. /\ reads' = reads \ {r} /\ chosen' = chosen /\ OfTheChosen(r.view)
        /\ detail' \in {detail, r.view}
    BY <1>4 DEF Page!ShowRead, Page!LoseRead, Page!Shown, Alone
  <2>2. \A q \in reads' : q.game = chosen' /\ OfTheChosen(q.view)'
    BY <2>1 DEF Alone, OfTheChosen
  <2> QED BY <1>2, <2>1, <2>2 DEF Page!AnswersOfTheChosen, OfTheChosen
<1>5. ASSUME NEW l \in lists, Page!ShowList(l) PROVE Alone' /\ Page!AnswersOfTheChosen
  <2>1. chosen \in Dated \cup {Nothing}
    BY DEF PageTyped, PageType
  <2>2. \A r \in reads' : r.game = chosen' /\ OfTheChosen(r.view)'
    BY <1>5, <2>1, ChoosingAlone DEF Page!ShowList
  <2> QED BY <1>2, <1>5, <2>2 DEF Page!ShowList, Page!AnswersOfTheChosen
<1>6. ASSUME NEW l \in lists, Page!AnswerList(l) \/ Page!LoseList(l)
      PROVE  Alone' /\ Page!AnswersOfTheChosen
  <2>1. UNCHANGED <<chosen, detail, reads>>
    BY <1>6 DEF Page!AnswerList, Page!LoseList
  <2>2. \A r \in reads' : r.game = chosen' /\ OfTheChosen(r.view)'
    BY <2>1 DEF Alone, OfTheChosen
  <2> QED BY <1>2, <2>1, <2>2 DEF Page!AnswersOfTheChosen
<1> QED BY <1>3, <1>4, <1>5, <1>6

LEMMA AloneStep ==
    ASSUME Page!GameScreenAssumption, Habits = {}, PageTyped, Alone, [Page!Next]_(Page!vars)
    PROVE  Alone' /\ Page!AnswersOfTheChosen
<1>1. CASE Page!Press
  <2>1. UNCHANGED detail
    BY <1>1 DEF Page!Press, Page!Select, Page!RecordGame, Page!PressBar, Page!MoveMember,
                Page!DragMember, Page!PayShare, Page!SaveBelow
  <2> QED BY <1>1, <2>1, PressAlone DEF Page!AnswersOfTheChosen
<1>2. CASE Page!Losses
  BY <1>2, CallAlone, AnswerAlone DEF Page!Losses
<1>3. ASSUME NEW s \in Page!Slots, Page!OfCall(s) \/ Page!OfList(s)
      PROVE  Alone' /\ Page!AnswersOfTheChosen
  BY <1>3, CallAlone, AnswerAlone DEF Page!OfList
<1>4. ASSUME NEW g \in Dated, Page!OfRead(g) PROVE Alone' /\ Page!AnswersOfTheChosen
  BY <1>4, AnswerAlone DEF Page!OfRead
<1>5. CASE Page!Rest \/ UNCHANGED Page!vars
  <2>1. UNCHANGED <<lists, chosen, detail, reads, calls>>
    BY <1>5 DEF Page!Rest, Page!vars
  <2> QED BY <2>1 DEF Alone, OfTheChosen, Page!AnswersOfTheChosen
<1> QED BY <1>1, <1>2, <1>3, <1>4, <1>5 DEF Page!Next

\* AnswersOfTheChosen: while the organiser waits, whichever answers are lost, what comes on
\* screen is an answer for the game chosen (useGameDetail.ts).
THEOREM AnswersAreOfTheChosen ==
    ASSUME Page!GameScreenAssumption, Habits = {}
    PROVE  Page!Spec => [][Page!AnswersOfTheChosen]_(Page!vars)
<1>1. ASSUME Page!Init PROVE Alone
  BY <1>1 DEF Page!Init, Alone
<1>2. PageTyped /\ Alone /\ [Page!Next]_(Page!vars) => Alone' /\ [Page!AnswersOfTheChosen]_(Page!vars)
  BY AloneStep
<1> QED BY <1>1, <1>2, PageStaysTyped, PTL DEF Page!Spec
=============================================================================
