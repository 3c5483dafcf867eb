------------------------------ MODULE MCScreens ------------------------------
(***************************************************************************)
(* The pages of the browser, each walked by itself: `page` says which one  *)
(* a behaviour is about, and what belongs to the others is None and stays  *)
(* so.  No page shares state with another but through the server, which    *)
(* each module has its own view of.                                        *)
(***************************************************************************)
EXTENDS Naturals, SequencesExt, Functions

CONSTANTS Pages,        \* those that are walked
          LosesAnswers, \* requests fail and answers are lost, and nobody waits for them
          None

VARIABLES page,
          \* of several pages
          server, listed, lists, reads, call, chosen, rows, tasks, presses, failures,
          \* of one
          savedLines, loaded, load, removed,
          detail, calls, busy,
          bizum, dialog, form,
          panel, returned, reading, loads,
          game, team, pages, pastes, resolves, changes,
          debts, payments, price, screens, bizums,
          seasons, games, season, missing, tab, error,
          field, unread

OfList   == <<savedLines, loaded, load, removed>>
OfGame   == <<detail, calls, busy>>
OfDesk   == <<bizum, dialog, form>>
OfBank   == <<panel, returned, reading, loads>>
OfTeams  == <<game, team, pages, pastes, resolves, changes>>
OfDebts  == <<debts, payments, price, screens, bizums>>
OfSeason == <<seasons, games, season, missing, tab, error>>
OfPlayers == <<field, unread>>

vars == <<page, server, listed, lists, reads, call, chosen, rows, tasks, presses, failures,
          OfList, OfGame, OfDesk, OfBank, OfTeams, OfDebts, OfSeason, OfPlayers>>

-----------------------------------------------------------------------------
(* A list of two players, of two lines at most; or of one. *)

List == INSTANCE CandidateDraft WITH
    Names <- {"Ana", "Bea"}, MaxLines <- IF LosesAnswers THEN 1 ELSE 2, WaitsForList <- TRUE, OtherTab <- FALSE

(* Two games, one still to be registered, and time for two requests at once; or one
   game whose members are dragged without waiting. *)

Game == INSTANCE GameScreen WITH
    Games      <- IF LosesAnswers THEN {1} ELSE {1, 2},
    Unrecorded <- IF LosesAnswers THEN {} ELSE {2},
    Deletable  <- IF LosesAnswers THEN {} ELSE {1},
    Today      <- IF LosesAnswers THEN 1 ELSE 2,
    MaxEdits   <- IF LosesAnswers THEN 1 ELSE 2,
    MaxCalls   <- 2,
    Habits     <- IF LosesAnswers THEN {"drags"} ELSE {}

(* Three players who owe four shares, the second of which the first player answers for and
   the last of which is dearer and of a season before. *)

Price1 == <<1, 1, 1, 2>>

Desk == INSTANCE DeskScreen WITH
    Players <- {1, 2, 3}, Debts <- 1..4, MemberOf <- <<1, 2, 1, 3>>, HolderOf <- <<1, 1, 1, 3>>,
    Price <- Price1, Amount <- 4, Near <- 1..3, Shares <- 2, Suggestion <- 2,
    Known <- {1, None}, Coming <- {}, Others <- FALSE, Habits <- {}

(* The same with two players, one of whom answers for a share of the other, one game
   still to be played and other pages at work. *)

DeskShared == INSTANCE DeskScreen WITH
    Players <- {1, 2}, Debts <- 1..4, MemberOf <- <<1, 2, 1, 2>>, HolderOf <- <<1, 1, 1, 2>>,
    Price <- Price1, Amount <- 3, Near <- 1..3, Shares <- 2, Suggestion <- 2,
    Known <- {None}, Coming <- {3}, Others <- TRUE, Habits <- {}, LosesAnswers <- TRUE

(* "fútbol" and "futbol", both of which a new list has, "Fútbol", another word and one too
   long; today and tomorrow; or fewer words, today, and "Leer ahora". *)

Words  == IF LosesAnswers THEN {"plain", "liga"} ELSE {"accented", "plain", "capital", "liga", "long"}
Folded == [w \in Words |-> IF w \in {"liga", "long"} THEN w ELSE "plain"]

Bank == INSTANCE BankPanel WITH
    Initial  <- Words \cap {"accented", "plain"}, Long <- Words \cap {"long"},
    Days     <- IF LosesAnswers THEN {1} ELSE {1, 2},
    Future   <- IF LosesAnswers THEN {} ELSE {2},
    Presses  <- IF LosesAnswers THEN 2 ELSE 3,
    Reads    <- IF LosesAnswers THEN 2 ELSE 0,
    Failures <- IF LosesAnswers THEN 2 ELSE 0

(* Two players with a name of their own, a nickname they share, and a name nobody has;
   the pastes name a player twice, under both headings, beside a line that needs the
   organiser. *)

Spellings == {"Ana", "Bea", "Pepito", "Nadie"}
Fits == [s \in Spellings |-> CASE s = "Ana" -> {"ana"} [] s = "Bea" -> {"bea"}
                               [] s = "Pepito" -> {"ana", "bea"} [] OTHER -> {}]
Texts == {<<"claros", "-----", "Ana", "Pepito", "oscuros", "Bea", "+1">>,
          <<"oscuros", "Ana", "Nadie", "claros", "Bea", "Ana">>,
          <<"claros", "Nadie", "oscuros", "Pepito">>,
          <<"Bea", "claros", "Ana">>}

Teams == INSTANCE Teams WITH
    Players <- {"ana", "bea"}, Pages <- {"page"}, Pastes <- 2, Resolves <- 2,
    Changes <- 2, Failures <- 1, Careful <- TRUE

(* Ana pays for herself; Fer answers for his own share, for Luis, whom he brought, and
   for his +1. *)

Sharers == {"ana", "fer", "luis", "fer+1"}
Ids == CHOOSE f \in Bijection(Sharers, 1..4) : TRUE

Debts == INSTANCE PaymentScreen WITH
    Players <- Sharers \ {"fer+1"}, PlusOnes <- {"fer+1"}, Others <- {},
    FirstHolder <- [m \in Sharers |-> IF m = "ana" THEN "ana" ELSE "fer"],
    FirstId <- Ids, Prices <- <<4, 3>>, Screens <- {"page"}, Kinds <- {"game", "debts"},
    Presses <- 2, Bizums <- 1, Failures <- 0

(* Two seasons of three days each, and today the second day of the later one; or its
   first, when it has not been created. *)

Season == INSTANCE SeasonScreen WITH
    Seasons <- {24, 25}, SeasonOf <- [d \in 1..6 |-> IF d <= 3 THEN 24 ELSE 25],
    FirstSeasons <- IF LosesAnswers THEN {24} ELSE {24, 25},
    FirstGames   <- IF LosesAnswers THEN {1, 2} ELSE {1, 2, 4},
    PlayedGames  <- IF LosesAnswers THEN {1} ELSE {1, 2, 4},
    Today        <- IF LosesAnswers THEN 4 ELSE 5,
    UtcToday     <- IF LosesAnswers THEN 4 ELSE 5,
    Patient <- TRUE, InOrder <- TRUE, Presses <- 3, Failures <- IF LosesAnswers THEN 0 ELSE 1

(* Ana, who introduced Bea and has played with her; Bea, whom Leo brings too, enrolled in no
   season; and Leo, who has never been in a list.  Typed, "leo" is Leo to all but the
   database. *)

Person(name, took, nicks, hosts, by, emails, phone, seniority) ==
    [name |-> name, nicks |-> nicks, hosts |-> hosts, introducedBy |-> by,
     role |-> IF name = "Ana" THEN "fijo" ELSE None, emails |-> emails, phone |-> phone,
     seasons |-> seniority, took |-> took, playedAsFijo |-> name = "Ana"]
Registered == <<Person("Ana", {"game", "account"}, {}, <<>>, None, <<"ana@">>, None, 2),
                Person("Bea", {"game"}, {"Bichi"}, <<1, 3>>, 1, <<"bea@">>, "600", None),
                Person("Leo", {}, {}, <<2>>, None, <<>>, None, 3)>>
Written == {"Ana", "Bea", "Leo", "leo", "Bichi", "Lito"}

Players == INSTANCE PlayersScreen WITH
    FirstRows <- Registered, Typed <- {"Bea", "leo"},
    Folded <- [n \in Written |-> IF n = "leo" THEN "Leo" ELSE n],
    Nicks <- {"Lito"}, Emails <- {<<>>, <<"leo">>}, BadEmails <- {<<"leo">>},
    Phones <- {"611"}, Seniorities <- {0}, Patient <- TRUE, Presses <- 2, Failures <- 1

ASSUME Assumptions ==
    /\ List!CandidateDraftAssumption
    /\ Game!GameScreenAssumption /\ Desk!DeskScreenAssumption /\ DeskShared!DeskScreenAssumption
    /\ Bank!BankPanelAssumption /\ Teams!TeamsAssumption /\ Debts!PaymentScreenAssumption
    /\ Season!SeasonScreenAssumption /\ Players!PlayersScreenAssumption

-----------------------------------------------------------------------------
NoList   == savedLines = None /\ loaded = None /\ load = None /\ removed = None
NoGame   == detail = None /\ calls = None /\ busy = None
NoDesk   == bizum = None /\ dialog = None /\ form = None
NoBank   == panel = None /\ returned = None /\ reading = None /\ loads = None
NoTeams  == /\ game = None /\ team = None /\ pages = None
            /\ pastes = None /\ resolves = None /\ changes = None
NoDebts  == debts = None /\ payments = None /\ price = None /\ screens = None /\ bizums = None
NoSeason == /\ seasons = None /\ games = None /\ season = None /\ missing = None
            /\ tab = None /\ error = None
NoPlayers == field = None /\ unread = None
NoTable  == rows = None /\ tasks = None /\ NoPlayers

InitList   == /\ page = "list" /\ List!Init
              /\ listed = None /\ lists = None /\ reads = None /\ chosen = None
              /\ presses = None /\ failures = None
              /\ NoGame /\ NoDesk /\ NoBank /\ NoTeams /\ NoDebts /\ NoSeason
              /\ tasks = None /\ NoPlayers
InitGame   == /\ page = "game" /\ Game!Init
              /\ call = None /\ presses = None /\ failures = None
              /\ NoList /\ NoDesk /\ NoBank /\ NoTeams /\ NoDebts /\ NoSeason
              /\ NoTable
InitDesk   == /\ \/ page = "desk" /\ Desk!Init
                 \/ page = "shared desk" /\ DeskShared!Init
              /\ server = None /\ chosen = None /\ presses = None /\ failures = None
              /\ NoList /\ NoGame /\ NoBank /\ NoTeams /\ NoDebts /\ NoSeason
              /\ NoTable
InitBank   == /\ page = "bank" /\ Bank!Init
              /\ listed = None /\ lists = None /\ chosen = None
              /\ NoList /\ NoGame /\ NoDesk /\ NoTeams /\ NoDebts /\ NoSeason
              /\ NoTable
InitTeams  == /\ page = "teams" /\ Teams!Init
              /\ server = None /\ listed = None /\ lists = None /\ reads = None /\ call = None
              /\ chosen = None /\ presses = None
              /\ NoList /\ NoGame /\ NoDesk /\ NoBank /\ NoDebts /\ NoSeason
              /\ NoTable
InitDebts  == /\ page = "debts" /\ Debts!Init
              /\ server = None /\ listed = None /\ lists = None /\ reads = None /\ call = None
              /\ chosen = None
              /\ NoList /\ NoGame /\ NoDesk /\ NoBank /\ NoTeams /\ NoSeason
              /\ NoTable
InitSeason == /\ page = "season" /\ Season!Init
              /\ server = None /\ reads = None /\ call = None
              /\ NoList /\ NoGame /\ NoDesk /\ NoBank /\ NoTeams /\ NoDebts
              /\ rows = None /\ NoPlayers
InitPlayers == /\ page = "players" /\ Players!Init
              /\ listed = None /\ lists = None /\ reads = None /\ call = None
              /\ NoList /\ NoGame /\ NoDesk /\ NoBank /\ NoTeams /\ NoDebts /\ NoSeason

Init == /\ page \in Pages
        /\ \/ InitList \/ InitGame \/ InitDesk \/ InitBank \/ InitTeams \/ InitDebts \/ InitSeason \/ InitPlayers

-----------------------------------------------------------------------------
(* What a step of each page leaves alone *)

ElsewhereList   == <<page, tasks, listed, lists, reads, chosen, presses, failures,
                     OfGame, OfDesk, OfBank, OfTeams, OfDebts, OfSeason, OfPlayers>>
ElsewhereGame   == <<page, rows, tasks, call, presses, failures,
                     OfList, OfDesk, OfBank, OfTeams, OfDebts, OfSeason, OfPlayers>>
ElsewhereDesk   == <<page, rows, tasks, server, chosen, presses, failures,
                     OfList, OfGame, OfBank, OfTeams, OfDebts, OfSeason, OfPlayers>>
ElsewhereBank   == <<page, rows, tasks, listed, lists, chosen,
                     OfList, OfGame, OfDesk, OfTeams, OfDebts, OfSeason, OfPlayers>>
ElsewhereTeams  == <<page, rows, tasks, server, listed, lists, reads, call, chosen, presses,
                     OfList, OfGame, OfDesk, OfBank, OfDebts, OfSeason, OfPlayers>>
ElsewhereDebts  == <<page, rows, tasks, server, listed, lists, reads, call, chosen,
                     OfList, OfGame, OfDesk, OfBank, OfTeams, OfSeason, OfPlayers>>
ElsewhereSeason == <<page, rows, server, reads, call,
                     OfList, OfGame, OfDesk, OfBank, OfTeams, OfDebts, OfPlayers>>
ElsewherePlayers == <<page, listed, lists, reads, call,
                      OfList, OfGame, OfDesk, OfBank, OfTeams, OfDebts, OfSeason>>

NextList       == page = "list" /\ List!Next /\ UNCHANGED ElsewhereList
NextGame       == page = "game" /\ Game!Next /\ UNCHANGED ElsewhereGame
NextDesk       == page = "desk" /\ Desk!Next /\ UNCHANGED ElsewhereDesk
NextDeskShared == page = "shared desk" /\ DeskShared!Next /\ UNCHANGED ElsewhereDesk
NextBank       == page = "bank" /\ Bank!Next /\ UNCHANGED ElsewhereBank
NextTeams      == page = "teams" /\ Teams!Next /\ UNCHANGED ElsewhereTeams
NextDebts      == page = "debts" /\ Debts!Next /\ UNCHANGED ElsewhereDebts
NextSeason     == page = "season" /\ Season!Next /\ UNCHANGED ElsewhereSeason
NextPlayers    == page = "players" /\ Players!Next /\ UNCHANGED ElsewherePlayers

Next == \/ NextList \/ NextGame \/ NextDesk \/ NextDeskShared
        \/ NextBank \/ NextTeams \/ NextDebts \/ NextSeason \/ NextPlayers

Spec == Init /\ [][Next]_vars

\* Every request is in the end answered, or fails, and the page treats what comes; each
\* module says so of its own actions.
FairList == /\ WF_vars(page = "list" /\ List!AnswerLoad /\ UNCHANGED ElsewhereList)
            /\ WF_vars(page = "list" /\ List!ShowLoad /\ UNCHANGED ElsewhereList)
            /\ WF_vars(page = "list" /\ List!Answer /\ UNCHANGED ElsewhereList)
            /\ WF_vars(page = "list" /\ List!Arrive /\ UNCHANGED ElsewhereList)
            /\ WF_vars(page = "list" /\ List!Fail /\ UNCHANGED ElsewhereList)
FairGame == /\ \A s \in Game!Slots :
                  /\ WF_vars(page = "game" /\ Game!OfCall(s) /\ UNCHANGED ElsewhereGame)
                  /\ WF_vars(page = "game" /\ Game!OfList(s) /\ UNCHANGED ElsewhereGame)
            /\ \A g \in 1..2 :
                  WF_vars(page = "game" /\ Game!OfRead(g) /\ UNCHANGED ElsewhereGame)
FairDesk == /\ WF_vars(page = "shared desk" /\ DeskShared!OfCall /\ UNCHANGED ElsewhereDesk)
            /\ \A s \in DeskShared!Seats :
                  WF_vars(page = "shared desk" /\ DeskShared!OfList(s) /\ UNCHANGED ElsewhereDesk)
FairBank == /\ WF_vars(page = "bank" /\ Bank!Perform /\ UNCHANGED ElsewhereBank)
            /\ WF_vars(page = "bank" /\ Bank!ReadAnswered /\ UNCHANGED ElsewhereBank)
            /\ WF_vars(page = "bank" /\ Bank!Finish /\ UNCHANGED ElsewhereBank)
            /\ WF_vars(page = "bank" /\ Bank!GoToBank /\ UNCHANGED ElsewhereBank)
            /\ WF_vars(page = "bank" /\ Bank!Refuse /\ UNCHANGED ElsewhereBank)
            /\ \A s \in Bank!Slots :
                  /\ WF_vars(page = "bank" /\ Bank!AnswerLoad(s) /\ UNCHANGED ElsewhereBank)
                  /\ WF_vars(page = "bank" /\ Bank!Show(s) /\ UNCHANGED ElsewhereBank)
FairSeason == /\ WF_vars(page = "season" /\ Season!Perform /\ UNCHANGED ElsewhereSeason)
              /\ WF_vars(page = "season" /\ Season!Arrive /\ UNCHANGED ElsewhereSeason)

FairSpec == Spec /\ FairList /\ FairGame /\ FairDesk /\ FairBank /\ FairSeason

-----------------------------------------------------------------------------
(* Properties *)

\* With nothing on its way, a page shows what is stored: the draft that says nothing is
\* unsaved (candidateDraft.ts, "whether the list on screen differs from the one last
\* saved"), the game and the list of games (useGameDetail.ts, "kept fresh by reload"), the
\* waiting Bizum, the panel of the bank (useBankActions.ts, "Each action reads the panel and
\* the banner again"), the lists and the game of the season it names, the players listed
\* (usePlayerDirectory.ts, "Each action reads everyone again afterwards"), and the teams of the
\* last paste, which are all there are (ciclo-del-partido.md, "Volver a pegar sustituye los
\* equipos anteriores").
SettledIsStored ==
    /\ page = "list" => List!SavedIsSaved
    /\ page = "game" => Game!SettledIsFresh
    /\ page = "desk" => Desk!ListIsFresh /\ Desk!RowsOfTheChosen
    /\ page = "bank" => Bank!SettledIsFresh
    /\ page = "teams" => Teams!ShownIsStored /\ Teams!OnePaste
    /\ page = "players" => Players!SettledIsFresh
    /\ page = "season" => Season!ListsAreOfTheSeason /\ Season!ChosenIsOfTheSeason

\* Of what a page that has settled lets through, the server refuses this and no more: a ruling
\* with one share ticked twice, and never for its money (rulingPreview.ts, "It never pays
\* shares worth more than the Bizum"); of the panel of the bank, a date to come and a word just
\* written that is too long or there in other letters (bank-settings-service.ts, "none a repeat
\* of another once folded"); of a player, no introducer nor nickname it offers; and every share
\* shown as owed can be paid, each counted once in what its row says it owes (paymentCell.ts).
OnlyTheseAreRefused ==
    /\ page = "desk" => Desk!OnlyTwiceIsRefused /\ Desk!TickedIsCovered
    /\ page = "bank" => Bank!OnlyWhatIsWrittenIsRefused
    /\ page = "players" => Players!ChosenIsAccepted
    /\ page = "debts" => Debts!EveryDebtCanBePaid /\ Debts!OwedIsOffered

\* What is done is what was on screen when its button was pressed: to the game shown, with
\* the shares ticked (rulingPreview.ts, "What paying `shares` of the open shares would do,
\* before the organiser decides"), of the amount the button says, undoing what the dialog
\* listed and passing on the share it named; and what is shown is of the game chosen
\* (useGameDetail.ts, "Choosing another game while one is being read must not let the first
\* answer replace the second's").
DoesWhatWasShown ==
    [][/\ page = "game" => Game!ActsOnWhatIsShown /\ Game!AnswersOfTheChosen
       /\ page = "desk" => Desk!RuledAsShown
       /\ page = "debts" => /\ Debts!PaysWhatItSays /\ Debts!AllOrNothing
                            /\ Debts!UndoesWhatWasAsked /\ Debts!ReassignsTheShareNamed]_vars

\* Saving a list signs out nobody but who was taken off it on the page (CandidateList.tsx,
\* "Pasting adds to it"), and adding or taking off a word changes no other of either list
\* (bankPanel.ts, "Both lists after adding a word"); correcting a usual host leaves the
\* others as they were, a merge loses nothing that was known of either player
\* (player-merge-service.ts), and a field left with nothing typed changes nothing.
NothingElseIsLost ==
    [][/\ page = "list" => List!OnlyRemovedAreDropped
       /\ page = "bank" => Bank!WordsKept
       /\ page = "players" => /\ Players!OneHostAtATime /\ Players!MergeKeepsWhatWasKnown
                              /\ Players!UntypedIsKept]_vars

\* However the Bizum is ruled, from whichever page, and whatever is lost and pressed again,
\* it pays once, and not more than it brought.
PaidOnce == [][page = "shared desk" => DeskShared!PaidOnce]_vars

\* A paste stores each player of the convocatoria it names on the team of the first line
\* that does, and nobody else (team-paste-service.ts).
FirstLineCounts == [][page = "teams" => Teams!FirstLineCounts]_vars


\* A request of the page shown has not ended.
Waiting ==
    \/ page = "list" /\ List!busy
    \/ page = "game" /\ busy
    \/ page \in {"shared desk", "bank"} /\ call # None
Reading == page = "bank" /\ reading

\* The prompt has created season s, and the page has not moved to it.
Creating(s) == page = "season" /\ \E t \in tasks : Season!Asks(t, "prompt") /\ t.makes = s /\ t.answer.done

\* Whatever becomes of a request, the buttons of its page are enabled again and "Leyendo..."
\* ends; and a season the prompt has created is the one the page ends up looking at
\* (AdminShell.tsx, "Move to the season just created, not the one being looked at.").
BusyEnds ==
    /\ Waiting ~> ~Waiting
    /\ Reading ~> ~Reading
    /\ \A s \in {24, 25} : Creating(s) ~> page = "season" /\ season = s
=============================================================================
