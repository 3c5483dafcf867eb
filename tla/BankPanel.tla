------------------------------ MODULE BankPanel ------------------------------
(***************************************************************************)
(* Ajustes > Banco in the browser (web/src/components/BankPanel.tsx with   *)
(* its cards, hooks/useBankActions.ts and hooks/useReadNow.ts) against the *)
(* routes that answer it (server/src/routes/bank-admin-router.ts).         *)
(*                                                                         *)
(* What is pressed is asked, done by the server and answered, and then the *)
(* panel is read again.  "Leer ahora" is not held back by the rest, nor    *)
(* the rest by it, and it reads the panel again too: two readings may be   *)
(* answered in either order.  Both lists of words are always sent whole.   *)
(* The currency and the account, chosen as the date is, are BankReading's; *)
(* the strip above the tabs, the players' Bizum names and what connecting  *)
(* is refused for (the bank's answer, or no setup) are left out.           *)
(***************************************************************************)
EXTENDS Naturals, FiniteSets

CONSTANTS Words, Folded,  \* what may be written in a list, and each without capitals or accents
          Initial,        \* those a new list begins with
          Long,           \* those of more characters than a word may have
          Days, Future,   \* start dates, and those after today
          Presses, Reads, \* how often something, and "Leer ahora", is pressed (bounds)
          Failures,       \* answers lost (a bound)
          None

VARIABLES
    server,   \* the settings and the connection, as stored
    panel,    \* the panel shown, or None before it is first read
    returned, \* the code of the redirect the page was opened with, or None
    call,     \* what has been pressed and is not over, or None
    reading,  \* "Leyendo..."
    loads,    \* of each reading of the panel on its way: "asked" or what it answers
    presses, reads, failures

vars == <<server, panel, returned, call, reading, loads, presses, reads, failures>>

Lists == {"include", "exclude"}
View  == [include : SUBSET Words, exclude : SUBSET Words, from : Days \cup {None},
          connection : {"none", "connected", "reconnect_needed"}]
Opening == 0
Action  == Reads + 1
Slots   == Opening..Action   \* with each press of "Leer ahora" between
\* What the redirect says of the connection, read off the address when the page opens.
Returned == {"connected", "failed", None}

Call  == [op : {"words"}, include : SUBSET Words, exclude : SUBSET Words, word : Words]
         \cup [op : {"change"}, from : Days] \cup [op : {"connect", "disconnect"}]
Pressed == [asked : Call, at : {"sent", "done", "refused", "reading"}]

BankPanelAssumption ==
    /\ Folded \in [Words -> Words] /\ Initial \subseteq Words /\ Long \subseteq Words \ Initial
    /\ Future \subseteq Days
    /\ {Presses, Reads, Failures} \subseteq Nat /\ None \notin Days \cup View \cup Pressed

TypeOK ==
    /\ server \in View /\ panel \in View \cup {None}
    /\ returned \in Returned
    /\ call \in Pressed \cup {None}
    /\ (call # None /\ call.at = "reading" <=> Action \in DOMAIN loads) /\ reading \in BOOLEAN
    /\ DOMAIN loads \subseteq Slots /\ \A s \in DOMAIN loads : loads[s] \in [answer : View \cup {None}]
    /\ presses \in 0..Presses /\ reads \in 0..Reads /\ failures \in 0..Failures

Init ==
    /\ server = [include |-> Initial, exclude |-> {}, from |-> None, connection |-> "none"]
    /\ panel = None /\ returned = None /\ call = None /\ reading = FALSE
    /\ loads = [s \in {Opening} |-> [answer |-> None]]
    /\ presses = 0 /\ reads = 0 /\ failures = 0

With(slot, answer) == [s \in DOMAIN loads \cup {slot} |->
                          IF s = slot THEN [answer |-> answer] ELSE loads[s]]
Without(slot) == [s \in DOMAIN loads \ {slot} |-> loads[s]]

Ready(view) == view.connection = "connected" /\ view.from # None

-----------------------------------------------------------------------------
(* What is pressed *)

Press(asked) ==
    /\ panel # None /\ call = None /\ presses < Presses /\ presses' = presses + 1
    /\ call' = [asked |-> asked, at |-> "sent"]
    /\ UNCHANGED <<server, panel, returned, reading, loads, reads, failures>>

AskWords(list, words, word) ==
    Press([op |-> "words", word |-> word,
           include |-> IF list = "include" THEN words ELSE panel.include,
           exclude |-> IF list = "exclude" THEN words ELSE panel.exclude])

\* One the list has already changes nothing, and is sent all the same.
AddWord(list, word) == panel # None /\ AskWords(list, panel[list] \cup {word}, word)

RemoveWord(list, word) ==
    panel # None /\ word \in panel[list] /\ AskWords(list, panel[list] \ {word}, word)

SaveDate(from) == panel # None /\ from # panel.from /\ Press([op |-> "change", from |-> from])

\* To connect, or to renew what is connected.
Connect == Press([op |-> "connect"])

\* Offered with any connection, after asking.
Disconnect == panel # None /\ panel.connection # "none" /\ Press([op |-> "disconnect"])

\* Not disabled by what else is on its way.
ReadNow ==
    /\ panel # None /\ Ready(panel) /\ ~reading /\ reads < Reads
    /\ reading' = TRUE /\ reads' = reads + 1
    /\ UNCHANGED <<server, panel, returned, call, loads, presses, failures>>

-----------------------------------------------------------------------------
(* The server *)

\* Short words, none of them twice, but for those the first list has in two spellings.
Accepted(words) ==
    /\ words \cap Long = {}
    /\ \A v, w \in words : v # w /\ Folded[v] = Folded[w] => {v, w} \subseteq Initial

\* A fault: the list that is not changed is emptied.
DoneOneList(asked) ==
    CASE asked.op = "words" ->
        [server EXCEPT !.include = asked.include,
                       !.exclude = IF asked.include = server.include THEN asked.exclude ELSE {}]
      [] asked.op = "change" -> [server EXCEPT !.from = asked.from]
      [] asked.op = "disconnect" -> [server EXCEPT !.connection = "none"]
      [] OTHER -> server

\* Both lists are replaced; the other settings are kept.
Done(asked) ==
    CASE asked.op = "words" -> [server EXCEPT !.include = asked.include, !.exclude = asked.exclude]
      [] asked.op = "change" -> [server EXCEPT !.from = asked.from]
      [] asked.op = "disconnect" -> [server EXCEPT !.connection = "none"]
      [] OTHER -> server

\* Neither the date nor the word is looked at by the page.
Refused(asked) ==
    \/ asked.op = "words" /\ ~(Accepted(asked.include) /\ Accepted(asked.exclude))
    \/ asked.op = "change" /\ asked.from \in Future
    \/ asked.op = "disconnect" /\ server.connection = "none"

Perform ==
    /\ call # None /\ call.at = "sent"
    /\ IF Refused(call.asked)
       THEN call' = [call EXCEPT !.at = "refused"] /\ UNCHANGED server
       ELSE call' = [call EXCEPT !.at = "done"] /\ server' = Done(call.asked)
    /\ UNCHANGED <<panel, returned, reading, loads, presses, reads, failures>>

\* The bank may be found to have ended the session.
ReadAnswered ==
    /\ reading /\ reading' = FALSE
    /\ \/ Ready(server)
          /\ server' \in {server, [server EXCEPT !.connection = "reconnect_needed"]}
          /\ loads' = With(reads, None)
       \/ UNCHANGED <<server, loads>>  \* refused: nothing was read, and nothing is shown again
    /\ UNCHANGED <<panel, returned, call, presses, reads, failures>>

AnswerLoad(slot) ==
    /\ slot \in DOMAIN loads /\ loads[slot].answer = None
    /\ loads' = With(slot, server)
    /\ UNCHANGED <<server, panel, returned, call, reading, presses, reads, failures>>

-----------------------------------------------------------------------------
(* What comes back *)

\* The panel is read again before the buttons are enabled.
Finish ==
    /\ call # None /\ call.at = "done" /\ call.asked.op # "connect"
    /\ call' = [call EXCEPT !.at = "reading"] /\ loads' = With(Action, None)
    /\ UNCHANGED <<server, panel, returned, reading, presses, reads, failures>>

\* The browser goes to the bank and comes back to a new page, approved or not.
GoToBank ==
    /\ call # None /\ call.at = "done" /\ call.asked.op = "connect"
    /\ \/ returned' = "connected" /\ server' = [server EXCEPT !.connection = "connected"]
       \/ returned' = "failed" /\ UNCHANGED server
    /\ panel' = None /\ call' = None /\ reading' = FALSE
    /\ loads' = [s \in {Opening} |-> [answer |-> None]]
    /\ UNCHANGED <<presses, reads, failures>>

\* Refused, or lost before or after it was done: a message, and nothing is read again.
Refuse ==
    /\ call # None /\ call' = None
    /\ \/ call.at = "refused" /\ UNCHANGED failures
       \/ call.at \in {"sent", "done"} /\ failures < Failures /\ failures' = failures + 1
    /\ UNCHANGED <<server, panel, returned, reading, loads, presses, reads>>

ReadLost ==
    /\ reading /\ failures < Failures /\ failures' = failures + 1 /\ reading' = FALSE
    /\ UNCHANGED <<server, panel, returned, call, loads, presses, reads>>

EndOf(slot) == IF slot = Action THEN None ELSE call

Show(slot) ==
    /\ slot \in DOMAIN loads /\ loads[slot].answer # None
    /\ panel' = loads[slot].answer /\ loads' = Without(slot) /\ call' = EndOf(slot)
    /\ UNCHANGED <<server, returned, reading, presses, reads, failures>>

\* The panel before stays on screen, with a message.
LoseLoad(slot) ==
    /\ slot \in DOMAIN loads /\ failures < Failures /\ failures' = failures + 1
    /\ loads' = Without(slot) /\ call' = EndOf(slot)
    /\ UNCHANGED <<server, panel, returned, reading, presses, reads>>

-----------------------------------------------------------------------------
\* Whoever uses the page may wait, or leave it alone.
Quiet == (panel = None \/ call # None \/ presses = Presses) /\ UNCHANGED vars

Next ==
    \/ \E list \in Lists, word \in Words : AddWord(list, word) \/ RemoveWord(list, word)
    \/ \E from \in Days : SaveDate(from)
    \/ Connect \/ Disconnect \/ ReadNow
    \/ Perform \/ ReadAnswered \/ Finish \/ GoToBank \/ Refuse \/ ReadLost \/ Quiet
    \/ \E slot \in Slots : AnswerLoad(slot) \/ Show(slot) \/ LoseLoad(slot)

Spec == Init /\ [][Next]_vars

-----------------------------------------------------------------------------
(* Properties *)

\* Adding or taking off a word changes that word and no other, in one list
\* (lib/bankPanel.ts, "Both lists after adding a word").
WordsKept ==
    LET changed(list) == (server[list] \ server'[list]) \cup (server'[list] \ server[list])
    IN changed("include") # {} \/ changed("exclude") # {} =>
          /\ changed("include") \cup changed("exclude") = {call.asked.word}
          /\ {} \in {changed("include"), changed("exclude")}

\* With nothing on its way, what is shown is what is stored (useBankActions, "Each action reads
\* the panel and the banner again").
SettledIsFresh == panel # None /\ call = None /\ ~reading /\ DOMAIN loads = {} => panel = server

\* What is refused is a date to come, or a word just written that is too long or is in its list
\* in other letters: never a word taken off, nor for a word that was there before, though both
\* lists are sent whole, nor disconnecting.
OnlyWhatIsWrittenIsRefused ==
    call # None /\ call.at = "refused" =>
        \/ call.asked.op = "change" /\ call.asked.from \in Future
        \/ /\ call.asked.op = "words"
           /\ \E list \in Lists :
                 /\ call.asked.word \in call.asked[list] \ panel[list]
                 /\ \/ call.asked.word \in Long
                    \/ \E v \in panel[list] : Folded[v] = Folded[call.asked.word]

\* The page does not say it is connected and that there is no connection (lib/bankPanel.ts,
\* "`Sin conexion`, `Conectado . <banco>` or `Reconexion necesaria`").
SaysOneThing == panel # None /\ returned = "connected" => panel.connection = "connected"
=============================================================================
