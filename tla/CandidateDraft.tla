--------------------------- MODULE CandidateDraft ---------------------------
(***************************************************************************)
(* A game's list as the organiser edits it in the browser                  *)
(* (web/src/hooks/useCandidateList.ts, lib/candidateDraft.ts and           *)
(* components/CandidateList.tsx).  The draft is on this page alone until   *)
(* it is saved; every change to it asks the server to read the lines       *)
(* again, and each answer becomes the draft.  Requests are answered late,  *)
(* or never; the page may be open twice.                                   *)
(***************************************************************************)
EXTENDS Naturals, SequencesExt

CONSTANTS Names,          \* what is written, each the name of one player
          MaxLines,       \* lines of a draft (a bound)
          WaitsForList,   \* nothing is pasted before the saved list is shown
          LosesAnswers,   \* a request may fail, or its answer be lost
          OtherTab,       \* the list may be saved from another page
          None

VARIABLES server,      \* the saved list
          rows,        \* the draft on screen
          savedLines,  \* what the page takes to be saved
          loaded,
          load,        \* the first read: asked for, its answer on the way, or done
          call,        \* the request of the one button pressed, or None
          removed      \* who has been taken off the list here, since it was opened

vars == <<server, rows, savedLines, loaded, load, call, removed>>

\* A line: what is written, and the player chosen for it.
Line == [text : Names, link : Names \cup {None}]

Who(line) == IF line.link = None THEN line.text ELSE line.link
Listed(lines) == {Who(l) : l \in ToSet(lines)}
Text(name) == [text |-> name, link |-> None]

Lists == BoundedSeq(Line, MaxLines)

\* What a button goes on to ask, one request after another.
Steps == {<<"preview">>, <<"save">>, <<"players", "preview">>}

Call == [steps : Steps, lines : Lists,
         answered : BOOLEAN, lost : BOOLEAN]

CandidateDraftAssumption ==
    /\ MaxLines \in Nat \ {0} /\ None \notin Names \cup Call
    /\ {WaitsForList, LosesAnswers, OtherTab} \subseteq BOOLEAN

\* The lists and the requests are what they are said to be, and a list read by the server
\* places a player once.
TypeOK ==
    /\ server \in Lists /\ rows \in Lists /\ savedLines \in Lists
    /\ loaded \in BOOLEAN
    /\ load \in [phase : {"asked", "answered", "done"}, answer : Lists]
    /\ call \in Call \cup {None}
    /\ removed \subseteq Names
    /\ \A list \in {server, rows, savedLines} :
          \A i, j \in DOMAIN list : Who(list[i]) = Who(list[j]) => i = j

Init ==
    /\ server \in {<<>>} \cup {<<Text(n)>> : n \in Names}
    /\ rows = <<>> /\ savedLines = <<>> /\ loaded = FALSE
    /\ load = [phase |-> "asked", answer |-> <<>>] /\ call = None /\ removed = {}

\* The lines read again: a player listed twice is one line, the first.
Read(lines) ==
    FoldLeft(LAMBDA kept, l : IF Who(l) \in Listed(kept) THEN kept ELSE Append(kept, l),
             <<>>, lines)

busy == call # None

unsaved == rows # savedLines

-----------------------------------------------------------------------------
(* What the organiser presses *)

Ask(steps, lines) ==
    /\ call' = [steps |-> steps, lines |-> lines, answered |-> FALSE,
                 lost |-> FALSE]
    /\ UNCHANGED <<server, rows, savedLines, loaded, load>>

\* The buttons: to paste more, those of a line, those of the foot.
PasteOffered == ~busy /\ (WaitsForList => loaded) /\ Len(rows) < MaxLines
LineOffered(i) == ~busy /\ i \in DOMAIN rows
SaveOffered == ~busy /\ unsaved
ClearOffered == ~busy /\ rows # <<>>

Add(name) ==
    /\ PasteOffered
    /\ Ask(<<"preview">>, Append(rows, Text(name))) /\ UNCHANGED removed

TakeOff(i) ==
    /\ LineOffered(i)
    /\ Ask(<<"preview">>, RemoveAt(rows, i))
    /\ removed' = removed \cup {Who(rows[i])}

\* Choosing a player for a line, which may first be told to the players: a nickname, a
\* new player.
Resolve(i, player, steps) ==
    /\ LineOffered(i) /\ steps \in {<<"preview">>, <<"players", "preview">>}
    /\ Ask(steps, [rows EXCEPT ![i].link = player])
    /\ removed' = removed \cup {Who(rows[i])}

\* A role, or a newcomer's seniority: the players change and the draft is read again.
ChangePlayer ==
    /\ LineOffered(1)
    /\ Ask(<<"players", "preview">>, rows) /\ UNCHANGED removed

Save ==
    /\ SaveOffered
    /\ Ask(<<"save">>, rows) /\ UNCHANGED removed

Clear ==
    /\ ClearOffered
    /\ rows' = <<>> /\ removed' = removed \cup Listed(rows)
    /\ UNCHANGED <<server, savedLines, loaded, load, call>>

\* The page is opened again; the draft is gone.
Reopen ==
    /\ ~busy /\ load.phase = "done"
    /\ rows' = <<>> /\ savedLines' = <<>> /\ loaded' = FALSE
    /\ load' = [phase |-> "asked", answer |-> <<>>] /\ removed' = {}
    /\ UNCHANGED <<server, call>>

-----------------------------------------------------------------------------
(* What the server answers, and what the page does with it *)

AnswerLoad ==
    /\ load.phase = "asked" /\ load' = [phase |-> "answered", answer |-> server]
    /\ UNCHANGED <<server, rows, savedLines, loaded, call, removed>>

ShowLoad ==
    /\ load.phase = "answered"
    /\ rows' = load.answer /\ savedLines' = load.answer
    /\ loaded' = TRUE /\ load' = [phase |-> "done", answer |-> <<>>]
    /\ UNCHANGED <<server, call, removed>>

FailLoad ==
    /\ LosesAnswers /\ load.phase # "done" /\ load' = [phase |-> "done", answer |-> <<>>]
    /\ UNCHANGED <<server, rows, savedLines, loaded, call, removed>>

Answer ==
    /\ busy /\ ~call.answered /\ ~call.lost
    /\ call' = [call EXCEPT !.answered = TRUE, !.lines = Read(@)]
    /\ server' = IF Head(call.steps) = "save" THEN Read(call.lines) ELSE server
    /\ UNCHANGED <<rows, savedLines, loaded, load, removed>>

Arrive ==
    /\ busy /\ call.answered /\ ~call.lost
    /\ IF Len(call.steps) > 1
       THEN /\ call' = [call EXCEPT !.steps = Tail(@), !.answered = FALSE]
            /\ UNCHANGED <<rows, savedLines>>
       ELSE /\ call' = None
            /\ rows' = call.lines
            /\ savedLines' = IF Head(call.steps) = "save" THEN call.lines ELSE savedLines
    /\ UNCHANGED <<server, loaded, load, removed>>

\* The request is lost before or after the server has done it.
Lose ==
    /\ LosesAnswers /\ busy /\ ~call.lost
    /\ call' = [call EXCEPT !.lost = TRUE]
    /\ UNCHANGED <<server, rows, savedLines, loaded, load, removed>>

\* A fault: a failed request leaves the buttons disabled.
FailBusy ==
    /\ busy /\ call.lost
    /\ UNCHANGED vars

\* An error is shown in its place.
Fail ==
    /\ busy /\ call.lost /\ call' = None
    /\ UNCHANGED <<server, rows, savedLines, loaded, load, removed>>

\* The same list saved from another page.
SaveElsewhere(name) ==
    /\ OtherTab /\ Len(server) < MaxLines
    /\ server' = Read(Append(server, Text(name)))
    /\ UNCHANGED <<rows, savedLines, loaded, load, call, removed>>

-----------------------------------------------------------------------------
Press ==
    \/ \E name \in Names : Add(name)
    \/ \E i \in DOMAIN rows : TakeOff(i)
    \/ \E i \in DOMAIN rows, p \in Names, steps \in Steps : Resolve(i, p, steps)
    \/ ChangePlayer \/ Save \/ Clear \/ Reopen

Network == AnswerLoad \/ ShowLoad \/ FailLoad \/ Answer \/ Arrive \/ Lose \/ Fail

Next == Press \/ Network \/ \E name \in Names : SaveElsewhere(name)

Spec == Init /\ [][Next]_vars

-----------------------------------------------------------------------------
(* Properties *)

\* A page that says nothing is unsaved shows the list as it is saved
\* (hasUnsavedChanges, "whether the list on screen differs from the one last saved").
SavedIsSaved == loaded /\ ~busy /\ ~unsaved => rows = server

\* Saving signs out nobody but who was taken off the list on this page: pasting adds to
\* what is there (CandidateList, "Pasting adds to it").
OnlyRemovedAreDropped ==
    Answer => Listed(server) \ Listed(server') \subseteq removed
=============================================================================
