----------------------------- MODULE DeskScreen -----------------------------
(***************************************************************************)
(* What the organiser does on screen with one waiting Bizum                *)
(* (web/src/components/WaitingBizumItem.tsx and its dialogs, with          *)
(* useWaitingActions, useOpenShares and useLoaded): the buttons it has,    *)
(* the shares ticked, what is sent and when the list is read again.  The   *)
(* server's side is that of BizumDesk, for one Bizum.  What is ticked is   *)
(* sent as numbers of shares, and the server pays that many of the nearest *)
(* it finds then.  What is done with the money left over is BizumDesk's.   *)
(***************************************************************************)
EXTENDS Integers, FiniteSets, Sequences
LOCAL INSTANCE SequencesExt
LOCAL INSTANCE FiniteSetsExt

CONSTANTS Players,
          Debts,              \* in the order the Bizum pays them
          MemberOf, HolderOf, \* whose share each one is, and who answers for it
          Price, Amount,      \* what each share and the Bizum are worth
          Near,               \* the debts of games of its season up to its date
          Shares,             \* the shares the Bizum is, or None
          Suggestion,         \* the one player whose name resembles the sender's, or None
          Known,              \* the player each run starts from knowing as the sender
          Coming,             \* the debts of games still to be played (a bound)
          Others,             \* the feed and other pages act meanwhile
          Habits,             \* what is done without waiting: "ticks", "closes"
          LosesAnswers,
          None

DeskScreenAssumption ==
    /\ Debts \subseteq Nat /\ IsFiniteSet(Debts) /\ Near \cup Coming \subseteq Debts
    /\ MemberOf \in [Debts -> Players] /\ HolderOf \in [Debts -> Players]
    /\ Price \in [Debts -> Nat \ {0}] /\ Amount \in Nat /\ Shares \in Nat \cup {None}
    /\ Suggestion \in Players \cup {None} /\ Known \subseteq Players \cup {None}
    /\ {Others, LosesAnswers} \subseteq BOOLEAN /\ Habits \subseteq {"ticks", "closes"}

VARIABLES bizum,   \* the Bizum and the debts, as they are stored
          listed,  \* the waiting Bizum as the list last read has it, or None
          lists,   \* the reads of that list nobody waits for
          dialog,  \* the dialog that is open
          form,    \* the dialog of the shares
          reads,   \* its reads of open shares
          call     \* the request of a button, or None: nothing else is asked meanwhile

vars == <<bizum, listed, lists, dialog, form, reads, call>>

Seats == 1..2
Rows  == UNION {[1..n -> Debts] : n \in 0..Cardinality(Debts)}
Pick  == [count : 0..Cardinality(Debts), cents : 0..Amount, open : Rows \cup {None}]
Form  == [player : Players \cup {None}, open : Rows \cup {None},
          wanted : 0..Cardinality(Debts) \cup {None}, picks : [Players -> Pick \cup {None}]]
Item  == [who : Players \cup {None}]
Read  == [player : Players, own : BOOLEAN, answered : BOOLEAN, rows : Rows]
Call  == [kind : {"rule", "dismiss", "accept", "assign"}, player : Players \cup {None},
          count : Nat, others : [Players -> Nat], ticked : SUBSET Debts,
          stage : {"sent", "done", "reload", "answered"}, view : Item \cup {None}]

TypeOK ==
    /\ bizum \in [status : {"waiting", "settled", "dismissed"}, who : Players \cup {None},
                  owed : SUBSET Debts, coming : SUBSET Coming, paid : SUBSET Debts]
    /\ listed \in Item \cup {None}
    /\ \A s \in DOMAIN lists : lists[s] \in {None} \cup [answered : BOOLEAN, view : Item \cup {None}]
    /\ dialog \in {"none", "rule", "assign", "dismiss", "result"}
    /\ dialog # "none" => listed # None
    /\ form # None => form.player \in Players \cup {None} /\ DOMAIN form.picks = Players
    /\ (form # None) = (dialog = "rule") /\ (reads # {} => form # None)
    /\ call # None => call \in Call

\* What GET /bizums/waiting answers of it.
View == IF bizum.status = "waiting" THEN [who |-> bizum.who] ELSE None

Init ==
    /\ \E who \in Known :
          bizum = [status |-> "waiting", who |-> who, owed |-> Debts \ Coming,
                   coming |-> Coming, paid |-> {}]
    /\ listed = View
    /\ lists = [s \in Seats |-> None] /\ dialog = "none" /\ form = None
    /\ reads = {} /\ call = None

NoLists == \A s \in Seats : lists[s] = None
Quiet == NoLists /\ reads = {} /\ call = None

-----------------------------------------------------------------------------
(* Counting shares (rulingPreview.ts) *)

InOrder(debts) == SetToSortSeq(debts, <)
FirstOf(rows, n) == {rows[i] : i \in 1..n}
Worth(debts) == MapThenSumSet(LAMBDA d : Price[d], debts)
CentsOf(rows, n) == FoldLeftDomain(LAMBDA sum, i : sum + Price[rows[i]], 0, SubSeq(rows, 1, n))

\* As many of the nearest as the money covers.
MaxShares(rows, cents) == Max({n \in 0..Len(rows) : n = 0 \/ CentsOf(rows, n) <= cents})

\* A ruling never starts from a later game or a season before.
DefaultShares(asked, rows, cents) ==
    LET far == {i \in DOMAIN rows : rows[i] \notin Near}
    IN Min({IF asked = None THEN 1 ELSE asked, MaxShares(rows, cents),
            IF far = {} THEN Len(rows) ELSE Min(far) - 1})

\* A Bizum pays in order.
AfterToggle(i, on) == IF on THEN i ELSE i - 1

-----------------------------------------------------------------------------
(* The dialog of the shares *)

RowsOf(open) == IF open = None THEN <<>> ELSE open
Picked(f) == {q \in Players : f.picks[q] # None}
OthersCents(f) == MapThenSumSet(LAMBDA q : f.picks[q].cents, Picked(f))
\* A fault: what is paid for the others is not taken off.
ForOwnAll(f) == Amount

ForOwn(f) == IF OthersCents(f) > Amount THEN 0 ELSE Amount - OthersCents(f)

\* The reason of a known sender's Bizum that is so many shares is that the debts are too few.
Asked == IF listed.who = None THEN None ELSE Shares

Count(f) == IF f.wanted = None THEN DefaultShares(Asked, RowsOf(f.open), ForOwn(f))
            ELSE Min({f.wanted, MaxShares(RowsOf(f.open), ForOwn(f))})

Total(f) == Count(f) + MapThenSumSet(LAMBDA q : f.picks[q].count, Picked(f))

\* What is left for this other player once everyone else is paid.
Budget(f, q) == LET spent == CentsOf(RowsOf(f.open), Count(f))
                             + MapThenSumSet(LAMBDA o : f.picks[o].cents, Picked(f) \ {q})
                IN IF spent > Amount THEN 0 ELSE Amount - spent

Ticked(f) == FirstOf(RowsOf(f.open), Count(f))
             \cup UNION {FirstOf(RowsOf(f.picks[q].open), f.picks[q].count) : q \in Picked(f)}

ReadFor(q, own) == [player |-> q, own |-> own, answered |-> FALSE, rows |-> <<>>]

\* The identified player, else the first suggestion.
StartingPlayer == IF listed.who # None THEN listed.who ELSE Suggestion

Patient == Quiet \/ "ticks" \in Habits

-----------------------------------------------------------------------------
(* The buttons *)

\* Nothing is ruled while the sender must be paired first.
RuleOffered == listed.who # None

Offered(choice) ==
    CASE choice = "rule"    -> RuleOffered
      [] choice = "accept"  -> listed.who = None /\ Suggestion # None
      [] choice = "assign"  -> listed.who = None
      [] choice = "dismiss" -> TRUE

Ask(kind, player, count, others, ticked) ==
    call' = [kind |-> kind, player |-> player, count |-> count, others |-> others,
             ticked |-> ticked, stage |-> "sent", view |-> None]
NoOthers == [q \in Players |-> 0]

Press(choice) ==
    /\ listed # None /\ dialog = "none" /\ call = None /\ Offered(choice) /\ Patient
    /\ dialog' = (IF choice = "accept" THEN "none" ELSE choice)
    /\ IF choice = "accept" THEN Ask("accept", Suggestion, 0, NoOthers, {}) ELSE UNCHANGED call
    /\ IF choice = "rule"
       THEN /\ form' = [player |-> StartingPlayer, wanted |-> None,
                        open |-> IF StartingPlayer = None THEN <<>> ELSE None,
                        picks |-> [q \in Players |-> None]]
            /\ reads' = IF StartingPlayer = None THEN {} ELSE {ReadFor(StartingPlayer, FALSE)}
       ELSE UNCHANGED <<form, reads>>
    /\ UNCHANGED <<bizum, listed, lists>>

\* What was read of the player before stays until the new read is answered.
Chosen(f, p) == [f EXCEPT !.player = p, !.wanted = None, !.picks[p] = None]

ChoosePlayer(p) ==
    /\ dialog = "rule" /\ p # form.player /\ Patient
    /\ form' = Chosen(form, p) /\ reads' = reads \cup {ReadFor(p, FALSE)}
    /\ UNCHANGED <<bizum, listed, lists, dialog, call>>

Tick(i, on) ==
    /\ dialog = "rule" /\ Patient /\ i \in 1..MaxShares(RowsOf(form.open), ForOwn(form))
    /\ on = (i > Count(form))
    /\ form' = [form EXCEPT !.wanted = AfterToggle(i, on)]
    /\ UNCHANGED <<bizum, listed, lists, dialog, reads, call>>

PayAlsoFor(q) ==
    /\ dialog = "rule" /\ Patient /\ form.player \notin {None, q} /\ form.picks[q] = None
    /\ form' = [form EXCEPT !.picks[q] = [count |-> 0, cents |-> 0, open |-> None]]
    /\ reads' = reads \cup {ReadFor(q, TRUE)}
    /\ UNCHANGED <<bizum, listed, lists, dialog, call>>

DropOther(q) ==
    /\ dialog = "rule" /\ Patient /\ form.picks[q] # None
    /\ form' = [form EXCEPT !.picks[q] = None] /\ reads' = {r \in reads : ~(r.own /\ r.player = q)}
    /\ UNCHANGED <<bizum, listed, lists, dialog, call>>

\* A share the money does not cover can only be unticked.
TickOther(q, i, on) ==
    /\ dialog = "rule" /\ Patient /\ form.picks[q] # None
    /\ LET pick == form.picks[q] rows == RowsOf(pick.open) n == AfterToggle(i, on) IN
       /\ i \in DOMAIN rows /\ on = (i > pick.count)
       /\ on => i <= MaxShares(rows, Budget(form, q))
       /\ form' = [form EXCEPT !.picks[q] = [pick EXCEPT !.count = n, !.cents = CentsOf(rows, n)]]
    /\ UNCHANGED <<bizum, listed, lists, dialog, reads, call>>

\* A dialog closed keeps nothing.
Shut == dialog' = "none" /\ form' = None /\ reads' = {}

Rule ==
    /\ dialog = "rule" /\ call = None /\ Patient /\ form.player # None /\ Total(form) > 0
    /\ Ask("rule", form.player, Count(form),
           [q \in Players |-> IF form.picks[q] = None THEN 0 ELSE form.picks[q].count], Ticked(form))
    /\ Shut /\ UNCHANGED <<bizum, listed, lists>>

Dismiss ==
    /\ dialog = "dismiss" /\ call = None /\ Patient
    /\ Ask("dismiss", None, 0, NoOthers, {}) /\ Shut /\ UNCHANGED <<bizum, listed, lists>>

\* The dialog stays, to show what pairing did.
Assign(p) ==
    /\ dialog = "assign" /\ call = None /\ Patient
    /\ Ask("assign", p, 0, NoOthers, {}) /\ UNCHANGED <<bizum, listed, lists, dialog, form, reads>>

AskList ==
    \E s \in Seats : /\ lists[s] = None /\ \A t \in Seats : t < s => lists[t] # None
                     /\ lists' = [lists EXCEPT ![s] = [answered |-> FALSE, view |-> None]]

\* Closing what a pairing did, or might do, reads the list again.
Close ==
    /\ dialog # "none" /\ (call = None \/ "closes" \in Habits)
    /\ IF dialog \in {"assign", "result"} THEN AskList ELSE UNCHANGED lists
    /\ Shut /\ UNCHANGED <<bizum, listed, call>>

-----------------------------------------------------------------------------
(* The server *)

OpenFor(p) == {d \in bizum.owed : p \in {MemberOf[d], HolderOf[d]}}
OwnOf(q)   == {d \in bizum.owed : MemberOf[d] = q}
Nearest(debts, n) == FirstOf(InOrder(debts), n)

\* A fault: a Bizum already settled is ruled again.
RulableTwice(p, n, others) ==
    /\ n <= Cardinality(OpenFor(p)) /\ \A q \in Players : others[q] <= Cardinality(OwnOf(q))
    /\ Worth(Nearest(OpenFor(p), n)) + MapThenSumSet(LAMBDA q : Worth(Nearest(OwnOf(q), others[q])),
                                                     Players) <= Amount

\* Waiting, as many open shares as said, none of them twice, and money for all.
Rulable(p, n, others) ==
    /\ bizum.status = "waiting"
    /\ n <= Cardinality(OpenFor(p)) /\ \A q \in Players : others[q] <= Cardinality(OwnOf(q))
    /\ others[p] = 0 /\ \A q \in Players : Nearest(OpenFor(p), n)
                                           \cap Nearest(OwnOf(q), others[q]) = {}
    /\ Worth(Nearest(OpenFor(p), n)) + MapThenSumSet(LAMBDA q : Worth(Nearest(OwnOf(q), others[q])),
                                                     Players) <= Amount

Settled(debts) == [bizum EXCEPT !.status = "settled", !.owed = @ \ debts, !.paid = @ \cup debts]

Ruled(p, n, others) ==
    Settled(Nearest(OpenFor(p), n) \cup UNION {Nearest(OwnOf(q), others[q]) : q \in Players})

\* The rules judge it again: settled when it is some shares and the debts are enough.
Paired(p) ==
    LET near == OpenFor(p) \cap Near
        now  == [bizum EXCEPT !.who = p]
    IN IF Shares = None \/ Shares > Cardinality(near) \/ Worth(Nearest(near, Shares)) > Amount THEN now
       ELSE [Settled(Nearest(near, Shares)) EXCEPT !.who = p]

Can == CASE call.kind = "rule"    -> Rulable(call.player, call.count, call.others)
         [] call.kind = "dismiss" -> bizum.status = "waiting"
         [] OTHER                 -> bizum.status = "waiting" /\ bizum.who = None

Perform ==
    /\ call # None /\ call.stage = "sent" /\ Can
    /\ bizum' = (CASE call.kind = "rule"    -> Ruled(call.player, call.count, call.others)
                   [] call.kind = "dismiss" -> [bizum EXCEPT !.status = "dismissed"]
                   [] OTHER                 -> Paired(call.player))
    /\ call' = [call EXCEPT !.stage = "done"]
    /\ UNCHANGED <<listed, lists, dialog, form, reads>>

\* A debt paid by hand, another game played, or the Bizum resolved from another page.
PaidByHand(d) ==
    /\ Others /\ d \in bizum.owed /\ bizum' = [bizum EXCEPT !.owed = @ \ {d}]
    /\ UNCHANGED <<listed, lists, dialog, form, reads, call>>
GamePlayed(d) ==
    /\ Others /\ d \in bizum.coming
    /\ bizum' = [bizum EXCEPT !.owed = @ \cup {d}, !.coming = @ \ {d}]
    /\ UNCHANGED <<listed, lists, dialog, form, reads, call>>
RuledElsewhere(p, n) ==
    /\ Others /\ n > 0 /\ Rulable(p, n, NoOthers) /\ bizum' = Ruled(p, n, NoOthers)
    /\ UNCHANGED <<listed, lists, dialog, form, reads, call>>

-----------------------------------------------------------------------------
(* The answers *)

\* A ruling and a dismissal end with a read of the list.
Finish ==
    /\ call # None /\ call.stage = "done" /\ call.kind \in {"rule", "dismiss"}
    /\ call' = [call EXCEPT !.stage = "reload"]
    /\ UNCHANGED <<bizum, listed, lists, dialog, form, reads>>

\* What pairing did is shown, if the item, or the dialog that asked, is still there.
ShowPaired ==
    /\ call # None /\ call.stage = "done" /\ call.kind \in {"accept", "assign"}
    /\ dialog' = (IF listed # None /\ (call.kind = "accept" \/ dialog = "assign")
                  THEN "result" ELSE dialog)
    /\ call' = None /\ UNCHANGED <<bizum, listed, lists, form, reads>>

\* Refused, or lost before or after it was done: the reason is shown, and nothing is read.
Refuse ==
    /\ call # None
    /\ \/ call.stage = "sent" /\ ~Can
       \/ LosesAnswers /\ call.stage \in {"sent", "done"}
    /\ call' = None /\ UNCHANGED <<bizum, listed, lists, dialog, form, reads>>

AnswerReload ==
    /\ call # None /\ call.stage = "reload"
    /\ call' = [call EXCEPT !.stage = "answered", !.view = View]
    /\ UNCHANGED <<bizum, listed, lists, dialog, form, reads>>

\* A Bizum that is no longer listed takes its dialog with it.
Show(view) == /\ listed' = view
              /\ IF view = None THEN Shut ELSE UNCHANGED <<dialog, form, reads>>

EndReload ==
    /\ call # None /\ call.stage = "answered"
    /\ Show(call.view) /\ call' = None /\ UNCHANGED <<bizum, lists>>

\* A failed read leaves what was there.
LoseReload ==
    /\ LosesAnswers /\ call # None /\ call.stage \in {"reload", "answered"}
    /\ call' = None /\ UNCHANGED <<bizum, listed, lists, dialog, form, reads>>

AnswerList(s) ==
    /\ lists[s] # None /\ ~lists[s].answered
    /\ lists' = [lists EXCEPT ![s] = [answered |-> TRUE, view |-> View]]
    /\ UNCHANGED <<bizum, listed, dialog, form, reads, call>>

ShowList(s) ==
    /\ lists[s] # None
    /\ \/ lists[s].answered /\ Show(lists[s].view)
       \/ LosesAnswers /\ UNCHANGED <<listed, dialog, form, reads>>
    /\ lists' = [lists EXCEPT ![s] = None] /\ UNCHANGED <<bizum, call>>

AnswerRead(r) ==
    /\ ~r.answered
    /\ reads' = (reads \ {r}) \cup
                {[r EXCEPT !.answered = TRUE, !.rows = InOrder(IF r.own THEN OwnOf(r.player)
                                                               ELSE OpenFor(r.player))]}
    /\ UNCHANGED <<bizum, listed, lists, dialog, form, call>>

\* Whoever is chosen by now.
ReadInto(r) == IF ~r.own THEN [form EXCEPT !.open = r.rows]
               ELSE IF form.picks[r.player] = None THEN form
               ELSE [form EXCEPT !.picks[r.player].open = r.rows]

ShowRead(r) ==
    /\ \/ r.answered /\ form' = ReadInto(r)
       \/ LosesAnswers /\ UNCHANGED form
    /\ reads' = reads \ {r} /\ UNCHANGED <<bizum, listed, lists, dialog, call>>

-----------------------------------------------------------------------------
Organiser ==
    \/ \E choice \in {"rule", "accept", "assign", "dismiss"} : Press(choice)
    \/ \E p \in Players : ChoosePlayer(p) \/ PayAlsoFor(p) \/ DropOther(p) \/ Assign(p)
    \/ \E i \in 1..Cardinality(Debts), on \in BOOLEAN :
          Tick(i, on) \/ \E q \in Players : TickOther(q, i, on)
    \/ Rule \/ Dismiss \/ Close

Elsewhere ==
    \/ \E d \in Debts : PaidByHand(d) \/ GamePlayed(d)
    \/ \E p \in Players, n \in 1..Cardinality(Debts) : RuledElsewhere(p, n)

OfCall    == Perform \/ Finish \/ ShowPaired \/ Refuse \/ AnswerReload \/ EndReload \/ LoseReload
OfList(s) == AnswerList(s) \/ ShowList(s)
OfReads   == \E r \in reads : AnswerRead(r) \/ ShowRead(r)

\* The page may be left as it is.
Rest == Quiet /\ UNCHANGED vars

Next == Organiser \/ Elsewhere \/ OfCall \/ OfReads \/ Rest \/ \E s \in Seats : OfList(s)

Spec == Init /\ [][Next]_vars

-----------------------------------------------------------------------------
(* Properties *)

\* A ruling pays exactly the shares that were ticked when it was sent (rulingPreview.ts,
\* "What paying `shares` of the open shares would do, before the organiser decides").
RuledAsShown ==
    call # None /\ call.kind = "rule" /\ call.stage = "sent" /\ call' # None /\ call'.stage = "done"
        => bizum'.paid = call.ticked

\* What is ticked is never worth more than the Bizum, whatever was ticked first and
\* whoever was chosen in between (rulingPreview.ts, "It never pays shares worth more than
\* the Bizum").
TickedIsCovered ==
    form # None =>
        Worth(FirstOf(RowsOf(form.open), Count(form)))
        + MapThenSumSet(LAMBDA q : Worth(FirstOf(RowsOf(form.picks[q].open), form.picks[q].count)),
                        Picked(form)) <= Amount

\* The Bizum pays once, whoever rules it and from wherever, and never more than it is worth.
PaidOnce ==
    bizum'.paid # bizum.paid => bizum.status = "waiting" /\ Worth(bizum'.paid) <= Amount

\* A share somebody else answers for, ticked under its member and under its holder.
TickedTwice(f) == Cardinality(Ticked(f)) < Total(f)

\* While nothing else changes, the server refuses what the page lets through only if a share is
\* ticked twice (bizum-resolution-service.ts, "Has elegido la misma cuota dos veces"), and then
\* always: never for want of money or of open shares.
OnlyTwiceIsRefused ==
    dialog = "rule" /\ Quiet /\ form.player # None /\ Total(form) > 0 =>
        (Rulable(form.player, Count(form),
                 [q \in Players |-> IF form.picks[q] = None THEN 0 ELSE form.picks[q].count])
         <=> ~TickedTwice(form))

\* Nobody's debts are shown under another player's name once the reads have ended.
RowsOfTheChosen ==
    form # None /\ reads = {} /\ form.player # None =>
        \A i \in DOMAIN RowsOf(form.open) :
            form.player \in {MemberOf[form.open[i]], HolderOf[form.open[i]]}

\* When nothing is on its way and no dialog is open, the list says of the Bizum what is
\* stored (useWaitingActions, "The list is read again by `refresh`, which the caller runs
\* when it is done looking at the result").
ListIsFresh == Quiet /\ dialog = "none" => listed = View
=============================================================================
