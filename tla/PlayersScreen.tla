---------------------------- MODULE PlayersScreen ----------------------------
(***************************************************************************)
(* Ajustes > Jugones: the players the page lists, the one open in a view   *)
(* of their own, and what is corrected of them there (web/src/components/  *)
(* PlayersSection.tsx and its editors, hooks/usePlayerDirectory.ts),       *)
(* against the players of the server and their rules.                      *)
(*                                                                         *)
(* A request is a task: what is asked, and the lists read after it.  The   *)
(* tasks are in the order they were asked, and are answered in it.  Names  *)
(* in Bizum are kept as nicknames are, and are left out; so is the second  *)
(* reading of the season's lists, which says what the first did.           *)
(***************************************************************************)
EXTENDS Naturals, SequencesExt, FiniteSetsExt

CONSTANTS FirstRows,    \* the players at first, by their ids
          Typed,        \* the names typed
          Folded,       \* a name without case nor accents
          Nicks, Emails, Phones, Seniorities, \* what else is typed
          BadEmails,    \* those the server does not accept
          Patient,      \* the organiser waits for the list to show what was asked
          Presses, Failures, \* how often (bounds)
          None

PlayersScreenAssumption ==
    /\ DOMAIN FirstRows \subseteq Nat \ {0} /\ IsFiniteSet(DOMAIN FirstRows)
    /\ Typed \cup Nicks \subseteq DOMAIN Folded /\ BadEmails \subseteq Emails /\ Patient \in BOOLEAN
    /\ Seniorities \subseteq Nat /\ {Presses, Failures} \subseteq Nat

VARIABLES server,         \* the players, by their ids
          rows,           \* those the page lists
          chosen,         \* the one open
          field,          \* what the field of their seniority says
          tasks,
          unread,         \* a request was lost, and nothing has been read since
          presses, failures

page   == <<rows, chosen, field, unread>>
bounds == <<presses, failures>>
vars   == <<server, page, tasks, bounds>>

IsOpen   == chosen \in DOMAIN rows
Shown    == rows[chosen]
Others   == DOMAIN rows \ {chosen}
RoleOf(row) ==
    CASE row.role # None -> row.role
      [] row.role = None /\ row.introducedBy = None -> "fijo"
      [] OTHER -> "invitado"

Init ==
    /\ server = FirstRows /\ rows = FirstRows
    /\ chosen = None /\ field = None /\ tasks = <<>> /\ unread = FALSE
    /\ presses = 0 /\ failures = 0

-----------------------------------------------------------------------------
(* What is asked *)

\* What is read after each change: the table and, of those that say so to the page they
\* are in, the lists of the season, which reload the table in turn.
StepsAfter(kind) ==
    CASE kind \in {"rename", "merge", "delete", "role", "hosts"} -> <<"load", "lists", "load">>
      [] kind \in {"nick", "unnick", "introduce", "contact"} -> <<"load">>
      [] kind \in {"seasons", "add"} -> <<"lists", "load">>

Ready == Patient => \A i \in DOMAIN tasks : tasks[i].seen

Ask(kind, what) ==
    /\ Ready /\ presses < Presses /\ presses' = presses + 1
    /\ tasks' = Append(tasks, [kind |-> kind, of |-> chosen, what |-> what, clean |-> ~unread,
                               steps |-> <<"act">> \o StepsAfter(kind), seen |-> FALSE,
                               answer |-> None])
    /\ UNCHANGED <<server, rows, chosen, unread, failures>>

AskOfOpen(kind, what) == IsOpen /\ Ask(kind, what) /\ UNCHANGED field

Open(p) ==
    /\ Ready
    /\ \/ chosen = None /\ p \in DOMAIN rows /\ chosen' = p /\ field' = rows[p].seasons
       \/ IsOpen /\ chosen = p /\ chosen' = None /\ field' = None
    /\ UNCHANGED <<server, rows, tasks, unread, bounds>>

AddPlayer(name, s) ==
    ~IsOpen /\ Ask("add", [name |-> name, seasons |-> s]) /\ UNCHANGED field

\* Typed, or a nickname made the name.
Rename ==
    IsOpen /\
        \/ \E n \in Typed \ {Shown.name}, keep \in BOOLEAN :
              AskOfOpen("rename", [name |-> n, keep |-> keep])
        \/ \E n \in Shown.nicks : AskOfOpen("rename", [name |-> n, keep |-> TRUE])

EditNicks ==
    IsOpen /\ \/ \E n \in Nicks : AskOfOpen("nick", n)
              \/ \E n \in Shown.nicks : AskOfOpen("unnick", n)

Relate ==
    IsOpen /\ \/ \E p \in Others : AskOfOpen("merge", p)
              \/ AskOfOpen("delete", None)
              \/ \E p \in (Others \cup {None}) \ {Shown.introducedBy} : AskOfOpen("introduce", p)
              \/ \E r \in {"fijo", "invitado"} \ {RoleOf(Shown)} : AskOfOpen("role", r)

Without(list, x) == SelectSeq(list, LAMBDA y : y # x)

\* One added at the end, one made the usual one, one taken off; the whole list is sent.
EditHosts ==
    IsOpen /\
        LET hosts == Shown.hosts
        IN \/ \E h \in Others \ ToSet(hosts) : AskOfOpen("hosts", Append(hosts, h))
           \/ \E i \in DOMAIN hosts \ {1} : AskOfOpen("hosts", <<hosts[i]>> \o Without(hosts, hosts[i]))
           \/ \E h \in ToSet(hosts) : AskOfOpen("hosts", Without(hosts, h))

\* The fields that differ from what is shown are sent, and only those.
Differing(emails, phone) ==
    (IF emails # Shown.emails THEN {"emails"} ELSE {}) \cup (IF phone # Shown.phone THEN {"phone"} ELSE {})

EditContact ==
    IsOpen /\ \E emails \in Emails \cup {Shown.emails}, phone \in Phones \cup {Shown.phone} :
        AskOfOpen("contact", [emails |-> emails, phone |-> phone, fields |-> Differing(emails, phone)])

\* Leaving the field sends what it says, typed or not.
LeaveSeniority ==
    /\ IsOpen /\ Shown.seasons # None
    /\ \E s \in Seniorities \cup {field} :
          field' = s /\ Ask("seasons", [seasons |-> s, typed |-> s # field])

-----------------------------------------------------------------------------
(* What the server does *)

\* What a player took part in, `took`: lists, games, debts and payments, and "account" if
\* they have one.
Named(n) == {p \in DOMAIN server : server[p].name = n}
Sharing(p, n) == {q \in DOMAIN server \ {p} : Folded[server[q].name] = Folded[n]}
Traces(p) ==
    \/ server[p].took # {}
    \/ \E q \in DOMAIN server \ {p} : server[q].introducedBy = p \/ p \in ToSet(server[q].hosts)

\* All that is sent is looked at before anything is stored.
Acceptable(contact) == "emails" \in contact.fields => contact.emails \notin BadEmails

\* The lists of the games still to be played are saved again with it, which may find that it
\* takes somebody out of a convocatoria.  They are CandidateList's: here they may, or may not.
SavesListsAgain(t) == t.kind \in {"role", "hosts"}

Refused(t, unseats) ==
    LET p == t.of
    IN \/ t.kind \notin {"add", "seasons"} /\ p \notin DOMAIN server
       \/ t.kind = "rename" /\ p \in DOMAIN server
             /\ t.what.name # server[p].name /\ Sharing(p, t.what.name) # {}
       \/ t.kind = "merge" /\ p \in DOMAIN server /\ (t.what \notin DOMAIN server \/ server[p].took \cap server[t.what].took # {})
       \/ t.kind = "delete" /\ p \in DOMAIN server /\ Traces(p)
       \/ t.kind = "introduce" /\ t.what \notin DOMAIN server \cup {None}
       \/ t.kind = "role" /\ p \in DOMAIN server /\ server[p].playedAsFijo
             /\ RoleOf(server[p]) = "fijo" /\ t.what = "invitado"
       \/ t.kind = "hosts" /\ ~(ToSet(t.what) \subseteq DOMAIN server)
       \/ SavesListsAgain(t) /\ unseats
       \/ t.kind = "contact" /\ ~Acceptable(t.what)

Renamed(p, n, keep) ==
    LET old == server[p].name
    IN IF n = old THEN server
       ELSE [server EXCEPT ![p].name = n,
                           ![p].nicks = (@ \ {n}) \cup (IF keep THEN {old} ELSE {})]

\* The survivor's first, and then the absorbed player's that are new.
Joined(mine, theirs) == mine \o SelectSeq(theirs, LAMBDA x : x \notin ToSet(mine))

HostsAfterMerge(q, into, from) ==
    LET hosts == server[q].hosts
    IN IF q = into THEN Without(Joined(hosts, Without(server[from].hosts, into)), from)
       ELSE IF into \in ToSet(hosts) THEN Without(hosts, from)
       ELSE [i \in DOMAIN hosts |-> IF hosts[i] = from THEN into ELSE hosts[i]]

IntroducerAfterMerge(q, into, from) ==
    LET known == IF q = into /\ server[into].introducedBy = None
                 THEN server[from].introducedBy ELSE server[q].introducedBy
        moved == IF known = from THEN into ELSE known
    IN IF q = into /\ moved = into THEN None ELSE moved

Survivor(mine, theirs) ==
    [mine EXCEPT !.nicks = @ \cup theirs.nicks \cup {theirs.name},
                 !.emails = Joined(@, theirs.emails),
                 !.phone = IF @ = None THEN theirs.phone ELSE @,
                 !.role = IF @ = None THEN theirs.role ELSE @,
                 !.took = @ \cup theirs.took,
                 !.playedAsFijo = @ \/ theirs.playedAsFijo,
                 !.seasons = IF {@, theirs.seasons} = {None} THEN None
                             ELSE Max({@, theirs.seasons} \ {None})]

Merged(into, from) ==
    [q \in DOMAIN server \ {from} |->
        [(IF q = into THEN Survivor(server[into], server[from]) ELSE server[q]) EXCEPT
            !.hosts = HostsAfterMerge(q, into, from),
            !.introducedBy = IntroducerAfterMerge(q, into, from)]]

NewPlayer(name, s) ==
    [name |-> name, nicks |-> {}, hosts |-> <<>>, introducedBy |-> None, role |-> None,
     emails |-> <<>>, phone |-> None, seasons |-> s, took |-> {}, playedAsFijo |-> FALSE]

\* Of a name nobody has exactly, a new player with the id after the last; one enrolled
\* keeps their seniority.
Added(name, s) ==
    IF Named(name) = {}
    THEN LET p == 1 + Max({0} \cup DOMAIN server)
         IN [q \in DOMAIN server \cup {p} |-> IF q = p THEN NewPlayer(name, s) ELSE server[q]]
    ELSE [q \in DOMAIN server |-> IF q \in Named(name) /\ server[q].seasons = None
                                  THEN [server[q] EXCEPT !.seasons = s] ELSE server[q]]

SavedContact(p, what) ==
    [server EXCEPT ![p].emails = IF "emails" \in what.fields THEN what.emails ELSE @,
                   ![p].phone = IF "phone" \in what.fields THEN what.phone ELSE @]

\* One not enrolled, or gone, is left alone.
SeasonsSet(p, s) ==
    IF p \in DOMAIN server /\ server[p].seasons # None
    THEN [server EXCEPT ![p].seasons = s] ELSE server

Changed(t) ==
    CASE t.kind = "rename"    -> Renamed(t.of, t.what.name, t.what.keep)
      [] t.kind = "nick"      -> [server EXCEPT ![t.of].nicks = @ \cup {t.what}]
      [] t.kind = "unnick"    -> [server EXCEPT ![t.of].nicks = @ \ {t.what}]
      [] t.kind = "merge"     -> Merged(t.of, t.what)
      [] t.kind = "delete"    -> [q \in DOMAIN server \ {t.of} |-> server[q]]
      [] t.kind = "introduce" -> [server EXCEPT ![t.of].introducedBy = t.what]
      [] t.kind = "role"      -> [server EXCEPT ![t.of].role = t.what]
      [] t.kind = "hosts"     -> [server EXCEPT ![t.of].hosts = t.what]
      [] t.kind = "contact"   -> SavedContact(t.of, t.what)
      [] t.kind = "seasons"   -> SeasonsSet(t.of, t.what.seasons)
      [] t.kind = "add"       -> Added(t.what.name, t.what.seasons)

InTurn(i) == tasks[i].answer = None /\ \A j \in 1..(i - 1) : tasks[j].answer # None

Perform ==
    \E i \in DOMAIN tasks, unseats \in BOOLEAN :
        LET t == tasks[i]
            acts == Head(t.steps) = "act" /\ ~Refused(t, unseats)
        IN /\ InTurn(i)
           /\ server' = IF acts THEN Changed(t) ELSE server
           /\ tasks' = [tasks EXCEPT ![i].answer =
                           [done |-> Head(t.steps) # "act" \/ acts,
                            rows |-> IF Head(t.steps) = "load" THEN server ELSE None]]
           /\ UNCHANGED <<page, bounds>>

-----------------------------------------------------------------------------
(* What the page does with the answers *)

First == Head(tasks)
Asks(step) == tasks # <<>> /\ Head(First.steps) = step
Over == Tail(tasks)

Continued ==
    IF Tail(First.steps) = <<>> THEN Over
    ELSE Append(Over, [First EXCEPT !.steps = Tail(@), !.answer = None,
                                    !.seen = @ \/ Asks("load")])

\* A merge and a deletion end with the list, whoever is open by then.
Closes == First.kind \in {"merge", "delete"} /\ First.steps = <<"load", "lists", "load">>

\* The field is made again with the view: of another player, or of another name.
Show(table, p) ==
    /\ rows' = table /\ chosen' = p
    /\ field' = IF p \notin DOMAIN table THEN None
                ELSE IF IsOpen /\ p = chosen /\ table[p].name = Shown.name /\ field # None
                        /\ table[p].seasons # None
                     THEN field ELSE table[p].seasons

Loaded ==
    /\ Asks("load") /\ First.answer # None
    /\ Show(First.answer.rows, IF Closes THEN None ELSE chosen)
    /\ unread' = FALSE /\ tasks' = Continued
    /\ UNCHANGED <<server, bounds>>

Done ==
    /\ Asks("act") \/ Asks("lists")
    /\ First.answer # None
    /\ tasks' = IF First.answer.done THEN Continued ELSE Over
    /\ UNCHANGED <<server, page, bounds>>

\* A table not read is told of and the rest goes on; anything else ends it.
Lose ==
    /\ tasks # <<>> /\ failures < Failures /\ failures' = failures + 1
    /\ unread' = TRUE
    /\ \/ /\ Asks("load") /\ tasks' = Continued
          /\ Show(rows, IF Closes THEN None ELSE chosen)
       \/ ~Asks("load") /\ tasks' = Over /\ UNCHANGED <<rows, chosen, field>>
    /\ UNCHANGED <<server, presses>>

Quiet == UNCHANGED vars   \* the organiser may always wait

Next ==
    \/ \E p \in DOMAIN rows : Open(p)
    \/ \E n \in Typed, s \in Seniorities : AddPlayer(n, s)
    \/ Rename \/ EditNicks \/ Relate \/ EditHosts \/ EditContact \/ LeaveSeniority
    \/ Perform \/ Loaded \/ Done \/ Lose \/ Quiet

Spec == Init /\ [][Next]_vars

-----------------------------------------------------------------------------
(* What the code must satisfy *)

\* Everything is what it is said to be, and hosts and introducers are players there are.
TypeOK ==
    /\ \A p \in DOMAIN server :
          /\ ToSet(server[p].hosts) \cup ({server[p].introducedBy} \ {None}) \subseteq DOMAIN server \ {p}
          /\ IsInjective(server[p].hosts) /\ IsInjective(server[p].emails)
          /\ server[p].seasons \in Nat \cup {None}
    /\ chosen \in Nat \cup {None} /\ field \in Nat \cup {None} /\ unread \in BOOLEAN
    /\ presses \in 0..Presses /\ failures \in 0..Failures

\* "Each action reads everyone again afterwards" (usePlayerDirectory.ts:6): with nothing on
\* its way and nothing lost since the last reading, the page lists what is stored.
SettledIsFresh == tasks = <<>> /\ ~unread => rows = server

\* On a list just read, whom the page offers as introducer is accepted, and so is the nickname
\* it offers to take off and the seniority it shows: nobody it offers is gone.
ChosenIsAccepted ==
    \A i \in DOMAIN tasks :
        LET t == tasks[i]
        IN /\ t.clean /\ t.answer # None
           /\ t.kind \in {"unnick", "introduce"} \/ (t.kind = "seasons" /\ ~t.what.typed)
           => t.answer.done

Performing(i) ==
    /\ InTurn(i) /\ Head(tasks[i].steps) = "act"
    /\ i \in DOMAIN tasks' /\ tasks'[i].answer # None

\* "The organiser may add, drop and reorder" (schema.sql): on a list just read, a press adds,
\* moves or takes off one usual host and leaves the others as they were.
OneHostAtATime ==
    \A i \in DOMAIN tasks : Performing(i) /\ tasks[i].kind = "hosts" /\ tasks[i].clean =>
        \A p \in DOMAIN server :
            \E h \in DOMAIN server : Without(server[p].hosts, h) = Without(server'[p].hosts, h)

\* "The absorbed player's games, payments, debts and aliases become the survivor's": a merge
\* loses no name, nickname, address, phone nor season of either, and of the others changes
\* only who brings them.
MergeKeepsWhatWasKnown ==
    \A i \in DOMAIN tasks : Performing(i) /\ tasks[i].kind = "merge" /\ tasks'[i].answer.done =>
        LET into == tasks[i].of
            mine == server[into]
            theirs == server[tasks[i].what]
            now  == server'[into]
            known(row) == [row EXCEPT !.hosts = <<>>, !.introducedBy = None]
        IN /\ mine.nicks \cup theirs.nicks \cup {mine.name, theirs.name} \subseteq now.nicks \cup {now.name}
           /\ ToSet(now.emails) = ToSet(mine.emails) \cup ToSet(theirs.emails)
           /\ {mine.phone, theirs.phone} # {None} => now.phone \in {mine.phone, theirs.phone} \ {None}
           /\ \A n \in {mine.seasons, theirs.seasons} \ {None} : now.seasons >= n
           /\ \A q \in DOMAIN server' \ {into} : known(server'[q]) = known(server[q])

\* Leaving the field of the seniority with nothing typed leaves the seniority as it was,
\* unless something was lost.
UntypedIsKept ==
    \A i \in DOMAIN tasks :
        /\ failures = 0 /\ Performing(i)
        /\ tasks[i].kind = "seasons" /\ ~tasks[i].what.typed
        => server' = server

\* "A principal name is never shared" (player-edit-service.ts:25): no two players have one
\* name but for case and accents.
NamesDiffer == \A p \in DOMAIN server : Sharing(p, server[p].name) = {}
=============================================================================
