---------------------------- MODULE PaymentScreen ----------------------------
(***************************************************************************)
(* Paying shares, undoing payments and passing a debt to another holder    *)
(* from the browser: the payment cells of a played game and of Deudas      *)
(* (web/src/lib/paymentCell.ts, components/PaymentCell.tsx, hooks/         *)
(* usePayments.ts, useDebtPayments.ts, useBizumUndo.ts) against the        *)
(* services that do it (server/src/repo/payment-service.ts,                *)
(* bizum-undo-service.ts, debt-holder-service.ts).                         *)
(*                                                                         *)
(* A screen acts on what it last read, and names a payment or a debt by    *)
(* its id, which SQLite gives again once it is the highest and free.  Bizums *)
(* pay by themselves meanwhile.  One game, always played; all its members  *)
(* play; which shares a Bizum pays is BizumDesk's and any of one payer's   *)
(* here.                                                                   *)
(***************************************************************************)
EXTENDS Naturals, FiniteSets, FiniteSetsExt, Functions

CONSTANTS Players, PlusOnes, \* the members of the game
          Others,            \* players known who did not play
          FirstHolder,       \* who answers for each share when the game is billed
          FirstId,           \* and the id of its debt
          Prices,            \* what a share may cost, in the order it is changed
          Screens, Kinds,    \* the pages open, and what they may show
          Presses, Bizums, Failures, \* how often (bounds)
          None

VARIABLES debts, payments,
          price,   \* the share amount of the season now
          screens, \* of each page: what it shows, what it asks and what is on its way
          presses, bizums, failures

vars == <<debts, payments, price, screens, presses, bizums, failures>>

Members == Players \cup PlusOnes
Known   == Players \cup Others

PaymentScreenAssumption ==
    /\ FirstHolder \in [Members -> Known] /\ FirstId \in Bijection(Members, 1..Cardinality(Members))
    /\ Prices \in [1..2 -> Nat \ {0}]
    /\ Kinds \subseteq {"game", "debts"} /\ {Presses, Bizums, Failures} \subseteq Nat
    /\ None \notin Members \cup Known

Cents   == {Prices[1], Prices[2]}
Debt    == [id : Nat \ {0}, member : Members, holder : Known, amount : Cents]
Payment == [id : Nat \ {0}, member : Members, holder : Known, amount : Cents,
            payer : Known, method : {"efectivo", "bizum"}, bizum : 1..Bizums \cup {None}]

Total(rows)   == MapThenSumSet(LAMBDA r : r.amount, rows)
MembersOf(rows) == {r.member : r \in rows}

Init ==
    /\ debts = {[id |-> FirstId[m], member |-> m, holder |-> FirstHolder[m],
                 amount |-> Prices[1]] : m \in Members}
    /\ payments = {} /\ price = Prices[1]
    /\ screens \in [Screens -> {[kind |-> k, debts |-> debts, payments |-> {},
                                asking |-> None, call |-> None] : k \in Kinds}]
    /\ presses = 0 /\ bizums = 0 /\ failures = 0

-----------------------------------------------------------------------------
(* What a payment cell offers *)

Held(shown, p) == {d \in shown : d.holder = p}
Own(shown, m)  == {d \in shown : d.member = m}

Offer(rows, payer, one) ==
    [shares |-> MembersOf(rows), payer |-> payer, says |-> Total(rows), adjusts |-> one]

HoldsAll(held, m, adjusts) == IF held = {} THEN {} ELSE {Offer(held, m, adjusts)}

\* A '+1' is paid by its host; a share held by another may be paid by its own
\* player; whoever holds shares pays them all, or only their own.
Cell(shown, m) ==
    LET own == Own(shown, m)
        held == Held(shown, m)
    IN IF m \in PlusOnes THEN {Offer({d}, d.holder, TRUE) : d \in own}
       ELSE HoldsAll(held, m, held = own)
            \cup {Offer({d}, m, TRUE) : d \in {x \in own : x.holder # m}}
            \cup {Offer({d}, m, FALSE) : d \in {x \in own : held # {x} /\ x.holder = m}}

\* The game has a row for each member; Deudas one for each share owed.
RowsOf(screen) == IF screen.kind = "game" THEN Members ELSE MembersOf(screen.debts)
Offers(screen) == UNION {Cell(screen.debts, m) : m \in RowsOf(screen)}

\* What the row says it owes.
Owes(shown, m) ==
    IF m \in PlusOnes THEN Total(Own(shown, m))
    ELSE Total(Held(shown, m)) + Total({d \in Own(shown, m) : d.holder # m})

-----------------------------------------------------------------------------
(* What the organiser does *)

Idle(s) == screens[s].call = None /\ screens[s].asking = None
Free(s) == Idle(s) /\ presses < Presses

Send(s, call) == screens' = [screens EXCEPT ![s].call = [stage |-> "sent", asked |-> call]]

Pressed == presses' = presses + 1 /\ UNCHANGED <<debts, payments, price, bizums, failures>>

Pay(s) ==
    /\ Free(s) /\ Pressed
    /\ \E offer \in Offers(screens[s]), method \in {"efectivo", "bizum"} :
          \E cents \in {None} \cup (IF offer.adjusts THEN Cents ELSE {}) :
             Send(s, [op |-> "pay", shares |-> offer.shares, payer |-> offer.payer,
                      method |-> method, cents |-> cents,
                      says |-> IF cents = None THEN offer.says ELSE cents])

\* A payment made with Bizum method is looked up before it is undone.
Undo(s) ==
    /\ Free(s) /\ Pressed /\ screens[s].kind = "game"
    /\ \E p \in screens[s].payments :
          IF p.method = "bizum"
          THEN screens' = [screens EXCEPT ![s].asking =
                  [stage |-> "reading", id |-> p.id, of |-> p.member, listed |-> {}]]
          ELSE Send(s, [op |-> "undo", id |-> p.id, of |-> p.member, listed |-> {}])

Reassign(s) ==
    /\ Free(s) /\ Pressed /\ screens[s].kind = "debts"
    /\ \E d \in screens[s].debts, p \in Known :
          /\ d.member \in Players /\ p # d.holder
          /\ Send(s, [op |-> "reassign", id |-> d.id, of |-> d.member, holder |-> p])

\* The payment looked up, by its id: asked about if a Bizum made it, undone if not.
DetailAnswered(s) ==
    LET asking == screens[s].asking
        found == {p \in payments : p.id = asking.id}
    IN /\ asking # None /\ asking.stage = "reading"
       /\ \/ found = {} /\ screens' = [screens EXCEPT ![s].asking = None]
          \/ /\ \E p \in found : p.bizum = None
             /\ screens' = [screens EXCEPT ![s].asking = None,
                   ![s].call = [stage |-> "sent", asked |-> [op |-> "undo", id |-> asking.id,
                                of |-> asking.of, listed |-> {}]]]
          \/ /\ \E p \in found : p.bizum # None
             /\ screens' = [screens EXCEPT ![s].asking.stage = "asked",
                   ![s].asking.listed =
                      MembersOf({p \in payments : \E q \in found : p.bizum = q.bizum})]
       /\ UNCHANGED <<debts, payments, price, presses, bizums, failures>>

Confirm(s) ==
    LET asking == screens[s].asking
    IN /\ asking # None /\ asking.stage = "asked"
       /\ screens' = [screens EXCEPT ![s].asking = None,
             ![s].call = [stage |-> "sent", asked |-> [op |-> "undo", id |-> asking.id,
                          of |-> asking.of, listed |-> asking.listed]]]
       /\ UNCHANGED <<debts, payments, price, presses, bizums, failures>>

Cancel(s) ==
    /\ screens[s].asking # None /\ screens[s].asking.stage = "asked"
    /\ screens' = [screens EXCEPT ![s].asking = None]
    /\ UNCHANGED <<debts, payments, price, presses, bizums, failures>>
-----------------------------------------------------------------------------
(* What the server does *)

\* INTEGER PRIMARY KEY: one more than the highest there is.
NextId(rows) == 1 + Max({0} \cup {r.id : r \in rows})

\* The rows of a transaction are inserted in the order of those they replace.
IdAmong(r, rows, inserted) == NextId(rows) + Cardinality({x \in inserted : x.id < r.id})

\* The payments those debts become; an adjusted amount is the payer's word.
PaymentsOf(owed, payer, method, cents, bizum) ==
    {[id |-> IdAmong(d, payments, owed), member |-> d.member, holder |-> d.holder,
      amount |-> IF cents = None THEN d.amount ELSE cents,
      payer |-> payer, method |-> method, bizum |-> bizum] : d \in owed}

\* Every share asked leaves the debts for the payments, or none does.
Settled(shares, payer, method, cents) ==
    LET owed == {d \in debts : d.member \in shares}
    IN /\ shares = MembersOf(owed) /\ debts' = debts \ owed
       /\ payments' = payments \cup PaymentsOf(owed, payer, method, cents, None)

\* Each payment undone is a debt again, of what a share costs now.
Unsettled(undone) ==
    /\ payments' = payments \ undone
    /\ debts' = debts \cup
          {[id |-> IdAmong(p, debts, undone), member |-> p.member, holder |-> p.holder,
            amount |-> price] : p \in undone}

PayDone(call) ==
    /\ \A d \in debts : d.member \in call.shares => call.payer \in {d.holder, d.member}
    /\ Settled(call.shares, call.payer, call.method, call.cents)
    /\ UNCHANGED bizums

\* A fault: only the payment named is undone, whoever made it.
OnlyNamed(p) == {p}

\* Undoing a payment a Bizum made undoes all of that Bizum's.
UndoneWith(p) == IF p.bizum = None THEN {p} ELSE {q \in payments : q.bizum = p.bizum}

UndoDone(call) ==
    /\ \E p \in payments : p.id = call.id /\ Unsettled(UndoneWith(p))
    /\ UNCHANGED bizums

PaidByBizum(owed) ==
    \E p \in Known :
        \E paid \in SUBSET {d \in owed : p \in {d.holder, d.member}} :
            /\ paid # {} /\ bizums < Bizums /\ bizums' = bizums + 1
            /\ debts' = owed \ paid
            /\ payments' = payments \cup PaymentsOf(paid, p, "bizum", None, bizums + 1)

Moved(d, holder) == (debts \ {d}) \cup {[d EXCEPT !.holder = holder]}

\* The debt named moves, and a Bizum that waited may now pay what its sender owes.
ReassignDone(call) ==
    \E d \in debts :
        /\ d.id = call.id /\ d.member \in Players
        /\ \/ debts' = Moved(d, call.holder) /\ UNCHANGED <<payments, bizums>>
           \/ d.holder # call.holder /\ PaidByBizum(Moved(d, call.holder))

Refused(call) ==
    /\ CASE call.op = "pay" ->
              \/ ~(call.shares \subseteq MembersOf(debts))
              \/ \E d \in debts : d.member \in call.shares /\ call.payer \notin {d.holder, d.member}
         [] call.op = "undo" -> \A p \in payments : p.id # call.id
         [] call.op = "reassign" -> \A d \in debts : d.id = call.id => d.member \notin Players
    /\ UNCHANGED <<debts, payments, bizums>>

\* A refusal is only told: what the screen shows is not read again.
Perform(s) ==
    /\ screens[s].call # None /\ screens[s].call.stage = "sent"
    /\ LET call == screens[s].call.asked
       IN \/ /\ Refused(call)
             /\ screens' = [screens EXCEPT ![s].call = None]
          \/ /\ \/ call.op = "pay" /\ PayDone(call)
                \/ call.op = "undo" /\ UndoDone(call)
                \/ call.op = "reassign" /\ ReassignDone(call)
             /\ screens' = [screens EXCEPT ![s].call.stage = "done"]
    /\ UNCHANGED <<price, presses, failures>>

Showing(s, kind) ==
    screens' = [screens EXCEPT ![s] = [kind |-> kind, debts |-> debts,
                   payments |-> IF kind = "game" THEN payments ELSE {},
                   asking |-> None, call |-> None]]

Reloaded(s) ==
    /\ screens[s].call # None /\ screens[s].call.stage = "done"
    /\ Showing(s, screens[s].kind)
    /\ UNCHANGED <<debts, payments, price, presses, bizums, failures>>

\* The other tab is opened, or this one again.
Open(s) ==
    /\ Idle(s)
    /\ \E kind \in Kinds : Showing(s, kind)
    /\ UNCHANGED <<debts, payments, price, presses, bizums, failures>>

\* The request or its answer is lost, and the screen keeps what it showed.
Lose(s) ==
    /\ screens[s].call # None /\ failures < Failures
    /\ screens' = [screens EXCEPT ![s].call = None]
    /\ failures' = failures + 1
    /\ UNCHANGED <<debts, payments, price, presses, bizums>>

BizumPays == PaidByBizum(debts) /\ UNCHANGED <<price, screens, presses, failures>>

ChangePrice ==
    /\ price = Prices[1] /\ price' = Prices[2]
    /\ UNCHANGED <<debts, payments, screens, presses, bizums, failures>>

Quiet == UNCHANGED vars   \* the organisers may always wait

Next ==
    \/ \E s \in Screens : \/ Pay(s) \/ Undo(s) \/ Reassign(s)
                          \/ DetailAnswered(s) \/ Confirm(s) \/ Cancel(s)
                          \/ Perform(s) \/ Reloaded(s) \/ Open(s) \/ Lose(s)
    \/ BizumPays \/ ChangePrice \/ Quiet

Spec == Init /\ [][Next]_vars

-----------------------------------------------------------------------------
(* What the code must satisfy *)

CallType(call) ==
    \/ call.op = "pay" /\ call.shares \subseteq Members /\ call.payer \in Known
    \/ call.op \in {"undo", "reassign"} /\ call.id \in Nat \ {0} /\ call.of \in Members

\* Everything is what it is said to be, and every share is owed or paid, once.
TypeOK ==
    /\ debts \subseteq Debt /\ payments \subseteq Payment
    /\ \A m \in Members :
          Cardinality(Own(debts, m)) + Cardinality({p \in payments : p.member = m}) = 1
    /\ Cardinality({d.id : d \in debts}) = Cardinality(debts)
    /\ Cardinality({p.id : p \in payments}) = Cardinality(payments)
    /\ price \in Cents
    /\ \A s \in Screens :
          /\ screens[s].kind \in Kinds
          /\ screens[s].debts \subseteq Debt /\ screens[s].payments \subseteq Payment
          /\ screens[s].call # None => CallType(screens[s].call.asked)
          /\ screens[s].asking # None => screens[s].asking.stage \in {"reading", "asked"}
    /\ presses \in 0..Presses /\ bizums \in 0..Bizums /\ failures \in 0..Failures

\* What a row says it owes is what its buttons pay, each share once: everything its
\* player holds, and their own share when somebody else answers for it.
OwedIsOffered ==
    \A s \in Screens : screens[s].kind = "game" =>
        \A m \in Members :
            LET mine == {o \in Cell(screens[s].debts, m) :
                            \A x \in Cell(screens[s].debts, m) : ~(o.shares \subseteq x.shares /\ o # x)}
            IN MapThenSumSet(LAMBDA o : o.says, mine) = Owes(screens[s].debts, m)

\* Every share shown as owed can be paid from the screen, by whom the server takes
\* it from.
EveryDebtCanBePaid ==
    \A s \in Screens : \A d \in screens[s].debts :
        \E o \in Offers(screens[s]) : d.member \in o.shares /\ o.payer \in {d.holder, d.member}

\* "Pueden pagarla el titular o el beneficiario, y el pago guarda quien lo hizo": the
\* screen lets the holder of each share it shows pay it.
HolderCanPay ==
    \A s \in Screens : \A d \in screens[s].debts :
        \E o \in Offers(screens[s]) : d.member \in o.shares /\ o.payer = d.holder

\* The call a step performs, if it does.
Performed(s, op) ==
    /\ screens[s].call # None /\ screens[s].call.stage = "sent" /\ screens[s].call.asked.op = op
    /\ screens'[s].call # None /\ screens'[s].call.stage = "done"

\* A button pays what it says: the payments it makes add up to its amount.
PaysWhatItSays ==
    \A s \in Screens : Performed(s, "pay") =>
       Total(payments' \ payments) = screens[s].call.asked.says

\* Of the shares of one button all are paid or none, and by their holder or their own
\* player as they are at that moment.
AllOrNothing ==
    \A s \in Screens : screens[s].call # None /\ screens[s].call.asked.op = "pay"
                       /\ screens'[s] # screens[s] /\ payments' # payments =>
       /\ MembersOf(payments' \ payments) = screens[s].call.asked.shares
       /\ \A p \in payments' \ payments : p.payer \in {p.holder, p.member}

\* "One a bank Bizum made asks first, listing everything the Bizum paid": what an undo
\* undoes is the payment pressed, alone if made by hand, and if a Bizum made it
\* everything the dialog listed and nothing else.
UndoesWhatWasAsked ==
    \A s \in Screens : Performed(s, "undo") =>
       LET undone == payments \ payments'
           call == screens[s].call.asked
       IN /\ call.of \in MembersOf(undone)
          /\ (\E p \in undone : p.bizum # None) => call.listed = MembersOf(undone)
          /\ (\A p \in undone : p.bizum = None) => MembersOf(undone) = {call.of}

\* The share whose holder changes is the one the dialog named.
ReassignsTheShareNamed ==
    \A s \in Screens : Performed(s, "reassign") =>
       \A m \in Members \ {screens[s].call.asked.of} :
           \A d \in Own(debts, m), e \in Own(debts', m) : d.holder = e.holder
=============================================================================
