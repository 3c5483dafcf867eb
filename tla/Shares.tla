------------------------------- MODULE Shares -------------------------------
(***************************************************************************)
(* The tables money moves among -- participations, share_debts and         *)
(* payments -- and the operations of the services that write them, each    *)
(* one a function from the book (the contents of those tables) to the book *)
(* its transaction leaves.  The state machines apply these operations; a   *)
(* larger transaction composes them.                                       *)
(*                                                                         *)
(* A share is named as domain/share-key.ts names it: by the game and by    *)
(* whose it is, a player or the nth '+1' of a host.  Dates, notes, teams   *)
(* and the payment method are left out.                                    *)
(***************************************************************************)
EXTENDS Naturals

CONSTANTS Games,        \* game ids
          Players,      \* player ids
          PlusOnesOf,   \* the most anonymous '+1's each host brings (a bound)
          Bizums        \* ids of stored Bizums a payment may point to

None == "null"

PlusOnes == UNION {[host : {h}, ordinal : 1..PlusOnesOf[h]] : h \in Players}
Members  == Players \union PlusOnes

ASSUME SharesAssumption ==
    /\ PlusOnesOf \in [Players -> Nat]
    /\ None \notin Players
    /\ None \notin Bizums
    /\ Players \intersect PlusOnes = {}

Cents == Nat \ {0}

Debts == [game : Games, member : Members, holder : Players, amount : Cents]

Payments == [game : Games, member : Members, holder : Players, amount : Cents,
             payer : Players, bizum : Bizums \union {None}]

\* rows: the participations that exist; signed, played and paid: their columns.
Books == [debts    : SUBSET Debts,
          payments : SUBSET Payments,
          rows     : SUBSET (Games \X Players),
          signed   : SUBSET (Games \X Players),
          played   : SUBSET (Games \X Players),
          paid     : [Games \X Players -> Nat]]

EmptyBook == [debts |-> {}, payments |-> {}, rows |-> {}, signed |-> {}, played |-> {},
              paid |-> [x \in Games \X Players |-> 0]]

SameShare(s, t) == s.game = t.game /\ s.member = t.member

DebtsOf(b, g)    == {d \in b.debts : d.game = g}
PaymentsOf(b, g) == {p \in b.payments : p.game = g}

\* A fault: a share paid for does not count as billed.
OwedMembers(b, g) == {d.member : d \in DebtsOf(b, g)}

\* The keys billed already: keysOf of the debts and keysOf of the payments.
BilledMembers(b, g) ==
    {d.member : d \in DebtsOf(b, g)} \union {p.member : p \in PaymentsOf(b, g)}

\* No share in two rows: neither twice in a table nor once in each.
OneTable(b) ==
    /\ \A d, e \in b.debts : SameShare(d, e) => d = e
    /\ \A p, q \in b.payments : SameShare(p, q) => p = q
    /\ \A d \in b.debts, p \in b.payments : ~SameShare(d, p)

-----------------------------------------------------------------------------
(* participations *)

\* Writing a column of a participation inserts the missing row first, and a
\* new row is signed up: signed_up DEFAULT 1.
Upsert(b, xs) == [b EXCEPT !.rows   = @ \union xs,
                           !.signed = @ \union (xs \ b.rows)]

SignUp(b, xs)   == [Upsert(b, xs) EXCEPT !.signed = @ \union xs]
SignOut(b, xs)  == [Upsert(b, xs) EXCEPT !.signed = @ \ xs]

\* clearSignups, then one sign-up per player of the list.
ReplaceSignUps(b, g, players) ==
    SignUp([b EXCEPT !.signed = {x \in @ : x[1] # g}], {g} \X players)

RemoveRow(b, g, p) ==
    [b EXCEPT !.rows   = @ \ {<<g, p>>},
              !.signed = @ \ {<<g, p>>},
              !.played = @ \ {<<g, p>>},
              !.paid   = [@ EXCEPT ![<<g, p>>] = 0]]

\* Exactly these players played, whoever else had been marked.
SetPlayed(b, g, players) ==
    [Upsert(b, {g} \X players)
        EXCEPT !.played = {x \in @ : x[1] # g} \union ({g} \X players)]

-----------------------------------------------------------------------------
(* share_debts and payments *)

\* A fault: only the players of the convocatoria are billed, not the '+1's.
BillPlayers(b, g, playing, holder, amount) ==
    [b EXCEPT !.debts =
        {d \in @ : d.game = g => d.member \in playing}
        \union
        {[game |-> g, member |-> m, holder |-> holder[m], amount |-> amount] :
            m \in (playing \intersect Players) \ BilledMembers(b, g)}]

\* Bills the playing members not billed yet and drops the debts of the rest.
Bill(b, g, playing, holder, amount) ==
    [b EXCEPT !.debts =
        {d \in @ : d.game = g => d.member \in playing}
        \union
        {[game |-> g, member |-> m, holder |-> holder[m], amount |-> amount] :
            m \in playing \ BilledMembers(b, g)}]

\* Whoever answers for a share or whose it is may pay it.
MayPay(payer, debt) == payer \in {debt.holder, debt.member}

PaymentOf(debt, payer, amount, bizum) ==
    [game |-> debt.game, member |-> debt.member, holder |-> debt.holder,
     amount |-> amount, payer |-> payer, bizum |-> bizum]

DebtOf(payment, amount) ==
    [game |-> payment.game, member |-> payment.member, holder |-> payment.holder,
     amount |-> amount]

\* The paid games of the players these shares are for; a '+1' has none.
PaidGames(shares) == {<<s.game, s.member>> : s \in {t \in shares : t.member \in Players}}

\* Each share leaves the debts for the payments, and its player's paid game follows.
Settle(b, payments) ==
    LET games == PaidGames(payments)
        amountFor(x) == (CHOOSE p \in payments : <<p.game, p.member>> = x).amount
    IN [Upsert(b, games)
            EXCEPT !.debts    = {d \in @ : \A p \in payments : ~SameShare(d, p)},
                   !.payments = @ \union payments,
                   !.paid     = [x \in DOMAIN @ |->
                                    IF x \in games THEN amountFor(x) ELSE @[x]]]

\* A fault: the paid game is left as it was.
UnsettleKeepingPaid(b, payments, shareCents) ==
    [b EXCEPT !.payments = @ \ payments,
              !.debts    = @ \union {DebtOf(p, shareCents[p.game]) : p \in payments}]

\* The way back: the debt has the share amount the game's season has now.
Unsettle(b, payments, shareCents) ==
    LET games == PaidGames(payments)
    IN [Upsert(b, games)
            EXCEPT !.payments = @ \ payments,
                   !.debts    = @ \union {DebtOf(p, shareCents[p.game]) : p \in payments},
                   !.paid     = [x \in DOMAIN @ |-> IF x \in games THEN 0 ELSE @[x]]]

SetHolder(b, debt, holder) ==
    [b EXCEPT !.debts = (@ \ {debt}) \union {[debt EXCEPT !.holder = holder]}]

\* Deleting a game cascades to its participations, debts and payments.
Forget(b, g) ==
    [debts    |-> {d \in b.debts : d.game # g},
     payments |-> {p \in b.payments : p.game # g},
     rows     |-> {x \in b.rows : x[1] # g},
     signed   |-> {x \in b.signed : x[1] # g},
     played   |-> {x \in b.played : x[1] # g},
     paid     |-> [x \in DOMAIN b.paid |-> IF x[1] = g THEN 0 ELSE b.paid[x]]]
=============================================================================
