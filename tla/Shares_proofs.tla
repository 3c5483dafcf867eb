---------------------------- MODULE Shares_proofs ----------------------------
(***************************************************************************)
(* What the operations of Shares do to a book, for every book and every    *)
(* set of games and players: they give a book, they keep a share in one    *)
(* table, they bill nobody twice, and they keep the paid games in step.    *)
(* The proofs about GameDay and BizumDesk rest on these lemmas.            *)
(***************************************************************************)
EXTENDS Shares, TLAPS

-----------------------------------------------------------------------------
(* The operations of Shares are closed over the books. *)

\* Inserting missing participations gives a book, whoever they are of.
LEMMA UpsertType ==
    ASSUME NEW b \in Books, NEW xs \in SUBSET (Games \X Players)
    PROVE  Upsert(b, xs) \in Books
BY DEF Upsert, Books

\* Signing players up or out of a game gives a book.
LEMMA SignUpType ==
    ASSUME NEW b \in Books, NEW xs \in SUBSET (Games \X Players)
    PROVE  SignUp(b, xs) \in Books /\ SignOut(b, xs) \in Books
BY DEF SignUp, SignOut, Upsert, Books

\* Replacing a game's sign-ups gives a book.
LEMMA ReplaceSignUpsType ==
    ASSUME NEW b \in Books, NEW g \in Games, NEW ps \in SUBSET Players
    PROVE  ReplaceSignUps(b, g, ps) \in Books
<1> DEFINE cleared == [b EXCEPT !.signed = {x \in @ : x[1] # g}]
<1>1. cleared \in Books
  BY DEF Books
<1>2. {g} \X ps \in SUBSET (Games \X Players)
  OBVIOUS
<1>3. SignUp(cleared, {g} \X ps) \in Books
  BY <1>1, <1>2, SignUpType
<1> QED BY <1>3 DEF ReplaceSignUps

\* Removing a participation gives a book.
LEMMA RemoveRowType ==
    ASSUME NEW b \in Books, NEW g \in Games, NEW p \in Players
    PROVE  RemoveRow(b, g, p) \in Books
BY DEF RemoveRow, Books

\* Marking who played gives a book and leaves the money alone.
LEMMA SetPlayedType ==
    ASSUME NEW b \in Books, NEW g \in Games, NEW ps \in SUBSET Players
    PROVE  /\ SetPlayed(b, g, ps) \in Books
           /\ SetPlayed(b, g, ps).debts = b.debts
           /\ SetPlayed(b, g, ps).payments = b.payments
<1>1. {g} \X ps \in SUBSET (Games \X Players)
  OBVIOUS
<1>2. Upsert(b, {g} \X ps) \in Books
  BY <1>1, UpsertType
<1>3. /\ Upsert(b, {g} \X ps).debts = b.debts
      /\ Upsert(b, {g} \X ps).payments = b.payments
  BY DEF Upsert, Books
<1> QED BY <1>1, <1>2, <1>3 DEF SetPlayed, Books

\* Billing a game's playing line gives a book.
LEMMA BillType ==
    ASSUME NEW b \in Books, NEW g \in Games, NEW line \in SUBSET Members,
           NEW holder \in [Members -> Players], NEW amount \in Cents
    PROVE  Bill(b, g, line, holder, amount) \in Books
<1> DEFINE new == {[game |-> g, member |-> m, holder |-> holder[m], amount |-> amount] :
                      m \in line \ BilledMembers(b, g)}
<1>1. new \subseteq Debts
  BY DEF Debts
<1>2. {d \in b.debts : d.game = g => d.member \in line} \union new \in SUBSET Debts
  BY <1>1 DEF Books
<1>3. Bill(b, g, line, holder, amount)
        = [b EXCEPT !.debts = {d \in @ : d.game = g => d.member \in line} \union new]
  BY DEF Bill
<1> HIDE DEF new
<1> QED BY <1>2, <1>3 DEF Books

\* Forgetting a game gives a book.
LEMMA ForgetType ==
    ASSUME NEW b \in Books, NEW g \in Games
    PROVE  Forget(b, g) \in Books
BY DEF Forget, Books

\* The paid games of some shares are games of players.
LEMMA PaidGamesType ==
    ASSUME NEW shares, \A s \in shares : s.game \in Games /\ s.member \in Members
    PROVE  PaidGames(shares) \in SUBSET (Games \X Players)
BY DEF PaidGames

\* Settling shares with payments of theirs gives a book.
LEMMA SettleType ==
    ASSUME NEW b \in Books, NEW ps \in SUBSET Payments
    PROVE  Settle(b, ps) \in Books
<1> DEFINE games == PaidGames(ps)
           amountFor(x) == (CHOOSE p \in ps : <<p.game, p.member>> = x).amount
<1>1. games \in SUBSET (Games \X Players)
  BY PaidGamesType DEF Payments
<1>2. Upsert(b, games) \in Books
  BY <1>1, UpsertType
<1>3. ASSUME NEW x \in games
      PROVE  amountFor(x) \in Nat
  <2>1. PICK p \in ps : <<p.game, p.member>> = x
    BY DEF PaidGames
  <2>2. (CHOOSE q \in ps : <<q.game, q.member>> = x) \in ps
    BY <2>1
  <2> QED BY <2>2 DEF Payments, Cents
<1>4. [x \in DOMAIN Upsert(b, games).paid |->
          IF x \in games THEN amountFor(x) ELSE Upsert(b, games).paid[x]]
        \in [Games \X Players -> Nat]
  BY <1>2, <1>3 DEF Books
<1> HIDE DEF games, amountFor
<1>5. Settle(b, ps) =
        [Upsert(b, games)
            EXCEPT !.debts    = {d \in @ : \A p \in ps : ~SameShare(d, p)},
                   !.payments = @ \union ps,
                   !.paid     = [x \in DOMAIN @ |-> IF x \in games THEN amountFor(x)
                                                    ELSE @[x]]]
  BY DEF Settle, games, amountFor
<1> QED BY <1>2, <1>4, <1>5 DEF Books

\* Putting payments back as debts gives a book.
LEMMA UnsettleType ==
    ASSUME NEW b \in Books, NEW ps \in SUBSET Payments, NEW cents \in [Games -> Cents]
    PROVE  Unsettle(b, ps, cents) \in Books
<1> DEFINE games == PaidGames(ps)
<1>1. games \in SUBSET (Games \X Players)
  BY PaidGamesType DEF Payments
<1>2. Upsert(b, games) \in Books
  BY <1>1, UpsertType
<1>3. {DebtOf(p, cents[p.game]) : p \in ps} \subseteq Debts
  BY DEF DebtOf, Debts, Payments
<1> HIDE DEF games
<1>4. Unsettle(b, ps, cents) =
        [Upsert(b, games)
            EXCEPT !.payments = @ \ ps,
                   !.debts    = @ \union {DebtOf(p, cents[p.game]) : p \in ps},
                   !.paid     = [x \in DOMAIN @ |-> IF x \in games THEN 0 ELSE @[x]]]
  BY DEF Unsettle, games
<1>5. [x \in DOMAIN Upsert(b, games).paid |-> IF x \in games THEN 0
                                                ELSE Upsert(b, games).paid[x]]
        \in [Games \X Players -> Nat]
  BY <1>2 DEF Books
<1>6. Upsert(b, games).payments \ ps \in SUBSET Payments
  BY <1>2 DEF Books
<1>7. Upsert(b, games).debts \union {DebtOf(p, cents[p.game]) : p \in ps} \in SUBSET Debts
  BY <1>2, <1>3 DEF Books
<1> QED BY <1>2, <1>4, <1>5, <1>6, <1>7 DEF Books

\* Passing a debt to another holder gives a book.
LEMMA SetHolderType ==
    ASSUME NEW b \in Books, NEW d \in b.debts, NEW h \in Players
    PROVE  SetHolder(b, d, h) \in Books
BY DEF SetHolder, Books, Debts

-----------------------------------------------------------------------------
(* A share is a debt or a payment, never both and never twice *)

\* What is written to participations moves no money.
LEMMA ParticipationsKeepMoney ==
    ASSUME NEW b \in Books
    PROVE  /\ \A xs : /\ SignUp(b, xs).debts = b.debts /\ SignUp(b, xs).payments = b.payments
                      /\ SignOut(b, xs).debts = b.debts /\ SignOut(b, xs).payments = b.payments
           /\ \A g, p : /\ RemoveRow(b, g, p).debts = b.debts
                        /\ RemoveRow(b, g, p).payments = b.payments
           /\ \A g, ps : /\ ReplaceSignUps(b, g, ps).debts = b.debts
                         /\ ReplaceSignUps(b, g, ps).payments = b.payments
BY DEF Upsert, SignUp, SignOut, RemoveRow, ReplaceSignUps, Books

\* A share already billed or paid is not billed again.
LEMMA BillKeepsOneTable ==
    ASSUME NEW b \in Books, OneTable(b), NEW g, NEW line, NEW holder, NEW amount
    PROVE  OneTable(Bill(b, g, line, holder, amount))
<1> DEFINE kept == {d \in b.debts : d.game = g => d.member \in line}
           new  == {[game |-> g, member |-> m, holder |-> holder[m], amount |-> amount] :
                      m \in line \ BilledMembers(b, g)}
           c    == Bill(b, g, line, holder, amount)
<1>1. c.debts = kept \union new /\ c.payments = b.payments
  BY DEF Bill, Books
<1>2. \A d \in new : d.game = g /\ d.member \notin BilledMembers(b, g)
  OBVIOUS
<1>3. \A d \in new, e \in b.debts : ~SameShare(d, e) /\ ~SameShare(e, d)
  BY <1>2 DEF BilledMembers, DebtsOf, SameShare
<1>4. \A d \in new, p \in b.payments : ~SameShare(d, p)
  BY <1>2 DEF BilledMembers, PaymentsOf, SameShare
<1>5. \A d, e \in new : SameShare(d, e) => d = e
  BY DEF SameShare
<1>6. kept \subseteq b.debts
  OBVIOUS
<1> QED BY <1>1, <1>3, <1>4, <1>5, <1>6 DEF OneTable

\* Settling owed shares, one payment each, moves them from one table to the other.
LEMMA SettleKeepsOneTable ==
    ASSUME NEW b \in Books, OneTable(b), NEW ps,
           \A p \in ps : \E d \in b.debts : SameShare(d, p),
           \A p, q \in ps : SameShare(p, q) => p = q
    PROVE  OneTable(Settle(b, ps))
<1> DEFINE c == Settle(b, ps)
<1>1. /\ c.debts = {d \in b.debts : \A p \in ps : ~SameShare(d, p)}
      /\ c.payments = b.payments \union ps
  BY DEF Settle, Upsert, Books
<1>2. \A p \in ps, q \in b.payments : ~SameShare(p, q) /\ ~SameShare(q, p)
  BY DEF OneTable, SameShare
<1> QED BY <1>1, <1>2 DEF OneTable

\* Putting payments back moves their shares the other way.
LEMMA UnsettleKeepsOneTable ==
    ASSUME NEW b \in Books, OneTable(b), NEW ps \in SUBSET b.payments, NEW cents
    PROVE  OneTable(Unsettle(b, ps, cents))
<1> DEFINE c   == Unsettle(b, ps, cents)
           new == {DebtOf(p, cents[p.game]) : p \in ps}
<1>1. c.debts = b.debts \union new /\ c.payments = b.payments \ ps
  BY DEF Unsettle, Upsert, Books
<1>2. \A d \in new : \E p \in ps : d = DebtOf(p, cents[p.game]) /\ SameShare(d, p)
  BY DEF DebtOf, SameShare
<1>3. \A d, e \in new : SameShare(d, e) => d = e
  <2> SUFFICES ASSUME NEW d \in new, NEW e \in new, SameShare(d, e) PROVE d = e
    OBVIOUS
  <2>1. PICK p \in ps : d = DebtOf(p, cents[p.game]) /\ SameShare(d, p)
    BY <1>2
  <2>2. PICK q \in ps : e = DebtOf(q, cents[q.game]) /\ SameShare(e, q)
    BY <1>2
  <2>3. p = q
    BY <2>1, <2>2 DEF OneTable, SameShare
  <2> QED BY <2>1, <2>2, <2>3
<1>4. \A d \in new, e \in b.debts : ~SameShare(d, e) /\ ~SameShare(e, d)
  BY <1>2 DEF OneTable, SameShare
<1>5. \A d \in new, q \in b.payments \ ps : ~SameShare(d, q)
  BY <1>2 DEF OneTable, SameShare
<1> QED BY <1>1, <1>3, <1>4, <1>5 DEF OneTable

\* Passing a debt to another holder leaves it the same share.
LEMMA SetHolderKeepsOneTable ==
    ASSUME NEW b \in Books, OneTable(b), NEW d \in b.debts, NEW h
    PROVE  OneTable(SetHolder(b, d, h))
<1> DEFINE c == SetHolder(b, d, h)
           e == [d EXCEPT !.holder = h]
<1>1. c.debts = (b.debts \ {d}) \union {e} /\ c.payments = b.payments
  BY DEF SetHolder, Books
<1>2. e.game = d.game /\ e.member = d.member
  BY DEF Books, Debts
<1> HIDE DEF e
<1> QED BY <1>1, <1>2 DEF OneTable, SameShare

-----------------------------------------------------------------------------
(* What each operation makes of a share: owed, paid, or neither *)

\* The share of m in game g is in the debts, or in the payments.
IsOwed(b, g, m) == \E d \in b.debts : d.game = g /\ d.member = m
IsPaid(b, g, m) == \E p \in b.payments : p.game = g /\ p.member = m

\* Some of the rows in ps are for the share of m in game g.
IsAmong(ps, g, m) == \E p \in ps : p.game = g /\ p.member = m

\* Who is billed owes or has paid.
LEMMA BilledIsOwedOrPaid ==
    ASSUME NEW b, NEW g, NEW m
    PROVE  m \in BilledMembers(b, g) <=> IsOwed(b, g, m) \/ IsPaid(b, g, m)
BY DEF BilledMembers, DebtsOf, PaymentsOf, IsOwed, IsPaid

\* In a book with each share in one table nothing is both owed and paid.
LEMMA OwedIsNotPaid ==
    ASSUME NEW b, OneTable(b), NEW g, NEW m, IsOwed(b, g, m)
    PROVE  ~IsPaid(b, g, m)
BY DEF OneTable, SameShare, IsOwed, IsPaid

\* Billing pays nothing: of its game it leaves owing who plays and had not paid,
\* and of the others nothing changes.
LEMMA BillShares ==
    ASSUME NEW b \in Books, NEW g, NEW line, NEW holder, NEW amount, NEW h, NEW m
    PROVE  /\ IsPaid(Bill(b, g, line, holder, amount), h, m) <=> IsPaid(b, h, m)
           /\ h # g => (IsOwed(Bill(b, g, line, holder, amount), h, m) <=> IsOwed(b, h, m))
           /\ OneTable(b) => (IsOwed(Bill(b, g, line, holder, amount), g, m)
                                <=> m \in line /\ ~IsPaid(b, g, m))
<1> DEFINE kept == {d \in b.debts : d.game = g => d.member \in line}
           new  == {[game |-> g, member |-> q, holder |-> holder[q], amount |-> amount] :
                      q \in line \ BilledMembers(b, g)}
           c    == Bill(b, g, line, holder, amount)
<1>1. c.debts = kept \union new /\ c.payments = b.payments
  BY DEF Bill, Books
<1>2. IsPaid(c, h, m) <=> IsPaid(b, h, m)
  BY <1>1 DEF IsPaid
<1>0. \A d : d \in new <=>
        \E q \in line \ BilledMembers(b, g) :
          d = [game |-> g, member |-> q, holder |-> holder[q], amount |-> amount]
  OBVIOUS
<1> HIDE DEF new
<1>3. \A k : (\E d \in new : d.game = k /\ d.member = m)
               <=> k = g /\ m \in line \ BilledMembers(b, g)
  <2>1. \A d \in new : d.game = g /\ d.member \in line \ BilledMembers(b, g)
    BY <1>0
  <2>2. ASSUME m \in line \ BilledMembers(b, g)
        PROVE  \E d \in new : d.game = g /\ d.member = m
    <3> DEFINE r == [game |-> g, member |-> m, holder |-> holder[m], amount |-> amount]
    <3>1. r \in new
      BY <1>0, <2>2
    <3> QED BY <3>1
  <2> QED BY <2>1, <2>2
<1>4. (\E d \in kept : d.game = h /\ d.member = m)
        <=> IsOwed(b, h, m) /\ (h = g => m \in line)
  BY DEF IsOwed
<1>5. IsOwed(c, h, m) <=> \/ IsOwed(b, h, m) /\ (h = g => m \in line)
                          \/ h = g /\ m \in line \ BilledMembers(b, g)
  BY <1>1, <1>3, <1>4 DEF IsOwed
<1>7. (\E d \in kept : d.game = g /\ d.member = m) <=> IsOwed(b, g, m) /\ m \in line
  BY DEF IsOwed
<1>8. IsOwed(c, g, m) <=> \/ IsOwed(b, g, m) /\ m \in line
                          \/ m \in line \ BilledMembers(b, g)
  BY <1>1, <1>3, <1>7 DEF IsOwed
<1>9. m \in BilledMembers(b, g) <=> IsOwed(b, g, m) \/ IsPaid(b, g, m)
  BY BilledIsOwedOrPaid
<1>10. OneTable(b) => (IsOwed(b, g, m) => ~IsPaid(b, g, m))
  BY OwedIsNotPaid
<1> QED BY <1>2, <1>5, <1>8, <1>9, <1>10

\* Settling takes shares from the debts to the payments and moves no other.
LEMMA SettleShares ==
    ASSUME NEW b \in Books, NEW ps, NEW g, NEW m
    PROVE  /\ IsOwed(Settle(b, ps), g, m) <=> IsOwed(b, g, m) /\ ~IsAmong(ps, g, m)
           /\ IsPaid(Settle(b, ps), g, m) <=> IsPaid(b, g, m) \/ IsAmong(ps, g, m)
<1>1. /\ Settle(b, ps).debts = {d \in b.debts : \A p \in ps : ~SameShare(d, p)}
      /\ Settle(b, ps).payments = b.payments \union ps
  BY DEF Settle, Upsert, Books
<1> QED BY <1>1 DEF IsOwed, IsPaid, IsAmong, SameShare

\* Undoing takes them back, and a share that was in one table is in the other.
LEMMA UnsettleShares ==
    ASSUME NEW b \in Books, OneTable(b), NEW ps \in SUBSET b.payments, NEW cents,
           NEW g, NEW m
    PROVE  /\ IsOwed(Unsettle(b, ps, cents), g, m) <=> IsOwed(b, g, m) \/ IsAmong(ps, g, m)
           /\ IsPaid(Unsettle(b, ps, cents), g, m) <=> IsPaid(b, g, m) /\ ~IsAmong(ps, g, m)
<1> DEFINE new == {DebtOf(p, cents[p.game]) : p \in ps}
<1>1. /\ Unsettle(b, ps, cents).debts = b.debts \union new
      /\ Unsettle(b, ps, cents).payments = b.payments \ ps
  BY DEF Unsettle, Upsert, Books
<1>2. (\E d \in new : d.game = g /\ d.member = m) <=> IsAmong(ps, g, m)
  <2>1. \A d \in new : \E p \in ps : d.game = p.game /\ d.member = p.member
    BY DEF DebtOf
  <2>2. \A p \in ps : \E d \in new : d.game = p.game /\ d.member = p.member
    <3> SUFFICES ASSUME NEW p \in ps PROVE \E d \in new : d.game = p.game /\ d.member = p.member
      OBVIOUS
    <3>1. DebtOf(p, cents[p.game]).game = p.game /\ DebtOf(p, cents[p.game]).member = p.member
      BY DEF DebtOf
    <3> QED BY <3>1
  <2> QED BY <2>1, <2>2 DEF IsAmong
<1>3. \A p, q \in b.payments : p.game = q.game /\ p.member = q.member => p = q
  BY DEF OneTable, SameShare
<1> QED BY <1>1, <1>2, <1>3 DEF IsOwed, IsPaid, IsAmong

\* Passing a debt to another holder moves no share.
LEMMA SetHolderShares ==
    ASSUME NEW b \in Books, NEW d \in b.debts, NEW h, NEW g, NEW m
    PROVE  /\ IsOwed(SetHolder(b, d, h), g, m) <=> IsOwed(b, g, m)
           /\ IsPaid(SetHolder(b, d, h), g, m) <=> IsPaid(b, g, m)
<1> DEFINE e == [d EXCEPT !.holder = h]
<1>1. /\ SetHolder(b, d, h).debts = (b.debts \ {d}) \union {e}
      /\ SetHolder(b, d, h).payments = b.payments
  BY DEF SetHolder, Books
<1>2. e.game = d.game /\ e.member = d.member
  BY DEF Books, Debts
<1> HIDE DEF e
<1> QED BY <1>1, <1>2 DEF IsOwed, IsPaid

\* Forgetting a game forgets its shares and no other.
LEMMA ForgetShares ==
    ASSUME NEW b, NEW g, NEW h, NEW m
    PROVE  /\ IsOwed(Forget(b, g), h, m) <=> h # g /\ IsOwed(b, h, m)
           /\ IsPaid(Forget(b, g), h, m) <=> h # g /\ IsPaid(b, h, m)
BY DEF Forget, IsOwed, IsPaid

-----------------------------------------------------------------------------
(* A paid game is backed by a payment *)

\* Whoever has a paid game has a payment of that amount for it.
PaidIsBacked(b) ==
    \A g \in Games, p \in Players : b.paid[<<g, p>>] # 0 =>
        \E payment \in b.payments :
            /\ payment.game = g /\ payment.member = p
            /\ payment.amount = b.paid[<<g, p>>]

\* What is written to participations, and billing, leave no paid game without
\* its payment: removing a participation forgets the paid game as well.
LEMMA ParticipationsKeepBacked ==
    ASSUME NEW b \in Books, PaidIsBacked(b)
    PROVE  /\ \A xs : PaidIsBacked(SignUp(b, xs)) /\ PaidIsBacked(SignOut(b, xs))
           /\ \A g, ps : PaidIsBacked(ReplaceSignUps(b, g, ps))
           /\ \A g \in Games, p \in Players : PaidIsBacked(RemoveRow(b, g, p))
           /\ \A g, ps : PaidIsBacked(SetPlayed(b, g, ps))
           /\ \A g, line, holder, amount : PaidIsBacked(Bill(b, g, line, holder, amount))
           /\ \A d, h : PaidIsBacked(SetHolder(b, d, h))
<1>0. ASSUME NEW c, c.paid = b.paid, c.payments = b.payments PROVE PaidIsBacked(c)
  <2> SUFFICES ASSUME NEW g \in Games, NEW p \in Players, c.paid[<<g, p>>] # 0
               PROVE  \E r \in c.payments : /\ r.game = g /\ r.member = p
                                            /\ r.amount = c.paid[<<g, p>>]
    BY DEF PaidIsBacked
  <2> QED BY <1>0 DEF PaidIsBacked
<1>1. \A xs : PaidIsBacked(SignUp(b, xs)) /\ PaidIsBacked(SignOut(b, xs))
  <2>1. \A xs : /\ SignUp(b, xs).paid = b.paid /\ SignUp(b, xs).payments = b.payments
                /\ SignOut(b, xs).paid = b.paid /\ SignOut(b, xs).payments = b.payments
    BY DEF SignUp, SignOut, Upsert, Books
  <2> QED BY <1>0, <2>1
<1>2. \A g, ps : PaidIsBacked(ReplaceSignUps(b, g, ps)) /\ PaidIsBacked(SetPlayed(b, g, ps))
  <2>1. \A g, ps : /\ ReplaceSignUps(b, g, ps).paid = b.paid
                   /\ ReplaceSignUps(b, g, ps).payments = b.payments
                   /\ SetPlayed(b, g, ps).paid = b.paid
                   /\ SetPlayed(b, g, ps).payments = b.payments
    BY DEF ReplaceSignUps, SetPlayed, SignUp, Upsert, Books
  <2> QED BY <1>0, <2>1
<1>3. ASSUME NEW g, NEW line, NEW holder, NEW amount
      PROVE  PaidIsBacked(Bill(b, g, line, holder, amount))
  <2>1. /\ Bill(b, g, line, holder, amount).paid = b.paid
        /\ Bill(b, g, line, holder, amount).payments = b.payments
    BY DEF Bill, Books
  <2> QED BY <1>0, <2>1
<1>4. ASSUME NEW d, NEW h PROVE PaidIsBacked(SetHolder(b, d, h))
  <2>1. SetHolder(b, d, h).paid = b.paid /\ SetHolder(b, d, h).payments = b.payments
    BY DEF SetHolder, Books
  <2> QED BY <1>0, <2>1
<1>5. ASSUME NEW g \in Games, NEW p \in Players PROVE PaidIsBacked(RemoveRow(b, g, p))
  <2> DEFINE c == RemoveRow(b, g, p)
  <2>1. c.paid = [b.paid EXCEPT ![<<g, p>>] = 0] /\ c.payments = b.payments
        /\ b.paid \in [Games \X Players -> Nat]
    BY DEF RemoveRow, Books
  <2> HIDE DEF c
  <2> SUFFICES ASSUME NEW k \in Games, NEW q \in Players, c.paid[<<k, q>>] # 0
               PROVE  \E r \in c.payments : /\ r.game = k /\ r.member = q
                                            /\ r.amount = c.paid[<<k, q>>]
    BY DEF c, PaidIsBacked
  <2>2. c.paid[<<k, q>>] = b.paid[<<k, q>>]
    BY <2>1
  <2> QED BY <2>1, <2>2 DEF PaidIsBacked
<1> QED BY <1>1, <1>2, <1>3, <1>4, <1>5

\* A game that settling marks as paid has the payment that settled it.
LEMMA SettleKeepsBacked ==
    ASSUME NEW b \in Books, PaidIsBacked(b), NEW ps \in SUBSET Payments
    PROVE  PaidIsBacked(Settle(b, ps))
<1> DEFINE games == PaidGames(ps)
           amountFor(x) == (CHOOSE q \in ps : <<q.game, q.member>> = x).amount
           c == Settle(b, ps)
<1>1. c.payments = b.payments \union ps
  BY DEF Settle, Upsert, Books
<1>2. c.paid = [x \in Games \X Players |-> IF x \in games THEN amountFor(x) ELSE b.paid[x]]
  BY DEF Settle, Upsert, Books
<1>3. SUFFICES ASSUME NEW g \in Games, NEW p \in Players, c.paid[<<g, p>>] # 0
               PROVE  \E q \in c.payments : /\ q.game = g /\ q.member = p
                                            /\ q.amount = c.paid[<<g, p>>]
  BY DEF PaidIsBacked
<1>4. CASE <<g, p>> \in games
  <2>1. \E q \in ps : <<q.game, q.member>> = <<g, p>>
    BY <1>4 DEF PaidGames
  <2>2. PICK q \in ps : /\ <<q.game, q.member>> = <<g, p>>
                        /\ q = CHOOSE r \in ps : <<r.game, r.member>> = <<g, p>>
    BY <2>1
  <2>3. c.paid[<<g, p>>] = q.amount
    BY <1>2, <1>4, <2>2
  <2> QED BY <1>1, <2>2, <2>3
<1>5. CASE <<g, p>> \notin games
  <2>1. c.paid[<<g, p>>] = b.paid[<<g, p>>]
    BY <1>2, <1>5
  <2> QED BY <1>1, <1>3, <2>1 DEF PaidIsBacked
<1> QED BY <1>4, <1>5

\* A payment that is undone takes its paid game with it.
LEMMA UnsettleKeepsBacked ==
    ASSUME NEW b \in Books, PaidIsBacked(b), NEW ps, NEW cents
    PROVE  PaidIsBacked(Unsettle(b, ps, cents))
<1> DEFINE games == PaidGames(ps)
           c == Unsettle(b, ps, cents)
<1>1. c.payments = b.payments \ ps
  BY DEF Unsettle, Upsert, Books
<1>2. c.paid = [x \in Games \X Players |-> IF x \in games THEN 0 ELSE b.paid[x]]
  BY DEF Unsettle, Upsert, Books
<1>3. SUFFICES ASSUME NEW g \in Games, NEW p \in Players, c.paid[<<g, p>>] # 0
               PROVE  \E q \in c.payments : /\ q.game = g /\ q.member = p
                                            /\ q.amount = c.paid[<<g, p>>]
  BY DEF PaidIsBacked
<1>4. <<g, p>> \notin games /\ c.paid[<<g, p>>] = b.paid[<<g, p>>]
  BY <1>2, <1>3
<1>5. PICK q \in b.payments : /\ q.game = g /\ q.member = p
                              /\ q.amount = b.paid[<<g, p>>]
  BY <1>3, <1>4 DEF PaidIsBacked
<1>6. q \notin ps
  BY <1>4, <1>5 DEF PaidGames
<1> QED BY <1>1, <1>4, <1>5, <1>6

\* Forgetting a game forgets its paid games with its payments.
LEMMA ForgetKeepsBacked ==
    ASSUME NEW b \in Books, PaidIsBacked(b), NEW g
    PROVE  PaidIsBacked(Forget(b, g))
<1>1. /\ Forget(b, g).payments = {p \in b.payments : p.game # g}
      /\ Forget(b, g).paid = [x \in Games \X Players |-> IF x[1] = g THEN 0 ELSE b.paid[x]]
  BY DEF Forget, Books
<1> DEFINE c == Forget(b, g)
<1> SUFFICES ASSUME NEW h \in Games, NEW p \in Players, c.paid[<<h, p>>] # 0
             PROVE  \E r \in c.payments : /\ r.game = h /\ r.member = p
                                          /\ r.amount = c.paid[<<h, p>>]
  BY DEF PaidIsBacked
<1>2. h # g /\ c.paid[<<h, p>>] = b.paid[<<h, p>>]
  BY <1>1
<1>3. PICK r \in b.payments : /\ r.game = h /\ r.member = p
                             /\ r.amount = b.paid[<<h, p>>]
  BY <1>2 DEF PaidIsBacked
<1> QED BY <1>1, <1>2, <1>3

-----------------------------------------------------------------------------
(* Who is marked as having played *)

\* Signing up and moving money mark nobody and unmark nobody.
LEMMA MoneyKeepsPlayed ==
    ASSUME NEW b \in Books
    PROVE  /\ \A xs : SignUp(b, xs).played = b.played /\ SignOut(b, xs).played = b.played
           /\ \A g, ps : ReplaceSignUps(b, g, ps).played = b.played
           /\ \A g, line, holder, amount : Bill(b, g, line, holder, amount).played = b.played
           /\ \A ps : Settle(b, ps).played = b.played
           /\ \A ps, cents : Unsettle(b, ps, cents).played = b.played
           /\ \A d, h : SetHolder(b, d, h).played = b.played
BY DEF SignUp, SignOut, ReplaceSignUps, Bill, Settle, Unsettle, SetHolder, Upsert, Books

\* Marking who played a game, removing a participation and forgetting a game touch
\* the marks of that game and no other.
LEMMA MarksOfAGame ==
    ASSUME NEW b \in Books, NEW g, NEW h, NEW q
    PROVE  /\ \A ps : <<h, q>> \in SetPlayed(b, g, ps).played
                        <=> IF h = g THEN q \in ps ELSE <<h, q>> \in b.played
           /\ \A p : <<h, q>> \in RemoveRow(b, g, p).played
                       <=> <<h, q>> \in b.played /\ <<h, q>> # <<g, p>>
           /\ <<h, q>> \in Forget(b, g).played <=> <<h, q>> \in b.played /\ h # g
<1>1. \A ps : SetPlayed(b, g, ps).played = {x \in b.played : x[1] # g} \union ({g} \X ps)
  BY DEF SetPlayed, Upsert, Books
<1>2. \A p : RemoveRow(b, g, p).played = b.played \ {<<g, p>>}
  BY DEF RemoveRow, Books
<1>3. Forget(b, g).played = {x \in b.played : x[1] # g}
  BY DEF Forget
<1> QED BY <1>1, <1>2, <1>3
=============================================================================
