----------------------- MODULE BankConnection_proofs -----------------------
(***************************************************************************)
(* Proofs about BankConnection, for any number of authorisations and of    *)
(* calls in flight.  A session has one life: its code is exchanged by one  *)
(* call, then it is stored, then replaced, then closed, and never goes     *)
(* back.  And about the page it is managed from, of BankPanel, for any     *)
(* words and dates: what it shows is what is stored, and only what is      *)
(* written there anew is refused, as long as "Leer ahora" and lost answers *)
(* leave it alone.                                                         *)
(***************************************************************************)
EXTENDS BankConnection, TLAPS

\* An exchange spends the authorisation for good.
ExchangedIsUsed ==
    \A a \in Authorizations :
        exchanged[a] > 0 => authorization[a] # None /\ authorization[a].used

\* Only a session whose code was exchanged is known to anybody.
KnownIsExchanged ==
    \A s \in Sessions :
        exchanged[s] = 0 =>
            /\ ~IsStored(s)
            /\ \A c \in Callbacks : ~Is(c, "exchange", s) /\ ~Is(c, "close", s)

\* A session being exchanged is so by one call, and is not stored or closed yet.
OneLife ==
    \A s \in Sessions, c \in Callbacks :
        Is(c, "exchange", s) =>
            /\ ~IsStored(s)
            /\ \A d \in Callbacks : ~Is(d, "close", s) /\ (Is(d, "exchange", s) => d = c)

Inv == TypeOK /\ ExchangedOnce /\ ExchangedIsUsed /\ KnownIsExchanged /\ OneLife
              /\ RenewalSparesTheStored

LEMMA InitInv == Init => Inv
  <1> SUFFICES ASSUME Init PROVE Inv
    OBVIOUS
  <1>1. TypeOK
    BY DEF Init, NobodyCalls, TypeOK
  <1>2. ExchangedOnce /\ ExchangedIsUsed
    BY DEF Init, ExchangedOnce, ExchangedIsUsed
  <1>3. KnownIsExchanged /\ OneLife /\ RenewalSparesTheStored
    BY DEF Init, NobodyCalls, KnownIsExchanged, OneLife, RenewalSparesTheStored, Is, IsStored
  <1> QED
    BY <1>1, <1>2, <1>3 DEF Inv

LEMMA NextType == TypeOK /\ [Next]_vars => TypeOK'
  <1> SUFFICES ASSUME TypeOK, [Next]_vars PROVE TypeOK'
    OBVIOUS
  <1> USE ConnectionAssumption DEF TypeOK, Sessions
  <1>1. ASSUME NEW a \in Authorizations, Connect(a) PROVE TypeOK'
    BY <1>1 DEF Connect, Pending, Purposes
  <1>2. ASSUME NEW a \in Authorizations, Expire(a) PROVE TypeOK'
    BY <1>2, ZenonT(60) DEF Expire, Pending
  <1>3. ASSUME NEW a \in Authorizations, RedirectedRefused(a) PROVE TypeOK'
    BY <1>3, ZenonT(60) DEF RedirectedRefused, Usable, Pending
  <1>4. ASSUME NEW a \in Authorizations, NEW c \in Callbacks, Redirected(c, a) PROVE TypeOK'
    <2>1. authorization[a] \in Pending
      BY <1>4 DEF Redirected, Usable
    <2>2. [authorization[a] EXCEPT !.used = TRUE] \in Pending
      BY <2>1 DEF Pending
    <2>3. authorization' = [authorization EXCEPT ![a] = [authorization[a] EXCEPT !.used = TRUE]]
      BY <1>4 DEF Redirected
    <2> QED
      BY <1>4, <2>2, <2>3 DEF Redirected, Waiting
  <1>5. ASSUME NEW a \in Authorizations, NEW c \in Callbacks, Exchanged(c, a) PROVE TypeOK'
    <2>1. stored # None => stored.session \in Sessions
      BY DEF Stored
    <2> QED
      BY <1>5, <2>1 DEF Exchanged, Previous, New, Stored, Waiting
  <1>6. ASSUME NEW a \in Authorizations, NEW c \in Callbacks, ExchangeFailed(c, a) PROVE TypeOK'
    BY <1>6 DEF ExchangeFailed
  <1>7. ASSUME NEW c \in Callbacks, PreviousClosed(c) PROVE TypeOK'
    BY <1>7 DEF PreviousClosed
  <1>8. ASSUME NEW d \in Disconnects, Disconnect(d) \/ Disconnected(d) PROVE TypeOK'
    BY <1>8 DEF Disconnect, Disconnected, Stored
  <1>9. ASSUME NEW s \in Sessions, BankCloses(s) \/ SessionEnds(s) PROVE TypeOK'
    BY <1>9 DEF BankCloses, SessionEnds
  <1>10. CASE StartRead
    BY <1>10 DEF StartRead, Stored, Reading
  <1>11. CASE ReadSucceeded
    BY <1>11 DEF ReadSucceeded, Stored, Reading
  <1>12. CASE ReadFoundSessionEnded
    BY <1>12 DEF ReadFoundSessionEnded, Stored
  <1>13. CASE ReadFailed \/ Restart
    BY <1>13 DEF ReadFailed, Restart
  <1>14. CASE UNCHANGED vars
    BY <1>14 DEF vars
  <1> QED
    BY <1>1, <1>2, <1>3, <1>4, <1>5, <1>6, <1>7, <1>8, <1>9, <1>10, <1>11, <1>12, <1>13, <1>14
       DEF Next

\* What the rest of Inv speaks of: a step that keeps the calls of complete, the stored session
\* and the exchanges, or drops some of them, keeps it too.
LEMMA DroppingKeepsInv ==
  ASSUME Inv, TypeOK', UNCHANGED exchanged,
         \A a \in Authorizations : authorization[a] # None /\ authorization[a].used =>
             authorization'[a] # None /\ authorization'[a].used,
         \A c \in Callbacks : callback'[c] \in {callback[c], None},
         \A s \in Sessions : IsStored(s)' => IsStored(s)
  PROVE  Inv'
  <1>1. \A c \in Callbacks, s \in Sessions :
            /\ Is(c, "exchange", s)' => Is(c, "exchange", s)
            /\ Is(c, "close", s)' => Is(c, "close", s)
    BY DEF Is
  <1>2. ExchangedOnce' /\ ExchangedIsUsed'
    BY DEF Inv, ExchangedOnce, ExchangedIsUsed, TypeOK
  <1>3. KnownIsExchanged' /\ RenewalSparesTheStored'
    BY <1>1 DEF Inv, KnownIsExchanged, RenewalSparesTheStored
  <1>4. OneLife'
    BY <1>1 DEF Inv, OneLife
  <1> QED
    BY <1>2, <1>3, <1>4 DEF Inv

LEMMA RedirectedKeepsInv ==
  ASSUME Inv, TypeOK', NEW a \in Authorizations, NEW c \in Callbacks, Redirected(c, a)
  PROVE  Inv'
  <1> USE DEF Sessions
  <1>1. exchanged[a] = 0
    BY DEF Inv, ExchangedIsUsed, TypeOK, Redirected, Usable
  <1>2. /\ ~IsStored(a)
        /\ \A d \in Callbacks : ~Is(d, "exchange", a) /\ ~Is(d, "close", a)
    BY <1>1 DEF Inv, KnownIsExchanged
  <1>3. \A s \in Sessions : IsStored(s)' <=> IsStored(s)
    BY DEF Redirected, IsStored
  <1>4. \A d \in Callbacks, s \in Sessions :
            /\ Is(d, "close", s)' => Is(d, "close", s)
            /\ Is(d, "exchange", s)' => Is(d, "exchange", s) \/ (d = c /\ s = a)
    BY ConnectionAssumption DEF Inv, TypeOK, Redirected, Is
  <1>5. exchanged'[a] = 1 /\ \A s \in Sessions \ {a} : exchanged'[s] = exchanged[s]
    BY <1>1 DEF Inv, TypeOK, Redirected
  <1>6. ExchangedOnce'
    BY <1>5 DEF Inv, ExchangedOnce
  <1>7. ExchangedIsUsed'
    <2>1. authorization'[a] # None /\ authorization'[a].used
      <3>1. authorization[a] \in Pending
        BY DEF Inv, TypeOK, Redirected, Usable
      <3>2. authorization'[a] = [authorization[a] EXCEPT !.used = TRUE]
        BY DEF Inv, TypeOK, Redirected
      <3>3. authorization'[a].used /\ authorization'[a] \in Pending
        BY <3>1, <3>2 DEF Pending
      <3> QED
        BY <3>3, ConnectionAssumption
    <2>2. \A b \in Authorizations \ {a} : authorization'[b] = authorization[b]
      BY DEF Inv, TypeOK, Redirected
    <2> QED
      BY <1>5, <2>1, <2>2 DEF Inv, ExchangedIsUsed
  <1>8. KnownIsExchanged'
    BY <1>3, <1>4, <1>5 DEF Inv, KnownIsExchanged
  <1>9. OneLife'
    BY <1>2, <1>3, <1>4 DEF Inv, OneLife
  <1>10. RenewalSparesTheStored'
    BY <1>3, <1>4 DEF Inv, RenewalSparesTheStored
  <1> QED
    BY <1>6, <1>7, <1>8, <1>9, <1>10 DEF Inv

LEMMA ExchangedKeepsInv ==
  ASSUME Inv, TypeOK', NEW a \in Authorizations, NEW c \in Callbacks, Exchanged(c, a)
  PROVE  Inv'
  <1> USE DEF Sessions
  <1>1. \A s \in Sessions : IsStored(s)' <=> s = a
    <2>1. stored' = New(a) /\ New(a) \in Stored
      BY DEF Exchanged, New, Stored
    <2>2. stored' # None
      BY <2>1, ConnectionAssumption
    <2>3. stored'.session = a
      BY <2>1 DEF New
    <2> QED
      BY <2>2, <2>3 DEF IsStored
  <1>2. \A d \in Callbacks, s \in Sessions :
            /\ Is(d, "exchange", s)' => Is(d, "exchange", s) /\ d # c
            /\ Is(d, "close", s)' => Is(d, "close", s) \/ IsStored(s)
    BY DEF Inv, TypeOK, Exchanged, Previous, Is, IsStored
  <1>3. /\ Is(c, "exchange", a) /\ ~IsStored(a)
        /\ \A d \in Callbacks : ~Is(d, "close", a) /\ (Is(d, "exchange", a) => d = c)
    BY DEF Inv, OneLife, Exchanged
  <1>4. exchanged[a] # 0
    BY <1>3 DEF Inv, KnownIsExchanged
  <1>5. UNCHANGED <<exchanged, authorization>>
    BY DEF Exchanged
  <1>6. ExchangedOnce' /\ ExchangedIsUsed'
    BY <1>5 DEF Inv, ExchangedOnce, ExchangedIsUsed
  <1>7. KnownIsExchanged'
    BY <1>1, <1>2, <1>4, <1>5 DEF Inv, KnownIsExchanged
  <1>8. OneLife'
    BY <1>1, <1>2, <1>3 DEF Inv, OneLife
  <1>9. RenewalSparesTheStored'
    BY <1>1, <1>2, <1>3 DEF Inv, RenewalSparesTheStored
  <1> QED
    BY <1>6, <1>7, <1>8, <1>9 DEF Inv

LEMMA NextInv == Inv /\ [Next]_vars => Inv'
  <1> SUFFICES ASSUME Inv, [Next]_vars PROVE Inv'
    OBVIOUS
  <1>0. TypeOK'
    BY NextType DEF Inv
  <1>1. ASSUME NEW a \in Authorizations, Connect(a) \/ Expire(a) \/ RedirectedRefused(a)
        PROVE  Inv'
    <2>1. \A b \in Authorizations : authorization[b] # None /\ authorization[b].used =>
              authorization'[b] # None /\ authorization'[b].used
      <3>1. ASSUME NEW b \in Authorizations, authorization[b] # None, authorization[b].used
            PROVE  authorization'[b].used
        BY <1>1, <3>1 DEF Inv, TypeOK, Pending, Connect, Expire, RedirectedRefused, Usable
      <3>2. ASSUME NEW b \in Authorizations, authorization[b] # None
            PROVE  authorization'[b] \in Pending
        <4>1. CASE b # a
          BY <1>1, <3>2, <4>1 DEF Inv, TypeOK, Connect, Expire, RedirectedRefused
        <4>2. CASE b = a
          <5>1. authorization[a] \in Pending
            BY <3>2, <4>2 DEF Inv, TypeOK
          <5>2. authorization'[a] \in {[authorization[a] EXCEPT !.expired = TRUE],
                                        [authorization[a] EXCEPT !.used = TRUE]}
            BY <1>1, <3>2, <4>2 DEF Inv, TypeOK, Connect, Expire, RedirectedRefused
          <5> QED
            BY <4>2, <5>1, <5>2 DEF Pending
        <4> QED
          BY <4>1, <4>2
      <3> QED
        BY <3>1, <3>2, ConnectionAssumption
    <2>2. UNCHANGED <<stored, callback, exchanged>>
      BY <1>1 DEF Connect, Expire, RedirectedRefused
    <2> QED
      BY <1>0, <2>1, <2>2, DroppingKeepsInv DEF IsStored
  <1>2. ASSUME NEW a \in Authorizations, NEW c \in Callbacks, Redirected(c, a) PROVE Inv'
    BY <1>0, <1>2, RedirectedKeepsInv
  <1>3. ASSUME NEW a \in Authorizations, NEW c \in Callbacks, Exchanged(c, a) PROVE Inv'
    BY <1>0, <1>3, ExchangedKeepsInv
  <1>4. ASSUME NEW c \in Callbacks,
               PreviousClosed(c) \/ \E a \in Authorizations : ExchangeFailed(c, a)
        PROVE  Inv'
    <2>1. UNCHANGED <<authorization, stored, exchanged>>
      BY <1>4 DEF PreviousClosed, ExchangeFailed
    <2>2. \A d \in Callbacks : callback'[d] \in {callback[d], None}
      BY <1>4 DEF Inv, TypeOK, PreviousClosed, ExchangeFailed
    <2> QED
      BY <1>0, <2>1, <2>2, DroppingKeepsInv DEF IsStored
  <1>5. ASSUME UNCHANGED <<authorization, callback, exchanged>>, stored' \in {stored, None}
        PROVE  Inv'
    BY <1>0, <1>5, DroppingKeepsInv DEF IsStored
  <1>6. ASSUME NEW d \in Disconnects, Disconnect(d) \/ Disconnected(d) PROVE Inv'
    BY <1>5, <1>6 DEF Disconnect, Disconnected
  <1>7. ASSUME NEW s \in Sessions, BankCloses(s) \/ SessionEnds(s) PROVE Inv'
    BY <1>5, <1>7 DEF BankCloses, SessionEnds
  <1>8. CASE StartRead \/ ReadFailed
    BY <1>5, <1>8 DEF StartRead, ReadFailed
  <1>9. CASE ReadSucceeded \/ ReadFoundSessionEnded
    <2>1. UNCHANGED <<authorization, callback, exchanged>>
      BY <1>9 DEF ReadSucceeded, ReadFoundSessionEnded
    <2>2. \A s \in Sessions : IsStored(s)' => IsStored(s)
      BY <1>9 DEF Inv, TypeOK, Stored, ReadSucceeded, ReadFoundSessionEnded, IsStored
    <2> QED
      BY <1>0, <2>1, <2>2, DroppingKeepsInv
  <1>10. CASE Restart
    <2>1. /\ UNCHANGED <<authorization, stored, exchanged>>
          /\ \A c \in Callbacks : callback'[c] = None
      BY <1>10 DEF Restart
    <2> QED
      BY <1>0, <2>1, DroppingKeepsInv DEF IsStored
  <1>11. CASE UNCHANGED vars
    BY <1>5, <1>11 DEF vars
  <1> QED
    BY <1>1, <1>2, <1>3, <1>4, <1>6, <1>7, <1>8, <1>9, <1>10, <1>11 DEF Next

LEMMA InvHolds == Spec => []Inv
  BY InitInv, NextInv, PTL DEF Spec

\* A code is asked for at most once, for any number of redirects, overlapping calls and restarts.
THEOREM CodesAreExchangedOnce == Spec => []ExchangedOnce
  <1>1. Inv => ExchangedOnce
    BY DEF Inv
  <1> QED
    BY <1>1, InvHolds, PTL

\* No call of complete is ever closing the session that is stored.
THEOREM RenewalsSpareTheStored == Spec => []RenewalSparesTheStored
  <1>1. Inv => RenewalSparesTheStored
    BY DEF Inv
  <1> QED
    BY <1>1, InvHolds, PTL

-----------------------------------------------------------------------------
(* The page, of BankPanel *)

CONSTANTS Words, Folded, Initial, Long, Days, Future, Presses, Reads, Failures
VARIABLES server, panel, returned, call, readingNow, loads, presses, reads, failures

Panel == INSTANCE BankPanel WITH reading <- readingNow

\* Nobody presses "Leer ahora", and every answer arrives.
Undisturbed == Reads = 0 /\ Failures = 0

\* What is asked was on offer: one list of the panel's with a word more or less, a date, or the
\* end of a connection there is.
Offered(asked) ==
    \/ /\ asked.op = "words"
       /\ \E list \in Panel!Lists : \E words \in {panel[list] \cup {asked.word},
                                                  panel[list] \ {asked.word}} :
             /\ asked.include = IF list = "include" THEN words ELSE panel.include
             /\ asked.exclude = IF list = "exclude" THEN words ELSE panel.exclude
    \/ asked.op \in {"change", "connect"}
    \/ asked.op = "disconnect" /\ panel.connection # "none"

\* The panel on its way into this slot, and no other.
OnlyLoad(slot) == DOMAIN loads = {slot} /\ loads[slot].answer \in {None, server}

\* What is shown is what is stored, but when the page is opening and from when something is
\* done until the panel is read again.
PanelInStep ==
    \/ panel = None /\ call = None /\ OnlyLoad(Panel!Opening)
    \/ panel = server /\ call = None /\ DOMAIN loads = {}
    \/ panel = server /\ call # None /\ call.at = "sent" /\ Offered(call.asked)
       /\ DOMAIN loads = {}
    \/ panel = server /\ call # None /\ call.at = "refused" /\ Offered(call.asked)
       /\ Panel!Refused(call.asked) /\ DOMAIN loads = {}
    \/ panel # None /\ call # None /\ call.at = "done" /\ DOMAIN loads = {}
    \/ panel # None /\ call # None /\ call.at = "reading" /\ OnlyLoad(Panel!Action)

PanelInv ==
    /\ server \in Panel!View /\ panel \in Panel!View \cup {None}
    /\ call \in Panel!Pressed \cup {None} /\ readingNow = FALSE
    /\ reads = 0 /\ failures = 0
    /\ Panel!Accepted(server.include) /\ Panel!Accepted(server.exclude)
    /\ PanelInStep

LEMMA PanelAtFirst ==
    ASSUME Panel!BankPanelAssumption, Undisturbed, Panel!Init PROVE PanelInv
<1>1. server \in Panel!View /\ server.include = Initial /\ server.exclude = {}
  BY DEF Panel!Init, Panel!View, Panel!BankPanelAssumption
<1>2. Panel!Accepted(server.include) /\ Panel!Accepted(server.exclude)
  BY <1>1 DEF Panel!Accepted, Panel!BankPanelAssumption
<1>3. OnlyLoad(Panel!Opening)
  BY DEF Panel!Init, OnlyLoad
<1> QED
  BY <1>1, <1>2, <1>3 DEF PanelInv, PanelInStep, Panel!Init

\* Whoever presses asks for what is on offer.
LEMMA PressedIsOffered ==
    ASSUME Panel!BankPanelAssumption, PanelInv, NEW asked \in Panel!Call,
           panel = server => Offered(asked), Panel!Press(asked)
    PROVE  PanelInv'
<1>1. /\ panel = server /\ panel # None /\ DOMAIN loads = {}
      /\ UNCHANGED <<server, panel, readingNow, loads, reads, failures>>
      /\ call' = [asked |-> asked, at |-> "sent"]
  BY DEF PanelInv, PanelInStep, Panel!Press
<1>2. call' \in Panel!Pressed /\ call' # None
  BY <1>1 DEF Panel!Pressed, Panel!BankPanelAssumption
<1>3. Offered(asked)'
  BY <1>1 DEF Offered
<1>4. call'.asked = asked /\ call'.at = "sent"
  BY <1>1
<1>5. Offered(call.asked)'
  BY <1>3, <1>4 DEF Offered
<1>6. PanelInStep'
  BY <1>1, <1>2, <1>4, <1>5 DEF PanelInStep
<1> QED
  BY <1>1, <1>2, <1>6 DEF PanelInv, Panel!Accepted

LEMMA WordsAreOffered ==
    ASSUME Panel!BankPanelAssumption, PanelInv, NEW list \in Panel!Lists, NEW word \in Words,
           Panel!AddWord(list, word) \/ Panel!RemoveWord(list, word)
    PROVE  PanelInv'
<1>1. panel \in Panel!View
  BY DEF PanelInv, Panel!AddWord, Panel!RemoveWord
<1>2. PICK words \in {panel[list] \cup {word}, panel[list] \ {word}} :
          Panel!AskWords(list, words, word)
  BY DEF Panel!AddWord, Panel!RemoveWord
<1> DEFINE asked == [op |-> "words", word |-> word,
                     include |-> IF list = "include" THEN words ELSE panel.include,
                     exclude |-> IF list = "exclude" THEN words ELSE panel.exclude]
<1>3. words \subseteq Words
  BY <1>1, <1>2 DEF Panel!View, Panel!Lists
<1>4. asked \in Panel!Call
  BY <1>1, <1>3 DEF Panel!View, Panel!Call
<1>5. Offered(asked)
  BY <1>2 DEF Offered
<1>6. Panel!Press(asked)
  BY <1>2 DEF Panel!AskWords
<1> HIDE DEF asked
<1> QED
  BY <1>4, <1>5, <1>6, PressedIsOffered

LEMMA OfferStands ==
    ASSUME Offered(call.asked), call'.asked = call.asked, UNCHANGED panel
    PROVE  Offered(call.asked)'
<1>1. CASE call.asked.op # "words"
  BY <1>1 DEF Offered
<1>2. CASE call.asked.op = "words"
  <2>1. PICK list \in Panel!Lists : \E words \in {panel[list] \cup {call.asked.word},
                                                  panel[list] \ {call.asked.word}} :
            /\ call.asked.include = IF list = "include" THEN words ELSE panel.include
            /\ call.asked.exclude = IF list = "exclude" THEN words ELSE panel.exclude
    BY <1>2 DEF Offered
  <2>2. PICK words \in {panel[list] \cup {call.asked.word}, panel[list] \ {call.asked.word}} :
            /\ call.asked.include = IF list = "include" THEN words ELSE panel.include
            /\ call.asked.exclude = IF list = "exclude" THEN words ELSE panel.exclude
    BY <2>1
  <2>3. words \in {panel'[list] \cup {call'.asked.word}, panel'[list] \ {call'.asked.word}}
    BY <2>1
  <2> QED
    BY <1>2, <2>2, <2>3 DEF Offered, Panel!Lists
<1> QED
  BY <1>1, <1>2

\* What was offered and is done leaves both lists as the server accepts them.
LEMMA PerformKeepsInv ==
    ASSUME Panel!BankPanelAssumption, PanelInv, Panel!Perform PROVE PanelInv'
<1>1. /\ panel = server /\ call # None /\ call.at = "sent" /\ Offered(call.asked)
      /\ DOMAIN loads = {} /\ call \in Panel!Pressed
      /\ UNCHANGED <<panel, readingNow, loads, reads, failures>>
  BY DEF PanelInv, PanelInStep, Panel!Perform
<1>2. CASE Panel!Refused(call.asked)
  <2>1. call' = [call EXCEPT !.at = "refused"] /\ server' = server
    BY <1>2 DEF Panel!Perform
  <2>2. /\ call' \in Panel!Pressed /\ call' # None
        /\ call'.asked = call.asked /\ call'.at = "refused"
    BY <1>1, <2>1 DEF Panel!Pressed, Panel!BankPanelAssumption
  <2>3. Offered(call.asked)' /\ Panel!Refused(call.asked)'
    <3>1. Offered(call.asked)'
      BY <1>1, <2>2, OfferStands
    <3>2. Panel!Refused(call.asked)'
      BY <1>2, <2>1, <2>2 DEF Panel!Refused, Panel!Accepted
    <3> QED
      BY <3>1, <3>2
  <2>4. PanelInStep'
    BY <1>1, <2>1, <2>2, <2>3 DEF PanelInStep
  <2> QED
    BY <1>1, <2>1, <2>2, <2>4 DEF PanelInv, Panel!Accepted
<1>3. CASE ~Panel!Refused(call.asked)
  <2>1. call' = [call EXCEPT !.at = "done"] /\ server' = Panel!Done(call.asked)
    BY <1>3 DEF Panel!Perform
  <2>2. /\ call' \in Panel!Pressed /\ call' # None /\ call'.at = "done"
    BY <1>1, <2>1 DEF Panel!Pressed, Panel!BankPanelAssumption
  <2>3. /\ server' \in Panel!View
        /\ Panel!Accepted(server'.include) /\ Panel!Accepted(server'.exclude)
    <3>1. call.asked \in Panel!Call /\ server \in Panel!View
      BY <1>1 DEF Panel!Pressed, PanelInv
    <3>2. CASE call.asked.op = "words"
      <4>1. call.asked.include \in SUBSET Words /\ call.asked.exclude \in SUBSET Words
        BY <3>1, <3>2 DEF Panel!Call
      <4>2. server' = [server EXCEPT !.include = call.asked.include,
                                     !.exclude = call.asked.exclude]
        BY <2>1, <3>2 DEF Panel!Done
      <4>3. server' \in Panel!View /\ server'.include = call.asked.include
            /\ server'.exclude = call.asked.exclude
        BY <3>1, <4>1, <4>2 DEF Panel!View
      <4>4. Panel!Accepted(call.asked.include) /\ Panel!Accepted(call.asked.exclude)
        BY <1>3, <3>2 DEF Panel!Refused
      <4> QED
        BY <4>3, <4>4 DEF Panel!Accepted
    <3>3. CASE call.asked.op # "words"
      <4>1. server' \in Panel!View /\ server'.include = server.include
            /\ server'.exclude = server.exclude
        BY <2>1, <3>1, <3>3 DEF Panel!Done, Panel!Call, Panel!View
      <4> QED
        BY <4>1 DEF PanelInv, Panel!Accepted
    <3> QED
      BY <3>2, <3>3
  <2>4. panel # None
    BY <1>1 DEF PanelInv, Panel!BankPanelAssumption
  <2>5. PanelInStep'
    BY <1>1, <2>2, <2>4 DEF PanelInStep
  <2> QED
    BY <1>1, <2>2, <2>3, <2>5 DEF PanelInv, Panel!Accepted
<1> QED
  BY <1>2, <1>3

\* Without them, the only loads are the page's first and the one after something is done.
LEMMA NothingDisturbs ==
    ASSUME Undisturbed, PanelInv
    PROVE  /\ Panel!Opening = 0 /\ Panel!Action = 1 /\ Panel!Slots = 0..1
           /\ ~Panel!ReadNow /\ ~Panel!ReadAnswered /\ ~Panel!ReadLost
           /\ \A slot \in Panel!Slots : ~Panel!LoseLoad(slot)
           /\ Panel!Refuse => call.at = "refused"
<1>1. Panel!Opening = 0 /\ Panel!Action = 1 /\ Panel!Slots = 0..1
  BY DEF Undisturbed, Panel!Opening, Panel!Action, Panel!Slots
<1>2. ~Panel!ReadNow /\ ~Panel!ReadAnswered /\ ~Panel!ReadLost
  BY DEF PanelInv, Undisturbed, Panel!ReadNow, Panel!ReadAnswered, Panel!ReadLost
<1>3. failures = 0 /\ Failures = 0
  BY DEF PanelInv, Undisturbed
<1>4. \A slot \in Panel!Slots : ~Panel!LoseLoad(slot)
  BY <1>3 DEF Panel!LoseLoad
<1>5. Panel!Refuse => call.at = "refused"
  BY <1>3 DEF Panel!Refuse
<1> QED
  BY <1>1, <1>2, <1>4, <1>5

LEMMA PageKeepsInv ==
    ASSUME Panel!BankPanelAssumption, Undisturbed, PanelInv,
           Panel!Finish \/ Panel!GoToBank \/ Panel!Refuse
    PROVE  PanelInv'
<1>1. CASE Panel!Finish
  <2>1. /\ panel # None /\ call # None /\ DOMAIN loads = {} /\ call \in Panel!Pressed
        /\ call' = [call EXCEPT !.at = "reading"] /\ loads' = Panel!With(Panel!Action, None)
        /\ UNCHANGED <<server, panel, readingNow, reads, failures>>
    BY <1>1 DEF Panel!Finish, PanelInv, PanelInStep
  <2>2. call' \in Panel!Pressed /\ call' # None /\ call'.at = "reading"
    BY <2>1 DEF Panel!Pressed, Panel!BankPanelAssumption
  <2>3. OnlyLoad(Panel!Action)'
    BY <2>1, NothingDisturbs DEF Panel!With, OnlyLoad, Panel!Action
  <2>4. PanelInStep'
    BY <2>1, <2>2, <2>3 DEF PanelInStep
  <2> QED
    BY <2>1, <2>2, <2>4 DEF PanelInv, Panel!Accepted
<1>2. CASE Panel!GoToBank
  <2>1. /\ server' \in {server, [server EXCEPT !.connection = "connected"]}
        /\ panel' = None /\ call' = None /\ readingNow' = FALSE /\ UNCHANGED <<reads, failures>>
        /\ loads' = [s \in {Panel!Opening} |-> [answer |-> None]]
    BY <1>2 DEF Panel!GoToBank
  <2>2. server' \in Panel!View /\ server'.include = server.include
        /\ server'.exclude = server.exclude
    BY <2>1 DEF PanelInv, Panel!View
  <2>3. OnlyLoad(Panel!Opening)'
    BY <2>1 DEF OnlyLoad, Panel!Opening
  <2>4. PanelInStep'
    BY <2>1, <2>3 DEF PanelInStep
  <2> QED
    BY <2>1, <2>2, <2>4 DEF PanelInv, Panel!Accepted
<1>3. CASE Panel!Refuse
  <2>1. call # None /\ call.at = "refused" /\ call' = None
        /\ UNCHANGED <<server, panel, readingNow, loads, reads, failures>>
    BY <1>3, NothingDisturbs DEF Panel!Refuse, PanelInv
  <2>2. panel = server /\ DOMAIN loads = {}
    BY <2>1 DEF PanelInv, PanelInStep
  <2>3. PanelInStep'
    BY <2>1, <2>2 DEF PanelInStep
  <2> QED
    BY <2>1, <2>3 DEF PanelInv, Panel!Accepted
<1> QED
  BY <1>1, <1>2, <1>3

\* Nothing can be done while the panel is read: what is answered is stored until it is shown.
LEMMA LoadsKeepInv ==
    ASSUME Panel!BankPanelAssumption, Undisturbed, PanelInv, NEW slot \in Panel!Slots,
           Panel!AnswerLoad(slot) \/ Panel!Show(slot)
    PROVE  PanelInv'
<1>1. slot \in DOMAIN loads /\ UNCHANGED <<server, readingNow, reads, failures>>
  BY DEF Panel!AnswerLoad, Panel!Show
<1>2. \/ panel = None /\ call = None /\ slot = Panel!Opening /\ OnlyLoad(slot)
      \/ panel # None /\ call # None /\ call.at = "reading" /\ slot = Panel!Action /\ OnlyLoad(slot)
  BY <1>1 DEF PanelInv, PanelInStep, OnlyLoad
<1>3. server # None /\ Panel!Opening # Panel!Action
  <2>1. server # None
    BY DEF PanelInv, Panel!BankPanelAssumption
  <2>2. 0 # 1
    OBVIOUS
  <2> QED
    BY <2>1, <2>2, NothingDisturbs
<1>4. CASE Panel!AnswerLoad(slot)
  <2>1. loads' = Panel!With(slot, server) /\ UNCHANGED <<panel, call>>
    BY <1>4 DEF Panel!AnswerLoad
  <2>2. OnlyLoad(slot)'
    BY <1>1, <1>2, <2>1 DEF OnlyLoad, Panel!With
  <2>3. PanelInStep'
    BY <1>2, <2>1, <2>2 DEF PanelInStep, OnlyLoad, Panel!Opening, Panel!Action
  <2> QED
    BY <1>1, <2>1, <2>3 DEF PanelInv, Panel!Accepted
<1>5. CASE Panel!Show(slot)
  <2>1. /\ panel' = server /\ call' = None /\ loads' = Panel!Without(slot)
    BY <1>2, <1>3, <1>5 DEF Panel!Show, OnlyLoad, Panel!EndOf
  <2>2. DOMAIN loads' = {}
    BY <1>2, <2>1 DEF OnlyLoad, Panel!Without
  <2>3. PanelInStep'
    BY <1>1, <2>1, <2>2 DEF PanelInStep
  <2> QED
    BY <1>1, <2>1, <2>3 DEF PanelInv, Panel!Accepted
<1> QED
  BY <1>4, <1>5

LEMMA PanelNext ==
    ASSUME Panel!BankPanelAssumption, Undisturbed, PanelInv, [Panel!Next]_(Panel!vars)
    PROVE  PanelInv'
<1>1. ASSUME NEW list \in Panel!Lists, NEW word \in Words,
             Panel!AddWord(list, word) \/ Panel!RemoveWord(list, word)
      PROVE  PanelInv'
  BY <1>1, WordsAreOffered
<1>2. ASSUME NEW from \in Days, Panel!SaveDate(from) PROVE PanelInv'
  <2> DEFINE asked == [op |-> "change", from |-> from]
  <2>1. asked \in Panel!Call /\ Offered(asked) /\ Panel!Press(asked)
    BY <1>2 DEF Panel!SaveDate, Panel!Call, Offered
  <2> HIDE DEF asked
  <2> QED
    BY <2>1, PressedIsOffered
<1>3. CASE Panel!Connect
  <2> DEFINE asked == [op |-> "connect"]
  <2>1. asked \in Panel!Call /\ Offered(asked) /\ Panel!Press(asked)
    BY <1>3 DEF Panel!Connect, Panel!Call, Offered
  <2> HIDE DEF asked
  <2> QED
    BY <2>1, PressedIsOffered
<1>4. CASE Panel!Disconnect
  <2> DEFINE asked == [op |-> "disconnect"]
  <2>1. asked \in Panel!Call /\ Offered(asked) /\ Panel!Press(asked)
    BY <1>4 DEF Panel!Disconnect, Panel!Call, Offered
  <2> HIDE DEF asked
  <2> QED
    BY <2>1, PressedIsOffered
<1>5. CASE Panel!Perform
  BY <1>5, PerformKeepsInv
<1>6. CASE Panel!Finish \/ Panel!GoToBank \/ Panel!Refuse
  BY <1>6, PageKeepsInv
<1>7. CASE Panel!Quiet \/ UNCHANGED Panel!vars
  <2>1. UNCHANGED <<server, panel, call, readingNow, loads, reads, failures>>
    BY <1>7 DEF Panel!Quiet, Panel!vars
  <2>2. PanelInStep'
    BY <2>1 DEF PanelInv, PanelInStep, OnlyLoad, Offered, Panel!Refused, Panel!Accepted,
                Panel!Opening, Panel!Action
  <2> QED
    BY <2>1, <2>2 DEF PanelInv, Panel!Accepted
<1>8. ASSUME NEW slot \in Panel!Slots, Panel!AnswerLoad(slot) \/ Panel!Show(slot)
      PROVE  PanelInv'
  BY <1>8, LoadsKeepInv
<1> QED
  BY <1>1, <1>2, <1>3, <1>4, <1>5, <1>6, <1>7, <1>8, NothingDisturbs DEF Panel!Next

LEMMA PanelInvHolds ==
    ASSUME Panel!BankPanelAssumption, Undisturbed PROVE Panel!Spec => []PanelInv
<1>1. Panel!Init => PanelInv
  BY PanelAtFirst
<1>2. PanelInv /\ [Panel!Next]_(Panel!vars) => PanelInv'
  BY PanelNext
<1> QED
  BY <1>1, <1>2, PTL DEF Panel!Spec

\* With nothing on its way, what Ajustes > Banco shows is what is stored, while nobody presses
\* "Leer ahora" and no answer is lost.
THEOREM SettledPanelIsFresh ==
    ASSUME Panel!BankPanelAssumption, Undisturbed
    PROVE  Panel!Spec => []Panel!SettledIsFresh
<1>1. PanelInv => Panel!SettledIsFresh
  BY DEF PanelInv, PanelInStep, OnlyLoad, Panel!SettledIsFresh
<1> QED
  BY <1>1, PanelInvHolds, PTL

\* A list accepted is refused with one word more only for that word: it is new to the list, and
\* too long or another of the same letters.
LEMMA RefusedForTheWord ==
    ASSUME NEW words, NEW word, Panel!Accepted(words), ~Panel!Accepted(words \cup {word})
    PROVE  /\ word \notin words
           /\ word \in Long \/ \E v \in words : Folded[v] = Folded[word]
<1>1. word \notin words
  BY DEF Panel!Accepted
<1>2. CASE word \notin Long
  BY <1>2 DEF Panel!Accepted
<1> QED
  BY <1>1, <1>2

\* The server refuses a date to come, and a word just written that is too long or that the list
\* has in other letters; nothing else that the page sends, though it sends both lists whole: no
\* word taken off, nor any for what the lists had before, as their two spellings of one word.
THEOREM PanelRefusesOnlyTheNew ==
    ASSUME Panel!BankPanelAssumption, Undisturbed
    PROVE  Panel!Spec => []Panel!OnlyWhatIsWrittenIsRefused
<1>1. PanelInv => Panel!OnlyWhatIsWrittenIsRefused
  <2> SUFFICES ASSUME PanelInv, call # None, call.at = "refused"
               PROVE  \/ call.asked.op = "change" /\ call.asked.from \in Future
                      \/ /\ call.asked.op = "words"
                         /\ \E list \in Panel!Lists :
                               /\ call.asked.word \in call.asked[list] \ panel[list]
                               /\ \/ call.asked.word \in Long
                                  \/ \E v \in panel[list] : Folded[v] = Folded[call.asked.word]
    BY DEF Panel!OnlyWhatIsWrittenIsRefused
  <2>1. panel = server /\ Offered(call.asked) /\ Panel!Refused(call.asked)
    BY DEF PanelInv, PanelInStep
  <2>2. CASE call.asked.op # "words"
    BY <2>1, <2>2 DEF Offered, Panel!Refused
  <2>3. CASE call.asked.op = "words"
    <3> DEFINE word == call.asked.word
    <3>1. PICK list \in Panel!Lists : \E words \in {panel[list] \cup {word}, panel[list] \ {word}} :
              /\ call.asked.include = IF list = "include" THEN words ELSE panel.include
              /\ call.asked.exclude = IF list = "exclude" THEN words ELSE panel.exclude
      BY <2>1, <2>3 DEF Offered
    <3>2. PICK words \in {panel[list] \cup {word}, panel[list] \ {word}} :
              /\ call.asked.include = IF list = "include" THEN words ELSE panel.include
              /\ call.asked.exclude = IF list = "exclude" THEN words ELSE panel.exclude
      BY <3>1
    <3>3. \A l \in Panel!Lists : Panel!Accepted(panel[l])
      BY <2>1 DEF PanelInv, Panel!Lists
    <3>4. ~Panel!Accepted(words) /\ call.asked[list] = words
      BY <2>1, <2>3, <3>2, <3>3 DEF Panel!Refused, Panel!Lists
    <3>5. Panel!Accepted(panel[list] \ {word})
      BY <3>3 DEF Panel!Accepted
    <3>6. words = panel[list] \cup {word}
      BY <3>2, <3>4, <3>5
    <3> HIDE DEF word
    <3>7. /\ word \notin panel[list]
          /\ word \in Long \/ \E v \in panel[list] : Folded[v] = Folded[word]
      <4>1. Panel!Accepted(panel[list]) /\ ~Panel!Accepted(panel[list] \cup {word})
        BY <3>3, <3>4, <3>6
      <4> QED
        BY <4>1, RefusedForTheWord, ZenonT(60)
    <3> QED
      BY <2>3, <3>4, <3>6, <3>7, ZenonT(60) DEF word
  <2> QED
    BY <2>2, <2>3
<1> QED
  BY <1>1, PanelInvHolds, PTL

\* Adding or taking off a word changes that word and no other, in one list, though both lists
\* are sent whole from what the page shows.
THEOREM PanelWordsAreKept ==
    ASSUME Panel!BankPanelAssumption, Undisturbed
    PROVE  Panel!Spec => [][Panel!WordsKept]_(Panel!vars)
<1> DEFINE Changed(list) == (server[list] \ server'[list]) \cup (server'[list] \ server[list])
<1>1. PanelInv /\ [Panel!Next]_(Panel!vars) => [Panel!WordsKept]_(Panel!vars)
  <2> SUFFICES ASSUME PanelInv, [Panel!Next]_(Panel!vars),
                      Changed("include") # {} \/ Changed("exclude") # {}
               PROVE  /\ Changed("include") \cup Changed("exclude") = {call.asked.word}
                      /\ {} \in {Changed("include"), Changed("exclude")}
    BY DEF Panel!WordsKept
  <2>1. Panel!Perform /\ server' = Panel!Done(call.asked) /\ call.asked.op = "words"
    <3>1. server \in Panel!View
      BY DEF PanelInv
    <3>2. \/ UNCHANGED server \/ Panel!Perform \/ Panel!GoToBank
      BY NothingDisturbs
      DEF Panel!Next, Panel!vars, Panel!AddWord, Panel!RemoveWord, Panel!AskWords, Panel!Press,
          Panel!SaveDate, Panel!Connect, Panel!Disconnect, Panel!Finish, Panel!Refuse,
          Panel!Quiet, Panel!AnswerLoad, Panel!Show
    <3>3. server'.include # server.include \/ server'.exclude # server.exclude
      OBVIOUS
    <3>4. Panel!Perform
      BY <3>1, <3>2, <3>3 DEF Panel!GoToBank, Panel!View
    <3>5. server' = Panel!Done(call.asked)
      BY <3>3, <3>4 DEF Panel!Perform
    <3> QED
      BY <3>1, <3>3, <3>4, <3>5 DEF Panel!Done, Panel!View
  <2>2. panel = server /\ Offered(call.asked) /\ server \in Panel!View
    BY <2>1 DEF Panel!Perform, PanelInv, PanelInStep
  <2>3. PICK list \in Panel!Lists : \E words \in {panel[list] \cup {call.asked.word},
                                                  panel[list] \ {call.asked.word}} :
            /\ call.asked.include = IF list = "include" THEN words ELSE panel.include
            /\ call.asked.exclude = IF list = "exclude" THEN words ELSE panel.exclude
    BY <2>1, <2>2 DEF Offered
  <2>4. PICK words \in {panel[list] \cup {call.asked.word}, panel[list] \ {call.asked.word}} :
            /\ call.asked.include = IF list = "include" THEN words ELSE panel.include
            /\ call.asked.exclude = IF list = "exclude" THEN words ELSE panel.exclude
    BY <2>3
  <2>5. server'.include = call.asked.include /\ server'.exclude = call.asked.exclude
    BY <2>1, <2>2 DEF Panel!Done, Panel!View
  <2>6. CASE list = "include"
    BY <2>2, <2>4, <2>5, <2>6
  <2>7. CASE list = "exclude"
    BY <2>2, <2>4, <2>5, <2>7
  <2> QED
    BY <2>6, <2>7 DEF Panel!Lists
<1> QED
  BY <1>1, PanelInvHolds, PTL DEF Panel!Spec

=============================================================================
