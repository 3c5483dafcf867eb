--------------------------- MODULE Service_proofs ----------------------------
(***************************************************************************)
(* Proofs about the sessions: whatever the calls in flight had read, a     *)
(* session never has two good tokens and a revoked one stays revoked;      *)
(* whoever looks at the app as a player is in the log; and an admin who    *)
(* can log in is always left.  And about the logins before them, of        *)
(* LoginLockout, for every number of them in flight, every limit and every *)
(* length of a lock and of a check within its assumption: the passwords    *)
(* that can be tried and the time an account can be closed.  And about the *)
(* browser's half, of WebSession, for one tab with any requests in flight: *)
(* nobody is sent back to the login while the session lasts.  And about    *)
(* the database file the server opens, of DatabaseFile, for any processes  *)
(* that open it, any file they find and any number of crashes, full disks  *)
(* and restored copies: what is stamped with today's version is whole,     *)
(* nothing it says is lost on the way, what a newer application wrote is   *)
(* left alone, and, while no two processes copy at once, the copies are    *)
(* kept and an older file changes only beside one of them.                 *)
(***************************************************************************)
EXTENDS Sessions, LockoutPolicy, WellFoundedInduction, FiniteSetTheorems, TLAPS

CONSTANTS Logins,     \* logins in flight at once, of LoginLockout
          Horizon
VARIABLE checking

Lockout == INSTANCE LoginLockout WITH Calls <- Logins

CONSTANTS Tabs, Requests, Switch    \* of WebSession
VARIABLES live, cookie, token, status, reported, waiting, ended, signedOut

Web == INSTANCE WebSession

CONSTANTS Servers, Hands, FirstFiles, Apart, Seconds, Faults, Half    \* of DatabaseFile
VARIABLES file, work, writer, backups, parts, proc, second, faults

File == INSTANCE DatabaseFile

-----------------------------------------------------------------------------
(* The inductive invariant *)

Rotating(c) == calls[c].kind = "rotating"

\* The id that was read stands for no good token any more, nor will it until the day is
\* over: a row after it is too new to be purged, so the id is not given again.
Superseded(read) ==
    /\ \A row \in rows : row.id = read.id => row.revoked
    /\ \E row \in rows : row.id > read.id /\ ~row.old

\* The row that was read is still the last of its session, or none of them is left and the
\* id may be another session's.
Current(read) ==
    /\ \A row \in rows : row.session = read.session =>
           row.id = read.id \/ (row.id < read.id /\ row.revoked)
    /\ \A row \in rows : row.session = read.session =>
           \E last \in rows : last.session = read.session /\ last.id = read.id

RowsInv ==
    /\ \A row \in rows : row.id <= issued /\ row.session <= issued
    /\ \A r1, r2 \in rows : r1.id = r2.id => r1 = r2
    /\ \A row \in rows : row.expired => row.old
    /\ \A r1, r2 \in rows : r1.id < r2.id /\ r2.old => r1.old
    /\ \A r1, r2 \in rows : r1.session = r2.session /\ r1.id < r2.id => r1.revoked

ReadingsInv ==
    /\ \A c \in Calls : Rotating(c) =>
           /\ calls[c].row.session <= issued
           /\ Superseded(calls[c].row) \/ Current(calls[c].row)
    /\ \A c, d \in Calls :
           Rotating(c) /\ Rotating(d) /\ calls[c].row.session = calls[d].row.session =>
               \/ calls[c].row.id = calls[d].row.id
               \/ Superseded(calls[c].row) \/ Superseded(calls[d].row)

LogInv ==
    /\ ActingIsLogged
    /\ \A c \in Calls : Rotating(c) /\ calls[c].row.view \in Players =>
           <<calls[c].row.user, calls[c].row.view>> \in viewAs

IInv == TypeOK /\ RowsInv /\ ReadingsInv /\ LogInv /\ AlwaysAnAdmin

-----------------------------------------------------------------------------
(* The ids *)

\* A set of numbers has a least one.
LEMMA LeastNumber ==
    ASSUME NEW T \in SUBSET Nat, T # {}
    PROVE  \E x \in T : \A y \in T : x <= y
<1> DEFINE R == OpToRel(<, Nat)
<1>1. \A x, y \in Nat : y < x => <<y, x>> \in R
  BY DEF OpToRel
<1>2. IsWellFoundedOn(R, Nat)
  BY NatLessThanWellFounded
<1> HIDE DEF R
<1>3. PICK x \in T : \A y \in T : ~(<<y, x>> \in R)
  BY <1>2, WFMin
<1>4. \A y \in T : ~(y < x)
  BY <1>1, <1>3
<1> QED
  BY <1>4

\* The id of a new row is above those of the table, and within what was handed out.
LEMMA NewIdIsLast ==
    ASSUME SessionsAssumption, TypeOK, RowsInv
    PROVE  /\ NewId \in 1 .. (issued + 1)
           /\ \A row \in rows : row.id < NewId
<1> DEFINE Bounds(n) == \A row \in rows : row.id <= n
           T == {n \in 0 .. MaxTokens : Bounds(n)}
           Last(id) == Bounds(id) /\ (id = 0 \/ \E row \in rows : row.id = id)
<1>0. /\ MaxTokens \in Nat /\ issued \in 0 .. MaxTokens
      /\ \A row \in rows : row.id \in 1 .. MaxTokens
  BY DEF SessionsAssumption, TypeOK, Row, Serials
<1>1. issued \in T /\ T \in SUBSET Nat
  BY <1>0 DEF RowsInv
<1>2. PICK least \in T : \A n \in T : least <= n
  BY <1>1, LeastNumber
<1>3. ASSUME least # 0 PROVE \E row \in rows : row.id = least
  <2>1. least - 1 \in 0 .. MaxTokens /\ least - 1 \notin T
    BY <1>0, <1>2, <1>3
  <2>2. PICK row \in rows : ~(row.id <= least - 1)
    BY <2>1
  <2> QED
    BY <1>0, <1>2, <2>2
<1>4. \E id \in 0 .. MaxTokens : Last(id)
  BY <1>2, <1>3
<1> DEFINE top == CHOOSE id \in 0 .. MaxTokens : Last(id)
<1>5. top \in 0 .. MaxTokens /\ Last(top)
  BY <1>4
<1>6. NewId = 1 + top
  BY DEF NewId
<1> HIDE DEF top
<1>7. top <= issued
  BY <1>0, <1>5 DEF RowsInv
<1> QED
  BY <1>0, <1>5, <1>6, <1>7

-----------------------------------------------------------------------------
(* What the steps do to the rows *)

\* Marks that leave a row its place and never take a revocation back.
Marks(f) ==
    /\ f \in [rows -> Row]
    /\ \A row \in rows :
           /\ f[row].id = row.id /\ f[row].session = row.session
           /\ row.revoked => f[row].revoked
           /\ f[row].old = row.old
           /\ f[row].expired => row.old

Marked(f) == {f[row] : row \in rows}

KeepsReadings ==
    \A read \in Row : /\ Superseded(read) => Superseded(read)'
                      /\ Current(read) => Current(read)'

LEMMA MarksKeep ==
    ASSUME TypeOK, RowsInv, NEW f, Marks(f), rows' = Marked(f), issued' = issued
    PROVE  RowsInv' /\ KeepsReadings
<1>1. \A row \in rows' : \E q \in rows : row = f[q]
  BY DEF Marked
<1>2. \A q \in rows : f[q] \in rows'
  BY DEF Marked
<1>3. \A q \in rows : /\ f[q].id = q.id /\ f[q].session = q.session
                      /\ q.revoked => f[q].revoked
                      /\ f[q].old = q.old
                      /\ f[q].expired => q.old
  BY DEF Marks
<1>4. RowsInv'
  BY <1>1, <1>3 DEF RowsInv
<1>5. ASSUME NEW read \in Row, Superseded(read) PROVE Superseded(read)'
  BY <1>1, <1>2, <1>3, <1>5 DEF Superseded
<1>6. ASSUME NEW read \in Row, Current(read) PROVE Current(read)'
  BY <1>1, <1>2, <1>3, <1>6 DEF Current
<1> QED
  BY <1>4, <1>5, <1>6 DEF KeepsReadings

\* A new row comes last; the others of its session are revoked.
LEMMA GrowthKeeps ==
    ASSUME TypeOK, RowsInv, MaxTokens \in Nat,
           NEW f, Marks(f), NEW new \in Row, rows' = Marked(f) \cup {new}, issued' = issued + 1,
           new.session <= issued', new.id <= issued', \A row \in rows : row.id < new.id,
           ~new.old, ~new.expired, \A row \in rows : row.session = new.session => f[row].revoked
    PROVE  /\ RowsInv'
           /\ \A read \in Row :
                /\ Superseded(read) => Superseded(read)'
                /\ Current(read) /\ read.session # new.session => Current(read)'
<1>0. issued \in Nat /\ \A q \in rows \cup Row : q.id \in Nat /\ q.session \in Nat
  BY DEF TypeOK, Row, Serials
<1>1. \A row \in rows' : row = new \/ \E q \in rows : row = f[q]
  BY DEF Marked
<1>2. new \in rows' /\ \A q \in rows : f[q] \in rows'
  BY DEF Marked
<1>3. \A q \in rows : /\ f[q].id = q.id /\ f[q].session = q.session
                      /\ q.revoked => f[q].revoked
                      /\ f[q].old = q.old
                      /\ f[q].expired => q.old
  BY DEF Marks
<1>4. RowsInv'
  <2>1. (\A row \in rows : row.id <= issued /\ row.session <= issued)'
    BY <1>0, <1>1, <1>3 DEF RowsInv
  <2>2. (\A r1, r2 \in rows : r1.id = r2.id => r1 = r2)'
    BY <1>0, <1>1, <1>3 DEF RowsInv
  <2>3. (\A row \in rows : row.expired => row.old)'
    BY <1>1, <1>3 DEF RowsInv
  <2>4. (\A r1, r2 \in rows : r1.id < r2.id /\ r2.old => r1.old)'
    BY <1>0, <1>1, <1>3 DEF RowsInv
  <2>5. (\A r1, r2 \in rows : r1.session = r2.session /\ r1.id < r2.id => r1.revoked)'
    BY <1>0, <1>1, <1>3 DEF RowsInv
  <2> QED
    BY <2>1, <2>2, <2>3, <2>4, <2>5 DEF RowsInv
<1>5. ASSUME NEW read \in Row, Superseded(read) PROVE Superseded(read)'
  BY <1>0, <1>1, <1>2, <1>3, <1>5 DEF Superseded
<1>6. ASSUME NEW read \in Row, Current(read), read.session # new.session PROVE Current(read)'
  BY <1>1, <1>2, <1>3, <1>6 DEF Current
<1> QED
  BY <1>4, <1>5, <1>6

\* The purge takes a whole session or leaves its last row.
LEMMA PurgeKeeps ==
    ASSUME TypeOK, RowsInv, rows' = Purged, issued' = issued
    PROVE  RowsInv' /\ KeepsReadings
<1>1. \A row \in rows' : row \in rows
  BY DEF Purged
<1>2. \A row \in rows : ~row.old => row \in rows'
  BY DEF Purged, RowsInv
<1>3. RowsInv'
  BY <1>1 DEF RowsInv
<1>4. ASSUME NEW read \in Row, Superseded(read) PROVE Superseded(read)'
  BY <1>1, <1>2, <1>4 DEF Superseded
<1>5. ASSUME NEW read \in Row, Current(read) PROVE Current(read)'
  <2>1. SUFFICES ASSUME NEW row \in rows', row.session = read.session
                 PROVE  \E last \in rows' : last.session = read.session /\ last.id = read.id
    BY <1>1, <1>5 DEF Current
  <2>2. PICK last \in rows : last.session = read.session /\ last.id = read.id
    BY <1>1, <1>5, <2>1 DEF Current
  <2>3. CASE row.id = read.id
    BY <2>1, <2>3
  <2>4. CASE row.id < read.id /\ row.revoked
    \* An old last row is after the others, which are old and revoked too.
    BY <1>1, <2>1, <2>2, <2>4 DEF Purged, RowsInv
  <2> QED
    BY <1>1, <1>5, <2>1, <2>3, <2>4 DEF Current
<1> QED
  BY <1>3, <1>4, <1>5 DEF KeepsReadings

\* A day: every row grows old, and no call holds anything.
LEMMA DayKeeps ==
    ASSUME TypeOK, RowsInv, Day
    PROVE  RowsInv'
<1>1. \A row \in rows' : row \in Row /\ row.old
  BY ZenonT(60) DEF Day, TypeOK, Row
<1>2. \A row \in rows' : \E q \in rows : row = [q EXCEPT !.old = TRUE]
  BY DEF Day
<1>3. \A q \in rows : q \in Row
  BY DEF TypeOK
<1>4. \A row \in rows' : \E q \in rows :
          /\ row = [q EXCEPT !.old = TRUE]
          /\ row.id = q.id /\ row.session = q.session /\ row.revoked = q.revoked
  BY <1>2, <1>3 DEF Row
<1>5. issued' = issued
  BY DEF Day
<1>6. ASSUME NEW r1 \in rows', NEW r2 \in rows', r1.id = r2.id PROVE r1 = r2
  <2>1. PICK q1 \in rows : r1 = [q1 EXCEPT !.old = TRUE] /\ r1.id = q1.id
    BY <1>4
  <2>2. PICK q2 \in rows : r2 = [q2 EXCEPT !.old = TRUE] /\ r2.id = q2.id
    BY <1>4
  <2>3. q1 = q2
    BY <1>6, <2>1, <2>2 DEF RowsInv
  <2> QED
    BY <2>1, <2>2, <2>3
<1>7. (\A r1, r2 \in rows : r1.session = r2.session /\ r1.id < r2.id => r1.revoked)'
  BY <1>4 DEF RowsInv
<1>8. (\A row \in rows : row.id <= issued /\ row.session <= issued)'
  BY <1>4, <1>5 DEF RowsInv
<1>9. (/\ \A row \in rows : row.expired => row.old
       /\ \A r1, r2 \in rows : r1.id < r2.id /\ r2.old => r1.old)'
  BY <1>1
<1> QED
  BY <1>6, <1>7, <1>8, <1>9 DEF RowsInv

-----------------------------------------------------------------------------
(* The marks the actions make *)

Revoking(found) == [row \in rows |-> IF row \in found THEN [row EXCEPT !.revoked = TRUE] ELSE row]
Viewing(found, view) == [row \in rows |-> IF row \in found THEN [row EXCEPT !.view = view] ELSE row]
Expiring(found) == [row \in rows |-> IF row = found THEN [row EXCEPT !.expired = TRUE] ELSE row]

LEMMA RevokingMarks ==
    ASSUME TypeOK, RowsInv, NEW found \in SUBSET rows
    PROVE  /\ Marks(Revoking(found))
           /\ Marked(Revoking(found)) = (rows \ found) \cup Revoked(found)
<1>1. \A row \in rows : row \in Row
  BY DEF TypeOK
<1>2. Marks(Revoking(found))
  <2>1. ASSUME NEW row \in rows
        PROVE  /\ Revoking(found)[row] \in Row
               /\ Revoking(found)[row].id = row.id /\ Revoking(found)[row].session = row.session
               /\ row.revoked => Revoking(found)[row].revoked
               /\ Revoking(found)[row].old = row.old /\ Revoking(found)[row].expired = row.expired
    <3>1. row \in Row /\ TRUE \in BOOLEAN
      BY <1>1
    <3>2. CASE row \in found
      BY <3>1, <3>2 DEF Revoking, Row
    <3>3. CASE row \notin found
      BY <3>1, <3>3 DEF Revoking
    <3> QED
      BY <3>2, <3>3
  <2>2. Revoking(found) \in [rows -> Row]
    BY <2>1 DEF Revoking
  <2> QED
    BY <2>1, <2>2 DEF Marks, RowsInv
<1> QED
  BY <1>2 DEF Marked, Revoking, Revoked

LEMMA ViewingMarks ==
    ASSUME TypeOK, RowsInv, NEW found \in SUBSET rows, NEW view \in Views
    PROVE  /\ Marks(Viewing(found, view))
           /\ Marked(Viewing(found, view))
                = (rows \ found) \cup {[row EXCEPT !.view = view] : row \in found}
<1>1. \A row \in rows : row \in Row
  BY DEF TypeOK
<1>2. Marks(Viewing(found, view))
  <2>1. ASSUME NEW row \in rows
        PROVE  /\ Viewing(found, view)[row] \in Row
               /\ Viewing(found, view)[row].id = row.id
               /\ Viewing(found, view)[row].session = row.session
               /\ row.revoked => Viewing(found, view)[row].revoked
               /\ Viewing(found, view)[row].old = row.old
               /\ Viewing(found, view)[row].expired = row.expired
    <3>1. row \in Row /\ TRUE \in BOOLEAN
      BY <1>1
    <3>2. CASE row \in found
      BY <3>1, <3>2 DEF Viewing, Row
    <3>3. CASE row \notin found
      BY <3>1, <3>3 DEF Viewing
    <3> QED
      BY <3>2, <3>3
  <2>2. Viewing(found, view) \in [rows -> Row]
    BY <2>1 DEF Viewing
  <2> QED
    BY <2>1, <2>2 DEF Marks, RowsInv
<1> QED
  BY <1>2 DEF Marked, Viewing

LEMMA ExpiringMarks ==
    ASSUME TypeOK, RowsInv, NEW found \in rows, found.old
    PROVE  /\ Marks(Expiring(found))
           /\ Marked(Expiring(found)) = (rows \ {found}) \cup {[found EXCEPT !.expired = TRUE]}
<1>1. \A row \in rows : row \in Row
  BY DEF TypeOK
<1>2. Marks(Expiring(found))
  BY <1>1, ZenonT(60) DEF Marks, Expiring, Row, RowsInv
<1> QED
  BY <1>2 DEF Marked, Expiring

-----------------------------------------------------------------------------
(* The calls in flight *)

\* What a call holds, by what it waits for.
LEMMA CallTypes ==
    ASSUME TypeOK, NEW c \in Calls
    PROVE  /\ calls[c].kind = "rotating" => calls[c].row \in Row
           /\ calls[c].kind = "verifying" =>
                calls[c] \in [kind : {"verifying"}, user : Users, password : Passwords]
           /\ calls[c].kind = "signing" =>
                calls[c] \in [kind : {"signing"}, user : Users, password : Passwords]
           /\ calls[c].kind = "switching" =>
                calls[c] \in [kind : {"switching"}, user : Users, serial : Serials, view : Views]
           /\ calls[c].kind = "changing" =>
                calls[c] \in [kind : {"changing"}, user : Users, current : Passwords,
                              next : Passwords]
BY DEF TypeOK, Call, Idle

\* No call reads a token in the step.
NoNewReading ==
    \A c \in Calls : calls'[c].kind = "rotating" => calls'[c] = calls[c]

LEMMA NoReadingIn ==
    ASSUME TypeOK, NEW c \in Calls, NEW call, call.kind # "rotating",
           calls' = [calls EXCEPT ![c] = call]
    PROVE  NoNewReading
BY DEF TypeOK, NoNewReading

LEMMA ReadingsKept ==
    ASSUME TypeOK, ReadingsInv, NoNewReading, issued' \in Nat, issued <= issued',
           \A read \in Row : Superseded(read) => Superseded(read)',
           \A c \in Calls : calls'[c].kind = "rotating" /\ Current(calls[c].row) =>
               \A read \in Row : read = calls[c].row => Current(read)' \/ Superseded(read)'
    PROVE  ReadingsInv'
<1>1. \A c \in Calls : Rotating(c)' => /\ Rotating(c) /\ calls'[c] = calls[c]
                                       /\ calls[c].row \in Row
  BY CallTypes DEF NoNewReading, Rotating
<1>2. ASSUME NEW c \in Calls, Rotating(c)', Superseded(calls[c].row)
      PROVE  Superseded(calls[c].row)'
  <2>1. PICK read \in Row : read = calls[c].row /\ read = calls'[c].row
    BY <1>1, <1>2
  <2>2. Superseded(read)'
    BY <1>2, <2>1
  <2> QED
    BY <2>1, <2>2
<1>3. ASSUME NEW c \in Calls, Rotating(c)', Current(calls[c].row)
      PROVE  Current(calls[c].row)' \/ Superseded(calls[c].row)'
  <2>1. PICK read \in Row : read = calls[c].row /\ read = calls'[c].row
    BY <1>1, <1>3
  <2>2. Current(read)' \/ Superseded(read)'
    BY <1>3, <2>1 DEF Rotating
  <2> QED
    BY <2>1, <2>2
<1>4. ASSUME NEW c \in Calls, Rotating(c)'
      PROVE  (/\ calls[c].row.session <= issued
              /\ Superseded(calls[c].row) \/ Current(calls[c].row))'
  <2>1. calls[c].row.session \in Nat /\ issued \in Nat
    BY <1>1, <1>4 DEF Row, Serials, TypeOK
  <2> QED
    BY <1>1, <1>2, <1>3, <1>4, <2>1 DEF ReadingsInv
<1>5. ASSUME NEW c \in Calls, NEW d \in Calls, Rotating(c)', Rotating(d)',
             calls'[c].row.session = calls'[d].row.session
      PROVE  (\/ calls[c].row.id = calls[d].row.id
              \/ Superseded(calls[c].row) \/ Superseded(calls[d].row))'
  BY <1>1, <1>2, <1>5 DEF ReadingsInv
<1> QED
  BY <1>4, <1>5 DEF ReadingsInv

-----------------------------------------------------------------------------
(* The steps and the tokens *)

TokensKeep == rows' \subseteq Row /\ RowsInv' /\ ReadingsInv' /\ RevokedStaysRevoked

LEMMA SameRows ==
    ASSUME TypeOK, RowsInv, ReadingsInv, UNCHANGED <<rows, issued>>, NoNewReading
    PROVE  TokensKeep
<1>1. RowsInv' /\ RevokedStaysRevoked
  BY DEF RowsInv, RevokedStaysRevoked, GoodOf
<1>2. issued \in Nat
  BY DEF TypeOK
<1>3. \A read \in Row : /\ Superseded(read) => Superseded(read)'
                        /\ Current(read) => Current(read)'
  BY DEF Superseded, Current
<1>4. ReadingsInv'
  BY <1>2, <1>3, ReadingsKept
<1> QED
  BY <1>1, <1>4 DEF TokensKeep, TypeOK

LEMMA MarkedRows ==
    ASSUME TypeOK, RowsInv, ReadingsInv, NEW f, Marks(f), rows' = Marked(f), issued' = issued,
           NoNewReading
    PROVE  TokensKeep
<1>1. RowsInv' /\ KeepsReadings
  BY MarksKeep
<1>2. issued \in Nat
  BY DEF TypeOK
<1>3. ReadingsInv'
  BY <1>1, <1>2, ReadingsKept DEF KeepsReadings
<1>4. RevokedStaysRevoked
  BY DEF RevokedStaysRevoked, GoodOf, Marks, Marked
<1>5. rows' \subseteq Row
  BY DEF Marks, Marked
<1> QED
  BY <1>1, <1>3, <1>4, <1>5 DEF TokensKeep

LEMMA PurgedRows ==
    ASSUME TypeOK, RowsInv, ReadingsInv, rows' = Purged, issued' = issued, NoNewReading
    PROVE  TokensKeep
<1>1. RowsInv' /\ KeepsReadings
  BY PurgeKeeps
<1>2. issued \in Nat
  BY DEF TypeOK
<1>3. ReadingsInv'
  BY <1>1, <1>2, ReadingsKept DEF KeepsReadings
<1>4. RevokedStaysRevoked
  BY DEF RevokedStaysRevoked, GoodOf, Purged
<1>5. rows' \subseteq Row
  BY DEF Purged, TypeOK
<1> QED
  BY <1>1, <1>3, <1>4, <1>5 DEF TokensKeep

\* A live row is the last of its session, and nothing that was read stands against it.
LEMMA RenewTokens ==
    ASSUME TypeOK, RowsInv, ReadingsInv, NEW c \in Calls, NEW row \in rows, Renew(c, row)
    PROVE  TokensKeep
<1>1. UNCHANGED <<rows, issued>>
  BY DEF Renew
<1>2. /\ calls'[c].row = row /\ calls[c].kind # "rotating"
      /\ \A d \in Calls : d # c => calls'[d] = calls[d]
  BY DEF Renew, TypeOK, Idle
<1>3. RowsInv' /\ RevokedStaysRevoked
  BY <1>1 DEF RowsInv, RevokedStaysRevoked, GoodOf
<1>4. ~row.revoked
  BY DEF Renew, IsLive
<1>5. \A q \in rows \cup Row : q.id \in Nat /\ q.session \in Nat
  BY DEF TypeOK, Row, Serials
<1>6. Current(row)
  BY <1>4, <1>5 DEF RowsInv, Current
<1>7. \A read \in Row : /\ Superseded(read)' <=> Superseded(read)
                        /\ Current(read)' <=> Current(read)
  BY <1>1 DEF Superseded, Current
<1>8. row \in Row /\ row.session <= issued
  BY DEF TypeOK, RowsInv
<1>9. ASSUME NEW d \in Calls, Rotating(d)'
      PROVE  (/\ calls[d].row.session <= issued
              /\ Superseded(calls[d].row) \/ Current(calls[d].row))'
  <2>1. PICK read \in Row : /\ read = calls'[d].row /\ read.session <= issued
                            /\ Superseded(read) \/ Current(read)
    <3>1. CASE d = c
      BY <1>2, <1>6, <1>8, <3>1
    <3>2. CASE d # c
      BY <1>2, <1>9, <3>2, CallTypes DEF ReadingsInv, Rotating
    <3> QED
      BY <3>1, <3>2
  <2>2. Superseded(read)' \/ Current(read)'
    BY <1>7, <2>1
  <2> QED
    BY <1>1, <2>1, <2>2
<1>10. ASSUME NEW d \in Calls, d # c, Rotating(d), calls[d].row.session = row.session
       PROVE  calls[d].row.id = row.id \/ Superseded(calls[d].row)
  BY <1>4, <1>10 DEF ReadingsInv, Current
<1>11. ASSUME NEW d \in Calls, NEW e \in Calls, Rotating(d)', Rotating(e)',
              calls'[d].row.session = calls'[e].row.session
       PROVE  (\/ calls[d].row.id = calls[e].row.id
               \/ Superseded(calls[d].row) \/ Superseded(calls[e].row))'
  <2>1. ASSUME NEW b \in Calls, b # c, Rotating(b)', Superseded(calls[b].row)
        PROVE  Superseded(calls[b].row)'
    <3>1. PICK read \in Row : read = calls[b].row /\ read = calls'[b].row
      BY <1>2, <2>1, CallTypes DEF Rotating
    <3>2. Superseded(read)'
      BY <1>7, <2>1, <3>1
    <3> QED
      BY <3>1, <3>2
  <2>2. CASE d = c /\ e = c
    BY <2>2
  <2>3. CASE d # c /\ e # c
    BY <1>2, <1>11, <2>1, <2>3 DEF ReadingsInv, Rotating
  <2>4. CASE d = c /\ e # c
    BY <1>2, <1>10, <1>11, <2>1, <2>4 DEF Rotating
  <2>5. CASE d # c /\ e = c
    BY <1>2, <1>10, <1>11, <2>1, <2>5 DEF Rotating
  <2> QED
    BY <2>2, <2>3, <2>4, <2>5
<1>12. ReadingsInv'
  BY <1>9, <1>11 DEF ReadingsInv
<1>13. rows' \subseteq Row
  BY <1>1 DEF TypeOK
<1> QED
  BY <1>3, <1>12, <1>13 DEF TokensKeep

LEMMA DayTokens ==
    ASSUME TypeOK, RowsInv, Day
    PROVE  TokensKeep
<1>1. RowsInv'
  BY DayKeeps
<1>2. \A c \in Calls : ~Rotating(c)'
  BY DEF Day, Rotating, Idle
<1>3. ReadingsInv'
  BY <1>2 DEF ReadingsInv
<1>4. \A row \in rows' : \E q \in rows : row = [q EXCEPT !.old = TRUE]
  BY DEF Day
<1>5. \A row \in rows' : \E q \in rows : row.session = q.session /\ row.revoked = q.revoked
  BY <1>4 DEF TypeOK, Row
<1>6. RevokedStaysRevoked
  BY <1>5 DEF RevokedStaysRevoked, GoodOf
<1>7. rows' \subseteq Row
  <2>1. \A q \in Row : [q EXCEPT !.old = TRUE] \in Row
    BY DEF Row
  <2> QED
    BY <1>4, <2>1 DEF TypeOK
<1> QED
  BY <1>1, <1>3, <1>6, <1>7 DEF TokensKeep

\* A token that is handed out: a row after the others, good and new.
LEMMA TokenIsNew ==
    ASSUME SessionsAssumption, TypeOK, RowsInv, issued < MaxTokens,
           NEW user \in Users, NEW view \in Views, NEW session \in Serials,
           NEW password \in Passwords, NEW new, new = Token(user, view, session, password)
    PROVE  /\ new \in Row /\ new.session = session /\ new.user = user /\ new.view = view
           /\ new.id <= issued + 1 /\ \A row \in rows : row.id < new.id
           /\ ~new.old /\ ~new.expired /\ ~new.revoked
<1>1. /\ NewId \in 1 .. (issued + 1) /\ \A row \in rows : row.id < NewId
      /\ MaxTokens \in Nat /\ issued \in 0 .. MaxTokens
  BY NewIdIsLast DEF SessionsAssumption, TypeOK
<1>2. NewId \in Serials /\ issued + 1 \in Serials
  BY <1>1 DEF Serials
<1> QED
  BY <1>1, <1>2 DEF Token, Row

LEMMA BeginTokens ==
    ASSUME SessionsAssumption, TypeOK, RowsInv, ReadingsInv, NEW c \in Calls, Begin(c)
    PROVE  TokensKeep
<1> DEFINE new == Token(calls[c].user, "admin", issued', calls[c].password)
           f == Revoking({})
<1>1. /\ issued < MaxTokens /\ issued' = issued + 1
      /\ rows' = rows \cup {new} /\ calls' = [calls EXCEPT ![c] = Idle]
  BY DEF Begin
<1>2. MaxTokens \in Nat /\ issued \in 0 .. MaxTokens /\ issued' \in Serials
  BY <1>1 DEF SessionsAssumption, TypeOK, Serials
<1>3. calls[c].user \in Users /\ calls[c].password \in Passwords /\ "admin" \in Views
  BY CallTypes DEF Begin, Views
<1> HIDE DEF new
<1>4. /\ new \in Row /\ new.session = issued' /\ new.id <= issued + 1
      /\ \A row \in rows : row.id < new.id
      /\ ~new.old /\ ~new.expired
  BY <1>1, <1>2, <1>3, TokenIsNew DEF new
<1>5. Marks(f) /\ Marked(f) = rows
  <2>1. {} \in SUBSET rows
    OBVIOUS
  <2> QED
    BY <2>1, RevokingMarks DEF Revoked
<1> HIDE DEF f
<1>6. \A row \in rows : row.session # issued'
  BY <1>1, <1>2 DEF RowsInv, TypeOK, Row, Serials
<1>7. /\ RowsInv'
      /\ \A read \in Row : /\ Superseded(read) => Superseded(read)'
                           /\ Current(read) /\ read.session # issued' => Current(read)'
  BY <1>1, <1>2, <1>4, <1>5, <1>6, GrowthKeeps
<1>8. NoNewReading
  BY <1>1, NoReadingIn DEF Idle
<1>9. \A d \in Calls : calls'[d].kind = "rotating" =>
          calls[d].row \in Row /\ calls[d].row.session # issued'
  BY <1>1, <1>2, <1>8, CallTypes DEF NoNewReading, ReadingsInv, Rotating, Row, Serials
<1>10. issued \in Nat /\ issued' \in Nat /\ issued <= issued'
  BY <1>1, <1>2
<1>11. ReadingsInv'
  BY <1>7, <1>8, <1>9, <1>10, ReadingsKept
<1>12. RevokedStaysRevoked
  BY <1>1, <1>2, <1>4 DEF RevokedStaysRevoked, GoodOf
<1>13. rows' \subseteq Row
  BY <1>1, <1>4 DEF TypeOK
<1> QED
  BY <1>7, <1>11, <1>12, <1>13 DEF TokensKeep

\* The renewal that finds its row live replaces it; whoever read the same one is superseded.
LEMMA RotateTokens ==
    ASSUME SessionsAssumption, TypeOK, RowsInv, ReadingsInv, NEW c \in Calls, Rotate(c)
    PROVE  TokensKeep
<1> DEFINE read == calls[c].row
           closed == RevokeIfLive(read.id)
           new == Token(read.user, read.view, read.session, read.password)
           f == Revoking(closed)
<1>1. calls[c].kind = "rotating" /\ calls' = [calls EXCEPT ![c] = Idle]
  BY DEF Rotate
<1>2. read \in Row /\ \A row \in rows \cup Row : row.id \in Nat /\ row.session \in Nat
  BY <1>1, CallTypes DEF TypeOK, Row, Serials
<1>3. NoNewReading
  BY <1>1, NoReadingIn DEF Idle
<1>4. CASE closed = {}
  <2>1. UNCHANGED rows
    BY <1>4 DEF Rotate
  <2>2. issued' = issued
    BY <1>4 DEF Rotate, TypeOK
  <2> QED
    BY <1>3, <2>1, <2>2, SameRows
<1>5. CASE closed # {}
  <2>1. /\ issued < MaxTokens /\ issued' = issued + 1
        /\ rows' = (rows \ closed) \cup Revoked(closed) \cup {new}
    BY <1>5 DEF Rotate
  <2>2. MaxTokens \in Nat /\ issued \in 0 .. MaxTokens
    BY DEF SessionsAssumption, TypeOK
  <2>3. PICK last \in rows : last.id = read.id /\ ~last.revoked
    BY <1>5 DEF RevokeIfLive
  <2>4. Current(read)
    BY <1>1, <2>3 DEF ReadingsInv, Rotating, Superseded
  <2>5. closed \in SUBSET rows /\ last \in closed /\ \A row \in rows : row.id = read.id => row = last
    BY <2>3 DEF RevokeIfLive, RowsInv
  <2>6. Marks(f) /\ Marked(f) = (rows \ closed) \cup Revoked(closed)
    BY <2>5, RevokingMarks
  <2>7. \A row \in rows : row.id = read.id => f[row].revoked
    BY <2>5 DEF Revoking, TypeOK, Row
  <2>8. read.user \in Users /\ read.view \in Views /\ read.session \in Serials
        /\ read.password \in Passwords /\ read.session <= issued
    BY <1>1, <1>2 DEF Row, ReadingsInv, Rotating
  <2> HIDE DEF new
  <2>9. /\ new \in Row /\ new.session = read.session /\ new.id <= issued + 1
        /\ \A row \in rows : row.id < new.id
        /\ ~new.old /\ ~new.expired
    BY <2>1, <2>8, TokenIsNew DEF new
  <2> HIDE DEF read, closed, f
  <2>10. \A row \in rows : row.session = read.session => f[row].revoked
    BY <2>4, <2>6, <2>7 DEF Current, Marks
  <2>11. rows' = Marked(f) \cup {new} /\ new.session <= issued'
    BY <1>2, <2>1, <2>2, <2>6, <2>8, <2>9
  <2>12. /\ RowsInv'
         /\ \A reading \in Row :
              /\ Superseded(reading) => Superseded(reading)'
              /\ Current(reading) /\ reading.session # read.session => Current(reading)'
    BY <2>1, <2>2, <2>6, <2>9, <2>10, <2>11, GrowthKeeps
  <2>13. ASSUME NEW reading \in Row, reading.id = read.id PROVE Superseded(reading)'
    <3>1. \A row \in rows' : row = new \/ \E q \in rows : row = f[q] /\ row.id = q.id
      BY <2>6, <2>11 DEF Marked, Marks
    <3>2. new \in rows' /\ new.id > read.id /\ new.id \in Nat
      BY <1>2, <2>3, <2>9, <2>11
    <3> QED
      BY <1>2, <2>7, <2>9, <2>13, <3>1, <3>2 DEF Superseded
  <2>14. ASSUME NEW d \in Calls, calls'[d].kind = "rotating", Current(calls[d].row),
                NEW reading \in Row, reading = calls[d].row
         PROVE  Current(reading)' \/ Superseded(reading)'
    <3>1. calls[d].kind = "rotating"
      BY <1>3, <2>14 DEF NoNewReading
    <3>2. CASE reading.session # read.session
      BY <2>12, <2>14, <3>2
    <3>3. CASE reading.session = read.session
      <4>1. ~Superseded(read)
        BY <2>3 DEF Superseded
      <4>2. reading.id = read.id \/ Superseded(reading)
        BY <1>1, <2>14, <3>1, <3>3, <4>1 DEF ReadingsInv, Rotating, read
      <4> QED
        BY <2>12, <2>13, <4>2
    <3> QED
      BY <3>2, <3>3
  <2>15. issued \in Nat /\ issued' \in Nat /\ issued <= issued'
    BY <2>1, <2>2
  <2>16. ReadingsInv'
    BY <1>3, <2>12, <2>14, <2>15, ReadingsKept
  \* While the session has rows, the one that was good is among them.
  <2>17. ASSUME NEW s \in 1 .. issued, NEW row \in rows, row.session = s, GoodOf(s) = {}
         PROVE  GoodOf(s)' = {}
    <3>1. s # read.session
      <4>1. SUFFICES ASSUME s = read.session PROVE FALSE
        OBVIOUS
      <4>2. last.session = s
        BY <2>4, <2>5, <2>17, <4>1 DEF Current
      <4> QED
        BY <2>3, <2>17, <4>2 DEF GoodOf
    <3>2. \A q \in rows' : q.session = s => \E p \in rows : q = f[p]
      BY <2>9, <2>11, <3>1 DEF Marked
    <3> QED
      BY <2>6, <2>17, <3>2 DEF GoodOf, Marks
  <2>18. RevokedStaysRevoked
    BY <2>17 DEF RevokedStaysRevoked
  <2>19. rows' \subseteq Row
    BY <2>6, <2>9, <2>11 DEF Marks, Marked
  <2> QED
    BY <2>12, <2>16, <2>18, <2>19 DEF TokensKeep
<1> QED
  BY <1>4, <1>5

\* Revoking what a user has.
LEMMA RevokedForTokens ==
    ASSUME TypeOK, RowsInv, ReadingsInv, NEW user, rows' = RevokeAllFor(user),
           issued' = issued, NoNewReading
    PROVE  TokensKeep
<1> DEFINE found == {row \in rows : row.user = user}
<1>1. found \in SUBSET rows /\ rows' = (rows \ found) \cup Revoked(found)
  BY DEF RevokeAllFor
<1> HIDE DEF found
<1>2. Marks(Revoking(found)) /\ Marked(Revoking(found)) = rows'
  BY <1>1, RevokingMarks
<1> QED
  BY <1>2, MarkedRows

LEMMA SetViewTokens ==
    ASSUME TypeOK, RowsInv, ReadingsInv, NEW c \in Calls, SetView(c)
    PROVE  TokensKeep
<1> DEFINE view == calls[c].view
           found == {row \in rows : /\ row.serial = calls[c].serial /\ IsLive(row)
                                    /\ row.user = calls[c].user}
<1>1. /\ found \in SUBSET rows /\ issued' = issued
      /\ rows' = (rows \ found) \cup {[row EXCEPT !.view = view] : row \in found}
  BY DEF SetView
<1>2. view \in Views
  BY CallTypes DEF SetView
<1>3. NoNewReading
  BY NoReadingIn DEF SetView, Idle
<1> HIDE DEF found, view
<1>4. Marks(Viewing(found, view)) /\ Marked(Viewing(found, view)) = rows'
  BY <1>1, <1>2, ViewingMarks
<1> QED
  BY <1>1, <1>3, <1>4, MarkedRows

LEMMA TokensStep ==
    ASSUME SessionsAssumption, TypeOK, RowsInv, ReadingsInv, [Next]_vars
    PROVE  TokensKeep
<1>0. UNCHANGED calls => NoNewReading
  BY DEF NoNewReading
<1>1. ASSUME NEW c \in Calls, Answer(c) PROVE TokensKeep
  <2>1. CASE Verified(c)
    <3>1. NoNewReading
      BY <2>1 DEF Verified, NoNewReading, TypeOK
    <3> QED
      BY <2>1, <3>1, PurgedRows DEF Verified
  <2>2. CASE Changed(c)
    <3>1. NoNewReading
      BY <2>2, NoReadingIn DEF Changed, Idle
    <3> QED
      BY <2>2, <3>1, RevokedForTokens DEF Changed, SetPassword
  <2> QED
    BY <1>1, <2>1, <2>2, BeginTokens, RotateTokens, SetViewTokens DEF Answer
<1>2. ASSUME NEW c \in Calls, NEW u \in Users, NEW next \in Passwords, ChangePassword(c, u, next)
      PROVE  TokensKeep
  <2>1. NoNewReading
    BY <1>2, NoReadingIn DEF ChangePassword
  <2> QED
    BY <1>2, <2>1, SameRows DEF ChangePassword
<1>3. ASSUME NEW c \in Calls, NEW u \in Users, LogIn(c, u) PROVE TokensKeep
  <2>1. NoNewReading
    BY <1>3, NoReadingIn DEF LogIn
  <2> QED
    BY <1>3, <2>1, SameRows DEF LogIn
<1>4. ASSUME NEW c \in Calls, NEW u \in Users, NEW row \in rows, NEW view \in Views,
             SwitchView(c, u, row.serial, view)
      PROVE  TokensKeep
  <2>1. NoNewReading
    BY <1>4, NoReadingIn DEF SwitchView
  <2> QED
    BY <1>4, <2>1, SameRows DEF SwitchView
<1>5. ASSUME NEW row \in rows, LogOut(row) PROVE TokensKeep
  <2>1. /\ {row} \in SUBSET rows /\ rows' = (rows \ {row}) \cup Revoked({row})
        /\ issued' = issued /\ UNCHANGED calls
    BY <1>5 DEF LogOut
  <2>2. Marks(Revoking({row})) /\ Marked(Revoking({row})) = rows'
    BY <2>1, RevokingMarks
  <2> QED
    BY <1>0, <2>1, <2>2, MarkedRows
<1>6. ASSUME NEW row \in rows, Expire(row) PROVE TokensKeep
  <2>1. /\ row.old /\ rows' = (rows \ {row}) \cup {[row EXCEPT !.expired = TRUE]}
        /\ issued' = issued /\ UNCHANGED calls
    BY <1>6 DEF Expire
  <2>2. Marks(Expiring(row)) /\ Marked(Expiring(row)) = rows'
    BY <2>1, ExpiringMarks
  <2> QED
    BY <1>0, <2>1, <2>2, MarkedRows
<1>7. ASSUME NEW u \in Users, Operator(u) PROVE TokensKeep
  <2>1. /\ issued' = issued /\ UNCHANGED calls
        /\ UNCHANGED rows \/ rows' = RevokeAllFor(u)
    BY <1>7 DEF Operator, Create, Edit, ResetPassword, SetPassword, Link, Deactivate, Activate,
                Promote, Demote
  <2> QED
    BY <1>0, <2>1, SameRows, RevokedForTokens
<1>8. CASE Restart
  <2>1. NoNewReading
    BY <1>8 DEF Restart, NoNewReading, Idle
  <2> QED
    BY <1>8, <2>1, SameRows DEF Restart
<1>9. CASE UNCHANGED vars
  BY <1>0, <1>9, SameRows DEF vars
<1> QED
  BY <1>1, <1>2, <1>3, <1>4, <1>5, <1>6, <1>7, <1>8, <1>9, RenewTokens, DayTokens DEF Next

-----------------------------------------------------------------------------
(* Types *)

LEMMA TypesAtFirst ==
    ASSUME SessionsAssumption, Init
    PROVE  TypeOK
BY DEF SessionsAssumption, Init, TypeOK, Views

LEMMA TypesKept ==
    ASSUME SessionsAssumption, TypeOK, RowsInv, [Next]_vars, rows' \subseteq Row
    PROVE  TypeOK'
<1> DEFINE Others == /\ users' \in [Users -> Account] /\ \A u \in Users : AllowedAccount(users'[u])
                     /\ viewAs' \subseteq Users \X Players
                     /\ calls' \in [Calls -> Call \cup {Idle}]
                     /\ issued' \in 0 .. MaxTokens
                     /\ chosen' \in [Serials -> Views]
<1>0. /\ MaxTokens \in Nat /\ 1 \in Passwords /\ None \notin Players
      /\ users \in [Users -> Account] /\ \A u \in Users : AllowedAccount(users[u])
      /\ viewAs \subseteq Users \X Players
      /\ calls \in [Calls -> Call \cup {Idle}]
      /\ issued \in 0 .. MaxTokens
      /\ chosen \in [Serials -> Views]
  BY DEF SessionsAssumption, TypeOK
<1>1. ASSUME NEW c \in Calls, NEW call \in Call \cup {Idle}, calls' = [calls EXCEPT ![c] = call]
      PROVE  calls' \in [Calls -> Call \cup {Idle}]
  BY <1>0, <1>1
<1>2. ASSUME NEW c \in Calls, Answer(c) PROVE Others
  <2>1. CASE Verified(c)
    <3>1. [calls[c] EXCEPT !.kind = "signing"] \in Call
      BY <2>1, CallTypes DEF Verified, Call
    <3>2. calls' = [calls EXCEPT ![c] = [calls[c] EXCEPT !.kind = "signing"]]
      BY <2>1 DEF Verified
    <3>3. calls' \in [Calls -> Call \cup {Idle}]
      BY <1>1, <3>1, <3>2
    <3> QED
      BY <1>0, <2>1, <3>3 DEF Verified
  <2>2. CASE Begin(c)
    BY <1>0, <1>1, <2>2 DEF Begin, Serials, Views
  <2>3. CASE Rotate(c)
    BY <1>0, <1>1, <2>3 DEF Rotate
  <2>4. CASE SetView(c)
    <3>1. calls[c].user \in Users /\ calls[c].view \in Views
      BY <2>4, CallTypes DEF SetView
    <3>2. chosen' \in [Serials -> Views]
      BY <1>0, <2>4, <3>1 DEF SetView
    <3> QED
      BY <1>0, <1>1, <2>4, <3>1, <3>2 DEF SetView, Logged
  <2>5. CASE Changed(c)
    <3>1. calls[c].user \in Users /\ calls[c].next \in Passwords
      BY <2>5, CallTypes DEF Changed
    <3>2. users' \in [Users -> Account] /\ \A u \in Users : AllowedAccount(users'[u])
      BY <1>0, <2>5, <3>1 DEF Changed, SetPassword, Account, AllowedAccount
    <3> QED
      BY <1>0, <1>1, <2>5, <3>2 DEF Changed
  <2> QED
    BY <1>2, <2>1, <2>2, <2>3, <2>4, <2>5 DEF Answer
<1>3. ASSUME NEW c \in Calls, NEW u \in Users, NEW next \in Passwords, ChangePassword(c, u, next)
      PROVE  Others
  <2>1. [kind |-> "changing", user |-> u, current |-> users[u].password, next |-> next] \in Call
    BY <1>0 DEF Call, Account
  <2> QED
    BY <1>0, <1>1, <1>3, <2>1 DEF ChangePassword
<1>4. ASSUME NEW c \in Calls, NEW u \in Users, LogIn(c, u) PROVE Others
  <2>1. [kind |-> "verifying", user |-> u, password |-> users[u].password] \in Call
    BY <1>0 DEF Call, Account
  <2> QED
    BY <1>0, <1>1, <1>4, <2>1 DEF LogIn
<1>5. ASSUME NEW c \in Calls, NEW row \in rows, Renew(c, row) PROVE Others
  <2>1. [kind |-> "rotating", row |-> row] \in Call
    BY DEF Call, TypeOK
  <2> QED
    BY <1>0, <1>1, <1>5, <2>1 DEF Renew
<1>6. ASSUME NEW c \in Calls, NEW u \in Users, NEW row \in rows, NEW view \in Views,
             SwitchView(c, u, row.serial, view)
      PROVE  Others
  <2>1. row.serial \in Serials /\ Choice(users[u], view) \in Views
    BY DEF TypeOK, Row, Choice, Views
  <2>2. [kind |-> "switching", user |-> u, serial |-> row.serial,
         view |-> Choice(users[u], view)] \in Call
    BY <2>1 DEF Call
  <2> QED
    BY <1>0, <1>1, <1>6, <2>2 DEF SwitchView
<1>7. ASSUME NEW u \in Users, Operator(u) PROVE Others
  <2>1. ASSUME NEW account \in Account, AllowedAccount(account),
               users' = [users EXCEPT ![u] = account]
        PROVE  users' \in [Users -> Account] /\ \A v \in Users : AllowedAccount(users'[v])
    BY <1>0, <2>1
  <2>2. ASSUME NEW role \in {"admin", "regular"}, NEW player \in Players \cup {None},
               Create(u, role, player)
        PROVE  Others
    <3>1. [role |-> role, active |-> TRUE, password |-> 1, player |-> player] \in Account
      BY <1>0 DEF Account
    <3> QED
      BY <1>0, <2>1, <2>2, <3>1 DEF Create, AllowedAccount
  <2>3. users[u] \in Account /\ AllowedAccount(users[u])
    BY <1>0
  <2>4. ASSUME NEW password \in Passwords, ResetPassword(u, password) PROVE Others
    BY <1>0, <2>3, <2>4 DEF ResetPassword, SetPassword, Account, AllowedAccount
  <2>5. ASSUME NEW player \in Players, Link(u, player) PROVE Others
    BY <1>0, <2>3, <2>5 DEF Link, Account, AllowedAccount
  <2>6. CASE Deactivate(u)
    BY <1>0, <2>3, <2>6 DEF Deactivate, Account, AllowedAccount
  <2>7. CASE Activate(u)
    BY <1>0, <2>3, <2>7 DEF Activate, Account, AllowedAccount
  <2>8. CASE Promote(u)
    BY <1>0, <2>3, <2>8 DEF Promote, Account, AllowedAccount
  <2>9. CASE Demote(u)
    BY <1>0, <2>3, <2>9 DEF Demote, Account, AllowedAccount
  <2> QED
    BY <1>7, <2>2, <2>4, <2>5, <2>6, <2>7, <2>8, <2>9 DEF Operator, Edit
<1>8. ASSUME NEW row \in rows, LogOut(row) \/ Expire(row) PROVE Others
  BY <1>0, <1>8 DEF LogOut, Expire
<1>9. ASSUME Day \/ UNCHANGED vars PROVE Others
  BY <1>0, <1>9 DEF Day, vars
<1>10. ASSUME Restart PROVE Others
  BY <1>0, <1>10 DEF Restart
<1> HIDE DEF Others
<1>11. Others
  BY <1>2, <1>3, <1>4, <1>5, <1>6, <1>7, <1>8, <1>9, <1>10 DEF Next
<1> QED
  BY <1>11 DEF TypeOK, Others

-----------------------------------------------------------------------------
(* The log, and the admins *)

\* What is logged stays, and nobody is put to look at the app as a player without it.
LEMMA LogStep ==
    ASSUME SessionsAssumption, TypeOK, LogInv, [Next]_vars
    PROVE  LogInv'
<1> DEFINE RowsLogged == \A row \in rows' :
                             row.view \in Players => <<row.user, row.view>> \in viewAs'
           CallsLogged == \A c \in Calls : calls'[c].kind = "rotating" /\ calls'[c].row.view \in Players
                              => <<calls'[c].row.user, calls'[c].row.view>> \in viewAs'
           Kept == \A row \in rows' : \E q \in rows : row.view = q.view /\ row.user = q.user
<1>0. /\ \A row \in rows : row \in Row /\ (row.view \in Players => <<row.user, row.view>> \in viewAs)
      /\ \A c \in Calls : calls[c].kind = "rotating" /\ calls[c].row.view \in Players
            => <<calls[c].row.user, calls[c].row.view>> \in viewAs
  BY DEF LogInv, ActingIsLogged, Rotating, TypeOK
<1>1. ASSUME viewAs \subseteq viewAs', NoNewReading PROVE CallsLogged
  BY <1>0, <1>1 DEF NoNewReading
<1>2. ASSUME viewAs' = viewAs, Kept PROVE RowsLogged
  BY <1>0, <1>2
<1>3. UNCHANGED rows => Kept
  OBVIOUS
<1>4. ASSUME NEW found \in SUBSET rows, rows' = (rows \ found) \cup Revoked(found) PROVE Kept
  <2>1. \A row \in rows' : row \in rows \/ \E q \in rows : row = [q EXCEPT !.revoked = TRUE]
    BY <1>4 DEF Revoked
  <2> QED
    BY <1>0, <2>1 DEF Row
<1>5. ASSUME NEW user, rows' = RevokeAllFor(user) PROVE Kept
  BY <1>4, <1>5 DEF RevokeAllFor
<1>6. UNCHANGED calls => NoNewReading
  BY DEF NoNewReading
<1>7. ASSUME NEW c \in Calls, Answer(c) PROVE RowsLogged /\ CallsLogged
  <2>1. CASE Verified(c)
    <3>1. NoNewReading /\ Kept
      BY <2>1 DEF Verified, NoNewReading, TypeOK, Purged
    <3> QED
      BY <1>1, <1>2, <2>1, <3>1 DEF Verified
  <2>2. CASE Begin(c)
    <3>1. NoNewReading
      BY <2>2, NoReadingIn DEF Begin, Idle
    <3>2. "admin" \notin Players
      BY DEF SessionsAssumption
    <3>3. RowsLogged
      BY <1>0, <2>2, <3>2 DEF Begin, Token
    <3> QED
      BY <1>1, <2>2, <3>1, <3>3 DEF Begin
  <2>3. CASE Rotate(c)
    <3>1. NoNewReading
      BY <2>3, NoReadingIn DEF Rotate, Idle
    <3> DEFINE read == calls[c].row
               closed == RevokeIfLive(read.id)
               new == Token(read.user, read.view, read.session, read.password)
    <3>2. closed \in SUBSET rows
      BY DEF RevokeIfLive
    <3>3. rows' = rows \/ rows' = (rows \ closed) \cup Revoked(closed) \cup {new}
      BY <2>3 DEF Rotate
    <3>4. new.view = read.view /\ new.user = read.user
      BY DEF Token
    <3>5. calls[c].kind = "rotating" /\ viewAs' = viewAs
      BY <2>3 DEF Rotate
    <3>6. read.view \in Players => <<read.user, read.view>> \in viewAs
      BY <1>0, <3>5
    <3> HIDE DEF read, closed, new
    <3>7. \A row \in rows' : row = new \/ \E q \in rows : row.view = q.view /\ row.user = q.user
      BY <1>0, <3>2, <3>3 DEF Revoked, Row
    <3>8. RowsLogged
      BY <1>0, <3>4, <3>5, <3>6, <3>7
    <3> QED
      BY <1>1, <3>1, <3>5, <3>8
  <2>4. CASE SetView(c)
    <3> DEFINE view == calls[c].view
               found == {row \in rows : /\ row.serial = calls[c].serial /\ IsLive(row)
                                        /\ row.user = calls[c].user}
    <3>1. NoNewReading
      BY <2>4, NoReadingIn DEF SetView, Idle
    <3>2. /\ rows' = (rows \ found) \cup {[row EXCEPT !.view = view] : row \in found}
          /\ viewAs' = IF found = {} THEN viewAs ELSE Logged(calls[c].user, view)
      BY <2>4 DEF SetView
    <3>3. \A row \in found : row \in rows /\ row.user = calls[c].user
      OBVIOUS
    <3> HIDE DEF found, view
    <3>4. viewAs \subseteq viewAs'
      BY <3>2 DEF Logged
    <3>5. found # {} /\ view \in Players => <<calls[c].user, view>> \in viewAs'
      BY <3>2 DEF Logged
    <3>6. \A row \in rows' : \/ row \in rows
                             \/ found # {} /\ row.view = view /\ row.user = calls[c].user
      <4>1. \A row \in rows' : row \in rows \/ \E q \in found : row = [q EXCEPT !.view = view]
        BY <3>2
      <4>2. \A q \in found : q \in Row /\ q.user = calls[c].user
        BY <1>0, <3>3
      <4> QED
        BY <4>1, <4>2 DEF Row
    <3>7. RowsLogged
      BY <1>0, <3>4, <3>5, <3>6
    <3> QED
      BY <1>1, <3>1, <3>4, <3>7
  <2>5. CASE Changed(c)
    <3>1. NoNewReading
      BY <2>5, NoReadingIn DEF Changed, Idle
    <3> QED
      BY <1>1, <1>2, <1>5, <2>5, <3>1 DEF Changed, SetPassword
  <2> QED
    BY <1>7, <2>1, <2>2, <2>3, <2>4, <2>5 DEF Answer
<1>8. ASSUME NEW c \in Calls, NEW u \in Users,
             \/ LogIn(c, u) \/ \E next \in Passwords : ChangePassword(c, u, next)
             \/ \E row \in rows, view \in Views : SwitchView(c, u, row.serial, view)
      PROVE  RowsLogged /\ CallsLogged
  <2>1. NoNewReading
    BY <1>8, NoReadingIn DEF LogIn, ChangePassword, SwitchView
  <2>2. viewAs' = viewAs /\ rows' = rows
    BY <1>8 DEF LogIn, ChangePassword, SwitchView
  <2> QED
    BY <1>1, <1>2, <1>3, <2>1, <2>2
<1>9. ASSUME NEW c \in Calls, NEW row \in rows, Renew(c, row) PROVE RowsLogged /\ CallsLogged
  <2>1. viewAs' = viewAs /\ rows' = rows
    BY <1>9 DEF Renew
  <2>2. calls'[c].row = row /\ \A d \in Calls : d # c => calls'[d] = calls[d]
    BY <1>9 DEF Renew, TypeOK
  <2> QED
    BY <1>0, <2>1, <2>2
<1>10. ASSUME NEW row \in rows, LogOut(row) \/ Expire(row) PROVE RowsLogged /\ CallsLogged
  <2>1. viewAs' = viewAs /\ UNCHANGED calls
    BY <1>10 DEF LogOut, Expire
  <2>2. CASE LogOut(row)
    <3>1. {row} \in SUBSET rows /\ rows' = (rows \ {row}) \cup Revoked({row})
      BY <2>2 DEF LogOut
    <3>2. Kept
      BY <1>4, <3>1
    <3> QED
      BY <1>1, <1>2, <1>6, <2>1, <3>2
  <2>3. CASE Expire(row)
    <3>1. \A q \in rows' : q \in rows \/ q = [row EXCEPT !.expired = TRUE]
      BY <2>3 DEF Expire
    <3>2. Kept
      BY <1>0, <3>1 DEF Row
    <3> QED
      BY <1>1, <1>2, <1>6, <2>1, <3>2
  <2> QED
    BY <1>10, <2>2, <2>3
<1>11. ASSUME NEW u \in Users, Operator(u) PROVE RowsLogged /\ CallsLogged
  <2>1. /\ viewAs' = viewAs /\ UNCHANGED calls
        /\ UNCHANGED rows \/ rows' = RevokeAllFor(u)
    BY <1>11 DEF Operator, Create, Edit, ResetPassword, SetPassword, Link, Deactivate, Activate,
                 Promote, Demote
  <2> QED
    BY <1>1, <1>2, <1>3, <1>5, <1>6, <2>1
<1>12. ASSUME Day PROVE RowsLogged /\ CallsLogged
  <2>1. Kept
    BY <1>0, <1>12 DEF Day, Row
  <2> QED
    BY <1>1, <1>2, <1>6, <1>12, <2>1 DEF Day
<1>13. ASSUME Restart \/ UNCHANGED vars PROVE RowsLogged /\ CallsLogged
  <2>1. NoNewReading /\ viewAs' = viewAs /\ rows' = rows
    BY <1>13 DEF Restart, vars, NoNewReading, Idle
  <2> QED
    BY <1>1, <1>2, <1>3, <2>1
<1> HIDE DEF RowsLogged, CallsLogged
<1>14. RowsLogged /\ CallsLogged
  BY <1>7, <1>8, <1>9, <1>10, <1>11, <1>12, <1>13 DEF Next
<1> QED
  BY <1>14 DEF LogInv, ActingIsLogged, Rotating, RowsLogged, CallsLogged

\* Who is not the last of the admins leaves another.
LEMMA AdminsStep ==
    ASSUME SessionsAssumption, TypeOK, AlwaysAnAdmin, [Next]_vars
    PROVE  AlwaysAnAdmin'
<1>0. users \in [Users -> Account] /\ IsFiniteSet(Users)
  BY DEF TypeOK, SessionsAssumption
<1>1. ASSUME NEW u \in Users, RefuseLastAdmin(u)
      PROVE  \E v \in ActiveAdmins : v # u
  <2>1. CASE u \notin ActiveAdmins
    BY <2>1 DEF AlwaysAnAdmin
  <2>2. CASE u \in ActiveAdmins
    <3>1. SUFFICES ASSUME ActiveAdmins \subseteq {u} PROVE FALSE
      OBVIOUS
    <3>2. ActiveAdmins = {u}
      BY <2>2, <3>1
    <3>3. Cardinality({u}) = 1
      BY FS_Singleton
    <3> QED
      BY <1>1, <2>2, <3>2, <3>3 DEF RefuseLastAdmin
  <2> QED
    BY <2>1, <2>2
<1>2. ASSUME NEW u \in Users, users' \in [Users -> Account],
             \A v \in Users : v # u => users'[v] = users[v],
             \E v \in ActiveAdmins : v # u \/ (users'[v].active /\ users'[v].role = "admin")
      PROVE  AlwaysAnAdmin'
  BY <1>2 DEF AlwaysAnAdmin, ActiveAdmins
<1>3. PICK a \in ActiveAdmins : a \in Users /\ users[a].active /\ users[a].role = "admin"
  BY DEF AlwaysAnAdmin, ActiveAdmins
<1>4. UNCHANGED users => AlwaysAnAdmin'
  BY DEF AlwaysAnAdmin, ActiveAdmins
<1>5. ASSUME NEW u \in Users, NEW password, SetPassword(u, password) PROVE AlwaysAnAdmin'
  BY <1>0, <1>3, <1>5 DEF SetPassword, Account, AlwaysAnAdmin, ActiveAdmins
<1>6. ASSUME NEW u \in Users, Operator(u) PROVE AlwaysAnAdmin'
  <2>1. ASSUME NEW role, NEW player, Create(u, role, player) PROVE AlwaysAnAdmin'
    BY <1>0, <1>3, <2>1 DEF Create, NotCreated, AlwaysAnAdmin, ActiveAdmins
  <2>2. CASE \E password \in Passwords : ResetPassword(u, password)
    BY <1>5, <2>2 DEF ResetPassword
  <2>3. CASE \E player \in Players : Link(u, player)
    BY <1>0, <1>3, <2>3 DEF Link, Account, AlwaysAnAdmin, ActiveAdmins
  <2>4. CASE Deactivate(u) \/ Demote(u)
    <3>1. PICK v \in ActiveAdmins : v # u
      BY <1>1, <2>4 DEF Deactivate, Demote
    <3> QED
      BY <1>0, <2>4, <3>1 DEF Deactivate, Demote, AlwaysAnAdmin, ActiveAdmins
  <2>5. CASE Activate(u) \/ Promote(u)
    BY <1>0, <1>3, <2>5 DEF Activate, Promote, Account, AlwaysAnAdmin, ActiveAdmins
  <2> QED
    BY <1>6, <2>1, <2>2, <2>3, <2>4, <2>5 DEF Operator, Edit
<1>7. ASSUME NEW c \in Calls, Changed(c) PROVE AlwaysAnAdmin'
  BY <1>5, <1>7, CallTypes DEF Changed
<1>8. CASE \/ \E c \in Calls : \/ Verified(c) \/ Begin(c) \/ Rotate(c) \/ SetView(c)
                               \/ \E u \in Users, next \in Passwords : ChangePassword(c, u, next)
                               \/ \E u \in Users : LogIn(c, u)
                               \/ \E row \in rows : Renew(c, row)
                               \/ \E u \in Users, row \in rows, view \in Views :
                                     SwitchView(c, u, row.serial, view)
           \/ \E row \in rows : LogOut(row) \/ Expire(row)
           \/ Day \/ Restart \/ UNCHANGED vars
  <2>1. UNCHANGED users
    BY <1>8 DEF Verified, Begin, Rotate, SetView, ChangePassword, LogIn, Renew, SwitchView, LogOut,
                Expire, Day, Restart, vars
  <2> QED
    BY <1>4, <2>1
<1> QED
  BY <1>6, <1>7, <1>8 DEF Next, Answer

-----------------------------------------------------------------------------
(* The theorems *)

LEMMA SessionsInvariant ==
    ASSUME SessionsAssumption
    PROVE  /\ Init => IInv
           /\ IInv /\ [Next]_vars => IInv' /\ TokensKeep
<1>1. ASSUME Init PROVE IInv
  <2>1. RowsInv /\ ReadingsInv /\ LogInv
    BY <1>1 DEF Init, RowsInv, ReadingsInv, LogInv, ActingIsLogged, Rotating, Idle
  <2>2. AlwaysAnAdmin
    BY <1>1 DEF Init, SessionsAssumption, AlwaysAnAdmin, ActiveAdmins
  <2> QED
    BY <1>1, <2>1, <2>2, TypesAtFirst DEF IInv
<1>2. ASSUME IInv, [Next]_vars PROVE IInv' /\ TokensKeep
  <2>1. TokensKeep
    BY <1>2, TokensStep DEF IInv
  <2>2. TypeOK'
    BY <1>2, <2>1, TypesKept DEF IInv, TokensKeep
  <2> QED
    BY <1>2, <2>1, <2>2, LogStep, AdminsStep DEF IInv, TokensKeep
<1> QED
  BY <1>1, <1>2

\* Of two rows of a session the one with the lower id is revoked, so one at most is good.
LEMMA OneGoodRow ==
    ASSUME TypeOK, RowsInv
    PROVE  OneTokenPerSession
<1> SUFFICES ASSUME NEW s \in Serials PROVE Cardinality(GoodOf(s)) <= 1
  BY DEF OneTokenPerSession
<1>1. \A row \in rows : row.id \in Nat
  BY DEF TypeOK, Row, Serials
<1>2. \A r1, r2 \in GoodOf(s) : r1 = r2
  BY <1>1 DEF RowsInv, GoodOf
<1>3. CASE GoodOf(s) = {}
  BY <1>3, FS_EmptySet
<1>4. CASE GoodOf(s) # {}
  <2>1. PICK row : GoodOf(s) = {row}
    BY <1>2, <1>4
  <2> QED
    BY <2>1, FS_Singleton
<1> QED
  BY <1>3, <1>4

\* However many users, calls and tokens there are, and whatever the calls had read: a session
\* never has two good tokens, whoever looks at the app as a player is in the log, and there
\* is an admin who can log in.
THEOREM SessionsAreInOrder ==
    ASSUME SessionsAssumption
    PROVE  Spec => []SessionsAreAccountedFor
<1>1. Init => IInv
  BY SessionsInvariant
<1>2. IInv /\ [Next]_vars => IInv'
  BY SessionsInvariant
<1>3. IInv => SessionsAreAccountedFor
  BY OneGoodRow DEF IInv, LogInv, SessionsAreAccountedFor
<1> QED
  BY <1>1, <1>2, <1>3, PTL DEF Spec

\* No renewal in flight brings back a session whose rows are all revoked, however many
\* renew it at once and whoever was given the id of a row that is gone.
THEOREM RevokedSessionsStayRevoked ==
    ASSUME SessionsAssumption
    PROVE  Spec => [][RevokedStaysRevoked]_vars
<1>1. Init => IInv
  BY SessionsInvariant
<1>2. IInv /\ [Next]_vars => IInv'
  BY SessionsInvariant
<1>3. IInv /\ [Next]_vars => [RevokedStaysRevoked]_vars
  BY SessionsInvariant DEF TokensKeep
<1> QED
  BY <1>1, <1>2, <1>3, PTL DEF Spec
-----------------------------------------------------------------------------
(* Passwords tried against one account: the invariant of LoginLockout *)

InFlight(c) == checking[c].stage = "checking"

-----------------------------------------------------------------------------
(* The inductive invariant *)

\* Logins are as old as a check may be, and the count starts no later than now.
Clocks ==
    /\ since <= now
    /\ \A c \in Logins : InFlight(c) => checking[c].at <= now /\ now <= checking[c].at + Slowest

\* A lock ends within one lock from now, after every login in flight has, and no
\* sooner after the count was cleared than a lock less one check.
Locks ==
    /\ Lockout!LockIsBounded
    /\ lockedUntil # Lockout!NotLocked =>
         /\ LockMinutes <= lockedUntil - since + Slowest
         /\ \A c \in Logins : InFlight(c) => checking[c].at + Slowest < lockedUntil
    /\ failedAttempts > MaxAttempts => lockedUntil # Lockout!NotLocked

\* The time that the passwords checked beyond the limit must have taken.
Over == (checked - MaxAttempts) * LockMinutes

\* Below the limit every check was counted; from then on each one took a lock, which
\* has passed, is running, or is counted from when a login in flight began.
Counted ==
    /\ failedAttempts < MaxAttempts => checked <= failedAttempts
    /\ failedAttempts >= MaxAttempts =>
         /\ Over <= now - since + Slowest
         /\ \A c \in Logins : InFlight(c) => Over <= checking[c].at - since + Slowest
         /\ lockedUntil # Lockout!NotLocked => Over + LockMinutes <= lockedUntil - since + Slowest

LockoutInv == Lockout!TypeOK /\ Clocks /\ Locks /\ Counted

-----------------------------------------------------------------------------
(* Each step keeps it *)

\* The database starts with nothing counted and nobody locked out.
LEMMA LockoutInitInv == ASSUME Lockout!LockoutAssumption, Lockout!Init PROVE LockoutInv
BY DEF Lockout!LockoutAssumption, Lockout!PolicyAssumption, Lockout!Init, LockoutInv,
       Lockout!TypeOK, Clocks, Locks, Counted, Lockout!LockIsBounded, InFlight,
       Lockout!Idle, Lockout!NotLocked

\* A login whose password is looked at: below the limit it is counted, at the limit a
\* lock has passed since the last, and no other login is still in flight.
LEMMA TryInv ==
    ASSUME Lockout!LockoutAssumption, LockoutInv, NEW c \in Logins, Lockout!Try(c)
    PROVE  LockoutInv'
<1> USE DEF Lockout!LockoutAssumption, Lockout!PolicyAssumption, LockoutInv, Lockout!TypeOK,
            Clocks, Locks, Lockout!NotLocked
<1>1. /\ now' = now /\ since' = since /\ checked' = checked + 1
      /\ failedAttempts' = Lockout!Attempt /\ Lockout!Attempt <= MaxAttempts
      /\ lockedUntil' = Lockout!NotLocked
      /\ checking' = [checking EXCEPT ![c] = Lockout!Checking(Lockout!Attempt)]
  BY DEF Lockout!Try, Lockout!Begin, Lockout!IsLocked, Lockout!HasExpired
<1>2. Lockout!Attempt \in 0..MaxAttempts
  BY <1>1 DEF Lockout!Attempt, Lockout!HasExpired
<1>3. /\ ~InFlight(c) /\ InFlight(c)'
      /\ checking'[c].at = now
      /\ \A d \in Logins \ {c} : checking'[d] = checking[d]
  BY <1>1 DEF Lockout!Try, Lockout!Begin, Lockout!Checking, InFlight
<1>4. Lockout!TypeOK'
  BY <1>1, <1>2 DEF Lockout!Checking
<1>5. Clocks'
  BY <1>1, <1>3 DEF InFlight
<1>6. Locks'
  BY <1>1, <1>2 DEF Lockout!LockIsBounded
<1>7. Counted'
  <2>1. CASE failedAttempts < MaxAttempts
    <3>1. checked + 1 <= failedAttempts + 1 /\ failedAttempts + 1 <= MaxAttempts
      BY <2>1 DEF Counted
    <3>2. Over' <= 0
      <4>1. checked + 1 - MaxAttempts <= 0
        BY <2>1, <3>1
      <4> QED BY <1>1, <4>1 DEF Over
    <3>3. Lockout!Attempt < MaxAttempts => checked' <= Lockout!Attempt
      BY <1>1, <3>1 DEF Lockout!Attempt, Lockout!HasExpired
    <3>4. \A d \in Logins : InFlight(d)' => 0 <= checking'[d].at - since' + Slowest
      BY <1>1, <1>4, <1>5
    <3>5. Over' \in Int
      BY <1>1 DEF Over
    <3>6. \A d \in Logins : InFlight(d)' => Over' <= checking'[d].at - since' + Slowest
      BY <1>1, <1>4, <3>2, <3>4, <3>5
    <3> QED BY <1>1, <1>2, <3>2, <3>3, <3>5, <3>6 DEF Counted
  <2>2. CASE failedAttempts >= MaxAttempts
    <3>1. Lockout!HasExpired
      BY <1>1, <2>2 DEF Lockout!Attempt, Lockout!HasExpired
    <3>2. \A d \in Logins \ {c} : ~InFlight(d)'
      BY <1>3, <3>1 DEF InFlight, Lockout!HasExpired
    <3>3. Over' = Over + LockMinutes
      BY <1>1 DEF Over
    <3>4. Over' <= now - since + Slowest
      BY <2>2, <3>1, <3>3 DEF Counted, Lockout!HasExpired, Over
    <3>5. Lockout!Attempt = MaxAttempts
      BY <3>1 DEF Lockout!Attempt
    <3> QED BY <1>1, <1>3, <3>2, <3>4, <3>5 DEF Counted, InFlight
  <2> QED BY <2>1, <2>2
<1> QED BY <1>4, <1>5, <1>6, <1>7

\* A login that finds the attempts used up locks the account from now.
LEMMA RefuseInv ==
    ASSUME Lockout!LockoutAssumption, LockoutInv, NEW c \in Logins, Lockout!Refuse(c)
    PROVE  LockoutInv'
<1> USE DEF Lockout!LockoutAssumption, Lockout!PolicyAssumption, LockoutInv, Lockout!TypeOK,
            Clocks, Locks, Lockout!NotLocked
<1>1. /\ now' = now /\ since' = since /\ checked' = checked /\ checking' = checking
      /\ failedAttempts' = Lockout!Attempt /\ Lockout!Attempt > MaxAttempts
      /\ lockedUntil' = now + LockMinutes
  BY DEF Lockout!Refuse, Lockout!Begin
<1>2. ~Lockout!HasExpired /\ lockedUntil = Lockout!NotLocked
  BY <1>1 DEF Lockout!Attempt, Lockout!HasExpired, Lockout!Refuse, Lockout!Begin,
              Lockout!IsLocked
<1>3. failedAttempts = MaxAttempts /\ Lockout!Attempt = MaxAttempts + 1
  BY <1>1, <1>2 DEF Lockout!Attempt
<1>4. Lockout!TypeOK' /\ Clocks'
  BY <1>1, <1>3 DEF InFlight
<1>5. Locks'
  BY <1>1 DEF InFlight, Lockout!LockIsBounded
<1>6. Counted'
  BY <1>1, <1>3 DEF Counted, Over, InFlight
<1> QED BY <1>4, <1>5, <1>6

\* A right password, or the operator, clears the count; logins that began before are
\* still in flight.
LEMMA ClearInv ==
    ASSUME Lockout!LockoutAssumption, LockoutInv, Lockout!Clear,
           \/ \E c \in Logins : checking' = [checking EXCEPT ![c] = Lockout!Idle]
           \/ checking' = checking
    PROVE  LockoutInv'
<1> USE DEF Lockout!LockoutAssumption, Lockout!PolicyAssumption, LockoutInv, Lockout!TypeOK,
            Clocks, Locks, Lockout!NotLocked
<1>1. /\ now' = now /\ since' = now /\ checked' = 0 /\ failedAttempts' = 0
      /\ lockedUntil' = Lockout!NotLocked
  BY DEF Lockout!Clear
<1>2. \A d \in Logins : checking'[d] = checking[d] \/ checking'[d] = Lockout!Idle
  OBVIOUS
<1>3. Lockout!TypeOK'
  BY <1>1 DEF Lockout!Idle
<1>4. Clocks'
  BY <1>1, <1>2 DEF InFlight, Lockout!Idle
<1>5. Locks' /\ Counted'
  BY <1>1 DEF Lockout!LockIsBounded, Counted
<1> QED BY <1>3, <1>4, <1>5

\* A wrong password at the limit locks the account from when the login came in.
LEMMA FailInv ==
    ASSUME Lockout!LockoutAssumption, LockoutInv, NEW c \in Logins, Lockout!Fail(c)
    PROVE  LockoutInv'
<1> USE DEF Lockout!LockoutAssumption, Lockout!PolicyAssumption, LockoutInv, Lockout!TypeOK,
            Clocks, Locks, Lockout!NotLocked
<1>1. /\ now' = now /\ since' = since /\ checked' = checked
      /\ failedAttempts' = failedAttempts
      /\ checking' = [checking EXCEPT ![c] = Lockout!Idle]
      /\ InFlight(c)
      /\ \/ lockedUntil' = checking[c].at + LockMinutes
         \/ lockedUntil' = lockedUntil
  BY DEF Lockout!Fail, InFlight
<1>2. /\ checking[c].at <= now /\ now <= checking[c].at + Slowest
      /\ checking[c].at \in Nat
  BY <1>1
<1>3. \A d \in Logins : InFlight(d)' => InFlight(d) /\ checking'[d] = checking[d]
  BY <1>1 DEF InFlight, Lockout!Idle
<1>4. Lockout!TypeOK'
  BY <1>1, <1>2 DEF Lockout!Idle
<1>5. Clocks'
  BY <1>1, <1>3
<1>6. Locks'
  <2>1. CASE lockedUntil' = checking[c].at + LockMinutes
    <3>1. \A d \in Logins : InFlight(d)' => checking'[d].at + Slowest < lockedUntil'
      BY <1>2, <1>3, <2>1
    <3> QED BY <1>1, <1>2, <2>1, <3>1 DEF Lockout!LockIsBounded
  <2>2. CASE lockedUntil' = lockedUntil
    BY <1>1, <1>3, <2>2 DEF Lockout!LockIsBounded
  <2> QED BY <1>1, <2>1, <2>2
<1>7. Counted'
  <2>1. Over' = Over
    BY <1>1 DEF Over
  <2>2. failedAttempts >= MaxAttempts => Over <= checking[c].at - since + Slowest
    BY <1>1 DEF Counted
  <2>3. Over \in Int
    BY DEF Over
  <2> QED BY <1>1, <1>2, <1>3, <2>1, <2>2, <2>3 DEF Counted
<1> QED BY <1>4, <1>5, <1>6, <1>7

\* Time passes, while no check takes longer than the slowest.
LEMMA TickInv ==
    ASSUME Lockout!LockoutAssumption, LockoutInv, Lockout!Tick
    PROVE  LockoutInv'
<1> USE DEF Lockout!LockoutAssumption, Lockout!PolicyAssumption, LockoutInv, Lockout!TypeOK,
            Clocks, Locks, Lockout!NotLocked
<1>1. /\ now' = now + 1
      /\ UNCHANGED <<failedAttempts, lockedUntil, checking, checked, since>>
      /\ \A c \in Logins : InFlight(c) => now < checking[c].at + Slowest
  BY DEF Lockout!Tick, InFlight
<1>2. Lockout!TypeOK' /\ Clocks' /\ Locks'
  BY <1>1 DEF InFlight, Lockout!LockIsBounded
<1>3. Counted'
  <2>1. Over' = Over /\ Over \in Int
    BY <1>1 DEF Over
  <2> QED BY <1>1, <2>1 DEF Counted, InFlight
<1> QED BY <1>2, <1>3

\* The server stops: the logins in flight end, and what they counted stays.
LEMMA RestartInv ==
    ASSUME Lockout!LockoutAssumption, LockoutInv, Lockout!Restart
    PROVE  LockoutInv'
<1> USE DEF Lockout!LockoutAssumption, Lockout!PolicyAssumption, LockoutInv, Lockout!TypeOK,
            Clocks, Locks, Lockout!NotLocked
<1>1. /\ UNCHANGED <<now, failedAttempts, lockedUntil, checked, since>>
      /\ \A c \in Logins : ~InFlight(c)'
      /\ checking' = [c \in Logins |-> Lockout!Idle]
  BY DEF Lockout!Restart, InFlight, Lockout!Idle
<1>2. Lockout!TypeOK' /\ Clocks' /\ Locks'
  BY <1>1 DEF Lockout!Idle, Lockout!LockIsBounded
<1>3. Counted'
  BY <1>1 DEF Counted, Over
<1> QED BY <1>2, <1>3

LEMMA LockoutNextInv ==
    ASSUME Lockout!LockoutAssumption
    PROVE  LockoutInv /\ [Lockout!Next]_(Lockout!vars) => LockoutInv'
<1> SUFFICES ASSUME LockoutInv, [Lockout!Next]_(Lockout!vars) PROVE LockoutInv'
  OBVIOUS
<1>1. ASSUME NEW c \in Logins, Lockout!Try(c) PROVE LockoutInv'
  BY <1>1, TryInv
<1>2. ASSUME NEW c \in Logins, Lockout!Refuse(c) PROVE LockoutInv'
  BY <1>2, RefuseInv
<1>3. ASSUME NEW c \in Logins, Lockout!Succeed(c) PROVE LockoutInv'
  BY <1>3, ClearInv DEF Lockout!Succeed
<1>4. ASSUME NEW c \in Logins, Lockout!Fail(c) PROVE LockoutInv'
  BY <1>4, FailInv
<1>5. CASE Lockout!Unlock
  BY <1>5, ClearInv DEF Lockout!Unlock
<1>6. CASE Lockout!Tick
  BY <1>6, TickInv
<1>7. CASE Lockout!Restart
  BY <1>7, RestartInv
<1>8. CASE UNCHANGED Lockout!vars
  BY <1>8 DEF Lockout!vars, LockoutInv, Lockout!TypeOK, Clocks, Locks, Counted,
              Lockout!LockIsBounded, Over, InFlight
<1> QED BY <1>1, <1>2, <1>3, <1>4, <1>5, <1>6, <1>7, <1>8 DEF Lockout!Next

LEMMA LockoutInvHolds == ASSUME Lockout!LockoutAssumption PROVE Lockout!Spec => []LockoutInv
<1>1. Lockout!Init => LockoutInv
  BY LockoutInitInv
<1>2. LockoutInv /\ [Lockout!Next]_(Lockout!vars) => LockoutInv'
  BY LockoutNextInv
<1> QED BY <1>1, <1>2, PTL DEF Lockout!Spec

-----------------------------------------------------------------------------
(* What it says of passwords and locks *)

\* As many locks fit in some time as its quotient.
LEMMA QuotientBounds ==
    ASSUME NEW k \in Nat \ {0}, NEW n \in Nat, NEW x \in Int, x * k <= n
    PROVE  x <= n \div k
<1>1. /\ n \div k \in Nat
      /\ n < (n \div k + 1) * k
  OBVIOUS
<1>2. CASE x >= n \div k + 1
  <2>1. x * k >= (n \div k + 1) * k
    BY <1>1, <1>2
  <2> QED BY <1>1, <2>1
<1> QED BY <1>1, <1>2

\* Between two clearings no more passwords are checked than the limit and one for each
\* lock that can have passed.
LEMMA FewPasswords == ASSUME Lockout!LockoutAssumption,
LockoutInv PROVE Lockout!PasswordsAreLimited
<1> USE DEF Lockout!LockoutAssumption, Lockout!PolicyAssumption, LockoutInv, Lockout!TypeOK,
            Clocks
<1> DEFINE past == now - since + Slowest
<1>1. past \in Nat
  OBVIOUS
<1>2. past \div LockMinutes \in Nat
  BY <1>1
<1>3. CASE failedAttempts < MaxAttempts
  BY <1>2, <1>3 DEF Counted, Lockout!PasswordsAreLimited
<1>4. CASE failedAttempts >= MaxAttempts
  <2>1. (checked - MaxAttempts) * LockMinutes <= past
    BY <1>4 DEF Counted, Over
  <2> HIDE DEF past
  <2>2. checked - MaxAttempts <= past \div LockMinutes
    BY <1>1, <2>1, QuotientBounds
  <2> QED BY <1>2, <2>2 DEF Lockout!PasswordsAreLimited, past
<1> QED BY <1>3, <1>4

\* However many logins are in flight and however they end, no more passwords are checked than
\* the locks that can have passed allow, and nobody is locked out for longer than one lock
\* from now (lockout-policy.ts).
THEOREM PasswordsAreRateLimited ==
    ASSUME Lockout!LockoutAssumption
    PROVE  Lockout!Spec => []RateLimited
<1>1. LockoutInv => RateLimited
  BY FewPasswords DEF LockoutInv, Locks, RateLimited, PasswordsAreLimited, LockIsBounded,
     Lockout!PasswordsAreLimited, Lockout!LockIsBounded
<1> QED BY <1>1, LockoutInvHolds, PTL

-----------------------------------------------------------------------------
(* The browser.  While the session lasts, the cookie of the only tab is good, or the answer *)
(* to a refresh that leaves with it will bring one that is.                                 *)

OneTab == \A t, u \in Tabs : t = u

CallOrNone == Web!Call \cup {Web!NoCall}
CallKinds == {"refresh", "login", "logout", "request"}

\* Each slot has calls of its own kind, and a tab that logs out has ended the session.
InPlace(t, s) ==
    calls[t][s] # Web!NoCall =>
       \/ s = "refresh" /\ calls[t][s].kind = "refresh"
       \/ s = "session" /\ calls[t][s].kind = "logout" /\ ended
       \/ s = "session" /\ calls[t][s].kind = "login"
       \/ s \in Requests /\ calls[t][s].kind = "request"
CallsInPlace == \A t \in Tabs, s \in Web!Slots : InPlace(t, s)

WebTypes == Web!TypeOK /\ CallsInPlace

\* What keeps a session that has not ended.
Kept(t) ==
    /\ status[t] # "anonymous" /\ calls[t]["session"] = Web!NoCall
    /\ calls[t]["refresh"].stage = "none" => cookie \in live
    /\ calls[t]["refresh"].stage = "sent" =>
          cookie \in live /\ calls[t]["refresh"].cookie = cookie
    /\ calls[t]["refresh"].stage = "answered" =>
          calls[t]["refresh"].ok /\ calls[t]["refresh"].cookie \in live

LEMMA CallShape ==
    ASSUME NEW c \in CallOrNone
    PROVE  /\ c.stage \in {"none", "sent", "answered"} /\ (c.stage = "none" <=> c = Web!NoCall)
           /\ c.stage # "none" => /\ c.kind \in CallKinds /\ c.again \in BOOLEAN
                                  /\ c.cookie \in Web!Serials \cup {Web!NoCookie}
           /\ c.stage = "answered" => c.ok \in BOOLEAN
<1>1. CASE c = Web!NoCall
  BY <1>1 DEF Web!NoCall
<1>2. CASE c \in [stage : {"sent"}, kind : CallKinds, cookie : Web!Serials \cup {Web!NoCookie},
                  token : {"none", "good", "old"}, again : BOOLEAN]
  BY <1>2 DEF Web!NoCall
<1>3. CASE c \in [stage : {"answered"}, kind : CallKinds, ok : BOOLEAN,
                  cookie : Web!Serials \cup {Web!NoCookie}, again : BOOLEAN]
  BY <1>3 DEF Web!NoCall
<1> QED
  BY <1>1, <1>2, <1>3 DEF CallOrNone, Web!Call, CallKinds

LEMMA SentShape ==
    ASSUME WebTypes, NEW t \in Tabs, NEW kind \in CallKinds, NEW again \in BOOLEAN
    PROVE  LET c == Web!Sent(t, kind, again)
           IN /\ c \in CallOrNone /\ c # Web!NoCall /\ [c EXCEPT !.token = "good"] \in CallOrNone
              /\ c.stage = "sent" /\ c.kind = kind /\ c.cookie = cookie
              /\ [c EXCEPT !.token = "good"].kind = kind
              /\ [c EXCEPT !.token = "good"] # Web!NoCall
<1> DEFINE c == Web!Sent(t, kind, again)
           d == [c EXCEPT !.token = "good"]
<1>1. /\ c = [stage |-> "sent", kind |-> kind, cookie |-> cookie, token |-> token[t],
              again |-> again]
      /\ d = [stage |-> "sent", kind |-> kind, cookie |-> cookie, token |-> "good",
              again |-> again]
  BY DEF Web!Sent
<1>2. cookie \in Web!Serials \cup {Web!NoCookie} /\ token[t] \in {"none", "good", "old"}
  BY DEF WebTypes, Web!TypeOK
<1> HIDE DEF c, d
<1>3. c \in CallOrNone /\ d \in CallOrNone
  BY <1>1, <1>2 DEF CallOrNone, Web!Call, CallKinds
<1>4. c.stage = "sent" /\ d.stage = "sent" /\ d.kind = kind /\ c.kind = kind /\ c.cookie = cookie
  BY <1>1
<1>5. Web!NoCall.stage = "none"
  BY DEF Web!NoCall
<1>6. c # Web!NoCall /\ d # Web!NoCall
  BY <1>4, <1>5
<1> QED
  BY <1>3, <1>4, <1>6 DEF c, d

LEMMA AnsweredShape ==
    ASSUME NEW c \in CallOrNone, c.stage # "none", NEW ok \in BOOLEAN,
           NEW new \in Web!Serials \cup {Web!NoCookie}
    PROVE  LET a == Web!Answered(c, ok, new)
           IN /\ a \in CallOrNone /\ a # Web!NoCall /\ a.stage = "answered" /\ a.kind = c.kind
              /\ a.ok = ok /\ a.cookie = new
<1> DEFINE a == Web!Answered(c, ok, new)
<1>1. a = [stage |-> "answered", kind |-> c.kind, ok |-> ok, cookie |-> new, again |-> c.again]
  BY DEF Web!Answered
<1>2. c.kind \in CallKinds /\ c.again \in BOOLEAN
  BY CallShape
<1> HIDE DEF a
<1>3. a \in CallOrNone
  BY <1>1, <1>2 DEF CallOrNone, Web!Call, CallKinds
<1>4. a.stage = "answered" /\ a.kind = c.kind /\ a.ok = ok /\ a.cookie = new
  BY <1>1
<1>5. Web!NoCall.stage = "none"
  BY DEF Web!NoCall
<1> QED
  BY <1>3, <1>4, <1>5 DEF a

LEMMA CallsAre ==
    ASSUME WebTypes
    PROVE  /\ calls \in [Tabs -> [Web!Slots -> CallOrNone]]
           /\ Web!NoCall \in CallOrNone
BY DEF WebTypes, Web!TypeOK, CallOrNone

\* The calls of one tab become others.
LEMMA OneTabsCalls ==
    ASSUME WebTypes, NEW t \in Tabs, NEW of \in [Web!Slots -> CallOrNone],
           calls' = [calls EXCEPT ![t] = of]
    PROVE  /\ calls' \in [Tabs -> [Web!Slots -> CallOrNone]]
           /\ \A u \in Tabs : calls'[u] = IF u = t THEN of ELSE calls[u]
<1>1. calls \in [Tabs -> [Web!Slots -> CallOrNone]]
  BY DEF WebTypes, Web!TypeOK, CallOrNone
<1> QED
  BY <1>1

WebRest ==
    /\ live \subseteq Web!Serials /\ issued \in 0..MaxTokens
    /\ cookie \in Web!Serials \cup {Web!NoCookie}
    /\ token \in [Tabs -> {"none", "good", "old"}]
    /\ status \in [Tabs -> {"loading", "anonymous", "authenticated"}]
    /\ reported \in [Tabs -> BOOLEAN] /\ waiting \in [Tabs -> SUBSET Requests]
    /\ ended \in BOOLEAN /\ signedOut \in [Tabs -> BOOLEAN]

\* Whoever waits for a refresh, there is one in flight.
WaitsForOne ==
    \A t \in Tabs : waiting[t] # {} \/ status[t] = "loading" => calls[t]["refresh"] # Web!NoCall

LEMMA WebTypesAre ==
    WebTypes <=> /\ WebRest /\ WaitsForOne /\ CallsInPlace
                 /\ calls \in [Tabs -> [Web!Slots -> CallOrNone]]
  BY DEF WebTypes, WebRest, WaitsForOne, Web!TypeOK, CallOrNone

LEMMA WebTypesWillBe ==
    ASSUME WebRest', WaitsForOne', CallsInPlace',
           calls' \in [Tabs -> [Web!Slots -> CallOrNone]]
    PROVE  WebTypes'
  BY DEF WebTypes, WebRest, WaitsForOne, Web!TypeOK, CallOrNone

\* The session is kept in every tab, unless it has ended.
KeptInAll == ~ended => \A t \in Tabs : Kept(t)

LEMMA SlotsApart ==
    ASSUME Web!WebAssumption
    PROVE  /\ "refresh" \in Web!Slots /\ "session" \in Web!Slots /\ Requests \subseteq Web!Slots
           /\ "refresh" \notin Requests /\ "session" \notin Requests
           /\ \A s \in Web!Slots : s \in {"refresh", "session"} \/ s \in Requests
           /\ Web!NoCall \in CallOrNone /\ Web!NoCall.stage = "none"
  BY DEF Web!WebAssumption, Web!Slots, CallOrNone, Web!NoCall

LEMMA WebAtFirst ==
    ASSUME Web!WebAssumption, Web!Init PROVE WebTypes /\ KeptInAll
<1> USE SlotsApart
<1>1. /\ issued = 1 /\ live = {1} /\ cookie \in {Web!NoCookie, 1} /\ 1 \in Web!Serials
      /\ token = [t \in Tabs |-> "none"] /\ status = [t \in Tabs |-> "loading"]
      /\ reported = [t \in Tabs |-> FALSE] /\ waiting = [t \in Tabs |-> {}]
      /\ ended = (cookie = Web!NoCookie) /\ signedOut = [t \in Tabs |-> FALSE]
  BY DEF Web!Init, Web!WebAssumption, Web!Serials
<1> DEFINE asked(t) == Web!Sent(t, "refresh", FALSE)
<1>2. calls = [t \in Tabs |-> [s \in Web!Slots |->
                 IF s = "refresh" THEN asked(t) ELSE Web!NoCall]]
  BY DEF Web!Init
<1>3. ASSUME NEW t \in Tabs
      PROVE  /\ asked(t) = [stage |-> "sent", kind |-> "refresh", cookie |-> cookie,
                            token |-> "none", again |-> FALSE]
  BY <1>1 DEF Web!Sent
<1>4. ASSUME NEW t \in Tabs
      PROVE  /\ asked(t) \in CallOrNone /\ asked(t) # Web!NoCall /\ asked(t).stage = "sent"
             /\ asked(t).kind = "refresh" /\ asked(t).cookie = cookie
  <2> DEFINE c == asked(t)
  <2>1. c = [stage |-> "sent", kind |-> "refresh", cookie |-> cookie, token |-> "none",
             again |-> FALSE]
    BY <1>3
  <2>2. cookie \in Web!Serials \cup {Web!NoCookie}
    BY <1>1
  <2> HIDE DEF c
  <2>3. c \in CallOrNone /\ c.stage = "sent" /\ c.kind = "refresh" /\ c.cookie = cookie
    BY <2>1, <2>2 DEF CallOrNone, Web!Call
  <2>4. c # Web!NoCall
    BY <2>3
  <2> QED
    BY <2>3, <2>4 DEF c
<1> HIDE DEF asked
<1>5. /\ calls \in [Tabs -> [Web!Slots -> CallOrNone]]
      /\ \A t \in Tabs : /\ calls[t]["refresh"] = asked(t) /\ calls[t]["session"] = Web!NoCall
                         /\ \A r \in Requests : calls[t][r] = Web!NoCall
  BY <1>2, <1>4
<1>6. WebRest
  BY <1>1 DEF WebRest, Web!WebAssumption
<1>7. WaitsForOne /\ CallsInPlace
  BY <1>4, <1>5 DEF WaitsForOne, CallsInPlace, InPlace
<1>8. KeptInAll
  <2> SUFFICES ASSUME ~ended, NEW t \in Tabs PROVE Kept(t)
    BY DEF KeptInAll
  <2>1. cookie \in live /\ status[t] # "anonymous"
    BY <1>1
  <2> QED
    BY <1>4, <1>5, <2>1 DEF Kept
<1> QED
  BY <1>5, <1>6, <1>7, <1>8, WebTypesAre

\* The session ends at the server, or an access token runs out.
LEMMA EndedOrExpired ==
    ASSUME WebTypes, Web!EndSession \/ \E t \in Tabs : Web!AccessExpires(t)
    PROVE  WebTypes' /\ (KeptInAll => KeptInAll')
<1>1. /\ UNCHANGED <<issued, cookie, status, reported, calls, waiting, signedOut>>
      /\ live' \subseteq live /\ token' \in [Tabs -> {"none", "good", "old"}]
      /\ (ended' = TRUE \/ UNCHANGED <<live, ended>>)
  BY DEF Web!EndSession, Web!AccessExpires, WebTypes, Web!TypeOK
<1>2. /\ WebRest /\ WaitsForOne /\ CallsInPlace
      /\ calls' \in [Tabs -> [Web!Slots -> CallOrNone]]
  BY <1>1, WebTypesAre
<1>3. WebRest'
  BY <1>1, <1>2 DEF WebRest, Web!Serials
<1>4. WaitsForOne'
  BY <1>1, <1>2 DEF WaitsForOne
<1>5. CallsInPlace'
  BY <1>1, <1>2 DEF CallsInPlace, InPlace
<1>6. KeptInAll => KeptInAll'
  BY <1>1 DEF KeptInAll, Kept
<1> QED
  BY <1>2, <1>3, <1>4, <1>5, <1>6, WebTypesWillBe

\* A request, a login or a logout leaves.
LEMMA Leaves ==
    ASSUME Web!WebAssumption, WebTypes, NEW t \in Tabs,
           Web!LogIn(t) \/ Web!LogOut(t) \/ \E r \in Requests : Web!Request(t, r)
    PROVE  WebTypes' /\ (KeptInAll => KeptInAll')
<1> USE SlotsApart
<1>1. /\ UNCHANGED <<live, issued, cookie, token, status, reported, waiting>>
      /\ signedOut' \in [Tabs -> BOOLEAN] /\ ended' \in {ended, TRUE} /\ (ended => ended')
  BY DEF Web!LogIn, Web!LogOut, Web!Request, WebTypes, Web!TypeOK
<1>2. PICK s \in Web!Slots, kind \in CallKinds :
        /\ calls' = [calls EXCEPT ![t][s] = Web!Sent(t, kind, FALSE)]
        /\ \/ s \in Requests /\ kind = "request"
           \/ s = "session" /\ kind = "login" /\ status[t] = "anonymous"
           \/ s = "session" /\ kind = "logout" /\ ended' = TRUE
  BY DEF Web!LogIn, Web!LogOut, Web!Request, CallKinds
<1> DEFINE c == Web!Sent(t, kind, FALSE)
<1>3. c \in CallOrNone /\ c.kind = kind
  BY SentShape
<1> HIDE DEF c
<1>4. /\ calls' \in [Tabs -> [Web!Slots -> CallOrNone]]
      /\ \A u \in Tabs : \A r \in Web!Slots :
            calls'[u][r] = IF u = t /\ r = s THEN c ELSE calls[u][r]
  <2>1. calls' = [calls EXCEPT ![t][s] = c]
    BY <1>2 DEF c
  <2> QED
    BY <1>3, <2>1, CallsAre
<1>5. \A u \in Tabs : calls'[u]["refresh"] = calls[u]["refresh"]
  BY <1>2, <1>4
<1>6. WebRest' /\ WaitsForOne'
  BY <1>1, <1>5, WebTypesAre DEF WebRest, WaitsForOne, Web!Serials
<1>7. CallsInPlace'
  <2> SUFFICES ASSUME NEW u \in Tabs, NEW r \in Web!Slots PROVE InPlace(u, r)'
    BY DEF CallsInPlace
  <2>1. CASE u = t /\ r = s
    <3>1. calls'[u][r] = c
      BY <1>4, <2>1
    <3> QED
      BY <1>1, <1>2, <1>3, <2>1, <3>1 DEF InPlace
  <2>2. CASE ~(u = t /\ r = s)
    <3>1. calls'[u][r] = calls[u][r] /\ InPlace(u, r)
      BY <1>4, <2>2, WebTypesAre DEF CallsInPlace
    <3>2. status'[u] = status[u] /\ (ended => ended')
      BY <1>1
    <3> QED
      BY <3>1, <3>2 DEF InPlace
  <2> QED
    BY <2>1, <2>2
<1>8. KeptInAll => KeptInAll'
  <2>1. CASE s \in Requests
    <3>1. \A u \in Tabs : calls'[u]["session"] = calls[u]["session"]
      BY <1>4, <2>1
    <3> QED
      BY <1>1, <1>5, <3>1 DEF KeptInAll, Kept
  <2>2. CASE status[t] = "anonymous"
    BY <1>1, <2>2 DEF KeptInAll, Kept
  <2> QED
    BY <1>2, <2>1, <2>2 DEF KeptInAll
<1> QED
  BY <1>4, <1>6, <1>7, <1>8, WebTypesWillBe

\* The calls stay in their places if the one that changes does.
LEMMA PlacesKept ==
    ASSUME WebTypes, NEW t \in Tabs, NEW s \in Web!Slots,
           \A u \in Tabs : \A r \in Web!Slots : u # t \/ r # s => calls'[u][r] = calls[u][r],
           ended => ended', InPlace(t, s)'
    PROVE  CallsInPlace'
<1> SUFFICES ASSUME NEW u \in Tabs, NEW r \in Web!Slots, u # t \/ r # s PROVE InPlace(u, r)'
  BY DEF CallsInPlace
<1>1. calls'[u][r] = calls[u][r] /\ InPlace(u, r)
  BY WebTypesAre DEF CallsInPlace
<1> QED
  BY <1>1 DEF InPlace

LEMMA AnswerKeeps ==
    ASSUME Web!WebAssumption, WebTypes, NEW t \in Tabs, NEW s \in Web!Slots, Web!Answer(t, s)
    PROVE  WebTypes' /\ (OneTab /\ KeptInAll => KeptInAll')
<1> USE SlotsApart
<1> DEFINE call == calls[t][s]
<1>1. /\ call.stage = "sent" /\ call \in CallOrNone
      /\ UNCHANGED <<cookie, token, status, reported, waiting, ended, signedOut>>
      /\ InPlace(t, s) /\ issued \in 0..MaxTokens /\ MaxTokens \in Nat /\ live \subseteq Web!Serials
  BY WebTypesAre DEF Web!Answer, WebRest, CallsInPlace, Web!WebAssumption
<1>2. call # Web!NoCall /\ call.cookie \in Web!Serials \cup {Web!NoCookie}
  BY <1>1, CallShape
<1>3. ASSUME NEW old, Web!GiveToken(old)
      PROVE  /\ issued' \in Web!Serials /\ issued' \in 0..MaxTokens
             /\ live' \subseteq Web!Serials /\ issued' \in live'
  <2>1. issued < MaxTokens /\ issued' = issued + 1 /\ live' = (live \ {old}) \cup {issued'}
    BY <1>3 DEF Web!GiveToken
  <2>2. issued' \in 1..MaxTokens /\ issued' \in 0..MaxTokens
    BY <1>1, <2>1
  <2> QED
    BY <1>1, <2>1, <2>2 DEF Web!Serials
<1>4. PICK ok \in BOOLEAN, new \in Web!Serials \cup {Web!NoCookie} :
        /\ calls' = [calls EXCEPT ![t][s] = Web!Answered(call, ok, new)]
        /\ live' \subseteq Web!Serials /\ issued' \in 0..MaxTokens
        /\ \/ call.kind = "refresh" /\ (call.cookie \in live => ok /\ new \in live')
           \/ call.kind \in {"login", "logout"}
           \/ call.kind = "request" /\ live' = live
  <2>1. CASE call.kind = "refresh" /\ call.cookie \in live /\ Web!GiveToken(call.cookie)
             /\ Web!AnswerWith(t, s, TRUE, issued')
    BY <1>3, <2>1 DEF Web!AnswerWith
  <2>2. CASE call.kind = "refresh" /\ call.cookie \notin live
             /\ Web!AnswerWith(t, s, FALSE, Web!NoCookie) /\ UNCHANGED <<live, issued>>
    BY <1>1, <2>2 DEF Web!AnswerWith
  <2>3. CASE call.kind = "login" /\ Web!GiveToken(Web!NoCookie)
             /\ Web!AnswerWith(t, s, TRUE, issued')
    BY <1>3, <2>3 DEF Web!AnswerWith
  <2>4. CASE call.kind = "logout" /\ live' = live \ {call.cookie}
             /\ Web!AnswerWith(t, s, TRUE, Web!NoCookie) /\ UNCHANGED issued
    BY <1>1, <2>4 DEF Web!AnswerWith
  <2>5. CASE call.kind = "request" /\ Web!AnswerWith(t, s, call.token = "good", call.cookie)
             /\ UNCHANGED <<live, issued>>
    BY <1>1, <1>2, <2>5 DEF Web!AnswerWith
  <2> QED
    BY <2>1, <2>2, <2>3, <2>4, <2>5 DEF Web!Answer
<1> DEFINE c == Web!Answered(call, ok, new)
<1>5. /\ c \in CallOrNone /\ c # Web!NoCall /\ c.stage = "answered" /\ c.kind = call.kind
      /\ c.ok = ok /\ c.cookie = new
  BY <1>1, AnsweredShape
<1> HIDE DEF c
<1>6. /\ calls' \in [Tabs -> [Web!Slots -> CallOrNone]]
      /\ \A u \in Tabs : \A r \in Web!Slots :
            calls'[u][r] = IF u = t /\ r = s THEN c ELSE calls[u][r]
  BY <1>4, <1>5, CallsAre DEF c
<1>7. calls'[t][s] = c
  BY <1>6
<1>8. WebRest'
  BY <1>1, <1>4, WebTypesAre DEF WebRest, Web!Serials
<1>9. WaitsForOne'
  BY <1>1, <1>5, <1>6, WebTypesAre DEF WaitsForOne
<1>10. InPlace(t, s)'
  <2>1. status'[t] = status[t] /\ ended' = ended
    BY <1>1
  <2> QED
    BY <1>1, <1>2, <1>5, <1>7, <2>1 DEF InPlace
<1>11. CallsInPlace'
  BY <1>1, <1>6, <1>10, PlacesKept
<1>12. ASSUME OneTab, KeptInAll, ~ended', NEW u \in Tabs PROVE Kept(u)'
  <2>1. u = t /\ Kept(t) /\ ~ended
    BY <1>1, <1>12 DEF OneTab, KeptInAll
  <2>2. CASE s = "refresh"
    <3>1. call.kind = "refresh" /\ call.cookie \in live
      BY <1>1, <1>2, <2>1, <2>2 DEF Kept, InPlace
    <3>2. ok /\ new \in live' /\ calls'[t]["session"] = calls[t]["session"]
      BY <1>4, <1>6, <2>2, <3>1
    <3> QED
      BY <1>1, <1>5, <1>7, <2>1, <2>2, <3>2 DEF Kept
  <2>3. CASE s \in Requests
    <3>1. call.kind = "request"
      BY <1>1, <1>2, <2>3 DEF InPlace
    <3>2. /\ live' = live /\ calls'[t]["refresh"] = calls[t]["refresh"]
          /\ calls'[t]["session"] = calls[t]["session"]
      BY <1>4, <1>6, <2>3, <3>1
    <3> QED
      BY <1>1, <2>1, <3>2 DEF Kept
  <2>4. CASE s = "session"
    BY <1>1, <1>2, <2>1, <2>4 DEF InPlace, Kept
  <2> QED
    BY <2>2, <2>3, <2>4
<1> QED
  BY <1>6, <1>8, <1>9, <1>11, <1>12, WebTypesWillBe DEF KeptInAll

\* The page is loaded again.
LEMMA ReloadKeeps ==
    ASSUME Web!WebAssumption, WebTypes, NEW t \in Tabs, Web!Reload(t)
    PROVE  WebTypes' /\ (OneTab /\ KeptInAll => KeptInAll')
<1> USE SlotsApart
<1> DEFINE c == Web!Sent(t, "refresh", FALSE)
           of == [s \in Web!Slots |-> IF s = "refresh" THEN c ELSE Web!NoCall]
<1>1. /\ ended' = (ended \/ \E s \in Web!Slots : calls[t][s] # Web!NoCall)
      /\ token' = [token EXCEPT ![t] = "none"] /\ status' = [status EXCEPT ![t] = "loading"]
      /\ reported' = [reported EXCEPT ![t] = FALSE] /\ waiting' = [waiting EXCEPT ![t] = {}]
      /\ calls' = [calls EXCEPT ![t] = of]
      /\ UNCHANGED <<live, issued, cookie, signedOut>>
  BY DEF Web!Reload
<1>2. /\ c \in CallOrNone /\ c # Web!NoCall /\ c.kind = "refresh" /\ c.stage = "sent"
      /\ c.cookie = cookie
  BY SentShape DEF CallKinds
<1> HIDE DEF c
<1>3. of \in [Web!Slots -> CallOrNone]
  BY <1>2
<1>4. /\ calls' \in [Tabs -> [Web!Slots -> CallOrNone]]
      /\ \A u \in Tabs : calls'[u] = IF u = t THEN of ELSE calls[u]
  <2> HIDE DEF of
  <2> QED
    BY <1>1, <1>3, OneTabsCalls
<1>5. WebRest /\ WaitsForOne /\ CallsInPlace
  BY WebTypesAre
<1>6. WebRest'
  <2>1. ended' \in BOOLEAN
    BY <1>1
  <2> QED
    BY <1>1, <1>5, <2>1 DEF WebRest, Web!Serials
<1>7. WaitsForOne'
  <2> SUFFICES ASSUME NEW u \in Tabs, waiting'[u] # {} \/ status'[u] = "loading"
               PROVE  calls'[u]["refresh"] # Web!NoCall
    BY DEF WaitsForOne
  <2>1. CASE u = t
    BY <1>2, <1>4, <2>1
  <2>2. CASE u # t
    BY <1>1, <1>4, <1>5, <2>2 DEF WaitsForOne
  <2> QED
    BY <2>1, <2>2
<1>8. CallsInPlace'
  <2> SUFFICES ASSUME NEW u \in Tabs, NEW r \in Web!Slots PROVE InPlace(u, r)'
    BY DEF CallsInPlace
  <2>1. CASE u = t
    BY <1>2, <1>4, <2>1 DEF InPlace
  <2>2. CASE u # t
    <3>1. calls'[u] = calls[u] /\ status'[u] = status[u] /\ (ended => ended') /\ InPlace(u, r)
      BY <1>1, <1>4, <1>5, <2>2 DEF CallsInPlace, WebRest
    <3> QED
      BY <3>1 DEF InPlace
  <2> QED
    BY <2>1, <2>2
<1>9. ASSUME OneTab, KeptInAll, ~ended', NEW u \in Tabs PROVE Kept(u)'
  <2>1. u = t /\ ~ended /\ calls[t]["refresh"] = Web!NoCall /\ Kept(t)
    BY <1>1, <1>9 DEF OneTab, KeptInAll
  <2>2. cookie \in live
    BY <2>1 DEF Kept
  <2>3. calls'[t]["refresh"] = c /\ status'[t] = "loading"
    BY <1>1, <1>4, <1>5 DEF WebRest
  <2> QED
    BY <1>1, <1>2, <2>1, <2>2, <2>3 DEF Kept
<1> QED
  BY <1>4, <1>6, <1>7, <1>8, <1>9, WebTypesWillBe DEF KeptInAll

\* What was refreshed: the session goes on, with the requests that waited repeated.
LEMMA RefreshedKeeps ==
    ASSUME Web!WebAssumption, WebTypes, NEW t \in Tabs, Web!Refreshed(t)
    PROVE  WebTypes' /\ (OneTab /\ KeptInAll => KeptInAll')
<1> USE SlotsApart
<1> DEFINE call == calls[t]["refresh"]
           again == Web!Sent(t, "request", TRUE)
           c == [again EXCEPT !.token = "good"]
           of == Web!Repeated(t)
<1>1. /\ call.stage = "answered" /\ call.kind = "refresh" /\ call.ok /\ cookie' = call.cookie
      /\ token' = [token EXCEPT ![t] = "good"] /\ reported' = [reported EXCEPT ![t] = FALSE]
      /\ status' = [status EXCEPT ![t] = IF @ = "loading" THEN "authenticated" ELSE @]
      /\ calls' = [calls EXCEPT ![t] = of] /\ waiting' = [waiting EXCEPT ![t] = {}]
      /\ UNCHANGED <<live, issued, ended, signedOut>>
  BY DEF Web!Refreshed, Web!Arrived, Web!BeginSession
<1>2. /\ WebRest /\ WaitsForOne /\ CallsInPlace
      /\ calls \in [Tabs -> [Web!Slots -> CallOrNone]]
  BY WebTypesAre
<1>3. c \in CallOrNone /\ c.kind = "request"
  BY SentShape DEF CallKinds
<1>4. of = [s \in Web!Slots |-> CASE s = "refresh" -> Web!NoCall [] s \in waiting[t] -> c
                                  [] OTHER -> calls[t][s]]
  BY DEF Web!Repeated
<1>5. waiting[t] \subseteq Requests /\ calls[t] \in [Web!Slots -> CallOrNone]
  BY <1>2 DEF WebRest
<1> HIDE DEF c, of
<1>6. /\ of \in [Web!Slots -> CallOrNone] /\ of["refresh"] = Web!NoCall
      /\ of["session"] = calls[t]["session"]
      /\ \A r \in Requests : of[r] \in {c, calls[t][r]}
  BY <1>3, <1>4, <1>5
<1>7. /\ calls' \in [Tabs -> [Web!Slots -> CallOrNone]]
      /\ \A u \in Tabs : calls'[u] = IF u = t THEN of ELSE calls[u]
  BY <1>1, <1>6, OneTabsCalls
<1>8. WebRest'
  <2>1. cookie' \in Web!Serials \cup {Web!NoCookie}
    BY <1>1, <1>5, CallShape
  <2> QED
    BY <1>1, <1>2, <2>1 DEF WebRest, Web!Serials, Web!NoCookie
<1>9. WaitsForOne'
  <2> SUFFICES ASSUME NEW u \in Tabs, waiting'[u] # {} \/ status'[u] = "loading"
               PROVE  calls'[u]["refresh"] # Web!NoCall
    BY DEF WaitsForOne
  <2>1. u # t
    BY <1>1, <1>2 DEF WebRest
  <2> QED
    BY <1>1, <1>2, <1>7, <2>1 DEF WaitsForOne
<1>10. CallsInPlace'
  <2> SUFFICES ASSUME NEW u \in Tabs, NEW r \in Web!Slots PROVE InPlace(u, r)'
    BY DEF CallsInPlace
  <2>1. InPlace(u, r) /\ (ended => ended')
    BY <1>1, <1>2 DEF CallsInPlace
  <2>2. \/ calls'[u][r] = calls[u][r] \/ calls'[u][r] = Web!NoCall
        \/ r \in Requests /\ calls'[u][r] = c
    BY <1>6, <1>7
  <2> QED
    BY <1>3, <2>1, <2>2 DEF InPlace
<1>11. ASSUME OneTab, KeptInAll, ~ended', NEW u \in Tabs PROVE Kept(u)'
  <2>1. u = t /\ Kept(t)
    BY <1>1, <1>11 DEF OneTab, KeptInAll
  <2>2. /\ cookie' \in live' /\ calls'[u]["refresh"] = Web!NoCall /\ status'[u] # "anonymous"
        /\ calls'[u]["session"] = Web!NoCall
    BY <1>1, <1>2, <1>6, <1>7, <2>1 DEF Kept, WebRest
  <2> QED
    BY <2>2 DEF Kept
<1> QED
  BY <1>7, <1>8, <1>9, <1>10, <1>11, WebTypesWillBe DEF KeptInAll

\* A refresh refused or lost: those who waited for it are told, once.
LEMMA NotRefreshedKeeps ==
    ASSUME Web!WebAssumption, WebTypes, NEW t \in Tabs, Web!NotRefreshed(t),
           cookie' \in {cookie, Web!NoCookie}, UNCHANGED <<live, issued, signedOut>>,
           ended' \in BOOLEAN, ended => ended'
    PROVE  WebTypes'
<1> USE SlotsApart
<1>1. /\ token' = [token EXCEPT ![t] = "none"] /\ waiting' = [waiting EXCEPT ![t] = {}]
      /\ reported' = [reported EXCEPT ![t] = @ \/ waiting[t] # {}]
      /\ status' = [status EXCEPT ![t] =
                      IF @ = "loading" \/ (waiting[t] # {} /\ ~reported[t]) THEN "anonymous" ELSE @]
      /\ calls' = [calls EXCEPT ![t]["refresh"] = Web!NoCall]
  BY DEF Web!NotRefreshed, Web!Expire, Web!Cleared
<1>2. WebRest /\ WaitsForOne /\ CallsInPlace
  BY WebTypesAre
<1>3. /\ calls' \in [Tabs -> [Web!Slots -> CallOrNone]]
      /\ \A u \in Tabs : \A r \in Web!Slots :
            calls'[u][r] = IF u = t /\ r = "refresh" THEN Web!NoCall ELSE calls[u][r]
  BY <1>1, CallsAre
<1>4. \A u \in Tabs : /\ status[u] = "anonymous" => status'[u] = "anonymous"
                      /\ u # t => status'[u] = status[u] /\ waiting'[u] = waiting[u]
      /\ waiting'[t] = {} /\ status'[t] # "loading"
  BY <1>1, <1>2 DEF WebRest
<1>5. WebRest'
  <2>1. status' \in [Tabs -> {"loading", "anonymous", "authenticated"}]
    BY <1>1, <1>2 DEF WebRest
  <2>2. reported' \in [Tabs -> BOOLEAN]
    BY <1>1, <1>2 DEF WebRest
  <2>3. token' \in [Tabs -> {"none", "good", "old"}] /\ waiting' \in [Tabs -> SUBSET Requests]
    BY <1>1, <1>2 DEF WebRest
  <2> QED
    BY <1>2, <2>1, <2>2, <2>3 DEF WebRest, Web!Serials, Web!NoCookie
<1>6. WaitsForOne'
  BY <1>2, <1>3, <1>4 DEF WaitsForOne
<1>7. InPlace(t, "refresh")'
  BY <1>3 DEF InPlace
<1>8. CallsInPlace'
  BY <1>3, <1>4, <1>7, PlacesKept
<1> QED
  BY <1>3, <1>5, <1>6, <1>8, WebTypesWillBe

LEMMA RefusedRefreshKeeps ==
    ASSUME Web!WebAssumption, WebTypes, NEW t \in Tabs, Web!RefreshRefused(t)
    PROVE  WebTypes' /\ (KeptInAll => KeptInAll')
<1>1. /\ calls[t]["refresh"].stage = "answered" /\ ~calls[t]["refresh"].ok
      /\ Web!NotRefreshed(t) /\ cookie' = Web!NoCookie
      /\ UNCHANGED <<live, issued, ended, signedOut>>
  BY DEF Web!RefreshRefused, Web!Arrived
<1>2. ended' \in BOOLEAN /\ (ended => ended')
  BY <1>1, WebTypesAre DEF WebRest
<1>3. WebTypes'
  BY <1>1, <1>2, NotRefreshedKeeps
<1>4. KeptInAll => ended
  BY <1>1 DEF KeptInAll, Kept
<1> QED
  BY <1>1, <1>3, <1>4 DEF KeptInAll

\* A request that is over, whether answered or lost, or a login that is.
LEMMA OverKeeps ==
    ASSUME Web!WebAssumption, WebTypes, NEW t \in Tabs, NEW s \in Web!Slots, s # "refresh",
           calls' = [calls EXCEPT ![t][s] = Web!NoCall],
           token' \in [Tabs -> {"none", "good", "old"}], reported' \in [Tabs -> BOOLEAN],
           status' \in {status, [status EXCEPT ![t] = "authenticated"]},
           UNCHANGED <<live, issued, cookie, waiting, ended, signedOut>>
    PROVE  WebTypes' /\ (KeptInAll => KeptInAll')
<1> USE SlotsApart
<1>1. /\ calls' \in [Tabs -> [Web!Slots -> CallOrNone]]
      /\ \A u \in Tabs : \A r \in Web!Slots :
            calls'[u][r] = IF u = t /\ r = s THEN Web!NoCall ELSE calls[u][r]
  BY CallsAre
<1>2. \A u \in Tabs : /\ calls'[u]["refresh"] = calls[u]["refresh"]
                      /\ calls'[u]["session"] \in {calls[u]["session"], Web!NoCall}
                      /\ status'[u] \in {status[u], "authenticated"}
  BY <1>1, WebTypesAre DEF WebRest
<1>3. WebRest' /\ WaitsForOne'
  <2>1. status' \in [Tabs -> {"loading", "anonymous", "authenticated"}]
    BY WebTypesAre DEF WebRest
  <2> QED
    BY <1>2, <2>1, WebTypesAre DEF WebRest, WaitsForOne, Web!Serials
<1>4. InPlace(t, s)'
  BY <1>1 DEF InPlace
<1>5. CallsInPlace'
  BY <1>1, <1>4, PlacesKept
<1>6. KeptInAll => KeptInAll'
  BY <1>2 DEF KeptInAll, Kept
<1> QED
  BY <1>1, <1>3, <1>5, <1>6, WebTypesWillBe

\* A request refused waits for the refresh in flight, or for one that leaves with the cookie.
LEMMA RefusedKeeps ==
    ASSUME Web!WebAssumption, WebTypes, NEW t \in Tabs, NEW r \in Requests, Web!Refused(t, r)
    PROVE  WebTypes' /\ (KeptInAll => KeptInAll')
<1> USE SlotsApart
<1> DEFINE old == calls[t]["refresh"]
           c == IF old = Web!NoCall THEN Web!Sent(t, "refresh", FALSE) ELSE old
           of == Web!JoinRefresh(t, r)
<1>1. /\ calls' = [calls EXCEPT ![t] = of] /\ waiting' = [waiting EXCEPT ![t] = @ \cup {r}]
      /\ UNCHANGED <<live, issued, cookie, token, status, reported, ended, signedOut>>
  BY DEF Web!Refused
<1>2. /\ WebRest /\ WaitsForOne /\ CallsInPlace /\ calls[t] \in [Web!Slots -> CallOrNone]
      /\ InPlace(t, "refresh")
  BY WebTypesAre DEF CallsInPlace
<1>3. /\ c \in CallOrNone /\ c # Web!NoCall /\ c.kind = "refresh"
      /\ c = old \/ (old = Web!NoCall /\ c.stage = "sent" /\ c.cookie = cookie)
  BY <1>2, SentShape, ZenonT(60) DEF CallKinds, InPlace
<1>4. of = [calls[t] EXCEPT ![r] = Web!NoCall, !["refresh"] = c]
  BY <1>2 DEF Web!JoinRefresh
<1> HIDE DEF c, of
<1>5. /\ of \in [Web!Slots -> CallOrNone]
      /\ \A s \in Web!Slots : of[s] = IF s = "refresh" THEN c ELSE
                                      IF s = r THEN Web!NoCall ELSE calls[t][s]
  BY <1>2, <1>3, <1>4
<1>6. /\ calls' \in [Tabs -> [Web!Slots -> CallOrNone]]
      /\ \A u \in Tabs : calls'[u] = IF u = t THEN of ELSE calls[u]
  BY <1>1, <1>5, OneTabsCalls
<1>7. WebRest'
  BY <1>1, <1>2 DEF WebRest, Web!Serials
<1>8. WaitsForOne'
  <2> SUFFICES ASSUME NEW u \in Tabs, waiting'[u] # {} \/ status'[u] = "loading"
               PROVE  calls'[u]["refresh"] # Web!NoCall
    BY DEF WaitsForOne
  <2>1. CASE u = t
    BY <1>3, <1>5, <1>6, <2>1
  <2>2. CASE u # t
    BY <1>1, <1>2, <1>6, <2>2 DEF WaitsForOne, WebRest
  <2> QED
    BY <2>1, <2>2
<1>9. CallsInPlace'
  <2> SUFFICES ASSUME NEW u \in Tabs, NEW s \in Web!Slots PROVE InPlace(u, s)'
    BY DEF CallsInPlace
  <2>1. InPlace(u, s) /\ ended' = ended /\ status' = status
    BY <1>1, <1>2 DEF CallsInPlace
  <2>2. \/ calls'[u][s] = calls[u][s] \/ calls'[u][s] = Web!NoCall
        \/ s = "refresh" /\ calls'[u][s] = c
    BY <1>5, <1>6
  <2> QED
    BY <1>3, <2>1, <2>2 DEF InPlace
<1>10. ASSUME KeptInAll, ~ended', NEW u \in Tabs PROVE Kept(u)'
  <2>1. Kept(u) /\ UNCHANGED <<live, cookie, status>>
    BY <1>1, <1>10 DEF KeptInAll
  <2>2. calls'[u]["session"] = calls[u]["session"]
    BY <1>5, <1>6
  <2>3. CASE u # t \/ c = old
    <3>1. calls'[u]["refresh"] = calls[u]["refresh"]
      BY <1>5, <1>6, <2>3
    <3> QED
      BY <2>1, <2>2, <3>1 DEF Kept
  <2>4. CASE u = t /\ c # old
    <3>1. calls'[u]["refresh"] = c /\ cookie \in live
      BY <1>3, <1>5, <1>6, <2>1, <2>4 DEF Kept
    <3> QED
      BY <1>3, <2>1, <2>2, <2>4, <3>1 DEF Kept
  <2> QED
    BY <2>3, <2>4
<1> QED
  BY <1>6, <1>7, <1>8, <1>9, <1>10, WebTypesWillBe DEF KeptInAll

\* A login that ends starts the session anew.
LEMMA LoggedInKeeps ==
    ASSUME Web!WebAssumption, WebTypes, NEW t \in Tabs, Web!LoggedIn(t)
    PROVE  WebTypes' /\ (OneTab => KeptInAll')
<1> USE SlotsApart
<1> DEFINE call == calls[t]["session"]
<1>1. /\ call.stage = "answered" /\ call.kind = "login" /\ cookie' = call.cookie
      /\ token' = [token EXCEPT ![t] = "good"] /\ reported' = [reported EXCEPT ![t] = FALSE]
      /\ status' = [status EXCEPT ![t] = "authenticated"]
      /\ calls' = [calls EXCEPT ![t]["session"] = Web!NoCall]
      /\ ended' = (cookie' \notin live \/ Web!Unfinished)
      /\ UNCHANGED <<live, issued, waiting, signedOut>>
  BY DEF Web!LoggedIn, Web!Arrived, Web!BeginSession, Web!Cleared
<1>2. /\ WebRest /\ WaitsForOne /\ CallsInPlace
      /\ calls \in [Tabs -> [Web!Slots -> CallOrNone]]
  BY WebTypesAre
<1>3. /\ calls' \in [Tabs -> [Web!Slots -> CallOrNone]]
      /\ \A u \in Tabs : \A r \in Web!Slots :
            calls'[u][r] = IF u = t /\ r = "session" THEN Web!NoCall ELSE calls[u][r]
  BY <1>1, CallsAre
<1>4. WebRest'
  <2>1. cookie' \in Web!Serials \cup {Web!NoCookie}
    BY <1>1, <1>2, CallShape
  <2>2. ended' \in BOOLEAN
    BY <1>1 DEF Web!Unfinished
  <2> QED
    BY <1>1, <1>2, <2>1, <2>2 DEF WebRest, Web!Serials, Web!NoCookie
<1>5. WaitsForOne'
  BY <1>1, <1>2, <1>3 DEF WaitsForOne, WebRest
<1>6. CallsInPlace'
  <2> SUFFICES ASSUME NEW u \in Tabs, NEW s \in Web!Slots, calls'[u][s] # Web!NoCall
               PROVE  InPlace(u, s)'
    BY DEF CallsInPlace, InPlace
  <2>1. calls'[u][s] = calls[u][s] /\ InPlace(u, s) /\ (u # t \/ s # "session")
    BY <1>2, <1>3 DEF CallsInPlace
  <2>2. CASE s = "session" /\ calls[u][s].kind = "logout"
    <3>1. Web!Unfinished
      BY <2>1, <2>2 DEF Web!Unfinished
    <3> QED
      BY <1>1, <2>1, <2>2, <3>1 DEF InPlace
  <2>3. CASE s = "session" /\ calls[u][s].kind = "login"
    BY <2>1, <2>3 DEF InPlace
  <2>4. CASE s # "session"
    BY <2>1, <2>4 DEF InPlace
  <2> QED
    BY <2>1, <2>2, <2>3, <2>4 DEF InPlace
<1>7. ASSUME OneTab, ~ended', NEW u \in Tabs PROVE Kept(u)'
  <2>1. u = t /\ cookie' \in live' /\ ~Web!Unfinished
    BY <1>1, <1>7 DEF OneTab
  <2>2. calls'[t]["refresh"] = Web!NoCall
    <3>1. InPlace(t, "refresh")
      BY <1>2 DEF CallsInPlace
    <3> QED
      BY <1>3, <2>1, <3>1 DEF Web!Unfinished, InPlace
  <2>3. status'[t] = "authenticated" /\ calls'[t]["session"] = Web!NoCall
    BY <1>1, <1>2, <1>3 DEF WebRest
  <2> QED
    BY <2>1, <2>2, <2>3 DEF Kept
<1> QED
  BY <1>3, <1>4, <1>5, <1>6, <1>7, WebTypesWillBe DEF KeptInAll

\* A logout that ends, answered or not, leaves the tab without a session.
LEMMA LeftKeeps ==
    ASSUME Web!WebAssumption, WebTypes, NEW t \in Tabs, Web!Left(t),
           calls[t]["session"] # Web!NoCall, calls[t]["session"].kind = "logout",
           cookie' \in {cookie, Web!NoCookie}, signedOut' \in [Tabs -> BOOLEAN]
    PROVE  WebTypes' /\ KeptInAll'
<1> USE SlotsApart
<1>1. /\ token' = [token EXCEPT ![t] = "none"] /\ status' = [status EXCEPT ![t] = "anonymous"]
      /\ calls' = [calls EXCEPT ![t]["session"] = Web!NoCall]
      /\ UNCHANGED <<live, issued, reported, waiting, ended>>
  BY DEF Web!Left, Web!Cleared
<1>2. WebRest /\ WaitsForOne /\ InPlace(t, "session")
  BY WebTypesAre DEF CallsInPlace
<1>3. /\ calls' \in [Tabs -> [Web!Slots -> CallOrNone]]
      /\ \A u \in Tabs : \A r \in Web!Slots :
            calls'[u][r] = IF u = t /\ r = "session" THEN Web!NoCall ELSE calls[u][r]
  BY <1>1, CallsAre
<1>4. WebRest'
  BY <1>1, <1>2 DEF WebRest, Web!Serials, Web!NoCookie
<1>5. WaitsForOne'
  BY <1>1, <1>2, <1>3 DEF WaitsForOne, WebRest
<1>6. InPlace(t, "session")'
  BY <1>3 DEF InPlace
<1>7. CallsInPlace'
  BY <1>1, <1>3, <1>6, PlacesKept
<1>8. KeptInAll'
  BY <1>1, <1>2 DEF InPlace, KeptInAll
<1> QED
  BY <1>3, <1>4, <1>5, <1>7, <1>8, WebTypesWillBe

LEMMA LostKeeps ==
    ASSUME Web!WebAssumption, WebTypes, NEW t \in Tabs, NEW s \in Web!Slots, Web!Lose(t, s)
    PROVE  WebTypes' /\ (KeptInAll => KeptInAll')
<1> USE SlotsApart
<1>1. InPlace(t, s) /\ calls[t][s] # Web!NoCall /\ WebRest
  BY WebTypesAre DEF CallsInPlace, Web!Lose
<1>2. CASE s = "refresh" /\ Web!NotRefreshed(t) /\ ended' = TRUE
           /\ UNCHANGED <<live, issued, cookie, signedOut>>
  BY <1>2, NotRefreshedKeeps DEF KeptInAll
<1>3. CASE calls[t][s].kind = "logout" /\ Web!Left(t) /\ UNCHANGED <<cookie, signedOut>>
  <2>1. s = "session"
    BY <1>1, <1>3 DEF InPlace
  <2> QED
    BY <1>1, <1>3, <2>1, LeftKeeps DEF WebRest
<1>4. CASE calls[t][s].kind \in {"login", "request"} /\ Web!Cleared(t, s)
           /\ UNCHANGED <<live, issued, cookie, token, status, reported, waiting, ended, signedOut>>
  <2>1. s # "refresh"
    BY <1>1, <1>4 DEF InPlace
  <2> QED
    BY <1>1, <1>4, <2>1, OverKeeps DEF Web!Cleared, WebRest
<1> QED
  BY <1>2, <1>3, <1>4 DEF Web!Lose

LEMMA BackKeeps ==
    ASSUME Web!WebAssumption, WebTypes, NEW t \in Tabs, NEW s \in Web!Slots, Web!Back(t, s)
    PROVE  WebTypes' /\ (OneTab /\ KeptInAll => KeptInAll')
<1> USE SlotsApart
<1>1. CASE Web!Refreshed(t)
  BY <1>1, RefreshedKeeps
<1>2. CASE Web!RefreshRefused(t)
  BY <1>2, RefusedRefreshKeeps
<1>3. CASE Web!LoggedIn(t)
  BY <1>3, LoggedInKeeps
<1>4. CASE Web!LoggedOut(t)
  <2>1. /\ calls[t]["session"].stage = "answered" /\ calls[t]["session"].kind = "logout"
        /\ cookie' = Web!NoCookie /\ signedOut' = [signedOut EXCEPT ![t] = TRUE] /\ Web!Left(t)
    BY <1>4 DEF Web!LoggedOut, Web!Arrived
  <2>2. calls[t]["session"] # Web!NoCall /\ signedOut' \in [Tabs -> BOOLEAN]
    BY <2>1, WebTypesAre DEF WebRest
  <2> QED
    BY <2>1, <2>2, LeftKeeps
<1>5. CASE s \in Requests /\ Web!Settled(t, s)
  <2>1. /\ calls' = [calls EXCEPT ![t][s] = Web!NoCall] /\ s # "refresh"
        /\ status' \in {status, [status EXCEPT ![t] = "authenticated"]}
        /\ UNCHANGED <<live, issued, cookie, waiting, ended, signedOut>>
    BY <1>5 DEF Web!Settled, Web!Cleared
  <2>2. token' \in [Tabs -> {"none", "good", "old"}] /\ reported' \in [Tabs -> BOOLEAN]
    <3>1. token \in [Tabs -> {"none", "good", "old"}] /\ reported \in [Tabs -> BOOLEAN]
      BY WebTypesAre DEF WebRest
    <3>2. Web!BeginSession(t) \/ UNCHANGED <<token, reported>>
      BY <1>5 DEF Web!Settled
    <3> QED
      BY <3>1, <3>2 DEF Web!BeginSession
  <2> QED
    BY <2>1, <2>2, OverKeeps
<1>6. CASE s \in Requests /\ Web!Refused(t, s)
  BY <1>6, RefusedKeeps
<1> QED
  BY <1>1, <1>2, <1>3, <1>4, <1>5, <1>6 DEF Web!Back

LEMMA WebStep ==
    ASSUME Web!WebAssumption, WebTypes, [Web!Next]_(Web!vars)
    PROVE  WebTypes' /\ (OneTab /\ KeptInAll => KeptInAll')
<1>1. CASE Web!EndSession
  BY <1>1, EndedOrExpired
<1>2. ASSUME NEW t \in Tabs, Web!AccessExpires(t)
      PROVE  WebTypes' /\ (OneTab /\ KeptInAll => KeptInAll')
  BY <1>2, EndedOrExpired
<1>3. ASSUME NEW t \in Tabs, Web!LogIn(t) \/ Web!LogOut(t) \/ \E r \in Requests : Web!Request(t, r)
      PROVE  WebTypes' /\ (OneTab /\ KeptInAll => KeptInAll')
  BY <1>3, Leaves
<1>4. ASSUME NEW t \in Tabs, Web!Reload(t)
      PROVE  WebTypes' /\ (OneTab /\ KeptInAll => KeptInAll')
  BY <1>4, ReloadKeeps
<1>5. ASSUME NEW t \in Tabs, NEW s \in Web!Slots,
             Web!Answer(t, s) \/ Web!Back(t, s) \/ Web!Lose(t, s)
      PROVE  WebTypes' /\ (OneTab /\ KeptInAll => KeptInAll')
  BY <1>5, AnswerKeeps, BackKeeps, LostKeeps
<1>6. CASE UNCHANGED Web!vars
  BY <1>6, WebTypesAre, WebTypesWillBe
     DEF Web!vars, WebRest, WaitsForOne, CallsInPlace, InPlace, KeptInAll, Kept,
         Web!Serials, Web!NoCookie
<1> QED
  BY <1>1, <1>2, <1>3, <1>4, <1>5, <1>6 DEF Web!Next

\* A step that tells a tab its session has expired is one after which it has.
LEMMA SentBackWhenEnded ==
    ASSUME Web!WebAssumption, WebTypes, KeptInAll, [Web!Next]_(Web!vars)
    PROVE  Web!KeptWhileValid
<1> SUFFICES ASSUME NEW t \in Tabs, ~reported[t], reported'[t] PROVE ended'
  BY DEF Web!KeptWhileValid, Web!SentBack
<1>1. reported \in [Tabs -> BOOLEAN]
  BY WebTypesAre DEF WebRest
<1>2. reported' # reported
  OBVIOUS
<1>3. ASSUME NEW u \in Tabs, reported' = [reported EXCEPT ![u] = FALSE] PROVE FALSE
  BY <1>1, <1>3
<1>4. PICK u \in Tabs, s \in Web!Slots : Web!Back(u, s) \/ Web!Lose(u, s)
  BY <1>2, <1>3 DEF Web!Next, Web!vars, Web!EndSession, Web!AccessExpires, Web!LogIn, Web!LogOut,
                    Web!Reload, Web!Request, Web!Answer
<1>5. CASE Web!RefreshRefused(u)
  <2>1. calls[u]["refresh"].stage = "answered" /\ ~calls[u]["refresh"].ok /\ ended' = ended
    BY <1>5 DEF Web!RefreshRefused, Web!Arrived
  <2> QED
    BY <2>1 DEF KeptInAll, Kept
<1>6. CASE Web!Refreshed(u) \/ Web!LoggedIn(u) \/ Web!LoggedOut(u)
           \/ Web!Settled(u, s) \/ Web!Refused(u, s)
  BY <1>2, <1>3, <1>6 DEF Web!Refreshed, Web!LoggedIn, Web!LoggedOut, Web!Left, Web!Settled,
                          Web!Refused, Web!BeginSession
<1>7. CASE Web!Lose(u, s)
  BY <1>2, <1>7 DEF Web!Lose, Web!Left
<1> QED
  BY <1>4, <1>5, <1>6, <1>7 DEF Web!Back

\* In the browser, whoever waits for a refresh, the request held back or the page being
\* loaded, there is one in flight that will let it go on: sessionClient.ts keeps one
\* refresh at a time and hands it to every request refused meanwhile.
THEOREM WaitersHaveARefresh ==
    ASSUME Web!WebAssumption PROVE Web!Spec => []Web!TypeOK
<1>1. Web!Init => WebTypes
  BY WebAtFirst
<1>2. WebTypes /\ [Web!Next]_(Web!vars) => WebTypes'
  BY WebStep
<1>3. WebTypes => Web!TypeOK
  BY DEF WebTypes
<1> QED
  BY <1>1, <1>2, <1>3, PTL DEF Web!Spec

\* With one tab, nobody is sent back to the login screen unless they logged out, the session
\* ended at the server, or an answer the session depended on was lost: however many requests
\* are refused at once, they share the refresh, and its token is used once
\* (sessionClient.ts, useSession.ts).
THEOREM NobodyIsSentBack ==
    ASSUME Web!WebAssumption, OneTab PROVE Web!Spec => [][Web!KeptWhileValid]_(Web!vars)
<1>1. Web!Init => WebTypes /\ KeptInAll
  BY WebAtFirst
<1>2. WebTypes /\ KeptInAll /\ [Web!Next]_(Web!vars) => (WebTypes /\ KeptInAll)'
  BY WebStep
<1>3. WebTypes /\ KeptInAll /\ [Web!Next]_(Web!vars) => [Web!KeptWhileValid]_(Web!vars)
  BY SentBackWhenEnded
<1> QED
  BY <1>1, <1>2, <1>3, PTL DEF Web!Spec

-----------------------------------------------------------------------------
(* The database file: what it holds *)

\* The columns of today's schema that version v or an earlier step brought, and those it took.
HasUpTo(c, v) ==
    /\ v >= 2 => "acting_as" \in c.columns
    /\ v >= 3 => "method" \in c.columns
    /\ v >= 5 => "bizum_id" \in c.columns
    /\ v >= 6 => "bizum_name" \notin c.columns
    /\ v >= 7 => "email" \notin c.columns /\ (c.lists => c.profile # "empty")

\* What it says stands in a place it has.
SaidInPlace(c) ==
    /\ c.bizumName = "column" => "bizum_name" \in c.columns
    /\ c.email = "column" => "email" \in c.columns

\* A new file, with some of the tables of the schema or all of them.
NewOne(c) ==
    /\ c.version = 0 /\ c.columns = UNION {File!ColumnsOf(t) : t \in c.tables}
    /\ c.bizumName = "nowhere" /\ c.email = "nowhere" /\ ~c.lists /\ c.profile = "empty"

SoundFiles == {c \in File!Contents :
             /\ SaidInPlace(c) /\ HasUpTo(c, c.version)
             /\ c.version = 7 => c.tables = File!Tables
             /\ "players" \notin c.tables => NewOne(c)
             /\ c.profile = "cleared" => c.version >= 7}

\* What d says, c said before.
Remembers(c, d) ==
    /\ c.bizumName # "nowhere" => d.bizumName # "nowhere"
    /\ c.email # "nowhere" => d.email # "nowhere"
    /\ c.lists => d.lists

LEMMA TheTables ==
    /\ File!Tables = {"players", "names", "profile", "payments", "tokens", "contacts"}
    /\ DOMAIN File!schema = 1..6 /\ \A i \in 1..6 : File!schema[i] \in File!Tables
    /\ \A t \in File!Tables : \E i \in 1..6 : File!schema[i] = t
<1>1. DOMAIN File!schema = 1..6
  BY DEF File!schema
<1>2. File!Tables = {File!schema[1], File!schema[2], File!schema[3],
                     File!schema[4], File!schema[5], File!schema[6]}
  <2>1. File!Tables = {File!schema[i] : i \in 1..6}
    BY <1>1 DEF File!Tables, File!Range
  <2>2. 1..6 = {1, 2, 3, 4, 5, 6}
    OBVIOUS
  <2> QED
    BY <2>1, <2>2
<1>3. /\ File!schema[1] = "players" /\ File!schema[2] = "names" /\ File!schema[3] = "profile"
      /\ File!schema[4] = "payments" /\ File!schema[5] = "tokens" /\ File!schema[6] = "contacts"
  BY DEF File!schema
<1>4. \A i \in 1..6 : File!schema[i] \in File!Tables
  BY <1>2
<1>5. \A t \in File!Tables : \E i \in 1..6 : File!schema[i] = t
  BY <1>2
<1> QED
  BY <1>1, <1>2, <1>3, <1>4, <1>5

LEMMA TheColumns ==
    /\ \A t : File!ColumnsOf(t) \subseteq {"method", "bizum_id", "acting_as"}
    /\ UNION {File!ColumnsOf(t) : t \in File!Tables} = {"method", "bizum_id", "acting_as"}
<1>1. \A t : File!ColumnsOf(t) \subseteq {"method", "bizum_id", "acting_as"}
  BY DEF File!ColumnsOf
<1>2. /\ File!ColumnsOf("payments") = {"method", "bizum_id"}
      /\ File!ColumnsOf("tokens") = {"acting_as"}
  BY DEF File!ColumnsOf
<1>3. "payments" \in File!Tables /\ "tokens" \in File!Tables
  BY TheTables
<1> QED
  BY <1>1, <1>2, <1>3

\* Creating tables keeps what the file says, and its columns.
LEMMA CreatedIs ==
    ASSUME NEW c \in File!Contents, NEW new \in SUBSET File!Tables
    PROVE  LET d == File!Created(new, c)
           IN /\ d \in File!Contents /\ d.tables = c.tables \cup new
              /\ d.columns = c.columns \cup UNION {File!ColumnsOf(t) : t \in new \ c.tables}
              /\ c.columns \subseteq d.columns
              /\ d.columns \subseteq c.columns \cup {"method", "bizum_id", "acting_as"}
              /\ d.version = c.version /\ d.wal = c.wal /\ d.lists = c.lists
              /\ d.bizumName = c.bizumName /\ d.email = c.email /\ d.profile = c.profile
              /\ NewOne(c) => NewOne(d)
<1> DEFINE gained == UNION {File!ColumnsOf(t) : t \in new \ c.tables}
           d == File!Created(new, c)
<1>1. gained \subseteq {"method", "bizum_id", "acting_as"}
  BY TheColumns
<1>2. ASSUME NewOne(c)
      PROVE  c.columns \cup gained = UNION {File!ColumnsOf(t) : t \in c.tables \cup new}
  BY <1>2 DEF NewOne
<1>3. d = [c EXCEPT !.tables = c.tables \cup new, !.columns = c.columns \cup gained]
  BY DEF File!Created
<1> HIDE DEF gained, d
<1>4. /\ d \in File!Contents /\ d.tables = c.tables \cup new /\ d.columns = c.columns \cup gained
      /\ d.version = c.version /\ d.wal = c.wal /\ d.lists = c.lists
      /\ d.bizumName = c.bizumName /\ d.email = c.email /\ d.profile = c.profile
  BY <1>1, <1>3 DEF File!Contents
<1>5. NewOne(c) => NewOne(d)
  BY <1>2, <1>4 DEF NewOne
<1> QED
  BY <1>1, <1>4, <1>5 DEF gained, d

\* The file there may be at the start is sound.
LEMMA FirstIsSound ==
    /\ File!NewFile \in SoundFiles
    /\ \A v \in 0..8 : File!Written(v) \in SoundFiles /\ File!Written(v).version = v
<1>1. File!NewFile \in SoundFiles
  <2>1. UNION {File!ColumnsOf(t) : t \in {}} = {}
    OBVIOUS
  <2> QED
    BY <2>1, TheTables
       DEF File!NewFile, SoundFiles, File!Contents, SaidInPlace, HasUpTo, NewOne, File!Places,
           File!LATEST_SCHEMA_VERSION
<1>2. ASSUME NEW v \in 0..8 PROVE File!Written(v) \in SoundFiles /\ File!Written(v).version = v
  <2> DEFINE c == File!Written(v)
  <2>1. /\ c.version = v /\ c.lists = TRUE /\ c.wal = TRUE
        /\ c.profile = IF v >= 7 THEN "seeded" ELSE "empty"
        /\ c.bizumName = IF v >= 6 THEN "table" ELSE IF v >= 4 THEN "column" ELSE "nowhere"
        /\ c.email = IF v >= 7 THEN "table" ELSE IF v >= 2 THEN "column" ELSE "nowhere"
        /\ c.tables = {"players", "payments"} \cup (IF v >= 2 THEN {"tokens", "contacts"} ELSE {})
                \cup (IF v >= 6 THEN {"names"} ELSE {}) \cup (IF v >= 7 THEN {"profile"} ELSE {})
        /\ c.columns = (IF v >= 2 THEN {"acting_as"} ELSE {})
                 \cup (IF v >= 3 THEN {"method"} ELSE {})
                 \cup (IF v >= 5 THEN {"bizum_id"} ELSE {})
                 \cup (IF v \in 2..6 THEN {"email"} ELSE {})
                 \cup (IF v \in 4..5 THEN {"bizum_name"} ELSE {})
    BY DEF File!Written
  <2>2. c = [version |-> c.version, wal |-> c.wal, lists |-> c.lists, tables |-> c.tables,
             columns |-> c.columns, bizumName |-> c.bizumName, email |-> c.email,
             profile |-> c.profile]
    BY DEF File!Written
  <2> HIDE DEF c
  <2>3. c \in File!Contents
    <3>1. c.tables \subseteq File!Tables
      BY <2>1, TheTables
    <3>2. c.columns \subseteq {"method", "bizum_id", "acting_as", "bizum_name", "email"}
      BY <2>1
    <3>3. /\ c.bizumName \in File!Places /\ c.email \in File!Places
          /\ c.profile \in {"empty", "seeded", "cleared"}
          /\ c.version \in 0..File!LATEST_SCHEMA_VERSION + 1
      BY <2>1 DEF File!Places, File!LATEST_SCHEMA_VERSION
    <3> QED
      BY <2>1, <2>2, <3>1, <3>2, <3>3 DEF File!Contents
  <2>4. SaidInPlace(c) /\ HasUpTo(c, v)
    BY <2>1 DEF SaidInPlace, HasUpTo
  <2>5. v = 7 => c.tables = File!Tables
    BY <2>1, TheTables
  <2>6. "players" \in c.tables /\ c.profile # "cleared"
    BY <2>1
  <2> QED
    BY <2>1, <2>3, <2>4, <2>5, <2>6 DEF SoundFiles, c
<1> QED
  BY <1>1, <1>2

\* A sound file stamped with today's version is whole.
LEMMA SoundIsWhole ==
    ASSUME NEW c \in SoundFiles, c.version = File!LATEST_SCHEMA_VERSION
    PROVE  /\ c.tables = File!Tables /\ c.columns = UNION {File!ColumnsOf(t) : t \in File!Tables}
           /\ "column" \notin {c.bizumName, c.email}
           /\ c.lists => c.profile # "empty"
BY TheColumns DEF SoundFiles, File!Contents, SaidInPlace, HasUpTo, File!LATEST_SCHEMA_VERSION

-----------------------------------------------------------------------------
(* One step of a migration *)

\* A file with today's tables on which the steps up to v are done.
StepsDone(c, v) == c \in File!Contents /\ c.tables = File!Tables /\ SaidInPlace(c) /\ HasUpTo(c, v)

LEMMA NextStep ==
    ASSUME NEW v \in 0..7
    PROVE  /\ File!due(v) = {} => v = 7
           /\ File!due(v) # {} => /\ File!Min(File!due(v)) \in 2..7 /\ v < 7
                                  /\ \/ File!Min(File!due(v)) = v + 1
                                     \/ v = 0 /\ File!Min(File!due(v)) = 2
<1>1. File!due(v) = {s \in 2..7 : s > v}
  BY DEF File!due, File!steps, File!LATEST_SCHEMA_VERSION
<1>2. CASE v = 7
  BY <1>1, <1>2
<1>3. CASE v \in 1..6
  <2>1. v + 1 \in File!due(v) /\ \A s \in File!due(v) : v + 1 <= s /\ s \in Nat
    BY <1>1, <1>3
  <2>2. File!Min(File!due(v)) \in File!due(v) /\ \A s \in File!due(v) : File!Min(File!due(v)) <= s
    BY <2>1 DEF File!Min
  <2>3. File!Min(File!due(v)) = v + 1
    BY <1>3, <2>1, <2>2
  <2> QED
    BY <1>3, <2>1, <2>3
<1>4. CASE v = 0
  <2>1. 2 \in File!due(v) /\ \A s \in File!due(v) : 2 <= s /\ s \in Nat
    BY <1>1, <1>4
  <2>2. File!Min(File!due(v)) \in File!due(v) /\ \A s \in File!due(v) : File!Min(File!due(v)) <= s
    BY <2>1 DEF File!Min
  <2>3. File!Min(File!due(v)) = 2
    BY <2>1, <2>2
  <2> QED
    BY <1>4, <2>1, <2>3
<1> QED
  BY <1>2, <1>3, <1>4

\* A column added.
LEMMA ColumnAdded ==
    ASSUME NEW c \in File!Contents, NEW column \in {"method", "bizum_id", "acting_as", "bizum_name"}
    PROVE  LET d == File!AddsColumn(column, c)
           IN /\ d \in File!Contents /\ d.tables = c.tables /\ d.columns = c.columns \cup {column}
              /\ d.bizumName = c.bizumName /\ d.email = c.email /\ d.lists = c.lists
              /\ d.profile = c.profile
<1> DEFINE columns == c.columns \cup {column}
<1>1. File!AddsColumn(column, c) = [c EXCEPT !.columns = columns]
  BY DEF File!AddsColumn
<1>2. columns \subseteq {"method", "bizum_id", "acting_as", "bizum_name", "email"}
  BY DEF File!Contents
<1> HIDE DEF columns
<1>3. LET d == [c EXCEPT !.columns = columns]
      IN /\ d \in File!Contents /\ d.tables = c.tables /\ d.columns = columns
         /\ d.bizumName = c.bizumName /\ d.email = c.email /\ d.lists = c.lists
         /\ d.profile = c.profile
  BY <1>2 DEF File!Contents
<1> QED
  BY <1>1, <1>3 DEF columns

\* A name or an address moved to a table of its own.
LEMMA NamesMoved ==
    ASSUME NEW c \in File!Contents, SaidInPlace(c)
    PROVE  LET d == File!MovesNames(c)
           IN /\ d \in File!Contents /\ d.tables = c.tables
              /\ d.columns = c.columns \ {"bizum_name"}
              /\ d.bizumName = IF c.bizumName = "column" THEN "table" ELSE c.bizumName
              /\ d.email = c.email /\ d.lists = c.lists /\ d.profile = c.profile
<1> DEFINE d == File!MovesNames(c)
<1>1. CASE "bizum_name" \notin c.columns
  <2>1. d = c
    BY <1>1 DEF File!MovesNames
  <2> HIDE DEF d
  <2> QED
    BY <1>1, <2>1 DEF SaidInPlace, d
<1>2. CASE "bizum_name" \in c.columns
  <2> DEFINE columns == c.columns \ {"bizum_name"}
             place == IF c.bizumName = "column" THEN "table" ELSE c.bizumName
  <2>1. d = [c EXCEPT !.columns = columns, !.bizumName = place]
    BY <1>2 DEF File!MovesNames
  <2>2. /\ columns \subseteq {"method", "bizum_id", "acting_as", "bizum_name", "email"}
        /\ place \in File!Places
    BY DEF File!Contents, File!Places
  <2> HIDE DEF d, columns, place
  <2>3. /\ d \in File!Contents /\ d.tables = c.tables /\ d.columns = columns /\ d.bizumName = place
        /\ d.email = c.email /\ d.lists = c.lists /\ d.profile = c.profile
    BY <2>1, <2>2 DEF File!Contents
  <2> QED
    BY <2>3 DEF d, columns, place
<1> QED
  BY <1>1, <1>2

LEMMA EmailsMoved ==
    ASSUME NEW c \in File!Contents, SaidInPlace(c)
    PROVE  LET d == File!SeedsProfile(File!MovesEmails(c))
           IN /\ d \in File!Contents /\ d.tables = c.tables /\ d.columns = c.columns \ {"email"}
              /\ d.email = IF c.email = "column" THEN "table" ELSE c.email
              /\ d.bizumName = c.bizumName /\ d.lists = c.lists
              /\ d.lists => d.profile = "seeded"
<1> DEFINE d == File!MovesEmails(c)
<1>1. /\ d \in File!Contents /\ d.tables = c.tables /\ d.columns = c.columns \ {"email"}
      /\ d.email = IF c.email = "column" THEN "table" ELSE c.email
      /\ d.bizumName = c.bizumName /\ d.lists = c.lists /\ d.profile = c.profile
  <2>1. CASE "email" \notin c.columns
    <3>1. d = c
      BY <2>1 DEF File!MovesEmails
    <3> HIDE DEF d
    <3> QED
      BY <2>1, <3>1 DEF SaidInPlace
  <2>2. CASE "email" \in c.columns
    <3> DEFINE columns == c.columns \ {"email"}
               place == IF c.email = "column" THEN "table" ELSE c.email
    <3>1. d = [c EXCEPT !.columns = columns, !.email = place]
      BY <2>2 DEF File!MovesEmails
    <3>2. /\ columns \subseteq {"method", "bizum_id", "acting_as", "bizum_name", "email"}
          /\ place \in File!Places
      BY DEF File!Contents, File!Places
    <3> HIDE DEF d, columns, place
    <3>3. /\ d \in File!Contents /\ d.tables = c.tables /\ d.columns = columns /\ d.email = place
          /\ d.bizumName = c.bizumName /\ d.lists = c.lists /\ d.profile = c.profile
      BY <3>1, <3>2 DEF File!Contents
    <3> QED
      BY <3>3 DEF columns, place
  <2> QED
    BY <2>1, <2>2
<1> HIDE DEF d
<1> DEFINE profile == IF d.profile # "seeded" /\ d.lists THEN "seeded" ELSE d.profile
<1>2. File!SeedsProfile(d) = [d EXCEPT !.profile = profile]
  BY DEF File!SeedsProfile
<1>3. profile \in {"empty", "seeded", "cleared"} /\ (d.lists => profile = "seeded")
  BY <1>1 DEF File!Contents
<1> HIDE DEF profile
<1> DEFINE e == File!SeedsProfile(d)
<1>4. /\ e \in File!Contents /\ e.tables = d.tables /\ e.columns = d.columns /\ e.email = d.email
      /\ e.bizumName = d.bizumName /\ e.lists = d.lists /\ e.profile = profile
  BY <1>1, <1>2, <1>3 DEF File!Contents
<1> HIDE DEF e
<1>5. /\ e \in File!Contents /\ e.tables = c.tables /\ e.columns = c.columns \ {"email"}
      /\ e.email = IF c.email = "column" THEN "table" ELSE c.email
      /\ e.bizumName = c.bizumName /\ e.lists = c.lists
      /\ e.lists => e.profile = "seeded"
  BY <1>1, <1>3, <1>4
<1> QED
  BY <1>5 DEF d, e

\* A step adds what its version has and drops nothing that was said.
LEMMA StepIsDone ==
    ASSUME NEW v \in 0..7, NEW c, StepsDone(c, v), File!due(v) # {}
    PROVE  LET s == File!Min(File!due(v))
           IN s \in 0..7 /\ StepsDone(File!apply(s, c), s) /\ Remembers(c, File!apply(s, c))
<1> DEFINE s == File!Min(File!due(v))
           d == File!apply(s, c)
<1>1. s \in 2..7 /\ v < 7 /\ (s = v + 1 \/ (v = 0 /\ s = 2))
  BY NextStep
<1>2. c \in File!Contents /\ c.tables = File!Tables /\ SaidInPlace(c) /\ HasUpTo(c, v)
  BY DEF StepsDone
<1>3. CASE s \in 2..5
  <2>1. PICK column \in {"method", "bizum_id", "acting_as", "bizum_name"} :
            /\ d = File!AddsColumn(column, c)
            /\ s = 2 => column = "acting_as"
            /\ s = 3 => column = "method"
            /\ s = 4 => column = "bizum_name"
            /\ s = 5 => column = "bizum_id"
    <3>1. s = 2 => d = File!AddsColumn("acting_as", c)
      BY DEF File!apply
    <3>2. s = 3 => d = File!AddsColumn("method", c)
      BY DEF File!apply
    <3>3. s = 4 => d = File!AddsColumn("bizum_name", c)
      BY DEF File!apply
    <3>4. s = 5 => d = File!AddsColumn("bizum_id", c)
      BY DEF File!apply
    <3> HIDE DEF d, s
    <3>5. s = 2 \/ s = 3 \/ s = 4 \/ s = 5
      BY <1>3
    <3> QED
      BY <3>1, <3>2, <3>3, <3>4, <3>5
  <2> HIDE DEF d, s
  <2>2. /\ d \in File!Contents /\ d.tables = c.tables /\ d.columns = c.columns \cup {column}
        /\ d.bizumName = c.bizumName /\ d.email = c.email /\ d.lists = c.lists
        /\ d.profile = c.profile
    BY <1>2, <2>1, ColumnAdded
  <2>3. HasUpTo(d, s)
    BY <1>1, <1>2, <1>3, <2>1, <2>2 DEF HasUpTo
  <2>4. StepsDone(d, s) /\ Remembers(c, d)
    BY <1>2, <2>2, <2>3 DEF StepsDone, SaidInPlace, Remembers
  <2> QED
    BY <1>1, <2>4 DEF d, s
<1>4. CASE s = 6
  <2>1. d = File!MovesNames(c)
    BY <1>4 DEF File!apply
  <2> HIDE DEF d, s
  <2>2. /\ d \in File!Contents /\ d.tables = c.tables /\ d.columns = c.columns \ {"bizum_name"}
        /\ d.bizumName = IF c.bizumName = "column" THEN "table" ELSE c.bizumName
        /\ d.email = c.email /\ d.lists = c.lists /\ d.profile = c.profile
    BY <1>2, <2>1, NamesMoved
  <2>3. StepsDone(d, s) /\ Remembers(c, d)
    BY <1>1, <1>2, <1>4, <2>2 DEF StepsDone, HasUpTo, SaidInPlace, Remembers
  <2> QED
    BY <1>1, <2>3 DEF d, s
<1>5. CASE s = 7
  <2>1. d = File!SeedsProfile(File!MovesEmails(c))
    BY <1>5 DEF File!apply
  <2> HIDE DEF d, s
  <2>2. /\ d \in File!Contents /\ d.tables = c.tables /\ d.columns = c.columns \ {"email"}
        /\ d.email = IF c.email = "column" THEN "table" ELSE c.email
        /\ d.bizumName = c.bizumName /\ d.lists = c.lists
        /\ d.lists => d.profile = "seeded"
    BY <1>2, <2>1, EmailsMoved
  <2>3. StepsDone(d, s) /\ Remembers(c, d)
    BY <1>1, <1>2, <1>5, <2>2 DEF StepsDone, HasUpTo, SaidInPlace, Remembers
  <2> QED
    BY <1>1, <2>3 DEF d, s
<1> HIDE DEF s, d
<1> QED
  BY <1>1, <1>3, <1>4, <1>5 DEF s, d

-----------------------------------------------------------------------------
(* Where the processes are *)

Ats == {"off", "open", "look", "schema", "stamp", "backup", "clear", "copy", "rename", "wal",
        "begin", "migrate", "up", "ended"}
CopyNames == Nat \X {"by hand", "before-migration"} \X (Nat \ {0})

\* The names that can have been chosen by the time s.
Chosen(s) == (0..s) \X {"by hand", "before-migration"} \X (Nat \ {0})

Process == [at : Ats, opened : BOOLEAN, seen : (0..7) \cup {None}, name : CopyNames \cup {None}]

\* What a process relies on, r being where it is, c the file and w the transaction it writes.
ProcOk(r, writes, c, w) ==
    /\ writes <=> r.at = "migrate"
    /\ r.at = "look" => r.seen \in 0..7 /\ (r.seen = 7 => c.version = 7)
    /\ r.at \in {"schema", "stamp"} => NewOne(c) \/ c.version = 7
    /\ r.at = "stamp" => c.tables = File!Tables
    /\ r.at = "up" => c.version = 7
    /\ r.at = "migrate" => /\ r.seen \in 0..7 /\ c.version < 7
                           /\ StepsDone(w, r.seen) /\ Remembers(c, w)
    /\ c.version > 7 => r.at \in {"off", "open", "ended"}

\* The copies are whole or half ones, none of a newer application's file.
Copies(files) ==
    /\ IsFiniteSet(DOMAIN files)
    /\ \A n \in DOMAIN files : files[n] = Half \/ (files[n] \in SoundFiles /\ files[n].version <= 7)

FileInv ==
    /\ file \in SoundFiles /\ writer \in File!Procs \cup {None} /\ proc \in [File!Procs -> Process]
    /\ second \in Nat /\ faults \in Nat
    /\ \A p \in File!Procs : ProcOk(proc[p], writer = p, file, work)
    /\ Copies(backups) /\ Copies(parts)
    /\ file.version > 7 => DOMAIN backups = {} /\ DOMAIN parts = {}

\* How the file may go on while it is no newer application's.
ProcMoves(c, d) ==
    /\ c.version <= 7 /\ d.version <= 7 /\ (c.version = 7 => d.version = 7)
    /\ NewOne(c) => NewOne(d) \/ d.version = 7
    /\ c.tables \subseteq d.tables
    /\ d \in SoundFiles

LEMMA WithoutKeeps ==
    ASSUME NEW files, Copies(files), NEW name
    PROVE  /\ Copies(File!Without(files, name))
           /\ DOMAIN File!Without(files, name) = DOMAIN files \ {name}
           /\ \A n \in DOMAIN files \ {name} : File!Without(files, name)[n] = files[n]
<1>1. IsFiniteSet(DOMAIN files \ {name})
  BY FS_Subset DEF Copies
<1> QED
  BY <1>1 DEF Copies, File!Without

LEMMA WithKeeps ==
    ASSUME NEW files, Copies(files), NEW name, NEW c,
           c = Half \/ (c \in SoundFiles /\ c.version <= 7)
    PROVE  /\ Copies(File!With(files, name, c))
           /\ DOMAIN File!With(files, name, c) = DOMAIN files \cup {name}
           /\ File!With(files, name, c)[name] = c
           /\ \A n \in DOMAIN files \ {name} : File!With(files, name, c)[n] = files[n]
<1>1. IsFiniteSet(DOMAIN files \cup {name})
  BY FS_AddElement DEF Copies
<1>2. /\ DOMAIN File!With(files, name, c) = DOMAIN files \cup {name}
      /\ \A n \in DOMAIN files \cup {name} :
            File!With(files, name, c)[n] = IF n = name THEN c ELSE files[n]
  BY DEF File!With
<1> QED
  BY <1>1, <1>2 DEF Copies

\* A process that went on, the file as it was.
LEMMA ProcessMoves ==
    ASSUME FileInv, File!DatabaseFileAssumption, NEW p \in File!Procs, NEW r \in Process,
           proc' = [proc EXCEPT ![p] = r], file' = file,
           \/ writer' = writer /\ work' = work
           \/ writer = p /\ writer' = None
           \/ writer = None /\ writer' = p
           \/ writer = p /\ writer' = p,
           ProcOk(r, writer' = p, file, work'),
           second' \in Nat, faults' \in Nat, Copies(backups'), Copies(parts'),
           file.version > 7 => DOMAIN backups' = {} /\ DOMAIN parts' = {}
    PROVE  FileInv'
<1>1. None \notin File!Procs
  BY DEF File!DatabaseFileAssumption
<1>2. /\ proc' \in [File!Procs -> Process] /\ proc'[p] = r
      /\ \A q \in File!Procs \ {p} : proc'[q] = proc[q]
  BY DEF FileInv
<1>3. ASSUME NEW q \in File!Procs \ {p} PROVE ProcOk(proc'[q], writer' = q, file', work')
  <2>1. ProcOk(proc[q], writer = q, file, work)
    BY DEF FileInv
  <2>2. writer' = q <=> writer = q
    BY <1>1
  <2>3. CASE writer = q
    <3>1. work' = work
      BY <1>1, <2>3
    <3> QED
      BY <1>2, <2>1, <2>2, <3>1 DEF ProcOk
  <2>4. CASE writer # q
    <3>1. proc[q].at # "migrate"
      BY <2>1, <2>4 DEF ProcOk
    <3> QED
      BY <1>2, <2>1, <2>2, <2>4, <3>1 DEF ProcOk
  <2> QED
    BY <2>3, <2>4
<1>4. writer' \in File!Procs \cup {None}
  BY DEF FileInv
<1>5. file' \in SoundFiles /\ (file'.version > 7 => DOMAIN backups' = {} /\ DOMAIN parts' = {})
  BY DEF FileInv
<1>6. \A q \in File!Procs : ProcOk(proc'[q], writer' = q, file', work')
  BY <1>2, <1>3
<1> QED
  BY <1>2, <1>4, <1>5, <1>6 DEF FileInv

\* A process that changed the file, with nobody else's transaction open.
LEMMA FileMoves ==
    ASSUME FileInv, File!DatabaseFileAssumption, NEW p \in File!Procs, NEW r \in Process,
           proc' = [proc EXCEPT ![p] = r], ProcMoves(file, file'),
           writer \in {None, p}, writer' = None, ProcOk(r, FALSE, file', work'),
           UNCHANGED <<File!disk, File!weather>>
    PROVE  FileInv'
<1>1. None \notin File!Procs
  BY DEF File!DatabaseFileAssumption
<1>2. /\ proc' \in [File!Procs -> Process] /\ proc'[p] = r
      /\ \A q \in File!Procs \ {p} : proc'[q] = proc[q]
  BY DEF FileInv
<1>3. ASSUME NEW q \in File!Procs \ {p} PROVE ProcOk(proc'[q], writer' = q, file', work')
  <2>1. ProcOk(proc[q], writer = q, file, work) /\ writer # q /\ writer' # q
    BY <1>1 DEF FileInv
  <2>2. file'.tables \subseteq File!Tables /\ file'.version \in 0..8
    BY DEF ProcMoves, SoundFiles, File!Contents, File!LATEST_SCHEMA_VERSION
  <2>3. proc[q].at # "migrate"
    BY <2>1 DEF ProcOk
  <2>4. proc[q].at = "stamp" => file'.tables = File!Tables
    BY <2>1, <2>2 DEF ProcOk, ProcMoves
  <2>5. proc[q].at \in {"schema", "stamp"} => NewOne(file') \/ file'.version = 7
    BY <2>1 DEF ProcOk, ProcMoves
  <2>6. (proc[q].at = "look" => proc[q].seen \in 0..7 /\ (proc[q].seen = 7 => file'.version = 7))
        /\ (proc[q].at = "up" => file'.version = 7)
    BY <2>1 DEF ProcOk, ProcMoves
  <2>7. ~(file'.version > 7)
    BY <2>2 DEF ProcMoves
  <2> QED
    BY <1>2, <2>1, <2>3, <2>4, <2>5, <2>6, <2>7 DEF ProcOk
<1>4. ProcOk(proc'[p], writer' = p, file', work')
  BY <1>1, <1>2
<1>5. \A q \in File!Procs : ProcOk(proc'[q], writer' = q, file', work')
  BY <1>3, <1>4
<1>6. ~(file'.version > 7) /\ file' \in SoundFiles
  BY DEF ProcMoves, SoundFiles, File!Contents, File!LATEST_SCHEMA_VERSION
<1> QED
  BY <1>1, <1>2, <1>5, <1>6 DEF FileInv, File!disk, File!weather

-----------------------------------------------------------------------------
(* What a step is made of *)

\* The counting of DatabaseFile is that of the library, and its least number a least one.
LEMMA SameNumber == \A T : File!Cardinality(T) = Cardinality(T)
BY DEF File!Cardinality, Cardinality

LEMMA LeastCopy ==
    ASSUME NEW T \in SUBSET Nat, T # {}
    PROVE  File!Min(T) \in T /\ \A y \in T : File!Min(T) <= y
<1>1. PICK x \in T : \A y \in T : x <= y
  BY LeastNumber
<1> QED
  BY <1>1 DEF File!Min

\* The name chosen for a copy is one no copy has.
LEMMA NameIsFree ==
    ASSUME Copies(backups), second \in Nat, NEW p
    PROVE  /\ File!freeName(p) \in CopyNames /\ File!freeName(p) \in Chosen(second)
           /\ File!freeName(p) \notin DOMAIN backups
<1> DEFINE k == Cardinality(DOMAIN backups)
           free == {n \in 1..k + 1 : <<second, File!Label(p), n>> \notin DOMAIN backups}
<1>1. IsFiniteSet(DOMAIN backups) /\ k \in Nat
  BY FS_CardinalityType DEF Copies
<1>2. free # {}
  <2>1. SUFFICES ASSUME free = {} PROVE FALSE
    OBVIOUS
  <2> DEFINE f == [n \in 1..k + 1 |-> <<second, File!Label(p), n>>]
  <2>2. f \in [1..k + 1 -> DOMAIN backups]
    BY <2>1
  <2>3. IsFiniteSet(1..k + 1) /\ Cardinality(1..k + 1) = k + 1
    BY <1>1, FS_Interval
  <2> HIDE DEF k
  <2>4. PICK x, y \in 1..k + 1 : x # y /\ f[x] = f[y]
    <3> HIDE DEF f
    <3> QED
      BY <1>1, <2>2, <2>3, FS_PigeonHole DEF k
  <2> QED
    BY <2>4
<1>3. File!Min(free) \in free
  <2>1. free \subseteq Nat
    BY <1>1
  <2> HIDE DEF free
  <2> QED
    BY <1>2, <2>1, LeastCopy
<1>4. File!freeName(p) = <<second, File!Label(p), File!Min(free)>>
  BY SameNumber DEF File!freeName
<1>5. File!Label(p) \in {"by hand", "before-migration"}
  BY DEF File!Label
<1>6. /\ File!Min(free) \in Nat \ {0}
      /\ <<second, File!Label(p), File!Min(free)>> \notin DOMAIN backups
  BY <1>1, <1>3
<1> HIDE DEF free
<1>7. /\ \A a \in Nat, b \in {"by hand", "before-migration"}, c \in Nat \ {0} :
             <<a, b, c>> \in CopyNames
      /\ \A a \in 0..second, b \in {"by hand", "before-migration"}, c \in Nat \ {0} :
            <<a, b, c>> \in Chosen(second)
  BY DEF CopyNames, Chosen
<1> DEFINE n == File!Min(free)
           label == File!Label(p)
<1>8. <<second, label, n>> \in CopyNames /\ <<second, label, n>> \in Chosen(second)
  <2>1. n \in Nat \ {0}
    BY <1>6
  <2>2. label \in {"by hand", "before-migration"}
    BY <1>5
  <2>3. second \in 0..second
    OBVIOUS
  <2> HIDE DEF n, label
  <2> QED
    BY <1>7, <2>1, <2>2, <2>3
<1> QED
  BY <1>4, <1>6, <1>8

LEMMA WentOn ==
    ASSUME FileInv, NEW p \in File!Procs, NEW at \in Ats, File!Goes(p, at)
    PROVE  \E r \in Process : /\ proc' = [proc EXCEPT ![p] = r] /\ r.at = at
                              /\ r.seen = proc[p].seen /\ r.name = proc[p].name
                              /\ r.opened = proc[p].opened
<1> DEFINE r == [proc[p] EXCEPT !.at = at]
<1>1. proc[p] \in Process /\ proc' = [proc EXCEPT ![p] = r]
  BY DEF FileInv, File!Goes
<1>2. r \in Process /\ r.at = at /\ r.seen = proc[p].seen /\ r.name = proc[p].name
      /\ r.opened = proc[p].opened
  BY <1>1 DEF Process
<1> QED
  BY <1>1, <1>2

LEMMA IsOpen ==
    ASSUME FileInv, NEW p \in File!Procs, File!Opens(p)
    PROVE  \E r \in Process : /\ proc' = [proc EXCEPT ![p] = r]
                              /\ r.at = IF p \in Hands THEN "backup" ELSE "up"
<1> DEFINE at == IF p \in Hands THEN "backup" ELSE "up"
           r == [proc[p] EXCEPT !.opened = TRUE, !.at = at]
<1>1. proc[p] \in Process /\ proc' = [proc EXCEPT ![p] = r] /\ at \in Ats
  BY DEF FileInv, File!Opens, Ats
<1>2. r \in Process /\ r.at = at
  BY <1>1 DEF Process
<1> QED
  BY <1>1, <1>2

LEMMA HasEnded ==
    ASSUME FileInv, File!DatabaseFileAssumption, NEW p \in File!Procs, File!Ends(p)
    PROVE  \E r \in Process : /\ proc' = [proc EXCEPT ![p] = r] /\ r.at \in {"off", "ended"}
                              /\ writer' # p
                              /\ \/ writer' = writer /\ work' = work
                                 \/ writer = p /\ writer' = None
<1> DEFINE r == IF p \in Hands THEN [File!Idle EXCEPT !.at = "ended"] ELSE File!Idle
<1>1. r \in Process /\ r.at \in {"off", "ended"}
  BY DEF Process, File!Idle, Ats
<1>2. proc' = [proc EXCEPT ![p] = r] /\ None # p
  BY DEF File!Ends, File!DatabaseFileAssumption
<1> QED
  BY <1>1, <1>2 DEF File!Ends

\* A process that ended, the file as it was.
LEMMA EndKeeps ==
    ASSUME FileInv, File!DatabaseFileAssumption, NEW p \in File!Procs, File!Ends(p), file' = file,
           second' \in Nat, faults' \in Nat, Copies(backups'), Copies(parts'),
           file.version > 7 => DOMAIN backups' = {} /\ DOMAIN parts' = {}
    PROVE  FileInv'
<1>1. PICK r \in Process : /\ proc' = [proc EXCEPT ![p] = r] /\ r.at \in {"off", "ended"}
                           /\ writer' # p
                           /\ \/ writer' = writer /\ work' = work
                              \/ writer = p /\ writer' = None
  BY HasEnded
<1>2. ProcOk(r, writer' = p, file, work')
  BY <1>1 DEF ProcOk
<1> QED
  BY <1>1, <1>2, ProcessMoves

\* A process that went on without the write lock, the file and the copies as they were.
LEMMA GoesOn ==
    ASSUME FileInv, File!DatabaseFileAssumption, NEW p \in File!Procs, NEW r \in Process,
           proc' = [proc EXCEPT ![p] = r],
           UNCHANGED <<file, work, writer, File!disk, File!weather>>,
           ProcOk(r, writer = p, file, work)
    PROVE  FileInv'
<1>1. UNCHANGED <<file, work, writer, backups, parts, second, faults>>
  BY DEF File!disk, File!weather
<1> HIDE DEF ProcOk
<1> QED
  BY <1>1, ProcessMoves DEF FileInv

-----------------------------------------------------------------------------
(* What a step may do *)

\* How a step changes the file, when no copy is put in its place.
FileKept ==
    \/ file' = file
    \/ /\ file.version <= 7 /\ Remembers(file, file')
       /\ file.profile = "cleared" /\ file'.profile # "cleared" =>
            \E p \in Servers : proc[p].at = "up" /\ UNCHANGED proc
       /\ \/ File!Said(file') = File!Said(file)
          \/ /\ file'.version = 7
             /\ file.version = 7 \/ \E p \in File!Procs : proc[p].at \in {"stamp", "migrate"}

FileRight == FileInv' /\ (FileKept \/ File!Restored) /\ File!NewerIsLeftAlone

LEMMA FirstFileInv == ASSUME File!Init, File!DatabaseFileAssumption PROVE FileInv
<1>1. file \in SoundFiles
  <2>1. PICK v \in FirstFiles : file = IF v = None THEN File!NewFile ELSE File!Written(v)
    BY DEF File!Init
  <2>2. v = None \/ v \in 0..8
    BY DEF File!DatabaseFileAssumption, File!LATEST_SCHEMA_VERSION
  <2> QED
    BY <2>1, <2>2, FirstIsSound
<1>2. File!Idle \in Process /\ File!Idle.at = "off"
  BY DEF File!Idle, Process, Ats
<1>3. proc \in [File!Procs -> Process] /\ \A p \in File!Procs : proc[p].at = "off" /\ writer # p
  BY <1>2 DEF File!Init, File!DatabaseFileAssumption
<1>4. Copies(backups) /\ Copies(parts) /\ DOMAIN backups = {} /\ DOMAIN parts = {}
  <2>1. DOMAIN << >> = {}
    OBVIOUS
  <2> QED
    BY <2>1, FS_EmptySet DEF File!Init, Copies
<1> QED
  BY <1>1, <1>3, <1>4 DEF FileInv, ProcOk, File!Init

-----------------------------------------------------------------------------
(* The actions *)

LEMMA ProcsOk == ASSUME FileInv, NEW p \in File!Procs PROVE ProcOk(proc[p], writer = p, file, work)
BY DEF FileInv

LEMMA FileIs ==
    ASSUME NEW c \in SoundFiles
    PROVE  c \in File!Contents /\ c.version \in 0..8 /\ c.tables \subseteq File!Tables
BY DEF SoundFiles, File!Contents, File!LATEST_SCHEMA_VERSION

LEMMA OpenKeeps ==
    ASSUME FileInv, File!DatabaseFileAssumption, NEW p \in File!Procs, File!Open(p) PROVE FileRight
<1>1. PICK r \in Process : proc' = [proc EXCEPT ![p] = r] /\ r.at = "open"
  BY WentOn DEF File!Open, Ats
<1>2. ProcOk(r, writer = p, file, work)
  BY <1>1, ProcsOk DEF ProcOk, File!Open
<1> QED
  BY <1>1, <1>2, GoesOn DEF File!Open, FileRight, FileKept, File!NewerIsLeftAlone

LEMMA ReadVersionKeeps ==
    ASSUME FileInv, File!DatabaseFileAssumption, NEW p \in File!Procs, File!ReadVersion(p)
    PROVE  FileRight
<1>1. /\ UNCHANGED <<file, File!disk, File!weather>>
      /\ file.version > 7 => DOMAIN backups = {} /\ DOMAIN parts = {}
  BY DEF File!ReadVersion, FileInv
<1>2. CASE file.version > 7
  <2>1. File!Ends(p)
    BY <1>2 DEF File!ReadVersion, File!Newer, File!LATEST_SCHEMA_VERSION
  <2>2. FileInv'
    BY <1>1, <2>1, EndKeeps DEF FileInv, File!disk, File!weather
  <2> QED
    BY <1>1, <2>2 DEF FileRight, FileKept, File!NewerIsLeftAlone
<1>3. CASE ~(file.version > 7)
  <2> DEFINE r == [proc[p] EXCEPT !.at = "look", !.seen = file.version]
  <2>1. proc[p] \in Process /\ file.version \in 0..7
    BY <1>3, FileIs DEF FileInv
  <2>2. r \in Process /\ r.at = "look" /\ r.seen = file.version
    BY <2>1 DEF Process, Ats
  <2>3. proc' = [proc EXCEPT ![p] = r] /\ UNCHANGED <<work, writer>>
    BY <1>3 DEF File!ReadVersion, File!Newer, File!LATEST_SCHEMA_VERSION
  <2>4. ProcOk(r, writer = p, file, work)
    BY <1>3, <2>1, <2>2, ProcsOk DEF ProcOk, File!ReadVersion
  <2> HIDE DEF r
  <2>5. FileInv'
    BY <1>1, <2>2, <2>3, <2>4, GoesOn
  <2> QED
    BY <1>1, <2>5 DEF FileRight, FileKept, File!NewerIsLeftAlone
<1> QED
  BY <1>2, <1>3

\* The tables today's schema has are added to a file that may lack them.
LEMMA TablesAdded ==
    ASSUME NEW c \in SoundFiles, c.version <= 7, NEW new \in SUBSET File!Tables,
           c.version = 7 \/ NewOne(c)
    PROVE  LET d == [File!Created(new, c) EXCEPT !.wal = TRUE]
           IN /\ ProcMoves(c, d) /\ Remembers(c, d) /\ d.profile = c.profile
              /\ d.version = c.version /\ (NewOne(c) => NewOne(d)) /\ File!Said(d) = File!Said(c)
<1> DEFINE e == File!Created(new, c)
           d == [e EXCEPT !.wal = TRUE]
<1>1. /\ e \in File!Contents /\ e.tables = c.tables \cup new
      /\ e.columns = c.columns \cup UNION {File!ColumnsOf(t) : t \in new \ c.tables}
      /\ c.columns \subseteq e.columns
      /\ e.version = c.version /\ e.lists = c.lists
      /\ e.bizumName = c.bizumName /\ e.email = c.email /\ e.profile = c.profile
      /\ NewOne(c) => NewOne(e)
  BY CreatedIs, FileIs
<1> HIDE DEF e
<1>2. /\ d \in File!Contents /\ d.tables = e.tables /\ d.columns = e.columns
      /\ d.version = e.version
      /\ d.lists = e.lists /\ d.bizumName = e.bizumName /\ d.email = e.email
      /\ d.profile = e.profile
  BY <1>1 DEF File!Contents
<1> HIDE DEF d
<1>3. NewOne(e) => NewOne(d)
  BY <1>2 DEF NewOne
<1>4. CASE c.version = 7
  <2>1. c.tables = File!Tables /\ new \ c.tables = {}
    BY <1>4 DEF SoundFiles
  <2>2. e.columns = c.columns
    BY <1>1, <2>1
  <2>3. d \in SoundFiles
    BY <1>1, <1>2, <1>4, <2>1, <2>2, TheTables DEF SoundFiles, SaidInPlace, HasUpTo
  <2> QED
    BY <1>1, <1>2, <1>3, <1>4, <2>3 DEF ProcMoves, Remembers, File!Said, d, e
<1>5. CASE NewOne(c)
  <2>1. NewOne(d)
    BY <1>1, <1>3, <1>5
  <2>2. d \in SoundFiles
    BY <1>2, <2>1 DEF SoundFiles, SaidInPlace, HasUpTo, NewOne
  <2> QED
    BY <1>1, <1>2, <1>5, <2>1, <2>2 DEF ProcMoves, Remembers, File!Said, NewOne, d, e
<1> QED
  BY <1>4, <1>5

LEMMA LookKeeps ==
    ASSUME FileInv, File!DatabaseFileAssumption, NEW p \in File!Procs, File!Look(p) PROVE FileRight
<1>1. ProcOk(proc[p], writer = p, file, work) /\ proc[p].at = "look"
  BY ProcsOk DEF File!Look
<1>2. file.version \in 0..7 /\ file \in SoundFiles
  BY <1>1, FileIs DEF ProcOk, FileInv
<1>3. CASE "players" \notin file.tables
  <2>1. PICK r \in Process : proc' = [proc EXCEPT ![p] = r] /\ r.at = "schema"
    BY <1>3, WentOn DEF File!Look, Ats
  <2>2. NewOne(file)
    BY <1>2, <1>3 DEF SoundFiles
  <2>3. ProcOk(r, writer = p, file, work)
    BY <1>1, <2>1, <2>2 DEF ProcOk
  <2>4. UNCHANGED <<file, work, writer, File!disk, File!weather>>
    BY <1>3 DEF File!Look
  <2> QED
    BY <2>1, <2>3, <2>4, GoesOn DEF FileRight, FileKept, File!NewerIsLeftAlone
<1>4. CASE "players" \in file.tables /\ proc[p].seen # 7
  <2>1. PICK r \in Process : proc' = [proc EXCEPT ![p] = r] /\ r.at = "backup"
    BY <1>4, WentOn DEF File!Look, Ats, File!LATEST_SCHEMA_VERSION
  <2>2. ProcOk(r, writer = p, file, work)
    BY <1>1, <1>2, <2>1 DEF ProcOk
  <2>3. UNCHANGED <<file, work, writer, File!disk, File!weather>>
    BY <1>4 DEF File!Look, File!LATEST_SCHEMA_VERSION
  <2> QED
    BY <2>1, <2>2, <2>3, GoesOn DEF FileRight, FileKept, File!NewerIsLeftAlone
<1>5. CASE "players" \in file.tables /\ proc[p].seen = 7
  <2>1. /\ File!Free /\ File!Opens(p) /\ UNCHANGED <<work, writer, File!disk, File!weather>>
        /\ file' = [File!Created(File!Tables, file) EXCEPT !.wal = TRUE]
    BY <1>5 DEF File!Look, File!LATEST_SCHEMA_VERSION
  <2>2. file.version = 7
    BY <1>1, <1>5 DEF ProcOk
  <2>3. ProcMoves(file, file') /\ Remembers(file, file') /\ file'.profile = file.profile
        /\ file'.version = file.version
    BY <1>2, <2>1, <2>2, TablesAdded
  <2>4. PICK r \in Process : proc' = [proc EXCEPT ![p] = r]
                             /\ r.at = IF p \in Hands THEN "backup" ELSE "up"
    BY <2>1, IsOpen
  <2>5. ProcOk(r, FALSE, file', work')
    BY <2>2, <2>3, <2>4 DEF ProcOk
  <2>6. writer = None /\ writer' = None
    BY <2>1 DEF File!Free
  <2> HIDE DEF ProcOk
  <2>7. FileInv'
    BY <2>1, <2>3, <2>4, <2>5, <2>6, FileMoves
  <2> QED
    BY <1>2, <2>2, <2>3, <2>7
       DEF FileRight, FileKept, File!NewerIsLeftAlone, File!LATEST_SCHEMA_VERSION
<1> QED
  BY <1>3, <1>4, <1>5

LEMMA CreateTablesKeeps ==
    ASSUME FileInv, File!DatabaseFileAssumption, NEW p \in File!Procs, File!CreateTables(p)
    PROVE  FileRight
<1> DEFINE lacking == {i \in DOMAIN File!schema : File!schema[i] \notin file.tables}
<1>1. ProcOk(proc[p], writer = p, file, work) /\ proc[p].at = "schema" /\ File!Free
  BY ProcsOk DEF File!CreateTables
<1>2. file.version \in 0..7 /\ file \in SoundFiles /\ (NewOne(file) \/ file.version = 7)
  BY <1>1, FileIs DEF ProcOk, FileInv
<1>3. lacking \subseteq 1..6 /\ UNCHANGED <<work, writer, File!disk, File!weather>>
  BY TheTables DEF File!CreateTables
<1>4. CASE lacking = {}
  <2>1. PICK r \in Process : proc' = [proc EXCEPT ![p] = r] /\ r.at = "stamp"
    BY <1>4, WentOn DEF File!CreateTables, Ats
  <2>2. file.tables = File!Tables
    BY <1>2, <1>4, TheTables, FileIs
  <2>3. ProcOk(r, writer = p, file, work)
    BY <1>1, <1>2, <2>1, <2>2 DEF ProcOk
  <2>4. UNCHANGED <<file, work, writer, File!disk, File!weather>>
    BY <1>3, <1>4 DEF File!CreateTables
  <2> QED
    BY <2>1, <2>3, <2>4, GoesOn DEF FileRight, FileKept, File!NewerIsLeftAlone
<1>5. CASE lacking # {}
  <2>1. /\ file' = [File!Created({File!schema[File!Min(lacking)]}, file) EXCEPT !.wal = TRUE]
        /\ UNCHANGED proc
    BY <1>5 DEF File!CreateTables
  <2>2. {File!schema[File!Min(lacking)]} \subseteq File!Tables
    <3>1. lacking \subseteq Nat
      BY <1>3
    <3> HIDE DEF lacking
    <3>2. File!Min(lacking) \in 1..6
      BY <1>3, <1>5, <3>1, LeastCopy
    <3> QED
      BY <3>2, TheTables
  <2> HIDE DEF lacking
  <2>3. /\ ProcMoves(file, file') /\ Remembers(file, file') /\ file'.profile = file.profile
        /\ file'.version = file.version /\ (NewOne(file) => NewOne(file'))
        /\ File!Said(file') = File!Said(file)
    <3> DEFINE new == {File!schema[File!Min(lacking)]}
    <3>1. new \in SUBSET File!Tables /\ file' = [File!Created(new, file) EXCEPT !.wal = TRUE]
      BY <2>1, <2>2
    <3>2. file.version <= 7
      BY <1>2
    <3> HIDE DEF new
    <3> QED
      BY <1>2, <3>1, <3>2, TablesAdded
  <2>4. proc[p] \in Process /\ proc' = [proc EXCEPT ![p] = proc[p]]
    BY <2>1 DEF FileInv
  <2>5. writer = None /\ writer' = None /\ writer # p
    BY <1>1, <1>3 DEF File!Free, File!DatabaseFileAssumption
  <2>6. ProcOk(proc[p], FALSE, file', work')
    BY <1>1, <1>2, <2>3, <2>5 DEF ProcOk
  <2> HIDE DEF ProcOk
  <2>7. FileInv'
    BY <1>3, <2>3, <2>4, <2>5, <2>6, FileMoves
  <2> QED
    BY <1>2, <2>3, <2>7 DEF FileRight, FileKept, File!NewerIsLeftAlone, File!LATEST_SCHEMA_VERSION
<1> QED
  BY <1>4, <1>5

\* The stamp of a new file that has every table.
LEMMA Stamped ==
    ASSUME NEW c \in SoundFiles, c.version \in 0..7, c.version = 7 \/ NewOne(c),
           c.tables = File!Tables
    PROVE  LET d == [c EXCEPT !.version = 7]
           IN /\ ProcMoves(c, d) /\ Remembers(c, d) /\ d.profile = c.profile /\ d.version = 7
<1> DEFINE d == [c EXCEPT !.version = 7]
<1>1. /\ d \in File!Contents /\ d.tables = c.tables /\ d.columns = c.columns /\ d.version = 7
      /\ d.lists = c.lists /\ d.bizumName = c.bizumName /\ d.email = c.email
      /\ d.profile = c.profile
  BY FileIs DEF File!Contents, File!LATEST_SCHEMA_VERSION
<1> HIDE DEF d
<1>2. HasUpTo(d, 7)
  <2>1. CASE c.version = 7
    BY <1>1, <2>1 DEF SoundFiles, HasUpTo
  <2>2. CASE NewOne(c)
    BY <1>1, <2>2, TheColumns DEF NewOne, HasUpTo
  <2> QED
    BY <2>1, <2>2
<1>3. d \in SoundFiles
  BY <1>1, <1>2, TheTables DEF SoundFiles, SaidInPlace
<1> QED
  BY <1>1, <1>3 DEF ProcMoves, Remembers, d

LEMMA StampKeeps ==
    ASSUME FileInv, File!DatabaseFileAssumption, NEW p \in File!Procs, File!Stamp(p) PROVE FileRight
<1>1. ProcOk(proc[p], writer = p, file, work) /\ proc[p].at = "stamp" /\ File!Free
  BY ProcsOk DEF File!Stamp
<1>2. /\ file.version \in 0..7 /\ file \in SoundFiles /\ (NewOne(file) \/ file.version = 7)
      /\ file.tables = File!Tables
  BY <1>1, FileIs DEF ProcOk, FileInv
<1>3. /\ file' = [file EXCEPT !.version = 7] /\ File!Opens(p)
      /\ UNCHANGED <<work, writer, File!disk, File!weather>> /\ writer = None /\ writer' = None
  BY <1>1 DEF File!Stamp, File!Free, File!LATEST_SCHEMA_VERSION
<1>4. /\ ProcMoves(file, file') /\ Remembers(file, file') /\ file'.profile = file.profile
      /\ file'.version = 7
  BY <1>2, <1>3, Stamped
<1>5. PICK r \in Process : proc' = [proc EXCEPT ![p] = r]
                           /\ r.at = IF p \in Hands THEN "backup" ELSE "up"
  BY <1>3, IsOpen
<1>6. ProcOk(r, FALSE, file', work')
  BY <1>4, <1>5 DEF ProcOk
<1> HIDE DEF ProcOk
<1>7. FileInv'
  BY <1>3, <1>4, <1>5, <1>6, FileMoves
<1> QED
  BY <1>1, <1>2, <1>4, <1>7
     DEF FileRight, FileKept, File!NewerIsLeftAlone, File!LATEST_SCHEMA_VERSION

LEMMA NameKeeps ==
    ASSUME FileInv, File!DatabaseFileAssumption, NEW p \in File!Procs, File!Name(p) PROVE FileRight
<1> DEFINE r == [proc[p] EXCEPT !.at = "clear", !.name = File!freeName(p)]
<1>1. /\ proc' = [proc EXCEPT ![p] = r] /\ UNCHANGED <<file, work, writer, File!disk, File!weather>>
      /\ proc[p].at = "backup"
  BY DEF File!Name
<1>2. File!freeName(p) \in CopyNames
  BY NameIsFree DEF FileInv
<1>3. r \in Process /\ r.at = "clear"
  BY <1>2, ZenonT(60) DEF Process, Ats, FileInv
<1> HIDE DEF r
<1>4. ProcOk(r, writer = p, file, work)
  BY <1>1, <1>3, ProcsOk DEF ProcOk
<1> QED
  BY <1>1, <1>3, <1>4, GoesOn DEF FileRight, FileKept, File!NewerIsLeftAlone

LEMMA ClearPartKeeps ==
    ASSUME FileInv, File!DatabaseFileAssumption, NEW p \in File!Procs, File!ClearPart(p)
    PROVE  FileRight
<1>1. PICK r \in Process : proc' = [proc EXCEPT ![p] = r] /\ r.at = "copy"
  BY WentOn DEF File!ClearPart, Ats
<1>2. UNCHANGED <<file, work, writer, backups, second, faults>> /\ proc[p].at = "clear"
  BY DEF File!ClearPart, File!weather
<1>3. ProcOk(r, writer = p, file, work) /\ ~(file.version > 7)
  BY <1>1, <1>2, ProcsOk DEF ProcOk
<1>4. Copies(parts')
  BY WithoutKeeps DEF File!ClearPart, FileInv
<1>5. FileInv'
  <2> HIDE DEF ProcOk
  <2> QED
    BY <1>1, <1>2, <1>3, <1>4, ProcessMoves DEF FileInv
<1> QED
  BY <1>2, <1>3, <1>5 DEF FileRight, FileKept, File!NewerIsLeftAlone, File!LATEST_SCHEMA_VERSION

\* The journal says nothing of what the file holds.
LEMMA JournalApart ==
    ASSUME NEW c \in SoundFiles, NEW wal \in BOOLEAN
    PROVE  LET d == [c EXCEPT !.wal = wal]
           IN /\ d \in SoundFiles /\ d.version = c.version /\ d.tables = c.tables
              /\ d.columns = c.columns /\ d.bizumName = c.bizumName /\ d.email = c.email
              /\ d.lists = c.lists /\ d.profile = c.profile /\ (NewOne(c) => NewOne(d))
<1> DEFINE d == [c EXCEPT !.wal = wal]
<1>1. /\ d \in File!Contents /\ d.version = c.version /\ d.tables = c.tables
      /\ d.columns = c.columns
      /\ d.bizumName = c.bizumName /\ d.email = c.email /\ d.lists = c.lists
      /\ d.profile = c.profile
  BY FileIs DEF File!Contents
<1> HIDE DEF d
<1>2. (NewOne(c) => NewOne(d)) /\ d \in SoundFiles
  BY <1>1 DEF SoundFiles, NewOne, SaidInPlace, HasUpTo
<1> QED
  BY <1>1, <1>2 DEF d

LEMMA CopyKeeps ==
    ASSUME FileInv, File!DatabaseFileAssumption, NEW p \in File!Procs, File!Copy(p) PROVE FileRight
<1>1. UNCHANGED <<file, backups, second, faults>> /\ proc[p].at = "copy"
  BY DEF File!Copy, File!weather
<1>2. ProcOk(proc[p], writer = p, file, work) /\ file \in SoundFiles /\ file.version \in 0..7
      /\ file.version <= 7 /\ ~(file.version > 7)
  BY <1>1, ProcsOk, FileIs DEF ProcOk, FileInv
<1>3. Copies(backups') /\ Copies(parts) /\ second' \in Nat /\ faults' \in Nat
  BY <1>1 DEF FileInv
<1>4. CASE proc[p].name \in DOMAIN parts
  <2>1. parts' = File!Without(parts, proc[p].name) /\ File!Ends(p)
    BY <1>4 DEF File!Copy, File!CopyFails
  <2>2. Copies(parts')
    BY <1>3, <2>1, WithoutKeeps
  <2>3. FileInv'
    BY <1>1, <1>2, <1>3, <2>1, <2>2, EndKeeps
  <2> QED
    BY <1>1, <1>2, <2>3 DEF FileRight, FileKept, File!NewerIsLeftAlone, File!LATEST_SCHEMA_VERSION
<1>5. CASE proc[p].name \notin DOMAIN parts
  <2>1. /\ parts' = File!With(parts, proc[p].name, [file EXCEPT !.wal = FALSE])
        /\ File!Goes(p, "rename") /\ UNCHANGED <<work, writer>>
    BY <1>5 DEF File!Copy
  <2>2. PICK r \in Process : proc' = [proc EXCEPT ![p] = r] /\ r.at = "rename"
    BY <2>1, WentOn DEF Ats
  <2>3. Copies(parts')
    <3> DEFINE c == [file EXCEPT !.wal = FALSE]
    <3>1. c \in SoundFiles /\ c.version = file.version
      BY <1>2, JournalApart
    <3>2. parts' = File!With(parts, proc[p].name, c) /\ c.version <= 7
      BY <1>2, <2>1, <3>1
    <3> HIDE DEF c
    <3> QED
      BY <1>3, <3>1, <3>2, WithKeeps
  <2>4. ProcOk(r, writer' = p, file, work')
    BY <1>1, <1>2, <2>1, <2>2 DEF ProcOk
  <2> HIDE DEF ProcOk
  <2>5. FileInv'
    BY <1>1, <1>2, <1>3, <2>1, <2>2, <2>3, <2>4, ProcessMoves
  <2> QED
    BY <1>1, <1>2, <2>5 DEF FileRight, FileKept, File!NewerIsLeftAlone, File!LATEST_SCHEMA_VERSION
<1> QED
  BY <1>4, <1>5

LEMMA DiskFullKeeps ==
    ASSUME FileInv, File!DatabaseFileAssumption, NEW p \in File!Procs, File!DiskFull(p)
    PROVE  FileRight
<1>1. /\ UNCHANGED <<file, backups, second>> /\ proc[p].at = "copy" /\ faults' = faults + 1
      /\ File!Ends(p) /\ parts' = File!Without(parts, proc[p].name)
  BY DEF File!DiskFull, File!CopyFails
<1>2. ProcOk(proc[p], writer = p, file, work) /\ file.version \in 0..7
      /\ ~(file.version > 7)
  BY <1>1, ProcsOk, FileIs DEF ProcOk, FileInv
<1>3. Copies(backups') /\ Copies(parts') /\ second' \in Nat /\ faults' \in Nat
  <2>1. Copies(backups) /\ Copies(parts) /\ second \in Nat /\ faults \in Nat
    BY DEF FileInv
  <2>2. Copies(parts')
    BY <1>1, <2>1, WithoutKeeps
  <2> QED
    BY <1>1, <2>1, <2>2
<1>4. FileInv'
  BY <1>1, <1>2, <1>3, EndKeeps
<1> QED
  BY <1>1, <1>2, <1>4 DEF FileRight, FileKept, File!NewerIsLeftAlone, File!LATEST_SCHEMA_VERSION

LEMMA RenamePartKeeps ==
    ASSUME FileInv, File!DatabaseFileAssumption, NEW p \in File!Procs, File!RenamePart(p)
    PROVE  FileRight
<1>1. UNCHANGED <<file, second, faults>> /\ proc[p].at = "rename"
  BY DEF File!RenamePart, File!weather
<1>2. ProcOk(proc[p], writer = p, file, work) /\ file.version \in 0..7
      /\ ~(file.version > 7)
  BY <1>1, ProcsOk, FileIs DEF ProcOk, FileInv
<1>3. second' \in Nat /\ faults' \in Nat /\ Copies(backups) /\ Copies(parts)
  BY <1>1 DEF FileInv
<1>4. CASE proc[p].name \notin DOMAIN parts
  <2>1. File!Ends(p) /\ backups' = backups /\ parts' = parts
    BY <1>4 DEF File!RenamePart, File!CopyFails, File!disk
  <2>2. FileInv'
    BY <1>1, <1>2, <1>3, <2>1, EndKeeps
  <2> QED
    BY <1>1, <1>2, <2>2 DEF FileRight, FileKept, File!NewerIsLeftAlone, File!LATEST_SCHEMA_VERSION
<1>5. CASE proc[p].name \in DOMAIN parts
  <2> DEFINE at == IF proc[p].opened THEN "ended" ELSE "wal"
  <2>1. /\ backups' = File!With(backups, proc[p].name, parts[proc[p].name])
        /\ parts' = File!Without(parts, proc[p].name)
        /\ File!Goes(p, at) /\ UNCHANGED <<work, writer>>
    BY <1>5 DEF File!RenamePart
  <2>2. PICK r \in Process : proc' = [proc EXCEPT ![p] = r] /\ r.at \in {"ended", "wal"}
    <3>1. at \in Ats /\ at \in {"ended", "wal"}
      BY DEF Ats
    <3> QED
      BY <2>1, <3>1, WentOn
  <2>3. Copies(parts') /\ Copies(backups')
    <3>1. \/ parts[proc[p].name] = Half
          \/ parts[proc[p].name] \in SoundFiles /\ parts[proc[p].name].version <= 7
      BY <1>3, <1>5 DEF Copies
    <3>2. Copies(parts')
      BY <1>3, <2>1, WithoutKeeps
    <3>3. Copies(backups')
      BY <1>3, <2>1, <3>1, WithKeeps
    <3> QED
      BY <3>2, <3>3
  <2>4. ProcOk(r, writer' = p, file, work')
    BY <1>1, <1>2, <2>1, <2>2 DEF ProcOk
  <2> HIDE DEF ProcOk
  <2>5. FileInv'
    BY <1>1, <1>2, <1>3, <2>1, <2>2, <2>3, <2>4, ProcessMoves
  <2> QED
    BY <1>1, <1>2, <2>5 DEF FileRight, FileKept, File!NewerIsLeftAlone, File!LATEST_SCHEMA_VERSION
<1> QED
  BY <1>4, <1>5

LEMMA JournalKeeps ==
    ASSUME FileInv, File!DatabaseFileAssumption, NEW p \in File!Procs, File!Journal(p)
    PROVE  FileRight
<1>1. /\ file' = [file EXCEPT !.wal = TRUE] /\ proc[p].at = "wal" /\ writer = None
      /\ UNCHANGED <<work, writer, File!disk, File!weather>> /\ writer' = None
  BY DEF File!Journal, File!Free, File!useWriteAheadLog
<1>2. ProcOk(proc[p], writer = p, file, work) /\ file \in SoundFiles /\ file.version \in 0..7
  BY <1>1, ProcsOk, FileIs DEF ProcOk, FileInv
<1>3. /\ file' \in SoundFiles /\ file'.version = file.version /\ file'.tables = file.tables
      /\ file'.bizumName = file.bizumName /\ file'.email = file.email
      /\ file'.lists = file.lists /\ file'.profile = file.profile
      /\ NewOne(file) => NewOne(file')
  BY <1>1, <1>2, JournalApart
<1>4. PICK r \in Process : proc' = [proc EXCEPT ![p] = r] /\ r.at = "begin"
  BY WentOn DEF File!Journal, Ats
<1>5. ProcMoves(file, file') /\ ProcOk(r, FALSE, file', work')
  BY <1>2, <1>3, <1>4 DEF ProcMoves, ProcOk
<1> HIDE DEF ProcOk
<1>6. FileInv'
  BY <1>1, <1>4, <1>5, FileMoves
<1> QED
  BY <1>2, <1>3, <1>6
     DEF FileRight, FileKept, Remembers, File!Said, File!NewerIsLeftAlone,
         File!LATEST_SCHEMA_VERSION

LEMMA BeginKeeps ==
    ASSUME FileInv, File!DatabaseFileAssumption, NEW p \in File!Procs, File!Begin(p) PROVE FileRight
<1>1. UNCHANGED <<file, File!disk, File!weather>> /\ proc[p].at = "begin" /\ writer = None
  BY DEF File!Begin, File!Free
<1>2. ProcOk(proc[p], writer = p, file, work) /\ file \in SoundFiles /\ file.version \in 0..7
  BY <1>1, ProcsOk, FileIs DEF ProcOk, FileInv
<1>3. SUFFICES FileInv'
  BY <1>1, <1>2 DEF FileRight, FileKept, File!NewerIsLeftAlone
<1>4. CASE file.version >= 7
  <2>1. File!Opens(p) /\ UNCHANGED <<work, writer>>
    BY <1>4 DEF File!Begin, File!versionInside, File!LATEST_SCHEMA_VERSION
  <2>2. PICK r \in Process : proc' = [proc EXCEPT ![p] = r]
                             /\ r.at = IF p \in Hands THEN "backup" ELSE "up"
    BY <2>1, IsOpen
  <2>3. ProcOk(r, writer = p, file, work)
    BY <1>1, <1>2, <1>4, <2>2 DEF ProcOk
  <2> HIDE DEF ProcOk
  <2> QED
    BY <1>1, <2>1, <2>2, <2>3, GoesOn
<1>5. CASE ~(file.version >= 7) /\ ~file.wal
  <2>1. File!Ends(p)
    BY <1>5 DEF File!Begin, File!versionInside, File!LATEST_SCHEMA_VERSION
  <2> QED
    BY <1>1, <1>2, <2>1, EndKeeps DEF FileInv, File!disk, File!weather
<1>6. CASE ~(file.version >= 7) /\ file.wal
  <2> DEFINE r == [proc[p] EXCEPT !.at = "migrate", !.seen = file.version]
  <2>1. writer' = p /\ work' = File!Created(File!Tables, file) /\ proc' = [proc EXCEPT ![p] = r]
    BY <1>6 DEF File!Begin, File!versionInside, File!LATEST_SCHEMA_VERSION
  <2>2. r \in Process /\ r.at = "migrate" /\ r.seen = file.version
    BY <1>2, ZenonT(60) DEF Process, Ats, FileInv
  <2> HIDE DEF r
  <2>3. StepsDone(work', file.version) /\ Remembers(file, work')
    <3>1. /\ work' \in File!Contents /\ work'.tables = file.tables \cup File!Tables
          /\ file.columns \subseteq work'.columns
          /\ work'.columns \subseteq file.columns \cup {"method", "bizum_id", "acting_as"}
          /\ work'.lists = file.lists
          /\ work'.bizumName = file.bizumName /\ work'.email = file.email
          /\ work'.profile = file.profile
      BY <1>2, <2>1, FileIs, CreatedIs
    <3>2. work'.tables = File!Tables
      BY <1>2, <3>1, FileIs
    <3> QED
      BY <1>2, <3>1, <3>2 DEF StepsDone, Remembers, SaidInPlace, HasUpTo, SoundFiles
  <2>4. ProcOk(r, writer' = p, file, work')
    BY <1>2, <1>6, <2>1, <2>2, <2>3 DEF ProcOk
  <2>5. UNCHANGED <<file, backups, parts, second, faults>>
    BY <1>1 DEF File!disk, File!weather
  <2> HIDE DEF ProcOk
  <2> QED
    BY <1>1, <1>2, <2>1, <2>2, <2>4, <2>5, ProcessMoves DEF FileInv
<1> QED
  BY <1>4, <1>5, <1>6

LEMMA MigrateKeeps ==
    ASSUME FileInv, File!DatabaseFileAssumption, NEW p \in File!Procs, File!Migrate(p)
    PROVE  FileRight
<1> DEFINE v == proc[p].seen
           s == File!Min(File!due(v))
           r == [proc[p] EXCEPT !.seen = s]
<1>1. /\ UNCHANGED <<file, writer, File!disk, File!weather>> /\ proc[p].at = "migrate"
      /\ File!due(v) # {}
      /\ work' = File!apply(s, work) /\ proc' = [proc EXCEPT ![p] = r]
  BY DEF File!Migrate
<1>2. /\ ProcOk(proc[p], writer = p, file, work) /\ writer = p
      /\ v \in 0..7 /\ file.version < 7 /\ StepsDone(work, v) /\ Remembers(file, work)
      /\ file.version \in 0..7
  BY <1>1, ProcsOk, FileIs DEF ProcOk, FileInv
<1>3. /\ s \in 0..7 /\ StepsDone(File!apply(s, work), s) /\ Remembers(work, File!apply(s, work))
  BY <1>1, <1>2, StepIsDone
<1>4. r \in Process /\ r.at = "migrate" /\ r.seen = s
  BY <1>1, <1>3 DEF Process, FileInv
<1> HIDE DEF v, s, r
<1>5. StepsDone(work', s) /\ Remembers(file, work')
  BY <1>1, <1>2, <1>3 DEF Remembers
<1>6. ProcOk(r, writer' = p, file, work') /\ ~(file.version > 7)
  BY <1>1, <1>2, <1>3, <1>4, <1>5 DEF ProcOk
<1>7. UNCHANGED <<file, backups, parts, second, faults>> /\ writer' = p
  BY <1>1, <1>2 DEF File!disk, File!weather
<1>8. FileInv'
  <2> HIDE DEF ProcOk
  <2> QED
    BY <1>1, <1>2, <1>4, <1>6, <1>7, ProcessMoves DEF FileInv
<1> QED
  BY <1>2, <1>7, <1>8 DEF FileRight, FileKept, File!NewerIsLeftAlone, File!LATEST_SCHEMA_VERSION

LEMMA CommitKeeps ==
    ASSUME FileInv, File!DatabaseFileAssumption, NEW p \in File!Procs, File!Commit(p)
    PROVE  FileRight
<1> DEFINE v == proc[p].seen
<1>1. /\ file' = [work EXCEPT !.version = 7] /\ work' = None /\ writer' = None /\ File!Opens(p)
      /\ UNCHANGED <<File!disk, File!weather>> /\ proc[p].at = "migrate" /\ File!due(v) = {}
  BY DEF File!Commit, File!LATEST_SCHEMA_VERSION
<1>2. /\ ProcOk(proc[p], writer = p, file, work) /\ writer = p
      /\ v \in 0..7 /\ file.version < 7 /\ StepsDone(work, v) /\ Remembers(file, work)
      /\ file.version \in 0..7 /\ file \in SoundFiles
  BY <1>1, ProcsOk, FileIs DEF ProcOk, FileInv
<1>3. v = 7
  BY <1>1, <1>2, NextStep
<1>4. /\ file' \in File!Contents /\ file'.version = 7 /\ file'.tables = work.tables
      /\ file'.columns = work.columns /\ file'.lists = work.lists
      /\ file'.bizumName = work.bizumName /\ file'.email = work.email
      /\ file'.profile = work.profile
  BY <1>1, <1>2 DEF StepsDone, File!Contents, File!LATEST_SCHEMA_VERSION
<1>5. file' \in SoundFiles /\ file'.tables = File!Tables
  BY <1>2, <1>3, <1>4, TheTables DEF StepsDone, SoundFiles, SaidInPlace, HasUpTo
<1>6. ProcMoves(file, file') /\ Remembers(file, file') /\ file.profile # "cleared"
  BY <1>2, <1>4, <1>5, FileIs DEF ProcMoves, Remembers, SoundFiles
<1>7. PICK r \in Process : proc' = [proc EXCEPT ![p] = r]
                           /\ r.at = IF p \in Hands THEN "backup" ELSE "up"
  BY <1>1, IsOpen
<1>8. ProcOk(r, FALSE, file', work')
  BY <1>4, <1>7 DEF ProcOk
<1>9. FileInv'
  <2> HIDE DEF ProcOk, v
  <2> QED
    BY <1>1, <1>2, <1>6, <1>7, <1>8, FileMoves
<1> QED
  BY <1>1, <1>2, <1>4, <1>6, <1>9
     DEF FileRight, FileKept, File!NewerIsLeftAlone, File!LATEST_SCHEMA_VERSION

LEMMA BusyKeeps ==
    ASSUME FileInv, File!DatabaseFileAssumption, NEW p \in File!Procs, File!Busy(p) PROVE FileRight
<1>1. /\ UNCHANGED <<file, backups, parts, second>> /\ faults' = faults + 1 /\ File!Ends(p)
      /\ proc[p].at \in {"schema", "stamp", "wal", "begin"}
  BY DEF File!Busy, File!disk
<1>2. ProcOk(proc[p], writer = p, file, work) /\ file.version \in 0..7 /\ ~(file.version > 7)
  BY <1>1, ProcsOk, FileIs DEF ProcOk, FileInv
<1>3. Copies(backups') /\ Copies(parts') /\ second' \in Nat /\ faults' \in Nat
  BY <1>1 DEF FileInv
<1>4. FileInv'
  BY <1>1, <1>2, <1>3, EndKeeps
<1> QED
  BY <1>1, <1>4 DEF FileRight, FileKept, File!NewerIsLeftAlone, File!disk

LEMMA CrashKeeps ==
    ASSUME FileInv, File!DatabaseFileAssumption, NEW p \in File!Procs, File!Crash(p) PROVE FileRight
<1>1. /\ UNCHANGED <<file, backups, second>> /\ faults' = faults + 1 /\ File!Ends(p)
      /\ \/ parts' = parts
         \/ proc[p].at = "copy" /\ parts' = File!With(parts, proc[p].name, Half)
  BY DEF File!Crash
<1>2. ProcOk(proc[p], writer = p, file, work) /\ file.version \in 0..8
  BY ProcsOk, FileIs DEF FileInv
<1>3. /\ Copies(backups) /\ Copies(parts) /\ Copies(backups') /\ second' \in Nat /\ faults' \in Nat
      /\ file.version > 7 => DOMAIN backups = {} /\ DOMAIN parts = {}
  BY <1>1 DEF FileInv
<1>4. Copies(parts')
  <2>1. CASE parts' = parts
    BY <1>3, <2>1
  <2>2. CASE parts' = File!With(parts, proc[p].name, Half)
    BY <1>3, <2>2, WithKeeps
  <2> QED
    BY <1>1, <2>1, <2>2
<1>5. file.version > 7 => parts' = parts
  BY <1>1, <1>2 DEF ProcOk
<1>6. FileInv'
  BY <1>1, <1>3, <1>4, <1>5, EndKeeps
<1> QED
  BY <1>1, <1>5, <1>6
     DEF FileRight, FileKept, File!NewerIsLeftAlone, File!LATEST_SCHEMA_VERSION, File!disk

LEMMA RestoreKeeps ==
    ASSUME FileInv, File!DatabaseFileAssumption, File!Restore PROVE FileRight
<1>1. PICK name \in DOMAIN backups : backups[name] # Half /\ file' = backups[name]
  BY DEF File!Restore
<1>2. /\ \A p \in File!Procs : proc[p].at \in {"off", "ended"}
      /\ faults' = faults + 1 /\ UNCHANGED <<work, writer, backups, parts, proc, second>>
  BY DEF File!Restore, File!disk
<1>3. file' \in SoundFiles /\ file'.version <= 7 /\ ~(file.version > 7)
  BY <1>1 DEF FileInv, Copies
<1>4. \A p \in File!Procs : ProcOk(proc'[p], writer' = p, file', work')
  <2> TAKE p \in File!Procs
  <2>1. ProcOk(proc[p], writer = p, file, work) /\ proc[p].at \in {"off", "ended"}
    BY <1>2, ProcsOk
  <2> QED
    BY <1>2, <2>1 DEF ProcOk
<1>5. faults' \in Nat /\ faults' > faults /\ ~(file'.version > 7)
  BY <1>2, <1>3, FileIs DEF FileInv
<1>6. FileInv'
  BY <1>2, <1>3, <1>4, <1>5 DEF FileInv
<1>7. FileKept \/ File!Restored
  BY <1>1, <1>5 DEF FileKept, File!Restored
<1> QED
  BY <1>3, <1>6, <1>7 DEF FileRight, File!NewerIsLeftAlone, File!LATEST_SCHEMA_VERSION

\* What the server writes leaves a whole file whole.
LEMMA Served ==
    ASSUME NEW c \in SoundFiles, c.version = 7, NEW d,
           d \in {[c EXCEPT !.lists = TRUE, !.profile = "seeded"],
                  [c EXCEPT !.bizumName = "table"],
                  [c EXCEPT !.profile = IF @ = "seeded" THEN "cleared" ELSE @]}
    PROVE  ProcMoves(c, d) /\ Remembers(c, d)
<1>1. /\ d \in File!Contents /\ d.version = 7 /\ d.tables = c.tables /\ d.columns = c.columns
      /\ d.bizumName \in {c.bizumName, "table"} /\ d.email = c.email
      /\ c.lists => d.lists
      /\ \/ d.profile \in {"seeded", "cleared"}
         \/ d.profile = c.profile /\ d.lists = c.lists
  BY FileIs DEF File!Contents, File!Places
<1>2. d \in SoundFiles
  BY <1>1, TheTables DEF SoundFiles, SaidInPlace, HasUpTo
<1> QED
  BY <1>1, <1>2 DEF ProcMoves, Remembers

LEMMA ServeKeeps ==
    ASSUME FileInv, File!DatabaseFileAssumption, NEW p \in File!Procs, File!Serve(p) PROVE FileRight
<1>1. /\ p \in Servers /\ proc[p].at = "up" /\ writer = None /\ writer' = None
      /\ UNCHANGED <<work, File!disk, proc, File!weather>>
  BY DEF File!Serve, File!Free
<1>2. file \in SoundFiles /\ file.version = 7 /\ ProcOk(proc[p], writer = p, file, work)
  BY <1>1, ProcsOk DEF FileInv, ProcOk
<1>3. ProcMoves(file, file') /\ Remembers(file, file')
  BY <1>2, Served DEF File!Serve
<1>4. proc[p] \in Process /\ proc' = [proc EXCEPT ![p] = proc[p]] /\ writer # p
  BY <1>1 DEF FileInv, File!DatabaseFileAssumption
<1>5. ProcOk(proc[p], FALSE, file', work')
  BY <1>1, <1>2, <1>3, <1>4 DEF ProcOk, ProcMoves
<1>6. FileInv'
  <2> HIDE DEF ProcOk
  <2> QED
    BY <1>1, <1>3, <1>4, <1>5, FileMoves
<1> QED
  BY <1>1, <1>2, <1>3, <1>6
     DEF FileRight, FileKept, ProcMoves, File!NewerIsLeftAlone, File!LATEST_SCHEMA_VERSION

LEMMA ClockKeeps ==
    ASSUME FileInv, File!Tick \/ UNCHANGED File!vars PROVE FileRight
<1>1. UNCHANGED <<file, work, writer, File!disk, proc, faults>> /\ second' \in Nat
  BY DEF File!Tick, File!vars, File!disk, FileInv
<1>2. FileInv'
  BY <1>1 DEF FileInv, File!disk
<1> QED
  BY <1>1, <1>2 DEF FileRight, FileKept, File!NewerIsLeftAlone

LEMMA EveryFileStep ==
    ASSUME FileInv, File!DatabaseFileAssumption, [File!Next]_(File!vars) PROVE FileRight
<1>1. ASSUME NEW p \in File!Procs,
             \/ File!Open(p) \/ File!Starts(p) \/ File!DiskFull(p)
             \/ File!Busy(p) \/ File!Crash(p) \/ File!Serve(p)
      PROVE  FileRight
  BY <1>1, OpenKeeps, ReadVersionKeeps, LookKeeps, CreateTablesKeeps, StampKeeps, NameKeeps,
     ClearPartKeeps, CopyKeeps, RenamePartKeeps, JournalKeeps, BeginKeeps, MigrateKeeps,
     CommitKeeps, DiskFullKeeps, BusyKeeps, CrashKeeps, ServeKeeps DEF File!Starts
<1> QED
  BY <1>1, RestoreKeeps, ClockKeeps DEF File!Next, File!Quiet

-----------------------------------------------------------------------------
(* The copies, while no two processes copy at once *)

Copying == {"clear", "copy", "rename"}

\* A whole copy of what c says stands under a final name.
Copied(c, files) == \E n \in DOMAIN files : files[n] # Half /\ File!Said(files[n]) = File!Said(c)

\* What a process relies on of the copies, the finished ones and those being written.
CopyOk(r, c, files, halves) ==
    /\ r.at \in Copying => r.name \notin DOMAIN files
    /\ r.at = "rename" => /\ r.name \in DOMAIN halves /\ halves[r.name] # Half
                          /\ c.version < 7 => File!Said(halves[r.name]) = File!Said(c)
    /\ r.at \in {"wal", "begin", "migrate"} /\ c.version < 7 => Copied(c, files)

CopyInv ==
    /\ \A p, q \in File!Procs : proc[p].at \in Copying /\ proc[q].at \in Copying => p = q
    /\ \A p \in File!Procs : CopyOk(proc[p], file, backups, parts)

CopyRight == CopyInv' /\ File!CopyBeforeChange /\ File!BackupsAreKept

\* Only who copies touches the copies, and finished ones stay.
LEMMA CopiesMove ==
    ASSUME FileRight, CopyInv, ~File!Restored, Apart, NEW p \in File!Procs,
           \A q \in File!Procs \ {p} : proc'[q] = proc[q],
           \/ UNCHANGED File!disk
           \/ proc[p].at \in Copying,
           File!BackupsAreKept,
           proc'[p].at \in Copying =>
              proc[p].at \in Copying \/ \A q \in File!Procs : proc[q].at \notin Copying,
           CopyOk(proc'[p], file', backups', parts')
    PROVE  CopyRight
<1>1. \/ file' = file
      \/ File!Said(file') = File!Said(file)
      \/ /\ file'.version = 7
         /\ file.version = 7 \/ \E q \in File!Procs : proc[q].at \in {"stamp", "migrate"}
  BY DEF FileRight, FileKept
<1>2. file'.version < 7 => File!Said(file') = File!Said(file)
  BY <1>1
<1>3. File!Said(file') = File!Said(file) => file'.version = file.version
  BY DEF File!Said
<1>4. ASSUME NEW q \in File!Procs \ {p} PROVE CopyOk(proc'[q], file', backups', parts')
  <2>1. proc'[q] = proc[q] /\ CopyOk(proc[q], file, backups, parts)
    BY DEF CopyInv
  <2>2. CASE UNCHANGED File!disk
    <3>1. backups' = backups /\ parts' = parts
      BY <2>2 DEF File!disk
    <3> QED
      BY <1>2, <1>3, <2>1, <3>1 DEF CopyOk, Copied
  <2>3. CASE proc[p].at \in Copying
    <3>1. proc[q].at \notin Copying
      BY <2>3 DEF CopyInv
    <3>2. Copied(file, backups) /\ file'.version < 7 => Copied(file', backups')
      BY <1>2 DEF Copied, File!BackupsAreKept
    <3> QED
      BY <1>2, <1>3, <2>1, <3>1, <3>2 DEF CopyOk, Copying
  <2> QED
    BY <2>2, <2>3
<1>5. \A q \in File!Procs : CopyOk(proc'[q], file', backups', parts')
  BY <1>4
<1>6. \A q, t \in File!Procs : proc'[q].at \in Copying /\ proc'[t].at \in Copying => q = t
  BY DEF CopyInv
<1>7. File!CopyBeforeChange
  <2> SUFFICES ASSUME file.version < 7, File!Said(file') # File!Said(file),
                      ~ \E q \in File!Procs : proc[q].at = "stamp"
               PROVE  \E name \in DOMAIN backups :
                         backups[name] # Half /\ File!Said(backups[name]) = File!Said(file)
    BY DEF File!CopyBeforeChange, File!LATEST_SCHEMA_VERSION
  <2>1. PICK q \in File!Procs : proc[q].at = "migrate"
    BY <1>1
  <2> QED
    BY <2>1 DEF CopyInv, CopyOk, Copied
<1> QED
  BY <1>5, <1>6, <1>7 DEF CopyRight, CopyInv

\* The steps that take no copy.
Others(p) ==
    \/ File!Open(p) \/ File!ReadVersion(p) \/ File!Look(p) \/ File!CreateTables(p) \/ File!Stamp(p)
    \/ File!Journal(p) \/ File!Begin(p) \/ File!Migrate(p) \/ File!Commit(p) \/ File!Busy(p)
    \/ File!Serve(p)

LEMMA NotCopying ==
    ASSUME FileInv, NEW p \in File!Procs, Others(p)
    PROVE  /\ \A q \in File!Procs \ {p} : proc'[q] = proc[q]
           /\ proc'[p].at \notin Copying
           /\ proc'[p].at \in {"wal", "begin", "migrate"} =>
                 proc[p].at \in {"wal", "begin", "migrate"}
<1>0. proc \in [File!Procs -> Process]
  BY DEF FileInv
<1> DEFINE Moved == /\ \A q \in File!Procs \ {p} : proc'[q] = proc[q]
                    /\ proc'[p].at \notin Copying
                    /\ proc'[p].at \in {"wal", "begin", "migrate"} =>
                          proc[p].at \in {"wal", "begin", "migrate"}
<1>1. ASSUME NEW at \in Ats \ Copying, File!Goes(p, at),
             at \in {"wal", "begin", "migrate"} => proc[p].at \in {"wal", "begin", "migrate"}
      PROVE  Moved
  BY <1>0, <1>1 DEF File!Goes, Process
<1>2. ASSUME File!Opens(p) PROVE Moved
  BY <1>0, <1>2 DEF File!Opens, Process, Copying
<1>3. ASSUME File!Ends(p) PROVE Moved
  BY <1>0, <1>3 DEF File!Ends, File!Idle, Copying
<1>4. CASE File!Open(p)
  BY <1>1, <1>4 DEF File!Open, Ats, Copying
<1>5. CASE File!ReadVersion(p)
  <2>1. CASE File!Newer(file.version)
    BY <1>3, <1>5, <2>1 DEF File!ReadVersion
  <2>2. CASE ~File!Newer(file.version)
    BY <1>0, <1>5, <2>2 DEF File!ReadVersion, Copying, Process
  <2> QED
    BY <2>1, <2>2
<1>6. CASE File!Look(p)
  <2>1. File!Goes(p, "schema") \/ File!Goes(p, "backup") \/ File!Opens(p)
    BY <1>6 DEF File!Look
  <2> QED
    BY <1>1, <1>2, <2>1 DEF Ats, Copying
<1>7. CASE File!CreateTables(p)
  <2>1. File!Goes(p, "stamp") \/ (proc' = proc /\ proc[p].at = "schema")
    BY <1>7 DEF File!CreateTables
  <2> QED
    BY <1>1, <2>1 DEF Ats, Copying
<1>8. CASE File!Stamp(p) \/ File!Commit(p)
  BY <1>2, <1>8 DEF File!Stamp, File!Commit
<1>9. CASE File!Journal(p)
  BY <1>1, <1>9 DEF File!Journal, Ats, Copying
<1>10. CASE File!Begin(p)
  <2>1. \/ File!Opens(p) \/ File!Ends(p)
        \/ /\ proc' = [proc EXCEPT ![p].at = "migrate", ![p].seen = File!versionInside(p)]
           /\ proc[p].at = "begin"
    BY <1>10 DEF File!Begin
  <2>2. ASSUME proc' = [proc EXCEPT ![p].at = "migrate", ![p].seen = File!versionInside(p)],
               proc[p].at = "begin"
        PROVE  Moved
    BY <1>0, <2>2 DEF Process, Copying
  <2> QED
    BY <1>2, <1>3, <2>1, <2>2
<1>11. CASE File!Migrate(p)
  BY <1>0, <1>11 DEF File!Migrate, Process, Copying
<1>12. CASE File!Busy(p)
  BY <1>3, <1>12 DEF File!Busy
<1>13. CASE File!Serve(p)
  BY <1>13 DEF File!Serve, Copying
<1> QED
  BY <1>4, <1>5, <1>6, <1>7, <1>8, <1>9, <1>10, <1>11, <1>12, <1>13 DEF Others

LEMMA OthersCopy ==
    ASSUME FileInv, File!DatabaseFileAssumption, Apart, CopyInv, NEW p \in File!Procs, Others(p)
    PROVE  CopyRight
<1>1. FileRight
  BY OpenKeeps, ReadVersionKeeps, LookKeeps, CreateTablesKeeps, StampKeeps, JournalKeeps,
     BeginKeeps, MigrateKeeps, CommitKeeps, BusyKeeps, ServeKeeps DEF Others
<1>2. proc \in [File!Procs -> Process] /\ CopyOk(proc[p], file, backups, parts)
  BY DEF FileInv, CopyInv
<1>3. UNCHANGED <<backups, parts>> /\ (faults' = faults \/ file' = file)
  BY DEF File!Open, File!ReadVersion, File!Look, File!CreateTables, File!Stamp, File!Journal,
         File!Begin, File!Migrate, File!Commit, File!Busy, File!Serve, Others, File!disk,
         File!weather
<1>4. ~File!Restored
  <2>1. faults \in Nat
    BY DEF FileInv
  <2> QED
    BY <1>3, <2>1 DEF File!Restored
<1>5. /\ \A q \in File!Procs \ {p} : proc'[q] = proc[q]
      /\ proc'[p].at \notin Copying
      /\ proc'[p].at \in {"wal", "begin", "migrate"} => proc[p].at \in {"wal", "begin", "migrate"}
  BY NotCopying
<1>6. \/ file' = file
      \/ File!Said(file') = File!Said(file)
      \/ file'.version = 7
  BY <1>1, <1>4 DEF FileRight, FileKept
<1>7. CopyOk(proc'[p], file', backups', parts')
  BY <1>2, <1>3, <1>5, <1>6 DEF CopyOk, Copied, Copying, File!Said
<1>8. File!BackupsAreKept /\ UNCHANGED File!disk
  BY <1>3 DEF File!BackupsAreKept, File!disk
<1> HIDE DEF CopyOk
<1> QED
  BY <1>1, <1>4, <1>5, <1>7, <1>8, CopiesMove

LEMMA NameCopies ==
    ASSUME FileInv, File!DatabaseFileAssumption, Apart, CopyInv, NEW p \in File!Procs, File!Name(p)
    PROVE  CopyRight
<1>1. FileRight /\ UNCHANGED <<file, File!disk, File!weather>>
  BY NameKeeps DEF File!Name
<1>2. \A q \in File!Procs : proc[q].at \notin Copying
  BY DEF File!Name, Copying
<1>3. /\ proc[p] \in Process /\ proc \in [File!Procs -> Process]
      /\ proc' = [proc EXCEPT ![p].at = "clear", ![p].name = File!freeName(p)]
  BY DEF File!Name, FileInv
<1> DEFINE free == File!freeName(p)
<1>4. free \in CopyNames /\ free \notin DOMAIN backups
  BY NameIsFree DEF FileInv
<1> HIDE DEF free
<1>5. proc' = [proc EXCEPT ![p].at = "clear", ![p].name = free]
  BY <1>3 DEF free
<1>6. /\ \A q \in File!Procs \ {p} : proc'[q] = proc[q]
      /\ proc'[p].at = "clear" /\ proc'[p].name = free
  BY <1>3, <1>5 DEF Process
<1>7. CopyOk(proc'[p], file', backups', parts')
  BY <1>1, <1>4, <1>6 DEF CopyOk, File!disk
<1>8. File!BackupsAreKept /\ ~File!Restored
  BY <1>1 DEF File!BackupsAreKept, File!Restored, File!disk
<1> HIDE DEF CopyOk
<1> QED
  BY <1>1, <1>2, <1>6, <1>7, <1>8, CopiesMove

LEMMA CopierMoves ==
    ASSUME FileInv, File!DatabaseFileAssumption, Apart, CopyInv, NEW p \in File!Procs,
           \/ File!ClearPart(p) \/ File!Copy(p) \/ File!DiskFull(p)
           \/ File!RenamePart(p) \/ File!Crash(p)
    PROVE  CopyRight
<1>1. FileRight /\ file' = file /\ ~File!Restored
  <2>1. file' = file
    BY DEF File!ClearPart, File!Copy, File!DiskFull, File!RenamePart, File!Crash
  <2> QED
    BY <2>1, ClearPartKeeps, CopyKeeps, DiskFullKeeps, RenamePartKeeps, CrashKeeps DEF File!Restored
<1>2. proc \in [File!Procs -> Process] /\ CopyOk(proc[p], file, backups, parts)
  BY DEF FileInv, CopyInv
<1>3. ASSUME NEW at \in Ats, File!Goes(p, at)
      PROVE  /\ \A q \in File!Procs \ {p} : proc'[q] = proc[q]
             /\ proc'[p].at = at /\ proc'[p].name = proc[p].name
  BY <1>2, <1>3 DEF File!Goes, Process
<1>4. ASSUME File!Ends(p)
      PROVE  (\A q \in File!Procs \ {p} : proc'[q] = proc[q]) /\ proc'[p].at \in {"off", "ended"}
  BY <1>2, <1>4 DEF File!Ends, File!Idle
<1>5. CASE File!ClearPart(p)
  <2>1. /\ backups' = backups /\ proc[p].at \in Copying /\ File!Goes(p, "copy")
        /\ proc'[p].at = "copy" /\ proc'[p].name = proc[p].name
        /\ \A q \in File!Procs \ {p} : proc'[q] = proc[q]
    BY <1>3, <1>5 DEF File!ClearPart, Ats, Copying
  <2>2. CopyOk(proc'[p], file', backups', parts')
    BY <1>2, <2>1 DEF CopyOk, Copying
  <2>3. File!BackupsAreKept
    BY <2>1 DEF File!BackupsAreKept
  <2> HIDE DEF CopyOk
  <2> QED
    BY <1>1, <2>1, <2>2, <2>3, CopiesMove
<1>6. CASE File!Copy(p) \/ File!DiskFull(p)
  <2>1. backups' = backups /\ proc[p].at = "copy" /\ proc[p].at \in Copying /\ File!BackupsAreKept
    BY <1>6 DEF File!Copy, File!DiskFull, Copying, File!BackupsAreKept
  <2>2. CASE File!Ends(p)
    <3>1. CopyOk(proc'[p], file', backups', parts') /\ proc'[p].at \notin Copying
      BY <1>4, <2>2 DEF CopyOk, Copying
    <3> HIDE DEF CopyOk
    <3> QED
      BY <1>1, <1>4, <2>1, <2>2, <3>1, CopiesMove
  <2>3. CASE ~File!Ends(p)
    <3> DEFINE c == [file EXCEPT !.wal = FALSE]
    <3>1. parts' = File!With(parts, proc[p].name, c) /\ File!Goes(p, "rename")
      BY <1>6, <2>3 DEF File!Copy, File!DiskFull, File!CopyFails
    <3>2. c \in SoundFiles /\ File!Said(c) = File!Said(file) /\ c # Half
      BY JournalApart DEF File!Said, FileInv, File!DatabaseFileAssumption, SoundFiles
    <3> HIDE DEF c
    <3>3. proc[p].name \in DOMAIN parts' /\ parts'[proc[p].name] = c
      BY <3>1 DEF File!With
    <3>4. /\ proc'[p].at = "rename" /\ proc'[p].name = proc[p].name
          /\ \A q \in File!Procs \ {p} : proc'[q] = proc[q]
      BY <1>3, <3>1 DEF Ats
    <3>5. CopyOk(proc'[p], file', backups', parts')
      BY <1>1, <1>2, <2>1, <3>2, <3>3, <3>4 DEF CopyOk, Copying
    <3> HIDE DEF CopyOk
    <3> QED
      BY <1>1, <2>1, <3>4, <3>5, CopiesMove
  <2> QED
    BY <2>2, <2>3
<1>7. CASE File!RenamePart(p)
  <2>1. /\ proc[p].at = "rename" /\ proc[p].at \in Copying
        /\ proc[p].name \notin DOMAIN backups /\ proc[p].name \in DOMAIN parts
        /\ parts[proc[p].name] # Half
        /\ file.version < 7 => File!Said(parts[proc[p].name]) = File!Said(file)
    BY <1>2, <1>7 DEF File!RenamePart, CopyOk, Copying
  <2> DEFINE at == IF proc[p].opened THEN "ended" ELSE "wal"
  <2>2. backups' = File!With(backups, proc[p].name, parts[proc[p].name]) /\ File!Goes(p, at)
    BY <1>7, <2>1 DEF File!RenamePart
  <2>3. /\ DOMAIN backups' = DOMAIN backups \cup {proc[p].name}
        /\ backups'[proc[p].name] = parts[proc[p].name]
        /\ \A n \in DOMAIN backups \ {proc[p].name} : backups'[n] = backups[n]
    BY <2>2, WithKeeps DEF File!With
  <2>4. File!BackupsAreKept
    BY <2>1, <2>3 DEF File!BackupsAreKept
  <2>5. at \in {"ended", "wal"} /\ at \in Ats
    BY DEF Ats
  <2> HIDE DEF at
  <2>6. proc'[p].at \in {"ended", "wal"} /\ \A q \in File!Procs \ {p} : proc'[q] = proc[q]
    BY <1>3, <2>2, <2>5
  <2>7. file.version < 7 => Copied(file, backups')
    BY <2>1, <2>3 DEF Copied
  <2>8. CopyOk(proc'[p], file', backups', parts') /\ proc'[p].at \notin Copying
    BY <1>1, <2>6, <2>7 DEF CopyOk, Copying
  <2> HIDE DEF CopyOk
  <2> QED
    BY <1>1, <2>1, <2>4, <2>6, <2>8, CopiesMove
<1>8. CASE File!Crash(p)
  <2>1. /\ backups' = backups /\ File!Ends(p) /\ File!BackupsAreKept
        /\ UNCHANGED File!disk \/ proc[p].at \in Copying
    BY <1>8 DEF File!Crash, Copying, File!BackupsAreKept, File!disk
  <2>2. CopyOk(proc'[p], file', backups', parts') /\ proc'[p].at \notin Copying
    BY <1>4, <2>1 DEF CopyOk, Copying
  <2> HIDE DEF CopyOk
  <2> QED
    BY <1>1, <1>4, <2>1, <2>2, CopiesMove
<1> QED
  BY <1>5, <1>6, <1>7, <1>8

LEMMA RestoreCopies ==
    ASSUME FileInv, CopyInv, File!Restore PROVE CopyRight
<1>1. /\ \A p \in File!Procs : proc[p].at \in {"off", "ended"}
      /\ backups' = backups /\ parts' = parts /\ proc' = proc /\ faults' = faults + 1
      /\ \E name \in DOMAIN backups : backups[name] = file'
  BY DEF File!Restore, File!disk
<1>2. CopyInv' /\ File!BackupsAreKept
  BY <1>1 DEF CopyInv, CopyOk, Copying, File!BackupsAreKept
<1>3. faults' > faults
  BY <1>1 DEF FileInv
<1>4. File!CopyBeforeChange
  BY <1>1, <1>3 DEF File!CopyBeforeChange, File!Restored
<1> QED
  BY <1>2, <1>4 DEF CopyRight

LEMMA ClockCopies ==
    ASSUME CopyInv, File!Tick \/ UNCHANGED File!vars PROVE CopyRight
<1>1. UNCHANGED <<file, backups, parts, proc>>
  BY DEF File!Tick, File!vars, File!disk
<1> QED
  BY <1>1 DEF CopyRight, CopyInv, CopyOk, Copied, File!CopyBeforeChange, File!BackupsAreKept

LEMMA EveryCopy ==
    ASSUME FileInv, File!DatabaseFileAssumption, Apart, CopyInv, [File!Next]_(File!vars)
    PROVE  CopyRight
<1>1. ASSUME NEW p \in File!Procs,
             \/ File!Open(p) \/ File!Starts(p) \/ File!DiskFull(p)
             \/ File!Busy(p) \/ File!Crash(p) \/ File!Serve(p)
      PROVE  CopyRight
  BY <1>1, OthersCopy, NameCopies, CopierMoves DEF File!Starts, Others
<1> QED
  BY <1>1, RestoreCopies, ClockCopies DEF File!Next, File!Quiet

-----------------------------------------------------------------------------
(* The names of the copies, and the bounds *)

\* Who copies has chosen a name, and only a migration has a transaction open.
NamesHeld ==
    /\ writer = None => work = None
    /\ second \in 0..Seconds /\ faults \in 0..Faults
    /\ DOMAIN backups \subseteq Chosen(second)
    /\ \A p \in File!Procs : proc[p].at \in Copying => proc[p].name \in Chosen(second)

LEMMA FileTypesHold ==
    ASSUME FileInv, File!DatabaseFileAssumption, NamesHeld PROVE File!TypeOK
<1>1. file \in File!Contents
  BY DEF FileInv, SoundFiles
<1>2. ASSUME NEW p \in File!Procs, writer = p PROVE work \in File!Contents
  <2>1. ProcOk(proc[p], TRUE, file, work)
    BY <1>2 DEF FileInv
  <2> QED
    BY <2>1 DEF ProcOk, StepsDone
<1>3. work \in File!Contents \cup {None} /\ ((writer = None) <=> (work = None))
  BY <1>2 DEF NamesHeld, FileInv, File!DatabaseFileAssumption
<1>4. \A p \in File!Procs : (writer = p) <=> (proc[p].at = "migrate")
  BY ProcsOk DEF ProcOk
<1>5. \A n \in DOMAIN backups : backups[n] \in File!Contents \cup {Half}
  BY DEF FileInv, Copies, SoundFiles
<1> QED
  BY <1>1, <1>3, <1>4, <1>5 DEF File!TypeOK, NamesHeld, FileInv, Chosen

\* How a step moves the clock, the faults, and what is named.
LEMMA NamesKept ==
    ASSUME FileInv, FileInv', File!DatabaseFileAssumption, NamesHeld, [File!Next]_(File!vars)
    PROVE  NamesHeld'
<1>1. ASSUME NEW s \in 0..Seconds, second \in 0..s PROVE Chosen(second) \subseteq Chosen(s)
  <2>1. 0..second \subseteq 0..s
    BY <1>1
  <2> QED
    BY <2>1 DEF Chosen
<1>2. ASSUME UNCHANGED <<work, writer, second, backups, proc>>, faults' \in 0..Faults
      PROVE  NamesHeld'
  BY <1>2 DEF NamesHeld
<1>3. ASSUME NEW p \in File!Procs, Others(p) PROVE NamesHeld'
  <2>1. /\ \A q \in File!Procs \ {p} : proc'[q] = proc[q]
        /\ proc'[p].at \notin Copying
    BY <1>3, NotCopying
  <2>2. UNCHANGED <<second, backups>> /\ faults' \in 0..Faults
    BY <1>3
       DEF Others, File!Open, File!ReadVersion, File!Look, File!CreateTables, File!Stamp,
           File!Journal, File!Begin, File!Migrate, File!Commit, File!Busy, File!Serve, NamesHeld,
           File!disk, File!weather, File!DatabaseFileAssumption
  <2>3. writer' = None => work' = None
    <3>1. proc[p].at = "migrate" => writer = p /\ writer # None
      BY ProcsOk DEF ProcOk, File!DatabaseFileAssumption
    <3>2. File!Ends(p) => (writer' = None => work' = None)
      BY DEF File!Ends, NamesHeld
    <3>3. \/ UNCHANGED <<work, writer>> \/ File!Ends(p) \/ writer' = p \/ work' = None
          \/ writer' = writer /\ writer # None
      BY <1>3, <3>1
         DEF Others, File!Open, File!ReadVersion, File!Look, File!CreateTables, File!Stamp,
             File!Journal, File!Begin, File!Migrate, File!Commit, File!Busy, File!Serve
    <3> QED
      BY <3>2, <3>3 DEF NamesHeld, File!DatabaseFileAssumption
  <2> QED
    BY <2>1, <2>2, <2>3 DEF NamesHeld
<1>4. ASSUME NEW p \in File!Procs,
             \/ File!Name(p) \/ File!ClearPart(p) \/ File!Copy(p)
             \/ File!DiskFull(p) \/ File!RenamePart(p) \/ File!Crash(p)
      PROVE  NamesHeld'
  <2>1. proc \in [File!Procs -> Process]
    BY DEF FileInv
  <2>2. File!Ends(p) => /\ writer' = None => work' = None
                        /\ proc'[p].at \notin Copying
                        /\ \A q \in File!Procs \ {p} : proc'[q] = proc[q]
    BY <2>1 DEF File!Ends, NamesHeld, File!Idle, Copying
  <2>3. writer' = None => work' = None
    BY <1>4, <2>2
       DEF File!Name, File!ClearPart, File!Copy, File!DiskFull, File!RenamePart, File!Crash,
           File!CopyFails, NamesHeld
  <2>4. second' = second /\ faults' \in 0..Faults
    BY <1>4
       DEF File!Name, File!ClearPart, File!Copy, File!DiskFull, File!RenamePart, File!Crash,
           File!weather, NamesHeld, File!DatabaseFileAssumption
  <2>5. proc'[p].at \in Copying => proc'[p].name \in Chosen(second)
    <3>1. CASE File!Name(p)
      <4> DEFINE free == File!freeName(p)
      <4>1. free \in Chosen(second)
        BY NameIsFree DEF FileInv
      <4>2. proc' = [proc EXCEPT ![p].at = "clear", ![p].name = free]
        BY <3>1 DEF File!Name
      <4> HIDE DEF free
      <4> QED
        BY <2>1, <4>1, <4>2 DEF Process
    <3>2. CASE ~File!Name(p)
      <4>1. File!Ends(p) \/ (proc[p].at \in Copying /\ \E at \in Ats : File!Goes(p, at))
        BY <1>4, <3>2
           DEF File!ClearPart, File!Copy, File!DiskFull, File!RenamePart, File!Crash,
               File!CopyFails, Copying, Ats
      <4>2. (\E at \in Ats : File!Goes(p, at)) => proc'[p].name = proc[p].name
        BY <2>1 DEF File!Goes, Process
      <4> QED
        BY <2>2, <4>1, <4>2 DEF NamesHeld
    <3> QED
      BY <3>1, <3>2
  <2>6. \A q \in File!Procs \ {p} : proc'[q] = proc[q]
    BY <1>4, <2>1, <2>2
       DEF File!Name, File!ClearPart, File!Copy, File!DiskFull, File!RenamePart, File!Crash,
           File!CopyFails, File!Goes
  <2>7. DOMAIN backups' \subseteq Chosen(second)
    <3>1. CASE File!RenamePart(p)
      <4>1. proc[p].name \in Chosen(second)
        BY <3>1 DEF File!RenamePart, NamesHeld, Copying
      <4>2. DOMAIN backups' \subseteq DOMAIN backups \cup {proc[p].name}
        BY <3>1 DEF File!RenamePart, File!With, File!disk
      <4> QED
        BY <4>1, <4>2 DEF NamesHeld
    <3>2. CASE ~File!RenamePart(p)
      BY <1>4, <3>2
         DEF File!Name, File!ClearPart, File!Copy, File!DiskFull, File!Crash, File!disk, NamesHeld
    <3> QED
      BY <3>1, <3>2
  <2> QED
    BY <2>3, <2>4, <2>5, <2>6, <2>7 DEF NamesHeld
<1>5. CASE File!Restore
  BY <1>2, <1>5 DEF File!Restore, File!disk, NamesHeld, File!DatabaseFileAssumption
<1>6. CASE File!Tick
  <2>1. /\ second' \in 0..Seconds /\ second \in 0..second'
        /\ UNCHANGED <<work, writer, backups, proc, faults>>
    BY <1>6 DEF File!Tick, File!disk, NamesHeld, File!DatabaseFileAssumption
  <2>2. Chosen(second) \subseteq Chosen(second')
    BY <1>1, <2>1
  <2> QED
    BY <2>1, <2>2 DEF NamesHeld
<1>7. CASE UNCHANGED File!vars
  BY <1>2, <1>7 DEF File!vars, NamesHeld
<1> QED
  BY <1>3, <1>4, <1>5, <1>6, <1>7 DEF File!Next, File!Starts, Others, File!Quiet

-----------------------------------------------------------------------------
(* The theorems *)

LEMMA FileInvHolds == ASSUME File!DatabaseFileAssumption PROVE File!Spec => []FileInv
<1>1. File!Init => FileInv
  BY FirstFileInv
<1>2. FileInv /\ [File!Next]_(File!vars) => FileInv'
  BY EveryFileStep DEF FileRight
<1> QED
  BY <1>1, <1>2, PTL DEF File!Spec

\* The disk holds databases or halves of one, only a migration has a transaction open, and a
\* copy has the name of a second that has been (DatabaseBackup.create, SchemaMigrator.migrate).
THEOREM FileTypes == ASSUME File!DatabaseFileAssumption PROVE File!Spec => []File!TypeOK
<1>1. File!Init => NamesHeld
  <2>1. DOMAIN << >> = {}
    OBVIOUS
  <2> QED
    BY <2>1 DEF File!Init, NamesHeld, File!Idle, Copying, File!DatabaseFileAssumption
<1>2. FileInv /\ FileInv' /\ NamesHeld /\ [File!Next]_(File!vars) => NamesHeld'
  BY NamesKept
<1>3. FileInv /\ NamesHeld => File!TypeOK
  BY FileTypesHold
<1> QED
  BY <1>1, <1>2, <1>3, FileInvHolds, PTL DEF File!Spec

\* Whatever opened the file, whatever crashed and whatever was restored, a file stamped with
\* the latest version has the tables and the columns of a new one, and keeps nothing in a
\* column that goes (SchemaMigrator.run, migrate).
THEOREM StampedIsWhole == ASSUME File!DatabaseFileAssumption PROVE File!Spec => []File!LatestIsWhole
<1>1. FileInv => File!LatestIsWhole
  BY SoundIsWhole DEF FileInv, File!LatestIsWhole
<1> QED
  BY <1>1, FileInvHolds, PTL

\* No opening, crash or full disk loses what the file says, and nothing it says is left in a
\* place it has no column for (the migration steps): only a restored copy says less.
THEOREM SaysItStill ==
    ASSUME File!DatabaseFileAssumption
    PROVE  File!Spec => [][File!NothingForgotten]_(File!vars)
<1>1. FileInv /\ [File!Next]_(File!vars) => [File!NothingForgotten]_(File!vars)
  <2> SUFFICES ASSUME FileInv, [File!Next]_(File!vars), ~File!Restored PROVE File!NothingForgotten
    BY DEF File!NothingForgotten
  <2>1. FileKept /\ FileInv'
    BY EveryFileStep DEF FileRight
  <2>2. SaidInPlace(file')
    BY <2>1 DEF FileInv, SoundFiles
  <2> QED
    BY <2>1, <2>2 DEF FileKept, Remembers, SaidInPlace, File!NothingForgotten
<1> QED
  BY <1>1, FileInvHolds, PTL DEF File!Spec

\* What the organiser emptied once the file was migrated is not filled again by a process that
\* looked at the file before it was: only the server at work fills it
\* (SchemaMigrator.migrate, which reads the stamp again inside its transaction).
THEOREM EmptiedStays ==
    ASSUME File!DatabaseFileAssumption
    PROVE  File!Spec => [][File!ClearedStaysCleared]_(File!vars)
<1>1. FileInv /\ [File!Next]_(File!vars) => [File!ClearedStaysCleared]_(File!vars)
  <2> SUFFICES ASSUME FileInv, [File!Next]_(File!vars) PROVE File!ClearedStaysCleared
    OBVIOUS
  <2>1. FileKept \/ File!Restored
    BY EveryFileStep DEF FileRight
  <2> QED
    BY <2>1 DEF FileKept, File!ClearedStaysCleared
<1> QED
  BY <1>1, FileInvHolds, PTL DEF File!Spec

\* What a newer application wrote is neither changed nor copied (SchemaMigrator.run refuses it).
THEOREM NewerStays ==
    ASSUME File!DatabaseFileAssumption
    PROVE  File!Spec => [][File!NewerIsLeftAlone]_(File!vars)
<1>1. FileInv /\ [File!Next]_(File!vars) => [File!NewerIsLeftAlone]_(File!vars)
  BY EveryFileStep DEF FileRight
<1> QED
  BY <1>1, FileInvHolds, PTL DEF File!Spec

LEMMA CopyInvHolds == ASSUME File!DatabaseFileAssumption, Apart PROVE File!Spec => []CopyInv
<1>1. File!Init => CopyInv
  BY DEF File!Init, CopyInv, CopyOk, Copying, File!Idle
<1>2. FileInv /\ CopyInv /\ [File!Next]_(File!vars) => CopyInv'
  BY EveryCopy DEF CopyRight
<1> QED
  BY <1>1, <1>2, FileInvHolds, PTL DEF File!Spec

\* While no two processes copy at once, an older file is changed only once a whole copy of
\* what it said stands under its final name, whatever crashes and whatever else is started
\* between the copy and the commit (SchemaMigrator.run: "if the copy fails nothing is changed").
THEOREM CopiedFirst ==
    ASSUME File!DatabaseFileAssumption, Apart
    PROVE  File!Spec => [][File!CopyBeforeChange]_(File!vars)
<1>1. FileInv /\ CopyInv /\ [File!Next]_(File!vars) => [File!CopyBeforeChange]_(File!vars)
  BY EveryCopy DEF CopyRight
<1> QED
  BY <1>1, FileInvHolds, CopyInvHolds, PTL DEF File!Spec

\* While no two processes copy at once, no copy is overwritten or deleted (DatabaseBackup:
\* "Nothing here ever deletes or overwrites a backup").
THEOREM CopiesStay ==
    ASSUME File!DatabaseFileAssumption, Apart
    PROVE  File!Spec => [][File!BackupsAreKept]_(File!vars)
<1>1. FileInv /\ CopyInv /\ [File!Next]_(File!vars) => [File!BackupsAreKept]_(File!vars)
  BY EveryCopy DEF CopyRight
<1> QED
  BY <1>1, FileInvHolds, CopyInvHolds, PTL DEF File!Spec
=============================================================================
