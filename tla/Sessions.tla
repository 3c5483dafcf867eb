------------------------------ MODULE Sessions ------------------------------
(***************************************************************************)
(* The sessions the server keeps: server/src/repo/auth-service.ts,         *)
(* password-change-service.ts and refresh-token-repository.ts, while the   *)
(* operator's command line (user-admin-service.ts) changes the accounts    *)
(* from a process of its own.  Hashing a password and signing a token are  *)
(* awaited: a call that is in flight holds what it read before, and other  *)
(* calls run in between.  Each transaction is one step.                    *)
(*                                                                         *)
(* A session is what one login begins: a chain of refresh tokens, each     *)
(* replaced by the next.  Only correct passwords are given here; what      *)
(* wrong ones do is in LoginLockout.                                       *)
(***************************************************************************)
EXTENDS Naturals, FiniteSets

CONSTANTS Users, Players, None,
          Calls,        \* calls in flight at once (a bound)
          Passwords,    \* passwords an account can have: 1..n
          MaxTokens,    \* refresh tokens handed out (a bound)
          Accounts      \* the accounts the application starts with

Views == {"admin", "own"} \cup Players     \* the view, and whom an admin looks at the app as
Serials == 1..MaxTokens

VARIABLES
    users,     \* the accounts: role, active, password and player
    rows,      \* refresh_tokens
    viewAs,    \* view_as_log: who has looked at the app as whom
    calls,     \* calls that wait for a hash or a signature, with what they have read
    issued,    \* history: how many refresh tokens have been handed out
    chosen     \* history: the view last chosen in each session

vars == <<users, rows, viewAs, calls, issued, chosen>>

NotCreated == [role |-> "none", active |-> FALSE, password |-> 1, player |-> None]

Account == [role : {"admin", "regular", "none"}, active : BOOLEAN, password : Passwords,
            player : Players \cup {None}]

\* The check of the table: a regular user has a player.
AllowedAccount(account) == account.role = "regular" => account.player # None

\* A row: its id in the table, the token it stands for, and the session it belongs to.
Row == [id : Serials, serial : Serials, session : Serials, user : Users, view : Views,
        password : Passwords, revoked : BOOLEAN, old : BOOLEAN, expired : BOOLEAN]

Idle == [kind |-> "idle"]
Call == [kind : {"verifying", "signing"}, user : Users, password : Passwords]
        \cup [kind : {"rotating"}, row : Row]
        \cup [kind : {"switching"}, user : Users, serial : Serials, view : Views]
        \cup [kind : {"changing"}, user : Users, current : Passwords, next : Passwords]

\* The application is set up with an admin who can log in.
SessionsAssumption ==
    /\ IsFiniteSet(Users) /\ MaxTokens \in Nat /\ 1 \in Passwords
    /\ {"admin", "own", None} \cap Players = {}
    /\ Accounts \in [Users -> Account] /\ \A u \in Users : AllowedAccount(Accounts[u])
    /\ \E u \in Users : Accounts[u].active /\ Accounts[u].role = "admin"

TypeOK ==
    /\ users \in [Users -> Account] /\ \A u \in Users : AllowedAccount(users[u])
    /\ rows \subseteq Row
    /\ viewAs \subseteq Users \X Players
    /\ calls \in [Calls -> Call \cup {Idle}]
    /\ issued \in 0..MaxTokens
    /\ chosen \in [Serials -> Views]

Init ==
    /\ users = Accounts
    /\ rows = {} /\ viewAs = {} /\ issued = 0
    /\ calls = [c \in Calls |-> Idle]
    /\ chosen = [s \in Serials |-> "admin"]

-----------------------------------------------------------------------------
(* The table of refresh tokens *)

IsLive(row) == ~row.revoked /\ ~row.expired

\* SQLite gives a new row the id after the highest one there is, which may have
\* belonged to a row that is gone.
NewId == 1 + (CHOOSE id \in 0..MaxTokens :
                 /\ \A row \in rows : row.id <= id
                 /\ id = 0 \/ \E row \in rows : row.id = id)

Token(user, view, session, password) ==
    [id |-> NewId, serial |-> issued + 1, session |-> session, user |-> user, view |-> view,
     password |-> password, revoked |-> FALSE, old |-> FALSE, expired |-> FALSE]

Revoked(found) == {[row EXCEPT !.revoked = TRUE] : row \in found}
RevokeAllFor(user) == LET found == {row \in rows : row.user = user}
                      IN (rows \ found) \cup Revoked(found)

Purged == {row \in rows : ~row.expired /\ ~(row.revoked /\ row.old)}

-----------------------------------------------------------------------------
(* Logging in, renewing and logging out *)

\* The password is compared with the one read here.
LogIn(c, u) ==
    /\ calls[c] = Idle
    /\ users[u].active
    /\ calls' = [calls EXCEPT ![c] = [kind |-> "verifying", user |-> u,
                                      password |-> users[u].password]]
    /\ UNCHANGED <<users, rows, viewAs, issued, chosen>>

Verified(c) ==
    /\ calls[c].kind = "verifying"
    /\ rows' = Purged
    /\ calls' = [calls EXCEPT ![c].kind = "signing"]
    /\ UNCHANGED <<users, viewAs, issued, chosen>>

Begin(c) ==
    /\ calls[c].kind = "signing"
    /\ issued < MaxTokens
    /\ issued' = issued + 1
    /\ rows' = rows \cup {Token(calls[c].user, "admin", issued', calls[c].password)}
    /\ chosen' = [chosen EXCEPT ![issued'] = "admin"]
    /\ calls' = [calls EXCEPT ![c] = Idle]
    /\ UNCHANGED <<users, viewAs>>

Renew(c, row) ==
    /\ calls[c] = Idle
    /\ IsLive(row) /\ users[row.user].active
    /\ calls' = [calls EXCEPT ![c] = [kind |-> "rotating", row |-> row]]
    /\ UNCHANGED <<users, rows, viewAs, issued, chosen>>

\* A fault: the row is found live when it is read, and revoked whatever it is by then.
RevokeAnyway(id) == {row \in rows : row.id = id}

\* The row with the id that was read is revoked, if it is not already, and the next
\* token is stored with it.  Nothing to revoke: the call ends with nothing done.
RevokeIfLive(id) == {row \in rows : row.id = id /\ ~row.revoked}

Rotate(c) ==
    /\ calls[c].kind = "rotating"
    /\ LET read == calls[c].row
           ended == RevokeIfLive(read.id)
       IN /\ ended # {} => issued < MaxTokens
          /\ issued' = issued + (IF ended = {} THEN 0 ELSE 1)
          /\ rows' = IF ended = {} THEN rows
                     ELSE (rows \ ended) \cup Revoked(ended)
                          \cup {Token(read.user, read.view, read.session, read.password)}
    /\ calls' = [calls EXCEPT ![c] = Idle]
    /\ UNCHANGED <<users, viewAs, chosen>>

LogOut(row) ==
    /\ IsLive(row)
    /\ rows' = (rows \ {row}) \cup Revoked({row})
    /\ UNCHANGED <<users, viewAs, calls, issued, chosen>>

-----------------------------------------------------------------------------
(* The view *)

MayChoose(user, view) == view = "own" => user.player # None
\* otherPlayer: an admin's own player is their own view.
Choice(user, view) == IF view = user.player THEN "own" ELSE view

SwitchView(c, u, serial, view) ==
    /\ calls[c] = Idle
    /\ users[u].active /\ users[u].role = "admin"
    /\ MayChoose(users[u], view)
    /\ calls' = [calls EXCEPT ![c] = [kind |-> "switching", user |-> u, serial |-> serial,
                                      view |-> Choice(users[u], view)]]
    /\ UNCHANGED <<users, rows, viewAs, issued, chosen>>

Logged(user, view) == IF view \in Players THEN viewAs \cup {<<user, view>>} ELSE viewAs

SetView(c) ==
    /\ calls[c].kind = "switching"
    /\ LET found == {row \in rows : /\ row.serial = calls[c].serial /\ IsLive(row)
                                    /\ row.user = calls[c].user}
           view == calls[c].view
       IN /\ rows' = (rows \ found) \cup {[row EXCEPT !.view = view] : row \in found}
          /\ viewAs' = IF found = {} THEN viewAs ELSE Logged(calls[c].user, view)
          /\ chosen' = [s \in Serials |->
                          IF \E row \in found : row.session = s THEN view ELSE chosen[s]]
    /\ calls' = [calls EXCEPT ![c] = Idle]
    /\ UNCHANGED <<users, issued>>

-----------------------------------------------------------------------------
(* The password *)

ChangePassword(c, u, next) ==
    /\ calls[c] = Idle
    /\ users[u] # NotCreated /\ next # users[u].password
    /\ calls' = [calls EXCEPT ![c] = [kind |-> "changing", user |-> u,
                                      current |-> users[u].password, next |-> next]]
    /\ UNCHANGED <<users, rows, viewAs, issued, chosen>>

SetPassword(u, password) ==
    /\ users' = [users EXCEPT ![u].password = password]
    /\ rows' = RevokeAllFor(u)

Changed(c) ==
    /\ calls[c].kind = "changing"
    /\ SetPassword(calls[c].user, calls[c].next)
    /\ calls' = [calls EXCEPT ![c] = Idle]
    /\ UNCHANGED <<viewAs, issued, chosen>>

-----------------------------------------------------------------------------
(* The operator's command line: one transaction each *)

ActiveAdmins == {u \in Users : users[u].active /\ users[u].role = "admin"}

RefuseLastAdmin(u) == u \in ActiveAdmins => Cardinality(ActiveAdmins) > 1

ResetPassword(u, password) ==
    /\ SetPassword(u, password)
    /\ UNCHANGED <<viewAs, calls, issued, chosen>>

Deactivate(u) ==
    /\ RefuseLastAdmin(u)
    /\ users' = [users EXCEPT ![u].active = FALSE]
    /\ rows' = RevokeAllFor(u)
    /\ UNCHANGED <<viewAs, calls, issued, chosen>>

Activate(u) ==
    /\ users' = [users EXCEPT ![u].active = TRUE]
    /\ UNCHANGED <<rows, viewAs, calls, issued, chosen>>

Promote(u) ==
    /\ users' = [users EXCEPT ![u].role = "admin"]
    /\ UNCHANGED <<rows, viewAs, calls, issued, chosen>>

Demote(u) ==
    /\ users[u].player # None
    /\ RefuseLastAdmin(u)
    /\ users' = [users EXCEPT ![u].role = "regular"]
    /\ UNCHANGED <<rows, viewAs, calls, issued, chosen>>

Link(u, player) ==
    /\ users[u].player = None
    /\ \A v \in Users : users[v].player # player
    /\ users' = [users EXCEPT ![u].player = player]
    /\ rows' = RevokeAllFor(u)
    /\ UNCHANGED <<viewAs, calls, issued, chosen>>

-----------------------------------------------------------------------------
(* Time, and the server that stops *)

\* A day passes; no call takes that long.
Day ==
    /\ \A c \in Calls : calls[c] = Idle
    /\ rows' = {[row EXCEPT !.old = TRUE] : row \in rows}
    /\ UNCHANGED <<users, viewAs, calls, issued, chosen>>

\* A token lasts longer than a day, and may end while a call holds it.
Expire(row) ==
    /\ row.old /\ ~row.expired
    /\ rows' = (rows \ {row}) \cup {[row EXCEPT !.expired = TRUE]}
    /\ UNCHANGED <<users, viewAs, calls, issued, chosen>>

Restart ==
    /\ calls' = [c \in Calls |-> Idle]
    /\ UNCHANGED <<users, rows, viewAs, issued, chosen>>

Answer(c) == Verified(c) \/ Begin(c) \/ Rotate(c) \/ SetView(c) \/ Changed(c)

Create(u, role, player) ==
    /\ users[u] = NotCreated
    /\ player = None => role = "admin"
    /\ player # None => \A v \in Users : users[v].player # player
    /\ users' = [users EXCEPT ![u] = [role |-> role, active |-> TRUE, password |-> 1,
                                      player |-> player]]
    /\ UNCHANGED <<rows, viewAs, calls, issued, chosen>>

Edit(u) ==
    \/ \E password \in Passwords : ResetPassword(u, password)
    \/ \E player \in Players : Link(u, player)
    \/ Deactivate(u) \/ Activate(u) \/ Promote(u) \/ Demote(u)

Operator(u) ==
    \/ \E role \in {"admin", "regular"}, player \in Players \cup {None} : Create(u, role, player)
    \/ users[u] # NotCreated /\ Edit(u)

Next ==
    \/ \E c \in Calls :
        \/ Answer(c)
        \/ \E u \in Users, next \in Passwords : ChangePassword(c, u, next)
        \/ \E u \in Users : LogIn(c, u)
        \/ \E row \in rows : Renew(c, row)
        \/ \E u \in Users, row \in rows, view \in Views : SwitchView(c, u, row.serial, view)
    \/ \E row \in rows : LogOut(row) \/ Expire(row)
    \/ \E u \in Users : Operator(u)
    \/ Day \/ Restart

Spec == Init /\ [][Next]_vars

-----------------------------------------------------------------------------
(* Properties *)

GoodOf(session) == {row \in rows : row.session = session /\ ~row.revoked}

\* However many renewals of one token are in flight, a session never has two tokens
\* that are good: the second to finish finds the first one's revocation.
OneTokenPerSession == \A s \in Serials : Cardinality(GoodOf(s)) <= 1

\* The application always has an active admin, whoever is deactivated, demoted or
\* promoted in whatever order.
AlwaysAnAdmin == ActiveAdmins # {}

\* Whoever is looking at the app as another player, through however many renewals,
\* is in the log with that player.
ActingIsLogged == \A row \in rows : row.view \in Players => <<row.user, row.view>> \in viewAs

\* The three together.
SessionsAreAccountedFor == OneTokenPerSession /\ ActingIsLogged /\ AlwaysAnAdmin

\* A session whose tokens are all revoked, and still in the table, never has a good
\* one again: no renewal in flight brings it back.
RevokedStaysRevoked ==
    \A s \in 1..issued :
      (\E row \in rows : row.session = s) /\ GoodOf(s) = {} => GoodOf(s)' = {}

\* Signing out ends the session, also when its rows have been purged.
SignedOutForGood == \A s \in 1..issued : GoodOf(s) = {} => GoodOf(s)' = {}

\* Deactivating a user ends their sessions.
InactiveHasNoSession == \A row \in rows : IsLive(row) => users[row.user].active

\* Changing the password ends all the user's sessions: none that an earlier password
\* began goes on.
NewPasswordEndsSessions == \A row \in rows : IsLive(row) => row.password = users[row.user].password

\* Changing a password requires the current one: the one the account has when it
\* is replaced.
ChangeNeedsCurrent ==
    \A c \in Calls : Changed(c) => calls[c].current = users[calls[c].user].password

\* The chosen view belongs to the session: it survives the renewal of its token.
ViewSurvivesRenewal == \A row \in rows : IsLive(row) => row.view = chosen[row.session]
=============================================================================
