# Pachanguero: models, checks and proofs

Pachanguero organises a weekly football game: people sign up, an algorithm chooses who plays,
the game is played, each participant owes a share, and shares are paid by hand or by Bizum
transfers that the server reads from a bank account. This directory holds TLA+ modules of that
program, TLC configurations that check them on small instances, and TLAPS proofs of what holds
for every instance. Paths below are relative to the repository.

## 1. Inventory

The server (`server/src`) is one Node process over one SQLite file through `better-sqlite3`,
which is synchronous: a request handler without `await` runs alone from its first read to its
last write. Real concurrency exists only where a handler awaits: the bank (HTTP), password
hashing and token signing. The web client (`web/src`) is a set of React screens over the HTTP API.

| Component | State it keeps | Operations | Interacts with | What makes it correct |
| --- | --- | --- | --- | --- |
| Game lifecycle (`domain/game-lifecycle.ts`, `repo/game-lifecycle-service.ts`) | `games.status`, `cancelled_from` | create, confirm, play, reopen, cancel, uncancel; capability checks | runs the played effects; every other service asks it | a played or cancelled game is frozen; uncancel returns exactly where it left |
| Candidate list, roles, players (`candidate-resolution-service.ts`, `line-resolver.ts`, `guest-role-service.ts`, `player-*-service.ts`) | `candidate_lines`, `participations.signed_up`, `guest_candidates`, `season_roles`, `usual_hosts`, `players`, `player_aliases` | save and read a list again, change a role or hosts, register, rename, merge, delete | aligns the convocatoria; feeds the selection | sign-ups, guests and entries stay in step; a change of role reaches every list that may still change; a merge loses no name |
| Selection (`domain/convocatoria.ts`, `exclusion-history.ts`, `points.ts`, `guest-slot-allocator.ts`) | none of its own: reads exclusions, payments, seniority | choose who plays, by arrival or by points, with mercy seats | writes the convocatoria; its outcome becomes the next record | nobody who keeps signing up waits for ever; each seat can be justified |
| Convocatoria and corrections (`convocatoria-service.ts`, `convocatoria-edit-service.ts`) | `convocatorias`, `convocatoria_entries` | create, recreate, confirm, move in and out, align | lifecycle, list, selection | regulars before guests; as many demotions as mercy seats; entries follow the list |
| Played outcome (`played-outcome-effect.ts`, `played-derivation.ts`) | `participations.played`, `exclusions` | apply, retract | lifecycle | attendance and points exist exactly while the game is played |
| Billing and payments (`billing-effect.ts`, `payment-service.ts`, `share-settler.ts`, `debt-holder-service.ts`) | `share_debts`, `payments`, `participations.paid_cents` | bill, pay, pay an odd amount, undo, pass a debt on | lifecycle, Bizum | a share is a debt or a payment, never both; the paid game follows its payment |
| Bizum desk (`bizum-rules.ts`, `bizum-*-service.ts`, `sender-pairing-service.ts`) | `bizums`, `bizum_handling`, `player_bizum_names` | judge, settle, rule, dismiss, pair, undo, judge again | payments, lifecycle | a Bizum never pays more than it is worth; undo is all or nothing; the oldest pays first |
| Bank reading (`bizum/feed.ts`, `bank/enable-banking-connector.ts`, `bank-settings-service.ts`) | `bizum_entries`, `bank_settings` | read, page by page; change account, currency, start date | bank, desk | each entry is handled once, the older first; a read that ends has left none out |
| Bank poller (`bizum/bank-poller.ts`, `bank-feed-source.ts`) | `bizum_feed_state`, a timer | scheduled and requested reads | reading, connection | one read at a time; always another one scheduled |
| Bank connection (`bank-connection-service.ts`) | `bank_connection`, `bank_authorizations` | connect, renew, complete, disconnect | bank, poller | a code is exchanged once; a renewal spares the session it stores |
| Sessions (`auth-service.ts`, `refresh-token-repository.ts`, `password-change-service.ts`, `user-admin-service.ts`) | `users`, `refresh_tokens`, `view_as_log` | login, refresh, switch view, logout, change password; the operator's commands | every route, the browser | a refresh token is rotated once; a lock cannot be outrun; there is always an admin |
| Database file (`db/index.ts`, `schema-migrator.ts`, `database-backup.ts`, six steps) | the file, its `user_version`, the copies beside it | open, migrate, back up | server and command line, as processes | an older file changes only beside a whole copy, and forgets nothing |
| Web session client (`web/src/lib/sessionClient.ts`) | access token, cookie, requests that wait for a refresh | request, refresh, login, logout, view | sessions | no request hangs; nobody is sent to the login while the cookie is good |
| Organiser's pages (`web/src/pages`, `components`, `hooks`) | what each has read, its draft, the request on its way | the buttons | the API | what is shown is stored; what is done is what was on screen |
| Teams (`team-paste-service.ts`, `team-assignment-service.ts`) | `participations.team` | paste, settle a line | convocatoria, panel | the first line of a player counts; a paste replaces the one before |
| Seasons (`season-repository.ts`) | `seasons` | create, edit | everything | edited under a game, it changes no game already called |

Hard behaviours, in the order of the damage they could do: long sequences of legal requests that
move money between two tables; copies of one fact in several tables (sign-ups, guests, entries,
lines; payment and paid game); a season edited under a game; reads of a session, an account or a
setting used after a wait; a read interrupted halfway; Bizums judged again after the debts changed;
two processes on one file, and a crash in a migration; pages that act on what they read a while
ago, with answers out of order or lost. `PROJECT.json` lists them one by one under "hazards", each
with its line and the properties that cover it.

## 2. Plan

Done, in this order: the game day; the bank poller and connection; the Bizum desk with its abstract
ledger; sessions, the lock-out and the browser's half of a session; the selection and a season of
it; lists, roles and players; bank reading; the pages of the organiser; the database file. Then the
proofs: of the poller and the connection; of the game day and its refinement of `ShareLedger`; of
the desk and its refinement of `BizumLedger`; of the lock-out, the sessions and the season; of the
lists, the reading of the bank, the database file and the browser's session.

Left: the **composition** of poller, connection and reading, whose common state (`ready`, the
session, the read in flight) each module has its own view of, and proofs of what the pages do.

Every component takes its sets as CONSTANTS with named assumptions, has one action per operation
or per stretch between two waits, and no RECURSIVE operator.

## 3. What is modelled

A refusal of the code is an action that is not enabled, unless somebody waits for the answer;
wording, logging and layout are left out. Names and texts are members of small sets. Variables
carry the name of the column, field or hook they stand for.

### 3.1 The game and its money

**`GameLifecycle`** is the tables of `domain/game-lifecycle.ts`: `LeavesFrom` and `Destination` are
the transitions, `AllowedIn` the capabilities, `NextPosition` is `next`.

**`Shares`**: three tables (`participations`, `share_debts`, `payments`) are one record, the
*book*; every service operation that writes them is an operator from a book to a book (`Bill`,
`Settle`, `Unsettle`, `SetHolder`, `SetPlayed`, ...), so that a larger transaction composes them. A
share is named as `share-key.ts` names it: by a player, or by a host and the number of their `+1`.

**`GameDay`**: a game from its list to its payments.

| Variable | In the database |
| --- | --- |
| `position` | `games.status`, `games.cancelled_from`; `NoGame` for a missing row |
| `hostOf`, `plusOnes` | `guest_candidates`: named guests with their host, anonymous `+1`s |
| `outcome`, `playing` | `convocatoria_entries.outcome`, `.playing` |
| `ruledSlots` | `slots` in `convocatorias.rules_json`; 0 when no convocatoria is stored |
| `exclusion` | `exclusions.kind` |
| `book` | `participations`, `share_debts`, `payments` |
| `season` | the share amount and slots of each season |

One action is one request: the handler, its checks and its whole transaction. `ChangeState` runs
`EnterPlayed` (the played outcome, then the billing) or `LeavePlayed` as
`GameLifecycleService.perform` does. What interleaves is the order of requests, which is free: any
request may come at any time, including those the web client does not send but the API serves
(`SetSignUp`, `RemoveParticipation`). The selection is any one the two rules allow (`ByArrival`:
every regular plays and guests fill what is left; `ByPoints`: exactly the slots, every mercy seat
paired with a demotion), which covers every ranking; `Selection` has the ranking itself. The text of
the list is any set of known players. A selection that fails because a player has no seniority is a
request that does not happen.

**`ShareLedger`** is what a game promises about its shares. A share is unbilled, owed or paid. Only
while the game takes payments does an owed share become paid or a paid one owed; entering that
state may bill unbilled shares and drop owed ones; leaving it touches none. `KeepsTheLedger` (in
`GameDay`) says that every request is a step of it under the mapping `StageOf`.

**`BizumDesk`** uses the same operators of `Shares` over several games.

| Variable | In the database |
| --- | --- |
| `book`, `played`, `shareCents` | the three tables; which games are played; the share of each season |
| `entry` | `bizum_entries.outcome`, "unseen" while there is no row |
| `handling` | `bizum_handling`: status, how it was settled, `unallocated_cents` |
| `phone`, `names` | the players' contacts and `player_bizum_names`, which name a sender |

`Read` is the feed from what the bank gives to what it handled before a failure, each entry judged
by `Judge`; `PlayGame` bills and then judges again what waits, as the two effects of the lifecycle
do; `Rule`, `Pair`, `Dismiss`, `UndoBizum`, `UndoByHand`, `PayByHand`, `Reassign`, `EditSeason`,
`AddBizumName`, `RemoveBizumName`, `ReopenGame` and `DeleteGame` are the requests. Judging
Bizums again is a recursive function over their order (`InTurn`), since each payment changes what
the next one finds. Why a Bizum waits (its reason shown on screen) is left out. Keyword lists are
fixed here; changing them is `BankPanel`'s.

**`BizumLedger`** is the treasury: a transfer is unseen, discarded, waiting, settled or dismissed;
only a settled one pays, never more than it is worth, and it waits again only with all its money
back. `KeepsTheTreasury` (in `BizumDesk`) is the refinement.

### 3.2 Who plays

**`Selection`** has the algorithm as operators: the wait counter and the points of a record, the
ranking, the mercy seats, the guests' places. Lists the code sorts and cuts are sets of those with
few enough before them. Points are in hundredths: what each season of seniority adds is cut to 100,
79, 68, 61, 56 and 53, and no two sums that differ in the code do so by a whole point.

**`Season`** plays games one after another with it: `Play` (sign-ups, selection, corrections by
hand, outcome) and `Pay`. `record` has, of each regular, a mark for each game: whether they signed
up, whether they played, and the kind of their row in `exclusions` ("none" where there is none). A
game at a time: overlapping convocatorias of the same season are not walked. Points of guests who
played as regulars later are not tracked, and seniority goes up to six seasons (`Contribution`).

**`CandidateList`** is lists, roles, hosts and players; the database is one record `db`, because
changing a role saves every open list again, one after another, each reading what the last one
wrote. `ChangeGame` holds the requests on one game (save a list, create the convocatoria, move,
play, reopen, cancel), `ChangeRoles` and `ChangePlayers` the rest (roles, hosts, register, rename,
alias, introduce, merge, delete). A convocatoria that is created or confirmed is just "called" and
its choice is any; there is one season with the roles of the one before. The season's first roles
taken from sign-ups, contacts and seniority are left out.

**`Teams`** is the paste of two teams, line by line, the organiser's choice for a line that needs
one, and the panel that shows it.

### 3.3 The bank

**`BankPoller`**, when the account is read:

| Variable | In the code |
| --- | --- |
| `reading`, `timer` | `BankPoller.reading`; `cancel` and `nextAt` |
| `since`, `limit` | `finished_at` and `rate_limited_until` in `bizum_feed_state`, seen from now |
| `ready` | whether `BankFeedSource.source()` gives a source |
| `reads`, `up` | reads in flight, and whether the process runs |

`start`, `requestRead` and `scheduled` are one action each: they run to their first wait, which is
the read. The end of a read is one action too, with the outcomes that differ: well or failed,
limited, session over. Time is relative, so runs are infinite and liveness means something; a timer
may fire late. The process may stop at any moment. A failure to write the record of a read is left
out.

**`BankConnection`**, the authorisations: one action is what a handler does between two waits for
the bank: `Connect`; `Redirected` and `Exchanged` or `ExchangeFailed` and then `PreviousClosed`
(`complete`); `Disconnect` and `Disconnected`; `StartRead` and the three ends of a read.
`callback` and `disconnecting` hold the local variables of the calls in flight. The bank may close
a session when asked, or not, or end it by itself; a call that fails may have had its effect.
`Restart` loses every call in flight.

**`BankReading`**, what is read: the read goes page by page, the bank books entries in between,
settings change, sessions are replaced or end, a page fails, the process crashes while handling.
The bank is the fake one of the tests. The choice between two banks, which only other catalogues
than production's offer, is left out.

### 3.4 Sessions

**`LockoutPolicy`** is what `domain/lockout-policy.ts` decides over the two columns of `users`, and
what it promises. **`LoginLockout`** extends it with a login up to its session: the attempt is
counted before the password is checked, other logins and the command line fall in between. Its
assumption `2 * Slowest < LockMinutes` says that checking a password takes less than half a lock;
the code's lock is fifteen minutes and a check takes a fraction of a second. **`Sessions`** is
everything after: a call in flight (`calls`) holds what it read before its `await`, and `Answer` is
its transaction. **`WebSession`** is the browser: the tabs share a cookie that is attached when a
call leaves and replaced when its answer comes back, so `Answer` (the server) and `Back` (the
browser) are separate steps.

### 3.5 The database file

**`DatabaseFile`**: a file is its stamp, the tables and columns a step is about, and where what it
says is kept. Each statement and each call to the file system is a step; a crash may fall between
any two, the disk may be full, another process may hold the file (`Busy`: five seconds of waiting
for the write lock). Files of versions 0 and 2 to 6 are those of the fixtures. `VACUUM INTO` is one
instant, or what a crash leaves of it.

### 3.6 The organiser's pages

Each has the page's state, the requests on their way, and a server reduced to what the page sees.
A request is asked, performed and answered in three steps, so it may be lost in two places.

| Module | Page | Left out |
| --- | --- | --- |
| `CandidateDraft` | the list being edited, read again at every change | the text of the lines |
| `GameScreen` | the game chosen, the game shown, its buttons | one season, one page; a deleted game recorded again may get its id and stays blank |
| `DeskScreen` | one waiting Bizum and its dialogs | what is done with the money left over; the reason after an undo |
| `BankPanel` | Ajustes > Banco | the strip above the tabs, Bizum names, currency and account, what connecting is refused for |
| `Teams` | Equipos | a row removed with its team; the request that stores a team directly |
| `PaymentScreen` | the payment cells of a game and of Deudas | one game always played whose members all play; which shares a Bizum pays is any of one payer's |
| `SeasonScreen` | the season looked at, its lists, the game it opens on | one game a day, none deleted; the three reads of `loadSeasons` are one |
| `PlayersScreen` | Ajustes > Jugones: the list, the player open, their editors | names in Bizum (kept as nicknames are); accents in what is typed, but for one name; what the lists saved again with a role or hosts say (they may refuse it, `CandidateList`); answers come in the order asked |

Their habits are constants: `Habits`, `WaitsForList`, `Patient`, `InOrder`, `Careful` say whether
the organiser waits for an answer before the next press and whether answers keep their order. The
passing runs say which they assume, and section 6 what happens otherwise.

## 4. What the runs check

Four MC modules walk several components, or one component in several ways, in one TLC run. They do
not compose them: a variable (`walk`, `page` or `part`), chosen in `Init` and never changed, says
what a behaviour is about. `MCBizumDesk`, `MCSquad` and `MCService` extend one component
(`BizumDesk`; `Season`; `Sessions` and `LockoutPolicy`), whose constants the .cfg gives, and a walk
of it is any step of it that stays `Within` a part of its states; the other components are
instances. The variables of what is not being walked are `None` or stay as they start, and a
property said of several walks is a conjunction of what is required of each. A constant of the .cfg
(`Walks`, `Pages`, `Parts`) lists the walks, so any of them can be run alone. The components of one
run touch each other only through facts each module states for itself.

| Run | Instance | Shows |
| --- | --- | --- |
| `game_day_regulars` | three interchangeable regulars, 1 or 2 slots, one mercy seat | types; attendance and points follow the game; played and cancelled games are frozen |
| `game_day_guests` | a host, a player they may bring as a named guest, one `+1`, one slot, a debt that can be passed on | a share is in one table; whoever plays is billed; uncancel bills nothing |
| `game_day_edits` | two players whose participations are edited alone, shares of 4 or 5, odd payments of 3 | a paid game always has its payment, for that amount; refinement of `ShareLedger` |
| `bank_poller` | the intervals of the code, in minutes; waits below, at and above them; restarts | one read at a time; never limited or too soon; the schedule survives; liveness |
| `bank_connection` | three authorisations, two redirects in flight, a disconnect, a read, restarts | a code is exchanged once; a renewal spares the session stored |
| `bizum_queue` | `queue`: two equal Bizums of one name, two games, one answers for both players; `amounts`: one Bizum of 4 from a phone, shares of 2 or 3 | the rules pay only the past of the season; playing pays what waited; the oldest pays first; an undo is all or nothing; refinement of `BizumLedger` |
| `squad` | `wait`: four regulars for two seats, six games; `points`: three regulars, up to two guests in the order they came, a late payer, a correction, three games; `entries`, `roles`, `names`, `direct`: two or three players, one or two games | nobody waits for ever and each seat is justified; one point a game; entries follow the list; roles reach the lists; a merge keeps the names |
| `screens` | each page with an organiser who waits for answers, and the desk also with other pages and the feed at work | settled means stored; of what a settled page lets through, what the server refuses; what is done is what was shown; nobody else's work is lost |
| `screens_lost` | five pages with requests that fail and answers that are lost | buttons come back; the season created is the one looked at |
| `service` | lock-out: 3 logins, limit 2, lock of 3, 7 units of time; tokens: 1 account renewing and logging out, 2 calls, 3 tokens; operated: 2 accounts, 1 player; web: 1 tab, 2 requests; reading: 4 entries, pages of 2, a window of 2 of 3 days, 2 sessions, 2 failures, a start date changed mid-read; currencies: 3 accounts of two; file: server and `backup`, a fault; service: the server alone on every file, 2 faults | a lock cannot be outrun; sessions are accounted for and last until ended; a read that ends is complete; a copy before a change; nobody waits for ever |
| `bank_deep_read` | violation, the instance of `bank_connection` | see section 6 |
| `bizum_seasons` | violation, `two seasons`: one Bizum, a game in each of two seasons | see section 6 |

### Bounds

Three regulars for one or two slots are the least that make both selection rules, a mercy swap and
a full line reachable; four over six games are the least in which a wait can build up behind
another and be relieved twice. One host with one `+1` and one named guest for one slot makes a
guest play, be left out, and be swapped by hand. Two share amounts let the price change between a
debt and its undoing. The game day runs use one game: games share nothing in these handlers but the
season, which `EditSeason` changes freely; with Bizums, which span games, there are two. Two equal
Bizums suffice for every question of order; what three would add is transitivity.

Three authorisations are a first connection and two renewals that overlap; two redirects in flight
meet in every way two calls can, and the proofs cover any number of both. Two calls in flight over
one session are the least that race for one refresh token, and three tokens let the winner renew
again before the loser ends. Three logins with a limit of two let one be counted, one lock and one
come late. Four entries in pages of two make a page that ends on a day others share. One fault
beside two processes, and two beside one, reach a crash in each statement and a second one in what
the start afterwards does.

Pages have two of whatever can be confused with another (two lines, two games, two words that
differ by an accent, two seasons) and two or three presses, enough for one press to overlap the
reading another started.

Counters named `Max...`, `Presses`, `Failures`, `Faults`, `Corrections`, `Games`, `Seconds`,
`Horizon` in the constants bound the runs and appear in the guards; every state space is finite and
explored whole. `SYMMETRY` is used only where members are interchangeable and only for safety. A
run that stops at its bound does so with a stuttering action of its own (`Done`, `Rest`, `Quiet`),
so deadlock is checked everywhere.

### Fairness

Nothing obliges the organiser or the bank to do anything: requests, presses, restarts and failures
are never fair. What is fair is the machine.

- `BankPoller`: the passing of time, a timer that is due, the end of a read, whose HTTP calls have
  a time limit. `ReadAgainAndAgain` holds of a server that eventually stays up with an account
  that eventually stays ready.
- `service`: what becomes of a call of the browser (it is answered, delivered or lost); a read of
  the bank that can go on; the service is started again when it stops (`Restart=on-failure` in
  `deploy/pachanguero.service`) and goes on running.
- `screens_lost`: of each page, that its requests are performed, answered and shown, or fail. The
  presses are not fair. In `GameScreen` and `DeskScreen` fairness is per request and per list, so
  that one cannot wait behind others for ever.

No liveness is claimed for the game day, the desk or the connection.

### What a reader may expect and is not claimed

`OnePointPerGame`: waiting and paying earn the same point, so between two equally diligent regulars
the one left out does not overtake the other by points; the mercy seats do that. docs/domain-model/README.md:38
("acaban adelantándote") is true of the mercy rule, which `WaitIsBounded` states.

## 5. What is proved

Eight modules hold the proofs: `Shares_proofs`, with what each operator of `Shares` does to a book,
which the game day and the desk both cite; `GameDay_proofs`, `BizumDesk_proofs`, `Season_proofs`,
`CandidateList_proofs` and `BankConnection_proofs`, each of one component, all but the desk's also
of a page it is managed from; `BankReads_proofs`, of the poller and of what it reads; and
`Service_proofs`, of what `MCService` walks otherwise: the lock-out, the sessions, the browser and
the database file. Each theorem is for every value of the constants that satisfies the assumptions
of the module: any sets of players, games, Bizums, entries, calls, tabs or processes, any bounds.
What it needs beyond them is among its hypotheses, and section 6 has the run that breaks the
property without it. A theorem states a definition that a run checks on a small instance, by that
name or as a conjunct of one (`ReadIsComplete`, `CopyBeforeChange`, `EntriesFollowTheList` and the
others of `service` and `squad`), but for three of the desk, one of the sessions and the types of
three pages (`DraftsNameOnce`, `PageIsTyped`, `PanelsAreTyped`). TLC agrees with the inductive invariants too, on those instances.

### The game day

`GameDay_proofs`, from `SharesAssumption` and `GameDayAssumption`: ids are distinct from the null
value, a `+1` is not a player, and share amounts are positive, which `schema.sql` checks.

- `TypeCorrect` and `SharesStayInOneTable`: `TypeOK /\ ShareInOneTable` is inductive. `Bill` adds
  only members outside `BilledMembers`, one debt each; `Settle` takes every paid share out of the
  debts and pays each once, because the payments of one request come from distinct debts; the share
  `Unsettle` puts back was a payment, so no debt and no other payment named it.
- `PlayedGamesAreFrozen`: a request that changes a list or a convocatoria finds the game alive
  (`OnlyAliveListsChange`), which is all the frozen states need.
- `OutcomeIsTheGames`: inductive, player by player (`OutcomeOf`): applying the outcome writes both
  tables from `playing`, retracting clears both, and in between nothing writes `playing`.
- `PlayersAreBilled`, `UncancelIsFree`: playing members stay billed in a game played *or cancelled
  as played*; this second half is what lets `uncancel` return to played and bill nothing.
- `PaidGamesHavePayments`: every operator of `Shares` keeps a paid game beside its payment.
- `TablesKeepTheLedger`: `GameDay` implements `ShareLedger`. Each request is a step of the ledger or
  a stutter, given types and one table: billing moves no paid share because `BilledMembers` has it,
  and payments are taken, undone and passed on in a played game only.

### The Bizum desk

`BizumDesk_proofs`, from `BizumDeskAssumption` and `BizumOrderAssumption`.

A transaction judges Bizums in turn, so the invariant is about the tables t it has *so far*. `Sound`
holds between two turns: a share in one table, only a settled Bizum pays or has money left and never
more than it brought, and what the rules paid is of the past. `Committed`, between two transactions,
adds that a Bizum is handled exactly when its entry is kept. Each turn goes `Forward`; each request
is `Sanctioned`.

- `TypesAreKept`, `SharesStayInOneTable`, `MoneyStaysAccounted`: what the invariant says, whatever
  the price was when a share was paid, undone and paid again. No run checks the three; the
  treasury below contains the last.
- `OnlyThePastIsPaid`: the shares the rules take are the nearest of those due to the sender up to
  the day of the Bizum, and nothing that comes later makes that untrue of a payment.
- `BizumsAreUndoneWhole`: a payment comes back as a debt only with every other of its Bizum.
- `TheTreasuryIsKept`: `BizumDesk` implements `BizumLedger`; `Moves` are its steps.
- `WhatWaitedIsPaid`, `TheOldestPaysFirst`: while the open debts of each season are of one price,
  a Bizum that cannot be paid in its turn cannot be paid after a later one took its shares, and two
  equal Bizums see the same shares but for those played between their days. Both need the one price,
  and say so: with two, the earlier may find its shares too dear and a third make them affordable.

Inductions here are over recursive functions (sums, turns, ranks). The library's induction theorems
take an operator and cannot be used, so each is an argument by the least counterexample
(`LeastNumber`, `SubsetInduction`), from the well-founded orders of the library.

### Who plays

`Season_proofs`, from `RulesAssumption` and `SeasonAssumption`.

- `NobodyEnviesASeat`: a finite order gives each a different rank, so that the first n are n
  (`FirstAreAsMany`) and whoever is left out comes after whoever is in (`FirstGoBefore`); the four
  cases are who gives a seat (chosen by rank, or in mercy) and who is left (out on rank, or demoted).
- `GamesAreOnePoint`: `MarksAgree`, that a game scores for exactly those who signed up and did not
  play, makes played and scored games a partition of those signed up to.
- `WaitsAreBounded`, when a mercy seat resets the counter and there is one to give. Mercy is earned:
  the counter is the games missed since the last mercy seat (`WaitsSinceMercy`), corrections or not.
  The streak is bounded: each game of a streak past those that make a candidate leaves one regular
  more `Behind`, with a shorter wait than one's own, because the mercy seat went to somebody who had
  waited as long and starts again. Without `mercyResetsCounter` (the older rule: subtract) what is
  left over brings the next mercy seat sooner, as `exclusion-history.ts` says, and the wait is not a
  count of games. A streak is of consecutive sign-ups left out on points: whoever misses a game can be
  overtaken meanwhile, and a demotion is ordered by `EachSeatIsJustified`.

### Lists, roles and players

`CandidateList_proofs`, from `ListAssumption`: the games are the numbers up to how many there are,
and the null value is none of what it stands beside. One request may save every open list again,
each reading what the last one wrote, so the invariant is of a database (`Good`) and the lemmas say
what each stage of saving one does to it: resolving, placing, signing up, aligning, teaching roles.
`SavedUpTo` says what is true after the first n of them, `TurnsKeep` that it lasts to the end.

- `NothingDangles`: every player that a line, a guest, a host or an entry speaks of is registered,
  through merges and deletions. Nothing is kept of who is not (`AbsentAreBlank`), which is what lets
  a player be registered.
- `EntriesFollow`, when nobody is signed up past the list ("direct" is not among the `Operations`):
  the entries of a convocatoria are those signed up and their anonymous guests (`Following`). A merge
  moves both alike, because the two never took part in one game: at most one brings anonymous guests
  to it (`PlusOnesMerged`).
- `RolesReach`: a change of role or host leaves no fijo as somebody's guest in a list that may still
  change. A list saved again is placed by the roles there are when its turn comes and gives each
  of its guests one, and no list saved later changes a role there is (`RolesStay`).
- `NamesSurvive`: a name or nickname that only two players had is, after merging them, of the one
  that is left.

### Sessions and the lock-out

Of `Service_proofs`:

- `PasswordsAreRateLimited`. The invariant relates four clocks: logins in
  flight are as young as a check; a lock ends within one lock from now and after every login in
  flight; below the limit every check was counted; above it each took a lock, passed, running, or
  counted from when a login in flight began. It needs `2 * Slowest < LockMinutes`: a lock
  counts from the start of the login that set it, and one that began at its last moment takes as long
  again; were checks slower, it could still end, and be counted, after the lock has expired.
- `SessionsAreInOrder` (a session has one good token, whoever looks at the app as
  a player is in the log, there is an admin who can log in) and `RevokedSessionsStayRevoked`. What a
  renewal in flight read is either `Current`, the last row of its session, or `Superseded`: its id
  stands for nothing good, and a younger row keeps the id from being given again. SQLite gives the
  id of a purged last row again, so neither is true of the id alone: `Current` allows that no row of
  the session is left and the id is another session's.
- `WaitersHaveARefresh`, for any tabs and requests: whoever waits for a refresh, the request held
  back, the view to be changed or the page being loaded, has one in flight.
- `NobodyIsSentBack`, for one tab (`OneTab`), since two share the cookie and the refresh that loses
  clears it. While the session has not ended (`KeptInAll`) the cookie is good; or the one refresh
  left with it and it still is; or the answer on its way was a success and brings a good one. No
  other call of that tab uses the cookie's token, since all that are refused wait for that refresh.

### The bank

`BankReads_proofs` proves of the poller `OneReadAtATime`, `NextReadInSight`, `NeverAsksTooSoon` and
`KeepsTheInterval` for any intervals and any waits. A scheduled read checks neither the gap nor the
limit, so the two action properties need more than its guard: the invariant adds
`TimerCoversTheWait`, that a timer that is set is never shorter than what is left of the interval
and of the bank's wait. `DueAfter` establishes it, and the passing of time keeps it because all
three shrink together.

Of what is read, from `BankReadingAssumption` (the entries are finitely many: their places in the
list are counted):

- `OnlyOnce`: an entry is handled once, however many reads find it.
- `NothingBookedIsMissed`, `TheOldestIsFirst`, when the account is the only one and the start date
  is chosen once (`OneStart`; one moved back after the deep read is not read from). The
  invariant (`InSight`): whatever was booked when the read began is in the ledger, or found, or further
  down than the pages asked for. An entry that arrives moves those below it down (`PlaceGrows`), so
  a page may show one twice and skips none. What the bank no longer gives without a deep read,
  a deep read has handled (`OldAreHandled`), through failures and crashes, as it is marked done only
  at its end.
- `OnlyWhatIsAsked` and `InTheCurrency`, when no setting changes in mid read (`~MidRead`): nothing of
  another account, from before the start date or of an account in another currency is handled, though
  the connection ends or is renewed while a read waits for the bank.

`BankConnection_proofs` proves `ExchangedOnce` and `RenewalSparesTheStored` for any number of
authorisations and calls. The invariant follows a session through its life: unknown, exchanged by
one call (`OneLife`), stored, replaced, closed. A code exchanged implies its authorisation used
(`ExchangedIsUsed`), which survives restarts; what is closed was stored before and a code
exchanged once cannot be stored again.

### The database file

`Service_proofs`, from `DatabaseFileAssumption`. A file is one of `SoundFiles` when what it
says has a place, it has the columns its version brought and lost those it took, and all of today's
tables if it is stamped so. `ProcOk` says what each stage of a process has left true of a file that
others may meanwhile bring to the latest version, and nobody to an older one while it is open.

- `FileTypes`, `StampedIsWhole`: what is stamped with the latest version has the tables and columns of
  a new file, whoever opened it and whatever crashed. Each migration step brings what its version
  has (`StepIsDone`).
- `SaysItStill`, `EmptiedStays`, `NewerStays`: no name, address or list is lost but by a restore;
  what the organiser emptied is filled by nobody but the server at work; a newer file is untouched.
- `CopiedFirst` and `CopiesStay`, when no two processes copy at once (`Apart`): an older file changes
  only beside a whole copy that says what it said, and no copy is overwritten. Between the copy and
  the commit other processes may open, create tables, and serve; `CopyOk` says that while
  the version is older none of them changes what the file says.

### The organiser's pages

Five pages, each proved beside its component.

- `PageIsTyped`, `AnswersAreOfTheChosen`, `ButtonsActOnWhatIsShown`, `GameShownIsStored`, of
  `GameDay_proofs` and any `GameScreen`. The first, which includes that no choice is read twice and
  that the bar is not left disabled, holds whatever the organiser does and the network loses. The
  second needs an organiser who waits (`Habits` empty): a request is then `Alone` on its way, and what
  is read for it, or for a choice, is the game chosen. The last two need every answer too
  (`Waiting`), since after a failed read the game shown is not the one chosen (section 6). The
  invariant (`PageInv`): the game shown is the one chosen, or that one is being read and exists; and
  a request that was done is read again, with the list if it changed it, before another is made.
- `DraftsNameOnce`, `SavedDraftIsSaved`, `OnlyTakenOffAreDropped`, of `CandidateList_proofs` and any
  `CandidateDraft`. The first holds for any habits. The other two need a page that is `Alone` (it
  waits for the saved list before anything is pasted, and no other page saves); the second also
  that no answer is lost, since a save that is done and not answered leaves the page with
  what it took to be saved before. The invariant: whoever is saved is in the draft, in
  the request, or was taken off (`NobodyForgotten`); and what the page takes to be saved is, but while
  a save is on its way back (`SavedIsKnown`). What the server reads is a fold over the lines, of
  which `ReadOfLists` proves that it places each player once and leaves none out.
- `SettledPanelIsFresh`, `PanelRefusesOnlyTheNew`, `PanelWordsAreKept`, of `BankConnection_proofs` and
  any `BankPanel` that is `Undisturbed`: no answer is lost, and nobody presses "Leer ahora", which
  reads the panel too and may be answered out of order (section 6). The invariant
  (`PanelInStep`) is the one round of a press: on offer, done or refused, read again, shown. What is
  refused is a date to come or the word just written: as the lists stored are always ones the server
  accepts, sending both whole is never refused for the rest.
- `TheSeasonIsKept`, `OpensOnNoFinishedGame` and `ListsAreOfItsSeason`, of `Season_proofs` and any
  `SeasonScreen`. The first needs answers `InOrder`: then what is answered was asked before
  everything else on its way (`Fine`), so nothing is created between an answer and its arrival, and
  the season looked at is among those the answer lists; out of order a season just created may be
  missing from an older list (section 6). The second holds in any order: what the page opens on it
  takes from one answer. The third needs `Patient` too. The invariant (`ReadsInv`): of the tasks on
  their way one at most is more than lists to be read, a press is alone until it is answered, and
  something on its way will read the season looked at last.
- `PanelsAreTyped`, `FirstLineWins`, `PanelShowsTheTeams` and `TeamsAreOfOnePaste`, of
  `CandidateList_proofs` and any `Teams`. The first two are for any panels and losses. What
  `FirstLineWins` says of the text is proved of the code's two passes: splitting keeps the lines, in
  their order, each under the heading above it (`SplitFacts`); matching places whoever a line names,
  once, from the first that does (`MatchFacts`). The last two need one panel (`OnePanel`) whose
  organiser is `Careful` (section 6). The invariant (`PanelInv`): those shown have their team, unless a
  later paste is on its way back, which has them all; and a line being settled is of the paste shown
  and of nobody it shows.

### What stays with TLC

Liveness (`ReadAgainAndAgain`, `BusyEnds`, `EndsInTheEnd`), since it rests on fairness and ENABLED;
and the other pages (their conjuncts of `SettledIsStored`, `OnlyTheseAreRefused`, `DoesWhatWasShown`,
`NothingElseIsLost`, `PaidOnce`; of the season page `ChosenIsOfTheSeason`): they are checked on the
instances of section 4 and not proved. Nothing is claimed, by run or proof, of how long one waits after the organiser moved somebody by hand.

## 6. Where the program and its documents part

Two of these are runs of their own that TLC refutes (`bank_deep_read`, `bizum_seasons`). For the
rest the module keeps the property, stated as the document has it, and the constants given here show
the step that breaks it; no passing run claims them.

**The game day.** `GameDay`, two players with `EditedAlone` both, one slot.
- `PointsOnlyForSignedUp`: signing a player out through `PUT /games/:gameId/players/:playerId`
  (`routes/api.ts:561`) leaves their entry, and playing the game scores it; `points.md:54` says a
  point exists while the player signed up and was left out. The web client does not use the route.
- `PaidGameInStep`: after a game is played and paid, reopening it, moving the player out, removing
  their participation (`:577`) and moving them back in leaves the payment without the paid game.

**Lists, roles, players.** `CandidateList`, with the `Operations` in braces.
- `EntriesFollowTheList` {create, direct}: the same route signs a player up without an entry
  (`api.ts:556`).
- `PlayedAsFijoStays` {create, play, role, merge}: a merge makes an invitado of a fijo who has
  played (`player-merge-service.ts:156`; glossary.md:92 says it cannot be). So does {create, play,
  introduce}, line "Ana +1", one slot: signed up by a "+1", Ana is not placed and keeps no role
  (`candidate-resolution-service.ts:185`), and introducing her afterwards gives her one
  (`season-role.ts:25`).
- `FijoIsNeverGuest` {create, play, role, reopen} (`player-directory-service.ts:130`: a change of
  role passes over the games played at that moment) and {register, role} (`season-role.ts:68`).
- `OnlySavingSignsUp` {register, role}: a name of a saved list, registered later, is signed up by
  somebody else's change of role (`candidate-resolution-service.ts:221`; ciclo-del-partido.md:85).
- `GuestComesWithSomeone`, line "Javi (Javi)" (`:417`): an invitado who is their own host.
  `InvitadoIsAGuest`, line "Javi +1" (`:183`): an invitado who competes as a regular.
- `MergeKeepsPlaces` {role, merge} (`player-merge-service.ts:37`): a line places nobody afterwards.
- `Season!MercyAfterStreak` (the `wait` walk of `squad`): games out need not be consecutive
  (`exclusion-history.ts:30`; domain-model/README.md:41 says "seguidos").

**The Bizum desk.** `PaysItsSeasonOnly` (run `bizum_seasons`): a ruling pays shares of earlier
seasons (`bizum-facts-reader.ts:97`; ciclo-del-partido.md:208 says neither does).

**The bank.** The first three are `MCBankConnection` with the constants of `bank_connection`: they
write to the single row of `bank_connection` whatever session is in it by then.
- `DeepReadIsTheSessions` (run `bank_deep_read`, `bank-feed-source.ts:48`): the deep read of the
  old session marks the new one, which is never read deep.
- `ReconnectOnlyWhenOver` (`bank-connection-service.ts:221`): a read of the old session finds it
  over after the renewal, and reading stops until the organiser connects again.
- `ForgetsWhatItClosed` (`:214`): a disconnect waiting for the bank deletes the session a renewal
  has just stored.
- `BankReading!ReadIsComplete` with `StartDates` {1, 2, 3}: a start date moved back after the deep
  read is not read until the bank is connected again (`bank-feed-source.ts:43`; feed.ts:130 says it
  can be). `HandlesWhatIsAsked` with `MidRead`: one moved forward in mid read (`feed.ts:88`).

**Sessions.** `Sessions`, two calls unless another number is given.
- `SignedOutForGood` (3 tokens): a renewal in flight revokes whichever row has the id it read; ids
  of purged rows are used again, so it can outlive its logout (`auth-service.ts:231`).
- `InactiveHasNoSession` (2 users, 1 call): a login in flight stores its token after the user is
  deactivated (`:235`). `NewPasswordEndsSessions` (2 passwords): the same after a change.
- `ChangeNeedsCurrent` (3 passwords, 1 call): a change in flight overwrites the operator's reset
  (`password-change-service.ts:54`).
- `ViewSurvivesRenewal` (1 player): a view chosen during a renewal is lost (`auth-service.ts:98`).
- `WebSession!KeptWhileValid` with two tabs: the second refresh clears the cookie of the first
  (`auth-router.ts:34`). `LoggedOutHasNoSession`, one tab, two requests: a refresh in flight brings
  the session back (`sessionClient.ts:105`).

**Pages.**
- `GameScreen`, two games: `AnswersOfTheChosen`, choosing during a reload (`useGameDetail.ts:12`);
  `ActsOnWhatIsShown`, `LosesAnswers`: after a failed read the buttons are those of one game and act
  on another (`:31`); `OneAtATime` (`MemberDnd.tsx:49`) and `SettledIsFresh` (`useGameDetail.ts:12`)
  with `Habits` {"drags"}; `ChosenExists` after a deletion (`GameDay.tsx:42`).
- `CandidateDraft`: `SavedIsSaved` with `LosesAnswers` (`useCandidateList.ts:88`);
  `OnlyRemovedAreDropped` with `WaitsForList` FALSE, when a list is pasted before the saved one
  arrives (`CandidateList.tsx:154`), or `OtherTab` TRUE (`useCandidateList.ts:86`).
- `DeskScreen`: `RuledAsShown` with `Others` TRUE or `Coming` {3} (`RuleSharesDialog.tsx:184`: the
  number of shares is sent, not which); `RowsOfTheChosen` with `Habits` {"ticks"}
  (`useLoaded.ts:11`); `ListIsFresh` with {"closes"} (`AssignPlayerDialog.tsx:86`). A share somebody
  else answers for is offered to its holder and to its member (`debt-repository.ts:141`,
  `bizum-resolution-service.ts:257`); ticked in both, the ruling is refused (`:215`).
- `BankPanel`: a start date to come may be chosen (`BankReadingSettings.tsx:25`) and is refused
  (`bank-settings-service.ts:202`), and so is a word of more than 40 characters (`KeywordLists.tsx:76`,
  `bank-settings-service.ts:214`) or one that is in the list in other letters (`:223`). `WordsKept` with `Reads` 1 (`useReadNow.ts:25`); `SaysOneThing` after disconnecting
  (`BankPanel.tsx:55`).
- `Teams`: `ShownIsStored` with `Careful` FALSE (`useTeamsPaste.ts:49`); `OnePaste` with two
  `Pages` (`team-paste-service.ts:103`); `OnTheTeamPlays` with `Changes` 1
  (`team-assignment-service.ts:13`).
- `PaymentScreen`: `UndoesWhatWasAsked` with `Failures` 1 (`bizum-undo-service.ts:28`) and
  `ReassignsTheShareNamed` with two `Screens` (`debt-holder-service.ts:29`), both because an id is
  used again; `HolderCanPay` with `Kinds` {"debts"} (`debtRows.ts:22`; glossary.md:123).
- `PlayersScreen`: with `Patient` FALSE, `OneHostAtATime`, as the whole list is sent
  (`PlayerRelationsEditor.tsx:95`), `ChosenIsAccepted`, of a player deleted meanwhile, and
  `UntypedIsKept`: the field of the seniority, left untouched, sends back the value it was made with
  (`PlayerEditor.tsx:131`). `NamesDiffer`: a player added to the season may have the name of another
  but for case (`player-repository.ts:165`; player-edit-service.ts:25 says a principal name is never
  shared). A role or a host may be offered and refused, because somebody in a convocatoria would no
  longer be in its list (`player-directory-service.ts:130`, `:145`; `convocatoria-edit-service.ts:49`).
- `SeasonScreen`: `ListsAreOfTheSeason` with `InOrder` FALSE (`AdminShell.tsx:66`), and with `Patient`
  FALSE too `SeasonIsKept`, when an answer older than the season just created comes last (`:50`);
  `ListsAreOfTheSeason` with `Patient` FALSE and `Presses` 2, when the reads a save starts, of the
  season left meanwhile, come after those of the one gone to; `ChosenIsOfTheSeason`, the offered
  season created with a game on the page (`:122`), or a season to create and `Failures` 1: the answer
  to its creation is lost and a game of it is recorded, but the page, which does not list it, stays
  at the one before (`:144`); that the page
  ends at the season it created with `UtcToday` a day before `Today` (`:120`; the client takes the
  date of UTC, which differs only where the server's clock is not in UTC).

**The database file.** `BackupsAreKept` with `Apart` FALSE, a server and a hand: two copies in the
same second take one name (`database-backup.ts:42`). With a crash this breaks `CopyBeforeChange`
too, which is checked with `Apart` only.

**Read and not modelled as properties.** A migration that fails every time takes a copy at each of
its restarts, five seconds apart (`deploy/pachanguero.service:18`). Two first authorisations that
both complete leave the first session open at the bank (`bank-connection-service.ts:191`). If
recording a read fails, the next one is scheduled from the read before, which may be at once
(`bank-poller.ts:155`). The bank may be changed while a code is exchanged
(`bank-connection-service.ts:179`). Undoing the payment of somebody the replay left out gives a
debt to who does not play until the next replay (`share-settler.ts:90`). A season of no places or
no price is accepted.

## 7. Not modelled, and why

- **Text**: name matching, line and team parsing beyond what a line is (`domain/text*`, the
  parsers), seniority as a logarithm. They keep no state; modules take their results.
- **Reports and standings pages**: read-only queries over modelled tables.
- **Command line**: `create`, `deactivate`, `reset-pwd` and the others are in `Sessions` and
  `LoginLockout`, `backup` in `DatabaseFile`; the rest prints.
- **Import scripts, deployment, tooling, the fake bank's own routes**: run once or serve the tests.

Liveness, and the fairness it needs, is not proved; it stays with TLC.
