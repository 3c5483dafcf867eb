---------------------------- MODULE DatabaseFile ----------------------------
(***************************************************************************)
(* Opening the database file: the copy taken of an older one and the       *)
(* migration that brings it to the latest schema, of server/src/db/        *)
(* (index.ts, schema-migrator.ts, database-backup.ts, schema.sql and the   *)
(* six steps), by the server and by the operator's command line, with      *)
(* crashes, a full disk and a restored copy.                               *)
(*                                                                         *)
(* A file is its stamp, the tables it has of those a step is about, the    *)
(* columns those gained or lost, and where what it says is kept.  Each     *)
(* statement and each call to the file system is a step of its own;        *)
(* VACUUM INTO is one instant, or what a crash leaves of it.               *)
(***************************************************************************)
EXTENDS Naturals, SequencesExt, FiniteSetsExt

CONSTANTS Servers,       \* the service, one process at a time
          Hands,         \* runs of the operator's `backup`
          FirstFiles,    \* the versions the file may have at the start, None when there is none
          Apart,         \* no two processes copy at the same time
          Seconds,       \* how often the clock moves on (bound)
          Faults,        \* crashes, stops, failed writes and restores (bound)
          Half, None     \* what a crash leaves of a copy, and nothing

Procs == Servers \cup Hands

VARIABLES file,          \* the database, as committed
          work, writer,  \* the transaction that migrates it, and whose it is
          backups,       \* the copies, by name
          parts,         \* those under their temporary name
          proc,          \* where each process is
          second,        \* the clock, which names the copies
          faults         \* what went wrong so far

vars == <<file, work, writer, backups, parts, proc, second, faults>>
disk == <<backups, parts>>
weather == <<second, faults>>

LATEST_SCHEMA_VERSION == 7
steps == 2..LATEST_SCHEMA_VERSION

(***************************************************************************)
(* What a file holds                                                       *)
(***************************************************************************)
schema == <<"players", "names", "profile", "payments", "tokens", "contacts">>
Tables == Range(schema)

Places == {"nowhere", "column", "table"}

Contents ==
    [version : 0..LATEST_SCHEMA_VERSION + 1, wal : BOOLEAN, lists : BOOLEAN,
     tables : SUBSET Tables,
     columns : SUBSET {"method", "bizum_id", "acting_as", "bizum_name", "email"},
     bizumName : Places, email : Places, profile : {"empty", "seeded", "cleared"}]

\* A newer application is any that wrote one more version; half a copy is no database.
DatabaseFileAssumption ==
    /\ Servers \cap Hands = {} /\ Apart \in BOOLEAN
    /\ FirstFiles \subseteq (0..LATEST_SCHEMA_VERSION + 1) \cup {None}
    /\ {Seconds, Faults} \subseteq Nat
    /\ Half # None /\ {Half, None} \cap Contents = {} /\ None \notin Procs

\* The columns a table has when the schema of today creates it.
ColumnsOf(table) == CASE table = "payments" -> {"method", "bizum_id"}
                      [] table = "tokens" -> {"acting_as"}
                      [] OTHER -> {}

Created(new, c) == [c EXCEPT !.tables = @ \cup new,
                             !.columns = @ \cup UNION {ColumnsOf(t) : t \in new \ c.tables}]

NewFile == [version |-> 0, wal |-> FALSE, tables |-> {}, columns |-> {},
            bizumName |-> "nowhere", email |-> "nowhere", lists |-> FALSE, profile |-> "empty"]

\* The file a release left that wrote schema v, with lists saved in it and whatever it had room for.
Written(v) ==
    [version |-> v, wal |-> TRUE, lists |-> TRUE,
     tables |-> {"players", "payments"} \cup (IF v >= 2 THEN {"tokens", "contacts"} ELSE {})
                \cup (IF v >= 6 THEN {"names"} ELSE {}) \cup (IF v >= 7 THEN {"profile"} ELSE {}),
     columns |-> (IF v >= 2 THEN {"acting_as"} ELSE {}) \cup (IF v >= 3 THEN {"method"} ELSE {})
                 \cup (IF v >= 5 THEN {"bizum_id"} ELSE {})
                 \cup (IF v \in 2..6 THEN {"email"} ELSE {}) \cup (IF v \in 4..5 THEN {"bizum_name"} ELSE {}),
     bizumName |-> IF v >= 6 THEN "table" ELSE IF v >= 4 THEN "column" ELSE "nowhere",
     email |-> IF v >= 7 THEN "table" ELSE IF v >= 2 THEN "column" ELSE "nowhere",
     profile |-> IF v >= 7 THEN "seeded" ELSE "empty"]

(***************************************************************************)
(* The steps.  Each looks at the file first: one the schema of today       *)
(* completed needs nothing.                                                *)
(***************************************************************************)
AddsColumn(column, c) == [c EXCEPT !.columns = @ \cup {column}]

MovesNames(c) ==
    IF "bizum_name" \notin c.columns THEN c
    ELSE [c EXCEPT !.columns = @ \ {"bizum_name"}, !.bizumName = IF @ = "column" THEN "table" ELSE @]

MovesEmails(c) ==
    IF "email" \notin c.columns THEN c
    ELSE [c EXCEPT !.columns = @ \ {"email"}, !.email = IF @ = "column" THEN "table" ELSE @]

SeedsProfile(c) == [c EXCEPT !.profile = IF @ # "seeded" /\ c.lists THEN "seeded" ELSE @]

apply(s, c) == CASE s = 2 -> AddsColumn("acting_as", c)
                 [] s = 3 -> AddsColumn("method", c)
                 [] s = 4 -> AddsColumn("bizum_name", c)
                 [] s = 5 -> AddsColumn("bizum_id", c)
                 [] s = 6 -> MovesNames(c)
                 [] s = 7 -> SeedsProfile(MovesEmails(c))

(***************************************************************************)
(* The processes                                                           *)
(***************************************************************************)
Idle == [at |-> "off", opened |-> FALSE, seen |-> None, name |-> None]

Init ==
    /\ \E v \in FirstFiles : file = IF v = None THEN NewFile ELSE Written(v)
    /\ work = None /\ writer = None
    /\ backups = << >> /\ parts = << >>
    /\ proc = [p \in Procs |-> Idle]
    /\ second = 0 /\ faults = 0

Goes(p, at) == proc' = [proc EXCEPT ![p].at = at]

\* An error: the connection is closed, what was not committed is gone, and the process ends.
Ends(p) ==
    /\ proc' = [proc EXCEPT ![p] = IF p \in Hands THEN [Idle EXCEPT !.at = "ended"] ELSE Idle]
    /\ IF writer = p THEN writer' = None /\ work' = None ELSE UNCHANGED <<work, writer>>

Without(files, name) == [n \in DOMAIN files \ {name} |-> files[n]]
With(files, name, c) == [n \in DOMAIN files \cup {name} |-> IF n = name THEN c ELSE files[n]]

Free == writer = None

Open(p) ==
    /\ proc[p].at = "off"
    /\ Goes(p, "open")
    /\ UNCHANGED <<file, work, writer, disk, weather>>

Newer(version) == version > LATEST_SCHEMA_VERSION

\* SchemaMigrator.run, which reads the stamp first and refuses what a newer application wrote.
ReadVersion(p) ==
    /\ proc[p].at = "open"
    /\ IF Newer(file.version) THEN Ends(p)
       ELSE /\ proc' = [proc EXCEPT ![p].at = "look", ![p].seen = file.version]
            /\ UNCHANGED <<work, writer>>
    /\ UNCHANGED <<file, disk, weather>>

\* The database is open: the server serves, the operator's command makes its copy.
Opens(p) == proc' = [proc EXCEPT ![p].opened = TRUE, ![p].at = IF p \in Hands THEN "backup" ELSE "up"]

\* A file without players is a new one; one of the latest version gets what it lacks.
Look(p) ==
    /\ proc[p].at = "look"
    /\ IF "players" \notin file.tables THEN Goes(p, "schema") /\ UNCHANGED file
       ELSE IF proc[p].seen # LATEST_SCHEMA_VERSION THEN Goes(p, "backup") /\ UNCHANGED file
       ELSE /\ Free /\ Opens(p)
            /\ file' = [Created(Tables, file) EXCEPT !.wal = TRUE]
    /\ UNCHANGED <<work, writer, disk, weather>>

\* The schema of a new file, one committed statement after another, and then the stamp.
CreateTables(p) ==
    /\ proc[p].at = "schema" /\ Free
    /\ LET lacking == {i \in DOMAIN schema : schema[i] \notin file.tables}
       IN IF lacking = {} THEN Goes(p, "stamp") /\ UNCHANGED file
          ELSE file' = [Created({schema[Min(lacking)]}, file) EXCEPT !.wal = TRUE] /\ UNCHANGED proc
    /\ UNCHANGED <<work, writer, disk, weather>>

Stamp(p) ==
    /\ proc[p].at = "stamp" /\ Free
    /\ file' = [file EXCEPT !.version = LATEST_SCHEMA_VERSION]
    /\ Opens(p)
    /\ UNCHANGED <<work, writer, disk, weather>>

(***************************************************************************)
(* DatabaseBackup.create                                                   *)
(***************************************************************************)
Label(p) == IF proc[p].opened THEN "by hand" ELSE "before-migration"

freeName(p) ==
    LET free == {n \in 1..Cardinality(DOMAIN backups) + 1 :
                    <<second, Label(p), n>> \notin DOMAIN backups}
    IN <<second, Label(p), Min(free)>>

Name(p) ==
    /\ proc[p].at = "backup"
    /\ Apart => \A q \in Procs : proc[q].at \notin {"clear", "copy", "rename"}
    /\ proc' = [proc EXCEPT ![p].at = "clear", ![p].name = freeName(p)]
    /\ UNCHANGED <<file, work, writer, disk, weather>>

ClearPart(p) ==
    /\ proc[p].at = "clear"
    /\ parts' = Without(parts, proc[p].name)
    /\ Goes(p, "copy")
    /\ UNCHANGED <<file, work, writer, backups, weather>>

CopyFails(p) == Ends(p)

\* VACUUM INTO refuses a file that is there; whoever fails deletes the temporary file.
Copy(p) ==
    /\ proc[p].at = "copy"
    /\ IF proc[p].name \in DOMAIN parts
       THEN parts' = Without(parts, proc[p].name) /\ CopyFails(p)
       ELSE /\ parts' = With(parts, proc[p].name, [file EXCEPT !.wal = FALSE])
            /\ Goes(p, "rename")
            /\ UNCHANGED <<work, writer>>
    /\ UNCHANGED <<file, backups, weather>>

DiskFull(p) ==
    /\ proc[p].at = "copy" /\ faults < Faults
    /\ faults' = faults + 1
    /\ parts' = Without(parts, proc[p].name)
    /\ CopyFails(p)
    /\ UNCHANGED <<file, backups, second>>

RenamePart(p) ==
    /\ proc[p].at = "rename"
    /\ IF proc[p].name \notin DOMAIN parts THEN CopyFails(p) /\ UNCHANGED disk
       ELSE /\ backups' = With(backups, proc[p].name, parts[proc[p].name])
            /\ parts' = Without(parts, proc[p].name)
            /\ Goes(p, IF proc[p].opened THEN "ended" ELSE "wal")
            /\ UNCHANGED <<work, writer>>
    /\ UNCHANGED <<file, weather>>

(***************************************************************************)
(* The migration                                                           *)
(***************************************************************************)
useWriteAheadLog(c) == [c EXCEPT !.wal = TRUE]

Journal(p) ==
    /\ proc[p].at = "wal" /\ Free
    /\ file' = useWriteAheadLog(file)
    /\ Goes(p, "begin")
    /\ UNCHANGED <<work, writer, disk, weather>>

\* A fault: the version read before the copy was taken.
VersionSeen(p) == proc[p].seen

versionInside(p) == file.version

\* The transaction holds the write lock from its start, and reads the stamp again.  The schema
\* asks for the journal, which cannot change inside it.
Begin(p) ==
    /\ proc[p].at = "begin" /\ Free
    /\ IF versionInside(p) >= LATEST_SCHEMA_VERSION
       THEN Opens(p) /\ UNCHANGED <<work, writer>>
       ELSE IF ~file.wal THEN Ends(p)
       ELSE /\ writer' = p /\ work' = Created(Tables, file)
            /\ proc' = [proc EXCEPT ![p].at = "migrate", ![p].seen = versionInside(p)]
    /\ UNCHANGED <<file, disk, weather>>

due(version) == {s \in steps : s > version}

Migrate(p) ==
    /\ proc[p].at = "migrate" /\ due(proc[p].seen) # {}
    /\ LET s == Min(due(proc[p].seen))
       IN /\ work' = apply(s, work)
          /\ proc' = [proc EXCEPT ![p].seen = s]
    /\ UNCHANGED <<file, writer, disk, weather>>

Commit(p) ==
    /\ proc[p].at = "migrate" /\ due(proc[p].seen) = {}
    /\ file' = [work EXCEPT !.version = LATEST_SCHEMA_VERSION]
    /\ work' = None /\ writer' = None
    /\ Opens(p)
    /\ UNCHANGED <<disk, weather>>

(***************************************************************************)
(* What else happens                                                       *)
(***************************************************************************)
\* Another process held the write lock for the five seconds a connection waits.
Busy(p) ==
    /\ proc[p].at \in {"schema", "stamp", "wal", "begin"}
    /\ ~Free /\ faults < Faults
    /\ faults' = faults + 1
    /\ Ends(p)
    /\ UNCHANGED <<file, disk, second>>

\* A process killed, or the server stopped: a copy being written is left half written.
Crash(p) ==
    /\ proc[p].at \notin {"off", "ended"} /\ faults < Faults
    /\ faults' = faults + 1
    /\ Ends(p)
    /\ \/ UNCHANGED parts
       \/ /\ proc[p].at = "copy" /\ proc[p].name \notin DOMAIN parts
          /\ parts' = With(parts, proc[p].name, Half)
    /\ UNCHANGED <<file, backups, second>>

\* The operator puts a copy in the place of the database, with the application stopped.
Restore ==
    /\ faults < Faults
    /\ \A p \in Procs : proc[p].at \in {"off", "ended"}
    /\ \E name \in DOMAIN backups :
          /\ backups[name] # Half
          /\ file' = backups[name]
    /\ faults' = faults + 1
    /\ UNCHANGED <<work, writer, disk, proc, second>>

\* The server at work: a saved list places who came, a name is written down, and the organiser
\* empties what a list had placed.
Serve(p) ==
    /\ p \in Servers /\ proc[p].at = "up" /\ Free
    /\ \E c \in {[file EXCEPT !.lists = TRUE, !.profile = "seeded"],
                  [file EXCEPT !.bizumName = "table"],
                  [file EXCEPT !.profile = IF @ = "seeded" THEN "cleared" ELSE @]} : file' = c
    /\ UNCHANGED <<work, writer, disk, proc, weather>>

Tick ==
    /\ second < Seconds /\ second' = second + 1
    /\ UNCHANGED <<file, work, writer, disk, proc, faults>>

Quiet == UNCHANGED vars

Starts(p) ==
    \/ ReadVersion(p) \/ Look(p) \/ CreateTables(p) \/ Stamp(p)
    \/ Name(p) \/ ClearPart(p) \/ Copy(p) \/ RenamePart(p)
    \/ Journal(p) \/ Begin(p) \/ Migrate(p) \/ Commit(p)

Next ==
    \/ \E p \in Procs : Open(p) \/ Starts(p) \/ DiskFull(p) \/ Busy(p) \/ Crash(p) \/ Serve(p)
    \/ Restore \/ Tick \/ Quiet

Spec == Init /\ [][Next]_vars

(***************************************************************************)
(* Properties                                                              *)
(***************************************************************************)
\* The disk holds databases or halves of one, only a migration has a transaction open, and the
\* temporary file of a copy stands only beside a name somebody chose.
TypeOK ==
    /\ file \in Contents
    /\ work \in Contents \cup {None}
    /\ writer \in Procs \cup {None}
    /\ (writer = None) <=> (work = None)
    /\ \A p \in Procs : (writer = p) <=> (proc[p].at = "migrate")
    /\ \A name \in DOMAIN backups : backups[name] \in Contents \cup {Half}
    /\ DOMAIN backups \subseteq (0..second) \X {"by hand", "before-migration"} \X (Nat \ {0})
    /\ second \in 0..Seconds /\ faults \in 0..Faults

\* A file stamped with the latest version has the tables and the columns of a new one, whatever
\* it was made from and whatever crashed on the way, and keeps nothing in a column that goes
\* (SchemaMigrator.run, migrate).
LatestIsWhole ==
    file.version = LATEST_SCHEMA_VERSION =>
        /\ file.tables = Tables
        /\ file.columns = UNION {ColumnsOf(t) : t \in Tables}
        /\ "column" \notin {file.bizumName, file.email}
        /\ file.lists => file.profile # "empty"

Restored == file' # file /\ \E name \in DOMAIN backups : backups[name] = file' /\ faults' > faults

\* No opening loses what the file says, a name at the bank, an address or the lists saved, and
\* whatever is committed on the way says it in a place its columns have (the migration steps).
NothingForgotten ==
    ~Restored =>
     /\ file.bizumName # "nowhere" => file'.bizumName # "nowhere"
     /\ file.email # "nowhere" => file'.email # "nowhere"
     /\ file.lists => file'.lists
     /\ file'.bizumName = "column" => "bizum_name" \in file'.columns
     /\ file'.email = "column" => "email" \in file'.columns

\* What the organiser emptied once the file was migrated is not filled again by a process that
\* looked at the file before it was (SchemaMigrator.migrate reads the stamp again).
ClearedStaysCleared ==
    file.profile = "cleared" /\ ~Restored /\ file'.profile # "cleared" =>
     \E p \in Servers : proc[p].at = "up" /\ UNCHANGED proc

\* What a file says, whatever tables stand empty beside it.
Said(c) == <<c.version, c.bizumName, c.email, c.lists, c.profile>>

\* An older file is changed only once a whole copy of what it said stands under its final name
\* (SchemaMigrator.run: "if the copy fails nothing is changed").
CopyBeforeChange ==
    file.version < LATEST_SCHEMA_VERSION /\ Said(file') # Said(file) =>
     \/ Restored
     \/ \E p \in Procs : proc[p].at = "stamp"
     \/ \E name \in DOMAIN backups : backups[name] # Half /\ Said(backups[name]) = Said(file)

\* "Nothing here ever deletes or overwrites a backup."  (DatabaseBackup.)
BackupsAreKept ==
    \A name \in DOMAIN backups : name \in DOMAIN backups' /\ backups'[name] = backups[name]

\* What a newer application wrote is never touched (SchemaMigrator.run).
NewerIsLeftAlone == file.version > LATEST_SCHEMA_VERSION => UNCHANGED <<file, disk>>

Up == \A p \in Servers : proc[p].at = "up"
=============================================================================
