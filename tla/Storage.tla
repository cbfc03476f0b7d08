------------------------------- MODULE Storage -------------------------------
(***************************************************************************)
(* What one invocation of the program does to the data directory before    *)
(* and in its subcommand (crates/cli/src/main.rs, util/utils.rs,           *)
(* commands/db.rs): the migration of the legacy directory, init_db, the    *)
(* seed file, and the db subcommands.  Invocations follow each other or,   *)
(* without the db subcommands, overlap, and one may be killed between any  *)
(* two of its steps.                                                       *)
(*                                                                         *)
(* A file is absent, torn (created, its writer not done), or has contents. *)
(* The data of a database stands for its rows.  A database is read from    *)
(* its main file and the log beside it (SqliteDb sets journal_mode WAL);   *)
(* fs::copy and fs::remove_file only see the main file.                    *)
(***************************************************************************)
EXTENDS Integers, Sequences, FiniteSets, Functions

CONSTANTS Invocations,  \* 1..n, in the order of their starts
          Starts,       \* [layout: the directories the first invocation finds,
                        \*  together: the invocations overlap]
          Subcommands,  \* the subcommands that are invoked
          MaxOverlap,   \* bound on the invocations that overlap
          MaxKills      \* bound on the invocations that are killed

VARIABLES overlap,   \* invocations run at the same time
          dirs,      \* [legacy, dir: their files; sameFs: rename works; found: the
                     \*  seed there was at the start]
          exported,  \* the file named to db export and db import
          inv        \* [Invocations -> locals]

storageVars == <<overlap, dirs, exported, inv>>

NoFile == [is |-> "none"]
TornFile == [is |-> "torn"]
Database(tables, version, data) ==
  [is |-> "db", tables |-> tables, version |-> version, data |-> data]
\* Pages of two databases: what is read from it is not known.
Mixed == [Database({}, 0, 0) EXCEPT !.is = "mixed"]
Seed(s) == [is |-> "seed", seed |-> s]
\* db: the database, as it is read from main file and log; file: the main file.
\* They are equal if and only if the log holds nothing the file does not have.
NoFiles == [exists |-> TRUE, seed |-> NoFile, db |-> NoFile, file |-> NoFile, backup |-> NoFile]
NoDir == [NoFiles EXCEPT !.exists = FALSE]

\* The statements of create_tables, in order.
CreateTables == <<"runs", "rpc_urls", "named_txs", "run_txs", "latency", "replay_reports">>
DB_VERSION == 7
FullDb(data) == Database(Range(CreateTables), DB_VERSION, data)
\* What SQLite reads; a file that is new or empty is a database without tables, and
\* the log beside it is dropped.
Opened(file) == IF file.is \in {"db", "mixed"} THEN file ELSE Database({}, 0, 0)

\* Where an invocation is, the next statement of create_tables, what follows it or
\* the closing of the database, the seed it works with, and for an import the
\* database it replaces and the one it was given.
NotInvoked == [at |-> "none", cmd |-> "none", next |-> 1, then |-> "command",
               seed |-> NoFile, old |-> NoFile, given |-> NoFile]

\* The contents that files and directories can have.
SeedFiles == {NoFile, TornFile} \cup [is : {"seed"}, seed : Nat]
DbFiles ==
  {NoFile, TornFile}
  \cup [is : {"db", "mixed"}, tables : SUBSET Range(CreateTables), version : Nat, data : Nat]
Dirs == {NoDir} \cup [exists : {TRUE}, seed : SeedFiles, db : DbFiles, file : DbFiles, backup : DbFiles]

\* A seed file as load_seedfile reads it.
AsRead(file) == IF file.is = "seed" THEN file ELSE Seed(0)

\* A database of this version with the table run_txs has all tables.
Complete(file) ==
  LET db == Opened(file) IN
  db.is = "db" /\ "run_txs" \in db.tables /\ db.version = DB_VERSION =>
    Range(CreateTables) \subseteq db.tables

\* The seed that was found is that of the directory in use, or of the legacy one if
\* there is no other; no database was left by an invocation that was killed.
ASSUME StorageAssumption ==
  /\ Invocations \subseteq Nat \ {0} /\ \A p \in Invocations : 1..p \subseteq Invocations
  /\ \A s \in Starts :
       LET l    == s.layout
           seed == IF l.dir = NoDir THEN l.legacy.seed ELSE l.dir.seed
       IN /\ s.together \in BOOLEAN
          /\ l \in [legacy : Dirs, dir : Dirs, sameFs : BOOLEAN, found : SeedFiles]
          /\ l.found = IF seed = NoFile THEN NoFile ELSE AsRead(seed)
          /\ Complete(l.legacy.db) /\ l.legacy.db = l.legacy.file
          /\ Complete(l.dir.db) /\ l.dir.db = l.dir.file

Seeded == {"setup", "spam", "campaign"}
DbCommands == {"drop", "reset", "export", "import"}
Ended == {"ok", "err", "killed"}

FirstUse == [legacy |-> NoDir, dir |-> NoDir, sameFs |-> TRUE, found |-> NoFile]

StorageStart(together, layout) ==
  /\ overlap = together
  /\ dirs = layout
  /\ exported = FullDb(9)
  /\ inv = [p \in Invocations |-> NotInvoked]

StorageInit == \E s \in Starts : StorageStart(s.together, s.layout)

Reached(p, place) == inv[p].at = place
\* run() closes the database before it returns.
Goes(p, place) ==
  inv' = IF place \in {"ok", "err"} THEN [inv EXCEPT ![p].at = "close", ![p].then = place]
         ELSE [inv EXCEPT ![p].at = place]
Fill(name, content) == dirs' = [dirs EXCEPT !.dir[name] = content]
Store(db, file) == dirs' = [dirs EXCEPT !.dir.db = db, !.dir.file = file]
-----------------------------------------------------------------------------
(* main: the data directory and the database *)

Invoke(p, cmd) ==
  /\ Reached(p, "none")
  /\ \A q \in 1..p - 1 : inv[q].at \in Ended \/ (overlap /\ inv[q].at # "none")
  /\ overlap => cmd \notin DbCommands /\ p <= MaxOverlap
  /\ inv' = [inv EXCEPT ![p].at = "resolve", ![p].cmd = cmd]
  /\ UNCHANGED <<overlap, dirs, exported>>

\* resolve_default_data_dir looks for both directories, ...
ResolveDataDir(p) ==
  /\ Reached(p, "resolve")
  /\ Goes(p, IF dirs.legacy # NoDir /\ dirs.dir = NoDir THEN "migrate" ELSE "mkdir")
  /\ UNCHANGED <<overlap, dirs, exported>>

MutantMigrate(p) ==
  /\ Reached(p, "migrate")
  /\ dirs' = [dirs EXCEPT !.dir = NoFiles]
  /\ Goes(p, "mkdir")
  /\ UNCHANGED <<overlap, exported>>

\* ... renames the legacy one, or warns and goes on, ...
Migrate(p) ==
  /\ Reached(p, "migrate")
  /\ dirs' = IF dirs.legacy # NoDir /\ dirs.dir \in {NoDir, NoFiles} /\ dirs.sameFs
             THEN [dirs EXCEPT !.legacy = NoDir, !.dir = dirs.legacy] ELSE dirs
  /\ Goes(p, "mkdir")
  /\ UNCHANGED <<overlap, exported>>

\* ... and creates what is still missing.
CreateDir(p) ==
  /\ Reached(p, "mkdir")
  /\ dirs' = [dirs EXCEPT !.dir = IF @ = NoDir THEN NoFiles ELSE @]
  /\ Goes(p, "open")
  /\ UNCHANGED <<overlap, exported>>

\* SqliteDb::from_file and init_db, which takes a database with the table
\* run_txs for complete.
AfterInit(db, cmd) ==
  IF "run_txs" \notin db.tables THEN "tables"
  ELSE IF db.version # DB_VERSION /\ cmd \notin DbCommands \cup {"admin"} THEN "err"
  ELSE "command"

InitDb(p) ==
  /\ Reached(p, "open")
  /\ LET db == Opened(dirs.dir.db) IN
     /\ Store(db, Opened(dirs.dir.file))
     /\ \/ Goes(p, AfterInit(db, inv[p].cmd))
        \/ db.is = "mixed" /\ \E place \in {"tables", "command", "err"} : Goes(p, place)
  /\ UNCHANGED <<overlap, exported>>

\* Every statement of create_tables commits by itself, the version with the first;
\* a commit goes to the log.
WithTable(db, k) == [db EXCEPT !.tables = @ \cup {CreateTables[k]}, !.version = DB_VERSION]

MutantCreateTable(p) ==
  /\ Reached(p, "tables")
  /\ LET k  == inv[p].next
     IN IF k >= Len(CreateTables)
        THEN Goes(p, inv[p].then) /\ UNCHANGED dirs
        ELSE /\ inv' = [inv EXCEPT ![p].next = k + 1]
             /\ Store(WithTable(Opened(dirs.dir.db), k), Opened(dirs.dir.file))
  /\ UNCHANGED <<overlap, exported>>

\* A statement that fails, because another invocation writes, is only logged.
CreateTable(p) ==
  /\ Reached(p, "tables")
  /\ LET k  == inv[p].next
     IN IF k > Len(CreateTables)
        THEN Goes(p, inv[p].then) /\ UNCHANGED dirs
        ELSE /\ inv' = [inv EXCEPT ![p].next = k + 1]
             /\ \/ Store(WithTable(Opened(dirs.dir.db), k), Opened(dirs.dir.file))
                \/ overlap /\ UNCHANGED dirs
  /\ UNCHANGED <<overlap, exported>>

Connected(p) == inv[p].at \notin {"none", "resolve", "migrate", "mkdir", "open"} \cup Ended

\* The end of run(): the last connection writes the log back and removes it.
Close(p) ==
  /\ Reached(p, "close")
  /\ inv' = [inv EXCEPT ![p].at = inv[p].then]
  /\ IF \E q \in Invocations \ {p} : Connected(q) THEN UNCHANGED dirs
     ELSE Store(dirs.dir.db, dirs.dir.db)
  /\ UNCHANGED <<overlap, exported>>
-----------------------------------------------------------------------------
(* The subcommands *)

Command(p, cmds) == Reached(p, "command") /\ inv[p].cmd \in cmds

\* load_seedfile: a new seed is written if there is no file (fs::write creates
\* or empties it, then writes), ...
LoadSeedfile(p) ==
  /\ Command(p, Seeded)
  /\ Goes(p, IF dirs.dir.seed = NoFile THEN "seed" ELSE "read")
  /\ UNCHANGED <<overlap, dirs, exported>>

WriteSeed(p) ==
  /\ \/ Reached(p, "seed") /\ Fill("seed", TornFile) /\ Goes(p, "seeding")
     \/ Reached(p, "seeding") /\ Fill("seed", Seed(p)) /\ Goes(p, "read")
  /\ UNCHANGED <<overlap, exported>>

\* ... and the file is read; an empty one is the seed zero.
ReadSeed(p) ==
  /\ Reached(p, "read")
  /\ inv' = [inv EXCEPT ![p].at = "work", ![p].seed = AsRead(dirs.dir.seed)]
  /\ UNCHANGED <<overlap, dirs, exported>>

\* The rest of the subcommand fills the tables it finds.  A long log is written
\* back by a commit.
Work(p) ==
  /\ Reached(p, "work")
  /\ LET db     == Opened(dirs.dir.db)
         filled == [db EXCEPT !.data = p]
     IN \/ /\ Range(CreateTables) \subseteq db.tables \/ db.is = "mixed"
           /\ \E file \in {dirs.dir.file, filled} : Store(filled, file)
           /\ Goes(p, "ok")
        \/ /\ ~(Range(CreateTables) \subseteq db.tables) \/ db.is = "mixed"
           /\ Goes(p, "err")
           /\ UNCHANGED dirs
  /\ UNCHANGED <<overlap, exported>>

\* admin reads the seed and does not make one.
ReadSeedFile(p) ==
  /\ Command(p, {"admin"})
  /\ IF dirs.dir.seed.is = "seed"
     THEN inv' = [inv EXCEPT ![p].at = "close", ![p].then = "ok", ![p].seed = dirs.dir.seed]
     ELSE Goes(p, "err")
  /\ UNCHANGED <<overlap, dirs, exported>>

\* drop_db, and reset_db, which then makes a new database.  The log that is left
\* beside an absent file counts for nothing.
DropDb(p) ==
  /\ Command(p, {"drop", "reset"})
  /\ Store(NoFile, NoFile)
  /\ IF inv[p].cmd = "drop" THEN Goes(p, "ok")
     ELSE inv' = [inv EXCEPT ![p].at = "tables", ![p].next = 1, ![p].then = "ok"]
  /\ UNCHANGED <<overlap, exported>>

\* fs::copy empties the target first.
ExportDb(p) ==
  /\ \/ Command(p, {"export"}) /\ exported' = TornFile /\ Goes(p, "exporting")
     \/ Reached(p, "exporting") /\ exported' = dirs.dir.file /\ Goes(p, "ok")
  /\ UNCHANGED <<overlap, dirs>>

ImportDb(p) ==
  /\ Command(p, {"import"})
  /\ IF exported = NoFile THEN Goes(p, "err")
     ELSE inv' = [inv EXCEPT ![p].at = "backup", ![p].old = dirs.dir.db, ![p].given = exported]
  /\ UNCHANGED <<overlap, dirs, exported>>

MutantBackupDb(p) ==
  /\ Reached(p, "backup")
  /\ Goes(p, "copy")
  /\ UNCHANGED <<overlap, dirs, exported>>

BackupDb(p) ==
  /\ \/ Reached(p, "backup") /\ Fill("backup", TornFile) /\ Goes(p, "backing up")
     \/ Reached(p, "backing up") /\ Fill("backup", dirs.dir.file) /\ Goes(p, "copy")
  /\ UNCHANGED <<overlap, exported>>

\* A log that was not empty stays beside the new main file.
CopyDb(p) ==
  /\ \/ /\ Reached(p, "copy")
        /\ Store(IF dirs.dir.db = dirs.dir.file THEN TornFile ELSE Mixed, TornFile)
        /\ Goes(p, "copying")
     \/ /\ Reached(p, "copying")
        /\ Store(IF dirs.dir.db = TornFile THEN exported ELSE dirs.dir.db, exported)
        /\ Goes(p, "ok")
  /\ UNCHANGED <<overlap, exported>>

Kill(p) ==
  /\ inv[p].at \notin Ended \cup {"none"}
  /\ Cardinality({q \in Invocations : Reached(q, "killed")}) < MaxKills
  /\ inv' = [inv EXCEPT ![p].at = "killed"]
  /\ UNCHANGED <<overlap, dirs, exported>>

InvocationStep(p) ==
  \/ ResolveDataDir(p) \/ Migrate(p) \/ CreateDir(p) \/ InitDb(p) \/ CreateTable(p) \/ Close(p)
  \/ LoadSeedfile(p) \/ WriteSeed(p) \/ ReadSeed(p) \/ Work(p) \/ ReadSeedFile(p)
  \/ DropDb(p) \/ ExportDb(p) \/ ImportDb(p) \/ BackupDb(p) \/ CopyDb(p)

StorageNext ==
  \E p \in Invocations : \/ \E cmd \in Subcommands : Invoke(p, cmd)
                         \/ InvocationStep(p) \/ Kill(p)

StorageSpec == StorageInit /\ [][StorageNext]_storageVars
-----------------------------------------------------------------------------
(* Properties *)

Killed == {p \in Invocations : Reached(p, "killed")}

\* All invocations work with one seed, the one found by the first if there was
\* one: in the legacy directory too, if that can be moved.  Otherwise the
\* accounts an earlier one funded are out of reach.  It holds wherever an
\* invocation is killed, and, if a seed was found, when they overlap.
SeedStable ==
  dirs.sameFs /\ (dirs.found # NoFile \/ ~overlap) =>
    \A p, q \in Invocations : inv[p].seed # NoFile =>
      /\ inv[q].seed \in {NoFile, inv[p].seed}
      /\ dirs.found \in {NoFile, inv[p].seed}

\* An invocation finds all tables when it gets to its subcommand, unless an
\* earlier one was killed, another one runs beside it, or an import was mixed with
\* the log of the database it replaced.
TablesReady ==
  ~overlap /\ Killed = {} /\ dirs.dir.db.is # "mixed" =>
    \A p \in Invocations : Reached(p, "work") =>
      Range(CreateTables) \subseteq Opened(dirs.dir.db).tables

Newest(p) == \A q \in Invocations : q > p => Reached(q, "none")

\* db import is as good as its two copies of the main file when nothing is in the
\* log: no earlier invocation was killed and this one found its tables.  The
\* database it replaces is then still there, as the database or as its backup,
\* wherever the import was killed, and after an import that succeeds the database
\* is the file it was given.
ImportSound ==
  \A p \in Invocations : Newest(p) /\ Killed \subseteq {p} /\ inv[p].next = 1 =>
    /\ inv[p].old # NoFile => inv[p].old \in {dirs.dir.db, dirs.dir.backup}
    /\ inv[p].cmd = "import" /\ Reached(p, "ok") => dirs.dir.db = inv[p].given

\* After an import the database is the one that was given (test_export_import_db).
ImportIsGiven ==
  \A p \in Invocations :
    Newest(p) /\ inv[p].cmd = "import" /\ Reached(p, "ok") => dirs.dir.db = inv[p].given
=============================================================================
