---------------------------- MODULE StorageProofs ----------------------------
(***************************************************************************)
(* Proofs about Storage, for any number of invocations, any directories    *)
(* found at the start, and any bounds on overlaps and kills: the seed      *)
(* stays, the tables are there when a subcommand works, and an import      *)
(* never loses the database it replaces.                                   *)
(*                                                                         *)
(* StorageInv is inductive.  The seed needs to know where a legacy         *)
(* directory may still be (Moved) and who may write a seed (SeedUsed); the *)
(* tables need to know how far create_tables got (TablesOf); an import     *)
(* needs to know that nothing was in the log (TablesInv) and which of its  *)
(* two copies is done (ImportStage).                                       *)
(***************************************************************************)
EXTENDS Storage, TLAPS

\* Where an invocation can be, and its locals.
Stages == {"none", "resolve", "migrate", "mkdir", "open", "tables", "command", "seed", "seeding",
           "read", "work", "exporting", "backup", "backing up", "copy", "copying", "close"} \cup Ended
Locals == [at : Stages, cmd : Subcommands \cup {"none"}, next : 1..(Len(CreateTables) + 1),
           then : {"command", "ok", "err"}, seed : SeedFiles, old : DbFiles, given : DbFiles]

\* Flag is BOOLEAN, named so that the provers take a flag for a plain value.
Flag == BOOLEAN
OpenDirs == [exists : {TRUE}, seed : SeedFiles, db : DbFiles, file : DbFiles, backup : DbFiles]
Layout == [legacy : Dirs, dir : Dirs, sameFs : Flag, found : SeedFiles]

\* The types of the variables.
StorageTypeInv ==
  /\ overlap \in Flag
  /\ dirs \in Layout
  /\ exported \in DbFiles
  /\ inv \in [Invocations -> Locals]

\* What an invocation does before there is a directory.
Before == {"none", "resolve", "migrate", "mkdir"}

\* Invocations that do not overlap follow each other; db commands never overlap.
OneByOne ==
  \A p, q \in Invocations : ~overlap /\ p < q /\ inv[q].at # "none" => inv[p].at \in Ended

\* Past create_dir_all the directory is there.
DirMade == \A p \in Invocations : inv[p].at \notin Before \cup Ended => dirs.dir # NoDir

\* An invocation is only where its subcommand leads.
CommandFits(l) ==
  /\ l.at \in {"seed", "seeding", "read", "work"} => l.cmd \in Seeded
  /\ l.at \in {"backup", "backing up", "copy", "copying"} => l.cmd = "import"
  /\ l.cmd \in DbCommands => ~overlap
  /\ l.at = "exporting" => l.cmd = "export"
  /\ l.at \in Before \cup {"open"} => l.next = 1 /\ l.then = "command"
  /\ l.at \notin {"close"} \cup Ended => l.then = "command" \/ (l.then = "ok" /\ l.cmd = "reset")
  /\ l.at = "close" => l.then \in {"ok", "err"}
  /\ l.at = "ok" => l.then = "ok"
  /\ l.old # NoFile => l.cmd = "import"
  /\ l.at \in Before \cup {"open", "tables", "command"} => l.old = NoFile

\* The legacy directory is moved before anyone makes a new one.
Moved(l) ==
  /\ l.at = "mkdir" => dirs.legacy = NoDir \/ dirs.dir # NoDir
  /\ l.at = "migrate" => dirs.legacy = NoDir \/ dirs.dir = NoDir

\* The seed file that is, or after the migration will be, the one in use.
SeedFile == IF dirs.dir = NoDir THEN dirs.legacy.seed ELSE dirs.dir.seed

\* An invocation works with the seed of the file; it writes one only if there was
\* none and nobody works with one yet.
SeedUsed(l) ==
  /\ l.seed # NoFile => dirs.dir # NoDir /\ SeedFile # NoFile /\ l.seed = AsRead(SeedFile)
  /\ l.at \in {"read", "seeding"} => SeedFile # NoFile
  /\ l.at \in {"seed", "seeding"} =>
       dirs.found = NoFile /\ \A q \in Invocations : inv[q].seed = NoFile

\* What the seed needs, in the cases where it is kept.
SeedInv ==
  dirs.sameFs /\ (dirs.found # NoFile \/ ~overlap) =>
    /\ dirs.found # NoFile => SeedFile # NoFile /\ dirs.found = AsRead(SeedFile)
    /\ \A p \in Invocations : Moved(inv[p]) /\ SeedUsed(inv[p])

\* The database has the tables of create_tables; an invocation in create_tables has
\* made those before its next one.
AllTables == Range(CreateTables) \subseteq Opened(dirs.dir.db).tables

TablesOf(l) ==
  Opened(dirs.dir.db).is = "db" =>
    /\ l.at = "tables" =>
         \A i \in 1..(l.next - 1) : CreateTables[i] \in Opened(dirs.dir.db).tables
    /\ l.cmd \in Seeded /\ l.at \in {"command", "seed", "seeding", "read", "work"} => AllTables

\* The main file of a directory has all of its database.
Whole(dir) == dir.db = dir.file

\* An invocation that may have something in the log.
MayLog(l) == l.at \notin Ended \cup {"none"} /\ (l.next > 1 \/ l.at = "close")

\* Without overlap and kills a database is complete, unless someone is making it,
\* and in its main file, unless someone has written to it and not closed it.
TablesInv ==
  ~overlap /\ Killed = {} =>
    /\ Complete(dirs.legacy.db) /\ Complete(exported)
    /\ Complete(dirs.dir.db) \/ \E p \in Invocations : inv[p].at = "tables"
    /\ \A p \in Invocations : TablesOf(inv[p])
    /\ Whole(dirs.legacy) /\ Complete(dirs.dir.file)
    /\ Whole(dirs.dir) \/ \E p \in Invocations : MayLog(inv[p])

Copying == {"backup", "backing up", "copy", "copying"}

\* The database an import replaces is the main file until that is backed up, then
\* the backup; the file it was given does not change meanwhile.
ImportStage(l) ==
  l.cmd = "import" /\ l.next = 1 =>
    /\ l.old # NoFile => l.old \in {dirs.dir.db, dirs.dir.backup}
    /\ l.at \in {"backup", "backing up"} => dirs.dir.db = l.old
    /\ l.at \in {"backup", "backing up", "copy"} => Whole(dirs.dir)
    /\ l.at = "copying" => dirs.dir.db = TornFile
    /\ l.at \in {"copy", "copying"} => dirs.dir.backup = l.old
    /\ l.at \in Copying => exported = l.given
    /\ l.at \in {"close", "ok"} /\ l.then = "ok" => dirs.dir.db = l.given

\* It is known of the newest invocation, if no other one was killed.
ImportInv == \A p \in Invocations : Newest(p) /\ Killed \subseteq {p} => ImportStage(inv[p])

\* The inductive invariant.
StorageInv ==
  /\ StorageTypeInv /\ OneByOne /\ DirMade /\ \A p \in Invocations : CommandFits(inv[p])
  /\ SeedInv /\ TablesInv /\ ImportInv

-----------------------------------------------------------------------------
(* Files and directories *)

\* What tells the kinds of files apart.
LEMMA FileKinds ==
  /\ NoFile # TornFile /\ NoFile.is = "none" /\ TornFile.is = "torn"
  /\ \A s : Seed(s).is = "seed" /\ Seed(s) # NoFile /\ AsRead(Seed(s)) = Seed(s)
  /\ AsRead(TornFile) = Seed(0)
  /\ \A f : f.is \in {"db", "mixed"} => Opened(f) = f /\ f # NoFile
  /\ \A t, v, d : Database(t, v, d).is = "db"
<1>1. NoFile # TornFile /\ NoFile.is = "none" /\ TornFile.is = "torn"
  BY DEF NoFile, TornFile
<1>2. \A s : Seed(s).is = "seed" /\ Seed(s) # NoFile /\ AsRead(Seed(s)) = Seed(s)
  BY <1>1 DEF Seed, AsRead
<1>3. AsRead(TornFile) = Seed(0)
  BY <1>1 DEF AsRead
<1>4. \A f : f.is \in {"db", "mixed"} => Opened(f) = f /\ f # NoFile
  BY <1>1 DEF Opened
<1>5. \A t, v, d : Database(t, v, d).is = "db"
  BY DEF Database
<1> QED
  BY <1>1, <1>2, <1>3, <1>4, <1>5

\* The files that are written are well typed, and so is what is read from them.
LEMMA FileTypes ==
  /\ NoFile \in SeedFiles \cap DbFiles /\ TornFile \in SeedFiles \cap DbFiles
  /\ \A s \in Nat : Seed(s) \in SeedFiles
  /\ \A t \in SUBSET Range(CreateTables), v \in Nat, d \in Nat : Database(t, v, d) \in DbFiles
  /\ \A f \in SeedFiles : AsRead(f) \in SeedFiles
  /\ \A f \in DbFiles : /\ Opened(f) \in DbFiles /\ Opened(f).is \in {"db", "mixed"}
                        /\ Opened(f).tables \in SUBSET Range(CreateTables)
                        /\ Opened(f).version \in Nat /\ Opened(f).data \in Nat
<1>1. /\ NoFile \in SeedFiles \cap DbFiles /\ TornFile \in SeedFiles \cap DbFiles
      /\ \A s \in Nat : Seed(s) \in SeedFiles
  BY DEF SeedFiles, DbFiles, Seed
<1>2. \A t \in SUBSET Range(CreateTables), v \in Nat, d \in Nat : Database(t, v, d) \in DbFiles
  BY DEF DbFiles, Database
<1>3. \A f \in SeedFiles : AsRead(f) \in SeedFiles
  BY <1>1 DEF AsRead
<1>4. ASSUME NEW f \in DbFiles
      PROVE  /\ Opened(f) \in DbFiles /\ Opened(f).is \in {"db", "mixed"}
             /\ Opened(f).tables \in SUBSET Range(CreateTables)
             /\ Opened(f).version \in Nat /\ Opened(f).data \in Nat
  <2>1. CASE f.is \in {"db", "mixed"}
    <3>1. f \in [is : {"db", "mixed"}, tables : SUBSET Range(CreateTables), version : Nat, data : Nat]
      BY <2>1, FileKinds DEF DbFiles
    <3> QED
      BY <2>1, <3>1 DEF Opened
  <2>2. CASE f.is \notin {"db", "mixed"}
    <3>1. Opened(f) = Database({}, 0, 0)
      BY <2>2 DEF Opened
    <3>2. {} \in SUBSET Range(CreateTables) /\ 0 \in Nat
      OBVIOUS
    <3> QED
      BY <1>2, <3>1, <3>2 DEF Database
  <2> QED
    BY <2>1, <2>2
<1> QED
  BY <1>1, <1>2, <1>3, <1>4

\* A directory that is there is not NoDir, whatever is written to it.
LEMMA OpenDir ==
  /\ NoDir \notin OpenDirs /\ NoFiles \in OpenDirs
  /\ NoDir.seed = NoFile /\ NoDir.db = NoFile /\ NoFiles.seed = NoFile /\ NoFiles.db = NoFile
  /\ NoDir.file = NoFile /\ NoFiles.file = NoFile
  /\ Dirs = {NoDir} \cup OpenDirs
  /\ \A d \in OpenDirs : d.seed \in SeedFiles /\ d.db \in DbFiles /\ d.file \in DbFiles
                         /\ d.backup \in DbFiles
<1>1. /\ NoFiles \in OpenDirs /\ NoFiles.seed = NoFile /\ NoFiles.db = NoFile
      /\ NoFiles.file = NoFile
  BY FileTypes DEF NoFiles, OpenDirs
<1>2. NoDir.seed = NoFile /\ NoDir.db = NoFile /\ NoDir.file = NoFile
  BY DEF NoDir, NoFiles
<1>3. NoDir \notin OpenDirs
  <2>1. NoDir.exists = FALSE
    BY DEF NoDir, NoFiles
  <2>2. \A d \in OpenDirs : d.exists = TRUE
    BY Zenon DEF OpenDirs
  <2> QED
    BY <2>1, <2>2
<1> QED
  BY <1>1, <1>2, <1>3, Zenon DEF Dirs, OpenDirs

\* Writing one file of a directory, or the database, leaves the others.
LEMMA FilesWritten ==
  ASSUME NEW d \in OpenDirs, NEW s \in SeedFiles, NEW f \in DbFiles, NEW g \in DbFiles
  PROVE  /\ [d EXCEPT !["seed"] = s] \in OpenDirs /\ [d EXCEPT !["seed"] = s].seed = s
         /\ [d EXCEPT !["seed"] = s].db = d.db /\ [d EXCEPT !["seed"] = s].file = d.file
         /\ [d EXCEPT !["seed"] = s].backup = d.backup
         /\ [d EXCEPT !["backup"] = f] \in OpenDirs /\ [d EXCEPT !["backup"] = f].seed = d.seed
         /\ [d EXCEPT !["backup"] = f].db = d.db /\ [d EXCEPT !["backup"] = f].file = d.file
         /\ [d EXCEPT !["backup"] = f].backup = f
         /\ [d EXCEPT !.db = f, !.file = g] \in OpenDirs
         /\ [d EXCEPT !.db = f, !.file = g].seed = d.seed
         /\ [d EXCEPT !.db = f, !.file = g].db = f /\ [d EXCEPT !.db = f, !.file = g].file = g
         /\ [d EXCEPT !.db = f, !.file = g].backup = d.backup
BY Zenon DEF OpenDirs

\* The directory in use is changed, and nothing else of the layout.
DirIs(d) ==
  /\ dirs' \in Layout /\ dirs'.dir = d /\ dirs'.legacy = dirs.legacy
  /\ dirs'.sameFs = dirs.sameFs /\ dirs'.found = dirs.found

\* An assignment of the directory is such a change.
LEMMA DirWritten ==
  ASSUME dirs \in Layout, NEW d \in Dirs, dirs' = [dirs EXCEPT !.dir = d]
  PROVE  DirIs(d)
BY DEF Layout, DirIs

\* So is the writing of one of its files, and of its database.
LEMMA Fills ==
  ASSUME dirs \in Layout, dirs.dir # NoDir
  PROVE  /\ dirs.dir \in OpenDirs
         /\ \A s \in SeedFiles : Fill("seed", s) => DirIs([dirs.dir EXCEPT !["seed"] = s])
         /\ \A f \in DbFiles : Fill("backup", f) => DirIs([dirs.dir EXCEPT !["backup"] = f])
         /\ \A f, g \in DbFiles : Store(f, g) => DirIs([dirs.dir EXCEPT !.db = f, !.file = g])
<1>1. dirs.dir \in OpenDirs
  BY OpenDir DEF Layout
<1>2. ASSUME NEW n, NEW x, [dirs.dir EXCEPT ![n] = x] \in Dirs, Fill(n, x)
      PROVE  DirIs([dirs.dir EXCEPT ![n] = x])
  <2>1. dirs' = [dirs EXCEPT !.dir = [dirs.dir EXCEPT ![n] = x]]
    BY <1>2 DEF Fill, Layout
  <2> QED
    BY <1>2, <2>1, DirWritten
<1>3. ASSUME NEW f, NEW g, [dirs.dir EXCEPT !.db = f, !.file = g] \in Dirs, Store(f, g)
      PROVE  DirIs([dirs.dir EXCEPT !.db = f, !.file = g])
  <2>1. dirs' = [dirs EXCEPT !.dir = [dirs.dir EXCEPT !.db = f, !.file = g]]
    BY <1>3, Zenon DEF Store, Layout
  <2> QED
    BY <1>3, <2>1, DirWritten
<1>4. /\ \A s \in SeedFiles : [dirs.dir EXCEPT !["seed"] = s] \in Dirs
      /\ \A f \in DbFiles : [dirs.dir EXCEPT !["backup"] = f] \in Dirs
      /\ \A f, g \in DbFiles : [dirs.dir EXCEPT !.db = f, !.file = g] \in Dirs
  BY <1>1, FileTypes, OpenDir, FilesWritten, Zenon
<1> QED
  BY <1>1, <1>2, <1>3, <1>4, Zenon

\* Invocation p goes on like this, and no other one moves.
Becomes(p, at, cmd, next, then, seed, old, given) ==
  /\ inv' \in [Invocations -> Locals]
  /\ \A q \in Invocations \ {p} : inv'[q] = inv[q]
  /\ inv'[p].at = at /\ inv'[p].cmd = cmd /\ inv'[p].next = next /\ inv'[p].then = then
  /\ inv'[p].seed = seed /\ inv'[p].old = old /\ inv'[p].given = given

\* The types of the locals of one invocation.
LEMMA LocalTypes ==
  ASSUME StorageTypeInv, NEW p \in Invocations
  PROVE  /\ inv[p] \in Locals /\ inv[p].at \in Stages /\ inv[p].cmd \in Subcommands \cup {"none"}
         /\ inv[p].next \in 1..(Len(CreateTables) + 1) /\ inv[p].then \in {"command", "ok", "err"}
         /\ inv[p].seed \in SeedFiles /\ inv[p].old \in DbFiles /\ inv[p].given \in DbFiles
BY DEF StorageTypeInv, Locals

\* An assignment of the locals of p.
LEMMA Replaces ==
  ASSUME StorageTypeInv, NEW p \in Invocations, NEW l \in Locals, inv' = [inv EXCEPT ![p] = l]
  PROVE  Becomes(p, l.at, l.cmd, l.next, l.then, l.seed, l.old, l.given)
<1>1. inv'[p] = l /\ inv' \in [Invocations -> Locals]
  BY DEF StorageTypeInv
<1>2. \A q \in Invocations \ {p} : inv'[q] = inv[q]
  BY DEF StorageTypeInv
<1> QED
  BY <1>1, <1>2 DEF Becomes

\* An invocation that only goes on to another place.
LEMMA AtBecomes ==
  ASSUME StorageTypeInv, NEW p \in Invocations, NEW at \in Stages, inv' = [inv EXCEPT ![p].at = at]
  PROVE  Becomes(p, at, inv[p].cmd, inv[p].next, inv[p].then, inv[p].seed, inv[p].old,
                 inv[p].given)
<1> DEFINE l == [inv[p] EXCEPT !.at = at]
<1>1. inv[p] \in Locals
  BY DEF StorageTypeInv
<1>2. /\ l \in Locals /\ l.at = at /\ l.cmd = inv[p].cmd /\ l.next = inv[p].next
      /\ l.then = inv[p].then /\ l.seed = inv[p].seed /\ l.old = inv[p].old
      /\ l.given = inv[p].given
  BY <1>1 DEF Locals
<1>3. inv' = [inv EXCEPT ![p] = l]
  BY DEF StorageTypeInv
<1> HIDE DEF l
<1> QED
  BY <1>2, <1>3, Replaces, Zenon DEF Becomes

\* run() goes on, ...
LEMMA GoesBecomes ==
  ASSUME StorageTypeInv, NEW p \in Invocations, NEW at \in Stages \ {"ok", "err"}, Goes(p, at)
  PROVE  Becomes(p, at, inv[p].cmd, inv[p].next, inv[p].then, inv[p].seed, inv[p].old,
                 inv[p].given)
<1>1. inv' = [inv EXCEPT ![p].at = at]
  BY DEF Goes
<1> QED
  BY <1>1, AtBecomes, Zenon

\* ... or closes the database and returns.
LEMMA ClosesBecomes ==
  ASSUME StorageTypeInv, NEW p \in Invocations, NEW end \in {"ok", "err"}, NEW seed \in SeedFiles
  PROVE  /\ Goes(p, end) =>
              Becomes(p, "close", inv[p].cmd, inv[p].next, end, inv[p].seed, inv[p].old,
                      inv[p].given)
         /\ inv' = [inv EXCEPT ![p].at = "close", ![p].then = end, ![p].seed = seed] =>
              Becomes(p, "close", inv[p].cmd, inv[p].next, end, seed, inv[p].old, inv[p].given)
<1>0. inv[p] \in Locals
  BY DEF StorageTypeInv
<1>1. ASSUME Goes(p, end)
      PROVE  Becomes(p, "close", inv[p].cmd, inv[p].next, end, inv[p].seed, inv[p].old, inv[p].given)
  <2> DEFINE l == [inv[p] EXCEPT !.at = "close", !.then = end]
  <2>1. /\ l \in Locals /\ l.at = "close" /\ l.cmd = inv[p].cmd /\ l.next = inv[p].next
        /\ l.then = end /\ l.seed = inv[p].seed /\ l.old = inv[p].old /\ l.given = inv[p].given
    BY <1>0, Zenon DEF Locals, Stages
  <2>2. inv' = [inv EXCEPT ![p] = l]
    BY <1>1, Zenon DEF Goes, StorageTypeInv
  <2> HIDE DEF l
  <2> QED
    BY <2>1, <2>2, Replaces, Zenon DEF Becomes
<1>2. ASSUME inv' = [inv EXCEPT ![p].at = "close", ![p].then = end, ![p].seed = seed]
      PROVE  Becomes(p, "close", inv[p].cmd, inv[p].next, end, seed, inv[p].old, inv[p].given)
  <2> DEFINE l == [inv[p] EXCEPT !.at = "close", !.then = end, !.seed = seed]
  <2>1. /\ l \in Locals /\ l.at = "close" /\ l.cmd = inv[p].cmd /\ l.next = inv[p].next
        /\ l.then = end /\ l.seed = seed /\ l.old = inv[p].old /\ l.given = inv[p].given
    BY <1>0, Zenon DEF Locals, Stages
  <2>2. inv' = [inv EXCEPT ![p] = l]
    BY <1>2, Zenon DEF StorageTypeInv
  <2> HIDE DEF l
  <2> QED
    BY <2>1, <2>2, Replaces, Zenon DEF Becomes
<1> QED
  BY <1>1, <1>2

\* Where the other fields of an invocation change with its place.
LEMMA OtherBecomes ==
  ASSUME StorageTypeInv, NEW p \in Invocations, NEW at \in Stages
  PROVE  /\ \A cmd \in Subcommands :
              inv' = [inv EXCEPT ![p].at = at, ![p].cmd = cmd] =>
                Becomes(p, at, cmd, inv[p].next, inv[p].then, inv[p].seed, inv[p].old,
                        inv[p].given)
         /\ \A next \in 1..(Len(CreateTables) + 1) :
              /\ inv' = [inv EXCEPT ![p].next = next] =>
                   Becomes(p, inv[p].at, inv[p].cmd, next, inv[p].then, inv[p].seed, inv[p].old,
                           inv[p].given)
              /\ inv' = [inv EXCEPT ![p].at = at, ![p].next = next, ![p].then = "ok"] =>
                   Becomes(p, at, inv[p].cmd, next, "ok", inv[p].seed, inv[p].old, inv[p].given)
         /\ \A seed \in SeedFiles :
              inv' = [inv EXCEPT ![p].at = at, ![p].seed = seed] =>
                Becomes(p, at, inv[p].cmd, inv[p].next, inv[p].then, seed, inv[p].old,
                        inv[p].given)
         /\ \A old \in DbFiles, given \in DbFiles :
              inv' = [inv EXCEPT ![p].at = at, ![p].old = old, ![p].given = given] =>
                Becomes(p, at, inv[p].cmd, inv[p].next, inv[p].then, inv[p].seed, old, given)
<1>0. inv[p] \in Locals
  BY DEF StorageTypeInv
<1>1. ASSUME NEW cmd \in Subcommands, inv' = [inv EXCEPT ![p].at = at, ![p].cmd = cmd]
      PROVE  Becomes(p, at, cmd, inv[p].next, inv[p].then, inv[p].seed, inv[p].old, inv[p].given)
  <2> DEFINE l == [inv[p] EXCEPT !.at = at, !.cmd = cmd]
  <2>1. /\ l \in Locals /\ l.at = at /\ l.cmd = cmd /\ l.next = inv[p].next
        /\ l.then = inv[p].then /\ l.seed = inv[p].seed /\ l.old = inv[p].old
        /\ l.given = inv[p].given
    BY <1>0, Zenon DEF Locals
  <2>2. inv' = [inv EXCEPT ![p] = l]
    BY <1>1, Zenon DEF StorageTypeInv
  <2> HIDE DEF l
  <2> QED
    BY <2>1, <2>2, Replaces, Zenon DEF Becomes
<1>2. ASSUME NEW next \in 1..(Len(CreateTables) + 1), inv' = [inv EXCEPT ![p].next = next]
      PROVE  Becomes(p, inv[p].at, inv[p].cmd, next, inv[p].then, inv[p].seed, inv[p].old,
                     inv[p].given)
  <2> DEFINE l == [inv[p] EXCEPT !.next = next]
  <2>1. /\ l \in Locals /\ l.at = inv[p].at /\ l.cmd = inv[p].cmd /\ l.next = next
        /\ l.then = inv[p].then /\ l.seed = inv[p].seed /\ l.old = inv[p].old
        /\ l.given = inv[p].given
    BY <1>0 DEF Locals
  <2>2. inv' = [inv EXCEPT ![p] = l]
    BY <1>2 DEF StorageTypeInv
  <2> HIDE DEF l
  <2> QED
    BY <2>1, <2>2, Replaces, Zenon DEF Becomes
<1>3. ASSUME NEW next \in 1..(Len(CreateTables) + 1),
             inv' = [inv EXCEPT ![p].at = at, ![p].next = next, ![p].then = "ok"]
      PROVE  Becomes(p, at, inv[p].cmd, next, "ok", inv[p].seed, inv[p].old, inv[p].given)
  <2> DEFINE l == [inv[p] EXCEPT !.at = at, !.next = next, !.then = "ok"]
  <2>1. /\ l \in Locals /\ l.at = at /\ l.cmd = inv[p].cmd /\ l.next = next
        /\ l.then = "ok" /\ l.seed = inv[p].seed /\ l.old = inv[p].old
        /\ l.given = inv[p].given
    BY <1>0, Zenon DEF Locals
  <2>2. inv' = [inv EXCEPT ![p] = l]
    BY <1>3, Zenon DEF StorageTypeInv
  <2> HIDE DEF l
  <2> QED
    BY <2>1, <2>2, Replaces, Zenon DEF Becomes
<1>4. ASSUME NEW seed \in SeedFiles, inv' = [inv EXCEPT ![p].at = at, ![p].seed = seed]
      PROVE  Becomes(p, at, inv[p].cmd, inv[p].next, inv[p].then, seed, inv[p].old, inv[p].given)
  <2> DEFINE l == [inv[p] EXCEPT !.at = at, !.seed = seed]
  <2>1. /\ l \in Locals /\ l.at = at /\ l.cmd = inv[p].cmd /\ l.next = inv[p].next
        /\ l.then = inv[p].then /\ l.seed = seed /\ l.old = inv[p].old
        /\ l.given = inv[p].given
    BY <1>0, Zenon DEF Locals
  <2>2. inv' = [inv EXCEPT ![p] = l]
    BY <1>4, Zenon DEF StorageTypeInv
  <2> HIDE DEF l
  <2> QED
    BY <2>1, <2>2, Replaces, Zenon DEF Becomes
<1>5. ASSUME NEW old \in DbFiles, NEW given \in DbFiles,
             inv' = [inv EXCEPT ![p].at = at, ![p].old = old, ![p].given = given]
      PROVE  Becomes(p, at, inv[p].cmd, inv[p].next, inv[p].then, inv[p].seed, old, given)
  <2> DEFINE l == [inv[p] EXCEPT !.at = at, !.old = old, !.given = given]
  <2>1. /\ l \in Locals /\ l.at = at /\ l.cmd = inv[p].cmd /\ l.next = inv[p].next
        /\ l.then = inv[p].then /\ l.seed = inv[p].seed /\ l.old = old /\ l.given = given
    BY <1>0, Zenon DEF Locals
  <2>2. inv' = [inv EXCEPT ![p] = l]
    BY <1>5, Zenon DEF StorageTypeInv
  <2> HIDE DEF l
  <2> QED
    BY <2>1, <2>2, Replaces, Zenon DEF Becomes
<1> QED
  BY <1>1, <1>2, <1>3, <1>4, <1>5, Zenon

-----------------------------------------------------------------------------
(* What keeps each part of the invariant *)

\* An invocation that has begun and not ended.
Active(p) == inv[p].at \notin Ended \cup {"none"}

\* Beside an active invocation nothing moves unless they overlap.
LEMMA Alone ==
  ASSUME OneByOne, ~overlap, NEW p \in Invocations, Active(p)
  PROVE  \A q \in Invocations \ {p} : ~Active(q)
<1>1. ASSUME NEW q \in Invocations \ {p} PROVE ~Active(q)
  <2>1. q \in Nat /\ p \in Nat /\ (q < p \/ p < q)
    BY StorageAssumption
  <2> QED
    BY <2>1 DEF OneByOne, Active
<1> QED
  BY <1>1

\* A step of one that is at work keeps the order of the invocations.
LEMMA OneByOneKept ==
  ASSUME OneByOne, NEW p \in Invocations, Active(p), overlap' = overlap,
         \A q \in Invocations \ {p} : inv'[q] = inv[q], inv'[p].at # "none"
  PROVE  OneByOne'
<1>1. ASSUME NEW q \in Invocations, NEW r \in Invocations, ~overlap, q < r, inv'[r].at # "none"
      PROVE  inv'[q].at \in Ended
  <2>1. inv[r].at # "none"
    BY <1>1 DEF Active
  <2>2. inv[q].at \in Ended
    BY <1>1, <2>1 DEF OneByOne
  <2> QED
    BY <2>2 DEF Active
<1> QED
  BY <1>1 DEF OneByOne

\* Nobody removes the directory.
LEMMA DirMadeKept ==
  ASSUME DirMade, NEW p \in Invocations, \A q \in Invocations \ {p} : inv'[q] = inv[q],
         dirs.dir # NoDir => dirs'.dir # NoDir,
         inv'[p].at \notin Before \cup Ended => dirs'.dir # NoDir
  PROVE  DirMade'
BY DEF DirMade

\* A step concerns the subcommand of the one that takes it.
LEMMA FitsKept ==
  ASSUME \A q \in Invocations : CommandFits(inv[q]), NEW p \in Invocations, overlap' = overlap,
         \A q \in Invocations \ {p} : inv'[q] = inv[q], CommandFits(inv'[p])
  PROVE  \A q \in Invocations : CommandFits(inv[q])'
<1>1. \A q \in Invocations : CommandFits(inv'[q])
  OBVIOUS
<1>2. ASSUME NEW q \in Invocations PROVE CommandFits(inv[q])'
  <2>1. CommandFits(inv'[q])
    BY <1>1
  <2> QED
    BY <2>1, Zenon DEF CommandFits
<1> QED
  BY <1>2

\* The seed is to be kept.
Kept == dirs.sameFs /\ (dirs.found # NoFile \/ ~overlap)

\* A step that has nothing to do with the seed file.
LEMMA SeedKept ==
  ASSUME SeedInv, NEW p \in Invocations, overlap' = overlap,
         dirs'.sameFs = dirs.sameFs, dirs'.found = dirs.found,
         \A q \in Invocations \ {p} : inv'[q] = inv[q], inv'[p].seed = inv[p].seed,
         inv'[p].at \notin {"read", "seed", "seeding"},
         Kept => /\ SeedFile' = SeedFile /\ (dirs.dir # NoDir => dirs'.dir # NoDir)
                 /\ \/ dirs'.legacy = NoDir
                    \/ dirs'.legacy = dirs.legacy /\ (dirs'.dir = NoDir <=> dirs.dir = NoDir)
                 /\ Moved(inv[p])'
  PROVE  SeedInv'
<1>1. Kept' => Kept
  BY DEF Kept
<1> SUFFICES ASSUME Kept
             PROVE  /\ dirs'.found # NoFile => SeedFile' # NoFile /\ dirs'.found = AsRead(SeedFile')
                    /\ \A q \in Invocations : Moved(inv[q])' /\ SeedUsed(inv[q])'
  BY <1>1 DEF SeedInv, Kept
<1>2. /\ dirs.found # NoFile => SeedFile # NoFile /\ dirs.found = AsRead(SeedFile)
      /\ \A q \in Invocations : Moved(inv[q]) /\ SeedUsed(inv[q])
  BY DEF SeedInv, Kept
<1>3. ASSUME NEW q \in Invocations PROVE Moved(inv[q])'
  BY <1>2, <1>3 DEF Moved
<1>4. \A q \in Invocations : inv'[q].seed = inv[q].seed
  OBVIOUS
<1>5. ASSUME NEW q \in Invocations PROVE SeedUsed(inv[q])'
  <2>1. SeedUsed(inv[q])
    BY <1>2
  <2>2. inv'[q].at \in {"read", "seed", "seeding"} => inv'[q].at = inv[q].at
    OBVIOUS
  <2> QED
    BY <1>4, <2>1, <2>2 DEF SeedUsed
<1> QED
  BY <1>2, <1>3, <1>5

\* What p, alone at work, knows of the databases.
TablesFit(p) ==
  /\ Complete(dirs.legacy.db) /\ Complete(exported) /\ TablesOf(inv[p])
  /\ Complete(dirs.dir.db) \/ inv[p].at = "tables"
  /\ Whole(dirs.legacy) /\ Complete(dirs.dir.file)
  /\ Whole(dirs.dir) \/ MayLog(inv[p])

LEMMA TablesFacts ==
  ASSUME TablesInv, ~overlap, Killed = {}, NEW p \in Invocations,
         \A q \in Invocations \ {p} : ~Active(q)
  PROVE  TablesFit(p)
<1>1. \A q \in Invocations \ {p} : inv[q].at # "tables" /\ ~MayLog(inv[q])
  BY DEF Active, MayLog, Ended
<1> QED
  BY <1>1, Zenon DEF TablesInv, TablesFit

\* A step keeps the tables if it does for the one that takes it: nobody else is at
\* work, and nobody was killed before if nobody is after.
LEMMA TablesKept ==
  ASSUME TablesInv, NEW p \in Invocations, overlap' = overlap, inv[p].at # "killed",
         ~overlap => \A q \in Invocations \ {p} : ~Active(q),
         \A q \in Invocations \ {p} : inv'[q] = inv[q],
         ~overlap /\ Killed = {} /\ inv'[p].at # "killed" => TablesFit(p)'
  PROVE  TablesInv'
<1> SUFFICES ASSUME ~overlap, Killed' = {}
             PROVE  /\ TablesFit(p)'
                    /\ \A q \in Invocations : TablesOf(inv[q])'
  BY Zenon DEF TablesInv, TablesFit
<1>1. Killed = {} /\ inv'[p].at # "killed"
  BY DEF Killed, Reached
<1>2. TablesFit(p)'
  BY <1>1
<1>3. ASSUME NEW q \in Invocations PROVE TablesOf(inv[q])'
  <2>1. CASE q = p
    BY <1>2, <2>1 DEF TablesFit
  <2>2. CASE q # p
    <3>1. inv'[q].at \in Ended \cup {"none"}
      BY <2>2 DEF Active
    <3> QED
      BY <3>1 DEF TablesOf, Ended
  <2> QED
    BY <2>1, <2>2
<1> QED
  BY <1>2, <1>3

\* An import is only the business of the newest invocation.
LEMMA ImportKept ==
  ASSUME OneByOne, \A q \in Invocations : CommandFits(inv[q]), ImportInv, overlap' = overlap,
         NEW p \in Invocations, inv[p].at \notin Ended, inv'[p].at # "none", CommandFits(inv'[p]),
         \A q \in Invocations \ {p} : inv'[q] = inv[q],
         ~overlap /\ Killed = {} /\ ImportStage(inv[p]) => ImportStage(inv[p])'
  PROVE  ImportInv'
<1>1. ASSUME NEW q \in Invocations, Newest(q)', Killed' \subseteq {q} PROVE ImportStage(inv[q])'
  <2>1. q \in Nat /\ p \in Nat /\ \A r \in Invocations : r \in Nat
    BY StorageAssumption
  <2>2. ~(p > q)
    BY <1>1 DEF Newest, Reached
  <2>3. p \notin Killed /\ Killed \subseteq {q}
    BY <1>1 DEF Killed, Reached, Ended
  <2>4. CASE overlap
    <3>1. CommandFits(inv'[q])
      <4>1. CASE q = p
        BY <4>1, Zenon
      <4>2. CASE q # p
        BY <4>2
      <4> QED
        BY <4>1, <4>2
    <3>2. inv'[q].cmd # "import"
      BY <2>4, <3>1, Zenon DEF CommandFits, DbCommands
    <3> QED
      BY <3>2, Zenon DEF ImportStage
  <2>5. CASE ~overlap /\ q = p
    <3>1. Newest(q)
      BY <1>1, <2>1, <2>2 DEF Newest, Reached
    <3>2. ImportStage(inv[q])
      BY <2>3, <3>1, Zenon DEF ImportInv
    <3>3. Killed = {}
      BY <2>3, <2>5
    <3> QED
      BY <2>5, <3>2, <3>3
  <2>6. CASE ~overlap /\ q # p
    <3>1. inv'[q] = inv[q]
      BY <2>6
    <3>2. inv[q].at = "none"
      BY <2>1, <2>2, <2>6 DEF OneByOne
    <3>3. inv[q].old = NoFile
      BY <3>2, Zenon DEF CommandFits, Before
    <3> QED
      BY <3>1, <3>2, <3>3, Zenon DEF ImportStage, Copying
  <2> QED
    BY <2>4, <2>5, <2>6
<1> QED
  BY <1>1, Zenon DEF ImportInv

\* An invocation that is no import, or no import yet.
LEMMA NoImport ==
  ASSUME NEW p \in Invocations,
         \/ inv'[p].cmd # "import"
         \/ /\ inv'[p].old = NoFile /\ inv'[p].at \notin Copying
            /\ inv'[p].at \in {"close", "ok"} => inv'[p].then # "ok"
  PROVE  ImportStage(inv[p])'
BY Zenon DEF ImportStage, Copying

\* A step that leaves the databases.
LEMMA TablesSame ==
  ASSUME NEW p \in Invocations, dirs'.legacy = dirs.legacy, dirs'.dir.db = dirs.dir.db,
         dirs'.dir.file = dirs.dir.file, exported' = exported, inv[p].at # "tables",
         MayLog(inv[p]) => MayLog(inv'[p]), TablesOf(inv[p])'
  PROVE  TablesFit(p) => TablesFit(p)'
BY Zenon DEF TablesFit, Complete, Whole, MayLog

\* An invocation that closes its database fits its subcommand.
LEMMA Closing ==
  ASSUME StorageInv, NEW p \in Invocations, NEW end \in {"ok", "err"}, Goes(p, end)
  PROVE  /\ Becomes(p, "close", inv[p].cmd, inv[p].next, end, inv[p].seed, inv[p].old, inv[p].given)
         /\ CommandFits(inv'[p])
<1>1. Becomes(p, "close", inv[p].cmd, inv[p].next, end, inv[p].seed, inv[p].old, inv[p].given)
  <2>1. NoFile \in SeedFiles
    BY FileTypes
  <2> QED
    BY <2>1, ClosesBecomes, Zenon DEF StorageInv
<1>2. CommandFits(inv[p])
  BY DEF StorageInv
<1> QED
  BY <1>1, <1>2, Zenon DEF Becomes, CommandFits, Before, Ended

\* What is left to show for the step of one invocation.
LEMMA StepKeeps ==
  ASSUME StorageInv, NEW p \in Invocations, Active(p), overlap' = overlap,
         dirs' \in Layout, exported' \in DbFiles, inv' \in [Invocations -> Locals],
         \A q \in Invocations \ {p} : inv'[q] = inv[q], inv'[p].at # "none",
         dirs.dir # NoDir => dirs'.dir # NoDir,
         inv'[p].at \notin Before \cup Ended => dirs'.dir # NoDir,
         CommandFits(inv'[p]), SeedInv',
         ~overlap /\ TablesFit(p) /\ inv'[p].at # "killed" => TablesFit(p)',
         ~overlap /\ TablesFit(p) /\ ImportStage(inv[p]) => ImportStage(inv[p])'
  PROVE  StorageInv'
<1>1. StorageTypeInv'
  BY DEF StorageInv, StorageTypeInv
<1>2. OneByOne' /\ DirMade' /\ \A q \in Invocations : CommandFits(inv[q])'
  BY OneByOneKept, DirMadeKept, FitsKept DEF StorageInv
<1>3. ~overlap => \A q \in Invocations \ {p} : ~Active(q)
  BY Alone DEF StorageInv
<1>4. ~overlap /\ Killed = {} => TablesFit(p)
  BY <1>3, TablesFacts DEF StorageInv
<1>5. inv[p].at # "killed" /\ inv[p].at \notin Ended
  BY DEF Active, Ended
<1>6. TablesInv'
  BY <1>3, <1>4, <1>5, TablesKept DEF StorageInv
<1>7. ImportInv'
  BY <1>4, <1>5, ImportKept DEF StorageInv
<1> QED
  BY <1>1, <1>2, <1>6, <1>7 DEF StorageInv

\* An invocation killed between any two of its steps.
LEMMA KillKeeps ==
  ASSUME StorageInv, NEW p \in Invocations, Kill(p)
  PROVE  StorageInv'
<1>0. /\ Active(p) /\ overlap' = overlap /\ dirs' = dirs /\ exported' = exported
      /\ dirs \in Layout /\ exported \in DbFiles
  BY DEF Kill, Active, StorageInv, StorageTypeInv
<1>1. Becomes(p, "killed", inv[p].cmd, inv[p].next, inv[p].then, inv[p].seed, inv[p].old,
              inv[p].given)
  BY AtBecomes, Zenon DEF Kill, StorageInv, Stages, Ended
<1>2. CommandFits(inv'[p])
  BY <1>1, Zenon DEF Becomes, StorageInv, CommandFits, Before, Ended
<1>3. SeedInv'
  <2>1. SeedFile' = SeedFile /\ Moved(inv[p])'
    BY <1>0, <1>1 DEF SeedFile, Moved, Becomes
  <2> QED
    BY <1>0, <1>1, <2>1, SeedKept DEF StorageInv, Becomes
<1>4. ImportStage(inv[p]) => ImportStage(inv[p])'
  BY <1>0, <1>1, Zenon DEF Becomes, ImportStage, Copying
<1> QED
  BY <1>0, <1>1, <1>2, <1>3, <1>4, StepKeeps DEF Becomes, Ended

\* The database is replaced, or its backup, and everything else stays.
LEMMA DbFilled ==
  ASSUME dirs \in Layout, dirs.dir # NoDir, NEW f \in DbFiles, NEW g \in DbFiles
  PROVE  /\ Store(f, g) \/ Fill("backup", f) =>
              /\ dirs' \in Layout /\ dirs'.dir # NoDir /\ dirs'.dir.seed = dirs.dir.seed
              /\ dirs'.legacy = dirs.legacy /\ dirs'.sameFs = dirs.sameFs
              /\ dirs'.found = dirs.found /\ SeedFile' = SeedFile
         /\ Store(f, g) => /\ dirs'.dir.db = f /\ dirs'.dir.file = g
                           /\ dirs'.dir.backup = dirs.dir.backup
         /\ Fill("backup", f) => /\ dirs'.dir.db = dirs.dir.db /\ dirs'.dir.file = dirs.dir.file
                                 /\ dirs'.dir.backup = f
<1> DEFINE d == [dirs.dir EXCEPT !.db = f, !.file = g]
           b == [dirs.dir EXCEPT !["backup"] = f]
<1>1. dirs.dir \in OpenDirs /\ (Store(f, g) => DirIs(d)) /\ (Fill("backup", f) => DirIs(b))
  BY Fills, Zenon
<1>2. /\ d \in OpenDirs /\ d.seed = dirs.dir.seed /\ d.db = f /\ d.file = g
      /\ d.backup = dirs.dir.backup
      /\ b \in OpenDirs /\ b.seed = dirs.dir.seed /\ b.db = dirs.dir.db /\ b.file = dirs.dir.file
      /\ b.backup = f
  <2>1. \A x \in OpenDirs :
           /\ [x EXCEPT !.db = f, !.file = g] \in OpenDirs
           /\ [x EXCEPT !.db = f, !.file = g].seed = x.seed
           /\ [x EXCEPT !.db = f, !.file = g].db = f /\ [x EXCEPT !.db = f, !.file = g].file = g
           /\ [x EXCEPT !.db = f, !.file = g].backup = x.backup
           /\ [x EXCEPT !["backup"] = f] \in OpenDirs /\ [x EXCEPT !["backup"] = f].seed = x.seed
           /\ [x EXCEPT !["backup"] = f].db = x.db /\ [x EXCEPT !["backup"] = f].file = x.file
           /\ [x EXCEPT !["backup"] = f].backup = f
    <3>1. ASSUME NEW x \in OpenDirs
          PROVE  /\ [x EXCEPT !.db = f, !.file = g] \in OpenDirs
                 /\ [x EXCEPT !.db = f, !.file = g].seed = x.seed
                 /\ [x EXCEPT !.db = f, !.file = g].db = f
                 /\ [x EXCEPT !.db = f, !.file = g].file = g
                 /\ [x EXCEPT !.db = f, !.file = g].backup = x.backup
                 /\ [x EXCEPT !["backup"] = f] \in OpenDirs
                 /\ [x EXCEPT !["backup"] = f].seed = x.seed
                 /\ [x EXCEPT !["backup"] = f].db = x.db
                 /\ [x EXCEPT !["backup"] = f].file = x.file
                 /\ [x EXCEPT !["backup"] = f].backup = f
      BY Zenon DEF OpenDirs
    <3> QED
      BY <3>1, Zenon
  <2> QED
    BY <1>1, <2>1, Zenon
<1> HIDE DEF d, b
<1>3. d # NoDir /\ b # NoDir
  BY <1>2, OpenDir
<1> QED
  BY <1>1, <1>2, <1>3 DEF DirIs, SeedFile

\* What holds of an invocation that is past the creation of the directory.
LEMMA Inside ==
  ASSUME StorageInv, NEW p \in Invocations, inv[p].at \notin Before \cup Ended
  PROVE  /\ Active(p) /\ dirs \in Layout /\ exported \in DbFiles /\ dirs.dir # NoDir
         /\ dirs.dir \in OpenDirs /\ dirs.dir.seed \in SeedFiles /\ dirs.dir.db \in DbFiles
         /\ dirs.dir.file \in DbFiles /\ dirs.dir.backup \in DbFiles /\ SeedFile = dirs.dir.seed
<1>1. Active(p) /\ dirs \in Layout /\ exported \in DbFiles /\ dirs.dir # NoDir
  BY DEF StorageInv, StorageTypeInv, DirMade, Active, Before
<1>2. dirs.dir \in OpenDirs
  BY <1>1, Fills, Zenon
<1> QED
  BY <1>1, <1>2, OpenDir DEF SeedFile

\* A new invocation: without overlap everyone before it has ended.
LEMMA InvokeKeeps ==
  ASSUME StorageInv, NEW p \in Invocations, NEW cmd \in Subcommands, Invoke(p, cmd)
  PROVE  StorageInv'
<1>0. /\ inv[p].at = "none" /\ overlap' = overlap /\ dirs' = dirs /\ exported' = exported
      /\ \A q \in 1..p - 1 : inv[q].at \in Ended \/ (overlap /\ inv[q].at # "none")
      /\ overlap => cmd \notin DbCommands
  BY DEF Invoke, Reached
<1>1. Becomes(p, "resolve", cmd, inv[p].next, inv[p].then, inv[p].seed, inv[p].old, inv[p].given)
  BY OtherBecomes, Zenon DEF Invoke, StorageInv, Stages
<1>2. \A q \in Invocations : q \in Nat \ {0}
  BY StorageAssumption
<1>3. ASSUME ~overlap, NEW q \in Invocations \ {p}
      PROVE  ~Active(q) /\ (q < p => inv[q].at \in Ended) /\ (p < q => inv[q].at = "none")
  <2>1. q < p => q \in 1..p - 1
    BY <1>2
  <2>2. p < q => inv[q].at = "none"
    BY <1>0, <1>3 DEF StorageInv, OneByOne, Ended
  <2>3. q < p \/ p < q
    BY <1>2
  <2> QED
    BY <1>0, <1>3, <2>1, <2>2, <2>3 DEF Active
<1>4. StorageTypeInv'
  BY <1>0, <1>1 DEF StorageInv, StorageTypeInv, Becomes
<1>5. OneByOne'
  <2>1. ASSUME NEW q \in Invocations, NEW r \in Invocations, ~overlap, q < r,
               inv'[r].at # "none"
        PROVE  inv'[q].at \in Ended
    <3>1. q # r
      BY <1>2, <2>1
    <3>2. CASE r = p
      BY <1>1, <1>3, <2>1, <3>1, <3>2 DEF Becomes
    <3>3. CASE r # p
      <4>1. inv[r].at # "none"
        BY <1>1, <2>1, <3>3 DEF Becomes
      <4>2. inv[q].at \in Ended
        BY <2>1, <4>1 DEF StorageInv, OneByOne
      <4>3. q # p
        BY <1>0, <4>2 DEF Ended
      <4> QED
        BY <1>1, <4>2, <4>3 DEF Becomes
    <3> QED
      BY <3>2, <3>3
  <2> QED
    BY <1>0, <2>1 DEF OneByOne
<1>6. DirMade'
  BY <1>0, <1>1, DirMadeKept DEF StorageInv, Becomes, Before
<1>7. \A q \in Invocations : CommandFits(inv[q])'
  <2>1. CommandFits(inv[p])
    BY DEF StorageInv
  <2>2. CommandFits(inv'[p])
    BY <1>0, <1>1, <2>1 DEF CommandFits, Becomes, Before
  <2> QED
    BY <1>0, <1>1, <2>2, FitsKept DEF StorageInv, Becomes
<1>8. SeedInv'
  <2>1. SeedFile' = SeedFile /\ Moved(inv[p])'
    BY <1>0, <1>1, Zenon DEF SeedFile, Moved, Becomes
  <2> QED
    BY <1>0, <1>1, <2>1, SeedKept DEF StorageInv, Becomes
<1>9. TablesInv'
  <2>1. ~overlap => \A q \in Invocations \ {p} : ~Active(q)
    BY <1>3
  <2>2. ~overlap /\ Killed = {} => TablesFit(p)
    BY <2>1, TablesFacts DEF StorageInv
  <2>3. TablesFit(p) => TablesFit(p)'
    BY <1>0, <1>1, Zenon DEF TablesFit, TablesOf, MayLog, Becomes, Complete, Whole
  <2> QED
    BY <1>0, <1>1, <2>1, <2>2, <2>3, TablesKept DEF StorageInv, Becomes
<1>10. ImportInv'
  <2>1. ImportStage(inv[p]) => ImportStage(inv[p])'
    <3>1. inv[p].old = NoFile
      BY <1>0, Zenon DEF StorageInv, CommandFits, Before
    <3> QED
      BY <1>1, <3>1, NoImport, Zenon DEF Becomes, Copying
  <2>2. CommandFits(inv'[p])
    BY <1>0, <1>7, Zenon DEF CommandFits
  <2> QED
    BY <1>0, <1>1, <2>1, <2>2, ImportKept DEF StorageInv, Becomes, Ended
<1> QED
  BY <1>4, <1>5, <1>6, <1>7, <1>8, <1>9, <1>10 DEF StorageInv

-----------------------------------------------------------------------------
(* The directory and the database *)

\* resolve_default_data_dir migrates only if there is no directory in use.
LEMMA ResolveKeeps ==
  ASSUME StorageInv, NEW p \in Invocations, ResolveDataDir(p)
  PROVE  StorageInv'
<1> DEFINE at == IF dirs.legacy # NoDir /\ dirs.dir = NoDir THEN "migrate" ELSE "mkdir"
<1>0. /\ inv[p].at = "resolve" /\ Active(p) /\ overlap' = overlap /\ dirs' = dirs
      /\ exported' = exported /\ dirs \in Layout /\ exported \in DbFiles
  BY DEF ResolveDataDir, Reached, Active, StorageInv, StorageTypeInv, Ended
<1>1. Becomes(p, at, inv[p].cmd, inv[p].next, inv[p].then, inv[p].seed, inv[p].old, inv[p].given)
  BY GoesBecomes, Zenon DEF ResolveDataDir, StorageInv, Stages
<1>2. CommandFits(inv'[p])
  BY <1>0, <1>1, Zenon DEF Becomes, StorageInv, CommandFits, Before
<1>3. SeedInv'
  <2>1. SeedFile' = SeedFile /\ Moved(inv[p])'
    BY <1>0, <1>1 DEF SeedFile, Moved, Becomes
  <2> QED
    BY <1>0, <1>1, <2>1, SeedKept DEF StorageInv, Becomes
<1>4. TablesFit(p) => TablesFit(p)'
  BY <1>0, <1>1, TablesSame, Zenon DEF TablesOf, MayLog, Ended, Becomes
<1>5. inv[p].old = NoFile
  BY <1>0, Zenon DEF StorageInv, CommandFits, Before
<1>6. ImportStage(inv[p])'
  BY <1>1, <1>5, NoImport, Zenon DEF Becomes, Copying
<1> QED
  BY <1>0, <1>1, <1>2, <1>3, <1>4, <1>6, StepKeeps DEF Becomes, Before

\* A file that is absent or torn has no tables.
LEMMA NothingComplete == Complete(NoFile) /\ Complete(TornFile)
BY FileKinds DEF Complete, Opened, Database

\* The rename takes the seed and the database of the legacy directory along.
LEMMA MigrateKeeps ==
  ASSUME StorageInv, NEW p \in Invocations, Migrate(p)
  PROVE  StorageInv'
<1>0. /\ inv[p].at = "migrate" /\ Active(p) /\ overlap' = overlap
      /\ exported' = exported /\ dirs \in Layout /\ exported \in DbFiles
  BY DEF Migrate, Reached, Active, StorageInv, StorageTypeInv, Ended
<1>1. Becomes(p, "mkdir", inv[p].cmd, inv[p].next, inv[p].then, inv[p].seed, inv[p].old,
              inv[p].given)
  BY GoesBecomes, Zenon DEF Migrate, StorageInv, Stages
<1>2. \/ dirs' = dirs /\ ~(dirs.legacy # NoDir /\ dirs.dir = NoDir /\ dirs.sameFs)
      \/ /\ dirs' \in Layout /\ dirs'.legacy = NoDir /\ dirs'.dir = dirs.legacy
         /\ dirs'.sameFs = dirs.sameFs /\ dirs'.found = dirs.found /\ dirs.legacy # NoDir
         /\ dirs.dir \in {NoDir, NoFiles}
  BY <1>0, OpenDir, Zenon DEF Migrate, Layout
<1>3. CommandFits(inv'[p])
  BY <1>0, <1>1, Zenon DEF Becomes, StorageInv, CommandFits, Before
<1>4. SeedInv'
  <2>1. Kept => dirs.legacy = NoDir \/ dirs.dir = NoDir
    BY <1>0 DEF Kept, StorageInv, SeedInv, Moved
  <2>2. Kept => SeedFile' = SeedFile /\ Moved(inv[p])'
    BY <1>0, <1>1, <1>2, <2>1, Zenon DEF SeedFile, Moved, Becomes, Kept
  <2> QED
    BY <1>0, <1>1, <1>2, <2>2, SeedKept DEF StorageInv, Becomes
<1>5. TablesFit(p) => TablesFit(p)'
  <2>1. TablesOf(inv[p])'
    BY <1>1, Zenon DEF TablesOf, Becomes
  <2>2. CASE dirs' = dirs
    BY <1>0, <1>1, <2>1, <2>2, TablesSame, Zenon DEF MayLog, Ended, Becomes
  <2>3. CASE dirs'.legacy = NoDir /\ dirs'.dir = dirs.legacy
    <3>1. NoDir.db = NoFile /\ NoDir.file = NoFile
      BY OpenDir
    <3> QED
      BY <1>0, <2>1, <2>3, <3>1, NothingComplete DEF TablesFit, Complete, Whole
  <2> QED
    BY <1>2, <2>2, <2>3
<1>6. inv[p].old = NoFile
  BY <1>0, Zenon DEF StorageInv, CommandFits, Before
<1>7. ImportStage(inv[p])'
  BY <1>1, <1>6, NoImport, Zenon DEF Becomes, Copying
<1> QED
  BY <1>0, <1>1, <1>2, <1>3, <1>4, <1>5, <1>7, StepKeeps DEF Becomes, Before

\* A directory is made only if there is no legacy one with a seed left.
LEMMA CreateDirKeeps ==
  ASSUME StorageInv, NEW p \in Invocations, CreateDir(p)
  PROVE  StorageInv'
<1>0. /\ inv[p].at = "mkdir" /\ Active(p) /\ overlap' = overlap
      /\ exported' = exported /\ dirs \in Layout /\ exported \in DbFiles
  BY DEF CreateDir, Reached, Active, StorageInv, StorageTypeInv, Ended
<1>1. Becomes(p, "open", inv[p].cmd, inv[p].next, inv[p].then, inv[p].seed, inv[p].old,
              inv[p].given)
  BY GoesBecomes, Zenon DEF CreateDir, StorageInv, Stages
<1>2. DirIs(IF dirs.dir = NoDir THEN NoFiles ELSE dirs.dir)
  <2>1. (IF dirs.dir = NoDir THEN NoFiles ELSE dirs.dir) \in Dirs
    BY <1>0, OpenDir DEF Layout
  <2>2. dirs' = [dirs EXCEPT !.dir = IF dirs.dir = NoDir THEN NoFiles ELSE dirs.dir]
    BY <1>0 DEF CreateDir, Layout
  <2> QED
    BY <1>0, <2>1, <2>2, DirWritten
<1>3. NoFiles # NoDir /\ dirs'.dir # NoDir
  BY <1>2, OpenDir DEF DirIs
<1>4. CommandFits(inv'[p])
  BY <1>0, <1>1, Zenon DEF Becomes, StorageInv, CommandFits, Before
<1>5. SeedInv'
  <2>1. Kept => dirs.legacy = NoDir \/ dirs.dir # NoDir
    BY <1>0 DEF Kept, StorageInv, SeedInv, Moved
  <2>2. Kept => SeedFile' = SeedFile
    BY <1>2, <1>3, <2>1, OpenDir DEF SeedFile, DirIs
  <2>3. Moved(inv[p])'
    BY <1>1 DEF Moved, Becomes
  <2> QED
    BY <1>0, <1>1, <1>2, <1>3, <2>1, <2>2, <2>3, SeedKept DEF StorageInv, Becomes, DirIs
<1>6. TablesFit(p) => TablesFit(p)'
  <2>1. TablesOf(inv[p])'
    BY <1>1, Zenon DEF TablesOf, Becomes
  <2>2. /\ NoFiles.db = NoFile /\ NoFiles.file = NoFile /\ NoDir.db = NoFile
        /\ NoDir.file = NoFile
    BY OpenDir
  <2>3. dirs'.dir.db = dirs.dir.db /\ dirs'.dir.file = dirs.dir.file
    BY <1>2, <2>2 DEF DirIs
  <2> QED
    BY <1>0, <1>1, <1>2, <2>1, <2>3, TablesSame, Zenon DEF MayLog, Ended, Becomes, DirIs
<1>7. inv[p].old = NoFile
  BY <1>0, Zenon DEF StorageInv, CommandFits, Before
<1>8. ImportStage(inv[p])'
  BY <1>1, <1>7, NoImport, Zenon DEF Becomes, Copying
<1> QED
  BY <1>0, <1>1, <1>2, <1>3, <1>4, <1>5, <1>6, <1>8, StepKeeps DEF Becomes, DirIs

\* Opening a database twice changes nothing.
LEMMA OpenedTwice ==
  ASSUME NEW f \in DbFiles
  PROVE  Opened(Opened(f)) = Opened(f) /\ (Complete(f) <=> Complete(Opened(f)))
<1>1. Opened(Opened(f)) = Opened(f)
  BY FileKinds, FileTypes
<1> QED
  BY <1>1 DEF Complete

\* A step that changes at most the database and not the seed.
LEMMA DbStepSeed ==
  ASSUME StorageInv, NEW p \in Invocations, overlap' = overlap,
         dirs'.sameFs = dirs.sameFs, dirs'.found = dirs.found, dirs'.legacy = dirs.legacy,
         dirs.dir # NoDir, dirs'.dir # NoDir, SeedFile' = SeedFile,
         \A q \in Invocations \ {p} : inv'[q] = inv[q], inv'[p].seed = inv[p].seed,
         inv'[p].at \notin Before \cup {"read", "seed", "seeding"}
  PROVE  SeedInv'
<1>1. Moved(inv[p])'
  BY DEF Moved, Before
<1> QED
  BY <1>1, SeedKept DEF StorageInv

\* Where init_db may go: to an error only by closing the database.
LEMMA InitDbGoes ==
  ASSUME StorageInv, NEW p \in Invocations, NEW place \in {"tables", "command", "err"},
         inv[p].at = "open", Goes(p, place)
  PROVE  \E at \in {"tables", "command", "close"}, then \in {"command", "err"} :
           /\ Becomes(p, at, inv[p].cmd, inv[p].next, then, inv[p].seed, inv[p].old, inv[p].given)
           /\ at = "close" <=> place = "err"
           /\ at # "close" => at = place
           /\ CommandFits(inv'[p]) /\ ImportStage(inv[p])'
<1>1. CommandFits(inv[p]) /\ inv[p].then = "command" /\ inv[p].old = NoFile
  BY Zenon DEF StorageInv, CommandFits, Before
<1>2. CASE place # "err"
  <2>1. Becomes(p, place, inv[p].cmd, inv[p].next, "command", inv[p].seed, inv[p].old, inv[p].given)
    <3>1. place \in Stages \ {"ok", "err"}
      BY <1>2, Zenon DEF Stages
    <3> QED
      BY <1>1, <3>1, GoesBecomes DEF StorageInv
  <2>2. CommandFits(inv'[p])
    BY <1>1, <1>2, <2>1, Zenon DEF Becomes, CommandFits, Before, Ended
  <2>3. ImportStage(inv[p])'
    BY <1>1, <1>2, <2>1, NoImport, Zenon DEF Becomes, Copying
  <2> QED
    BY <1>2, <2>1, <2>2, <2>3, Zenon
<1>3. CASE place = "err"
  <2>1. Becomes(p, "close", inv[p].cmd, inv[p].next, "err", inv[p].seed, inv[p].old, inv[p].given)
    BY <1>3, Closing
  <2>2. CommandFits(inv'[p])
    BY <1>3, Closing
  <2>3. ImportStage(inv[p])'
    BY <1>1, <2>1, NoImport, Zenon DEF Becomes, Copying
  <2> QED
    BY <1>3, <2>1, <2>2, <2>3, Zenon
<1> QED
  BY <1>2, <1>3

\* init_db skips create_tables for a database with run_txs: it is complete.
LEMMA InitDbKeeps ==
  ASSUME StorageInv, NEW p \in Invocations, InitDb(p)
  PROVE  StorageInv'
<1> DEFINE db == Opened(dirs.dir.db)
           file == Opened(dirs.dir.file)
<1>0. /\ inv[p].at = "open" /\ overlap' = overlap /\ exported' = exported
      /\ Store(db, file)
  BY DEF InitDb, Reached
<1>1. inv[p].at \notin Before \cup Ended
  BY <1>0 DEF Before, Ended
<1>2. PICK place \in {"tables", "command", "err"} :
        Goes(p, place) /\ (db.is = "db" => place = AfterInit(db, inv[p].cmd))
  <2>1. AfterInit(db, inv[p].cmd) \in {"tables", "command", "err"}
    BY DEF AfterInit
  <2>2. \/ Goes(p, AfterInit(db, inv[p].cmd))
        \/ db.is = "mixed" /\ \E place \in {"tables", "command", "err"} : Goes(p, place)
    BY DEF InitDb
  <2> HIDE DEF db
  <2> QED
    BY <2>1, <2>2
<1>3. /\ db \in DbFiles /\ Opened(db) = db /\ (Complete(dirs.dir.db) <=> Complete(db))
      /\ file \in DbFiles /\ Opened(file) = file /\ (Complete(dirs.dir.file) <=> Complete(file))
  BY <1>1, Inside, FileTypes, OpenedTwice
<1>4. /\ dirs' \in Layout /\ dirs'.dir # NoDir /\ dirs'.legacy = dirs.legacy
      /\ dirs'.sameFs = dirs.sameFs /\ dirs'.found = dirs.found /\ SeedFile' = SeedFile
      /\ dirs'.dir.db = db /\ dirs'.dir.file = file
  BY <1>0, <1>1, <1>3, Inside, DbFilled
<1>5. ASSUME db.is = "db", place = "command", inv[p].cmd \in Seeded, Complete(db)
      PROVE  Range(CreateTables) \subseteq db.tables
  <2>1. inv[p].cmd \notin DbCommands \cup {"admin"}
    BY <1>5 DEF Seeded, DbCommands
  <2>2. "run_txs" \in db.tables /\ db.version = DB_VERSION
    BY <1>2, <1>5, <2>1 DEF AfterInit
  <2> QED
    BY <1>3, <1>5, <2>2 DEF Complete
<1>6. Whole(dirs.dir) => Whole(dirs'.dir)
  BY <1>4 DEF Whole
<1> HIDE DEF db, file
<1>7. PICK at \in {"tables", "command", "close"}, then \in {"command", "err"} :
        /\ Becomes(p, at, inv[p].cmd, inv[p].next, then, inv[p].seed, inv[p].old, inv[p].given)
        /\ at = "close" <=> place = "err"
        /\ at # "close" => at = place
        /\ CommandFits(inv'[p]) /\ ImportStage(inv[p])'
  BY <1>0, <1>2, InitDbGoes
<1>8. inv[p].next = 1
  BY <1>0, Zenon DEF StorageInv, CommandFits
<1>9. SeedInv'
  BY <1>0, <1>1, <1>4, <1>7, Inside, DbStepSeed, Zenon DEF Becomes, Before
<1>10. TablesFit(p) => TablesFit(p)'
  <2> SUFFICES ASSUME TablesFit(p) PROVE TablesFit(p)'
    OBVIOUS
  <2>1. /\ Complete(dirs.legacy.db) /\ Complete(exported) /\ Complete(db) /\ Complete(file)
        /\ Whole(dirs.legacy) /\ Whole(dirs.dir)
    BY <1>0, <1>3, <1>8 DEF TablesFit, MayLog
  <2>2. TablesOf(inv[p])'
    BY <1>3, <1>4, <1>5, <1>7, <1>8, <2>1 DEF TablesOf, AllTables, Becomes
  <2> QED
    BY <1>0, <1>4, <1>6, <2>1, <2>2 DEF TablesFit, Complete
<1>11. Active(p) /\ exported' \in DbFiles /\ inv'[p].at # "none"
  BY <1>0, <1>1, <1>7, Inside DEF Becomes
<1> QED
  BY <1>0, <1>4, <1>7, <1>9, <1>10, <1>11, StepKeeps DEF Becomes

\* create_tables has six statements.
LEMMA TableNames ==
  /\ Len(CreateTables) = 6
  /\ Range(CreateTables) = {CreateTables[i] : i \in 1..6}
<1>1. Len(CreateTables) = 6 /\ DOMAIN CreateTables = 1..6
  BY DEF CreateTables
<1> QED
  BY <1>1 DEF Range

\* What follows the last statement of create_tables.
LEMMA TablesDone ==
  ASSUME StorageInv, NEW p \in Invocations, CreateTable(p), inv[p].next > Len(CreateTables)
  PROVE  StorageInv'
<1>0. /\ inv[p].at = "tables" /\ overlap' = overlap /\ exported' = exported
      /\ Goes(p, inv[p].then) /\ dirs' = dirs
  BY DEF CreateTable, Reached
<1>1. inv[p].at \notin Before \cup Ended /\ CommandFits(inv[p])
  BY <1>0 DEF Before, Ended, StorageInv
<1>2. /\ inv[p].old = NoFile /\ inv[p].next \in 1..(Len(CreateTables) + 1)
      /\ inv[p].then = "command" \/ (inv[p].then = "ok" /\ inv[p].cmd = "reset")
  BY <1>0, <1>1, LocalTypes, Zenon DEF StorageInv, CommandFits, Ended
<1>3. PICK at \in {"command", "close"} :
        /\ Becomes(p, at, inv[p].cmd, inv[p].next, inv[p].then, inv[p].seed, inv[p].old, inv[p].given)
        /\ CommandFits(inv'[p])
        /\ at = "close" => inv[p].cmd = "reset"
  <2>1. CASE inv[p].then = "command"
    <3>1. Becomes(p, "command", inv[p].cmd, inv[p].next, inv[p].then, inv[p].seed, inv[p].old,
                  inv[p].given)
      <4>1. "command" \in Stages \ {"ok", "err"}
        BY Zenon DEF Stages
      <4> QED
        BY <1>0, <2>1, <4>1, GoesBecomes DEF StorageInv
    <3>2. CommandFits(inv'[p])
      BY <1>1, <1>2, <2>1, <3>1, Zenon DEF Becomes, CommandFits, Before, Ended
    <3> QED
      BY <3>1, <3>2, Zenon
  <2>2. CASE inv[p].then = "ok" /\ inv[p].cmd = "reset"
    BY <1>0, <2>2, Closing
  <2> QED
    BY <1>2, <2>1, <2>2
<1>4. SeedInv'
  <2>1. SeedFile' = SeedFile
    BY <1>0, Zenon DEF SeedFile
  <2> QED
    BY <1>0, <1>1, <1>3, <2>1, Inside, DbStepSeed DEF Becomes, Before
<1>5. TablesFit(p) => TablesFit(p)'
  <2> SUFFICES ASSUME TablesFit(p) PROVE TablesFit(p)'
    OBVIOUS
  <2>1. Opened(dirs.dir.db).is = "db" => AllTables
    BY <1>0, <1>2, TableNames DEF TablesFit, TablesOf, AllTables
  <2>2. Complete(dirs.dir.db)
    BY <2>1 DEF Complete, AllTables
  <2>3. TablesOf(inv[p])'
    BY <1>0, <1>3, <2>1 DEF TablesOf, AllTables, Becomes
  <2>4. MayLog(inv'[p])
    BY <1>2, <1>3, TableNames DEF MayLog, Becomes, Ended
  <2> QED
    BY <1>0, <2>2, <2>3, <2>4, Zenon DEF TablesFit, Complete, Whole, MayLog
<1>6. ImportStage(inv[p])'
  BY <1>2, <1>3, NoImport, Zenon DEF Becomes, Copying
<1>7. Active(p) /\ exported' \in DbFiles /\ dirs' \in Layout /\ dirs'.dir # NoDir
      /\ inv'[p].at # "none"
  BY <1>0, <1>1, <1>3, Inside DEF Becomes
<1> QED
  BY <1>0, <1>3, <1>4, <1>5, <1>6, <1>7, StepKeeps DEF Becomes

\* What a table does to a database.
LEMMA TableMade ==
  ASSUME NEW f \in DbFiles, NEW k \in 1..6
  PROVE  /\ WithTable(Opened(f), k) \in DbFiles
         /\ Opened(WithTable(Opened(f), k)) = WithTable(Opened(f), k)
         /\ WithTable(Opened(f), k).is = Opened(f).is
         /\ WithTable(Opened(f), k).tables = Opened(f).tables \cup {CreateTables[k]}
<1> DEFINE db == Opened(f)
           made == [db EXCEPT !.tables = @ \cup {CreateTables[k]}, !.version = DB_VERSION]
<1>1. db \in [is : {"db", "mixed"}, tables : SUBSET Range(CreateTables), version : Nat, data : Nat]
  <2>1. db \in DbFiles /\ db.is \in {"db", "mixed"}
    BY FileTypes
  <2> HIDE DEF db
  <2> QED
    BY <2>1, FileKinds DEF DbFiles
<1>2. CreateTables[k] \in Range(CreateTables) /\ DB_VERSION \in Nat
  BY TableNames DEF DB_VERSION
<1> HIDE DEF db
<1>3. /\ made \in [is : {"db", "mixed"}, tables : SUBSET Range(CreateTables), version : Nat, data : Nat]
      /\ made.is = db.is /\ made.tables = db.tables \cup {CreateTables[k]}
  BY <1>1, <1>2, Zenon
<1>4. WithTable(db, k) = made
  BY DEF WithTable
<1> HIDE DEF made
<1>5. made \in DbFiles /\ made.is \in {"db", "mixed"}
  BY <1>1, <1>3, Zenon DEF DbFiles
<1>6. Opened(made) = made
  BY <1>5, FileKinds
<1> QED
  BY <1>3, <1>4, <1>5, <1>6 DEF db

\* A statement of create_tables, or what follows the last one.
LEMMA CreateTableKeeps ==
  ASSUME StorageInv, NEW p \in Invocations, CreateTable(p)
  PROVE  StorageInv'
<1> DEFINE db == Opened(dirs.dir.db)
           file == Opened(dirs.dir.file)
           k == inv[p].next
           made == WithTable(db, k)
<1>0. inv[p].at = "tables" /\ overlap' = overlap /\ exported' = exported
  BY DEF CreateTable, Reached
<1>1. inv[p].at \notin Before \cup Ended
  BY <1>0 DEF Before, Ended
<1>2. k \in 1..(Len(CreateTables) + 1) /\ CommandFits(inv[p]) /\ inv[p].old = NoFile
  BY <1>0, LocalTypes, Zenon DEF StorageInv, CommandFits
<1>3. CASE k > Len(CreateTables)
  BY <1>3, TablesDone
<1>4. CASE ~(k > Len(CreateTables))
  <2>1. /\ inv' = [inv EXCEPT ![p].next = k + 1]
        /\ Store(made, file) \/ (overlap /\ dirs' = dirs)
    BY <1>4 DEF CreateTable
  <2>2. k \in 1..6 /\ k + 1 \in 1..(Len(CreateTables) + 1)
    BY <1>2, <1>4, TableNames
  <2>3. /\ made \in DbFiles /\ Opened(made) = made /\ made.tables = db.tables \cup {CreateTables[k]}
        /\ made.is = db.is /\ file \in DbFiles /\ (Complete(dirs.dir.file) <=> Complete(file))
    BY <1>1, <2>2, Inside, TableMade, FileTypes, OpenedTwice, Zenon
  <2> HIDE DEF made, file
  <2>4. /\ dirs' \in Layout /\ dirs'.dir # NoDir /\ dirs'.legacy = dirs.legacy
        /\ dirs'.sameFs = dirs.sameFs /\ dirs'.found = dirs.found /\ SeedFile' = SeedFile
        /\ ~overlap => dirs'.dir.db = made /\ dirs'.dir.file = file
    <3>1. CASE Store(made, file)
      BY <1>1, <2>3, <3>1, Inside, DbFilled, Zenon
    <3>2. CASE overlap /\ dirs' = dirs
      BY <1>1, <3>2, Inside DEF SeedFile
    <3> QED
      BY <2>1, <3>1, <3>2, Zenon
  <2>5. Becomes(p, "tables", inv[p].cmd, k + 1, inv[p].then, inv[p].seed, inv[p].old, inv[p].given)
    <3>1. "tables" \in Stages
      BY Zenon DEF Stages
    <3> QED
      BY <1>0, <2>1, <2>2, <3>1, OtherBecomes, Zenon DEF StorageInv
  <2>6. CommandFits(inv'[p])
    BY <1>0, <1>2, <2>5, Zenon DEF Becomes, CommandFits, Before
  <2>7. SeedInv'
    BY <1>0, <1>1, <2>4, <2>5, Inside, DbStepSeed, Zenon DEF Becomes, Before
  <2>8. ~overlap /\ TablesFit(p) => TablesFit(p)'
    <3> SUFFICES ASSUME ~overlap, TablesFit(p) PROVE TablesFit(p)'
      OBVIOUS
    <3>1. db.is = "db" => \A i \in 1..(k - 1) : CreateTables[i] \in db.tables
      BY <1>0, Zenon DEF TablesFit, TablesOf
    <3>2. db.is = "db" => \A i \in 1..k : CreateTables[i] \in made.tables
      BY <2>2, <2>3, <3>1
    <3>3. (k + 1) - 1 = k /\ k + 1 > 1
      BY <2>2
    <3>4. TablesOf(inv[p])'
      <4>1. Opened(dirs'.dir.db) = made /\ made.is = db.is
        BY <2>3, <2>4
      <4>2. inv'[p].at = "tables" /\ inv'[p].next - 1 = k
        BY <2>5, <3>3 DEF Becomes
      <4> QED
        BY <3>2, <4>1, <4>2, Zenon DEF TablesOf
    <3>5. MayLog(inv'[p])
      BY <2>5, <3>3 DEF MayLog, Becomes, Ended
    <3>6. Complete(file) /\ Complete(dirs.legacy.db) /\ Complete(exported) /\ Whole(dirs.legacy)
      BY <2>3 DEF TablesFit
    <3>7. /\ Complete(dirs'.legacy.db) /\ Complete(exported') /\ Complete(dirs'.dir.file)
          /\ Whole(dirs'.legacy) /\ inv'[p].at = "tables"
      BY <1>0, <2>4, <2>5, <3>6 DEF Becomes
    <3> QED
      BY <3>4, <3>5, <3>7, Zenon DEF TablesFit, Complete, Whole, MayLog
  <2>9. ImportStage(inv[p])'
    BY <1>2, <2>5, NoImport, Zenon DEF Becomes, Copying
  <2>10. Active(p) /\ exported' \in DbFiles /\ inv'[p].at # "none"
    BY <1>0, <1>1, <2>5, Inside DEF Becomes
  <2> QED
    BY <1>0, <2>4, <2>5, <2>6, <2>7, <2>8, <2>9, <2>10, StepKeeps, Zenon DEF Becomes
<1> QED
  BY <1>3, <1>4

\* run() returns: alone, it leaves all of the database in its main file.
LEMMA CloseKeeps ==
  ASSUME StorageInv, NEW p \in Invocations, Close(p)
  PROVE  StorageInv'
<1>0. /\ inv[p].at = "close" /\ overlap' = overlap /\ exported' = exported
      /\ inv' = [inv EXCEPT ![p].at = inv[p].then]
  BY DEF Close, Reached
<1>1. inv[p].at \notin Before \cup Ended /\ Active(p) /\ CommandFits(inv[p])
  BY <1>0, Zenon DEF Before, Ended, Active, StorageInv
<1>2. inv[p].then \in {"ok", "err"}
  BY <1>0, <1>1, Zenon DEF CommandFits
<1>3. Becomes(p, inv[p].then, inv[p].cmd, inv[p].next, inv[p].then, inv[p].seed, inv[p].old,
              inv[p].given)
  <2>1. inv[p].then \in Stages
    BY <1>2, Zenon DEF Stages, Ended
  <2> QED
    BY <1>0, <2>1, AtBecomes, Zenon DEF StorageInv
<1>4. ~overlap => Store(dirs.dir.db, dirs.dir.db)
  <2> SUFFICES ASSUME ~overlap PROVE Store(dirs.dir.db, dirs.dir.db)
    OBVIOUS
  <2>1. \A q \in Invocations \ {p} : ~Active(q)
    BY <1>1, Alone DEF StorageInv
  <2>2. \A q \in Invocations \ {p} : ~Connected(q)
    BY <2>1 DEF Connected, Active
  <2> QED
    BY <2>2 DEF Close
<1>5. /\ dirs' \in Layout /\ dirs'.dir # NoDir /\ dirs'.legacy = dirs.legacy
      /\ dirs'.sameFs = dirs.sameFs /\ dirs'.found = dirs.found /\ SeedFile' = SeedFile
      /\ ~overlap => /\ dirs'.dir.db = dirs.dir.db /\ dirs'.dir.file = dirs.dir.db
                     /\ dirs'.dir.backup = dirs.dir.backup
  <2>1. CASE Store(dirs.dir.db, dirs.dir.db)
    BY <1>1, <2>1, Inside, DbFilled
  <2>2. CASE overlap /\ dirs' = dirs
    BY <1>1, <2>2, Inside DEF SeedFile
  <2> QED
    BY <1>4, <2>1, <2>2 DEF Close
<1>6. CommandFits(inv'[p])
  BY <1>1, <1>2, <1>3, Zenon DEF Becomes, CommandFits, Before, Ended
<1>7. SeedInv'
  BY <1>0, <1>1, <1>2, <1>3, <1>5, Inside, DbStepSeed, Zenon DEF Becomes, Before
<1>8. ~overlap /\ TablesFit(p) => TablesFit(p)'
  <2> SUFFICES ASSUME ~overlap, TablesFit(p) PROVE TablesFit(p)'
    OBVIOUS
  <2>1. TablesOf(inv[p])'
    BY <1>2, <1>3, Zenon DEF TablesOf, Becomes
  <2>2. Complete(dirs.dir.db)
    BY <1>0, Zenon DEF TablesFit
  <2> QED
    BY <1>0, <1>5, <2>1, <2>2, Zenon DEF TablesFit, Complete, Whole
<1>9. ~overlap /\ ImportStage(inv[p]) => ImportStage(inv[p])'
  BY <1>0, <1>2, <1>3, <1>5, Zenon DEF ImportStage, Becomes, Copying
<1> QED
  BY <1>0, <1>1, <1>2, <1>3, <1>5, <1>6, <1>7, <1>8, <1>9, Inside, StepKeeps, Zenon DEF Becomes

-----------------------------------------------------------------------------
(* The seed *)

\* The seed file is replaced and everything else stays.
LEMMA SeedFilled ==
  ASSUME dirs \in Layout, dirs.dir # NoDir, NEW s \in SeedFiles, Fill("seed", s)
  PROVE  /\ dirs' \in Layout /\ dirs'.dir # NoDir /\ dirs'.dir.db = dirs.dir.db
         /\ dirs'.dir.file = dirs.dir.file /\ dirs'.legacy = dirs.legacy /\ dirs'.sameFs = dirs.sameFs
         /\ dirs'.found = dirs.found /\ SeedFile' = s
<1> DEFINE d == [dirs.dir EXCEPT !["seed"] = s]
<1>1. dirs.dir \in OpenDirs /\ DirIs(d)
  BY Fills, Zenon
<1>2. d \in OpenDirs /\ d.seed = s /\ d.db = dirs.dir.db /\ d.file = dirs.dir.file
  BY <1>1, Zenon DEF OpenDirs
<1> HIDE DEF d
<1>3. d # NoDir
  BY <1>2, OpenDir, Zenon
<1> QED
  BY <1>1, <1>2, <1>3 DEF DirIs, SeedFile

\* load_seedfile finds no file only if nobody has read a seed.
LEMMA LoadSeedfileKeeps ==
  ASSUME StorageInv, NEW p \in Invocations, LoadSeedfile(p)
  PROVE  StorageInv'
<1> DEFINE at == IF dirs.dir.seed = NoFile THEN "seed" ELSE "read"
<1>0. /\ inv[p].at = "command" /\ inv[p].cmd \in Seeded /\ overlap' = overlap
      /\ dirs' = dirs /\ exported' = exported
  BY DEF LoadSeedfile, Command, Reached
<1>1. inv[p].at \notin Before \cup Ended /\ inv[p].cmd # "import"
  BY <1>0 DEF Before, Ended, Seeded
<1>2. Becomes(p, at, inv[p].cmd, inv[p].next, inv[p].then, inv[p].seed, inv[p].old, inv[p].given)
  BY GoesBecomes, Zenon DEF LoadSeedfile, StorageInv, Stages
<1>3. CommandFits(inv'[p])
  <2>1. CommandFits(inv[p])
    BY DEF StorageInv
  <2> QED
    BY <1>0, <1>2, <2>1, Zenon DEF Becomes, CommandFits, Before, Ended
<1>4. SeedInv'
  <2> SUFFICES ASSUME Kept
               PROVE  /\ dirs'.found # NoFile => SeedFile' # NoFile /\ dirs'.found = AsRead(SeedFile')
                      /\ \A q \in Invocations : Moved(inv[q])' /\ SeedUsed(inv[q])'
    BY <1>0 DEF SeedInv, Kept
  <2>1. /\ dirs.found # NoFile => SeedFile # NoFile /\ dirs.found = AsRead(SeedFile)
        /\ \A q \in Invocations : Moved(inv[q]) /\ SeedUsed(inv[q])
    BY DEF StorageInv, SeedInv, Kept
  <2>2. SeedFile' = SeedFile /\ SeedFile = dirs.dir.seed
    BY <1>0, <1>1, Inside DEF SeedFile
  <2>3. \A q \in Invocations : inv'[q].seed = inv[q].seed
    BY <1>2 DEF Becomes
  <2>4. ASSUME NEW q \in Invocations PROVE Moved(inv[q])'
    BY <1>0, <1>2, <2>1 DEF Moved, Becomes
  <2>5. SeedFile = NoFile => dirs.found = NoFile /\ \A q \in Invocations : inv[q].seed = NoFile
    BY <2>1 DEF SeedUsed
  <2>6. ASSUME NEW q \in Invocations PROVE SeedUsed(inv[q])'
    <3>1. SeedUsed(inv[q])
      BY <2>1, Zenon
    <3>2. CASE q = p
      BY <1>0, <1>2, <2>2, <2>3, <2>5, <3>1, <3>2, Zenon DEF SeedUsed, Becomes
    <3>3. CASE q # p
      BY <1>0, <1>2, <2>2, <2>3, <3>1, <3>3, Zenon DEF SeedUsed, Becomes
    <3> QED
      BY <3>2, <3>3
  <2> QED
    BY <1>0, <2>1, <2>2, <2>4, <2>6
<1>5. TablesFit(p) => TablesFit(p)'
  <2>1. TablesOf(inv[p]) => TablesOf(inv[p])'
    BY <1>0, <1>2, Zenon DEF TablesOf, AllTables, Becomes
  <2>2. MayLog(inv[p]) => MayLog(inv'[p])
    BY <1>0, <1>2 DEF MayLog, Becomes, Ended
  <2> QED
    BY <1>0, <2>1, <2>2, TablesSame, Zenon DEF TablesFit
<1>6. ImportStage(inv[p])'
  BY <1>1, <1>2, NoImport, Zenon DEF Becomes
<1> QED
  BY <1>0, <1>1, <1>2, <1>3, <1>4, <1>5, <1>6, Inside, StepKeeps, Zenon DEF Becomes

\* Whoever writes a seed is alone, where the seed is to be kept.
LEMMA WriteSeedKeeps ==
  ASSUME StorageInv, NEW p \in Invocations, WriteSeed(p)
  PROVE  StorageInv'
<1>0. /\ inv[p].at \in {"seed", "seeding"} /\ overlap' = overlap /\ exported' = exported
  BY DEF WriteSeed, Reached
<1>1. PICK at \in {"seeding", "read"}, s \in SeedFiles \ {NoFile} : Fill("seed", s) /\ Goes(p, at)
  <2>1. TornFile \in SeedFiles \ {NoFile} /\ Seed(p) \in SeedFiles \ {NoFile}
    BY StorageAssumption, FileTypes, FileKinds
  <2> QED
    BY <2>1, Zenon DEF WriteSeed
<1>2. inv[p].at \notin Before \cup Ended /\ Active(p) /\ CommandFits(inv[p])
  BY <1>0 DEF Before, Ended, Active, StorageInv
<1>3. inv[p].cmd \in Seeded /\ inv[p].cmd # "import"
  BY <1>0, <1>2, Zenon DEF CommandFits, Seeded
<1>4. Becomes(p, at, inv[p].cmd, inv[p].next, inv[p].then, inv[p].seed, inv[p].old, inv[p].given)
  BY <1>1, GoesBecomes, Zenon DEF StorageInv, Stages
<1>5. /\ dirs' \in Layout /\ dirs'.dir # NoDir /\ dirs'.dir.db = dirs.dir.db
      /\ dirs'.dir.file = dirs.dir.file /\ dirs'.legacy = dirs.legacy /\ dirs'.sameFs = dirs.sameFs
      /\ dirs'.found = dirs.found /\ SeedFile' = s
  BY <1>1, <1>2, Inside, SeedFilled
<1>6. CommandFits(inv'[p])
  BY <1>0, <1>2, <1>3, <1>4, Zenon DEF Becomes, CommandFits, Before, Ended
<1>7. SeedInv'
  <2> SUFFICES ASSUME Kept
               PROVE  /\ dirs'.found # NoFile => SeedFile' # NoFile /\ dirs'.found = AsRead(SeedFile')
                      /\ \A q \in Invocations : Moved(inv[q])' /\ SeedUsed(inv[q])'
    BY <1>0, <1>5 DEF SeedInv, Kept
  <2>1. dirs.found = NoFile /\ \A q \in Invocations : inv[q].seed = NoFile
    BY <1>0 DEF StorageInv, SeedInv, Kept, SeedUsed
  <2>2. \A q \in Invocations \ {p} : ~Active(q)
    BY <1>2, <2>1, Alone DEF Kept, StorageInv
  <2>3. \A q \in Invocations : inv'[q].seed = NoFile
    BY <1>4, <2>1 DEF Becomes
  <2>4. \A q \in Invocations \ {p} : inv'[q].at \in Ended \cup {"none"}
    BY <1>4, <2>2 DEF Becomes, Active
  <2>5. \A q \in Invocations : inv'[q].at \in {"seeding", "read", "none"} \cup Ended
    BY <1>4, <2>4 DEF Becomes
  <2>6. ASSUME NEW q \in Invocations PROVE Moved(inv[q])'
    BY <2>5 DEF Moved, Ended
  <2>7. ASSUME NEW q \in Invocations PROVE SeedUsed(inv[q])'
    BY <1>1, <1>5, <2>1, <2>3, <2>5, Zenon DEF SeedUsed
  <2> QED
    BY <1>5, <2>1, <2>6, <2>7, Zenon
<1>8. TablesFit(p) => TablesFit(p)'
  <2>1. TablesOf(inv[p]) => TablesOf(inv[p])'
    BY <1>0, <1>3, <1>4, <1>5, Zenon DEF TablesOf, AllTables, Becomes
  <2>2. MayLog(inv[p]) => MayLog(inv'[p])
    BY <1>0, <1>4 DEF MayLog, Becomes, Ended
  <2> QED
    BY <1>0, <1>5, <2>1, <2>2, TablesSame, Zenon DEF TablesFit
<1>9. ImportStage(inv[p])'
  BY <1>3, <1>4, NoImport, Zenon DEF Becomes
<1> QED
  BY <1>0, <1>2, <1>4, <1>5, <1>6, <1>7, <1>8, <1>9, Inside, StepKeeps, Zenon DEF Becomes

\* One that reads the seed has the one of the file, and nobody writes another.
LEMMA SeedRead ==
  ASSUME StorageInv, NEW p \in Invocations, Active(p), inv[p].at \notin {"seed", "seeding"},
         overlap' = overlap, dirs' = dirs, dirs.dir # NoDir,
         \A q \in Invocations \ {p} : inv'[q] = inv[q],
         Kept => SeedFile # NoFile /\ inv'[p].seed = AsRead(SeedFile),
         inv'[p].at \in {"work", "close"}
  PROVE  SeedInv'
<1> SUFFICES ASSUME Kept
             PROVE  /\ dirs'.found # NoFile => SeedFile' # NoFile /\ dirs'.found = AsRead(SeedFile')
                    /\ \A q \in Invocations : Moved(inv[q])' /\ SeedUsed(inv[q])'
  BY DEF SeedInv, Kept
<1>1. /\ dirs.found # NoFile => SeedFile # NoFile /\ dirs.found = AsRead(SeedFile)
      /\ \A q \in Invocations : Moved(inv[q]) /\ SeedUsed(inv[q])
  BY DEF StorageInv, SeedInv, Kept
<1>2. SeedFile' = SeedFile
  BY DEF SeedFile
<1>3. ASSUME NEW q \in Invocations PROVE Moved(inv[q])'
  BY <1>1 DEF Moved
<1>4. ASSUME NEW q \in Invocations PROVE inv'[q].at \notin {"seed", "seeding"}
  <2>1. CASE q = p
    BY <2>1
  <2>2. CASE q # p
    <3> SUFFICES ASSUME inv[q].at \in {"seed", "seeding"} PROVE FALSE
      BY <2>2, Zenon
    <3>1. dirs.found = NoFile
      BY <1>1, Zenon DEF SeedUsed
    <3>2. ~Active(q)
      BY <2>2, <3>1, Alone, Zenon DEF Kept, StorageInv
    <3> QED
      BY <3>2 DEF Active, Ended
  <2> QED
    BY <2>1, <2>2
<1>5. ASSUME NEW q \in Invocations PROVE SeedUsed(inv[q])'
  BY <1>1, <1>2, <1>4, Zenon DEF SeedUsed
<1> QED
  BY <1>1, <1>2, <1>3, <1>5

\* The seed is read back from the file.
LEMMA ReadSeedKeeps ==
  ASSUME StorageInv, NEW p \in Invocations, ReadSeed(p)
  PROVE  StorageInv'
<1>0. /\ inv[p].at = "read" /\ overlap' = overlap /\ dirs' = dirs /\ exported' = exported
  BY DEF ReadSeed, Reached
<1>1. inv[p].at \notin Before \cup Ended /\ Active(p) /\ CommandFits(inv[p])
  BY <1>0, Zenon DEF Before, Ended, Active, StorageInv
<1>2. inv[p].cmd \in Seeded /\ inv[p].cmd # "import"
  BY <1>0, <1>1 DEF CommandFits, Seeded
<1>3. Becomes(p, "work", inv[p].cmd, inv[p].next, inv[p].then, AsRead(dirs.dir.seed), inv[p].old,
              inv[p].given)
  <2>1. "work" \in Stages /\ AsRead(dirs.dir.seed) \in SeedFiles
    BY <1>1, Inside, FileTypes DEF Stages
  <2> QED
    BY <2>1, OtherBecomes, Zenon DEF ReadSeed, StorageInv
<1>4. CommandFits(inv'[p])
  BY <1>0, <1>1, <1>2, <1>3, Zenon DEF Becomes, CommandFits, Before, Ended
<1>5. SeedInv'
  <2>1. Kept => SeedFile # NoFile
    BY <1>0 DEF StorageInv, SeedInv, Kept, SeedUsed
  <2>2. SeedFile = dirs.dir.seed
    BY <1>1, Inside, Zenon
  <2> QED
    BY <1>0, <1>1, <1>3, <2>1, <2>2, Inside, SeedRead, Zenon DEF Becomes
<1>6. TablesFit(p) => TablesFit(p)'
  <2>1. TablesOf(inv[p]) => TablesOf(inv[p])'
    BY <1>0, <1>2, <1>3, Zenon DEF TablesOf, AllTables, Becomes
  <2>2. MayLog(inv[p]) => MayLog(inv'[p])
    BY <1>0, <1>3 DEF MayLog, Becomes, Ended
  <2> QED
    BY <1>0, <2>1, <2>2, TablesSame, Zenon DEF TablesFit
<1>7. ImportStage(inv[p])'
  BY <1>2, <1>3, NoImport, Zenon DEF Becomes
<1> QED
  BY <1>0, <1>1, <1>3, <1>4, <1>5, <1>6, <1>7, Inside, StepKeeps DEF Becomes

\* admin reads the seed if there is one.
LEMMA ReadSeedFileKeeps ==
  ASSUME StorageInv, NEW p \in Invocations, ReadSeedFile(p)
  PROVE  StorageInv'
<1>0. /\ inv[p].at = "command" /\ inv[p].cmd = "admin" /\ overlap' = overlap
      /\ dirs' = dirs /\ exported' = exported
  BY DEF ReadSeedFile, Command, Reached
<1>1. inv[p].at \notin Before \cup Ended /\ Active(p) /\ CommandFits(inv[p])
  BY <1>0, Zenon DEF Before, Ended, Active, StorageInv
<1>2. PICK end \in {"ok", "err"}, s \in SeedFiles :
        /\ Becomes(p, "close", inv[p].cmd, inv[p].next, end, s, inv[p].old, inv[p].given)
        /\ end = "ok" => dirs.dir.seed.is = "seed" /\ s = dirs.dir.seed
        /\ end = "err" => s = inv[p].seed
  <2>0. dirs.dir.seed \in SeedFiles /\ inv[p].seed \in SeedFiles
    BY <1>1, Inside, LocalTypes, Zenon DEF StorageInv
  <2>1. CASE dirs.dir.seed.is = "seed"
    <3>1. Becomes(p, "close", inv[p].cmd, inv[p].next, "ok", dirs.dir.seed, inv[p].old,
                  inv[p].given)
      BY <2>0, <2>1, ClosesBecomes, Zenon DEF ReadSeedFile, StorageInv
    <3> QED
      BY <2>0, <2>1, <3>1
  <2>2. CASE dirs.dir.seed.is # "seed"
    <3>1. Goes(p, "err")
      BY <2>2 DEF ReadSeedFile
    <3>2. Becomes(p, "close", inv[p].cmd, inv[p].next, "err", inv[p].seed, inv[p].old, inv[p].given)
      BY <3>1, Closing
    <3> QED
      BY <2>0, <3>2
  <2> QED
    BY <2>1, <2>2
<1>3. CommandFits(inv'[p])
  BY <1>0, <1>1, <1>2, Zenon DEF Becomes, CommandFits, Before, Ended
<1>4. SeedInv'
  <2>1. CASE end = "ok"
    <3>1. SeedFile # NoFile /\ s = AsRead(SeedFile)
      BY <1>1, <1>2, <2>1, Inside, FileKinds, Zenon DEF AsRead
    <3> QED
      BY <1>0, <1>1, <1>2, <2>1, <3>1, Inside, SeedRead, Zenon DEF Becomes
  <2>2. CASE end = "err"
    <3>1. SeedFile' = SeedFile
      BY <1>0, Zenon DEF SeedFile
    <3> QED
      BY <1>0, <1>1, <1>2, <2>2, <3>1, Inside, DbStepSeed DEF Becomes, Before
  <2> QED
    BY <2>1, <2>2, Zenon
<1>5. TablesFit(p) => TablesFit(p)'
  BY <1>0, <1>2, TablesSame, Zenon DEF TablesOf, MayLog, Ended, Becomes
<1>6. ImportStage(inv[p])'
  BY <1>0, <1>2, NoImport, Zenon DEF Becomes
<1> QED
  BY <1>0, <1>1, <1>2, <1>3, <1>4, <1>5, <1>6, Inside, StepKeeps, Zenon DEF Becomes

\* What work does to a database.
LEMMA DataFilled ==
  ASSUME NEW f \in DbFiles, NEW d \in Nat
  PROVE  /\ [Opened(f) EXCEPT !.data = d] \in DbFiles
         /\ Opened([Opened(f) EXCEPT !.data = d]) = [Opened(f) EXCEPT !.data = d]
         /\ [Opened(f) EXCEPT !.data = d].is = Opened(f).is
         /\ [Opened(f) EXCEPT !.data = d].tables = Opened(f).tables
<1> DEFINE db == Opened(f)
           filled == [db EXCEPT !.data = d]
<1>1. db \in [is : {"db", "mixed"}, tables : SUBSET Range(CreateTables), version : Nat, data : Nat]
  <2>1. db \in DbFiles /\ db.is \in {"db", "mixed"}
    BY FileTypes
  <2> HIDE DEF db
  <2> QED
    BY <2>1, FileKinds DEF DbFiles
<1> HIDE DEF db
<1>2. /\ filled \in [is : {"db", "mixed"}, tables : SUBSET Range(CreateTables), version : Nat,
                      data : Nat]
      /\ filled.is = db.is /\ filled.tables = db.tables
  BY <1>1
<1> HIDE DEF filled
<1>3. filled \in DbFiles /\ filled.is \in {"db", "mixed"}
  BY <1>1, <1>2, Zenon DEF DbFiles
<1>4. Opened(filled) = filled
  BY <1>3, FileKinds
<1> QED
  BY <1>2, <1>3, <1>4 DEF db, filled

\* The work of a subcommand fills the tables and makes none.
LEMMA WorkKeeps ==
  ASSUME StorageInv, NEW p \in Invocations, Work(p)
  PROVE  StorageInv'
<1> DEFINE db == Opened(dirs.dir.db)
           filled == [db EXCEPT !.data = p]
<1>0. inv[p].at = "work" /\ overlap' = overlap /\ exported' = exported
  BY Zenon DEF Work, Reached
<1>1. inv[p].at \notin Before \cup Ended /\ Active(p) /\ CommandFits(inv[p])
  BY <1>0 DEF Before, Ended, Active, StorageInv
<1>2. inv[p].cmd # "import"
  BY <1>0, <1>1 DEF CommandFits, Seeded
<1>3. filled \in DbFiles /\ Opened(filled) = filled /\ filled.is = db.is /\ filled.tables = db.tables
  <2>1. p \in Nat /\ dirs.dir.db \in DbFiles
    BY <1>1, Inside, StorageAssumption, Zenon
  <2> QED
    BY <2>1, DataFilled
<1>4. PICK end \in {"ok", "err"} :
        /\ Goes(p, end)
        /\ \/ /\ Range(CreateTables) \subseteq db.tables \/ db.is = "mixed"
              /\ \E file \in {dirs.dir.file, filled} : Store(filled, file)
           \/ dirs' = dirs
  BY DEF Work
<1>5. /\ Becomes(p, "close", inv[p].cmd, inv[p].next, end, inv[p].seed, inv[p].old, inv[p].given)
      /\ CommandFits(inv'[p])
  BY <1>4, Closing
<1> HIDE DEF filled, db
<1>6. /\ dirs' \in Layout /\ dirs'.dir # NoDir /\ dirs'.legacy = dirs.legacy
      /\ dirs'.sameFs = dirs.sameFs /\ dirs'.found = dirs.found /\ SeedFile' = SeedFile
      /\ \/ dirs'.dir.db = dirs.dir.db /\ dirs'.dir.file = dirs.dir.file
         \/ /\ dirs'.dir.db = filled /\ dirs'.dir.file \in {dirs.dir.file, filled}
            /\ Range(CreateTables) \subseteq filled.tables \/ filled.is = "mixed"
  <2>1. ASSUME NEW file \in {dirs.dir.file, filled}, Store(filled, file),
               Range(CreateTables) \subseteq db.tables \/ db.is = "mixed"
        PROVE  <1>6!:
    <3>1. file \in DbFiles
      BY <1>1, <1>3, Inside
    <3> QED
      BY <1>1, <1>3, <2>1, <3>1, Inside, DbFilled
  <2>2. CASE dirs' = dirs
    BY <1>1, <2>2, Inside DEF SeedFile
  <2> QED
    BY <1>4, <2>1, <2>2, Zenon
<1>7. SeedInv'
  BY <1>0, <1>1, <1>5, <1>6, Inside, DbStepSeed, Zenon DEF Becomes, Before
<1>8. TablesFit(p) => TablesFit(p)'
  <2> SUFFICES ASSUME TablesFit(p) PROVE TablesFit(p)'
    OBVIOUS
  <2>1. Range(CreateTables) \subseteq filled.tables \/ filled.is = "mixed" => Complete(filled)
    BY <1>3 DEF Complete
  <2>2. Complete(dirs'.dir.db) /\ Complete(dirs'.dir.file)
    BY <1>0, <1>6, <2>1 DEF TablesFit
  <2>3. TablesOf(inv[p])' /\ MayLog(inv'[p])
    BY <1>5 DEF TablesOf, MayLog, Becomes, Ended
  <2> QED
    BY <1>0, <1>6, <2>2, <2>3, Zenon DEF TablesFit, Complete, Whole, MayLog
<1>9. ImportStage(inv[p])'
  BY <1>2, <1>5, NoImport, Zenon DEF Becomes
<1> QED
  BY <1>0, <1>1, <1>5, <1>6, <1>7, <1>8, <1>9, Inside, StepKeeps, Zenon DEF Becomes

-----------------------------------------------------------------------------
(* The db subcommands *)

\* drop_db and reset_db remove the database; reset_db starts create_tables again.
LEMMA DropDbKeeps ==
  ASSUME StorageInv, NEW p \in Invocations, DropDb(p)
  PROVE  StorageInv'
<1>0. /\ inv[p].at = "command" /\ inv[p].cmd \in {"drop", "reset"} /\ overlap' = overlap
      /\ exported' = exported /\ Store(NoFile, NoFile)
  BY DEF DropDb, Command, Reached
<1>1. inv[p].at \notin Before \cup Ended /\ Active(p) /\ CommandFits(inv[p])
  BY <1>0, Zenon DEF Before, Ended, Active, StorageInv
<1>2. PICK at \in {"close", "tables"}, next \in 1..(Len(CreateTables) + 1) :
        /\ Becomes(p, at, inv[p].cmd, next, "ok", inv[p].seed, inv[p].old, inv[p].given)
        /\ at = "tables" => next = 1
        /\ CommandFits(inv'[p])
  <2>1. CASE inv[p].cmd = "drop"
    <3>1. Goes(p, "ok")
      BY <2>1 DEF DropDb
    <3>2. inv[p].next \in 1..(Len(CreateTables) + 1)
      BY LocalTypes DEF StorageInv
    <3> QED
      BY <3>1, <3>2, Closing
  <2>2. CASE inv[p].cmd = "reset"
    <3>1. "tables" \in Stages /\ 1 \in 1..(Len(CreateTables) + 1)
      BY TableNames DEF Stages
    <3>2. Becomes(p, "tables", inv[p].cmd, 1, "ok", inv[p].seed, inv[p].old, inv[p].given)
      BY <2>2, <3>1, OtherBecomes, Zenon DEF DropDb, StorageInv
    <3>3. CommandFits(inv'[p])
      BY <1>0, <1>1, <2>2, <3>2, Zenon DEF Becomes, CommandFits, Before, Ended
    <3> QED
      BY <3>1, <3>2, <3>3
  <2> QED
    BY <1>0, <2>1, <2>2
<1>3. /\ dirs' \in Layout /\ dirs'.dir # NoDir /\ dirs'.legacy = dirs.legacy
      /\ dirs'.sameFs = dirs.sameFs /\ dirs'.found = dirs.found /\ SeedFile' = SeedFile
      /\ dirs'.dir.db = NoFile /\ dirs'.dir.file = NoFile
  BY <1>0, <1>1, Inside, FileTypes, DbFilled
<1>4. SeedInv'
  BY <1>0, <1>1, <1>2, <1>3, Inside, DbStepSeed, Zenon DEF Becomes, Before
<1>5. TablesFit(p) => TablesFit(p)'
  <2>1. \A i \in 1..(1 - 1) : FALSE
    OBVIOUS
  <2>2. TablesOf(inv[p])'
    BY <1>2, <2>1 DEF TablesOf, Becomes
  <2> QED
    BY <1>0, <1>3, <2>2, NothingComplete DEF TablesFit, Whole
<1>6. ImportStage(inv[p])'
  BY <1>0, <1>2, NoImport, Zenon DEF Becomes
<1> QED
  BY <1>0, <1>1, <1>2, <1>3, <1>4, <1>5, <1>6, Inside, StepKeeps, Zenon DEF Becomes

\* export_db copies the database, which nobody is making, out.
LEMMA ExportDbKeeps ==
  ASSUME StorageInv, NEW p \in Invocations, ExportDb(p)
  PROVE  StorageInv'
<1>0. /\ overlap' = overlap /\ dirs' = dirs
      /\ inv[p].at \in {"command", "exporting"}
      /\ inv[p].at = "command" => inv[p].cmd = "export"
  BY DEF ExportDb, Command, Reached
<1>1. inv[p].at \notin Before \cup Ended /\ Active(p) /\ CommandFits(inv[p])
  BY <1>0 DEF Before, Ended, Active, StorageInv
<1>2. inv[p].cmd = "export"
  BY <1>0, <1>1, Zenon DEF CommandFits
<1>3. PICK at \in {"exporting", "close"}, then \in {"command", "ok", "err"} :
        /\ Becomes(p, at, inv[p].cmd, inv[p].next, then, inv[p].seed, inv[p].old, inv[p].given)
        /\ CommandFits(inv'[p]) /\ exported' \in {TornFile, dirs.dir.file}
  <2>1. CASE Goes(p, "exporting") /\ exported' = TornFile
    <3>1. "exporting" \in Stages \ {"ok", "err"} /\ inv[p].then \in {"command", "ok", "err"}
      BY LocalTypes, Zenon DEF Stages, StorageInv
    <3>2. Becomes(p, "exporting", inv[p].cmd, inv[p].next, inv[p].then, inv[p].seed, inv[p].old,
                  inv[p].given)
      BY <2>1, <3>1, GoesBecomes DEF StorageInv
    <3>3. CommandFits(inv'[p])
      BY <1>0, <1>1, <1>2, <3>2, Zenon DEF Becomes, CommandFits, Before, Ended
    <3> QED
      BY <2>1, <3>1, <3>2, <3>3
  <2>2. CASE Goes(p, "ok") /\ exported' = dirs.dir.file
    BY <2>2, Closing
  <2> QED
    BY <2>1, <2>2, Zenon DEF ExportDb
<1>4. exported' \in DbFiles
  BY <1>1, <1>3, Inside, FileTypes, Zenon
<1>5. SeedInv'
  <2>1. SeedFile' = SeedFile
    BY <1>0 DEF SeedFile
  <2> QED
    BY <1>0, <1>1, <1>3, <2>1, Inside, DbStepSeed DEF Becomes, Before
<1>6. TablesFit(p) => TablesFit(p)'
  <2> SUFFICES ASSUME TablesFit(p) PROVE TablesFit(p)'
    OBVIOUS
  <2>1. TablesOf(inv[p])' /\ (MayLog(inv[p]) => MayLog(inv'[p]))
    BY <1>0, <1>2, <1>3 DEF TablesOf, MayLog, Becomes, Ended, Seeded
  <2>2. Complete(exported')
    BY <1>3, NothingComplete DEF TablesFit
  <2> QED
    BY <1>0, <2>1, <2>2, Zenon DEF TablesFit, Complete, Whole, MayLog
<1>7. ImportStage(inv[p])'
  BY <1>2, <1>3, NoImport, Zenon DEF Becomes
<1> QED
  BY <1>0, <1>1, <1>3, <1>4, <1>5, <1>6, <1>7, Inside, StepKeeps, Zenon DEF Becomes

\* import_db begins: the database in use is the one to be replaced.
LEMMA ImportDbKeeps ==
  ASSUME StorageInv, NEW p \in Invocations, ImportDb(p)
  PROVE  StorageInv'
<1>0. /\ inv[p].at = "command" /\ inv[p].cmd = "import" /\ overlap' = overlap
      /\ dirs' = dirs /\ exported' = exported
  BY DEF ImportDb, Command, Reached
<1>1. inv[p].at \notin Before \cup Ended /\ Active(p) /\ CommandFits(inv[p])
  BY <1>0 DEF Before, Ended, Active, StorageInv
<1>2. inv[p].old = NoFile
  BY <1>0, <1>1, Zenon DEF CommandFits
<1>3. SeedFile' = SeedFile
  BY <1>0, Zenon DEF SeedFile
<1>4. CASE exported = NoFile
  <2>1. Goes(p, "err")
    BY <1>4 DEF ImportDb
  <2>2. /\ Becomes(p, "close", inv[p].cmd, inv[p].next, "err", inv[p].seed, inv[p].old, inv[p].given)
        /\ CommandFits(inv'[p])
    BY <2>1, Closing
  <2>3. SeedInv'
    BY <1>0, <1>1, <1>3, <2>2, Inside, DbStepSeed DEF Becomes, Before
  <2>4. TablesFit(p) => TablesFit(p)'
    BY <1>0, <2>2, TablesSame, Zenon DEF TablesOf, MayLog, Ended, Becomes
  <2>5. ImportStage(inv[p])'
    BY <1>2, <2>2, NoImport, Zenon DEF Becomes, Copying
  <2> QED
    BY <1>0, <1>1, <2>2, <2>3, <2>4, <2>5, Inside, StepKeeps, Zenon DEF Becomes
<1>5. CASE exported # NoFile
  <2>1. Becomes(p, "backup", inv[p].cmd, inv[p].next, inv[p].then, inv[p].seed, dirs.dir.db,
                exported)
    <3>1. "backup" \in Stages /\ dirs.dir.db \in DbFiles /\ exported \in DbFiles
      BY <1>1, Inside, Zenon DEF Stages
    <3> QED
      BY <1>5, <3>1, OtherBecomes, Zenon DEF ImportDb, StorageInv
  <2>2. CommandFits(inv'[p])
    BY <1>0, <1>1, <2>1, Zenon DEF Becomes, CommandFits, Before, Ended
  <2>3. SeedInv'
    BY <1>0, <1>1, <1>3, <2>1, Inside, DbStepSeed DEF Becomes, Before
  <2>4. TablesFit(p) => TablesFit(p)'
    BY <1>0, <2>1, TablesSame, Zenon DEF TablesOf, MayLog, Ended, Becomes
  <2>5. TablesFit(p) => ImportStage(inv[p])'
    <3>1. TablesFit(p) /\ inv[p].next = 1 => Whole(dirs.dir)
      BY <1>0 DEF TablesFit, MayLog
    <3> QED
      BY <1>0, <2>1, <3>1, Zenon DEF ImportStage, Becomes, Whole, Copying
  <2> QED
    BY <1>0, <1>1, <2>1, <2>2, <2>3, <2>4, <2>5, Inside, StepKeeps, Zenon DEF Becomes
<1> QED
  BY <1>4, <1>5

\* The database that is imported is backed up first, ...
LEMMA BackupKeeps ==
  ASSUME StorageInv, NEW p \in Invocations, BackupDb(p)
  PROVE  StorageInv'
<1>0. inv[p].at \in {"backup", "backing up"} /\ overlap' = overlap /\ exported' = exported
  BY Zenon DEF BackupDb, Reached
<1>1. inv[p].at \notin Before \cup Ended /\ Active(p) /\ CommandFits(inv[p])
  BY <1>0, Zenon DEF Before, Ended, Active, StorageInv
<1>2. inv[p].cmd = "import"
  BY <1>0, <1>1, Zenon DEF CommandFits
<1>3. PICK at \in {"backing up", "copy"}, f \in DbFiles :
        /\ Goes(p, at) /\ Fill("backup", f)
        /\ at = "copy" => f = dirs.dir.file
  <2>1. TornFile \in DbFiles /\ dirs.dir.file \in DbFiles
    BY <1>1, Inside, FileTypes, Zenon
  <2> QED
    BY <2>1, Zenon DEF BackupDb
<1>4. Becomes(p, at, inv[p].cmd, inv[p].next, inv[p].then, inv[p].seed, inv[p].old, inv[p].given)
  <2>1. at \in Stages \ {"ok", "err"}
    BY <1>3, Zenon DEF Stages
  <2> QED
    BY <1>3, <2>1, GoesBecomes, Zenon DEF StorageInv
<1>5. /\ dirs' \in Layout /\ dirs'.dir # NoDir /\ dirs'.legacy = dirs.legacy
      /\ dirs'.sameFs = dirs.sameFs /\ dirs'.found = dirs.found /\ SeedFile' = SeedFile
      /\ dirs'.dir.db = dirs.dir.db /\ dirs'.dir.file = dirs.dir.file /\ dirs'.dir.backup = f
  BY <1>1, <1>3, Inside, DbFilled, Zenon
<1>6. CommandFits(inv'[p])
  BY <1>0, <1>1, <1>2, <1>4, Zenon DEF Becomes, CommandFits, Before, Ended
<1>7. SeedInv'
  BY <1>0, <1>1, <1>4, <1>5, Inside, DbStepSeed, Zenon DEF Becomes, Before
<1>8. TablesFit(p) => TablesFit(p)'
  <2>1. TablesOf(inv[p])' /\ (MayLog(inv[p]) => MayLog(inv'[p])) /\ inv[p].at # "tables"
    BY <1>0, <1>4, Zenon DEF TablesOf, MayLog, Becomes, Ended
  <2> QED
    BY <1>0, <1>5, <2>1, TablesSame, Zenon
<1>9. ImportStage(inv[p]) => ImportStage(inv[p])'
  BY <1>0, <1>2, <1>3, <1>4, <1>5, Zenon DEF Becomes, ImportStage, Copying, Whole
<1> QED
  BY <1>0, <1>1, <1>4, <1>5, <1>6, <1>7, <1>8, <1>9, Inside, StepKeeps, Zenon DEF Becomes

\* ... then emptied, ...
LEMMA EmptyKeeps ==
  ASSUME StorageInv, NEW p \in Invocations, CopyDb(p), inv[p].at = "copy"
  PROVE  StorageInv'
<1> DEFINE db == IF dirs.dir.db = dirs.dir.file THEN TornFile ELSE Mixed
<1>0. overlap' = overlap /\ exported' = exported /\ Store(db, TornFile) /\ Goes(p, "copying")
  BY DEF CopyDb, Reached
<1>1. inv[p].at \notin Before \cup Ended /\ Active(p) /\ CommandFits(inv[p])
  BY Zenon DEF Before, Ended, Active, StorageInv
<1>2. inv[p].cmd = "import"
  BY <1>1, Zenon DEF CommandFits
<1>3. Becomes(p, "copying", inv[p].cmd, inv[p].next, inv[p].then, inv[p].seed, inv[p].old,
              inv[p].given)
  <2>1. "copying" \in Stages \ {"ok", "err"}
    BY Zenon DEF Stages
  <2> QED
    BY <1>0, <2>1, GoesBecomes DEF StorageInv
<1>4. /\ TornFile \in DbFiles /\ Mixed \in DbFiles /\ Complete(Mixed) /\ db \in {TornFile, Mixed}
      /\ dirs.dir.db = dirs.dir.file => db = TornFile
  <2>1. Mixed.is = "mixed" /\ Mixed \in DbFiles
    BY DEF Mixed, Database, DbFiles
  <2>2. Complete(Mixed)
    BY <2>1, FileKinds DEF Complete
  <2> QED
    BY <2>1, <2>2, FileTypes
<1> HIDE DEF db
<1>5. /\ dirs' \in Layout /\ dirs'.dir # NoDir /\ dirs'.legacy = dirs.legacy
      /\ dirs'.sameFs = dirs.sameFs /\ dirs'.found = dirs.found /\ SeedFile' = SeedFile
      /\ dirs'.dir.db = db /\ dirs'.dir.file = TornFile /\ dirs'.dir.backup = dirs.dir.backup
  <2>1. db \in DbFiles
    BY <1>4
  <2> QED
    BY <1>0, <1>1, <1>4, <2>1, Inside, DbFilled
<1>6. CommandFits(inv'[p])
  BY <1>1, <1>2, <1>3, Zenon DEF Becomes, CommandFits, Before, Ended
<1>7. SeedInv'
  BY <1>0, <1>1, <1>3, <1>5, Inside, DbStepSeed, Zenon DEF Becomes, Before
<1>8. TablesFit(p) => TablesFit(p)'
  <2> SUFFICES ASSUME TablesFit(p) PROVE TablesFit(p)'
    OBVIOUS
  <2>1. TablesOf(inv[p])' /\ (MayLog(inv[p]) => MayLog(inv'[p]))
    BY <1>3 DEF TablesOf, MayLog, Becomes, Ended
  <2>2. Whole(dirs'.dir) \/ MayLog(inv'[p])
    BY <1>4, <1>5, <2>1, Zenon DEF TablesFit, Whole
  <2>3. Complete(dirs'.dir.db) /\ Complete(dirs'.dir.file)
    BY <1>4, <1>5, NothingComplete, Zenon
  <2> QED
    BY <1>0, <1>5, <2>1, <2>2, <2>3, Zenon DEF TablesFit, Complete, Whole, MayLog
<1>9. ImportStage(inv[p]) => ImportStage(inv[p])'
  BY <1>0, <1>2, <1>3, <1>4, <1>5, Zenon DEF Becomes, ImportStage, Copying, Whole
<1> QED
  BY <1>0, <1>1, <1>3, <1>5, <1>6, <1>7, <1>8, <1>9, Inside, StepKeeps, Zenon DEF Becomes

\* ... and becomes the file that was given, unless its log is still there.
LEMMA GivenKeeps ==
  ASSUME StorageInv, NEW p \in Invocations, CopyDb(p), inv[p].at # "copy"
  PROVE  StorageInv'
<1> DEFINE db == IF dirs.dir.db = TornFile THEN exported ELSE dirs.dir.db
<1>0. /\ inv[p].at = "copying" /\ overlap' = overlap /\ exported' = exported
      /\ Store(db, exported) /\ Goes(p, "ok")
  BY DEF CopyDb, Reached
<1>1. inv[p].at \notin Before \cup Ended /\ Active(p) /\ CommandFits(inv[p])
  BY <1>0, Zenon DEF Before, Ended, Active, StorageInv
<1>2. inv[p].cmd = "import"
  BY <1>0, <1>1, Zenon DEF CommandFits
<1>3. /\ Becomes(p, "close", inv[p].cmd, inv[p].next, "ok", inv[p].seed, inv[p].old, inv[p].given)
      /\ CommandFits(inv'[p])
  BY <1>0, Closing
<1>4. db \in {exported, dirs.dir.db} /\ (dirs.dir.db = TornFile => db = exported)
  OBVIOUS
<1> HIDE DEF db
<1>5. /\ dirs' \in Layout /\ dirs'.dir # NoDir /\ dirs'.legacy = dirs.legacy
      /\ dirs'.sameFs = dirs.sameFs /\ dirs'.found = dirs.found /\ SeedFile' = SeedFile
      /\ dirs'.dir.db = db /\ dirs'.dir.file = exported /\ dirs'.dir.backup = dirs.dir.backup
  <2>1. db \in DbFiles /\ exported \in DbFiles
    BY <1>1, <1>4, Inside
  <2> QED
    BY <1>0, <1>1, <2>1, Inside, DbFilled
<1>6. SeedInv'
  BY <1>0, <1>1, <1>3, <1>5, Inside, DbStepSeed, Zenon DEF Becomes, Before
<1>7. TablesFit(p) => TablesFit(p)'
  <2> SUFFICES ASSUME TablesFit(p) PROVE TablesFit(p)'
    OBVIOUS
  <2>1. TablesOf(inv[p])' /\ MayLog(inv'[p])
    BY <1>3 DEF TablesOf, MayLog, Becomes, Ended
  <2>2. Complete(dirs'.dir.db) /\ Complete(dirs'.dir.file)
    BY <1>0, <1>4, <1>5 DEF TablesFit
  <2> QED
    BY <1>0, <1>5, <2>1, <2>2, Zenon DEF TablesFit, Complete, Whole, MayLog
<1>8. ImportStage(inv[p]) => ImportStage(inv[p])'
  BY <1>0, <1>2, <1>3, <1>4, <1>5, Zenon DEF Becomes, ImportStage, Copying
<1> QED
  BY <1>0, <1>1, <1>3, <1>5, <1>6, <1>7, <1>8, Inside, StepKeeps, Zenon DEF Becomes

-----------------------------------------------------------------------------
(* All behaviours *)

\* What is found at the start.
LEMMA InitKeeps == StorageInit => StorageInv
<1> SUFFICES ASSUME StorageInit PROVE StorageInv
  OBVIOUS
<1>1. PICK s \in Starts : StorageStart(s.together, s.layout)
  BY DEF StorageInit
<1>2. /\ overlap = s.together /\ dirs = s.layout /\ exported = FullDb(9)
      /\ \A p \in Invocations : inv[p] = NotInvoked
      /\ inv = [p \in Invocations |-> NotInvoked]
  BY <1>1, Zenon DEF StorageStart
<1>3. /\ overlap \in Flag /\ dirs \in Layout
      /\ dirs.found = IF SeedFile = NoFile THEN NoFile ELSE AsRead(SeedFile)
      /\ Complete(dirs.legacy.db) /\ Complete(dirs.dir.db) /\ Complete(dirs.dir.file)
      /\ Whole(dirs.legacy) /\ Whole(dirs.dir)
  BY <1>2, StorageAssumption, Zenon DEF Flag, Layout, SeedFile, Whole
<1>4. /\ NotInvoked \in Locals /\ NotInvoked.at = "none" /\ NotInvoked.cmd = "none"
      /\ NotInvoked.next = 1 /\ NotInvoked.then = "command"
      /\ NotInvoked.seed = NoFile /\ NotInvoked.old = NoFile
  BY FileTypes, TableNames DEF NotInvoked, Locals, Stages
<1>5. exported \in DbFiles /\ Complete(exported)
  <2>1. Range(CreateTables) \in SUBSET Range(CreateTables) /\ DB_VERSION \in Nat /\ 9 \in Nat
    BY DEF DB_VERSION
  <2>2. exported \in DbFiles
    BY <1>2, <2>1, FileTypes DEF FullDb
  <2>3. exported.is = "db" /\ exported.tables = Range(CreateTables)
    BY <1>2 DEF FullDb, Database
  <2> QED
    BY <2>2, <2>3, FileKinds DEF Complete
<1>6. StorageTypeInv
  BY <1>2, <1>3, <1>4, <1>5 DEF StorageTypeInv
<1>7. OneByOne /\ DirMade
  BY <1>2, <1>4 DEF OneByOne, DirMade, Before
<1>8. \A p \in Invocations : CommandFits(inv[p])
  BY <1>2, <1>4, Zenon DEF CommandFits, DbCommands, Ended
<1>9. SeedInv
  <2>1. \A p \in Invocations : Moved(inv[p]) /\ SeedUsed(inv[p])
    BY <1>2, <1>4 DEF Moved, SeedUsed
  <2> QED
    BY <1>3, <2>1 DEF SeedInv
<1>10. TablesInv
  <2>1. \A p \in Invocations : TablesOf(inv[p])
    BY <1>2, <1>4 DEF TablesOf
  <2> QED
    BY <1>3, <1>5, <2>1 DEF TablesInv
<1>11. ImportInv
  BY <1>2, <1>4, Zenon DEF ImportInv, ImportStage, Copying
<1> QED
  BY <1>6, <1>7, <1>8, <1>9, <1>10, <1>11 DEF StorageInv

\* Every step of every invocation keeps the invariant.
LEMMA NextKeeps == StorageInv /\ [StorageNext]_storageVars => StorageInv'
<1> SUFFICES ASSUME StorageInv, [StorageNext]_storageVars PROVE StorageInv'
  OBVIOUS
<1>1. CASE UNCHANGED storageVars
  <2>0. overlap' = overlap /\ dirs' = dirs /\ exported' = exported /\ inv' = inv
    BY <1>1 DEF storageVars
  <2>1. StorageTypeInv' /\ OneByOne' /\ DirMade' /\ \A p \in Invocations : CommandFits(inv[p])'
    BY <2>0, Zenon DEF StorageInv, StorageTypeInv, OneByOne, DirMade, CommandFits
  <2>2. SeedInv'
    BY <2>0, Zenon DEF StorageInv, SeedInv, SeedFile, Moved, SeedUsed
  <2>3. TablesInv'
    BY <2>0, Zenon DEF StorageInv, TablesInv, TablesOf, AllTables, Killed, Reached
  <2>4. ImportInv'
    BY <2>0, Zenon DEF StorageInv, ImportInv, Newest, Killed, Reached, ImportStage
  <2> QED
    BY <2>1, <2>2, <2>3, <2>4, Zenon DEF StorageInv
<1>2. ASSUME NEW p \in Invocations,
             \/ \E cmd \in Subcommands : Invoke(p, cmd)
             \/ InvocationStep(p) \/ Kill(p)
      PROVE  StorageInv'
  BY <1>2, InvokeKeeps, ResolveKeeps, MigrateKeeps, CreateDirKeeps, InitDbKeeps,
     CreateTableKeeps, LoadSeedfileKeeps, WriteSeedKeeps, ReadSeedKeeps, WorkKeeps,
     ReadSeedFileKeeps, DropDbKeeps, ExportDbKeeps, ImportDbKeeps, BackupKeeps, EmptyKeeps, GivenKeeps,
     CloseKeeps, KillKeeps, Zenon DEF InvocationStep
<1> QED
  BY <1>1, <1>2 DEF StorageNext

\* The inductive invariant holds for all invocations of the program.
THEOREM StorageKeepsInv == StorageSpec => []StorageInv
BY InitKeeps, NextKeeps, PTL DEF StorageSpec

\* resolve_default_data_dir and load_seedfile give every invocation the one seed,
\* the seed found by the first if there was one, wherever others were killed, and
\* also if they overlap once there is a seed.
THEOREM SeedStays == StorageSpec => []SeedStable
<1>1. StorageInv => SeedStable
  <2> SUFFICES ASSUME StorageInv, Kept, NEW p \in Invocations, NEW q \in Invocations,
                      inv[p].seed # NoFile
               PROVE  /\ inv[q].seed \in {NoFile, inv[p].seed}
                      /\ dirs.found \in {NoFile, inv[p].seed}
    BY DEF SeedStable, Kept
  <2>1. /\ dirs.found # NoFile => dirs.found = AsRead(SeedFile)
        /\ SeedUsed(inv[p]) /\ SeedUsed(inv[q])
    BY DEF StorageInv, SeedInv, Kept
  <2> QED
    BY <2>1 DEF SeedUsed
<1> QED
  BY <1>1, StorageKeepsInv, PTL

\* init_db is right to take a database with run_txs for complete as long as no
\* create_tables was cut short: a subcommand at work finds all tables.
THEOREM TablesAreReady == StorageSpec => []TablesReady
<1>1. StorageInv => TablesReady
  <2> SUFFICES ASSUME StorageInv, ~overlap, Killed = {}, dirs.dir.db.is # "mixed",
                      NEW p \in Invocations, inv[p].at = "work"
               PROVE  Range(CreateTables) \subseteq Opened(dirs.dir.db).tables
    BY DEF TablesReady, Reached
  <2>1. inv[p].cmd \in Seeded /\ TablesOf(inv[p])
    BY Zenon DEF StorageInv, CommandFits, TablesInv
  <2>2. dirs.dir.db \in DbFiles
    BY Inside DEF Before, Ended
  <2>3. Opened(dirs.dir.db).is = "db"
    BY <2>2, FileTypes DEF Opened, Database
  <2> QED
    BY <2>1, <2>3 DEF TablesOf, AllTables
<1> QED
  BY <1>1, StorageKeepsInv, PTL

\* If nothing is in the log when import_db begins, then wherever it is killed the
\* database it replaces is still the database or its backup, and when it succeeds
\* the database is the file it was given.
THEOREM ImportIsSound == StorageSpec => []ImportSound
<1>1. StorageInv => ImportSound
  <2> SUFFICES ASSUME StorageInv, NEW p \in Invocations, Newest(p), Killed \subseteq {p},
                      inv[p].next = 1
               PROVE  /\ inv[p].old # NoFile => inv[p].old \in {dirs.dir.db, dirs.dir.backup}
                      /\ inv[p].cmd = "import" /\ inv[p].at = "ok" => dirs.dir.db = inv[p].given
    BY Zenon DEF ImportSound, Reached
  <2>1. ImportStage(inv[p]) /\ CommandFits(inv[p])
    BY Zenon DEF StorageInv, ImportInv
  <2> QED
    BY <2>1, Zenon DEF ImportStage, CommandFits
<1> QED
  BY <1>1, StorageKeepsInv, PTL
=============================================================================
