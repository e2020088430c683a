------------------------ MODULE ParserDriverProofs --------------------------
(***************************************************************************)
(* Theorems about ParserDriver for any files, commands, thresholds and     *)
(* faults, any number of jobs and of runs.  The argument follows one run:  *)
(* what the parser holds in memory of a file is the row of the file or     *)
(* what is on disk; every file whose row differs from the disk is marked,  *)
(* and gone before the parse starts; a node is claimed by one job and by   *)
(* none once it is stored; and a file that is not in the cache of the      *)
(* metrics plugin has no metrics.                                          *)
(***************************************************************************)
EXTENDS ParserDriver, FiniteSetTheorems, TLAPS

(* Where a run has not read the database yet; where it has changed what    *)
(* had to be changed; where it has counted.                                *)
Early   == {"idle", "prepare", "connect", "tables", "detect"}
Late    == {"parse", "parsing", "metrics", "counting", "index", "cppMetrics", "config"}
Counted == {"index", "cppMetrics", "config"}

(* At the exit of a parse everything is as it was after the last plugin.   *)
Parsed == run.pc = "exit" /\ ~run.dryRun

(* The rows and the entries of the cache of SourceManager.                 *)
FilesInv ==
  /\ run.pc \notin Early => \A f \in Files : db.file[f] \in {Absent, run.files[f]}
  /\ run.pc \notin Early => \A f \in Files \ Marked : run.files[f] \in {Absent, Blank, disk[f]}
  /\ run.pc = "detect" /\ run.force => \A f \in Files : db.file[f] = Absent
  /\ run.pc \in {"mark", "decide"} /\ run.force => \A f \in Files : run.files[f] = Absent
  /\ run.pc = "cleanFiles" => \A f \in Marked \ run.todo : run.files[f] = Absent
  /\ run.pc \in Late \/ Parsed => \A f \in Files : run.files[f] \in {Absent, Blank, disk[f]}

DryInv ==
  run.pc # "idle" /\ run.dryRun =>
    /\ run.pc \in {"prepare", "connect", "tables", "detect", "mark", "decide", "exit"}
    /\ ~run.force => ~run.newDb /\ dir.exists /\ db.exists
    /\ run.pc \notin Early => run.files = db.file

(* Nodes are claimed once, and only of files whose entry is on disk.       *)
ClaimInv ==
  /\ run.pc = "parsing" => db.ast \subseteq run.entityCache
  /\ \A c \in run.pending : run.stage[c] = "idle"
  /\ \A c \in Commands :
       /\ run.stage[c] # "claimed" => run.claimed[c] = {}
       /\ run.claimed[c] \subseteq run.entityCache
       /\ run.claimed[c] \cap db.ast = {}
       /\ \A n \in run.claimed[c] : disk[n[1]] = n[2] /\ run.files[n[1]] \in {n[2], Blank}
       /\ \A d \in Commands \ {c} : run.claimed[c] \cap run.claimed[d] = {}

(* The cleanup leaves no entity of a file that is removed afterwards.      *)
Cleaned(f) == \A n \in db.ast : n[1] = f => db.ent[n] = 0

CleanInv ==
  /\ run.pc \in {"cleanup", "cleanFiles"} => run.todo \subseteq Marked
  /\ "unkeyed" \notin since /\ run.pc \in {"cleanup", "cleanMetrics", "cleanFiles"} /\ Marked # {}
       => Keyed(db)
  /\ "rolled back" \notin since =>
       /\ run.pc = "cleanup" /\ ~run.failed =>
            \A f \in Marked \ (run.level \cup run.todo) : Cleaned(f)
       /\ run.pc = "cleanMetrics" => \A f \in Marked : Cleaned(f)
       /\ run.pc = "cleanFiles" => \A f \in run.todo : Cleaned(f)

(* Metrics of files: one content at most, and none if the cache says so.   *)
LocOnce ==
  \A f \in Files : \A v, w \in Versions :
    db.loc[<<f, v>>] \in {0, 1} /\ (db.loc[<<f, v>>] = 1 /\ db.loc[<<f, w>>] = 1 => v = w)

CacheInv ==
  /\ run.pc \notin Early \cup Counted \cup {"exit"} =>
       \A f \in Files \ run.fileIdCache :
         (run.pc = "counting" => f \in run.todo) => \A v \in Versions : db.loc[<<f, v>>] = 0
  /\ run.pc \in {"mark", "decide", "order", "cleanup", "cleanMetrics", "cleanFiles"} =>
       \A f \in run.fileIdCache : \E v \in Versions : db.loc[<<f, v>>] = 1
  /\ run.pc = "counting" => run.todo \subseteq OnDisk

Counts(content) ==
  \A f \in Files : \A v \in Versions : db.loc[<<f, v>>] = IF content[f] = v THEN 1 ELSE 0

(* As long as nothing has gone wrong, the metrics are those of the rows,   *)
(* and in the end those of the disk.                                       *)
NoBlankOnDisk ==
  since = {} =>
    \A f \in OnDisk : db.file[f] # Blank /\ (run.pc \notin Early => run.files[f] # Blank)

OfRows ==
  since = {} =>
    /\ run.pc \in Early \cup {"mark", "decide", "order", "cleanup", "cleanMetrics"}
         \/ (run.pc = "exit" /\ run.dryRun) =>
         Counts(db.file)
    /\ run.pc = "cleanFiles" =>
         /\ Counts([f \in Files |-> IF f \in Marked THEN Absent ELSE db.file[f]])
         /\ run.fileIdCache \cap Marked = {}

OfDisk ==
  since = {} =>
    /\ run.pc \in {"parse", "parsing", "metrics"} =>
         Counts([f \in Files |-> IF f \in run.fileIdCache THEN disk[f] ELSE Absent])
    /\ run.pc = "counting" =>
         /\ Counts([f \in Files |->
              IF f \in run.fileIdCache \/ f \notin run.todo THEN disk[f] ELSE Absent])
         /\ \A f \in OnDisk \ run.todo : run.files[f] # Absent
    /\ run.pc \in Counted \/ Parsed => Counts(disk) /\ \A f \in OnDisk : run.files[f] # Absent

OutcomeInv == run.pc # "idle" => outcome = "none"

-----------------------------------------------------------------------------
LEMMA Markers ==
  /\ Absent \notin Versions /\ Blank \notin Versions /\ Absent # Blank
  /\ Versions \subseteq Nat
BY VersionsAssumption DEF Absent, Blank

LEMMA EmptyTablesType == EmptyTables \in DbType /\ NoDb \in DbType /\ NoRun \in RunType
BY DEF EmptyTables, NoDb, DbType, NoRun, RunType, Statuses, Stages

LEMMA PersistType ==
  ASSUME db \in DbType, NEW files \in [Files -> Versions \cup {Absent, Blank}]
  PROVE  PersistFiles(db, files) \in DbType
BY DEF PersistFiles, DbType

LEMMA UnitType ==
  ASSUME TypeOK, NEW f
  PROVE  Unit(f) \subseteq OnDisk /\ OnDisk \subseteq Files /\ UnitNodes(f) \subseteq Node
<1>1. Unit(f) \subseteq OnDisk /\ OnDisk \subseteq Files
  BY DEF Unit, OnDisk
<1>2. \A g \in OnDisk : <<g, disk[g]>> \in Node
  BY DEF OnDisk, TypeOK, Node
<1> QED BY <1>1, <1>2 DEF UnitNodes

LEMMA EntriesType ==
  ASSUME TypeOK, NEW files \in [Files -> Versions \cup {Absent, Blank}], NEW fs
  PROVE  WithEntries(files, fs) \in [Files -> Versions \cup {Absent, Blank}]
<1>1. \A f \in Files : Content(f) \in Versions \cup {Absent, Blank}
  BY DEF Content, TypeOK, OnDisk
<1> QED BY <1>1 DEF WithEntries

LEMMA DieType ==
  ASSUME TypeOK, Die, db' \in DbType
  PROVE  TypeOK'
<1>1. run' = NoRun /\ since' \subseteq Events
  BY DEF Die, TypeOK, Events
<1>2. NoRun \in RunType
  BY EmptyTablesType
<1>3. NoRun.pc = "idle" /\ NoRun.level = {} /\ NoRun.pending = {} /\ NoRun.entityCache = {}
      /\ \A c \in Commands : NoRun.stage[c] = "idle"
  BY DEF NoRun
<1> QED BY <1>1, <1>2, <1>3 DEF Die, TypeOK, project, Running

(* A step between two stages of a run, or inside one that has no jobs.     *)
LEMMA StepType ==
  ASSUME TypeOK, UNCHANGED <<disk, compdb, edits, runs, outcome>>,
         run.pc # "parsing", run'.pc # "idle",
         db' \in DbType, run' \in RunType, since' \subseteq Events,
         dir' \in [exists : BOOLEAN, info : BOOLEAN],
         run'.level # {} => run'.pc = "cleanup",
         run'.pending = run.pending, run'.stage = run.stage, run'.entityCache = run.entityCache
  PROVE  TypeOK'
<1>1. Running' = Running
  BY DEF Running
<1> QED BY <1>1 DEF TypeOK

LEMMA BeginType ==
  ASSUME TypeOK,
         \/ \E force, dryRun \in BOOLEAN : Start(force, dryRun)
         \/ PrepareProjectDir \/ ConnectDatabase \/ SetUpTables \/ DetectChanges
         \/ MarkModifiedFiles
  PROVE  TypeOK'
<1>1. ASSUME NEW force \in BOOLEAN, NEW dryRun \in BOOLEAN, Start(force, dryRun) PROVE TypeOK'
  <2>1. run' \in RunType /\ run'.pc = "prepare"
    BY <1>1, EmptyTablesType DEF Start, RunType
  <2>2. run'.level = {} /\ run'.pending = {} /\ run'.entityCache = {}
        /\ \A c \in Commands : run'.stage[c] = "idle"
    BY <1>1 DEF Start, NoRun
  <2>3. runs' \in 0..MaxRuns
    <3>1. runs \in 0..MaxRuns /\ runs < MaxRuns /\ runs' = runs + 1
      BY <1>1 DEF Start, TypeOK
    <3> QED BY <3>1, BoundsAssumption
  <2>4. outcome' = "none" /\ UNCHANGED <<disk, compdb, edits, db, dir, since>>
    BY <1>1 DEF Start, project
  <2>5. Running' = {}
    BY <2>2 DEF Running
  <2> QED BY <2>1, <2>2, <2>3, <2>4, <2>5 DEF TypeOK
<1>0. ASSUME run.pc \notin {"parsing", "cleanup"} PROVE run.level = {}
  BY <1>0 DEF TypeOK
<1>2. CASE PrepareProjectDir
  <2>1. run.pc = "prepare" /\ run' = [run EXCEPT !.pc = "connect"]
        /\ dir' = [exists |-> TRUE, info |-> dir.info /\ ~run.force]
        /\ UNCHANGED <<disk, compdb, edits, runs, outcome, since, db>>
    BY <1>2 DEF PrepareProjectDir, project, history
  <2>2. run' \in RunType /\ run'.pc = "connect" /\ run'.level = run.level
        /\ run'.pending = run.pending /\ run'.stage = run.stage
        /\ run'.entityCache = run.entityCache
    BY <2>1 DEF TypeOK, RunType
  <2>3. dir' \in [exists : BOOLEAN, info : BOOLEAN]
    BY <2>1 DEF TypeOK, RunType
  <2>4. db' \in DbType /\ since' \subseteq Events
    BY <2>1 DEF TypeOK
  <2> QED BY <1>0, <2>1, <2>2, <2>3, <2>4, StepType
<1>a. CASE ConnectDatabase
  <2>1. run.pc = "connect" /\ run' = [run EXCEPT !.pc = "tables"]
        /\ db' = [db EXCEPT !.exists = TRUE]
        /\ UNCHANGED <<disk, compdb, edits, runs, outcome, since, dir>>
    BY <1>a DEF ConnectDatabase, project, history
  <2>2. run' \in RunType /\ run'.pc = "tables" /\ run'.level = run.level
        /\ run'.pending = run.pending /\ run'.stage = run.stage
        /\ run'.entityCache = run.entityCache
    BY <2>1 DEF TypeOK, RunType
  <2>3. db' \in DbType
    BY <2>1 DEF TypeOK, DbType
  <2>4. dir' \in [exists : BOOLEAN, info : BOOLEAN] /\ since' \subseteq Events
    BY <2>1 DEF TypeOK
  <2> QED BY <1>0, <2>1, <2>2, <2>3, <2>4, StepType
<1>3. CASE SetUpTables
  <2>1. run.pc = "tables" /\ run' = [run EXCEPT !.pc = "detect"]
        /\ db' \in {db, EmptyTables} /\ since' \in {since, {"emptied"}, {}}
        /\ UNCHANGED <<disk, compdb, edits, runs, outcome, dir>>
    BY <1>3 DEF SetUpTables, project
  <2>2. run' \in RunType /\ run'.pc = "detect" /\ run'.level = run.level
        /\ run'.pending = run.pending /\ run'.stage = run.stage
        /\ run'.entityCache = run.entityCache
    BY <2>1 DEF TypeOK, RunType
  <2>3. db' \in DbType
    BY <2>1, EmptyTablesType DEF TypeOK
  <2>4. dir' \in [exists : BOOLEAN, info : BOOLEAN] /\ since' \subseteq Events
    BY <2>1 DEF TypeOK, Events
  <2> QED BY <1>0, <2>1, <2>2, <2>3, <2>4, StepType
<1>4. CASE DetectChanges
  <2> DEFINE status == [f \in Files |->
                 IF db.file[f] = Absent THEN "none"
                 ELSE IF f \notin OnDisk THEN "DELETED"
                 ELSE IF db.file[f] \notin {Blank, disk[f]} THEN "MODIFIED" ELSE "none"]
             cache == {f \in Files : \E n \in NodesOf(f) : db.loc[n] > 0}
  <2>1. status \in [Files -> Statuses]
    BY DEF Statuses
  <2>2. cache \in SUBSET Files /\ db.file \in [Files -> Versions \cup {Absent, Blank}]
    BY DEF TypeOK, DbType
  <2>3. run' = [run EXCEPT !.pc = "mark", !.files = db.file, !.status = status, !.fileIdCache = cache]
        /\ run.pc = "detect"
    BY <1>4 DEF DetectChanges
  <2> HIDE DEF status, cache
  <2>4. run' \in RunType /\ run'.pc = "mark" /\ run'.level = run.level /\ run'.pending = run.pending
        /\ run'.stage = run.stage /\ run'.entityCache = run.entityCache
    BY <2>1, <2>2, <2>3 DEF TypeOK, RunType
  <2>5. UNCHANGED <<disk, compdb, edits, runs, outcome, since, db, dir>>
    BY <1>4 DEF DetectChanges, project, history
  <2>6. db' \in DbType /\ dir' \in [exists : BOOLEAN, info : BOOLEAN] /\ since' \subseteq Events
    BY <2>5 DEF TypeOK
  <2> QED BY <1>0, <2>3, <2>4, <2>5, <2>6, StepType
<1>5. CASE MarkModifiedFiles
  <2> DEFINE status == [f \in Files |->
                 IF run.status[f] # "none" THEN run.status[f]
                 ELSE IF f \in IncludersOf(Marked) THEN "MODIFIED"
                 ELSE IF \E c \in db.src \ compdb : Source[c] = f THEN "ACTION_CHANGED"
                 ELSE "none"]
  <2>1. status \in [Files -> Statuses]
    BY DEF TypeOK, RunType, Statuses
  <2>2. run.pc = "mark" /\ run' = [run EXCEPT !.pc = "decide", !.status = status]
        /\ UNCHANGED <<disk, compdb, edits, runs, outcome, since, db, dir>>
    BY <1>5 DEF MarkModifiedFiles, TypeOK, RunType, project, history
  <2> HIDE DEF status
  <2>3. run' \in RunType /\ run'.pc = "decide" /\ run'.level = run.level
        /\ run'.pending = run.pending /\ run'.stage = run.stage
        /\ run'.entityCache = run.entityCache
    BY <2>1, <2>2 DEF TypeOK, RunType
  <2>4. db' \in DbType /\ dir' \in [exists : BOOLEAN, info : BOOLEAN] /\ since' \subseteq Events
    BY <2>2 DEF TypeOK
  <2> QED BY <1>0, <2>2, <2>3, <2>4, StepType
<1> QED BY <1>1, <1>2, <1>a, <1>3, <1>4, <1>5

LEMMA DecideType ==
  ASSUME TypeOK, ListOnly \/ ForceByThreshold \/ Proceed \/ CreateCleanupOrder \/ StartLevel
  PROVE  TypeOK'
<1>1. CASE ListOnly
  BY <1>1 DEF ListOnly, TypeOK, RunType, project, history, Running
<1>2. CASE ForceByThreshold
  <2>1. run' \in RunType /\ run'.pc = "parse" /\ run'.level = run.level /\ run'.pending = run.pending
        /\ run'.stage = run.stage /\ run'.entityCache = run.entityCache
    BY <1>2 DEF ForceByThreshold, TypeOK, RunType, Statuses
  <2>2. run.pc = "decide" /\ since' \subseteq Events
    BY <1>2 DEF ForceByThreshold, Events
  <2> QED BY <1>2, <2>1, <2>2, EmptyTablesType DEF ForceByThreshold, TypeOK, project, Running
<1>3. CASE Proceed
  BY <1>3 DEF Proceed, TypeOK, RunType, project, history, Running
<1>4. CASE CreateCleanupOrder
  BY <1>4 DEF CreateCleanupOrder, TypeOK, RunType, project, Running, Events, Marked
<1>5. CASE StartLevel
  BY <1>5 DEF StartLevel, TypeOK, RunType, project, history, Running, TopLevel
<1> QED BY <1>1, <1>2, <1>3, <1>4, <1>5

LEMMA CleanFileType ==
  ASSUME db \in DbType, NEW f
  PROVE  CleanFile(db, f) \in DbType
BY DEF CleanFile, DbType, Erase

LEMMA RemoveRowType ==
  ASSUME db \in DbType, NEW f \in Files
  PROVE  RemoveRow(db, f) \in DbType
BY DEF RemoveRow, DbType

LEMMA CleanupType ==
  ASSUME TypeOK, NEW f \in Files,
         CleanupJob(f) \/ CleanupJobDeadlock(f) \/ CleanupJobFails(f) \/ RemoveFile(f)
  PROVE  TypeOK'
<1>1. CASE CleanupJob(f)
  BY <1>1, CleanFileType DEF CleanupJob, TypeOK, RunType, project, history, Running
<1>2. CASE CleanupJobDeadlock(f)
  BY <1>2 DEF CleanupJobDeadlock, TypeOK, RunType, project, Running, Events
<1>3. CASE CleanupJobFails(f)
  BY <1>3 DEF CleanupJobFails, TypeOK, RunType, project, history, Running
<1>4. CASE RemoveFile(f)
  BY <1>4, RemoveRowType DEF RemoveFile, TypeOK, RunType, project, history, Running
<1> QED BY <1>1, <1>2, <1>3, <1>4

LEMMA CleanedType ==
  ASSUME TypeOK, CleanupSucceeded \/ CleanupMetrics \/ FilesRemoved
  PROVE  TypeOK'
<1>1. CASE CleanupSucceeded
  BY <1>1 DEF CleanupSucceeded, LevelsDone, TypeOK, RunType, project, history, Running
<1>2. CASE CleanupMetrics
  <2>1. db' \in DbType
    BY <1>2 DEF CleanupMetrics, TypeOK, DbType, Erase
  <2> QED BY <1>2, <2>1 DEF CleanupMetrics, TypeOK, RunType, project, history, Running, Marked
<1>3. CASE FilesRemoved
  BY <1>3 DEF FilesRemoved, TypeOK, RunType, project, history, Running
<1> QED BY <1>1, <1>2, <1>3

LEMMA ParseType ==
  ASSUME TypeOK, StartParse \/ ParseDone
  PROVE  TypeOK'
<1>1. CASE StartParse
  <2>1. compdb \subseteq Commands /\ db.ast \subseteq Node
    BY CompDbsAssumption DEF TypeOK, DbType
  <2> QED BY <1>1, <2>1 DEF StartParse, TypeOK, RunType, project, history, Running
<1>2. CASE ParseDone
  BY <1>2 DEF ParseDone, TypeOK, RunType, project, history, Running
<1> QED BY <1>1, <1>2

LEMMA JobType ==
  ASSUME TypeOK, NEW c \in Commands,
         StartJob(c) \/ Claim(c) \/ Store(c) \/ StoreInclusions(c) \/ RecordCommand(c)
  PROVE  TypeOK'
<1>0. run.pc = "parsing"
  BY DEF StartJob, Claim, Store, StoreInclusions, RecordCommand, TypeOK, Running
<1>1. CASE StartJob(c)
  <2>1. db' \in DbType
    BY <1>1 DEF StartJob, TypeOK, DbType
  <2> QED BY <1>1, <2>1 DEF StartJob, TypeOK, RunType, project, history, Stages
<1>2. CASE Claim(c)
  <2>1. UnitNodes(Source[c]) \subseteq Node
        /\ WithEntries(run.files, Unit(Source[c])) \in [Files -> Versions \cup {Absent, Blank}]
    BY UnitType, EntriesType DEF TypeOK, RunType
  <2> QED BY <1>0, <1>2, <2>1 DEF Claim, TypeOK, RunType, project, history, Stages
<1>3. CASE Store(c)
  <2>1. PersistFiles(db, run.files) \in DbType
    BY PersistType DEF TypeOK, RunType
  <2>2. run.claimed[c] \subseteq Node
    BY DEF TypeOK, RunType
  <2> DEFINE ent == [n \in Node |-> db.ent[n] + (IF n \in run.claimed[c] THEN 1 ELSE 0)]
  <2>3. db' \in DbType
    <3>1. PersistFiles(db, run.files).ast = db.ast /\ PersistFiles(db, run.files).ent = db.ent
      BY DEF PersistFiles, TypeOK, DbType
    <3>2. ent \in [Node -> Nat] /\ db.ast \cup run.claimed[c] \in SUBSET Node
      BY <2>2 DEF TypeOK, DbType
    <3>3. db' = [PersistFiles(db, run.files) EXCEPT !.ast = db.ast \cup run.claimed[c], !.ent = ent]
      BY <1>3, <2>1, <3>1 DEF Store, DbType
    <3> HIDE DEF ent
    <3> QED BY <2>1, <3>2, <3>3 DEF DbType
  <2> QED BY <1>0, <1>3, <2>3 DEF Store, TypeOK, RunType, project, history, Stages
<1>4. CASE StoreInclusions(c)
  <2>1. PersistFiles(db, run.files) \in DbType
    BY PersistType DEF TypeOK, RunType
  <2>2. UnitInclusions(Source[c]) \subseteq Files \X Files
    BY UnitType DEF UnitInclusions
  <2>3. db' \in DbType
    BY <1>4, <2>1, <2>2 DEF StoreInclusions, DbType
  <2> QED BY <1>0, <1>4, <2>3 DEF StoreInclusions, TypeOK, RunType, project, history, Stages
<1>5. CASE RecordCommand(c)
  <2> DEFINE files == WithEntries(run.files, {Source[c]})
  <2>1. files \in [Files -> Versions \cup {Absent, Blank}]
    BY EntriesType DEF TypeOK, RunType
  <2>2. PersistFiles(db, files) \in DbType
    BY <2>1, PersistType DEF TypeOK
  <2>3. db' = [PersistFiles(db, files) EXCEPT !.src = @ \cup {c}]
        /\ run' = [run EXCEPT !.stage[c] = "idle", !.files = files]
    BY <1>5 DEF RecordCommand
  <2> HIDE DEF files
  <2>4. db' \in DbType
    BY <2>2, <2>3 DEF DbType
  <2>5. run' \in RunType /\ run'.pc = run.pc /\ run'.level = run.level
    BY <2>1, <2>3 DEF TypeOK, RunType, Stages
  <2> QED BY <1>0, <1>5, <2>4, <2>5 DEF RecordCommand, TypeOK, project, history
<1> QED BY <1>1, <1>2, <1>3, <1>4, <1>5

LEMMA OneMore ==
  ASSUME NEW loc \in [Node -> Nat], NEW n
  PROVE  [loc EXCEPT ![n] = @ + 1] \in [Node -> Nat]
<1>1. CASE n \in Node
  BY <1>1
<1>2. CASE n \notin Node
  <2> DEFINE more == [loc EXCEPT ![n] = @ + 1]
  <2>1. DOMAIN more = Node /\ more = [m \in DOMAIN more |-> more[m]]
    OBVIOUS
  <2>2. \A m \in Node : more[m] = loc[m]
    BY <1>2
  <2> QED BY <2>1, <2>2
<1> QED BY <1>1, <1>2

LEMMA LastType ==
  ASSUME TypeOK,
         StartMetrics \/ (\E f \in Files : MetricsJob(f)) \/ MetricsDone
         \/ CreateIndexes \/ ParseCppMetrics \/ WriteProjectInfo
  PROVE  TypeOK'
<1>1. CASE StartMetrics
  BY <1>1 DEF StartMetrics, TypeOK, RunType, project, history, Running, OnDisk
<1>2. ASSUME NEW f \in Files, MetricsJob(f) PROVE TypeOK'
  <2> DEFINE files == WithEntries(run.files, {f})
  <2>1. files \in [Files -> Versions \cup {Absent, Blank}]
    BY EntriesType DEF TypeOK, RunType
  <2>2. run' = [run EXCEPT !.todo = @ \ {f}, !.files = files]
        /\ db' = IF f \in run.fileIdCache \/ files[f] = Blank THEN db
                 ELSE [db EXCEPT !.loc[<<f, files[f]>>] = @ + 1]
    BY <1>2 DEF MetricsJob
  <2> HIDE DEF files
  <2>3. db' \in DbType
    <3> DEFINE loc == [db.loc EXCEPT ![<<f, files[f]>>] = @ + 1]
    <3>1. db.loc \in [Node -> Nat]
      BY DEF TypeOK, DbType
    <3>2. loc \in [Node -> Nat]
      BY <3>1, OneMore
    <3>3. db' = db \/ db' = [db EXCEPT !.loc = loc]
      BY <2>2
    <3> HIDE DEF loc
    <3> QED BY <3>2, <3>3 DEF TypeOK, DbType
  <2>4. run' \in RunType /\ run'.pc = run.pc /\ run'.level = run.level /\ run'.pending = run.pending
        /\ run'.stage = run.stage /\ run'.entityCache = run.entityCache
    BY <2>1, <2>2 DEF TypeOK, RunType
  <2>5. run.pc = "counting" /\ UNCHANGED <<disk, compdb, edits, runs, outcome, since, dir>>
    BY <1>2 DEF MetricsJob, project, history
  <2>6. run.level = {} /\ dir' \in [exists : BOOLEAN, info : BOOLEAN] /\ since' \subseteq Events
    BY <2>5 DEF TypeOK
  <2> QED BY <2>3, <2>4, <2>5, <2>6, StepType
<1>3. CASE MetricsDone
  BY <1>3 DEF MetricsDone, TypeOK, RunType, project, history, Running
<1>4. CASE CreateIndexes
  <2>1. db' \in DbType
    BY <1>4 DEF CreateIndexes, TypeOK, DbType, RunType
  <2> QED BY <1>4, <2>1 DEF CreateIndexes, TypeOK, RunType, project, history, Running
<1>5. CASE ParseCppMetrics
  <2>1. db' \in DbType
    BY <1>5 DEF ParseCppMetrics, TypeOK, DbType
  <2> QED BY <1>5, <2>1 DEF ParseCppMetrics, TypeOK, RunType, project, history, Running
<1>6. CASE WriteProjectInfo
  BY <1>6 DEF WriteProjectInfo, TypeOK, RunType, project, history, Running
<1> QED BY <1>1, <1>2, <1>3, <1>4, <1>5, <1>6

(* The ways a run is over.                                                 *)
LEMMA EndType ==
  ASSUME TypeOK,
         \/ DetectThrows \/ MarkThrows \/ CreateCleanupOrderThrows \/ CleanupFailed
         \/ RemoveFileThrows
         \/ (\E f \in Files : CleanupJobThrows(f)) \/ Crash \/ Exit
  PROVE  TypeOK'
<1>1. PersistFiles(db, run.files) \in DbType
  BY PersistType DEF TypeOK, RunType
<1>2. CASE Exit
  <2>1. NoRun \in RunType /\ NoRun.pc = "idle" /\ NoRun.level = {} /\ NoRun.pending = {}
        /\ NoRun.entityCache = {} /\ \A c \in Commands : NoRun.stage[c] = "idle"
    BY EmptyTablesType DEF NoRun
  <2> QED BY <1>1, <1>2, <2>1 DEF Exit, TypeOK, project, Running
<1>3. CASE Die /\ (UNCHANGED db \/ db' = PersistFiles(db, run.files))
  BY <1>1, <1>3, DieType DEF TypeOK
<1> QED BY <1>2, <1>3
   DEF DetectThrows, MarkThrows, CreateCleanupOrderThrows, CleanupFailed, RemoveFileThrows,
       CleanupJobThrows, Crash

LEMMA EditType ==
  ASSUME TypeOK, Editing
  PROVE  TypeOK'
<1> DEFINE Typed == disk' \in [Files -> Versions \cup {Absent}] /\ compdb' \in CompDbs
                    /\ since' \subseteq Events
<1>1. Typed
  <2>1. ASSUME NEW f \in Files, Delete(f) PROVE Typed
    BY <2>1 DEF Delete, TypeOK
  <2>2. ASSUME NEW f \in Files, NEW v \in Versions, Modify(f, v) PROVE Typed
    BY <2>2 DEF Modify, TypeOK
  <2>3. ASSUME NEW f \in Files, NEW v \in Versions, Add(f, v) PROVE Typed
    <3>1. disk' = [disk EXCEPT ![f] = v] /\ compdb' = compdb
          /\ (since' = since \/ since' = since \cup {"added"})
      BY <2>3 DEF Add
    <3> QED BY <3>1 DEF TypeOK, Events
  <2>4. ASSUME NEW cs \in CompDbs, Reconfigure(cs) PROVE Typed
    BY <2>4 DEF Reconfigure, TypeOK
  <2> HIDE DEF Typed
  <2> QED BY <2>1, <2>2, <2>3, <2>4 DEF Editing
<1>2. Edit
  BY DEF Editing, Delete, Modify, Add, Reconfigure
<1>3. edits' \in 0..MaxEdits
  BY <1>2, BoundsAssumption DEF Edit, TypeOK
<1> QED BY <1>1, <1>2, <1>3 DEF Edit, TypeOK, Running

LEMMA NextType ==
  ASSUME TypeOK, Next
  PROVE  TypeOK'
BY BeginType, DecideType, CleanupType, CleanedType, ParseType, JobType, LastType, EndType, EditType
   DEF Next, Cleaning, Parsing

LEMMA InitType == Init => TypeOK
<1> SUFFICES ASSUME Init PROVE TypeOK
  OBVIOUS
<1>1. disk \in [Files -> Versions \cup {Absent}] /\ compdb \in CompDbs
  BY InitialAssumption DEF Init
<1>2. NoRun.pc = "idle" /\ NoRun.level = {} /\ NoRun.pending = {} /\ NoRun.entityCache = {}
      /\ \A c \in Commands : NoRun.stage[c] = "idle"
  BY DEF NoRun
<1>3. runs \in 0..MaxRuns /\ edits \in 0..MaxEdits
  BY BoundsAssumption DEF Init
<1> QED BY <1>1, <1>2, <1>3, EmptyTablesType DEF Init, TypeOK, Running

LEMMA StutterType ==
  ASSUME TypeOK, UNCHANGED vars
  PROVE  TypeOK'
BY DEF TypeOK, vars, Running

(* The program's tables and memory keep their types, and what belongs to   *)
(* one stage of a run (cleanup jobs, parse jobs, the entity cache) is gone *)
(* when the stage is over.                                                 *)
THEOREM TypeCorrect == Spec => []TypeOK
BY InitType, NextType, StutterType, PTL DEF Spec

-----------------------------------------------------------------------------
(* What a dry run does.                                                    *)
LEMMA DryStages ==
  ASSUME TypeOK, DryInv, Next, run.pc # "idle", run.dryRun
  PROVE  \/ PrepareProjectDir \/ ConnectDatabase \/ SetUpTables \/ DetectChanges
         \/ MarkModifiedFiles
         \/ ListOnly \/ Exit
         \/ Die /\ UNCHANGED db
<1>1. run.pc \in {"prepare", "connect", "tables", "detect", "mark", "decide", "exit"}
  BY DEF DryInv
<1>2. run.pending = {} /\ Running = {} /\ run.level = {}
  BY <1>1 DEF TypeOK
<1>3. \A c \in Commands : run.stage[c] = "idle"
  BY <1>2 DEF Running
<1>4. ~Editing /\ ~\E force, dryRun \in BOOLEAN : Start(force, dryRun)
  BY DEF Editing, Delete, Modify, Add, Reconfigure, Edit, Start
<1>5. ~Parsing
  BY <1>1, <1>3 DEF Parsing, StartParse, ParseDone, StartJob, Claim, Store, StoreInclusions,
                    RecordCommand
<1>6. ~Cleaning
  BY <1>1 DEF Cleaning, CreateCleanupOrder, CreateCleanupOrderThrows, StartLevel, CleanupJob,
              CleanupJobThrows, CleanupJobDeadlock, CleanupJobFails, CleanupFailed, LevelsDone,
              CleanupSucceeded, CleanupMetrics, RemoveFile, RemoveFileThrows, FilesRemoved
<1>7. ~ForceByThreshold /\ ~Proceed
  BY DEF ForceByThreshold, Proceed
<1>8. /\ ~StartMetrics /\ ~MetricsDone /\ ~CreateIndexes /\ ~ParseCppMetrics /\ ~WriteProjectInfo
      /\ \A f \in Files : ~MetricsJob(f)
  BY <1>1 DEF StartMetrics, MetricsDone, CreateIndexes, ParseCppMetrics, WriteProjectInfo, MetricsJob
<1>9. DetectThrows \/ MarkThrows => Die /\ UNCHANGED db
  BY DEF DetectThrows, MarkThrows
<1>10. Crash => Die /\ UNCHANGED db
  BY <1>1 DEF Crash
<1> QED BY <1>4, <1>5, <1>6, <1>7, <1>8, <1>9, <1>10 DEF Next

LEMMA PersistNothing ==
  ASSUME db \in DbType
  PROVE  PersistFiles(db, db.file) = db
<1>1. [f \in Files |-> IF db.file[f] = Absent THEN db.file[f] ELSE db.file[f]] = db.file
  BY DEF DbType
<1>2. [db EXCEPT !.file = db.file] = db
  BY DEF DbType
<1> QED BY <1>1, <1>2 DEF PersistFiles

LEMMA DryStep ==
  ASSUME TypeOK, DryInv, Next
  PROVE  DryInv'
<1> SUFFICES ASSUME run'.pc # "idle", run'.dryRun PROVE DryInv'
  BY DEF DryInv
<1>1. CASE \E force, dryRun \in BOOLEAN : Start(force, dryRun)
  <2>1. PICK force \in BOOLEAN, dryRun \in BOOLEAN : Start(force, dryRun)
    BY <1>1
  <2>2. run'.pc = "prepare" /\ run'.dryRun = dryRun /\ run'.force = force /\ run'.newDb = ~db.exists
    BY <2>1 DEF Start, NoRun
  <2>3. dir \in [exists : BOOLEAN, info : BOOLEAN] /\ db.exists \in BOOLEAN
    BY DEF TypeOK, DbType
  <2> QED BY <2>1, <2>2, <2>3 DEF DryInv, Start, Early
<1>2. CASE Editing
  <2>1. UNCHANGED <<db, dir, run>>
    BY <1>2 DEF Editing, Delete, Modify, Add, Reconfigure, Edit
  <2> QED BY <2>1 DEF DryInv
<1>3. CASE run.pc # "idle" /\ run.dryRun
  <2>1. NoRun.pc = "idle"
    BY DEF NoRun
  <2>2. CASE PrepareProjectDir
    BY <1>3, <2>2 DEF PrepareProjectDir, DryInv, TypeOK, RunType, Early
  <2>a. CASE ConnectDatabase
    BY <1>3, <2>a DEF ConnectDatabase, DryInv, TypeOK, RunType, DbType, Early
  <2>3. CASE SetUpTables
    BY <1>3, <2>3 DEF SetUpTables, EmptyTables, NoDb, DryInv, TypeOK, RunType, Early
  <2>4. CASE DetectChanges
    BY <1>3, <2>4 DEF DetectChanges, DryInv, TypeOK, RunType, Early, project
  <2>5. CASE MarkModifiedFiles
    BY <1>3, <2>5 DEF MarkModifiedFiles, DryInv, TypeOK, RunType, Early
  <2>6. CASE ListOnly
    BY <1>3, <2>6 DEF ListOnly, DryInv, TypeOK, RunType, Early
  <2> QED BY <1>3, <2>1, <2>2, <2>a, <2>3, <2>4, <2>5, <2>6, DryStages DEF Exit, Die
<1>4. CASE ~(run.pc # "idle" /\ run.dryRun) /\ ~Editing
           /\ ~(\E force, dryRun \in BOOLEAN : Start(force, dryRun))
  <2>1. run.pc # "idle"
    <3> SUFFICES ASSUME run.pc = "idle" PROVE FALSE
      OBVIOUS
    <3>1. run = NoRun
      BY DEF TypeOK
    <3>2. run.level = {} /\ run.pending = {} /\ \A c \in Commands : run.stage[c] = "idle"
      BY <3>1 DEF NoRun
    <3> QED
      BY <1>4, <3>2 DEF Next, PrepareProjectDir, ConnectDatabase, SetUpTables, DetectChanges,
         MarkModifiedFiles, DetectThrows, MarkThrows, ListOnly, ForceByThreshold, Proceed,
         Cleaning, CreateCleanupOrder, CreateCleanupOrderThrows, StartLevel, CleanupJob, CleanupJobThrows, CleanupJobDeadlock,
         CleanupJobFails, CleanupFailed, LevelsDone, CleanupSucceeded, CleanupMetrics, RemoveFile,
         RemoveFileThrows, FilesRemoved, Parsing, StartParse, ParseDone, StartJob, Claim, Store,
         StoreInclusions, RecordCommand, StartMetrics, MetricsJob, MetricsDone, CreateIndexes,
         ParseCppMetrics, WriteProjectInfo, Exit, Crash
  <2>2. run' = NoRun \/ run'.dryRun = run.dryRun
    <3>1. CASE Cleaning
      <4>1. ASSUME NEW f \in Files,
                   \/ CleanupJob(f) \/ CleanupJobThrows(f) \/ CleanupJobDeadlock(f)
                   \/ CleanupJobFails(f) \/ RemoveFile(f)
            PROVE  run' = NoRun \/ run'.dryRun = run.dryRun
        BY <4>1 DEF TypeOK, RunType, CleanupJob, CleanupJobThrows, CleanupJobDeadlock,
           CleanupJobFails, RemoveFile, Die
      <4>2. ASSUME \/ CreateCleanupOrder \/ CreateCleanupOrderThrows \/ StartLevel \/ CleanupFailed
                   \/ CleanupSucceeded \/ CleanupMetrics \/ RemoveFileThrows \/ FilesRemoved
            PROVE  run' = NoRun \/ run'.dryRun = run.dryRun
        BY <4>2 DEF TypeOK, RunType, CreateCleanupOrder, CreateCleanupOrderThrows, StartLevel,
           CleanupFailed, CleanupSucceeded, CleanupMetrics, RemoveFileThrows, FilesRemoved, Die
      <4> QED BY <3>1, <4>1, <4>2 DEF Cleaning
    <3>2. CASE Parsing
      <4>1. ASSUME NEW c \in Commands,
                   StartJob(c) \/ Claim(c) \/ Store(c) \/ StoreInclusions(c) \/ RecordCommand(c)
            PROVE  run'.dryRun = run.dryRun
        <5>1. StartJob(c) => run'.dryRun = run.dryRun
          BY DEF TypeOK, RunType, StartJob
        <5>2. Claim(c) => run'.dryRun = run.dryRun
          BY DEF TypeOK, RunType, Claim
        <5>3. Store(c) => run'.dryRun = run.dryRun
          BY DEF TypeOK, RunType, Store
        <5>4. StoreInclusions(c) => run'.dryRun = run.dryRun
          BY DEF TypeOK, RunType, StoreInclusions
        <5>5. RecordCommand(c) => run'.dryRun = run.dryRun
          BY DEF TypeOK, RunType, RecordCommand
        <5> QED BY <4>1, <5>1, <5>2, <5>3, <5>4, <5>5
      <4>2. StartParse \/ ParseDone => run'.dryRun = run.dryRun
        BY DEF TypeOK, RunType, StartParse, ParseDone
      <4> QED BY <3>2, <4>1, <4>2 DEF Parsing
    <3>3. CASE PrepareProjectDir \/ ConnectDatabase \/ SetUpTables \/ DetectChanges
               \/ MarkModifiedFiles \/ DetectThrows \/ MarkThrows \/ ListOnly \/ ForceByThreshold \/ Proceed
      <4>1. CASE PrepareProjectDir \/ ConnectDatabase \/ SetUpTables
        BY <4>1 DEF TypeOK, RunType, PrepareProjectDir, ConnectDatabase, SetUpTables
      <4>2. CASE DetectChanges
        BY <4>2 DEF TypeOK, RunType, DetectChanges
      <4>3. CASE MarkModifiedFiles
        BY <4>3 DEF TypeOK, RunType, MarkModifiedFiles
      <4>4. CASE DetectThrows \/ MarkThrows
        BY <4>4 DEF DetectThrows, MarkThrows, Die
      <4>5. CASE ListOnly \/ Proceed
        BY <4>5 DEF TypeOK, RunType, ListOnly, Proceed
      <4>6. CASE ForceByThreshold
        BY <4>6 DEF TypeOK, RunType, ForceByThreshold
      <4> QED BY <3>3, <4>1, <4>2, <4>3, <4>4, <4>5, <4>6
    <3>4. CASE StartMetrics \/ (\E f \in Files : MetricsJob(f)) \/ MetricsDone \/ CreateIndexes
               \/ ParseCppMetrics \/ WriteProjectInfo \/ Exit \/ Crash
      BY <3>4 DEF TypeOK, RunType, StartMetrics, MetricsJob, MetricsDone, CreateIndexes,
         ParseCppMetrics, WriteProjectInfo, Exit, Crash, Die
    <3> QED BY <1>4, <3>1, <3>2, <3>3, <3>4 DEF Next
  <2>3. NoRun.dryRun = FALSE
    BY DEF NoRun
  <2> QED BY <1>4, <2>1, <2>2, <2>3
<1> QED BY <1>1, <1>2, <1>3, <1>4

LEMMA DryInvariance == Spec => [](TypeOK /\ DryInv)
<1>1. Init => TypeOK /\ DryInv
  BY InitType DEF Init, DryInv, NoRun
<1>2. TypeOK /\ DryInv /\ [Next]_vars => (TypeOK /\ DryInv)'
  <2>1. ASSUME TypeOK, DryInv, UNCHANGED vars PROVE (TypeOK /\ DryInv)'
    BY <2>1, StutterType DEF DryInv, vars
  <2> QED BY <2>1, NextType, DryStep
<1> QED BY <1>1, <1>2, PTL DEF Spec

(* --dry-run lists what an incremental parse would do, and changes neither *)
(* a table nor the project directory, whatever it finds and also when it   *)
(* ends early: SourceManager has nothing to persist at its exit.           *)
THEOREM DryRunChangesNothing == Spec => DryRunReadOnly
<1>1. ASSUME TypeOK, DryInv, Next, run.pc # "idle", run.dryRun, ~run.force
      PROVE  UNCHANGED <<db, dir>>
  <2>1. ~run.newDb /\ dir.exists
    BY <1>1 DEF DryInv
  <2>2. CASE PrepareProjectDir
    <3>1. dir = [exists |-> TRUE, info |-> dir.info] /\ dir.info \in BOOLEAN
      BY <1>1, <2>1 DEF TypeOK
    <3> QED BY <1>1, <2>2, <3>1 DEF PrepareProjectDir
  <2>3. CASE Exit
    <3>1. run.files = db.file
      BY <1>1, <2>3 DEF DryInv, Exit, Early
    <3> QED BY <1>1, <2>3, <3>1, PersistNothing DEF Exit, TypeOK
  <2>4. CASE Die /\ UNCHANGED db
    BY <2>4 DEF Die
  <2>a. CASE ConnectDatabase
    <3>1. db = [db EXCEPT !.exists = TRUE]
      BY <1>1 DEF DryInv, TypeOK, DbType
    <3> QED BY <2>a, <3>1 DEF ConnectDatabase
  <2>5. CASE SetUpTables \/ DetectChanges \/ MarkModifiedFiles \/ ListOnly
    BY <1>1, <2>1, <2>5 DEF SetUpTables, DetectChanges, MarkModifiedFiles, ListOnly
  <2> QED BY <1>1, <2>2, <2>a, <2>3, <2>4, <2>5, DryStages
<1>2. TypeOK /\ DryInv /\ [Next]_vars
        => [run.pc # "idle" /\ run.dryRun /\ ~run.force => UNCHANGED <<db, dir>>]_vars
  BY <1>1 DEF vars
<1> QED BY <1>2, DryInvariance, PTL DEF Spec, DryRunReadOnly

-----------------------------------------------------------------------------
(* What the parser remembers of the files.                                 *)
LEMMA Entries ==
  ASSUME TypeOK, NEW files \in [Files -> Versions \cup {Absent, Blank}], NEW fs, NEW f \in Files
  PROVE  /\ files[f] # Absent => WithEntries(files, fs)[f] = files[f]
         /\ WithEntries(files, fs)[f] \in {files[f], Blank, disk[f]}
         /\ f \in fs /\ f \in OnDisk /\ files[f] = Absent => WithEntries(files, fs)[f] = disk[f]
BY DEF WithEntries, Content

LEMMA Persisted ==
  ASSUME db \in DbType, NEW files \in [Files -> Versions \cup {Absent, Blank}], NEW f \in Files
  PROVE  PersistFiles(db, files).file[f] = IF db.file[f] = Absent THEN files[f] ELSE db.file[f]
BY DEF PersistFiles, DbType

LEMMA FilesBegin ==
  ASSUME TypeOK, FilesInv,
         \/ Editing \/ (\E force, dryRun \in BOOLEAN : Start(force, dryRun)) \/ PrepareProjectDir
         \/ ConnectDatabase \/ SetUpTables \/ DetectChanges \/ MarkModifiedFiles \/ ListOnly
         \/ ForceByThreshold \/ Proceed
  PROVE  FilesInv'
<1>1. CASE Editing
  BY <1>1 DEF Editing, Delete, Modify, Add, Reconfigure, Edit, FilesInv, Early, Late, Parsed, Marked
<1>2. ASSUME NEW force \in BOOLEAN, NEW dryRun \in BOOLEAN, Start(force, dryRun) PROVE FilesInv'
  <2>1. run'.pc = "prepare"
    BY <1>2 DEF Start, NoRun
  <2> QED BY <2>1 DEF FilesInv, Early, Late, Parsed
<1>3. CASE PrepareProjectDir \/ ConnectDatabase
  <2>1. run'.pc \in {"connect", "tables"}
    BY <1>3 DEF PrepareProjectDir, ConnectDatabase, TypeOK, RunType
  <2> QED BY <2>1 DEF FilesInv, Early, Late, Parsed
<1>4. CASE SetUpTables
  <2>1. run'.pc = "detect" /\ run'.force = run.force
    BY <1>4 DEF SetUpTables, TypeOK, RunType
  <2>2. run.force => \A f \in Files : db'.file[f] = Absent
    BY <1>4 DEF SetUpTables, EmptyTables, NoDb
  <2> QED BY <2>1, <2>2 DEF FilesInv, Early, Late, Parsed
<1>5. CASE DetectChanges
  <2>1. /\ run'.pc = "mark" /\ run'.force = run.force /\ run'.files = db.file /\ db' = db /\ disk' = disk
        /\ \A f \in Files : run'.status[f] =
             IF db.file[f] = Absent THEN "none"
             ELSE IF f \notin OnDisk THEN "DELETED"
             ELSE IF db.file[f] \notin {Blank, disk[f]} THEN "MODIFIED" ELSE "none"
    BY <1>5 DEF DetectChanges, TypeOK, RunType, project
  <2>2. \A f \in Files \ Marked' : db.file[f] \in {Absent, Blank, disk[f]}
    BY <2>1 DEF Marked
  <2>3. run.force => \A f \in Files : db.file[f] = Absent
    BY <1>5 DEF DetectChanges, FilesInv
  <2> QED BY <2>1, <2>2, <2>3 DEF FilesInv, Early, Late, Parsed
<1>6. CASE MarkModifiedFiles
  <2>1. /\ run.pc = "mark" /\ run'.pc = "decide" /\ run'.force = run.force /\ run'.files = run.files
        /\ db' = db /\ disk' = disk
        /\ \A f \in Files : run.status[f] # "none" => run'.status[f] # "none"
    BY <1>6 DEF MarkModifiedFiles, TypeOK, RunType, project
  <2> QED BY <2>1 DEF FilesInv, Early, Late, Parsed, Marked
<1>7. CASE ListOnly
  <2>1. /\ run.pc = "decide" /\ run'.pc = "exit" /\ run'.dryRun /\ run'.files = run.files
        /\ run'.status = run.status /\ db' = db /\ disk' = disk
    BY <1>7 DEF ListOnly, TypeOK, RunType, project
  <2> QED BY <2>1 DEF FilesInv, Early, Late, Parsed, Marked
<1>8. CASE ForceByThreshold
  <2>1. run'.pc = "parse" /\ \A f \in Files : run'.files[f] = Absent
    BY <1>8 DEF ForceByThreshold, TypeOK, RunType
  <2>2. \A f \in Files : db'.file[f] = Absent
    BY <1>8 DEF ForceByThreshold, EmptyTables, NoDb
  <2> QED BY <2>1, <2>2 DEF FilesInv, Early, Late, Parsed
<1>9. CASE Proceed
  <2>1. /\ run.pc = "decide" /\ run'.pc = (IF run.force THEN "parse" ELSE "order")
        /\ run'.files = run.files /\ run'.status = run.status /\ db' = db /\ disk' = disk
    BY <1>9 DEF Proceed, TypeOK, RunType, project
  <2> QED BY <2>1 DEF FilesInv, Early, Late, Parsed, Marked
<1> QED BY <1>1, <1>2, <1>3, <1>4, <1>5, <1>6, <1>7, <1>8, <1>9

LEMMA FilesClean ==
  ASSUME TypeOK, FilesInv,
         \/ CreateCleanupOrder \/ StartLevel \/ CleanupSucceeded \/ CleanupMetrics \/ FilesRemoved
         \/ \E f \in Files :
              CleanupJob(f) \/ CleanupJobDeadlock(f) \/ CleanupJobFails(f) \/ RemoveFile(f)
  PROVE  FilesInv'
<1>1. CASE CreateCleanupOrder \/ StartLevel \/ CleanupSucceeded
  <2>1. /\ run.pc \in {"order", "cleanup"} /\ run'.pc \in {"cleanup", "cleanMetrics"}
        /\ run'.files = run.files /\ run'.status = run.status /\ db' = db /\ disk' = disk
    BY <1>1 DEF CreateCleanupOrder, StartLevel, CleanupSucceeded, LevelsDone, TypeOK, RunType, project
  <2> QED BY <2>1 DEF FilesInv, Early, Late, Parsed, Marked
<1>2. ASSUME NEW f \in Files, CleanupJob(f) \/ CleanupJobDeadlock(f) \/ CleanupJobFails(f)
      PROVE  FilesInv'
  <2>1. /\ run.pc = "cleanup" /\ run'.pc = "cleanup"
        /\ run'.files = run.files /\ run'.status = run.status /\ disk' = disk
    BY <1>2 DEF CleanupJob, CleanupJobDeadlock, CleanupJobFails, TypeOK, RunType, project
  <2>2. db'.file = db.file
    BY <1>2 DEF CleanupJob, CleanupJobDeadlock, CleanupJobFails, CleanFile, TypeOK, DbType
  <2> QED BY <2>1, <2>2 DEF FilesInv, Early, Late, Parsed, Marked
<1>3. CASE CleanupMetrics
  <2>1. /\ run.pc = "cleanMetrics" /\ run'.pc = "cleanFiles" /\ run'.todo = Marked
        /\ run'.files = run.files /\ run'.status = run.status /\ disk' = disk
    BY <1>3 DEF CleanupMetrics, TypeOK, RunType, project
  <2>2. db'.file = db.file
    BY <1>3 DEF CleanupMetrics, TypeOK, DbType
  <2> QED BY <2>1, <2>2 DEF FilesInv, Early, Late, Parsed, Marked
<1>4. ASSUME NEW f \in Files, RemoveFile(f) PROVE FilesInv'
  <2>1. /\ run.pc = "cleanFiles" /\ run'.pc = "cleanFiles" /\ run'.todo = run.todo \ {f}
        /\ run'.files = [run.files EXCEPT ![f] = Absent] /\ run'.status = run.status /\ disk' = disk
    BY <1>4 DEF RemoveFile, TypeOK, RunType, project
  <2>2. db'.file = [db.file EXCEPT ![f] = Absent]
    BY <1>4 DEF RemoveFile, RemoveRow, TypeOK, DbType
  <2>3. db.file \in [Files -> Versions \cup {Absent, Blank}]
        /\ run.files \in [Files -> Versions \cup {Absent, Blank}]
    BY DEF TypeOK, DbType, RunType
  <2> QED BY <2>1, <2>2, <2>3 DEF FilesInv, Early, Late, Parsed, Marked
<1>5. CASE FilesRemoved
  <2>1. /\ run.pc = "cleanFiles" /\ run'.pc = "parse" /\ run.todo = {}
        /\ run'.files = run.files /\ run'.status = run.status /\ db' = db /\ disk' = disk
    BY <1>5 DEF FilesRemoved, TypeOK, RunType, project
  <2> QED BY <2>1 DEF FilesInv, Early, Late, Parsed, Marked
<1> QED BY <1>1, <1>2, <1>3, <1>4, <1>5

(* From the parse on the entries only grow, to what is on disk, and what   *)
(* is persisted are the entries.                                           *)
LEMMA FilesGrow ==
  ASSUME TypeOK, FilesInv, run.pc \in Late,
         run'.pc \in Late \/ (run'.pc = "exit" /\ ~run'.dryRun),
         disk' = disk, run'.status = run.status,
         \A f \in Files : \/ run'.files[f] = run.files[f]
                          \/ run.files[f] = Absent /\ run'.files[f] \in {Blank, disk[f]},
         \A f \in Files : db'.file[f] \in {db.file[f], run'.files[f]}
  PROVE  FilesInv'
BY DEF FilesInv, Early, Late, Parsed, Marked

LEMMA FilesParse ==
  ASSUME TypeOK, DryInv, FilesInv, Parsing
  PROVE  FilesInv'
<1>1. CASE StartParse \/ ParseDone
  BY <1>1, FilesGrow DEF StartParse, ParseDone, TypeOK, RunType, project, Late
<1>2. ASSUME NEW c \in Commands, run.pc = "parsing",
             StartJob(c) \/ Claim(c) \/ Store(c) \/ StoreInclusions(c) \/ RecordCommand(c)
      PROVE  FilesInv'
  <2> DEFINE claimed == WithEntries(run.files, Unit(Source[c]))
             recorded == WithEntries(run.files, {Source[c]})
  <2>0. run.files \in [Files -> Versions \cup {Absent, Blank}]
        /\ claimed \in [Files -> Versions \cup {Absent, Blank}]
        /\ recorded \in [Files -> Versions \cup {Absent, Blank}]
    BY EntriesType DEF TypeOK, RunType
  <2>1. run'.pc = "parsing" /\ disk' = disk /\ run'.status = run.status
    BY <1>2 DEF StartJob, Claim, Store, StoreInclusions, RecordCommand, TypeOK, RunType, project
  <2>2. run'.files \in {run.files, claimed, recorded}
    BY <1>2 DEF StartJob, Claim, Store, StoreInclusions, RecordCommand, TypeOK, RunType
  <2>3. db'.file = db.file \/ db'.file = PersistFiles(db, run'.files).file
    <3>1. StartJob(c) \/ Claim(c) => db'.file = db.file
      BY DEF StartJob, Claim, TypeOK, DbType
    <3>2. PersistFiles(db, run.files) \in DbType /\ PersistFiles(db, recorded) \in DbType
      BY <2>0, PersistType DEF TypeOK
    <3>3. Store(c) \/ StoreInclusions(c)
            => run'.files = run.files /\ db'.file = PersistFiles(db, run.files).file
      BY <3>2 DEF Store, StoreInclusions, TypeOK, RunType, DbType
    <3>4. RecordCommand(c) => run'.files = recorded /\ db'.file = PersistFiles(db, recorded).file
      BY <3>2 DEF RecordCommand, TypeOK, RunType, DbType
    <3> QED BY <1>2, <3>1, <3>3, <3>4
  <2>4. \A f \in Files : \/ run'.files[f] = run.files[f]
                         \/ run.files[f] = Absent /\ run'.files[f] \in {Blank, disk[f]}
    <3> HIDE DEF claimed, recorded
    <3>1. \A f \in Files : /\ run.files[f] # Absent => claimed[f] = run.files[f]
                           /\ claimed[f] \in {run.files[f], Blank, disk[f]}
      BY <2>0, Entries DEF claimed
    <3>2. \A f \in Files : /\ run.files[f] # Absent => recorded[f] = run.files[f]
                           /\ recorded[f] \in {run.files[f], Blank, disk[f]}
      BY <2>0, Entries DEF recorded
    <3> QED BY <2>2, <3>1, <3>2
  <2>5. \A f \in Files : db'.file[f] \in {db.file[f], run'.files[f]}
    <3> HIDE DEF claimed, recorded
    <3>1. run'.files \in [Files -> Versions \cup {Absent, Blank}]
      BY <2>0, <2>2
    <3>2. \A f \in Files : PersistFiles(db, run'.files).file[f] \in {db.file[f], run'.files[f]}
      BY <3>1, Persisted DEF TypeOK
    <3> QED BY <2>3, <3>2
  <2> QED BY <1>2, <2>1, <2>4, <2>5, FilesGrow DEF Late
<1> QED BY <1>1, <1>2 DEF Parsing, StartJob, Claim, Store, StoreInclusions, RecordCommand, TypeOK,
                          Running

LEMMA FilesLast ==
  ASSUME TypeOK, DryInv, FilesInv,
         StartMetrics \/ (\E f \in Files : MetricsJob(f)) \/ MetricsDone
         \/ CreateIndexes \/ ParseCppMetrics \/ WriteProjectInfo
  PROVE  FilesInv'
<1>0. run.pc \in Late => ~run.dryRun
  BY DEF DryInv, Late
<1>1. CASE StartMetrics \/ MetricsDone \/ CreateIndexes \/ ParseCppMetrics \/ WriteProjectInfo
  <2>1. /\ run.pc \in Late /\ run'.pc \in Late \cup {"exit"} /\ run'.dryRun = run.dryRun
        /\ disk' = disk /\ run'.status = run.status /\ run'.files = run.files
    BY <1>1 DEF StartMetrics, MetricsDone, CreateIndexes, ParseCppMetrics, WriteProjectInfo, TypeOK,
                RunType, project, Late
  <2>2. db'.file = db.file
    BY <1>1 DEF StartMetrics, MetricsDone, CreateIndexes, ParseCppMetrics, WriteProjectInfo, TypeOK,
                DbType
  <2> QED BY <1>0, <2>1, <2>2, FilesGrow DEF Late
<1>2. ASSUME NEW f \in Files, MetricsJob(f) PROVE FilesInv'
  <2> DEFINE files == WithEntries(run.files, {f})
  <2>1. /\ run.pc = "counting" /\ run'.pc = "counting" /\ disk' = disk
        /\ run'.status = run.status /\ run'.files = files
    BY <1>2 DEF MetricsJob, TypeOK, RunType, project
  <2>2. db'.file = db.file
    BY <1>2 DEF MetricsJob, TypeOK, DbType
  <2>3. \A g \in Files : /\ run.files[g] # Absent => files[g] = run.files[g]
                         /\ files[g] \in {run.files[g], Blank, disk[g]}
    BY Entries DEF TypeOK, RunType
  <2> HIDE DEF files
  <2> QED BY <2>1, <2>2, <2>3, FilesGrow DEF Late
<1> QED BY <1>1, <1>2

LEMMA Ends ==
  ASSUME \/ DetectThrows \/ MarkThrows \/ CreateCleanupOrderThrows \/ CleanupFailed
         \/ RemoveFileThrows
         \/ (\E f \in Files : CleanupJobThrows(f)) \/ Crash \/ Exit
  PROVE  /\ run' = NoRun /\ disk' = disk
         /\ db' = db \/ db' = PersistFiles(db, run.files)
BY DEF DetectThrows, MarkThrows, CreateCleanupOrderThrows, CleanupFailed, RemoveFileThrows, CleanupJobThrows,
       Crash, Exit, Die, project

LEMMA FilesStep ==
  ASSUME TypeOK, DryInv, FilesInv, Next
  PROVE  FilesInv'
<1>1. run' = NoRun => FilesInv'
  BY DEF NoRun, FilesInv, Early, Late, Parsed
<1> QED BY <1>1, Ends, FilesBegin, FilesClean, FilesParse, FilesLast DEF Next, Cleaning

-----------------------------------------------------------------------------
(* Who claims what.                                                        *)
LEMMA NoClaims ==
  ASSUME TypeOK, ClaimInv, run.pc # "parsing"
  PROVE  \A c \in Commands : run.stage[c] = "idle" /\ run.claimed[c] = {}
BY DEF TypeOK, ClaimInv, Running

LEMMA ClaimElsewhere ==
  ASSUME TypeOK, TypeOK', ClaimInv, run.pc # "parsing",
         \/ run' = NoRun
         \/ run'.claimed = run.claimed /\ run'.stage = run.stage
            /\ (run'.pc = "parsing" => db'.ast = run'.entityCache)
  PROVE  ClaimInv'
<1>1. \A c \in Commands : run'.stage[c] = "idle" /\ run'.claimed[c] = {}
  BY NoClaims DEF NoRun
<1>2. run'.pc = "parsing" => db'.ast \subseteq run'.entityCache
  BY DEF NoRun
<1>3. run'.pending \subseteq Commands
  BY DEF TypeOK, RunType
<1> QED BY <1>1, <1>2, <1>3 DEF ClaimInv

LEMMA ClaimJob ==
  ASSUME TypeOK, FilesInv, ClaimInv, NEW c \in Commands,
         StartJob(c) \/ Claim(c) \/ Store(c) \/ StoreInclusions(c) \/ RecordCommand(c)
  PROVE  ClaimInv'
<1>0. run.pc = "parsing" /\ run'.pc = "parsing" /\ disk' = disk
  BY DEF StartJob, Claim, Store, StoreInclusions, RecordCommand, TypeOK, RunType, Running, project
<1>a. /\ run.claimed \in [Commands -> SUBSET Node] /\ run.stage \in [Commands -> Stages]
      /\ run.files \in [Files -> Versions \cup {Absent, Blank}] /\ run.pending \subseteq Commands
      /\ db.ast \subseteq Node
  BY DEF TypeOK, RunType, DbType
<1>1. CASE StartJob(c)
  <2>1. /\ run'.claimed = run.claimed /\ run'.entityCache = run.entityCache /\ run'.files = run.files
        /\ run'.stage = [run.stage EXCEPT ![c] = "started"] /\ run'.pending = run.pending \ {c}
        /\ db'.ast = db.ast /\ c \in run.pending
    BY <1>1 DEF StartJob, TypeOK, RunType, DbType
  <2> QED BY <1>0, <1>a, <2>1 DEF ClaimInv
<1>2. CASE Claim(c)
  <2> DEFINE mine == UnitNodes(Source[c]) \ run.entityCache
             files == WithEntries(run.files, Unit(Source[c]))
  <2>1. /\ run'.claimed = [run.claimed EXCEPT ![c] = mine]
        /\ run'.entityCache = run.entityCache \cup UnitNodes(Source[c]) /\ run'.files = files
        /\ run'.stage = [run.stage EXCEPT ![c] = "claimed"] /\ run'.pending = run.pending
        /\ run.stage[c] = "started" /\ db' = db
    BY <1>2 DEF Claim, TypeOK, RunType
  <2>2. \A n \in mine : disk[n[1]] = n[2] /\ files[n[1]] \in {n[2], Blank}
    <3>1. SUFFICES ASSUME NEW g \in Unit(Source[c])
                   PROVE  files[g] \in {disk[g], Blank}
      BY DEF UnitNodes
    <3>2. g \in OnDisk /\ g \in Files
      BY UnitType
    <3>3. run.files[g] \in {Absent, Blank, disk[g]}
      BY <1>0, <3>2 DEF FilesInv, Late
    <3> QED BY <1>a, <3>2, <3>3, Entries
  <2>3. \A f \in Files : run.files[f] # Absent => files[f] = run.files[f]
    BY <1>a, Entries
  <2>4. mine \subseteq UnitNodes(Source[c]) /\ mine \cap run.entityCache = {} /\ mine \subseteq Node
    BY UnitType
  <2> HIDE DEF mine, files
  <2>5. \A d \in Commands : \A n \in run.claimed[d] : n[1] \in Files /\ n[2] \in Versions
    BY <1>a DEF Node
  <2>6. \A d \in Commands \ {c} : \A n \in run.claimed[d] : files[n[1]] \in {n[2], Blank}
    BY <2>3, <2>5, Markers DEF ClaimInv
  <2>7. db.ast \subseteq run.entityCache
    BY <1>0 DEF ClaimInv
  <2>8. \A d \in Commands : run'.claimed[d] = IF d = c THEN mine ELSE run.claimed[d]
    BY <1>a, <2>1
  <2>9. \A d \in Commands : run'.stage[d] = IF d = c THEN "claimed" ELSE run.stage[d]
    BY <1>a, <2>1
  <2>10. \A d \in Commands : run'.stage[d] # "claimed" => run'.claimed[d] = {}
    BY <2>8, <2>9 DEF ClaimInv
  <2>11. \A d \in Commands : /\ run'.claimed[d] \subseteq run'.entityCache
                             /\ run'.claimed[d] \cap db'.ast = {}
    BY <2>1, <2>4, <2>7, <2>8 DEF ClaimInv
  <2>12. \A d \in Commands : \A n \in run'.claimed[d] :
           disk[n[1]] = n[2] /\ run'.files[n[1]] \in {n[2], Blank}
    BY <2>1, <2>2, <2>6, <2>8 DEF ClaimInv
  <2>13. \A d \in Commands : \A e \in Commands \ {d} : run'.claimed[d] \cap run'.claimed[e] = {}
    <3>1. \A d \in Commands \ {c} : run.claimed[d] \subseteq run.entityCache
      BY DEF ClaimInv
    <3>2. \A d \in Commands \ {c} : mine \cap run.claimed[d] = {}
      BY <2>4, <3>1
    <3>3. \A d \in Commands : \A e \in Commands \ {d} : run.claimed[d] \cap run.claimed[e] = {}
      BY DEF ClaimInv
    <3> QED BY <2>8, <3>2, <3>3
  <2>14. \A d \in run'.pending : run'.stage[d] = "idle"
    BY <1>a, <2>1, <2>9 DEF ClaimInv
  <2>15. db'.ast \subseteq run'.entityCache
    BY <2>1, <2>7
  <2> QED BY <1>0, <2>10, <2>11, <2>12, <2>13, <2>14, <2>15 DEF ClaimInv
<1>3. CASE Store(c)
  <2>1. /\ run'.claimed = [run.claimed EXCEPT ![c] = {}]
        /\ run'.entityCache = run.entityCache /\ run'.files = run.files
        /\ run'.stage = [run.stage EXCEPT ![c] = "stored"] /\ run'.pending = run.pending
        /\ run.stage[c] = "claimed"
    BY <1>3 DEF Store, TypeOK, RunType
  <2>2. db'.ast = db.ast \cup run.claimed[c]
    BY <1>3 DEF Store, PersistFiles, TypeOK, DbType
  <2>3. \A d \in Commands : run'.claimed[d] = IF d = c THEN {} ELSE run.claimed[d]
    BY <1>a, <2>1
  <2>4. \A d \in Commands : run'.stage[d] = IF d = c THEN "stored" ELSE run.stage[d]
    BY <1>a, <2>1
  <2>5. \A d \in Commands : run'.claimed[d] \cap db'.ast = {}
    BY <2>2, <2>3 DEF ClaimInv
  <2> QED BY <1>0, <1>a, <2>1, <2>2, <2>3, <2>4, <2>5 DEF ClaimInv
<1>4. CASE StoreInclusions(c)
  <2>1. /\ run'.claimed = run.claimed /\ run'.entityCache = run.entityCache /\ run'.files = run.files
        /\ run'.stage = [run.stage EXCEPT ![c] = "included"] /\ run'.pending = run.pending
        /\ run.stage[c] = "stored"
    BY <1>4 DEF StoreInclusions, TypeOK, RunType
  <2>2. db'.ast = db.ast
    BY <1>4 DEF StoreInclusions, PersistFiles, TypeOK, DbType
  <2> QED BY <1>0, <1>a, <2>1, <2>2 DEF ClaimInv
<1>5. CASE RecordCommand(c)
  <2> DEFINE files == WithEntries(run.files, {Source[c]})
  <2>1. /\ run'.claimed = run.claimed /\ run'.entityCache = run.entityCache /\ run'.files = files
        /\ run'.stage = [run.stage EXCEPT ![c] = "idle"] /\ run'.pending = run.pending
        /\ run.stage[c] = "included"
    BY <1>5 DEF RecordCommand, TypeOK, RunType
  <2>2. db'.ast = db.ast
    BY <1>5 DEF RecordCommand, PersistFiles, TypeOK, DbType
  <2>3. \A f \in Files : run.files[f] # Absent => files[f] = run.files[f]
    BY <1>a, Entries
  <2> HIDE DEF files
  <2>4. \A d \in Commands : \A n \in run.claimed[d] :
          n[1] \in Files /\ n[2] \in Versions /\ files[n[1]] \in {n[2], Blank}
    BY <1>a, <2>3, Markers DEF ClaimInv, Node
  <2>5. \A d \in Commands : run'.stage[d] # "claimed" => run'.claimed[d] = {}
    BY <1>a, <2>1 DEF ClaimInv
  <2> QED BY <1>0, <1>a, <2>1, <2>2, <2>4, <2>5 DEF ClaimInv
<1> QED BY <1>1, <1>2, <1>3, <1>4, <1>5

LEMMA ClaimStep ==
  ASSUME TypeOK, TypeOK', FilesInv, ClaimInv, Next
  PROVE  ClaimInv'
<1>1. CASE run' = NoRun
  BY <1>1 DEF NoRun, ClaimInv
<1>2. CASE Editing \/ \E force, dryRun \in BOOLEAN : Start(force, dryRun)
  <2>1. run.pc = "idle" /\ run = NoRun
    BY <1>2 DEF Editing, Delete, Modify, Add, Reconfigure, Edit, Start, TypeOK
  <2>2. run'.claimed = run.claimed /\ run'.stage = run.stage /\ run'.pc # "parsing"
    BY <1>2, <2>1 DEF Editing, Delete, Modify, Add, Reconfigure, Edit, Start, NoRun
  <2> QED BY <2>1, <2>2, ClaimElsewhere
<1>3. CASE \/ PrepareProjectDir \/ ConnectDatabase \/ SetUpTables \/ DetectChanges
           \/ MarkModifiedFiles \/ ListOnly \/ ForceByThreshold \/ Proceed
  <2> DEFINE NoJob == run.pc # "parsing" /\ run'.pc # "parsing"
                      /\ run'.claimed = run.claimed /\ run'.stage = run.stage
  <2>1. PrepareProjectDir => NoJob
    BY DEF PrepareProjectDir, TypeOK, RunType
  <2>2. ConnectDatabase => NoJob
    BY DEF ConnectDatabase, TypeOK, RunType
  <2>3. SetUpTables => NoJob
    BY DEF SetUpTables, TypeOK, RunType
  <2>4. DetectChanges => NoJob
    BY DEF DetectChanges, TypeOK, RunType
  <2>5. MarkModifiedFiles => NoJob
    BY DEF MarkModifiedFiles, TypeOK, RunType
  <2>6. ListOnly => NoJob
    BY DEF ListOnly, TypeOK, RunType
  <2>7. ForceByThreshold => NoJob
    BY DEF ForceByThreshold, TypeOK, RunType
  <2>8. Proceed => NoJob
    BY DEF Proceed, TypeOK, RunType
  <2>9. NoJob
    BY <1>3, <2>1, <2>2, <2>3, <2>4, <2>5, <2>6, <2>7, <2>8
  <2> QED BY <2>9, ClaimElsewhere
<1>4. CASE CreateCleanupOrder \/ StartLevel \/ CleanupSucceeded \/ CleanupMetrics \/ FilesRemoved
  <2>1. run.pc # "parsing" /\ run'.pc # "parsing"
        /\ run'.claimed = run.claimed /\ run'.stage = run.stage
    BY <1>4 DEF CreateCleanupOrder, StartLevel, CleanupSucceeded, LevelsDone, CleanupMetrics,
                FilesRemoved, TypeOK, RunType
  <2> QED BY <2>1, ClaimElsewhere
<1>5. ASSUME NEW f \in Files,
             \/ CleanupJob(f) \/ CleanupJobDeadlock(f) \/ CleanupJobFails(f) \/ RemoveFile(f)
             \/ MetricsJob(f)
      PROVE  ClaimInv'
  <2>1. run.pc # "parsing" /\ run'.pc # "parsing"
        /\ run'.claimed = run.claimed /\ run'.stage = run.stage
    <3>1. CASE CleanupJob(f) \/ CleanupJobDeadlock(f) \/ CleanupJobFails(f)
      BY <3>1 DEF CleanupJob, CleanupJobDeadlock, CleanupJobFails, TypeOK, RunType
    <3>2. CASE RemoveFile(f)
      BY <3>2 DEF RemoveFile, TypeOK, RunType
    <3>3. CASE MetricsJob(f)
      BY <3>3 DEF MetricsJob, TypeOK, RunType
    <3> QED BY <1>5, <3>1, <3>2, <3>3
  <2> QED BY <2>1, ClaimElsewhere
<1>6. CASE StartParse
  <2>1. run.pc # "parsing" /\ run'.claimed = run.claimed /\ run'.stage = run.stage
        /\ db' = db /\ run'.entityCache = db.ast
    BY <1>6 DEF StartParse, TypeOK, RunType
  <2> QED BY <2>1, ClaimElsewhere
<1>7. CASE ParseDone
  <2>1. run'.pc = "metrics" /\ run'.claimed = run.claimed /\ run'.stage = run.stage
        /\ run'.pending = {} /\ Running = {}
    BY <1>7 DEF ParseDone, TypeOK, RunType
  <2>2. \A c \in Commands : run.claimed[c] = {}
    BY <2>1 DEF Running, ClaimInv
  <2> QED BY <2>1, <2>2 DEF ClaimInv
<1>8. CASE StartMetrics \/ MetricsDone \/ CreateIndexes \/ ParseCppMetrics \/ WriteProjectInfo
  <2>1. run.pc # "parsing" /\ run'.pc # "parsing"
        /\ run'.claimed = run.claimed /\ run'.stage = run.stage
    BY <1>8 DEF StartMetrics, MetricsDone, CreateIndexes, ParseCppMetrics, WriteProjectInfo, TypeOK,
                RunType
  <2> QED BY <2>1, ClaimElsewhere
<1> QED BY <1>1, <1>2, <1>3, <1>4, <1>5, <1>6, <1>7, <1>8, ClaimJob, Ends DEF Next, Cleaning, Parsing

-----------------------------------------------------------------------------
(* What the cleanup has cleaned.                                           *)
LEMMA CleanElsewhere ==
  ASSUME run'.pc \notin {"cleanup", "cleanMetrics", "cleanFiles"}
  PROVE  CleanInv'
BY DEF CleanInv

(* Where the parse goes on. *)
LEMMA ParsingStages ==
  ASSUME TypeOK, FilesRemoved \/ Parsing
  PROVE  run'.pc \in {"parse", "parsing", "metrics"}
<1>1. FilesRemoved => run'.pc = "parse"
  BY DEF FilesRemoved, TypeOK, RunType
<1>2. StartParse => run'.pc = "parsing"
  BY DEF StartParse, TypeOK, RunType
<1>3. ParseDone => run'.pc = "metrics"
  BY DEF ParseDone, TypeOK, RunType
<1>4. ASSUME NEW c \in Commands, run.stage[c] # "idle" PROVE run.pc = "parsing"
  BY <1>4 DEF TypeOK, Running
<1>5. ASSUME NEW c \in Commands, StartJob(c) PROVE run'.pc = "parsing"
  BY <1>5 DEF StartJob, TypeOK, RunType
<1>6. ASSUME NEW c \in Commands, Claim(c) PROVE run'.pc = "parsing"
  BY <1>4, <1>6 DEF Claim, TypeOK, RunType
<1>7. ASSUME NEW c \in Commands, Store(c) PROVE run'.pc = "parsing"
  BY <1>4, <1>7 DEF Store, TypeOK, RunType
<1>8. ASSUME NEW c \in Commands, StoreInclusions(c) PROVE run'.pc = "parsing"
  BY <1>4, <1>8 DEF StoreInclusions, TypeOK, RunType
<1>9. ASSUME NEW c \in Commands, RecordCommand(c) PROVE run'.pc = "parsing"
  BY <1>4, <1>9 DEF RecordCommand, TypeOK, RunType
<1> QED BY <1>1, <1>2, <1>3, <1>5, <1>6, <1>7, <1>8, <1>9 DEF Parsing

LEMMA CleanFileCleans ==
  ASSUME db \in DbType, NEW f \in Files, db' = CleanFile(db, f)
  PROVE  /\ db'.ast = db.ast /\ db'.file = db.file /\ db'.indexed = db.indexed
         /\ \A n \in Node : db'.ent[n] = IF n \in db.ast /\ n[1] = f THEN 0 ELSE db.ent[n]
BY DEF CleanFile, DbType, Erase

LEMMA CleanStep ==
  ASSUME TypeOK, CleanInv, Next
  PROVE  CleanInv'
<1>0. db.ast \subseteq Node /\ run.todo \subseteq Files
  BY DEF TypeOK, DbType, RunType
<1>1. CASE run' = NoRun
  BY <1>1, CleanElsewhere DEF NoRun
<1>2. CASE Editing \/ \E force, dryRun \in BOOLEAN : Start(force, dryRun)
  <2>1. run.pc = "idle" /\ run = NoRun
    BY <1>2 DEF Editing, Delete, Modify, Add, Reconfigure, Edit, Start, TypeOK
  <2>2. run'.pc \in {"idle", "prepare"}
    BY <1>2, <2>1 DEF Editing, Delete, Modify, Add, Reconfigure, Edit, Start, NoRun
  <2> QED BY <2>2, CleanElsewhere
<1>3. CASE \/ PrepareProjectDir \/ ConnectDatabase \/ SetUpTables \/ DetectChanges
           \/ MarkModifiedFiles \/ ListOnly \/ ForceByThreshold \/ Proceed
  <2> DEFINE Outside == run'.pc \notin {"cleanup", "cleanMetrics", "cleanFiles"}
  <2>1. PrepareProjectDir => Outside
    BY DEF PrepareProjectDir, TypeOK, RunType
  <2>2. ConnectDatabase => Outside
    BY DEF ConnectDatabase, TypeOK, RunType
  <2>3. SetUpTables => Outside
    BY DEF SetUpTables, TypeOK, RunType
  <2>4. DetectChanges => Outside
    BY DEF DetectChanges, TypeOK, RunType
  <2>5. MarkModifiedFiles => Outside
    BY DEF MarkModifiedFiles, TypeOK, RunType
  <2>6. ListOnly => Outside
    BY DEF ListOnly, TypeOK, RunType
  <2>7. ForceByThreshold => Outside
    BY DEF ForceByThreshold, TypeOK, RunType
  <2>8. Proceed => Outside
    BY DEF Proceed, TypeOK, RunType
  <2>9. Outside
    BY <1>3, <2>1, <2>2, <2>3, <2>4, <2>5, <2>6, <2>7, <2>8
  <2> QED BY <2>9, CleanElsewhere
<1>4. CASE CreateCleanupOrder
  <2>1. /\ run'.pc = "cleanup" /\ run'.todo = Marked /\ run'.status = run.status /\ db' = db
        /\ since' = since \cup (IF Marked # {} /\ ~Keyed(db) THEN {"unkeyed"} ELSE {})
    BY <1>4 DEF CreateCleanupOrder, TypeOK, RunType
  <2> QED BY <2>1 DEF CleanInv, Marked
<1>5. CASE StartLevel
  <2>1. /\ run.pc = "cleanup" /\ run'.pc = "cleanup" /\ run'.status = run.status /\ db' = db
        /\ run'.failed = run.failed /\ since' = since /\ run.level = {}
        /\ run'.todo = run.todo \ run'.level
    BY <1>5 DEF StartLevel, TypeOK, RunType, history
  <2>2. run.todo \subseteq run'.level \cup run'.todo
    BY <2>1
  <2> QED BY <2>1, <2>2 DEF CleanInv, Marked, Cleaned
<1>6. ASSUME NEW f \in Files, CleanupJob(f) PROVE CleanInv'
  <2>1. /\ run.pc = "cleanup" /\ run'.pc = "cleanup" /\ run'.status = run.status
        /\ run'.failed = run.failed /\ since' = since /\ run'.todo = run.todo
        /\ run'.level = run.level \ {f} /\ db' = CleanFile(db, f)
    BY <1>6 DEF CleanupJob, TypeOK, RunType, history
  <2>2. /\ db'.ast = db.ast /\ db'.indexed = db.indexed
        /\ \A n \in Node : db'.ent[n] = IF n \in db.ast /\ n[1] = f THEN 0 ELSE db.ent[n]
    BY <2>1, CleanFileCleans DEF TypeOK
  <2>3. \A g \in Files : Cleaned(g) \/ g = f => Cleaned(g)'
    BY <1>0, <2>2 DEF Cleaned
  <2>4. Keyed(db)' = Keyed(db)
    BY <2>2 DEF Keyed
  <2> QED BY <2>1, <2>3, <2>4 DEF CleanInv, Marked
<1>7. ASSUME NEW f \in Files, CleanupJobDeadlock(f) \/ CleanupJobFails(f) PROVE CleanInv'
  <2>1. /\ run.pc = "cleanup" /\ run'.pc = "cleanup" /\ run'.status = run.status /\ db' = db
        /\ run'.todo = run.todo /\ since \subseteq since'
        /\ (run'.failed \/ "rolled back" \in since')
    BY <1>7 DEF CleanupJobDeadlock, CleanupJobFails, TypeOK, RunType, history
  <2> QED BY <2>1 DEF CleanInv, Marked
<1>8. CASE CleanupSucceeded
  <2>1. /\ run.pc = "cleanup" /\ run'.pc = "cleanMetrics" /\ run'.status = run.status /\ db' = db
        /\ since' = since /\ ~run.failed /\ run.level = {} /\ run.todo = {}
    BY <1>8 DEF CleanupSucceeded, LevelsDone, TypeOK, RunType, history
  <2> QED BY <2>1 DEF CleanInv, Marked, Cleaned
<1>9. CASE CleanupMetrics
  <2>1. /\ run.pc = "cleanMetrics" /\ run'.pc = "cleanFiles" /\ run'.status = run.status
        /\ since' = since /\ run'.todo = Marked
    BY <1>9 DEF CleanupMetrics, TypeOK, RunType, history
  <2>2. db'.ast = db.ast /\ db'.ent = db.ent /\ db'.indexed = db.indexed
    BY <1>9 DEF CleanupMetrics, TypeOK, DbType
  <2> QED BY <2>1, <2>2 DEF CleanInv, Marked, Cleaned, Keyed
<1>10. ASSUME NEW f \in Files, RemoveFile(f) PROVE CleanInv'
  <2>1. /\ run.pc = "cleanFiles" /\ run'.pc = "cleanFiles" /\ run'.status = run.status
        /\ since' = since /\ run'.todo = run.todo \ {f} /\ db' = RemoveRow(db, f)
    BY <1>10 DEF RemoveFile, TypeOK, RunType, history
  <2>2. db'.ast \subseteq db.ast /\ db'.ent = db.ent /\ db'.indexed = db.indexed
    BY <2>1 DEF RemoveRow, TypeOK, DbType
  <2>3. Marked' = Marked /\ (Keyed(db) => Keyed(db)')
    BY <2>1, <2>2 DEF Marked, Keyed
  <2>4. \A g \in Files : Cleaned(g) => Cleaned(g)'
    BY <2>2 DEF Cleaned
  <2>5. run.todo \subseteq Files
    BY DEF TypeOK, RunType
  <2> QED BY <2>1, <2>3, <2>4, <2>5 DEF CleanInv
<1>11. CASE FilesRemoved \/ Parsing
  BY <1>11, ParsingStages, CleanElsewhere
<1>12. CASE StartMetrics \/ (\E f \in Files : MetricsJob(f)) \/ MetricsDone
            \/ CreateIndexes \/ ParseCppMetrics \/ WriteProjectInfo
  <2>1. run'.pc \in {"counting", "index", "cppMetrics", "config", "exit"}
    BY <1>12 DEF StartMetrics, MetricsJob, MetricsDone, CreateIndexes, ParseCppMetrics,
                 WriteProjectInfo, TypeOK, RunType
  <2> QED BY <2>1, CleanElsewhere
<1> QED BY <1>1, <1>2, <1>3, <1>4, <1>5, <1>6, <1>7, <1>8, <1>9, <1>10, <1>11, <1>12, Ends
        DEF Next, Cleaning

-----------------------------------------------------------------------------
(* The nodes and what is stored with their files.                          *)
NodesStored == "unkeyed" \notin since => \A n \in db.ast : db.file[n[1]] \in {n[2], Blank}
EntitiesOnce ==
  "rolled back" \notin since =>
    \A n \in Node : db.ent[n] = 0 \/ (db.ent[n] = 1 /\ n \in db.ast)

LEMMA ZeroNotOne == 0 # 1
OBVIOUS

LEMMA ZeroPlusOne == 0 + 1 = 1
OBVIOUS

LEMMA AstParts == AstMatchesStored <=> NodesStored /\ EntitiesOnce
BY Zenon DEF AstMatchesStored, NodesStored, EntitiesOnce

LEMMA AstPartsNext == AstMatchesStored' <=> NodesStored' /\ EntitiesOnce'
BY Zenon DEF AstMatchesStored, NodesStored, EntitiesOnce

LEMMA AstSame ==
  ASSUME TypeOK, TypeOK', AstMatchesStored, since \subseteq since', db'.ast = db.ast,
         \A n \in Node : db'.ent[n] \in {0, db.ent[n]},
         \A f \in Files : db.file[f] # Absent => db'.file[f] = db.file[f]
  PROVE  AstMatchesStored'
<1>1. \A n \in db.ast : n[1] \in Files /\ n[2] \in Versions
  BY DEF TypeOK, DbType, Node
<1>2. NodesStored'
  BY <1>1, AstParts, Markers DEF NodesStored
<1>3. EntitiesOnce'
  BY AstParts DEF EntitiesOnce
<1> QED BY <1>2, <1>3, AstPartsNext

LEMMA AstKept ==
  ASSUME TypeOK, TypeOK', AstMatchesStored, since \subseteq since',
         db' = db \/ db' = PersistFiles(db, run.files)
  PROVE  AstMatchesStored'
<1>1. db'.ast = db.ast /\ db'.ent = db.ent
  BY DEF PersistFiles, TypeOK, DbType
<1>2. \A f \in Files : db.file[f] # Absent => db'.file[f] = db.file[f]
  BY DEF PersistFiles, TypeOK, DbType
<1>3. \A n \in Node : db'.ent[n] \in {0, db.ent[n]}
  BY <1>1 DEF TypeOK, DbType
<1> QED BY <1>1, <1>2, <1>3, AstSame

LEMMA AstEmptied ==
  ASSUME db' = EmptyTables
  PROVE  AstMatchesStored'
<1>1. db'.ast = {} /\ \A n \in Node : db'.ent[n] = 0
  BY DEF EmptyTables, NoDb
<1> QED BY <1>1, AstPartsNext DEF NodesStored, EntitiesOnce

LEMMA AstJob ==
  ASSUME TypeOK, TypeOK', FilesInv, ClaimInv, AstMatchesStored, NEW c \in Commands,
         StartJob(c) \/ Claim(c) \/ Store(c) \/ StoreInclusions(c) \/ RecordCommand(c)
  PROVE  AstMatchesStored'
<1>0. since' = since
  BY DEF StartJob, Claim, Store, StoreInclusions, RecordCommand, history
<1>a. db.ent \in [Node -> Nat]
  BY DEF TypeOK, DbType
<1>b. run.files \in [Files -> Versions \cup {Absent, Blank}]
  BY DEF TypeOK, RunType
<1>1. CASE StartJob(c) \/ Claim(c)
  <2>1. db'.ast = db.ast /\ db'.ent = db.ent /\ db'.file = db.file
    BY <1>1 DEF StartJob, Claim, TypeOK, DbType
  <2> QED BY <1>0, <1>a, <2>1, AstSame
<1>2. CASE Store(c)
  <2> DEFINE mine == run.claimed[c]
  <2>1. run.pc = "parsing"
    BY <1>2 DEF Store, TypeOK, Running
  <2>2. db'.ast = db.ast \cup mine
    BY <1>2 DEF Store, PersistFiles, TypeOK, DbType
  <2>3. \A n \in Node : db'.ent[n] = IF n \in mine THEN db.ent[n] + 1 ELSE db.ent[n]
    <3> DEFINE more == [n \in Node |-> db.ent[n] + (IF n \in mine THEN 1 ELSE 0)]
    <3>1. db'.ent = more
      BY <1>2 DEF Store, PersistFiles, TypeOK, DbType
    <3>2. ASSUME NEW n \in Node PROVE more[n] = IF n \in mine THEN db.ent[n] + 1 ELSE db.ent[n]
      <4> HIDE DEF mine
      <4>1. CASE n \in mine
        BY <4>1
      <4>2. CASE n \notin mine
        <5>1. more[n] = db.ent[n] + 0
          BY <4>2
        <5> QED BY <1>a, <4>2, <5>1
      <4> QED BY <4>1, <4>2
    <3> QED BY <3>1, <3>2
  <2>4. db'.file = PersistFiles(db, run.files).file
    BY <1>2 DEF Store, PersistFiles, TypeOK, DbType
  <2>5. \A f \in Files : db'.file[f] = IF db.file[f] = Absent THEN run.files[f] ELSE db.file[f]
    BY <1>b, <2>4, Persisted DEF TypeOK
  <2>6. \A n \in mine : n \in Node /\ run.files[n[1]] \in {n[2], Blank} /\ n \notin db.ast
    BY DEF ClaimInv, TypeOK, RunType
  <2>7. \A f \in Files : db.file[f] \in {Absent, run.files[f]}
    BY <2>1 DEF FilesInv, Early
  <2> HIDE DEF mine
  <2>8. \A n \in mine : db'.file[n[1]] \in {n[2], Blank}
    BY <2>5, <2>6, <2>7 DEF Node
  <2>9. \A n \in db.ast : n[1] \in Files /\ n[2] \in Versions
    BY DEF TypeOK, DbType, Node
  <2>10. NodesStored'
    BY <1>0, <2>2, <2>5, <2>8, <2>9, AstParts, Markers DEF NodesStored
  <2>11. EntitiesOnce'
    <3> SUFFICES ASSUME "rolled back" \notin since, NEW n \in Node
                 PROVE  db'.ent[n] = 0 \/ (db'.ent[n] = 1 /\ n \in db'.ast)
      BY <1>0 DEF EntitiesOnce
    <3>1. db.ent[n] = 0 \/ (db.ent[n] = 1 /\ n \in db.ast)
      BY AstParts DEF EntitiesOnce
    <3>2. CASE n \in mine
      <4>1. db.ent[n] = 0
        BY <2>6, <3>1, <3>2
      <4>2. db'.ent[n] = db.ent[n] + 1
        BY <2>3, <3>2
      <4>3. db'.ent[n] = 1
        BY <4>1, <4>2, ZeroPlusOne, Zenon
      <4> QED BY <2>2, <3>2, <4>3
    <3>3. CASE n \notin mine
      <4>1. db'.ent[n] = db.ent[n]
        BY <2>3, <3>3
      <4> QED BY <2>2, <3>1, <4>1
    <3> QED BY <3>2, <3>3
  <2> QED BY <2>10, <2>11, AstPartsNext
<1>3. CASE StoreInclusions(c) \/ RecordCommand(c)
  <2> DEFINE recorded == WithEntries(run.files, {Source[c]})
  <2>1. PICK files \in {run.files, recorded} :
          db'.ast = db.ast /\ db'.ent = db.ent /\ db'.file = PersistFiles(db, files).file
    BY <1>3 DEF StoreInclusions, RecordCommand, PersistFiles, TypeOK, DbType
  <2>2. files \in [Files -> Versions \cup {Absent, Blank}]
    BY <1>b, EntriesType
  <2>3. \A f \in Files : db.file[f] # Absent => db'.file[f] = db.file[f]
    BY <2>1, <2>2, Persisted DEF TypeOK
  <2> QED BY <1>0, <1>a, <2>1, <2>3, AstSame
<1> QED BY <1>1, <1>2, <1>3

LEMMA AstRemove ==
  ASSUME TypeOK, TypeOK', CleanInv, AstMatchesStored, NEW f \in Files, RemoveFile(f)
  PROVE  AstMatchesStored'
<1>1. run.pc = "cleanFiles" /\ f \in run.todo /\ f \in Marked /\ since' = since
      /\ db' = RemoveRow(db, f)
  BY DEF RemoveFile, CleanInv, history
<1>2. db.ast \subseteq Node /\ db'.ent = db.ent
  BY <1>1 DEF RemoveRow, TypeOK, DbType
<1>3. \A g \in Files \ {f} : db'.file[g] = db.file[g]
  BY <1>1 DEF RemoveRow, TypeOK, DbType
<1>4. Keyed(db) => db'.ast = {n \in db.ast : n[1] # f}
  BY <1>1 DEF RemoveRow, TypeOK, DbType
<1>5. ~Keyed(db) => db'.ast = db.ast
  BY <1>1 DEF RemoveRow, TypeOK, DbType
<1>6. "unkeyed" \notin since => Keyed(db)
  BY <1>1 DEF CleanInv
<1>7. NodesStored'
  <2> SUFFICES ASSUME "unkeyed" \notin since, NEW n \in db'.ast
               PROVE  db'.file[n[1]] \in {n[2], Blank}
    BY <1>1 DEF NodesStored
  <2>1. n \in db.ast /\ n[1] # f
    BY <1>4, <1>6
  <2>2. n[1] \in Files \ {f}
    BY <1>2, <2>1 DEF Node
  <2>3. db.file[n[1]] \in {n[2], Blank}
    BY <2>1, AstParts DEF NodesStored
  <2> QED BY <1>3, <2>2, <2>3
<1>8. EntitiesOnce'
  <2> SUFFICES ASSUME "rolled back" \notin since, NEW n \in Node
               PROVE  db.ent[n] = 0 \/ (db.ent[n] = 1 /\ n \in db'.ast)
    BY <1>1, <1>2 DEF EntitiesOnce
  <2>1. n \in db.ast => n \in db'.ast \/ db.ent[n] = 0
    BY <1>1, <1>4, <1>5 DEF CleanInv, Cleaned
  <2>2. db.ent[n] = 0 \/ (db.ent[n] = 1 /\ n \in db.ast)
    BY AstParts DEF EntitiesOnce
  <2> QED BY <2>1, <2>2
<1> QED BY <1>7, <1>8, AstPartsNext

LEMMA AstStep ==
  ASSUME TypeOK, TypeOK', FilesInv, ClaimInv, CleanInv, AstMatchesStored, Next
  PROVE  AstMatchesStored'
<1>1. CASE \/ Editing \/ (\E force, dryRun \in BOOLEAN : Start(force, dryRun)) \/ PrepareProjectDir
           \/ DetectChanges \/ MarkModifiedFiles \/ ListOnly \/ Proceed
           \/ CreateCleanupOrder \/ StartLevel \/ CleanupSucceeded \/ FilesRemoved
           \/ StartParse \/ ParseDone \/ StartMetrics \/ MetricsDone \/ WriteProjectInfo
  <2> DEFINE Kept == db' = db /\ since \subseteq since'
  <2>1. Editing \/ (\E force, dryRun \in BOOLEAN : Start(force, dryRun)) => Kept
    BY DEF Editing, Delete, Modify, Add, Reconfigure, Edit, Start
  <2>2. PrepareProjectDir \/ DetectChanges \/ MarkModifiedFiles \/ ListOnly \/ Proceed => Kept
    BY DEF PrepareProjectDir, DetectChanges, MarkModifiedFiles, ListOnly, Proceed, history
  <2>3. CreateCleanupOrder \/ StartLevel \/ CleanupSucceeded \/ FilesRemoved => Kept
    BY DEF CreateCleanupOrder, StartLevel, CleanupSucceeded, FilesRemoved, history
  <2>4. StartParse \/ ParseDone \/ StartMetrics \/ MetricsDone \/ WriteProjectInfo => Kept
    BY DEF StartParse, ParseDone, StartMetrics, MetricsDone, WriteProjectInfo, history
  <2>5. Kept
    BY <1>1, <2>1, <2>2, <2>3, <2>4
  <2> QED BY <2>5, AstKept
<1>2. CASE SetUpTables \/ ForceByThreshold
  <2>1. db' = EmptyTables \/ (db' = db /\ since' = since)
    BY <1>2 DEF SetUpTables, ForceByThreshold
  <2> QED BY <2>1, AstKept, AstEmptied
<1>3. CASE \/ ConnectDatabase \/ CleanupMetrics \/ (\E f \in Files : MetricsJob(f))
           \/ CreateIndexes \/ ParseCppMetrics
  <2> DEFINE Kept == db'.ast = db.ast /\ db'.ent = db.ent /\ db'.file = db.file /\ since' = since
  <2>a. ConnectDatabase => Kept
    BY DEF ConnectDatabase, TypeOK, DbType, history
  <2>b. CleanupMetrics => Kept
    BY DEF CleanupMetrics, TypeOK, DbType, history
  <2>c. ASSUME NEW f \in Files, MetricsJob(f) PROVE Kept
    BY <2>c DEF MetricsJob, TypeOK, DbType, history
  <2>d. CreateIndexes \/ ParseCppMetrics => Kept
    BY DEF CreateIndexes, ParseCppMetrics, TypeOK, DbType, history
  <2>1. Kept
    BY <1>3, <2>a, <2>b, <2>c, <2>d
  <2>2. \A n \in Node : db'.ent[n] \in {0, db.ent[n]}
    BY <2>1 DEF TypeOK, DbType
  <2> QED BY <2>1, <2>2, AstSame
<1>4. ASSUME NEW f \in Files, CleanupJob(f) PROVE AstMatchesStored'
  <2>1. since' = since /\ db' = CleanFile(db, f)
    BY <1>4 DEF CleanupJob, history
  <2>2. db'.ast = db.ast /\ db'.file = db.file /\ \A n \in Node : db'.ent[n] \in {0, db.ent[n]}
    BY <2>1, CleanFileCleans DEF TypeOK
  <2>3. \A n \in Node : db'.ent[n] \in {0, db.ent[n]}
    BY <2>2 DEF TypeOK, DbType
  <2> QED BY <2>1, <2>2, <2>3, AstSame
<1>5. ASSUME NEW f \in Files, CleanupJobDeadlock(f) \/ CleanupJobFails(f) PROVE AstMatchesStored'
  <2>1. db' = db /\ since \subseteq since'
    BY <1>5 DEF CleanupJobDeadlock, CleanupJobFails, history
  <2> QED BY <2>1, AstKept
<1>6. CASE \/ DetectThrows \/ MarkThrows \/ CreateCleanupOrderThrows \/ CleanupFailed \/ RemoveFileThrows
           \/ (\E f \in Files : CleanupJobThrows(f)) \/ Crash \/ Exit
  <2>1. since \subseteq since'
    BY <1>6 DEF DetectThrows, MarkThrows, CreateCleanupOrderThrows, CleanupFailed, RemoveFileThrows,
                CleanupJobThrows, Crash, Exit, Die
  <2> QED BY <1>6, <2>1, Ends, AstKept
<1> QED BY <1>1, <1>2, <1>3, <1>4, <1>5, <1>6, AstJob, AstRemove DEF Next, Cleaning, Parsing

AstIInv == TypeOK /\ DryInv /\ FilesInv /\ ClaimInv /\ CleanInv /\ AstMatchesStored

(* Whatever the runs before were, and wherever they were killed, no node   *)
(* describes another content than the one stored with its file, and no     *)
(* entity is there twice or without its node: two jobs never store the     *)
(* same node, and what is removed has been cleaned before.                 *)
THEOREM AstIsOfStoredContent == Spec => []AstMatchesStored
<1>1. Init => AstIInv
  <2> SUFFICES ASSUME Init PROVE AstIInv
    OBVIOUS
  <2>1. run = NoRun /\ db.ast = {} /\ \A n \in Node : db.ent[n] = 0
    BY DEF Init, NoDb
  <2>2. DryInv /\ FilesInv /\ ClaimInv
    BY <2>1 DEF DryInv, FilesInv, ClaimInv, NoRun, Early, Late, Parsed
  <2>3. CleanInv
    BY <2>1 DEF CleanInv, NoRun
  <2>4. NodesStored /\ EntitiesOnce
    BY <2>1 DEF NodesStored, EntitiesOnce
  <2> QED BY <2>2, <2>3, <2>4, InitType, AstParts DEF AstIInv
<1>2. AstIInv /\ [Next]_vars => AstIInv'
  <2>1. ASSUME AstIInv, Next PROVE AstIInv'
    BY <2>1, NextType, DryStep, FilesStep, ClaimStep, CleanStep, AstStep DEF AstIInv
  <2>2. ASSUME AstIInv, UNCHANGED vars PROVE AstIInv'
    <3>1. DryInv' /\ FilesInv'
      BY <2>2 DEF AstIInv, vars, DryInv, FilesInv, Marked, Parsed
    <3>2. ClaimInv'
      BY <2>2 DEF AstIInv, vars, ClaimInv
    <3>3. CleanInv'
      BY <2>2 DEF AstIInv, vars, CleanInv, Cleaned, Marked, Keyed
    <3>4. TypeOK' /\ AstMatchesStored'
      BY <2>2, StutterType, AstKept DEF AstIInv, vars
    <3> QED BY <3>1, <3>2, <3>3, <3>4 DEF AstIInv
  <2> QED BY <2>1, <2>2
<1>3. AstIInv => AstMatchesStored
  BY DEF AstIInv
<1> QED BY <1>1, <1>2, <1>3, PTL DEF Spec

-----------------------------------------------------------------------------
(* The metrics of the files.                                               *)
MetricsInv == LocOnce /\ CacheInv /\ NoBlankOnDisk /\ OfRows /\ OfDisk

RowStages == Early \cup {"mark", "decide", "order", "cleanup", "cleanMetrics"}

(* As long as neither the rows nor the metrics change.                     *)
LEMMA RowsFrame ==
  ASSUME MetricsInv, disk' = disk, db'.file = db.file, db'.loc = db.loc, since \subseteq since',
         run.pc \in RowStages, run'.pc \in RowStages,
         run.pc \in Early => run'.pc \in Early,
         run.pc \notin Early =>
           run'.pc \notin Early /\ run'.files = run.files /\ run'.fileIdCache = run.fileIdCache
  PROVE  MetricsInv'
<1>1. LocOnce'
  BY DEF MetricsInv, LocOnce
<1>2. CacheInv'
  BY DEF MetricsInv, CacheInv, RowStages, Early, Counted
<1>3. NoBlankOnDisk'
  BY DEF MetricsInv, NoBlankOnDisk, OnDisk
<1>4. OfRows'
  BY DEF MetricsInv, OfRows, Counts, RowStages, Early
<1>5. OfDisk'
  BY DEF OfDisk, RowStages, Early, Counted, Parsed
<1> QED BY <1>1, <1>2, <1>3, <1>4, <1>5 DEF MetricsInv

(* Metrics that stay or go are of one content at most, still.              *)
LEMMA LocFewer ==
  ASSUME LocOnce,
         \A f \in Files : \A v \in Versions :
           db'.loc[<<f, v>>] = 0 \/ db'.loc[<<f, v>>] = db.loc[<<f, v>>]
  PROVE  LocOnce'
BY DEF LocOnce

(* As long as the rows are gone that had to go, and no metrics are made.   *)
LEMMA DiskFrame ==
  ASSUME TypeOK, MetricsInv, disk' = disk, db'.loc = db.loc, since' = since,
         run.pc \in {"parse", "parsing", "metrics"}, run'.pc \in {"parse", "parsing", "metrics"},
         run'.fileIdCache = run.fileIdCache,
         \A f \in OnDisk : /\ run'.files[f] \in {run.files[f], disk[f]}
                           /\ db'.file[f] \in {db.file[f], run'.files[f]}
  PROVE  MetricsInv'
<1>1. LocOnce'
  BY LocFewer DEF MetricsInv
<1>2. CacheInv'
  BY DEF MetricsInv, CacheInv, Early, Counted
<1>3. NoBlankOnDisk'
  <2>1. run.pc \notin Early /\ OnDisk' = OnDisk
    BY DEF Early, OnDisk
  <2>2. since = {} => \A f \in OnDisk : db.file[f] # Blank /\ run.files[f] # Blank
    BY <2>1 DEF MetricsInv, NoBlankOnDisk
  <2>3. \A f \in OnDisk : disk[f] # Blank
    BY Markers DEF TypeOK, OnDisk
  <2> QED BY <2>1, <2>2, <2>3 DEF NoBlankOnDisk
<1>4. OfRows'
  BY DEF OfRows, Early
<1>5. OfDisk'
  BY DEF MetricsInv, OfDisk, Counts, Counted, Parsed
<1> QED BY <1>1, <1>2, <1>3, <1>4, <1>5 DEF MetricsInv

LEMMA MetricsBegin ==
  ASSUME TypeOK, MetricsInv,
         \/ Editing \/ (\E force, dryRun \in BOOLEAN : Start(force, dryRun)) \/ PrepareProjectDir
         \/ ConnectDatabase \/ SetUpTables \/ DetectChanges \/ MarkModifiedFiles \/ ListOnly
  PROVE  MetricsInv'
<1>1. CASE Editing
  <2>1. run.pc = "idle" /\ run' = run /\ db' = db /\ since \subseteq since'
    BY <1>1 DEF Editing, Delete, Modify, Add, Reconfigure, Edit
  <2>2. since' = {} => \A f \in OnDisk' : f \in OnDisk \/ db.file[f] # Blank
    <3>1. disk \in [Files -> Versions \cup {Absent}]
      BY DEF TypeOK
    <3>2. ASSUME NEW f \in Files, Delete(f) PROVE OnDisk' \subseteq OnDisk
      BY <3>1, <3>2 DEF Delete, OnDisk
    <3>3. ASSUME NEW f \in Files, NEW v \in Versions, Modify(f, v) PROVE OnDisk' \subseteq OnDisk
      BY <3>1, <3>3 DEF Modify, OnDisk
    <3>4. ASSUME NEW f \in Files, NEW v \in Versions, Add(f, v), since' = {}
          PROVE  db.file[f] # Blank /\ OnDisk' \subseteq OnDisk \cup {f}
      BY <3>1, <3>4 DEF Add, OnDisk
    <3>5. ASSUME NEW cs \in CompDbs, Reconfigure(cs) PROVE OnDisk' = OnDisk
      BY <3>5 DEF Reconfigure, OnDisk
    <3> QED BY <1>1, <3>2, <3>3, <3>4, <3>5 DEF Editing
  <2>3. LocOnce' /\ CacheInv'
    BY <2>1 DEF MetricsInv, LocOnce, CacheInv, Early
  <2>4. NoBlankOnDisk'
    BY <2>1, <2>2 DEF MetricsInv, NoBlankOnDisk, Early
  <2>5. OfRows'
    BY <2>1 DEF MetricsInv, OfRows, Counts, Early
  <2>6. OfDisk'
    BY <2>1 DEF OfDisk, Counted, Parsed
  <2> QED BY <2>3, <2>4, <2>5, <2>6 DEF MetricsInv
<1>2. ASSUME NEW force \in BOOLEAN, NEW dryRun \in BOOLEAN, Start(force, dryRun) PROVE MetricsInv'
  <2>1. /\ run.pc = "idle" /\ run'.pc = "prepare"
        /\ disk' = disk /\ db' = db /\ since' = since
    BY <1>2 DEF Start, NoRun, project
  <2> QED BY <2>1, RowsFrame DEF RowStages, Early
<1>a. CASE ConnectDatabase
  <2>1. /\ run.pc = "connect" /\ run'.pc = "tables" /\ disk' = disk /\ since' = since
        /\ db'.file = db.file /\ db'.loc = db.loc
    BY <1>a DEF ConnectDatabase, TypeOK, RunType, DbType, project, history
  <2> QED BY <2>1, RowsFrame DEF RowStages, Early
<1>3. CASE PrepareProjectDir
  <2>1. /\ run.pc = "prepare" /\ run'.pc = "connect"
        /\ disk' = disk /\ db' = db /\ since' = since
    BY <1>3 DEF PrepareProjectDir, TypeOK, RunType, project, history
  <2> QED BY <2>1, RowsFrame DEF RowStages, Early
<1>4. CASE SetUpTables
  <2>1. run.pc = "tables" /\ run'.pc = "detect" /\ disk' = disk
    BY <1>4 DEF SetUpTables, TypeOK, RunType, project
  <2>2. CASE db' = db /\ since' = since
    BY <2>1, <2>2, RowsFrame DEF RowStages, Early
  <2>3. CASE db' = EmptyTables
    <3>1. /\ \A f \in Files : db'.file[f] = Absent
          /\ \A f \in Files : \A v \in Versions : db'.loc[<<f, v>>] = 0
      BY <2>3 DEF EmptyTables, NoDb, Node
    <3>2. LocOnce' /\ CacheInv'
      BY <2>1, <3>1 DEF LocOnce, CacheInv, Early
    <3>3. NoBlankOnDisk'
      BY <2>1, <3>1, Markers DEF NoBlankOnDisk, Early, OnDisk
    <3>4. OfRows'
      BY <2>1, <3>1, Markers DEF OfRows, Counts
    <3>5. OfDisk'
      BY <2>1 DEF OfDisk, Counted, Parsed
    <3> QED BY <3>2, <3>3, <3>4, <3>5 DEF MetricsInv
  <2> QED BY <1>4, <2>2, <2>3 DEF SetUpTables
<1>5. CASE DetectChanges
  <2>1. /\ run.pc = "detect" /\ run'.pc = "mark" /\ disk' = disk /\ db' = db /\ since' = since
        /\ run'.files = db.file
        /\ run'.fileIdCache = {f \in Files : \E n \in NodesOf(f) : db.loc[n] > 0}
    BY <1>5 DEF DetectChanges, TypeOK, RunType, project, history
  <2>2. \A f \in Files : f \in run'.fileIdCache <=> \E v \in Versions : db.loc[<<f, v>>] = 1
    <3>1. \A f \in Files : \A v \in Versions : db.loc[<<f, v>>] > 0 <=> db.loc[<<f, v>>] = 1
      BY DEF MetricsInv, LocOnce
    <3>2. \A f \in Files : f \in run'.fileIdCache <=> \E v \in Versions : db.loc[<<f, v>>] > 0
      <4>1. \A f \in Files : NodesOf(f) = {<<f, v>> : v \in Versions}
        BY DEF NodesOf
      <4>2. \A f \in Files : f \in run'.fileIdCache <=> \E n \in NodesOf(f) : db.loc[n] > 0
        BY <2>1
      <4> QED BY <4>1, <4>2, Zenon
    <3> QED BY <3>1, <3>2
  <2>3. LocOnce'
    BY <2>1 DEF MetricsInv, LocOnce
  <2>4. CacheInv'
    <3>1. \A f \in Files : \A v \in Versions : db.loc[<<f, v>>] \in {0, 1}
      BY DEF MetricsInv, LocOnce
    <3>2. run'.fileIdCache \subseteq Files
      BY <2>1
    <3> QED BY <2>1, <2>2, <3>1, <3>2 DEF CacheInv, Counted
  <2>5. NoBlankOnDisk'
    BY <2>1 DEF MetricsInv, NoBlankOnDisk, OnDisk
  <2>6. OfRows'
    BY <2>1 DEF MetricsInv, OfRows, Counts, Early
  <2>7. OfDisk'
    BY <2>1 DEF OfDisk, Counted, Parsed
  <2> QED BY <2>3, <2>4, <2>5, <2>6, <2>7 DEF MetricsInv
<1>6. CASE MarkModifiedFiles
  <2>1. /\ run.pc = "mark" /\ run'.pc = "decide" /\ disk' = disk /\ db' = db /\ since' = since
        /\ run'.files = run.files /\ run'.fileIdCache = run.fileIdCache
    BY <1>6 DEF MarkModifiedFiles, TypeOK, RunType, project, history
  <2> QED BY <2>1, RowsFrame DEF RowStages, Early
<1>7. CASE ListOnly
  <2>1. /\ run.pc = "decide" /\ run'.pc = "exit" /\ run'.dryRun /\ disk' = disk /\ db' = db
        /\ since' = since /\ run'.files = run.files
    BY <1>7 DEF ListOnly, TypeOK, RunType, project, history
  <2>2. LocOnce' /\ CacheInv'
    BY <2>1 DEF MetricsInv, LocOnce, CacheInv
  <2>3. NoBlankOnDisk'
    BY <2>1 DEF MetricsInv, NoBlankOnDisk, OnDisk, Early
  <2>4. OfRows'
    BY <2>1 DEF MetricsInv, OfRows, Counts, Early
  <2>5. OfDisk'
    BY <2>1 DEF OfDisk, Counted, Parsed
  <2> QED BY <2>2, <2>3, <2>4, <2>5 DEF MetricsInv
<1> QED BY <1>1, <1>2, <1>a, <1>3, <1>4, <1>5, <1>6, <1>7

LEMMA MetricsDecide ==
  ASSUME TypeOK, FilesInv, MetricsInv, ForceByThreshold \/ Proceed
  PROVE  MetricsInv'
<1>1. CASE ForceByThreshold
  <2>1. run'.pc = "parse" /\ since' # {}
    BY <1>1 DEF ForceByThreshold, TypeOK, RunType
  <2>2. \A f \in Files : \A v \in Versions : db'.loc[<<f, v>>] = 0
    BY <1>1 DEF ForceByThreshold, EmptyTables, NoDb, Node
  <2>3. LocOnce' /\ CacheInv'
    BY <2>1, <2>2 DEF LocOnce, CacheInv
  <2> QED BY <2>1, <2>3 DEF MetricsInv, NoBlankOnDisk, OfRows, OfDisk
<1>2. CASE Proceed /\ ~run.force
  <2>1. /\ run.pc = "decide" /\ run'.pc = "order" /\ disk' = disk /\ db' = db /\ since' = since
        /\ run'.files = run.files /\ run'.fileIdCache = run.fileIdCache
    BY <1>2 DEF Proceed, TypeOK, RunType, project, history
  <2> QED BY <2>1, RowsFrame DEF RowStages, Early
<1>3. CASE Proceed /\ run.force
  <2>1. /\ run.pc = "decide" /\ run'.pc = "parse" /\ disk' = disk /\ db' = db /\ since' = since
        /\ run'.files = run.files /\ run'.fileIdCache = run.fileIdCache
    BY <1>3 DEF Proceed, TypeOK, RunType, project, history
  <2>2. LocOnce'
    BY <2>1 DEF MetricsInv, LocOnce
  <2>3. CacheInv'
    BY <2>1 DEF MetricsInv, CacheInv, Early, Counted
  <2>4. NoBlankOnDisk'
    BY <2>1 DEF MetricsInv, NoBlankOnDisk, OnDisk, Early
  <2>5. OfRows'
    BY <2>1 DEF OfRows, Early
  <2>6. OfDisk'
    <3> SUFFICES ASSUME since = {}
                 PROVE  Counts([f \in Files |-> IF f \in run.fileIdCache THEN disk[f] ELSE Absent])'
      BY <2>1 DEF OfDisk, Counted, Parsed
    <3>1. \A f \in Files : db.file[f] = Absent
      BY <1>3, <2>1 DEF FilesInv, Early
    <3>2. \A f \in Files : \A v \in Versions : db.loc[<<f, v>>] = 0
      <4>1. Counts(db.file)
        BY <2>1 DEF MetricsInv, OfRows
      <4>2. \A f \in Files : \A v \in Versions : db.file[f] # v
        BY <3>1, Markers
      <4> QED BY <4>1, <4>2, Zenon DEF Counts
    <3>3. run.fileIdCache = {}
      <4>1. \A f \in run.fileIdCache : f \in Files /\ \E v \in Versions : db.loc[<<f, v>>] = 1
        BY <2>1 DEF MetricsInv, CacheInv, TypeOK, RunType
      <4> QED BY <3>2, <4>1, ZeroNotOne, Zenon
    <3> QED BY <2>1, <3>2, <3>3, Markers DEF Counts
  <2> QED BY <2>2, <2>3, <2>4, <2>5, <2>6 DEF MetricsInv
<1> QED BY <1>1, <1>2, <1>3

LEMMA MetricsClean ==
  ASSUME TypeOK, FilesInv, CleanInv, MetricsInv,
         \/ CreateCleanupOrder \/ StartLevel \/ CleanupSucceeded \/ CleanupMetrics \/ FilesRemoved
         \/ \E f \in Files :
              CleanupJob(f) \/ CleanupJobDeadlock(f) \/ CleanupJobFails(f) \/ RemoveFile(f)
  PROVE  MetricsInv'
<1>1. CASE CreateCleanupOrder \/ StartLevel \/ CleanupSucceeded
  <2>1. /\ run.pc \in {"order", "cleanup"} /\ run'.pc \in {"cleanup", "cleanMetrics"}
        /\ disk' = disk /\ db' = db /\ since \subseteq since'
        /\ run'.files = run.files /\ run'.fileIdCache = run.fileIdCache
    BY <1>1 DEF CreateCleanupOrder, StartLevel, CleanupSucceeded, LevelsDone, TypeOK, RunType,
                project, history
  <2> QED BY <2>1, RowsFrame DEF RowStages, Early
<1>2. ASSUME NEW f \in Files, CleanupJob(f) \/ CleanupJobDeadlock(f) \/ CleanupJobFails(f)
      PROVE  MetricsInv'
  <2>1. /\ run.pc = "cleanup" /\ run'.pc = "cleanup" /\ disk' = disk /\ since \subseteq since'
        /\ run'.files = run.files /\ run'.fileIdCache = run.fileIdCache
    BY <1>2 DEF CleanupJob, CleanupJobDeadlock, CleanupJobFails, TypeOK, RunType, project, history
  <2>2. db'.file = db.file /\ db'.loc = db.loc
    BY <1>2 DEF CleanupJob, CleanupJobDeadlock, CleanupJobFails, CleanFile, TypeOK, DbType
  <2> QED BY <2>1, <2>2, RowsFrame DEF RowStages, Early
<1>3. CASE CleanupMetrics
  <2> DEFINE changed == Marked \cap run.fileIdCache \cap Rows(db.file)
  <2>1. /\ run.pc = "cleanMetrics" /\ run'.pc = "cleanFiles" /\ disk' = disk /\ since' = since
        /\ run'.files = run.files /\ run'.fileIdCache = run.fileIdCache \ changed
        /\ run'.status = run.status
    BY <1>3 DEF CleanupMetrics, TypeOK, RunType, project, history
  <2>2. /\ db'.file = db.file
        /\ \A f \in Files : \A v \in Versions :
             db'.loc[<<f, v>>] = IF f \in changed THEN 0 ELSE db.loc[<<f, v>>]
    BY <1>3 DEF CleanupMetrics, Erase, Node, TypeOK, DbType
  <2>a. run.fileIdCache \subseteq Files /\ Marked' = Marked
    BY <2>1 DEF TypeOK, RunType, Marked
  <2>3. LocOnce'
    <3> HIDE DEF changed
    <3> QED BY <2>2, LocFewer DEF MetricsInv
  <2>4. CacheInv'
    <3> HIDE DEF changed
    <3> QED BY <2>1, <2>2, <2>a DEF MetricsInv, CacheInv, Early, Counted
  <2>5. NoBlankOnDisk'
    BY <2>1, <2>2 DEF MetricsInv, NoBlankOnDisk, OnDisk, Early
  <2>6. ASSUME since = {}
        PROVE  run'.fileIdCache \cap Marked = {}
    <3> SUFFICES ASSUME NEW f \in run.fileIdCache, f \in Marked PROVE f \in Rows(db.file)
      BY <2>1
    <3>1. PICK v \in Versions : db.loc[<<f, v>>] = 1
      BY <2>1 DEF MetricsInv, CacheInv
    <3>2. db.file[f] = v
      BY <2>1, <2>6, <2>a, <3>1 DEF MetricsInv, OfRows, Counts
    <3> QED BY <2>a, <3>2, Markers DEF Rows
  <2>7. ASSUME since = {}, NEW f \in Files, NEW v \in Versions
        PROVE  db'.loc[<<f, v>>] = IF f \in Marked THEN 0 ELSE IF db.file[f] = v THEN 1 ELSE 0
    <3>1. CASE f \in changed
      BY <2>2, <3>1
    <3>2. CASE f \in Marked /\ f \notin changed
      <4>1. f \notin run'.fileIdCache /\ f \notin run.fileIdCache
        BY <2>1, <2>6, <2>7, <3>2
      <4>2. db.loc[<<f, v>>] = 0
        BY <2>1, <4>1 DEF MetricsInv, CacheInv, Early, Counted
      <4> QED BY <2>2, <3>2, <4>2
    <3>3. CASE f \notin Marked
      BY <2>1, <2>2, <2>7, <3>3 DEF MetricsInv, OfRows, Counts
    <3> QED BY <3>1, <3>2, <3>3
  <2>8. OfRows'
    BY <2>1, <2>2, <2>6, <2>7, <2>a, Markers DEF OfRows, Counts, Early
  <2>9. OfDisk'
    BY <2>1 DEF OfDisk, Counted, Parsed
  <2> QED BY <2>3, <2>4, <2>5, <2>8, <2>9 DEF MetricsInv
<1>4. ASSUME NEW f \in Files, RemoveFile(f) PROVE MetricsInv'
  <2>1. /\ run.pc = "cleanFiles" /\ run'.pc = "cleanFiles" /\ disk' = disk /\ since' = since
        /\ run'.files = [run.files EXCEPT ![f] = Absent] /\ run'.fileIdCache = run.fileIdCache
        /\ run'.status = run.status /\ f \in Marked
    BY <1>4 DEF RemoveFile, CleanInv, TypeOK, RunType, project, history
  <2>2. db'.file = [db.file EXCEPT ![f] = Absent] /\ db'.loc = db.loc
    BY <1>4 DEF RemoveFile, RemoveRow, TypeOK, DbType
  <2>3. db.file \in [Files -> Versions \cup {Absent, Blank}]
        /\ run.files \in [Files -> Versions \cup {Absent, Blank}]
    BY DEF TypeOK, DbType, RunType
  <2>4. LocOnce' /\ CacheInv'
    BY <2>1, <2>2 DEF MetricsInv, LocOnce, CacheInv, Early, Counted
  <2>5. NoBlankOnDisk'
    BY <2>1, <2>2, <2>3, Markers DEF MetricsInv, NoBlankOnDisk, OnDisk, Early
  <2>6. OfRows'
    BY <2>1, <2>2, <2>3 DEF MetricsInv, OfRows, Counts, Early, Marked
  <2>7. OfDisk'
    BY <2>1 DEF OfDisk, Counted, Parsed
  <2> QED BY <2>4, <2>5, <2>6, <2>7 DEF MetricsInv
<1>5. CASE FilesRemoved
  <2>1. /\ run.pc = "cleanFiles" /\ run'.pc = "parse" /\ disk' = disk /\ db' = db /\ since' = since
        /\ run'.files = run.files /\ run'.fileIdCache = run.fileIdCache
    BY <1>5 DEF FilesRemoved, TypeOK, RunType, project, history
  <2>2. LocOnce' /\ CacheInv'
    BY <2>1 DEF MetricsInv, LocOnce, CacheInv, Early, Counted
  <2>3. NoBlankOnDisk'
    BY <2>1 DEF MetricsInv, NoBlankOnDisk, OnDisk, Early
  <2>4. OfRows'
    BY <2>1 DEF OfRows, Early
  <2>5. OfDisk'
    <3> SUFFICES ASSUME since = {}
                 PROVE  Counts([f \in Files |-> IF f \in run.fileIdCache THEN disk[f] ELSE Absent])'
      BY <2>1 DEF OfDisk, Counted, Parsed
    <3>1. \A f \in Files \ run.fileIdCache : \A v \in Versions : db.loc[<<f, v>>] = 0
      BY <2>1 DEF MetricsInv, CacheInv, Early, Counted
    <3>2. \A f \in run.fileIdCache : f \in Files \ Marked
      BY <2>1 DEF MetricsInv, OfRows, TypeOK, RunType
    <3>3. \A f \in run.fileIdCache : \A v \in Versions :
            db.loc[<<f, v>>] = IF db.file[f] = v THEN 1 ELSE 0
      BY <2>1, <3>2 DEF MetricsInv, OfRows, Counts
    <3>4. \A f \in run.fileIdCache : \E v \in Versions : db.file[f] = v
      <4>1. \A f \in run.fileIdCache : \E v \in Versions : db.loc[<<f, v>>] = 1
        BY <2>1 DEF MetricsInv, CacheInv
      <4>2. \A f \in run.fileIdCache : \A v \in Versions : db.file[f] # v => db.loc[<<f, v>>] = 0
        BY <3>3
      <4> SUFFICES ASSUME NEW f \in run.fileIdCache PROVE \E v \in Versions : db.file[f] = v
        OBVIOUS
      <4>3. PICK v \in Versions : db.loc[<<f, v>>] = 1
        BY <4>1
      <4>4. db.file[f] = v
        <5>1. db.file[f] # v => db.loc[<<f, v>>] = 0
          BY <4>2
        <5> QED BY <4>3, <5>1, ZeroNotOne, Zenon
      <4> QED BY <4>4
    <3>5. \A f \in run.fileIdCache : db.file[f] \in {Absent, Blank, disk[f]}
      BY <2>1, <3>2 DEF FilesInv, Early
    <3>6. \A f \in run.fileIdCache : db.file[f] = disk[f]
      BY <3>4, <3>5, Markers
    <3>7. \A f \in Files : \A v \in Versions : Absent # v
      BY Markers
    <3>8. ASSUME NEW f \in Files, NEW v \in Versions
          PROVE  db.loc[<<f, v>>] = IF (IF f \in run.fileIdCache THEN disk[f] ELSE Absent) = v THEN 1 ELSE 0
      <4>1. CASE f \in run.fileIdCache
        BY <3>3, <3>6, <4>1
      <4>2. CASE f \notin run.fileIdCache
        BY <3>1, <3>7, <4>2
      <4> QED BY <4>1, <4>2
    <3> QED BY <2>1, <3>8 DEF Counts
  <2> QED BY <2>2, <2>3, <2>4, <2>5 DEF MetricsInv
<1> QED BY <1>1, <1>2, <1>3, <1>4, <1>5

LEMMA EntriesOnDisk ==
  ASSUME TypeOK, NEW files \in [Files -> Versions \cup {Absent, Blank}], NEW fs, NEW f \in OnDisk
  PROVE  WithEntries(files, fs)[f] \in {files[f], disk[f]}
BY DEF WithEntries, Content, OnDisk

LEMMA MetricsParse ==
  ASSUME TypeOK, MetricsInv, Parsing
  PROVE  MetricsInv'
<1>a. OnDisk \subseteq Files
  BY DEF OnDisk
<1>1. CASE StartParse \/ ParseDone
  BY <1>1, DiskFrame DEF StartParse, ParseDone, TypeOK, RunType, project, history
<1>2. ASSUME NEW c \in Commands,
             StartJob(c) \/ Claim(c) \/ Store(c) \/ StoreInclusions(c) \/ RecordCommand(c)
      PROVE  MetricsInv'
  <2> DEFINE claimed == WithEntries(run.files, Unit(Source[c]))
             recorded == WithEntries(run.files, {Source[c]})
  <2>0. run.files \in [Files -> Versions \cup {Absent, Blank}]
        /\ claimed \in [Files -> Versions \cup {Absent, Blank}]
        /\ recorded \in [Files -> Versions \cup {Absent, Blank}]
    BY EntriesType DEF TypeOK, RunType
  <2>1. run.pc = "parsing" /\ run'.pc = "parsing" /\ disk' = disk /\ since' = since
        /\ run'.fileIdCache = run.fileIdCache
    BY <1>2 DEF StartJob, Claim, Store, StoreInclusions, RecordCommand, TypeOK, RunType, Running,
                project, history
  <2>2. run'.files \in {run.files, claimed, recorded}
    BY <1>2 DEF StartJob, Claim, Store, StoreInclusions, RecordCommand, TypeOK, RunType
  <2>3. db'.loc = db.loc
    BY <1>2 DEF StartJob, Claim, Store, StoreInclusions, RecordCommand, PersistFiles, TypeOK, DbType
  <2>4. db'.file = db.file \/ db'.file = PersistFiles(db, run'.files).file
    <3>1. StartJob(c) \/ Claim(c) => db'.file = db.file
      BY DEF StartJob, Claim, TypeOK, DbType
    <3>2. PersistFiles(db, run.files) \in DbType /\ PersistFiles(db, recorded) \in DbType
      BY <2>0, PersistType DEF TypeOK
    <3>3. Store(c) \/ StoreInclusions(c)
            => run'.files = run.files /\ db'.file = PersistFiles(db, run.files).file
      BY <3>2 DEF Store, StoreInclusions, TypeOK, RunType, DbType
    <3>4. RecordCommand(c) => run'.files = recorded /\ db'.file = PersistFiles(db, recorded).file
      BY <3>2 DEF RecordCommand, TypeOK, RunType, DbType
    <3> QED BY <1>2, <3>1, <3>3, <3>4
  <2>5. \A f \in OnDisk : claimed[f] \in {run.files[f], disk[f]} /\ recorded[f] \in {run.files[f], disk[f]}
    BY <2>0, EntriesOnDisk
  <2> HIDE DEF claimed, recorded
  <2>6. \A f \in OnDisk : run'.files[f] \in {run.files[f], disk[f]}
    BY <2>2, <2>5
  <2>7. \A f \in OnDisk : db'.file[f] \in {db.file[f], run'.files[f]}
    <3>1. run'.files \in [Files -> Versions \cup {Absent, Blank}]
      BY <2>0, <2>2
    <3>2. \A f \in Files : PersistFiles(db, run'.files).file[f] \in {db.file[f], run'.files[f]}
      BY <3>1, Persisted DEF TypeOK
    <3> QED BY <1>a, <2>4, <3>2
  <2> QED BY <2>1, <2>3, <2>6, <2>7, DiskFrame
<1> QED BY <1>1, <1>2 DEF Parsing

LEMMA MetricsOfJob ==
  ASSUME TypeOK, FilesInv, MetricsInv, NEW f \in Files, MetricsJob(f)
  PROVE  MetricsInv'
<1> DEFINE files == WithEntries(run.files, {f})
<1>a. run.files \in [Files -> Versions \cup {Absent, Blank}] /\ db.loc \in [Node -> Nat]
      /\ disk \in [Files -> Versions \cup {Absent}] /\ run.fileIdCache \subseteq Files
  BY DEF TypeOK, RunType, DbType
<1>1. /\ run.pc = "counting" /\ run'.pc = "counting" /\ disk' = disk /\ since' = since
      /\ run'.files = files /\ run'.todo = run.todo \ {f} /\ run'.fileIdCache = run.fileIdCache
      /\ f \in run.todo
  BY DEF MetricsJob, TypeOK, RunType, project, history
<1>2. f \in OnDisk /\ disk[f] \in Versions
  BY <1>a, <1>1 DEF MetricsInv, CacheInv, OnDisk
<1>3. files[f] = IF run.files[f] = Absent THEN disk[f] ELSE run.files[f]
  BY <1>2 DEF WithEntries, Content
<1>4. run.files[f] \in {Absent, Blank, disk[f]}
  BY <1>1 DEF FilesInv, Late
<1>5. \A g \in OnDisk : files[g] \in {run.files[g], disk[g]}
  BY <1>a, EntriesOnDisk
<1>6. \A g \in OnDisk : run.files[g] # Absent => files[g] # Absent
  BY <1>a, Entries DEF OnDisk
<1>b. \A g \in Files \ {f} : files[g] = run.files[g]
  BY DEF WithEntries
<1> HIDE DEF files
<1>7. files[f] = Blank \/ files[f] = disk[f]
  BY <1>3, <1>4
<1>8. db'.file = db.file
  BY DEF MetricsJob, TypeOK, DbType
<1>9. f \in run.fileIdCache \/ files[f] = Blank => db'.loc = db.loc
  BY DEF MetricsJob, files
<1>10. f \notin run.fileIdCache /\ files[f] # Blank =>
         \A g \in Files : \A v \in Versions :
           db'.loc[<<g, v>>] = IF g = f /\ v = disk[f] THEN 1 ELSE db.loc[<<g, v>>]
  <2> SUFFICES ASSUME f \notin run.fileIdCache, files[f] # Blank
               PROVE  \A g \in Files : \A v \in Versions :
                        db'.loc[<<g, v>>] = IF g = f /\ v = disk[f] THEN 1 ELSE db.loc[<<g, v>>]
    OBVIOUS
  <2>1. db.loc[<<f, disk[f]>>] = 0
    BY <1>1, <1>2 DEF MetricsInv, CacheInv, Early, Counted
  <2>2. db'.loc = [db.loc EXCEPT ![<<f, disk[f]>>] = db.loc[<<f, disk[f]>>] + 1]
    BY <1>7 DEF MetricsJob, files, TypeOK, DbType
  <2>3. db'.loc = [db.loc EXCEPT ![<<f, disk[f]>>] = 1]
    BY <2>1, <2>2, ZeroPlusOne, Zenon
  <2>4. <<f, disk[f]>> \in Node
    BY <1>2 DEF Node
  <2> QED BY <1>a, <2>3, <2>4 DEF Node
<1>11. f \notin run.fileIdCache => \A v \in Versions : db.loc[<<f, v>>] = 0
  BY <1>1 DEF MetricsInv, CacheInv, Early, Counted
<1>12. \A g \in Files \ {f} : \A v \in Versions : db'.loc[<<g, v>>] = db.loc[<<g, v>>]
  BY <1>9, <1>10
<1>13. LocOnce'
  <2>1. LocOnce
    BY DEF MetricsInv
  <2>2. CASE f \in run.fileIdCache \/ files[f] = Blank
    <3>1. db'.loc = db.loc
      BY <1>9, <2>2
    <3> QED BY <2>1, <3>1, LocFewer
  <2>3. CASE f \notin run.fileIdCache /\ files[f] # Blank
    <3>1. \A v \in Versions : db'.loc[<<f, v>>] = IF v = disk[f] THEN 1 ELSE 0
      BY <1>10, <1>11, <2>3
    <3>2. \A v \in Versions : db'.loc[<<f, v>>] \in {0, 1} /\ (db'.loc[<<f, v>>] = 1 => v = disk[f])
      <4> TAKE v \in Versions
      <4>1. CASE v = disk[f]
        BY <3>1, <4>1
      <4>2. CASE v # disk[f]
        <5>1. db'.loc[<<f, v>>] = 0
          BY <3>1, <4>2
        <5> QED BY <5>1, ZeroNotOne, Zenon
      <4> QED BY <4>1, <4>2
    <3> SUFFICES ASSUME NEW g \in Files, NEW v \in Versions, NEW w \in Versions
                 PROVE  /\ db'.loc[<<g, v>>] \in {0, 1}
                        /\ db'.loc[<<g, v>>] = 1 /\ db'.loc[<<g, w>>] = 1 => v = w
      BY DEF LocOnce
    <3>3. CASE g = f
      BY <3>2, <3>3
    <3>4. CASE g # f
      <4>1. db'.loc[<<g, v>>] = db.loc[<<g, v>>] /\ db'.loc[<<g, w>>] = db.loc[<<g, w>>]
        BY <1>12, <3>4
      <4> QED BY <2>1, <4>1 DEF LocOnce
    <3> QED BY <3>3, <3>4
  <2> QED BY <2>2, <2>3
<1>14. CacheInv'
  <2>1. OnDisk' = OnDisk /\ run.todo \subseteq OnDisk
    BY <1>1 DEF OnDisk, MetricsInv, CacheInv
  <2>2. \A g \in Files \ run.fileIdCache : g \in run'.todo => \A v \in Versions : db'.loc[<<g, v>>] = 0
    <3>1. \A g \in Files \ run.fileIdCache : g \in run.todo => \A v \in Versions : db.loc[<<g, v>>] = 0
      BY <1>1 DEF MetricsInv, CacheInv, Early, Counted
    <3> QED BY <1>1, <1>12, <3>1
  <2> QED BY <1>1, <2>1, <2>2 DEF CacheInv, Counted
<1>15. since = {} => run.files[f] # Blank /\ files[f] = disk[f]
  <2>1. since = {} => run.files[f] # Blank
    BY <1>1, <1>2 DEF MetricsInv, NoBlankOnDisk, Early
  <2> QED BY <1>3, <1>4, <2>1
<1>16. NoBlankOnDisk'
  <2>1. \A g \in OnDisk : disk[g] # Blank
    BY <1>a, Markers DEF OnDisk
  <2>2. since = {} => \A g \in OnDisk : db.file[g] # Blank /\ run.files[g] # Blank
    BY <1>1 DEF MetricsInv, NoBlankOnDisk, Early
  <2>3. OnDisk' = OnDisk
    BY <1>1 DEF OnDisk
  <2> QED BY <1>1, <1>5, <1>8, <2>1, <2>2, <2>3 DEF NoBlankOnDisk
<1>17. OfRows'
  BY <1>1 DEF OfRows, Early
<1>18. OfDisk'
  <2> SUFFICES ASSUME since = {}
               PROVE  /\ \A g \in Files : \A v \in Versions :
                           db'.loc[<<g, v>>] =
                             IF (IF g \in run.fileIdCache \/ g \notin run.todo \ {f} THEN disk[g] ELSE Absent) = v
                             THEN 1 ELSE 0
                      /\ \A g \in OnDisk \ (run.todo \ {f}) : files[g] # Absent
    <3>1. OnDisk' = OnDisk
      BY <1>1 DEF OnDisk
    <3> QED BY <1>1, <3>1 DEF OfDisk, Counts, Counted, Parsed
  <2>1. \A g \in Files : \A v \in Versions :
          db.loc[<<g, v>>] =
            IF (IF g \in run.fileIdCache \/ g \notin run.todo THEN disk[g] ELSE Absent) = v THEN 1 ELSE 0
    BY <1>1 DEF MetricsInv, OfDisk, Counts
  <2>2. \A g \in OnDisk \ run.todo : run.files[g] # Absent
    BY <1>1 DEF MetricsInv, OfDisk
  <2>3. disk[f] # Absent /\ disk[f] # Blank
    BY <1>2, Markers
  <2>4. \A g \in OnDisk \ (run.todo \ {f}) : files[g] # Absent
    BY <1>6, <1>15, <2>2, <2>3
  <2>5. ASSUME NEW g \in Files, NEW v \in Versions
        PROVE  db'.loc[<<g, v>>] =
                 IF (IF g \in run.fileIdCache \/ g \notin run.todo \ {f} THEN disk[g] ELSE Absent) = v
                 THEN 1 ELSE 0
    <3>1. CASE g # f
      BY <1>12, <2>1, <3>1
    <3>2. CASE g = f /\ f \in run.fileIdCache
      BY <1>9, <2>1, <3>2
    <3>3. CASE g = f /\ f \notin run.fileIdCache
      <4>1. db'.loc[<<g, v>>] = IF v = disk[f] THEN 1 ELSE db.loc[<<g, v>>]
        BY <1>10, <1>15, <2>3, <3>3
      <4>2. db.loc[<<g, v>>] = 0
        BY <1>11, <3>3
      <4> QED BY <3>3, <4>1, <4>2
    <3> QED BY <3>1, <3>2, <3>3
  <2> QED BY <2>4, <2>5
<1> QED BY <1>13, <1>14, <1>16, <1>17, <1>18 DEF MetricsInv

LEMMA MetricsLast ==
  ASSUME TypeOK, DryInv, FilesInv, MetricsInv,
         StartMetrics \/ MetricsDone \/ CreateIndexes \/ ParseCppMetrics \/ WriteProjectInfo
  PROVE  MetricsInv'
<1>a. db'.loc = db.loc /\ db'.file = db.file /\ disk' = disk /\ since' = since
      /\ run'.files = run.files /\ run'.fileIdCache = run.fileIdCache
  <2>1. CASE StartMetrics \/ MetricsDone
    BY <2>1 DEF StartMetrics, MetricsDone, TypeOK, RunType, project, history
  <2>2. CASE CreateIndexes
    BY <2>2 DEF CreateIndexes, TypeOK, RunType, DbType, project, history
  <2>3. CASE ParseCppMetrics
    BY <2>3 DEF ParseCppMetrics, TypeOK, RunType, DbType, project, history
  <2>4. CASE WriteProjectInfo
    BY <2>4 DEF WriteProjectInfo, TypeOK, RunType, project, history
  <2> QED BY <2>1, <2>2, <2>3, <2>4
<1>b. LocOnce'
  BY <1>a DEF MetricsInv, LocOnce
<1>c. OnDisk' = OnDisk /\ OnDisk \subseteq Files
  BY <1>a DEF OnDisk
<1>d. run.pc \notin Early /\ run'.pc \in {"counting", "index", "cppMetrics", "config", "exit"}
  BY DEF StartMetrics, MetricsDone, CreateIndexes, ParseCppMetrics, WriteProjectInfo, TypeOK,
         RunType, Early
<1>e. NoBlankOnDisk'
  BY <1>a, <1>c, <1>d DEF MetricsInv, NoBlankOnDisk
<1>1. CASE StartMetrics
  <2>1. run.pc = "metrics" /\ run'.pc = "counting" /\ run'.todo = OnDisk
    BY <1>1 DEF StartMetrics, TypeOK, RunType
  <2>2. CacheInv'
    BY <1>a, <1>c, <2>1 DEF MetricsInv, CacheInv, Early, Counted
  <2>3. OfRows'
    BY <2>1 DEF OfRows, Early
  <2>4. \A f \in Files \ OnDisk : disk[f] = Absent
    BY DEF OnDisk
  <2>5. OfDisk'
    <3> SUFFICES ASSUME since = {}
                 PROVE  Counts([f \in Files |->
                          IF f \in run.fileIdCache \/ f \notin OnDisk THEN disk[f] ELSE Absent])'
      BY <1>a, <1>c, <2>1 DEF OfDisk, Counted, Parsed
    <3>1. Counts([f \in Files |-> IF f \in run.fileIdCache THEN disk[f] ELSE Absent])
      BY <2>1 DEF MetricsInv, OfDisk
    <3>2. [f \in Files |-> IF f \in run.fileIdCache THEN disk[f] ELSE Absent]
            = [f \in Files |-> IF f \in run.fileIdCache \/ f \notin OnDisk THEN disk[f] ELSE Absent]
      BY <2>4
    <3>3. Counts([f \in Files |-> IF f \in run.fileIdCache \/ f \notin OnDisk THEN disk[f] ELSE Absent])
      BY <3>1, <3>2
    <3>4. ASSUME NEW f \in Files, NEW v \in Versions
          PROVE  db.loc[<<f, v>>] =
                   IF (IF f \in run.fileIdCache \/ f \notin OnDisk THEN disk[f] ELSE Absent) = v THEN 1 ELSE 0
      BY <3>3 DEF Counts
    <3> QED BY <1>a, <1>c, <3>4 DEF Counts
  <2> QED BY <1>b, <1>e, <2>2, <2>3, <2>5 DEF MetricsInv
<1>2. CASE MetricsDone
  <2>1. run.pc = "counting" /\ run'.pc = "index" /\ run.todo = {}
    BY <1>2 DEF MetricsDone, TypeOK, RunType
  <2>2. CacheInv' /\ OfRows'
    BY <2>1 DEF CacheInv, OfRows, Early, Counted
  <2>3. OfDisk'
    <3> SUFFICES ASSUME since = {}
                 PROVE  Counts(disk)' /\ \A f \in OnDisk : run.files[f] # Absent
      BY <1>a, <1>c, <2>1 DEF OfDisk, Counted, Parsed
    <3>1. Counts([f \in Files |->
                 IF f \in run.fileIdCache \/ f \notin run.todo THEN disk[f] ELSE Absent])
          /\ \A f \in OnDisk \ run.todo : run.files[f] # Absent
      BY <2>1 DEF MetricsInv, OfDisk
    <3> QED BY <1>a, <2>1, <3>1 DEF Counts
  <2> QED BY <1>b, <1>e, <2>2, <2>3 DEF MetricsInv
<1>3. CASE CreateIndexes \/ ParseCppMetrics \/ WriteProjectInfo
  <2>1. run.pc \in Counted /\ run'.pc \in Counted \cup {"exit"} /\ run'.dryRun = run.dryRun
    BY <1>3 DEF CreateIndexes, ParseCppMetrics, WriteProjectInfo, TypeOK, RunType, Counted
  <2>2. ~run.dryRun
    BY <1>d, <2>1 DEF DryInv, Early, Counted
  <2>3. CacheInv' /\ OfRows'
    BY <2>1, <2>2 DEF CacheInv, OfRows, Early, Counted
  <2>4. OfDisk'
    <3>1. since = {} => Counts(disk) /\ \A f \in OnDisk : run.files[f] # Absent
      BY <2>1 DEF MetricsInv, OfDisk
    <3> QED BY <1>a, <1>c, <2>1, <3>1 DEF OfDisk, Counts, Counted
  <2> QED BY <1>b, <1>e, <2>3, <2>4 DEF MetricsInv
<1> QED BY <1>1, <1>2, <1>3

LEMMA MetricsEnd ==
  ASSUME TypeOK, DryInv, FilesInv, MetricsInv,
         \/ DetectThrows \/ MarkThrows \/ CreateCleanupOrderThrows \/ CleanupFailed
         \/ RemoveFileThrows
         \/ (\E f \in Files : CleanupJobThrows(f)) \/ Crash \/ Exit
  PROVE  MetricsInv'
<1>1. run'.pc = "idle" /\ disk' = disk /\ db'.loc = db.loc
  BY Ends DEF NoRun, PersistFiles, TypeOK, DbType
<1>2. LocOnce'
  BY <1>1 DEF MetricsInv, LocOnce
<1>3. CacheInv' /\ OfDisk'
  BY <1>1 DEF CacheInv, OfDisk, Early, Counted, Parsed
<1>4. CASE Die
  BY <1>2, <1>3, <1>4 DEF Die, MetricsInv, NoBlankOnDisk, OfRows
<1>5. CASE Exit
  <2>1. run.pc = "exit" /\ since' = since /\ db' = PersistFiles(db, run.files)
    BY <1>5 DEF Exit
  <2>2. \A f \in Files : db'.file[f] = IF db.file[f] = Absent THEN run.files[f] ELSE db.file[f]
    BY <2>1, Persisted DEF TypeOK, RunType
  <2>3. OnDisk \subseteq Files /\ OnDisk' = OnDisk
    BY <1>1 DEF OnDisk
  <2>4. since = {} => \A f \in OnDisk : db.file[f] # Blank /\ run.files[f] # Blank
    BY <2>1 DEF MetricsInv, NoBlankOnDisk, Early
  <2>5. NoBlankOnDisk'
    BY <1>1, <2>1, <2>2, <2>3, <2>4 DEF NoBlankOnDisk, Early
  <2>6. OfRows'
    <3>1. SUFFICES ASSUME since = {} PROVE Counts(db.file)'
      BY <1>1, <2>1 DEF OfRows
    <3>2. CASE run.dryRun
      <4>1. Counts(db.file) /\ run.files = db.file
        BY <2>1, <3>1, <3>2 DEF MetricsInv, OfRows, DryInv, Early
      <4>2. db' = db
        BY <2>1, <4>1, PersistNothing DEF TypeOK
      <4> QED BY <4>1, <4>2 DEF Counts
    <3>3. CASE ~run.dryRun
      <4>1. Counts(disk) /\ \A f \in OnDisk : run.files[f] # Absent
        BY <2>1, <3>1, <3>3 DEF MetricsInv, OfDisk, Parsed
      <4>2. \A f \in Files : db.file[f] \in {Absent, run.files[f]} /\ run.files[f] \in {Absent, Blank, disk[f]}
        BY <2>1, <3>3 DEF FilesInv, Parsed, Early
      <4>3. \A f \in Files : db'.file[f] = run.files[f]
        BY <2>2, <4>2
      <4>4. \A f \in OnDisk : db'.file[f] = disk[f]
        BY <2>3, <2>4, <3>1, <4>1, <4>2, <4>3
      <4>5. \A f \in Files \ OnDisk : db'.file[f] \in {Absent, Blank} /\ disk[f] = Absent
        BY <4>2, <4>3 DEF OnDisk
      <4>6. \A f \in Files : \A v \in Versions : db'.file[f] = v <=> disk[f] = v
        BY <4>4, <4>5, Markers
      <4>7. ASSUME NEW f \in Files, NEW v \in Versions
            PROVE  db'.loc[<<f, v>>] = IF db'.file[f] = v THEN 1 ELSE 0
        <5>1. db.loc[<<f, v>>] = IF disk[f] = v THEN 1 ELSE 0
          BY <4>1 DEF Counts
        <5>2. CASE disk[f] = v
          BY <1>1, <4>6, <5>1, <5>2
        <5>3. CASE disk[f] # v
          BY <1>1, <4>6, <5>1, <5>3
        <5> QED BY <5>2, <5>3
      <4> QED BY <4>7 DEF Counts
    <3> QED BY <3>2, <3>3
  <2> QED BY <1>2, <1>3, <2>5, <2>6 DEF MetricsInv
<1> QED BY <1>4, <1>5 DEF DetectThrows, MarkThrows, CreateCleanupOrderThrows, CleanupFailed, RemoveFileThrows,
                          CleanupJobThrows, Crash

LEMMA MetricsStep ==
  ASSUME TypeOK, DryInv, FilesInv, CleanInv, MetricsInv, Next
  PROVE  MetricsInv'
BY MetricsBegin, MetricsDecide, MetricsClean, MetricsParse, MetricsOfJob, MetricsLast, MetricsEnd
   DEF Next, Cleaning

LEMMA OutcomeStep ==
  ASSUME TypeOK, OutcomeInv, Next
  PROVE  OutcomeInv' /\ (outcome' = "parsed" => Exit)
<1>0. SUFFICES (run'.pc = "idle" \/ outcome' = "none") /\ (outcome' = "parsed" => Exit)
  BY DEF OutcomeInv
<1>1. CASE Editing \/ \E force, dryRun \in BOOLEAN : Start(force, dryRun)
  BY <1>1 DEF Editing, Delete, Modify, Add, Reconfigure, Edit, Start
<1>2. CASE run.pc # "idle"
  <2>1. outcome = "none"
    BY <1>2 DEF OutcomeInv
  <2>2. CASE \/ DetectThrows \/ MarkThrows \/ CreateCleanupOrderThrows \/ CleanupFailed \/ RemoveFileThrows
             \/ (\E f \in Files : CleanupJobThrows(f)) \/ Crash \/ Exit
    <3>1. run'.pc = "idle"
      BY <2>2, Ends DEF NoRun
    <3>2. outcome' = "parsed" => Exit
      BY <2>2 DEF DetectThrows, MarkThrows, CreateCleanupOrderThrows, CleanupFailed, RemoveFileThrows,
                  CleanupJobThrows, Crash, Die
    <3> QED BY <3>1, <3>2
  <2>3. CASE Parsing
    BY <2>1, <2>3 DEF Parsing, StartParse, ParseDone, StartJob, Claim, Store, StoreInclusions,
                      RecordCommand, history
  <2>4. CASE \/ PrepareProjectDir \/ ConnectDatabase \/ SetUpTables \/ DetectChanges
             \/ MarkModifiedFiles \/ ListOnly \/ ForceByThreshold \/ Proceed \/ StartMetrics \/ (\E f \in Files : MetricsJob(f)) \/ MetricsDone
             \/ CreateIndexes \/ ParseCppMetrics \/ WriteProjectInfo
    BY <2>1, <2>4 DEF PrepareProjectDir, ConnectDatabase, SetUpTables, DetectChanges,
       MarkModifiedFiles, ListOnly, ForceByThreshold, Proceed, StartMetrics, MetricsJob, MetricsDone, CreateIndexes,
       ParseCppMetrics, WriteProjectInfo, history
  <2>5. CASE \/ CreateCleanupOrder \/ StartLevel \/ CleanupSucceeded \/ CleanupMetrics \/ FilesRemoved
             \/ \E f \in Files :
                  CleanupJob(f) \/ CleanupJobDeadlock(f) \/ CleanupJobFails(f) \/ RemoveFile(f)
    BY <2>1, <2>5 DEF CreateCleanupOrder, StartLevel, CleanupSucceeded, CleanupMetrics,
       FilesRemoved, CleanupJob, CleanupJobDeadlock, CleanupJobFails, RemoveFile, history
  <2>6. CASE Editing \/ \E force, dryRun \in BOOLEAN : Start(force, dryRun)
    BY <1>1, <2>6
  <2> QED BY <2>2, <2>3, <2>4, <2>5, <2>6 DEF Next, Cleaning
<1>3. CASE run.pc = "idle" /\ ~Editing /\ ~(\E force, dryRun \in BOOLEAN : Start(force, dryRun))
  <2>1. run = NoRun
    BY <1>3 DEF TypeOK
  <2>2. run.level = {} /\ run.pending = {} /\ \A c \in Commands : run.stage[c] = "idle"
    BY <2>1 DEF NoRun
  <2> QED
    BY <1>3, <2>2 DEF Next, PrepareProjectDir, ConnectDatabase, SetUpTables, DetectChanges,
         MarkModifiedFiles,       DetectThrows, MarkThrows, ListOnly, ForceByThreshold, Proceed, Cleaning, CreateCleanupOrder,
       CreateCleanupOrderThrows, StartLevel, CleanupJob, CleanupJobThrows, CleanupJobDeadlock,
       CleanupJobFails, CleanupFailed, LevelsDone, CleanupSucceeded, CleanupMetrics, RemoveFile,
       RemoveFileThrows, FilesRemoved, Parsing, StartParse, ParseDone, StartJob, Claim, Store,
       StoreInclusions, RecordCommand, StartMetrics, MetricsJob, MetricsDone, CreateIndexes,
       ParseCppMetrics, WriteProjectInfo, Exit, Crash
<1> QED BY <1>1, <1>2, <1>3

CountedWhenParsed == outcome = "parsed" /\ since = {} => Counts(disk)

LEMMA CompleteStep ==
  ASSUME TypeOK, OutcomeInv, MetricsInv, Next
  PROVE  CountedWhenParsed'
<1> SUFFICES ASSUME outcome' = "parsed", since' = {}
             PROVE  Counts(disk)'
  BY DEF CountedWhenParsed
<1>1. Exit
  BY OutcomeStep
<1>2. run.pc = "exit" /\ ~run.dryRun /\ since = {} /\ disk' = disk
      /\ db' = PersistFiles(db, run.files)
  BY <1>1 DEF Exit, project
<1>3. Counts(disk)
  BY <1>2 DEF MetricsInv, OfDisk, Parsed
<1>4. db'.loc = db.loc
  BY <1>2 DEF PersistFiles, TypeOK, DbType
<1>5. disk' = disk
  BY <1>2
<1>6. ASSUME NEW f \in Files, NEW v \in Versions
      PROVE  db'.loc[<<f, v>>] = IF disk'[f] = v THEN 1 ELSE 0
  <2>1. db.loc[<<f, v>>] = IF disk[f] = v THEN 1 ELSE 0
    BY <1>3 DEF Counts
  <2> QED BY <1>4, <1>5, <2>1, Zenon
<1> QED BY <1>6 DEF Counts

LEMMA MetricsParts ==
  ASSUME LocOnce, CountedWhenParsed
  PROVE  FileMetricsComplete
<1>1. \A f \in Files : NodesOf(f) = {<<f, v>> : v \in Versions}
  BY DEF NodesOf
<1>2. ASSUME NEW f \in Files, NEW m \in NodesOf(f), NEW n \in NodesOf(f)
      PROVE  db.loc[m] \in {0, 1} /\ (db.loc[m] = 1 /\ db.loc[n] = 1 => m = n)
  <2>1. PICK v \in Versions, w \in Versions : m = <<f, v>> /\ n = <<f, w>>
    BY <1>1
  <2> QED BY <2>1 DEF LocOnce
<1>3. ASSUME outcome = "parsed", since = {}, NEW n \in Node
      PROVE  db.loc[n] = IF disk[n[1]] = n[2] THEN 1 ELSE 0
  <2>1. PICK f \in Files, v \in Versions : n = <<f, v>>
    BY DEF Node
  <2>2. db.loc[<<f, v>>] = IF disk[f] = v THEN 1 ELSE 0
    BY <1>3 DEF CountedWhenParsed, Counts
  <2>3. n[1] = f /\ n[2] = v
    BY <2>1
  <2> QED BY <2>1, <2>2, <2>3, Zenon
<1> QED BY <1>2, <1>3 DEF FileMetricsComplete

MetricsIInv ==
  /\ TypeOK /\ DryInv /\ FilesInv /\ ClaimInv /\ CleanInv
  /\ MetricsInv /\ OutcomeInv /\ CountedWhenParsed

(* No file is counted twice, wherever the runs before were killed, and     *)
(* after a parse that no failure preceded exactly the contents on disk are *)
(* counted: what the metrics plugin has in its cache is what the parser    *)
(* has neither removed nor has to count.                                   *)
THEOREM FilesCounted == Spec => []FileMetricsComplete
<1>1. Init => MetricsIInv
  <2> SUFFICES ASSUME Init PROVE MetricsIInv
    OBVIOUS
  <2>1. run = NoRun /\ outcome = "none" /\ db.ast = {} /\ (\A f \in Files : db.file[f] = Absent)
        /\ \A f \in Files : \A v \in Versions : db.loc[<<f, v>>] = 0
    BY DEF Init, NoDb, Node
  <2>2. DryInv /\ FilesInv /\ ClaimInv
    BY <2>1 DEF DryInv, FilesInv, ClaimInv, NoRun, Early, Late, Parsed
  <2>3. CleanInv /\ OutcomeInv /\ CountedWhenParsed
    BY <2>1 DEF CleanInv, NoRun, OutcomeInv, CountedWhenParsed
  <2>4. LocOnce /\ CacheInv /\ NoBlankOnDisk
    BY <2>1, Markers DEF LocOnce, CacheInv, NoBlankOnDisk, NoRun, Early, OnDisk
  <2>5. OfRows
    BY <2>1, Markers DEF OfRows, Counts, NoRun
  <2>6. OfDisk
    BY <2>1 DEF OfDisk, NoRun, Counted, Parsed
  <2> QED BY <2>2, <2>3, <2>4, <2>5, <2>6, InitType DEF MetricsIInv, MetricsInv
<1>2. MetricsIInv /\ [Next]_vars => MetricsIInv'
  <2>1. ASSUME MetricsIInv, Next PROVE MetricsIInv'
    BY <2>1, NextType, DryStep, FilesStep, ClaimStep, CleanStep, MetricsStep, OutcomeStep,
       CompleteStep DEF MetricsIInv
  <2>2. ASSUME MetricsIInv, UNCHANGED vars PROVE MetricsIInv'
    <3>1. DryInv' /\ FilesInv' /\ OutcomeInv'
      BY <2>2 DEF MetricsIInv, vars, DryInv, FilesInv, OutcomeInv, Marked, Parsed
    <3>2. ClaimInv'
      BY <2>2 DEF MetricsIInv, vars, ClaimInv
    <3>3. CleanInv'
      BY <2>2 DEF MetricsIInv, vars, CleanInv, Cleaned, Marked, Keyed
    <3>4. LocOnce' /\ CacheInv' /\ NoBlankOnDisk'
      BY <2>2 DEF MetricsIInv, MetricsInv, vars, LocOnce, CacheInv, NoBlankOnDisk, OnDisk
    <3>5. OfRows' /\ CountedWhenParsed'
      BY <2>2 DEF MetricsIInv, MetricsInv, vars, OfRows, CountedWhenParsed, Counts, Marked
    <3>6. OfDisk'
      BY <2>2 DEF MetricsIInv, MetricsInv, vars, OfDisk, Counts, OnDisk, Parsed
    <3> QED BY <2>2, <3>1, <3>2, <3>3, <3>4, <3>5, <3>6, StutterType DEF MetricsIInv, MetricsInv, vars
  <2> QED BY <2>1, <2>2
<1>3. MetricsIInv => FileMetricsComplete
  BY MetricsParts DEF MetricsIInv, MetricsInv
<1> QED BY <1>1, <1>2, <1>3, PTL DEF Spec

-----------------------------------------------------------------------------
(***************************************************************************)
(* An incremental parse is as good as a full one, for any files, includes, *)
(* commands, thresholds and edits.  The argument follows the database      *)
(* through a run.  Between two runs it agrees with the contents that it    *)
(* records itself.  Marking and ordering split it in two: what hangs from  *)
(* a marked file goes, and the rest, which no marked file is included in,  *)
(* agrees with the disk.  The parse adds to that, one translation unit     *)
(* after the other, until every command is recorded; and then every file   *)
(* on disk has a row, so that it is what it was between the runs again.    *)
(***************************************************************************)

(* Nothing has happened that the documentation excludes. *)
Good == since \subseteq {"threshold"}

Cleanup == {"cleanup", "cleanMetrics", "cleanFiles"}
AfterParse == {"metrics", "counting", "index", "cppMetrics", "config"}

Recorded == {f \in Files : db.file[f] \in Versions}

(* Entities are there once, and inclusions and commands have their nodes. *)
NodesOnce == \A n \in Node : db.ent[n] = IF n \in db.ast THEN 1 ELSE 0

(* The database agrees with the contents that it records. *)
SelfConsistent ==
  /\ \A n \in db.ast : db.file[n[1]] = n[2]
  /\ NodesOnce
  /\ \A n \in db.ast : \A g \in Includes[n[1]][n[2]] \cap Recorded :
       <<g, db.file[g]>> \in db.ast /\ <<n[1], g>> \in db.incl
  /\ \A p \in db.incl : p[1] \in Recorded /\ p[2] \in Includes[p[1]][db.file[p[1]]] \cap Recorded
  /\ \A c \in db.src : Source[c] \in Recorded => <<Source[c], db.file[Source[c]]>> \in db.ast

(* No #include resolves on disk that had not resolved when it was parsed. *)
Resolved == \A g \in Recorded : Includes[g][db.file[g]] \cap OnDisk \subseteq Recorded

(* What is not marked agrees with the disk and hangs from nothing marked. *)
UnmarkedFresh ==
  /\ \A n \in db.ast : n[1] \notin Marked =>
       /\ disk[n[1]] = n[2]
       /\ \A g \in Includes[n[1]][n[2]] \cap OnDisk :
            g \notin Marked /\ <<g, disk[g]>> \in db.ast /\ <<n[1], g>> \in db.incl
  /\ \A n \in Node : n \notin db.ast => db.ent[n] = 0
  /\ \A n \in db.ast : n[1] \notin Marked => db.ent[n] = 1
  /\ \A p \in db.incl : {p[1], p[2]} \cap Marked = {} => p \in InclusionsOnDisk
  /\ \A c \in db.src : Source[c] \notin Marked =>
       Source[c] \in OnDisk /\ <<Source[c], disk[Source[c]]>> \in db.ast

(* Nothing hangs from the files that are removed. *)
RemovedGone ==
  \A f \in Marked \ run.todo :
    /\ \A n \in db.ast : n[1] # f
    /\ \A p \in db.incl : f \notin {p[1], p[2]}
    /\ \A c \in db.src : Source[c] # f

(* The database agrees with the disk. *)
Fresh ==
  /\ \A n \in db.ast :
       /\ disk[n[1]] = n[2]
       /\ \A g \in Includes[n[1]][n[2]] \cap OnDisk :
            <<g, disk[g]>> \in db.ast /\ <<n[1], g>> \in db.incl
  /\ NodesOnce
  /\ db.incl \subseteq InclusionsOnDisk
  /\ \A c \in db.src : Source[c] \in OnDisk => <<Source[c], disk[Source[c]]>> \in db.ast

(* So it does while units are parsed, up to what the jobs have claimed and *)
(* are going to store.                                                     *)
FreshInParts ==
  /\ \A n \in run.entityCache :
       /\ n \in db.ast \/ \E c \in Commands : n \in run.claimed[c]
       /\ disk[n[1]] = n[2]
       /\ \A g \in Includes[n[1]][n[2]] \cap OnDisk :
            /\ <<g, disk[g]>> \in run.entityCache
            /\ \/ <<n[1], g>> \in db.incl
               \/ \E c \in Commands :
                    run.stage[c] \in {"claimed", "stored"} /\ n \in UnitNodes(Source[c])
  /\ NodesOnce
  /\ db.incl \subseteq InclusionsOnDisk
  /\ \A c \in Commands :
       /\ c \in db.src \/ run.stage[c] \in {"claimed", "stored", "included"}
       /\ Source[c] \in OnDisk
       => <<Source[c], disk[Source[c]]>> \in run.entityCache
  /\ run.pending = compdb \ db.action
  /\ db.action = db.src \cup Running

(* The commands. *)
CommandsInv ==
  /\ run.pc # "parsing" => db.action = db.src
  /\ \A c \in db.src : db.file[Source[c]] # Absent
  /\ run.pc \in {"decide", "order"} \cup Cleanup => \A c \in db.src \ compdb : Source[c] \in Marked
  /\ run.pc \in {"parse", "parsing"} => db.action \subseteq compdb
  /\ run.pc \in AfterParse \/ Parsed => db.src = compdb

(* The rows and the entries of the files on disk. *)
EntriesInv ==
  /\ \A f \in OnDisk : db.file[f] # Blank /\ (run.pc \notin Early => run.files[f] # Blank)
  /\ run.pc \in {"mark", "decide", "order"} \cup Cleanup =>
       \A f \in Files \ Marked : db.file[f] \in {Absent, disk[f]}
  /\ run.pc = "counting" => \A f \in OnDisk \ run.todo : run.files[f] # Absent
  /\ run.pc \in {"index", "cppMetrics", "config"} \/ Parsed =>
       \A f \in OnDisk : run.files[f] # Absent

SyncInv ==
  Good =>
    /\ CommandsInv /\ EntriesInv
    /\ run.pc \in Early \cup {"mark", "decide", "order"} \/ (run.pc = "exit" /\ run.dryRun) =>
         SelfConsistent /\ Resolved
    /\ run.pc \in Cleanup => UnmarkedFresh /\ run.level \subseteq Marked
    /\ run.pc = "cleanFiles" => RemovedGone
    /\ run.pc \in {"parse"} \cup AfterParse \/ Parsed => Fresh
    /\ run.pc = "parsing" => FreshInParts

SyncIInv ==
  /\ TypeOK /\ DryInv /\ FilesInv /\ ClaimInv /\ CleanInv /\ OutcomeInv
  /\ SyncInv /\ InSync

-----------------------------------------------------------------------------
(* What is reached over arrows, and what clang reads of a project.         *)
LEMMA Reaches ==
  ASSUME NEW arrows, NEW fs \in SUBSET Files
  PROVE  /\ fs \subseteq Reach(arrows, fs)
         /\ \A p \in arrows : p[1] \in Reach(arrows, fs) /\ p[2] \in Files => p[2] \in Reach(arrows, fs)
BY DEF Reach

LEMMA ReachLeast ==
  ASSUME NEW arrows, NEW fs, NEW s \in SUBSET Files, fs \subseteq s,
         \A p \in arrows : p[1] \in s => p[2] \in s
  PROVE  Reach(arrows, fs) \subseteq s
BY DEF Reach

LEMMA UnitClosed ==
  ASSUME NEW f \in Files
  PROVE  /\ f \in OnDisk => f \in Unit(f)
         /\ \A g \in Unit(f) : \A h \in Includes[g][disk[g]] \cap OnDisk :
              h \in Unit(f) /\ <<g, h>> \in UnitInclusions(f)
<1>1. f \in Reach(InclusionsOnDisk, {f})
  BY Reaches
<1>2. \A p \in InclusionsOnDisk :
        p[1] \in Reach(InclusionsOnDisk, {f}) /\ p[2] \in Files => p[2] \in Reach(InclusionsOnDisk, {f})
  BY Reaches
<1>3. ASSUME NEW g \in Unit(f), NEW h \in Includes[g][disk[g]] \cap OnDisk
      PROVE  h \in Unit(f) /\ <<g, h>> \in UnitInclusions(f)
  <2>1. g \in Reach(InclusionsOnDisk, {f}) /\ g \in OnDisk /\ h \in Files
    BY DEF Unit, OnDisk
  <2>2. <<g, h>> \in InclusionsOnDisk
    BY <2>1 DEF InclusionsOnDisk
  <2>3. h \in Unit(f)
    BY <1>2, <2>1, <2>2 DEF Unit
  <2> QED BY <2>2, <2>3 DEF UnitInclusions
<1> QED BY <1>1, <1>3 DEF Unit

LEMMA UnitLeast ==
  ASSUME NEW f \in Files, NEW s \in SUBSET Files, f \in s,
         \A p \in InclusionsOnDisk : p[1] \in s => p[2] \in s
  PROVE  Unit(f) \subseteq s
BY ReachLeast DEF Unit

-----------------------------------------------------------------------------
(* What a step does not look at.                                           *)
SameTables ==
  /\ db'.ast = db.ast /\ db'.ent = db.ent /\ db'.incl = db.incl /\ db'.file = db.file
  /\ db'.src = db.src /\ db'.action = db.action
  /\ disk' = disk /\ compdb' = compdb

LEMMA Frame ==
  ASSUME SameTables
  PROVE  /\ SelfConsistent => SelfConsistent'
         /\ Resolved => Resolved'
         /\ Fresh => Fresh'
         /\ UnmarkedFresh /\ run'.status = run.status => UnmarkedFresh'
<1>1. OnDisk' = OnDisk /\ Recorded' = Recorded /\ InclusionsOnDisk' = InclusionsOnDisk
  BY DEF SameTables, OnDisk, Recorded, InclusionsOnDisk
<1>2. NodesOnce => NodesOnce'
  BY DEF SameTables, NodesOnce
<1>3. SelfConsistent => SelfConsistent'
  BY <1>1, <1>2 DEF SameTables, SelfConsistent
<1>4. Resolved => Resolved'
  BY <1>1 DEF SameTables, Resolved
<1>5. Fresh => Fresh'
  BY <1>1, <1>2 DEF SameTables, Fresh
<1>6. UnmarkedFresh /\ run'.status = run.status => UnmarkedFresh'
  BY <1>1 DEF SameTables, UnmarkedFresh, Marked
<1> QED BY <1>3, <1>4, <1>5, <1>6

(* A run is over, or has not read the database yet.                        *)
LEMMA EarlySync ==
  ASSUME SyncInv, run.pc \in Early, run'.pc \in Early, SameTables, since' = since
  PROVE  SyncInv'
<1> SUFFICES ASSUME Good' PROVE CommandsInv' /\ EntriesInv' /\ SelfConsistent' /\ Resolved'
  BY DEF SyncInv, Early, Cleanup, AfterParse, Parsed
<1>1. CommandsInv /\ EntriesInv /\ SelfConsistent /\ Resolved
  BY DEF Good, SyncInv
<1>2. run.pc # "parsing"
  BY DEF Early
<1>3. CommandsInv'
  BY <1>1, <1>2 DEF SameTables, CommandsInv, Early, Cleanup, AfterParse, Parsed
<1>4. OnDisk' = OnDisk
  BY DEF SameTables, OnDisk
<1>5. EntriesInv'
  BY <1>1, <1>4 DEF SameTables, EntriesInv, Early, Cleanup, Parsed
<1> QED BY <1>1, <1>3, <1>5, Frame

LEMMA EditSync ==
  ASSUME TypeOK, SyncInv, Editing
  PROVE  SyncInv'
<1>1. run.pc = "idle" /\ run' = run /\ db' = db /\ since \subseteq since'
  BY DEF Editing, Delete, Modify, Add, Reconfigure, Edit
<1> SUFFICES ASSUME Good' PROVE CommandsInv' /\ EntriesInv' /\ SelfConsistent' /\ Resolved'
  BY <1>1 DEF SyncInv, Early, Cleanup, AfterParse, Parsed
<1>2. CommandsInv /\ EntriesInv /\ SelfConsistent /\ Resolved
  BY <1>1 DEF Good, SyncInv, Early
<1>3. \A f \in OnDisk' \ OnDisk :
        /\ db.file[f] # Blank
        /\ f \in Recorded \/ \A g \in Recorded : f \notin Includes[g][db.file[g]]
  <2>1. ASSUME NEW f \in Files, NEW v \in Versions, Add(f, v)
        PROVE  \A h \in OnDisk' \ OnDisk :
                 /\ db.file[h] # Blank
                 /\ h \in Recorded \/ \A g \in Recorded : h \notin Includes[g][db.file[g]]
    <3>1. OnDisk' \ OnDisk \subseteq {f}
      BY <2>1 DEF Add, OnDisk, TypeOK
    <3>2. "added" \notin since'
      BY DEF Good
    <3>3. db.file[f] # Blank
      BY <2>1, <3>2 DEF Add
    <3>4. db.file[f] = Absent => \A g \in Files : db.file[g] \in Versions => f \notin Includes[g][db.file[g]]
      BY <2>1, <3>2 DEF Add
    <3>5. db.file[f] \in Versions \cup {Absent, Blank}
      BY DEF TypeOK, DbType
    <3> QED BY <3>1, <3>3, <3>4, <3>5 DEF Recorded
  <2>2. ASSUME NEW f \in Files, Delete(f) PROVE OnDisk' \subseteq OnDisk
    BY <2>2 DEF Delete, OnDisk, TypeOK
  <2>3. ASSUME NEW f \in Files, NEW v \in Versions, Modify(f, v) PROVE OnDisk' \subseteq OnDisk
    BY <2>3 DEF Modify, OnDisk, TypeOK
  <2>4. ASSUME NEW cs \in CompDbs, Reconfigure(cs) PROVE OnDisk' \subseteq OnDisk
    BY <2>4 DEF Reconfigure, OnDisk
  <2> QED BY <2>1, <2>2, <2>3, <2>4 DEF Editing
<1>4. CommandsInv'
  BY <1>1, <1>2 DEF CommandsInv, Cleanup, AfterParse, Parsed
<1>5. EntriesInv'
  BY <1>1, <1>2, <1>3 DEF EntriesInv, Early, Cleanup, Parsed
<1>6. Recorded' = Recorded
  BY <1>1 DEF Recorded
<1>7. SelfConsistent'
  BY <1>1, <1>2, <1>6 DEF SelfConsistent, NodesOnce
<1>8. Resolved'
  BY <1>1, <1>2, <1>3, <1>6 DEF Resolved
<1> QED BY <1>4, <1>5, <1>7, <1>8

(* Empty tables agree with whatever there is on disk.                      *)
LEMMA EmptySync ==
  ASSUME db' = EmptyTables
  PROVE  /\ \A f \in Files : db'.file[f] = Absent
         /\ db'.src = {} /\ db'.action = {}
         /\ SelfConsistent' /\ Resolved' /\ Fresh'
<1>1. /\ \A f \in Files : db'.file[f] = Absent
      /\ db'.ast = {} /\ db'.incl = {} /\ db'.src = {} /\ db'.action = {}
      /\ \A n \in Node : db'.ent[n] = 0
  BY DEF EmptyTables, NoDb
<1>2. Recorded' = {}
  BY <1>1, Markers DEF Recorded
<1> QED BY <1>1, <1>2 DEF SelfConsistent, Resolved, Fresh, NodesOnce

LEMMA SetUpSync ==
  ASSUME TypeOK, SyncInv, SetUpTables
  PROVE  SyncInv'
<1>1. run.pc = "tables" /\ run' = [run EXCEPT !.pc = "detect"] /\ disk' = disk /\ compdb' = compdb
      /\ run'.pc = "detect"
  BY DEF SetUpTables, project, TypeOK, RunType
<1>2. CASE db' = db /\ since' = since
  BY <1>1, <1>2, EarlySync DEF SameTables, Early
<1>3. CASE db' = EmptyTables
  <2>1. CommandsInv'
    BY <1>1, <1>3, EmptySync DEF CommandsInv, Cleanup, AfterParse, Parsed
  <2>2. OnDisk' = OnDisk /\ OnDisk \subseteq Files
    BY <1>1 DEF OnDisk
  <2>3. EntriesInv'
    BY <1>1, <1>3, <2>2, EmptySync, Markers DEF EntriesInv, Early, Cleanup, Parsed
  <2> QED BY <1>1, <1>3, <2>1, <2>3, EmptySync DEF SyncInv, Early, Cleanup, AfterParse, Parsed
<1> QED BY <1>2, <1>3 DEF SetUpTables

LEMMA BeginSync ==
  ASSUME TypeOK, SyncInv,
         (\E force, dryRun \in BOOLEAN : Start(force, dryRun)) \/ PrepareProjectDir \/ ConnectDatabase
  PROVE  SyncInv'
<1>1. ASSUME NEW force \in BOOLEAN, NEW dryRun \in BOOLEAN, Start(force, dryRun) PROVE SyncInv'
  <2>1. run.pc = "idle" /\ run'.pc = "prepare" /\ since' = since
    BY <1>1 DEF Start, NoRun
  <2>2. SameTables
    BY <1>1 DEF Start, SameTables, project
  <2> QED BY <2>1, <2>2, EarlySync DEF Early
<1>2. CASE PrepareProjectDir
  <2>1. run.pc = "prepare" /\ run'.pc = "connect" /\ since' = since
    BY <1>2 DEF PrepareProjectDir, history, TypeOK, RunType
  <2>2. SameTables
    BY <1>2 DEF PrepareProjectDir, SameTables, project
  <2> QED BY <2>1, <2>2, EarlySync DEF Early
<1>3. CASE ConnectDatabase
  <2>1. run.pc = "connect" /\ run'.pc = "tables" /\ since' = since
    BY <1>3 DEF ConnectDatabase, history, TypeOK, RunType
  <2>2. SameTables
    BY <1>3 DEF ConnectDatabase, SameTables, project, TypeOK, DbType
  <2> QED BY <2>1, <2>2, EarlySync DEF Early
<1> QED BY <1>1, <1>2, <1>3

-----------------------------------------------------------------------------
(* From the first look at the database to the order of the cleanup.        *)
LEMMA DetectSync ==
  ASSUME TypeOK, SyncInv, DetectChanges
  PROVE  SyncInv'
<1>1. /\ run.pc = "detect" /\ run'.pc = "mark" /\ run'.files = db.file /\ since' = since
      /\ \A f \in Files : run'.status[f] =
           IF db.file[f] = Absent THEN "none"
           ELSE IF f \notin OnDisk THEN "DELETED"
           ELSE IF db.file[f] \notin {Blank, disk[f]} THEN "MODIFIED" ELSE "none"
  BY DEF DetectChanges, TypeOK, RunType, history
<1>2. SameTables
  BY DEF DetectChanges, SameTables, project
<1> SUFFICES ASSUME Good' PROVE CommandsInv' /\ EntriesInv' /\ SelfConsistent' /\ Resolved'
  BY <1>1 DEF SyncInv, Early, Cleanup, AfterParse, Parsed
<1>3. CommandsInv /\ EntriesInv /\ SelfConsistent /\ Resolved
  BY <1>1 DEF Good, SyncInv, Early
<1>4. CommandsInv'
  BY <1>1, <1>2, <1>3 DEF SameTables, CommandsInv, Cleanup, AfterParse, Parsed
<1>5. OnDisk' = OnDisk /\ OnDisk \subseteq Files
  BY <1>2 DEF SameTables, OnDisk
<1>6. \A f \in Files \ Marked' : db.file[f] \in {Absent, disk[f]}
  BY <1>1, <1>3 DEF Marked, EntriesInv
<1>7. EntriesInv'
  BY <1>1, <1>2, <1>3, <1>5, <1>6 DEF SameTables, EntriesInv, Early, Cleanup, Parsed
<1> QED BY <1>2, <1>3, <1>4, <1>7, Frame

LEMMA MarkSync ==
  ASSUME TypeOK, SyncInv, MarkModifiedFiles
  PROVE  SyncInv'
<1>1. /\ run.pc = "mark" /\ run'.pc = "decide" /\ run'.files = run.files /\ since' = since
      /\ \A f \in Files :
           /\ run.status[f] # "none" => run'.status[f] # "none"
           /\ (\E c \in db.src \ compdb : Source[c] = f) => run'.status[f] # "none"
  BY DEF MarkModifiedFiles, TypeOK, RunType, history
<1>2. SameTables
  BY DEF MarkModifiedFiles, SameTables, project
<1> SUFFICES ASSUME Good' PROVE CommandsInv' /\ EntriesInv' /\ SelfConsistent' /\ Resolved'
  BY <1>1 DEF SyncInv, Early, Cleanup, AfterParse, Parsed
<1>3. CommandsInv /\ EntriesInv /\ SelfConsistent /\ Resolved
  BY <1>1 DEF Good, SyncInv
<1>4. \A c \in db.src : c \in Commands /\ Source[c] \in Files
  BY SourceAssumption DEF TypeOK, DbType
<1>5. \A c \in db.src \ compdb : Source[c] \in Marked'
  BY <1>1, <1>4 DEF Marked
<1>6. CommandsInv'
  BY <1>1, <1>2, <1>3, <1>5 DEF SameTables, CommandsInv, Cleanup, AfterParse, Parsed
<1>7. OnDisk' = OnDisk /\ Marked \subseteq Marked'
  BY <1>1, <1>2 DEF SameTables, OnDisk, Marked
<1>8. EntriesInv'
  BY <1>1, <1>2, <1>3, <1>7 DEF SameTables, EntriesInv, Early, Cleanup, Parsed
<1> QED BY <1>2, <1>3, <1>6, <1>8, Frame

(* With --force there is nothing to agree with.                            *)
LEMMA ForcedFresh ==
  ASSUME TypeOK, FilesInv, CommandsInv, SelfConsistent, run.pc = "decide", run.force
  PROVE  Fresh /\ db.src = {}
<1>1. \A f \in Files : db.file[f] = Absent
  BY DEF FilesInv, Early
<1>2. Recorded = {}
  BY <1>1, Markers DEF Recorded
<1>3. db.ast = {}
  <2>1. \A n \in db.ast : n[1] \in Files /\ n[2] \in Versions
    BY DEF TypeOK, DbType, Node
  <2> QED BY <1>1, <2>1, Markers DEF SelfConsistent
<1>4. db.incl = {}
  BY <1>2 DEF SelfConsistent
<1>5. db.src = {}
  BY <1>1, SourceAssumption DEF CommandsInv, TypeOK, DbType
<1> QED BY <1>3, <1>4, <1>5 DEF Fresh, SelfConsistent

LEMMA DecideSync ==
  ASSUME TypeOK, FilesInv, SyncInv, ListOnly \/ ForceByThreshold \/ Proceed
  PROVE  SyncInv'
<1>1. CASE ListOnly
  <2>1. run.pc = "decide" /\ run'.pc = "exit" /\ run'.dryRun /\ run'.files = run.files /\ since' = since
    BY <1>1 DEF ListOnly, TypeOK, RunType, history
  <2>2. SameTables
    BY <1>1 DEF ListOnly, SameTables, project
  <2> SUFFICES ASSUME Good' PROVE CommandsInv' /\ EntriesInv' /\ SelfConsistent' /\ Resolved'
    BY <2>1 DEF SyncInv, Early, Cleanup, AfterParse, Parsed
  <2>3. CommandsInv /\ EntriesInv /\ SelfConsistent /\ Resolved
    BY <2>1 DEF Good, SyncInv
  <2>4. CommandsInv'
    BY <2>1, <2>2, <2>3 DEF SameTables, CommandsInv, Cleanup, AfterParse, Parsed
  <2>5. OnDisk' = OnDisk
    BY <2>2 DEF SameTables, OnDisk
  <2>6. EntriesInv'
    BY <2>1, <2>2, <2>3, <2>5 DEF SameTables, EntriesInv, Early, Cleanup, Parsed
  <2> QED BY <2>2, <2>3, <2>4, <2>6, Frame
<1>2. CASE ForceByThreshold
  <2>1. /\ run'.pc = "parse" /\ (\A f \in Files : run'.files[f] = Absent) /\ disk' = disk
        /\ compdb' = compdb /\ db' = EmptyTables
    BY <1>2 DEF ForceByThreshold, TypeOK, RunType, project
  <2>2. CommandsInv'
    BY <2>1, EmptySync DEF CommandsInv, Cleanup, AfterParse, Parsed
  <2>3. OnDisk' = OnDisk /\ OnDisk \subseteq Files
    BY <2>1 DEF OnDisk
  <2>4. EntriesInv'
    BY <2>1, <2>3, EmptySync, Markers DEF EntriesInv, Early, Cleanup, Parsed
  <2> QED BY <2>1, <2>2, <2>4, EmptySync DEF SyncInv, Early, Cleanup, AfterParse, Parsed
<1>3. CASE Proceed
  <2>1. /\ run.pc = "decide" /\ run'.pc = (IF run.force THEN "parse" ELSE "order")
        /\ run'.files = run.files /\ run'.status = run.status /\ since' = since
    BY <1>3 DEF Proceed, TypeOK, RunType, history
  <2>2. SameTables
    BY <1>3 DEF Proceed, SameTables, project
  <2> SUFFICES ASSUME Good'
               PROVE  /\ CommandsInv' /\ EntriesInv'
                      /\ IF run.force THEN Fresh' ELSE SelfConsistent' /\ Resolved'
    BY <2>1 DEF SyncInv, Early, Cleanup, AfterParse, Parsed
  <2>3. CommandsInv /\ EntriesInv /\ SelfConsistent /\ Resolved
    BY <2>1 DEF Good, SyncInv
  <2>4. run.force => Fresh /\ db.src = {}
    BY <2>1, <2>3, ForcedFresh
  <2>5. CommandsInv'
    <3>1. Marked' = Marked
      BY <2>1 DEF Marked
    <3> QED BY <2>1, <2>2, <2>3, <2>4, <3>1 DEF SameTables, CommandsInv, Cleanup, AfterParse, Parsed
  <2>6. OnDisk' = OnDisk /\ Marked' = Marked
    BY <2>1, <2>2 DEF SameTables, OnDisk, Marked
  <2>7. EntriesInv'
    BY <2>1, <2>2, <2>3, <2>6 DEF SameTables, EntriesInv, Early, Cleanup, Parsed
  <2> QED BY <2>2, <2>3, <2>4, <2>5, <2>7, Frame
<1> QED BY <1>1, <1>2, <1>3

(* Where no marked file is included from an unmarked one, the unmarked     *)
(* ones are as they should be.                                             *)
LEMMA OrderedFresh ==
  ASSUME TypeOK, CommandsInv, EntriesInv, SelfConsistent, Resolved, run.pc = "order", OrderComplete
  PROVE  UnmarkedFresh
<1>1. \A f \in Files \ Marked : db.file[f] \in {Absent, disk[f]}
  BY DEF EntriesInv
<1>2. \A n \in db.ast : n \in Node /\ n = <<n[1], n[2]>> /\ n[1] \in Files /\ n[2] \in Versions
  BY DEF TypeOK, DbType, Node
<1>3. \A f \in Recorded \ Marked : f \in OnDisk /\ disk[f] = db.file[f]
  BY <1>1, Markers DEF Recorded, OnDisk
<1>4. \A n \in db.ast : n[1] \in Recorded
  BY <1>2 DEF SelfConsistent, Recorded
<1>5. ASSUME NEW n \in db.ast, n[1] \notin Marked
      PROVE  /\ disk[n[1]] = n[2]
             /\ \A g \in Includes[n[1]][n[2]] \cap OnDisk :
                  g \notin Marked /\ <<g, disk[g]>> \in db.ast /\ <<n[1], g>> \in db.incl
  <2>1. disk[n[1]] = n[2] /\ db.file[n[1]] = n[2]
    BY <1>3, <1>4, <1>5 DEF SelfConsistent
  <2>2. ASSUME NEW g \in Includes[n[1]][n[2]] \cap OnDisk
        PROVE  g \notin Marked /\ <<g, disk[g]>> \in db.ast /\ <<n[1], g>> \in db.incl
    <3>1. g \in Recorded
      BY <1>4, <2>1 DEF Resolved
    <3>2. <<g, db.file[g]>> \in db.ast /\ <<n[1], g>> \in db.incl
      BY <3>1 DEF SelfConsistent
    <3>3. g \notin Marked
      BY <1>5, <3>2 DEF OrderComplete
    <3> QED BY <1>3, <3>1, <3>2, <3>3
  <2> QED BY <2>1, <2>2
<1>6. ASSUME NEW p \in db.incl, {p[1], p[2]} \cap Marked = {} PROVE p \in InclusionsOnDisk
  <2>1. p = <<p[1], p[2]>>
    BY DEF TypeOK, DbType
  <2>2. p[1] \in Recorded /\ p[2] \in Includes[p[1]][db.file[p[1]]] /\ p[2] \in Recorded
    BY DEF SelfConsistent
  <2> QED BY <1>3, <1>6, <2>1, <2>2 DEF InclusionsOnDisk
<1>7. ASSUME NEW c \in db.src, Source[c] \notin Marked
      PROVE  Source[c] \in OnDisk /\ <<Source[c], disk[Source[c]]>> \in db.ast
  <2>1. Source[c] \in Files /\ db.file[Source[c]] # Absent
    BY SourceAssumption DEF CommandsInv, TypeOK, DbType
  <2>2. db.file[Source[c]] = disk[Source[c]]
    BY <1>1, <1>7, <2>1
  <2>3. Source[c] \in Recorded
    BY <2>1, <2>2 DEF Recorded, TypeOK
  <2> QED BY <1>3, <1>7, <2>3 DEF SelfConsistent
<1>8. NodesOnce
  BY DEF SelfConsistent
<1>9. (\A n \in Node : n \notin db.ast => db.ent[n] = 0) /\ \A n \in db.ast : db.ent[n] = 1
  BY <1>2, <1>8 DEF NodesOnce
<1> QED BY <1>5, <1>6, <1>7, <1>9 DEF UnmarkedFresh

-----------------------------------------------------------------------------
(* The cleanup.                                                            *)
LEMMA OrderSync ==
  ASSUME TypeOK, SyncInv, CreateCleanupOrder
  PROVE  SyncInv'
<1>1. /\ run.pc = "order" /\ run'.pc = "cleanup" /\ run'.files = run.files
      /\ run'.status = run.status /\ run'.level = run.level /\ since \subseteq since'
  BY DEF CreateCleanupOrder, TypeOK, RunType
<1>2. SameTables
  BY DEF CreateCleanupOrder, SameTables, project
<1> SUFFICES ASSUME Good' PROVE CommandsInv' /\ EntriesInv' /\ UnmarkedFresh' /\ run'.level = {}
  BY <1>1 DEF SyncInv, Early, Cleanup, AfterParse, Parsed
<1>3. CommandsInv /\ EntriesInv /\ SelfConsistent /\ Resolved
  BY <1>1 DEF Good, SyncInv
<1>4. UnmarkedFresh
  BY <1>1, <1>3, OrderedFresh DEF CreateCleanupOrder
<1>5. OnDisk' = OnDisk /\ Marked' = Marked
  BY <1>1, <1>2 DEF SameTables, OnDisk, Marked
<1>6. CommandsInv'
  BY <1>1, <1>2, <1>3, <1>5 DEF SameTables, CommandsInv, Cleanup, AfterParse, Parsed
<1>7. EntriesInv'
  BY <1>1, <1>2, <1>3, <1>5 DEF SameTables, EntriesInv, Early, Cleanup, Parsed
<1>8. run.level = {}
  BY <1>1 DEF TypeOK
<1> QED BY <1>1, <1>2, <1>4, <1>6, <1>7, <1>8, Frame

(* Steps of the cleanup that only turn to the next jobs.                   *)
LEMMA TurnSync ==
  ASSUME TypeOK, SyncInv, SameTables, run'.status = run.status, run'.files = run.files,
         run.pc \in Cleanup, run'.pc \in Cleanup, since \subseteq since',
         run'.level \subseteq Marked, run'.pc = "cleanFiles" => run'.todo = Marked
  PROVE  SyncInv'
<1> SUFFICES ASSUME Good'
             PROVE  /\ CommandsInv' /\ EntriesInv' /\ UnmarkedFresh' /\ run'.level \subseteq Marked'
                    /\ run'.pc = "cleanFiles" => RemovedGone'
  BY DEF SyncInv, Early, Cleanup, AfterParse, Parsed
<1>1. CommandsInv /\ EntriesInv /\ UnmarkedFresh
  BY DEF Good, SyncInv
<1>2. OnDisk' = OnDisk /\ Marked' = Marked
  BY DEF SameTables, OnDisk, Marked
<1>3. CommandsInv'
  BY <1>1, <1>2 DEF SameTables, CommandsInv, Cleanup, AfterParse, Parsed
<1>4. EntriesInv'
  BY <1>1, <1>2 DEF SameTables, EntriesInv, Early, Cleanup, Parsed
<1>5. run'.pc = "cleanFiles" => RemovedGone'
  BY <1>2 DEF RemovedGone
<1> QED BY <1>1, <1>2, <1>3, <1>4, <1>5, Frame

LEMMA LevelSync ==
  ASSUME TypeOK, CleanInv, SyncInv, StartLevel \/ CleanupSucceeded \/ CleanupMetrics
  PROVE  SyncInv'
<1>1. CASE StartLevel
  <2>1. /\ run.pc = "cleanup" /\ run'.pc = "cleanup" /\ run'.status = run.status
        /\ run'.files = run.files /\ run'.level \subseteq run.todo /\ since' = since
    BY <1>1 DEF StartLevel, TopLevel, TypeOK, RunType, history
  <2>2. SameTables
    BY <1>1 DEF StartLevel, SameTables, project
  <2>3. run.todo \subseteq Marked
    BY <2>1 DEF CleanInv
  <2> QED BY <2>1, <2>2, <2>3, TurnSync DEF Cleanup
<1>2. CASE CleanupSucceeded
  <2>1. /\ run.pc = "cleanup" /\ run'.pc = "cleanMetrics" /\ run'.status = run.status
        /\ run'.files = run.files /\ run'.level = {} /\ since' = since
    BY <1>2 DEF CleanupSucceeded, LevelsDone, TypeOK, RunType, history
  <2>2. SameTables
    BY <1>2 DEF CleanupSucceeded, SameTables, project
  <2> QED BY <2>1, <2>2, TurnSync DEF Cleanup
<1>3. CASE CleanupMetrics
  <2>1. /\ run.pc = "cleanMetrics" /\ run'.pc = "cleanFiles" /\ run'.status = run.status
        /\ run'.files = run.files /\ run'.level = run.level /\ run'.todo = Marked /\ since' = since
    BY <1>3 DEF CleanupMetrics, TypeOK, RunType, history
  <2>2. SameTables
    BY <1>3 DEF CleanupMetrics, SameTables, project, TypeOK, DbType
  <2>3. run.level = {}
    BY <2>1 DEF TypeOK
  <2> QED BY <2>1, <2>2, <2>3, TurnSync DEF Cleanup
<1> QED BY <1>1, <1>2, <1>3

LEMMA CleanJobSync ==
  ASSUME TypeOK, SyncInv, NEW f \in Files,
         CleanupJob(f) \/ CleanupJobDeadlock(f) \/ CleanupJobFails(f)
  PROVE  SyncInv'
<1>1. /\ run.pc = "cleanup" /\ run'.pc = "cleanup" /\ run'.status = run.status
      /\ run'.files = run.files /\ run'.level = run.level \ {f} /\ f \in run.level
      /\ since \subseteq since'
  BY DEF CleanupJob, CleanupJobDeadlock, CleanupJobFails, TypeOK, RunType, history
<1> SUFFICES ASSUME Good' PROVE SyncInv'
  BY DEF SyncInv
<1>2. CommandsInv /\ EntriesInv /\ UnmarkedFresh /\ run.level \subseteq Marked
  BY <1>1 DEF Good, SyncInv, Cleanup
<1>3. CASE CleanupJobDeadlock(f)
  BY <1>3 DEF CleanupJobDeadlock, Good
<1>4. CASE CleanupJobFails(f)
  <2>1. SameTables
    BY <1>4 DEF CleanupJobFails, SameTables, project
  <2> QED BY <1>1, <1>2, <2>1, TurnSync DEF Cleanup
<1>5. CASE CleanupJob(f)
  <2> DEFINE stale == {c \in db.src : Source[c] = f}
  <2>1. /\ db'.src = db.src \ stale /\ db'.action = db.action \ stale /\ db'.incl = db.incl
        /\ disk' = disk /\ compdb' = compdb
    BY <1>5 DEF CleanupJob, CleanFile, project, TypeOK, DbType
  <2>2. /\ db'.ast = db.ast /\ db'.file = db.file
        /\ \A n \in Node : db'.ent[n] = IF n \in db.ast /\ n[1] = f THEN 0 ELSE db.ent[n]
    BY <1>5, CleanFileCleans DEF CleanupJob, TypeOK
  <2> HIDE DEF stale
  <2>3. OnDisk' = OnDisk /\ Marked' = Marked /\ InclusionsOnDisk' = InclusionsOnDisk
    BY <1>1, <2>1 DEF OnDisk, Marked, InclusionsOnDisk
  <2>4. CommandsInv'
    BY <1>1, <1>2, <2>1, <2>2, <2>3 DEF CommandsInv, Cleanup, AfterParse, Parsed
  <2>5. EntriesInv'
    BY <1>1, <1>2, <2>1, <2>2, <2>3 DEF EntriesInv, Early, Cleanup, Parsed
  <2>6. \A n \in db.ast : n \in Node
    BY DEF TypeOK, DbType
  <2>7. UnmarkedFresh'
    <3>1. \A n \in db.ast : n[1] \notin Marked => db'.ent[n] = 1
      BY <1>1, <1>2, <2>2, <2>6 DEF UnmarkedFresh
    <3>2. \A n \in Node : n \notin db.ast => db'.ent[n] = 0
      BY <1>2, <2>2 DEF UnmarkedFresh
    <3> QED BY <1>2, <2>1, <2>2, <2>3, <3>1, <3>2 DEF UnmarkedFresh
  <2> QED BY <1>1, <1>2, <2>3, <2>4, <2>5, <2>7 DEF SyncInv, Early, Cleanup, AfterParse, Parsed
<1> QED BY <1>3, <1>4, <1>5

(* A file goes with everything that hangs from it, and nothing else does.  *)
LEMMA RemoveSync ==
  ASSUME TypeOK, CleanInv, SyncInv, NEW f \in Files, RemoveFile(f)
  PROVE  SyncInv'
<1>1. /\ run.pc = "cleanFiles" /\ run'.pc = "cleanFiles" /\ run'.status = run.status
      /\ run'.files = [run.files EXCEPT ![f] = Absent] /\ run'.level = run.level
      /\ run'.todo = run.todo \ {f} /\ f \in run.todo /\ since' = since
      /\ disk' = disk /\ compdb' = compdb
  BY DEF RemoveFile, TypeOK, RunType, history, project
<1> SUFFICES ASSUME Good' PROVE CommandsInv' /\ EntriesInv' /\ UnmarkedFresh' /\ RemovedGone' /\ run'.level = {}
  BY <1>1 DEF SyncInv, Early, Cleanup, AfterParse, Parsed
<1>2. CommandsInv /\ EntriesInv /\ UnmarkedFresh /\ RemovedGone
  BY <1>1 DEF Good, SyncInv, Cleanup
<1>3. run.level = {}
  BY <1>1 DEF TypeOK
<1>4. f \in Marked /\ Cleaned(f) /\ Keyed(db)
  <2>1. f \in Marked
    BY <1>1 DEF CleanInv
  <2>2. "unkeyed" \notin since /\ "rolled back" \notin since
    BY <1>1 DEF Good
  <2> QED BY <1>1, <2>1, <2>2 DEF CleanInv
<1>5. \A c \in db.src : Source[c] # f
  BY <1>4 DEF RemoveFile, Removable
<1>6. /\ db'.file = [db.file EXCEPT ![f] = Absent]
      /\ db'.ast = {n \in db.ast : n[1] # f}
      /\ db'.incl = {p \in db.incl : f \notin {p[1], p[2]}}
      /\ db'.ent = db.ent /\ db'.src = db.src /\ db'.action = db.action
  BY <1>4 DEF RemoveFile, RemoveRow, TypeOK, DbType
<1>7. OnDisk' = OnDisk /\ Marked' = Marked /\ InclusionsOnDisk' = InclusionsOnDisk /\ OnDisk \subseteq Files
  BY <1>1 DEF OnDisk, Marked, InclusionsOnDisk
<1>8. /\ \A g \in Files : db'.file[g] = IF g = f THEN Absent ELSE db.file[g]
      /\ \A g \in Files : run'.files[g] = IF g = f THEN Absent ELSE run.files[g]
  BY <1>1, <1>6 DEF TypeOK, DbType, RunType
<1>9. \A c \in db.src : Source[c] \in Files
  BY SourceAssumption DEF TypeOK, DbType
<1>10. CommandsInv'
  BY <1>1, <1>2, <1>5, <1>6, <1>7, <1>8, <1>9 DEF CommandsInv, Cleanup, AfterParse, Parsed
<1>11. EntriesInv'
  BY <1>1, <1>2, <1>4, <1>7, <1>8, Markers DEF EntriesInv, Early, Cleanup, Parsed
<1>12. UnmarkedFresh'
  <2>1. ASSUME NEW n \in db'.ast, n[1] \notin Marked
        PROVE  /\ disk[n[1]] = n[2]
               /\ \A g \in Includes[n[1]][n[2]] \cap OnDisk :
                    g \notin Marked /\ <<g, disk[g]>> \in db'.ast /\ <<n[1], g>> \in db'.incl
    <3>1. n \in db.ast /\ n[1] # f
      BY <1>6
    <3>2. ASSUME NEW g \in Includes[n[1]][n[2]] \cap OnDisk
          PROVE  g \notin Marked /\ <<g, disk[g]>> \in db'.ast /\ <<n[1], g>> \in db'.incl
      <4>1. g \notin Marked /\ <<g, disk[g]>> \in db.ast /\ <<n[1], g>> \in db.incl
        BY <1>2, <2>1, <3>1 DEF UnmarkedFresh
      <4> QED BY <1>4, <1>6, <3>1, <4>1
    <3> QED BY <1>2, <2>1, <3>1, <3>2 DEF UnmarkedFresh
  <2>2. ASSUME NEW n \in Node, n \notin db'.ast PROVE db.ent[n] = 0
    BY <1>2, <1>4, <1>6, <2>2 DEF UnmarkedFresh, Cleaned
  <2>3. \A n \in db'.ast : n[1] \notin Marked => db.ent[n] = 1
    BY <1>2, <1>6 DEF UnmarkedFresh
  <2>4. \A p \in db'.incl : {p[1], p[2]} \cap Marked = {} => p \in InclusionsOnDisk
    BY <1>2, <1>6 DEF UnmarkedFresh
  <2>5. \A c \in db.src : Source[c] \notin Marked =>
          Source[c] \in OnDisk /\ <<Source[c], disk[Source[c]]>> \in db'.ast
    BY <1>2, <1>4, <1>6 DEF UnmarkedFresh
  <2> QED BY <1>1, <1>6, <1>7, <2>1, <2>2, <2>3, <2>4, <2>5 DEF UnmarkedFresh
<1>13. RemovedGone'
  <2>1. ASSUME NEW g \in Marked \ (run.todo \ {f})
        PROVE  /\ \A n \in db'.ast : n[1] # g
               /\ \A p \in db'.incl : g \notin {p[1], p[2]}
               /\ \A c \in db.src : Source[c] # g
    <3>1. CASE g = f
      BY <1>5, <1>6, <3>1
    <3>2. CASE g # f
      BY <1>2, <1>6, <3>2 DEF RemovedGone
    <3> QED BY <3>1, <3>2
  <2> QED BY <1>1, <1>6, <1>7, <2>1 DEF RemovedGone
<1> QED BY <1>1, <1>3, <1>10, <1>11, <1>12, <1>13

(* With the last of them gone the database agrees with the disk.           *)
LEMMA RemovedSync ==
  ASSUME TypeOK, SyncInv, FilesRemoved
  PROVE  SyncInv'
<1>1. /\ run.pc = "cleanFiles" /\ run'.pc = "parse" /\ run'.files = run.files /\ run.todo = {}
      /\ since' = since
  BY DEF FilesRemoved, TypeOK, RunType, history
<1>2. SameTables
  BY DEF FilesRemoved, SameTables, project
<1> SUFFICES ASSUME Good' PROVE CommandsInv' /\ EntriesInv' /\ Fresh'
  BY <1>1 DEF SyncInv, Early, Cleanup, AfterParse, Parsed
<1>3. CommandsInv /\ EntriesInv /\ UnmarkedFresh /\ RemovedGone
  BY <1>1 DEF Good, SyncInv, Cleanup
<1>4. /\ \A n \in db.ast : n[1] \notin Marked
      /\ \A p \in db.incl : {p[1], p[2]} \cap Marked = {}
      /\ \A c \in db.src : Source[c] \notin Marked
  BY <1>1, <1>3 DEF RemovedGone
<1>5. NodesOnce
  BY <1>3, <1>4 DEF UnmarkedFresh, NodesOnce
<1>6. Fresh
  BY <1>3, <1>4, <1>5 DEF UnmarkedFresh, Fresh
<1>7. db.src \subseteq compdb
  BY <1>1, <1>3, <1>4 DEF CommandsInv, Cleanup
<1>8. CommandsInv'
  BY <1>1, <1>2, <1>3, <1>7 DEF SameTables, CommandsInv, Cleanup, AfterParse, Parsed
<1>9. OnDisk' = OnDisk
  BY <1>2 DEF SameTables, OnDisk
<1>10. EntriesInv'
  BY <1>1, <1>2, <1>3, <1>9 DEF SameTables, EntriesInv, Early, Cleanup, Parsed
<1> QED BY <1>2, <1>6, <1>8, <1>10, Frame

-----------------------------------------------------------------------------
(* The parse.                                                              *)
LEMMA StartParseSync ==
  ASSUME TypeOK, ClaimInv, SyncInv, StartParse
  PROVE  SyncInv'
<1>1. /\ run.pc = "parse" /\ run'.pc = "parsing" /\ run'.files = run.files /\ since' = since
      /\ run'.pending = compdb \ db.action /\ run'.entityCache = db.ast
      /\ run'.stage = run.stage /\ run'.claimed = run.claimed
  BY DEF StartParse, TypeOK, RunType, history
<1>2. SameTables
  BY DEF StartParse, SameTables, project
<1> SUFFICES ASSUME Good' PROVE CommandsInv' /\ EntriesInv' /\ FreshInParts'
  BY <1>1 DEF SyncInv, Early, Cleanup, AfterParse, Parsed
<1>3. CommandsInv /\ EntriesInv /\ Fresh
  BY <1>1 DEF Good, SyncInv
<1>4. CommandsInv'
  BY <1>1, <1>2, <1>3 DEF SameTables, CommandsInv, Cleanup, AfterParse, Parsed
<1>5. OnDisk' = OnDisk /\ InclusionsOnDisk' = InclusionsOnDisk
  BY <1>2 DEF SameTables, OnDisk, InclusionsOnDisk
<1>6. EntriesInv'
  BY <1>1, <1>2, <1>3, <1>5 DEF SameTables, EntriesInv, Early, Cleanup, Parsed
<1>7. \A c \in Commands : run.stage[c] = "idle"
  BY <1>1, NoClaims
<1>8. Running' = {}
  BY <1>1, <1>7 DEF Running
<1>9. db.action = db.src
  BY <1>1, <1>3 DEF CommandsInv
<1>10. NodesOnce'
  BY <1>2, <1>3 DEF SameTables, Fresh, NodesOnce
<1>11. FreshInParts'
  BY <1>1, <1>2, <1>3, <1>5, <1>7, <1>8, <1>9, <1>10 DEF SameTables, Fresh, FreshInParts
<1> QED BY <1>4, <1>6, <1>11

LEMMA ParseDoneSync ==
  ASSUME TypeOK, ClaimInv, SyncInv, ParseDone
  PROVE  SyncInv'
<1>1. /\ run.pc = "parsing" /\ run'.pc = "metrics" /\ run'.files = run.files /\ since' = since
      /\ run.pending = {} /\ Running = {}
  BY DEF ParseDone, TypeOK, RunType, history
<1>2. SameTables
  BY DEF ParseDone, SameTables, project
<1> SUFFICES ASSUME Good' PROVE CommandsInv' /\ EntriesInv' /\ Fresh'
  BY <1>1 DEF SyncInv, Early, Cleanup, AfterParse, Parsed
<1>3. CommandsInv /\ EntriesInv /\ FreshInParts
  BY <1>1 DEF Good, SyncInv
<1>4. \A c \in Commands : run.stage[c] = "idle" /\ run.claimed[c] = {}
  BY <1>1 DEF Running, ClaimInv
<1>5. db.ast \subseteq run.entityCache /\ run.entityCache \subseteq db.ast
  BY <1>1, <1>3, <1>4 DEF ClaimInv, FreshInParts
<1>6. db.src = compdb /\ db.action = compdb
  BY <1>1, <1>3 DEF FreshInParts, CommandsInv
<1>7. \A c \in db.src : c \in Commands
  BY DEF TypeOK, DbType
<1>8. Fresh
  BY <1>3, <1>4, <1>5, <1>7 DEF FreshInParts, Fresh
<1>9. CommandsInv'
  BY <1>1, <1>2, <1>3, <1>6 DEF SameTables, CommandsInv, Cleanup, AfterParse, Parsed
<1>10. OnDisk' = OnDisk
  BY <1>2 DEF SameTables, OnDisk
<1>11. EntriesInv'
  BY <1>1, <1>2, <1>3, <1>10 DEF SameTables, EntriesInv, Early, Cleanup, Parsed
<1> QED BY <1>2, <1>8, <1>9, <1>11, Frame

(* A job changes neither the project nor what a unit is.                   *)
LEMMA JobFrame ==
  ASSUME TypeOK, NEW c \in Commands,
         StartJob(c) \/ Claim(c) \/ Store(c) \/ StoreInclusions(c) \/ RecordCommand(c)
  PROVE  /\ run.pc = "parsing" /\ run'.pc = "parsing" /\ since' = since
         /\ disk' = disk /\ compdb' = compdb
         /\ OnDisk' = OnDisk /\ InclusionsOnDisk' = InclusionsOnDisk
         /\ OnDisk \subseteq Files
         /\ \A f : UnitNodes(f)' = UnitNodes(f)
<1>1. run.pc = "parsing" /\ run'.pc = "parsing" /\ since' = since /\ disk' = disk /\ compdb' = compdb
  BY DEF StartJob, Claim, Store, StoreInclusions, RecordCommand, TypeOK, RunType, Running, project,
         history
<1>2. OnDisk' = OnDisk /\ InclusionsOnDisk' = InclusionsOnDisk /\ OnDisk \subseteq Files
  BY <1>1 DEF OnDisk, InclusionsOnDisk
<1>3. \A f : Unit(f)' = Unit(f)
  BY <1>2 DEF Unit
<1>4. \A f : UnitNodes(f)' = UnitNodes(f)
  BY <1>1, <1>3 DEF UnitNodes
<1> QED BY <1>1, <1>2, <1>4

(* A job makes no entry and no row without content for a file on disk, and *)
(* a row for the source of every command that it records.                  *)
LEMMA JobRows ==
  ASSUME TypeOK, NEW c \in Commands,
         StartJob(c) \/ Claim(c) \/ Store(c) \/ StoreInclusions(c) \/ RecordCommand(c),
         \A f \in OnDisk : db.file[f] # Blank /\ run.files[f] # Blank
  PROVE  /\ \A f \in OnDisk : db'.file[f] # Blank /\ run'.files[f] # Blank
         /\ \A f \in Files : db.file[f] # Absent => db'.file[f] = db.file[f]
         /\ RecordCommand(c) => db'.file[Source[c]] # Absent
<1> DEFINE claimed == WithEntries(run.files, Unit(Source[c]))
           recorded == WithEntries(run.files, {Source[c]})
<1>1. run.files \in [Files -> Versions \cup {Absent, Blank}]
      /\ claimed \in [Files -> Versions \cup {Absent, Blank}]
      /\ recorded \in [Files -> Versions \cup {Absent, Blank}]
  BY EntriesType DEF TypeOK, RunType
<1>2. OnDisk \subseteq Files
  BY DEF OnDisk
<1>3. ASSUME NEW f \in Files
      PROVE  /\ f \in OnDisk => claimed[f] # Blank /\ recorded[f] # Blank
             /\ recorded[Source[c]] # Absent
  <2>1. f \in OnDisk => Content(f) \in Versions
    BY DEF Content, OnDisk, TypeOK
  <2>2. f \in OnDisk => run.files[f] # Blank
    OBVIOUS
  <2>3. \A g \in Files : Content(g) # Absent
    BY Markers DEF Content, OnDisk
  <2> QED BY <2>1, <2>2, <2>3, SourceAssumption, Markers DEF WithEntries
<1> HIDE DEF claimed, recorded
<1>4. StartJob(c) => db'.file = db.file /\ run'.files = run.files
  BY DEF StartJob, TypeOK, DbType, RunType
<1>5. Claim(c) => db'.file = db.file /\ run'.files = claimed
  BY DEF Claim, claimed, TypeOK, DbType, RunType
<1>6. PersistFiles(db, run.files) \in DbType /\ PersistFiles(db, recorded) \in DbType
  BY <1>1, PersistType DEF TypeOK
<1>7. Store(c) \/ StoreInclusions(c)
        => run'.files = run.files /\ db'.file = PersistFiles(db, run.files).file
  BY <1>6 DEF Store, StoreInclusions, TypeOK, RunType, DbType
<1>8. RecordCommand(c) => run'.files = recorded /\ db'.file = PersistFiles(db, recorded).file
  BY <1>6 DEF RecordCommand, recorded, TypeOK, RunType, DbType
<1>9. \A f \in Files :
        /\ PersistFiles(db, run.files).file[f] = IF db.file[f] = Absent THEN run.files[f] ELSE db.file[f]
        /\ PersistFiles(db, recorded).file[f] = IF db.file[f] = Absent THEN recorded[f] ELSE db.file[f]
  BY <1>1, Persisted DEF TypeOK
<1>10. Source[c] \in Files
  BY SourceAssumption
<1>11. \A f \in OnDisk : run'.files[f] # Blank
  BY <1>2, <1>3, <1>4, <1>5, <1>7, <1>8
<1>12. \A f \in Files :
         /\ db.file[f] # Absent => db'.file[f] = db.file[f]
         /\ db'.file[f] \in {db.file[f], run'.files[f]}
  BY <1>4, <1>5, <1>7, <1>8, <1>9
<1>13. RecordCommand(c) => db'.file[Source[c]] # Absent
  BY <1>3, <1>8, <1>9, <1>10
<1> QED BY <1>2, <1>11, <1>12, <1>13

(* What each step of a job changes of the rest.                            *)
LEMMA PersistKeeps ==
  ASSUME db \in DbType, NEW files \in [Files -> Versions \cup {Absent, Blank}]
  PROVE  LET p == PersistFiles(db, files)
         IN /\ p \in DbType
            /\ p.ast = db.ast /\ p.ent = db.ent /\ p.incl = db.incl
            /\ p.src = db.src /\ p.action = db.action
BY PersistType DEF PersistFiles, DbType

LEMMA StartJobChanges ==
  ASSUME TypeOK, NEW c \in Commands, StartJob(c)
  PROVE  /\ db'.ast = db.ast /\ db'.ent = db.ent /\ db'.incl = db.incl /\ db'.src = db.src
         /\ db'.action = db.action \cup {c} /\ run'.pending = run.pending \ {c} /\ c \in run.pending
         /\ run'.claimed = run.claimed /\ run'.entityCache = run.entityCache
         /\ run'.stage = [run.stage EXCEPT ![c] = "started"]
BY DEF StartJob, TypeOK, DbType, RunType

LEMMA ClaimChanges ==
  ASSUME TypeOK, NEW c \in Commands, Claim(c)
  PROVE  /\ db' = db /\ run'.pending = run.pending /\ run.stage[c] = "started"
         /\ run'.claimed = [run.claimed EXCEPT ![c] = UnitNodes(Source[c]) \ run.entityCache]
         /\ run'.entityCache = run.entityCache \cup UnitNodes(Source[c])
         /\ run'.stage = [run.stage EXCEPT ![c] = "claimed"]
BY DEF Claim, TypeOK, RunType

LEMMA StoreChanges ==
  ASSUME TypeOK, NEW c \in Commands, Store(c)
  PROVE  /\ db'.ast = db.ast \cup run.claimed[c] /\ db'.incl = db.incl /\ db'.src = db.src
         /\ db'.ent = [n \in Node |-> db.ent[n] + (IF n \in run.claimed[c] THEN 1 ELSE 0)]
         /\ db'.action = db.action /\ run'.pending = run.pending /\ run.stage[c] = "claimed"
         /\ run'.claimed = [run.claimed EXCEPT ![c] = {}]
         /\ run'.entityCache = run.entityCache
         /\ run'.stage = [run.stage EXCEPT ![c] = "stored"]
<1>1. run \in RunType /\ run.files \in [Files -> Versions \cup {Absent, Blank}]
  BY DEF TypeOK, RunType
<1>2. LET p == PersistFiles(db, run.files)
      IN /\ p \in DbType
         /\ p.ast = db.ast /\ p.ent = db.ent /\ p.incl = db.incl
         /\ p.src = db.src /\ p.action = db.action
  BY <1>1, PersistKeeps DEF TypeOK
<1> QED BY <1>1, <1>2 DEF Store, DbType, RunType

LEMMA InclusionChanges ==
  ASSUME TypeOK, NEW c \in Commands, StoreInclusions(c)
  PROVE  /\ db'.ast = db.ast /\ db'.ent = db.ent /\ db'.src = db.src /\ db'.action = db.action
         /\ db'.incl = db.incl \cup UnitInclusions(Source[c])
         /\ run'.pending = run.pending /\ run.stage[c] = "stored"
         /\ run'.claimed = run.claimed /\ run'.entityCache = run.entityCache
         /\ run'.stage = [run.stage EXCEPT ![c] = "included"]
<1>1. run \in RunType /\ run.files \in [Files -> Versions \cup {Absent, Blank}]
  BY DEF TypeOK, RunType
<1>2. LET p == PersistFiles(db, run.files)
      IN /\ p \in DbType
         /\ p.ast = db.ast /\ p.ent = db.ent /\ p.incl = db.incl
         /\ p.src = db.src /\ p.action = db.action
  BY <1>1, PersistKeeps DEF TypeOK
<1> QED BY <1>1, <1>2 DEF StoreInclusions, DbType, RunType

LEMMA RecordChanges ==
  ASSUME TypeOK, NEW c \in Commands, RecordCommand(c)
  PROVE  /\ db'.ast = db.ast /\ db'.ent = db.ent /\ db'.incl = db.incl /\ db'.action = db.action
         /\ db'.src = db.src \cup {c} /\ run'.pending = run.pending /\ run.stage[c] = "included"
         /\ run'.claimed = run.claimed /\ run'.entityCache = run.entityCache
         /\ run'.stage = [run.stage EXCEPT ![c] = "idle"]
<1> DEFINE files == WithEntries(run.files, {Source[c]})
<1>1. run \in RunType /\ files \in [Files -> Versions \cup {Absent, Blank}]
  BY EntriesType DEF TypeOK, RunType
<1> HIDE DEF files
<1>2. LET p == PersistFiles(db, files)
      IN /\ p \in DbType
         /\ p.ast = db.ast /\ p.ent = db.ent /\ p.incl = db.incl
         /\ p.src = db.src /\ p.action = db.action
  BY <1>1, PersistKeeps DEF TypeOK
<1> QED BY <1>1, <1>2 DEF RecordCommand, files, DbType, RunType

(* The rows and the commands, whatever the job is at.                      *)
LEMMA JobCommands ==
  ASSUME TypeOK, ClaimInv, CommandsInv, EntriesInv, FreshInParts, NEW c \in Commands,
         StartJob(c) \/ Claim(c) \/ Store(c) \/ StoreInclusions(c) \/ RecordCommand(c)
  PROVE  /\ CommandsInv' /\ EntriesInv'
         /\ run'.pending = compdb \ db'.action /\ db'.action = db'.src \cup Running'
<1>1. /\ run.pc = "parsing" /\ run'.pc = "parsing" /\ disk' = disk /\ compdb' = compdb
      /\ OnDisk' = OnDisk
  BY JobFrame
<1>2. \A f \in OnDisk : db.file[f] # Blank /\ run.files[f] # Blank
  BY <1>1 DEF EntriesInv, Early
<1>3. EntriesInv'
  BY <1>1, <1>2, JobRows DEF EntriesInv, Early, Cleanup, Parsed
<1>4. /\ run.pending = compdb \ db.action /\ db.action = db.src \cup Running
      /\ db.action \subseteq compdb
  BY <1>1 DEF FreshInParts, CommandsInv
<1>5. run.stage \in [Commands -> Stages]
  BY DEF TypeOK, RunType
<1>6. CASE StartJob(c)
  <2>1. /\ db'.src = db.src /\ db'.action = db.action \cup {c} /\ c \in run.pending
        /\ run'.pending = run.pending \ {c} /\ run'.stage = [run.stage EXCEPT ![c] = "started"]
    BY <1>6, StartJobChanges
  <2>2. Running' = Running \cup {c}
    BY <1>5, <2>1 DEF Running
  <2> QED
    BY <1>1, <1>2, <1>3, <1>4, <1>6, <2>1, <2>2, JobRows, SourceAssumption
       DEF CommandsInv, Cleanup, AfterParse, Parsed, TypeOK, DbType
<1>7. CASE RecordCommand(c)
  <2>1. /\ db'.src = db.src \cup {c} /\ db'.action = db.action /\ run'.pending = run.pending
        /\ run'.stage = [run.stage EXCEPT ![c] = "idle"] /\ run.stage[c] = "included"
    BY <1>7, RecordChanges
  <2>2. Running' = Running \ {c} /\ c \in Running
    BY <1>5, <2>1 DEF Running
  <2>3. db.src \subseteq Commands
    BY DEF TypeOK, DbType
  <2>4. \A d \in db'.src : db'.file[Source[d]] # Absent
    BY <1>2, <1>7, <2>1, <2>3, JobRows, SourceAssumption DEF CommandsInv
  <2>5. run'.pending = compdb \ db'.action /\ db'.action = db'.src \cup Running'
    BY <1>4, <2>1, <2>2
  <2>6. CommandsInv'
    BY <1>1, <1>4, <2>1, <2>4 DEF CommandsInv, Cleanup, AfterParse, Parsed
  <2> QED BY <1>3, <2>5, <2>6
<1>8. CASE Claim(c) \/ Store(c) \/ StoreInclusions(c)
  <2>1. /\ db'.src = db.src /\ db'.action = db.action /\ run'.pending = run.pending
        /\ run.stage[c] # "idle"
        /\ \E stage \in Stages \ {"idle"} : run'.stage = [run.stage EXCEPT ![c] = stage]
    BY <1>8, ClaimChanges, StoreChanges, InclusionChanges DEF Stages
  <2>2. Running' = Running
    BY <1>5, <2>1 DEF Running
  <2>3. \A d \in db.src : db'.file[Source[d]] # Absent
    BY <1>2, <1>8, JobRows, SourceAssumption DEF CommandsInv, TypeOK, DbType
  <2> QED BY <1>1, <1>3, <1>4, <2>1, <2>2, <2>3 DEF CommandsInv, Cleanup, AfterParse, Parsed
<1> QED BY <1>6, <1>7, <1>8

(* A job that neither claims nor stores leaves what is agreed upon.        *)
LEMMA StartJobSync ==
  ASSUME TypeOK, ClaimInv, CommandsInv, EntriesInv, FreshInParts, NEW c \in Commands, StartJob(c)
  PROVE  FreshInParts'
<1>1. /\ db'.ast = db.ast /\ db'.ent = db.ent /\ db'.incl = db.incl /\ db'.src = db.src
      /\ run'.claimed = run.claimed /\ run'.entityCache = run.entityCache
      /\ run'.stage = [run.stage EXCEPT ![c] = "started"] /\ c \in run.pending
  BY StartJobChanges
<1>2. /\ disk' = disk /\ compdb' = compdb /\ OnDisk' = OnDisk /\ InclusionsOnDisk' = InclusionsOnDisk
      /\ \A f : UnitNodes(f)' = UnitNodes(f)
  BY JobFrame
<1>3. run'.pending = compdb \ db'.action /\ db'.action = db'.src \cup Running'
  BY JobCommands
<1>4. run.stage \in [Commands -> Stages] /\ run.stage[c] = "idle"
  BY <1>1 DEF TypeOK, RunType, ClaimInv
<1>5. \A d \in Commands :
        /\ run.stage[d] \in {"claimed", "stored"} => run'.stage[d] \in {"claimed", "stored"}
        /\ run'.stage[d] \in {"claimed", "stored", "included"}
             => run.stage[d] \in {"claimed", "stored", "included"}
  BY <1>1, <1>4
<1>6. NodesOnce'
  BY <1>1 DEF FreshInParts, NodesOnce
<1>7. ASSUME NEW n \in run.entityCache
      PROVE  /\ n \in db.ast \/ \E d \in Commands : n \in run.claimed[d]
             /\ disk[n[1]] = n[2]
             /\ \A g \in Includes[n[1]][n[2]] \cap OnDisk :
                  /\ <<g, disk[g]>> \in run.entityCache
                  /\ \/ <<n[1], g>> \in db.incl
                     \/ \E d \in Commands :
                          run'.stage[d] \in {"claimed", "stored"} /\ n \in UnitNodes(Source[d])
  BY <1>5 DEF FreshInParts
<1>8. ASSUME NEW d \in Commands, Source[d] \in OnDisk,
             d \in db.src \/ run'.stage[d] \in {"claimed", "stored", "included"}
      PROVE  <<Source[d], disk[Source[d]]>> \in run.entityCache
  BY <1>5, <1>8 DEF FreshInParts
<1>9. db.incl \subseteq InclusionsOnDisk
  BY DEF FreshInParts
<1> QED BY <1>1, <1>2, <1>3, <1>6, <1>7, <1>8, <1>9 DEF FreshInParts

(* What a unit reads is closed under the inclusions on disk, so that what  *)
(* a job adds to the cache agrees with the disk.                           *)
LEMMA ClaimSync ==
  ASSUME TypeOK, ClaimInv, CommandsInv, EntriesInv, FreshInParts, NEW c \in Commands, Claim(c)
  PROVE  FreshInParts'
<1> DEFINE unit == UnitNodes(Source[c])
<1>1. /\ db' = db /\ run.stage[c] = "started"
      /\ run'.claimed = [run.claimed EXCEPT ![c] = unit \ run.entityCache]
      /\ run'.entityCache = run.entityCache \cup unit
      /\ run'.stage = [run.stage EXCEPT ![c] = "claimed"]
  BY ClaimChanges
<1>2. /\ disk' = disk /\ compdb' = compdb /\ OnDisk' = OnDisk /\ InclusionsOnDisk' = InclusionsOnDisk
      /\ \A f : UnitNodes(f)' = UnitNodes(f)
  BY JobFrame
<1>3. run'.pending = compdb \ db'.action /\ db'.action = db'.src \cup Running'
  BY JobCommands
<1>4. run.stage \in [Commands -> Stages] /\ run.claimed \in [Commands -> SUBSET Node] /\ run.claimed[c] = {}
  BY <1>1 DEF TypeOK, RunType, ClaimInv
<1>5. \A d \in Commands :
        /\ run'.stage[d] = IF d = c THEN "claimed" ELSE run.stage[d]
        /\ run'.claimed[d] = IF d = c THEN unit \ run.entityCache ELSE run.claimed[d]
  BY <1>1, <1>4
<1>6. ASSUME NEW n \in unit
      PROVE  /\ disk[n[1]] = n[2]
             /\ \A g \in Includes[n[1]][n[2]] \cap OnDisk : <<g, disk[g]>> \in unit
  <2>1. PICK f \in Unit(Source[c]) : n = <<f, disk[f]>>
    BY DEF UnitNodes
  <2>2. \A g \in Includes[f][disk[f]] \cap OnDisk : g \in Unit(Source[c])
    BY UnitClosed, SourceAssumption
  <2> QED BY <2>1, <2>2 DEF UnitNodes
<1>7. Source[c] \in OnDisk => <<Source[c], disk[Source[c]]>> \in unit
  BY UnitClosed, SourceAssumption DEF UnitNodes
<1>8. NodesOnce'
  BY <1>1 DEF FreshInParts, NodesOnce
<1>9. unit = UnitNodes(Source[c])
  OBVIOUS
<1> HIDE DEF unit
<1>10. ASSUME NEW n \in run.entityCache \cup unit
       PROVE  /\ n \in db.ast \/ \E d \in Commands : n \in run'.claimed[d]
              /\ disk[n[1]] = n[2]
              /\ \A g \in Includes[n[1]][n[2]] \cap OnDisk :
                   /\ <<g, disk[g]>> \in run.entityCache \cup unit
                   /\ \/ <<n[1], g>> \in db.incl
                      \/ \E d \in Commands :
                           run'.stage[d] \in {"claimed", "stored"} /\ n \in UnitNodes(Source[d])
  <2>1. CASE n \in run.entityCache
    <3>1. n \in db.ast \/ \E d \in Commands : n \in run'.claimed[d]
      BY <1>4, <1>5, <2>1 DEF FreshInParts
    <3>2. \A d \in Commands :
            run.stage[d] \in {"claimed", "stored"} => run'.stage[d] \in {"claimed", "stored"}
      BY <1>5
    <3> QED BY <2>1, <3>1, <3>2 DEF FreshInParts
  <2>2. CASE n \in unit \ run.entityCache
    <3>1. n \in run'.claimed[c] /\ run'.stage[c] = "claimed"
      BY <1>5, <2>2
    <3> QED BY <1>6, <1>9, <2>2, <3>1
  <2> QED BY <2>1, <2>2
<1>11. ASSUME NEW d \in Commands, Source[d] \in OnDisk,
              d \in db.src \/ run'.stage[d] \in {"claimed", "stored", "included"}
       PROVE  <<Source[d], disk[Source[d]]>> \in run.entityCache \cup unit
  BY <1>5, <1>7, <1>11 DEF FreshInParts
<1>12. db.incl \subseteq InclusionsOnDisk
  BY DEF FreshInParts
<1> QED BY <1>1, <1>2, <1>3, <1>8, <1>10, <1>11, <1>12 DEF FreshInParts

LEMMA StoreSync ==
  ASSUME TypeOK, ClaimInv, CommandsInv, EntriesInv, FreshInParts, NEW c \in Commands, Store(c)
  PROVE  FreshInParts'
<1>1. /\ db'.ast = db.ast \cup run.claimed[c] /\ db'.incl = db.incl /\ db'.src = db.src
      /\ db'.ent = [n \in Node |-> db.ent[n] + (IF n \in run.claimed[c] THEN 1 ELSE 0)]
      /\ run'.claimed = [run.claimed EXCEPT ![c] = {}] /\ run'.entityCache = run.entityCache
      /\ run'.stage = [run.stage EXCEPT ![c] = "stored"] /\ run.stage[c] = "claimed"
  BY StoreChanges
<1>2. /\ disk' = disk /\ compdb' = compdb /\ OnDisk' = OnDisk /\ InclusionsOnDisk' = InclusionsOnDisk
      /\ \A f : UnitNodes(f)' = UnitNodes(f)
  BY JobFrame
<1>3. run'.pending = compdb \ db'.action /\ db'.action = db'.src \cup Running'
  BY JobCommands
<1>4. run.stage \in [Commands -> Stages] /\ run.claimed \in [Commands -> SUBSET Node]
  BY DEF TypeOK, RunType
<1>5. \A d \in Commands :
        /\ run'.stage[d] = IF d = c THEN "stored" ELSE run.stage[d]
        /\ run'.claimed[d] = IF d = c THEN {} ELSE run.claimed[d]
  BY <1>1, <1>4
<1>6. ASSUME NEW n \in Node
      PROVE  db'.ent[n] = IF n \in db'.ast THEN 1 ELSE 0
  <2>1. db.ent[n] = IF n \in db.ast THEN 1 ELSE 0
    BY DEF FreshInParts, NodesOnce
  <2>2. db'.ent[n] = db.ent[n] + (IF n \in run.claimed[c] THEN 1 ELSE 0)
    BY <1>1
  <2>3. ~(n \in run.claimed[c] /\ n \in db.ast)
    BY DEF ClaimInv
  <2> QED BY <1>1, <2>1, <2>2, <2>3
<1>7. NodesOnce'
  BY <1>6 DEF NodesOnce
<1>8. ASSUME NEW n \in run.entityCache
      PROVE  /\ n \in db'.ast \/ \E d \in Commands : n \in run'.claimed[d]
             /\ disk[n[1]] = n[2]
             /\ \A g \in Includes[n[1]][n[2]] \cap OnDisk :
                  /\ <<g, disk[g]>> \in run.entityCache
                  /\ \/ <<n[1], g>> \in db.incl
                     \/ \E d \in Commands :
                          run'.stage[d] \in {"claimed", "stored"} /\ n \in UnitNodes(Source[d])
  <2>1. n \in db'.ast \/ \E d \in Commands : n \in run'.claimed[d]
    BY <1>1, <1>5 DEF FreshInParts
  <2>2. \A d \in Commands :
          run.stage[d] \in {"claimed", "stored"} => run'.stage[d] \in {"claimed", "stored"}
    BY <1>5
  <2> QED BY <2>1, <2>2 DEF FreshInParts
<1>9. ASSUME NEW d \in Commands, Source[d] \in OnDisk,
             d \in db.src \/ run'.stage[d] \in {"claimed", "stored", "included"}
      PROVE  <<Source[d], disk[Source[d]]>> \in run.entityCache
  BY <1>1, <1>5, <1>9 DEF FreshInParts
<1>10. db.incl \subseteq InclusionsOnDisk
  BY DEF FreshInParts
<1> QED BY <1>1, <1>2, <1>3, <1>7, <1>8, <1>9, <1>10 DEF FreshInParts

(* The last unit that was going to store an inclusion has stored it.       *)
LEMMA InclusionSync ==
  ASSUME TypeOK, ClaimInv, CommandsInv, EntriesInv, FreshInParts, NEW c \in Commands,
         StoreInclusions(c)
  PROVE  FreshInParts'
<1> DEFINE mine == UnitInclusions(Source[c])
<1>1. /\ db'.ast = db.ast /\ db'.ent = db.ent /\ db'.src = db.src /\ db'.incl = db.incl \cup mine
      /\ run'.claimed = run.claimed /\ run'.entityCache = run.entityCache
      /\ run'.stage = [run.stage EXCEPT ![c] = "included"] /\ run.stage[c] = "stored"
  BY InclusionChanges
<1>2. /\ disk' = disk /\ compdb' = compdb /\ OnDisk' = OnDisk /\ InclusionsOnDisk' = InclusionsOnDisk
      /\ \A f : UnitNodes(f)' = UnitNodes(f)
  BY JobFrame
<1>3. run'.pending = compdb \ db'.action /\ db'.action = db'.src \cup Running'
  BY JobCommands
<1>4. run.stage \in [Commands -> Stages]
  BY DEF TypeOK, RunType
<1>5. \A d \in Commands : run'.stage[d] = IF d = c THEN "included" ELSE run.stage[d]
  BY <1>1, <1>4
<1>6. NodesOnce'
  BY <1>1 DEF FreshInParts, NodesOnce
<1>7. ASSUME NEW n \in UnitNodes(Source[c]), NEW g \in Includes[n[1]][n[2]] \cap OnDisk
      PROVE  <<n[1], g>> \in mine
  <2>1. PICK f \in Unit(Source[c]) : n = <<f, disk[f]>>
    BY DEF UnitNodes
  <2>2. \A h \in Includes[f][disk[f]] \cap OnDisk : <<f, h>> \in mine
    BY UnitClosed, SourceAssumption
  <2> QED BY <2>1, <2>2
<1>8. db.incl \cup mine \subseteq InclusionsOnDisk
  BY DEF FreshInParts, UnitInclusions
<1> HIDE DEF mine
<1>9. ASSUME NEW n \in run.entityCache
      PROVE  /\ n \in db.ast \/ \E d \in Commands : n \in run.claimed[d]
             /\ disk[n[1]] = n[2]
             /\ \A g \in Includes[n[1]][n[2]] \cap OnDisk :
                  /\ <<g, disk[g]>> \in run.entityCache
                  /\ \/ <<n[1], g>> \in db.incl \cup mine
                     \/ \E d \in Commands :
                          run'.stage[d] \in {"claimed", "stored"} /\ n \in UnitNodes(Source[d])
  <2>1. \A d \in Commands \ {c} :
          run.stage[d] \in {"claimed", "stored"} => run'.stage[d] \in {"claimed", "stored"}
    BY <1>5
  <2> QED BY <1>7, <2>1 DEF FreshInParts
<1>10. ASSUME NEW d \in Commands, Source[d] \in OnDisk,
              d \in db.src \/ run'.stage[d] \in {"claimed", "stored", "included"}
       PROVE  <<Source[d], disk[Source[d]]>> \in run.entityCache
  BY <1>1, <1>5, <1>10 DEF FreshInParts
<1> QED BY <1>1, <1>2, <1>3, <1>6, <1>8, <1>9, <1>10 DEF FreshInParts

LEMMA RecordSync ==
  ASSUME TypeOK, ClaimInv, CommandsInv, EntriesInv, FreshInParts, NEW c \in Commands,
         RecordCommand(c)
  PROVE  FreshInParts'
<1>1. /\ db'.ast = db.ast /\ db'.ent = db.ent /\ db'.incl = db.incl /\ db'.src = db.src \cup {c}
      /\ run'.claimed = run.claimed /\ run'.entityCache = run.entityCache
      /\ run'.stage = [run.stage EXCEPT ![c] = "idle"] /\ run.stage[c] = "included"
  BY RecordChanges
<1>2. /\ disk' = disk /\ compdb' = compdb /\ OnDisk' = OnDisk /\ InclusionsOnDisk' = InclusionsOnDisk
      /\ \A f : UnitNodes(f)' = UnitNodes(f)
  BY JobFrame
<1>3. run'.pending = compdb \ db'.action /\ db'.action = db'.src \cup Running'
  BY JobCommands
<1>4. run.stage \in [Commands -> Stages]
  BY DEF TypeOK, RunType
<1>5. \A d \in Commands : run'.stage[d] = IF d = c THEN "idle" ELSE run.stage[d]
  BY <1>1, <1>4
<1>6. NodesOnce'
  BY <1>1 DEF FreshInParts, NodesOnce
<1>7. ASSUME NEW n \in run.entityCache
      PROVE  /\ n \in db.ast \/ \E d \in Commands : n \in run.claimed[d]
             /\ disk[n[1]] = n[2]
             /\ \A g \in Includes[n[1]][n[2]] \cap OnDisk :
                  /\ <<g, disk[g]>> \in run.entityCache
                  /\ \/ <<n[1], g>> \in db.incl
                     \/ \E d \in Commands :
                          run'.stage[d] \in {"claimed", "stored"} /\ n \in UnitNodes(Source[d])
  <2>1. \A d \in Commands :
          run.stage[d] \in {"claimed", "stored"} => run'.stage[d] \in {"claimed", "stored"}
    BY <1>1, <1>5
  <2> QED BY <2>1 DEF FreshInParts
<1>8. ASSUME NEW d \in Commands, Source[d] \in OnDisk,
             d \in db.src \cup {c} \/ run'.stage[d] \in {"claimed", "stored", "included"}
      PROVE  <<Source[d], disk[Source[d]]>> \in run.entityCache
  BY <1>1, <1>5, <1>8 DEF FreshInParts
<1>9. db.incl \subseteq InclusionsOnDisk
  BY DEF FreshInParts
<1> QED BY <1>1, <1>2, <1>3, <1>6, <1>7, <1>8, <1>9 DEF FreshInParts

LEMMA JobSync ==
  ASSUME TypeOK, ClaimInv, SyncInv, NEW c \in Commands,
         StartJob(c) \/ Claim(c) \/ Store(c) \/ StoreInclusions(c) \/ RecordCommand(c)
  PROVE  SyncInv'
<1>1. run.pc = "parsing" /\ run'.pc = "parsing" /\ since' = since
  BY JobFrame
<1> SUFFICES ASSUME Good' PROVE CommandsInv' /\ EntriesInv' /\ FreshInParts'
  BY <1>1 DEF SyncInv, Early, Cleanup, AfterParse, Parsed
<1>2. CommandsInv /\ EntriesInv /\ FreshInParts
  BY <1>1 DEF Good, SyncInv
<1> QED
  BY <1>2, JobCommands, StartJobSync, ClaimSync, StoreSync, InclusionSync, RecordSync

-----------------------------------------------------------------------------
(* The rest of a run.                                                      *)
LEMMA LastSync ==
  ASSUME TypeOK, DryInv, SyncInv,
         StartMetrics \/ MetricsDone \/ CreateIndexes \/ ParseCppMetrics \/ WriteProjectInfo
  PROVE  SyncInv'
<1>1. /\ run.pc \in AfterParse /\ run'.pc \in AfterParse \cup {"exit"} /\ run'.dryRun = run.dryRun
      /\ run'.files = run.files /\ since' = since
      /\ run'.pc = "counting" => run'.todo = OnDisk
      /\ run'.pc \in {"index", "cppMetrics", "config", "exit"} =>
           \/ run.pc = "counting" /\ run.todo = {}
           \/ run.pc \in {"index", "cppMetrics", "config"}
  BY DEF StartMetrics, MetricsDone, CreateIndexes, ParseCppMetrics, WriteProjectInfo, TypeOK,
         RunType, history, AfterParse
<1>2. SameTables
  BY DEF StartMetrics, MetricsDone, CreateIndexes, ParseCppMetrics, WriteProjectInfo, SameTables,
         project, TypeOK, DbType
<1>3. ~run'.dryRun
  BY <1>1 DEF DryInv, AfterParse
<1> SUFFICES ASSUME Good' PROVE CommandsInv' /\ EntriesInv' /\ Fresh'
  BY <1>1, <1>3 DEF SyncInv, Early, Cleanup, AfterParse, Parsed
<1>4. CommandsInv /\ EntriesInv /\ Fresh
  BY <1>1 DEF Good, SyncInv
<1>5. CommandsInv'
  BY <1>1, <1>2, <1>4 DEF SameTables, CommandsInv, Cleanup, AfterParse, Parsed
<1>6. OnDisk' = OnDisk
  BY <1>2 DEF SameTables, OnDisk
<1>7. EntriesInv'
  BY <1>1, <1>2, <1>4, <1>6 DEF SameTables, EntriesInv, Early, Cleanup, AfterParse, Parsed
<1> QED BY <1>2, <1>4, <1>5, <1>7, Frame

LEMMA MetricsJobSync ==
  ASSUME TypeOK, SyncInv, NEW f \in Files, MetricsJob(f)
  PROVE  SyncInv'
<1> DEFINE files == WithEntries(run.files, {f})
<1>1. /\ run.pc = "counting" /\ run'.pc = "counting" /\ run'.files = files
      /\ run'.todo = run.todo \ {f} /\ since' = since
  BY DEF MetricsJob, TypeOK, RunType, history
<1>2. SameTables
  BY DEF MetricsJob, SameTables, project, TypeOK, DbType
<1> SUFFICES ASSUME Good' PROVE CommandsInv' /\ EntriesInv' /\ Fresh'
  BY <1>1 DEF SyncInv, Early, Cleanup, AfterParse, Parsed
<1>3. CommandsInv /\ EntriesInv /\ Fresh
  BY <1>1 DEF Good, SyncInv, AfterParse
<1>4. CommandsInv'
  BY <1>1, <1>2, <1>3 DEF SameTables, CommandsInv, Cleanup, AfterParse, Parsed
<1>5. OnDisk' = OnDisk /\ OnDisk \subseteq Files
  BY <1>2 DEF SameTables, OnDisk
<1>6. \A g \in OnDisk : run.files[g] # Blank
  BY <1>1, <1>3 DEF EntriesInv, Early
<1>7. \A g \in OnDisk : /\ files[g] # Blank
                        /\ g = f \/ run.files[g] # Absent => files[g] # Absent
  <2>1. \A g \in OnDisk : Content(g) \in Versions
    BY DEF Content, OnDisk, TypeOK
  <2> QED BY <1>5, <1>6, <2>1, Markers DEF WithEntries
<1> HIDE DEF files
<1>8. EntriesInv'
  BY <1>1, <1>2, <1>3, <1>5, <1>7 DEF SameTables, EntriesInv, Early, Cleanup, Parsed
<1> QED BY <1>2, <1>3, <1>4, <1>8, Frame

(* After a parse every file on disk has a row with what is on disk, and so *)
(* the database agrees with what it records.                               *)
LEMMA ParsedRows ==
  ASSUME TypeOK, FilesInv, EntriesInv, Parsed, Exit
  PROVE  /\ \A f \in OnDisk : db'.file[f] = disk[f]
         /\ \A f \in Files \ OnDisk : db'.file[f] \in {Absent, Blank}
<1>1. run.pc = "exit" /\ ~run.dryRun /\ db' = PersistFiles(db, run.files)
  BY DEF Exit, Parsed
<1>2. \A f \in Files : db'.file[f] = IF db.file[f] = Absent THEN run.files[f] ELSE db.file[f]
  BY <1>1, Persisted DEF TypeOK, RunType
<1>3. \A f \in Files : db.file[f] \in {Absent, run.files[f]} /\ run.files[f] \in {Absent, Blank, disk[f]}
  BY <1>1 DEF FilesInv, Early, Parsed
<1>4. \A f \in Files : db'.file[f] = run.files[f]
  BY <1>2, <1>3
<1>5. \A f \in OnDisk : f \in Files /\ run.files[f] # Blank /\ run.files[f] # Absent
  BY <1>1 DEF EntriesInv, OnDisk, Early
<1>6. \A f \in Files \ OnDisk : disk[f] = Absent
  BY DEF OnDisk
<1> QED BY <1>3, <1>4, <1>5, <1>6

LEMMA ExitSync ==
  ASSUME TypeOK, DryInv, FilesInv, SyncInv, Exit
  PROVE  SyncInv'
<1>1. /\ run.pc = "exit" /\ run'.pc = "idle" /\ since' = since /\ disk' = disk /\ compdb' = compdb
      /\ db' = PersistFiles(db, run.files)
  BY DEF Exit, NoRun, project
<1> SUFFICES ASSUME Good' PROVE CommandsInv' /\ EntriesInv' /\ SelfConsistent' /\ Resolved'
  BY <1>1 DEF SyncInv, Early, Cleanup, AfterParse, Parsed
<1>2. CommandsInv /\ EntriesInv
  BY <1>1 DEF Good, SyncInv
<1>3. /\ db'.ast = db.ast /\ db'.ent = db.ent /\ db'.incl = db.incl
      /\ db'.src = db.src /\ db'.action = db.action
  BY <1>1, PersistKeeps DEF TypeOK, RunType
<1>4. \A f \in Files : db.file[f] # Absent => db'.file[f] = db.file[f]
  BY <1>1, Persisted DEF TypeOK, RunType
<1>5. CommandsInv'
  BY <1>1, <1>2, <1>3, <1>4, SourceAssumption
     DEF CommandsInv, Cleanup, AfterParse, Parsed, TypeOK, DbType
<1>6. OnDisk' = OnDisk /\ OnDisk \subseteq Files
  BY <1>1 DEF OnDisk
<1>7. CASE run.dryRun
  <2>1. run.files = db.file
    BY <1>1, <1>7 DEF DryInv, Early
  <2>2. db' = db
    BY <1>1, <2>1, PersistNothing DEF TypeOK
  <2>3. SameTables
    BY <1>1, <2>2 DEF SameTables
  <2>4. SelfConsistent /\ Resolved
    BY <1>1, <1>7 DEF Good, SyncInv
  <2>5. EntriesInv'
    BY <1>1, <1>2, <1>6, <2>2 DEF EntriesInv, Early, Cleanup, Parsed
  <2> QED BY <1>5, <2>3, <2>4, <2>5, Frame
<1>8. CASE ~run.dryRun
  <2>1. Fresh
    BY <1>1, <1>8 DEF Good, SyncInv, Parsed
  <2>2. /\ \A f \in OnDisk : db'.file[f] = disk[f]
        /\ \A f \in Files \ OnDisk : db'.file[f] \in {Absent, Blank}
    BY <1>1, <1>2, <1>8, ParsedRows DEF Parsed
  <2>3. \A f \in OnDisk : disk[f] \in Versions
    BY DEF OnDisk, TypeOK
  <2>4. Recorded' = OnDisk
    BY <1>6, <2>2, <2>3, Markers DEF Recorded
  <2>5. EntriesInv'
    BY <1>1, <1>6, <2>2, <2>3, Markers DEF EntriesInv, Early, Cleanup, Parsed
  <2>6. Resolved'
    BY <1>6, <2>4 DEF Resolved
  <2>7. \A n \in db.ast : n[1] \in OnDisk
    <3>1. \A n \in db.ast : n[1] \in Files /\ n[2] \in Versions
      BY DEF TypeOK, DbType, Node
    <3> QED BY <2>1, <3>1, Markers DEF Fresh, OnDisk
  <2>8. \A n \in db.ast : db'.file[n[1]] = n[2]
    BY <2>1, <2>2, <2>7 DEF Fresh
  <2>9. ASSUME NEW n \in db.ast, NEW g \in Includes[n[1]][n[2]] \cap OnDisk
        PROVE  <<g, db'.file[g]>> \in db.ast /\ <<n[1], g>> \in db.incl
    BY <2>1, <2>2 DEF Fresh
  <2>10. ASSUME NEW p \in db.incl
         PROVE  p[1] \in OnDisk /\ p[2] \in Includes[p[1]][db'.file[p[1]]] \cap OnDisk
    <3>1. p \in InclusionsOnDisk
      BY <2>1 DEF Fresh
    <3>2. p[1] \in OnDisk /\ p[2] \in OnDisk /\ p[2] \in Includes[p[1]][disk[p[1]]]
      BY <3>1 DEF InclusionsOnDisk
    <3> QED BY <2>2, <3>2
  <2>11. \A c \in db.src : Source[c] \in OnDisk => <<Source[c], db'.file[Source[c]]>> \in db.ast
    BY <2>1, <2>2 DEF Fresh
  <2>12. NodesOnce'
    BY <1>3, <2>1 DEF Fresh, NodesOnce
  <2>13. SelfConsistent'
    BY <1>3, <2>4, <2>8, <2>9, <2>10, <2>11, <2>12 DEF SelfConsistent
  <2> QED BY <1>5, <2>5, <2>6, <2>13
<1> QED BY <1>7, <1>8

LEMMA SyncStep ==
  ASSUME TypeOK, DryInv, FilesInv, ClaimInv, CleanInv, SyncInv, Next
  PROVE  SyncInv'
<1>1. CASE Die
  BY <1>1 DEF Die, SyncInv, Good
<1>2. \/ DetectThrows \/ MarkThrows \/ CreateCleanupOrderThrows \/ CleanupFailed \/ RemoveFileThrows
      \/ (\E f \in Files : CleanupJobThrows(f)) \/ Crash
      => Die
  BY DEF DetectThrows, MarkThrows, CreateCleanupOrderThrows, CleanupFailed, RemoveFileThrows,
         CleanupJobThrows, Crash
<1> QED
  BY <1>1, <1>2, EditSync, BeginSync, SetUpSync, DetectSync, MarkSync, DecideSync, OrderSync,
     LevelSync, CleanJobSync, RemoveSync, RemovedSync, StartParseSync, ParseDoneSync, JobSync,
     LastSync, MetricsJobSync, ExitSync
     DEF Next, Cleaning, Parsing

-----------------------------------------------------------------------------
(* At the exit the database holds all that a translation unit reads.       *)
LEMMA FreshUnits ==
  ASSUME TypeOK, Fresh, NEW c \in db.src
  PROVE  UnitNodes(Source[c]) \subseteq db.ast /\ UnitInclusions(Source[c]) \subseteq db.incl
<1> DEFINE f == Source[c]
           stored == {g \in OnDisk : <<g, disk[g]>> \in db.ast}
<1>1. f \in Files /\ OnDisk \subseteq Files
  BY SourceAssumption DEF TypeOK, DbType, OnDisk
<1>2. Unit(f) \subseteq stored
  <2>1. CASE f \in OnDisk
    <3>1. f \in stored
      BY <2>1 DEF Fresh
    <3>2. ASSUME NEW p \in InclusionsOnDisk, p[1] \in stored PROVE p[2] \in stored
      <4>1. p[2] \in Includes[p[1]][disk[p[1]]] /\ p[2] \in OnDisk
        BY DEF InclusionsOnDisk
      <4>2. <<p[1], disk[p[1]]>> \in db.ast
        BY <3>2
      <4>3. <<p[2], disk[p[2]]>> \in db.ast
        BY <4>1, <4>2 DEF Fresh
      <4> QED BY <4>1, <4>3
    <3> QED BY <1>1, <3>1, <3>2, UnitLeast
  <2>2. CASE f \notin OnDisk
    <3>1. \A p \in InclusionsOnDisk : p[1] \in {f} => p[2] \in {f}
      BY <2>2 DEF InclusionsOnDisk
    <3>2. Unit(f) \subseteq {f}
      BY <1>1, <3>1, UnitLeast
    <3> QED BY <2>2, <3>2 DEF Unit
  <2> QED BY <2>1, <2>2
<1>3. UnitNodes(f) \subseteq db.ast
  BY <1>2 DEF UnitNodes
<1>4. ASSUME NEW p \in UnitInclusions(f) PROVE p \in db.incl
  <2>1. p = <<p[1], p[2]>> /\ p[1] \in Unit(f) /\ p[2] \in OnDisk /\ p[2] \in Includes[p[1]][disk[p[1]]]
    BY DEF UnitInclusions, InclusionsOnDisk
  <2>2. <<p[1], disk[p[1]]>> \in db.ast
    BY <1>2, <2>1
  <2>3. <<p[1], p[2]>> \in db.incl
    BY <2>1, <2>2 DEF Fresh
  <2> QED BY <2>1, <2>3
<1> QED BY <1>3, <1>4

LEMMA InSyncStep ==
  ASSUME TypeOK, DryInv, OutcomeInv, SyncInv, Next
  PROVE  InSync'
<1> SUFFICES ASSUME outcome' = "parsed", Good' PROVE InSync'
  BY DEF InSync, Good
<1>1. Exit
  BY OutcomeStep
<1>2. /\ run.pc = "exit" /\ ~run.dryRun /\ since' = since /\ disk' = disk /\ compdb' = compdb
      /\ db' = PersistFiles(db, run.files)
  BY <1>1 DEF Exit, project
<1>3. CommandsInv /\ Fresh
  BY <1>2 DEF Good, SyncInv, Parsed
<1>4. db.src = compdb /\ db.action = compdb
  BY <1>2, <1>3 DEF CommandsInv, Parsed
<1>5. \A c \in compdb :
        UnitNodes(Source[c]) \subseteq db.ast /\ UnitInclusions(Source[c]) \subseteq db.incl
  BY <1>3, <1>4, FreshUnits
<1>6. /\ db'.ast = db.ast /\ db'.ent = db.ent /\ db'.incl = db.incl
      /\ db'.src = db.src /\ db'.action = db.action
  BY <1>2, PersistKeeps DEF TypeOK, RunType
<1>7. OnDisk' = OnDisk /\ InclusionsOnDisk' = InclusionsOnDisk
  BY <1>2 DEF OnDisk, InclusionsOnDisk
<1>8. \A f : Unit(f)' = Unit(f)
  BY <1>7 DEF Unit
<1>9. \A f : UnitNodes(f)' = UnitNodes(f) /\ UnitInclusions(f)' = UnitInclusions(f)
  BY <1>2, <1>7, <1>8 DEF UnitNodes, UnitInclusions
<1> QED BY <1>2, <1>3, <1>4, <1>5, <1>6, <1>7, <1>9 DEF InSync, Fresh, NodesOnce

LEMMA SyncInit == Init => SyncIInv
<1> SUFFICES ASSUME Init PROVE SyncIInv
  OBVIOUS
<1>1. /\ run = NoRun /\ outcome = "none" /\ db.ast = {} /\ db.incl = {} /\ db.src = {}
      /\ db.action = {} /\ (\A f \in Files : db.file[f] = Absent)
      /\ \A n \in Node : db.ent[n] = 0
  BY DEF Init, NoDb
<1>2. DryInv /\ FilesInv /\ ClaimInv
  BY <1>1 DEF DryInv, FilesInv, ClaimInv, NoRun, Early, Late, Parsed
<1>3. CleanInv /\ OutcomeInv /\ InSync
  BY <1>1 DEF CleanInv, NoRun, OutcomeInv, InSync
<1>4. run.pc = "idle" /\ Recorded = {} /\ OnDisk \subseteq Files
  BY <1>1, Markers DEF NoRun, Recorded, OnDisk
<1>5. CommandsInv /\ EntriesInv
  BY <1>1, <1>4, Markers DEF CommandsInv, EntriesInv, Early, Cleanup, AfterParse, Parsed
<1>6. SelfConsistent /\ Resolved
  BY <1>1, <1>4 DEF SelfConsistent, Resolved, NodesOnce
<1>7. SyncInv
  BY <1>4, <1>5, <1>6 DEF SyncInv, Cleanup, AfterParse, Parsed
<1> QED BY <1>2, <1>3, <1>7, InitType DEF SyncIInv

LEMMA SyncStutter ==
  ASSUME SyncIInv, UNCHANGED vars
  PROVE  SyncIInv'
<1>1. DryInv' /\ FilesInv' /\ OutcomeInv'
  BY DEF SyncIInv, vars, DryInv, FilesInv, OutcomeInv, Marked, Parsed
<1>2. ClaimInv'
  BY DEF SyncIInv, vars, ClaimInv
<1>3. CleanInv'
  BY DEF SyncIInv, vars, CleanInv, Cleaned, Marked, Keyed
<1>4. OnDisk' = OnDisk /\ InclusionsOnDisk' = InclusionsOnDisk /\ Marked' = Marked
      /\ Running' = Running /\ db' = db /\ run' = run /\ disk' = disk /\ compdb' = compdb
      /\ since' = since /\ outcome' = outcome
  BY DEF vars, OnDisk, InclusionsOnDisk, Marked, Running
<1>5. \A f : Unit(f)' = Unit(f)
  BY <1>4 DEF Unit
<1>6. \A f : UnitNodes(f)' = UnitNodes(f) /\ UnitInclusions(f)' = UnitInclusions(f)
  BY <1>4, <1>5 DEF UnitNodes, UnitInclusions
<1>7. InSync'
  BY <1>4, <1>6 DEF SyncIInv, InSync
<1>8. /\ CommandsInv => CommandsInv'
      /\ EntriesInv => EntriesInv'
  BY <1>4 DEF CommandsInv, EntriesInv, Parsed
<1>9. NodesOnce => NodesOnce'
  BY <1>4 DEF NodesOnce
<1>10. FreshInParts => FreshInParts'
  BY <1>4, <1>6, <1>9 DEF FreshInParts
<1>11. RemovedGone => RemovedGone'
  BY <1>4 DEF RemovedGone
<1>12. SameTables
  BY <1>4 DEF SameTables
<1>13. SyncInv'
  BY <1>4, <1>8, <1>10, <1>11, <1>12, Frame DEF SyncIInv, SyncInv, Good, Parsed
<1> QED BY <1>1, <1>2, <1>3, <1>7, <1>13, StutterType DEF SyncIInv

(* Whatever was edited between the runs, and however often, a run that     *)
(* ends well leaves the database in step with the project: what has        *)
(* changed is gone with all that includes it, what stays agrees with the   *)
(* disk, and the parse adds the rest, once.                                *)
THEOREM IncrementalParseIsRight == Spec => []InSync
<1>1. SyncIInv /\ [Next]_vars => SyncIInv'
  <2>1. ASSUME SyncIInv, Next PROVE SyncIInv'
    BY <2>1, NextType, DryStep, FilesStep, ClaimStep, CleanStep, OutcomeStep, SyncStep, InSyncStep
       DEF SyncIInv
  <2> QED BY <2>1, SyncStutter
<1>2. SyncIInv => InSync
  BY DEF SyncIInv
<1> QED BY <1>1, <1>2, SyncInit, PTL DEF Spec
-----------------------------------------------------------------------------
(* The order of the cleanup.  AboveIn is Above for any inclusions.         *)
Includers(incl, f) == {g \in Files : <<g, f>> \in incl}
AboveIn(incl, f) == Reach({<<p[2], p[1]>> : p \in incl}, Includers(incl, f))
AcyclicIn(incl, f) == \A g \in AboveIn(incl, f) \cup {f} : g \notin AboveIn(incl, g)

(* Whatever is cleaned or about to be has nothing above it that still      *)
(* waits, if there are no circles there; and what is marked is marked with *)
(* all that includes it.                                                   *)
OrderInv ==
  run.pc = "cleanup" =>
    /\ OrderComplete
    /\ run.level \subseteq Marked /\ run.todo \subseteq Marked
    /\ run.level \cap run.todo = {}
    /\ \A f \in Marked \ run.todo :
         AcyclicIn(db.incl, f) => AboveIn(db.incl, f) \cap (run.level \cup run.todo) = {}

LEMMA AboveIsAboveIn ==
  ASSUME NEW f
  PROVE  Above(f) = AboveIn(db.incl, f)
BY DEF Above, AboveIn, IncludersOf, Includers

LEMMA AboveHolds ==
  ASSUME NEW incl, NEW f
  PROVE  /\ AboveIn(incl, f) \subseteq Files
         /\ Includers(incl, f) \subseteq AboveIn(incl, f)
         /\ \A x \in AboveIn(incl, f) : Includers(incl, x) \subseteq AboveIn(incl, f)
<1> DEFINE arrows == {<<p[2], p[1]>> : p \in incl}
<1>1. Includers(incl, f) \in SUBSET Files
  BY DEF Includers
<1>2. /\ Includers(incl, f) \subseteq Reach(arrows, Includers(incl, f))
      /\ \A p \in arrows :
           p[1] \in Reach(arrows, Includers(incl, f)) /\ p[2] \in Files
             => p[2] \in Reach(arrows, Includers(incl, f))
  BY <1>1, Reaches
<1>3. AboveIn(incl, f) = Reach(arrows, Includers(incl, f))
  BY DEF AboveIn
<1>4. ASSUME NEW x \in AboveIn(incl, f), NEW y \in Includers(incl, x)
      PROVE  y \in AboveIn(incl, f)
  <2>1. <<y, x>> \in incl /\ y \in Files
    BY <1>4 DEF Includers
  <2>2. <<x, y>> \in arrows
    BY <2>1
  <2> QED BY <1>2, <1>3, <1>4, <2>1, <2>2
<1>5. AboveIn(incl, f) \subseteq Files
  BY DEF AboveIn, Reach
<1> QED BY <1>2, <1>3, <1>4, <1>5

LEMMA AboveLeast ==
  ASSUME NEW incl, NEW f, NEW s \in SUBSET Files, Includers(incl, f) \subseteq s,
         incl \subseteq Files \X Files,
         \A x \in s : Includers(incl, x) \subseteq s
  PROVE  AboveIn(incl, f) \subseteq s
<1> DEFINE arrows == {<<p[2], p[1]>> : p \in incl}
<1>1. ASSUME NEW a \in arrows, a[1] \in s PROVE a[2] \in s
  <2>1. PICK p \in incl : a = <<p[2], p[1]>>
    BY <1>1
  <2>2. p = <<p[1], p[2]>> /\ p[1] \in Files /\ p[2] \in Files
    BY <2>1
  <2>3. p[1] \in Includers(incl, p[2])
    BY <2>1, <2>2 DEF Includers
  <2> QED BY <1>1, <2>1, <2>2, <2>3
<1>2. Reach(arrows, Includers(incl, f)) \subseteq s
  BY <1>1, ReachLeast
<1> QED BY <1>2 DEF AboveIn

LEMMA AboveTransitive ==
  ASSUME NEW incl \in SUBSET (Files \X Files), NEW f, NEW x \in AboveIn(incl, f)
  PROVE  AboveIn(incl, x) \subseteq AboveIn(incl, f)
BY AboveHolds, AboveLeast

LEMMA AcyclicAbove ==
  ASSUME NEW incl \in SUBSET (Files \X Files), NEW f, AcyclicIn(incl, f),
         NEW x \in AboveIn(incl, f)
  PROVE  AcyclicIn(incl, x)
BY AboveTransitive DEF AcyclicIn

(* Where nothing goes in circles above one of the files of todo, there is  *)
(* one that no other includes: one with the fewest files above it.         *)
LEMMA FirstOfOrder ==
  ASSUME NEW incl \in SUBSET (Files \X Files), NEW todo \in SUBSET Files,
         NEW f \in todo, AcyclicIn(incl, f)
  PROVE  \E x \in todo : Includers(incl, x) \cap todo = {}
<1> DEFINE X == {x \in todo : x = f \/ x \in AboveIn(incl, f)}
           T == {AboveIn(incl, x) : x \in X}
<1>1. T \subseteq FiniteSubsetsOf(Files) /\ T # {}
  <2>1. ASSUME NEW x \in X PROVE AboveIn(incl, x) \in FiniteSubsetsOf(Files)
    <3>1. AboveIn(incl, x) \in SUBSET Files
      BY AboveHolds
    <3>2. IsFiniteSet(AboveIn(incl, x))
      BY <3>1, FilesAssumption, FS_Subset
    <3> QED BY <3>1, <3>2 DEF FiniteSubsetsOf
  <2>2. f \in X
    OBVIOUS
  <2> QED BY <2>1, <2>2
<1>2. IsWellFoundedOn(StrictSubsetOrdering(Files), FiniteSubsetsOf(Files))
  BY FS_StrictSubsetOrderingWellFounded
<1>3. PICK t \in T : \A u \in T : ~(<<u, t>> \in StrictSubsetOrdering(Files))
  <2> HIDE DEF T
  <2> QED BY <1>1, <1>2, WFMin
<1>4. PICK x \in X : t = AboveIn(incl, x)
  BY <1>3
<1>5. ASSUME NEW y \in Includers(incl, x) \cap todo PROVE FALSE
  <2>1. y \in AboveIn(incl, x)
    BY <1>5, AboveHolds
  <2>2. y \in AboveIn(incl, f)
    <3>1. CASE x = f
      BY <2>1, <3>1
    <3>2. CASE x \in AboveIn(incl, f)
      BY <2>1, <3>2, AboveTransitive
    <3> QED BY <1>4, <3>1, <3>2
  <2>3. y \in X
    BY <1>5, <2>2
  <2>4. y \notin AboveIn(incl, y)
    BY <2>2 DEF AcyclicIn
  <2>5. AboveIn(incl, y) \subseteq AboveIn(incl, x)
    BY <2>1, AboveTransitive
  <2>6. AboveIn(incl, y) \in SUBSET Files /\ AboveIn(incl, x) \in SUBSET Files
    BY AboveHolds
  <2>7. <<AboveIn(incl, y), AboveIn(incl, x)>> \in StrictSubsetOrdering(Files)
    BY <2>1, <2>4, <2>5, <2>6 DEF StrictSubsetOrdering
  <2>8. AboveIn(incl, y) \in T
    BY <2>3
  <2> QED BY <1>3, <1>4, <2>7, <2>8
<1> QED BY <1>4, <1>5

LEMMA OrderElsewhere ==
  ASSUME run'.pc # "cleanup"
  PROVE  OrderInv'
BY DEF OrderInv

LEMMA OrderStarts ==
  ASSUME TypeOK, CreateCleanupOrder
  PROVE  OrderInv'
<1>1. /\ run'.level = {} /\ run'.todo = Marked /\ run'.status = run.status /\ db' = db
  BY DEF CreateCleanupOrder, TypeOK, RunType
<1>2. OrderComplete
  BY DEF CreateCleanupOrder
<1> QED BY <1>1, <1>2 DEF OrderInv, OrderComplete, Marked

(* The next layer: what is above one of its files was in an earlier one.   *)
LEMMA OrderLevel ==
  ASSUME TypeOK, OrderInv, StartLevel
  PROVE  OrderInv'
<1>1. /\ run.pc = "cleanup" /\ run.level = {} /\ run.todo # {}
      /\ run'.level = (IF TopLevel(run.todo) = {} THEN run.todo ELSE TopLevel(run.todo))
      /\ run'.todo = run.todo \ run'.level /\ run'.status = run.status /\ db' = db
  BY DEF StartLevel, TypeOK, RunType
<1>2. run'.level \subseteq run.todo /\ run'.level \cup run'.todo = run.todo
  BY <1>1 DEF TopLevel
<1>3. /\ OrderComplete /\ run.todo \subseteq Marked /\ Marked \subseteq Files
      /\ db.incl \in SUBSET (Files \X Files)
  BY <1>1 DEF OrderInv, Marked, TypeOK, DbType
<1>4. \A f \in Marked \ run.todo :
        AcyclicIn(db.incl, f) => AboveIn(db.incl, f) \cap run.todo = {}
  BY <1>1 DEF OrderInv
<1>5. \A f \in Marked : Includers(db.incl, f) \subseteq Marked
  BY <1>3 DEF OrderComplete, Includers
<1>6. ASSUME NEW f \in run'.level, AcyclicIn(db.incl, f)
      PROVE  AboveIn(db.incl, f) \cap run.todo = {}
  <2>1. f \in run.todo /\ f \in Marked
    BY <1>2, <1>3
  <2>2. \E x \in run.todo : Includers(db.incl, x) \cap run.todo = {}
    BY <1>3, <1>6, <2>1, FirstOfOrder
  <2>3. TopLevel(run.todo) # {}
    <3>1. PICK x \in run.todo : Includers(db.incl, x) \cap run.todo = {}
      BY <2>2
    <3>2. x \in TopLevel(run.todo)
      BY <1>3, <3>1 DEF TopLevel, Includers
    <3> QED BY <3>2
  <2>4. Includers(db.incl, f) \cap run.todo = {}
    BY <1>1, <1>6, <2>3 DEF TopLevel, Includers
  <2> DEFINE s == {x \in AboveIn(db.incl, f) : x \in Marked /\ x \notin run.todo}
  <2>5. s \in SUBSET Files /\ Includers(db.incl, f) \subseteq s
    BY <1>3, <1>5, <2>1, <2>4, AboveHolds
  <2>6. ASSUME NEW x \in s PROVE Includers(db.incl, x) \subseteq s
    <3>1. AcyclicIn(db.incl, x)
      BY <1>3, <1>6, AcyclicAbove
    <3>2. AboveIn(db.incl, x) \cap run.todo = {}
      BY <1>4, <3>1
    <3>3. Includers(db.incl, x) \subseteq AboveIn(db.incl, x)
      BY AboveHolds
    <3>4. Includers(db.incl, x) \subseteq AboveIn(db.incl, f)
      BY AboveHolds
    <3> QED BY <1>5, <3>2, <3>3, <3>4
  <2>7. AboveIn(db.incl, f) \subseteq s
    <3> HIDE DEF s
    <3> QED BY <1>3, <2>5, <2>6, AboveLeast
  <2> QED BY <2>7
<1>7. \A f \in Marked \ run'.todo :
        AcyclicIn(db.incl, f) => AboveIn(db.incl, f) \cap (run'.level \cup run'.todo) = {}
  BY <1>2, <1>4, <1>6
<1>8. OrderComplete' /\ Marked' = Marked
  BY <1>1, <1>3 DEF OrderComplete, Marked
<1> QED BY <1>1, <1>2, <1>3, <1>7, <1>8 DEF OrderInv

LEMMA OrderJob ==
  ASSUME TypeOK, OrderInv, NEW f \in Files,
         CleanupJob(f) \/ CleanupJobDeadlock(f) \/ CleanupJobFails(f)
  PROVE  OrderInv'
<1>1. /\ run.pc = "cleanup" /\ run'.level = run.level \ {f} /\ run'.todo = run.todo
      /\ run'.status = run.status
  BY DEF CleanupJob, CleanupJobDeadlock, CleanupJobFails, TypeOK, RunType
<1>2. db'.incl = db.incl
  BY DEF CleanupJob, CleanupJobDeadlock, CleanupJobFails, CleanFile, TypeOK, DbType
<1>3. OrderComplete' = OrderComplete /\ Marked' = Marked
  BY <1>1, <1>2 DEF OrderComplete, Marked
<1> QED BY <1>1, <1>2, <1>3 DEF OrderInv

LEMMA OrderStep ==
  ASSUME TypeOK, OrderInv, Next
  PROVE  OrderInv'
<1>1. CASE run' = NoRun
  BY <1>1, OrderElsewhere DEF NoRun
<1>2. CASE Editing \/ \E force, dryRun \in BOOLEAN : Start(force, dryRun)
  <2>1. run.pc = "idle" /\ run = NoRun
    BY <1>2 DEF Editing, Delete, Modify, Add, Reconfigure, Edit, Start, TypeOK
  <2>2. run'.pc \in {"idle", "prepare"}
    BY <1>2, <2>1 DEF Editing, Delete, Modify, Add, Reconfigure, Edit, Start, NoRun
  <2> QED BY <2>2, OrderElsewhere
<1>3. CASE \/ PrepareProjectDir \/ ConnectDatabase \/ SetUpTables \/ DetectChanges
           \/ MarkModifiedFiles \/ ListOnly \/ ForceByThreshold \/ Proceed
  <2>1. PrepareProjectDir \/ ConnectDatabase \/ SetUpTables => run'.pc # "cleanup"
    BY DEF PrepareProjectDir, ConnectDatabase, SetUpTables, TypeOK, RunType
  <2>2. DetectChanges => run'.pc # "cleanup"
    BY DEF DetectChanges, TypeOK, RunType
  <2>a. MarkModifiedFiles => run'.pc # "cleanup"
    BY DEF MarkModifiedFiles, TypeOK, RunType
  <2>3. ListOnly \/ ForceByThreshold \/ Proceed => run'.pc # "cleanup"
    BY DEF ListOnly, ForceByThreshold, Proceed, TypeOK, RunType
  <2> QED BY <1>3, <2>1, <2>2, <2>a, <2>3, OrderElsewhere
<1>4. CASE CreateCleanupOrder
  BY <1>4, OrderStarts
<1>5. CASE StartLevel
  BY <1>5, OrderLevel
<1>6. ASSUME NEW f \in Files, CleanupJob(f) \/ CleanupJobDeadlock(f) \/ CleanupJobFails(f)
      PROVE  OrderInv'
  BY <1>6, OrderJob
<1>7. CASE CleanupSucceeded \/ CleanupMetrics \/ \E f \in Files : RemoveFile(f)
  <2>1. run'.pc # "cleanup"
    BY <1>7 DEF CleanupSucceeded, CleanupMetrics, RemoveFile, TypeOK, RunType
  <2> QED BY <2>1, OrderElsewhere
<1>8. CASE FilesRemoved \/ Parsing
  BY <1>8, ParsingStages, OrderElsewhere
<1>9. CASE StartMetrics \/ (\E f \in Files : MetricsJob(f)) \/ MetricsDone
           \/ CreateIndexes \/ ParseCppMetrics \/ WriteProjectInfo
  <2>1. run'.pc \in {"counting", "index", "cppMetrics", "config", "exit"}
    BY <1>9 DEF StartMetrics, MetricsJob, MetricsDone, CreateIndexes, ParseCppMetrics,
                WriteProjectInfo, TypeOK, RunType
  <2> QED BY <2>1, OrderElsewhere
<1> QED BY <1>1, <1>2, <1>3, <1>4, <1>5, <1>6, <1>7, <1>8, <1>9, Ends DEF Next, Cleaning

(* CppParser::cleanupDatabase keeps its promise: whichever jobs of a level *)
(* are done first, and whichever fail, a file leaves the order after all   *)
(* the files that include it, directly or not, unless they go in circles.  *)
THEOREM CleanupInOrder == Spec => CleanedAfterDependants
<1>1. Init => OrderInv
  BY OrderElsewhere DEF Init, NoRun, OrderInv
<1>2. TypeOK /\ OrderInv /\ [Next]_vars => OrderInv'
  <2>1. ASSUME OrderInv, UNCHANGED vars PROVE OrderInv'
    BY <2>1 DEF OrderInv, OrderComplete, Marked, vars
  <2> QED BY <2>1, OrderStep
<1>3. ASSUME TypeOK, OrderInv, NEW f \in run.level \ run'.level,
             \A g \in Above(f) \cup {f} : g \notin Above(g)
      PROVE  Above(f) \cap (run.level \cup run.todo) = {}
  <2>1. run.pc = "cleanup" /\ f \in Marked \ run.todo
    BY <1>3 DEF TypeOK, OrderInv
  <2>2. AcyclicIn(db.incl, f)
    BY <1>3, AboveIsAboveIn DEF AcyclicIn
  <2> QED BY <1>3, <2>1, <2>2, AboveIsAboveIn DEF OrderInv
<1>4. TypeOK /\ OrderInv /\ [Next]_vars
        => [\A f \in run.level \ run'.level :
              (\A g \in Above(f) \cup {f} : g \notin Above(g)) =>
                Above(f) \cap (run.level \cup run.todo) = {}]_vars
  BY <1>3
<1> QED BY <1>1, <1>2, <1>4, TypeCorrect, PTL DEF Spec, CleanedAfterDependants
=============================================================================
