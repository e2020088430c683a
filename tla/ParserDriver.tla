---------------------------- MODULE ParserDriver ----------------------------
(***************************************************************************)
(* CodeCompass_parser: the workflow of main() with the C++ plugin (on a    *)
(* pool of threads), the metrics plugin and the C++ metrics plugin, run    *)
(* again and again on a project that is edited between two runs.  A run    *)
(* may be killed between any two transactions.                             *)
(***************************************************************************)
EXTENDS ParseDb

CONSTANTS
  Includes,     \* Includes[f][v]: the files a version of f includes
  CompDbs,      \* the sets of commands compile_commands.json may hold
  InitialProjects,  \* what the project is before the first run
  Threads,      \* --jobs
  Thresholds,   \* --incremental-threshold, in percent: an option of each run
  Faults,       \* which of "crash", "deadlock", "dberror" may happen
  MaxRuns, MaxEdits   \* bounds on the history: nothing happens after the last run

ASSUME IncludesAssumption == Includes \in [Files -> [Versions -> SUBSET Files]]
ASSUME CompDbsAssumption == CompDbs \subseteq SUBSET Commands
ASSUME InitialAssumption ==
  InitialProjects \subseteq [disk : [Files -> Versions \cup {Absent}], compdb : CompDbs]
ASSUME ThreadsAssumption == Threads \in Nat \ {0}
ASSUME ThresholdsAssumption == Thresholds \subseteq Nat
ASSUME FaultsAssumption == Faults \subseteq {"crash", "deadlock", "dberror"}
ASSUME BoundsAssumption == MaxRuns \in Nat /\ MaxEdits \in Nat

VARIABLES
  disk,      \* the content of each file on disk
  compdb,    \* the commands in compile_commands.json
  db,        \* the workspace database
  dir,       \* the project directory: exists, and holds project_info.json (info)
  run,       \* the running parser, if any
  outcome,   \* how the last run ended, "none" once the project was edited
  since,     \* what happened since the tables were last made, see Events
  runs, edits

vars == <<disk, compdb, db, dir, run, outcome, since, runs, edits>>
project == <<disk, compdb, edits>>
history == <<since, runs, outcome>>

Statuses == {"none", "MODIFIED", "DELETED", "ACTION_CHANGED"}
Stages == {"idle", "started", "claimed", "stored", "included"}

(* What a property may have to allow for: a run that failed, a cleanup that *)
(* was rolled back, one that found no foreign keys, a dry run that emptied  *)
(* the tables, a full parse forced by the threshold, a new file that what   *)
(* is parsed refers to already.                                             *)
Events == {"failed", "rolled back", "unkeyed", "emptied", "threshold", "added"}

(***************************************************************************)
(* The parser's memory: the options and isNewDb, SourceManager::_files,    *)
(* ParserContext::fileStatus, MetricsParser::_fileIdCache, the cleanup     *)
(* jobs of the current level and the files of the levels to come,          *)
(* allJobsSucceded, the parse jobs, and EntityCache.                       *)
(***************************************************************************)
NoRun ==
  [pc |-> "idle", force |-> FALSE, dryRun |-> FALSE, newDb |-> FALSE,
   files |-> [f \in Files |-> Absent], status |-> [f \in Files |-> "none"],
   fileIdCache |-> {}, level |-> {}, todo |-> {}, failed |-> FALSE,
   pending |-> {}, stage |-> [c \in Commands |-> "idle"],
   claimed |-> [c \in Commands |-> {}], entityCache |-> {}]

Init ==
  /\ \E p \in InitialProjects : disk = p.disk /\ compdb = p.compdb
  /\ db = NoDb
  /\ dir = [exists |-> FALSE, info |-> FALSE]
  /\ run = NoRun
  /\ outcome = "none"
  /\ since = {}
  /\ runs = 0
  /\ edits = 0

-----------------------------------------------------------------------------
(* What a translation unit sees on disk. *)

OnDisk == {f \in Files : disk[f] # Absent}
Content(f) == IF f \in OnDisk THEN disk[f] ELSE Blank
InclusionsOnDisk == {p \in OnDisk \X OnDisk : p[2] \in Includes[p[1]][disk[p[1]]]}

(* The files that clang reads when it compiles f. *)
Unit(f) == Reach(InclusionsOnDisk, {f}) \cap OnDisk

UnitNodes(f) == {<<g, disk[g]>> : g \in Unit(f)}
UnitInclusions(f) == InclusionsOnDisk \cap (Unit(f) \X Unit(f))

Marked == {f \in Files : run.status[f] # "none"}

(* SourceManager::getFile for every file of fs: an entry is made for a path *)
(* that has none, and kept otherwise.                                       *)
WithEntries(files, fs) ==
  [f \in Files |-> IF f \in fs /\ files[f] = Absent THEN Content(f) ELSE files[f]]

-----------------------------------------------------------------------------
(* The user edits the project while no parser runs. *)

Edit ==
  /\ run.pc = "idle"
  /\ edits < MaxEdits /\ runs < MaxRuns
  /\ edits' = edits + 1
  /\ outcome' = "none"
  /\ UNCHANGED <<db, dir, run, runs>>

Modify(f, v) ==
  /\ disk[f] \notin {Absent, v}
  /\ disk' = [disk EXCEPT ![f] = v]
  /\ UNCHANGED <<compdb, since>>
  /\ Edit

Delete(f) ==
  /\ f \in OnDisk
  /\ disk' = [disk EXCEPT ![f] = Absent]
  /\ UNCHANGED <<compdb, since>>
  /\ Edit

(* A new file.  What was parsed may refer to it already: there is a row for *)
(* it without content, or an #include that did not resolve.                 *)
Add(f, v) ==
  LET referred == \/ db.file[f] = Blank
                  \/ /\ db.file[f] = Absent
                     /\ \E g \in Files : db.file[g] \in Versions /\ f \in Includes[g][db.file[g]]
  IN /\ f \notin OnDisk
     /\ disk' = [disk EXCEPT ![f] = v]
     /\ since' = since \cup (IF referred THEN {"added"} ELSE {})
     /\ UNCHANGED compdb
     /\ Edit

Reconfigure(cs) ==
  /\ cs # compdb
  /\ compdb' = cs
  /\ UNCHANGED <<disk, since>>
  /\ Edit

-----------------------------------------------------------------------------
(* The process ends before its work is done.  What it had committed stays. *)

Die ==
  /\ run' = NoRun
  /\ outcome' = "failed"
  /\ since' = since \cup {"failed"}
  /\ UNCHANGED <<project, dir, runs>>

(* A job persists the files that SourceManager has before its own rows.  A  *)
(* crash that no run follows is left out.                                   *)
Crash ==
  /\ "crash" \in Faults
  /\ run.pc # "idle" /\ runs < MaxRuns
  /\ \/ UNCHANGED db
     \/ run.pc = "parsing" /\ db' = PersistFiles(db, run.files)
  /\ Die

-----------------------------------------------------------------------------
(* main(): the checks before anything is touched. *)

Start(force, dryRun) ==
  LET newDb == ~db.exists
      newProject == ~dir.exists
  IN /\ run.pc = "idle"
     /\ runs < MaxRuns
     /\ newProject = newDb \/ force
     /\ ~(newDb /\ dryRun)
     /\ run' = [NoRun EXCEPT !.pc = "prepare", !.force = force, !.dryRun = dryRun,
                             !.newDb = newDb]
     /\ runs' = runs + 1
     /\ outcome' = "none"
     /\ UNCHANGED <<project, db, dir, since>>

PrepareProjectDir ==
  /\ run.pc = "prepare"
  /\ dir' = [exists |-> TRUE, info |-> dir.info /\ ~run.force]
  /\ run' = [run EXCEPT !.pc = "connect"]
  /\ UNCHANGED <<project, db, history>>

(* connectDatabase creates a database that is not there, without tables. *)
ConnectDatabase ==
  /\ run.pc = "connect"
  /\ db' = [db EXCEPT !.exists = TRUE]
  /\ run' = [run EXCEPT !.pc = "tables"]
  /\ UNCHANGED <<project, dir, history>>

SetUpTables ==
  LET full == run.force \/ run.newDb
  IN /\ run.pc = "tables"
     /\ db' = IF full THEN EmptyTables ELSE db
     /\ run' = [run EXCEPT !.pc = "detect"]
     /\ since' = IF ~full THEN since ELSE IF run.dryRun THEN {"emptied"} ELSE {}
     /\ UNCHANGED <<project, dir, runs, outcome>>

DetectChanges ==
  /\ run.pc = "detect"
  /\ db.tables
  /\ run' = [run EXCEPT
       !.pc = "mark",
       !.files = db.file,
       !.status = [f \in Files |->
          IF db.file[f] = Absent THEN "none"
          ELSE IF f \notin OnDisk THEN "DELETED"
          ELSE IF db.file[f] \notin {Blank, disk[f]} THEN "MODIFIED" ELSE "none"],
       !.fileIdCache = {f \in Files : \E n \in NodesOf(f) : db.loc[n] > 0}]
  /\ UNCHANGED <<project, db, dir, history>>

(* A run was killed before it made the tables: nothing can be loaded.      *)
DetectThrows ==
  /\ run.pc = "detect"
  /\ ~db.tables
  /\ UNCHANGED db
  /\ Die

(* CppParser::markByInclusion: the files that include one of fs, directly  *)
(* or through others.                                                      *)
IncludersOf(fs) == Reach({<<p[2], p[1]>> : p \in db.incl}, fs)

(* Mutant: the commands that are gone are not looked for. *)
MarkModifiedFilesByInclusionOnly ==
  LET modified == IncludersOf(Marked)
  IN /\ run.pc = "mark"
     /\ modified \subseteq Rows(db.file)
     /\ run' = [run EXCEPT
          !.pc = "decide",
          !.status = [f \in Files |->
             IF @[f] = "none" /\ f \in modified THEN "MODIFIED" ELSE @[f]]]
     /\ UNCHANGED <<project, db, dir, history>>

(***************************************************************************)
(* CppParser::markModifiedFiles: files that include a changed one are      *)
(* modified, then the sources of the build actions that are no longer in   *)
(* the compilation database have changed.                                  *)
(***************************************************************************)
MarkModifiedFiles ==
  LET modified == IncludersOf(Marked)
  IN /\ run.pc = "mark"
     /\ modified \subseteq Rows(db.file)
     /\ run' = [run EXCEPT
          !.pc = "decide",
          !.status = [f \in Files |->
             IF @[f] # "none" THEN @[f]
             ELSE IF f \in modified THEN "MODIFIED"
             ELSE IF \E c \in db.src \ compdb : Source[c] = f THEN "ACTION_CHANGED"
             ELSE "none"]]
     /\ UNCHANGED <<project, db, dir, history>>

(* An inclusion whose includer has no row any more cannot be loaded. *)
MarkThrows ==
  /\ run.pc = "mark"
  /\ ~(IncludersOf(Marked) \subseteq Rows(db.file))
  /\ UNCHANGED db
  /\ Die

-----------------------------------------------------------------------------
(* main(): dry run, full parse or incremental parse. *)

OverThreshold(t) == Cardinality(Marked) * 100 > Cardinality(Rows(run.files)) * t

ListOnly ==
  /\ run.pc = "decide"
  /\ run.dryRun
  /\ run' = [run EXCEPT !.pc = "exit"]
  /\ UNCHANGED <<project, db, dir, history>>

(* Mutant: the threshold is looked at before --dry-run. *)
ForceByThresholdFirst ==
  /\ run.pc = "decide"
  /\ \E t \in Thresholds : OverThreshold(t)
  /\ db' = EmptyTables
  /\ run' = [run EXCEPT !.pc = "parse", !.force = TRUE,
                        !.files = [f \in Files |-> Absent],
                        !.status = [f \in Files |-> "none"]]
  /\ since' = {"threshold"}
  /\ UNCHANGED <<project, dir, runs, outcome>>

(* The plugins were constructed before and keep what they have cached. *)
ForceByThreshold ==
  /\ run.pc = "decide"
  /\ ~run.dryRun
  /\ \E t \in Thresholds : OverThreshold(t)
  /\ db' = EmptyTables
  /\ run' = [run EXCEPT !.pc = "parse", !.force = TRUE,
                        !.files = [f \in Files |-> Absent],
                        !.status = [f \in Files |-> "none"]]
  /\ since' = {"threshold"}
  /\ UNCHANGED <<project, dir, runs, outcome>>

Proceed ==
  /\ run.pc = "decide"
  /\ ~run.dryRun
  /\ \E t \in Thresholds : ~OverThreshold(t)
  /\ run' = [run EXCEPT !.pc = IF run.force THEN "parse" ELSE "order"]
  /\ UNCHANGED <<project, db, dir, history>>

-----------------------------------------------------------------------------
(* CppParser::cleanupDatabase. *)

(* Every file that includes a changed file has to be among the changed     *)
(* ones, or fileNameToVertex.at() throws and nothing catches it.           *)
OrderComplete ==
  \A p \in db.incl : p[2] \in Marked => p[1] \in Marked

CreateCleanupOrder ==
  /\ run.pc = "order"
  /\ OrderComplete
  /\ run' = [run EXCEPT !.pc = "cleanup", !.todo = Marked]
  /\ since' = since \cup (IF Marked # {} /\ ~Keyed(db) THEN {"unkeyed"} ELSE {})
  /\ UNCHANGED <<project, db, dir, runs, outcome>>

CreateCleanupOrderThrows ==
  /\ run.pc = "order"
  /\ ~OrderComplete
  /\ UNCHANGED db
  /\ Die

(* Mutant: the files that include no other file of todo go first. *)
TopLevelReversed(todo) == {f \in todo : \A g \in todo : <<f, g>> \notin db.incl}

(* The files of todo that no other file of todo includes. *)
TopLevel(todo) == {f \in todo : \A g \in todo : <<g, f>> \notin db.incl}

(* Mutant: nothing is ready when the inclusions go in circles. *)
StartLevelAcyclic ==
  LET level == TopLevel(run.todo)
  IN /\ run.pc = "cleanup"
     /\ run.level = {} /\ run.todo # {}
     /\ run' = [run EXCEPT !.level = level, !.todo = @ \ level]
     /\ UNCHANGED <<project, db, dir, history>>

(* One layer of the order, or all that is left if it goes in circles. *)
StartLevel ==
  LET top == TopLevel(run.todo)
      level == IF top = {} THEN run.todo ELSE top
  IN /\ run.pc = "cleanup"
     /\ run.level = {} /\ run.todo # {}
     /\ run' = [run EXCEPT !.level = level, !.todo = @ \ level]
     /\ UNCHANGED <<project, db, dir, history>>

Orphaned(f) == \E c \in db.orphans : Source[c] = f

CleanupJob(f) ==
  /\ run.pc = "cleanup"
  /\ f \in run.level
  /\ ~Orphaned(f)
  /\ db' = CleanFile(db, f)
  /\ run' = [run EXCEPT !.level = @ \ {f}]
  /\ UNCHANGED <<project, dir, history>>

(* A BuildSource cannot be loaded without its BuildAction. *)
CleanupJobThrows(f) ==
  /\ run.pc = "cleanup"
  /\ f \in run.level
  /\ Orphaned(f)
  /\ UNCHANGED db
  /\ Die

(* A deadlock rolls the transaction back; the first of three tries only    *)
(* says that it will retry, and reports success.                           *)
CleanupJobDeadlock(f) ==
  /\ "deadlock" \in Faults
  /\ run.pc = "cleanup"
  /\ f \in run.level
  /\ run' = [run EXCEPT !.level = @ \ {f}]
  /\ since' = since \cup {"rolled back"}
  /\ UNCHANGED <<project, db, dir, runs, outcome>>

CleanupJobFails(f) ==
  /\ "dberror" \in Faults
  /\ run.pc = "cleanup"
  /\ f \in run.level
  /\ run' = [run EXCEPT !.level = @ \ {f}, !.failed = TRUE]
  /\ UNCHANGED <<project, db, dir, history>>

LevelsDone == run.pc = "cleanup" /\ run.level = {} /\ run.todo = {}

(* main() returns 2, and the SourceManager still persists its files. *)
CleanupFailed ==
  /\ LevelsDone
  /\ run.failed
  /\ db' = PersistFiles(db, run.files)
  /\ Die

CleanupSucceeded ==
  /\ LevelsDone
  /\ ~run.failed
  /\ run' = [run EXCEPT !.pc = "cleanMetrics"]
  /\ UNCHANGED <<project, db, dir, history>>

(* MetricsParser::cleanupDatabase.  That of the C++ metrics plugin does     *)
(* nothing: it looks for CppFileMetrics rows, and no one makes any.         *)
CleanupMetrics ==
  /\ run.pc = "cleanMetrics"
  /\ LET changed == Marked \cap run.fileIdCache \cap Rows(db.file)
     IN /\ db' = [db EXCEPT !.loc = Erase(@, {n \in Node : n[1] \in changed})]
        /\ run' = [run EXCEPT !.pc = "cleanFiles", !.todo = Marked,
                              !.fileIdCache = @ \ changed]
  /\ UNCHANGED <<project, dir, history>>

(* incrementalCleanup: one transaction for each changed file. *)
RemoveFile(f) ==
  /\ run.pc = "cleanFiles"
  /\ f \in run.todo
  /\ Removable(db, f)
  /\ db' = RemoveRow(db, f)
  /\ run' = [run EXCEPT !.files[f] = Absent, !.todo = @ \ {f}]
  /\ UNCHANGED <<project, dir, history>>

RemoveFileThrows ==
  /\ run.pc = "cleanFiles"
  /\ \E f \in run.todo : ~Removable(db, f)
  /\ UNCHANGED db
  /\ Die

FilesRemoved ==
  /\ run.pc = "cleanFiles"
  /\ run.todo = {}
  /\ run' = [run EXCEPT !.pc = "parse"]
  /\ UNCHANGED <<project, db, dir, history>>

-----------------------------------------------------------------------------
(* CppParser::parse: the commands whose hash is not known go to the pool. *)

StartParse ==
  /\ run.pc = "parse"
  /\ run' = [run EXCEPT !.pc = "parsing", !.pending = compdb \ db.action,
                        !.entityCache = db.ast]
  /\ UNCHANGED <<project, db, dir, history>>

Running == {c \in Commands : run.stage[c] # "idle"}

(* parseWorker: addBuildAction commits before clang starts. *)
StartJob(c) ==
  /\ run.pc = "parsing"
  /\ c \in run.pending
  /\ Cardinality(Running) < Threads
  /\ db' = [db EXCEPT !.action = @ \cup {c}]
  /\ run' = [run EXCEPT !.pending = @ \ {c}, !.stage[c] = "started"]
  /\ UNCHANGED <<project, dir, history>>

(* Mutant: what another translation unit has claimed is claimed again. *)
ClaimEverything(c) ==
  /\ run.stage[c] = "started"
  /\ run' = [run EXCEPT !.stage[c] = "claimed",
                        !.claimed[c] = UnitNodes(Source[c]),
                        !.entityCache = @ \cup UnitNodes(Source[c]),
                        !.files = WithEntries(@, Unit(Source[c]))]
  /\ UNCHANGED <<project, db, dir, history>>

(* ClangASTVisitor: the nodes that EntityCache did not have are this unit's *)
(* to persist.                                                              *)
Claim(c) ==
  /\ run.stage[c] = "started"
  /\ run' = [run EXCEPT !.stage[c] = "claimed",
                        !.claimed[c] = UnitNodes(Source[c]) \ run.entityCache,
                        !.entityCache = @ \cup UnitNodes(Source[c]),
                        !.files = WithEntries(@, Unit(Source[c]))]
  /\ UNCHANGED <<project, db, dir, history>>

(* ~ClangASTVisitor *)
Store(c) ==
  LET mine == run.claimed[c]
  IN /\ run.stage[c] = "claimed"
     /\ db' = [PersistFiles(db, run.files) EXCEPT
                 !.ast = @ \cup mine,
                 !.ent = [n \in Node |-> @[n] + (IF n \in mine THEN 1 ELSE 0)]]
     /\ run' = [run EXCEPT !.stage[c] = "stored", !.claimed[c] = {}]
     /\ UNCHANGED <<project, dir, history>>

(* ~PPIncludeCallback *)
StoreInclusions(c) ==
  /\ run.stage[c] = "stored"
  /\ db' = [PersistFiles(db, run.files) EXCEPT !.incl = @ \cup UnitInclusions(Source[c])]
  /\ run' = [run EXCEPT !.stage[c] = "included"]
  /\ UNCHANGED <<project, dir, history>>

(* addCompileCommand, also when clang found no such file. *)
RecordCommand(c) ==
  LET files == WithEntries(run.files, {Source[c]})
  IN /\ run.stage[c] = "included"
     /\ db' = [PersistFiles(db, files) EXCEPT !.src = @ \cup {c}]
     /\ run' = [run EXCEPT !.stage[c] = "idle", !.files = files]
     /\ UNCHANGED <<project, dir, history>>

ParseDone ==
  /\ run.pc = "parsing"
  /\ run.pending = {} /\ Running = {}
  /\ run' = [run EXCEPT !.pc = "metrics", !.entityCache = {}]
  /\ UNCHANGED <<project, db, dir, history>>

-----------------------------------------------------------------------------
(* The rest of main(). *)

StartMetrics ==
  /\ run.pc = "metrics"
  /\ run' = [run EXCEPT !.pc = "counting", !.todo = OnDisk]
  /\ UNCHANGED <<project, db, dir, history>>

(* Mutant: files that were counted before are counted again. *)
MetricsJobAlways(f) ==
  /\ run.pc = "counting"
  /\ f \in run.todo
  /\ db' = [db EXCEPT !.loc[<<f, disk[f]>>] = @ + 1]
  /\ run' = [run EXCEPT !.todo = @ \ {f}, !.files = WithEntries(@, {f})]
  /\ UNCHANGED <<project, dir, history>>

(* MetricsParser::parse: a file of the input directory, unless it had       *)
(* metrics when the parser began.                                           *)
MetricsJob(f) ==
  LET files == WithEntries(run.files, {f})
  IN /\ run.pc = "counting"
     /\ f \in run.todo
     /\ db' = IF f \in run.fileIdCache \/ files[f] = Blank THEN db
              ELSE [db EXCEPT !.loc[<<f, files[f]>>] = @ + 1]
     /\ run' = [run EXCEPT !.todo = @ \ {f}, !.files = files]
     /\ UNCHANGED <<project, dir, history>>

MetricsDone ==
  /\ run.pc = "counting"
  /\ run.todo = {}
  /\ run' = [run EXCEPT !.pc = "index"]
  /\ UNCHANGED <<project, db, dir, history>>

CreateIndexes ==
  /\ run.pc = "index"
  /\ db' = [db EXCEPT !.indexed = @ \/ run.force \/ run.newDb]
  /\ run' = [run EXCEPT !.pc = "cppMetrics"]
  /\ UNCHANGED <<project, dir, history>>

(* CppMetricsParser::parse: a record for every function and type there is. *)
ParseCppMetrics ==
  /\ run.pc = "cppMetrics"
  /\ db' = [db EXCEPT !.nodeMetrics = [n \in Node |-> @[n] + (IF n \in db.ast THEN 1 ELSE 0)]]
  /\ run' = [run EXCEPT !.pc = "config"]
  /\ UNCHANGED <<project, dir, history>>

WriteProjectInfo ==
  /\ run.pc = "config"
  /\ dir' = [dir EXCEPT !.info = TRUE]
  /\ run' = [run EXCEPT !.pc = "exit"]
  /\ UNCHANGED <<project, db, history>>

(* ~SourceManager *)
Exit ==
  /\ run.pc = "exit"
  /\ db' = PersistFiles(db, run.files)
  /\ outcome' = IF run.dryRun THEN "listed" ELSE "parsed"
  /\ run' = NoRun
  /\ UNCHANGED <<project, dir, since, runs>>

-----------------------------------------------------------------------------
Editing ==
  \/ \E f \in Files : Delete(f) \/ \E v \in Versions : Modify(f, v) \/ Add(f, v)
  \/ \E cs \in CompDbs : Reconfigure(cs)

Cleaning ==
  \/ CreateCleanupOrder \/ CreateCleanupOrderThrows \/ StartLevel
  \/ \E f \in Files : CleanupJob(f) \/ CleanupJobThrows(f) \/ CleanupJobDeadlock(f) \/ CleanupJobFails(f)
  \/ CleanupFailed \/ CleanupSucceeded \/ CleanupMetrics
  \/ \E f \in Files : RemoveFile(f)
  \/ RemoveFileThrows \/ FilesRemoved

Parsing ==
  \/ StartParse \/ ParseDone
  \/ \E c \in Commands :
       StartJob(c) \/ Claim(c) \/ Store(c) \/ StoreInclusions(c) \/ RecordCommand(c)

Next ==
  \/ Editing
  \/ \E force, dryRun \in BOOLEAN : Start(force, dryRun)
  \/ PrepareProjectDir \/ ConnectDatabase \/ SetUpTables \/ DetectChanges \/ MarkModifiedFiles
  \/ DetectThrows \/ MarkThrows
  \/ ListOnly \/ ForceByThreshold \/ Proceed
  \/ Cleaning \/ Parsing
  \/ StartMetrics \/ (\E f \in Files : MetricsJob(f)) \/ MetricsDone
  \/ CreateIndexes \/ ParseCppMetrics \/ WriteProjectInfo \/ Exit
  \/ Crash

Step == Next /\ run.pc # "idle"
Spec == Init /\ [][Next]_vars /\ WF_vars(Step)

-----------------------------------------------------------------------------
(* Types, and what a run does not keep beyond the stage it is for: the      *)
(* cleanup jobs, the parse jobs and the entity cache.                       *)
RunType ==
  [pc : {"idle", "prepare", "connect", "tables", "detect", "mark", "decide", "order", "cleanup",
         "cleanMetrics", "cleanFiles", "parse", "parsing", "metrics", "counting",
         "index", "cppMetrics", "config", "exit"},
   force : BOOLEAN, dryRun : BOOLEAN, newDb : BOOLEAN,
   files : [Files -> Versions \cup {Absent, Blank}], status : [Files -> Statuses],
   fileIdCache : SUBSET Files, level : SUBSET Files, todo : SUBSET Files,
   failed : BOOLEAN, pending : SUBSET Commands, stage : [Commands -> Stages],
   claimed : [Commands -> SUBSET Node], entityCache : SUBSET Node]

TypeOK ==
  /\ disk \in [Files -> Versions \cup {Absent}]
  /\ compdb \in CompDbs
  /\ db \in DbType
  /\ dir \in [exists : BOOLEAN, info : BOOLEAN]
  /\ run \in RunType
  /\ run.pc = "idle" => run = NoRun
  /\ run.level # {} => run.pc = "cleanup"
  /\ run.pc # "parsing" => run.pending = {} /\ Running = {} /\ run.entityCache = {}
  /\ outcome \in {"none", "failed", "listed", "parsed"}
  /\ since \subseteq Events
  /\ runs \in 0..MaxRuns /\ edits \in 0..MaxEdits

(* A full or an incremental parse leaves the database in step with the      *)
(* project: every command of the compilation database is recorded with the  *)
(* syntax tree, the entities (once) and the inclusions of what it reads,    *)
(* and nothing is left of contents and commands that are gone.              *)
InSync ==
  outcome = "parsed" /\ since \subseteq {"threshold"} =>
    /\ db.src = compdb /\ db.action = compdb
    /\ \A n \in db.ast : disk[n[1]] = n[2]
    /\ \A n \in Node : db.ent[n] = (IF n \in db.ast THEN 1 ELSE 0)
    /\ \A c \in compdb :
         UnitNodes(Source[c]) \subseteq db.ast /\ UnitInclusions(Source[c]) \subseteq db.incl
    /\ db.incl \subseteq InclusionsOnDisk

(* Whatever run was killed or has failed, and at whatever transaction, no   *)
(* node describes another content than the one stored with its file (if     *)
(* one is stored, and cleanups had the foreign keys to rely on), and no     *)
(* entity is there twice or without its node.                               *)
AstMatchesStored ==
  /\ "unkeyed" \notin since => \A n \in db.ast : db.file[n[1]] \in {n[2], Blank}
  /\ "rolled back" \notin since =>
       \A n \in Node : db.ent[n] = 0 \/ (db.ent[n] = 1 /\ n \in db.ast)

(* MetricsParser never counts a file twice, also when earlier runs were     *)
(* killed between two of its transactions.  When none failed, it has        *)
(* counted the content of every file on disk and nothing else.              *)
FileMetricsComplete ==
  /\ \A f \in Files : \A m, n \in NodesOf(f) :
       db.loc[m] \in {0, 1} /\ (db.loc[m] = 1 /\ db.loc[n] = 1 => m = n)
  /\ outcome = "parsed" /\ since = {} =>
       \A n \in Node : db.loc[n] = (IF disk[n[1]] = n[2] THEN 1 ELSE 0)

(* CppParser::cleanupDatabase promises that no file is cleaned up before    *)
(* the files that depend on it, as long as the inclusions allow an order.   *)
Above(f) == IncludersOf({g \in Files : <<g, f>> \in db.incl})

CleanedAfterDependants ==
  [][\A f \in run.level \ run'.level :
       (\A g \in Above(f) \cup {f} : g \notin Above(g)) =>
         Above(f) \cap (run.level \cup run.todo) = {}]_vars

(* A dry run of an incremental parse changes neither the database nor the   *)
(* project directory, up to the end of the process.                         *)
DryRunReadOnly ==
  [][run.pc # "idle" /\ run.dryRun /\ ~run.force => UNCHANGED <<db, dir>>]_vars

(* Every run comes to an end, whatever the inclusions of the project are.   *)
RunEnds == run.pc # "idle" ~> run.pc = "idle"

-----------------------------------------------------------------------------
(* What the documentation says, and the code does not do. *)

(* A cleanup that has succeeded has cleaned every changed file: a deadlock  *)
(* is said to be retried.                                                   *)
CleanupComplete ==
  run.pc = "cleanMetrics" =>
    \A f \in Marked : Removable(db, f) /\ \A n \in NodesOf(f) \cap db.ast : db.ent[n] = 0
=============================================================================
