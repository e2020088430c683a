----------------------------- MODULE SearchIndex -----------------------------
(* The search plugin of the parser and the indexer it forks when the plugin is
   created: a Java process at the other end of two pipes, which the parser both
   inherits, and a Lucene index that is written when the indexer closes it. *)
EXTENDS Naturals, FiniteSets, Sequences, SequencesExt

CONSTANTS
  Inputs,         \* the --input paths, a sequence
  Children,       \* directory -> the paths in it, a sequence
  SkipDirectories,\* --search-skip-directory
  Regular, Excluded, Large, PlainText,  \* what the files are
  Unreadable,     \* files that the indexer cannot read
  NoIndex         \* there is no index in the search directory

(* The paths that a traversal can meet. *)
SourcePath == ToSet(Inputs) \cup UNION {ToSet(Children[d]) : d \in DOMAIN Children}

ASSUME InputsAssumption == Inputs \in Seq(SourcePath)
ASSUME ChildrenAssumption == \A d \in DOMAIN Children : Children[d] \in Seq(SourcePath)

VARIABLES
  run,        \* where the parser is
  dry,        \* --dry-run
  todo,       \* paths that the traversal has still to meet
  persisted, flagged,  \* files with a row; those whose row says inSearchIndex
  indexer,    \* the process
  pipe, reply,\* messages to it; has it answered?
  tasks, docs,\* files it is indexing; documents its writer has
  index, suggestions, \* in the search directory
  died        \* history: the indexer died before its end

searchVars == <<run, dry, todo, persisted, flagged, indexer, pipe, reply, tasks, docs,
                index, suggestions, died>>
traversal == <<todo, persisted, flagged>>
process == <<indexer, pipe, reply, tasks, docs, died>>
disk == <<index, suggestions>>

(* Some files have rows from the other plugins, or from an earlier run that
   also left its index. *)
SearchInit ==
  /\ run = "create" /\ dry \in BOOLEAN
  /\ todo = <<>>
  /\ persisted \in {{}, Regular} /\ flagged = {}
  /\ indexer = "none" /\ pipe = <<>> /\ reply = FALSE /\ tasks = {} /\ docs = {}
  /\ index = (IF persisted = {} THEN NoIndex ELSE Regular) /\ suggestions = {}
  /\ died = FALSE

-----------------------------------------------------------------------------
(* The parser. *)
isAlive == indexer \in {"starting", "serving", "closing"}

(* IndexerProcess makes two pipes and forks; what fails of it ends the creation,
   and the plugin goes on without a process. *)
startIndexer == indexer' \in {"starting", "none"}

CreatePlugin ==
  /\ run = "create" /\ run' = "mark"
  /\ startIndexer
  /\ UNCHANGED <<dry, traversal, pipe, reply, tasks, docs, died, disk>>

(* parser.cpp leaves after listing the files of a dry run. *)
MarkModified ==
  /\ run = "mark"
  /\ run' = IF dry THEN "stop" ELSE "parse"
  /\ UNCHANGED <<dry, traversal, process, disk>>

Parse ==
  /\ run = "parse" /\ run' = "visit"
  /\ todo' = Inputs
  /\ index' = NoIndex /\ suggestions' = {}
  /\ UNCHANGED <<dry, persisted, flagged, process>>

IsDirectory(path) == path \in DOMAIN Children

shouldHandle(path) == path \in (Regular \cap PlainText) \ (Excluded \cup Large)

(* What the traversal does after the callback: into a directory, or on. *)
AfterVisit(path) ==
  IF IsDirectory(path) /\ indexer # "none" /\ path \notin SkipDirectories
  THEN Children[path] \o Tail(todo) ELSE Tail(todo)

(* One-way: the message stays in the pipe until the indexer reads it. *)
indexFile(path) == pipe' = Append(pipe, [call |-> "indexFile", file |-> path])

(* The callback for the next path.  A row that is there already is not written
   again, so its flag stays as it is. *)
Visit ==
  /\ run = "visit" /\ todo # <<>>
  /\ LET path == Head(todo)
         handled == indexer # "none" /\ ~IsDirectory(path) /\ shouldHandle(path)
     IN /\ todo' = AfterVisit(path)
        /\ persisted' = IF handled THEN persisted \cup {path} ELSE persisted
        /\ flagged' = IF handled /\ path \notin persisted THEN flagged \cup {path} ELSE flagged
        /\ IF handled /\ isAlive THEN indexFile(path) ELSE UNCHANGED pipe
        /\ run' = IF handled /\ ~isAlive THEN "aborted" ELSE run
  /\ UNCHANGED <<dry, indexer, reply, tasks, docs, died, disk>>

(* postParse: without a process the null pointer is used. *)
BuildSuggestions ==
  /\ run = "visit" /\ todo = <<>>
  /\ IF isAlive
     THEN run' = "answer" /\ pipe' = Append(pipe, [call |-> "buildSuggestions"])
     ELSE run' = "aborted" /\ UNCHANGED pipe
  /\ UNCHANGED <<dry, traversal, indexer, reply, tasks, docs, died, disk>>

(* The parser holds the writing end of the pipe too: it waits for ever for a
   process that has died. *)
GetAnswer ==
  /\ run = "answer" /\ reply
  /\ run' = "stop" /\ reply' = FALSE
  /\ UNCHANGED <<dry, traversal, indexer, pipe, tasks, docs, died, disk>>

(* The destructors: stop() if the process is there, then waitpid. *)
StopIndexer ==
  /\ run = "stop" /\ run' = "join"
  /\ pipe' = IF isAlive THEN Append(pipe, [call |-> "stop"]) ELSE pipe
  /\ UNCHANGED <<dry, traversal, indexer, reply, tasks, docs, died, disk>>

Join ==
  /\ run = "join" /\ ~isAlive
  /\ run' = "exited"
  /\ UNCHANGED <<dry, traversal, process, disk>>

KillParser ==
  /\ run \notin {"exited", "aborted"}
  /\ run' = "aborted"
  /\ UNCHANGED <<dry, traversal, process, disk>>

-----------------------------------------------------------------------------
(* The indexer. *)
Open ==
  /\ indexer = "starting"
  /\ indexer' = "serving" /\ docs' = {}
  /\ UNCHANGED <<run, dry, traversal, pipe, reply, tasks, died, disk>>

(* Without the tasks that are not done yet. *)
buildAll == suggestions' = docs

Serve ==
  /\ indexer = "serving" /\ pipe # <<>>
  /\ pipe' = Tail(pipe)
  /\ LET call == Head(pipe).call
     IN /\ tasks' = IF call = "indexFile" THEN tasks \cup {Head(pipe).file} ELSE tasks
        /\ IF call = "buildSuggestions" THEN buildAll ELSE UNCHANGED suggestions
        /\ reply' = (reply \/ call = "buildSuggestions")
        /\ indexer' = IF call = "stop" THEN "closing" ELSE indexer
  /\ UNCHANGED <<run, dry, traversal, docs, index, died>>

insertDocumentToIndex(f) == docs' = docs \cup {f}

FileIndexer(f) ==
  /\ isAlive /\ f \in tasks
  /\ tasks' = tasks \ {f}
  /\ IF f \in Unreadable THEN UNCHANGED docs ELSE insertDocumentToIndex(f)
  /\ UNCHANGED <<run, dry, traversal, indexer, pipe, reply, died, disk>>

(* Mutant of CloseIndexer: the writer commits at once. *)
CloseIndexerAtOnce ==
  /\ indexer = "closing"
  /\ indexer' = "ended" /\ index' = docs
  /\ UNCHANGED <<run, dry, traversal, pipe, reply, tasks, docs, suggestions, died>>

(* waitFileIndexers, then the writer commits. *)
CloseIndexer ==
  /\ indexer = "closing" /\ tasks = {}
  /\ indexer' = "ended" /\ index' = docs
  /\ UNCHANGED <<run, dry, traversal, pipe, reply, tasks, docs, suggestions, died>>

(* It fails, or PR_SET_PDEATHSIG ends it with the parser. *)
IndexerDies ==
  /\ isAlive
  /\ indexer' = "died" /\ tasks' = {} /\ died' = TRUE
  /\ UNCHANGED <<run, dry, traversal, pipe, reply, docs, disk>>

ParserStep ==
  \/ CreatePlugin \/ MarkModified \/ Parse \/ Visit \/ BuildSuggestions \/ GetAnswer
  \/ StopIndexer \/ Join

IndexerStep ==
  Open \/ Serve \/ (\E f \in tasks : FileIndexer(f)) \/ CloseIndexer

(* The signal comes with the parser's end. *)
Orphaned == run = "aborted" /\ IndexerDies

IndexNext ==
  ParserStep \/ KillParser \/ (run # "aborted" /\ (IndexerStep \/ IndexerDies)) \/ Orphaned

SearchEnded == run \in {"exited", "aborted"}

-----------------------------------------------------------------------------
(* What the inputs hold: the least set with the inputs that has, with a
   directory that is not skipped, all that is in it. *)
Closed(S) == \A d \in (S \cap DOMAIN Children) \ SkipDirectories : ToSet(Children[d]) \subseteq S

Below(S) == {p \in SourcePath : \A T \in SUBSET SourcePath : S \subseteq T /\ Closed(T) => p \in T}

Under == Below(ToSet(Inputs))

ToIndex(S) == {f \in S : ~IsDirectory(f) /\ shouldHandle(f)} \ Unreadable

(* A parse that ends normally, and whose indexer has lived to its end, has
   replaced the index by one of exactly the text files of the inputs, each with
   a row in the database: no message is overtaken by stop(), no task by the
   commit, no row by the message about it. *)
IndexMatchesFiles ==
  /\ run = "exited" /\ ~dry /\ ~died =>
       index = ToIndex(Under)
  /\ docs \cup tasks \subseteq persisted

(* "review the changes ... without performing any action that would alter the
   workspace database or directory" (--dry-run, doc/usage.md). *)
DryRunKeepsIndex == [][dry /\ index # NoIndex => index' = index]_searchVars
=============================================================================
