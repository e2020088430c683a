# CodeCompass in TLA+

CodeCompass is a code comprehension tool: `CodeCompass_parser` reads a project
into a workspace database with the help of parser plugins, and
`CodeCompass_webserver` answers questions about it with the help of service
plugins. This directory holds TLA+ models of the parts of it where order,
concurrency, failure or an intricate algorithm decide what is right, TLC
configurations that check them on small instances, and proofs that TLAPS checks
for all instances.

    tlc -workers 2 -config MCThreadPool.cfg MCThreadPool.tla
    tlapm ThreadPoolProofs.tla

## 1. The system

### Before the parser

| component | state | operations | talks to |
|---|---|---|---|
| `logger/` (ldlogger), a library preloaded into a build | the log file, its lock, the environment of the process | a hooked `exec`: lock, collect the actions of gcc and javac calls, ask the compiler for its directories, update the log, unlock | the processes of the build, the log that the C++ and Java parsers read |

### The parser process

| component | state | operations | talks to |
|---|---|---|---|
| `parser/src/parser.cpp` | options, project directory | one run of `main()`: prepare the directory, tables, mark, dry run or threshold or cleanup, parse, indexes, `project_info.json` | every plugin in turn, database |
| `ParserContext` | `fileStatus`: what is modified, deleted, or has another build action | constructor compares rows with the disk; plugins add to it | SourceManager, plugins |
| `SourceManager` | `_files`, `_persistedFiles`, `_persistedContents`, `_createFileMutex` | `getFile`, `updateFile`, `persistFiles`, `removeFile`, `reloadCache` | all parsing threads, database |
| C++ parser | build action hashes, `EntityCache` | `markModifiedFiles`, `cleanupDatabase` (levels of jobs), `parse` (a job per command), build actions of commands | thread pool, SourceManager, database, clang |
| AST visitor, nested scopes, `PPIncludeCallback`, `PPMacroCallback` | vectors of one translation unit, stacks of open functions, classes and statements | callbacks from clang; the destructors persist | `EntityCache`, SourceManager |
| `RelationCollector` | static edge caches and their mutex | constructor fills the caches, `addEdge`, destructor persists | the collectors of other units |
| metrics parser | `_fileIdCache` | cleanup, a counting job per file (`getLocFromFile`) | thread pool, SourceManager |
| C++ metrics parser | `_fileIdCache`, `_astNodeIdCache` | five calculators, each a set of packets on a pool; wants an indexed database | thread pool, tables of the C++ parser |
| search parser and indexer | a child JVM, two pipes, a Lucene index | a call per file, suggestions, stop | indexer process |
| Java parser | connections to one Java process, reserved by jobs | commands from the build log, the classes of jars | thread pool, sockets |
| git parser | cloned repositories, an ini file | a sequential walk | libgit2 |
| `util/threadpool.h` | queue, `_die`, mutex, condition variable, threads | `enqueue`, `wait` | all of the above |
| `dbutil`, `OdbTransaction` | connections | create and drop tables, indexes; transactions | ODB, PostgreSQL or SQLite |

### The server process

| component | state | operations | talks to |
|---|---|---|---|
| `ThreadedMongoose` | a server per thread, an exit flag | poll, stop on a signal | mongoose (vendored) |
| `MainRequestHandler` | the thread's current session | find, check, redirect, hand over | SessionManager, services |
| `SessionManager` | the map of sessions and its mutex | find, login, destroy, cleanup | Authentication |
| C++ service, file and class diagrams, LSP, metrics and project services | none | queries | what the parser stored |
| search service | a child JVM, a mutex | queries through pipes, paging of file names | search process |
| reparse service | `ASTCache` and its mutex | hit, build, store, prune | clang, database |
| git, Java, plugin and workspace services | none | queries | libgit2, a Java process, files |

The web user interfaces, the container and CI scripts, jars and mongoose are not
part of the state described here. `PROJECT.json` lists every component with
what is left out of it.

### What is hard about it

* **Threads** that share a queue, caches, connections and a map with hand-made
  locking: conditions read without the lock, a test and a set in two steps, work
  done between two critical sections, pointers kept after an unlock.
* **Processes** that share files and pipes, and die: a build whose calls are
  killed in the middle of the log, an indexer at the end of a pipe, a search
  process behind a mutex.
* **A database updated in many small transactions** by a process that can be
  killed between any two of them and that decides in its next run, from what
  it finds, what has been done.
* **Incremental parsing**: what is in memory, in the tables and on disk are
  three views of the project, brought together by marking, cleaning in the
  order of the inclusions, and parsing again.
* **A walk over a syntax tree** that keeps stacks by hand and divides the rows
  of shared headers between units by who came first, and two dozen queries whose
  answers must fit each other.
* **Expiry, logout and shutdown** while requests are being served.

`PROJECT.json` lists every hazard at its line with the properties about it.

### What makes each component correct

* Thread pool: every job once; `wait()` returns, and with all work done.
* Transactions: statements run in the innermost transaction of their thread, an
  outermost call is all or nothing, and no thread waits for a connection that it
  holds itself.
* Source manager: whoever stores a reference to a file finds its row; a row is
  inserted once; nobody waits for ever.
* Parser: after a run that was not disturbed the database is what a full parse
  of the project would have made; what a disturbed run leaves behind is
  bounded; a dry run changes nothing; every run ends.
* Code model: every declaration has one row whichever unit stored it, every row
  its owner; metrics are those of the tree; what the services say of one thing,
  by different queries, agrees.
* Build log and Java parser: what was compiled is logged once, as it was run,
  and parsed; a job that needs a connection can get one.
* Search: the index holds the files of the tree; a query gets its own answer.
* Sessions: a service sees the session of its own request; a logged-out cookie
  opens nothing; a request ends no session but its own, unless it has expired.
* AST cache: nearly bounded, evicts what was used longest ago.

## 2. The modules

| module | models | built on |
|---|---|---|
| `JobPool` | what a pool promises: the abstract specification | |
| `ThreadPool` | `PooledJobQueue`; implements `JobPool` | |
| `RowTransactions` | nested transactions on rows: the abstract specification | |
| `OdbTransaction` | `OdbTransaction::operator()`; implements `RowTransactions` | |
| `ParseDb` | tables, keys, cascades and the transactions on them | |
| `ParserDriver` | runs of `CodeCompass_parser` on a project that is edited | `ParseDb` |
| `SourceManager` | the file cache as parsing threads share it | |
| `CppModel` | the tables of the C++ plugin | |
| `AstVisitor` | `ClangASTVisitor` and `NestedScope`: a tree becomes rows | `CppModel` |
| `PreprocessorCallbacks` | macros and inclusions | `AstVisitor` |
| `RelationCollector` | edges between files | `AstVisitor` |
| `CppUnits` | units parsed at the same time, their caches and commits | the three above |
| `BuildActions` | compile commands, their sources and targets | `CppModel` |
| `CppQueries` | `CppServiceHandler` | `CppModel` |
| `DiagramGraph` | `util::Graph` and the bounded search of `graph.h` | |
| `FileDiagrams`, `CppDiagrams` | `FileDiagram`, `Diagram` | `CppQueries`, `DiagramGraph`, `BuildActions` |
| `CppLsp` | `CppLspServiceHandler` | the diagrams |
| `CppMetrics` | `CppMetricsParser::parse` in packets | `CppModel` |
| `LineCounts` | `getLocFromFile` | |
| `CommentLoop` | the loop of `eraseComments`, a round at a time | `LineCounts` |
| `MetricsQueries` | the two metrics services | `CppMetrics`, `LineCounts` |
| `ProjectQueries` | the tree of files of the project service | `MetricsQueries`, `FileDiagrams` |
| `CodeModel` | C++ parser, then metrics, then everything that reads them | all from `CppModel` on |
| `BuildLogger` | a logged build | |
| `JavaParser` | the Java parser's pools and connections | |
| `SearchIndex` | the search plugin and its indexer | |
| `SearchService` | server threads and the search process | |
| `Pipeline` | from the build to the browser | the four above |
| `ASTCache` | `CppReparser` and `ASTCache` under server threads | |
| `WebServer` | server threads, sessions, shutdown | |
| `MC*` | constants for TLC | their component |
| `*Proofs` | theorems | their component |

Definitions that no specification uses are plausible slips in the code, mostly
headed "Mutant": each shows, when it takes the place of the definition it varies,
that a property of a run notices the slip.

### ThreadPool

A critical section is one step. `ReadDie` and `ReadEmpty` are the two reads of
the loop condition, made without the lock. The wait set of the condition
variable is the set of workers whose `wpc` is `asleep`; `NotifyOne` chooses any
of them. `Timeout` is the second that `wait_for` waits. The client enqueues
any of the jobs and then calls `wait()` (or the destructor, which calls it):
set `_die`, notify, and for each thread notify and join. The refinement maps a
job to the abstract status by where it is: executed, in a worker's hands, in the
queue, nowhere.

### OdbTransaction

A call is known by its thread and its depth. `Call` decides whether it joins the
current transaction or has its own, and keeps what was current (`NoFrame` lists the
members of `TransRestore`); `Begin` waits for a connection, of which there is one
with SQLite. What a function does in between is any sequence of `Persist`,
`PersistAgain` (`object_already_persistent`, after which PostgreSQL ignores the rest
of the transaction) and further calls. `LeaveJoined`, `Commit` and `Rollback` end a
call with the destructors in the order in which the locals are destroyed; `Rollback`
has both orders that an exception can take. The refinement maps a call with its own
transaction to an open transaction of `RowTransactions`.

### ParseDb and ParserDriver

`db` is one record of tables. A content is a version number; the syntax tree of
one version of a file is one node, because here only matters which unit
persists it. `Absent` is a file without a row (or not on disk), `Blank` a row
without content. `run` is the memory of the running process, reset when it ends;
`pc` in it names where `main()` is.

| action | code |
|---|---|
| `Start`, `PrepareProjectDir`, `ConnectDatabase`, `SetUpTables` | the checks of `main()`, `prepareProjectDir`, `connectDatabase`, `removeTables`, `createTables` |
| `DetectChanges`, `DetectThrows` | constructors of SourceManager, ParserContext, MetricsParser; without tables they throw |
| `MarkModifiedFiles`, `MarkThrows` | `CppParser::markModifiedFiles`, `markByInclusion` |
| `ListOnly`, `ForceByThreshold`, `Proceed` | the decision between dry, full and incremental |
| `CreateCleanupOrder`, `CreateCleanupOrderThrows`, `StartLevel`, `CleanupJob`, `CleanupJobDeadlock`, `CleanupJobFails`, `CleanupJobThrows` | `createCleanupOrder`, `cleanupDatabase`, `cleanupWorker` |
| `CleanupMetrics` | `MetricsParser::cleanupDatabase` (the C++ metrics plugin's does nothing) |
| `RemoveFile`, `RemoveFileThrows` | `incrementalCleanup`, `SourceManager::removeFile` |
| `StartJob`, `Claim`, `Store`, `StoreInclusions`, `RecordCommand` | `parseWorker`: `addBuildAction`, the visitor, its destructor, `~PPIncludeCallback`, `addCompileCommand` |
| `MetricsJob`, `CreateIndexes`, `ParseCppMetrics`, `WriteProjectInfo`, `Exit` | the rest of `main()`, `~SourceManager` |
| `Crash` | the process is killed; what was committed stays |
| `Modify`, `Delete`, `Add`, `Reconfigure` | the user, between two runs |

`since` records what has happened since the tables were last made, so that a
property can name exactly the histories it does not speak of. `added` is among
them when a new file was referred to before it was there, by an `#include` that did
not resolve or by a row without content: nobody marks the files that refer to it.

What is reachable through inclusions (`Reach`) is the least closed set, said with a
quantifier over sets of files where the code has a search: that is what a proof can
use. The same goes for `Below` in `SearchIndex`, the files that a walk meets.

The configurations set `KeysInTables` to FALSE, as on PostgreSQL: its foreign
keys are `ALTER TABLE` statements, which `createTables` strips and
`createIndexes` runs at the end of a full parse. With SQLite (TRUE) they come
with the tables.

### SourceManager

`getFile` is `Lookup` and `Publish`, with the making of the object in between
and outside the mutex: an object is known by its path and the thread that made
it, so that two threads can hold different ones. `SetType`, `CheckPersisted`
and `WriteRow` are what a callback does with it (`type = CPP`, `updateFile`).
`PersistFiles` and `Commit` are the beginning and the end of the transaction
that holds the mutex. `StoreReferences` is the transaction of a destructor
that refers to the rows. A loaded path is one with a row from an earlier run.

### CppModel to CodeModel

`db` of `CppModel` has one member for each table of the plugin: a set for
`CppAstNode`, whose id is the hash of its columns, and sequences of rows, in the
order of insertion, for the others. Names, USRs and hashes are members of
`Entity`; a position is a number that grows along the file, and `npos` follows
all of them.

A unit's tree is a sequence of nodes in pre-order, as clang's
`RecursiveASTVisitor` meets them: its kind, the entity it declares or refers to,
and what the code asks clang about it. `VisitNode` (AstVisitor) closes the scopes
that end before a node, opens those that the `Traverse` functions open, then runs
the `Visit` functions. Their names are those of the code. The visitor is a record:
the vectors that it collects (`out`), the stacks, `_clangToAstNodeId` (`ids`).
`insertToCache` is where units meet: who inserts the id of a node makes its rows.
The trees are held by the variable `ast`, which no step changes: `AstInit` adds to
each node what the code works out from its surroundings (`Scope`, `Implicit`,
`Written`), once, where constants would be worked out at every use. When a unit's
rows are committed, `calls` receives the `addEdge` calls that the relation collector
will make, and `AddNextEdge` makes them one at a time.

`CppUnits` runs the units of several workers: preprocess (`PreprocessOne`), walk
(`VisitNext`, a step for each node that another unit may meet too; what lies
between them is private and cannot interfere), `PersistAst` (the destructor), the
relation collector (`CheckEdges`, `FillEdges`, `AddNextEdge`, `PersistEdges`, with
`_edgeCacheMutex` and the other mutex of `addEdge` as in the code), the
documentation and the callbacks' destructors (`FinishUnit`). `UnitsSpec` is the C++
parser by itself, which the theorem about edges is of; `CodeModel` runs the same
steps before its own.

`CppMetrics` starts one metric after the other (`StartMetric`), whose packets are
stored in any order; a value is a fraction. When all are done, the services are
operators on the tables: `getReferences` has a case for each reference kind,
diagrams are folds that add nodes and edges in the order of the code, and what
the code leaves to the database's order is a `CHOOSE` or `SetToSeq`.

### BuildLogger

A call goes through `waiting`, `lock`, `collect`, `ask`, `seek`, `write`,
`unlock`, `running`, `ended`, or is `killed`; `hooked` says whether its process
still has `LD_PRELOAD`. A word of a command is its option and its paths. The
collecting functions fold over the words with the state machines of
`ldlogger-tool-gcc.c` and `-javac.c`. The log is a sequence of tokens: brackets,
commas, entries, and half an entry where a writer was killed.

### JavaParser

The phases of `parse()` each fill the queue of a pool and wait for it.
`Test` and `Reserve` are `isFree()` and `reserve()` of `findFreeWorker`, two
steps; `Send`, `Receive`, `addCompileCommand`, `setFree` the job around its call.
Threads that share a connection by accident (`Sharing`) may read each other's
answer, an exception may end the parser (`Terminate`), or one may wait for bytes
that the other has read (`Hang`). `Push` and `Pushed` are the unprotected
`push_back` of a decompiled file.

### SearchIndex and SearchService

Parser and indexer are two processes with a pipe of messages each way.
`CreatePlugin` forks, `Visit` is the callback of the directory walk,
`BuildSuggestions` and `GetAnswer` the one call that waits, `StopIndexer` and
`Join` the destructors; `Serve`, `FileIndexer`, `CloseIndexer` are the Java side
with its pool of indexing tasks. `Under` is what the walk can meet below the inputs,
`ToIndex` what of that belongs in the index. Either process can die, and `PR_SET_PDEATHSIG`
ends the indexer with the parser. In the server a query holds
`_javaProcessMutex` from `LockProcess` to `ReadAnswer`.

`Pipeline` runs build and Java parser, or indexing and serving: what one leaves,
its log or its index, is what the other reads.

### ASTCache

`CheckSize` reads the size without the lock, `BeginPrune`, `Evict` and
`EndPrune` are one critical section of many steps, `Erase` and `Emplace` the
other: the unlocked read, a data race, can see the size between them. The clock
has a new value at each answer, so that no two hits have the same time.

### WebServer

`Find` is `getSessionCookie`, after which the map is unlocked and the thread has
a pointer. When its session is erased, the pointer has outlived it
(`Outlived`): reading it is undefined, so `Validity` may be anything, `Named`
may be any session that the memory holds now, and `Crash` is possible. `Login`,
`Logout`, `Serve` and `Redirect` are the endings of a request; each resets the
thread's context. `ReturnFromRun` is the return of `run()` in the main thread,
which destroys the vector of threads that are still joinable. Static files are
handled before any session is looked up.

## 3. The runs

| run | checks | bounds |
|---|---|---|
| `thread_pool` | `ExactlyOnce`; `WaitDrains`; `ImplementsPool` (with its liveness) | 3 workers, 3 jobs |
| `incremental_parse` | `InSync`; `AstMatchesStored`; `FileMetricsComplete`; `CleanedAfterDependants`; `DryRunReadOnly`; `RunEnds` | 3 files of 2 versions, 3 commands, 2 threads, 3 runs, 1 edit, all faults: 713,979 states |
| `odb_transaction` | `CurrentIsInnermost`; `WholeOrNothing`; `TransactionsNest`; `CallsEnd` | 2 threads, 2 rows, calls 3 deep, 5 calls, both engines |
| `source_manager` | `RowsBeforeReferences`; `InsertedOnce`; `TypesSettle`; `ThreadsEnd` | 3 threads, 2 paths, one loaded, 1 or 2 rounds |
| `code_model` | `EntityRowsOnce`, `OwnersFound`, `MetricsMatchTree`, `MeasuredOnce`, `LinesCounted`, `EdgesOnce`, `ReferencesAgree`, `DiagramsComplete`, `ViewsAgree` | 2 units with two headers, 3 compile commands, 5 directories, 2 packets, texts of 6 characters: 26,055 states |
| `pipeline` | `LogComplete`, `CommandsKept`, `HandlerForEveryJob`, `CompiledIsParsed`, `IndexMatchesFiles`, `AnswersMatch`, `PagesOfFiles`, `PipelineEnds` | 3 calls of which one is nested, 1 kill, 2 workers, a jar of 2 classes, 4 files, 2 server threads, 3 searches: 270,610 states |
| `ast_cache` | `CacheBounded`; `LeastRecentlyUsedGoes` | 2 threads, limit 2, 4 files, 5 requests |
| `web_server` | `ContextMatchesRequest`; `NoServiceAfterLogout`; `SessionsEndForAReason`; `RequestsEnd` | 2 threads, 2 sessions, 4 requests, 2 ticks |
| `cleanup_retry` | `CleanupComplete` is violated | a deadlock, 2 runs |
| `java_workers` | `HandlersExclusive` is violated | as `pipeline` |
| `dry_run_index` | `DryRunKeepsIndex` is violated | as `pipeline` |
| `unclosed_comment` | `CommentsDeleted` is violated | texts of 4 characters |

Type invariants (`TypeOK` in each component with a proof) are proved, so no run
checks them again.

### What the passing runs show

**thread_pool.** The race that a comment calls "known and allowed deliberately"
is harmless: a worker that reads an empty queue after `_die` leaves nothing
behind, since nothing is enqueued after `wait()` began. What `wait()` cannot do
without is the one-second timeout, because the predicate of the condition
variable does not look at `_die`.

**incremental_parse.** A parse that ended well, on tables whose history has no
mishap, leaves exactly the current project in the tables (`InSync`), also with a
header that includes itself and a cycle in the order of cleaning, and also when
a threshold forced it to start anew. Killed runs, deadlocks and database errors
may leave rows missing but no node of another content than the stored one, and
no entity twice (`AstMatchesStored`). The exceptions are explicit: on tables that
never got foreign keys nothing cascades (`unkeyed`), and a rolled back cleanup
keeps the old entities (`rolled back`). `FileMetricsComplete`: no file is counted
twice whatever has been killed, and every file is counted in the end.

**odb_transaction.** `TransRestore` gives each call the transaction of its caller
back, whether it returns or throws. `switchCurrent` begins a second transaction of
the same thread with PostgreSQL only; with SQLite, whose only connection the thread
holds already, it would wait for itself (`CallsEnd` notices when it does). A row that
is there already dooms the whole transaction with PostgreSQL: what the outermost call
has inserted is then lost as a whole, never in part (`WholeOrNothing`).

**source_manager.** Doubled objects of one path are harmless: the row ends with
the type, because a thread that set it on an object that is not in the cache
finds the path persisted, or the cached object gets the type from its own thread.

**code_model.** However two units that include one header divide its nodes,
every declaration has one row, and in files of one unit every row its owner:
the hand-made stacks are popped where the walk leaves. McCabe and bumpiness,
computed while scopes open and close, are those that a definition over the
finished tree gives; the packets measure each function and class once. What one
end of a relation lists the other end lists; the counts, queries of their own,
count what the lists hold; the diagrams of a module divide what it needs; every
node of a diagram has a place; what is coloured can be clicked on; the three ways
to find a file lead to one tree. The line counts are compared with a scanner of
the language on all texts up to the bound.

**pipeline.** A log whose writers may be killed between any two writes is, as long
as none was killed while writing, a JSON list of everything that was compiled, and
the options are the ones that were given. A compiler that is asked for its
directories is not logged, and does not wait for the lock that its caller holds.
The race for a connection (`java_workers`) loses answers, but a job always finds a
free connection. No call is overtaken by the end of the indexer. Two threads of the
server never get each other's answers. Everything comes to rest, unless the process
that somebody talks to has died: then the parser waits for the answer for ever,
since it holds the other end of the pipe too, and so does a search with the mutex.

**ast_cache.** The unlocked size lets the cache exceed its limit, by at most one
entry less than there are threads. Five requests are what it takes to fill
the cache, overfill it and prune.

**web_server.** With pointers that outlive their sessions the process may crash,
but as long as the session of a request is there, its handler has this session in
its context, whatever other threads log in and out, and no service runs without one.
Of a request whose session has been destroyed nothing is said: what it reads is
undefined.

### What the violations show

Each states what a document, a comment or a message of the code says, and TLC
finds a history against it. `PROJECT.json` quotes both sides.

* `cleanup_retry`: a deadlock in a cleanup transaction is announced to be
  retried, and the loop returns success.
* `java_workers`: a job is to be given to a free worker; two get the same.
* `dry_run_index`: a dry run is to leave the workspace alone, but the search
  plugin has started its indexer before, and that replaces the index.
* `unclosed_comment`: comments are to be deleted; a text whose unclosed comment
  starts at its second character keeps a thread of the pool busy for ever.

### Disagreements without a run

Met while modelling, and not worth a state machine of their own, or part of a
model whose runs ask other questions:

* Thread pool: `--jobs 0` is accepted and makes pools without workers, which take
  jobs, and whose `wait()` returns at once: nothing is parsed and the run reports
  success (`threadpool.h:117`).
* Driver: a run that is killed between `connectDatabase` and `createTables` leaves a
  database without tables, which every later run takes for an earlier parse and fails
  on until `--force` is given (`DetectThrows`); after a parse that the threshold forced, files that had metrics before
  have none, as the plugin's cache was filled from the dropped tables
  (`parser.cpp:385`); a second run doubles the C++ metrics
  (`cppmetricsparser.cpp:51`); a new file that a waiting one refers to does not
  make that one parsed again (`parsercontext.cpp:77`); `--dry-run` with `--force`
  drops the tables (`parser.cpp:132-149`, `349-353`); a file with NUL characters
  is modified in every run (`parsercontext.cpp:61`, `sourcemanager.cpp:96`).
* Sessions: a session lives a lifetime from its login, not from its last request
  (`sessionmanager.cpp:109`, `doc/authentication.md:34`); `run()` does not wait for
  its threads (`threadedmongoose.h:134-137`); `authentication.cpp:65` reads
  `session-lifetime`, the documentation has `session_lifetime`.
* Build actions: `gcc -c main.cpp` without `-o` gets the target `mai.o`, since the
  extension is cut with one character more (`cppparser.cpp:213`), so the
  sources `a1.c` and `a2.c` share one.
* Visitor: members of a class in a header that two units share can lose their
  owner, when the second unit inserts them while the first holds the class
  (`clangastvisitor.h:66-69`); the comment of a class is not found
  (`language.thrift:66`, `clangastvisitor.h:705-724`); the calls of destructors at a
  closing brace lie outside of the function (`cppservice.cpp`, the strict end);
  comments, inclusions and overriding are stored by each unit; an edge has only the
  attribute it came with.
* Services: the diagram of external users lists more than users
  (`cppservice.h:254-255`, `filediagram.cpp:201-210`); a bounded search counts the
  nodes that it expands, not levels (`graph.h:281-328`); highlighting leaves out
  the last line; parameters are listed for the first row of a function and counted
  for the very node; an LSP answer of one location is not always an array
  (`cpplspservice.cpp:167`, `40-52`), and a place without a node is an error;
  `getOpenTreeTillFile` shows the roots only, as no part of a path is called "/";
  the root is twice on its own path; a search for `lib/` also finds `libs/`.
* Metrics: the complexity of a type takes any one definition of a method; the
  condition on columns in the cohesion query has no effect; path filters match
  siblings with the same beginning; `getCppAstNodeMetricsDetailedForPath` drops the
  metric that makes the entry of a node (`cppmetricsservice.cpp:198`: `metricsList` is
  filled and forgotten), where `cxxmetrics.thrift:99` says "This function returns all
  available C++ metrics"; a line with nothing but a comment counts, and
  so do a blank first and last line; "//" in a comment hides its end; the end of a
  Ruby comment takes one character too many.
* Build log and Java: `turnLogging(1)` never switches the library on again
  (`ldlogger-tool.c:59-69`), harmless only because it is the calling process's
  environment; a writer that is killed leaves a log that no later call repairs,
  and the exception of `read_json` ends the parser; warnings end where they start
  (`addBuildLogs`); build actions are stored for calls that then fail.
* Search: rows of other plugins never get `inSearchIndex`; suggestions are built
  while files are being indexed; overlapping inputs are indexed twice; a plugin
  whose fork failed uses a null pointer at the end (`postParse`); without an index
  the first search ends the server; the filter of directories is applied to file
  names, and a page whose files are all filtered has a total of 0. A file search
  counts directories where its interface counts files: a page is a range of the
  directories with a match and `totalFiles` is their number
  (`searchservice.cpp:157-202`), while `search.thrift:55` has `maxSize` as the
  "Maximum number of hits" and `search.thrift:198` `totalFiles` as the "Number of
  total filename matches". `PagesOfFiles` states what the code does.

### Bounds, and why they are enough

*thread_pool*: three workers, so that a notification can choose, a worker can
work, and another can exit; three jobs, so that the queue has a middle.
*odb_transaction*: a call in a call in a call, so that something is put back in the
middle of the stack, and a second thread to hold the connection or the row.
*incremental_parse*: the history needs a parse, an edit and an incremental
parse, and one more run in which an earlier failure shows: three runs. With two
commands for one source an action can change; the header makes two translation
units share a node; its first version includes itself; `b.cpp` includes `a.cpp`
in one version, so that the order of cleaning has three levels. Thresholds of 30
and 100 per cent make both decisions possible with three files.
*code_model*: the two trees have every kind of node that the visitor tells apart
at least once, with nested functions (a lambda), a class in a header whose method
is defined in a unit, overriding through it, and calls both ways; a directory of
each module is inside and outside of another. Both units find the edge between the
two headers, with an attribute, and each finds one that an earlier parse has left, one
of these with its attribute. Two packets are what it takes to lose or double a task. `LineLength` maps
positions to lines. *pipeline*: a call within a call, a compiler that is asked; a
refused, a partly parsed and a failing Java file; as many workers as can race for
one connection; skipped, unreadable and binary files. The build is killed once:
one killed writer makes the log useless already. *ast_cache*: the
limit is raised to the number of threads by the code, hence two. *web_server*:
`ClearThreshold` is 0 where the code has 16: the cleanup then happens with one
session left instead of seventeen, which is the same code on a smaller map.
`MaxRequests`, `MaxTime`, `MaxRuns`, `MaxEdits`, `MaxKills`, `MaxSearches` only end
the history. That is why the runs of `ParserDriver`, `WebServer`, `ASTCache` and
`OdbTransaction` do not check for deadlock: the system stops when the bound is reached. `thread_pool`,
`code_model` and `pipeline` do check it, with a step that stutters where the
system has ended (`Idle`, `Terminating`).

### Fairness

Weak fairness for each thread (`Worker(w)`, `Step(t)`, `Handle(t)`, `WorkerStep(w)`,
`ThreadStep(t)`) and each process (`CallStep(c)`, `ParserStep`,
`IndexerStep`): the operating system runs what can run, and a function that is
called returns. The mutexes are `std::mutex` and `flock`, which promise no
fairness, and none is assumed between threads that want one: the properties hold
because each thread has a bounded amount of work. `Timeout` is part of `Worker(w)`:
`wait_for` is bounded by the standard library. `ParserDriver` has fairness of the
running process only: users need not edit or start anything. `CommentLoop` has
that of the one job. In `OdbTransaction` a transaction that can begin does (`Begin`),
and every function ends (`End`); that it calls or inserts something is not assumed.
`ASTCache` has safety properties only and states no fairness. Nothing is assumed of clients, of the clock or of signals in
`WebServer`, of the owner of a pool before it calls `wait()`, nor of kills,
failures and dying processes, except that the kernel ends an indexer whose parser
is gone (`Orphaned`).

## 4. The proofs

All are for any number of threads, jobs, paths, files, calls and requests, under the
named assumptions of the modules (a positive number of workers, finite sets of
threads and files, markers such as `NoJob` that are no elements of what they mark,
maps from and to what they are said to map). `WordsAssumption` and `DirsAssumption`
of `BuildLogger` say that a command is a sequence of words and the compiler's
directories a sequence of themselves, `ParentAssumption` of `Pipeline` that the files
of the search are finitely many and each has the number of a directory. Every
assumption is evaluated by TLC in the runs.

* `ThreadPoolProofs`: `TypeCorrect`, `JobsExactlyOnce`, `WaitReturnsDrained`,
  `PoolRefinement`. The inductive invariant adds to types and `ExactlyOnce` what
  the unlocked condition rests on: a worker that has seen `_die` (`ExitInv`) knows
  that it stays set, and the queue does not grow any more since `_die` is set
  exactly when the client is in `wait()` (`DieInv`); `wait()` has joined a
  prefix of the threads (`JoinInv`). Without `ExitInv` a worker that exits could
  leave a queue behind, without `DieInv` a job could come after it. The
  refinement maps each step to a step of `JobPool` or a stutter.
* `OdbTransactionProofs`: `TypeCorrect`, `InnermostIsCurrent`, `OutermostIsAtomic`,
  `TransactionRefinement`. `Stacked`: each active call remembers the innermost
  transaction of the calls below it, so that what `TransRestore` puts back is the
  innermost transaction of those that remain; knowing only the current one would not
  be inductive, as a return uncovers what an earlier call has stored. `RowsInv`: no
  row is in two transactions, or in one and committed. Each step is then one of
  `RowTransactions` or a stutter.
* `SourceManagerProofs`: `TypeCorrect`, `ReferencesHaveRows`, `NoDoubleInsert`,
  `TypesAreSettled`. `PersistedInv`: `_persistedFiles` names exactly the paths with
  a row or one in the open transaction. `ThreadInv`: each path of a thread's round
  is still to do, in the cache, or in its hands; after `persistFiles` it is persisted
  and, the mutex being free again, has a row. The types settle because of the order
  of two steps: a cached object that is no C++ file yet has a thread that is about to
  make it one (`CachedTyped`), and a row of another type has a thread that is still
  going to set the type or to write the row (`RowTyped`), as `updateFile` comes after
  the type is set. The object of a path that was there from the start is never
  doubled (`LoadedInv`).
* `ParserDriverProofs`: `TypeCorrect`, `DryRunChangesNothing`,
  `AstIsOfStoredContent`, `FilesCounted`, `IncrementalParseIsRight`,
  `CleanupInOrder`, over any project, faults and number of runs. The argument
  follows one run through the stages of `main()`. `FilesInv`: the entry of a file in
  memory is its row or what is on disk, and a file that differs from the disk is
  marked and gone before the parse. `ClaimInv`: a node is claimed by one job, of the
  content that is on disk, and by none once it is stored. `CleanInv`: what is cleaned
  has no entity left when its row goes, so that the cascade removes every node with
  an old content. `DryInv`: a dry run never reaches a stage that writes. For the
  metrics, `CacheInv` says what the plugin's cache means (a file outside of it has no
  metrics), `OfRows` and `OfDisk` that as long as nothing went wrong the counts are
  first those of the rows and in the end those of the disk. None of them would be
  inductive alone: the cleanup of metrics needs the rows, the parse needs the cleanup.
  + `IncrementalParseIsRight` (`InSync`) follows the tables. Between two runs they
    agree with the contents that they record themselves (`SelfConsistent`), and no
    `#include` resolves on disk that had not when it was parsed (`Resolved`): this is
    where `added` has to be excluded. Marking is closed under inclusion, so after
    the order is made, what is not marked agrees with the disk and hangs from nothing
    marked (`UnmarkedFresh`); removing takes the rest (`RemovedGone`), and the tables
    agree with the disk, though not all of it is there (`Fresh`). The jobs keep that
    up to what they have claimed and will store (`FreshInParts`); at the end every
    file on disk has a row, and `Fresh` is `SelfConsistent` again.
  + `CleanupInOrder` (`CleanedAfterDependants`) is about the layers: what has left
    `todo` has nothing above it that still waits (`OrderInv`). When a layer is taken,
    everything above one of its files is in earlier layers, because the set of those
    is closed under being included; and where nothing goes in circles above a waiting
    file, some file of the layer is included by no other, namely one with the fewest
    files above it: the strict subsets of a finite set are well-founded
    (`FirstOfOrder`). With a circle the code takes all that is left, and the property
    does not speak of what is below a circle.
* `WebServerProofs`: `TypeCorrect`, `ContextIsOfRequest`, `LoggedOutIsOut`,
  `NoStrangerEndsASession`. `RequestInv`: the session in a thread's hand is that of
  its cookie or none, whatever the pointer refers to by then, and with none in hand the
  cookie names no session of the map. `ContextInv`: the context is what is in hand
  while the request is handled. `LateInv`: a request
  that came after the logout finds nothing. `RedirectInv`: a session that was found
  invalid is still so when it is destroyed, as time only goes forward.
* `CppUnitsProofs`: `EdgesStoredOnce`, of `UnitsSpec`, for any units and trees, and any
  edges and attributes of an earlier parse. The caches are under two mutexes that do not exclude each
  other, so nothing keeps one collector from adding while another one fills them.
  What holds is that a collector adds only when the cache has every edge of the table
  (`CacheCovers`), and that an edge is in the vector of one unit or in the table, once
  (`NoneTwice`). An attribute waits and is stored together with its edge
  (`AttributesInv`), so it is new because its edge is. In the same module, `PacketsPartition`: the packets that
  `parallelCalcMetric` cuts (`Cut` of `CppMetrics`) are not empty, have all of the
  tasks and share none. With n packets of l tasks, n at most l, the i-th one ends
  at the quotient of l * i by n (`Upto`), which grows by one at least from packet to
  packet and is l at n; the packet of the k-th task is found by dividing n * k - 1 by l
  (`PacketOf`).
* `PipelineProofs`: `HandlerFree`, `AnswersAlwaysMatch`, `HandlerAlwaysFree`,
  `PlanAlwaysFits`, `IndexIsComplete`, `LogAlwaysComplete`, `CommandsAlwaysKept`,
  `CompiledAlwaysParsed`, `PagesAlwaysPartition`. `Holders`: a handler's flag is only set while a
  thread is between `findFreeWorker` and `setFree` with that handler. A thread that
  still looks is not, so the others are too few to hold all handlers: a counting
  argument with the theorems about finite sets. `Owner`: a thread past the lock has
  the mutex. `Exchange`: the two pipes hold at most one message between them, which
  belongs to the thread that reads. The logger's `LockHeld` and `PlanFitsLog` are
  the same argument about a file: what a call has decided to write at the seek is
  still what the log needs at the write. `IndexInv`: while the traversal runs, each
  file to index is in the index, under way in the pipe or a task, or below what the
  traversal has left (`Accounted`); nothing follows the message that ends the indexer
  (`StopIsLast`). `PipelineInv` is the conjunction of the invariants of the parts: each
  is kept by the steps of the others, which leave its variables alone.
  + `LogAlwaysComplete`: with the lock free and no writer killed, the log is the list
    of the actions of the calls that have written, one place for each action
    (`LogKept`, a bijection, from which the equal numbers follow). The plan of a writer
    is that list and its own actions, since nobody changes the log under its lock.
  + `CommandsAlwaysKept` goes through the words of a call from left to right
    (`GccAtEnd`). Behind each word the arguments are the program and the words so far,
    made absolute or not (`ArgumentsAt`), the place for the default directories is
    behind the last `-I` and what it takes (`PlaceAt`), and the output is the last file
    that an `-o` took (`OutputAt`). The sources lose that file, once, and no source is
    there twice (`Distinct`). That the place is not between an option and its value
    needs `WellFormed`, by which no option that takes a value is the last word.
  + `CompiledAlwaysParsed` chains four such arguments: each source among the words is
    an entry of the call; each entry of a call that has written is in the log; each
    Java entry of the log is queued when the parser starts (`JavaFiles`); and each
    queued file is in the queue, with a thread, or done (`ParseKept`). What is done
    has one status: the table is that of the sources (`StatusPerSource`).
  + `PagesAlwaysPartition`: the place of a directory in the order of its numbers
    is one more than the number of directories with a smaller one, so the
    places are 1 to their number without a gap, and each is on one page. Pages and
    totals are numbers of directories, as in the code; a page may have more files.

What a fold over a sequence computes is proved along its trace. `FoldLeft` is defined
by a recursive function on the lengths; `NatByStep` says that a set of numbers with 0,
and with each number's successor, has them all, which follows from the
well-foundedness of the strict subsets of a finite set; and the set to which
it is applied is that of the places up to which the trace has been right.
* `ASTCacheProofs`: `TypeCorrect`, `OverfillBounded`, `EvictsLeastRecentlyUsed`.
  `Room`: entries and threads on their way to insert together are at most the
  limit and the other threads; a thread joins them only when the cache was below
  its limit. `HitInv`: the time of an entry's last hit is the place of its last
  answer, so what has the smallest time was handed out first.

Only model-checked:

* every liveness property (the fairness of `ImplementsPool`, `CallsEnd`,
  `ThreadsEnd`, `RequestsEnd`, `RunEnds`, `PipelineEnds`), as ENABLED and fairness are
  out of reach of the prover;
* of `CodeModel` everything but `EdgesOnce`: `ViewsAgree`, `DiagramsComplete`,
  `EntityRowsOnce`, `OwnersFound`, `MetricsMatchTree`, `MeasuredOnce`, `LinesCounted`,
  `ReferencesAgree`. `DiagramGraph` and `CppLsp` have RECURSIVE operators, and the rest
  of the model walks trees and selects from tables with `SelectSeq`, `SortSeq` and `@@`, of
  which the prover knows the names only. What the cutting of tasks adds to
  `MeasuredOnce` is proved on its own (`PacketsPartition`). Induction by a set of
  numbers, as for the logger, does not help there: the library's theorems for
  recursion on trees take an operator as a parameter, which no installed prover
  can instantiate.

## 5. Not modelled, and simplified

* clang, ODB, the databases, mongoose, libmagic, Lucene, the Eclipse parser and
  libgit2 appear only as what the code does with them. A transaction is one step:
  isolation between two concurrent transactions is the database's, except for the
  deadlock that `cleanupWorker` handles.
* `createTables` and `removeTables` are one step each; a kill in their middle
  leaves a database on which the next run fails at once.
* `ParserDriver`: a translation unit claims its nodes in one step (`Claim`); a
  command has one source; there is one compilation database and one input. The node
  by node claim is in `CppUnits`, the sources of a command in `BuildActions`.
* Templates, places inside macros, names, signatures and the text of comments;
  locations that clang cannot map.
* `FinishUnit` makes one step of three transactions that nobody reads meanwhile.
* LIKE patterns are prefixes of paths: its wildcards and letter case are left out.
* Module metrics: they read `CppFileMetrics`, which nothing fills.
* Parse statuses, build messages, statistics and labels of the project service;
  completion and the JSON of the language server; colours, legends and layout of
  diagrams; the escaping of the build log and its response files.
* In the Java parser the 15 seconds after which a job gives up are a choice after
  each round without a free connection; the 25 seconds of connecting are too.
* Authentication is on; how passwords are checked is not modelled.
* A tree in `ASTCache` that two threads use at once is clang's affair, and so is
  one that an incremental parse has made stale: parser and server are not
  composed there.
* The git plugin is a sequential walk around libgit2, the Java service passes
  requests on, plugin and workspace services read lists once: no state of their
  own that an order of steps could spoil.
* Directories, link targets, file times and the types of files other than
  `CPP` are data without a property in `ParserDriver` and `SourceManager`.

## 6. Plan

Done, in this order, the most important behaviour first:

1. `JobPool`, `ThreadPool`, `ThreadPoolProofs`: everything parallel rests on it.
2. `ParseDb`, `ParserDriver`: the incremental parse.
3. `SourceManager`, `SourceManagerProofs`.
4. `ASTCache`, `ASTCacheProofs`.
5. `WebServer`, then `WebServerProofs`.
6. `CppModel` to `CodeModel`: the C++ plugin from the tree to the services.
7. `BuildLogger`, `JavaParser`, `SearchIndex`, `SearchService`, `Pipeline`, with
   `PipelineProofs`.
8. `ParserDriverProofs`.
9. `RowTransactions`, `OdbTransaction`, `OdbTransactionProofs`.
10. The proofs of `InSync`, `CleanedAfterDependants`, `TypesSettle`, `EdgesOnce`
    (`CppUnitsProofs`) and `IndexMatchesFiles`.
11. The proofs of `LogComplete`, `CommandsKept`, `CompiledIsParsed`, `PagesOfFiles`, and
    of the packets of the metrics.

Left:

* An abstract specification of the parse, a database that is either in step or
  not, to be implemented by `ParserDriver`.
* `ParserDriver` with several compilation databases, whose marks interfere.
* Templates in `AstVisitor`, and units that disagree about a header.
* The response files of compiler calls in `BuildLogger`.
