------------------------------- MODULE ParseDb -------------------------------
(***************************************************************************)
(* The workspace database as the parser and its C++ and metrics plugins    *)
(* use it: the tables that decide whether an incremental parse is right.   *)
(* A file's content is a version number (the SHA-1 of the content), and    *)
(* the syntax tree of one version of a file is a single node: it is what   *)
(* EntityCache hands out to one translation unit as a whole.               *)
(***************************************************************************)
EXTENDS Integers, FiniteSets

CONSTANTS
  Files,      \* paths below the input directory
  Versions,   \* contents a file may have, positive numbers
  Commands,   \* compilation commands
  Source,     \* the file each command compiles
  KeysInTables  \* the foreign keys come with the tables (SQLite), or only
                \* with the indexes (PostgreSQL: they are ALTER TABLEs)

ASSUME FilesAssumption == IsFiniteSet(Files)
ASSUME VersionsAssumption == Versions \subseteq Nat \ {0}
ASSUME SourceAssumption == Source \in [Commands -> Files]
ASSUME KeysAssumption == KeysInTables \in BOOLEAN

Absent == 0   \* there is no such file, or no row for it
Blank == -1   \* a File row without a FileContent

Node == Files \X Versions

(***************************************************************************)
(* exists, tables: the database is there, and so are its tables; file:     *)
(* File and FileContent; incl: CppHeaderInclusion; action, src:            *)
(* BuildAction and BuildSource; orphans: the BuildSource rows whose        *)
(* BuildAction is gone; ast: CppAstNode; ent: how many CppEntity rows of a *)
(* node; loc: how many records of the metrics plugin (its Metrics rows of  *)
(* one version of a file count as one); nodeMetrics: how many records of   *)
(* the C++ metrics plugin; indexed: createIndexes has run.                 *)
(***************************************************************************)
DbType ==
  [exists : BOOLEAN, tables : BOOLEAN, file : [Files -> Versions \cup {Absent, Blank}],
   incl : SUBSET (Files \X Files), action : SUBSET Commands, src : SUBSET Commands,
   orphans : SUBSET Commands, ast : SUBSET Node, ent : [Node -> Nat],
   loc : [Node -> Nat], nodeMetrics : [Node -> Nat], indexed : BOOLEAN]

NoDb ==
  [exists |-> FALSE, tables |-> FALSE, file |-> [f \in Files |-> Absent], incl |-> {}, action |-> {},
   src |-> {}, orphans |-> {}, ast |-> {}, ent |-> [n \in Node |-> 0],
   loc |-> [n \in Node |-> 0], nodeMetrics |-> [n \in Node |-> 0], indexed |-> FALSE]

(* removeTables and createTables: every table is empty, without indexes. *)
EmptyTables == [NoDb EXCEPT !.exists = TRUE, !.tables = TRUE]

NodesOf(f) == {f} \X Versions

(* What can be reached from fs: the least set that holds it and is closed. *)
Reach(arrows, fs) ==
  {f \in Files :
     \A s \in SUBSET Files :
       fs \subseteq s /\ (\A p \in arrows : p[1] \in s => p[2] \in s) => f \in s}

Erase(count, nodes) == [n \in Node |-> IF n \in nodes THEN 0 ELSE count[n]]

Rows(file) == {f \in Files : file[f] # Absent}

Keyed(db) == KeysInTables \/ db.indexed

(***************************************************************************)
(* The transaction of CppParser::cleanupWorker for one file: the entities  *)
(* of its nodes and the build actions that have it as a source (their      *)
(* BuildSource rows follow by ON DELETE CASCADE, if there are keys).       *)
(***************************************************************************)
CleanFile(db, f) ==
  LET stale == {c \in db.src : Source[c] = f}
  IN [db EXCEPT !.ent = Erase(@, {n \in db.ast : n[1] = f}),
                !.action = @ \ stale,
                !.src = @ \ stale,
                !.orphans = IF Keyed(db) THEN @ ELSE @ \cup stale]

(* A File row cannot go while a BuildSource refers to it. *)
Removable(db, f) == Keyed(db) => \A c \in db.src : Source[c] # f

(* Erasing a File row takes the nodes in it and the inclusions with it. *)
RemoveRow(db, f) ==
  LET row == [db EXCEPT !.file[f] = Absent]
  IN IF Keyed(db)
     THEN [row EXCEPT !.ast = {n \in @ : n[1] # f},
                      !.incl = {p \in @ : f \notin {p[1], p[2]}}]
     ELSE row

(* SourceManager::persistFiles: the entries of its cache that have no row. *)
PersistFiles(db, files) ==
  [db EXCEPT !.file = [f \in Files |-> IF @[f] = Absent THEN files[f] ELSE @[f]]]
=============================================================================
