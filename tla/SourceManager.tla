--------------------------- MODULE SourceManager ---------------------------
(***************************************************************************)
(* SourceManager as the parsing threads share it: a cache of File objects, *)
(* the rows they become, and the mutex that getFile() takes twice with the *)
(* work of making an object in between, so that two threads may hold       *)
(* different objects of one path.                                          *)
(*                                                                         *)
(* A thread works in rounds: it asks for the files that a callback or a    *)
(* visitor locates something in, makes them C++ files, then has the files  *)
(* persisted and stores what refers to them.                               *)
(***************************************************************************)
EXTENDS Naturals, Sequences, FiniteSets

CONSTANTS
  Threads,
  Paths,
  Rounds,   \* Rounds[t]: a sequence of sets of paths
  Loaded,   \* the paths that had a row, and so an object, from the start
  NoOne     \* not a thread: no object, no holder, the maker of a loaded one

ASSUME RoundsAssumption == Rounds \in [Threads -> Seq(SUBSET Paths)]
ASSUME LoadedAssumption == Loaded \subseteq Paths
ASSUME NoOneAssumption == NoOne \notin Threads

VARIABLES
  files,      \* _files: whether a path is there, and who made its object
  type,       \* the type of the object a maker made of a path
  persisted,  \* _persistedFiles
  rows,       \* the committed File rows: their types
  inserting,  \* the rows that the transaction of persistFiles() has inserted
  lock,       \* the holder of _createFileMutex
  pc, round, todo, path, maker   \* a thread, the path and object in its hands

vars == <<files, type, persisted, rows, inserting, lock, pc, round, todo, path, maker>>

NoFile == "no file"
Types == {NoFile, "Unknown", "CPP"}
Cached(p) == files[p].cached

Init ==
  /\ files = [p \in Paths |-> [cached |-> p \in Loaded, maker |-> NoOne]]
  /\ type = [p \in Paths |-> [m \in Threads \cup {NoOne} |->
       IF m = NoOne /\ p \in Loaded THEN "Unknown" ELSE NoFile]]
  /\ persisted = Loaded
  /\ rows = [p \in Paths |-> IF p \in Loaded THEN "Unknown" ELSE NoFile]
  /\ inserting = [p \in Paths |-> NoFile]
  /\ lock = NoOne
  /\ pc = [t \in Threads |-> "next"]
  /\ round = [t \in Threads |-> 0]
  /\ todo = [t \in Threads |-> {}]
  /\ path \in [Threads -> Paths]
  /\ maker = [t \in Threads |-> NoOne]

Goto(t, label) == pc' = [pc EXCEPT ![t] = label]

-----------------------------------------------------------------------------
BeginRound(t) ==
  /\ pc[t] = "next"
  /\ round[t] < Len(Rounds[t])
  /\ round' = [round EXCEPT ![t] = @ + 1]
  /\ todo' = [todo EXCEPT ![t] = Rounds[t][round[t] + 1]]
  /\ Goto(t, "ready")
  /\ UNCHANGED <<files, type, persisted, rows, inserting, lock, path, maker>>

EndThread(t) ==
  /\ pc[t] = "next"
  /\ round[t] = Len(Rounds[t])
  /\ Goto(t, "done")
  /\ UNCHANGED <<files, type, persisted, rows, inserting, lock, round, todo, path, maker>>

(* getCreateFileEntry: a cached object, or a new one made without the lock. *)
Lookup(t, p) ==
  /\ pc[t] = "ready" /\ p \in todo[t]
  /\ lock = NoOne
  /\ todo' = [todo EXCEPT ![t] = @ \ {p}]
  /\ path' = [path EXCEPT ![t] = p]
  /\ maker' = [maker EXCEPT ![t] = IF Cached(p) THEN files[p].maker ELSE t]
  /\ type' = IF Cached(p) THEN type ELSE [type EXCEPT ![p][t] = "Unknown"]
  /\ Goto(t, "found")
  /\ UNCHANGED <<files, persisted, rows, inserting, lock, round>>

(* The rest of getFile: what was found or made goes into the cache. *)
Publish(t) ==
  /\ pc[t] = "found"
  /\ lock = NoOne
  /\ files' = [files EXCEPT ![path[t]] = [cached |-> TRUE, maker |-> maker[t]]]
  /\ Goto(t, "located")
  /\ UNCHANGED <<type, persisted, rows, inserting, lock, round, todo, path, maker>>

(* Mutant: the type is set once it is known that there is no row to update. *)
SetTypeInMemoryOnly(t) ==
  /\ pc[t] = "located"
  /\ type' = [type EXCEPT ![path[t]][maker[t]] = "CPP"]
  /\ Goto(t, "ready")
  /\ UNCHANGED <<files, persisted, rows, inserting, lock, round, todo, path, maker>>

(* The caller makes it a C++ file and calls updateFile, unless it is one.   *)
SetType(t) ==
  /\ pc[t] = "located"
  /\ type' = [type EXCEPT ![path[t]][maker[t]] = "CPP"]
  /\ Goto(t, IF type[path[t]][maker[t]] = "CPP" THEN "ready" ELSE "update")
  /\ UNCHANGED <<files, persisted, rows, inserting, lock, round, todo, path, maker>>

(* updateFile *)
CheckPersisted(t) ==
  /\ pc[t] = "update"
  /\ lock = NoOne
  /\ Goto(t, IF path[t] \in persisted THEN "write" ELSE "ready")
  /\ UNCHANGED <<files, type, persisted, rows, inserting, lock, round, todo, path, maker>>

WriteRow(t) ==
  /\ pc[t] = "write"
  /\ rows' = [rows EXCEPT ![path[t]] = type[path[t]][maker[t]]]
  /\ Goto(t, "ready")
  /\ UNCHANGED <<files, type, persisted, inserting, lock, round, todo, path, maker>>

-----------------------------------------------------------------------------
(* Mutant: a thread does not wait for another one that is persisting. *)
PersistFilesTryLock(t) ==
  LET new == {p \in Paths : Cached(p) /\ p \notin persisted}
      free == lock = NoOne
  IN /\ pc[t] = "ready" /\ todo[t] = {}
     /\ lock' = IF free THEN t ELSE lock
     /\ persisted' = IF free THEN persisted \cup new ELSE persisted
     /\ inserting' = IF ~free THEN inserting ELSE
          [p \in Paths |-> IF p \in new THEN type[p][files[p].maker] ELSE NoFile]
     /\ Goto(t, IF free THEN "persist" ELSE "store")
     /\ UNCHANGED <<files, type, rows, round, todo, path, maker>>

(* Mutant: every cached file is inserted, a row of its own or not. *)
PersistFilesAgain(t) ==
  LET new == {p \in Paths : Cached(p)}
  IN /\ pc[t] = "ready" /\ todo[t] = {}
     /\ lock = NoOne
     /\ lock' = t
     /\ persisted' = persisted \cup new
     /\ inserting' = [p \in Paths |-> IF p \in new THEN type[p][files[p].maker] ELSE NoFile]
     /\ Goto(t, "persist")
     /\ UNCHANGED <<files, type, rows, round, todo, path, maker>>

(* persistFiles: a row for every cached file that has none.  The types of   *)
(* the objects are read now, the rows are there once it commits.            *)
PersistFiles(t) ==
  LET new == {p \in Paths : Cached(p) /\ p \notin persisted}
  IN /\ pc[t] = "ready" /\ todo[t] = {}
     /\ lock = NoOne
     /\ lock' = t
     /\ persisted' = persisted \cup new
     /\ inserting' = [p \in Paths |-> IF p \in new THEN type[p][files[p].maker] ELSE NoFile]
     /\ Goto(t, "persist")
     /\ UNCHANGED <<files, type, rows, round, todo, path, maker>>

(* Mutant: the lock is not released when there was nothing to insert. *)
CommitKeepsLock(t) ==
  /\ pc[t] = "persist"
  /\ rows' = [p \in Paths |-> IF inserting[p] = NoFile THEN rows[p] ELSE inserting[p]]
  /\ lock' = IF \E p \in Paths : inserting[p] # NoFile THEN NoOne ELSE lock
  /\ inserting' = [p \in Paths |-> NoFile]
  /\ Goto(t, "store")
  /\ UNCHANGED <<files, type, persisted, round, todo, path, maker>>

Commit(t) ==
  /\ pc[t] = "persist"
  /\ rows' = [p \in Paths |-> IF inserting[p] = NoFile THEN rows[p] ELSE inserting[p]]
  /\ lock' = NoOne
  /\ inserting' = [p \in Paths |-> NoFile]
  /\ Goto(t, "store")
  /\ UNCHANGED <<files, type, persisted, round, todo, path, maker>>

(* The objects that refer to the files of this round, and of those before. *)
StoreReferences(t) ==
  /\ pc[t] = "store"
  /\ Goto(t, "next")
  /\ UNCHANGED <<files, type, persisted, rows, inserting, lock, round, todo, path, maker>>

-----------------------------------------------------------------------------
Step(t) ==
  \/ BeginRound(t) \/ EndThread(t)
  \/ \E p \in Paths : Lookup(t, p)
  \/ Publish(t) \/ SetType(t) \/ CheckPersisted(t) \/ WriteRow(t)
  \/ PersistFiles(t) \/ Commit(t) \/ StoreReferences(t)

Next == \E t \in Threads : Step(t)

Fairness == \A t \in Threads : WF_vars(Step(t))
Spec == Init /\ [][Next]_vars /\ Fairness

-----------------------------------------------------------------------------
Labels == {"next", "ready", "found", "located", "update", "write", "persist", "store", "done"}

(* Types, the mutex is held by the thread that persists, and nothing is     *)
(* being inserted unless it is held.                                        *)
TypeOK ==
  /\ files \in [Paths -> [cached : BOOLEAN, maker : Threads \cup {NoOne}]]
  /\ type \in [Paths -> [Threads \cup {NoOne} -> Types]]
  /\ persisted \subseteq Paths
  /\ rows \in [Paths -> Types]
  /\ inserting \in [Paths -> Types]
  /\ lock \in Threads \cup {NoOne}
  /\ pc \in [Threads -> Labels]
  /\ round \in [Threads -> Nat]
  /\ \A t \in Threads : round[t] <= Len(Rounds[t])
  /\ todo \in [Threads -> SUBSET Paths]
  /\ path \in [Threads -> Paths]
  /\ maker \in [Threads -> Threads \cup {NoOne}]
  /\ \A t \in Threads : pc[t] = "persist" <=> lock = t
  /\ lock = NoOne => \A p \in Paths : inserting[p] = NoFile

(* A thread that stores what refers to the files of its round finds a row   *)
(* of each of them, whoever was to insert it: a missing one would break a   *)
(* foreign key.                                                             *)
RowsBeforeReferences ==
  \A t \in Threads : pc[t] = "store" => \A p \in Rounds[t][round[t]] : rows[p] # NoFile

(* The row of a file is inserted only when there is none: a second INSERT   *)
(* would make the database ignore the rest of the transaction.              *)
InsertedOnce == \A p \in Paths : inserting[p] # NoFile => rows[p] = NoFile

(* When the threads are done every file that one of them located something  *)
(* in is a C++ file in the database, although some may have set the type of *)
(* an object that was never in the cache.                                   *)
TypesSettle ==
  (\A t \in Threads : pc[t] = "done") =>
    \A t \in Threads : \A i \in DOMAIN Rounds[t] : \A p \in Rounds[t][i] : rows[p] = "CPP"

(* Every thread gets to its end: no one waits for the mutex for ever.  The  *)
(* work is finite, so a fair scheduler is enough and the mutex need not be. *)
ThreadsEnd == \A t \in Threads : <>(pc[t] = "done")
=============================================================================
