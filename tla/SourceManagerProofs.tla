------------------------ MODULE SourceManagerProofs ------------------------
(***************************************************************************)
(* Theorems about SourceManager for any number of threads, paths and       *)
(* rounds.  The argument: outside the mutex, _persistedFiles names exactly *)
(* the paths that have a row, and inside it those that have one or are     *)
(* about to; a thread that leaves persistFiles() has found every path it   *)
(* looked up in the cache, hence in _persistedFiles, hence with a row.     *)
(***************************************************************************)
EXTENDS SourceManager, TLAPS

(* _persistedFiles against the rows, those being inserted included. *)
PersistedInv ==
  \A p \in Paths : p \in persisted <=> rows[p] # NoFile \/ inserting[p] # NoFile

(* An object in the cache has been made. *)
CacheInv == \A p \in Paths : Cached(p) => type[p][files[p].maker] # NoFile

(* So has the object in a thread's hands; a thread that writes a row updates *)
(* one; and how far it is with the paths of its round.                       *)
Looking == {"ready", "found", "located", "update", "write"}
ThreadInv(t) ==
  /\ pc[t] \in Looking \ {"ready"} => type[path[t]][maker[t]] # NoFile
  /\ pc[t] = "write" => rows[path[t]] # NoFile
  /\ pc[t] \notin {"next", "done"} => round[t] \in 1..Len(Rounds[t])
  /\ pc[t] \in Looking =>
       \A p \in Paths : p \in Rounds[t][round[t]] =>
         \/ p \in todo[t]
         \/ Cached(p)
         \/ pc[t] = "found" /\ p = path[t]
  /\ pc[t] = "persist" => \A p \in Paths : p \in Rounds[t][round[t]] => p \in persisted
  /\ pc[t] = "store" => \A p \in Paths : p \in Rounds[t][round[t]] => rows[p] # NoFile

RowsInv == InsertedOnce /\ PersistedInv
IInv == TypeOK /\ RowsInv /\ CacheInv /\ \A t \in Threads : ThreadInv(t)

-----------------------------------------------------------------------------
LEMMA InitInv == Init => IInv
<1> SUFFICES ASSUME Init PROVE IInv
  OBVIOUS
<1>1. TypeOK
  <2>1. round \in [Threads -> Nat] /\ \A t \in Threads : round[t] <= Len(Rounds[t])
    BY RoundsAssumption DEF Init
  <2>2. files \in [Paths -> [cached : BOOLEAN, maker : Threads \cup {NoOne}]]
    BY DEF Init
  <2>3. type \in [Paths -> [Threads \cup {NoOne} -> Types]]
    BY DEF Init, Types
  <2>4. rows \in [Paths -> Types] /\ inserting \in [Paths -> Types] /\ persisted \subseteq Paths
    BY LoadedAssumption DEF Init, Types
  <2>5. /\ pc \in [Threads -> Labels]
        /\ todo \in [Threads -> SUBSET Paths]
        /\ path \in [Threads -> Paths]
        /\ maker \in [Threads -> Threads \cup {NoOne}]
    BY DEF Init, Labels
  <2>6. /\ lock = NoOne
        /\ \A t \in Threads : pc[t] = "persist" <=> lock = t
        /\ \A p \in Paths : inserting[p] = NoFile
    BY NoOneAssumption DEF Init
  <2> QED BY <2>1, <2>2, <2>3, <2>4, <2>5, <2>6 DEF TypeOK
<1>2. RowsInv
  BY LoadedAssumption DEF Init, RowsInv, InsertedOnce, PersistedInv, NoFile
<1>3. CacheInv /\ \A t \in Threads : ThreadInv(t)
  BY DEF Init, CacheInv, ThreadInv, Cached, NoFile, Looking
<1> QED BY <1>1, <1>2, <1>3 DEF IInv

-----------------------------------------------------------------------------
(* Objects are made and put into the cache, ids marked and rows inserted;   *)
(* no step undoes any of it.                                                *)
Grows ==
  /\ \A p \in Paths : \A m \in Threads \cup {NoOne} : type[p][m] # NoFile => type'[p][m] # NoFile
  /\ \A p \in Paths : Cached(p) => Cached(p)'
  /\ \A p \in persisted : p \in persisted'
  /\ \A p \in Paths : rows[p] # NoFile => rows'[p] # NoFile

(* So the other threads are as far as they were. *)
LEMMA OthersKept ==
  ASSUME TypeOK, Grows, NEW u \in Threads, ThreadInv(u),
         pc'[u] = pc[u], round'[u] = round[u], todo'[u] = todo[u],
         path'[u] = path[u], maker'[u] = maker[u]
  PROVE  ThreadInv(u)'
BY DEF ThreadInv, Grows, TypeOK

(* Steps that leave the rows and the mutex alone. *)
RowsKept == UNCHANGED <<persisted, rows, inserting, lock>>

LEMMA RowsKeptStep ==
  ASSUME RowsInv, RowsKept
  PROVE  RowsInv'
BY DEF RowsInv, RowsKept, InsertedOnce, PersistedInv

LEMMA LockKept ==
  ASSUME TypeOK, RowsKept, NEW t \in Threads, NEW label \in Labels, Goto(t, label),
         pc[t] # "persist", label # "persist"
  PROVE  /\ pc' \in [Threads -> Labels]
         /\ pc'[t] = label
         /\ \A u \in Threads \ {t} : pc'[u] = pc[u]
         /\ \A u \in Threads : pc'[u] = "persist" <=> lock' = u
         /\ lock' = NoOne => \A p \in Paths : inserting'[p] = NoFile
BY DEF TypeOK, RowsKept, Goto

-----------------------------------------------------------------------------
LEMMA RoundStep ==
  ASSUME IInv, NEW t \in Threads, BeginRound(t) \/ EndThread(t) \/ StoreReferences(t)
  PROVE  IInv'
<1> USE DEF IInv
<1>1. RowsKept /\ UNCHANGED <<files, type, path, maker>>
  BY DEF RowsKept, BeginRound, EndThread, StoreReferences
<1>2. Grows
  BY <1>1 DEF Grows, RowsKept, Cached
<1>3. RowsInv' /\ CacheInv'
  BY <1>1, RowsKeptStep DEF CacheInv, Cached
<1>4. Rounds[t] \in Seq(SUBSET Paths)
  BY RoundsAssumption
<1>5. CASE BeginRound(t)
  <2>1. /\ pc' \in [Threads -> Labels]
        /\ pc'[t] = "ready"
        /\ \A u \in Threads \ {t} : pc'[u] = pc[u]
        /\ \A u \in Threads : pc'[u] = "persist" <=> lock' = u
        /\ lock' = NoOne => \A p \in Paths : inserting'[p] = NoFile
    BY <1>1, <1>5, LockKept DEF BeginRound, Labels
  <2>2. /\ round' = [round EXCEPT ![t] = round[t] + 1]
        /\ todo' = [todo EXCEPT ![t] = Rounds[t][round[t] + 1]]
        /\ round[t] + 1 \in 1..Len(Rounds[t])
    BY <1>4, <1>5 DEF BeginRound, TypeOK
  <2>3. Rounds[t][round[t] + 1] \in SUBSET Paths
    BY <1>4, <2>2
  <2>4. round' \in [Threads -> Nat] /\ \A u \in Threads : round'[u] <= Len(Rounds[u])
    BY <2>2 DEF TypeOK
  <2>5. TypeOK'
    BY <1>1, <2>1, <2>2, <2>3, <2>4 DEF RowsKept, TypeOK
  <2>6. ThreadInv(t)'
    BY <2>1, <2>2 DEF ThreadInv, Looking, TypeOK
  <2>7. ASSUME NEW u \in Threads \ {t} PROVE ThreadInv(u)'
    BY <1>1, <1>2, <2>1, <2>2, OthersKept
  <2> QED BY <1>3, <2>5, <2>6, <2>7
<1>6. CASE EndThread(t) \/ StoreReferences(t)
  <2>1. PICK label \in {"done", "next"} : Goto(t, label)
    BY <1>6 DEF EndThread, StoreReferences
  <2>2. pc[t] # "persist"
    BY <1>6 DEF EndThread, StoreReferences
  <2>3. /\ pc' \in [Threads -> Labels]
        /\ pc'[t] = label
        /\ \A u \in Threads \ {t} : pc'[u] = pc[u]
        /\ \A u \in Threads : pc'[u] = "persist" <=> lock' = u
        /\ lock' = NoOne => \A p \in Paths : inserting'[p] = NoFile
    BY <1>1, <2>1, <2>2, LockKept DEF Labels
  <2>4. UNCHANGED <<round, todo>>
    BY <1>6 DEF EndThread, StoreReferences
  <2>5. TypeOK'
    BY <1>1, <2>3, <2>4 DEF RowsKept, TypeOK
  <2>6. ThreadInv(t)'
    BY <2>3 DEF ThreadInv, Looking
  <2>7. ASSUME NEW u \in Threads \ {t} PROVE ThreadInv(u)'
    BY <1>1, <1>2, <2>3, <2>4, OthersKept
  <2> QED BY <1>3, <2>5, <2>6, <2>7
<1> QED BY <1>5, <1>6

LEMMA LookupStep ==
  ASSUME IInv, NEW t \in Threads, NEW p \in Paths, Lookup(t, p)
  PROVE  IInv'
<1> USE DEF IInv
<1> DEFINE m == IF Cached(p) THEN files[p].maker ELSE t
<1>1. RowsKept /\ UNCHANGED <<files, round>>
  BY DEF RowsKept, Lookup
<1>2. /\ pc' \in [Threads -> Labels]
      /\ pc'[t] = "found"
      /\ \A u \in Threads \ {t} : pc'[u] = pc[u]
      /\ \A u \in Threads : pc'[u] = "persist" <=> lock' = u
      /\ lock' = NoOne => \A q \in Paths : inserting'[q] = NoFile
  BY <1>1, LockKept DEF Lookup, Labels
<1>3. m \in Threads \cup {NoOne}
  BY DEF TypeOK
<1>4. /\ todo' = [todo EXCEPT ![t] = todo[t] \ {p}]
      /\ path' = [path EXCEPT ![t] = p]
      /\ maker' = [maker EXCEPT ![t] = m]
  BY DEF Lookup
<1>5. /\ type' \in [Paths -> [Threads \cup {NoOne} -> Types]]
      /\ type'[p][m] # NoFile
      /\ \A q \in Paths : \A o \in Threads \cup {NoOne} : type[q][o] # NoFile => type'[q][o] # NoFile
  <2>1. CASE Cached(p)
    BY <2>1 DEF Lookup, TypeOK, CacheInv
  <2>2. CASE ~Cached(p)
    <3>1. m = t /\ type' = [type EXCEPT ![p] = [type[p] EXCEPT ![t] = "Unknown"]]
      BY <2>2 DEF Lookup
    <3>2. type[p] \in [Threads \cup {NoOne} -> Types] /\ "Unknown" \in Types
      BY DEF TypeOK, Types
    <3>3. type' \in [Paths -> [Threads \cup {NoOne} -> Types]]
      BY <3>1, <3>2 DEF TypeOK
    <3>4. \A q \in Paths : \A o \in Threads \cup {NoOne} :
            type'[q][o] = IF q = p /\ o = t THEN "Unknown" ELSE type[q][o]
      BY <3>1, <3>2 DEF TypeOK
    <3> HIDE DEF m
    <3> QED BY <3>1, <3>3, <3>4 DEF NoFile
  <2> QED BY <2>1, <2>2
<1> HIDE DEF m
<1>6. Grows
  BY <1>1, <1>5 DEF Grows, RowsKept, Cached
<1>7. TypeOK'
  BY <1>1, <1>2, <1>3, <1>4, <1>5 DEF TypeOK, RowsKept
<1>8. RowsInv' /\ CacheInv'
  BY <1>1, <1>5, RowsKeptStep DEF CacheInv, Cached, TypeOK
<1>9. ThreadInv(t)'
  <2>1. path'[t] = p /\ maker'[t] = m /\ todo'[t] = todo[t] \ {p} /\ round'[t] = round[t]
    BY <1>1, <1>4 DEF TypeOK
  <2>2. pc[t] = "ready"
    BY DEF Lookup
  <2>3. round[t] \in 1..Len(Rounds[t])
    BY <2>2 DEF ThreadInv
  <2>4. \A q \in Paths : q \in Rounds[t][round[t]] => q \in todo'[t] \/ Cached(q)' \/ q = p
    BY <1>1, <2>1, <2>2 DEF ThreadInv, Looking, Cached
  <2> QED BY <1>2, <1>5, <2>1, <2>3, <2>4 DEF ThreadInv, Looking
<1>10. ASSUME NEW u \in Threads \ {t} PROVE ThreadInv(u)'
  BY <1>1, <1>2, <1>4, <1>6, OthersKept DEF TypeOK
<1> QED BY <1>7, <1>8, <1>9, <1>10

LEMMA PublishStep ==
  ASSUME IInv, NEW t \in Threads, Publish(t)
  PROVE  IInv'
<1> USE DEF IInv
<1>1. RowsKept /\ UNCHANGED <<type, round, todo, path, maker>>
  BY DEF RowsKept, Publish
<1>2. /\ pc' \in [Threads -> Labels]
      /\ pc'[t] = "located"
      /\ \A u \in Threads \ {t} : pc'[u] = pc[u]
      /\ \A u \in Threads : pc'[u] = "persist" <=> lock' = u
      /\ lock' = NoOne => \A q \in Paths : inserting'[q] = NoFile
  BY <1>1, LockKept DEF Publish, Labels
<1>3. /\ files' = [files EXCEPT ![path[t]] = [cached |-> TRUE, maker |-> maker[t]]]
      /\ type[path[t]][maker[t]] # NoFile
  BY DEF Publish, ThreadInv, Looking
<1>4. Grows
  BY <1>1, <1>3 DEF Grows, RowsKept, Cached, TypeOK
<1>5. TypeOK'
  BY <1>1, <1>2, <1>3 DEF TypeOK, RowsKept
<1>6. RowsInv' /\ CacheInv'
  BY <1>1, <1>3, RowsKeptStep DEF CacheInv, Cached, TypeOK
<1>7. ThreadInv(t)'
  <2>1. pc[t] = "found"
    BY DEF Publish
  <2>2. round[t] \in 1..Len(Rounds[t])
    BY <2>1 DEF ThreadInv
  <2>3. files'[path[t]].cached
    BY <1>3 DEF TypeOK
  <2>4. \A q \in Paths : q \in Rounds[t][round[t]] => q \in todo[t] \/ Cached(q)'
    BY <1>4, <2>1, <2>3 DEF ThreadInv, Looking, Grows, Cached
  <2> QED BY <1>1, <1>2, <1>3, <2>2, <2>4 DEF ThreadInv, Looking
<1>8. ASSUME NEW u \in Threads \ {t} PROVE ThreadInv(u)'
  BY <1>1, <1>2, <1>4, OthersKept
<1> QED BY <1>5, <1>6, <1>7, <1>8

(* A file is made a C++ file; its row is written if it has one. *)
LEMMA TypeStep ==
  ASSUME IInv, NEW t \in Threads, SetType(t) \/ CheckPersisted(t)
  PROVE  IInv'
<1> USE DEF IInv
<1>1. RowsKept /\ UNCHANGED <<files, round, todo, path, maker>>
  BY DEF RowsKept, SetType, CheckPersisted
<1>2. PICK label \in {"ready", "update", "write"} :
        /\ Goto(t, label)
        /\ label = "write" => path[t] \in persisted /\ lock = NoOne
  BY DEF SetType, CheckPersisted
<1>3. pc[t] \in {"located", "update"}
  BY DEF SetType, CheckPersisted
<1>4. /\ pc' \in [Threads -> Labels]
      /\ pc'[t] = label
      /\ \A u \in Threads \ {t} : pc'[u] = pc[u]
      /\ \A u \in Threads : pc'[u] = "persist" <=> lock' = u
      /\ lock' = NoOne => \A q \in Paths : inserting'[q] = NoFile
  BY <1>1, <1>2, <1>3, LockKept DEF Labels
<1>5. /\ type' \in [Paths -> [Threads \cup {NoOne} -> Types]]
      /\ \A q \in Paths : \A o \in Threads \cup {NoOne} : type[q][o] # NoFile => type'[q][o] # NoFile
  <2>1. CASE type' = [type EXCEPT ![path[t]][maker[t]] = "CPP"]
    BY <2>1 DEF TypeOK, Types, NoFile
  <2>2. CASE type' = type
    BY <2>2 DEF TypeOK
  <2> QED BY <2>1, <2>2 DEF SetType, CheckPersisted
<1>6. Grows
  BY <1>1, <1>5 DEF Grows, RowsKept, Cached
<1>7. TypeOK'
  BY <1>1, <1>4, <1>5 DEF TypeOK, RowsKept
<1>8. RowsInv' /\ CacheInv'
  BY <1>1, <1>5, RowsKeptStep DEF CacheInv, Cached, TypeOK
<1>9. label = "write" => rows'[path'[t]] # NoFile
  BY <1>1, <1>2 DEF RowsKept, RowsInv, PersistedInv, TypeOK
<1>10. ThreadInv(t)'
  <2>1. type[path[t]][maker[t]] # NoFile /\ round[t] \in 1..Len(Rounds[t])
    BY <1>3 DEF ThreadInv, Looking
  <2>2. type'[path'[t]][maker'[t]] # NoFile
    BY <1>1, <1>5, <2>1 DEF TypeOK
  <2>3. \A q \in Paths : q \in Rounds[t][round[t]] => q \in todo[t] \/ Cached(q)'
    BY <1>1, <1>3 DEF ThreadInv, Looking, Cached
  <2> QED BY <1>1, <1>2, <1>4, <1>9, <2>1, <2>2, <2>3 DEF ThreadInv, Looking
<1>11. ASSUME NEW u \in Threads \ {t} PROVE ThreadInv(u)'
  BY <1>1, <1>4, <1>6, OthersKept
<1> QED BY <1>7, <1>8, <1>10, <1>11

LEMMA WriteRowStep ==
  ASSUME IInv, NEW t \in Threads, WriteRow(t)
  PROVE  IInv'
<1> USE DEF IInv
<1>1. UNCHANGED <<files, type, persisted, inserting, lock, round, todo, path, maker>>
  BY DEF WriteRow
<1>2. pc' = [pc EXCEPT ![t] = "ready"] /\ pc[t] = "write"
  BY DEF WriteRow, Goto
<1>3. /\ rows' = [rows EXCEPT ![path[t]] = type[path[t]][maker[t]]]
      /\ type[path[t]][maker[t]] # NoFile
      /\ rows[path[t]] # NoFile
  BY <1>2 DEF WriteRow, ThreadInv, Looking
<1>4. \A p \in Paths : rows'[p] # NoFile <=> rows[p] # NoFile
  BY <1>3 DEF TypeOK
<1>5. Grows
  BY <1>1, <1>4 DEF Grows, Cached
<1>6. TypeOK'
  BY <1>1, <1>2, <1>3 DEF TypeOK, Labels
<1>7. RowsInv' /\ CacheInv'
  BY <1>1, <1>4 DEF RowsInv, InsertedOnce, PersistedInv, CacheInv, Cached
<1>8. ThreadInv(t)'
  <2>1. round[t] \in 1..Len(Rounds[t]) /\ pc'[t] = "ready"
    BY <1>2 DEF ThreadInv, TypeOK
  <2>2. \A q \in Paths : q \in Rounds[t][round[t]] => q \in todo[t] \/ Cached(q)'
    BY <1>1, <1>2 DEF ThreadInv, Looking, Cached
  <2> QED BY <1>1, <2>1, <2>2 DEF ThreadInv, Looking
<1>9. ASSUME NEW u \in Threads \ {t} PROVE ThreadInv(u)'
  BY <1>1, <1>2, <1>5, OthersKept DEF TypeOK
<1> QED BY <1>6, <1>7, <1>8, <1>9

LEMMA PersistFilesStep ==
  ASSUME IInv, NEW t \in Threads, PersistFiles(t)
  PROVE  IInv'
<1> USE DEF IInv
<1> DEFINE new == {p \in Paths : Cached(p) /\ p \notin persisted}
<1>1. UNCHANGED <<files, type, rows, round, todo, path, maker>>
  BY DEF PersistFiles
<1>2. /\ pc' = [pc EXCEPT ![t] = "persist"]
      /\ pc[t] = "ready" /\ todo[t] = {}
      /\ lock = NoOne /\ lock' = t
      /\ persisted' = persisted \cup new
      /\ inserting' = [p \in Paths |-> IF p \in new THEN type[p][files[p].maker] ELSE NoFile]
  BY DEF PersistFiles, Goto
<1>3. \A p \in Paths : inserting'[p] # NoFile <=> p \in new
  BY <1>2 DEF CacheInv
<1>4. Grows
  BY <1>1, <1>2 DEF Grows, Cached
<1>5. TypeOK'
  <2>1. inserting' \in [Paths -> Types]
    BY <1>2 DEF TypeOK, Types
  <2>2. \A u \in Threads : pc'[u] = "persist" <=> lock' = u
    BY <1>2, NoOneAssumption DEF TypeOK
  <2>3. pc' \in [Threads -> Labels] /\ persisted' \subseteq Paths
    BY <1>2 DEF TypeOK, Labels
  <2> QED BY <1>1, <1>2, <2>1, <2>2, <2>3, NoOneAssumption DEF TypeOK
<1>6. RowsInv' /\ CacheInv'
  BY <1>1, <1>2, <1>3 DEF RowsInv, InsertedOnce, PersistedInv, CacheInv, Cached, TypeOK
<1>7. ThreadInv(t)'
  BY <1>1, <1>2 DEF ThreadInv, Looking, TypeOK
<1>8. ASSUME NEW u \in Threads \ {t} PROVE ThreadInv(u)'
  BY <1>1, <1>2, <1>4, OthersKept DEF TypeOK
<1> QED BY <1>5, <1>6, <1>7, <1>8

LEMMA CommitStep ==
  ASSUME IInv, NEW t \in Threads, Commit(t)
  PROVE  IInv'
<1> USE DEF IInv
<1>1. UNCHANGED <<files, type, persisted, round, todo, path, maker>>
  BY DEF Commit
<1>2. /\ pc' = [pc EXCEPT ![t] = "store"]
      /\ pc[t] = "persist" /\ lock = t
      /\ lock' = NoOne
      /\ rows' = [p \in Paths |-> IF inserting[p] = NoFile THEN rows[p] ELSE inserting[p]]
      /\ inserting' = [p \in Paths |-> NoFile]
  BY DEF Commit, Goto, TypeOK
<1>3. \A p \in Paths : rows'[p] # NoFile <=> p \in persisted
  BY <1>2 DEF RowsInv, PersistedInv
<1>4. Grows
  BY <1>1, <1>2 DEF Grows, Cached
<1>5. TypeOK'
  <2>1. rows' \in [Paths -> Types] /\ inserting' \in [Paths -> Types]
    BY <1>2 DEF TypeOK, Types
  <2>2. \A u \in Threads : pc'[u] = "persist" <=> lock' = u
    BY <1>2, NoOneAssumption DEF TypeOK
  <2>3. pc' \in [Threads -> Labels]
    BY <1>2 DEF TypeOK, Labels
  <2> QED BY <1>1, <1>2, <2>1, <2>2, <2>3 DEF TypeOK
<1>6. RowsInv' /\ CacheInv'
  BY <1>1, <1>2, <1>3 DEF RowsInv, InsertedOnce, PersistedInv, CacheInv, Cached
<1>7. ThreadInv(t)'
  BY <1>1, <1>2, <1>3 DEF ThreadInv, Looking, TypeOK
<1>8. ASSUME NEW u \in Threads \ {t} PROVE ThreadInv(u)'
  BY <1>1, <1>2, <1>4, OthersKept DEF TypeOK
<1> QED BY <1>5, <1>6, <1>7, <1>8

LEMMA NextInv == IInv /\ [Next]_vars => IInv'
<1> SUFFICES ASSUME IInv, [Next]_vars PROVE IInv'
  OBVIOUS
<1>1. ASSUME NEW t \in Threads, Step(t) PROVE IInv'
  BY <1>1, RoundStep, LookupStep, PublishStep, TypeStep, WriteRowStep, PersistFilesStep, CommitStep
     DEF Step
<1>2. CASE UNCHANGED vars
  <2> USE <1>2 DEF vars, IInv
  <2>1. TypeOK'
    BY DEF TypeOK
  <2>2. RowsInv' /\ CacheInv'
    BY DEF RowsInv, InsertedOnce, PersistedInv, CacheInv, Cached
  <2>3. ASSUME NEW t \in Threads PROVE ThreadInv(t)'
    BY DEF ThreadInv, Cached
  <2> QED BY <2>1, <2>2, <2>3
<1> QED BY <1>1, <1>2 DEF Next

-----------------------------------------------------------------------------
THEOREM Inductive == Spec => []IInv
<1> QED BY InitInv, NextInv, PTL DEF Spec

(* Every reachable state is well typed, _createFileMutex is held exactly   *)
(* while its holder persists, and nothing is left half inserted once it is *)
(* released (sourcemanager.cpp, persistFiles).                             *)
THEOREM TypeCorrect == Spec => []TypeOK
<1>1. IInv => TypeOK
  BY DEF IInv
<1> QED BY <1>1, Inductive, PTL

(* Whatever the threads, the paths and the order of their lookups: what a  *)
(* thread stores refers to files that have rows (sourcemanager.cpp, getFile*)
(* and persistFiles; clangastvisitor.h, the destructor).                   *)
THEOREM ReferencesHaveRows == Spec => []RowsBeforeReferences
<1>1. IInv => RowsBeforeReferences
  <2> SUFFICES ASSUME IInv, NEW t \in Threads, pc[t] = "store", NEW p \in Rounds[t][round[t]]
               PROVE  rows[p] # NoFile
    BY DEF RowsBeforeReferences
  <2>1. round[t] \in 1..Len(Rounds[t])
    BY DEF IInv, ThreadInv
  <2>2. Rounds[t][round[t]] \in SUBSET Paths
    BY <2>1, RoundsAssumption
  <2> QED BY <2>2 DEF IInv, ThreadInv
<1> QED BY <1>1, Inductive, PTL

(* No path is inserted twice, although two threads may publish different    *)
(* objects of it (sourcemanager.cpp, persistFiles).                         *)
THEOREM NoDoubleInsert == Spec => []InsertedOnce
<1>1. IInv => InsertedOnce
  BY DEF IInv, RowsInv
<1> QED BY <1>1, Inductive, PTL

-----------------------------------------------------------------------------
(* TypesSettle.  The type is set in an object, and the row is written from   *)
(* the object in the cache: another one, perhaps.  What makes up for it is   *)
(* the order of the steps.  A cached object that is not a C++ file yet has a *)
(* thread that located something in it and will make it one; whatever row is *)
(* inserted in the meantime is written again by that thread, because         *)
(* updateFile() comes after the type is set and finds the path persisted.    *)

(* Whether the object of a path that had a row from the start is a C++ file  *)
(* by now.                                                                   *)
Touched(p) == p \in Loaded => type[p][NoOne] = "CPP"

(* The type that the row of a path has, or is about to have.                 *)
Row(p) == IF inserting[p] # NoFile THEN inserting[p] ELSE rows[p]

(* Thread t is about to set the type of an object of p, or has set it and is *)
(* about to update the row.                                                  *)
Locating(t, p) == pc[t] = "located" /\ path[t] = p
Updating(t, p) == pc[t] \in {"update", "write"} /\ path[t] = p

(* An object in the cache is a C++ file, or will be: the thread that put it  *)
(* there is about to set its type.                                           *)
CachedTyped ==
  \A p \in Paths : Cached(p) /\ p \notin Loaded =>
    \/ type[p][files[p].maker] = "CPP"
    \/ \E t \in Threads : Locating(t, p) /\ maker[t] = files[p].maker

(* A row that is not of a C++ file will be written again.                    *)
RowTyped ==
  \A p \in persisted : Row(p) # "CPP" =>
    \/ \E t \in Threads : Locating(t, p) /\ type[p][maker[t]] # "CPP"
    \/ \E t \in Threads : Updating(t, p)
    \/ ~Touched(p)

(* No second object is made of a path that was there from the start.         *)
LoadedInv ==
  /\ \A p \in persisted : Cached(p)
  /\ \A p \in Loaded : Cached(p) /\ files[p].maker = NoOne

HandInv(t) ==
  /\ pc[t] \in {"located", "update", "write"} => Cached(path[t])
  /\ pc[t] \in {"update", "write"} => type[path[t]][maker[t]] = "CPP"
  /\ pc[t] \in Looking \ {"ready"} /\ path[t] \in Loaded => maker[t] = NoOne

(* The rounds that a thread has behind it, and the one it is in.             *)
Behind(t) == 1 .. IF pc[t] \in {"next", "done"} THEN round[t] ELSE round[t] - 1
RoundInv(t) ==
  /\ \A i \in Behind(t) : \A p \in Paths : p \in Rounds[t][i] => rows[p] # NoFile /\ Touched(p)
  /\ pc[t] \in Looking => \A p \in Paths : p \in Rounds[t][round[t]] =>
       p \in todo[t] \/ Touched(p) \/ (pc[t] \in {"found", "located"} /\ p = path[t])
  /\ pc[t] \in {"persist", "store"} => \A p \in Paths : p \in Rounds[t][round[t]] => Touched(p)
  /\ pc[t] = "done" => round[t] = Len(Rounds[t])

SettleInv == LoadedInv /\ CachedTyped /\ RowTyped /\ \A t \in Threads : HandInv(t) /\ RoundInv(t)

LEMMA InitSettle == Init => SettleInv
<1> SUFFICES ASSUME Init PROVE SettleInv
  OBVIOUS
<1>1. LoadedInv /\ CachedTyped
  BY LoadedAssumption DEF Init, LoadedInv, CachedTyped, Cached
<1>2. RowTyped
  <2>1. \A p \in persisted : ~Touched(p)
    BY LoadedAssumption DEF Init, Touched
  <2> QED BY <2>1 DEF RowTyped
<1>3. \A t \in Threads : HandInv(t) /\ RoundInv(t)
  BY DEF Init, HandInv, RoundInv, Behind, Looking
<1> QED BY <1>1, <1>2, <1>3 DEF SettleInv

-----------------------------------------------------------------------------
(* Objects stay in the cache and what is in it stays a C++ file; rows stay.  *)
Settles ==
  /\ \A p \in Paths : Cached(p) => Cached(p)'
  /\ \A p \in Paths : \A m \in Threads \cup {NoOne} :
       Cached(p) /\ type[p][m] = "CPP" => type'[p][m] = "CPP"
  /\ \A p \in Paths : rows[p] # NoFile => rows'[p] # NoFile

LEMMA TouchedKept ==
  ASSUME LoadedInv, Settles, NEW p \in Paths, Touched(p)
  PROVE  Touched(p)'
BY DEF LoadedInv, Settles, Touched

LEMMA OthersSettle ==
  ASSUME TypeOK, LoadedInv, Settles, NEW u \in Threads, HandInv(u), RoundInv(u),
         pc'[u] = pc[u], round'[u] = round[u], todo'[u] = todo[u],
         path'[u] = path[u], maker'[u] = maker[u]
  PROVE  HandInv(u)' /\ RoundInv(u)'
<1>1. HandInv(u)'
  BY DEF HandInv, Settles, TypeOK
<1>2. Behind(u)' = Behind(u)
  BY DEF Behind
<1>3. RoundInv(u)'
  BY <1>2, TouchedKept DEF RoundInv, Settles, TypeOK
<1> QED BY <1>1, <1>3

(* The threads that are about to set a type, or to write one, go on.         *)
HandsKept ==
  \A u \in Threads : pc[u] \in {"located", "update", "write"} =>
    pc'[u] = pc[u] /\ path'[u] = path[u] /\ maker'[u] = maker[u]

(* Steps that leave the cache and the rows as they are.                      *)
LEMMA TypedKept ==
  ASSUME LoadedInv, CachedTyped, RowTyped, HandsKept,
         UNCHANGED <<files, persisted, rows, inserting>>,
         \A p \in Paths : Cached(p) => type'[p] = type[p],
         persisted \subseteq Paths, Loaded \subseteq Paths
  PROVE  LoadedInv' /\ CachedTyped' /\ RowTyped'
<1>1. LoadedInv'
  BY DEF LoadedInv, Cached
<1>2. CachedTyped'
  BY DEF CachedTyped, Cached, HandsKept, Locating
<1>3. ASSUME NEW p \in persisted, Row(p) # "CPP"
      PROVE  \/ \E t \in Threads : Locating(t, p)' /\ type'[p][maker'[t]] # "CPP"
             \/ \E t \in Threads : Updating(t, p)'
             \/ ~Touched(p)'
  <2>1. type'[p] = type[p]
    BY DEF LoadedInv
  <2>2. CASE \E t \in Threads : Locating(t, p) /\ type[p][maker[t]] # "CPP"
    BY <2>1, <2>2 DEF HandsKept, Locating
  <2>3. CASE \E t \in Threads : Updating(t, p)
    BY <2>3 DEF HandsKept, Updating
  <2>4. CASE ~Touched(p)
    BY <2>1, <2>4 DEF Touched
  <2> QED BY <1>3, <2>2, <2>3, <2>4 DEF RowTyped
<1>4. RowTyped'
  BY <1>3 DEF RowTyped, Row
<1> QED BY <1>1, <1>2, <1>4

(* Steps that leave the types as they are: no row stops being right.         *)
LEMMA RowTypedKept ==
  ASSUME RowTyped, UNCHANGED <<type, persisted, maker>>,
         \A p \in persisted : Row(p)' # "CPP" => Row(p) # "CPP",
         \A u \in Threads, p \in persisted : Locating(u, p) => Locating(u, p)',
         \A u \in Threads, p \in persisted :
           Row(p)' # "CPP" /\ Updating(u, p) => Updating(u, p)'
  PROVE  RowTyped'
<1> SUFFICES ASSUME NEW p \in persisted, Row(p)' # "CPP"
             PROVE  \/ \E u \in Threads : Locating(u, p)' /\ type[p][maker[u]] # "CPP"
                    \/ \E u \in Threads : Updating(u, p)'
                    \/ ~Touched(p)'
  BY DEF RowTyped
<1>1. Touched(p)' <=> Touched(p)
  BY DEF Touched
<1> QED BY <1>1 DEF RowTyped

LEMMA RoundSettle ==
  ASSUME IInv, SettleInv, NEW t \in Threads, BeginRound(t) \/ EndThread(t) \/ StoreReferences(t)
  PROVE  SettleInv'
<1> USE DEF IInv, SettleInv
<1>1. UNCHANGED <<files, type, persisted, rows, inserting, path, maker>>
  BY DEF BeginRound, EndThread, StoreReferences
<1>2. PICK label \in {"ready", "done", "next"} :
        /\ pc' = [pc EXCEPT ![t] = label]
        /\ label = "ready" <=> BeginRound(t)
        /\ label = "done" <=> EndThread(t)
        /\ label = "next" <=> StoreReferences(t)
  BY DEF BeginRound, EndThread, StoreReferences, Goto
<1>3. pc[t] \in {"next", "store"}
  BY DEF BeginRound, EndThread, StoreReferences
<1>4. pc'[t] = label /\ \A u \in Threads \ {t} : pc'[u] = pc[u]
  BY <1>2 DEF TypeOK
<1>5. Settles
  BY <1>1 DEF Settles, Cached
<1>6. LoadedInv' /\ CachedTyped' /\ RowTyped'
  BY <1>1, <1>3, <1>4, TypedKept, LoadedAssumption DEF HandsKept, TypeOK
<1>7. HandInv(t)'
  BY <1>4 DEF HandInv, Looking
<1>8. RoundInv(t)'
  <2>1. CASE BeginRound(t)
    <3>1. /\ pc[t] = "next" /\ pc'[t] = "ready"
          /\ round'[t] = round[t] + 1
          /\ todo'[t] = Rounds[t][round'[t]]
      BY <1>2, <1>4, <2>1 DEF BeginRound, TypeOK
    <3>2. Behind(t)' = Behind(t)
      BY <3>1 DEF Behind, TypeOK
    <3>3. \A p \in Paths : Touched(p) => Touched(p)'
      BY <1>5, TouchedKept
    <3> QED BY <1>1, <3>1, <3>2, <3>3 DEF RoundInv, Looking
  <2>2. CASE EndThread(t)
    <3>1. /\ pc[t] = "next" /\ pc'[t] = "done"
          /\ round'[t] = round[t] /\ round[t] = Len(Rounds[t])
      BY <1>2, <1>4, <2>2 DEF EndThread
    <3>2. Behind(t)' = Behind(t)
      BY <3>1 DEF Behind
    <3>3. \A p \in Paths : Touched(p) => Touched(p)'
      BY <1>5, TouchedKept
    <3> QED BY <1>1, <3>1, <3>2, <3>3 DEF RoundInv, Looking
  <2>3. CASE StoreReferences(t)
    <3>1. /\ pc[t] = "store" /\ pc'[t] = "next" /\ round'[t] = round[t]
      BY <1>2, <1>4, <2>3 DEF StoreReferences
    <3>2. Behind(t)' \subseteq Behind(t) \cup {round[t]}
      BY <3>1 DEF Behind, TypeOK
    <3>3. \A p \in Paths : Touched(p) => Touched(p)'
      BY <1>5, TouchedKept
    <3>4. \A p \in Paths : p \in Rounds[t][round[t]] => rows[p] # NoFile /\ Touched(p)
      BY <3>1 DEF ThreadInv, RoundInv
    <3> QED BY <1>1, <3>1, <3>2, <3>3, <3>4 DEF RoundInv, Looking
  <2> QED BY <2>1, <2>2, <2>3
<1>9. ASSUME NEW u \in Threads \ {t} PROVE HandInv(u)' /\ RoundInv(u)'
  <2>1. round'[u] = round[u] /\ todo'[u] = todo[u]
    BY DEF BeginRound, EndThread, StoreReferences, TypeOK
  <2> QED BY <1>1, <1>4, <1>5, <2>1, OthersSettle
<1> QED BY <1>6, <1>7, <1>8, <1>9

LEMMA LookupSettle ==
  ASSUME IInv, SettleInv, NEW t \in Threads, NEW p \in Paths, Lookup(t, p)
  PROVE  SettleInv'
<1> USE DEF IInv, SettleInv
<1> DEFINE m == IF Cached(p) THEN files[p].maker ELSE t
<1>1. UNCHANGED <<files, persisted, rows, inserting, round>>
  BY DEF Lookup
<1>2. /\ pc[t] = "ready" /\ pc'[t] = "found"
      /\ todo'[t] = todo[t] \ {p} /\ path'[t] = p /\ maker'[t] = m
  BY DEF Lookup, Goto, TypeOK
<1>3. \A u \in Threads \ {t} : /\ pc'[u] = pc[u] /\ todo'[u] = todo[u]
                               /\ path'[u] = path[u] /\ maker'[u] = maker[u]
  BY DEF Lookup, Goto, TypeOK
<1>4. \A q \in Paths : Cached(q) => type'[q] = type[q]
  <2>1. CASE Cached(p)
    BY <2>1 DEF Lookup
  <2>2. CASE ~Cached(p)
    BY <2>2 DEF Lookup, TypeOK
  <2> QED BY <2>1, <2>2
<1>5. p \in Loaded => m = NoOne
  BY DEF LoadedInv
<1> HIDE DEF m
<1>6. Settles
  BY <1>1, <1>4 DEF Settles, Cached
<1>7. LoadedInv' /\ CachedTyped' /\ RowTyped'
  BY <1>1, <1>2, <1>3, <1>4, TypedKept, LoadedAssumption DEF HandsKept, TypeOK
<1>8. HandInv(t)'
  BY <1>2, <1>5 DEF HandInv
<1>9. RoundInv(t)'
  <2>1. Behind(t)' = Behind(t)
    BY <1>1, <1>2 DEF Behind
  <2>2. \A q \in Paths : Touched(q) => Touched(q)'
    BY <1>6, TouchedKept
  <2> QED BY <1>1, <1>2, <2>1, <2>2 DEF RoundInv, Looking
<1>10. ASSUME NEW u \in Threads \ {t} PROVE HandInv(u)' /\ RoundInv(u)'
  BY <1>1, <1>3, <1>6, OthersSettle
<1> QED BY <1>7, <1>8, <1>9, <1>10

LEMMA PublishSettle ==
  ASSUME IInv, SettleInv, NEW t \in Threads, Publish(t)
  PROVE  SettleInv'
<1> USE DEF IInv, SettleInv
<1>1. UNCHANGED <<type, persisted, rows, inserting, round, todo, path, maker>>
  BY DEF Publish
<1>2. /\ pc[t] = "found" /\ pc'[t] = "located"
      /\ \A u \in Threads \ {t} : pc'[u] = pc[u]
  BY DEF Publish, Goto, TypeOK
<1>3. /\ path[t] \in Paths
      /\ \A p \in Paths : files'[p] = IF p = path[t] THEN [cached |-> TRUE, maker |-> maker[t]]
                                     ELSE files[p]
  BY DEF Publish, TypeOK
<1>4. \A p \in Paths : Cached(p)' <=> Cached(p) \/ p = path[t]
  BY <1>3 DEF Cached
<1>5. Settles
  BY <1>1, <1>4 DEF Settles
<1>6. path[t] \in Loaded => maker[t] = NoOne
  BY <1>2 DEF HandInv, Looking
<1>7. LoadedInv'
  <2>1. ASSUME NEW p \in Loaded PROVE files'[p].maker = NoOne
    BY <1>3, <1>6, <2>1, LoadedAssumption DEF LoadedInv
  <2>2. \A p \in Paths : Cached(p) => Cached(p)'
    BY <1>4
  <2> QED BY <1>1, <2>1, <2>2, LoadedAssumption DEF LoadedInv, TypeOK
<1>8. CachedTyped'
  <2> SUFFICES ASSUME NEW p \in Paths, Cached(p)', p \notin Loaded
               PROVE  \/ type'[p][files'[p].maker] = "CPP"
                      \/ \E u \in Threads : Locating(u, p)' /\ maker'[u] = files'[p].maker
    BY DEF CachedTyped
  <2>1. CASE p = path[t]
    BY <1>1, <1>2, <1>3, <2>1 DEF Locating
  <2>2. CASE p # path[t]
    <3>1. Cached(p) /\ files'[p] = files[p]
      BY <1>3, <1>4, <2>2
    <3>2. CASE type[p][files[p].maker] = "CPP"
      BY <1>1, <3>1, <3>2
    <3>3. CASE \E u \in Threads : Locating(u, p) /\ maker[u] = files[p].maker
      BY <1>1, <1>2, <3>1, <3>3 DEF Locating
    <3> QED BY <3>1, <3>2, <3>3 DEF CachedTyped
  <2> QED BY <2>1, <2>2
<1>9. RowTyped'
  <2>1. HandsKept
    BY <1>1, <1>2 DEF HandsKept
  <2>2. \A p \in persisted : Row(p)' = Row(p)
    BY <1>1 DEF Row
  <2>3. \A u \in Threads, p \in Paths : /\ Locating(u, p) => Locating(u, p)'
                                        /\ Updating(u, p) => Updating(u, p)'
    BY <2>1 DEF HandsKept, Locating, Updating
  <2> QED BY <1>1, <2>2, <2>3, RowTypedKept DEF TypeOK
<1>10. HandInv(t)'
  BY <1>1, <1>2, <1>4, <1>3, <1>6 DEF HandInv
<1>11. RoundInv(t)'
  <2>1. Behind(t)' = Behind(t)
    BY <1>1, <1>2 DEF Behind
  <2>2. \A q \in Paths : Touched(q) => Touched(q)'
    BY <1>5, TouchedKept
  <2> QED BY <1>1, <1>2, <2>1, <2>2 DEF RoundInv, Looking
<1>12. ASSUME NEW u \in Threads \ {t} PROVE HandInv(u)' /\ RoundInv(u)'
  BY <1>1, <1>2, <1>5, OthersSettle
<1> QED BY <1>7, <1>8, <1>9, <1>10, <1>11, <1>12

LEMMA SetTypeSettle ==
  ASSUME IInv, SettleInv, NEW t \in Threads, SetType(t)
  PROVE  SettleInv'
<1> USE DEF IInv, SettleInv
<1>0. PICK q, m : q = path[t] /\ m = maker[t]
  OBVIOUS
<1>1. UNCHANGED <<files, persisted, rows, inserting, round, todo, path, maker>>
  BY DEF SetType
<1>2. /\ pc[t] = "located"
      /\ pc'[t] = IF type[q][m] = "CPP" THEN "ready" ELSE "update"
      /\ \A u \in Threads \ {t} : pc'[u] = pc[u]
  BY <1>0 DEF SetType, Goto, TypeOK
<1>3. /\ q \in Paths /\ m \in Threads \cup {NoOne}
      /\ \A p \in Paths : \A o \in Threads \cup {NoOne} :
           type'[p][o] = IF p = q /\ o = m THEN "CPP" ELSE type[p][o]
  BY <1>0 DEF SetType, TypeOK
<1>4. Cached(q) /\ (q \in Loaded => m = NoOne)
  BY <1>0, <1>2 DEF HandInv, Looking
<1>5. Settles
  BY <1>1, <1>3 DEF Settles, Cached
<1>6. LoadedInv'
  BY <1>1 DEF LoadedInv, Cached
<1>7. CachedTyped'
  <2> SUFFICES ASSUME NEW p \in Paths, Cached(p), p \notin Loaded
               PROVE  \/ type'[p][files[p].maker] = "CPP"
                      \/ \E u \in Threads : Locating(u, p)' /\ maker[u] = files[p].maker
    BY <1>1 DEF CachedTyped, Cached
  <2>1. files[p].maker \in Threads \cup {NoOne}
    BY DEF TypeOK
  <2>2. CASE type[p][files[p].maker] = "CPP"
    BY <1>3, <2>1, <2>2
  <2>3. ASSUME NEW u \in Threads, Locating(u, p), maker[u] = files[p].maker
        PROVE  \/ type'[p][files[p].maker] = "CPP"
               \/ \E w \in Threads : Locating(w, p)' /\ maker[w] = files[p].maker
    <3>1. CASE u = t
      BY <1>0, <1>3, <2>1, <2>3, <3>1 DEF Locating
    <3>2. CASE u # t
      BY <1>1, <1>2, <2>3, <3>2 DEF Locating
    <3> QED BY <3>1, <3>2
  <2> QED BY <2>2, <2>3 DEF CachedTyped
<1>8. RowTyped'
  <2> SUFFICES ASSUME NEW p \in persisted, Row(p) # "CPP"
               PROVE  \/ \E u \in Threads : Locating(u, p)' /\ type'[p][maker[u]] # "CPP"
                      \/ \E u \in Threads : Updating(u, p)'
                      \/ ~Touched(p)'
    BY <1>1 DEF RowTyped, Row
  <2>1. p \in Paths /\ NoOne \in Threads \cup {NoOne} /\ \A u \in Threads : maker[u] \in Threads \cup {NoOne}
    BY DEF TypeOK
  <2>2. CASE p = q /\ type[q][m] # "CPP"
    <3>1. Updating(t, p)'
      BY <1>0, <1>1, <1>2, <2>2 DEF Updating
    <3> QED BY <3>1
  <2>3. CASE ~(p = q /\ type[q][m] # "CPP")
    <3>1. \A o \in Threads \cup {NoOne} : type'[p][o] = type[p][o]
      BY <1>3, <2>1, <2>3
    <3>2. ASSUME NEW u \in Threads, Locating(u, p), type[p][maker[u]] # "CPP"
          PROVE  Locating(u, p)' /\ type'[p][maker[u]] # "CPP"
      <4>1. u # t
        BY <1>0, <2>3, <3>2 DEF Locating
      <4> QED BY <1>1, <1>2, <2>1, <3>1, <3>2, <4>1 DEF Locating
    <3>3. ASSUME NEW u \in Threads, Updating(u, p)
          PROVE  Updating(u, p)'
      BY <1>1, <1>2, <3>3 DEF Updating
    <3>4. ~Touched(p) => ~Touched(p)'
      BY <3>1 DEF Touched
    <3> QED BY <3>2, <3>3, <3>4 DEF RowTyped
  <2> QED BY <2>2, <2>3
<1>9. HandInv(t)'
  BY <1>0, <1>1, <1>2, <1>3, <1>4 DEF HandInv, Looking, Cached
<1>10. RoundInv(t)'
  <2>1. Behind(t)' = Behind(t)
    BY <1>1, <1>2 DEF Behind
  <2>2. \A p \in Paths : Touched(p) => Touched(p)'
    BY <1>5, TouchedKept
  <2>3. Touched(q)'
    BY <1>3, <1>4 DEF Touched
  <2>4. \A p \in Paths : p \in Rounds[t][round[t]] => p \in todo'[t] \/ Touched(p)'
    BY <1>0, <1>1, <1>2, <2>2, <2>3 DEF RoundInv, Looking
  <2>5. pc'[t] \in {"ready", "update"}
    BY <1>2
  <2> QED BY <1>1, <1>2, <2>1, <2>2, <2>4, <2>5 DEF RoundInv
<1>11. ASSUME NEW u \in Threads \ {t} PROVE HandInv(u)' /\ RoundInv(u)'
  BY <1>1, <1>2, <1>5, OthersSettle
<1> QED BY <1>6, <1>7, <1>8, <1>9, <1>10, <1>11

LEMMA CheckPersistedSettle ==
  ASSUME IInv, SettleInv, NEW t \in Threads, CheckPersisted(t)
  PROVE  SettleInv'
<1> USE DEF IInv, SettleInv
<1>1. UNCHANGED <<files, type, persisted, rows, inserting, round, todo, path, maker>>
  BY DEF CheckPersisted
<1>2. /\ pc[t] = "update"
      /\ pc'[t] = IF path[t] \in persisted THEN "write" ELSE "ready"
      /\ \A u \in Threads \ {t} : pc'[u] = pc[u]
  BY DEF CheckPersisted, Goto, TypeOK
<1>3. Settles
  BY <1>1 DEF Settles, Cached
<1>4. LoadedInv' /\ CachedTyped'
  BY <1>1, <1>2 DEF LoadedInv, CachedTyped, Cached, Locating
<1>5. RowTyped'
  <2>1. \A p \in persisted : Row(p)' = Row(p)
    BY <1>1 DEF Row
  <2>2. \A u \in Threads, p \in persisted : /\ Locating(u, p) => Locating(u, p)'
                                            /\ Updating(u, p) => Updating(u, p)'
    BY <1>1, <1>2 DEF Locating, Updating
  <2> QED BY <1>1, <2>1, <2>2, RowTypedKept
<1>6. HandInv(t)'
  BY <1>1, <1>2 DEF HandInv, Looking, Cached
<1>7. RoundInv(t)'
  <2>1. Behind(t)' = Behind(t)
    BY <1>1, <1>2 DEF Behind
  <2>2. \A p \in Paths : Touched(p) => Touched(p)'
    BY <1>3, TouchedKept
  <2> QED BY <1>1, <1>2, <2>1, <2>2 DEF RoundInv, Looking
<1>8. ASSUME NEW u \in Threads \ {t} PROVE HandInv(u)' /\ RoundInv(u)'
  BY <1>1, <1>2, <1>3, OthersSettle
<1> QED BY <1>4, <1>5, <1>6, <1>7, <1>8

LEMMA WriteRowSettle ==
  ASSUME IInv, SettleInv, NEW t \in Threads, WriteRow(t)
  PROVE  SettleInv'
<1> USE DEF IInv, SettleInv
<1>1. UNCHANGED <<files, type, persisted, inserting, round, todo, path, maker>>
  BY DEF WriteRow
<1>2. /\ pc[t] = "write" /\ pc'[t] = "ready"
      /\ \A u \in Threads \ {t} : pc'[u] = pc[u]
  BY DEF WriteRow, Goto, TypeOK
<1>3. /\ path[t] \in Paths
      /\ \A p \in Paths : rows'[p] = IF p = path[t] THEN "CPP" ELSE rows[p]
  BY <1>2 DEF WriteRow, HandInv, TypeOK
<1>4. Settles
  BY <1>1, <1>3 DEF Settles, Cached, NoFile
<1>5. LoadedInv' /\ CachedTyped'
  BY <1>1, <1>2 DEF LoadedInv, CachedTyped, Cached, Locating
<1>6. RowTyped'
  <2>1. Row(path[t])' = "CPP"
    <3>1. inserting[path[t]] = NoFile
      BY <1>2 DEF ThreadInv, RowsInv, InsertedOnce, TypeOK
    <3> QED BY <1>1, <1>3, <3>1 DEF Row
  <2>2. \A p \in persisted : p # path[t] => Row(p)' = Row(p)
    BY <1>1, <1>3 DEF Row, TypeOK
  <2>3. \A u \in Threads, p \in persisted : /\ Locating(u, p) => Locating(u, p)'
                                            /\ Updating(u, p) /\ p # path[t] => Updating(u, p)'
    BY <1>1, <1>2 DEF Locating, Updating
  <2> QED BY <1>1, <2>1, <2>2, <2>3, RowTypedKept
<1>7. HandInv(t)'
  BY <1>2 DEF HandInv, Looking
<1>8. RoundInv(t)'
  <2>1. Behind(t)' = Behind(t)
    BY <1>1, <1>2 DEF Behind
  <2>2. \A p \in Paths : Touched(p) => Touched(p)'
    BY <1>4, TouchedKept
  <2> QED BY <1>1, <1>2, <1>4, <2>1, <2>2 DEF RoundInv, Looking, Settles
<1>9. ASSUME NEW u \in Threads \ {t} PROVE HandInv(u)' /\ RoundInv(u)'
  BY <1>1, <1>2, <1>4, OthersSettle
<1> QED BY <1>5, <1>6, <1>7, <1>8, <1>9

LEMMA PersistFilesSettle ==
  ASSUME IInv, SettleInv, NEW t \in Threads, PersistFiles(t)
  PROVE  SettleInv'
<1> USE DEF IInv, SettleInv
<1> DEFINE new == {p \in Paths : Cached(p) /\ p \notin persisted}
<1>1. UNCHANGED <<files, type, rows, round, todo, path, maker>>
  BY DEF PersistFiles
<1>2. /\ pc[t] = "ready" /\ todo[t] = {} /\ pc'[t] = "persist"
      /\ \A u \in Threads \ {t} : pc'[u] = pc[u]
  BY DEF PersistFiles, Goto, TypeOK
<1>3. /\ persisted' = persisted \cup new
      /\ \A p \in Paths : inserting'[p] = IF p \in new THEN type[p][files[p].maker] ELSE NoFile
      /\ \A p \in Paths : inserting[p] = NoFile
  BY DEF PersistFiles, TypeOK
<1>4. Settles
  BY <1>1 DEF Settles, Cached
<1>5. LoadedInv' /\ CachedTyped'
  <2>1. LoadedInv'
    BY <1>1, <1>3 DEF LoadedInv, Cached
  <2>2. CachedTyped'
    BY <1>1, <1>2 DEF CachedTyped, Cached, Locating
  <2> QED BY <2>1, <2>2
<1>6. RowTyped'
  <2> SUFFICES ASSUME NEW p \in persisted', Row(p)' # "CPP"
               PROVE  \/ \E u \in Threads : Locating(u, p)' /\ type[p][maker[u]] # "CPP"
                      \/ \E u \in Threads : Updating(u, p)'
                      \/ ~Touched(p)'
    BY <1>1 DEF RowTyped
  <2>1. p \in Paths
    BY <1>3 DEF TypeOK
  <2>2. \A u \in Threads : /\ Locating(u, p) => Locating(u, p)'
                           /\ Updating(u, p) => Updating(u, p)'
    BY <1>1, <1>2 DEF Locating, Updating
  <2>3. CASE p \in new
    <3>1. type[p][files[p].maker] # "CPP"
      BY <1>1, <1>3, <2>1, <2>3 DEF Row, CacheInv
    <3>2. CASE p \in Loaded
      BY <1>1, <3>1, <3>2 DEF Touched, LoadedInv
    <3>3. CASE p \notin Loaded
      <4>1. PICK u \in Threads : Locating(u, p) /\ maker[u] = files[p].maker
        BY <2>1, <2>3, <3>1, <3>3 DEF CachedTyped
      <4>2. Locating(u, p)' /\ type[p][maker[u]] # "CPP"
        BY <2>2, <3>1, <4>1
      <4> QED BY <4>2
    <3> QED BY <3>2, <3>3
  <2>4. CASE p \notin new
    <3>1. p \in persisted /\ Row(p)' = Row(p)
      BY <1>1, <1>3, <2>1, <2>4 DEF Row
    <3>2. Touched(p)' <=> Touched(p)
      BY <1>1 DEF Touched
    <3> QED BY <2>2, <3>1, <3>2 DEF RowTyped, Locating, Updating
  <2> QED BY <2>3, <2>4
<1>7. HandInv(t)'
  BY <1>2 DEF HandInv, Looking
<1>8. RoundInv(t)'
  <2>1. Behind(t)' = Behind(t)
    BY <1>1, <1>2 DEF Behind
  <2>2. \A p \in Paths : Touched(p) => Touched(p)'
    BY <1>4, TouchedKept
  <2> QED BY <1>1, <1>2, <2>1, <2>2 DEF RoundInv, Looking
<1>9. ASSUME NEW u \in Threads \ {t} PROVE HandInv(u)' /\ RoundInv(u)'
  BY <1>1, <1>2, <1>4, OthersSettle
<1> QED BY <1>5, <1>6, <1>7, <1>8, <1>9

LEMMA CommitSettle ==
  ASSUME IInv, SettleInv, NEW t \in Threads, Commit(t)
  PROVE  SettleInv'
<1> USE DEF IInv, SettleInv
<1>1. UNCHANGED <<files, type, persisted, round, todo, path, maker>>
  BY DEF Commit
<1>2. /\ pc[t] = "persist" /\ pc'[t] = "store"
      /\ \A u \in Threads \ {t} : pc'[u] = pc[u]
  BY DEF Commit, Goto, TypeOK
<1>3. /\ \A p \in Paths : rows'[p] = Row(p)
      /\ \A p \in Paths : inserting'[p] = NoFile
  BY DEF Commit, Row
<1>4. \A p \in Paths : Row(p)' = Row(p)
  BY <1>3 DEF Row
<1>5. Settles
  BY <1>1, <1>3 DEF Settles, Cached, Row
<1>6. LoadedInv' /\ CachedTyped'
  BY <1>1, <1>2 DEF LoadedInv, CachedTyped, Cached, Locating
<1>7. RowTyped'
  <2>1. \A u \in Threads, p \in persisted : /\ Locating(u, p) => Locating(u, p)'
                                            /\ Updating(u, p) => Updating(u, p)'
    BY <1>1, <1>2 DEF Locating, Updating
  <2> QED BY <1>1, <1>4, <2>1, RowTypedKept DEF TypeOK
<1>8. HandInv(t)'
  BY <1>2 DEF HandInv, Looking
<1>9. RoundInv(t)'
  <2>1. Behind(t)' = Behind(t)
    BY <1>1, <1>2 DEF Behind
  <2>2. \A p \in Paths : Touched(p) => Touched(p)'
    BY <1>5, TouchedKept
  <2> QED BY <1>1, <1>2, <1>5, <2>1, <2>2 DEF RoundInv, Looking, Settles
<1>10. ASSUME NEW u \in Threads \ {t} PROVE HandInv(u)' /\ RoundInv(u)'
  BY <1>1, <1>2, <1>5, OthersSettle
<1> QED BY <1>6, <1>7, <1>8, <1>9, <1>10

LEMMA NextSettle == IInv /\ SettleInv /\ [Next]_vars => SettleInv'
<1> SUFFICES ASSUME IInv, SettleInv, [Next]_vars PROVE SettleInv'
  OBVIOUS
<1>1. ASSUME NEW t \in Threads, Step(t) PROVE SettleInv'
  BY <1>1, RoundSettle, LookupSettle, PublishSettle, SetTypeSettle, CheckPersistedSettle,
     WriteRowSettle, PersistFilesSettle, CommitSettle DEF Step
<1>2. CASE UNCHANGED vars
  <2> USE <1>2 DEF vars, SettleInv
  <2>1. LoadedInv' /\ CachedTyped'
    BY DEF LoadedInv, CachedTyped, Cached, Locating
  <2>2. RowTyped'
    BY DEF RowTyped, Row, Touched, Locating, Updating
  <2>3. ASSUME NEW t \in Threads PROVE HandInv(t)' /\ RoundInv(t)'
    BY DEF HandInv, RoundInv, Behind, Touched, Cached
  <2> QED BY <2>1, <2>2, <2>3
<1> QED BY <1>1, <1>2 DEF Next

(* When the threads have ended, the row of every file that one of them       *)
(* located something in says that it is a C++ file, whoever's object was in  *)
(* the cache when it was inserted (sourcemanager.cpp, getFile, updateFile    *)
(* and persistFiles; clangastvisitor.h, getFile).                            *)
THEOREM TypesAreSettled == Spec => []TypesSettle
<1>1. IInv /\ SettleInv => TypesSettle
  <2> SUFFICES ASSUME IInv, SettleInv, \A u \in Threads : pc[u] = "done",
                      NEW t \in Threads, NEW i \in DOMAIN Rounds[t], NEW p \in Rounds[t][i]
               PROVE  rows[p] = "CPP"
    BY DEF TypesSettle
  <2>1. i \in 1..Len(Rounds[t]) /\ p \in Paths
    BY RoundsAssumption
  <2>2. i \in Behind(t)
    BY <2>1 DEF SettleInv, RoundInv, Behind
  <2>3. rows[p] # NoFile /\ Touched(p)
    BY <2>1, <2>2 DEF SettleInv, RoundInv
  <2>4. Row(p) = rows[p] /\ p \in persisted
    BY <2>1, <2>3 DEF IInv, RowsInv, InsertedOnce, PersistedInv, Row
  <2> QED BY <2>3, <2>4 DEF SettleInv, RowTyped, Locating, Updating
<1> QED BY <1>1, InitInv, NextInv, InitSettle, NextSettle, PTL DEF Spec
=============================================================================
