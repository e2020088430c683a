------------------------------ MODULE ASTCache ------------------------------
(***************************************************************************)
(* The cache of reparsed syntax trees, and the requests that the server's  *)
(* threads answer through it: a miss builds the tree outside the lock, and *)
(* storing it reads the size of the cache outside the lock, prunes in one  *)
(* critical section and inserts in another.                                *)
(*                                                                         *)
(* The unlocked read is a data race; it may see the size between the erase *)
(* and the emplace of an insertion, so these are two steps.                *)
(***************************************************************************)
EXTENDS Naturals, Sequences, FiniteSets

CONSTANTS
  Threads,
  Files,
  CacheLimit,   \* --ast-cache-limit
  MaxRequests,  \* bound: how many requests the server gets
  NoOne         \* not a thread: nobody holds the lock

ASSUME ThreadsAssumption == IsFiniteSet(Threads) /\ Threads # {}
ASSUME LimitAssumption == CacheLimit \in Nat
ASSUME RequestsAssumption == MaxRequests \in Nat
ASSUME NoOneAssumption == NoOne \notin Threads

VARIABLES
  cached,    \* _cache: the files that have an entry
  lastHit,   \* the entries' _lastHit
  clock,     \* steady_clock
  lock,      \* the holder of _lock
  pc, file,  \* a thread and the file of its request
  requests,  \* how many there were
  answered   \* history: the files whose tree was handed out, in order

vars == <<cached, lastHit, clock, lock, pc, file, requests, answered>>

(* The limit is raised to the number of threads. *)
Jobs == Cardinality(Threads)
MaxCacheSize == IF Jobs > CacheLimit THEN Jobs ELSE CacheLimit

Init ==
  /\ cached = {}
  /\ lastHit = [f \in Files |-> 0]
  /\ clock = 1
  /\ lock = NoOne
  /\ pc = [t \in Threads |-> "idle"]
  /\ file \in [Threads -> Files]
  /\ requests = 0
  /\ answered = <<>>

Goto(t, label) == pc' = [pc EXCEPT ![t] = label]

(* ASTCacheEntry::getAST, and the end of the request. *)
HandOut(t) ==
  /\ lastHit' = [lastHit EXCEPT ![file[t]] = clock]
  /\ clock' = clock + 1
  /\ answered' = Append(answered, file[t])
  /\ Goto(t, "idle")

-----------------------------------------------------------------------------
Request(t, f) ==
  /\ pc[t] = "idle"
  /\ requests < MaxRequests
  /\ requests' = requests + 1
  /\ file' = [file EXCEPT ![t] = f]
  /\ Goto(t, "lookup")
  /\ UNCHANGED <<cached, lastHit, clock, lock, answered>>

(* Mutant: a hit is not remembered. *)
HitUntouched(t) ==
  /\ pc[t] = "lookup" /\ file[t] \in cached
  /\ lock = NoOne
  /\ answered' = Append(answered, file[t])
  /\ Goto(t, "idle")
  /\ UNCHANGED <<cached, lastHit, clock, lock, file, requests>>

(* ASTCache::getAST *)
Hit(t) ==
  /\ pc[t] = "lookup" /\ file[t] \in cached
  /\ lock = NoOne
  /\ HandOut(t)
  /\ UNCHANGED <<cached, lock, file, requests>>

Miss(t) ==
  /\ pc[t] = "lookup" /\ file[t] \notin cached
  /\ lock = NoOne
  /\ Goto(t, "build")
  /\ UNCHANGED <<cached, lastHit, clock, lock, file, requests, answered>>

(* The tree is built; or there is no command for it, or it does not parse. *)
Build(t) ==
  /\ pc[t] = "build"
  /\ \E label \in {"check", "idle"} : Goto(t, label)
  /\ UNCHANGED <<cached, lastHit, clock, lock, file, requests, answered>>

-----------------------------------------------------------------------------
(* storeAST: to prune or not, read without the lock. *)
Prunes == Cardinality(cached) >= MaxCacheSize

(* Mutant: an off-by-one in the check. *)
CheckSizeLate(t) ==
  /\ pc[t] = "check"
  /\ Goto(t, IF Cardinality(cached) > MaxCacheSize THEN "prune" ELSE "insert")
  /\ UNCHANGED <<cached, lastHit, clock, lock, file, requests, answered>>

CheckSize(t) ==
  /\ pc[t] = "check"
  /\ Goto(t, IF Prunes THEN "prune" ELSE "insert")
  /\ UNCHANGED <<cached, lastHit, clock, lock, file, requests, answered>>

(* pruneEntries *)
BeginPrune(t) ==
  /\ pc[t] = "prune"
  /\ lock = NoOne
  /\ lock' = t
  /\ Goto(t, "pruning")
  /\ UNCHANGED <<cached, lastHit, clock, file, requests, answered>>

Evict(t) ==
  /\ pc[t] = "pruning" /\ Prunes
  /\ \E f \in cached :
       /\ \A g \in cached : lastHit[f] <= lastHit[g]
       /\ cached' = cached \ {f}
  /\ UNCHANGED <<lastHit, clock, lock, pc, file, requests, answered>>

EndPrune(t) ==
  /\ pc[t] = "pruning" /\ ~Prunes
  /\ lock' = NoOne
  /\ Goto(t, "insert")
  /\ UNCHANGED <<cached, lastHit, clock, file, requests, answered>>

(* The rest of storeAST: an entry of that file goes, the new one comes. *)
Erase(t) ==
  /\ pc[t] = "insert"
  /\ lock = NoOne
  /\ lock' = t
  /\ cached' = cached \ {file[t]}
  /\ Goto(t, "emplace")
  /\ UNCHANGED <<lastHit, clock, file, requests, answered>>

Emplace(t) ==
  /\ pc[t] = "emplace"
  /\ cached' = cached \cup {file[t]}
  /\ HandOut(t)
  /\ lock' = NoOne
  /\ UNCHANGED <<file, requests>>

-----------------------------------------------------------------------------
Serve(t) ==
  \/ Hit(t) \/ Miss(t) \/ Build(t)
  \/ CheckSize(t) \/ BeginPrune(t) \/ Evict(t) \/ EndPrune(t)
  \/ Erase(t) \/ Emplace(t)

Next == \E t \in Threads : Serve(t) \/ \E f \in Files : Request(t, f)

Spec == Init /\ [][Next]_vars

-----------------------------------------------------------------------------
Labels == {"idle", "lookup", "build", "check", "prune", "pruning", "insert", "emplace"}

(* Types, and the lock is held in the two critical sections of storeAST. *)
TypeOK ==
  /\ cached \subseteq Files
  /\ lastHit \in [Files -> Nat]
  /\ clock \in Nat
  /\ lock \in Threads \cup {NoOne}
  /\ pc \in [Threads -> Labels]
  /\ file \in [Threads -> Files]
  /\ requests \in 0..MaxRequests
  /\ answered \in Seq(Files)
  /\ \A t \in Threads : pc[t] \in {"pruning", "emplace"} <=> lock = t

(* However the unlocked reads of the size fall, the cache grows beyond its  *)
(* limit by fewer entries than there are threads (astcache.h: "not an       *)
(* absolute limit").                                                        *)
CacheBounded == Cardinality(cached) <= MaxCacheSize + Jobs - 1

(* When f was last handed out. *)
LastAnswer(f) ==
  LET when == {i \in DOMAIN answered : answered[i] = f}
  IN CHOOSE i \in when : \A j \in when : j <= i

(* What pruning evicts was handed out before everything that it keeps.      *)
LeastRecentlyUsedGoes ==
  [][\A t \in Threads : pc[t] = "pruning" =>
       \A f \in cached \ cached' : \A g \in cached' : LastAnswer(f) < LastAnswer(g)]_vars
=============================================================================
