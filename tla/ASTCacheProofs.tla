--------------------------- MODULE ASTCacheProofs ---------------------------
(***************************************************************************)
(* Theorems about ASTCache for any number of threads, files and requests   *)
(* and any limit.  The argument: a thread that is on its way to insert has *)
(* seen the cache below its limit, or pruned it below, and an insertion    *)
(* turns one such thread into at most one entry; so the entries and those  *)
(* threads together never outnumber the limit and the other threads.  And  *)
(* an entry's _lastHit is the place of its last answer among all answers.  *)
(***************************************************************************)
EXTENDS ASTCache, FiniteSetTheorems, SequenceTheorems, TLAPS

Inserting == {t \in Threads : pc[t] \in {"insert", "emplace"}}

Room ==
  /\ IsFiniteSet(cached)
  /\ Cardinality(cached) + Cardinality(Inserting) <= MaxCacheSize + Jobs - 1

IInv == TypeOK /\ Room

-----------------------------------------------------------------------------
LEMMA Sizes ==
  /\ Jobs \in Nat \ {0}
  /\ MaxCacheSize \in Nat \ {0}
<1>1. Jobs \in Nat \ {0}
  BY ThreadsAssumption, FS_CardinalityType, FS_EmptySet DEF Jobs
<1> QED BY <1>1, LimitAssumption DEF MaxCacheSize

LEMMA InsertingFinite ==
  /\ IsFiniteSet(Inserting)
  /\ Cardinality(Inserting) \in Nat
  /\ Cardinality(Inserting) <= Jobs
BY ThreadsAssumption, FS_Subset, FS_CardinalityType DEF Inserting, Jobs

LEMMA InitInv == Init => IInv
<1> SUFFICES ASSUME Init PROVE IInv
  OBVIOUS
<1>1. TypeOK
  BY NoOneAssumption, RequestsAssumption DEF Init, TypeOK, Labels
<1>2. Inserting = {}
  BY DEF Init, Inserting
<1>3. Room
  BY <1>2, Sizes, FS_EmptySet DEF Init, Room
<1> QED BY <1>1, <1>3 DEF IInv

-----------------------------------------------------------------------------
(* Type correctness, a group of actions at a time. *)
LEMMA UnlockedTypes ==
  ASSUME TypeOK, NEW t \in Threads,
         (\E f \in Files : Request(t, f)) \/ Miss(t) \/ Build(t) \/ CheckSize(t)
  PROVE  TypeOK'
<1>1. PICK label \in Labels \ {"pruning", "emplace"} : Goto(t, label)
  BY DEF Request, Miss, Build, CheckSize, Labels
<1>2. pc[t] \notin {"pruning", "emplace"}
  BY DEF Request, Miss, Build, CheckSize
<1>3. UNCHANGED <<cached, lastHit, clock, lock, answered>>
  BY DEF Request, Miss, Build, CheckSize
<1>4. file' \in [Threads -> Files] /\ requests' \in 0..MaxRequests
  <2>1. ASSUME NEW f \in Files, Request(t, f)
        PROVE  file' \in [Threads -> Files] /\ requests' \in 0..MaxRequests
    BY <2>1, RequestsAssumption DEF TypeOK, Request
  <2>2. CASE UNCHANGED <<file, requests>>
    BY <2>2 DEF TypeOK
  <2> QED BY <2>1, <2>2 DEF Miss, Build, CheckSize
<1>5. /\ pc' \in [Threads -> Labels]
      /\ \A u \in Threads : pc'[u] \in {"pruning", "emplace"} <=> lock' = u
  BY <1>1, <1>2, <1>3 DEF TypeOK, Goto
<1> QED BY <1>3, <1>4, <1>5 DEF TypeOK

LEMMA LockTypes ==
  ASSUME TypeOK, NEW t \in Threads, BeginPrune(t) \/ Evict(t) \/ EndPrune(t) \/ Erase(t)
  PROVE  TypeOK'
<1>1. UNCHANGED <<lastHit, clock, file, requests, answered>> /\ cached' \subseteq Files
  BY DEF TypeOK, BeginPrune, Evict, EndPrune, Erase
<1>2. /\ pc' \in [Threads -> Labels]
      /\ lock' \in Threads \cup {NoOne}
      /\ \A u \in Threads : pc'[u] \in {"pruning", "emplace"} <=> lock' = u
  BY NoOneAssumption DEF TypeOK, BeginPrune, Evict, EndPrune, Erase, Goto, Labels
<1> QED BY <1>1, <1>2 DEF TypeOK

LEMMA AnswerTypes ==
  ASSUME TypeOK, NEW t \in Threads, Hit(t) \/ Emplace(t)
  PROVE  TypeOK'
<1>1. HandOut(t) /\ UNCHANGED <<file, requests>>
  BY DEF Hit, Emplace
<1>2. lastHit' \in [Files -> Nat] /\ clock' \in Nat
  BY <1>1 DEF TypeOK, HandOut
<1>3. answered' \in Seq(Files)
  BY <1>1, AppendProperties DEF TypeOK, HandOut
<1>4. pc' = [pc EXCEPT ![t] = "idle"]
  BY <1>1 DEF HandOut, Goto
<1>5. cached' \subseteq Files
  BY DEF TypeOK, Hit, Emplace
<1>6. /\ pc' \in [Threads -> Labels]
      /\ lock' \in Threads \cup {NoOne}
      /\ \A u \in Threads : pc'[u] \in {"pruning", "emplace"} <=> lock' = u
  BY <1>4, NoOneAssumption DEF TypeOK, Hit, Emplace, Labels
<1> QED BY <1>1, <1>2, <1>3, <1>5, <1>6 DEF TypeOK

-----------------------------------------------------------------------------
(* No step but the last of a check or a pruning adds to Inserting. *)
LEMMA RoomKept ==
  ASSUME Room, cached' \subseteq cached, Inserting' \subseteq Inserting
  PROVE  Room'
<1>1. /\ IsFiniteSet(cached')
      /\ Cardinality(cached') \in Nat /\ Cardinality(cached) \in Nat
      /\ Cardinality(cached') <= Cardinality(cached)
  BY FS_Subset, FS_CardinalityType DEF Room
<1>2. /\ Cardinality(Inserting) \in Nat /\ Cardinality(Inserting') \in Nat
      /\ Cardinality(Inserting') <= Cardinality(Inserting)
  BY InsertingFinite, FS_Subset, FS_CardinalityType
<1>3. MaxCacheSize' = MaxCacheSize /\ Jobs' = Jobs
  BY DEF MaxCacheSize, Jobs
<1> QED BY <1>1, <1>2, <1>3, Sizes DEF Room

(* A thread that saw the cache below its limit may go on to insert. *)
LEMMA RoomBelowLimit ==
  ASSUME Room, ~Prunes, cached' = cached
  PROVE  Room'
<1>1. Cardinality(cached) \in Nat /\ Cardinality(cached) <= MaxCacheSize - 1
  BY FS_CardinalityType, Sizes DEF Room, Prunes
<1>2. Cardinality(Inserting') \in Nat /\ Cardinality(Inserting') <= Jobs
  BY ThreadsAssumption, FS_Subset, FS_CardinalityType DEF Inserting, Jobs
<1>3. MaxCacheSize' = MaxCacheSize /\ Jobs' = Jobs
  BY DEF MaxCacheSize, Jobs
<1> QED BY <1>1, <1>2, <1>3, Sizes DEF Room

LEMMA RoomEmplaced ==
  ASSUME IInv, NEW t \in Threads, Emplace(t)
  PROVE  Room'
<1>1. pc[t] = "emplace" /\ cached' = cached \cup {file[t]} /\ pc' = [pc EXCEPT ![t] = "idle"]
  BY DEF Emplace, HandOut, Goto
<1>2. t \in Inserting /\ Inserting' = Inserting \ {t}
  BY <1>1 DEF Inserting, IInv, TypeOK
<1>3. Cardinality(Inserting') = Cardinality(Inserting) - 1 /\ Cardinality(Inserting) \in Nat
  BY <1>2, InsertingFinite, FS_RemoveElement
<1>4. /\ IsFiniteSet(cached')
      /\ Cardinality(cached) \in Nat /\ Cardinality(cached') \in Nat
      /\ Cardinality(cached') <= Cardinality(cached) + 1
  <2>1. IsFiniteSet(cached) /\ Cardinality(cached) \in Nat
    BY FS_CardinalityType DEF IInv, Room
  <2>2. /\ IsFiniteSet(cached \cup {file[t]})
        /\ Cardinality(cached \cup {file[t]}) =
             IF file[t] \in cached THEN Cardinality(cached) ELSE Cardinality(cached) + 1
    BY <2>1, FS_AddElement
  <2> QED BY <1>1, <2>1, <2>2
<1>5. MaxCacheSize' = MaxCacheSize /\ Jobs' = Jobs
  BY DEF MaxCacheSize, Jobs
<1> QED BY <1>3, <1>4, <1>5, Sizes DEF IInv, Room

LEMMA NextInv == IInv /\ [Next]_vars => IInv'
<1> SUFFICES ASSUME IInv, [Next]_vars PROVE IInv'
  OBVIOUS
<1> USE DEF IInv
<1>1. ASSUME NEW t \in Threads,
             (\E f \in Files : Request(t, f)) \/ Miss(t) \/ Build(t)
      PROVE  IInv'
  <2>1. TypeOK'
    BY <1>1, UnlockedTypes
  <2>2. cached' = cached /\ Inserting' \subseteq Inserting
    BY <1>1 DEF Request, Miss, Build, Goto, Inserting, TypeOK
  <2> QED BY <2>1, <2>2, RoomKept
<1>2. ASSUME NEW t \in Threads, CheckSize(t) PROVE IInv'
  <2>1. TypeOK' /\ cached' = cached
    BY <1>2, UnlockedTypes DEF CheckSize
  <2>2. CASE Prunes
    <3> Inserting' \subseteq Inserting
      BY <1>2, <2>2 DEF CheckSize, Goto, Inserting, TypeOK
    <3> QED BY <2>1, RoomKept
  <2>3. CASE ~Prunes
    BY <2>1, <2>3, RoomBelowLimit
  <2> QED BY <2>2, <2>3
<1>3. ASSUME NEW t \in Threads, BeginPrune(t) \/ Evict(t) \/ Erase(t) PROVE IInv'
  <2>1. TypeOK'
    BY <1>3, LockTypes
  <2>2. cached' \subseteq cached /\ Inserting' \subseteq Inserting
    BY <1>3 DEF BeginPrune, Evict, Erase, Goto, Inserting, TypeOK
  <2> QED BY <2>1, <2>2, RoomKept
<1>4. ASSUME NEW t \in Threads, EndPrune(t) PROVE IInv'
  BY <1>4, LockTypes, RoomBelowLimit DEF EndPrune
<1>5. ASSUME NEW t \in Threads, Hit(t) PROVE IInv'
  <2>1. cached' = cached /\ Inserting' \subseteq Inserting
    BY <1>5 DEF Hit, HandOut, Goto, Inserting, TypeOK
  <2> QED BY <1>5, <2>1, AnswerTypes, RoomKept
<1>6. ASSUME NEW t \in Threads, Emplace(t) PROVE IInv'
  BY <1>6, AnswerTypes, RoomEmplaced
<1>7. CASE UNCHANGED vars
  <2>1. TypeOK'
    BY <1>7 DEF vars, TypeOK
  <2>2. cached' = cached /\ Inserting' = Inserting
    BY <1>7 DEF vars, Inserting
  <2> QED BY <2>1, <2>2, RoomKept
<1> QED BY <1>1, <1>2, <1>3, <1>4, <1>5, <1>6, <1>7 DEF Next, Serve

-----------------------------------------------------------------------------
THEOREM Inductive == Spec => []IInv
<1> QED BY InitInv, NextInv, PTL DEF Spec

(* Every reachable state is well typed, and _lock is held exactly in the   *)
(* critical sections of storeAST and pruneEntries (astcache.cpp).          *)
THEOREM TypeCorrect == Spec => []TypeOK
<1>1. IInv => TypeOK
  BY DEF IInv
<1> QED BY <1>1, Inductive, PTL

(* Although storeAST reads the size of the cache without the lock, the     *)
(* cache exceeds its limit by fewer entries than there are threads.        *)
THEOREM OverfillBounded == Spec => []CacheBounded
<1>1. IInv => CacheBounded
  BY InsertingFinite, Sizes, FS_CardinalityType DEF IInv, Room, CacheBounded
<1> QED BY <1>1, Inductive, PTL

-----------------------------------------------------------------------------
(* What _lastHit says of the answers. *)
HitInv ==
  /\ clock = Len(answered) + 1
  /\ \A f \in cached :
       /\ lastHit[f] \in 1..Len(answered)
       /\ answered[lastHit[f]] = f
       /\ \A i \in 1..Len(answered) : answered[i] = f => i <= lastHit[f]

LEMMA HitKept ==
  ASSUME HitInv, cached' \subseteq cached, UNCHANGED <<lastHit, clock, answered>>
  PROVE  HitInv'
BY DEF HitInv

LEMMA HitHandedOut ==
  ASSUME TypeOK, HitInv, NEW t \in Threads, HandOut(t),
         cached' \subseteq cached \cup {file[t]}
  PROVE  HitInv'
<1>1. /\ answered \in Seq(Files) /\ file[t] \in Files
      /\ lastHit' = [lastHit EXCEPT ![file[t]] = clock]
      /\ clock = Len(answered) + 1 /\ clock' = clock + 1
      /\ answered' = Append(answered, file[t])
  BY DEF TypeOK, HitInv, HandOut
<1>2. /\ Len(answered') = clock /\ Len(answered) \in Nat
      /\ answered'[clock] = file[t]
      /\ \A i \in 1..Len(answered) : answered'[i] = answered[i]
  BY <1>1, AppendProperties
<1>3. clock' = Len(answered') + 1
  BY <1>1, <1>2
<1>4. ASSUME NEW f \in cached'
      PROVE  /\ lastHit'[f] \in 1..Len(answered')
             /\ answered'[lastHit'[f]] = f
             /\ \A i \in 1..Len(answered') : answered'[i] = f => i <= lastHit'[f]
  <2>1. CASE f = file[t]
    <3>1. lastHit'[f] = clock
      BY <1>1, <2>1 DEF TypeOK
    <3> QED BY <1>1, <1>2, <2>1, <3>1
  <2>2. CASE f # file[t]
    <3>1. f \in cached /\ lastHit'[f] = lastHit[f]
      BY <1>1, <2>2 DEF TypeOK
    <3>2. /\ lastHit[f] \in 1..Len(answered)
          /\ answered[lastHit[f]] = f
          /\ \A i \in 1..Len(answered) : answered[i] = f => i <= lastHit[f]
      BY <3>1 DEF HitInv
    <3> QED BY <1>1, <1>2, <2>2, <3>1, <3>2
  <2> QED BY <2>1, <2>2
<1> QED BY <1>3, <1>4 DEF HitInv

LEMMA HitNext == TypeOK /\ HitInv /\ [Next]_vars => HitInv'
<1> SUFFICES ASSUME TypeOK, HitInv, [Next]_vars PROVE HitInv'
  OBVIOUS
<1>1. ASSUME NEW t \in Threads,
             \/ \E f \in Files : Request(t, f)
             \/ Miss(t) \/ Build(t) \/ CheckSize(t) \/ BeginPrune(t) \/ Evict(t)
             \/ EndPrune(t) \/ Erase(t)
      PROVE  HitInv'
  <2> cached' \subseteq cached /\ UNCHANGED <<lastHit, clock, answered>>
    BY <1>1 DEF Request, Miss, Build, CheckSize, BeginPrune, Evict, EndPrune, Erase
  <2> QED BY HitKept
<1>2. ASSUME NEW t \in Threads, Hit(t) \/ Emplace(t) PROVE HitInv'
  BY <1>2, HitHandedOut DEF Hit, Emplace
<1>3. CASE UNCHANGED vars
  BY <1>3, HitKept DEF vars
<1> QED BY <1>1, <1>2, <1>3 DEF Next, Serve

LEMMA LastAnswerIsLastHit ==
  ASSUME TypeOK, HitInv, NEW f \in cached
  PROVE  LastAnswer(f) = lastHit[f]
<1> DEFINE when == {i \in DOMAIN answered : answered[i] = f}
<1>1. DOMAIN answered = 1..Len(answered) /\ Len(answered) \in Nat
  BY DEF TypeOK
<1>2. lastHit[f] \in when /\ \A j \in when : j <= lastHit[f]
  BY <1>1 DEF HitInv
<1>3. \A i \in when : (\A j \in when : j <= i) => i = lastHit[f]
  BY <1>1, <1>2
<1>4. LastAnswer(f) = CHOOSE i \in when : \A j \in when : j <= i
  BY DEF LastAnswer
<1> HIDE DEF when
<1> QED BY <1>2, <1>3, <1>4

(* Pruning evicts the tree that was handed out longest ago, whatever the   *)
(* other threads do between the size check and the eviction (astcache.cpp, *)
(* pruneEntries).                                                          *)
THEOREM EvictsLeastRecentlyUsed == Spec => LeastRecentlyUsedGoes
<1> DEFINE Goes(t) == pc[t] = "pruning" =>
             \A f \in cached \ cached' : \A g \in cached' : LastAnswer(f) < LastAnswer(g)
<1>1. Init => HitInv
  BY DEF Init, HitInv
<1>2. TypeOK /\ HitInv /\ [Next]_vars => [\A t \in Threads : Goes(t)]_vars
  <2> SUFFICES ASSUME TypeOK, HitInv, Next, NEW t \in Threads, pc[t] = "pruning",
                      NEW f \in cached \ cached', NEW g \in cached'
               PROVE  LastAnswer(f) < LastAnswer(g)
    OBVIOUS
  <2>1. PICK u \in Threads : Evict(u)
    <3>1. PICK u \in Threads : Serve(u) \/ \E h \in Files : Request(u, h)
      BY DEF Next
    <3>2. ~Erase(u)
      BY NoOneAssumption DEF Erase, TypeOK
    <3>3. f \in cached /\ f \notin cached'
      OBVIOUS
    <3> QED BY <3>1, <3>2, <3>3
      DEF Serve, Request, Hit, Miss, Build, CheckSize, BeginPrune, EndPrune, Emplace
  <2>2. g \in cached /\ f \in cached /\ f # g /\ lastHit[f] <= lastHit[g]
    BY <2>1 DEF Evict
  <2>3. lastHit[f] \in Nat /\ lastHit[g] \in Nat /\ lastHit[f] # lastHit[g]
    BY <2>2 DEF HitInv, TypeOK
  <2> QED BY <2>2, <2>3, LastAnswerIsLastHit
<1> QED BY <1>1, <1>2, HitNext, TypeCorrect, PTL DEF Spec, LeastRecentlyUsedGoes
=============================================================================
