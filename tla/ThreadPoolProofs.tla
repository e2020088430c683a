-------------------------- MODULE ThreadPoolProofs --------------------------
(***************************************************************************)
(* Theorems about ThreadPool for any number of workers and any set of      *)
(* jobs.  The argument: a notification only ever turns a sleeper into a    *)
(* woken thread, so it disturbs nothing but types; jobs move from the      *)
(* queue to a worker to done, one at a time; and a worker exits only when  *)
(* _die is set and the queue is empty, after which nothing is enqueued.    *)
(***************************************************************************)
EXTENDS ThreadPool, TLAPS, SequenceTheorems

(* What the unlocked loop condition rests on: once a worker has seen _die  *)
(* set it stays set, and an empty queue then stays empty.                  *)
ExitInv ==
  \A w \in Workers :
    /\ wpc[w] = "checking" => die
    /\ wpc[w] = "exited" => die /\ queue = <<>>

(* _die is set exactly when the client has entered wait(). *)
DieInv == die <=> cpc \notin {"submitting", "signalling"}

(* wait() has joined a prefix of the threads. *)
JoinInv ==
  /\ \A w \in 1..joined : wpc[w] = "exited"
  /\ cpc = "joining" => joined < ThreadCount
  /\ cpc = "returned" => joined = ThreadCount

IInv == TypeOK /\ ExactlyOnce /\ ExitInv /\ DieInv /\ JoinInv

-----------------------------------------------------------------------------
LEMMA NotifyOneWakes ==
  ASSUME NEW pc \in [Workers -> WorkerPC], NotifyOne(pc)
  PROVE  /\ wpc' \in [Workers -> WorkerPC]
         /\ \A w \in Workers : wpc'[w] = pc[w] \/ (pc[w] = "asleep" /\ wpc'[w] = "woken")
BY DEF NotifyOne, Asleep, WorkerPC

LEMMA NotifyAllWakes ==
  ASSUME NEW pc \in [Workers -> WorkerPC], NotifyAll(pc)
  PROVE  /\ wpc' \in [Workers -> WorkerPC]
         /\ \A w \in Workers : wpc'[w] = pc[w] \/ (pc[w] = "asleep" /\ wpc'[w] = "woken")
BY DEF NotifyAll, WorkerPC

LEMMA InitInv == Init => IInv
<1> SUFFICES ASSUME Init PROVE IInv
  OBVIOUS
<1>1. TypeOK
  <2>1. queue \in Seq(Jobs)
    BY DEF Init
  <2>2. wpc \in [Workers -> WorkerPC] /\ job \in [Workers -> Jobs \cup {NoJob}]
    BY DEF Init, WorkerPC
  <2>3. \A w \in Workers : job[w] # NoJob <=> wpc[w] \in {"popped", "running"}
    BY DEF Init
  <2>4. joined \in 0..ThreadCount /\ executed \in [Jobs -> Nat] /\ submitted \subseteq Jobs
    BY ThreadCountAssumption DEF Init
  <2>5. die \in BOOLEAN /\ cpc \in ClientPC
    BY DEF Init, ClientPC
  <2> QED BY <2>1, <2>2, <2>3, <2>4, <2>5 DEF TypeOK
<1>2. ExactlyOnce
  BY DEF Init, ExactlyOnce, Queued, Held, Done
<1>3. ExitInv /\ DieInv /\ JoinInv
  BY ThreadCountAssumption DEF Init, ExitInv, DieInv, JoinInv
<1> QED BY <1>1, <1>2, <1>3 DEF IInv

-----------------------------------------------------------------------------
(* A step that moves program counters and nothing else: the wait set, the  *)
(* loop condition, and the client's progress through wait().               *)
Bookkeeping == UNCHANGED <<queue, job, submitted, executed>>

LEMMA BookkeepingKeepsJobs ==
  ASSUME ExactlyOnce, Bookkeeping
  PROVE  ExactlyOnce'
BY DEF ExactlyOnce, Bookkeeping, Queued, Held, Done

LEMMA ClientStep ==
  ASSUME IInv,
         SignalWork \/ CallWait \/ SignalDeath \/ Nudge \/ Join \/ WaitReturns
  PROVE  IInv'
<1> USE DEF IInv
<1> Bookkeeping
  BY DEF Bookkeeping, SignalWork, CallWait, SignalDeath, Nudge, Join, WaitReturns
<1>0. ExactlyOnce'
  BY BookkeepingKeepsJobs
<1>1. CASE SignalWork
  <2>1. /\ wpc' \in [Workers -> WorkerPC]
        /\ \A w \in Workers : wpc'[w] = wpc[w] \/ (wpc[w] = "asleep" /\ wpc'[w] = "woken")
    BY <1>1, NotifyOneWakes DEF SignalWork, TypeOK
  <2> QED
    BY <1>0, <1>1, <2>1, ThreadCountAssumption DEF SignalWork, TypeOK, ClientPC, ExitInv, DieInv, JoinInv, Workers
<1>2. CASE CallWait
  BY <1>0, <1>2 DEF CallWait, TypeOK, ClientPC, ExitInv, DieInv, JoinInv
<1>3. CASE SignalDeath \/ Nudge
  <2>1. /\ wpc' \in [Workers -> WorkerPC]
        /\ \A w \in Workers : wpc'[w] = wpc[w] \/ (wpc[w] = "asleep" /\ wpc'[w] = "woken")
    BY <1>3, NotifyAllWakes DEF SignalDeath, Nudge, TypeOK
  <2> QED
    BY <1>0, <1>3, <2>1, ThreadCountAssumption
       DEF SignalDeath, Nudge, TypeOK, ClientPC, ExitInv, DieInv, JoinInv, Workers
<1>4. CASE Join
  BY <1>0, <1>4, ThreadCountAssumption
     DEF Join, TypeOK, ClientPC, ExitInv, DieInv, JoinInv, Workers
<1>5. CASE WaitReturns
  BY <1>0, <1>5 DEF WaitReturns, TypeOK, ClientPC, ExitInv, DieInv, JoinInv
<1> QED BY <1>1, <1>2, <1>3, <1>4, <1>5

LEMMA EnqueueStep ==
  ASSUME IInv, NEW j \in Jobs, Enqueue(j)
  PROVE  IInv'
<1> USE DEF IInv
<1>1. /\ queue' \in Seq(Jobs)
      /\ Len(queue') = Len(queue) + 1
      /\ queue'[Len(queue) + 1] = j
      /\ \A i \in 1..Len(queue) : queue'[i] = queue[i]
  BY DEF Enqueue, TypeOK
<1>2. TypeOK'
  BY <1>1 DEF Enqueue, TypeOK, ClientPC
<1>3. Queued' = Queued \cup {j}
  <2>1. ASSUME NEW x \in Queued PROVE x \in Queued'
    <3> PICK i \in 1..Len(queue) : x = queue[i]
      BY DEF Queued
    <3> i \in 1..Len(queue') /\ x = queue'[i]
      BY <1>1 DEF TypeOK
    <3> QED BY DEF Queued
  <2>2. j \in Queued'
    BY <1>1 DEF TypeOK, Queued
  <2>3. ASSUME NEW x \in Queued' PROVE x = j \/ x \in Queued
    <3> PICK i \in 1..Len(queue') : x = queue'[i]
      BY DEF Queued
    <3>1. CASE i = Len(queue) + 1
      BY <3>1, <1>1
    <3>2. CASE i \in 1..Len(queue)
      BY <3>2, <1>1 DEF Queued
    <3> QED BY <3>1, <3>2, <1>1 DEF TypeOK
  <2> QED BY <2>1, <2>2, <2>3
<1>4. j \notin Queued /\ j \notin Held /\ j \notin Done
  BY DEF Enqueue, ExactlyOnce
<1>5. Held' = Held /\ Done' = Done
  BY DEF Enqueue, Held, Done
<1>6. \A i, k \in 1..Len(queue') : queue'[i] = queue'[k] => i = k
  <2> TAKE i, k \in 1..Len(queue')
  <2> HAVE queue'[i] = queue'[k]
  <2>1. Len(queue) \in Nat
    BY DEF TypeOK
  <2>2. \A x \in 1..Len(queue) : queue'[x] # j
    BY <1>1, <1>4 DEF Queued
  <2>3. \A x \in 1..Len(queue') : x \in 1..Len(queue) \/ x = Len(queue) + 1
    BY <1>1, <2>1
  <2>4. \A x, y \in 1..Len(queue) : queue[x] = queue[y] => x = y
    BY DEF ExactlyOnce
  <2> QED BY <1>1, <2>2, <2>3, <2>4
<1>7. ExactlyOnce'
  BY <1>3, <1>4, <1>5, <1>6 DEF Enqueue, ExactlyOnce
<1>8. ExitInv' /\ DieInv' /\ JoinInv'
  BY DEF Enqueue, ExitInv, DieInv, JoinInv
<1> QED BY <1>2, <1>7, <1>8

LEMMA WorkerMoves ==
  ASSUME IInv, NEW w \in Workers,
         \/ ReadDie(w) \/ ReadEmpty(w) \/ Sleep(w) \/ Recheck(w)
         \/ Timeout(w) \/ LeaveWait(w) \/ SignalPopped(w)
  PROVE  IInv'
<1> USE DEF IInv
<1> Bookkeeping /\ UNCHANGED <<die, cpc, joined>>
  BY DEF Bookkeeping, ReadDie, ReadEmpty, Sleep, Recheck, Timeout, LeaveWait,
         SignalPopped, clientVars
<1>0. ExactlyOnce'
  BY BookkeepingKeepsJobs
<1>1. CASE ReadDie(w) \/ ReadEmpty(w) \/ Sleep(w) \/ Recheck(w) \/ Timeout(w)
  <2>1. TypeOK'
    BY <1>1 DEF ReadDie, ReadEmpty, Sleep, Recheck, Timeout, Goto, TypeOK, WorkerPC, Bookkeeping
  <2>2. ExitInv' /\ DieInv'
    BY <1>1 DEF ReadDie, ReadEmpty, Sleep, Recheck, Timeout, Goto, TypeOK, ExitInv, DieInv, Bookkeeping
  <2>3. JoinInv'
    BY <1>1, ThreadCountAssumption
       DEF ReadDie, ReadEmpty, Sleep, Recheck, Timeout, Goto, TypeOK, JoinInv, Workers
  <2> QED BY <1>0, <2>1, <2>2, <2>3
<1>2. ASSUME NEW to \in {"loop", "running"}, wpc[w] \in {"leaving", "popped"},
             wpc[w] = "popped" <=> to = "running",
             NotifyOne([wpc EXCEPT ![w] = to])
      PROVE  IInv'
  <2> DEFINE pc == [wpc EXCEPT ![w] = to]
  <2>1. pc \in [Workers -> WorkerPC]
    BY <1>2 DEF TypeOK, WorkerPC
  <2>2. /\ wpc' \in [Workers -> WorkerPC]
        /\ \A v \in Workers : wpc'[v] = pc[v] \/ (pc[v] = "asleep" /\ wpc'[v] = "woken")
    <3> HIDE DEF pc
    <3> NotifyOne(pc)
      BY <1>2 DEF pc
    <3> QED BY <2>1, NotifyOneWakes
  <2>3. \A v \in Workers :
          \/ v = w /\ wpc'[v] = to
          \/ v # w /\ wpc'[v] = wpc[v]
          \/ v # w /\ wpc[v] = "asleep" /\ wpc'[v] = "woken"
    BY <1>2, <2>2 DEF TypeOK
  <2>4. TypeOK'
    BY <1>2, <2>2, <2>3 DEF TypeOK, Bookkeeping
  <2>5. ExitInv' /\ DieInv'
    BY <1>2, <2>3 DEF ExitInv, DieInv, Bookkeeping
  <2>6. JoinInv'
    BY <1>2, <2>3, ThreadCountAssumption DEF JoinInv, TypeOK, Workers
  <2> QED BY <1>0, <2>4, <2>5, <2>6
<1>3. CASE LeaveWait(w)
  BY <1>3, <1>2 DEF LeaveWait
<1>4. CASE SignalPopped(w)
  BY <1>4, <1>2 DEF SignalPopped
<1> QED BY <1>1, <1>3, <1>4

LEMMA PopStep ==
  ASSUME IInv, NEW w \in Workers, Pop(w)
  PROVE  IInv'
<1> USE DEF IInv
<1> DEFINE h == Head(queue)
<1>1. /\ h \in Jobs /\ h = queue[1] /\ Len(queue) > 0
      /\ queue' \in Seq(Jobs)
      /\ Len(queue') = Len(queue) - 1
      /\ \A i \in 1..(Len(queue) - 1) : queue'[i] = queue[i + 1]
  BY HeadTailProperties DEF Pop, TypeOK
<1> HIDE DEF h
<1>2. job' = [job EXCEPT ![w] = h] /\ wpc' = [wpc EXCEPT ![w] = "popped"]
  BY DEF Pop, Goto, h
<1>3. TypeOK'
  BY <1>1, <1>2, NoJobAssumption DEF Pop, TypeOK, WorkerPC, clientVars
<1>4. Queued = Queued' \cup {h} /\ h \notin Queued'
  <2>1. h \in Queued
    BY <1>1 DEF Queued, TypeOK
  <2>2. ASSUME NEW x \in Queued' PROVE x \in Queued
    <3> PICK i \in 1..Len(queue') : x = queue'[i]
      BY DEF Queued
    <3> i + 1 \in 1..Len(queue) /\ x = queue[i + 1]
      BY <1>1 DEF TypeOK
    <3> QED BY DEF Queued
  <2>3. \A i \in 1..Len(queue) : queue[i] = h \/ queue[i] \in Queued'
    <3> TAKE i \in 1..Len(queue)
    <3>1. CASE i = 1
      BY <3>1, <1>1
    <3>2. CASE i # 1
      <4> i - 1 \in 1..Len(queue') /\ queue'[i - 1] = queue[i]
        BY <3>2, <1>1 DEF TypeOK
      <4> QED BY <1>1 DEF Queued
    <3> QED BY <3>1, <3>2
  <2>4. h \notin Queued'
    <3> SUFFICES ASSUME NEW i \in 1..Len(queue'), queue'[i] = h
                 PROVE  FALSE
      BY DEF Queued
    <3>1. Len(queue) \in Nat \ {0} /\ i + 1 \in 1..Len(queue) /\ 1 \in 1..Len(queue)
      BY <1>1 DEF TypeOK
    <3>2. queue[i + 1] = queue[1]
      BY <1>1
    <3>3. i + 1 = 1
      BY <3>1, <3>2 DEF ExactlyOnce
    <3> QED BY <3>3
  <2> QED BY <2>1, <2>2, <2>3, <2>4 DEF Queued, TypeOK
<1>5. Held' = Held \cup {h} /\ h \notin Held
  <2>1. h \notin Held
    BY <1>4 DEF ExactlyOnce
  <2>2. job[w] = NoJob
    BY DEF Pop, TypeOK
  <2> QED BY <2>1, <2>2, <1>1, <1>2, NoJobAssumption DEF Held, TypeOK
<1>6. Done' = Done /\ h \notin Done
  BY <1>4 DEF Pop, Done, ExactlyOnce
<1>7. \A i, k \in 1..Len(queue') : queue'[i] = queue'[k] => i = k
  <2> TAKE i, k \in 1..Len(queue')
  <2> HAVE queue'[i] = queue'[k]
  <2>1. i \in 1..(Len(queue) - 1) /\ k \in 1..(Len(queue) - 1)
    BY <1>1
  <2>2. queue[i + 1] = queue[k + 1]
    BY <2>1, <1>1
  <2>3. i + 1 \in 1..Len(queue) /\ k + 1 \in 1..Len(queue)
    BY <2>1, <1>1 DEF TypeOK
  <2> QED BY <2>1, <2>2, <2>3 DEF ExactlyOnce
<1>8. \A u, v \in Workers : job'[u] = job'[v] /\ job'[u] # NoJob => u = v
  BY <1>1, <1>2, <1>5 DEF ExactlyOnce, TypeOK, Held
<1>9. ExactlyOnce'
  BY <1>4, <1>5, <1>6, <1>7, <1>8 DEF Pop, ExactlyOnce, clientVars
<1>10. ExitInv'
  BY <1>1, <1>2 DEF Pop, ExitInv, TypeOK
<1>11. DieInv' /\ JoinInv'
  BY <1>2, ThreadCountAssumption DEF Pop, DieInv, JoinInv, TypeOK, Workers, clientVars
<1> QED BY <1>3, <1>9, <1>10, <1>11

LEMMA FinishStep ==
  ASSUME IInv, NEW w \in Workers, FinishJob(w)
  PROVE  IInv'
<1> USE DEF IInv
<1> DEFINE h == job[w]
<1>1. h \in Jobs /\ h \in Held
  BY NoJobAssumption DEF FinishJob, TypeOK, Held
<1>2. /\ job' = [job EXCEPT ![w] = NoJob]
      /\ wpc' = [wpc EXCEPT ![w] = "loop"]
      /\ executed' = [executed EXCEPT ![h] = executed[h] + 1]
  BY DEF FinishJob, Goto
<1>3. executed[h] = 0
  BY <1>1 DEF ExactlyOnce, TypeOK, Done
<1>4. TypeOK'
  BY <1>1, <1>2 DEF FinishJob, TypeOK, WorkerPC, clientVars
<1>5. Held' = Held \ {h}
  BY <1>1, <1>2, NoJobAssumption DEF Held, ExactlyOnce, TypeOK
<1>6. Done' = Done \cup {h}
  BY <1>1, <1>2, <1>3 DEF Done, TypeOK
<1>7. Queued' = Queued
  BY DEF FinishJob, Queued
<1>8. \A u, v \in Workers : job'[u] = job'[v] /\ job'[u] # NoJob => u = v
  BY <1>2 DEF ExactlyOnce, TypeOK
<1>9. \A j \in Jobs : executed'[j] <= 1
  BY <1>1, <1>2, <1>3 DEF ExactlyOnce, TypeOK
<1>10. ExactlyOnce'
  BY <1>1, <1>5, <1>6, <1>7, <1>8, <1>9 DEF FinishJob, ExactlyOnce, clientVars
<1>11. ExitInv' /\ DieInv' /\ JoinInv'
  BY <1>2, ThreadCountAssumption DEF FinishJob, ExitInv, DieInv, JoinInv, TypeOK, Workers, clientVars
<1> QED BY <1>4, <1>10, <1>11

LEMMA NextInv == IInv /\ [Next]_vars => IInv'
<1> SUFFICES ASSUME IInv, [Next]_vars PROVE IInv'
  OBVIOUS
<1>1. CASE \E j \in Jobs : Enqueue(j)
  BY <1>1, EnqueueStep
<1>2. CASE SignalWork \/ CallWait \/ SignalDeath \/ Nudge \/ Join \/ WaitReturns
  BY <1>2, ClientStep
<1>3. ASSUME NEW w \in Workers, Worker(w) PROVE IInv'
  BY <1>3, WorkerMoves, PopStep, FinishStep DEF Worker
<1>4. CASE UNCHANGED vars
  <2> USE <1>4 DEF vars, IInv
  <2>1. TypeOK'
    BY DEF TypeOK
  <2>2. ExactlyOnce'
    BY BookkeepingKeepsJobs DEF Bookkeeping
  <2>3. ExitInv' /\ DieInv' /\ JoinInv'
    BY DEF ExitInv, DieInv, JoinInv
  <2> QED BY <2>1, <2>2, <2>3
<1> QED BY <1>1, <1>2, <1>3, <1>4 DEF Next, Client, Terminated

-----------------------------------------------------------------------------
THEOREM Inductive == Spec => []IInv
<1> QED BY InitInv, NextInv, PTL DEF Spec

(* Every reachable state of the pool is well typed, and a worker holds a   *)
(* job exactly from the pop to the return of the function                  *)
(* (threadpool.h, PooledJobQueue).                                         *)
THEOREM TypeCorrect == Spec => []TypeOK
<1>1. IInv => TypeOK
  BY DEF IInv
<1> QED BY <1>1, Inductive, PTL

(* No enqueued job is lost or executed twice, for any number of workers    *)
(* (threadpool.h, enqueue and worker).                                     *)
THEOREM JobsExactlyOnce == Spec => []ExactlyOnce
<1>1. IInv => ExactlyOnce
  BY DEF IInv
<1> QED BY <1>1, Inductive, PTL

(* With every worker joined there is nothing left in the queue or in hand. *)
LEMMA DrainedAtEnd ==
  ASSUME IInv, joined = ThreadCount
  PROVE  Queued = {} /\ Held = {} /\ \A j \in submitted : executed[j] = 1
<1> USE DEF IInv
<1>1. \A w \in Workers : wpc[w] = "exited"
  BY DEF JoinInv, Workers
<1>2. 1 \in Workers
  BY ThreadCountAssumption DEF Workers
<1>3. queue = <<>>
  BY <1>1, <1>2 DEF ExitInv
<1>4. Queued = {} /\ Held = {}
  BY <1>1, <1>3 DEF Queued, Held, TypeOK
<1>5. ASSUME NEW j \in submitted PROVE executed[j] = 1
  <2>1. j \in Jobs /\ executed[j] > 0
    BY <1>4 DEF ExactlyOnce, Done
  <2> QED BY <2>1 DEF ExactlyOnce, TypeOK
<1> QED BY <1>4, <1>5

(* When wait() returns, everything that was enqueued has been executed     *)
(* (threadpool.h, wait).                                                   *)
THEOREM WaitReturnsDrained == Spec => []WaitDrains
<1>1. IInv => WaitDrains
  BY DrainedAtEnd DEF IInv, JoinInv, WaitDrains
<1> QED BY <1>1, Inductive, PTL

-----------------------------------------------------------------------------
(* What the steps of the pool look like to the client of JobPool. *)

LEMMA StatusKept ==
  ASSUME UNCHANGED <<job, submitted, executed>>
  PROVE  JobStatus' = JobStatus
BY DEF JobStatus, Held

LEMMA SubmitRefined ==
  ASSUME IInv, NEW j \in Jobs, Enqueue(j)
  PROVE  Pool!Submit(j)
<1>1. j \notin Held /\ executed[j] = 0 /\ j \notin submitted
  BY DEF Enqueue, IInv, TypeOK, ExactlyOnce, Done
<1>2. Held' = Held /\ executed' = executed /\ submitted' = submitted \cup {j}
  BY DEF Enqueue, Held
<1>3. JobStatus[j] = "new"
  BY <1>1 DEF JobStatus
<1>4. JobStatus' = [JobStatus EXCEPT ![j] = "pending"]
  <2> DEFINE after == [JobStatus EXCEPT ![j] = "pending"]
  <2>1. \A k \in Jobs : JobStatus'[k] = after[k]
    BY <1>1, <1>2 DEF JobStatus
  <2>2. JobStatus' = [k \in Jobs |-> JobStatus'[k]] /\ after = [k \in Jobs |-> after[k]]
    BY DEF JobStatus
  <2> QED BY <2>1, <2>2
<1>5. ClientStatus = "submitting" /\ ClientStatus' = "submitting"
  BY DEF Enqueue, ClientStatus
<1> QED BY <1>3, <1>4, <1>5 DEF Pool!Submit

LEMMA StartRefined ==
  ASSUME IInv, NEW w \in Workers, Pop(w)
  PROVE  Pool!Start(Head(queue))
<1> DEFINE h == Head(queue)
<1>1. h \in Jobs /\ h \in Queued
  BY HeadTailProperties DEF Pop, IInv, TypeOK, Queued
<1>2. job' = [job EXCEPT ![w] = h] /\ UNCHANGED <<submitted, executed, cpc>>
  BY DEF Pop, clientVars
<1>3. job[w] = NoJob
  BY DEF IInv, TypeOK, Pop
<1> HIDE DEF h
<1>4. h \in submitted /\ h \notin Held /\ executed[h] = 0
  BY <1>1 DEF IInv, ExactlyOnce, TypeOK, Done
<1>5. Held' = Held \cup {h}
  BY <1>1, <1>2, <1>3, NoJobAssumption DEF Held, IInv, TypeOK
<1>6. JobStatus[h] = "pending"
  BY <1>1, <1>4 DEF JobStatus
<1>7. JobStatus' = [JobStatus EXCEPT ![h] = "running"]
  <2> DEFINE after == [JobStatus EXCEPT ![h] = "running"]
  <2>1. \A k \in Jobs : JobStatus'[k] = after[k]
    BY <1>1, <1>2, <1>4, <1>5 DEF JobStatus
  <2>2. JobStatus' = [k \in Jobs |-> JobStatus'[k]] /\ after = [k \in Jobs |-> after[k]]
    BY DEF JobStatus
  <2> QED BY <2>1, <2>2
<1>8. ClientStatus' = ClientStatus
  BY <1>2 DEF ClientStatus
<1> QED BY <1>6, <1>7, <1>8 DEF Pool!Start, h

LEMMA FinishRefined ==
  ASSUME IInv, NEW w \in Workers, FinishJob(w)
  PROVE  Pool!Finish(job[w])
<1> DEFINE h == job[w]
<1>1. h \in Jobs /\ h \in Held
  BY NoJobAssumption DEF FinishJob, IInv, TypeOK, Held
<1>2. /\ job' = [job EXCEPT ![w] = NoJob]
      /\ executed' = [executed EXCEPT ![h] = executed[h] + 1]
      /\ UNCHANGED <<submitted, cpc>>
  BY DEF FinishJob, clientVars
<1>3. \A v \in Workers : job[v] = h => v = w
  BY <1>1, NoJobAssumption DEF IInv, ExactlyOnce
<1> HIDE DEF h
<1>4. executed[h] = 0 /\ executed'[h] > 0
  BY <1>1, <1>2 DEF IInv, ExactlyOnce, TypeOK, Done
<1>5. Held' = Held \ {h}
  <2>1. \A v \in Workers : v # w => job'[v] = job[v]
    BY <1>2 DEF IInv, TypeOK
  <2>2. job'[w] = NoJob /\ job[w] = h
    BY <1>2 DEF IInv, TypeOK, h
  <2> QED BY <1>3, <2>1, <2>2 DEF Held
<1>6. JobStatus[h] = "running"
  BY <1>1, <1>4 DEF JobStatus
<1>7. \A j \in Jobs : j # h => executed'[j] = executed[j]
  BY <1>2 DEF IInv, TypeOK
<1>8. JobStatus' = [JobStatus EXCEPT ![h] = "done"]
  BY <1>1, <1>2, <1>4, <1>5, <1>7 DEF JobStatus
<1>9. ClientStatus' = ClientStatus
  BY <1>2 DEF ClientStatus
<1> QED BY <1>6, <1>8, <1>9 DEF Pool!Finish, h

LEMMA StepRefined ==
  ASSUME IInv, [Next]_vars
  PROVE  [Pool!Next]_(Pool!vars)
<1> USE DEF Pool!vars
<1>1. CASE \E j \in Jobs : Enqueue(j)
  BY <1>1, SubmitRefined DEF Pool!Next
<1>2. CASE CallWait
  <2>1. ClientStatus = "submitting" /\ ClientStatus' = "waiting"
    BY <1>2 DEF CallWait, ClientStatus
  <2>2. JobStatus' = JobStatus
    BY <1>2, StatusKept DEF CallWait
  <2> QED BY <2>1, <2>2 DEF Pool!Next, Pool!CallWait
<1>3. CASE WaitReturns
  <2>1. ClientStatus = "waiting" /\ ClientStatus' = "returned"
    BY <1>3 DEF WaitReturns, ClientStatus
  <2>2. JobStatus' = JobStatus
    BY <1>3, StatusKept DEF WaitReturns
  <2>3. \A j \in Jobs : JobStatus[j] \in {"new", "done"}
    BY <1>3, DrainedAtEnd DEF WaitReturns, JobStatus
  <2> QED BY <2>1, <2>2, <2>3 DEF Pool!Next, Pool!WaitReturns
<1>4. CASE SignalWork \/ SignalDeath \/ Nudge \/ Join
  <2>1. JobStatus' = JobStatus
    BY <1>4, StatusKept DEF SignalWork, SignalDeath, Nudge, Join
  <2>2. ClientStatus' = ClientStatus
    BY <1>4 DEF SignalWork, SignalDeath, Nudge, Join, ClientStatus
  <2> QED BY <2>1, <2>2
<1>5. ASSUME NEW w \in Workers, Worker(w)
      PROVE  [Pool!Next]_(Pool!vars)
  <2>1. CASE Pop(w)
    <3> Head(queue) \in Jobs
      BY <2>1, HeadTailProperties DEF Pop, IInv, TypeOK
    <3> QED BY <2>1, StartRefined DEF Pool!Next
  <2>2. CASE FinishJob(w)
    <3> job[w] \in Jobs
      BY <2>2 DEF FinishJob, IInv, TypeOK
    <3> QED BY <2>2, FinishRefined DEF Pool!Next
  <2>3. CASE \/ ReadDie(w) \/ ReadEmpty(w) \/ Sleep(w) \/ Recheck(w)
            \/ Timeout(w) \/ LeaveWait(w) \/ SignalPopped(w)
    <3>1. UNCHANGED <<job, submitted, executed, cpc>>
      BY <2>3 DEF ReadDie, ReadEmpty, Sleep, Recheck, Timeout, LeaveWait, SignalPopped,
                  clientVars
    <3> QED BY <3>1, StatusKept DEF ClientStatus
  <2> QED BY <1>5, <2>1, <2>2, <2>3 DEF Worker
<1>6. CASE UNCHANGED vars
  BY <1>6, StatusKept DEF vars, ClientStatus
<1> QED BY <1>1, <1>2, <1>3, <1>4, <1>5, <1>6 DEF Next, Client, Terminated

(* The worker threads, the mutex and the condition variable together       *)
(* implement the abstract job pool, step by step (its fairness is left to  *)
(* the model checker) (threadpool.h, PooledJobQueue).                      *)
THEOREM PoolRefinement == Spec => Pool!Init /\ [][Pool!Next]_(Pool!vars)
<1>1. Init => Pool!Init
  BY NoJobAssumption DEF Init, Pool!Init, JobStatus, ClientStatus, Held
<1>2. IInv /\ [Next]_vars => [Pool!Next]_(Pool!vars)
  BY StepRefined
<1> QED BY <1>1, <1>2, Inductive, PTL DEF Spec
=============================================================================
