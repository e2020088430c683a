----------------------------- MODULE ThreadPool -----------------------------
(***************************************************************************)
(* PooledJobQueue of util/threadpool.h: worker threads around one queue,   *)
(* a mutex and a condition variable, and the thread that owns the pool.    *)
(*                                                                         *)
(* A critical section of _lock is one step: nothing but empty() in the     *)
(* worker's loop condition looks at the queue without the lock, and that   *)
(* is a step of its own here.  A thread is in the wait set of _signal when *)
(* its pc is "asleep".                                                     *)
(***************************************************************************)
EXTENDS Naturals, Sequences

CONSTANTS
  ThreadCount,  \* the threadCount_ the pool is built with
  Jobs,         \* the jobs the client may enqueue, each at most once
  NoJob         \* what a worker between two jobs holds

ASSUME ThreadCountAssumption == ThreadCount \in Nat \ {0}
ASSUME NoJobAssumption == NoJob \notin Jobs

Workers == 1..ThreadCount

VARIABLES
  queue,      \* _queue
  die,        \* _die
  wpc,        \* where each worker is in worker()
  job,        \* the local variable job of each worker
  cpc,        \* where the client is in enqueue() and wait()
  joined,     \* how many of _threads wait() has joined, in their order
  submitted,  \* the jobs enqueue() has been called with
  executed    \* how many times the function has returned for each job

clientVars == <<cpc, joined, submitted>>
vars == <<queue, die, wpc, job, cpc, joined, submitted, executed>>

WorkerPC == {"loop", "checking", "locking", "asleep", "woken", "leaving",
             "popped", "running", "exited"}
ClientPC == {"submitting", "signalling", "closing", "nudging", "joining", "returned"}

Init ==
  /\ queue = <<>>
  /\ die = FALSE
  /\ wpc = [w \in Workers |-> "loop"]
  /\ job = [w \in Workers |-> NoJob]
  /\ cpc = "submitting"
  /\ joined = 0
  /\ submitted = {}
  /\ executed = [j \in Jobs |-> 0]

-----------------------------------------------------------------------------
(***************************************************************************)
(* The condition variable.  pc is the program counters once the caller has *)
(* moved on: a notification wakes threads among those.                     *)
(***************************************************************************)
Asleep(pc) == {w \in Workers : pc[w] = "asleep"}

NotifyOne(pc) ==
  \/ /\ Asleep(pc) = {}
     /\ wpc' = pc
  \/ \E w \in Asleep(pc) : wpc' = [pc EXCEPT ![w] = "woken"]

NotifyAll(pc) ==
  wpc' = [w \in Workers |-> IF pc[w] = "asleep" THEN "woken" ELSE pc[w]]

-----------------------------------------------------------------------------
(* The client: enqueue() any number of times, then wait() or the destructor. *)

Enqueue(j) ==
  /\ cpc = "submitting"
  /\ j \notin submitted
  /\ queue' = Append(queue, j)
  /\ submitted' = submitted \cup {j}
  /\ cpc' = "signalling"
  /\ UNCHANGED <<die, wpc, job, joined, executed>>

SignalWork ==
  /\ cpc = "signalling"
  /\ NotifyOne(wpc)
  /\ cpc' = "submitting"
  /\ UNCHANGED <<queue, die, job, joined, submitted, executed>>

CallWait ==
  /\ cpc = "submitting"
  /\ die' = TRUE
  /\ cpc' = "closing"
  /\ UNCHANGED <<queue, wpc, job, joined, submitted, executed>>

SignalDeath ==
  /\ cpc = "closing"
  /\ NotifyAll(wpc)
  /\ cpc' = "nudging"
  /\ UNCHANGED <<queue, die, job, joined, submitted, executed>>

Nudge ==
  /\ cpc = "nudging"
  /\ joined < ThreadCount
  /\ NotifyAll(wpc)
  /\ cpc' = "joining"
  /\ UNCHANGED <<queue, die, job, joined, submitted, executed>>

Join ==
  /\ cpc = "joining"
  /\ wpc[joined + 1] = "exited"
  /\ joined' = joined + 1
  /\ cpc' = "nudging"
  /\ UNCHANGED <<queue, die, wpc, job, submitted, executed>>

WaitReturns ==
  /\ cpc = "nudging"
  /\ joined = ThreadCount
  /\ cpc' = "returned"
  /\ UNCHANGED <<queue, die, wpc, job, joined, submitted, executed>>

-----------------------------------------------------------------------------
(* worker() *)

Goto(w, pc) == wpc' = [wpc EXCEPT ![w] = pc]

(* The loop condition reads _die, and only when it is set the queue. *)
ReadDie(w) ==
  /\ wpc[w] = "loop"
  /\ Goto(w, IF die THEN "checking" ELSE "locking")
  /\ UNCHANGED <<queue, die, job, clientVars, executed>>

(* Mutant: a worker told to die does not look for remaining work. *)
ReadEmptyIgnored(w) ==
  /\ wpc[w] = "checking"
  /\ Goto(w, "exited")
  /\ UNCHANGED <<queue, die, job, clientVars, executed>>

ReadEmpty(w) ==
  /\ wpc[w] = "checking"
  /\ Goto(w, IF queue = <<>> THEN "exited" ELSE "locking")
  /\ UNCHANGED <<queue, die, job, clientVars, executed>>

Sleep(w) ==
  /\ wpc[w] = "locking"
  /\ queue = <<>>
  /\ Goto(w, "asleep")
  /\ UNCHANGED <<queue, die, job, clientVars, executed>>

(* A notified thread tests the predicate of wait_for and may sleep again. *)
Recheck(w) ==
  /\ wpc[w] = "woken"
  /\ Goto(w, IF queue = <<>> THEN "asleep" ELSE "leaving")
  /\ UNCHANGED <<queue, die, job, clientVars, executed>>

(* Mutant: wait() with the same predicate in place of wait_for(). *)
TimeoutNever(w) ==
  /\ wpc[w] = "asleep"
  /\ queue # <<>>
  /\ Goto(w, "leaving")
  /\ UNCHANGED <<queue, die, job, clientVars, executed>>

(* One second has passed: wait_for returns whatever the predicate says.  A *)
(* spurious wake-up is this step or no step at all.                        *)
Timeout(w) ==
  /\ wpc[w] = "asleep"
  /\ Goto(w, "leaving")
  /\ UNCHANGED <<queue, die, job, clientVars, executed>>

LeaveWait(w) ==
  /\ wpc[w] = "leaving"
  /\ NotifyOne([wpc EXCEPT ![w] = "loop"])
  /\ UNCHANGED <<queue, die, job, clientVars, executed>>

(* Mutant: the job is copied from the front of the queue and stays there. *)
PopKeepsFront(w) ==
  /\ wpc[w] = "locking"
  /\ queue # <<>>
  /\ job' = [job EXCEPT ![w] = Head(queue)]
  /\ Goto(w, "popped")
  /\ UNCHANGED <<queue, die, clientVars, executed>>

Pop(w) ==
  /\ wpc[w] = "locking"
  /\ queue # <<>>
  /\ job' = [job EXCEPT ![w] = Head(queue)]
  /\ queue' = Tail(queue)
  /\ Goto(w, "popped")
  /\ UNCHANGED <<die, clientVars, executed>>

SignalPopped(w) ==
  /\ wpc[w] = "popped"
  /\ NotifyOne([wpc EXCEPT ![w] = "running"])
  /\ UNCHANGED <<queue, die, job, clientVars, executed>>

FinishJob(w) ==
  /\ wpc[w] = "running"
  /\ executed' = [executed EXCEPT ![job[w]] = @ + 1]
  /\ job' = [job EXCEPT ![w] = NoJob]
  /\ Goto(w, "loop")
  /\ UNCHANGED <<queue, die, clientVars>>

-----------------------------------------------------------------------------
Client ==
  \/ \E j \in Jobs : Enqueue(j)
  \/ SignalWork \/ CallWait \/ SignalDeath \/ Nudge \/ Join \/ WaitReturns

Worker(w) ==
  \/ ReadDie(w) \/ ReadEmpty(w)
  \/ Sleep(w) \/ Recheck(w) \/ Timeout(w) \/ LeaveWait(w)
  \/ Pop(w) \/ SignalPopped(w) \/ FinishJob(w)

(* The pool is gone: the client went on without it. *)
Terminated == cpc = "returned" /\ UNCHANGED vars

Next == Client \/ (\E w \in Workers : Worker(w)) \/ Terminated

(***************************************************************************)
(* Every thread gets to run, a job's function returns, and the client goes *)
(* on once it is inside wait(); whether it ever calls wait() is its own    *)
(* affair.  There is no fairness between threads that want the lock.       *)
(***************************************************************************)
Fairness ==
  /\ \A w \in Workers : WF_vars(Worker(w))
  /\ WF_vars(SignalWork \/ SignalDeath \/ Nudge \/ Join \/ WaitReturns)

Spec == Init /\ [][Next]_vars /\ Fairness

-----------------------------------------------------------------------------
Queued == {queue[i] : i \in 1..Len(queue)}
Held == {job[w] : w \in Workers} \ {NoJob}
Done == {j \in Jobs : executed[j] > 0}

(* Every variable has its type, and a worker holds a job exactly from the *)
(* pop to the return of the function.                                     *)
TypeOK ==
  /\ queue \in Seq(Jobs)
  /\ die \in BOOLEAN
  /\ wpc \in [Workers -> WorkerPC]
  /\ job \in [Workers -> Jobs \cup {NoJob}]
  /\ cpc \in ClientPC
  /\ joined \in 0..ThreadCount
  /\ submitted \subseteq Jobs
  /\ executed \in [Jobs -> Nat]
  /\ \A w \in Workers : job[w] # NoJob <=> wpc[w] \in {"popped", "running"}

(***************************************************************************)
(* However workers, the client and notifications interleave, no enqueued   *)
(* job is lost and none is executed twice: it is in one place of the       *)
(* queue, or in the hands of one worker, or has been executed once.        *)
(* (threadpool.h, enqueue and worker)                                      *)
(***************************************************************************)
ExactlyOnce ==
  /\ submitted = Queued \cup Held \cup Done
  /\ Queued \cap Held = {} /\ Queued \cap Done = {} /\ Held \cap Done = {}
  /\ \A i, k \in 1..Len(queue) : queue[i] = queue[k] => i = k
  /\ \A v, w \in Workers : job[v] = job[w] /\ job[v] # NoJob => v = w
  /\ \A j \in Jobs : executed[j] <= 1

(***************************************************************************)
(* "Notify all workers to exit after doing the remaining work": when       *)
(* wait() has returned, every enqueued job has been executed, although a   *)
(* worker decides to exit from an unlocked read of the queue.              *)
(***************************************************************************)
WaitDrains == cpc = "returned" => \A j \in submitted : executed[j] = 1

(***************************************************************************)
(* The pool implements the abstract job pool, with its fairness: every job *)
(* that was given is done, and wait() comes back.  The condition           *)
(* variable's predicate does not look at _die, so it is the one-second     *)
(* timeout, not the notification, that gets an idle worker out of its      *)
(* sleep.                                                                  *)
(***************************************************************************)
JobStatus ==
  [j \in Jobs |-> IF executed[j] > 0 THEN "done"
                  ELSE IF j \in Held THEN "running"
                  ELSE IF j \in submitted THEN "pending" ELSE "new"]

ClientStatus ==
  CASE cpc \in {"submitting", "signalling"} -> "submitting"
    [] cpc = "returned" -> "returned"
    [] OTHER -> "waiting"

Pool == INSTANCE JobPool WITH status <- JobStatus, client <- ClientStatus

ImplementsPool == Pool!Spec
=============================================================================
