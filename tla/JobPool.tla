------------------------------- MODULE JobPool -------------------------------
(***************************************************************************)
(* What a job pool promises to the code that uses it                       *)
(* (util/threadpool.h, JobQueueThreadPool): every job handed to enqueue()  *)
(* is executed once, jobs may start at once and run side by side, and      *)
(* wait() comes back when there is nothing left to do, and does come back. *)
(***************************************************************************)
CONSTANT Jobs

VARIABLES
  status,  \* what became of each job
  client   \* where the thread that owns the pool is

vars == <<status, client>>

Init ==
  /\ status = [j \in Jobs |-> "new"]
  /\ client = "submitting"

Submit(j) ==
  /\ client = "submitting"
  /\ status[j] = "new"
  /\ status' = [status EXCEPT ![j] = "pending"]
  /\ UNCHANGED client

Start(j) ==
  /\ status[j] = "pending"
  /\ status' = [status EXCEPT ![j] = "running"]
  /\ UNCHANGED client

Finish(j) ==
  /\ status[j] = "running"
  /\ status' = [status EXCEPT ![j] = "done"]
  /\ UNCHANGED client

CallWait ==
  /\ client = "submitting"
  /\ client' = "waiting"
  /\ UNCHANGED status

WaitReturns ==
  /\ client = "waiting"
  /\ \A j \in Jobs : status[j] \in {"new", "done"}
  /\ client' = "returned"
  /\ UNCHANGED status

Next ==
  \/ \E j \in Jobs : Submit(j) \/ Start(j) \/ Finish(j)
  \/ CallWait
  \/ WaitReturns

(***************************************************************************)
(* The pool works off what it was given; the client owes it nothing.       *)
(***************************************************************************)
Fairness ==
  /\ \A j \in Jobs : WF_vars(Start(j)) /\ WF_vars(Finish(j))
  /\ WF_vars(WaitReturns)

Spec == Init /\ [][Next]_vars /\ Fairness
=============================================================================
