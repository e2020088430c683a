---------------------------- MODULE PipelineProofs ----------------------------
(***************************************************************************)
(* Theorems about Pipeline for any build, input, jar, source tree and any  *)
(* number of threads.  Each component's invariant is kept by its own steps *)
(* and by those of the others.                                             *)
(*   The logger: a call is only past aquireLock with the lock, and the log *)
(* is at the write what it was at the seek.                                *)
(*   The Java parser: a handler's flag is only set while a thread is       *)
(* between findFreeWorker and setFree with it.  A thread that looks for a  *)
(* handler is not, so the others, one fewer than there are handlers,       *)
(* cannot have taken all of them, whatever the race for a flag has done.   *)
(*   The indexer: a file that is to be in the index is there, under way,   *)
(* or below what the traversal has still to meet, and a path that is taken *)
(* from the list is replaced by what it holds.                             *)
(*   The search service: the thread that waits for an answer holds the     *)
(* mutex, so it is the only one, and its query or the answer to it is all  *)
(* that the two pipes hold.                                                *)
(*   Then the sources of the Java compilers are followed from the words of  *)
(* a call to their rows.  The log is the list of the actions of the calls  *)
(* that have written, one entry for each; the entries of a Java compiler   *)
(* have all its sources; parse() reads each of them, and a source that has *)
(* been read is in the queue, in the hands of a thread, or done.  The      *)
(* command of a gcc call is kept word by word.  Of a search, the matches   *)
(* are on the page that has the number of their directory.                 *)
(*   What a fold computes is proved along its trace, the states before and *)
(* after each element of the sequence.                                     *)
(***************************************************************************)
EXTENDS Pipeline, FiniteSetTheorems, SequenceTheorems, WellFoundedInduction, TLAPS

Locked == {"collect", "ask", "seek", "write", "unlock"}
CallPlaces == {"waiting", "lock", "running", "ended", "killed"} \cup Locked

LoggerTypes ==
  /\ callAt \in [Call -> CallPlaces]
  /\ plan = [c \in Call |-> plan[c]]

LockHeld == \A c \in Call : callAt[c] \in Locked => lock = c

(* What a call writes, and where, fits the log of that moment, although it
   was decided in an earlier step (writeActions). *)
PlanFitsLog == \A c \in Call : callAt[c] = "write" => plan[c] = writeActions(c)

PlanOfWriter == \A c \in Call : callAt[c] # "write" => plan[c] = NoPlan

LoggerInv == LoggerTypes /\ LockHeld /\ PlanFitsLog /\ PlanOfWriter

-----------------------------------------------------------------------------
(* The logger: each step keeps its invariant. *)
LEMMA LoggerInitInv == BuildInit => LoggerInv
BY DEF BuildInit, LoggerInv, LoggerTypes, LockHeld, PlanFitsLog, PlanOfWriter, CallPlaces, Locked

(* A call moves while the log, the lock and the plans stay. *)
LEMMA ProceedInv ==
  ASSUME LoggerInv, NEW c \in Call, NEW label \in CallPlaces \ {"write"},
         Proceed(c, label), callAt[c] # "write", UNCHANGED <<log, plan>>,
         lock' = lock \/ (lock' = NoCall /\ lock = c /\ label \notin Locked)
                      \/ (lock = NoCall /\ lock' = c),
         label \in Locked => lock' = c
  PROVE  LoggerInv'
<1>1. callAt' = [callAt EXCEPT ![c] = label]
  BY DEF Proceed
<1>2. LoggerTypes'
  BY <1>1 DEF LoggerInv, LoggerTypes
<1>3. LockHeld'
  BY <1>1, NoCallAssumption DEF LoggerInv, LoggerTypes, LockHeld
<1>4. \A d \in Call : plan'[d] = plan[d] /\ writeActions(d)' = writeActions(d)
  BY DEF writeActions
<1>5. PlanFitsLog' /\ PlanOfWriter'
  BY <1>1, <1>4 DEF LoggerInv, LoggerTypes, PlanFitsLog, PlanOfWriter, NoPlan
<1> QED BY <1>2, <1>3, <1>5 DEF LoggerInv

LEMMA SeekInv ==
  ASSUME LoggerInv, NEW c \in Call, Seek(c)
  PROVE  LoggerInv'
<1>1. /\ callAt[c] = "seek" /\ callAt' = [callAt EXCEPT ![c] = "write"]
      /\ plan' = [plan EXCEPT ![c] = writeActions(c)] /\ UNCHANGED <<log, lock>>
  BY DEF Seek, Proceed
<1>2. LoggerTypes'
  BY <1>1 DEF LoggerInv, LoggerTypes, CallPlaces, Locked
<1>3. LockHeld'
  BY <1>1 DEF LoggerInv, LoggerTypes, LockHeld, Locked
<1>4. \A d \in Call : writeActions(d)' = writeActions(d)
  BY <1>1 DEF writeActions
<1>5. plan'[c] = writeActions(c) /\ \A d \in Call \ {c} : plan'[d] = plan[d]
  BY <1>1 DEF LoggerInv, LoggerTypes
<1>6. callAt'[c] = "write" /\ \A d \in Call \ {c} : callAt'[d] = callAt[d]
  BY <1>1 DEF LoggerInv, LoggerTypes
<1>7. PlanFitsLog' /\ PlanOfWriter'
  BY <1>4, <1>5, <1>6 DEF LoggerInv, PlanFitsLog, PlanOfWriter, NoPlan
<1> QED BY <1>2, <1>3, <1>7 DEF LoggerInv

(* Whoever writes, or is killed at it, is the only one with a plan. *)
LEMMA WriterInv ==
  ASSUME LoggerInv, NEW c \in Call, NEW label \in CallPlaces \ {"write"},
         Proceed(c, label), plan' = [plan EXCEPT ![c] = NoPlan],
         callAt[c] = "write" \/ log' = log,
         lock' = lock \/ (lock' = NoCall /\ lock = c /\ label \notin Locked),
         label \in Locked => callAt[c] \in Locked /\ lock' = lock
  PROVE  LoggerInv'
<1>1. callAt' = [callAt EXCEPT ![c] = label]
  BY DEF Proceed
<1>2. LoggerTypes'
  BY <1>1 DEF LoggerInv, LoggerTypes
<1>3. LockHeld'
  BY <1>1, NoCallAssumption DEF LoggerInv, LoggerTypes, LockHeld
<1>4. callAt'[c] = label /\ \A d \in Call \ {c} : callAt'[d] = callAt[d] /\ plan'[d] = plan[d]
  BY <1>1 DEF LoggerInv, LoggerTypes
<1>5. plan'[c] = NoPlan
  BY DEF LoggerInv, LoggerTypes
<1>6. PlanOfWriter'
  BY <1>4, <1>5 DEF LoggerInv, PlanOfWriter, NoPlan
<1>7. PlanFitsLog'
  <2>1. CASE callAt[c] = "write"
    <3>1. \A d \in Call : callAt'[d] # "write"
      BY <1>4, <2>1 DEF LoggerInv, LockHeld, Locked
    <3> QED BY <3>1 DEF PlanFitsLog
  <2>2. CASE log' = log
    <3>1. \A d \in Call : writeActions(d)' = writeActions(d)
      BY <2>2 DEF writeActions
    <3> QED BY <1>4, <3>1 DEF LoggerInv, PlanFitsLog
  <2> QED BY <2>1, <2>2
<1> QED BY <1>2, <1>3, <1>6, <1>7 DEF LoggerInv

LEMMA LoggerStepInv ==
  ASSUME LoggerInv, NEW c \in Call, CallStep(c) \/ Kill(c)
  PROVE  LoggerInv'
<1>1. CASE MakeCall(c) \/ logExecFails(c) \/ ProgramEnds(c)
  <2>1. PICK label \in {"lock", "running", "ended"} : Proceed(c, label)
    BY <1>1 DEF MakeCall, logExecFails, ProgramEnds
  <2>2. callAt[c] # "write" /\ UNCHANGED <<log, lock, plan>>
    BY <1>1 DEF MakeCall, logExecFails, ProgramEnds
  <2> QED BY <2>1, <2>2, ProceedInv DEF CallPlaces, Locked
<1>2. CASE aquireLock(c)
  BY <1>2, ProceedInv DEF aquireLock, CallPlaces, Locked
<1>3. CASE Collect(c) \/ AskCompiler(c)
  <2>1. PICK label \in {"ask", "seek"} : Proceed(c, label)
    BY <1>3 DEF Collect, AskCompiler
  <2>2. callAt[c] \in {"collect", "ask"} /\ UNCHANGED <<log, lock, plan>>
    BY <1>3 DEF Collect, AskCompiler
  <2>3. lock = c
    BY <2>2 DEF LoggerInv, LockHeld, Locked
  <2> QED BY <2>1, <2>2, <2>3, ProceedInv DEF CallPlaces, Locked
<1>4. CASE Seek(c)
  BY <1>4, SeekInv
<1>5. CASE Write(c)
  BY <1>5, WriterInv DEF Write, CallPlaces, Locked
<1>6. CASE freeLock(c)
  <2>1. callAt[c] = "unlock" /\ lock = c
    BY <1>6 DEF freeLock, LoggerInv, LockHeld, Locked
  <2> QED BY <1>6, <2>1, ProceedInv DEF freeLock, CallPlaces, Locked
<1>7. CASE Kill(c)
  <2>1. callAt[c] = "write" \/ log' = log
    BY <1>7 DEF Kill, LoggerInv, PlanOfWriter, NoPlan
  <2>2. lock' = lock \/ (lock' = NoCall /\ lock = c)
    BY <1>7 DEF Kill
  <2> QED BY <1>7, <2>1, <2>2, WriterInv DEF Kill, CallPlaces, Locked
<1> QED BY <1>1, <1>2, <1>3, <1>4, <1>5, <1>6, <1>7 DEF CallStep

-----------------------------------------------------------------------------
(* The Java parser and its handlers. *)

Holding == {"call", "answer", "store", "push", "pushed", "free", "hung"}
Places == {"idle", "look", "reserve"} \cup Holding

JavaTypes ==
  /\ pc \in [Worker -> Places]
  /\ scan \in [Worker -> Handler]
  /\ held \in [Worker -> Handler \cup {0}]
  /\ reserved \in [Handler -> BOOLEAN]

Holders ==
  /\ \A w \in Worker : pc[w] \in Holding => held[w] \in Handler
  /\ \A h \in Handler : reserved[h] => \E w \in Worker : pc[w] \in Holding /\ held[w] = h

JavaInv == JavaTypes /\ Holders

-----------------------------------------------------------------------------
LEMMA Handlers ==
  /\ Cardinality(Worker) \in Nat \ {0}
  /\ IsFiniteSet(Handler)
  /\ Cardinality(Handler) = Cardinality(Worker)
  /\ 1 \in Handler
<1>1. Cardinality(Worker) \in Nat \ {0}
  BY WorkerAssumption, FS_CardinalityType, FS_EmptySet
<1>2. IsFiniteSet(Handler) /\ Cardinality(Handler) = Cardinality(Worker)
  BY <1>1, FS_Interval DEF Handler
<1> QED BY <1>1, <1>2 DEF Handler

LEMMA JavaInitInv == ASSUME NEW files, JavaInit(files) PROVE JavaInv
BY Handlers DEF JavaInit, JavaInv, JavaTypes, Holders, Places, Holding

(* A thread moves between two places with a handler, or two without. *)
LEMMA MoveInv ==
  ASSUME JavaInv, NEW w \in Worker, NEW label \in Places, Goto(w, label),
         pc[w] \in Holding <=> label \in Holding,
         scan' \in [Worker -> Handler], UNCHANGED <<held, reserved>>
  PROVE  JavaInv'
<1>1. JavaTypes'
  BY DEF JavaInv, JavaTypes, Goto
<1>2. \A v \in Worker : pc'[v] \in Holding <=> pc[v] \in Holding
  BY DEF JavaInv, JavaTypes, Goto
<1>3. Holders'
  BY <1>2 DEF JavaInv, Holders
<1> QED BY <1>1, <1>3 DEF JavaInv

LEMMA ReserveInv ==
  ASSUME JavaInv, NEW w \in Worker, Reserve(w)
  PROVE  JavaInv'
<1>1. JavaTypes'
  BY DEF JavaInv, JavaTypes, Reserve, Goto, Places, Holding
<1>2. pc[w] = "reserve" /\ pc'[w] = "call" /\ held'[w] = scan[w]
  BY DEF JavaInv, JavaTypes, Reserve, At, Goto
<1>3. \A v \in Worker \ {w} : pc'[v] = pc[v] /\ held'[v] = held[v]
  BY DEF JavaInv, JavaTypes, Reserve, Goto
<1>4. \A v \in Worker : pc'[v] \in Holding => held'[v] \in Handler
  BY <1>2, <1>3 DEF JavaInv, JavaTypes, Holders
<1>5. ASSUME NEW h \in Handler, reserved'[h]
      PROVE  \E v \in Worker : pc'[v] \in Holding /\ held'[v] = h
  <2>1. CASE h = scan[w]
    BY <2>1, <1>2 DEF Holding
  <2>2. CASE h # scan[w]
    <3>1. reserved[h]
      BY <1>5, <2>2 DEF JavaInv, JavaTypes, Reserve
    <3>2. PICK v \in Worker : pc[v] \in Holding /\ held[v] = h
      BY <3>1 DEF JavaInv, Holders
    <3>3. v # w
      BY <3>2, <1>2 DEF Holding
    <3> QED BY <3>2, <3>3, <1>3
  <2> QED BY <2>1, <2>2
<1> QED BY <1>1, <1>4, <1>5 DEF JavaInv, Holders

LEMMA SetFreeInv ==
  ASSUME JavaInv, NEW w \in Worker, setFree(w)
  PROVE  JavaInv'
<1>1. JavaTypes'
  BY DEF JavaInv, JavaTypes, setFree, Goto, Places
<1>2. pc'[w] = "idle"
  BY DEF JavaInv, JavaTypes, setFree, Goto
<1>3. \A v \in Worker \ {w} : pc'[v] = pc[v] /\ held'[v] = held[v]
  BY DEF JavaInv, JavaTypes, setFree, Goto
<1>4. \A v \in Worker : pc'[v] \in Holding => held'[v] \in Handler
  BY <1>2, <1>3 DEF JavaInv, Holders, Holding
<1>5. ASSUME NEW h \in Handler, reserved'[h]
      PROVE  \E v \in Worker : pc'[v] \in Holding /\ held'[v] = h
  <2>1. h # held[w] /\ reserved[h]
    BY <1>5 DEF JavaInv, JavaTypes, setFree
  <2>2. PICK v \in Worker : pc[v] \in Holding /\ held[v] = h
    BY <2>1 DEF JavaInv, Holders
  <2> QED BY <2>1, <2>2, <1>3
<1> QED BY <1>1, <1>4, <1>5 DEF JavaInv, Holders

-----------------------------------------------------------------------------
LEMMA WorkerInv ==
  ASSUME JavaInv, NEW w \in Worker, WorkerStep(w)
  PROVE  JavaInv'
<1> DEFINE Moves(label) == /\ Goto(w, label) /\ (pc[w] \in Holding <=> label \in Holding)
                           /\ label \in Places /\ UNCHANGED <<held, reserved>>
<1>1. CASE Take(w)
  <2>1. Moves("look") /\ scan' \in [Worker -> Handler]
    BY <1>1, Handlers DEF Take, At, JavaInv, JavaTypes, Holding, Places
  <2> QED BY <2>1, MoveInv DEF Places, Holding
<1>2. CASE Test(w)
  <2>1. PICK next \in AfterTest(w) : Goto(w, next.pc) /\ scan' = [scan EXCEPT ![w] = next.scan]
    BY <1>2 DEF Test
  <2>2. next.pc \in {"reserve", "look", "idle"} /\ next.scan \in Handler
    <3>1. scan[w] \in 1 .. Cardinality(Worker)
      BY DEF JavaInv, JavaTypes, Handler
    <3>2. scan[w] < Cardinality(Worker) => scan[w] + 1 \in Handler
      BY <3>1, Handlers DEF Handler
    <3> QED BY <3>1, <3>2, Handlers DEF AfterTest, Handler
  <2>3. Moves(next.pc)
    BY <1>2, <2>1, <2>2 DEF Test, At, Holding, Places
  <2>4. scan' \in [Worker -> Handler]
    BY <2>1, <2>2 DEF JavaInv, JavaTypes
  <2> QED BY <2>3, <2>4, MoveInv
<1>3. CASE Reserve(w)
  BY <1>3, ReserveInv
<1>4. CASE Send(w) \/ Hang(w) \/ addCompileCommand(w) \/ Push(w)
  <2>1. PICK label \in {"answer", "hung", "free", "pushed"} : Moves(label)
    BY <1>4 DEF Send, Hang, addCompileCommand, Push, At, Holding, Places
  <2>2. scan' \in [Worker -> Handler]
    BY <1>4 DEF Send, Hang, addCompileCommand, Push, JavaInv, JavaTypes
  <2> QED BY <2>1, <2>2, MoveInv DEF Places, Holding
<1>5. ASSUME NEW f \in JavaFile, Receive(w, f)
      PROVE  JavaInv'
  <2>1. PICK label \in {"free", "store", "push"} : Moves(label)
    BY <1>5 DEF Receive, At, Holding, Places
  <2>2. scan' \in [Worker -> Handler]
    BY <1>5 DEF Receive, JavaInv, JavaTypes
  <2> QED BY <2>1, <2>2, MoveInv DEF Places, Holding
<1>6. CASE Terminate(w)
  BY <1>6 DEF Terminate, pool, JavaInv, JavaTypes, Holders
<1>7. CASE Pushed(w)
  <2>1. Moves("free") /\ scan' \in [Worker -> Handler]
    BY <1>7 DEF Pushed, At, Holding, Places, JavaInv, JavaTypes
  <2> QED BY <2>1, MoveInv DEF Places, Holding
<1>8. CASE setFree(w)
  BY <1>8, SetFreeInv
<1> QED BY <1>1, <1>2, <1>3, <1>4, <1>5, <1>6, <1>7, <1>8 DEF WorkerStep

LEMMA JavaStepInv == ASSUME JavaInv, [JavaNext]_javaVars PROVE JavaInv'
<1>1. CASE ParseStep \/ ServerDies \/ UNCHANGED javaVars
  <2>1. UNCHANGED <<pc, scan, held, reserved>>
    BY <1>1 DEF ParseStep, parseCompileCommands, decompileJar, parseJar, Enqueue, PoolDone,
                ConnectFails, ServerDies, javaVars, pool
  <2> QED BY <2>1 DEF JavaInv, JavaTypes, Holders
<1>2. CASE \E w \in Worker : WorkerStep(w)
  BY <1>2, WorkerInv
<1> QED BY <1>1, <1>2 DEF JavaNext

-----------------------------------------------------------------------------
(* One thread fewer than there are handlers cannot hold all of them. *)
LEMMA FreeHandler == ASSUME JavaInv PROVE HandlerForEveryJob
<1> SUFFICES ASSUME NEW w \in Worker, pc[w] = "look", \A h \in Handler : reserved[h]
             PROVE  FALSE
  BY DEF HandlerForEveryJob, JavaInv, JavaTypes
<1> DEFINE Others == Worker \ {w}
           takenBy == [v \in Others |-> IF held[v] \in Handler THEN held[v] ELSE 1]
<1>1. IsFiniteSet(Others) /\ Cardinality(Others) = Cardinality(Worker) - 1
  BY WorkerAssumption, FS_RemoveElement
<1>2. takenBy \in [Others -> Handler]
  BY Handlers
<1>3. ASSUME NEW h \in Handler
      PROVE  \E v \in Others : takenBy[v] = h
  <2>1. PICK v \in Worker : pc[v] \in Holding /\ held[v] = h
    BY DEF JavaInv, Holders
  <2>2. v \in Others
    BY <2>1 DEF Holding
  <2> QED BY <2>1, <2>2
<1>4. takenBy \in Surjection(Others, Handler)
  BY <1>2, <1>3 DEF Surjection
<1>5. Cardinality(Handler) <= Cardinality(Others)
  <2> HIDE DEF Others, takenBy
  <2> QED BY <1>1, <1>4, FS_Surjection
<1> QED BY <1>1, <1>5, Handlers

(* A job that looks for a handler has one to find: the pool has as many
   handlers as threads, and a thread that looks has none (findFreeWorker). *)
THEOREM HandlerFree == JavaSpec => []HandlerForEveryJob
<1>1. (\E files \in Seq(JavaFile) : JavaInit(files)) => JavaInv
  BY JavaInitInv
<1>2. JavaInv /\ [JavaNext]_javaVars => JavaInv'
  BY JavaStepInv
<1>3. JavaInv => HandlerForEveryJob
  BY FreeHandler
<1> QED BY <1>1, <1>2, <1>3, PTL DEF JavaSpec

-----------------------------------------------------------------------------
(* The search service and its process. *)

ServiceTypes ==
  /\ threadAt \in [Thread -> {"idle", "lock", "send", "read"}]
  /\ query \in [Thread -> Query \cup {Nobody}]
  /\ answer \in [Thread -> Query \cup {Nobody}]

Owner == \A t \in Thread : threadAt[t] \in {"send", "read"} => mutex = t

Exchange ==
  /\ (\A t \in Thread : threadAt[t] # "read") => toApp = <<>> /\ fromApp = <<>>
  /\ \A t \in Thread : threadAt[t] = "read" =>
       \/ toApp = <<query[t]>> /\ fromApp = <<>>
       \/ toApp = <<>> /\ fromApp = <<query[t]>>

ServiceInv == ServiceTypes /\ Owner /\ Exchange /\ AnswersMatch

-----------------------------------------------------------------------------
LEMMA ServiceInitInv == ServiceInit => ServiceInv
BY DEF ServiceInit, ServiceInv, ServiceTypes, Owner, Exchange, AnswersMatch

LEMMA OneElement ==
  \A e : <<e>> # <<>> /\ Head(<<e>>) = e /\ Tail(<<e>>) = <<>> /\ Append(<<>>, e) = <<e>>
OBVIOUS

LEMMA SearchInv ==
  ASSUME ServiceInv, NEW t \in Thread, NEW q \in Query, Search(t, q)
  PROVE  ServiceInv'
<1>1. threadAt[t] = "idle" /\ threadAt'[t] = "lock" /\ query'[t] = q /\ answer'[t] = Nobody
  BY DEF Search, Move, ServiceInv, ServiceTypes
<1>2. \A v \in Thread \ {t} : threadAt'[v] = threadAt[v] /\ query'[v] = query[v] /\ answer'[v] = answer[v]
  BY DEF Search, Move, ServiceInv, ServiceTypes
<1>3. ServiceTypes'
  BY DEF Search, Move, ServiceInv, ServiceTypes
<1>4. UNCHANGED <<mutex, toApp, fromApp>>
  BY DEF Search
<1>5. Owner' /\ AnswersMatch'
  BY <1>1, <1>2, <1>4 DEF ServiceInv, Owner, AnswersMatch
<1>6. Exchange'
  BY <1>1, <1>2, <1>4 DEF ServiceInv, Exchange
<1> QED BY <1>3, <1>5, <1>6 DEF ServiceInv

LEMMA LockInv ==
  ASSUME ServiceInv, NEW t \in Thread, LockProcess(t)
  PROVE  ServiceInv'
<1>1. threadAt[t] = "lock" /\ threadAt'[t] = "send" /\ mutex' = t /\ mutex = NoThread
  BY DEF LockProcess, Move, ServiceInv, ServiceTypes
<1>2. \A v \in Thread \ {t} : threadAt'[v] = threadAt[v]
  BY DEF LockProcess, Move, ServiceInv, ServiceTypes
<1>3. \A v \in Thread : threadAt[v] \notin {"send", "read"}
  BY <1>1, NoThreadAssumption DEF ServiceInv, Owner
<1>4. UNCHANGED <<query, answer, toApp, fromApp>> /\ ServiceTypes'
  BY DEF LockProcess, Move, ServiceInv, ServiceTypes
<1>5. Owner' /\ AnswersMatch'
  BY <1>1, <1>2, <1>3, <1>4 DEF ServiceInv, Owner, AnswersMatch
<1>6. Exchange'
  BY <1>1, <1>2, <1>3, <1>4 DEF ServiceInv, Exchange
<1> QED BY <1>4, <1>5, <1>6 DEF ServiceInv

LEMMA SendInv ==
  ASSUME ServiceInv, NEW t \in Thread, SendQuery(t)
  PROVE  ServiceInv'
<1>1. UNCHANGED <<mutex, query, answer, fromApp>> /\ threadAt[t] = "send"
  BY DEF SendQuery
<1>2. \A v \in Thread : v # t => threadAt[v] \notin {"send", "read"}
  BY <1>1 DEF ServiceInv, Owner
<1>3. toApp = <<>> /\ fromApp = <<>>
  BY <1>1, <1>2 DEF ServiceInv, Exchange
<1>4. CASE app = "dead"
  BY <1>1, <1>4 DEF SendQuery, ServiceInv, ServiceTypes, Owner, Exchange, AnswersMatch
<1>5. CASE app # "dead"
  <2>1. threadAt' = [threadAt EXCEPT ![t] = "read"] /\ toApp' = <<query[t]>>
    BY <1>3, <1>5, OneElement DEF SendQuery, Move
  <2>2. ServiceTypes' /\ Owner' /\ AnswersMatch'
    BY <1>1, <2>1 DEF ServiceInv, ServiceTypes, Owner, AnswersMatch
  <2>3. Exchange'
    BY <1>1, <1>2, <1>3, <2>1 DEF ServiceInv, ServiceTypes, Exchange
  <2> QED BY <2>2, <2>3 DEF ServiceInv
<1> QED BY <1>4, <1>5

LEMMA ReadInv ==
  ASSUME ServiceInv, NEW t \in Thread, ReadAnswer(t)
  PROVE  ServiceInv'
<1>1. threadAt[t] = "read" /\ fromApp # <<>>
  BY DEF ReadAnswer
<1>2. \A v \in Thread : v # t => threadAt[v] \notin {"send", "read"}
  BY <1>1 DEF ServiceInv, Owner
<1>3. toApp = <<>> /\ fromApp = <<query[t]>>
  BY <1>1 DEF ServiceInv, Exchange
<1>4. /\ threadAt' = [threadAt EXCEPT ![t] = "idle"] /\ answer' = [answer EXCEPT ![t] = query[t]]
      /\ toApp' = <<>> /\ fromApp' = <<>> /\ query' = query
  BY <1>3, OneElement DEF ReadAnswer, Move
<1>5. ServiceTypes' /\ AnswersMatch'
  BY <1>4 DEF ServiceInv, ServiceTypes, AnswersMatch
<1>6. \A v \in Thread : threadAt'[v] \notin {"send", "read"}
  BY <1>2, <1>4 DEF ServiceInv, ServiceTypes
<1> QED BY <1>4, <1>5, <1>6 DEF ServiceInv, Owner, Exchange

LEMMA AppInv ==
  ASSUME ServiceInv, AppAnswers
  PROVE  ServiceInv'
<1>1. UNCHANGED <<mutex, threadAt, query, answer>> /\ toApp # <<>>
  BY DEF AppAnswers
<1>2. PICK t \in Thread : threadAt[t] = "read"
  BY <1>1 DEF ServiceInv, Exchange
<1>3. toApp = <<query[t]>> /\ fromApp = <<>>
  BY <1>1, <1>2 DEF ServiceInv, Exchange
<1>4. toApp' = <<>> /\ fromApp' = <<query[t]>>
  BY <1>3, OneElement DEF AppAnswers
<1>5. \A v \in Thread : threadAt[v] = "read" => v = t
  BY <1>2 DEF ServiceInv, Owner
<1>6. Exchange'
  BY <1>1, <1>2, <1>4, <1>5 DEF Exchange
<1> QED BY <1>1, <1>6 DEF ServiceInv, ServiceTypes, Owner, AnswersMatch

(* Every step of the service, whatever index its process opens. *)
LEMMA ServiceStepInv ==
  ASSUME ServiceInv, NEW opened, NEW nothing,
         ServiceNext(opened, nothing) \/ UNCHANGED serviceVars
  PROVE  ServiceInv'
<1>1. CASE StartServer \/ OpenIndex(opened, nothing) \/ AppDies \/ UNCHANGED serviceVars
  <2>1. UNCHANGED <<mutex, threadAt, query, answer, toApp, fromApp>>
    BY <1>1 DEF StartServer, OpenIndex, AppDies, serviceVars
  <2> QED BY <2>1 DEF ServiceInv, ServiceTypes, Owner, Exchange, AnswersMatch
<1>2. CASE AppAnswers
  BY <1>2, AppInv
<1>3. ASSUME NEW t \in Thread, ThreadStep(t)
      PROVE  ServiceInv'
  BY <1>3, LockInv, SendInv, ReadInv DEF ThreadStep
<1>4. ASSUME NEW t \in Thread, NEW q \in Query, Search(t, q)
      PROVE  ServiceInv'
  BY <1>4, SearchInv
<1> QED BY <1>1, <1>2, <1>3, <1>4 DEF ServiceNext
-----------------------------------------------------------------------------
(* The index of the search plugin. *)

(* What is below some paths. *)
LEMMA BelowNothing == Below({}) = {}
<1>1. {} \in SUBSET SourcePath /\ Closed({})
  BY DEF Closed
<1> QED BY <1>1 DEF Below

(* The traversal takes a path out of what is left, and puts in what is in it. *)
Inside(p) == IF p \in DOMAIN Children \ SkipDirectories THEN ToSet(Children[p]) ELSE {}

LEMMA BelowMore ==
  ASSUME NEW p \in SourcePath, NEW others \in SUBSET SourcePath
  PROVE  Below({p} \cup others) = {p} \cup Below(others \cup Inside(p))
<1> DEFINE more == Inside(p)
<1>1. p \in Below({p} \cup others)
  BY DEF Below
<1>2. ASSUME NEW x \in Below(others \cup more) PROVE x \in Below({p} \cup others)
  <2> SUFFICES ASSUME NEW T \in SUBSET SourcePath, {p} \cup others \subseteq T, Closed(T)
               PROVE  x \in T
    BY <1>2 DEF Below
  <2>1. more \subseteq T
    BY DEF Closed, Inside
  <2> QED BY <1>2, <2>1 DEF Below
<1>3. ASSUME NEW x \in Below({p} \cup others), x # p PROVE x \in Below(others \cup more)
  <2> SUFFICES ASSUME NEW T \in SUBSET SourcePath, others \cup more \subseteq T, Closed(T)
               PROVE  x \in T
    BY <1>3 DEF Below
  <2>1. T \cup {p} \in SUBSET SourcePath /\ {p} \cup others \subseteq T \cup {p}
    OBVIOUS
  <2>2. Closed(T \cup {p})
    BY DEF Closed, Inside
  <2>3. x \in T \cup {p}
    BY <1>3, <2>1, <2>2 DEF Below
  <2> QED BY <1>3, <2>3
<1> QED BY <1>1, <1>2, <1>3

LEMMA MembersOfBoth ==
  ASSUME NEW s \in Seq(SourcePath), NEW t \in Seq(SourcePath)
  PROVE  ToSet(s \o t) = ToSet(s) \cup ToSet(t)
<1>1. Len(s \o t) = Len(s) + Len(t) /\ DOMAIN (s \o t) = 1 .. Len(s) + Len(t)
  OBVIOUS
<1>2. ASSUME NEW i \in DOMAIN (s \o t) PROVE (s \o t)[i] \in ToSet(s) \cup ToSet(t)
  <2>1. CASE i <= Len(s)
    BY <1>1, <2>1 DEF ToSet
  <2>2. CASE ~(i <= Len(s))
    <3>1. (s \o t)[i] = t[i - Len(s)] /\ i - Len(s) \in DOMAIN t
      BY <1>1, <2>2
    <3> QED BY <3>1 DEF ToSet
  <2> QED BY <2>1, <2>2
<1>3. ASSUME NEW i \in DOMAIN s PROVE s[i] \in ToSet(s \o t)
  <2>1. i \in DOMAIN (s \o t) /\ (s \o t)[i] = s[i]
    BY <1>1
  <2> QED BY <2>1 DEF ToSet
<1>4. ASSUME NEW i \in DOMAIN t PROVE t[i] \in ToSet(s \o t)
  <2>1. i + Len(s) \in DOMAIN (s \o t) /\ (s \o t)[i + Len(s)] = t[i]
    BY <1>1
  <2> QED BY <2>1 DEF ToSet
<1> QED BY <1>2, <1>3, <1>4 DEF ToSet

(* Sequences of paths, and their members. *)
LEMMA MembersOfPaths ==
  ASSUME NEW s \in Seq(SourcePath)
  PROVE  /\ ToSet(s) \subseteq SourcePath
         /\ s # <<>> => /\ Head(s) \in SourcePath /\ Tail(s) \in Seq(SourcePath)
                        /\ ToSet(s) = {Head(s)} \cup ToSet(Tail(s))
         /\ s = <<>> => ToSet(s) = {}
<1>1. ToSet(s) \subseteq SourcePath
  BY DEF ToSet
<1>2. ASSUME s # <<>>
      PROVE  /\ Head(s) \in SourcePath /\ Tail(s) \in Seq(SourcePath)
             /\ ToSet(s) = {Head(s)} \cup ToSet(Tail(s))
  <2>1. /\ Head(s) \in SourcePath /\ Tail(s) \in Seq(SourcePath)
        /\ Len(s) > 0 /\ Len(Tail(s)) = Len(s) - 1
        /\ Head(s) = s[1] /\ \A i \in 1 .. Len(s) - 1 : Tail(s)[i] = s[i + 1]
    BY <1>2
  <2>2. ASSUME NEW i \in DOMAIN s PROVE s[i] \in {Head(s)} \cup ToSet(Tail(s))
    <3>1. CASE i = 1
      BY <2>1, <3>1
    <3>2. CASE i # 1
      <4>1. i - 1 \in 1 .. Len(s) - 1 /\ s[i] = Tail(s)[i - 1]
        BY <2>1, <3>2
      <4>2. i - 1 \in DOMAIN Tail(s)
        BY <2>1, <4>1
      <4> QED BY <4>1, <4>2 DEF ToSet
    <3> QED BY <3>1, <3>2
  <2>3. ASSUME NEW i \in DOMAIN Tail(s) PROVE Tail(s)[i] \in ToSet(s)
    <3>1. i + 1 \in DOMAIN s /\ Tail(s)[i] = s[i + 1]
      BY <2>1
    <3> QED BY <3>1 DEF ToSet
  <2>4. Head(s) \in ToSet(s)
    BY <2>1 DEF ToSet
  <2> QED BY <2>1, <2>2, <2>3, <2>4 DEF ToSet
<1>3. s = <<>> => ToSet(s) = {}
  BY DEF ToSet
<1> QED BY <1>1, <1>2, <1>3

(* The files that messages are about. *)
FilesIn(messages) ==
  {f \in SourcePath : \E k \in DOMAIN messages : messages[k].call = "indexFile" /\ messages[k].file = f}

Messages == [call : {"indexFile"}, file : SourcePath] \cup [call : {"buildSuggestions", "stop"}]

LEMMA FilesOfLonger ==
  ASSUME NEW s \in Seq(Messages), NEW m \in Messages
  PROVE  /\ Append(s, m) \in Seq(Messages) /\ Append(s, m) # <<>>
         /\ m.call = "indexFile" => FilesIn(Append(s, m)) = FilesIn(s) \cup {m.file}
         /\ m.call # "indexFile" => FilesIn(Append(s, m)) = FilesIn(s)
<1>1. /\ Append(s, m) \in Seq(Messages) /\ Append(s, m) # <<>>
      /\ DOMAIN Append(s, m) = DOMAIN s \cup {Len(s) + 1}
      /\ \A k \in DOMAIN s : Append(s, m)[k] = s[k]
      /\ Append(s, m)[Len(s) + 1] = m
  OBVIOUS
<1>2. m.call = "indexFile" => m.file \in SourcePath
  BY DEF Messages
<1> QED BY <1>1, <1>2 DEF FilesIn

LEMMA FilesOfTail ==
  ASSUME NEW s \in Seq(Messages), s # <<>>
  PROVE  /\ Head(s) \in Messages /\ Tail(s) \in Seq(Messages)
         /\ Head(s).call = "indexFile" => FilesIn(s) = FilesIn(Tail(s)) \cup {Head(s).file}
         /\ Head(s).call # "indexFile" => FilesIn(s) = FilesIn(Tail(s))
         /\ Len(s) = Len(Tail(s)) + 1
         /\ \A k \in DOMAIN Tail(s) : k + 1 \in DOMAIN s /\ Tail(s)[k] = s[k + 1]
<1>1. /\ Head(s) \in Messages /\ Tail(s) \in Seq(Messages)
      /\ Len(s) > 0 /\ Len(s) = Len(Tail(s)) + 1
      /\ Head(s) = s[1] /\ 1 \in DOMAIN s
  OBVIOUS
<1>2. \A k \in DOMAIN Tail(s) : k + 1 \in DOMAIN s /\ Tail(s)[k] = s[k + 1]
  BY <1>1
<1>3. ASSUME NEW k \in DOMAIN s, k # 1 PROVE k - 1 \in DOMAIN Tail(s) /\ s[k] = Tail(s)[k - 1]
  BY <1>1, <1>3
<1>4. Head(s).call = "indexFile" => Head(s).file \in SourcePath
  BY <1>1 DEF Messages
<1>5. ASSUME NEW f \in FilesIn(s) PROVE f \in FilesIn(Tail(s)) \/ (Head(s).call = "indexFile" /\ f = Head(s).file)
  BY <1>1, <1>3 DEF FilesIn
<1>6. FilesIn(Tail(s)) \subseteq FilesIn(s)
  BY <1>2 DEF FilesIn
<1>7. Head(s).call = "indexFile" => Head(s).file \in FilesIn(s)
  BY <1>1, <1>4 DEF FilesIn
<1> QED BY <1>1, <1>2, <1>5, <1>6, <1>7

LEMMA FilesOfNone == FilesIn(<<>>) = {} /\ <<>> \in Seq(Messages)
<1>1. <<>> \in Seq(Messages)
  OBVIOUS
<1> QED BY <1>1 DEF FilesIn

(* What is still to do, and what has been done. *)
Sent == FilesIn(pipe)
Stopping == {"join", "exited", "aborted"}
Visiting == {"visit", "answer", "stop", "join", "exited"}

IndexTypes ==
  /\ run \in {"create", "mark", "parse", "aborted"} \cup Visiting
  /\ indexer \in {"none", "starting", "serving", "closing", "ended", "died"}
  /\ todo \in Seq(SourcePath) /\ pipe \in Seq(Messages)

(* The row of a file is written before the message about it. *)
RowsFirst == Sent \cup tasks \cup docs \subseteq persisted

(* Nothing is sent after stop(), and what was sent before is served before. *)
StopIsLast ==
  /\ \A k \in DOMAIN pipe : pipe[k].call = "stop" => k = Len(pipe) /\ run \in Stopping
  /\ indexer \in {"closing", "ended"} => pipe = <<>> /\ run \in Stopping
  /\ indexer = "ended" => tasks = {} /\ index = docs
  /\ indexer = "died" => died
  /\ indexer \in {"none", "starting"} => tasks = {} /\ docs = {}

(* Every file is in the index, under way, or below what the traversal has left. *)
Accounted ==
  /\ run = "create" => indexer = "none"
  /\ ~dry /\ run \in {"create", "mark", "parse"} => pipe = <<>> /\ tasks = {} /\ docs = {}
  /\ ~dry /\ run \in Visiting \ {"visit"} => todo = <<>> /\ indexer # "none"
  /\ run = "exited" => ~isAlive
  /\ ~dry /\ ~died /\ indexer # "none" /\ run \in Visiting =>
       ToIndex(Under) = docs \cup ((tasks \cup Sent) \ Unreadable) \cup ToIndex(Below(ToSet(todo)))

IndexInv == IndexTypes /\ RowsFirst /\ StopIsLast /\ Accounted

LEMMA IndexInitInv == SearchInit => IndexInv
<1> SUFFICES ASSUME SearchInit PROVE IndexInv
  OBVIOUS
<1>1. pipe = <<>> /\ Sent = {} /\ todo = <<>> /\ <<>> \in Seq(SourcePath)
  BY FilesOfNone DEF SearchInit, Sent
<1>2. IndexTypes
  BY <1>1, FilesOfNone DEF SearchInit, IndexTypes
<1>3. RowsFirst
  BY <1>1 DEF SearchInit, RowsFirst
<1>4. StopIsLast
  BY <1>1 DEF SearchInit, StopIsLast
<1>5. Accounted
  BY <1>1 DEF SearchInit, Accounted, Visiting
<1> QED BY <1>2, <1>3, <1>4, <1>5 DEF IndexInv

-----------------------------------------------------------------------------
(* The parser before and after its traversal. *)
LEMMA StartInv ==
  ASSUME IndexInv, CreatePlugin \/ MarkModified
  PROVE  IndexInv'
<1> USE DEF IndexInv
<1>1. UNCHANGED <<dry, todo, persisted, pipe, tasks, docs, died, index>>
  BY DEF CreatePlugin, MarkModified, traversal, process, disk
<1>2. /\ run \in {"create", "mark"} /\ run' \in {"mark", "stop", "parse"}
      /\ run' = "stop" => dry
      /\ run = "create" => indexer' \in {"starting", "none"}
      /\ run = "mark" => indexer' = indexer
  BY DEF CreatePlugin, MarkModified, startIndexer, process
<1>3. Sent' = Sent
  BY <1>1 DEF Sent
<1>4. IndexTypes' /\ RowsFirst'
  BY <1>1, <1>2, <1>3 DEF IndexTypes, RowsFirst, Visiting
<1>5. StopIsLast'
  BY <1>1, <1>2 DEF StopIsLast, Stopping, Accounted
<1>6. Accounted'
  BY <1>1, <1>2 DEF Accounted, Visiting
<1> QED BY <1>4, <1>5, <1>6

LEMMA ParseInv ==
  ASSUME IndexInv, Parse
  PROVE  IndexInv'
<1> USE DEF IndexInv
<1>1. /\ run = "parse" /\ run' = "visit" /\ todo' = Inputs
      /\ UNCHANGED <<dry, persisted, indexer, pipe, tasks, docs, died>>
  BY DEF Parse, process
<1>2. Sent' = Sent
  BY <1>1 DEF Sent
<1>3. IndexTypes' /\ RowsFirst'
  BY <1>1, <1>2, InputsAssumption DEF IndexTypes, RowsFirst, Visiting
<1>4. StopIsLast'
  BY <1>1 DEF StopIsLast, Stopping
<1>5. Accounted'
  <2>1. ~dry => Sent = {} /\ tasks = {} /\ docs = {}
    BY <1>1, FilesOfNone DEF Accounted, Sent
  <2> QED BY <1>1, <1>2, <2>1 DEF Accounted, Visiting, Under
<1> QED BY <1>3, <1>4, <1>5

LEMMA PostParseInv ==
  ASSUME IndexInv, BuildSuggestions \/ GetAnswer \/ StopIndexer \/ Join
  PROVE  IndexInv'
<1> USE DEF IndexInv
<1>1. UNCHANGED <<dry, todo, persisted, indexer, tasks, docs, died, index>>
  BY DEF BuildSuggestions, GetAnswer, StopIndexer, Join, traversal, process, disk
<1>2. PICK call \in {"buildSuggestions", "stop"} :
        /\ pipe' \in {pipe, Append(pipe, [call |-> call])}
        /\ call = "stop" <=> StopIndexer
        /\ pipe' # pipe => isAlive
  BY DEF BuildSuggestions, GetAnswer, StopIndexer, Join, process
<1>3. [call |-> call] \in Messages /\ [call |-> call].call # "indexFile"
  BY DEF Messages
<1>4. pipe' \in Seq(Messages) /\ Sent' = Sent
  BY <1>2, <1>3, FilesOfLonger DEF IndexTypes, Sent
<1>5. /\ run \in {"visit", "answer", "stop", "join"}
      /\ run' \in {"answer", "stop", "join", "exited", "aborted"}
      /\ run = "visit" => todo = <<>> /\ (run' # "aborted" => isAlive)
      /\ run = "stop" <=> StopIndexer
      /\ StopIndexer => run' = "join"
      /\ run = "join" => run' = "exited" /\ ~isAlive /\ pipe' = pipe
      /\ run' = "exited" => run = "join"
  BY DEF BuildSuggestions, GetAnswer, StopIndexer, Join, process
<1>6. IndexTypes' /\ RowsFirst'
  BY <1>1, <1>4, <1>5 DEF IndexTypes, RowsFirst, Visiting
<1>7. StopIsLast'
  <2>1. \A k \in DOMAIN pipe : pipe[k].call = "stop" => k = Len(pipe) /\ run \in Stopping
    BY DEF StopIsLast
  <2>2. \A k \in DOMAIN pipe' : pipe'[k].call = "stop" => k = Len(pipe') /\ run' \in Stopping
    <3>1. CASE pipe' = pipe
      BY <1>5, <2>1, <3>1 DEF Stopping
    <3>2. CASE pipe' = Append(pipe, [call |-> call]) /\ pipe' # pipe
      <4>1. run \notin Stopping
        BY <1>5, <3>2 DEF Stopping
      <4>2. /\ DOMAIN pipe' = DOMAIN pipe \cup {Len(pipe')}
            /\ \A k \in DOMAIN pipe : pipe'[k] = pipe[k]
            /\ pipe'[Len(pipe')].call = call
        BY <3>2 DEF IndexTypes
      <4>3. call = "stop" => run' \in Stopping
        BY <1>2, <1>5 DEF Stopping
      <4>4. \A k \in DOMAIN pipe : pipe[k].call # "stop"
        BY <2>1, <4>1
      <4> QED BY <4>2, <4>3, <4>4
    <3> QED BY <1>2, <3>1, <3>2
  <2>3. indexer \in {"closing", "ended"} => pipe' = <<>> /\ run' \in Stopping
    BY <1>5 DEF StopIsLast, Stopping
  <2> QED BY <1>1, <2>2, <2>3 DEF StopIsLast
<1>8. Accounted'
  <2>1. isAlive' <=> isAlive
    BY <1>1 DEF isAlive
  <2>2. isAlive => indexer # "none"
    BY DEF isAlive
  <2> QED BY <1>1, <1>4, <1>5, <2>1, <2>2 DEF Accounted, Visiting
<1> QED BY <1>6, <1>7, <1>8

(* A step of the traversal. *)
LEMMA VisitInv ==
  ASSUME IndexInv, Visit
  PROVE  IndexInv'
<1> USE DEF IndexInv
<1> DEFINE p == Head(todo)
           into == IsDirectory(p) /\ indexer # "none" /\ p \notin SkipDirectories
           handled == indexer # "none" /\ ~IsDirectory(p) /\ shouldHandle(p)
           message == [call |-> "indexFile", file |-> p]
<1>1. /\ run = "visit" /\ todo # <<>>
      /\ todo' = IF into THEN Children[p] \o Tail(todo) ELSE Tail(todo)
      /\ persisted' = IF handled THEN persisted \cup {p} ELSE persisted
      /\ pipe' = IF handled /\ isAlive THEN Append(pipe, message) ELSE pipe
      /\ run' = IF handled /\ ~isAlive THEN "aborted" ELSE run
      /\ UNCHANGED <<dry, indexer, tasks, docs, died, index>>
  BY DEF Visit, AfterVisit, indexFile, disk
<1>2. /\ p \in SourcePath /\ Tail(todo) \in Seq(SourcePath)
      /\ ToSet(todo) = {p} \cup ToSet(Tail(todo)) /\ ToSet(Tail(todo)) \subseteq SourcePath
  <2>1. todo \in Seq(SourcePath)
    BY DEF IndexTypes
  <2>2. /\ p \in SourcePath /\ Tail(todo) \in Seq(SourcePath)
        /\ ToSet(todo) = {p} \cup ToSet(Tail(todo))
    BY <1>1, <2>1, MembersOfPaths
  <2> QED BY <2>2, MembersOfPaths
<1>3. into => Children[p] \in Seq(SourcePath)
  BY ChildrenAssumption DEF IsDirectory
<1>4. todo' \in Seq(SourcePath)
  BY <1>1, <1>2, <1>3
<1>5. indexer # "none" => Below(ToSet(todo)) = {p} \cup Below(ToSet(todo'))
  <2> SUFFICES ASSUME indexer # "none" PROVE Below(ToSet(todo)) = {p} \cup Below(ToSet(todo'))
    OBVIOUS
  <2>1. into <=> p \in DOMAIN Children \ SkipDirectories
    BY DEF IsDirectory
  <2>2. ToSet(todo') = ToSet(Tail(todo)) \cup Inside(p)
    <3>1. CASE into
      <4>1. Children[p] \in Seq(SourcePath)
        BY <1>3, <3>1
      <4>2. ToSet(Children[p] \o Tail(todo)) = ToSet(Children[p]) \cup ToSet(Tail(todo))
        BY <1>2, <4>1, MembersOfBoth
      <4> QED BY <1>1, <2>1, <3>1, <4>2 DEF Inside
    <3>2. CASE ~into
      BY <1>1, <2>1, <3>2 DEF Inside
    <3> QED BY <3>1, <3>2
  <2> HIDE DEF p, into
  <2>3. ToSet(Tail(todo)) \in SUBSET SourcePath
    BY <1>2
  <2>4. Below({p} \cup ToSet(Tail(todo))) = {p} \cup Below(ToSet(Tail(todo)) \cup Inside(p))
    BY <1>2, <2>3, BelowMore
  <2> QED BY <1>2, <2>2, <2>4
<1>6. message \in Messages /\ message.call = "indexFile" /\ message.file = p
  BY <1>2 DEF Messages
<1>7. /\ pipe' \in Seq(Messages)
      /\ Sent' = IF handled /\ isAlive THEN Sent \cup {p} ELSE Sent
  <2>1. CASE handled /\ isAlive
    BY <1>1, <1>6, <2>1, FilesOfLonger DEF IndexTypes, Sent
  <2>2. CASE ~(handled /\ isAlive)
    BY <1>1, <2>2 DEF IndexTypes, Sent
  <2> QED BY <2>1, <2>2
<1>8. handled <=> indexer # "none" /\ p \in ToIndex({p}) \cup Unreadable /\ ~IsDirectory(p) /\ shouldHandle(p)
  BY DEF ToIndex
<1> HIDE DEF p, into, message
<1>9. IndexTypes'
  BY <1>1, <1>4, <1>7 DEF IndexTypes, Visiting
<1>10. RowsFirst'
  BY <1>1, <1>7 DEF RowsFirst
<1>11. StopIsLast'
  <2>1. \A k \in DOMAIN pipe : pipe[k].call # "stop"
    BY <1>1 DEF StopIsLast, Stopping
  <2>2. \A k \in DOMAIN pipe' : pipe'[k].call # "stop"
    <3>1. CASE handled /\ isAlive
      <4>1. pipe' = Append(pipe, message) /\ pipe \in Seq(Messages)
        BY <1>1, <3>1 DEF IndexTypes
      <4>2. /\ DOMAIN pipe' = DOMAIN pipe \cup {Len(pipe) + 1}
            /\ \A k \in DOMAIN pipe : pipe'[k] = pipe[k]
            /\ pipe'[Len(pipe) + 1] = message
        BY <4>1
      <4> QED BY <1>6, <2>1, <4>2
    <3>2. CASE ~(handled /\ isAlive)
      BY <1>1, <2>1, <3>2
    <3> QED BY <3>1, <3>2
  <2>3. indexer \notin {"closing", "ended"}
    BY <1>1 DEF StopIsLast, Stopping
  <2> QED BY <1>1, <2>2, <2>3 DEF StopIsLast
<1>12. Accounted'
  <2>1. CASE handled /\ ~isAlive
    BY <1>1, <2>1 DEF Accounted, Visiting
  <2>2. CASE ~(handled /\ ~isAlive)
    <3> SUFFICES ASSUME ~dry, ~died, indexer # "none"
                 PROVE  ToIndex(Under) = docs \cup ((tasks \cup Sent') \ Unreadable) \cup ToIndex(Below(ToSet(todo')))
      BY <1>1, <2>2 DEF Accounted, Visiting
    <3>1. ToIndex(Under) = docs \cup ((tasks \cup Sent) \ Unreadable) \cup ToIndex({p} \cup Below(ToSet(todo')))
      BY <1>1, <1>5 DEF Accounted, Visiting
    <3>2. CASE handled
      <4>1. Sent' = Sent \cup {p}
        BY <1>7, <2>2, <3>2
      <4>2. ToIndex({p} \cup Below(ToSet(todo'))) = ({p} \ Unreadable) \cup ToIndex(Below(ToSet(todo')))
        BY <3>2 DEF ToIndex
      <4> QED BY <3>1, <4>1, <4>2
    <3>3. CASE ~handled
      <4>1. Sent' = Sent
        BY <1>7, <3>3
      <4>2. ToIndex({p} \cup Below(ToSet(todo'))) = ToIndex(Below(ToSet(todo')))
        BY <3>3 DEF ToIndex
      <4> QED BY <3>1, <4>1, <4>2
    <3> QED BY <3>2, <3>3
  <2> QED BY <2>1, <2>2
<1> QED BY <1>9, <1>10, <1>11, <1>12

-----------------------------------------------------------------------------
(* The indexer, and the end of either process. *)
LEMMA ServeInv ==
  ASSUME IndexInv, Serve
  PROVE  IndexInv'
<1> USE DEF IndexInv
<1> DEFINE message == Head(pipe)
<1>1. /\ indexer = "serving" /\ pipe # <<>> /\ pipe' = Tail(pipe)
      /\ tasks' = IF message.call = "indexFile" THEN tasks \cup {message.file} ELSE tasks
      /\ indexer' = IF message.call = "stop" THEN "closing" ELSE indexer
      /\ UNCHANGED <<run, dry, todo, persisted, docs, index, died>>
  BY DEF Serve, traversal
<1>2. /\ pipe' \in Seq(Messages) /\ message \in Messages
      /\ message.call = "indexFile" => Sent = Sent' \cup {message.file}
      /\ message.call # "indexFile" => Sent = Sent'
      /\ Len(pipe) = Len(pipe') + 1
      /\ \A k \in DOMAIN pipe' : k + 1 \in DOMAIN pipe /\ pipe'[k] = pipe[k + 1]
  BY <1>1, FilesOfTail DEF IndexTypes, Sent
<1>3. tasks' \cup Sent' = tasks \cup Sent
  BY <1>1, <1>2
<1>4. IndexTypes' /\ RowsFirst'
  BY <1>1, <1>2, <1>3 DEF IndexTypes, RowsFirst
<1>5. StopIsLast'
  <2>1. \A k \in DOMAIN pipe' : pipe'[k].call = "stop" => k = Len(pipe') /\ run \in Stopping
    BY <1>2 DEF StopIsLast, IndexTypes
  <2>2. message.call = "stop" => pipe' = <<>> /\ run \in Stopping
    <3>1. 1 \in DOMAIN pipe /\ message = pipe[1]
      BY <1>1 DEF IndexTypes
    <3>2. message.call = "stop" => Len(pipe') = 0 /\ run \in Stopping
      BY <1>2, <3>1 DEF StopIsLast
    <3> QED BY <1>2, <3>2
  <2> QED BY <1>1, <2>1, <2>2 DEF StopIsLast
<1>6. Accounted'
  <2>1. run = "exited" => ~isAlive
    BY DEF Accounted
  <2>2. isAlive
    BY <1>1 DEF isAlive
  <2>3. ~dry => run \notin {"create", "mark", "parse"}
    BY <1>1 DEF Accounted
  <2>4. run # "create"
    BY <1>1 DEF Accounted
  <2> QED BY <1>1, <1>3, <2>1, <2>2, <2>3, <2>4 DEF Accounted
<1> QED BY <1>4, <1>5, <1>6

LEMMA FileIndexerInv ==
  ASSUME IndexInv, NEW f \in tasks, FileIndexer(f)
  PROVE  IndexInv'
<1> USE DEF IndexInv
<1>1. /\ isAlive /\ tasks' = tasks \ {f}
      /\ docs' = IF f \in Unreadable THEN docs ELSE docs \cup {f}
      /\ UNCHANGED <<run, dry, todo, persisted, indexer, pipe, index, died>>
  BY DEF FileIndexer, insertDocumentToIndex, traversal, disk
<1>2. Sent' = Sent
  BY <1>1 DEF Sent
<1>3. IndexTypes' /\ RowsFirst'
  BY <1>1, <1>2 DEF IndexTypes, RowsFirst
<1>4. indexer \notin {"none", "starting", "ended"}
  BY DEF StopIsLast
<1>5. StopIsLast'
  BY <1>1, <1>4 DEF StopIsLast
<1>6. docs' \cup ((tasks' \cup Sent) \ Unreadable) = docs \cup ((tasks \cup Sent) \ Unreadable)
  BY <1>1
<1>7. Accounted'
  <2>1. ~dry => run \notin {"create", "mark", "parse"}
    BY DEF Accounted
  <2>2. isAlive' <=> isAlive
    BY <1>1 DEF isAlive
  <2> QED BY <1>1, <1>2, <1>6, <2>1, <2>2 DEF Accounted
<1> QED BY <1>3, <1>5, <1>7

LEMMA OtherIndexInv ==
  ASSUME IndexInv, Open \/ CloseIndexer \/ IndexerDies \/ KillParser
  PROVE  IndexInv'
<1> USE DEF IndexInv
<1>1. UNCHANGED <<dry, todo, persisted, pipe>>
  BY DEF Open, CloseIndexer, IndexerDies, KillParser, traversal, process
<1>2. Sent' = Sent
  BY <1>1 DEF Sent
<1>3. CASE Open
  <2>1. /\ indexer = "starting" /\ indexer' = "serving" /\ docs' = {} /\ docs = {} /\ tasks = {}
        /\ UNCHANGED <<run, tasks, died, index>>
    BY <1>3 DEF Open, disk, StopIsLast
  <2>2. IndexTypes' /\ RowsFirst' /\ StopIsLast'
    BY <1>1, <1>2, <2>1 DEF IndexTypes, RowsFirst, StopIsLast
  <2>3. Accounted'
    BY <1>1, <1>2, <2>1 DEF Accounted, isAlive
  <2> QED BY <2>2, <2>3
<1>4. CASE CloseIndexer
  <2>1. /\ indexer = "closing" /\ indexer' = "ended" /\ tasks = {} /\ index' = docs
        /\ UNCHANGED <<run, tasks, docs, died>>
    BY <1>4 DEF CloseIndexer
  <2>2. IndexTypes' /\ RowsFirst' /\ StopIsLast'
    BY <1>1, <1>2, <2>1 DEF IndexTypes, RowsFirst, StopIsLast
  <2>3. Accounted'
    BY <1>1, <1>2, <2>1 DEF Accounted, isAlive
  <2> QED BY <2>2, <2>3
<1>5. CASE IndexerDies
  <2>1. /\ isAlive /\ indexer' = "died" /\ tasks' = {} /\ died'
        /\ UNCHANGED <<run, docs, index>>
    BY <1>5 DEF IndexerDies, disk
  <2>2. IndexTypes' /\ RowsFirst' /\ StopIsLast'
    BY <1>1, <1>2, <2>1 DEF IndexTypes, RowsFirst, StopIsLast
  <2>3. indexer # "none"
    BY <2>1 DEF isAlive
  <2>4. Accounted'
    BY <1>1, <1>2, <2>1, <2>3 DEF Accounted, isAlive
  <2> QED BY <2>2, <2>4
<1>6. CASE KillParser
  <2>1. /\ run' = "aborted" /\ UNCHANGED <<indexer, tasks, docs, died, index>>
    BY <1>6 DEF KillParser, process, disk
  <2>2. IndexTypes' /\ RowsFirst' /\ StopIsLast'
    BY <1>1, <1>2, <2>1 DEF IndexTypes, RowsFirst, StopIsLast, Stopping
  <2>3. Accounted'
    BY <2>1 DEF Accounted, Visiting
  <2> QED BY <2>2, <2>3
<1> QED BY <1>3, <1>4, <1>5, <1>6

LEMMA IndexUnchangedInv ==
  ASSUME IndexInv, UNCHANGED searchVars
  PROVE  IndexInv'
<1> USE DEF IndexInv, searchVars
<1>1. Sent' = Sent
  BY DEF Sent
<1>2. IndexTypes' /\ RowsFirst' /\ StopIsLast'
  BY <1>1 DEF IndexTypes, RowsFirst, StopIsLast
<1>3. Accounted'
  BY <1>1 DEF Accounted, isAlive
<1> QED BY <1>2, <1>3

LEMMA IndexStepInv == ASSUME IndexInv, [IndexNext]_searchVars PROVE IndexInv'
<1>1. CASE ParserStep
  BY <1>1, StartInv, ParseInv, VisitInv, PostParseInv DEF ParserStep
<1>2. CASE IndexerStep
  BY <1>2, ServeInv, FileIndexerInv, OtherIndexInv DEF IndexerStep
<1>3. CASE KillParser \/ IndexerDies \/ Orphaned
  BY <1>3, OtherIndexInv DEF Orphaned
<1> QED BY <1>1, <1>2, <1>3, IndexUnchangedInv DEF IndexNext

LEMMA IndexIsRight == IndexInv => IndexMatchesFiles
<1> SUFFICES ASSUME IndexInv PROVE IndexMatchesFiles
  OBVIOUS
<1>1. docs \cup tasks \subseteq persisted
  BY DEF IndexInv, RowsFirst
<1>2. ASSUME run = "exited", ~dry, ~died PROVE index = ToIndex(Under)
  <2>1. todo = <<>> /\ indexer # "none" /\ ~isAlive
    BY <1>2 DEF IndexInv, Accounted, Visiting
  <2>2. indexer = "ended"
    BY <1>2, <2>1 DEF IndexInv, IndexTypes, StopIsLast, isAlive
  <2>3. pipe = <<>> /\ tasks = {} /\ index = docs
    BY <2>2 DEF IndexInv, StopIsLast
  <2>4. Sent = {} /\ ToIndex(Below(ToSet(todo))) = {}
    BY <2>1, <2>3, FilesOfNone, BelowNothing DEF Sent, ToSet, ToIndex
  <2> QED BY <1>2, <2>1, <2>3, <2>4 DEF IndexInv, Accounted, Visiting
<1> QED BY <1>1, <1>2 DEF IndexMatchesFiles
-----------------------------------------------------------------------------
PipelineInv == LoggerInv /\ JavaInv /\ IndexInv /\ ServiceInv

LEMMA PipelineInitInv == Init => PipelineInv
BY LoggerInitInv, JavaInitInv, IndexInitInv, ServiceInitInv DEF Init, PipelineInv

LEMMA OthersKeep ==
  /\ LoggerInv  /\ UNCHANGED buildVars   => LoggerInv'
  /\ JavaInv    /\ UNCHANGED javaVars    => JavaInv'
  /\ IndexInv   /\ UNCHANGED searchVars  => IndexInv'
  /\ ServiceInv /\ UNCHANGED serviceVars => ServiceInv'
<1>1. LoggerInv /\ UNCHANGED buildVars => LoggerInv'
  BY DEF LoggerInv, LoggerTypes, LockHeld, PlanFitsLog, PlanOfWriter, buildVars, writeActions
<1>2. JavaInv /\ UNCHANGED javaVars => JavaInv'
  BY JavaStepInv
<1>3. ServiceInv /\ UNCHANGED serviceVars => ServiceInv'
  BY DEF serviceVars, ServiceInv, ServiceTypes, Owner, Exchange, AnswersMatch
<1>4. IndexInv /\ UNCHANGED searchVars => IndexInv'
  BY IndexUnchangedInv
<1> QED BY <1>1, <1>2, <1>3, <1>4

LEMMA StartParseInv == ASSUME PipelineInv, StartParse PROVE PipelineInv'
<1>1. LoggerInv'
  <2>1. UNCHANGED <<log, lock, plan>> /\ callAt' = [c \in Call |-> "ended"]
    BY DEF StartParse
  <2>2. \A c \in Call : callAt[c] # "write"
    BY DEF StartParse, BuildEnded
  <2> QED BY <2>1, <2>2 DEF PipelineInv, LoggerInv, LoggerTypes, LockHeld, PlanFitsLog, PlanOfWriter,
                            CallPlaces, Locked
<1>2. UNCHANGED <<pc, scan, held, reserved>> /\ UNCHANGED serviceVars /\ UNCHANGED searchVars
  BY DEF StartParse, pool
<1>3. JavaInv'
  BY <1>2 DEF PipelineInv, JavaInv, JavaTypes, Holders
<1> QED BY <1>1, <1>2, <1>3, OthersKeep DEF PipelineInv

LEMMA PipelineStepInv == PipelineInv /\ [Next]_vars => PipelineInv'
<1> SUFFICES ASSUME PipelineInv, [Next]_vars PROVE PipelineInv'
  OBVIOUS
<1>1. CASE BuildStep
  <2>1. LoggerInv'
    BY <1>1, LoggerStepInv DEF BuildStep, PipelineInv
  <2> QED BY <1>1, <2>1, OthersKeep DEF BuildStep, PipelineInv
<1>2. CASE StartParse
  BY <1>2, StartParseInv
<1>3. CASE JavaStep
  <2>1. JavaInv'
    BY <1>3, JavaStepInv DEF JavaStep, PipelineInv
  <2> QED BY <1>3, <2>1, OthersKeep DEF JavaStep, PipelineInv
<1>4. CASE IndexStep
  <2>1. IndexInv'
    BY <1>4, IndexStepInv DEF IndexStep, PipelineInv
  <2> QED BY <1>4, <2>1, OthersKeep DEF IndexStep, PipelineInv
<1>6. CASE StartServing \/ Terminating \/ UNCHANGED vars
  <2>1. UNCHANGED <<buildVars, javaVars, searchVars, serviceVars>>
    BY <1>6 DEF StartServing, Terminating, vars
  <2> QED BY <2>1, OthersKeep DEF PipelineInv
<1>5. CASE ServiceStep
  <2>1. ServiceInv'
    BY <1>5, ServiceStepInv DEF ServiceStep, PipelineInv
  <2> QED BY <1>5, <2>1, OthersKeep DEF ServiceStep, PipelineInv
<1> QED BY <1>1, <1>2, <1>3, <1>4, <1>5, <1>6 DEF Next

LEMMA PipelineInvariant == Spec => []PipelineInv
<1> QED BY PipelineInitInv, PipelineStepInv, PTL DEF Spec

-----------------------------------------------------------------------------
(* A thread of the Java parser's pools that looks for a connection has one to
   find, also when two have taken the same (findFreeWorker). *)
THEOREM HandlerAlwaysFree == Spec => []HandlerForEveryJob
<1>1. PipelineInv => HandlerForEveryJob
  BY FreeHandler DEF PipelineInv
<1> QED BY <1>1, PipelineInvariant, PTL

(* However many threads of the server ask the one Java process, each gets the
   answer to its own query (ServiceProcess, _javaProcessMutex). *)
THEOREM AnswersAlwaysMatch == Spec => []AnswersMatch
<1>1. PipelineInv => AnswersMatch
  BY DEF PipelineInv, ServiceInv
<1> QED BY <1>1, PipelineInvariant, PTL

(* The end of the log that a call has sought, and what it has decided to put
   there, are right at the write: no other call has written between, and a
   call that is killed gives up its plan with its lock (logExec). *)
THEOREM PlanAlwaysFits == Spec => [](LockHeld /\ PlanFitsLog)
<1>1. PipelineInv => LockHeld /\ PlanFitsLog
  BY DEF PipelineInv, LoggerInv
<1> QED BY <1>1, PipelineInvariant, PTL

(* A parse that ends, with an indexer that has lived to its end, leaves an
   index of exactly the text files below its inputs: nothing is sent after
   stop(), nothing that was sent is left when the writer commits, and every
   file had its row before the message about it (searchparser.cpp, parse and
   postParse; indexerprocess.cpp; the indexer's stop). *)
THEOREM IndexIsComplete == Spec => []IndexMatchesFiles
<1>1. PipelineInv => IndexMatchesFiles
  BY IndexIsRight DEF PipelineInv
<1> QED BY <1>1, PipelineInvariant, PTL

-----------------------------------------------------------------------------
(* Induction over the numbers, and what a fold over a sequence computes: the
   states before and after each element. *)

(* A set of numbers has a least one: its segments are well-founded. *)
LEMMA LeastNumber ==
  ASSUME NEW T \in SUBSET Nat, T # {}
  PROVE  \E m \in T : \A k \in T : m <= k
<1> DEFINE Segments == {0 .. n : n \in T}
<1>1. Segments \subseteq FiniteSubsetsOf(Nat) /\ Segments # {}
  <2>1. ASSUME NEW n \in T PROVE 0 .. n \in FiniteSubsetsOf(Nat)
    BY FS_Interval DEF FiniteSubsetsOf
  <2> QED BY <2>1
<1>2. PICK t \in Segments : \A u \in Segments : ~(<<u, t>> \in StrictSubsetOrdering(Nat))
  <2> HIDE DEF Segments
  <2> QED BY <1>1, FS_StrictSubsetOrderingWellFounded, WFMin
<1>3. PICK m \in T : t = 0 .. m
  BY <1>2
<1>4. ASSUME NEW k \in T, k < m PROVE FALSE
  <2>1. 0 .. k \subseteq 0 .. m /\ 0 .. k # 0 .. m
    BY <1>4
  <2>2. <<0 .. k, t>> \in StrictSubsetOrdering(Nat)
    BY <1>3, <2>1 DEF StrictSubsetOrdering
  <2> QED BY <1>2, <2>2
<1> QED BY <1>3, <1>4

(* Induction, for a set: the least number outside would be the successor of
   one inside. *)
LEMMA NatByStep ==
  ASSUME NEW T, 0 \in T, \A n \in Nat : n \in T => n + 1 \in T
  PROVE  Nat \subseteq T
<1> SUFFICES ASSUME Nat \ T # {} PROVE FALSE
  OBVIOUS
<1>1. PICK m \in Nat \ T : \A k \in Nat \ T : m <= k
  BY LeastNumber
<1>2. m # 0 /\ m - 1 \in Nat /\ m - 1 \in T
  BY <1>1
<1> QED BY <1>1, <1>2

(* The fold of a sequence goes through sets of numbers by their greatest. *)
LEMMA MaxOfNumbers ==
  ASSUME NEW n \in Nat, NEW s \in SUBSET (1 .. n), s # {}
  PROVE  Max(s) \in s /\ \A y \in s : Max(s) >= y
<1> DEFINE bounds == {m \in Nat : \A y \in s : y <= m}
<1>1. n \in bounds
  OBVIOUS
<1>2. PICK m \in bounds : \A k \in bounds : m <= k
  <2> bounds \in SUBSET Nat
    OBVIOUS
  <2> HIDE DEF bounds
  <2> QED BY <1>1, LeastNumber
<1>3. m \in s
  <2> SUFFICES ASSUME m \notin s PROVE FALSE
    OBVIOUS
  <2>1. \A y \in s : y < m /\ y \in Nat
    BY <1>2
  <2>3. m \in Nat /\ \E y \in s : 0 < y
    <3>1. PICK y \in s : TRUE
      OBVIOUS
    <3>2. 0 < y
      OBVIOUS
    <3>3. m \in Nat
      BY <1>2
    <3> QED BY <3>2, <3>3
  <2>4. m - 1 \in Nat /\ \A y \in s : y <= m - 1
    BY <2>1, <2>3
  <2>2. m - 1 \in bounds
    BY <2>4
  <2> QED BY <1>2, <2>2
<1>4. \E x \in s : \A y \in s : x >= y
  BY <1>2, <1>3
<1> QED BY <1>4 DEF Max

LEMMA FirstNumbers ==
  ASSUME NEW n \in Nat, NEW k \in 1 .. n
  PROVE  /\ 1 .. k \in SUBSET (1 .. n) /\ 1 .. k # {}
         /\ Max(1 .. k) = k /\ (1 .. k) \ {k} = 1 .. k - 1 /\ k - 1 \in 0 .. n
<1>1. 1 .. k \subseteq 1 .. n /\ (1 .. k) \ {k} = 1 .. k - 1 /\ k - 1 \in 0 .. n
  OBVIOUS
<1>2. k \in 1 .. k
  OBVIOUS
<1>3. 1 .. k # {}
  BY <1>2
<1>4. Max(1 .. k) \in 1 .. k /\ Max(1 .. k) >= k
  BY <1>1, <1>2, <1>3, MaxOfNumbers
<1> QED BY <1>1, <1>3, <1>4

(* f folds the numbered steps g from base, over the numbers of each set. *)
IsFold(f, n, base, g) ==
  \A s \in SUBSET (1 .. n) : f[s] = IF s = {} THEN base ELSE g[Max(s)][f[s \ {Max(s)}]]

(* A fold over numbered steps exists: it is extended one number at a time. *)
LEMMA FoldExists ==
  ASSUME NEW n \in Nat, NEW S, NEW base \in S, NEW g \in [1 .. n -> [S -> S]]
  PROVE  \E f \in [SUBSET (1 .. n) -> S] : IsFold(f, n, base, g)
<1> DEFINE Has(k) == \E f \in [SUBSET (1 .. k) -> S] : IsFold(f, k, base, g)
           T == {k \in Nat : k <= n => Has(k)}
<1>1. 0 \in T
  <2>1. [s \in SUBSET (1 .. 0) |-> base] \in [SUBSET (1 .. 0) -> S]
    OBVIOUS
  <2>2. IsFold([s \in SUBSET (1 .. 0) |-> base], 0, base, g)
    BY DEF IsFold
  <2>3. Has(0)
    BY <2>1, <2>2
  <2> HIDE DEF Has
  <2> QED BY <2>3
<1>2. ASSUME NEW k \in Nat, k \in T PROVE k + 1 \in T
  <2> SUFFICES ASSUME k + 1 <= n PROVE Has(k + 1)
    <3> HIDE DEF Has
    <3> QED OBVIOUS
  <2>1. Has(k)
    <3> HIDE DEF Has
    <3> QED BY <1>2
  <2>11. PICK f \in [SUBSET (1 .. k) -> S] : IsFold(f, k, base, g)
    BY <2>1
  <2> DEFINE h == [s \in SUBSET (1 .. k + 1) |->
                    IF k + 1 \in s THEN g[k + 1][f[s \ {k + 1}]] ELSE f[s]]
  <2>2. \A s \in SUBSET (1 .. k + 1) : s \ {k + 1} \in SUBSET (1 .. k)
    OBVIOUS
  <2>3. h \in [SUBSET (1 .. k + 1) -> S]
    <3>1. ASSUME NEW s \in SUBSET (1 .. k + 1) PROVE h[s] \in S
      <4>1. k + 1 \in 1 .. n /\ f[s \ {k + 1}] \in S
        BY <2>11, <2>2
      <4>2. g[k + 1][f[s \ {k + 1}]] \in S
        BY <4>1
      <4>3. k + 1 \notin s => f[s] \in S
        BY <2>11
      <4> QED BY <4>2, <4>3
    <3> QED BY <3>1
  <2>4. ASSUME NEW s \in SUBSET (1 .. k + 1)
        PROVE  h[s] = IF s = {} THEN base ELSE g[Max(s)][h[s \ {Max(s)}]]
    <3>1. CASE k + 1 \in s
      <4>1. Max(s) = k + 1
        <5>1. Max(s) \in s /\ \A y \in s : Max(s) >= y
          BY <3>1, MaxOfNumbers, k + 1 \in Nat
        <5>2. Max(s) \in 1 .. k + 1
          BY <5>1
        <5> HIDE DEF h
        <5> QED BY <3>1, <5>1, <5>2
      <4>2. h[s \ {k + 1}] = f[s \ {k + 1}]
        BY <2>2
      <4> QED BY <3>1, <4>1, <4>2
    <3>2. CASE k + 1 \notin s
      <4>1. s \in SUBSET (1 .. k) /\ h[s] = f[s]
        BY <3>2
      <4>2. s # {} => h[s \ {Max(s)}] = f[s \ {Max(s)}]
        BY <3>2
      <4> QED BY <2>11, <4>1, <4>2 DEF IsFold
    <3> QED BY <3>1, <3>2
  <2> HIDE DEF h
  <2>5. IsFold(h, k + 1, base, g)
    BY <2>4 DEF IsFold
  <2> QED BY <2>3, <2>5
<1>3. n \in T
  <2> HIDE DEF T
  <2> QED BY <1>1, <1>2, NatByStep
<1>4. Has(n)
  <2> HIDE DEF Has
  <2> QED BY <1>3
<1> QED BY <1>4

(* The same with the steps as a function of the set. *)
Folds(iter, n, base, step) ==
  iter = [s \in SUBSET (1 .. n) |-> IF s = {} THEN base ELSE step[s]]

(* What a fold has made of the first k numbers stays where its steps do. *)
LEMMA FoldStays ==
  ASSUME NEW n \in Nat, NEW S, NEW base \in S, NEW step, NEW iter,
         Folds(iter, n, base, step),
         \A k \in 1 .. n : iter[1 .. k - 1] \in S => step[1 .. k] \in S
  PROVE  /\ iter[1 .. 0] = base
         /\ \A k \in 1 .. n : iter[1 .. k] = step[1 .. k]
         /\ \A k \in 0 .. n : iter[1 .. k] \in S
<1>1. iter[1 .. 0] = base
  <2>1. 1 .. 0 = {} /\ {} \in SUBSET (1 .. n)
    OBVIOUS
  <2> QED BY <2>1 DEF Folds
<1>2. ASSUME NEW k \in 1 .. n PROVE iter[1 .. k] = step[1 .. k]
  <2>1. 1 .. k \in SUBSET (1 .. n) /\ 1 .. k # {}
    BY FirstNumbers
  <2> QED BY <2>1 DEF Folds
<1>3. \A k \in 0 .. n : iter[1 .. k] \in S
  <2> DEFINE T == {k \in Nat : k <= n => iter[1 .. k] \in S}
  <2>1. 0 \in T
    BY <1>1
  <2>2. ASSUME NEW k \in Nat, k \in T PROVE k + 1 \in T
    <3> SUFFICES ASSUME k + 1 <= n PROVE iter[1 .. k + 1] \in S
      OBVIOUS
    <3>1. k + 1 \in 1 .. n /\ (k + 1) - 1 = k /\ iter[1 .. k] \in S
      BY <2>2
    <3> QED BY <1>2, <3>1
  <2>3. Nat \subseteq T
    <3> HIDE DEF T
    <3> QED BY <2>1, <2>2, NatByStep
  <2>4. \A k \in 0 .. n : k \in Nat /\ k <= n
    OBVIOUS
  <2> QED BY <2>3, <2>4
<1> QED BY <1>1, <1>2, <1>3

GccFold(base, words) == FoldLeft(GccStep, base, words)

GccTrace(f, base, words) ==
  f[0] = base /\ \A k \in 1 .. Len(words) : f[k] = GccStep(f[k - 1], words[k])

(* The states that gcc's parser goes through, word by word. *)
LEMMA FoldOfGccStep ==
  ASSUME NEW W, NEW words \in Seq(W), NEW S, NEW base \in S,
         \A s \in S, w \in W : GccStep(s, w) \in S
  PROVE  \E f \in [0 .. Len(words) -> S] :
           GccTrace(f, base, words) /\ GccFold(base, words) = f[Len(words)]
<1> DEFINE n == Len(words)
           g == [k \in 1 .. n |-> [s \in S |-> GccStep(s, words[k])]]
           iter == CHOOSE iter : iter = [s \in SUBSET DOMAIN words |->
                     IF s = {} THEN base ELSE GccStep(iter[s \ {Max(s)}], words[Max(s)])]
           step == [s \in SUBSET (1 .. n) |-> GccStep(iter[s \ {Max(s)}], words[Max(s)])]
           at == [k \in 0 .. n |-> iter[1 .. k]]
<1>1. n \in Nat /\ DOMAIN words = 1 .. n /\ \A k \in 1 .. n : words[k] \in W
  OBVIOUS
<1>2. PICK f \in [SUBSET (1 .. n) -> S] : IsFold(f, n, base, g)
  <2>1. g \in [1 .. n -> [S -> S]]
    BY <1>1
  <2> HIDE DEF g, n
  <2> QED BY <1>1, <2>1, FoldExists
<1>3. f = [s \in SUBSET DOMAIN words |->
             IF s = {} THEN base ELSE GccStep(f[s \ {Max(s)}], words[Max(s)])]
  <2>1. ASSUME NEW s \in SUBSET (1 .. n), s # {}
        PROVE  g[Max(s)][f[s \ {Max(s)}]] = GccStep(f[s \ {Max(s)}], words[Max(s)])
    <3>1. Max(s) \in 1 .. n
      BY <1>1, <2>1, MaxOfNumbers
    <3>2. f[s \ {Max(s)}] \in S
      BY <1>2
    <3> HIDE DEF n
    <3> QED BY <3>1, <3>2
  <2>2. \A s \in SUBSET (1 .. n) :
          f[s] = IF s = {} THEN base ELSE GccStep(f[s \ {Max(s)}], words[Max(s)])
    BY <1>2, <2>1 DEF IsFold
  <2> QED BY <1>1, <2>2
<1>4. iter = [s \in SUBSET DOMAIN words |->
                IF s = {} THEN base ELSE GccStep(iter[s \ {Max(s)}], words[Max(s)])]
  BY <1>3
<1>5. GccFold(base, words) = iter[1 .. n]
  BY <1>1 DEF GccFold, FoldLeft, MapThenFoldSet
<1>6. Folds(iter, n, base, step)
  <2> HIDE DEF iter, n
  <2> QED BY <1>1, <1>4 DEF Folds
<1>7. \A k \in 1 .. n : step[1 .. k] = GccStep(iter[1 .. k - 1], words[k])
  <2> HIDE DEF iter, n
  <2>1. ASSUME NEW k \in 1 .. n PROVE step[1 .. k] = GccStep(iter[1 .. k - 1], words[k])
    <3>1. /\ 1 .. k \in SUBSET (1 .. n) /\ Max(1 .. k) = k
          /\ (1 .. k) \ {k} = 1 .. k - 1
      BY <1>1, FirstNumbers
    <3> QED BY <3>1
  <2> QED BY <2>1
<1>8. \A k \in 1 .. n : iter[1 .. k - 1] \in S => step[1 .. k] \in S
  <2> HIDE DEF iter, step, n
  <2> QED BY <1>1, <1>7
<1>9. /\ iter[1 .. 0] = base
      /\ \A k \in 1 .. n : iter[1 .. k] = step[1 .. k]
      /\ \A k \in 0 .. n : iter[1 .. k] \in S
  <2> HIDE DEF iter, step, n
  <2> QED BY <1>1, <1>6, <1>8, FoldStays
<1>10. at \in [0 .. n -> S] /\ at[0] = base /\ iter[1 .. n] = at[n]
  <2> HIDE DEF iter, step, n
  <2> QED BY <1>1, <1>9
<1>11. ASSUME NEW k \in 1 .. n PROVE at[k] = GccStep(at[k - 1], words[k])
  <2>1. k \in 0 .. n /\ k - 1 \in 0 .. n
    BY <1>1
  <2> HIDE DEF iter, step, n
  <2>2. at[k] = iter[1 .. k] /\ at[k - 1] = iter[1 .. k - 1]
    BY <2>1
  <2> QED BY <1>7, <1>9, <2>2, Zenon
<1> HIDE DEF at, iter
<1> QED BY <1>5, <1>10, <1>11 DEF GccTrace

JavacFold(base, words) == FoldLeft(processArg, base, words)

JavacTrace(f, base, words) ==
  f[0] = base /\ \A k \in 1 .. Len(words) : f[k] = processArg(f[k - 1], words[k])

(* The same for javac's parser. *)
LEMMA FoldOfProcessArg ==
  ASSUME NEW W, NEW words \in Seq(W), NEW S, NEW base \in S,
         \A s \in S, w \in W : processArg(s, w) \in S
  PROVE  \E f \in [0 .. Len(words) -> S] :
           JavacTrace(f, base, words) /\ JavacFold(base, words) = f[Len(words)]
<1> DEFINE n == Len(words)
           g == [k \in 1 .. n |-> [s \in S |-> processArg(s, words[k])]]
           iter == CHOOSE iter : iter = [s \in SUBSET DOMAIN words |->
                     IF s = {} THEN base ELSE processArg(iter[s \ {Max(s)}], words[Max(s)])]
           step == [s \in SUBSET (1 .. n) |-> processArg(iter[s \ {Max(s)}], words[Max(s)])]
           at == [k \in 0 .. n |-> iter[1 .. k]]
<1>1. n \in Nat /\ DOMAIN words = 1 .. n /\ \A k \in 1 .. n : words[k] \in W
  OBVIOUS
<1>2. PICK f \in [SUBSET (1 .. n) -> S] : IsFold(f, n, base, g)
  <2>1. g \in [1 .. n -> [S -> S]]
    BY <1>1
  <2> HIDE DEF g, n
  <2> QED BY <1>1, <2>1, FoldExists
<1>3. f = [s \in SUBSET DOMAIN words |->
             IF s = {} THEN base ELSE processArg(f[s \ {Max(s)}], words[Max(s)])]
  <2>1. ASSUME NEW s \in SUBSET (1 .. n), s # {}
        PROVE  g[Max(s)][f[s \ {Max(s)}]] = processArg(f[s \ {Max(s)}], words[Max(s)])
    <3>1. Max(s) \in 1 .. n
      BY <1>1, <2>1, MaxOfNumbers
    <3>2. f[s \ {Max(s)}] \in S
      BY <1>2
    <3> HIDE DEF n
    <3> QED BY <3>1, <3>2
  <2>2. \A s \in SUBSET (1 .. n) :
          f[s] = IF s = {} THEN base ELSE processArg(f[s \ {Max(s)}], words[Max(s)])
    BY <1>2, <2>1 DEF IsFold
  <2> QED BY <1>1, <2>2
<1>4. iter = [s \in SUBSET DOMAIN words |->
                IF s = {} THEN base ELSE processArg(iter[s \ {Max(s)}], words[Max(s)])]
  BY <1>3
<1>5. JavacFold(base, words) = iter[1 .. n]
  BY <1>1 DEF JavacFold, FoldLeft, MapThenFoldSet
<1>6. Folds(iter, n, base, step)
  <2> HIDE DEF iter, n
  <2> QED BY <1>1, <1>4 DEF Folds
<1>7. \A k \in 1 .. n : step[1 .. k] = processArg(iter[1 .. k - 1], words[k])
  <2> HIDE DEF iter, n
  <2>1. ASSUME NEW k \in 1 .. n PROVE step[1 .. k] = processArg(iter[1 .. k - 1], words[k])
    <3>1. /\ 1 .. k \in SUBSET (1 .. n) /\ Max(1 .. k) = k
          /\ (1 .. k) \ {k} = 1 .. k - 1
      BY <1>1, FirstNumbers
    <3> QED BY <3>1
  <2> QED BY <2>1
<1>8. \A k \in 1 .. n : iter[1 .. k - 1] \in S => step[1 .. k] \in S
  <2> HIDE DEF iter, step, n
  <2> QED BY <1>1, <1>7
<1>9. /\ iter[1 .. 0] = base
      /\ \A k \in 1 .. n : iter[1 .. k] = step[1 .. k]
      /\ \A k \in 0 .. n : iter[1 .. k] \in S
  <2> HIDE DEF iter, step, n
  <2> QED BY <1>1, <1>6, <1>8, FoldStays
<1>10. at \in [0 .. n -> S] /\ at[0] = base /\ iter[1 .. n] = at[n]
  <2> HIDE DEF iter, step, n
  <2> QED BY <1>1, <1>9
<1>11. ASSUME NEW k \in 1 .. n PROVE at[k] = processArg(at[k - 1], words[k])
  <2>1. k \in 0 .. n /\ k - 1 \in 0 .. n
    BY <1>1
  <2> HIDE DEF iter, step, n
  <2>2. at[k] = iter[1 .. k] /\ at[k - 1] = iter[1 .. k - 1]
    BY <2>1
  <2> QED BY <1>7, <1>9, <2>2, Zenon
<1> HIDE DEF at, iter
<1> QED BY <1>5, <1>10, <1>11 DEF JavacTrace

-----------------------------------------------------------------------------
(* What concatenating sequences keeps. *)
LEMMA FlattenHolds ==
  ASSUME NEW E, NEW seqs \in Seq(Seq(E))
  PROVE  /\ FlattenSeq(seqs) \in Seq(E)
         /\ seqs = <<>> => FlattenSeq(seqs) = <<>>
         /\ \A k \in DOMAIN seqs : Range(seqs[k]) \subseteq Range(FlattenSeq(seqs))
<1>1. CASE Len(seqs) = 0
  BY <1>1 DEF FlattenSeq
<1>2. CASE Len(seqs) # 0
  <2> DEFINE n == Len(seqs)
             flatten == CHOOSE flatten : flatten = [i \in 1 .. n |->
                          IF i = 1 THEN seqs[i] ELSE flatten[i - 1] \o seqs[i]]
  <2>1. FlattenSeq(seqs) = flatten[n]
    BY <1>2 DEF FlattenSeq
  <2>2. n \in Nat /\ n >= 1 /\ DOMAIN seqs = 1 .. n /\ \A k \in 1 .. n : seqs[k] \in Seq(E)
    BY <1>2
  <2> HIDE DEF n
  <2>3. \E f : f = [i \in 1 .. n |-> IF i = 1 THEN seqs[i] ELSE f[i - 1] \o seqs[i]]
    <3> DEFINE Step(f, k) == \A i \in 1 .. k : f[i] = IF i = 1 THEN seqs[i] ELSE f[i - 1] \o seqs[i]
               Has(k) == \E f \in [1 .. k -> Seq(E)] : Step(f, k)
               T == {k \in Nat : k <= n => Has(k)}
    <3>1. 0 \in T
      <4>1. [i \in 1 .. 0 |-> <<>>] \in [1 .. 0 -> Seq(E)]
        OBVIOUS
      <4>2. Step([i \in 1 .. 0 |-> <<>>], 0)
        OBVIOUS
      <4>3. Has(0)
        BY <4>1, <4>2
      <4> HIDE DEF Has
      <4> QED BY <4>3
    <3>2. ASSUME NEW k \in Nat, k \in T PROVE k + 1 \in T
      <4> SUFFICES ASSUME k + 1 <= n PROVE Has(k + 1)
        <5> HIDE DEF Has
        <5> QED OBVIOUS
      <4>1. Has(k)
        <5> HIDE DEF Has
        <5> QED BY <2>2, <3>2
      <4>2. PICK f \in [1 .. k -> Seq(E)] : Step(f, k)
        BY <4>1
      <4> DEFINE h == [i \in 1 .. k + 1 |->
                        IF i \in 1 .. k THEN f[i] ELSE IF i = 1 THEN seqs[i] ELSE f[i - 1] \o seqs[i]]
      <4>3. h \in [1 .. k + 1 -> Seq(E)]
        <5>1. ASSUME NEW i \in 1 .. k + 1 PROVE h[i] \in Seq(E)
          <6>1. seqs[i] \in Seq(E)
            BY <2>2
          <6>2. i # 1 => i - 1 \in 1 .. k
            OBVIOUS
          <6> QED BY <6>1, <6>2
        <5> QED BY <5>1
      <4>4. ASSUME NEW i \in 1 .. k + 1
            PROVE  h[i] = IF i = 1 THEN seqs[i] ELSE h[i - 1] \o seqs[i]
        <5>1. i # 1 => i - 1 \in 1 .. k
          OBVIOUS
        <5>2. i # 1 => h[i - 1] = f[i - 1]
          BY <5>1
        <5>3. CASE i \in 1 .. k
          <6>1. h[i] = f[i]
            BY <5>3
          <6>2. f[i] = IF i = 1 THEN seqs[i] ELSE f[i - 1] \o seqs[i]
            BY <4>2, <5>3
          <6> QED BY <5>2, <6>1, <6>2
        <5>4. CASE i \notin 1 .. k
          <6>1. h[i] = IF i = 1 THEN seqs[i] ELSE f[i - 1] \o seqs[i]
            BY <5>4
          <6> QED BY <5>2, <6>1
        <5> QED BY <5>3, <5>4
      <4> HIDE DEF h
      <4>5. Step(h, k + 1)
        BY <4>4
      <4> QED BY <4>3, <4>5
    <3>3. n \in T
      <4> HIDE DEF T
      <4> QED BY <2>2, <3>1, <3>2, NatByStep
    <3>4. Has(n)
      <4> HIDE DEF Has
      <4> QED BY <3>3
    <3>5. PICK f \in [1 .. n -> Seq(E)] : Step(f, n)
      BY <3>4
    <3>6. f = [i \in 1 .. n |-> IF i = 1 THEN seqs[i] ELSE f[i - 1] \o seqs[i]]
      BY <3>5
    <3> QED BY <3>6
  <2>4. flatten = [i \in 1 .. n |-> IF i = 1 THEN seqs[i] ELSE flatten[i - 1] \o seqs[i]]
    BY <2>3
  <2> HIDE DEF flatten
  <2> DEFINE Good(k) == /\ flatten[k] \in Seq(E)
                        /\ \A j \in 1 .. k : Range(seqs[j]) \subseteq Range(flatten[k])
             T == {k \in Nat : k \in 1 .. n => Good(k)}
  <2>5. Good(1)
    <3>1. 1 \in 1 .. n /\ flatten[1] = seqs[1]
      BY <2>2, <2>4
    <3> QED BY <2>2, <3>1
  <2>6. ASSUME NEW k \in 1 .. n, k + 1 \in 1 .. n, Good(k) PROVE Good(k + 1)
    <3>1. k + 1 # 1 /\ (k + 1) - 1 = k
      BY <2>2
    <3>2. flatten[k + 1] = flatten[k] \o seqs[k + 1]
      BY <2>4, <2>6, <3>1
    <3>3. flatten[k] \in Seq(E) /\ seqs[k + 1] \in Seq(E)
      BY <2>2, <2>6
    <3>4. flatten[k + 1] \in Seq(E)
      BY <3>2, <3>3
    <3>5. ASSUME NEW u \in Seq(E), NEW v \in Seq(E)
          PROVE  Range(u) \subseteq Range(u \o v) /\ Range(v) \subseteq Range(u \o v)
      <4>1. ASSUME NEW i \in DOMAIN u PROVE u[i] \in Range(u \o v)
        <5>1. i \in DOMAIN (u \o v) /\ (u \o v)[i] = u[i]
          OBVIOUS
        <5> QED BY <5>1 DEF Range
      <4>2. ASSUME NEW i \in DOMAIN v PROVE v[i] \in Range(u \o v)
        <5>1. Len(u) + i \in DOMAIN (u \o v) /\ (u \o v)[Len(u) + i] = v[i]
          OBVIOUS
        <5> QED BY <5>1 DEF Range
      <4> QED BY <4>1, <4>2 DEF Range
    <3>6. Range(flatten[k]) \subseteq Range(flatten[k + 1]) /\ Range(seqs[k + 1]) \subseteq Range(flatten[k + 1])
      BY <3>2, <3>3, <3>5
    <3>7. \A j \in 1 .. k + 1 : j \in 1 .. k \/ j = k + 1
      BY <2>2
    <3> QED BY <2>6, <3>4, <3>6, <3>7
  <2>7. 0 \in T
    OBVIOUS
  <2>8. ASSUME NEW k \in Nat, k \in T PROVE k + 1 \in T
    <3>1. CASE k = 0
      BY <2>5, <3>1
    <3>2. CASE k # 0
      <4> HIDE DEF Good
      <4>1. k + 1 \in 1 .. n => k \in 1 .. n
        BY <2>2, <3>2
      <4> QED BY <2>6, <2>8, <4>1
    <3> QED BY <3>1, <3>2
  <2>9. Good(n)
    <3>1. n \in T
      <4> HIDE DEF T
      <4> QED BY <2>2, <2>7, <2>8, NatByStep
    <3> HIDE DEF Good
    <3> QED BY <2>2, <3>1
  <2> QED BY <1>2, <2>1, <2>2, <2>9
<1> QED BY <1>1, <1>2

-----------------------------------------------------------------------------
(* The collecting of gcc's actions keeps to sequences of the call's words. *)
GccStates(W) ==
  [state : {"Normal", "InOutputArg"}, output : {<<"_noobj">>} \cup {w.paths : w \in W},
   sources : Seq({w.paths[1] : w \in W}),
   arguments : Seq({Word("gcc", <<>>)} \cup W \cup {Absolute(w) : w \in W}), lastIncPos : Nat]

LEMMA GccStepStays ==
  ASSUME NEW W, NEW s \in GccStates(W), NEW w \in W
  PROVE  GccStep(s, w) \in GccStates(W)
<1> DEFINE A == {Word("gcc", <<>>)} \cup W \cup {Absolute(v) : v \in W}
           P == {v.paths[1] : v \in W}
           O == {<<"_noobj">>} \cup {v.paths : v \in W}
           With(v) == [s EXCEPT !.arguments = Append(@, v)]
           t == processArgument(s, w)
<1>1. w \in A /\ Absolute(w) \in A /\ w.paths \in O /\ w.paths[1] \in P
  OBVIOUS
<1>2. GccStates(W) = [state : {"Normal", "InOutputArg"}, output : O, sources : Seq(P),
                     arguments : Seq(A), lastIncPos : Nat]
  BY DEF GccStates
<1>3. AddUnique(s.sources, w.paths[1]) \in Seq(P)
  <2> HIDE DEF P
  <2>1. s.sources \in Seq(P)
    BY <1>2
  <2> QED BY <1>1, <2>1 DEF AddUnique
<1>4. ASSUME NEW v \in A PROVE With(v) \in GccStates(W)
  <2> HIDE DEF A, P, O
  <2>1. Append(s.arguments, v) \in Seq(A)
    BY <1>2
  <2> QED BY <1>2, <2>1
<1>5. t \in GccStates(W)
  <2>1. \/ t = With(w)
        \/ t = With(Absolute(w))
        \/ t = [With(Absolute(w)) EXCEPT !.state = "Normal", !.output = w.paths]
        \/ t = [With(w) EXCEPT !.state = "InOutputArg"]
        \/ t = [With(Absolute(w)) EXCEPT !.sources = AddUnique(@, w.paths[1])]
    <3> DEFINE isO == s.state = "Normal" /\ w = Word("-o", <<>>)
               isI == s.state = "Normal" /\ w.option \in {"-I", "-L"} /\ w.paths # <<>>
               isS == s.state = "Normal" /\ IsGccSource(w)
    <3>1. s.state = "InOutputArg" => ~isO /\ ~isI /\ ~isS
      OBVIOUS
    <3>2. isO => w.option = "-o"
      BY DEF Word
    <3>3. isS => w.option = ""
      BY DEF IsGccSource
    <3>4. (isO => ~isI /\ ~isS) /\ (isI => ~isS)
      BY <3>2, <3>3
    <3>5. t = CASE s.state = "InOutputArg" -> [With(Absolute(w)) EXCEPT !.state = "Normal", !.output = w.paths]
                [] isO -> [With(w) EXCEPT !.state = "InOutputArg"]
                [] isI -> With(Absolute(w))
                [] isS -> [With(Absolute(w)) EXCEPT !.sources = AddUnique(@, w.paths[1])]
                [] OTHER -> With(w)
      BY Zenon DEF processArgument
    <3> HIDE DEF isO, isI, isS, With, t
    <3> QED BY <3>1, <3>4, <3>5, Zenon
  <2>2. With(Absolute(w)).sources = s.sources
    BY <1>2
  <2>3. With(w) \in GccStates(W) /\ With(Absolute(w)) \in GccStates(W)
    BY <1>1, <1>4
  <2> HIDE DEF A, P, O, With, t
  <2> QED BY <1>1, <1>2, <1>3, <2>1, <2>2, <2>3
<1>6. LastIncPos(t, w) \in Nat
  <2> HIDE DEF A, P, O, t
  <2>1. t.lastIncPos \in Nat /\ t.arguments \in Seq(A)
    BY <1>2, <1>5
  <2>2. t.lastIncPos \in Nat /\ Len(t.arguments) \in Nat
    BY <2>1
  <2>3. LastIncPos(t, w) \in {t.lastIncPos, Len(t.arguments), Len(t.arguments) + 1}
    <3>1. Len(t.arguments) + 0 = Len(t.arguments)
      BY <2>2
    <3> QED BY <3>1, Zenon DEF LastIncPos
  <2> QED BY <2>2, <2>3
<1>7. GccStep(s, w) = [t EXCEPT !.lastIncPos = LastIncPos(t, w)]
  BY DEF GccStep
<1> HIDE DEF A, P, O, t
<1> QED BY <1>2, <1>5, <1>6, <1>7

JavacStates(W) ==
  [state : {"Normal", "InClassDir", "InClassPath"}, sources : Seq({w.paths[1] : w \in W}),
   hasSourcePath : BOOLEAN,
   common : Seq({Word("javac", <<>>)} \cup W \cup {Absolute(w) : w \in W} \cup {handleClassPath(w) : w \in W})]

LEMMA ProcessArgStays ==
  ASSUME NEW W, NEW s \in JavacStates(W), NEW w \in W
  PROVE  processArg(s, w) \in JavacStates(W)
<1> DEFINE A == {Word("javac", <<>>)} \cup W \cup {Absolute(v) : v \in W} \cup {handleClassPath(v) : v \in W}
           P == {v.paths[1] : v \in W}
           With(v) == [s EXCEPT !.common = Append(@, v)]
           t == processArg(s, w)
<1>1. w \in A /\ Absolute(w) \in A /\ handleClassPath(w) \in A /\ w.paths[1] \in P
  OBVIOUS
<1>2. JavacStates(W) = [state : {"Normal", "InClassDir", "InClassPath"}, sources : Seq(P),
                       hasSourcePath : BOOLEAN, common : Seq(A)]
  BY DEF JavacStates
<1>3. AddUnique(s.sources, w.paths[1]) \in Seq(P)
  <2> HIDE DEF P
  <2>1. s.sources \in Seq(P)
    BY <1>2
  <2> QED BY <1>1, <2>1 DEF AddUnique
<1>4. ASSUME NEW v \in A PROVE With(v) \in JavacStates(W)
  <2> HIDE DEF A, P
  <2>1. Append(s.common, v) \in Seq(A)
    BY <1>2
  <2> QED BY <1>2, <2>1
<1>5. \/ t = With(w)
      \/ t = [With(Absolute(w)) EXCEPT !.state = "Normal"]
      \/ t = [With(handleClassPath(w)) EXCEPT !.state = "Normal"]
      \/ t = [With(w) EXCEPT !.hasSourcePath = TRUE]
      \/ t = [With(w) EXCEPT !.state = "InClassDir"]
      \/ t = [With(w) EXCEPT !.state = "InClassPath"]
      \/ t = [s EXCEPT !.sources = AddUnique(@, w.paths[1])]
  BY Zenon DEF processArg
<1>6. With(w) \in JavacStates(W) /\ With(Absolute(w)) \in JavacStates(W)
        /\ With(handleClassPath(w)) \in JavacStates(W)
  BY <1>1, <1>4
<1> HIDE DEF A, P, With, t
<1>7. t \in JavacStates(W)
  BY <1>1, <1>2, <1>3, <1>5, <1>6
<1> QED BY <1>7 DEF t

-----------------------------------------------------------------------------
(* The entries of a call: a list, of entries, with every Java source in it. *)

Without(s, out) == RemoveFirstMatch(s, LAMBDA p : <<p>> = out)

LEMMA RemovedIsList ==
  ASSUME NEW P, NEW s \in Seq(P), NEW out
  PROVE  Without(s, out) \in Seq(P)
<1> DEFINE I == {i \in 1 .. Len(s) : <<s[i]>> = out}
<1>1. CASE I = {}
  <2>1. Without(s, out) = s
    BY <1>1 DEF Without, RemoveFirstMatch
  <2> QED BY <2>1
<1>2. CASE I # {}
  <2>1. PICK i \in I : \A k \in I : i <= k
    <3> I \in SUBSET Nat
      OBVIOUS
    <3> HIDE DEF I
    <3> QED BY <1>2, LeastNumber
  <2>2. Min(I) \in I
    <3> HIDE DEF I
    <3> QED BY <2>1 DEF Min
  <2>3. Without(s, out) = RemoveAt(s, Min(I))
    BY <1>2 DEF Without, RemoveFirstMatch, SelectInSeq
  <2>4. Min(I) \in 1 .. Len(s)
    BY <2>2
  <2> HIDE DEF I
  <2>5. SubSeq(s, 1, Min(I) - 1) \in Seq(P) /\ SubSeq(s, Min(I) + 1, Len(s)) \in Seq(P)
    BY <2>4
  <2> QED BY <2>3, <2>5 DEF RemoveAt
<1> QED BY <1>1, <1>2

GccStart == [state |-> "Normal", output |-> <<"_noobj">>, sources |-> <<>>,
             arguments |-> <<Word("gcc", <<>>)>>, lastIncPos |-> 1]

(* A compiler call of gcc is one action. *)
LEMMA GccActions ==
  ASSUME NEW W, NEW words \in Seq(W)
  PROVE  \E action : /\ loggerGccParserCollectActions(words) = <<action>>
                     /\ action.sources \in Seq({w.paths[1] : w \in W})
<1>1. GccStart \in GccStates(W)
  BY DEF GccStart, GccStates
<1>2. \A s \in GccStates(W), w \in W : GccStep(s, w) \in GccStates(W)
  BY GccStepStays
<1>3. PICK f \in [0 .. Len(words) -> GccStates(W)] : GccFold(GccStart, words) = f[Len(words)]
  BY <1>1, <1>2, FoldOfGccStep
<1> DEFINE s == GccFold(GccStart, words)
<1>4. s \in GccStates(W)
  BY <1>3
<1>5. s.sources \in Seq({w.paths[1] : w \in W})
  <2> HIDE DEF s
  <2> QED BY <1>4 DEF GccStates
<1> DEFINE action ==
      [arguments |-> SubSeq(s.arguments, 1, s.lastIncPos) \o getDefaultArguments
                       \o SubSeq(s.arguments, s.lastIncPos + 1, Len(s.arguments)),
       sources   |-> Without(s.sources, s.output)]
<1>6. loggerGccParserCollectActions(words) = <<action>>
  BY Zenon DEF loggerGccParserCollectActions, GccStart, GccFold, Without
<1>7. action.sources \in Seq({w.paths[1] : w \in W})
  <2> HIDE DEF s
  <2> QED BY <1>5, RemovedIsList
<1> QED BY <1>6, <1>7

JavacStart == [state |-> "Normal", sources |-> <<>>, hasSourcePath |-> FALSE,
               common |-> <<Word("javac", <<>>)>>]

LEMMA AddUniqueHolds ==
  ASSUME NEW P, NEW s \in Seq(P), NEW p \in P
  PROVE  AddUnique(s, p) \in Seq(P) /\ Range(s) \cup {p} \subseteq Range(AddUnique(s, p))
<1>1. CASE Contains(s, p)
  <2>1. AddUnique(s, p) = s
    BY <1>1 DEF AddUnique
  <2>2. p \in Range(s)
    BY <1>1 DEF Contains, Range
  <2> QED BY <2>1, <2>2
<1>2. CASE ~Contains(s, p)
  <2>1. AddUnique(s, p) = Append(s, p)
    BY <1>2 DEF AddUnique
  <2>2. \A i \in DOMAIN s : i \in DOMAIN Append(s, p) /\ Append(s, p)[i] = s[i]
    OBVIOUS
  <2>3. Len(s) + 1 \in DOMAIN Append(s, p) /\ Append(s, p)[Len(s) + 1] = p
    OBVIOUS
  <2> QED BY <2>1, <2>2, <2>3 DEF Range
<1> QED BY <1>1, <1>2

(* What a word does to the sources, and when the next one is its value. *)
SourceKept(s, w, t) ==
  /\ Range(s.sources) \subseteq Range(t.sources)
  /\ t.state # "Normal" => w.option \in {"-d", "-cp"}
  /\ s.state = "Normal" /\ w.option = "" /\ Extension[w.paths[1]] = "java" =>
       w.paths[1] \in Range(t.sources)

LEMMA ProcessArgSources ==
  ASSUME NEW W, NEW s \in JavacStates(W), NEW w \in W
  PROVE  SourceKept(s, w, processArg(s, w))
<1> USE DEF SourceKept
<1> DEFINE With(v) == [s EXCEPT !.common = Append(@, v)]
           t == processArg(s, w)
           source == s.state = "Normal" /\ w.option = "" /\ Extension[w.paths[1]] = "java"
<1>1. /\ s.state \in {"Normal", "InClassDir", "InClassPath"} /\ s.sources \in Seq({v.paths[1] : v \in W})
      /\ DOMAIN s = {"state", "sources", "hasSourcePath", "common"}
  BY DEF JavacStates
<1>2. CASE source
  <2>1. t = [s EXCEPT !.sources = AddUnique(@, w.paths[1])]
    <3>1. s.state # "InClassDir" /\ s.state # "InClassPath" /\ w.option # "-sourcepath" /\ w.option # "-d"
            /\ w.option # "-cp"
      BY <1>2
    <3> QED BY <1>2, <3>1, Zenon DEF processArg
  <2>2. t.sources = AddUnique(s.sources, w.paths[1]) /\ t.state = "Normal"
    <3> HIDE DEF t
    <3> QED BY <1>1, <1>2, <2>1
  <2>3. w.paths[1] \in {v.paths[1] : v \in W}
    OBVIOUS
  <2> HIDE DEF t
  <2>4. Range(s.sources) \cup {w.paths[1]} \subseteq Range(t.sources)
    BY <1>1, <2>2, <2>3, AddUniqueHolds
  <2> QED BY <2>2, <2>4 DEF t
<1>3. CASE ~source
  <2>1. \/ t = With(w) /\ s.state = "Normal"
        \/ t = [With(Absolute(w)) EXCEPT !.state = "Normal"]
        \/ t = [With(handleClassPath(w)) EXCEPT !.state = "Normal"]
        \/ t = [With(w) EXCEPT !.hasSourcePath = TRUE] /\ s.state = "Normal"
        \/ t = [With(w) EXCEPT !.state = "InClassDir"] /\ w.option = "-d"
        \/ t = [With(w) EXCEPT !.state = "InClassPath"] /\ w.option = "-cp"
    BY <1>1, <1>3, ZenonT(60) DEF processArg
  <2>2. t.sources = s.sources /\ (t.state = "Normal" \/ w.option \in {"-d", "-cp"})
    <3> HIDE DEF t
    <3> QED BY <1>1, <2>1
  <2> QED BY <1>3, <2>2
<1> QED BY <1>2, <1>3

(* Every word that names a source is one of the sources, and each has an action. *)
LEMMA JavacActions ==
  ASSUME NEW W, NEW words \in Seq(W)
  PROVE  \E named \in Seq({w.paths[1] : w \in W}) :
           /\ DOMAIN loggerJavacParserCollectActions(words) = DOMAIN named
           /\ loggerJavacParserCollectActions(words) = [k \in DOMAIN named |-> loggerJavacParserCollectActions(words)[k]]
           /\ \A k \in DOMAIN named : loggerJavacParserCollectActions(words)[k].sources = <<named[k]>>
           /\ \A j \in DOMAIN words : IsJavaSource(words, j) => words[j].paths[1] \in Range(named)
<1>1. JavacStart \in JavacStates(W)
  BY DEF JavacStart, JavacStates
<1>2. \A s \in JavacStates(W), w \in W : processArg(s, w) \in JavacStates(W)
  BY ProcessArgStays
<1>30. PICK f \in [0 .. Len(words) -> JavacStates(W)] :
         JavacTrace(f, JavacStart, words) /\ JavacFold(JavacStart, words) = f[Len(words)]
  BY <1>1, <1>2, FoldOfProcessArg
<1>3. /\ f[0] = JavacStart
      /\ \A k \in 1 .. Len(words) : f[k] = processArg(f[k - 1], words[k])
      /\ JavacFold(JavacStart, words) = f[Len(words)]
  BY <1>30 DEF JavacTrace
<1> DEFINE n == Len(words)
           Good(k) == /\ f[k].state # "Normal" => k >= 1 /\ words[k].option \in {"-d", "-cp"}
                      /\ \A j \in 1 .. k : IsJavaSource(words, j) => words[j].paths[1] \in Range(f[k].sources)
           T == {k \in Nat : k <= n => Good(k)}
<1>4. n \in Nat /\ DOMAIN words = 1 .. n /\ \A j \in 1 .. n : words[j] \in W
  OBVIOUS
<1>5. Good(0)
  BY <1>3 DEF JavacStart
<1>6. ASSUME NEW k \in Nat, k + 1 <= n, Good(k) PROVE Good(k + 1)
  <2> DEFINE s == f[k]
             w == words[k + 1]
  <2>1. k \in 0 .. n /\ k + 1 \in 1 .. n /\ (k + 1) - 1 = k
    BY <1>4, <1>6
  <2>2. f[k + 1] = processArg(s, w) /\ s \in JavacStates(W) /\ w \in W
    <3>1. f[k + 1] = processArg(f[(k + 1) - 1], words[k + 1])
      BY <1>3, <2>1
    <3> QED BY <1>3, <1>4, <2>1, <3>1
  <2> HIDE DEF s, w, n
  <2>3. /\ Range(s.sources) \subseteq Range(f[k + 1].sources)
        /\ f[k + 1].state # "Normal" => w.option \in {"-d", "-cp"}
        /\ s.state = "Normal" /\ w.option = "" /\ Extension[w.paths[1]] = "java" =>
             w.paths[1] \in Range(f[k + 1].sources)
    <3>1. SourceKept(s, w, f[k + 1])
      BY <2>2, ProcessArgSources
    <3> QED BY <3>1 DEF SourceKept
  <2>4. IsJavaSource(words, k + 1) => w.paths[1] \in Range(f[k + 1].sources)
    <3> SUFFICES ASSUME IsJavaSource(words, k + 1) PROVE w.paths[1] \in Range(f[k + 1].sources)
      OBVIOUS
    <3>1. w.option = "" /\ Extension[w.paths[1]] = "java"
      BY DEF IsJavaSource, w
    <3>2. k >= 1 => words[k].option \notin {"-d", "-cp"}
      <4>1. k + 1 > 1 => words[(k + 1) - 1].option \notin {"-d", "-cp"}
        BY DEF IsJavaSource
      <4> QED BY <2>1, <4>1
    <3>3. s.state = "Normal"
      BY <1>6, <3>2 DEF s
    <3> QED BY <2>3, <3>1, <3>3
  <2>5. \A j \in 1 .. k + 1 : j \in 1 .. k \/ j = k + 1
    OBVIOUS
  <2>6. \A j \in 1 .. k + 1 : IsJavaSource(words, j) => words[j].paths[1] \in Range(f[k + 1].sources)
    <3>1. ASSUME NEW j \in 1 .. k, IsJavaSource(words, j) PROVE words[j].paths[1] \in Range(f[k + 1].sources)
      BY <1>6, <2>3, <3>1 DEF s
    <3> QED BY <2>4, <2>5, <3>1 DEF w
  <2>7. f[k + 1].state # "Normal" => k + 1 >= 1 /\ words[k + 1].option \in {"-d", "-cp"}
    <3>1. k + 1 >= 1
      OBVIOUS
    <3> QED BY <2>3, <3>1, Zenon DEF w
  <2> QED BY <2>6, <2>7
<1>7. Good(n)
  <2> HIDE DEF Good
  <2>1. 0 \in T
    BY <1>5
  <2>2. ASSUME NEW k \in Nat, k \in T PROVE k + 1 \in T
    BY <1>4, <1>6, <2>2
  <2>3. n \in T
    <3> HIDE DEF T, n
    <3> QED BY <1>4, <2>1, <2>2, NatByStep
  <2> QED BY <1>4, <2>3
<1> DEFINE s == JavacFold(JavacStart, words)
<1>8. s.sources \in Seq({w.paths[1] : w \in W})
  <2>1. s \in JavacStates(W)
    BY <1>3
  <2> HIDE DEF s
  <2> QED BY <2>1 DEF JavacStates
<1> DEFINE default == IF s.hasSourcePath THEN <<>>
                      ELSE <<Word("-sourcepath", <<>>), Absolute(Word("", <<".">>))>>
<1>9. loggerJavacParserCollectActions(words)
        = [k \in DOMAIN s.sources |->
            [arguments |-> s.common \o default \o <<Absolute(Word("", <<s.sources[k]>>))>>,
             sources   |-> <<s.sources[k]>>]]
  BY Zenon DEF loggerJavacParserCollectActions, JavacStart, JavacFold
<1>10. \A j \in DOMAIN words : IsJavaSource(words, j) => words[j].paths[1] \in Range(s.sources)
  BY <1>3, <1>4, <1>7
<1> HIDE DEF s, default
<1>11. /\ DOMAIN loggerJavacParserCollectActions(words) = DOMAIN s.sources
       /\ loggerJavacParserCollectActions(words) = [k \in DOMAIN s.sources |-> loggerJavacParserCollectActions(words)[k]]
       /\ \A k \in DOMAIN s.sources : loggerJavacParserCollectActions(words)[k].sources = <<s.sources[k]>>
  <2> DEFINE found == loggerJavacParserCollectActions(words)
             commandOf(k) == s.common \o default \o <<Absolute(Word("", <<s.sources[k]>>))>>
  <2>1. found = [k \in DOMAIN s.sources |-> [arguments |-> commandOf(k), sources |-> <<s.sources[k]>>]]
    BY <1>9
  <2> HIDE DEF found, commandOf
  <2>2. /\ DOMAIN found = DOMAIN s.sources /\ found = [k \in DOMAIN s.sources |-> found[k]]
        /\ \A k \in DOMAIN s.sources : found[k].sources = <<s.sources[k]>>
    BY <2>1
  <2> QED BY <2>2 DEF found
<1> QED BY <1>8, <1>10, <1>11

-----------------------------------------------------------------------------
(* The entries of a call. *)
LEMMA EntriesHold ==
  ASSUME NEW c \in Call
  PROVE  /\ Entries[c] \in Seq(Range(Entries[c]))
         /\ \A e \in Range(Entries[c]) : IsEntry(e)
         /\ loggerCollectActionsByProgName[c] = <<>> => Entries[c] = <<>>
         /\ Tool[c] = "javac" => \A j \in DOMAIN Words[c] : IsJavaSource(Words[c], j) =>
              \E k \in DOMAIN Entries[c] : Entries[c][k].file = Words[c][j].paths[1]
<1> DEFINE W == Range(Words[c])
           P == {w.paths[1] : w \in W}
           found == loggerCollectActionsByProgName[c]
           parts == [k \in DOMAIN found |-> ActionEntries(found[k])]
           E == UNION {Range(parts[k]) : k \in DOMAIN parts}
<1>1. Words[c] \in Seq(W)
  BY WordsAssumption
<1>2. Entries[c] = FlattenSeq(parts)
  BY DEF Entries
<1>3. found = CASE Tool[c] = "gcc"   -> loggerGccParserCollectActions(Words[c])
                [] Tool[c] = "javac" -> loggerJavacParserCollectActions(Words[c])
                [] OTHER             -> <<>>
  BY DEF loggerCollectActionsByProgName
<1>4. /\ \E n \in Nat : DOMAIN found = 1 .. n
      /\ \A k \in DOMAIN found : found[k].sources \in Seq(P)
      /\ Tool[c] = "javac" => \A j \in DOMAIN Words[c] : IsJavaSource(Words[c], j) =>
           \E k \in DOMAIN found : found[k].sources = <<Words[c][j].paths[1]>>
  <2>1. CASE Tool[c] = "gcc"
    <3>1. PICK action : /\ loggerGccParserCollectActions(Words[c]) = <<action>>
                        /\ action.sources \in Seq({w.paths[1] : w \in W})
      <4> HIDE DEF W
      <4> QED BY <1>1, GccActions
    <3>2. found = <<action>> /\ Tool[c] # "javac"
      BY <1>3, <2>1, <3>1, Zenon
    <3>3. DOMAIN <<action>> = 1 .. 1 /\ <<action>>[1] = action
      OBVIOUS
    <3> HIDE DEF found, W
    <3> QED BY <3>1, <3>2, <3>3
  <2>2. CASE Tool[c] = "javac"
    <3> DEFINE all == loggerJavacParserCollectActions(Words[c])
    <3>1. PICK named \in Seq({w.paths[1] : w \in W}) :
            /\ DOMAIN all = DOMAIN named
            /\ all = [k \in DOMAIN named |-> all[k]]
            /\ \A k \in DOMAIN named : all[k].sources = <<named[k]>>
            /\ \A j \in DOMAIN Words[c] : IsJavaSource(Words[c], j) => Words[c][j].paths[1] \in Range(named)
      <4> HIDE DEF W
      <4> QED BY <1>1, JavacActions
    <3>2. found = all
      BY <1>3, <2>2, Zenon
    <3> HIDE DEF found, all, W
    <3>3. Len(named) \in Nat /\ DOMAIN found = 1 .. Len(named)
      BY <3>1, <3>2
    <3>4. \A k \in DOMAIN found : found[k].sources \in Seq(P)
      <4> HIDE DEF P
      <4>1. named \in Seq(P)
        BY DEF P
      <4>2. \A k \in DOMAIN named : named[k] \in P
        BY <4>1
      <4>3. \A p \in P : <<p>> \in Seq(P)
        OBVIOUS
      <4> QED BY <3>1, <3>2, <4>2, <4>3
    <3>5. ASSUME NEW j \in DOMAIN Words[c], IsJavaSource(Words[c], j)
          PROVE  \E k \in DOMAIN found : found[k].sources = <<Words[c][j].paths[1]>>
      <4>1. Words[c][j].paths[1] \in Range(named)
        BY <3>1, <3>5
      <4>2. PICK k \in DOMAIN named : named[k] = Words[c][j].paths[1]
        BY <4>1 DEF Range
      <4> QED BY <3>1, <3>2, <4>2
    <3> QED BY <3>3, <3>4, <3>5
  <2>3. CASE Tool[c] # "gcc" /\ Tool[c] # "javac"
    <3>1. found = <<>>
      BY <1>3, <2>3, Zenon
    <3>2. DOMAIN found = 1 .. 0
      BY <3>1
    <3> HIDE DEF found
    <3> QED BY <2>3, <3>2
  <2> QED BY <2>1, <2>2, <2>3
<1> HIDE DEF found, W
<1>5. \A k \in DOMAIN found :
        /\ DOMAIN found[k].sources = 1 .. Len(found[k].sources) /\ Len(found[k].sources) \in Nat
        /\ parts[k] = [j \in DOMAIN found[k].sources |->
                        [command |-> found[k].arguments, file |-> found[k].sources[j]]]
  BY <1>4 DEF ActionEntries
<1>6. DOMAIN parts = DOMAIN found
  OBVIOUS
<1> HIDE DEF P
<1>7. \A e \in E : IsEntry(e)
  <2>1. ASSUME NEW k \in DOMAIN found, NEW j \in DOMAIN parts[k] PROVE IsEntry(parts[k][j])
    <3>1. parts[k][j] = [command |-> found[k].arguments, file |-> found[k].sources[j]]
      BY <1>5
    <3> QED BY <3>1 DEF IsEntry
  <2> HIDE DEF parts
  <2> QED BY <1>6, <2>1 DEF Range
<1>8. parts \in Seq(Seq(E))
  <2>1. ASSUME NEW k \in DOMAIN found PROVE parts[k] \in Seq(E)
    <3>1. DOMAIN parts[k] = 1 .. Len(found[k].sources) /\ Len(found[k].sources) \in Nat
      BY <1>5
    <3>2. \A j \in DOMAIN parts[k] : parts[k][j] \in E
      <4> HIDE DEF parts
      <4> QED BY <1>6 DEF Range
    <3>3. parts[k] = [j \in DOMAIN parts[k] |-> parts[k][j]]
      BY <1>5
    <3> HIDE DEF E, parts
    <3>4. parts[k] \in [1 .. Len(found[k].sources) -> E]
      BY <3>1, <3>2, <3>3
    <3> QED BY <3>1, <3>4
  <2> HIDE DEF E
  <2>2. PICK n \in Nat : DOMAIN found = 1 .. n
    BY <1>4
  <2>3. parts \in [1 .. n -> Seq(E)]
    BY <2>1, <2>2
  <2> QED BY <2>3
<1>9. /\ Entries[c] \in Seq(E)
      /\ parts = <<>> => Entries[c] = <<>>
      /\ \A k \in DOMAIN parts : Range(parts[k]) \subseteq Range(Entries[c])
  <2> HIDE DEF E, parts
  <2> QED BY <1>2, <1>8, FlattenHolds
<1>10. found = <<>> => Entries[c] = <<>>
  BY <1>9
<1>11. Entries[c] \in Seq(Range(Entries[c])) /\ Range(Entries[c]) \subseteq E
  <2> HIDE DEF E
  <2> QED BY <1>9 DEF Range
<1>12. ASSUME Tool[c] = "javac", NEW j \in DOMAIN Words[c], IsJavaSource(Words[c], j)
       PROVE  \E k \in DOMAIN Entries[c] : Entries[c][k].file = Words[c][j].paths[1]
  <2>1. PICK k \in DOMAIN found : found[k].sources = <<Words[c][j].paths[1]>>
    BY <1>4, <1>12
  <2>2. 1 \in DOMAIN found[k].sources /\ found[k].sources[1] = Words[c][j].paths[1]
    BY <2>1
  <2>3. parts[k][1] = [command |-> found[k].arguments, file |-> Words[c][j].paths[1]] /\ 1 \in DOMAIN parts[k]
    BY <1>5, <2>2
  <2> HIDE DEF parts
  <2>4. parts[k][1] \in Range(Entries[c])
    BY <1>6, <1>9, <2>3 DEF Range
  <2>5. PICK i \in DOMAIN Entries[c] : Entries[c][i] = parts[k][1]
    BY <2>4 DEF Range
  <2> QED BY <2>3, <2>5
<1> QED BY <1>7, <1>10, <1>11, <1>12 DEF found

-----------------------------------------------------------------------------
(* The log as a list: what stands where. *)
LEMMA PartOfSequence ==
  ASSUME NEW m \in Nat, NEW B, NEW s \in [1 .. m -> B], NEW a \in {1, 2}
  PROVE  /\ SubSeq(s, a, Len(s)) = [i \in 1 .. m - a + 1 |-> s[i + a - 1]]
         /\ Len(s) = m
<1>1. Len(s) = m
  OBVIOUS
<1>2. SubSeq(s, a, m) = [i \in 1 .. m - a + 1 |-> s[i + a - 1]]
  OBVIOUS
<1> QED BY <1>1, <1>2

(* The text of writeActions behind other entries, and of the first ones. *)
Later(w, e) ==
  /\ w \in Seq(Range(w)) /\ Len(w) = 2 * Len(e)
  /\ \A i \in 1 .. Len(e) : w[2 * i - 1] = Mark(",") /\ w[2 * i] = e[i]

First(w, e) ==
  /\ w \in Seq(Range(w)) /\ Len(w) = IF Len(e) = 0 THEN 0 ELSE 2 * Len(e) - 1
  /\ \A i \in 1 .. Len(e) : w[2 * i - 1] = e[i]
  /\ \A i \in 1 .. Len(e) - 1 : w[2 * i] = Mark(",")

LEMMA WrittenActions ==
  ASSUME NEW E, NEW e \in Seq(E)
  PROVE  Later(writeAction(e, FALSE), e) /\ First(writeAction(e, TRUE), e)
<1> DEFINE n == Len(e)
           B == E \cup {Mark(",")}
           between == [i \in 1 .. 2 * n |-> IF i % 2 = 1 THEN Mark(",") ELSE e[i \div 2]]
<1>1. n \in Nat /\ 2 * n \in Nat /\ \A i \in 1 .. n : e[i] \in E
  OBVIOUS
<1>2. between \in [1 .. 2 * n -> B]
  <2>1. ASSUME NEW i \in 1 .. 2 * n, i % 2 # 1 PROVE i \div 2 \in 1 .. n
    <3> HIDE DEF n
    <3> QED BY <1>1, <2>1
  <2> QED BY <1>1, <2>1
<1>3. \A i \in 1 .. n : between[2 * i] = e[i] /\ between[2 * i - 1] = Mark(",")
  <2>1. ASSUME NEW i \in 1 .. n
        PROVE  /\ 2 * i \in 1 .. 2 * n /\ 2 * i - 1 \in 1 .. 2 * n
               /\ (2 * i) % 2 # 1 /\ (2 * i) \div 2 = i /\ (2 * i - 1) % 2 = 1
    <3> HIDE DEF n
    <3> QED BY <1>1
  <2> QED BY <2>1
<1> HIDE DEF between, B
<1>4. writeAction(e, FALSE) = SubSeq(between, 1, Len(between))
        /\ writeAction(e, TRUE) = SubSeq(between, 2, Len(between))
  BY DEF writeAction, between
<1>5. /\ writeAction(e, FALSE) = [i \in 1 .. 2 * n |-> between[i]]
      /\ writeAction(e, TRUE) = [i \in 1 .. 2 * n - 1 |-> between[i + 1]]
  <2> HIDE DEF n
  <2>1. SubSeq(between, 1, Len(between)) = [i \in 1 .. 2 * n - 1 + 1 |-> between[i + 1 - 1]]
    BY <1>1, <1>2, PartOfSequence
  <2>2. SubSeq(between, 2, Len(between)) = [i \in 1 .. 2 * n - 2 + 1 |-> between[i + 2 - 1]]
    BY <1>1, <1>2, PartOfSequence
  <2>3. 2 * n - 1 + 1 = 2 * n /\ 2 * n - 2 + 1 = 2 * n - 1
    BY <1>1
  <2>4. [i \in 1 .. 2 * n |-> between[i + 1 - 1]] = [i \in 1 .. 2 * n |-> between[i]]
    <3>1. \A i \in 1 .. 2 * n : i + 1 - 1 = i
      BY <1>1
    <3> QED BY <3>1
  <2>5. [i \in 1 .. 2 * n - 1 |-> between[i + 2 - 1]] = [i \in 1 .. 2 * n - 1 |-> between[i + 1]]
    <3>1. \A i \in 1 .. 2 * n - 1 : i + 2 - 1 = i + 1
      BY <1>1
    <3> QED BY <3>1
  <2> QED BY <1>4, <2>1, <2>2, <2>3, <2>4, <2>5, Zenon
<1>6. Later(writeAction(e, FALSE), e)
  <2> DEFINE w == writeAction(e, FALSE)
  <2> HIDE DEF n
  <2>1. \A i \in 1 .. 2 * n : w[i] = between[i] /\ w[i] \in Range(w)
    BY <1>5 DEF Range
  <2>2. w \in [1 .. 2 * n -> Range(w)]
    BY <1>5, <2>1
  <2> HIDE DEF w
  <2>3. w \in Seq(Range(w)) /\ Len(w) = 2 * n
    BY <1>1, <2>2
  <2>4. \A i \in 1 .. n : 2 * i \in 1 .. 2 * n /\ 2 * i - 1 \in 1 .. 2 * n
    BY <1>1
  <2> QED BY <1>3, <2>1, <2>3, <2>4 DEF Later, n, w
<1>7. First(writeAction(e, TRUE), e)
  <2> DEFINE w == writeAction(e, TRUE)
             m == IF n = 0 THEN 0 ELSE 2 * n - 1
  <2> HIDE DEF n
  <2>0. m \in Nat /\ 1 .. 2 * n - 1 = 1 .. m
    BY <1>1
  <2>1. \A i \in 1 .. m : w[i] = between[i + 1] /\ w[i] \in Range(w)
    BY <1>5, <2>0 DEF Range
  <2>2. w \in [1 .. m -> Range(w)]
    BY <1>5, <2>0, <2>1
  <2> HIDE DEF w
  <2>3. w \in Seq(Range(w)) /\ Len(w) = m
    BY <2>0, <2>2
  <2>4. \A i \in 1 .. n : 2 * i - 1 \in 1 .. m /\ (2 * i - 1) + 1 = 2 * i
    BY <1>1
  <2>5. \A i \in 1 .. n - 1 : 2 * i \in 1 .. m /\ i + 1 \in 1 .. n /\ 2 * i + 1 = 2 * (i + 1) - 1
    BY <1>1
  <2>6. \A i \in 1 .. n : w[2 * i - 1] = e[i]
    BY <1>3, <2>1, <2>4
  <2>7. \A i \in 1 .. n - 1 : w[2 * i] = Mark(",")
    BY <1>3, <2>1, <2>5
  <2> QED BY <2>3, <2>6, <2>7 DEF First, n, w
<1> QED BY <1>6, <1>7

(* t is the list of e. *)
Listed(t, e) ==
  /\ t \in Seq(Range(t)) /\ Len(t) = IF Len(e) = 0 THEN 2 ELSE 2 * Len(e) + 1
  /\ t[1] = Mark("[") /\ t[Len(t)] = Mark("]")
  /\ \A i \in 1 .. Len(e) : t[2 * i] = e[i]
  /\ \A i \in 1 .. Len(e) - 1 : t[2 * i + 1] = Mark(",")

(* t is u and then v. *)
IsJoin(t, u, v) ==
  /\ t \in Seq(Range(t)) /\ Len(t) = Len(u) + Len(v)
  /\ \A i \in 1 .. Len(u) : t[i] = u[i]
  /\ \A i \in 1 .. Len(v) : t[Len(u) + i] = v[i]

LEMMA Joined ==
  ASSUME NEW u, NEW v, u \in Seq(Range(u)), v \in Seq(Range(v))
  PROVE  IsJoin(u \o v, u, v)
<1> DEFINE S == Range(u) \cup Range(v)
<1>1. u \in Seq(S) /\ v \in Seq(S)
  <2>1. \A R : \A s \in Seq(R) : R \subseteq S => s \in Seq(S)
    OBVIOUS
  <2> HIDE DEF S
  <2> QED BY <2>1 DEF S
<1> HIDE DEF S
<1>2. u \o v \in Seq(S) /\ Len(u \o v) = Len(u) + Len(v)
  BY <1>1
<1>3. /\ \A i \in 1 .. Len(u) : (u \o v)[i] = u[i]
      /\ \A i \in 1 .. Len(v) : (u \o v)[Len(u) + i] = v[i]
  BY <1>1
<1>4. u \o v \in Seq(Range(u \o v))
  <2>1. \A s \in Seq(S) : s \in Seq(Range(s))
    BY DEF Range
  <2> QED BY <1>2, <2>1
<1> QED BY <1>2, <1>3, <1>4 DEF IsJoin

LEMMA OneToken ==
  ASSUME NEW x
  PROVE  <<x>> \in Seq(Range(<<x>>)) /\ Len(<<x>>) = 1 /\ <<x>>[1] = x
BY DEF Range

LEMMA ListTokensListed ==
  ASSUME NEW E, NEW e \in Seq(E)
  PROVE  Listed(ListTokens(e), e)
<1> DEFINE w == writeAction(e, TRUE)
           b == <<Mark("[")>>
           c == <<Mark("]")>>
           u == b \o w
           t == u \o c
           n == Len(e)
<1>0. n \in Nat
  OBVIOUS
<1>1. First(w, e)
  BY WrittenActions
<1>2. ListTokens(e) = t
  BY DEF ListTokens
<1>b. /\ b \in Seq(Range(b)) /\ Len(b) = 1 /\ b[1] = Mark("[")
      /\ c \in Seq(Range(c)) /\ Len(c) = 1 /\ c[1] = Mark("]")
  BY OneToken
<1> HIDE DEF w, n, b, c
<1>6. Len(w) = IF n = 0 THEN 0 ELSE 2 * n - 1
  BY <1>1 DEF First, n
<1>3. w \in Seq(Range(w)) /\ Len(w) \in Nat
  <2>1. w \in Seq(Range(w))
    BY <1>1 DEF First
  <2> QED BY <1>0, <1>6, <2>1
<1>j. IsJoin(u, b, w)
  BY <1>3, <1>b, Joined
<1> HIDE DEF u
<1>4. /\ u \in Seq(Range(u)) /\ Len(u) = 1 + Len(w) /\ u[1] = Mark("[")
      /\ \A i \in 1 .. Len(w) : u[1 + i] = w[i]
  BY <1>b, <1>j DEF IsJoin
<1>k. IsJoin(t, u, c)
  BY <1>4, <1>b, Joined
<1> HIDE DEF t
<1>5. /\ t \in Seq(Range(t)) /\ Len(t) = Len(u) + 1 /\ t[Len(u) + 1] = Mark("]")
      /\ \A i \in 1 .. Len(u) : t[i] = u[i]
  BY <1>b, <1>k DEF IsJoin
<1>7. Len(t) = IF n = 0 THEN 2 ELSE 2 * n + 1
  BY <1>0, <1>4, <1>5, <1>6
<1>8. t[1] = Mark("[") /\ t[Len(t)] = Mark("]")
  BY <1>3, <1>4, <1>5
<1> DEFINE lw == Len(w)  lu == Len(u)
<1>9. ASSUME NEW i \in 1 .. n PROVE t[2 * i] = e[i]
  <2>0. lw = 2 * n - 1 /\ lu = 2 * n /\ n \in Nat /\ i \in Nat /\ 1 <= i /\ i <= n
    BY <1>0, <1>4, <1>6
  <2> HIDE DEF lw, lu, n
  <2>a. 2 * i - 1 \in 1 .. lw /\ 1 + (2 * i - 1) = 2 * i /\ 2 * i \in 1 .. lu
    BY <2>0
  <2>1. 2 * i - 1 \in 1 .. Len(w) /\ 1 + (2 * i - 1) = 2 * i /\ 2 * i \in 1 .. Len(u)
    BY <2>a DEF lw, lu
  <2>2. t[2 * i] = w[2 * i - 1]
    BY <1>4, <1>5, <2>1
  <2> QED BY <1>1, <2>2 DEF First, n
<1>10. ASSUME NEW i \in 1 .. n - 1 PROVE t[2 * i + 1] = Mark(",")
  <2>0. lw = 2 * n - 1 /\ lu = 2 * n /\ n \in Nat /\ i \in Nat /\ 1 <= i /\ i + 1 <= n
    BY <1>0, <1>4, <1>6
  <2> HIDE DEF lw, lu, n
  <2>a. 2 * i \in 1 .. lw /\ 1 + 2 * i = 2 * i + 1 /\ 2 * i + 1 \in 1 .. lu
    BY <2>0
  <2>1. 2 * i \in 1 .. Len(w) /\ 1 + 2 * i = 2 * i + 1 /\ 2 * i + 1 \in 1 .. Len(u)
    BY <2>a DEF lw, lu
  <2>2. t[2 * i + 1] = w[2 * i]
    BY <1>4, <1>5, <2>1
  <2> QED BY <1>1, <2>2 DEF First, n
<1> QED BY <1>2, <1>5, <1>7, <1>8, <1>9, <1>10 DEF Listed, n

(* A list of entries has only one form. *)
LEMMA ListedOnce ==
  ASSUME NEW e, Len(e) \in Nat, NEW t, NEW u, Listed(t, e), Listed(u, e)
  PROVE  t = u
<1> DEFINE n == Len(e)
           m == IF n = 0 THEN 2 ELSE 2 * n + 1
<1>1. n \in Nat /\ m \in Nat
  OBVIOUS
<1>2. /\ t \in Seq(Range(t)) /\ u \in Seq(Range(u)) /\ Len(t) = m /\ Len(u) = m
      /\ t[1] = u[1] /\ t[m] = u[m]
      /\ \A i \in 1 .. n : t[2 * i] = u[2 * i]
      /\ \A i \in 1 .. n - 1 : t[2 * i + 1] = u[2 * i + 1]
  BY DEF Listed
<1> HIDE DEF n
<1>3. ASSUME NEW j \in 1 .. m PROVE t[j] = u[j]
  <2>1. CASE j = 1 \/ j = m
    BY <1>2, <2>1
  <2>2. CASE j # 1 /\ j # m
    <3>1. PICK i \in Nat : j = 2 * i \/ j = 2 * i + 1
      <4>1. j \div 2 \in Nat /\ (j = 2 * (j \div 2) \/ j = 2 * (j \div 2) + 1)
        OBVIOUS
      <4> QED BY <4>1
    <3>2. (j = 2 * i /\ i \in 1 .. n) \/ (j = 2 * i + 1 /\ i \in 1 .. n - 1)
      BY <1>1, <2>2, <3>1
    <3> QED BY <1>2, <3>2
  <2> QED BY <2>1, <2>2
<1> HIDE DEF m
<1> QED BY <1>1, <1>2, <1>3

-----------------------------------------------------------------------------
(* What a call writes over the end of a list makes it the list of both. *)
LEMMA ListGrows ==
  ASSUME NEW E, NEW found \in Seq(E), NEW e \in Seq(E), NEW t, Listed(t, found)
  PROVE  Listed(SubSeq(t, 1, Len(t) - 1) \o writeAction(e, found = <<>>) \o <<Mark("]")>>, found \o e)
<1> DEFINE u == SubSeq(t, 1, Len(t) - 1)
           w == writeAction(e, found = <<>>)
           c == <<Mark("]")>>
           v == u \o w
           r == v \o c
           n == Len(found)
           m == Len(e)
           all == found \o e
<1>1. /\ n \in Nat /\ m \in Nat /\ Len(all) = n + m
      /\ \A i \in 1 .. n : all[i] = found[i]
      /\ \A i \in 1 .. m : all[n + i] = e[i]
      /\ (found = <<>> <=> n = 0)
  OBVIOUS
<1>2. /\ t \in Seq(Range(t)) /\ (n = 0 => Len(t) = 2) /\ (n # 0 => Len(t) = 2 * n + 1)
      /\ t[1] = Mark("[")
      /\ \A i \in 1 .. n : t[2 * i] = found[i]
      /\ \A i \in 1 .. n - 1 : t[2 * i + 1] = Mark(",")
  BY DEF Listed
<1>3. c \in Seq(Range(c)) /\ Len(c) = 1 /\ c[1] = Mark("]")
  BY OneToken
<1> HIDE DEF n, m, all, c
<1>4. /\ u \in Seq(Range(u)) /\ Len(u) = Len(t) - 1
      /\ \A i \in 1 .. Len(t) - 1 : u[i] = t[i]
  <2>1. Len(t) \in Nat /\ Len(t) >= 2
    <3>1. CASE n = 0
      BY <1>2, <3>1
    <3>2. CASE n # 0
      <4>1. 2 * n + 1 >= 2 /\ 2 * n + 1 \in Nat
        BY <1>1, <3>2
      <4> QED BY <1>2, <3>2, <4>1
    <3> QED BY <3>1, <3>2
  <2>2. u \in Seq(Range(t)) /\ Len(u) = Len(t) - 1 /\ \A i \in 1 .. Len(t) - 1 : u[i] = t[i]
    <3>1. \A S : \A s \in Seq(S) : Len(s) >= 2 =>
            LET p == SubSeq(s, 1, Len(s) - 1)
            IN p \in Seq(S) /\ Len(p) = Len(s) - 1 /\ \A i \in 1 .. Len(s) - 1 : p[i] = s[i]
      OBVIOUS
    <3> QED BY <1>2, <2>1, <3>1
  <2>3. \A S : \A s \in Seq(S) : s \in Seq(Range(s))
    BY DEF Range
  <2> HIDE DEF u
  <2> QED BY <2>2, <2>3
<1> HIDE DEF u
<1>5. CASE n = 0
  <2> DEFINE b == <<Mark("[")>>
  <2>1. Len(u) = 1 /\ u[1] = Mark("[")
    BY <1>2, <1>4, <1>5
  <2>2. u = b
    BY <1>4, <2>1
  <2>3. found = <<>> /\ all = e
    BY <1>1, <1>5 DEF all
  <2>4. r = ListTokens(e)
    BY <2>2, <2>3 DEF ListTokens, c
  <2>5. Listed(ListTokens(e), e)
    BY ListTokensListed
  <2> HIDE DEF w, r, b
  <2> QED BY <2>3, <2>4, <2>5 DEF all, r, v, w, u, c
<1>6. CASE n # 0
  <2>0. found # <<>> /\ Len(t) = 2 * n + 1
    BY <1>1, <1>2, <1>6
  <2>1. found # <<>> /\ Len(t) = 2 * n + 1 /\ Len(u) = 2 * n
    <3> HIDE DEF w, v, r
    <3>1. Len(u) = Len(t) - 1
      BY <1>4
    <3>2. Len(u) = 2 * n
      BY <1>1, <2>0, <3>1
    <3> QED BY <2>0, <3>2
  <2>2. Later(w, e)
    <3>1. w = writeAction(e, FALSE)
      BY <2>1
    <3> QED BY <3>1, WrittenActions
  <2> HIDE DEF w
  <2>3. /\ w \in Seq(Range(w)) /\ Len(w) = 2 * m
        /\ \A i \in 1 .. m : w[2 * i - 1] = Mark(",") /\ w[2 * i] = e[i]
    BY <2>2 DEF Later, m
  <2>4. IsJoin(v, u, w)
    BY <1>4, <2>3, Joined
  <2> HIDE DEF v
  <2>5. /\ v \in Seq(Range(v)) /\ Len(v) = 2 * n + 2 * m
        /\ \A i \in 1 .. 2 * n : v[i] = u[i]
        /\ \A i \in 1 .. 2 * m : v[2 * n + i] = w[i]
    BY <2>1, <2>3, <2>4 DEF IsJoin
  <2>6. IsJoin(r, v, c)
    BY <1>3, <2>5, Joined
  <2> HIDE DEF r
  <2>7. /\ r \in Seq(Range(r)) /\ Len(r) = 2 * n + 2 * m + 1
        /\ \A i \in 1 .. 2 * n + 2 * m : r[i] = v[i]
        /\ r[2 * n + 2 * m + 1] = Mark("]")
    BY <1>1, <1>3, <2>5, <2>6 DEF IsJoin
  <2>8. r[1] = Mark("[")
    <3>1. 1 \in 1 .. 2 * n /\ 1 \in 1 .. 2 * n + 2 * m /\ 1 \in 1 .. 2 * n + 1 - 1
      BY <1>1, <1>6
    <3>2. u[1] = t[1]
      BY <1>4, <2>1, <3>1
    <3>3. v[1] = u[1] /\ r[1] = v[1]
      BY <2>5, <2>7, <3>1, Zenon
    <3> QED BY <1>2, <3>2, <3>3, Zenon
  <2>9. ASSUME NEW i \in 1 .. n + m PROVE r[2 * i] = all[i]
    <3>1. CASE i \in 1 .. n
      <4>1. 2 * i \in 1 .. 2 * n /\ 2 * i \in 1 .. 2 * n + 2 * m
        BY <1>1, <3>1
      <4>2. r[2 * i] = t[2 * i]
        BY <1>4, <2>1, <2>5, <2>7, <4>1
      <4> QED BY <1>1, <1>2, <3>1, <4>2
    <3>2. CASE i \notin 1 .. n
      <4>1. PICK j \in 1 .. m : i = n + j
        <5>1. i - n \in 1 .. m /\ i = n + (i - n)
          BY <1>1, <3>2
        <5> QED BY <5>1
      <4>2. 2 * i = 2 * n + 2 * j /\ 2 * j \in 1 .. 2 * m /\ 2 * i \in 1 .. 2 * n + 2 * m
        BY <1>1, <4>1
      <4>3. r[2 * i] = w[2 * j]
        BY <2>5, <2>7, <4>2
      <4> QED BY <1>1, <2>3, <4>1, <4>3
    <3> QED BY <3>1, <3>2
  <2>10. ASSUME NEW i \in 1 .. n + m - 1 PROVE r[2 * i + 1] = Mark(",")
    <3>1. CASE i \in 1 .. n - 1
      <4>1. 2 * i + 1 \in 1 .. 2 * n /\ 2 * i + 1 \in 1 .. 2 * n + 2 * m
        BY <1>1, <3>1
      <4>2. r[2 * i + 1] = t[2 * i + 1]
        BY <1>4, <2>1, <2>5, <2>7, <4>1
      <4> QED BY <1>2, <3>1, <4>2
    <3>2. CASE i \notin 1 .. n - 1
      <4>1. PICK j \in 1 .. m : i = n + j - 1
        <5>1. i - n + 1 \in 1 .. m /\ i = n + (i - n + 1) - 1
          BY <1>1, <1>6, <3>2
        <5> QED BY <5>1
      <4>2. 2 * i + 1 = 2 * n + (2 * j - 1) /\ 2 * j - 1 \in 1 .. 2 * m /\ 2 * i + 1 \in 1 .. 2 * n + 2 * m
        BY <1>1, <4>1
      <4>3. r[2 * i + 1] = w[2 * j - 1]
        BY <2>5, <2>7, <4>2
      <4> QED BY <2>3, <4>3
    <3> QED BY <3>1, <3>2
  <2>11. Len(r) = 2 * (n + m) + 1 /\ Len(all) # 0
    BY <1>1, <1>6, <2>7
  <2>12. Listed(r, all)
    <3>1. Len(r) = IF Len(all) = 0 THEN 2 ELSE 2 * Len(all) + 1
      BY <1>1, <2>11
    <3>2. r[Len(r)] = Mark("]")
      BY <2>7
    <3>3. /\ \A i \in 1 .. Len(all) : r[2 * i] = all[i]
          /\ \A i \in 1 .. Len(all) - 1 : r[2 * i + 1] = Mark(",")
      <4> HIDE DEF all
      <4>1. Len(all) = n + m
        BY <1>1
      <4>2. ASSUME NEW i \in 1 .. Len(all) PROVE r[2 * i] = all[i]
        <5>1. i \in 1 .. n + m
          BY <4>1
        <5> QED BY <2>9, <5>1
      <4>3. ASSUME NEW i \in 1 .. Len(all) - 1 PROVE r[2 * i + 1] = Mark(",")
        <5>1. i \in 1 .. n + m - 1
          BY <1>1, <4>1
        <5> QED BY <2>10, <5>1
      <4> QED BY <4>2, <4>3
    <3> QED BY <2>7, <2>8, <3>1, <3>2, <3>3 DEF Listed
  <2> QED BY <2>12 DEF r, v, u, w, c, all
<1> QED BY <1>5, <1>6

(* The entries of a list are where EntriesOf looks. *)
LEMMA EntriesOfList ==
  ASSUME NEW E, NEW e \in Seq(E), NEW t, Listed(t, e)
  PROVE  EntriesOf(t) = e
<1> DEFINE n == Len(e)
<1>1. n \in Nat /\ e = [i \in 1 .. n |-> e[i]] /\ DOMAIN e = 1 .. n
  OBVIOUS
<1> HIDE DEF n
<1>2. Len(t) = (IF n = 0 THEN 2 ELSE 2 * n + 1) /\ \A i \in 1 .. n : t[2 * i] = e[i]
  BY DEF Listed, n
<1>3. (Len(t) - 1) \div 2 = n
  BY <1>1, <1>2
<1>4. EntriesOf(t) = [k \in 1 .. n |-> t[2 * k]]
  BY <1>3 DEF EntriesOf
<1> QED BY <1>1, <1>2, <1>4

(* Only the list of nothing has no other token than its brackets. *)
LEMMA OnlyBrackets ==
  ASSUME NEW E, NEW e \in Seq(E), NEW t, Listed(t, e), \A x \in E : IsEntry(x)
  PROVE  /\ t # <<>> /\ Last(t) = Mark("]")
         /\ Range(t) \subseteq {Mark("["), Mark("]")} <=> e = <<>>
<1> DEFINE n == Len(e)
<1>1. n \in Nat /\ (e = <<>> <=> n = 0) /\ \A i \in 1 .. n : e[i] \in E
  OBVIOUS
<1> HIDE DEF n
<1>2. /\ t \in Seq(Range(t)) /\ (n = 0 => Len(t) = 2) /\ (n # 0 => Len(t) = 2 * n + 1)
      /\ t[1] = Mark("[") /\ t[Len(t)] = Mark("]")
      /\ \A i \in 1 .. n : t[2 * i] = e[i]
  BY DEF Listed, n
<1>3. Len(t) \in Nat /\ Len(t) >= 2
  <2>1. CASE n = 0
    BY <1>2, <2>1
  <2>2. CASE n # 0
    <3>1. 2 * n + 1 >= 2 /\ 2 * n + 1 \in Nat
      BY <1>1, <2>2
    <3> QED BY <1>2, <2>2, <3>1
  <2> QED BY <2>1, <2>2
<1>4. t # <<>> /\ Last(t) = Mark("]")
  BY <1>2, <1>3 DEF Last
<1>5. n = 0 => Range(t) \subseteq {Mark("["), Mark("]")}
  <2> SUFFICES ASSUME n = 0, NEW i \in DOMAIN t PROVE t[i] \in {Mark("["), Mark("]")}
    BY DEF Range
  <2>1. i = 1 \/ i = 2
    BY <1>2
  <2> QED BY <1>2, <2>1
<1>6. n # 0 => ~(Range(t) \subseteq {Mark("["), Mark("]")})
  <2> SUFFICES ASSUME n # 0 PROVE \E x \in Range(t) : x \notin {Mark("["), Mark("]")}
    OBVIOUS
  <2>1. 1 \in 1 .. n /\ 2 * 1 = 2 /\ 2 \in 1 .. Len(t)
    BY <1>1, <1>3
  <2>2. t[2] = e[1] /\ IsEntry(e[1])
    BY <1>1, <1>2, <2>1
  <2>3. t[2] \in Range(t)
    BY <1>2, <2>1 DEF Range
  <2>4. ~IsEntry(Mark("[")) /\ ~IsEntry(Mark("]"))
    BY DEF IsEntry, Mark
  <2> QED BY <2>2, <2>3, <2>4
<1> QED BY <1>1, <1>4, <1>5, <1>6

-----------------------------------------------------------------------------
(* The log holds what the calls have collected. *)

AllEntries == UNION {Range(Entries[c]) : c \in Call}

(* The actions of some calls, and a list of entries that has each of them. *)
ActionsOf(S) == UNION {{<<c, k>> : k \in DOMAIN Entries[c]} : c \in S}

(* b numbers the actions of S by the entries of found. *)
Matches(found, b, S) ==
  /\ \A i \in DOMAIN found : b[i] \in ActionsOf(S) /\ found[i] = Entries[b[i][1]][b[i][2]]
  /\ \A i, j \in DOMAIN found : b[i] = b[j] => i = j
  /\ \A p \in ActionsOf(S) : \E i \in DOMAIN found : b[i] = p

LEMMA ActionsOfCalls ==
  ASSUME NEW S, NEW p
  PROVE  p \in ActionsOf(S) <=> \E c \in S : \E k \in DOMAIN Entries[c] : p = <<c, k>>
BY DEF ActionsOf

LEMMA MatchesNone == ASSUME NEW b PROVE Matches(<<>>, b, {})
BY DEF Matches, ActionsOf

LEMMA EntriesTyped ==
  ASSUME NEW c \in Call
  PROVE  Entries[c] \in Seq(AllEntries) /\ \A x \in AllEntries : IsEntry(x)
<1>1. ASSUME NEW d \in Call
      PROVE  Entries[d] \in Seq(Range(Entries[d])) /\ \A x \in Range(Entries[d]) : IsEntry(x)
  BY EntriesHold DEF Range
<1>2. Range(Entries[c]) \subseteq AllEntries
  BY DEF AllEntries
<1>3. \A S, T : \A s \in Seq(S) : S \subseteq T => s \in Seq(T)
  OBVIOUS
<1>4. Entries[c] \in Seq(AllEntries)
  BY <1>1, <1>2, <1>3
<1>5. \A x \in AllEntries : IsEntry(x)
  BY <1>1 DEF AllEntries
<1> QED BY <1>4, <1>5

(* The actions of a call that has not written yet come after all others. *)
LEMMA MatchGrows ==
  ASSUME NEW S, NEW found \in Seq(AllEntries), NEW b, Matches(found, b, S), NEW c \in Call, c \notin S
  PROVE  \E b2 : Matches(found \o Entries[c], b2, S \cup {c})
<1> DEFINE n == Len(found)
           e == Entries[c]
           m == Len(e)
           all == found \o e
           b2 == [i \in DOMAIN all |-> IF i <= n THEN b[i] ELSE <<c, i - n>>]
<1>1. e \in Seq(AllEntries)
  BY EntriesTyped
<1> HIDE DEF e
<1>2. /\ n \in Nat /\ m \in Nat /\ DOMAIN found = 1 .. n /\ DOMAIN e = 1 .. m
      /\ all \in Seq(AllEntries) /\ DOMAIN all = 1 .. n + m
      /\ \A i \in 1 .. n : all[i] = found[i]
      /\ \A i \in 1 .. n + m : i \notin 1 .. n => all[i] = e[i - n]
  BY <1>1
<1> HIDE DEF n, m, all
<1>3. /\ \A i \in 1 .. n : i \in 1 .. n + m /\ b2[i] = b[i]
      /\ \A i \in 1 .. n + m : i \notin 1 .. n => b2[i] = <<c, i - n>> /\ i - n \in 1 .. m
      /\ \A k \in 1 .. m : n + k \in 1 .. n + m /\ n + k \notin 1 .. n /\ b2[n + k] = <<c, k>>
  BY <1>2
<1> HIDE DEF b2
<1>4. ASSUME NEW p
      PROVE  p \in ActionsOf(S \cup {c}) <=> p \in ActionsOf(S) \/ \E k \in 1 .. m : p = <<c, k>>
  <2>1. DOMAIN Entries[c] = 1 .. m
    BY <1>2 DEF e
  <2>2. p \in ActionsOf(S) <=> \E d \in S : \E k \in DOMAIN Entries[d] : p = <<d, k>>
    BY ActionsOfCalls
  <2>3. p \in ActionsOf(S \cup {c}) <=> \E d \in S \cup {c} : \E k \in DOMAIN Entries[d] : p = <<d, k>>
    BY ActionsOfCalls
  <2>4. (\E d \in S \cup {c} : \E k \in DOMAIN Entries[d] : p = <<d, k>>)
          <=> (\E d \in S : \E k \in DOMAIN Entries[d] : p = <<d, k>>) \/ \E k \in DOMAIN Entries[c] : p = <<c, k>>
    OBVIOUS
  <2> QED BY <2>1, <2>2, <2>3, <2>4
<1>5. ASSUME NEW i \in 1 .. n
      PROVE  b2[i] \in ActionsOf(S) /\ all[i] = Entries[b2[i][1]][b2[i][2]]
  BY <1>2, <1>3 DEF Matches
<1>6. ASSUME NEW i \in 1 .. n + m, i \notin 1 .. n
      PROVE  b2[i] = <<c, i - n>> /\ i - n \in 1 .. m /\ all[i] = Entries[b2[i][1]][b2[i][2]]
  BY <1>2, <1>3, <1>6 DEF e
<1>7. ASSUME NEW k PROVE <<c, k>> \notin ActionsOf(S)
  BY ActionsOfCalls
<1>8. ASSUME NEW i \in 1 .. n + m
      PROVE  b2[i] \in ActionsOf(S \cup {c}) /\ all[i] = Entries[b2[i][1]][b2[i][2]]
  BY <1>4, <1>5, <1>6
<1>9. ASSUME NEW i \in 1 .. n + m, NEW j \in 1 .. n + m, b2[i] = b2[j] PROVE i = j
  <2>1. CASE i \in 1 .. n /\ j \in 1 .. n
    BY <1>2, <1>3, <1>9, <2>1 DEF Matches
  <2>2. CASE i \in 1 .. n /\ j \notin 1 .. n
    BY <1>5, <1>6, <1>7, <1>9, <2>2
  <2>3. CASE i \notin 1 .. n /\ j \in 1 .. n
    BY <1>5, <1>6, <1>7, <1>9, <2>3
  <2>4. CASE i \notin 1 .. n /\ j \notin 1 .. n
    <3>1. i - n = j - n
      BY <1>6, <1>9, <2>4
    <3> QED BY <1>2, <3>1
  <2> QED BY <2>1, <2>2, <2>3, <2>4
<1>10. ASSUME NEW p \in ActionsOf(S \cup {c}) PROVE \E i \in 1 .. n + m : b2[i] = p
  <2>1. CASE p \in ActionsOf(S)
    <3>1. PICK i \in 1 .. n : b[i] = p
      BY <1>2, <2>1 DEF Matches
    <3> QED BY <1>3, <3>1
  <2>2. CASE \E k \in 1 .. m : p = <<c, k>>
    BY <1>3, <2>2
  <2> QED BY <1>4, <2>1, <2>2
<1>11. Matches(all, b2, S \cup {c})
  BY <1>2, <1>8, <1>9, <1>10 DEF Matches
<1> QED BY <1>11 DEF all, e

-----------------------------------------------------------------------------
(* Unless a writer was killed, the log is the list of what was collected. *)
LogIs(found) == (log = <<>> /\ found = <<>>) \/ log = ListTokens(found)

(* The invariant of the log, on which the lock and the plan of the writer
   (LoggerInv) are needed to keep it. *)
LogKept == ~torn => \E found \in Seq(AllEntries) : \E b : LogIs(found) /\ Matches(found, b, logged)

(* A call that has written is past its write, so it is logged once. *)
LoggedLater ==
  /\ logged \subseteq Call
  /\ \A c \in logged : callAt[c] \in {"unlock", "running", "ended", "killed"}

(* What a call without actions writes is nothing, and what the others write
   over the end of the log makes it the longer list. *)
LEMMA LogGrows ==
  ASSUME NEW found \in Seq(AllEntries), LogIs(found), NEW c \in Call
  PROVE  LET w == writeActions(c)
             t == SubSeq(log, 1, w.keep) \o SubSeq(w.text, 1, Len(w.text))
         IN \/ t = <<>> /\ found \o Entries[c] = <<>>
            \/ t = ListTokens(found \o Entries[c])
<1> DEFINE e == Entries[c]
           w == writeActions(c)
           t == SubSeq(log, 1, w.keep) \o SubSeq(w.text, 1, Len(w.text))
<1>1. /\ e \in Seq(AllEntries) /\ \A x \in AllEntries : IsEntry(x)
      /\ loggerCollectActionsByProgName[c] = <<>> => e = <<>>
  BY EntriesTyped, EntriesHold
<1>2. Listed(ListTokens(found), found)
  BY ListTokensListed
<1>3. /\ ListTokens(found) # <<>> /\ Last(ListTokens(found)) = Mark("]")
      /\ Range(ListTokens(found)) \subseteq {Mark("["), Mark("]")} <=> found = <<>>
  BY <1>1, <1>2, OnlyBrackets
<1>4. log \in Seq(Range(log))
  <2>1. <<>> \in Seq(Range(<<>>))
    OBVIOUS
  <2>2. ListTokens(found) \in Seq(Range(ListTokens(found)))
    BY <1>2 DEF Listed
  <2> QED BY <2>1, <2>2 DEF LogIs
<1>5. CASE loggerCollectActionsByProgName[c] = <<>>
  <2>1. w.keep = Len(log) /\ w.text = <<>>
    BY <1>5 DEF writeActions
  <2>2. t = log
    BY <1>4, <2>1
  <2>3. found \o e = found
    BY <1>1, <1>5
  <2> HIDE DEF t, w
  <2> QED BY <2>2, <2>3 DEF LogIs, t, w, e
<1>6. CASE loggerCollectActionsByProgName[c] # <<>> /\ log = <<>>
  <2>1. found = <<>>
    BY <1>3, <1>6 DEF LogIs
  <2>2. w.keep = 0 /\ w.text = ListTokens(e)
    <3>1. Range(log) = {}
      BY <1>6 DEF Range
    <3>2. Range(log) \subseteq {Mark("["), Mark("]")} <=> TRUE
      BY <3>1
    <3>3. /\ w.keep = Len(log)
          /\ w.text = <<Mark("[")>> \o writeAction(Entries[c], Range(log) \subseteq {Mark("["), Mark("]")})
                        \o <<Mark("]")>>
      BY <1>6 DEF writeActions
    <3> HIDE DEF w
    <3> QED BY <1>6, <3>2, <3>3 DEF ListTokens
  <2>3. ListTokens(e) \in Seq(Range(ListTokens(e)))
    BY <1>1, ListTokensListed DEF Listed
  <2>4. t = ListTokens(e)
    <3> HIDE DEF w
    <3> QED BY <1>6, <2>2, <2>3
  <2>5. found \o e = e
    BY <1>1, <2>1
  <2> HIDE DEF t, w
  <2> QED BY <2>4, <2>5 DEF t, w, e
<1>7. CASE loggerCollectActionsByProgName[c] # <<>> /\ log # <<>>
  <2>1. log = ListTokens(found)
    BY <1>7 DEF LogIs
  <2>2. /\ w.keep = Len(log) - 1
        /\ w.text = <<>> \o writeAction(e, found = <<>>) \o <<Mark("]")>>
    <3>1. (Range(log) \subseteq {Mark("["), Mark("]")}) = (found = <<>>)
      BY <1>3, <2>1
    <3> QED BY <1>3, <1>7, <2>1, <3>1 DEF writeActions
  <2>3. w.text = writeAction(e, found = <<>>) \o <<Mark("]")>>
    BY <2>2
  <2> DEFINE u == SubSeq(log, 1, Len(log) - 1)
             v == writeAction(e, found = <<>>)
             x == <<Mark("]")>>
  <2>4. Listed(u \o v \o x, found \o e)
    BY <1>1, <1>2, <2>1, ListGrows
  <2>5. Listed(ListTokens(found \o e), found \o e) /\ Len(found \o e) \in Nat
    <3>1. found \o e \in Seq(AllEntries)
      BY <1>1
    <3>2. Len(found \o e) \in Nat
      BY <3>1
    <3> HIDE DEF e
    <3> QED BY <3>1, <3>2, ListTokensListed
  <2>6. u \o v \o x = ListTokens(found \o e)
    <3> HIDE DEF u, v, x, e
    <3> QED BY <2>4, <2>5, ListedOnce
  <2>7. PICK S : u \in Seq(S) /\ v \in Seq(S) /\ x \in Seq(S)
    <3>1. v \in Seq(Range(v))
      <4>1. Later(writeAction(e, FALSE), e) /\ First(writeAction(e, TRUE), e)
        BY <1>1, WrittenActions
      <4>2. v = writeAction(e, FALSE) \/ v = writeAction(e, TRUE)
        OBVIOUS
      <4> QED BY <4>1, <4>2 DEF Later, First
    <3>2. u \in Seq(Range(log))
      <4>1. Len(log) - 1 \in 0 .. Len(log)
        BY <1>4, <1>7
      <4> QED BY <1>4, <4>1
    <3>3. x \in Seq({Mark("]")})
      OBVIOUS
    <3>4. \A R, T : \A s \in Seq(R) : R \subseteq T => s \in Seq(T)
      OBVIOUS
    <3> DEFINE T == Range(v) \cup Range(log) \cup {Mark("]")}
    <3>5. u \in Seq(T) /\ v \in Seq(T) /\ x \in Seq(T)
      <4>1. Range(v) \subseteq T /\ Range(log) \subseteq T /\ {Mark("]")} \subseteq T
        OBVIOUS
      <4> HIDE DEF T, u, v, x
      <4> QED BY <3>1, <3>2, <3>3, <3>4, <4>1
    <3> QED BY <3>5
  <2>8. (u \o v) \o x = u \o (v \o x) /\ v \o x \in Seq(S)
    <3> HIDE DEF u, v, x
    <3> QED BY <2>7
  <2>9. t = u \o (v \o x)
    <3>1. w.text = v \o x /\ w.keep = Len(log) - 1
      BY <2>2, <2>3
    <3>2. SubSeq(v \o x, 1, Len(v \o x)) = v \o x
      <4> HIDE DEF v, x
      <4> QED BY <2>8
    <3>3. t = SubSeq(log, 1, w.keep) \o SubSeq(w.text, 1, Len(w.text))
      OBVIOUS
    <3> HIDE DEF v, x, w, t
    <3> QED BY <3>1, <3>2, <3>3
  <2> HIDE DEF t, u, v, x, w
  <2> QED BY <2>6, <2>8, <2>9 DEF t, w, e
<1> QED BY <1>5, <1>6, <1>7

LEMMA WriteKeepsLog ==
  ASSUME LoggerInv, LogKept, LoggedLater, NEW c \in Call, Write(c)
  PROVE  LogKept'
<1>1. c \notin logged /\ logged' = logged \cup {c} /\ torn' = torn /\ plan[c] = writeActions(c)
  BY DEF Write, LoggedLater, LoggerInv, PlanFitsLog
<1>2. log' = SubSeq(log, 1, writeActions(c).keep)
               \o SubSeq(writeActions(c).text, 1, Len(writeActions(c).text))
  BY <1>1 DEF Write, Written
<1>3. ASSUME NEW found \in Seq(AllEntries), NEW b, LogIs(found), Matches(found, b, logged), ~torn
      PROVE  \E all \in Seq(AllEntries) : \E b2 : LogIs(all)' /\ Matches(all, b2, logged')
  <2> DEFINE all == found \o Entries[c]
  <2>1. all \in Seq(AllEntries)
    BY EntriesTyped
  <2>2. (log' = <<>> /\ all = <<>>) \/ log' = ListTokens(all)
    BY <1>2, <1>3, LogGrows
  <2>3. \E b2 : Matches(all, b2, logged \cup {c})
    BY <1>1, <1>3, MatchGrows
  <2> HIDE DEF all
  <2> QED BY <1>1, <2>1, <2>2, <2>3 DEF LogIs
<1> QED BY <1>1, <1>3 DEF LogKept

LEMMA LogStepKept ==
  ASSUME LoggerInv, LogKept, LoggedLater, NEW c \in Call, CallStep(c) \/ Kill(c)
  PROVE  LogKept' /\ LoggedLater'
<1>1. CASE Write(c)
  <2>1. LoggedLater'
    BY <1>1 DEF Write, Proceed, LoggedLater, LoggerInv, LoggerTypes
  <2> QED BY <1>1, <2>1, WriteKeepsLog
<1>2. CASE ~Write(c)
  <2>1. logged' = logged /\ (torn' \/ (torn' = torn /\ log' = log))
    BY <1>2 DEF CallStep, Kill, MakeCall, aquireLock, logExecFails, Collect, AskCompiler, Seek,
                freeLock, ProgramEnds, buildHistory
  <2>2. LogKept'
    BY <2>1 DEF LogKept, LogIs
  <2>3. PICK label : callAt' = [callAt EXCEPT ![c] = label]
    BY <1>2 DEF CallStep, Kill, MakeCall, aquireLock, logExecFails, Collect, AskCompiler, Seek,
                freeLock, ProgramEnds, Proceed
  <2>4. c \in logged => callAt'[c] \in {"unlock", "running", "ended", "killed"}
    BY <1>2 DEF CallStep, Kill, MakeCall, aquireLock, logExecFails, Collect, AskCompiler, Seek,
                freeLock, ProgramEnds, Proceed, LoggedLater, LoggerInv, LoggerTypes
  <2>5. LoggedLater'
    BY <2>1, <2>3, <2>4 DEF LoggedLater, LoggerInv, LoggerTypes
  <2> QED BY <2>2, <2>5
<1> QED BY <1>1, <1>2

(* Equal entries are as many in the log as among the actions. *)
LEMMA EquallyMany ==
  ASSUME NEW found \in Seq(AllEntries), NEW b, Matches(found, b, logged), NEW e
  PROVE  Cardinality({i \in DOMAIN found : found[i] = e})
           = Cardinality({p \in Collected : Entries[p[1]][p[2]] = e})
<1> DEFINE I == {i \in DOMAIN found : found[i] = e}
           P == {p \in Collected : Entries[p[1]][p[2]] = e}
           f == [i \in I |-> b[i]]
<1>1. Collected = ActionsOf(logged)
  BY DEF Collected, ActionsOf
<1>2. IsFiniteSet(I)
  <2>1. Len(found) \in Nat /\ DOMAIN found = 1 .. Len(found)
    OBVIOUS
  <2>2. IsFiniteSet(DOMAIN found)
    BY <2>1, FS_Interval
  <2> QED BY <2>2, FS_Subset
<1>3. f \in [I -> P]
  BY <1>1 DEF Matches
<1>4. \A i, j \in I : f[i] = f[j] => i = j
  BY DEF Matches
<1>5. \A p \in P : \E i \in I : f[i] = p
  BY <1>1 DEF Matches
<1> HIDE DEF f, I, P
<1>6. f \in Bijection(I, P)
  BY <1>3, <1>4, <1>5 DEF Bijection, Injection, Surjection, IsInjective
<1>7. ExistsBijection(I, P)
  BY <1>6 DEF ExistsBijection
<1> QED BY <1>2, <1>7, FS_Bijection DEF I, P

(* The reader of the log finds the entries. *)
LEMMA LogHolds ==
  ASSUME NEW found \in Seq(AllEntries), LogIs(found)
  PROVE  EntriesOf(log) = found
<1>1. Listed(ListTokens(found), found)
  BY ListTokensListed
<1>2. CASE log = ListTokens(found)
  BY <1>1, <1>2, EntriesOfList
<1>3. CASE log = <<>> /\ found = <<>>
  <2>1. (Len(<<>>) - 1) \div 2 < 1
    OBVIOUS
  <2>2. 1 .. (Len(<<>>) - 1) \div 2 = {}
    BY <2>1
  <2>3. \A S : S = {} => [k \in S |-> log[2 * k]] = <<>>
    OBVIOUS
  <2> QED BY <1>3, <2>2, <2>3 DEF EntriesOf
<1> QED BY <1>2, <1>3 DEF LogIs

LEMMA LogIsComplete == ASSUME LogKept PROVE LogComplete
<1> SUFFICES ASSUME ~torn
             PROVE  /\ log # <<>> => IsList(log)
                    /\ \A e : Cardinality({i \in DOMAIN EntriesOf(log) : EntriesOf(log)[i] = e})
                                = Cardinality({p \in Collected : Entries[p[1]][p[2]] = e})
  BY DEF LogComplete
<1>0. PICK found \in Seq(AllEntries) : \E b : LogIs(found) /\ Matches(found, b, logged)
  BY DEF LogKept
<1>1. PICK b : LogIs(found) /\ Matches(found, b, logged)
  BY <1>0
<1>2. EntriesOf(log) = found
  BY <1>1, LogHolds
<1>3. log # <<>> => IsList(log)
  <2>1. \A k \in DOMAIN found : found[k] \in AllEntries
    OBVIOUS
  <2>2. Call # {} => \A x \in AllEntries : IsEntry(x)
    BY EntriesTyped
  <2>3. \A x \in AllEntries : IsEntry(x)
    BY <2>2 DEF AllEntries
  <2> QED BY <1>1, <1>2, <2>1, <2>3 DEF LogIs, IsList
<1> QED BY <1>1, <1>2, <1>3, EquallyMany

-----------------------------------------------------------------------------
(* What the Java parser reads from the log. *)

FilesFold(base, entries) == FoldLeft(AddJavaFile, base, entries)

FilesTrace(f, base, entries) ==
  f[0] = base /\ \A k \in 1 .. Len(entries) : f[k] = AddJavaFile(f[k - 1], entries[k])

(* The states of parseCompileCommands, entry by entry. *)
LEMMA FoldOfAddJavaFile ==
  ASSUME NEW W, NEW entries \in Seq(W), NEW S, NEW base \in S,
         \A s \in S, w \in W : AddJavaFile(s, w) \in S
  PROVE  \E f \in [0 .. Len(entries) -> S] :
           FilesTrace(f, base, entries) /\ FilesFold(base, entries) = f[Len(entries)]
<1> DEFINE n == Len(entries)
           g == [k \in 1 .. n |-> [s \in S |-> AddJavaFile(s, entries[k])]]
           iter == CHOOSE iter : iter = [s \in SUBSET DOMAIN entries |->
                     IF s = {} THEN base ELSE AddJavaFile(iter[s \ {Max(s)}], entries[Max(s)])]
           step == [s \in SUBSET (1 .. n) |-> AddJavaFile(iter[s \ {Max(s)}], entries[Max(s)])]
           at == [k \in 0 .. n |-> iter[1 .. k]]
<1>1. n \in Nat /\ DOMAIN entries = 1 .. n /\ \A k \in 1 .. n : entries[k] \in W
  OBVIOUS
<1>2. PICK f \in [SUBSET (1 .. n) -> S] : IsFold(f, n, base, g)
  <2>1. g \in [1 .. n -> [S -> S]]
    BY <1>1
  <2> HIDE DEF g, n
  <2> QED BY <1>1, <2>1, FoldExists
<1>3. f = [s \in SUBSET DOMAIN entries |->
             IF s = {} THEN base ELSE AddJavaFile(f[s \ {Max(s)}], entries[Max(s)])]
  <2>1. ASSUME NEW s \in SUBSET (1 .. n), s # {}
        PROVE  g[Max(s)][f[s \ {Max(s)}]] = AddJavaFile(f[s \ {Max(s)}], entries[Max(s)])
    <3>1. Max(s) \in 1 .. n
      BY <1>1, <2>1, MaxOfNumbers
    <3>2. f[s \ {Max(s)}] \in S
      BY <1>2
    <3> HIDE DEF n
    <3> QED BY <3>1, <3>2
  <2>2. \A s \in SUBSET (1 .. n) :
          f[s] = IF s = {} THEN base ELSE AddJavaFile(f[s \ {Max(s)}], entries[Max(s)])
    BY <1>2, <2>1 DEF IsFold
  <2> QED BY <1>1, <2>2
<1>4. iter = [s \in SUBSET DOMAIN entries |->
                IF s = {} THEN base ELSE AddJavaFile(iter[s \ {Max(s)}], entries[Max(s)])]
  BY <1>3
<1>5. FilesFold(base, entries) = iter[1 .. n]
  BY <1>1 DEF FilesFold, FoldLeft, MapThenFoldSet
<1>6. Folds(iter, n, base, step)
  <2> HIDE DEF iter, n
  <2> QED BY <1>1, <1>4 DEF Folds
<1>7. \A k \in 1 .. n : step[1 .. k] = AddJavaFile(iter[1 .. k - 1], entries[k])
  <2> HIDE DEF iter, n
  <2>1. ASSUME NEW k \in 1 .. n PROVE step[1 .. k] = AddJavaFile(iter[1 .. k - 1], entries[k])
    <3>1. /\ 1 .. k \in SUBSET (1 .. n) /\ Max(1 .. k) = k
          /\ (1 .. k) \ {k} = 1 .. k - 1
      BY <1>1, FirstNumbers
    <3> QED BY <3>1
  <2> QED BY <2>1
<1>8. \A k \in 1 .. n : iter[1 .. k - 1] \in S => step[1 .. k] \in S
  <2> HIDE DEF iter, step, n
  <2> QED BY <1>1, <1>7
<1>9. /\ iter[1 .. 0] = base
      /\ \A k \in 1 .. n : iter[1 .. k] = step[1 .. k]
      /\ \A k \in 0 .. n : iter[1 .. k] \in S
  <2> HIDE DEF iter, step, n
  <2> QED BY <1>1, <1>6, <1>8, FoldStays
<1>10. at \in [0 .. n -> S] /\ at[0] = base /\ iter[1 .. n] = at[n]
  <2> HIDE DEF iter, step, n
  <2> QED BY <1>1, <1>9
<1>11. ASSUME NEW k \in 1 .. n PROVE at[k] = AddJavaFile(at[k - 1], entries[k])
  <2>1. k \in 0 .. n /\ k - 1 \in 0 .. n
    BY <1>1
  <2> HIDE DEF iter, step, n
  <2>2. at[k] = iter[1 .. k] /\ at[k - 1] = iter[1 .. k - 1]
    BY <2>1
  <2> QED BY <1>7, <1>9, <2>2, Zenon
<1> HIDE DEF at, iter
<1> QED BY <1>5, <1>10, <1>11 DEF FilesTrace


AllFiles == {e.file : e \in AllEntries}

(* The Java entries of the log are the files that are parsed. *)
LEMMA JavaFilesHold ==
  ASSUME NEW entries \in Seq(AllEntries), EntriesOf(log) = entries
  PROVE  /\ JavaFiles \in Seq(AllFiles)
         /\ \A j \in DOMAIN entries : Extension[entries[j].file] = "java" =>
              entries[j].file \in Range(JavaFiles)
<1> DEFINE S == Seq(AllFiles)
           n == Len(entries)
<1>1. n \in Nat /\ DOMAIN entries = 1 .. n /\ \A j \in 1 .. n : entries[j] \in AllEntries
  OBVIOUS
<1>2. <<>> \in S /\ \A s \in S, e \in AllEntries : AddJavaFile(s, e) \in S
  BY DEF AddJavaFile, AllFiles
<1>3. PICK f \in [0 .. n -> S] : FilesTrace(f, <<>>, entries) /\ FilesFold(<<>>, entries) = f[n]
  <2> HIDE DEF S
  <2> QED BY <1>2, FoldOfAddJavaFile
<1>4. JavaFiles = f[n]
  BY <1>3 DEF JavaFiles, FilesFold
<1>5. f[0] = <<>> /\ \A k \in 1 .. n : f[k] = AddJavaFile(f[k - 1], entries[k])
  BY <1>3 DEF FilesTrace
<1>6. ASSUME NEW s \in S, NEW e \in AllEntries
      PROVE  /\ Range(s) \subseteq Range(AddJavaFile(s, e))
             /\ Extension[e.file] = "java" => e.file \in Range(AddJavaFile(s, e))
  <2>1. CASE Extension[e.file] = "java"
    <3>1. AddJavaFile(s, e) = Append(s, e.file)
      BY <2>1 DEF AddJavaFile
    <3>2. /\ DOMAIN Append(s, e.file) = 1 .. Len(s) + 1 /\ DOMAIN s = 1 .. Len(s) /\ Len(s) \in Nat
          /\ \A i \in 1 .. Len(s) : Append(s, e.file)[i] = s[i]
          /\ Append(s, e.file)[Len(s) + 1] = e.file
      OBVIOUS
    <3> QED BY <3>1, <3>2 DEF Range
  <2>2. CASE Extension[e.file] # "java"
    BY <2>2 DEF AddJavaFile
  <2> QED BY <2>1, <2>2
<1> DEFINE Holds(k) == \A j \in 1 .. k : Extension[entries[j].file] = "java" => entries[j].file \in Range(f[k])
           T == {k \in Nat : k <= n => Holds(k)}
<1>7. 0 \in T
  OBVIOUS
<1>8. ASSUME NEW k \in T PROVE k + 1 \in T
  <2> SUFFICES ASSUME k + 1 <= n PROVE Holds(k + 1)
    OBVIOUS
  <2>1. k \in Nat /\ k \in 0 .. n /\ k + 1 \in 1 .. n /\ (k + 1) - 1 = k
    BY <1>1
  <2>2. Holds(k)
    BY <1>1, <2>1
  <2>3. f[k] \in S /\ f[k + 1] = AddJavaFile(f[k], entries[k + 1]) /\ entries[k + 1] \in AllEntries
    BY <1>1, <1>3, <1>5, <2>1
  <2>4. Range(f[k]) \subseteq Range(f[k + 1])
    BY <1>6, <2>3
  <2>5. Extension[entries[k + 1].file] = "java" => entries[k + 1].file \in Range(f[k + 1])
    BY <1>6, <2>3
  <2> SUFFICES ASSUME NEW j \in 1 .. k + 1, Extension[entries[j].file] = "java"
               PROVE  entries[j].file \in Range(f[k + 1])
    OBVIOUS
  <2>6. CASE j = k + 1
    BY <2>5, <2>6
  <2>7. CASE j # k + 1
    <3>1. j \in 1 .. k
      BY <2>1, <2>7
    <3> QED BY <2>2, <2>4, <3>1
  <2> QED BY <2>6, <2>7
<1>9. n \in T
  <2> HIDE DEF T
  <2> QED BY <1>1, <1>7, <1>8, NatByStep
<1>10. Holds(n)
  BY <1>1, <1>9
<1>11. f[n] \in S
  BY <1>1, <1>3
<1> HIDE DEF n
<1> QED BY <1>1, <1>4, <1>10, <1>11

-----------------------------------------------------------------------------
(* The Java sources of the calls that are in the log. *)
IsCompiled(f) ==
  \E c \in logged : /\ Tool[c] = "javac"
                    /\ \E j \in DOMAIN Words[c] : IsJavaSource(Words[c], j) /\ f = Words[c][j].paths[1]

(* Each Java source that a logged call was given is read. *)
LEMMA CompiledAreRead ==
  ASSUME LogKept, ~torn, logged \subseteq Call
  PROVE  /\ JavaFiles \in Seq(AllFiles)
         /\ \A f : IsCompiled(f) => f \in Range(JavaFiles)
<1>0. PICK found \in Seq(AllEntries) : \E b : LogIs(found) /\ Matches(found, b, logged)
  BY DEF LogKept
<1>1. PICK b : LogIs(found) /\ Matches(found, b, logged)
  BY <1>0
<1>2. EntriesOf(log) = found
  BY <1>1, LogHolds
<1>3. ASSUME NEW f, IsCompiled(f) PROVE f \in Range(JavaFiles)
  <2>1. PICK c \in logged : /\ Tool[c] = "javac"
                            /\ \E j \in DOMAIN Words[c] : IsJavaSource(Words[c], j) /\ f = Words[c][j].paths[1]
    BY <1>3 DEF IsCompiled
  <2>2. PICK j \in DOMAIN Words[c] : IsJavaSource(Words[c], j) /\ f = Words[c][j].paths[1]
    BY <2>1
  <2>3. PICK k \in DOMAIN Entries[c] : Entries[c][k].file = f
    BY <2>1, <2>2, EntriesHold
  <2>4. <<c, k>> \in ActionsOf(logged)
    BY <2>3, ActionsOfCalls
  <2>5. PICK i \in DOMAIN found : b[i] = <<c, k>>
    BY <1>1, <2>4 DEF Matches
  <2>6. found[i] = Entries[b[i][1]][b[i][2]]
    BY <1>1, <2>5 DEF Matches
  <2>7. found[i].file = f /\ Extension[f] = "java"
    <3>1. found[i] = Entries[c][k]
      BY <2>5, <2>6
    <3>2. Extension[Words[c][j].paths[1]] = "java"
      BY <2>2 DEF IsJavaSource
    <3> QED BY <2>2, <2>3, <3>1, <3>2, Zenon
  <2> QED BY <1>2, <2>7, JavaFilesHold
<1> QED BY <1>2, <1>3, JavaFilesHold

-----------------------------------------------------------------------------
ParseJobs == {Job("parse", f) : f \in AllFiles}

Done == (actions \cap sources) \cup unparsed

Queued(f) == \E k \in DOMAIN queue : queue[k].file = f

(* A job is under way until its handler is given back, or for ever. *)
Busy == {"look", "reserve", "call", "answer", "store", "hung"}

UnderWay(f) == \E w \in Worker : pc[w] \in Busy /\ job[w].file = f

AtStart ==
  /\ queue = <<>>
  /\ pc = [w \in Worker |-> "idle"] /\ job = [w \in Worker |-> NoJob]

(* parse() before its pool has started: it knows every source. *)
Commands ==
  /\ AtStart /\ input \in Seq(AllFiles)
  /\ \A f : IsCompiled(f) => f \in Range(input)

(* While the pool runs, a source is done, in the queue or with a thread. *)
Parsing ==
  /\ queue \in Seq(ParseJobs) /\ job \in [Worker -> ParseJobs \cup {NoJob}]
  /\ pc \in [Worker -> Busy \cup {"idle", "free"}]
  /\ \A w \in Worker : /\ pc[w] \in Busy => job[w] \in ParseJobs
                       /\ pc[w] \in {"answer", "store"} => job[w].file \in actions
  /\ \A f : IsCompiled(f) => f \in Done \/ Queued(f) \/ UnderWay(f)

Parsed == \A f : IsCompiled(f) => f \in Done

(* The invariant of the Java sources, by the stage of the system and the
   phase of parse(). *)
ParseKept ==
  /\ stage = "build" => phase = "commands" /\ AtStart
  /\ stage = "java" /\ ~torn =>
       /\ phase = "commands" => Commands
       /\ phase = "parsing" => Parsing
       /\ phase \notin {"commands", "parsing", "failed"} => Parsed

-----------------------------------------------------------------------------
(* One thread moves: what it leaves is done, under way with it, or in the queue. *)
LEMMA ParsingMoves ==
  ASSUME Parsing, NEW w \in Worker, NEW label \in Busy \cup {"idle", "free"}, Goto(w, label),
         NEW next \in ParseJobs \cup {NoJob}, job' = [job EXCEPT ![w] = next],
         label \in Busy => next \in ParseJobs,
         label \in {"answer", "store"} => next.file \in actions',
         queue' \in Seq(ParseJobs), logged' = logged,
         actions \subseteq actions', sources \subseteq sources', unparsed \subseteq unparsed',
         \A f : Queued(f) => Queued(f)' \/ (label \in Busy /\ next.file = f),
         pc[w] \in Busy => job[w].file \in Done' \/ (label \in Busy /\ next.file = job[w].file)
  PROVE  Parsing'
<1>1. pc' = [pc EXCEPT ![w] = label]
  BY DEF Goto
<1>2. pc'[w] = label /\ \A v \in Worker : v # w => pc'[v] = pc[v]
  BY <1>1 DEF Parsing
<1>3. job'[w] = next /\ \A v \in Worker : v # w => job'[v] = job[v]
  BY DEF Parsing
<1>4. /\ job' \in [Worker -> ParseJobs \cup {NoJob}]
      /\ pc' \in [Worker -> Busy \cup {"idle", "free"}]
  BY <1>1 DEF Parsing
<1>5. ASSUME NEW v \in Worker
      PROVE  /\ pc'[v] \in Busy => job'[v] \in ParseJobs
             /\ pc'[v] \in {"answer", "store"} => job'[v].file \in actions'
  BY <1>2, <1>3 DEF Parsing
<1>6. Done \subseteq Done'
  BY DEF Done
<1>7. ASSUME NEW f, IsCompiled(f)' PROVE f \in Done' \/ Queued(f)' \/ UnderWay(f)'
  <2>1. f \in Done \/ Queued(f) \/ UnderWay(f)
    BY <1>7 DEF Parsing, IsCompiled
  <2>2. CASE UnderWay(f)
    <3>1. PICK v \in Worker : pc[v] \in Busy /\ job[v].file = f
      BY <2>2 DEF UnderWay
    <3>2. CASE v = w
      BY <1>2, <1>3, <3>1, <3>2 DEF UnderWay
    <3>3. CASE v # w
      BY <1>2, <1>3, <3>1, <3>3 DEF UnderWay
    <3> QED BY <3>2, <3>3
  <2>3. CASE Queued(f)
    <3>1. label \in Busy /\ next.file = f => UnderWay(f)'
      BY <1>2, <1>3 DEF UnderWay
    <3> QED BY <2>3, <3>1
  <2> QED BY <1>6, <2>1, <2>2, <2>3
<1> QED BY <1>4, <1>5, <1>7 DEF Parsing

LEMMA ParsingTake ==
  ASSUME Parsing, NEW w \in Worker, Take(w), logged' = logged
  PROVE  Parsing'
<1>1. Goto(w, "look") /\ pc[w] = "idle" /\ UNCHANGED rows /\ unparsed' = unparsed
  BY DEF Take, At
<1>2. /\ job' = [job EXCEPT ![w] = Head(queue)] /\ queue' = Tail(queue) /\ queue # <<>>
      /\ queue \in Seq(ParseJobs)
  BY DEF Take, Parsing
<1>3. Head(queue) \in ParseJobs /\ Tail(queue) \in Seq(ParseJobs)
  BY <1>2
<1>4. ASSUME NEW f, Queued(f) PROVE Queued(f)' \/ Head(queue).file = f
  <2>1. PICK k \in 1 .. Len(queue) : queue[k].file = f
    BY <1>2, <1>4 DEF Queued
  <2>2. CASE k = 1
    BY <1>2, <2>1, <2>2
  <2>3. CASE k # 1
    <3>1. k - 1 \in DOMAIN Tail(queue) /\ Tail(queue)[k - 1] = queue[k]
      BY <1>2, <2>1, <2>3
    <3> QED BY <1>2, <2>1, <3>1 DEF Queued
  <2> QED BY <2>2, <2>3
<1>5. /\ "look" \in Busy /\ pc[w] \notin Busy /\ "look" \in Busy \cup {"idle", "free"}
      /\ "look" \notin {"answer", "store"}
  BY <1>1 DEF Busy
<1>6. queue' \in Seq(ParseJobs) /\ UNCHANGED <<actions, sources, unparsed>>
  BY <1>1, <1>2, <1>3 DEF rows
<1> QED BY <1>1, <1>2, <1>3, <1>4, <1>5, <1>6, ParsingMoves

(* A thread that keeps its job. *)
LEMMA ParsingStays ==
  ASSUME Parsing, NEW w \in Worker, NEW label \in Busy \cup {"idle", "free"}, Goto(w, label),
         UNCHANGED <<job, queue>>, logged' = logged,
         pc[w] \in Busy,
         label \in {"answer", "store"} => job[w].file \in actions',
         actions \subseteq actions', sources \subseteq sources', unparsed \subseteq unparsed',
         label \notin Busy => job[w].file \in Done'
  PROVE  Parsing'
<1>1. job' = [job EXCEPT ![w] = job[w]] /\ job[w] \in ParseJobs /\ queue' \in Seq(ParseJobs)
  BY DEF Parsing
<1>2. \A f : Queued(f) => Queued(f)'
  BY DEF Queued
<1> QED BY <1>1, <1>2, ParsingMoves

LEMMA ParsingReceive ==
  ASSUME Parsing, NEW w \in Worker, NEW file, Receive(w, file), logged' = logged
  PROVE  Parsing'
<1>1. /\ pc[w] = "answer" /\ job[w] \in ParseJobs /\ job[w].kind = "parse" /\ job[w].file \in actions
      /\ UNCHANGED <<queue, actions, sources>>
  BY DEF Receive, At, Parsing, Busy, ParseJobs, Job
<1> DEFINE label == CASE Answer[file].refused -> "free" [] job[w].kind = "parse" -> "store" [] OTHER -> "push"
<1>4. /\ Goto(w, label)
      /\ job' = IF Answer[file].refused THEN job ELSE [job EXCEPT ![w].file = file]
      /\ unparsed' = IF Answer[file].refused \/ file # job[w].file THEN unparsed \cup {job[w].file} ELSE unparsed
  BY DEF Receive
<1>2. CASE Answer[file].refused
  <2>1. label = "free" \/ label = "store"
    BY <1>1, <1>2
  <2>2. job' = job /\ unparsed' = unparsed \cup {job[w].file}
    BY <1>2, <1>4, Zenon
  <2>3. job[w].file \in Done' /\ unparsed \subseteq unparsed'
    BY <2>2 DEF Done
  <2> HIDE DEF label
  <2> QED BY <1>1, <1>4, <2>1, <2>2, <2>3, ParsingStays DEF Busy
<1>3. CASE ~Answer[file].refused
  <2> DEFINE next == Job("parse", file)
  <2>1. Goto(w, "store") /\ job' = [job EXCEPT ![w].file = file]
    <3>1. label = "store"
      BY <1>1, <1>3
    <3> HIDE DEF label
    <3> QED BY <1>3, <1>4, <3>1, Zenon
  <2>2. file \in {job[w].file} \cup {job[v].file : v \in Sharing(w)}
    BY DEF Receive
  <2>3. PICK v \in Worker : pc[v] = "answer" /\ file = job[v].file
    BY <1>1, <2>2 DEF Sharing
  <2>4. job[v] \in ParseJobs /\ file \in actions
    BY <2>3 DEF Parsing, Busy
  <2>5. next \in ParseJobs /\ next.file = file
    BY <2>3, <2>4 DEF ParseJobs, Job
  <2>6. job' = [job EXCEPT ![w] = next]
    <3>1. [job[w] EXCEPT !.file = file] = next
      BY <1>1 DEF ParseJobs, Job
    <3>2. job' = [job EXCEPT ![w] = [job[w] EXCEPT !.file = file]]
      BY <2>1 DEF Parsing
    <3> QED BY <3>1, <3>2, Zenon
  <2>7. queue' \in Seq(ParseJobs) /\ \A f : Queued(f) => Queued(f)'
    BY <1>1 DEF Parsing, Queued
  <2>8. unparsed \subseteq unparsed' /\ (file # job[w].file => job[w].file \in unparsed')
    BY <1>4
  <2> HIDE DEF next
  <2> QED BY <1>1, <2>1, <2>4, <2>5, <2>6, <2>7, <2>8, ParsingMoves DEF Busy, Done
<1> QED BY <1>2, <1>3

(* Every step of a thread of the pool. *)
LEMMA ParsingWorker ==
  ASSUME Parsing, phase = "parsing", NEW w \in Worker, WorkerStep(w), logged' = logged, phase' = phase
  PROVE  Parsing'
<1>1. CASE Take(w)
  BY <1>1, ParsingTake
<1>2. CASE Test(w)
  <2>1. PICK next \in AfterTest(w) :
          /\ Goto(w, next.pc)
          /\ unparsed' = IF next.pc = "idle" THEN unparsed \cup {job[w].file} ELSE unparsed
    BY <1>2 DEF Test
  <2>2. next.pc \in {"reserve", "look", "idle"}
    BY DEF AfterTest
  <2>3. pc[w] = "look" /\ UNCHANGED <<job, queue, actions, sources>>
    BY <1>2 DEF Test, At, rows
  <2> QED BY <2>1, <2>2, <2>3, ParsingStays DEF Busy, Done
<1>3. CASE Reserve(w)
  BY <1>3, ParsingStays DEF Reserve, At, rows, Busy
<1>4. CASE Send(w)
  <2>1. pc[w] = "call" /\ job[w].kind = "parse"
    BY <1>4 DEF Send, At, Parsing, Busy, ParseJobs, Job
  <2>2. actions' = actions \cup {job[w].file} /\ UNCHANGED <<job, queue, sources, unparsed>> /\ Goto(w, "answer")
    BY <1>4, <2>1 DEF Send, addBuildAction
  <2> QED BY <2>1, <2>2, ParsingStays DEF Busy
<1>5. ASSUME NEW f \in JavaFile, Receive(w, f) PROVE Parsing'
  BY <1>5, ParsingReceive
<1>6. CASE Terminate(w)
  BY <1>6 DEF Terminate
<1>7. CASE addCompileCommand(w)
  <2>1. pc[w] = "store" /\ job[w].file \in actions
    BY <1>7 DEF addCompileCommand, At, Parsing
  <2>2. /\ sources' = sources \cup {job[w].file} /\ UNCHANGED <<job, queue, actions, unparsed>>
        /\ Goto(w, "free")
    BY <1>7 DEF addCompileCommand
  <2> QED BY <2>1, <2>2, ParsingStays DEF Busy, Done
<1>8. CASE Push(w) \/ Pushed(w)
  BY <1>8 DEF Push, Pushed, At, Parsing, Busy
<1>9. CASE Hang(w)
  BY <1>9, ParsingStays DEF Hang, At, rows, Busy
<1>10. CASE setFree(w)
  <2>1. /\ pc[w] = "free" /\ Goto(w, "idle") /\ job' = [job EXCEPT ![w] = NoJob]
        /\ UNCHANGED <<queue, actions, sources, unparsed>>
    BY <1>10 DEF setFree, At, rows
  <2>2. queue' \in Seq(ParseJobs) /\ \A f : Queued(f) => Queued(f)'
    BY <2>1 DEF Parsing, Queued
  <2>3. /\ "idle" \notin Busy /\ pc[w] \notin Busy /\ "idle" \in Busy \cup {"idle", "free"}
        /\ "idle" \notin {"answer", "store"} /\ NoJob \in ParseJobs \cup {NoJob}
    BY <2>1 DEF Busy
  <2> QED BY <2>1, <2>2, <2>3, ParsingMoves
<1> QED BY <1>1, <1>2, <1>3, <1>4, <1>5, <1>6, <1>7, <1>8, <1>9, <1>10 DEF WorkerStep

(* What is done stays done. *)
LEMMA DoneGrows ==
  ASSUME JavaNext
  PROVE  Done \subseteq Done'
<1>1. actions \subseteq actions' /\ sources \subseteq sources' /\ unparsed \subseteq unparsed'
  <2>1. CASE ParseStep \/ ServerDies
    BY <2>1 DEF ParseStep, ServerDies, parseCompileCommands, decompileJar, parseJar, PoolDone, ConnectFails,
                Enqueue, rows
  <2>2. ASSUME NEW w \in Worker, WorkerStep(w)
        PROVE  actions \subseteq actions' /\ sources \subseteq sources' /\ unparsed \subseteq unparsed'
    <3>1. CASE Take(w) \/ Test(w) \/ Reserve(w) \/ Terminate(w) \/ Push(w) \/ Hang(w) \/ setFree(w)
      BY <3>1 DEF Take, Test, Reserve, Terminate, Push, Hang, setFree, rows
    <3>2. CASE Send(w)
      BY <3>2 DEF Send, addBuildAction
    <3>3. ASSUME NEW f, Receive(w, f)
          PROVE  actions \subseteq actions' /\ sources \subseteq sources' /\ unparsed \subseteq unparsed'
      <4>1. unparsed' = IF Answer[f].refused \/ f # job[w].file THEN unparsed \cup {job[w].file} ELSE unparsed
        BY <3>3 DEF Receive
      <4> QED BY <3>3, <4>1 DEF Receive
    <3>4. CASE addCompileCommand(w)
      BY <3>4 DEF addCompileCommand
    <3>5. CASE Pushed(w)
      BY <3>5 DEF Pushed, rows
    <3> QED BY <2>2, <3>1, <3>2, <3>3, <3>4, <3>5 DEF WorkerStep
  <2> QED BY <2>1, <2>2 DEF JavaNext
<1> QED BY <1>1 DEF Done

LEMMA ParsedStays ==
  ASSUME Parsed, JavaNext, logged' = logged
  PROVE  Parsed'
BY DoneGrows DEF Parsed, IsCompiled

(* parse() goes on. *)
LEMMA CommandsNext ==
  ASSUME Commands, phase = "commands", JavaNext, logged' = logged
  PROVE  \/ phase' = "commands" /\ Commands'
         \/ phase' = "parsing" /\ Parsing'
         \/ phase' = "jar" /\ Parsed'
         \/ phase' = "failed"
<1>1. CASE \E w \in Worker : WorkerStep(w)
  <2>1. \A w \in Worker : pc[w] = "idle" /\ queue = <<>>
    BY DEF Commands, AtStart
  <2> QED BY <1>1, <2>1 DEF WorkerStep, Take, Test, Reserve, Send, Receive, Terminate, addCompileCommand, Push,
                            Hang, Pushed, setFree, At
<1>2. CASE ServerDies
  BY <1>2 DEF ServerDies, Commands, AtStart, IsCompiled, pool
<1>3. CASE ConnectFails
  BY <1>3 DEF ConnectFails
<1>4. CASE parseCompileCommands /\ input = <<>>
  <2>1. phase' = "jar"
    BY <1>4 DEF parseCompileCommands, Enqueue
  <2>2. \A f : ~IsCompiled(f)
    BY <1>4 DEF Commands, Range
  <2> QED BY <2>1, <2>2 DEF Parsed, IsCompiled
<1>5. CASE parseCompileCommands /\ input # <<>>
  <2>1. /\ phase' = "parsing" /\ queue' = Jobs("parse", input)
        /\ UNCHANGED <<pc, job>>
    BY <1>5 DEF parseCompileCommands, Enqueue
  <2>2. input \in Seq(AllFiles) /\ DOMAIN input = 1 .. Len(input) /\ Len(input) \in Nat
        /\ \A k \in 1 .. Len(input) : input[k] \in AllFiles
    BY DEF Commands
  <2>3. queue' = [k \in 1 .. Len(input) |-> Job("parse", input[k])]
    BY <2>1, <2>2 DEF Jobs
  <2>4. \A k \in 1 .. Len(input) : Job("parse", input[k]) \in ParseJobs
    BY <2>2 DEF ParseJobs
  <2>5. queue' \in Seq(ParseJobs)
    BY <2>2, <2>3, <2>4
  <2>6. /\ job' \in [Worker -> ParseJobs \cup {NoJob}]
        /\ pc' \in [Worker -> Busy \cup {"idle", "free"}]
        /\ \A w \in Worker : pc'[w] = "idle"
    BY <2>1 DEF Commands, AtStart
  <2>7. ASSUME NEW f, IsCompiled(f)' PROVE Queued(f)'
    <3>1. PICK k \in 1 .. Len(input) : input[k] = f
      BY <2>2, <2>7 DEF Commands, IsCompiled, Range
    <3>2. queue'[k].file = f /\ k \in DOMAIN queue'
      BY <2>3, <3>1 DEF Job
    <3> QED BY <3>2 DEF Queued
  <2> QED BY <2>1, <2>5, <2>6, <2>7 DEF Parsing, Busy
<1>6. CASE decompileJar \/ parseJar \/ PoolDone
  BY <1>6 DEF decompileJar, parseJar, PoolDone, Enqueue
<1> QED BY <1>1, <1>2, <1>3, <1>4, <1>5, <1>6 DEF JavaNext, ParseStep

(* The pool goes on, or is joined with an empty queue and idle threads. *)
LEMMA ParsingNext ==
  ASSUME Parsing, phase = "parsing", JavaNext, logged' = logged
  PROVE  \/ phase' = "parsing" /\ Parsing'
         \/ phase' = "jar" /\ Parsed'
         \/ phase' = "failed"
<1>1. ASSUME NEW w \in Worker, WorkerStep(w)
      PROVE  (phase' = "parsing" /\ Parsing') \/ phase' = "failed"
  <2>1. phase' = phase \/ phase' = "failed"
    BY <1>1 DEF WorkerStep, Take, Test, Reserve, Send, Receive, Terminate, addCompileCommand, Push,
                Hang, Pushed, setFree
  <2> QED BY <1>1, <2>1, ParsingWorker
<1>2. CASE ServerDies
  <2>1. UNCHANGED <<phase, queue, pc, job, actions, sources, unparsed, logged>>
    BY <1>2 DEF ServerDies, pool, rows
  <2> QED BY <2>1 DEF Parsing, IsCompiled, Done, Queued, UnderWay
<1>3. CASE PoolDone
  <2>1. /\ queue = <<>> /\ (\A w \in Worker : pc[w] = "idle") /\ phase' = "jar"
        /\ UNCHANGED <<actions, sources, unparsed>>
    BY <1>3 DEF PoolDone, rows
  <2>2. \A f : ~Queued(f) /\ ~UnderWay(f)
    BY <2>1 DEF Queued, UnderWay, Busy
  <2> QED BY <2>1, <2>2 DEF Parsing, Parsed, IsCompiled, Done
<1>4. CASE parseCompileCommands \/ decompileJar \/ parseJar \/ ConnectFails
  BY <1>4 DEF parseCompileCommands, decompileJar, parseJar, Enqueue, ConnectFails
<1> QED BY <1>1, <1>2, <1>3, <1>4 DEF JavaNext, ParseStep

LEMMA FailedEnds == ASSUME JavaNext PROVE phase # "failed"
BY DEF JavaNext, ParseStep, ServerDies, parseCompileCommands, decompileJar, parseJar, PoolDone, ConnectFails,
       Enqueue, WorkerStep, Take, Test, Reserve, Send, Receive, Terminate, addCompileCommand, Push, Hang, Pushed,
       setFree, At, Working

LEMMA LaterPhases ==
  ASSUME JavaNext, phase \notin {"commands", "parsing"}
  PROVE  phase' \notin {"commands", "parsing"}
<1>1. CASE ParseStep \/ ServerDies
  BY <1>1 DEF ParseStep, ServerDies, parseCompileCommands, decompileJar, parseJar, PoolDone, ConnectFails, Enqueue
<1>2. ASSUME NEW w \in Worker, WorkerStep(w) PROVE phase' = phase \/ phase' = "failed"
  BY <1>2 DEF WorkerStep, Take, Test, Reserve, Send, Receive, Terminate, addCompileCommand, Push,
              Hang, Pushed, setFree
<1> QED BY <1>1, <1>2 DEF JavaNext

-----------------------------------------------------------------------------
(* The log and the Java sources through the stages of the system. *)
KeptInv == LogKept /\ LoggedLater /\ ParseKept

LEMMA KeptInitInv == Init => KeptInv
<1> SUFFICES ASSUME Init PROVE KeptInv
  OBVIOUS
<1>1. log = <<>> /\ logged = {}
  BY DEF Init, BuildInit
<1>2. Matches(<<>>, <<>>, logged)
  BY <1>1, MatchesNone
<1>3. LogKept
  <2>1. <<>> \in Seq(AllEntries)
    OBVIOUS
  <2> QED BY <1>1, <1>2, <2>1 DEF LogKept, LogIs
<1>4. LoggedLater
  BY <1>1 DEF LoggedLater
<1>5. ParseKept
  BY DEF Init, JavaInit, ParseKept, AtStart
<1> QED BY <1>3, <1>4, <1>5 DEF KeptInv

LEMMA KeptStepInv ==
  ASSUME LoggerInv, KeptInv, [Next]_vars
  PROVE  KeptInv'
<1>1. CASE BuildStep
  <2>1. PICK c \in Call : CallStep(c) \/ Kill(c)
    BY <1>1 DEF BuildStep
  <2>2. LogKept' /\ LoggedLater'
    BY <2>1, LogStepKept DEF KeptInv
  <2>3. stage = "build" /\ stage' = stage /\ UNCHANGED <<phase, queue, pc, job>>
    BY <1>1 DEF BuildStep, javaVars, pool
  <2>4. ParseKept'
    BY <2>3 DEF KeptInv, ParseKept, AtStart
  <2> QED BY <2>2, <2>4 DEF KeptInv
<1>2. CASE StartParse
  <2>1. /\ stage = "build" /\ stage' = "java" /\ UNCHANGED <<log, logged, torn, queue, pc, job>>
        /\ callAt' = [c \in Call |-> "ended"]
    BY <1>2 DEF StartParse, buildHistory, pool
  <2>2. LogKept' /\ LoggedLater'
    BY <2>1 DEF KeptInv, LogKept, LogIs, LoggedLater
  <2>3. phase = "commands" /\ AtStart
    BY <2>1 DEF KeptInv, ParseKept
  <2>4. CASE IsList(log)
    <3>1. input' = JavaFiles /\ phase' = "commands"
      BY <1>2, <2>3, <2>4 DEF StartParse
    <3>2. ASSUME ~torn' PROVE Commands'
      <4>1. JavaFiles \in Seq(AllFiles) /\ \A f : IsCompiled(f) => f \in Range(JavaFiles)
        BY <2>1, <3>2, CompiledAreRead DEF KeptInv, LoggedLater
      <4> QED BY <2>1, <2>3, <3>1, <4>1 DEF Commands, AtStart, IsCompiled
    <3>3. ParseKept'
      BY <2>1, <3>1, <3>2 DEF ParseKept
    <3> QED BY <2>2, <3>3 DEF KeptInv
  <2>5. CASE ~IsList(log)
    <3>1. phase' = "failed"
      BY <1>2, <2>5 DEF StartParse
    <3>2. ParseKept'
      BY <2>1, <3>1 DEF ParseKept
    <3> QED BY <2>2, <3>2 DEF KeptInv
  <2> QED BY <2>4, <2>5
<1>3. CASE JavaStep
  <2>1. stage = "java" /\ stage' = stage /\ JavaNext /\ UNCHANGED <<log, logged, torn, callAt>>
    BY <1>3 DEF JavaStep, buildVars, buildHistory
  <2>2. LogKept' /\ LoggedLater'
    BY <2>1 DEF KeptInv, LogKept, LogIs, LoggedLater
  <2>3. ASSUME ~torn, phase = "commands" PROVE ParseKept'
    <3>1. Commands
      BY <2>1, <2>3 DEF KeptInv, ParseKept
    <3> QED BY <2>1, <2>3, <3>1, CommandsNext DEF ParseKept
  <2>4. ASSUME ~torn, phase = "parsing" PROVE ParseKept'
    <3>1. Parsing
      BY <2>1, <2>4 DEF KeptInv, ParseKept
    <3> QED BY <2>1, <2>4, <3>1, ParsingNext DEF ParseKept
  <2>5. ASSUME ~torn, phase \notin {"commands", "parsing"} PROVE ParseKept'
    <3>1. phase' \notin {"commands", "parsing"}
      BY <2>1, <2>5, LaterPhases
    <3>2. Parsed
      BY <2>1, <2>5, FailedEnds DEF KeptInv, ParseKept
    <3>3. Parsed'
      BY <2>1, <3>2, ParsedStays
    <3> QED BY <2>1, <3>1, <3>3 DEF ParseKept
  <2>6. ASSUME torn PROVE ParseKept'
    BY <2>1, <2>6 DEF ParseKept
  <2> QED BY <2>2, <2>3, <2>4, <2>5, <2>6 DEF KeptInv
<1>4. CASE IndexStep \/ StartServing \/ ServiceStep
  <2>1. stage' \notin {"build", "java"} /\ UNCHANGED <<log, logged, torn, callAt>>
    BY <1>4 DEF IndexStep, StartServing, ServiceStep, buildVars, buildHistory
  <2> QED BY <2>1 DEF KeptInv, LogKept, LogIs, LoggedLater, ParseKept
<1>5. CASE Terminating \/ UNCHANGED vars
  <2>1. UNCHANGED <<log, logged, torn, callAt, stage, phase, input, queue, pc, job, actions, sources, unparsed>>
    BY <1>5 DEF Terminating, vars, buildVars, buildHistory, javaVars, pool, rows
  <2> QED BY <2>1 DEF KeptInv, LogKept, LogIs, LoggedLater, ParseKept, AtStart, Commands, Parsing, Parsed,
                      Done, Queued, UnderWay, IsCompiled
<1> QED BY <1>1, <1>2, <1>3, <1>4, <1>5 DEF Next

LEMMA KeptInvariant == Spec => []KeptInv
<1>1. LoggerInv /\ KeptInv /\ [Next]_vars => KeptInv'
  BY KeptStepInv
<1>2. PipelineInv => LoggerInv
  BY DEF PipelineInv
<1> QED BY <1>1, <1>2, KeptInitInv, PipelineInvariant, PTL DEF Spec

(* Whatever order the build's processes take, with calls killed anywhere but
   in a write, the log read as JSON has exactly one entry for each action of
   a call that has written: none is lost by two that write at once, none is
   doubled, and the separators are right (logExec, writeActions). *)
THEOREM LogAlwaysComplete == Spec => []LogComplete
<1>1. KeptInv => LogComplete
  BY LogIsComplete DEF KeptInv
<1> QED BY <1>1, KeptInvariant, PTL

(* Who is a source has one status. *)
StatusPerSource == statuses = {[file |-> f, status |-> parseStatus(f)] : f \in sources}

LEMMA StatusStored ==
  ASSUME StatusPerSource, NEW w \in Worker, addCompileCommand(w)
  PROVE  StatusPerSource'
<1> DEFINE g == job[w].file
           Row(f) == [file |-> f, status |-> parseStatus(f)]
<1>1. /\ sources' = sources \cup {g}
      /\ statuses' = {s \in statuses : s.file # g} \cup {Row(g)}
  BY DEF addCompileCommand
<1>2. statuses = {Row(f) : f \in sources}
  BY DEF StatusPerSource
<1>3. \A f : Row(f).file = f
  OBVIOUS
<1> HIDE DEF Row, g
<1>4. statuses' = {Row(f) : f \in sources'}
  BY <1>1, <1>2, <1>3
<1>5. {Row(f) : f \in sources'} = {[file |-> f, status |-> parseStatus(f)] : f \in sources}'
  BY DEF Row
<1> QED BY <1>4, <1>5, Zenon DEF StatusPerSource

LEMMA StatusStep ==
  ASSUME StatusPerSource, [Next]_vars
  PROVE  StatusPerSource'
<1>1. ASSUME UNCHANGED rows PROVE StatusPerSource'
  BY <1>1 DEF rows, StatusPerSource
<1>2. CASE JavaStep
  <2>1. CASE ParseStep \/ ServerDies
    <3>1. UNCHANGED rows
      BY <2>1 DEF ParseStep, ServerDies, parseCompileCommands, decompileJar, parseJar, PoolDone, ConnectFails,
                  Enqueue, rows
    <3> QED BY <1>1, <3>1
  <2>2. ASSUME NEW w \in Worker, WorkerStep(w) PROVE StatusPerSource'
    <3>1. CASE Take(w) \/ Test(w) \/ Reserve(w) \/ Terminate(w) \/ Push(w) \/ Hang(w) \/ Pushed(w) \/ setFree(w)
      BY <1>1, <3>1 DEF Take, Test, Reserve, Terminate, Push, Hang, Pushed, setFree
    <3>2. CASE Send(w) \/ \E f \in JavaFile : Receive(w, f)
      BY <3>2 DEF Send, Receive, StatusPerSource
    <3> QED BY <2>2, <3>1, <3>2, StatusStored DEF WorkerStep
  <2> QED BY <1>2, <2>1, <2>2 DEF JavaStep, JavaNext
<1>3. CASE ~JavaStep
  BY <1>1, <1>3 DEF Next, BuildStep, StartParse, IndexStep, StartServing, ServiceStep, Terminating, javaVars, vars
<1> QED BY <1>2, <1>3

(* Each Java source that a logged javac call has named is, after the parse,
   among the build actions with its source and the one status that the answer
   for it gives, or in the list of what could not be parsed: it is lost neither by the collecting of the sources, nor in the log,
   by parseCompileCommands, nor between the queue and the pool's threads, with
   the jar that may hang, fail or take a connection twice (ldlogger-tool-javac.c,
   javaparser.cpp). *)
THEOREM CompiledAlwaysParsed == Spec => []CompiledIsParsed
<1>1. ASSUME KeptInv, StatusPerSource PROVE CompiledIsParsed
  <2> SUFFICES ASSUME stage = "java", phase = "done", ~torn, NEW c \in logged, Tool[c] = "javac",
                      NEW j \in DOMAIN Words[c], IsJavaSource(Words[c], j)
               PROVE  Recorded(Words[c][j].paths[1]) \/ Words[c][j].paths[1] \in unparsed
    BY DEF CompiledIsParsed
  <2> DEFINE f == Words[c][j].paths[1]
  <2>1. Parsed
    BY <1>1 DEF KeptInv, ParseKept
  <2>2. f \in Done
    BY <2>1 DEF Parsed, IsCompiled
  <2> HIDE DEF f
  <2>3. ASSUME f \in actions \cap sources PROVE Recorded(f)
    <3>1. {s \in statuses : s.file = f} = {[file |-> f, status |-> parseStatus(f)]}
      BY <1>1, <2>3 DEF StatusPerSource
    <3> QED BY <2>3, <3>1 DEF Recorded
  <2>4. Recorded(f) \/ f \in unparsed
    BY <2>2, <2>3 DEF Done
  <2> QED BY <2>4 DEF f
<1>2. Init => StatusPerSource
  BY DEF Init, JavaInit, StatusPerSource
<1>3. Spec => []StatusPerSource
  BY <1>2, StatusStep, PTL DEF Spec
<1> QED BY <1>1, <1>3, KeptInvariant, PTL

-----------------------------------------------------------------------------
DirectoriesOf(files) == {Parent[f] : f \in files}

(* The directory of a match is where the number of those before it says. *)
LEMMA ParentsOnce ==
  ASSUME NEW files, IsFiniteSet(files), \A f \in files : Parent[f] \in Nat
  PROVE  /\ Parents(files) \in Seq(Nat) /\ Len(Parents(files)) <= Cardinality(files)
         /\ Len(Parents(files)) = Cardinality(DirectoriesOf(files))
         /\ \A f \in files : \E k \in 1 .. Len(Parents(files)) : Parent[f] = Parents(files)[k]
         /\ \A j, k \in 1 .. Len(Parents(files)) : Parents(files)[j] = Parents(files)[k] => j = k
<1> DEFINE dirs == {Parent[f] : f \in files}
           Before(d) == {e \in dirs : e < d}
           n == Cardinality(dirs)
           rank == [d \in dirs |-> Cardinality(Before(d)) + 1]
           at == Parents(files)
<1>1. IsFiniteSet(dirs) /\ n <= Cardinality(files) /\ n \in Nat /\ Cardinality(files) \in Nat
  <2> DEFINE into == [f \in files |-> Parent[f]]
  <2>1. into \in Surjection(files, dirs)
    BY DEF Surjection
  <2> HIDE DEF into, dirs
  <2> QED BY <2>1, FS_Surjection, FS_CardinalityType DEF n
<1>2. dirs \subseteq Nat
  OBVIOUS
<1>3. at = [k \in 1 .. n |-> CHOOSE d \in dirs : Cardinality(Before(d)) = k - 1]
  BY DEF Parents
<1> HIDE DEF dirs, n, at
<1>4. ASSUME NEW d \in dirs
      PROVE  IsFiniteSet(Before(d)) /\ Cardinality(Before(d)) \in Nat /\ rank[d] \in 1 .. n
  <2>1. Before(d) \in SUBSET dirs /\ d \notin Before(d)
    BY <1>2
  <2>2. IsFiniteSet(Before(d)) /\ Cardinality(Before(d)) <= n /\ Cardinality(Before(d)) \in Nat
        /\ Cardinality(Before(d)) # n
    BY <1>1, <2>1, FS_Subset, FS_CardinalityType DEF n
  <2>3. rank[d] = Cardinality(Before(d)) + 1
    OBVIOUS
  <2> HIDE DEF Before, rank
  <2> QED BY <1>1, <2>2, <2>3
<1>5. ASSUME NEW d \in dirs, NEW e \in dirs, d < e
      PROVE  rank[d] < rank[e]
  <2>1. Before(d) \in SUBSET Before(e) /\ d \in Before(e) /\ d \notin Before(d)
    <3>1. d \in Nat /\ e \in Nat /\ d < e /\ ~(d < d)
      BY <1>2, <1>5
    <3>2. ASSUME NEW c \in dirs, c < d PROVE c < e
      <4>1. c \in Nat
        BY <1>2
      <4> QED BY <3>1, <3>2, <4>1
    <3> QED BY <3>1, <3>2
  <2>2. /\ Cardinality(Before(d)) <= Cardinality(Before(e)) /\ Cardinality(Before(d)) # Cardinality(Before(e))
        /\ Cardinality(Before(d)) \in Nat /\ Cardinality(Before(e)) \in Nat
    BY <1>4, <2>1, FS_Subset
  <2>3. rank[d] = Cardinality(Before(d)) + 1 /\ rank[e] = Cardinality(Before(e)) + 1
    OBVIOUS
  <2> HIDE DEF Before, rank
  <2> QED BY <2>2, <2>3
<1>6. ASSUME NEW d \in dirs, NEW e \in dirs, rank[d] = rank[e] PROVE d = e
  <2>1. d < e \/ e < d \/ d = e
    <3>1. d \in Nat /\ e \in Nat
      BY <1>2
    <3> QED BY <3>1
  <2>2. ~(rank[d] < rank[e]) /\ ~(rank[e] < rank[d])
    <3> HIDE DEF rank
    <3>1. rank[d] \in 1 .. n
      <4> HIDE DEF Before
      <4> QED BY <1>4
    <3>2. rank[d] \in Nat
      BY <1>1, <3>1
    <3> QED BY <1>6, <3>2
  <2> HIDE DEF rank
  <2> QED BY <1>5, <2>1, <2>2
<1>7. ASSUME NEW k \in 1 .. n PROVE \E d \in dirs : rank[d] = k
  <2>1. rank \in Injection(dirs, 1 .. n)
    <3>1. rank \in [dirs -> 1 .. n]
      <4>1. rank = [d \in dirs |-> rank[d]]
        OBVIOUS
      <4> HIDE DEF rank
      <4> QED BY <1>4, <4>1
    <3> HIDE DEF rank
    <3> QED BY <1>6, <3>1 DEF Injection, IsInjective
  <2>2. IsFiniteSet(1 .. n) /\ Cardinality(1 .. n) = Cardinality(dirs)
    BY <1>1, FS_Interval DEF n
  <2>3. rank \in Surjection(dirs, 1 .. n)
    <3> HIDE DEF rank
    <3> QED BY <2>1, <2>2, FS_Injection
  <2> HIDE DEF rank
  <2> QED BY <2>3 DEF Surjection
<1>8. ASSUME NEW k \in 1 .. n PROVE at[k] \in dirs /\ rank[at[k]] = k
  <2>1. PICK d \in dirs : rank[d] = k
    BY <1>7
  <2>2. Cardinality(Before(d)) = k - 1
    <3>1. rank[d] = Cardinality(Before(d)) + 1
      OBVIOUS
    <3> HIDE DEF rank, Before
    <3> QED BY <1>4, <2>1, <3>1
  <2>3. at[k] \in dirs /\ Cardinality(Before(at[k])) = k - 1
    <3>1. at[k] = CHOOSE c \in dirs : Cardinality(Before(c)) = k - 1
      BY <1>3
    <3> HIDE DEF Before
    <3> QED BY <2>2, <3>1
  <2>4. rank[at[k]] = Cardinality(Before(at[k])) + 1
    BY <2>3
  <2> HIDE DEF Before, rank
  <2> QED BY <1>1, <2>3, <2>4
<1>9. at = [k \in 1 .. n |-> at[k]]
  <2> DEFINE C(k) == CHOOSE d \in dirs : Cardinality(Before(d)) = k - 1
  <2>1. at = [k \in 1 .. n |-> C(k)]
    BY <1>3
  <2> HIDE DEF C
  <2> QED BY <2>1
<1> HIDE DEF rank, Before
<1>10. at \in Seq(Nat) /\ Len(at) = n
  <2>1. at \in [1 .. n -> Nat]
    BY <1>2, <1>8, <1>9
  <2> QED BY <1>1, <1>9, <2>1
<1>11. ASSUME NEW f \in files PROVE \E k \in 1 .. n : Parent[f] = at[k]
  <2>1. Parent[f] \in dirs
    BY DEF dirs
  <2>2. rank[Parent[f]] \in 1 .. n
    BY <1>4, <2>1
  <2>3. at[rank[Parent[f]]] \in dirs /\ rank[at[rank[Parent[f]]]] = rank[Parent[f]]
    BY <1>8, <2>2
  <2>4. at[rank[Parent[f]]] = Parent[f]
    BY <1>6, <2>1, <2>3
  <2> QED BY <2>2, <2>4
<1>12. ASSUME NEW j \in 1 .. n, NEW k \in 1 .. n, at[j] = at[k] PROVE j = k
  BY <1>8, <1>12
<1> QED BY <1>1, <1>10, <1>11, <1>12 DEF at, n, dirs, DirectoriesOf

(* Whichever page a number is on, it is on one. *)
LEMMA OnePage ==
  ASSUME NEW size \in Nat \ {0}, NEW n \in Nat
  PROVE  /\ \A r \in 1 .. n : \E k \in 0 .. n : size * k < r /\ r <= size * k + size
         /\ \A k, l \in Nat, r \in Nat : size * k < r /\ r <= size * k + size
                                           /\ size * l < r /\ r <= size * l + size => k = l
<1>1. ASSUME NEW r \in 1 .. n PROVE \E k \in 0 .. n : size * k < r /\ r <= size * k + size
  <2> DEFINE T == {i \in Nat : i >= 1 => \E k \in Nat : k < i /\ size * k < i /\ i <= size * k + size}
  <2>1. 0 \in T
    OBVIOUS
  <2>2. ASSUME NEW i \in Nat, i \in T PROVE i + 1 \in T
    <3> SUFFICES \E k \in Nat : k < i + 1 /\ size * k < i + 1 /\ i + 1 <= size * k + size
      BY DEF T
    <3> HIDE DEF T
    <3>1. CASE i = 0
      <4>1. 0 \in Nat /\ 0 < i + 1 /\ size * 0 < i + 1 /\ i + 1 <= size * 0 + size
        BY <3>1
      <4> QED BY <4>1
    <3>2. CASE i # 0
      <4>1. PICK k \in Nat : k < i /\ size * k < i /\ i <= size * k + size
        BY <2>2, <3>2 DEF T
      <4>2. size * k \in Nat /\ size * (k + 1) = size * k + size
        OBVIOUS
      <4>3. CASE i + 1 <= size * k + size
        BY <4>1, <4>2, <4>3
      <4>4. CASE ~(i + 1 <= size * k + size)
        <5>1. i = size * k + size
          BY <4>1, <4>2, <4>4
        <5>2. k + 1 \in Nat /\ k + 1 < i + 1 /\ size * (k + 1) < i + 1 /\ i + 1 <= size * (k + 1) + size
          BY <4>1, <4>2, <5>1
        <5> QED BY <5>2
      <4> QED BY <4>3, <4>4
    <3> QED BY <3>1, <3>2
  <2> HIDE DEF T
  <2>3. r \in T
    BY <2>1, <2>2, NatByStep
  <2> QED BY <2>3 DEF T
<1>2. ASSUME NEW k \in Nat, NEW l \in Nat, NEW r \in Nat, k < l, r <= size * k + size, size * l < r PROVE FALSE
  <2>1. l - k - 1 \in Nat /\ l = k + 1 + (l - k - 1)
    BY <1>2
  <2>2. \A d \in Nat : size * d \in Nat /\ size * (k + 1 + d) = size * k + size + size * d
    OBVIOUS
  <2> QED BY <1>2, <2>1, <2>2
<1> QED BY <1>1, <1>2

(* A match is on the page that has the place of its directory. *)
PageOf(files, size, k, hidden, f) ==
  LET at == Parents(files)
      page == searchFile(files, size * k, size, hidden)
  IN /\ f \in page.results <=> /\ f \in files \ hidden
                               /\ \E i \in 1 .. Len(at) : /\ Parent[f] = at[i]
                                                          /\ size * k < i /\ i <= size * k + size
     /\ f \in page.results => page.totalFiles = Len(at)

(* What searchFile answers for a page, read off its definition. *)
LEMMA OnPage ==
  ASSUME NEW files, NEW size \in Nat, NEW k \in Nat, NEW hidden, Parents(files) \in Seq(Nat), NEW f
  PROVE  PageOf(files, size, k, hidden, f)
<1> DEFINE at == Parents(files)
           n == Len(at)
           start == size * k
           page == searchFile(files, start, size, hidden)
           found == {g \in files : \E i \in Least(n, start) + 1 .. Least(n, start + size) :
                                      Parent[g] = at[i]} \ hidden
<1>1. page.results = found /\ page.totalFiles = IF found = {} THEN 0 ELSE n
  BY DEF searchFile
<1>2. n \in Nat /\ start \in Nat
  OBVIOUS
<1> HIDE DEF at, n, start, page
<1>3. \A i : i \in Least(n, start) + 1 .. Least(n, start + size)
               <=> i \in 1 .. n /\ start < i /\ i <= start + size
  BY <1>2 DEF Least
<1>4. f \in found <=> /\ f \in files \ hidden
                      /\ \E i \in 1 .. n : Parent[f] = at[i] /\ start < i /\ i <= start + size
  BY <1>3
<1>5. f \in found => page.totalFiles = n
  BY <1>1
<1> HIDE DEF found
<1> QED BY <1>1, <1>4, <1>5 DEF at, n, start, page, PageOf

(* The directories of a page are at places that follow each other. *)
LEMMA FewDirectories ==
  ASSUME NEW at, NEW n \in Nat, NEW s \in Nat, NEW size \in Nat, NEW dirs,
         \A d \in dirs : \E i \in 1 .. n : d = at[i] /\ s < i /\ i <= s + size
  PROVE  Cardinality(dirs) <= size
<1> DEFINE places == s + 1 .. s + size
           taken == {i \in places : at[i] \in dirs}
           name == [i \in taken |-> at[i]]
<1>1. IsFiniteSet(places) /\ Cardinality(places) = size
  <2>1. s + 1 \in Int /\ s + size \in Int /\ (s + size) - (s + 1) + 1 = size /\ (s + 1 > s + size => size = 0)
    OBVIOUS
  <2> QED BY <2>1, FS_Interval
<1>2. \A d \in dirs : \E i \in taken : name[i] = d
  <2> SUFFICES ASSUME NEW d \in dirs PROVE \E i \in taken : name[i] = d
    OBVIOUS
  <2>1. PICK i \in 1 .. n : d = at[i] /\ s < i /\ i <= s + size
    OBVIOUS
  <2>2. i \in places
    BY <2>1
  <2> HIDE DEF places
  <2>3. i \in taken /\ name[i] = d
    BY <2>1, <2>2
  <2> QED BY <2>3
<1>3. name \in Surjection(taken, dirs)
  BY <1>2 DEF Surjection
<1> HIDE DEF name, places
<1>4. IsFiniteSet(taken) /\ Cardinality(taken) <= size /\ Cardinality(taken) \in Nat
  <2>1. taken \in SUBSET places
    OBVIOUS
  <2> HIDE DEF taken
  <2> QED BY <1>1, <2>1, FS_Subset, FS_CardinalityType
<1> HIDE DEF taken
<1>5. IsFiniteSet(dirs) /\ Cardinality(dirs) <= Cardinality(taken)
  BY <1>3, <1>4, FS_Surjection
<1>6. Cardinality(dirs) \in Nat
  BY <1>5, FS_CardinalityType
<1> QED BY <1>4, <1>5, <1>6

(* Numbers of directories make each match be on one page. *)
LEMMA PagesHold ==
  ASSUME NEW files, IsFiniteSet(files), \A f \in files : Parent[f] \in Nat
  PROVE  PagesPartition(files)
<1> DEFINE at == Parents(files)
           n == Len(at)
           m == Cardinality(files)
<1>1. /\ at \in Seq(Nat) /\ n \in Nat /\ m \in Nat /\ n <= m
      /\ \A f \in files : \E i \in 1 .. n : Parent[f] = at[i]
      /\ \A i, j \in 1 .. n : at[i] = at[j] => i = j
  BY ParentsOnce, FS_CardinalityType
<1> DEFINE dirs(matches) == {Parent[f] : f \in matches}
<1>0. n = Cardinality(dirs(files))
  BY ParentsOnce DEF DirectoriesOf
<1> SUFFICES ASSUME NEW size \in 1 .. m + 1, NEW hidden
             PROVE  LET page(k) == searchFile(files, size * k, size, hidden)
                    IN /\ UNION {page(k).results : k \in 0 .. m} = files \ hidden
                       /\ \A k, l \in 0 .. m : k # l => page(k).results \cap page(l).results = {}
                       /\ \A k \in 0 .. m : page(k).results # {} =>
                            /\ page(k).totalFiles = Cardinality(dirs(files))
                            /\ size * k < page(k).totalFiles
                            /\ Cardinality(dirs(page(k).results)) <= size
  BY DEF PagesPartition
<1> DEFINE page(k) == searchFile(files, size * k, size, hidden)
<1> HIDE DEF n, m, dirs
<1>2. size \in Nat \ {0} /\ 0 .. m \subseteq Nat /\ 0 .. n \subseteq 0 .. m
  BY <1>1
<1>3. ASSUME NEW k \in 0 .. m, NEW f
      PROVE  /\ f \in page(k).results <=>
                  /\ f \in files \ hidden
                  /\ \E i \in 1 .. n : Parent[f] = at[i] /\ size * k < i /\ i <= size * k + size
             /\ f \in page(k).results => page(k).totalFiles = n
  <2>1. size \in Nat /\ k \in Nat
    BY <1>2
  <2>2. PageOf(files, size, k, hidden, f)
    BY <1>1, <2>1, OnPage
  <2> QED BY <2>2 DEF n, PageOf
<1> HIDE DEF page, at
<1>4. ASSUME NEW f \in files \ hidden PROVE \E k \in 0 .. m : f \in page(k).results
  <2>1. PICK i \in 1 .. n : Parent[f] = at[i]
    BY <1>1
  <2>2. PICK k \in 0 .. n : size * k < i /\ i <= size * k + size
    BY <1>1, <1>2, OnePage
  <2> QED BY <1>2, <1>3, <2>1, <2>2
<1>5. ASSUME NEW k \in 0 .. m, NEW l \in 0 .. m, NEW f, f \in page(k).results, f \in page(l).results
      PROVE  k = l
  <2>1. f \in files
    BY <1>3, <1>5
  <2>2. PICK i \in 1 .. n : Parent[f] = at[i] /\ size * k < i /\ i <= size * k + size
    BY <1>3, <1>5
  <2>3. PICK j \in 1 .. n : Parent[f] = at[j] /\ size * l < j /\ j <= size * l + size
    BY <1>3, <1>5
  <2>4. i = j
    BY <1>1, <2>2, <2>3
  <2>5. i \in Nat /\ k \in Nat /\ l \in Nat
    BY <1>1, <1>2
  <2> QED BY <1>2, <2>2, <2>3, <2>4, <2>5, OnePage
<1>6. ASSUME NEW k \in 0 .. m, NEW f \in page(k).results
      PROVE  page(k).totalFiles = Cardinality(dirs(files)) /\ size * k < page(k).totalFiles
  <2>1. page(k).totalFiles = n
    BY <1>3
  <2>2. PICK i \in 1 .. n : size * k < i
    BY <1>3
  <2>3. size * k \in Nat
    BY <1>2
  <2> QED BY <1>0, <1>1, <2>1, <2>2, <2>3
<1>7. ASSUME NEW k \in 0 .. m PROVE Cardinality(dirs(page(k).results)) <= size
  <2>1. \A d \in dirs(page(k).results) : \E i \in 1 .. n : d = at[i] /\ size * k < i /\ i <= size * k + size
    BY <1>3 DEF dirs
  <2>2. size * k \in Nat /\ size \in Nat
    BY <1>2
  <2> QED BY <1>1, <2>1, <2>2, FewDirectories
<1>8. UNION {page(k).results : k \in 0 .. m} = files \ hidden
  BY <1>3, <1>4
<1> QED BY <1>5, <1>6, <1>7, <1>8 DEF page, dirs

-----------------------------------------------------------------------------
(* Only regular files have a row. *)
RowsRegular == persisted \subseteq Regular

LEMMA RowsStepRegular ==
  ASSUME RowsRegular, [Next]_vars
  PROVE  RowsRegular'
<1>1. CASE IndexStep
  <2>1. CASE Visit
    <3>1. \A path : shouldHandle(path) => path \in Regular
      BY DEF shouldHandle
    <3>2. persisted' = persisted \/ \E path : shouldHandle(path) /\ persisted' = persisted \cup {path}
      BY <2>1 DEF Visit
    <3> QED BY <3>1, <3>2 DEF RowsRegular
  <2>2. CASE ~Visit
    <3>1. persisted' = persisted
        BY <1>1, <2>2 DEF IndexStep, IndexNext, ParserStep, IndexerStep, Orphaned, KillParser, IndexerDies,
          CreatePlugin, MarkModified, Parse, BuildSuggestions, GetAnswer, StopIndexer, Join, Open, Serve, FileIndexer,
          CloseIndexer, traversal
    <3> QED BY <3>1 DEF RowsRegular
  <2> QED BY <2>1, <2>2
<1>2. CASE ~IndexStep
  <2>1. persisted' = persisted
    BY <1>2 DEF Next, BuildStep, StartParse, JavaStep, StartServing, ServiceStep, Terminating, searchVars,
                traversal, vars
  <2> QED BY <2>1 DEF RowsRegular
<1> QED BY <1>1, <1>2

(* The pages that a client asks of searchFile one after the other, with the
   same order of the directories, show each visible match once; each page
   that shows one has files of at most as many directories as its size, and its
   total is the number of directories with a match (searchFile, ParentIdCollector). *)
THEOREM PagesAlwaysPartition == Spec => []PagesOfFiles
<1>1. Init => RowsRegular
  BY DEF Init, SearchInit, RowsRegular
<1>2. RowsRegular /\ [Next]_vars => RowsRegular'
  BY RowsStepRegular
<1>3. RowsRegular => PagesOfFiles
  <2> SUFFICES ASSUME RowsRegular PROVE PagesPartition(persisted)
    BY DEF PagesOfFiles
  <2>1. IsFiniteSet(persisted)
    BY ParentAssumption, FS_Subset DEF RowsRegular
  <2> QED BY <2>1, ParentAssumption, PagesHold DEF RowsRegular
<1> QED BY <1>1, <1>2, <1>3, PTL DEF Spec

-----------------------------------------------------------------------------
(* The command that gcc's parser keeps: where it is after each word. *)

IsOutputOption(w) == w = Word("-o", <<>>)

(* What gcc's parser makes of one word. *)
WordTaken(s, w, t) ==
  /\ t.arguments = Append(s.arguments, w) \/ t.arguments = Append(s.arguments, Absolute(w))
  /\ t.state = IF s.state = "Normal" /\ IsOutputOption(w) THEN "InOutputArg" ELSE "Normal"
  /\ t.output = IF s.state = "Normal" THEN s.output ELSE w.paths
  /\ t.sources = s.sources \/ t.sources = AddUnique(s.sources, w.paths[1])
  /\ t.lastIncPos = LastIncPos([s EXCEPT !.arguments = t.arguments], w)

LEMMA GccStepTakes ==
  ASSUME NEW W, NEW s \in GccStates(W), NEW w \in W
  PROVE  WordTaken(s, w, GccStep(s, w))
<1> DEFINE t == processArgument(s, w)
           With(v) == [s EXCEPT !.arguments = Append(@, v)]
           isO == s.state = "Normal" /\ w = Word("-o", <<>>)
           isI == s.state = "Normal" /\ w.option \in {"-I", "-L"} /\ w.paths # <<>>
           isS == s.state = "Normal" /\ IsGccSource(w)
<1>0. /\ s = [state |-> s.state, output |-> s.output, sources |-> s.sources,
              arguments |-> s.arguments, lastIncPos |-> s.lastIncPos]
      /\ s.state \in {"Normal", "InOutputArg"}
  BY DEF GccStates
<1>1. \/ s.state = "InOutputArg" /\ t = [With(Absolute(w)) EXCEPT !.state = "Normal", !.output = w.paths]
      \/ isO /\ t = [With(w) EXCEPT !.state = "InOutputArg"]
      \/ s.state = "Normal" /\ ~isO /\ t = With(w)
      \/ s.state = "Normal" /\ ~isO /\ t = With(Absolute(w))
      \/ s.state = "Normal" /\ ~isO /\ t = [With(Absolute(w)) EXCEPT !.sources = AddUnique(@, w.paths[1])]
  <2>1. s.state = "InOutputArg" => ~isO /\ ~isI /\ ~isS
    OBVIOUS
  <2>2. isO => w.option = "-o"
    BY DEF Word
  <2>3. isS => w.option = ""
    BY DEF IsGccSource
  <2>4. (isO => ~isI /\ ~isS) /\ (isI => ~isS)
    BY <2>2, <2>3
  <2>5. t = CASE s.state = "InOutputArg" -> [With(Absolute(w)) EXCEPT !.state = "Normal", !.output = w.paths]
              [] isO -> [With(w) EXCEPT !.state = "InOutputArg"]
              [] isI -> With(Absolute(w))
              [] isS -> [With(Absolute(w)) EXCEPT !.sources = AddUnique(@, w.paths[1])]
              [] OTHER -> With(w)
    BY Zenon DEF processArgument
  <2>6. isO \/ isI \/ isS => s.state = "Normal"
    OBVIOUS
  <2> HIDE DEF isO, isI, isS, With, t
  <2> QED BY <1>0, <2>1, <2>4, <2>5, <2>6, Zenon
<1>2. With(Absolute(w)).sources = s.sources /\ With(w).sources = s.sources
  BY <1>0
<1>3. /\ t = [state |-> t.state, output |-> t.output, sources |-> t.sources,
              arguments |-> t.arguments, lastIncPos |-> t.lastIncPos]
      /\ t.arguments = Append(s.arguments, w) \/ t.arguments = Append(s.arguments, Absolute(w))
      /\ t.state = IF isO THEN "InOutputArg" ELSE "Normal"
      /\ t.output = IF s.state = "Normal" THEN s.output ELSE w.paths
      /\ t.sources = s.sources \/ t.sources = AddUnique(s.sources, w.paths[1])
      /\ t.lastIncPos = s.lastIncPos
  <2> HIDE DEF isO, t
  <2>1. CASE s.state = "InOutputArg" /\ t = [With(Absolute(w)) EXCEPT !.state = "Normal", !.output = w.paths]
    BY <1>0, <2>1 DEF isO
  <2>2. CASE isO /\ t = [With(w) EXCEPT !.state = "InOutputArg"]
    BY <1>0, <2>2 DEF isO
  <2>3. CASE s.state = "Normal" /\ ~isO /\ (t = With(w) \/ t = With(Absolute(w)))
    BY <1>0, <2>3
  <2>4. CASE s.state = "Normal" /\ ~isO /\ t = [With(Absolute(w)) EXCEPT !.sources = AddUnique(@, w.paths[1])]
    <3> DEFINE u == With(Absolute(w))
               added == AddUnique(u.sources, w.paths[1])
    <3>1. u = [state |-> s.state, output |-> s.output, sources |-> s.sources,
               arguments |-> Append(s.arguments, Absolute(w)), lastIncPos |-> s.lastIncPos]
      BY <1>0
    <3>2. t = [u EXCEPT !.sources = added]
      BY <2>4
    <3>3. added = AddUnique(s.sources, w.paths[1])
      BY <3>1
    <3> HIDE DEF u, added
    <3> QED BY <1>0, <2>4, <3>1, <3>2, <3>3
  <2> QED BY <1>1, <2>1, <2>2, <2>3, <2>4
<1>4. GccStep(s, w) = [t EXCEPT !.lastIncPos = LastIncPos(t, w)]
  BY DEF GccStep
<1>5. LastIncPos(t, w) = LastIncPos([s EXCEPT !.arguments = t.arguments], w)
  <2> HIDE DEF t
  <2>1. [s EXCEPT !.arguments = t.arguments].lastIncPos = t.lastIncPos
        /\ [s EXCEPT !.arguments = t.arguments].arguments = t.arguments
    BY <1>0, <1>3
  <2> QED BY <2>1, Zenon DEF LastIncPos
<1> HIDE DEF t
<1> DEFINE r == LastIncPos(t, w)
<1>6. GccStep(s, w) = [t EXCEPT !.lastIncPos = r]
  BY <1>4
<1>7. r = LastIncPos([s EXCEPT !.arguments = t.arguments], w)
  BY <1>5
<1> HIDE DEF r
<1> DEFINE g == GccStep(s, w)
<1>8. /\ g.state = t.state /\ g.output = t.output /\ g.sources = t.sources
      /\ g.arguments = t.arguments /\ g.lastIncPos = r
  <2> HIDE DEF g
  <2>1. g = [t EXCEPT !.lastIncPos = r]
    BY <1>6 DEF g
  <2> QED BY <1>3, <2>1
<1> HIDE DEF g
<1>9. WordTaken(s, w, g)
  BY <1>3, <1>7, <1>8 DEF WordTaken, IsOutputOption
<1> QED BY <1>9 DEF g

(* Words as a caller writes them. *)
IsWords(words) ==
  \A k \in DOMAIN words : words[k] = [option |-> words[k].option, paths |-> words[k].paths, abs |-> FALSE]

(* After the first k words: the arguments are the compiler and they. *)
ArgumentsAt(s, words, k) ==
  /\ Len(s.arguments) = k + 1
  /\ \A j \in 1 .. k : Plain(s.arguments[1 + j]) = words[j]

(* The place for the compiler's directories is behind the last -I, and behind
   its path, which may still be to come. *)
PlaceAt(s, words, k) ==
  /\ s.lastIncPos \in 1 .. k + 2
  /\ \A j \in 1 .. k : words[j].option = "-I" => j < s.lastIncPos
  /\ s.lastIncPos = k + 2 => k # 0 /\ words[k].option = "-I" /\ words[k].paths = <<>>
  /\ s.lastIncPos \in 2 .. k + 1 => ~TakesValue(words[s.lastIncPos - 1])

(* The output is what follows the last -o, if it is not still to come. *)
OutputAt(s, words, k) ==
  /\ s.state = "Normal" <=> k = 0 \/ ~IsOutputOption(words[k])
  /\ \A j \in 1 .. k : IsOutputOption(words[j]) /\ (\A i \in j + 1 .. k : ~IsOutputOption(words[i])) =>
       j = k \/ s.output = words[j + 1].paths

Distinct(seq) == \A i, j \in DOMAIN seq : seq[i] = seq[j] => i = j

(* A word in another form. *)
LEMMA WordWith ==
  ASSUME NEW o, NEW p, NEW a, NEW b
  PROVE  [[option |-> o, paths |-> p, abs |-> a] EXCEPT !.abs = b] = [option |-> o, paths |-> p, abs |-> b]
OBVIOUS

(* The words of a call are plain; making a path absolute changes nothing else. *)
LEMMA PlainWord ==
  ASSUME NEW w, w = [option |-> w.option, paths |-> w.paths, abs |-> FALSE]
  PROVE  Plain(w) = w /\ Plain(Absolute(w)) = w
<1> DEFINE r(b) == [option |-> w.option, paths |-> w.paths, abs |-> b]
<1>1. w = r(FALSE)
  OBVIOUS
<1>2. \A b, c : [r(b) EXCEPT !.abs = c] = r(c)
  BY WordWith
<1> HIDE DEF r
<1>3. Absolute(w) = r(TRUE)
  BY <1>1, <1>2, Zenon DEF Absolute
<1>4. Plain(w) = r(FALSE) /\ Plain(r(TRUE)) = r(FALSE)
  BY <1>1, <1>2, Zenon DEF Plain
<1> QED BY <1>1, <1>3, <1>4, Zenon

(* The next word keeps each of these. *)
LEMMA ArgumentsNext ==
  ASSUME NEW W, NEW s \in GccStates(W), NEW words \in Seq(W), IsWords(words),
         NEW k \in 1 .. Len(words), ArgumentsAt(s, words, k - 1),
         NEW t, WordTaken(s, words[k], t)
  PROVE  ArgumentsAt(t, words, k)
<1> DEFINE w == words[k]
           A == {Word("gcc", <<>>)} \cup W \cup {Absolute(v) : v \in W}
<1>1. PICK x \in {w, Absolute(w)} : t.arguments = Append(s.arguments, x)
  BY DEF WordTaken
<1>2. w \in W /\ k \in Nat /\ k # 0
  OBVIOUS
<1>3. s.arguments \in Seq(A) /\ x \in A
  BY <1>2 DEF GccStates
<1>4. Plain(x) = w
  BY PlainWord DEF IsWords
<1> HIDE DEF A, w
<1>5. Len(s.arguments) = k
  BY <1>2 DEF ArgumentsAt
<1>6. /\ Len(t.arguments) = k + 1 /\ t.arguments[k + 1] = x
      /\ \A j \in 1 .. k : t.arguments[j] = s.arguments[j]
  BY <1>1, <1>2, <1>3, <1>5
<1>7. ASSUME NEW j \in 1 .. k PROVE Plain(t.arguments[1 + j]) = words[j]
  <2>1. CASE j = k
    BY <1>2, <1>4, <1>6, <2>1 DEF w
  <2>2. CASE j # k
    <3>1. j \in 1 .. k - 1 /\ 1 + j \in 1 .. k
      BY <1>2, <2>2
    <3> QED BY <1>6, <3>1 DEF ArgumentsAt
  <2> QED BY <2>1, <2>2
<1> QED BY <1>6, <1>7 DEF ArgumentsAt

LEMMA PlaceNext ==
  ASSUME NEW W, NEW s \in GccStates(W), NEW words \in Seq(W), WellFormed(words),
         NEW k \in 1 .. Len(words), ArgumentsAt(s, words, k - 1), PlaceAt(s, words, k - 1),
         NEW t, WordTaken(s, words[k], t), ArgumentsAt(t, words, k)
  PROVE  PlaceAt(t, words, k)
<1> DEFINE w == words[k]
           u == [s EXCEPT !.arguments = t.arguments]
           p == s.lastIncPos
<1>1. k \in Nat /\ k # 0 /\ p \in Nat /\ w \in W /\ Len(words) \in Nat
  BY DEF GccStates
<1>2. /\ p \in 1 .. k + 1
      /\ \A j \in 1 .. k - 1 : words[j].option = "-I" => j < p
      /\ p = k + 1 => k - 1 # 0 /\ words[k - 1].option = "-I" /\ words[k - 1].paths = <<>>
      /\ p \in 2 .. k => ~TakesValue(words[p - 1])
  BY <1>1 DEF PlaceAt
<1>3. u.lastIncPos = p /\ u.arguments = t.arguments /\ Len(t.arguments) = k + 1
  BY DEF GccStates, ArgumentsAt
<1>4. t.lastIncPos = IF w.option # "-I" THEN p
                     ELSE IF w.paths = <<>> THEN k + 2 ELSE k + 1
  <2>1. t.lastIncPos = LastIncPos(u, w)
    BY DEF WordTaken
  <2> HIDE DEF u, w, p
  <2>2. t.lastIncPos = IF w.option # "-I" THEN p
                       ELSE Len(t.arguments) + (IF w.paths = <<>> THEN 1 ELSE 0)
    BY <1>3, <2>1, Zenon DEF LastIncPos
  <2> QED BY <1>1, <1>3, <2>2
<1> DEFINE q == t.lastIncPos
<1>5. CASE w.option = "-I"
  <2>1. q = (IF w.paths = <<>> THEN k + 2 ELSE k + 1)
    BY <1>4, <1>5
  <2>2. w.paths # <<>> => ~TakesValue(w)
    BY DEF TakesValue
  <2>3. q \in 1 .. k + 2 /\ q >= k + 1
    BY <1>1, <2>1
  <2>4. q = k + 2 => w.paths = <<>>
    BY <1>1, <2>1
  <2>5. q \in 2 .. k + 1 => q - 1 = k /\ w.paths # <<>>
    BY <1>1, <2>1
  <2>6. \A j \in 1 .. k : j < q
    BY <1>1, <2>3
  <2> HIDE DEF q
  <2>7. q \in 2 .. k + 1 => ~TakesValue(words[q - 1])
    BY <2>2, <2>5
  <2> QED BY <1>1, <1>5, <2>3, <2>4, <2>6, <2>7 DEF PlaceAt, q
<1>6. CASE w.option # "-I"
  <2>1. q = p
    BY <1>4, <1>6
  <2>2. p = k + 1 => ~TakesValue(w)
    <3> SUFFICES ASSUME p = k + 1 PROVE ~TakesValue(w)
      OBVIOUS
    <3>1. k - 1 \in DOMAIN words /\ TakesValue(words[k - 1]) /\ (k - 1) + 1 = k
      BY <1>1, <1>2 DEF TakesValue
    <3>2. w.option = ""
      BY <3>1 DEF WellFormed
    <3> QED BY <3>2 DEF TakesValue
  <2> HIDE DEF p, w
  <2>3. p \in 1 .. k + 2 /\ p # k + 2
    BY <1>1, <1>2
  <2>4. ASSUME NEW j \in 1 .. k, words[j].option = "-I" PROVE j < p
    <3>1. j \in 1 .. k - 1
      BY <1>1, <1>6, <2>4 DEF w
    <3> QED BY <1>2, <2>4, <3>1
  <2>5. p \in 2 .. k + 1 => ~TakesValue(words[p - 1])
    <3>1. p = k + 1 => p - 1 = k
      BY <1>1
    <3>2. p \in 2 .. k + 1 => p \in 2 .. k \/ p = k + 1
      BY <1>1
    <3> QED BY <1>2, <2>2, <3>1, <3>2 DEF w
  <2> QED BY <2>1, <2>3, <2>4, <2>5 DEF PlaceAt
<1> QED BY <1>5, <1>6

LEMMA OutputNext ==
  ASSUME NEW W, NEW s \in GccStates(W), NEW words \in Seq(W), WellFormed(words),
         NEW k \in 1 .. Len(words), OutputAt(s, words, k - 1),
         NEW t, WordTaken(s, words[k], t)
  PROVE  OutputAt(t, words, k)
<1> DEFINE w == words[k]
<1>1. k \in Nat /\ k # 0 /\ w \in W /\ Len(words) \in Nat /\ s.state \in {"Normal", "InOutputArg"}
  BY DEF GccStates
<1>2. /\ t.state = IF s.state = "Normal" /\ IsOutputOption(w) THEN "InOutputArg" ELSE "Normal"
      /\ t.output = IF s.state = "Normal" THEN s.output ELSE w.paths
  BY DEF WordTaken
<1>3. s.state # "Normal" => k - 1 # 0 /\ IsOutputOption(words[k - 1]) /\ ~IsOutputOption(w)
  <2> SUFFICES ASSUME s.state # "Normal"
               PROVE  k - 1 # 0 /\ IsOutputOption(words[k - 1]) /\ ~IsOutputOption(w)
    OBVIOUS
  <2>1. k - 1 # 0 /\ IsOutputOption(words[k - 1])
    BY DEF OutputAt
  <2>2. k - 1 \in DOMAIN words /\ (k - 1) + 1 = k
    BY <1>1, <2>1
  <2>3. TakesValue(words[k - 1])
    BY <2>1 DEF IsOutputOption, TakesValue, Word
  <2>4. w.option = ""
    BY <2>2, <2>3 DEF WellFormed
  <2>5. IsOutputOption(w) => w.option = "-o"
    BY DEF IsOutputOption, Word
  <2> QED BY <2>1, <2>4, <2>5
<1> HIDE DEF w
<1>4. t.state = "Normal" <=> ~IsOutputOption(w)
  BY <1>1, <1>2, <1>3
<1>5. ASSUME NEW j \in 1 .. k, IsOutputOption(words[j]),
             \A i \in j + 1 .. k : ~IsOutputOption(words[i]), j # k
      PROVE  t.output = words[j + 1].paths
  <2>1. j \in 1 .. k - 1 /\ \A i \in j + 1 .. k - 1 : ~IsOutputOption(words[i])
    BY <1>1, <1>5
  <2>2. j = k - 1 \/ s.output = words[j + 1].paths
    BY <1>5, <2>1 DEF OutputAt
  <2>3. CASE j = k - 1
    <3>1. s.state # "Normal" /\ j + 1 = k
      BY <1>1, <1>5, <2>3 DEF OutputAt
    <3> QED BY <1>2, <3>1 DEF w
  <2>4. CASE j # k - 1
    <3>1. k - 1 \in j + 1 .. k /\ k - 1 # 0
      BY <1>1, <2>1, <2>4
    <3>2. s.state = "Normal"
      BY <1>5, <3>1 DEF OutputAt
    <3> QED BY <1>2, <2>2, <2>4, <3>2
  <2> QED BY <2>3, <2>4
<1> QED BY <1>1, <1>4, <1>5 DEF OutputAt, w

(* A source is added once. *)
LEMMA DistinctNext ==
  ASSUME NEW P, NEW s \in Seq(P), Distinct(s), NEW p \in P
  PROVE  Distinct(AddUnique(s, p))
<1>1. CASE Contains(s, p)
  BY <1>1 DEF AddUnique
<1>2. CASE ~Contains(s, p)
  <2> DEFINE t == Append(s, p)
  <2>1. AddUnique(s, p) = t
    BY <1>2 DEF AddUnique
  <2>2. /\ DOMAIN t = 1 .. Len(s) + 1 /\ Len(s) \in Nat /\ t[Len(s) + 1] = p
        /\ \A i \in 1 .. Len(s) : t[i] = s[i] /\ s[i] # p
    BY <1>2 DEF Contains
  <2> HIDE DEF t
  <2>3. ASSUME NEW i \in DOMAIN t, NEW j \in DOMAIN t, t[i] = t[j] PROVE i = j
    <3>1. (i \in 1 .. Len(s) \/ i = Len(s) + 1) /\ (j \in 1 .. Len(s) \/ j = Len(s) + 1)
      BY <2>2
    <3>2. CASE i \in 1 .. Len(s) /\ j \in 1 .. Len(s)
      BY <2>2, <2>3, <3>2 DEF Distinct
    <3>3. CASE ~(i \in 1 .. Len(s) /\ j \in 1 .. Len(s))
      BY <2>2, <2>3, <3>1, <3>3
    <3> QED BY <3>2, <3>3
  <2> QED BY <2>1, <2>3 DEF Distinct
<1> QED BY <1>1, <1>2

(* t is a with d behind its first q elements. *)
IsInserted(t, a, d, q) ==
  /\ Len(t) = Len(a) + Len(d)
  /\ \A j \in 1 .. q : t[j] = a[j]
  /\ \A j \in 1 .. Len(d) : t[q + j] = d[j]
  /\ \A j \in q + 1 .. Len(a) : t[Len(d) + j] = a[j]

(* What is behind the first q elements. *)
LEMMA TailPart ==
  ASSUME NEW E, NEW a \in Seq(E), NEW q \in 1 .. Len(a)
  PROVE  /\ SubSeq(a, q + 1, Len(a)) \in Seq(E)
         /\ Len(SubSeq(a, q + 1, Len(a))) = Len(a) - q
         /\ \A j \in 1 .. Len(a) - q : SubSeq(a, q + 1, Len(a))[j] = a[q + j]
<1> DEFINE v == SubSeq(a, q + 1, Len(a))
           l == Len(a)
<1>1. l \in Nat /\ q \in Nat /\ 1 <= q /\ q <= l
  OBVIOUS
<1>2. CASE q = l
  <2>1. v = <<>>
    BY <1>1, <1>2
  <2> HIDE DEF v, l
  <2>2. Len(v) = 0 /\ v \in Seq(E) /\ l - q = 0
    BY <1>1, <1>2, <2>1
  <2> QED BY <2>2 DEF v, l
<1>3. CASE q # l
  <2>1. q + 1 \in 1 .. l
    BY <1>1, <1>3
  <2>2. v \in Seq(E) /\ Len(v) = l - (q + 1) + 1
    BY <2>1
  <2>3. \A j \in 1 .. l - (q + 1) + 1 : v[j] = a[q + 1 + j - 1]
    BY <2>1
  <2>4. (\A j \in Nat : q + 1 + j - 1 = q + j) /\ l - (q + 1) + 1 = l - q
    BY <1>1
  <2> HIDE DEF v, l
  <2>5. v \in Seq(E) /\ Len(v) = l - q /\ \A j \in 1 .. l - q : v[j] = a[q + j]
    BY <2>2, <2>3, <2>4
  <2> QED BY <2>5 DEF v, l
<1> QED BY <1>2, <1>3

LEMMA Inserted ==
  ASSUME NEW E, NEW a \in Seq(E), NEW d \in Seq(E), NEW q \in 1 .. Len(a)
  PROVE  IsInserted(SubSeq(a, 1, q) \o d \o SubSeq(a, q + 1, Len(a)), a, d, q)
<1> DEFINE u == SubSeq(a, 1, q)
           v == SubSeq(a, q + 1, Len(a))
           l == Len(a)
           m == Len(d)
           w == u \o d
           t == w \o v
<1>1. l \in Nat /\ m \in Nat /\ q \in Nat /\ 1 <= q /\ q <= l
  OBVIOUS
<1>2. u \in Seq(E) /\ Len(u) = q /\ \A j \in 1 .. q : u[j] = a[j]
  <2>1. u \in Seq(E) /\ Len(u) = q
    OBVIOUS
  <2>2. \A j \in 1 .. q : u[j] = a[j]
    OBVIOUS
  <2> QED BY <2>1, <2>2
<1>3. v \in Seq(E) /\ Len(v) = l - q /\ \A j \in 1 .. l - q : v[j] = a[q + j]
  BY TailPart
<1> HIDE DEF u, v
<1>4. /\ w \in Seq(E) /\ Len(w) = q + m
      /\ \A j \in 1 .. q : w[j] = a[j]
      /\ \A j \in 1 .. m : w[q + j] = d[j]
  <2>1. w \in Seq(E) /\ Len(w) = q + m
    BY <1>2
  <2>2. \A j \in 1 .. q : w[j] = u[j]
    BY <1>2
  <2>3. \A j \in 1 .. m : w[q + j] = d[j]
    BY <1>2
  <2> QED BY <1>2, <2>1, <2>2, <2>3
<1> HIDE DEF w
<1>5. /\ Len(t) = q + m + (l - q)
      /\ \A j \in 1 .. q + m : t[j] = w[j]
      /\ \A j \in 1 .. l - q : t[q + m + j] = v[j]
  <2> HIDE DEF l
  <2>0. w \in Seq(E) /\ v \in Seq(E)
    BY <1>3, <1>4
  <2>1. Len(w) = q + m /\ Len(v) = l - q
    BY <1>3, <1>4
  <2> HIDE DEF m
  <2>2. Len(t) = Len(w) + Len(v)
    BY <2>0
  <2>3. \A j \in 1 .. Len(w) : t[j] = w[j]
    BY <2>0
  <2>4. \A j \in 1 .. Len(v) : t[Len(w) + j] = v[j]
    BY <2>0
  <2> HIDE DEF t
  <2> QED BY <2>1, <2>2, <2>3, <2>4
<1> HIDE DEF t, l, m
<1>6. Len(t) = l + m
  BY <1>1, <1>5
<1>7. ASSUME NEW j \in 1 .. q PROVE t[j] = a[j]
  <2>1. j \in 1 .. q + m
    BY <1>1
  <2> QED BY <1>4, <1>5, <2>1
<1>8. ASSUME NEW j \in 1 .. m PROVE t[q + j] = d[j]
  <2>1. q + j \in 1 .. q + m
    BY <1>1
  <2> QED BY <1>4, <1>5, <2>1
<1>9. ASSUME NEW j \in q + 1 .. l PROVE t[m + j] = a[j]
  <2>1. j - q \in 1 .. l - q /\ q + m + (j - q) = m + j /\ q + (j - q) = j
    BY <1>1
  <2> QED BY <1>3, <1>5, <2>1
<1> QED BY <1>6, <1>7, <1>8, <1>9 DEF IsInserted, t, w, u, v, l, m

LEMMA DefaultArguments ==
  \E E : getDefaultArguments \in Seq(E)
<1> DEFINE Option(dir) == IF dir.builtin THEN <<>> ELSE <<Absolute(Word("-I", <<dir.path>>))>>
           seqs == [k \in DOMAIN DefaultDirs |-> Option(DefaultDirs[k])]
           E == {Absolute(Word("-I", <<dir.path>>)) : dir \in Range(DefaultDirs)}
<1>1. getDefaultArguments = FlattenSeq(seqs)
  BY Zenon DEF getDefaultArguments
<1>2. Len(DefaultDirs) \in Nat /\ DOMAIN DefaultDirs = 1 .. Len(DefaultDirs)
  BY DirsAssumption
<1>3. ASSUME NEW k \in DOMAIN DefaultDirs PROVE Option(DefaultDirs[k]) \in Seq(E)
  <2>1. DefaultDirs[k] \in Range(DefaultDirs)
    BY DEF Range
  <2> DEFINE x == Absolute(Word("-I", <<DefaultDirs[k].path>>))
  <2>2. x \in E
    BY <2>1
  <2> HIDE DEF E, x
  <2>3. <<>> \in Seq(E) /\ <<x>> \in Seq(E)
    BY <2>2
  <2>4. Option(DefaultDirs[k]) = <<>> \/ Option(DefaultDirs[k]) = <<x>>
    BY DEF x
  <2> QED BY <2>3, <2>4
<1> HIDE DEF E, Option
<1>4. seqs \in [1 .. Len(DefaultDirs) -> Seq(E)]
  BY <1>2, <1>3
<1> HIDE DEF seqs
<1>5. seqs \in Seq(Seq(E))
  BY <1>2, <1>4
<1>6. FlattenSeq(seqs) \in Seq(E)
  BY <1>5, FlattenHolds
<1> QED BY <1>1, <1>6

GccAt(s, words, k) ==
  /\ ArgumentsAt(s, words, k) /\ PlaceAt(s, words, k) /\ OutputAt(s, words, k)
  /\ Distinct(s.sources)

(* Word by word, to the last. *)
LEMMA GccAtEnd ==
  ASSUME NEW W, NEW words \in Seq(W), IsWords(words), WellFormed(words)
  PROVE  /\ GccFold(GccStart, words) \in GccStates(W)
         /\ GccAt(GccFold(GccStart, words), words, Len(words))
<1>1. GccStart \in GccStates(W)
  BY DEF GccStart, GccStates
<1>2. \A s \in GccStates(W), w \in W : GccStep(s, w) \in GccStates(W)
  BY GccStepStays
<1>3. PICK f \in [0 .. Len(words) -> GccStates(W)] :
        GccTrace(f, GccStart, words) /\ GccFold(GccStart, words) = f[Len(words)]
  BY <1>1, <1>2, FoldOfGccStep
<1> DEFINE T == {k \in Nat : k <= Len(words) => GccAt(f[k], words, k)}
<1>4. 0 \in T
  <2>1. f[0] = GccStart
    BY <1>3 DEF GccTrace
  <2>2. GccAt(GccStart, words, 0)
    <3>1. /\ GccStart.arguments = <<Word("gcc", <<>>)>> /\ GccStart.lastIncPos = 1
          /\ GccStart.state = "Normal" /\ GccStart.sources = <<>>
      BY DEF GccStart
    <3>2. ArgumentsAt(GccStart, words, 0)
      BY <3>1 DEF ArgumentsAt
    <3>3. PlaceAt(GccStart, words, 0)
      BY <3>1 DEF PlaceAt
    <3>4. OutputAt(GccStart, words, 0)
      BY <3>1 DEF OutputAt
    <3>5. Distinct(GccStart.sources)
      BY <3>1 DEF Distinct
    <3> QED BY <3>2, <3>3, <3>4, <3>5 DEF GccAt
  <2> QED BY <2>1, <2>2
<1>5. ASSUME NEW n \in Nat, n \in T PROVE n + 1 \in T
  <2> SUFFICES ASSUME n + 1 <= Len(words) PROVE GccAt(f[n + 1], words, n + 1)
    OBVIOUS
  <2> DEFINE k == n + 1
             s == f[n]
             t == f[n + 1]
             w == words[n + 1]
  <2>1. k \in 1 .. Len(words) /\ k - 1 = n /\ n \in 0 .. Len(words) /\ w \in W
    OBVIOUS
  <2>2. s \in GccStates(W) /\ GccAt(s, words, k - 1)
    BY <1>5, <2>1
  <2>3. t = GccStep(s, w)
    BY <1>3, <2>1 DEF GccTrace
  <2>4. WordTaken(s, words[k], t)
    BY <2>1, <2>2, <2>3, GccStepTakes
  <2> HIDE DEF k, s, t
  <2>5. ArgumentsAt(t, words, k)
    BY <2>1, <2>2, <2>4, ArgumentsNext DEF GccAt
  <2>6. PlaceAt(t, words, k)
    BY <2>1, <2>2, <2>4, <2>5, PlaceNext DEF GccAt
  <2>7. OutputAt(t, words, k)
    BY <2>1, <2>2, <2>4, OutputNext DEF GccAt
  <2>8. Distinct(t.sources)
    <3> DEFINE P == {v.paths[1] : v \in W}
    <3>1. s.sources \in Seq(P)
      BY <2>2 DEF GccStates
    <3>2. words[k].paths[1] \in P
      BY <2>1 DEF k
    <3>3. Distinct(s.sources)
      BY <2>2 DEF GccAt
    <3>4. t.sources = s.sources \/ t.sources = AddUnique(s.sources, words[k].paths[1])
      BY <2>4 DEF WordTaken
    <3> HIDE DEF P
    <3> QED BY <3>1, <3>2, <3>3, <3>4, DistinctNext
  <2>9. GccAt(t, words, k)
    BY <2>5, <2>6, <2>7, <2>8 DEF GccAt
  <2> QED BY <2>9 DEF t, k
<1>6. Len(words) \in T
  <2> HIDE DEF T
  <2>1. Nat \subseteq T
    BY <1>4, <1>5, NatByStep
  <2> QED BY <2>1
<1> QED BY <1>3, <1>6

(* What the output is taken from has it no more. *)
LEMMA WithoutOutput ==
  ASSUME NEW P, NEW s \in Seq(P), Distinct(s), NEW out
  PROVE  Without(s, out) \in Seq(P) /\ \A p \in Range(Without(s, out)) : <<p>> # out
<1> DEFINE I == {i \in 1 .. Len(s) : <<s[i]>> = out}
           r == Without(s, out)
<1>0. r \in Seq(P)
  BY RemovedIsList
<1>1. CASE I = {}
  <2>1. r = s
    BY <1>1 DEF Without, RemoveFirstMatch
  <2>2. \A i \in DOMAIN s : <<s[i]>> # out
    BY <1>1
  <2> HIDE DEF r
  <2> QED BY <1>0, <2>1, <2>2 DEF Range, r
<1>2. CASE I # {}
  <2>1. PICK i \in I : \A k \in I : i <= k
    <3> I \in SUBSET Nat
      OBVIOUS
    <3> HIDE DEF I
    <3> QED BY <1>2, LeastNumber
  <2>2. Min(I) \in I
    <3> HIDE DEF I
    <3> QED BY <2>1 DEF Min
  <2>3. r = RemoveAt(s, Min(I))
    BY <1>2 DEF Without, RemoveFirstMatch, SelectInSeq
  <2> DEFINE m == Min(I)
  <2>4. m \in 1 .. Len(s) /\ <<s[m]>> = out
    BY <2>2
  <2> HIDE DEF I, m, r
  <2>5. r = SubSeq(s, 1, m - 1) \o SubSeq(s, m + 1, Len(s))
    BY <2>3 DEF RemoveAt, m
  <2>6. \A x \in Range(r) : \E k \in DOMAIN s : k # m /\ x = s[k]
    <3> DEFINE u == SubSeq(s, 1, m - 1)
               v == SubSeq(s, m + 1, Len(s))
    <3>1. u \in Seq(P) /\ Len(u) = m - 1 /\ \A k \in 1 .. m - 1 : u[k] = s[k]
      BY <2>4
    <3>2. v \in Seq(P) /\ Len(v) = Len(s) - m /\ \A k \in 1 .. Len(s) - m : v[k] = s[m + k]
      BY <2>4, TailPart
    <3> DEFINE l == Len(s)
    <3>a. l \in Nat /\ m \in Nat /\ 1 <= m /\ m <= l /\ DOMAIN s = 1 .. l
      BY <2>4
    <3> HIDE DEF u, v
    <3>3. r = u \o v
      BY <2>5 DEF u, v
    <3>4. /\ DOMAIN r = 1 .. Len(u) + Len(v)
          /\ \A k \in 1 .. Len(u) : r[k] = u[k]
          /\ \A k \in 1 .. Len(v) : r[Len(u) + k] = v[k]
      BY <3>1, <3>2, <3>3
    <3>b. Len(u) = m - 1 /\ Len(v) = l - m
      BY <3>1, <3>2
    <3> HIDE DEF l
    <3>5. ASSUME NEW k \in DOMAIN r PROVE \E at \in DOMAIN s : at # m /\ r[k] = s[at]
      <4>1. CASE k \in 1 .. m - 1
        <5>1. k \in DOMAIN s /\ k # m
          BY <3>a, <4>1
        <5> QED BY <3>1, <3>4, <3>b, <4>1, <5>1
      <4>2. CASE k \notin 1 .. m - 1
        <5>1. k \in Nat /\ m <= k /\ k <= (m - 1) + (l - m)
          BY <3>4, <3>a, <3>b, <4>2
        <5>2. /\ k - (m - 1) \in 1 .. l - m /\ (m - 1) + (k - (m - 1)) = k
              /\ m + (k - (m - 1)) \in 1 .. l /\ m + (k - (m - 1)) # m
          BY <3>a, <5>1
        <5>3. r[k] = v[k - (m - 1)] /\ v[k - (m - 1)] = s[m + (k - (m - 1))]
          BY <3>2, <3>4, <3>b, <5>2
        <5> QED BY <3>a, <5>2, <5>3
      <4> QED BY <4>1, <4>2
    <3> QED BY <3>5 DEF Range
  <2>7. ASSUME NEW x \in Range(r) PROVE <<x>> # out
    <3>1. PICK k \in DOMAIN s : k # m /\ x = s[k]
      BY <2>6
    <3>2. x # s[m]
      BY <2>4, <3>1 DEF Distinct
    <3>3. <<x>>[1] = x /\ <<s[m]>>[1] = s[m]
      OBVIOUS
    <3> QED BY <2>4, <3>2, <3>3
  <2> QED BY <1>0, <2>7 DEF r
<1> QED BY <1>1, <1>2

(* What the property says of an action of a gcc call. *)
CommandKept(words, action) ==
  /\ \E n \in 0 .. Len(words) : InsertedAfter(n, words, action.arguments)
  /\ \A p \in Range(action.sources) : \A j \in DOMAIN words :
       IsOutput(words, j) => <<p>> # words[j + 1].paths

(* The action of a call is what its words say. *)
LEMMA GccCommand ==
  ASSUME NEW W, NEW words \in Seq(W), IsWords(words), WellFormed(words)
  PROVE  \E action : /\ loggerGccParserCollectActions(words) = <<action>>
                     /\ CommandKept(words, action)
<1> DEFINE s == GccFold(GccStart, words)
           a == s.arguments
           d == getDefaultArguments
           q == s.lastIncPos
           m == Len(words)
           left == Without(s.sources, s.output)
           action == [arguments |-> SubSeq(a, 1, q) \o d \o SubSeq(a, q + 1, Len(a)),
                      sources   |-> left]
           A == {Word("gcc", <<>>)} \cup W \cup {Absolute(w) : w \in W}
           P == {w.paths[1] : w \in W}
<1>1. loggerGccParserCollectActions(words) = <<action>>
  BY Zenon DEF loggerGccParserCollectActions, GccStart, GccFold, Without
<1>2. s \in GccStates(W) /\ GccAt(s, words, m)
  BY GccAtEnd
<1> HIDE DEF s
<1>3. a \in Seq(A) /\ s.sources \in Seq(P) /\ q \in Nat
  BY <1>2 DEF GccStates
<1>4. m \in Nat /\ DOMAIN words = 1 .. m
  OBVIOUS
<1> HIDE DEF m
<1>5. /\ Len(a) = m + 1
      /\ \A j \in 1 .. m : Plain(a[1 + j]) = words[j]
  BY <1>2 DEF GccAt, ArgumentsAt
<1>6. /\ q \in 1 .. m + 1
      /\ \A j \in 1 .. m : words[j].option = "-I" => j < q
      /\ q \in 2 .. m + 1 => ~TakesValue(words[q - 1])
  <2>1. /\ q \in 1 .. m + 2
        /\ \A j \in 1 .. m : words[j].option = "-I" => j < q
        /\ q = m + 2 => m # 0 /\ words[m].option = "-I" /\ words[m].paths = <<>>
        /\ q \in 2 .. m + 1 => ~TakesValue(words[q - 1])
    BY <1>2 DEF GccAt, PlaceAt
  <2>2. q # m + 2
    <3> SUFFICES ASSUME q = m + 2 PROVE FALSE
      OBVIOUS
    <3>1. m \in DOMAIN words /\ TakesValue(words[m])
      BY <1>4, <2>1 DEF TakesValue
    <3>2. m + 1 \in DOMAIN words
      BY <3>1 DEF WellFormed
    <3> QED BY <1>4, <3>2
  <2> HIDE DEF q
  <2>3. q \in 1 .. m + 1
    BY <1>4, <2>1, <2>2
  <2> QED BY <2>1, <2>3
<1> HIDE DEF q
<1>7. PICK D : d \in Seq(D)
  BY DefaultArguments
<1> HIDE DEF d, a, A, P
<1>8. IsInserted(SubSeq(a, 1, q) \o d \o SubSeq(a, q + 1, Len(a)), a, d, q)
  <2> DEFINE E == A \cup D
  <2>1. a \in Seq(E) /\ d \in Seq(E)
    BY <1>3, <1>7
  <2>2. q \in 1 .. Len(a)
    BY <1>5, <1>6
  <2> HIDE DEF E
  <2> QED BY <2>1, <2>2, Inserted
<1>9. InsertedAfter(q - 1, words, action.arguments)
  <2> DEFINE t == action.arguments
             n == q - 1
             l == Len(d)
  <2>0. l \in Nat
    BY <1>7
  <2>1. t = SubSeq(a, 1, q) \o d \o SubSeq(a, q + 1, Len(a))
    OBVIOUS
  <2> HIDE DEF t, action
  <2>2. /\ Len(t) = m + 1 + l
        /\ \A j \in 1 .. q : t[j] = a[j]
        /\ \A j \in 1 .. l : t[q + j] = d[j]
        /\ \A j \in q + 1 .. m + 1 : t[l + j] = a[j]
    BY <1>5, <1>8, <2>1 DEF IsInserted
  <2> HIDE DEF l
  <2>3. n \in 0 .. m /\ n \in Nat /\ q = 1 + n
    BY <1>4, <1>6
  <2> HIDE DEF n
  <2>4. Len(t) = 1 + m + l
    BY <1>4, <2>0, <2>2
  <2>5. ASSUME NEW k \in 1 .. n PROVE Plain(t[1 + k]) = words[k]
    <3>1. 1 + k \in 1 .. q /\ k \in 1 .. m
      BY <1>4, <2>3
    <3> QED BY <1>5, <2>2, <3>1
  <2>6. ASSUME NEW k \in 1 .. l PROVE t[1 + n + k] = d[k]
    BY <2>2, <2>3
  <2>7. ASSUME NEW k \in n + 1 .. m PROVE Plain(t[1 + l + k]) = words[k]
    <3>1. 1 + k \in q + 1 .. m + 1 /\ l + (1 + k) = 1 + l + k /\ k \in 1 .. m
      BY <1>4, <2>0, <2>3
    <3>2. t[1 + l + k] = a[1 + k]
      BY <2>2, <3>1
    <3> QED BY <1>5, <3>1, <3>2
  <2>8. n # 0 => ~TakesValue(words[n])
    <3>1. n # 0 => q \in 2 .. m + 1 /\ q - 1 = n
      BY <1>4, <2>3
    <3> QED BY <1>6, <3>1
  <2>9. ASSUME NEW k \in 1 .. m, words[k].option = "-I" PROVE k <= n
    <3>1. k < q
      BY <1>6, <2>9
    <3> QED BY <1>4, <2>3, <3>1
  <2>10. InsertedAfter(n, words, t)
    BY <1>4, <2>4, <2>5, <2>6, <2>7, <2>8, <2>9 DEF InsertedAfter, m, l, d
  <2> QED BY <2>10 DEF n, t
<1>10. ASSUME NEW p \in Range(left), NEW j \in DOMAIN words, IsOutput(words, j)
       PROVE  <<p>> # words[j + 1].paths
  <2>1. IsOutputOption(words[j]) /\ \A i \in j + 1 .. m : ~IsOutputOption(words[i])
    <3>1. ASSUME NEW i \in j + 1 .. m PROVE ~IsOutputOption(words[i])
      <4>1. i \in DOMAIN words /\ ~(i <= j)
        BY <1>4
      <4> QED BY <1>10, <4>1 DEF IsOutput, IsOutputOption
    <3> QED BY <1>10, <3>1 DEF IsOutput, IsOutputOption
  <2>2. j # m
    <3> SUFFICES ASSUME j = m PROVE FALSE
      OBVIOUS
    <3>1. TakesValue(words[j])
      BY <2>1 DEF IsOutputOption, TakesValue, Word
    <3>2. m + 1 \in DOMAIN words
      BY <3>1 DEF WellFormed
    <3> QED BY <1>4, <3>2
  <2>3. s.output = words[j + 1].paths
    BY <1>2, <1>4, <2>1, <2>2 DEF GccAt, OutputAt
  <2>4. Distinct(s.sources)
    BY <1>2 DEF GccAt
  <2>5. <<p>> # s.output
    BY <1>3, <2>4, WithoutOutput
  <2> QED BY <2>3, <2>5
<1>11. CommandKept(words, action)
  <2>1. action.sources = left
    OBVIOUS
  <2>2. q - 1 \in 0 .. m
    BY <1>4, <1>6
  <2> HIDE DEF action, left
  <2> QED BY <1>9, <1>10, <2>1, <2>2 DEF CommandKept, m
<1> QED BY <1>1, <1>11

(* Each entry of a gcc call is about a source of its one action. *)
LEMMA EntryOfAction ==
  ASSUME NEW c \in Call, NEW action, loggerCollectActionsByProgName[c] = <<action>>,
         NEW P, action.sources \in Seq(P), NEW e \in Range(Entries[c])
  PROVE  e.command = action.arguments /\ e.file \in Range(action.sources)
<1> DEFINE found == loggerCollectActionsByProgName[c]
           parts == [k \in DOMAIN found |-> ActionEntries(found[k])]
           E == Range(ActionEntries(action))
<1>1. Entries[c] = FlattenSeq(parts)
  BY DEF Entries
<1>2. DOMAIN found = 1 .. 1 /\ found[1] = action
  OBVIOUS
<1>3. ActionEntries(action) =
        [j \in DOMAIN action.sources |-> [command |-> action.arguments, file |-> action.sources[j]]]
  BY DEF ActionEntries
<1>4. ActionEntries(action) \in Seq(E)
  <2> DEFINE u == ActionEntries(action)
  <2>1. DOMAIN u = 1 .. Len(action.sources) /\ Len(action.sources) \in Nat
    BY <1>3
  <2>2. u = [j \in DOMAIN u |-> u[j]]
    BY <1>3
  <2>3. \A j \in DOMAIN u : u[j] \in E
    BY DEF Range
  <2> HIDE DEF u, E
  <2>4. u \in [1 .. Len(action.sources) -> E]
    BY <2>1, <2>2, <2>3
  <2>5. u \in Seq(E)
    BY <2>1, <2>4
  <2> QED BY <2>5 DEF u
<1> HIDE DEF found, E
<1>5. parts \in Seq(Seq(E))
  <2>1. parts \in [1 .. 1 -> Seq(E)]
    BY <1>2, <1>4
  <2> QED BY <2>1
<1> HIDE DEF parts
<1>6. Entries[c] \in Seq(E)
  BY <1>1, <1>5, FlattenHolds
<1>7. e \in E
  BY <1>6 DEF Range
<1>8. PICK j \in DOMAIN ActionEntries(action) : e = ActionEntries(action)[j]
  BY <1>7 DEF E, Range
<1>9. j \in DOMAIN action.sources /\ e = [command |-> action.arguments, file |-> action.sources[j]]
  BY <1>3, <1>8
<1> QED BY <1>9 DEF Range

(* So the entries of a call keep its command. *)
LEMMA CommandsHold ==
  ASSUME NEW c \in Call, Tool[c] = "gcc", WellFormed(Words[c]), NEW e \in Range(Entries[c])
  PROVE  /\ \E n \in 0 .. Len(Words[c]) : InsertedAfter(n, Words[c], e.command)
         /\ \A j \in DOMAIN Words[c] : IsOutput(Words[c], j) => <<e.file>> # Words[c][j + 1].paths
<1> DEFINE W == Range(Words[c])
<1>1. Words[c] \in Seq(W) /\ IsWords(Words[c])
  <2>1. Words[c] \in Seq(W)
    BY WordsAssumption
  <2>2. \A w \in W : w = [option |-> w.option, paths |-> w.paths, abs |-> FALSE]
    BY WordsAssumption
  <2>3. \A k \in DOMAIN Words[c] : Words[c][k] \in W
    BY DEF Range
  <2> QED BY <2>1, <2>2, <2>3 DEF IsWords
<1> HIDE DEF W
<1>2. PICK action : /\ loggerGccParserCollectActions(Words[c]) = <<action>>
                    /\ CommandKept(Words[c], action)
  BY <1>1, GccCommand
<1>3. PICK other : /\ loggerGccParserCollectActions(Words[c]) = <<other>>
                   /\ other.sources \in Seq({w.paths[1] : w \in W})
  BY <1>1, GccActions
<1>4. other = action
  <2>1. <<other>>[1] = <<action>>[1]
    BY <1>2, <1>3
  <2> QED BY <2>1
<1>5. loggerCollectActionsByProgName[c] = <<action>>
  BY <1>2, Zenon DEF loggerCollectActionsByProgName
<1>6. e.command = action.arguments /\ e.file \in Range(action.sources)
  <2> DEFINE P == {w.paths[1] : w \in W}
  <2>1. action.sources \in Seq(P)
    BY <1>3, <1>4
  <2> HIDE DEF P
  <2> QED BY <1>5, <2>1, EntryOfAction
<1> QED BY <1>2, <1>6 DEF CommandKept

(* Whatever the words of a compiler call are, as long as each option that takes
   a value has one: what is logged is the call, with the default directories in
   one place, behind every -I with its path, and no entry is about the file
   that the last -o names (processArgument, loggerGccParserCollectActions). *)
THEOREM CommandsAlwaysKept == Spec => []CommandsKept
<1>1. KeptInv => CommandsKept
  BY CommandsHold DEF KeptInv, LoggedLater, CommandsKept
<1> QED BY <1>1, KeptInvariant, PTL
=============================================================================
