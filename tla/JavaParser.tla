----------------------------- MODULE JavaParser ------------------------------
(* The Java parser: thread pools whose jobs each take a free connection to the
   one Java process, for the compile commands of a JSON input and then for the
   classes of a jar. *)
EXTENDS Naturals, FiniteSets, Sequences

CONSTANTS
  Worker,           \* the threads of a pool; as many connections are made
  JavaFile, NoFile,
  Classes,          \* sequence: the bytecode files of the jar, [class, source]
  Answer            \* file -> [refused, error, logs]: what the Java process says of it

Handler == 1 .. Cardinality(Worker)

ASSUME WorkerAssumption == IsFiniteSet(Worker) /\ Worker # {}

VARIABLES
  phase,       \* of parse()
  server,      \* is the Java process running?
  queue,       \* of the pool: jobs, [kind, file]
  input,       \* the Java files of the compile commands
  commands,    \* what decompileJar has collected
  pc, job, scan, held,  \* a thread: its place, job, position in the handlers, handler
  reserved,    \* handler -> its flag
  actions, sources, statuses, buildLogs,   \* the database
  unparsed     \* history: the files of jobs that were given up, refused or mixed up

pool == <<queue, pc, job, scan, held, reserved>>
rows == <<actions, sources, statuses, buildLogs>>
javaVars == <<phase, server, input, commands, pool, rows, unparsed>>

Job(kind, file) == [kind |-> kind, file |-> file]
NoJob == Job("none", NoFile)

(* Parsing finds no Java file to parse, or starts the Java process. *)
JavaInit(files) ==
  /\ phase = "commands" /\ server = "none"
  /\ queue = <<>> /\ input = files /\ commands = <<>>
  /\ pc = [w \in Worker |-> "idle"] /\ job = [w \in Worker |-> NoJob]
  /\ scan = [w \in Worker |-> 1]    /\ held = [w \in Worker |-> 0]
  /\ reserved = [h \in Handler |-> FALSE]
  /\ actions = {} /\ sources = {} /\ statuses = {} /\ buildLogs = {} /\ unparsed = {}

-----------------------------------------------------------------------------
Jobs(kind, files) == [k \in DOMAIN files |-> Job(kind, files[k])]

(* The phases of parse(): the work of the next one is enqueued. *)
Enqueue(from, to, jobs) ==
  /\ phase = from /\ phase' = to
  /\ queue' = jobs
  /\ UNCHANGED <<input, commands, pc, job, scan, held, reserved, rows, unparsed>>

startAndConnectToJavaProcess == server' = "running"

(* A connection is not accepted within 25 s, or the process is gone: the
   exception leaves parse() and ends the parser. *)
ConnectFails ==
  /\ phase \in {"commands", "jar"} /\ server # "running"
  /\ phase' = "failed"
  /\ UNCHANGED <<server, input, commands, pool, rows, unparsed>>

parseCompileCommands ==
  IF input = <<>>
  THEN Enqueue("commands", "jar", <<>>) /\ UNCHANGED server
  ELSE Enqueue("commands", "parsing", Jobs("parse", input)) /\ startAndConnectToJavaProcess

decompileJar ==
  /\ Enqueue("jar", "decompiling", Jobs("decompile", [k \in DOMAIN Classes |-> Classes[k].class]))
  /\ startAndConnectToJavaProcess

parseJar == Enqueue("decompiled", "parsing jar", Jobs("parse", commands)) /\ UNCHANGED server

(* wait() returns. *)
PoolDone ==
  /\ phase \in {"parsing", "decompiling", "parsing jar"}
  /\ queue = <<>> /\ \A w \in Worker : pc[w] = "idle"
  /\ phase' = CASE phase = "parsing"     -> "jar"
                [] phase = "decompiling" -> "decompiled"
                [] phase = "parsing jar" -> "done"
  /\ UNCHANGED <<server, input, commands, pool, rows, unparsed>>

-----------------------------------------------------------------------------
Working == phase \notin {"failed", "done"}
At(w, label) == Working /\ pc[w] = label
Goto(w, label) == pc' = [pc EXCEPT ![w] = label]

Take(w) ==
  /\ At(w, "idle") /\ queue # <<>>
  /\ job' = [job EXCEPT ![w] = Head(queue)] /\ queue' = Tail(queue)
  /\ scan' = [scan EXCEPT ![w] = 1]
  /\ Goto(w, "look")
  /\ UNCHANGED <<phase, server, input, commands, held, reserved, rows, unparsed>>

(* findFreeWorker tests the handlers in their order, and reserves one that is
   free in a step of its own.  After a round without one it may have taken 15 s:
   the job is given up. *)
AfterTest(w) ==
  IF ~reserved[scan[w]] THEN {[pc |-> "reserve", scan |-> scan[w]]}
  ELSE IF scan[w] < Cardinality(Worker) THEN {[pc |-> "look", scan |-> scan[w] + 1]}
  ELSE {[pc |-> "look", scan |-> 1], [pc |-> "idle", scan |-> 1]}

Test(w) ==
  /\ At(w, "look")
  /\ \E next \in AfterTest(w) :
       /\ Goto(w, next.pc)
       /\ scan' = [scan EXCEPT ![w] = next.scan]
       /\ unparsed' = IF next.pc = "idle" THEN unparsed \cup {job[w].file} ELSE unparsed
  /\ UNCHANGED <<phase, server, input, commands, queue, job, held, reserved, rows>>

Reserve(w) ==
  /\ At(w, "reserve")
  /\ reserved' = [reserved EXCEPT ![scan[w]] = TRUE]
  /\ held' = [held EXCEPT ![w] = scan[w]]
  /\ Goto(w, "call")
  /\ UNCHANGED <<phase, server, input, commands, queue, job, scan, rows, unparsed>>

addBuildAction(w) == actions' = actions \cup {job[w].file}

(* The build action of a command is stored, then the Java process is asked. *)
Send(w) ==
  /\ At(w, "call")
  /\ IF job[w].kind = "parse" THEN addBuildAction(w) ELSE UNCHANGED actions
  /\ Goto(w, "answer")
  /\ UNCHANGED <<phase, server, input, commands, queue, job, scan, held, reserved, sources, statuses,
                 buildLogs, unparsed>>

ServerDies ==
  /\ Working /\ server = "running"
  /\ server' = "died"
  /\ UNCHANGED <<phase, input, commands, pool, rows, unparsed>>

(* The threads that use w's connection at the same time. *)
Sharing(w) == {v \in Worker \ {w} : pc[v] = "answer" /\ held[v] = held[w]}

PSNone == 0
PSPartiallyParsed == 1
PSFullyParsed == 2
Worst(S) == CHOOSE s \in S : \A t \in S : s <= t

addBuildLogs(logs) ==
  Worst({PSFullyParsed} \cup {IF log = "FatalError" THEN PSNone ELSE PSPartiallyParsed :
                                log \in logs \cap {"FatalError", "Error"}})

parseStatus(file) ==
  LET status == addBuildLogs(Answer[file].logs)
  IN IF Answer[file].error /\ status = PSFullyParsed THEN PSPartiallyParsed ELSE status

(* Mutant of Receive: a refused file returns without giving the handler back. *)
ReceiveKeeping(w, file) ==
  /\ At(w, "answer") /\ server = "running"
  /\ file \in {job[w].file} \cup {job[v].file : v \in Sharing(w)}
  /\ Goto(w, CASE Answer[file].refused         -> "idle"
               [] job[w].kind = "parse"        -> "store"
               [] OTHER                        -> "push")
  /\ UNCHANGED <<phase, server, input, commands, queue, job, scan, held, reserved, rows, unparsed>>

(* The answer for a file, its own unless the connection is shared.  Logs are
   stored for the file of the job, the rest for the file that the answer names. *)
Receive(w, file) ==
  /\ At(w, "answer") /\ server = "running"
  /\ file \in {job[w].file} \cup {job[v].file : v \in Sharing(w)}
  /\ LET refused == Answer[file].refused
     IN /\ job' = IF refused THEN job ELSE [job EXCEPT ![w].file = file]
        /\ unparsed' = IF refused \/ file # job[w].file THEN unparsed \cup {job[w].file} ELSE unparsed
        /\ buildLogs' = IF refused \/ job[w].kind = "decompile" THEN buildLogs
                        ELSE buildLogs \cup ({job[w].file} \X Answer[file].logs)
        /\ Goto(w, CASE refused                   -> "free"
                     [] job[w].kind = "parse"     -> "store"
                     [] OTHER                     -> "push")
  /\ UNCHANGED <<phase, server, input, commands, queue, scan, held, reserved, actions, sources, statuses>>

(* Any other exception than the two that are caught ends the parser: the Java
   process has died, or two threads have read each other's bytes. *)
Terminate(w) ==
  /\ At(w, "answer")
  /\ server # "running" \/ Sharing(w) # {}
  /\ phase' = "failed"
  /\ UNCHANGED <<server, input, commands, pool, rows, unparsed>>

(* Or one waits for bytes that the other has read. *)
Hang(w) ==
  /\ At(w, "answer") /\ Sharing(w) # {}
  /\ Goto(w, "hung")
  /\ UNCHANGED <<phase, server, input, commands, queue, job, scan, held, reserved, rows, unparsed>>

(* addCompileCommand, for the file that the answer names. *)
addCompileCommand(w) ==
  /\ At(w, "store")
  /\ sources' = sources \cup {job[w].file}
  /\ statuses' = {s \in statuses : s.file # job[w].file}
                   \cup {[file |-> job[w].file, status |-> parseStatus(job[w].file)]}
  /\ Goto(w, "free")
  /\ UNCHANGED <<phase, server, input, commands, queue, job, scan, held, reserved, actions, buildLogs,
                 unparsed>>

(* The decompiled file is added to a vector that no mutex protects. *)
Push(w) ==
  /\ At(w, "push")
  /\ Goto(w, "pushed")
  /\ UNCHANGED <<phase, server, input, commands, queue, job, scan, held, reserved, rows, unparsed>>

Source(class) == Classes[CHOOSE k \in DOMAIN Classes : Classes[k].class = class].source

Pushed(w) ==
  /\ At(w, "pushed")
  /\ LET alone == \A v \in Worker \ {w} : pc[v] # "pushed"
         all   == Append(commands, Source(job[w].file))
     IN \/ commands' = all /\ UNCHANGED <<phase, unparsed>>
        \/ ~alone /\ UNCHANGED <<commands, phase>> /\ unparsed' = unparsed \cup {job[w].file}
        \/ ~alone /\ phase' = "failed" /\ UNCHANGED <<commands, unparsed>>
  /\ Goto(w, "free")
  /\ UNCHANGED <<server, input, queue, job, scan, held, reserved, rows>>

setFree(w) ==
  /\ At(w, "free")
  /\ reserved' = [reserved EXCEPT ![held[w]] = FALSE]
  /\ held' = [held EXCEPT ![w] = 0]
  /\ job' = [job EXCEPT ![w] = NoJob]
  /\ Goto(w, "idle")
  /\ UNCHANGED <<phase, server, input, commands, queue, scan, rows, unparsed>>

WorkerStep(w) ==
  Take(w) \/ Test(w) \/ Reserve(w) \/ Send(w)
    \/ (\E f \in JavaFile : Receive(w, f)) \/ Terminate(w) \/ addCompileCommand(w) \/ Push(w)
    \/ Hang(w) \/ Pushed(w) \/ setFree(w)

ParseStep == parseCompileCommands \/ decompileJar \/ parseJar \/ PoolDone \/ ConnectFails

JavaNext == ParseStep \/ ServerDies \/ \E w \in Worker : WorkerStep(w)

JavaSpec == (\E files \in Seq(JavaFile) : JavaInit(files)) /\ [][JavaNext]_javaVars

JavaEnded == phase \in {"done", "failed"}

-----------------------------------------------------------------------------
(* There are as many connections as threads, so a job that looks for one can
   always find one, even if two jobs have taken the same: no job is given up
   because all connections are taken for ever (findFreeWorker, setFree). *)
HandlerForEveryJob ==
  \A w \in Worker : pc[w] = "look" => \E h \in Handler : ~reserved[h]

(* "This is given to a free worker" (ParseJob, javaparser.h): no two jobs are
   given one connection. *)
HandlersExclusive ==
  \A v, w \in Worker : v # w /\ held[v] # 0 => held[v] # held[w]
=============================================================================
