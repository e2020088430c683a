------------------------------- MODULE Pipeline ------------------------------
(* From the build to the browser: a logged build whose compile commands the
   Java parser reads, and a parser run whose search index the web server's
   search service opens. *)
EXTENDS BuildLogger, JavaParser, SearchIndex, SearchService

(* Each file of the search run has a directory, by its number. *)
ASSUME ParentAssumption == IsFiniteSet(Regular) /\ \A f \in Regular : Parent[f] \in Nat

VARIABLE stage  \* "build", then "java"; or "index", then "serve"

vars == <<buildVars, javaVars, searchVars, serviceVars, stage>>

Init ==
  /\ stage \in {"build", "index"}
  /\ BuildInit /\ JavaInit(<<>>) /\ SearchInit /\ ServiceInit
  /\ stage = "build" => ~dry /\ persisted = {}

(* Only the .java entries are read; a log that is no JSON list is an exception
   that nobody catches. *)
AddJavaFile(files, entry) ==
  IF Extension[entry.file] = "java" THEN Append(files, entry.file) ELSE files

JavaFiles == FoldLeft(AddJavaFile, <<>>, EntriesOf(log))

BuildStep ==
  /\ stage = "build"
  /\ \E c \in Call : CallStep(c) \/ Kill(c)
  /\ UNCHANGED <<javaVars, searchVars, serviceVars, stage>>

(* The build's processes are gone. *)
StartParse ==
  /\ stage = "build" /\ BuildEnded
  /\ stage' = "java"
  /\ IF IsList(log) THEN input' = JavaFiles /\ UNCHANGED phase
     ELSE phase' = "failed" /\ UNCHANGED input
  /\ callAt' = [c \in Call |-> "ended"] /\ hooked' = [c \in Call |-> FALSE]
  /\ UNCHANGED <<log, lock, plan, buildHistory, server, commands, pool, rows, unparsed,
                 searchVars, serviceVars>>

JavaStep ==
  /\ stage = "java" /\ JavaNext
  /\ UNCHANGED <<buildVars, searchVars, serviceVars, stage>>

IndexStep ==
  /\ stage = "index" /\ IndexNext
  /\ UNCHANGED <<buildVars, javaVars, serviceVars, stage>>

(* A web server is started on what the run has left. *)
StartServing ==
  /\ stage = "index" /\ SearchEnded /\ ~isAlive
  /\ stage' = "serve"
  /\ UNCHANGED <<buildVars, javaVars, searchVars, serviceVars>>

ServiceStep ==
  /\ stage = "serve" /\ ServiceNext(index, NoIndex)
  /\ UNCHANGED <<buildVars, javaVars, searchVars, stage>>

Hung == \E w \in Worker : pc[w] = "hung"

(* Nothing is under way any more, or somebody waits for a process that died
   under its hands. *)
Settled ==
  \/ stage = "java"  /\ (JavaEnded \/ Hung)
  \/ stage = "index" /\ (died \/ run = "aborted")
  \/ stage = "serve" /\ (app = "dead" \/ webServer = "aborted" \/ \A t \in Thread : threadAt[t] = "idle")

Terminating == Settled /\ UNCHANGED vars

Next ==
  BuildStep \/ StartParse \/ JavaStep \/ IndexStep \/ StartServing \/ ServiceStep \/ Terminating

(* The operating system runs every process that can run; nothing makes one
   fail, be killed, or ask. *)
Fairness ==
  /\ \A c \in Call : WF_vars(BuildStep /\ CallStep(c))
  /\ WF_vars(StartParse) /\ WF_vars(StartServing)
  /\ WF_vars(JavaStep /\ ParseStep) /\ \A w \in Worker : WF_vars(JavaStep /\ WorkerStep(w))
  /\ WF_vars(IndexStep /\ ParserStep) /\ WF_vars(IndexStep /\ IndexerStep) /\ WF_vars(IndexStep /\ Orphaned)
  /\ \A t \in Thread : WF_vars(ServiceStep /\ ThreadStep(t))
  /\ WF_vars(ServiceStep /\ (AppAnswers \/ OpenIndex(index, NoIndex)))

Spec == Init /\ [][Next]_vars /\ Fairness

-----------------------------------------------------------------------------
(* A word that names a Java source: no option, nor what -d or -cp take. *)
IsJavaSource(words, j) ==
  /\ words[j].option = "" /\ Extension[words[j].paths[1]] = "java"
  /\ j > 1 => words[j - 1].option \notin {"-d", "-cp"}

(* In the database: the build action of a file, its BuildSource row, and one
   status, the one that the answer for this very file gives. *)
Recorded(f) ==
  /\ f \in actions \cap sources
  /\ {s \in statuses : s.file = f} = {[file |-> f, status |-> parseStatus(f)]}

(* A Java source that the build has compiled, and whose call the logger has
   written down, ends in the database with its action and its status, unless
   the parser fails, or its job is given up, refused or mixed up: the words of
   the call, the log with its brackets and commas, the filter of its entries and
   the pools between lose none, and however often a file is parsed, and by
   whichever thread, it keeps one status. *)
CompiledIsParsed ==
  stage = "java" /\ phase = "done" /\ ~torn =>
    \A c \in logged : Tool[c] = "javac" =>
      \A j \in DOMAIN Words[c] :
        IsJavaSource(Words[c], j) =>
          LET f == Words[c][j].paths[1] IN Recorded(f) \/ f \in unparsed

(* The pages of a search for files, whatever rows the run has left for the
   server, by itself or cut short, are disjoint and hold all that is found. *)
PagesOfFiles == stage = "index" /\ SearchEnded /\ ~isAlive => PagesPartition(persisted)

(* Every build, parse, search and server comes to rest: no process waits for a
   lock, a connection, an answer or an end that does not come, unless the
   process it talks to has died. *)
PipelineEnds == []<>Settled
=============================================================================
