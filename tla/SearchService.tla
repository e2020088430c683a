---------------------------- MODULE SearchService ----------------------------
(* The search service: server threads that share one Java process, and the
   paging of the search for files. *)
EXTENDS Naturals, FiniteSets, Sequences, SequencesExt

CONSTANTS
  Thread, NoThread,  \* the threads of the web server
  Query,             \* queries, each to be answered by itself
  Parent,            \* file -> the number of its directory
  Hidden,            \* files that the filters of a request leave out
  MaxSearches        \* bound: searches asked

ASSUME NoThreadAssumption == NoThread \notin Thread

VARIABLES
  webServer, app,     \* the web server and the Java process
  view,            \* the documents that the process searches
  mutex,           \* _javaProcessMutex
  threadAt, query, answer, \* a thread, what it was asked, what it got
  toApp, fromApp,  \* the pipes
  searches

serviceVars == <<webServer, app, view, mutex, threadAt, query, answer, toApp, fromApp, searches>>

Nobody == "nobody"

ServiceInit ==
  /\ webServer = "off" /\ app = "none" /\ view = {} /\ mutex = NoThread
  /\ threadAt = [t \in Thread |-> "idle"]
  /\ query = [t \in Thread |-> Nobody] /\ answer = [t \in Thread |-> Nobody]
  /\ toApp = <<>> /\ fromApp = <<>> /\ searches = 0

-----------------------------------------------------------------------------
Move(t, label) == threadAt' = [threadAt EXCEPT ![t] = label]

(* The handler is made and forks the process. *)
StartServer ==
  /\ webServer = "off"
  /\ webServer' = "up" /\ app' = "starting"
  /\ UNCHANGED <<view, mutex, threadAt, query, answer, toApp, fromApp, searches>>

(* The one searcher opens the index of that moment, or the process exits. *)
OpenIndex(index, noIndex) ==
  /\ app = "starting"
  /\ app' = IF index = noIndex THEN "dead" ELSE "serving"
  /\ view' = IF index = noIndex THEN view ELSE index
  /\ UNCHANGED <<webServer, mutex, threadAt, query, answer, toApp, fromApp, searches>>

Search(t, q) ==
  /\ webServer = "up" /\ threadAt[t] = "idle" /\ searches < MaxSearches
  /\ searches' = searches + 1
  /\ query' = [query EXCEPT ![t] = q] /\ answer' = [answer EXCEPT ![t] = Nobody]
  /\ Move(t, "lock")
  /\ UNCHANGED <<webServer, app, view, mutex, toApp, fromApp>>

(* Mutant of LockProcess: no mutex guards the process. *)
LockProcessShared(t) ==
  /\ webServer = "up" /\ threadAt[t] = "lock"
  /\ mutex' = t /\ Move(t, "send")
  /\ UNCHANGED <<webServer, app, view, query, answer, toApp, fromApp, searches>>

LockProcess(t) ==
  /\ webServer = "up" /\ threadAt[t] = "lock" /\ mutex = NoThread
  /\ mutex' = t /\ Move(t, "send")
  /\ UNCHANGED <<webServer, app, view, query, answer, toApp, fromApp, searches>>

(* checkProcess: ProcessDied ends the server. *)
SendQuery(t) ==
  /\ webServer = "up" /\ threadAt[t] = "send"
  /\ IF app = "dead"
     THEN webServer' = "aborted" /\ UNCHANGED <<threadAt, toApp>>
     ELSE toApp' = Append(toApp, query[t]) /\ Move(t, "read") /\ UNCHANGED webServer
  /\ UNCHANGED <<app, view, mutex, query, answer, fromApp, searches>>

(* Mutant of ReadAnswer: the mutex is not given back. *)
ReadAnswerLocked(t) ==
  /\ webServer = "up" /\ threadAt[t] = "read" /\ fromApp # <<>>
  /\ answer' = [answer EXCEPT ![t] = Head(fromApp)]
  /\ fromApp' = Tail(fromApp) /\ Move(t, "idle")
  /\ UNCHANGED <<webServer, app, view, mutex, query, toApp, searches>>

ReadAnswer(t) ==
  /\ webServer = "up" /\ threadAt[t] = "read" /\ fromApp # <<>>
  /\ answer' = [answer EXCEPT ![t] = Head(fromApp)]
  /\ fromApp' = Tail(fromApp)
  /\ mutex' = NoThread /\ Move(t, "idle")
  /\ UNCHANGED <<webServer, app, view, query, toApp, searches>>

AppAnswers ==
  /\ app = "serving" /\ toApp # <<>>
  /\ fromApp' = Append(fromApp, Head(toApp)) /\ toApp' = Tail(toApp)
  /\ UNCHANGED <<webServer, app, view, mutex, threadAt, query, answer, searches>>

AppDies ==
  /\ app \in {"starting", "serving"}
  /\ app' = "dead"
  /\ UNCHANGED <<webServer, view, mutex, threadAt, query, answer, toApp, fromApp, searches>>

ThreadStep(t) == LockProcess(t) \/ SendQuery(t) \/ ReadAnswer(t)

ServiceNext(index, noIndex) ==
  \/ StartServer \/ OpenIndex(index, noIndex) \/ AppAnswers \/ AppDies
  \/ \E t \in Thread : ThreadStep(t) \/ \E q \in Query : Search(t, q)

-----------------------------------------------------------------------------
(* searchFile: a page is a range of the directories that have a match, and
   holds their files; the filters are applied to the page. *)
Parents(files) ==
  LET dirs == {Parent[f] : f \in files}
      Before(d) == {e \in dirs : e < d}
  IN [k \in 1 .. Cardinality(dirs) |-> CHOOSE d \in dirs : Cardinality(Before(d)) = k - 1]

Least(a, b) == IF a < b THEN a ELSE b

(* Mutant of searchFile: the last directory of a page is on the next one too. *)
searchFileByFile(files, start, maxSize, hidden) ==
  LET parents == Parents(files)
      maxIdx == Least(Len(parents), start + maxSize)
      page == {f \in files : \E k \in start .. maxIdx : k > 0 /\ Parent[f] = parents[k]} \ hidden
  IN [results |-> page, totalFiles |-> IF page = {} THEN 0 ELSE Len(parents)]

searchFile(files, start, maxSize, hidden) ==
  LET parents == Parents(files)
      minIdx == Least(Len(parents), start)
      maxIdx == Least(Len(parents), start + maxSize)
      page == {f \in files : \E k \in minIdx + 1 .. maxIdx : Parent[f] = parents[k]} \ hidden
  IN [results |-> page, totalFiles |-> IF page = {} THEN 0 ELSE Len(parents)]

-----------------------------------------------------------------------------
(* A thread gets the answer to the query it was asked, although all threads
   talk to one process: never that of the request before or beside it. *)
AnswersMatch == \A t \in Thread : answer[t] \in {Nobody, query[t]}

(* The pages of a search are disjoint and hold all that is found.  They are
   counted in directories, and so is what a page that shows something calls the
   total: it has the files of at most as many directories as its size, however
   many files these are, and says how many directories have a match.  The
   interface means files: maxSize is the "Maximum number of hits"
   (search.thrift:55) and totalFiles the "Number of total filename matches"
   (search.thrift:198), so where two matches share a directory a page of size 1
   has two hits and the total is too low. *)
PagesPartition(files) ==
  \A size \in 1 .. Cardinality(files) + 1 : \A hidden \in {{}, Hidden} :
    LET page(k) == searchFile(files, size * k, size, hidden)
        pages == 0 .. Cardinality(files)
        dirs(matches) == {Parent[f] : f \in matches}
    IN /\ UNION {page(k).results : k \in pages} = files \ hidden
       /\ \A k, l \in pages : k # l => page(k).results \cap page(l).results = {}
       /\ \A k \in pages : page(k).results # {} =>
            /\ page(k).totalFiles = Cardinality(dirs(files)) /\ size * k < page(k).totalFiles
            /\ Cardinality(dirs(page(k).results)) <= size
=============================================================================
