----------------------------- MODULE WebServer -----------------------------
(***************************************************************************)
(* The web server's threads, each polling for requests of its own, and the *)
(* sessions they share: SessionManager's map, the raw Session pointer that *)
(* a request keeps after the map is unlocked, and the thread_local that    *)
(* tells the services whose request they serve.  Authentication is on.     *)
(***************************************************************************)
EXTENDS Naturals, FiniteSets

CONSTANTS
  Threads,
  Main,            \* the thread that calls run() and serves the last server
  SessionIds,
  NoSession,       \* the null pointer; a request without a cookie
  Lifetime,
  ClearThreshold,  \* SessionClearThreshold
  MaxTime, MaxRequests   \* bounds: ticks of the clock, requests

ASSUME ThreadsAssumption == Main \in Threads
ASSUME NoSessionAssumption == NoSession \notin SessionIds
ASSUME NumbersAssumption == {Lifetime, ClearThreshold, MaxTime, MaxRequests} \subseteq Nat

VARIABLES
  sessions,   \* _sessions
  lastHit,    \* their _lastHit
  now,
  pc, uri, cookie,   \* a thread and its request
  session,    \* the Session* of the request
  context,    \* requestSessionOfCurrentTread
  requests,
  exitFlag, process,
  \* history:
  issued,     \* the sessions that logins have made
  loggedOut,  \* the sessions whose logout has returned
  late        \* whether the thread's request came after that

history == <<issued, loggedOut>>
request == <<uri, cookie, session, late>>
store == <<sessions, lastHit>>
vars == <<store, now, pc, request, context, requests, exitFlag, process, history>>

(* Static files, service calls, and the calls of AuthenticationService. *)
AuthCalls == {"login", "logout", "user"}
Uris == {"static", "service"} \cup AuthCalls

Init ==
  /\ sessions = {}
  /\ lastHit = [s \in SessionIds |-> 0]
  /\ now = 0
  /\ pc = [t \in Threads |-> "poll"]
  /\ uri = [t \in Threads |-> "static"]
  /\ cookie = [t \in Threads |-> NoSession]
  /\ session = [t \in Threads |-> NoSession]
  /\ context = [t \in Threads |-> NoSession]
  /\ requests = 0
  /\ exitFlag = FALSE /\ process = "running"
  /\ issued = {} /\ loggedOut = {}
  /\ late = [t \in Threads |-> FALSE]

Goto(t, label) == pc' = [pc EXCEPT ![t] = label]
SetContext(t, s) == context' = [context EXCEPT ![t] = s]

IsValid(s) == now < lastHit[s] + Lifetime

(* The session that the pointer in t's hands points to is gone.  Reading it *)
(* is undefined: isValid may then say anything, and the memory may be that  *)
(* of another session by now.                                               *)
Outlived(t) == session[t] \notin sessions \cup {NoSession}

Validity(t) ==
  IF session[t] = NoSession THEN {FALSE}
  ELSE IF Outlived(t) THEN BOOLEAN ELSE {IsValid(session[t])}

Named(t) == {session[t]} \cup (IF Outlived(t) THEN sessions ELSE {})

-----------------------------------------------------------------------------
Request(t, u, c) ==
  /\ process = "running"
  /\ pc[t] = "poll" /\ ~exitFlag
  /\ requests < MaxRequests
  /\ requests' = requests + 1
  /\ uri' = [uri EXCEPT ![t] = u]
  /\ cookie' = [cookie EXCEPT ![t] = c]
  /\ session' = [session EXCEPT ![t] = NoSession]
  /\ late' = [late EXCEPT ![t] = c \in loggedOut]
  /\ Goto(t, IF u = "static" THEN "handle" ELSE "find")
  /\ UNCHANGED <<store, now, context, exitFlag, process, history>>

(* getSessionCookie; the authentication service needs no valid session.     *)
Find(t) ==
  LET found == IF cookie[t] \in sessions THEN cookie[t] ELSE NoSession
      auth == uri[t] \in AuthCalls
  IN /\ process = "running"
     /\ pc[t] = "find"
     /\ session' = [session EXCEPT ![t] = found]
     /\ IF auth THEN SetContext(t, found) ELSE UNCHANGED context
     /\ Goto(t, IF auth THEN "handle" ELSE "check")
     /\ UNCHANGED <<store, now, uri, cookie, late, requests, exitFlag, process, issued, loggedOut>>

Check(t) ==
  /\ process = "running"
  /\ pc[t] = "check"
  /\ \E valid \in Validity(t) :
       /\ IF valid THEN SetContext(t, session[t]) ELSE UNCHANGED context
       /\ Goto(t, IF valid THEN "handle" ELSE "redirect")
  /\ UNCHANGED <<store, now, request, requests, exitFlag, process, history>>

(* Mutant: the erasure is part of the cleanup. *)
DestroyLazily(s) ==
  LET rest == sessions \ {s}
  IN sessions' = IF Cardinality(rest) > ClearThreshold
                 THEN {r \in rest : IsValid(r)} ELSE sessions

(* Mutant: the cleanup removes the sessions that are valid. *)
DestroyValid(s) ==
  LET rest == sessions \ {s}
  IN sessions' = IF Cardinality(rest) > ClearThreshold
                 THEN {r \in rest : ~IsValid(r)} ELSE rest

(* Mutant: the cleanup locks the mutex that its caller holds. *)
DestroyLockedTwice(s) ==
  /\ Cardinality(sessions \ {s}) <= ClearThreshold
  /\ sessions' = sessions \ {s}

(* destroySessionCookie, of a pointer that is not null. *)
Destroy(s) ==
  LET rest == sessions \ {s}
  IN sessions' = IF Cardinality(rest) > ClearThreshold
                 THEN {r \in rest : IsValid(r)} ELSE rest

(* The request is over, and with it what its thread knew of it. *)
Done(t) ==
  /\ Goto(t, "poll")
  /\ uri' = [uri EXCEPT ![t] = "static"]
  /\ cookie' = [cookie EXCEPT ![t] = NoSession]
  /\ session' = [session EXCEPT ![t] = NoSession]
  /\ late' = [late EXCEPT ![t] = FALSE]

Redirect(t) ==
  /\ process = "running"
  /\ pc[t] = "redirect"
  /\ \/ session[t] = NoSession /\ UNCHANGED sessions
     \/ session[t] # NoSession /\ \E s \in Named(t) : Destroy(s)
  /\ Done(t)
  /\ UNCHANGED <<lastHit, now, context, requests, exitFlag, process, history>>

-----------------------------------------------------------------------------
(* Mutant: the context is not reset if the handler throws. *)
LeaveMayKeepContext(t) == Done(t) /\ (SetContext(t, NoSession) \/ UNCHANGED context)

(* The end of executeWithSessionContext, thrown or not. *)
Leave(t) == Done(t) /\ SetContext(t, NoSession)

(* A handler that leaves the sessions alone; or a login that fails. *)
Serve(t) ==
  /\ process = "running"
  /\ pc[t] = "handle"
  /\ \/ uri[t] \in {"static", "service", "login"}
     \/ uri[t] = "user" /\ context[t] # NoSession
     \/ uri[t] = "logout" /\ context[t] = NoSession
  /\ Leave(t)
  /\ UNCHANGED <<store, now, requests, exitFlag, process, history>>

Login(t, s) ==
  /\ process = "running"
  /\ pc[t] = "handle" /\ uri[t] = "login"
  /\ s \notin issued
  /\ sessions' = sessions \cup {s}
  /\ lastHit' = [lastHit EXCEPT ![s] = now]
  /\ issued' = issued \cup {s}
  /\ Leave(t)
  /\ UNCHANGED <<now, requests, exitFlag, process, loggedOut>>

Logout(t) ==
  /\ process = "running"
  /\ pc[t] = "handle" /\ uri[t] = "logout" /\ context[t] # NoSession
  /\ \E s \in Named(t) : Destroy(s)
  /\ loggedOut' = loggedOut \cup {context[t]}
  /\ Leave(t)
  /\ UNCHANGED <<lastHit, now, requests, exitFlag, process, issued>>

(* The pointer in hand is used although its session is gone, or null is.    *)
BadPointer(t) ==
  \/ pc[t] \in {"check", "redirect", "handle"} /\ Outlived(t)
  \/ pc[t] = "handle" /\ uri[t] = "user" /\ context[t] = NoSession

Crash(t) ==
  /\ process = "running"
  /\ BadPointer(t)
  /\ process' = "crashed"
  /\ UNCHANGED <<store, now, pc, request, context, requests, exitFlag, history>>

-----------------------------------------------------------------------------
Tick ==
  /\ process = "running"
  /\ now < MaxTime
  /\ now' = now + 1
  /\ UNCHANGED <<store, pc, request, context, requests, exitFlag, process, history>>

(* SIGINT or SIGTERM *)
Signal ==
  /\ process = "running"
  /\ ~exitFlag
  /\ exitFlag' = TRUE
  /\ UNCHANGED <<store, now, pc, request, context, requests, process, history>>

StopServing(t) ==
  /\ process = "running"
  /\ pc[t] = "poll" /\ exitFlag
  /\ Goto(t, "left")
  /\ UNCHANGED <<store, now, request, context, requests, exitFlag, process, history>>

(* run() returns; the threads it started are joinable, so the destructor of *)
(* their vector terminates the process.                                     *)
ReturnFromRun ==
  /\ process = "running"
  /\ pc[Main] = "left"
  /\ process' = IF Threads = {Main} THEN "returned" ELSE "terminated"
  /\ UNCHANGED <<store, now, pc, request, context, requests, exitFlag, history>>

Handle(t) ==
  \/ Find(t) \/ Check(t) \/ Redirect(t) \/ Serve(t) \/ Logout(t) \/ Crash(t)
  \/ \E s \in SessionIds : Login(t, s)

Step(t) ==
  \/ Handle(t)
  \/ StopServing(t)
  \/ \E u \in Uris, c \in issued \cup {NoSession} : Request(t, u, c)

Next == (\E t \in Threads : Step(t)) \/ Tick \/ Signal \/ ReturnFromRun

Fairness == \A t \in Threads : WF_vars(Handle(t))
Spec == Init /\ [][Next]_vars /\ Fairness

-----------------------------------------------------------------------------
Labels == {"poll", "find", "check", "redirect", "handle", "left"}

(* Types; what is shared is what was issued; and a thread that handles no   *)
(* request knows no session.                                                *)
TypeOK ==
  /\ sessions \subseteq issued
  /\ issued \subseteq SessionIds
  /\ loggedOut \subseteq issued
  /\ lastHit \in [SessionIds -> 0..MaxTime]
  /\ now \in 0..MaxTime
  /\ pc \in [Threads -> Labels]
  /\ uri \in [Threads -> Uris]
  /\ cookie \in [Threads -> issued \cup {NoSession}]
  /\ session \in [Threads -> issued \cup {NoSession}]
  /\ context \in [Threads -> issued \cup {NoSession}]
  /\ requests \in 0..MaxRequests
  /\ exitFlag \in BOOLEAN
  /\ process \in {"running", "crashed", "terminated", "returned"}
  /\ late \in [Threads -> BOOLEAN]
  /\ \A t \in Threads : pc[t] # "handle" => context[t] = NoSession

(* The session that services see on a thread is the one in the map that the *)
(* request's own cookie names, or none if there is no such session; a       *)
(* service is never called without one; and a thread that handles no        *)
(* request, or a static file, has none.  Where the session was destroyed    *)
(* during the request the pointer leads nowhere (Outlived), and nothing is  *)
(* said of what services read there (mainrequesthandler.cpp, session.h).    *)
ContextMatchesRequest ==
  \A t \in Threads :
    /\ pc[t] = "handle" /\ uri[t] # "static" /\ ~Outlived(t) =>
         context[t] = IF cookie[t] \in sessions THEN cookie[t] ELSE NoSession
    /\ pc[t] = "handle" /\ uri[t] = "service" => context[t] # NoSession
    /\ pc[t] # "handle" \/ uri[t] = "static" => context[t] = NoSession

(* Once a logout has returned, no request that comes with that cookie gets  *)
(* to a service.                                                            *)
NoServiceAfterLogout ==
  \A t \in Threads : pc[t] = "handle" /\ uri[t] = "service" => ~late[t]

(* A session ends by a logout that came with its cookie, or after its       *)
(* lifetime; no request ends that of another, but one whose pointer has     *)
(* outlived its own session.                                                *)
SessionsEndForAReason ==
  [][\A s \in sessions \ sessions' :
       \/ ~IsValid(s)
       \/ \E t \in Threads : uri[t] = "logout" /\ cookie[t] = s /\ pc[t] = "handle"
       \/ \E t \in Threads : Outlived(t)]_vars

(* Every request ends, unless the process does.                             *)
RequestsEnd ==
  \A t \in Threads :
    pc[t] \notin {"poll", "left"} ~> (pc[t] \in {"poll", "left"} \/ process # "running")
=============================================================================
