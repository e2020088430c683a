-------------------------- MODULE WebServerProofs ---------------------------
(***************************************************************************)
(* Theorems about WebServer for any number of threads, sessions, requests  *)
(* and ticks.  The argument: a session that a logout has ended is not in   *)
(* the map, and no login brings it back, so a request that comes with its  *)
(* cookie afterwards finds nothing; and what isValid has denied stays      *)
(* denied, since time only goes forward and no request renews a session.   *)
(***************************************************************************)
EXTENDS WebServer, TLAPS

(* Where a request is, and what its thread has in hand there.              *)
RequestInv(t) ==
  /\ session[t] \in {NoSession, cookie[t]}
  /\ pc[t] \in {"poll", "left", "find"} => session[t] = NoSession
  /\ uri[t] = "static" => pc[t] \in {"poll", "left", "handle"} /\ session[t] = NoSession
  /\ pc[t] \in {"check", "redirect"} => uri[t] = "service"
  /\ pc[t] = "handle" /\ uri[t] = "service" => session[t] # NoSession
  /\ pc[t] \in {"check", "redirect", "handle"} /\ uri[t] # "static" /\ session[t] = NoSession =>
       cookie[t] \notin sessions

(* A request that came late has a cookie of which nothing is left.         *)
LateInv(t) ==
  late[t] => /\ cookie[t] \in loggedOut
             /\ uri[t] = "service" => session[t] = NoSession /\ pc[t] # "handle"

(* A session that is found invalid is still invalid when it is destroyed.  *)
RedirectInv(t) ==
  pc[t] = "redirect" /\ session[t] \in sessions => ~IsValid(session[t])

SessionInv ==
  /\ sessions \cap loggedOut = {}
  /\ \A t \in Threads : RequestInv(t) /\ LateInv(t) /\ RedirectInv(t)

(* The context is the pointer of the request.                              *)
ContextHere(t) ==
  context[t] = IF pc[t] = "handle" /\ uri[t] # "static" THEN session[t] ELSE NoSession

ContextInv == \A t \in Threads : ContextHere(t)

IInv == TypeOK /\ ContextInv /\ SessionInv
-----------------------------------------------------------------------------
LEMMA Numbers ==
  /\ Lifetime \in Nat /\ MaxTime \in Nat /\ MaxRequests \in Nat
  /\ ClearThreshold \in Nat
BY NumbersAssumption

(* A destroyed session is gone, and with it only some that are not valid.  *)
LEMMA DestroyRemoves ==
  ASSUME NEW s, Destroy(s)
  PROVE  /\ sessions' \subseteq sessions \ {s}
         /\ \A r \in sessions \ sessions' : r = s \/ ~IsValid(r)
BY DEF Destroy

LEMMA InitInv == Init => IInv
<1> SUFFICES ASSUME Init PROVE IInv
  OBVIOUS
<1>1. TypeOK
  <2>1. 0 \in 0..MaxTime /\ 0 \in 0..MaxRequests
    BY Numbers
  <2> QED BY <2>1 DEF Init, TypeOK, Labels, Uris
<1>2. ContextInv
  BY DEF Init, ContextInv, ContextHere
<1>3. SessionInv
  BY DEF Init, SessionInv, RequestInv, LateInv, RedirectInv
<1> QED BY <1>1, <1>2, <1>3 DEF IInv

-----------------------------------------------------------------------------
(* A step of a thread leaves the request of every other thread alone, so   *)
(* what is known of it stays true while no session is added to the map,    *)
(* no logout forgotten, and no clock turned back.                          *)
Bystander(u) ==
  /\ pc'[u] = pc[u] /\ uri'[u] = uri[u] /\ cookie'[u] = cookie[u]
  /\ session'[u] = session[u] /\ late'[u] = late[u] /\ context'[u] = context[u]

Older ==
  /\ loggedOut \subseteq loggedOut'
  /\ \A s \in issued : s \in sessions' => s \in sessions
  /\ \A s \in issued : ~IsValid(s) => ~IsValid(s)'

LEMMA BystanderKeeps ==
  ASSUME TypeOK, Older, NEW u \in Threads, Bystander(u), NoSession \notin sessions',
         RequestInv(u), LateInv(u), RedirectInv(u)
  PROVE  RequestInv(u)' /\ LateInv(u)' /\ RedirectInv(u)'
<1>1. RequestInv(u)'
  <2>1. cookie[u] \notin sessions => cookie[u] \notin sessions'
    BY DEF TypeOK, Older
  <2> QED BY <2>1 DEF RequestInv, Bystander
<1>2. LateInv(u)'
  BY DEF LateInv, Bystander, Older
<1>3. RedirectInv(u)'
  BY DEF RedirectInv, Bystander, Older, TypeOK
<1> QED BY <1>1, <1>2, <1>3

(* The sessions are only taken from.                                       *)
LEMMA OlderByStore ==
  ASSUME TypeOK, sessions' \subseteq sessions, loggedOut \subseteq loggedOut', UNCHANGED <<lastHit, now>>
  PROVE  Older /\ NoSession \notin sessions'
<1>1. NoSession \notin sessions'
  BY NoSessionAssumption DEF TypeOK
<1>2. \A s : ~IsValid(s) => ~IsValid(s)'
  BY DEF IsValid
<1> QED BY <1>1, <1>2 DEF Older

(* What a thread's own step has to establish.                              *)
Own(t) == ContextHere(t) /\ RequestInv(t) /\ LateInv(t) /\ RedirectInv(t)

LEMMA ThreadStep ==
  ASSUME IInv, NEW t \in Threads, \A u \in Threads \ {t} : Bystander(u),
         Older, NoSession \notin sessions', sessions' \cap loggedOut' = {},
         TypeOK', Own(t)'
  PROVE  IInv'
<1>1. ASSUME NEW u \in Threads
      PROVE  ContextHere(u)' /\ RequestInv(u)' /\ LateInv(u)' /\ RedirectInv(u)'
  <2>1. CASE u = t
    BY <2>1 DEF Own
  <2>2. CASE u # t
    <3>1. RequestInv(u)' /\ LateInv(u)' /\ RedirectInv(u)'
      BY <2>2, BystanderKeeps DEF IInv, SessionInv
    <3>2. ContextHere(u)'
      BY <2>2 DEF ContextHere, Bystander, IInv, ContextInv
    <3> QED BY <3>1, <3>2
  <2> QED BY <2>1, <2>2
<1>2. SessionInv'
  BY <1>1 DEF SessionInv
<1>3. ContextInv'
  BY <1>1 DEF ContextInv, ContextHere
<1> QED BY <1>2, <1>3 DEF IInv

-----------------------------------------------------------------------------
LEMMA RequestStep ==
  ASSUME IInv, NEW t \in Threads, NEW u \in Uris, NEW c \in issued \cup {NoSession},
         Request(t, u, c)
  PROVE  IInv'
<1> USE DEF IInv
<1>1. \A v \in Threads \ {t} : Bystander(v)
  BY DEF Request, Goto, Bystander, TypeOK
<1>2. Older /\ NoSession \notin sessions' /\ sessions' \cap loggedOut' = {}
  BY OlderByStore DEF Request, store, history, SessionInv
<1>3. TypeOK'
  <2>1. requests' \in 0..MaxRequests
    BY Numbers DEF Request, TypeOK
  <2>2. context[t] = NoSession
    BY DEF Request, TypeOK
  <2> QED BY <2>1, <2>2 DEF Request, Goto, store, history, TypeOK, Labels
<1>4. Own(t)'
  <2>1. /\ pc'[t] \in {"find", "handle"} /\ (pc'[t] = "handle" <=> u = "static")
        /\ uri'[t] = u /\ cookie'[t] = c /\ session'[t] = NoSession
        /\ late'[t] = (c \in loggedOut) /\ loggedOut' = loggedOut
        /\ context'[t] = NoSession
    BY DEF Request, Goto, TypeOK, history
  <2> QED BY <2>1 DEF Own, ContextHere, RequestInv, LateInv, RedirectInv
<1> QED BY <1>1, <1>2, <1>3, <1>4, ThreadStep

LEMMA FindStep ==
  ASSUME IInv, NEW t \in Threads, Find(t)
  PROVE  IInv'
<1> USE DEF IInv
<1>1. \A v \in Threads \ {t} : Bystander(v)
  BY DEF Find, Goto, SetContext, Bystander, TypeOK
<1>2. Older /\ NoSession \notin sessions' /\ sessions' \cap loggedOut' = {}
  BY OlderByStore DEF Find, store, SessionInv
<1>3. TypeOK'
  <2>1. context[t] = NoSession
    BY DEF Find, TypeOK
  <2> QED BY <2>1 DEF Find, Goto, SetContext, store, TypeOK, Labels
<1>4. Own(t)'
  <2>1. /\ session'[t] \in {NoSession, cookie[t]} /\ uri'[t] = uri[t]
        /\ cookie'[t] = cookie[t] /\ late'[t] = late[t] /\ loggedOut' = loggedOut
        /\ pc'[t] = IF uri[t] \in AuthCalls THEN "handle" ELSE "check"
        /\ context'[t] = IF uri[t] \in AuthCalls THEN session'[t] ELSE context[t]
    BY DEF Find, Goto, SetContext, TypeOK
  <2>2. context[t] = NoSession /\ uri[t] # "static"
    BY DEF Find, TypeOK, SessionInv, RequestInv
  <2>3. cookie[t] \in loggedOut => session'[t] = NoSession
    BY DEF Find, TypeOK, SessionInv
  <2>4. uri[t] \in Uris
    BY DEF TypeOK
  <2>5. LateInv(t)
    BY DEF SessionInv
  <2>6. session'[t] = NoSession => cookie'[t] \notin sessions'
    BY NoSessionAssumption DEF Find, store, TypeOK
  <2> QED BY <2>1, <2>2, <2>3, <2>4, <2>5, <2>6
          DEF Own, ContextHere, RequestInv, LateInv, RedirectInv, Uris, AuthCalls
<1> QED BY <1>1, <1>2, <1>3, <1>4, ThreadStep

LEMMA CheckStep ==
  ASSUME IInv, NEW t \in Threads, Check(t)
  PROVE  IInv'
<1> USE DEF IInv
<1>1. PICK valid \in Validity(t) :
        /\ IF valid THEN SetContext(t, session[t]) ELSE UNCHANGED context
        /\ Goto(t, IF valid THEN "handle" ELSE "redirect")
        /\ pc[t] = "check" /\ UNCHANGED <<store, now, request, requests, exitFlag, process, history>>
  BY DEF Check
<1>2. /\ session[t] = NoSession => ~valid
      /\ session[t] \in sessions /\ session[t] # NoSession => (valid <=> IsValid(session[t]))
  <2>1. session[t] = NoSession => valid = FALSE
    BY DEF Validity
  <2>2. session[t] \in sessions /\ session[t] # NoSession => valid = IsValid(session[t])
    BY DEF Validity, Outlived
  <2> QED BY <2>1, <2>2, Zenon
<1>3. \A v \in Threads \ {t} : Bystander(v)
  BY <1>1 DEF Goto, SetContext, Bystander, TypeOK, request
<1>4. Older /\ NoSession \notin sessions' /\ sessions' \cap loggedOut' = {}
  BY <1>1, OlderByStore DEF store, history, SessionInv
<1>5. context[t] = NoSession
  BY <1>1 DEF TypeOK
<1>6. TypeOK'
  BY <1>1, <1>2, <1>5 DEF Goto, SetContext, store, request, history, TypeOK, Labels
<1>7. Own(t)'
  <2>1. /\ session'[t] = session[t] /\ uri'[t] = uri[t] /\ cookie'[t] = cookie[t]
        /\ late'[t] = late[t] /\ loggedOut' = loggedOut /\ sessions' = sessions
        /\ lastHit' = lastHit /\ now' = now
        /\ pc'[t] = IF valid THEN "handle" ELSE "redirect"
        /\ context'[t] = IF valid THEN session[t] ELSE NoSession
    BY <1>1, <1>5 DEF Goto, SetContext, TypeOK, request, store, history
  <2>2. RequestInv(t) /\ LateInv(t) /\ uri[t] = "service"
    BY <1>1 DEF SessionInv, RequestInv
  <2>3. NoSession \notin sessions
    BY NoSessionAssumption DEF TypeOK
  <2>4. IsValid(session[t])' = IsValid(session[t])
    BY <2>1 DEF IsValid
  <2>5. pc[t] = "check"
    BY <1>1
  <2> QED BY <1>2, <2>1, <2>2, <2>3, <2>4, <2>5 DEF Own, ContextHere, RequestInv, LateInv, RedirectInv
<1> QED BY <1>3, <1>4, <1>6, <1>7, ThreadStep

(* A request that ends leaves nothing behind on its thread.                *)
LEMMA EndOfRequest ==
  ASSUME IInv, NEW t \in Threads, Done(t), context' = [context EXCEPT ![t] = NoSession]
  PROVE  Own(t)' /\ \A v \in Threads \ {t} : Bystander(v)
<1>1. \A v \in Threads \ {t} : Bystander(v)
  BY DEF IInv, Done, Goto, Bystander, TypeOK
<1>2. /\ pc'[t] = "poll" /\ uri'[t] = "static" /\ cookie'[t] = NoSession
      /\ session'[t] = NoSession /\ late'[t] = FALSE /\ context'[t] = NoSession
  BY DEF IInv, Done, Goto, TypeOK
<1> QED BY <1>1, <1>2 DEF Own, ContextHere, RequestInv, LateInv, RedirectInv

LEMMA RedirectStep ==
  ASSUME IInv, NEW t \in Threads, Redirect(t)
  PROVE  IInv'
<1> USE DEF IInv
<1>1. sessions' \subseteq sessions
  BY DestroyRemoves DEF Redirect
<1>2. context' = [context EXCEPT ![t] = NoSession]
  BY DEF Redirect, TypeOK
<1>3. Own(t)' /\ \A v \in Threads \ {t} : Bystander(v)
  BY <1>2, EndOfRequest DEF Redirect
<1>4. Older /\ NoSession \notin sessions' /\ sessions' \cap loggedOut' = {}
  BY <1>1, OlderByStore DEF Redirect, history, SessionInv
<1>5. TypeOK'
  BY <1>1, <1>2 DEF Redirect, Done, Goto, history, TypeOK, Labels, Uris
<1> QED BY <1>3, <1>4, <1>5, ThreadStep

LEMMA ServeStep ==
  ASSUME IInv, NEW t \in Threads, Serve(t)
  PROVE  IInv'
<1> USE DEF IInv
<1>1. Own(t)' /\ \A v \in Threads \ {t} : Bystander(v)
  BY EndOfRequest DEF Serve, Leave, SetContext
<1>2. Older /\ NoSession \notin sessions' /\ sessions' \cap loggedOut' = {}
  BY OlderByStore DEF Serve, store, history, SessionInv
<1>3. TypeOK'
  BY DEF Serve, Leave, SetContext, Done, Goto, store, history, TypeOK, Labels, Uris
<1> QED BY <1>1, <1>2, <1>3, ThreadStep

LEMMA LoginStep ==
  ASSUME IInv, NEW t \in Threads, NEW s \in SessionIds, Login(t, s)
  PROVE  IInv'
<1> USE DEF IInv
<1>1. Own(t)' /\ \A v \in Threads \ {t} : Bystander(v)
  BY EndOfRequest DEF Login, Leave, SetContext
<1>2. NoSession \notin sessions' /\ sessions' \cap loggedOut' = {}
  BY NoSessionAssumption DEF Login, SessionInv, TypeOK
<1>3. Older
  <2>1. \A r \in issued : ~IsValid(r) => ~IsValid(r)'
    BY DEF Login, IsValid, TypeOK
  <2> QED BY <2>1 DEF Login, Older
<1>4. TypeOK'
  BY DEF Login, Leave, SetContext, Done, Goto, TypeOK, Labels, Uris
<1> QED BY <1>1, <1>2, <1>3, <1>4, ThreadStep

(* The session that is logged out is the one that is taken from the map,   *)
(* if it is still in there.                                                *)
LEMMA LogoutStep ==
  ASSUME IInv, NEW t \in Threads, Logout(t)
  PROVE  IInv'
<1> USE DEF IInv
<1>1. PICK s \in Named(t) : Destroy(s)
  BY DEF Logout
<1>2. sessions' \subseteq sessions \ {s}
  BY <1>1, DestroyRemoves
<1>3. context[t] = session[t] /\ context[t] \in issued
  BY DEF Logout, ContextInv, ContextHere, TypeOK
<1>4. context[t] \notin sessions'
  BY <1>2, <1>3 DEF Named, Outlived
<1>5. Own(t)' /\ \A v \in Threads \ {t} : Bystander(v)
  BY EndOfRequest DEF Logout, Leave, SetContext
<1>6. Older /\ NoSession \notin sessions'
  BY <1>2, OlderByStore DEF Logout
<1>7. sessions' \cap loggedOut' = {}
  BY <1>2, <1>4 DEF Logout, SessionInv
<1>8. TypeOK'
  BY <1>2, <1>3 DEF Logout, Leave, SetContext, Done, Goto, TypeOK, Labels, Uris
<1> QED BY <1>5, <1>6, <1>7, <1>8, ThreadStep

LEMMA StopServingStep ==
  ASSUME IInv, NEW t \in Threads, StopServing(t)
  PROVE  IInv'
<1> USE DEF IInv
<1>1. \A v \in Threads \ {t} : Bystander(v)
  BY DEF StopServing, Goto, request, Bystander, TypeOK
<1>2. Older /\ NoSession \notin sessions' /\ sessions' \cap loggedOut' = {}
  BY OlderByStore DEF StopServing, store, history, SessionInv
<1>3. TypeOK'
  BY DEF StopServing, Goto, store, request, history, TypeOK, Labels
<1>4. Own(t)'
  <2>1. /\ pc[t] = "poll" /\ pc'[t] = "left" /\ uri'[t] = uri[t] /\ cookie'[t] = cookie[t]
        /\ session'[t] = session[t] /\ late'[t] = late[t] /\ context'[t] = context[t]
        /\ loggedOut' = loggedOut
    BY DEF StopServing, Goto, request, history, TypeOK
  <2>2. RequestInv(t) /\ LateInv(t) /\ context[t] = NoSession
    BY <2>1 DEF SessionInv, TypeOK
  <2> QED BY <2>1, <2>2 DEF Own, ContextHere, RequestInv, LateInv, RedirectInv
<1> QED BY <1>1, <1>2, <1>3, <1>4, ThreadStep

(* Steps that no request is part of: the clock, signals, the end.          *)
LEMMA AroundStep ==
  ASSUME IInv, UNCHANGED <<store, pc, request, context, requests, history>>,
         now' \in {now, now + 1}, now' \in 0..MaxTime, exitFlag' \in BOOLEAN,
         process' \in {"running", "crashed", "terminated", "returned"}
  PROVE  IInv'
<1> USE DEF IInv, store, request, history
<1>1. TypeOK'
  BY DEF TypeOK
<1>2. ContextInv'
  BY DEF ContextInv, ContextHere
<1>3. \A s \in SessionIds : ~IsValid(s) => ~IsValid(s)'
  BY Numbers DEF IsValid, TypeOK
<1>4. SessionInv'
  BY <1>3 DEF SessionInv, RequestInv, LateInv, RedirectInv, TypeOK
<1> QED BY <1>1, <1>2, <1>4

LEMMA NextInv == IInv /\ [Next]_vars => IInv'
<1> SUFFICES ASSUME IInv, [Next]_vars PROVE IInv'
  OBVIOUS
<1> USE DEF IInv
<1>1. ASSUME NEW t \in Threads, Step(t) PROVE IInv'
  <2>1. CASE Find(t)
    BY <2>1, FindStep
  <2>2. CASE Check(t)
    BY <2>2, CheckStep
  <2>3. CASE Redirect(t)
    BY <2>3, RedirectStep
  <2>4. CASE Serve(t)
    BY <2>4, ServeStep
  <2>5. CASE Logout(t)
    BY <2>5, LogoutStep
  <2>6. CASE Crash(t)
    <3>1. now' \in 0..MaxTime /\ exitFlag' \in BOOLEAN
      BY <2>6 DEF Crash, TypeOK
    <3> QED BY <2>6, <3>1, AroundStep DEF Crash
  <2>7. ASSUME NEW s \in SessionIds, Login(t, s) PROVE IInv'
    BY <2>7, LoginStep
  <2>8. CASE StopServing(t)
    BY <2>8, StopServingStep
  <2>9. ASSUME NEW u \in Uris, NEW c \in issued \cup {NoSession}, Request(t, u, c) PROVE IInv'
    BY <2>9, RequestStep
  <2> QED BY <1>1, <2>1, <2>2, <2>3, <2>4, <2>5, <2>6, <2>7, <2>8, <2>9 DEF Step, Handle
<1>2. CASE Tick
  <2>1. now' \in 0..MaxTime /\ exitFlag' \in BOOLEAN /\ process' = "running"
    BY <1>2, Numbers DEF Tick, TypeOK
  <2> QED BY <1>2, <2>1, AroundStep DEF Tick
<1>3. CASE Signal
  <2>1. now' \in 0..MaxTime /\ process' = "running"
    BY <1>3 DEF Signal, TypeOK
  <2> QED BY <1>3, <2>1, AroundStep DEF Signal
<1>4. CASE ReturnFromRun
  <2>1. now' \in 0..MaxTime /\ exitFlag' \in BOOLEAN
    BY <1>4 DEF ReturnFromRun, TypeOK
  <2> QED BY <1>4, <2>1, AroundStep DEF ReturnFromRun
<1>5. CASE UNCHANGED vars
  <2>1. now' \in 0..MaxTime /\ exitFlag' \in BOOLEAN
        /\ process' \in {"running", "crashed", "terminated", "returned"}
    BY <1>5 DEF vars, TypeOK
  <2> QED BY <1>5, <2>1, AroundStep DEF vars
<1> QED BY <1>1, <1>2, <1>3, <1>4, <1>5 DEF Next

LEMMA Invariance == Spec => []IInv
<1>1. Init => IInv
  BY InitInv
<1>2. IInv /\ [Next]_vars => IInv'
  BY NextInv
<1> QED BY <1>1, <1>2, PTL DEF Spec

-----------------------------------------------------------------------------
(* In every state: the map holds only sessions that a login has made, and  *)
(* a thread that handles no request has no session (session.h, sessions    *)
(* and requestSessionOfCurrentTread).                                      *)
THEOREM TypeCorrect == Spec => []TypeOK
<1>1. IInv => TypeOK
  BY DEF IInv
<1> QED BY <1>1, Invariance, PTL

(* However many threads there are, and whatever they do to the map: as     *)
(* long as the session of a request is in the map, its services see the    *)
(* session of its own cookie; with no such session they see none, and only *)
(* the authentication calls are made (executeWithSessionContext).          *)
THEOREM ContextIsOfRequest == Spec => []ContextMatchesRequest
<1>1. ASSUME IInv, NEW t \in Threads
      PROVE  /\ pc[t] = "handle" /\ uri[t] # "static" /\ ~Outlived(t) =>
                  context[t] = IF cookie[t] \in sessions THEN cookie[t] ELSE NoSession
             /\ pc[t] = "handle" /\ uri[t] = "service" => context[t] # NoSession
             /\ pc[t] # "handle" \/ uri[t] = "static" => context[t] = NoSession
  BY <1>1 DEF IInv, ContextInv, ContextHere, SessionInv, RequestInv, Outlived
<1>2. IInv => ContextMatchesRequest
  BY <1>1 DEF ContextMatchesRequest
<1> QED BY <1>2, Invariance, PTL

(* A cookie that comes after its logout has returned leads to no service,  *)
(* although other requests hold pointers past the end of their sessions.   *)
THEOREM LoggedOutIsOut == Spec => []NoServiceAfterLogout
<1>1. IInv => NoServiceAfterLogout
  BY DEF IInv, SessionInv, LateInv, NoServiceAfterLogout
<1> QED BY <1>1, Invariance, PTL

-----------------------------------------------------------------------------
Reason(s) ==
  \/ ~IsValid(s)
  \/ \E t \in Threads : uri[t] = "logout" /\ cookie[t] = s /\ pc[t] = "handle"
  \/ \E t \in Threads : Outlived(t)

LEMMA EndsForAReason ==
  ASSUME IInv, [Next]_vars, NEW s \in sessions \ sessions'
  PROVE  Reason(s)
<1> USE DEF IInv
<1>0. s # NoSession
  BY NoSessionAssumption DEF TypeOK
<1>1. ASSUME NEW t \in Threads, Redirect(t) PROVE Reason(s)
  <2>1. PICK r \in Named(t) : Destroy(r)
    BY <1>1 DEF Redirect
  <2>2. CASE Outlived(t)
    BY <2>2 DEF Reason
  <2>3. CASE ~Outlived(t)
    <3>1. r = session[t] /\ pc[t] = "redirect"
      BY <1>1, <2>3 DEF Named, Redirect
    <3>2. s = r \/ ~IsValid(s)
      BY <2>1, DestroyRemoves
    <3>3. RedirectInv(t)
      BY DEF SessionInv
    <3> QED BY <3>1, <3>2, <3>3 DEF RedirectInv, Reason
  <2> QED BY <2>2, <2>3
<1>2. ASSUME NEW t \in Threads, Logout(t) PROVE Reason(s)
  <2>1. PICK r \in Named(t) : Destroy(r)
    BY <1>2 DEF Logout
  <2>2. CASE Outlived(t)
    BY <2>2 DEF Reason
  <2>3. CASE ~Outlived(t)
    <3>1. r = session[t] /\ pc[t] = "handle" /\ uri[t] = "logout"
      BY <1>2, <2>3 DEF Named, Logout
    <3>2. s = r \/ ~IsValid(s)
      BY <2>1, DestroyRemoves
    <3>3. session[t] \in {NoSession, cookie[t]}
      BY DEF SessionInv, RequestInv
    <3> QED BY <1>0, <3>1, <3>2, <3>3 DEF Reason
  <2> QED BY <2>2, <2>3
<1>3. \/ \E t \in Threads : Redirect(t) \/ Logout(t)
      \/ sessions \subseteq sessions'
  BY DEF Next, Step, Handle, Find, Check, Serve, Login, Crash, StopServing, Request, Tick, Signal,
         ReturnFromRun, vars, store
<1> QED BY <1>1, <1>2, <1>3

(* No request ends the session of another one: a session that leaves the   *)
(* map has expired, or its own logout is being handled, or some pointer    *)
(* has outlived its session (destroySessionCookie, any number of clients). *)
THEOREM NoStrangerEndsASession == Spec => SessionsEndForAReason
<1>1. IInv /\ [Next]_vars => [\A s \in sessions \ sessions' : Reason(s)]_vars
  BY EndsForAReason
<1>2. [\A s \in sessions \ sessions' : Reason(s)]_vars
      => [\A s \in sessions \ sessions' :
            \/ ~IsValid(s)
            \/ \E t \in Threads : uri[t] = "logout" /\ cookie[t] = s /\ pc[t] = "handle"
            \/ \E t \in Threads : Outlived(t)]_vars
  BY DEF Reason
<1> QED BY <1>1, <1>2, Invariance, PTL DEF Spec, SessionsEndForAReason
=============================================================================
