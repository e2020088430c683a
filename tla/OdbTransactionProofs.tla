------------------------- MODULE OdbTransactionProofs -------------------------
(***************************************************************************)
(* Theorems about OdbTransaction for any threads, rows, engines and bounds. *)
(* The argument: every active call remembers the innermost transaction of  *)
(* the calls below it, so what TransRestore puts back is the innermost     *)
(* transaction of the calls that remain; and no two transactions have      *)
(* inserted the same row, nor one that is committed.                       *)
(***************************************************************************)
EXTENDS OdbTransaction, TLAPS

(* c is the innermost transaction of the calls below d, None if there is none. *)
LastOwn(t, d, c) ==
  /\ c \in Depths \cup {None} /\ c < d
  /\ c # None => frame[t][c].own
  /\ \A e \in Depths : e < d /\ frame[t][e].own => e <= c

(* The calls of a thread, and what is current. *)
Stacked(t) ==
  /\ \A d \in Depths : d > depth[t] => frame[t][d] = NoFrame
  /\ \A d \in Depths : d <= depth[t] =>
       /\ LastOwn(t, d, frame[t][d].transaction)
       /\ frame[t][d].session = frame[t][d].transaction
       /\ ~frame[t][d].own => frame[t][d].transaction # None
  /\ session[t] = current[t]
  /\ waiting[t] =>
       /\ depth[t] > 0 /\ frame[t][depth[t]].own
       /\ current[t] = frame[t][depth[t]].transaction
  /\ ~waiting[t] => LastOwn(t, depth[t] + 1, current[t])

RowsInv ==
  \A t \in Threads : \A d \in Depths :
    /\ ~IsOpen(t, d) => written[<<t, d>>] = {} /\ <<t, d>> \notin doomed
    /\ written[<<t, d>>] \cap rows = {}
    /\ \A u \in Threads : \A e \in Depths :
         <<u, e>> # <<t, d>> => written[<<t, d>>] \cap written[<<u, e>>] = {}

AcceptedInv ==
  \A t \in Threads : accepted[t] = IF depth[t] > 0 THEN written[<<t, 1>>] ELSE {}

StackInv == TypeOK /\ \A t \in Threads : Stacked(t)
IInv == StackInv /\ RowsInv /\ AcceptedInv

-----------------------------------------------------------------------------
LEMMA InitInv == Init => IInv
<1> SUFFICES ASSUME Init PROVE IInv
  OBVIOUS
<1>1. NoFrame \in FrameType
  BY DEF NoFrame, FrameType
<1>2. TypeOK
  BY <1>1, BoundsAssumption DEF Init, TypeOK
<1>3. ASSUME NEW t \in Threads PROVE Stacked(t)
  <2>1. depth[t] = 0 /\ ~waiting[t] /\ current[t] = None /\ session[t] = None
        /\ \A d \in Depths : d > 0 /\ frame[t][d] = NoFrame /\ ~NoFrame.own
    BY DEF Init, NoFrame, Depths
  <2>2. LastOwn(t, 1, None)
    BY <2>1 DEF LastOwn, None
  <2> QED BY <2>1, <2>2 DEF Stacked, Depths
<1>4. RowsInv /\ AcceptedInv
  BY DEF Init, RowsInv, AcceptedInv
<1> QED BY <1>2, <1>3, <1>4 DEF IInv, StackInv

-----------------------------------------------------------------------------
(* The innermost call is one of the depths. *)
LEMMA DepthType ==
  ASSUME TypeOK, NEW t \in Threads
  PROVE  depth[t] \in Nat /\ depth[t] <= MaxDepth /\ (depth[t] > 0 => depth[t] \in Depths)
BY BoundsAssumption DEF TypeOK, Depths

(* What is below a call is the same as long as the calls below it are. *)
LEMMA LastOwnFrame ==
  ASSUME NEW t, NEW d, NEW c, LastOwn(t, d, c),
         \A e \in Depths : e < d => frame'[t][e].own = frame[t][e].own
  PROVE  LastOwn(t, d, c)'
BY DEF LastOwn, None

(* A thread that takes no step. *)
LEMMA OthersKeep ==
  ASSUME TypeOK, NEW u \in Threads, Stacked(u),
         depth'[u] = depth[u], waiting'[u] = waiting[u], current'[u] = current[u],
         session'[u] = session[u], \A e \in Depths : frame'[u][e] = frame[u][e]
  PROVE  Stacked(u)' /\ \A d \in Depths : IsOpen(u, d)' <=> IsOpen(u, d)
<1>1. \A d \in Depths : LastOwn(u, d, frame[u][d].transaction)
                          => LastOwn(u, d, frame[u][d].transaction)'
  BY DEF LastOwn
<1>2. LastOwn(u, depth[u] + 1, current[u]) => LastOwn(u, depth[u] + 1, current[u])'
  BY DEF LastOwn
<1>3. depth[u] > 0 => depth[u] \in Depths
  BY DepthType
<1>4. \A d \in Depths : IsOpen(u, d)' <=> IsOpen(u, d)
  BY DEF IsOpen
<1> QED BY <1>1, <1>2, <1>3, <1>4 DEF Stacked

(* The step of one thread. *)
LEMMA StackStep ==
  ASSUME StackInv, NEW t \in Threads, Stacked(t)',
         \A u \in Threads \ {t} :
           /\ depth'[u] = depth[u] /\ waiting'[u] = waiting[u]
           /\ current'[u] = current[u] /\ session'[u] = session[u]
           /\ \A e \in Depths : frame'[u][e] = frame[u][e],
         engine' = engine, rows' \subseteq Rows, depth' \in [Threads -> 0..MaxDepth],
         frame' \in [Threads -> [Depths -> FrameType]], waiting' \in [Threads -> BOOLEAN],
         current' \in [Threads -> Depths \cup {None}],
         session' \in [Threads -> Depths \cup {None}],
         written' \in [Threads \X Depths -> SUBSET Rows], doomed' \subseteq Threads \X Depths,
         accepted' \in [Threads -> SUBSET Rows], calls' \in 0..MaxCalls
  PROVE  StackInv' /\ \A u \in Threads \ {t} : \A d \in Depths : IsOpen(u, d)' <=> IsOpen(u, d)
<1>1. TypeOK /\ \A u \in Threads : Stacked(u)
  BY DEF StackInv
<1>2. \A u \in Threads \ {t} : Stacked(u)' /\ \A d \in Depths : IsOpen(u, d)' <=> IsOpen(u, d)
  BY <1>1, OthersKeep
<1>3. \A u \in Threads : depth'[u] > 0 => frame'[u][1].own
  <2> SUFFICES ASSUME NEW u \in Threads, depth'[u] > 0 PROVE frame'[u][1].own
    OBVIOUS
  <2>1. 1 \in Depths /\ 1 <= depth'[u]
    BY BoundsAssumption DEF Depths
  <2>2. LastOwn(u, 1, frame[u][1].transaction)'
        /\ (~frame'[u][1].own => frame'[u][1].transaction # None)
    BY <1>2, <2>1 DEF Stacked
  <2>3. frame'[u][1].transaction = None
    BY <2>2 DEF LastOwn, Depths, None
  <2> QED BY <2>2, <2>3
<1>4. TypeOK'
  BY <1>1, <1>3 DEF TypeOK
<1> QED BY <1>2, <1>4 DEF StackInv

-----------------------------------------------------------------------------
(* A call remembers what was current, and changes no transaction. *)
LEMMA CallStack ==
  ASSUME StackInv, NEW t \in Threads, NEW switchCurrent \in BOOLEAN, Call(t, switchCurrent)
  PROVE  /\ StackInv'
         /\ \A u \in Threads : \A d \in Depths : IsOpen(u, d)' <=> IsOpen(u, d)
<1>1. TypeOK /\ Stacked(t) /\ ~waiting[t] /\ depth[t] \in Nat
  BY DepthType DEF StackInv, Call
<1>2. PICK d \in Depths : d = depth[t] + 1 /\ d \in 0..MaxDepth /\ d > depth[t] /\ ~(d <= depth[t])
  <2>1. depth[t] < MaxDepth
    BY DEF Call
  <2>2. depth[t] + 1 \in Depths
    BY <1>1, <2>1, BoundsAssumption DEF Depths
  <2> QED BY <1>1, <2>2 DEF Depths
<1>3. PICK f \in FrameType :
        /\ frame' = [frame EXCEPT ![t][d] = f]
        /\ f.own = ~Joins(t, switchCurrent) /\ f.transaction = current[t]
        /\ f.session = session[t] /\ f.own \in BOOLEAN
  <2> DEFINE g == [own |-> ~Joins(t, switchCurrent), transaction |-> current[t],
                   session |-> session[t]]
  <2>1. g \in FrameType
    BY <1>1 DEF TypeOK, FrameType, Joins
  <2>2. frame' = [frame EXCEPT ![t][d] = g]
    BY <1>2 DEF Call
  <2>3. /\ g.own = ~Joins(t, switchCurrent) /\ g.transaction = current[t]
        /\ g.session = session[t] /\ g.own \in BOOLEAN
    BY DEF Joins
  <2> HIDE DEF g
  <2> QED BY <2>1, <2>2, <2>3
<1>4. /\ depth' = [depth EXCEPT ![t] = d] /\ waiting' = [waiting EXCEPT ![t] = f.own]
      /\ calls < MaxCalls /\ calls' = calls + 1
      /\ UNCHANGED <<engine, rows, current, session, written, doomed, accepted>>
  BY <1>2, <1>3 DEF Call
<1>5. LastOwn(t, d, current[t]) /\ session[t] = current[t] /\ (~f.own => current[t] # None)
  BY <1>1, <1>2, <1>3 DEF Stacked, Joins
<1>7. /\ frame' \in [Threads -> [Depths -> FrameType]] /\ frame'[t][d] = f
      /\ \A u \in Threads : \A e \in Depths : u # t \/ e # d => frame'[u][e] = frame[u][e]
  <2>1. frame' = [frame EXCEPT ![t][d] = f] /\ f \in FrameType /\ d \in Depths /\ TypeOK
    BY <1>1, <1>2, <1>3
  <2> QED BY <2>1 DEF TypeOK
<1>8. depth'[t] = d /\ waiting'[t] = f.own /\ current'[t] = current[t] /\ session'[t] = session[t]
  BY <1>1, <1>4 DEF TypeOK
<1>9. \A e \in Depths : e < d => frame'[t][e] = frame[t][e]
  BY <1>2, <1>7 DEF Depths
<1>10. Stacked(t)'
  <2>1. ASSUME NEW e \in Depths, e > depth'[t] PROVE frame'[t][e] = NoFrame
    <3>1. e # d /\ e > depth[t]
      BY <1>1, <1>2, <1>8, <2>1 DEF Depths
    <3> QED BY <1>1, <1>7, <3>1 DEF Stacked
  <2>2. ASSUME NEW e \in Depths, e <= depth'[t]
        PROVE  /\ LastOwn(t, e, frame[t][e].transaction)'
               /\ frame'[t][e].session = frame'[t][e].transaction
               /\ ~frame'[t][e].own => frame'[t][e].transaction # None
    <3>1. CASE e = d
      <4>1. frame'[t][e] = f
        BY <1>7, <3>1
      <4>2. LastOwn(t, d, frame[t][e].transaction)'
        BY <1>5, <1>3, <1>9, <4>1 DEF LastOwn, None
      <4> QED BY <1>5, <1>3, <3>1, <4>1, <4>2
    <3>2. CASE e # d
      <4>1. e <= depth[t] /\ frame'[t][e] = frame[t][e] /\ e < d
        BY <1>1, <1>2, <1>7, <1>8, <2>2, <3>2 DEF Depths
      <4>2. LastOwn(t, e, frame[t][e].transaction)
        BY <1>1, <4>1 DEF Stacked
      <4>3. \A k \in Depths : k < e => frame'[t][k] = frame[t][k]
        BY <1>2, <1>9, <4>1 DEF Depths
      <4>4. LastOwn(t, e, frame[t][e].transaction)'
        BY <4>1, <4>2, <4>3 DEF LastOwn, None
      <4> QED BY <1>1, <4>1, <4>4 DEF Stacked
    <3> QED BY <3>1, <3>2
  <2>3. waiting'[t] =>
          /\ depth'[t] > 0 /\ frame'[t][depth'[t]].own
          /\ current'[t] = frame'[t][depth'[t]].transaction
    BY <1>2, <1>3, <1>7, <1>8 DEF Depths
  <2>4. ~waiting'[t] => LastOwn(t, depth[t] + 1, current[t])'
    <3> SUFFICES ASSUME ~f.own PROVE LastOwn(t, depth[t] + 1, current[t])'
      BY <1>8
    <3>1. \A e \in Depths : e < d + 1 /\ frame'[t][e].own => e < d /\ frame[t][e].own
      BY <1>2, <1>7, <1>9 DEF Depths
    <3> QED BY <1>2, <1>5, <1>8, <1>9, <3>1 DEF LastOwn, None, Depths
  <2> QED BY <1>5, <1>8, <2>1, <2>2, <2>3, <2>4 DEF Stacked
<1>11. \A e \in Depths : IsOpen(t, e)' <=> IsOpen(t, e)
  BY <1>1, <1>2, <1>7, <1>8, <1>9 DEF IsOpen, Depths
<1>12. calls' \in 0..MaxCalls /\ depth' \in [Threads -> 0..MaxDepth]
       /\ waiting' \in [Threads -> BOOLEAN]
  BY <1>1, <1>2, <1>4, <1>3, BoundsAssumption DEF TypeOK
<1>13. \A u \in Threads \ {t} :
         /\ depth'[u] = depth[u] /\ waiting'[u] = waiting[u]
         /\ current'[u] = current[u] /\ session'[u] = session[u]
         /\ \A e \in Depths : frame'[u][e] = frame[u][e]
  BY <1>1, <1>4, <1>7 DEF TypeOK
<1>14. /\ current' \in [Threads -> Depths \cup {None}] /\ session' \in [Threads -> Depths \cup {None}]
       /\ written' \in [Threads \X Depths -> SUBSET Rows] /\ doomed' \subseteq Threads \X Depths
       /\ accepted' \in [Threads -> SUBSET Rows] /\ rows' \subseteq Rows /\ engine' = engine
  BY <1>1, <1>4 DEF TypeOK
<1>15. StackInv' /\ \A u \in Threads \ {t} : \A e \in Depths : IsOpen(u, e)' <=> IsOpen(u, e)
  BY <1>7, <1>10, <1>12, <1>13, <1>14, StackStep
<1> QED BY <1>11, <1>15

(* What is current is the innermost transaction that is open. *)
LEMMA Innermost ==
  ASSUME StackInv, NEW t \in Threads
  PROVE  /\ session[t] = current[t]
         /\ current[t] # None => current[t] \in Depths /\ IsOpen(t, current[t])
         /\ \A d \in Depths : IsOpen(t, d) => d <= current[t]
<1>1. TypeOK /\ Stacked(t) /\ depth[t] \in Nat /\ (depth[t] > 0 => depth[t] \in Depths)
  BY DepthType DEF StackInv
<1>2. CASE ~waiting[t]
  <2>1. LastOwn(t, depth[t] + 1, current[t])
    BY <1>1, <1>2 DEF Stacked
  <2>2. \A d \in Depths : IsOpen(t, d) => d < depth[t] + 1 /\ frame[t][d].own
    BY <1>1 DEF IsOpen, Depths
  <2>3. current[t] # None => current[t] \in Depths /\ IsOpen(t, current[t])
    BY <1>1, <1>2, <2>1 DEF LastOwn, IsOpen, Depths
  <2> QED BY <1>1, <2>1, <2>2, <2>3 DEF Stacked, LastOwn
<1>3. CASE waiting[t]
  <2>1. depth[t] > 0 /\ current[t] = frame[t][depth[t]].transaction
    BY <1>1, <1>3 DEF Stacked
  <2>2. LastOwn(t, depth[t], current[t])
    BY <1>1, <2>1 DEF Stacked
  <2>3. \A d \in Depths : IsOpen(t, d) => d < depth[t] /\ frame[t][d].own
    BY <1>1, <1>3 DEF IsOpen, Depths
  <2>4. current[t] # None => current[t] \in Depths /\ IsOpen(t, current[t])
    BY <1>1, <1>3, <2>2 DEF LastOwn, IsOpen, Depths
  <2> QED BY <1>1, <2>2, <2>3, <2>4 DEF Stacked, LastOwn
<1> QED BY <1>2, <1>3

LEMMA BeginStack ==
  ASSUME StackInv, NEW t \in Threads, Begin(t)
  PROVE  /\ StackInv'
         /\ \A u \in Threads \ {t} : \A d \in Depths : IsOpen(u, d)' <=> IsOpen(u, d)
         /\ \A d \in Depths : IsOpen(t, d)' <=> (IsOpen(t, d) \/ d = depth[t])
         /\ \A d \in Depths : IsOpen(t, d) => d < depth[t]
         /\ depth[t] \in Depths
<1>1. TypeOK /\ Stacked(t) /\ waiting[t] /\ depth[t] \in Nat
  BY DepthType DEF StackInv, Begin
<1>2. depth[t] \in Depths /\ frame[t][depth[t]].own /\ LastOwn(t, depth[t], current[t])
  BY <1>1, DepthType DEF Stacked
<1>3. /\ waiting'[t] = FALSE /\ current'[t] = depth[t] /\ session'[t] = depth[t]
      /\ UNCHANGED <<engine, rows, depth, frame, written, doomed, accepted, calls>>
  BY <1>1 DEF Begin, TypeOK
<1>4. Stacked(t)'
  <2>1. ASSUME NEW d \in Depths, d <= depth[t]
        PROVE  LastOwn(t, d, frame[t][d].transaction)'
    <3>1. LastOwn(t, d, frame[t][d].transaction)
      BY <1>1, <2>1 DEF Stacked
    <3> QED BY <1>3, <3>1 DEF LastOwn
  <2>2. LastOwn(t, depth[t] + 1, current[t])'
    BY <1>1, <1>2, <1>3 DEF LastOwn, Depths, None
  <2> QED BY <1>1, <1>3, <2>1, <2>2 DEF Stacked
<1>5. \A d \in Depths : (IsOpen(t, d)' <=> (IsOpen(t, d) \/ d = depth[t]))
                        /\ (IsOpen(t, d) => d < depth[t])
  BY <1>1, <1>2, <1>3 DEF IsOpen, Depths
<1>6. \A u \in Threads \ {t} :
         /\ depth'[u] = depth[u] /\ waiting'[u] = waiting[u]
         /\ current'[u] = current[u] /\ session'[u] = session[u]
         /\ \A e \in Depths : frame'[u][e] = frame[u][e]
  BY <1>1, <1>3 DEF Begin, TypeOK
<1>7. /\ waiting' \in [Threads -> BOOLEAN]
      /\ current' \in [Threads -> Depths \cup {None}] /\ session' \in [Threads -> Depths \cup {None}]
  BY <1>1, <1>2 DEF Begin, TypeOK
<1>8. /\ engine' = engine /\ rows' \subseteq Rows /\ depth' \in [Threads -> 0..MaxDepth]
      /\ frame' \in [Threads -> [Depths -> FrameType]]
      /\ written' \in [Threads \X Depths -> SUBSET Rows] /\ doomed' \subseteq Threads \X Depths
      /\ accepted' \in [Threads -> SUBSET Rows] /\ calls' \in 0..MaxCalls
  BY <1>1, <1>3 DEF TypeOK
<1>9. StackInv' /\ \A u \in Threads \ {t} : \A d \in Depths : IsOpen(u, d)' <=> IsOpen(u, d)
  BY <1>4, <1>6, <1>7, <1>8, StackStep
<1> QED BY <1>2, <1>5, <1>9

(* However a call ends, what was current before is current again. *)
LEMMA EndRestores ==
  ASSUME StackInv, NEW t \in Threads, End(t)
  PROVE  /\ ~waiting[t] /\ depth[t] \in Depths /\ UNCHANGED <<engine, waiting, calls>>
         /\ depth' = [depth EXCEPT ![t] = @ - 1]
         /\ frame' = [frame EXCEPT ![t][depth[t]] = NoFrame]
         /\ current' = [current EXCEPT ![t] = frame[t][depth[t]].transaction]
         /\ session' = [session EXCEPT ![t] = frame[t][depth[t]].transaction]
         /\ accepted' = [accepted EXCEPT ![t] = IF depth[t] = 1 THEN {} ELSE @]
<1>1. TypeOK /\ Stacked(t) /\ ~waiting[t] /\ depth[t] \in Depths
  BY DepthType DEF StackInv, End, LeaveJoined, Commit, Rollback, Running
<1>2. Leave(t)
  BY DEF End, LeaveJoined, Commit, Rollback
<1>3. LastOwn(t, depth[t] + 1, current[t]) /\ session[t] = current[t]
  BY <1>1 DEF Stacked
<1> DEFINE tr == frame[t][depth[t]].transaction
<1>4. LastOwn(t, depth[t], tr) /\ frame[t][depth[t]].session = tr
      /\ (~frame[t][depth[t]].own => tr # None)
  BY <1>1 DEF Stacked, Depths
<1>5. frame[t][depth[t]].own => current[t] = depth[t]
  BY <1>1, <1>3 DEF LastOwn, Depths, None
<1>6. tr # depth[t] /\ depth[t] # None
  BY <1>1, <1>4 DEF LastOwn, Depths, None
<1> HIDE DEF tr
<1>7. /\ Restored(tr, Released(t, depth[t])) = tr /\ Released(t, Restored(tr, depth[t])) = tr
      /\ (tr # None => \A now : Restored(tr, now) = tr)
  BY <1>6 DEF Restored, Released
<1>8. /\ current' = [current EXCEPT ![t] = tr] /\ session' = [session EXCEPT ![t] = tr]
  <2>1. CASE LeaveJoined(t)
    BY <1>4, <1>7, <2>1 DEF LeaveJoined, tr
  <2>2. CASE Commit(t)
    BY <1>3, <1>4, <1>5, <1>7, <2>2 DEF Commit, tr
  <2>3. CASE Rollback(t)
    BY <1>3, <1>4, <1>5, <1>7, <2>3 DEF Rollback, tr
  <2> QED BY <2>1, <2>2, <2>3 DEF End
<1> QED BY <1>1, <1>2, <1>8 DEF Leave, tr

LEMMA EndStack ==
  ASSUME StackInv, NEW t \in Threads, End(t), rows' \subseteq Rows,
         written' \in [Threads \X Depths -> SUBSET Rows], doomed' \subseteq Threads \X Depths
  PROVE  /\ StackInv'
         /\ \A u \in Threads \ {t} : \A d \in Depths : IsOpen(u, d)' <=> IsOpen(u, d)
         /\ \A d \in Depths : IsOpen(t, d)' <=> IsOpen(t, d) /\ d # depth[t]
<1>1. TypeOK /\ Stacked(t) /\ ~waiting[t] /\ depth[t] \in Nat /\ depth[t] \in Depths
  BY EndRestores, DepthType DEF StackInv
<1>2. PICK d \in Depths : d = depth[t]
  BY <1>1
<1>3. PICK c : c = frame[t][d].transaction /\ c \in Depths \cup {None}
  BY <1>1 DEF TypeOK, FrameType
<1>4. /\ depth' = [depth EXCEPT ![t] = d - 1] /\ frame' = [frame EXCEPT ![t][d] = NoFrame]
      /\ current' = [current EXCEPT ![t] = c] /\ session' = [session EXCEPT ![t] = c]
      /\ accepted' = [accepted EXCEPT ![t] = IF d = 1 THEN {} ELSE accepted[t]]
      /\ UNCHANGED <<engine, waiting, calls>>
  BY <1>2, <1>3, EndRestores
<1>5. NoFrame \in FrameType /\ ~NoFrame.own
  BY DEF NoFrame, FrameType
<1>6. /\ frame' \in [Threads -> [Depths -> FrameType]] /\ frame'[t][d] = NoFrame
      /\ \A u \in Threads : \A e \in Depths : u # t \/ e # d => frame'[u][e] = frame[u][e]
  BY <1>1, <1>4, <1>5 DEF TypeOK
<1>7. depth'[t] = d - 1 /\ current'[t] = c /\ session'[t] = c /\ ~waiting'[t]
  BY <1>1, <1>4 DEF TypeOK
<1>8. \A e \in Depths : e < d => frame'[t][e] = frame[t][e]
  BY <1>2, <1>6 DEF Depths
<1>9. LastOwn(t, d, c)
  BY <1>1, <1>2, <1>3 DEF Stacked, Depths
<1>10. Stacked(t)'
  <2>1. ASSUME NEW e \in Depths, e > depth'[t] PROVE frame'[t][e] = NoFrame
    <3>1. e # d => e > depth[t]
      BY <1>2, <1>7, <2>1 DEF Depths
    <3> QED BY <1>1, <1>6, <3>1 DEF Stacked
  <2>2. ASSUME NEW e \in Depths, e <= depth'[t]
        PROVE  /\ LastOwn(t, e, frame[t][e].transaction)'
               /\ frame'[t][e].session = frame'[t][e].transaction
               /\ ~frame'[t][e].own => frame'[t][e].transaction # None
    <3>1. e <= depth[t] /\ e < d /\ frame'[t][e] = frame[t][e]
      BY <1>2, <1>6, <1>7, <2>2 DEF Depths
    <3>2. LastOwn(t, e, frame[t][e].transaction)
      BY <1>1, <3>1 DEF Stacked
    <3>3. \A k \in Depths : k < e => frame'[t][k] = frame[t][k]
      BY <1>2, <1>8, <3>1 DEF Depths
    <3>4. LastOwn(t, e, frame[t][e].transaction)'
      BY <3>1, <3>2, <3>3 DEF LastOwn, None
    <3> QED BY <1>1, <3>1, <3>4 DEF Stacked
  <2>3. LastOwn(t, depth[t] + 1, current[t])'
    <3>1. depth'[t] + 1 = d
      BY <1>2, <1>7 DEF Depths
    <3>2. \A e \in Depths : e < d => frame'[t][e].own = frame[t][e].own
      BY <1>8
    <3> QED BY <1>7, <1>8, <1>9, <3>1, <3>2 DEF LastOwn, None
  <2> QED BY <1>7, <2>1, <2>2, <2>3 DEF Stacked
<1>11. \A e \in Depths : IsOpen(t, e)' <=> IsOpen(t, e) /\ e # depth[t]
  BY <1>1, <1>2, <1>6, <1>7 DEF IsOpen, Depths
<1>12. \A u \in Threads \ {t} :
         /\ depth'[u] = depth[u] /\ waiting'[u] = waiting[u]
         /\ current'[u] = current[u] /\ session'[u] = session[u]
         /\ \A e \in Depths : frame'[u][e] = frame[u][e]
  BY <1>1, <1>4, <1>6 DEF TypeOK
<1>13. /\ depth' \in [Threads -> 0..MaxDepth]
       /\ current' \in [Threads -> Depths \cup {None}] /\ session' \in [Threads -> Depths \cup {None}]
  <2>1. d - 1 \in 0..MaxDepth
    BY <1>2, BoundsAssumption DEF Depths
  <2> QED BY <1>1, <1>3, <1>4, <2>1 DEF TypeOK
<1>14. accepted' \in [Threads -> SUBSET Rows] /\ calls' \in 0..MaxCalls
       /\ waiting' \in [Threads -> BOOLEAN] /\ engine' = engine
  BY <1>1, <1>4 DEF TypeOK
<1>15. StackInv' /\ \A u \in Threads \ {t} : \A e \in Depths : IsOpen(u, e)' <=> IsOpen(u, e)
  BY <1>6, <1>10, <1>12, <1>13, <1>14, StackStep
<1> QED BY <1>11, <1>15

LEMMA InsertStack ==
  ASSUME StackInv, NEW t \in Threads, NEW r \in Rows, Persist(t, r) \/ PersistAgain(t, r)
  PROVE  /\ StackInv'
         /\ \A u \in Threads : \A d \in Depths : IsOpen(u, d)' <=> IsOpen(u, d)
         /\ current[t] \in Depths /\ IsOpen(t, current[t])
<1>1. /\ UNCHANGED <<engine, rows, depth, frame, waiting, current, session, calls>>
      /\ current[t] # None
  BY DEF Persist, PersistAgain
<1>2. current[t] \in Depths /\ IsOpen(t, current[t]) /\ TypeOK /\ Stacked(t)
  BY <1>1, Innermost DEF StackInv
<1>3. <<t, current[t]>> \in Threads \X Depths
  BY <1>2
<1>4. /\ written' \in [Threads \X Depths -> SUBSET Rows] /\ doomed' \subseteq Threads \X Depths
      /\ accepted' \in [Threads -> SUBSET Rows]
  <2>1. CASE Persist(t, r)
    BY <1>2, <1>3, <2>1 DEF Persist, TypeOK
  <2>2. CASE PersistAgain(t, r)
    BY <1>2, <1>3, <2>2 DEF PersistAgain, TypeOK
  <2> QED BY <2>1, <2>2
<1>5. \A u \in Threads : \A d \in Depths : IsOpen(u, d)' <=> IsOpen(u, d)
  BY <1>1 DEF IsOpen
<1>6. \A u \in Threads : Stacked(u) => Stacked(u)'
  BY <1>1 DEF Stacked, LastOwn
<1> QED BY <1>1, <1>2, <1>4, <1>5, <1>6 DEF StackInv, TypeOK

-----------------------------------------------------------------------------
(* A step that inserts and commits nothing and ends no transaction. *)
LEMMA RowsFrame ==
  ASSUME RowsInv, UNCHANGED <<rows, written, doomed>>,
         \A t \in Threads : \A d \in Depths : IsOpen(t, d) => IsOpen(t, d)'
  PROVE  RowsInv'
BY DEF RowsInv

(* No thread commits what another one, or its own outermost call, inserted. *)
LEMMA Accepted ==
  ASSUME IInv, NEW t \in Threads
  PROVE  /\ accepted[t] \cap rows = {}
         /\ \A u \in Threads : \A d \in Depths :
              <<u, d>> # <<t, 1>> => accepted[t] \cap written[<<u, d>>] = {}
         /\ depth[t] = 1 => accepted[t] = written[<<t, 1>>] /\ 1 \in Depths
<1>1. depth[t] > 0 => 1 \in Depths
  BY DepthType, BoundsAssumption DEF IInv, StackInv, Depths
<1>2. CASE depth[t] > 0
  BY <1>1, <1>2 DEF IInv, RowsInv, AcceptedInv
<1>3. CASE ~(depth[t] > 0)
  BY <1>3 DEF IInv, AcceptedInv
<1> QED BY <1>2, <1>3

LEMMA CallInv ==
  ASSUME IInv, NEW t \in Threads, NEW switchCurrent \in BOOLEAN, Call(t, switchCurrent)
  PROVE  IInv'
<1>1. StackInv' /\ \A u \in Threads : \A d \in Depths : IsOpen(u, d)' <=> IsOpen(u, d)
  BY CallStack DEF IInv
<1>2. RowsInv'
  BY <1>1, RowsFrame DEF IInv, Call
<1>3. UNCHANGED <<written, accepted>> /\ depth' = [depth EXCEPT ![t] = @ + 1]
  BY DEF Call
<1>4. depth[t] \in Nat /\ depth'[t] = depth[t] + 1 /\ depth'[t] <= MaxDepth
      /\ \A u \in Threads \ {t} : depth'[u] = depth[u]
  <2>1. TypeOK /\ depth[t] \in Nat /\ depth[t] < MaxDepth
    BY DepthType DEF IInv, StackInv, Call
  <2> QED BY <1>3, <2>1, BoundsAssumption DEF TypeOK
<1>5. depth[t] = 0 => written[<<t, 1>>] = {}
  <2> SUFFICES ASSUME depth[t] = 0 PROVE written[<<t, 1>>] = {}
    OBVIOUS
  <2>1. 1 \in Depths
    BY <1>4, BoundsAssumption DEF Depths
  <2>2. ~IsOpen(t, 1)
    BY DEF IsOpen
  <2> QED BY <2>1, <2>2 DEF IInv, RowsInv
<1>6. AcceptedInv'
  <2> SUFFICES ASSUME NEW u \in Threads
               PROVE  accepted[u] = IF depth'[u] > 0 THEN written[<<u, 1>>] ELSE {}
    BY <1>3 DEF AcceptedInv
  <2>1. accepted[u] = IF depth[u] > 0 THEN written[<<u, 1>>] ELSE {}
    BY DEF IInv, AcceptedInv
  <2>2. CASE u = t
    BY <1>4, <1>5, <2>1, <2>2
  <2>3. CASE u # t
    <3>1. depth'[u] = depth[u]
      BY <1>4, <2>3
    <3> QED BY <2>1, <3>1, Zenon
  <2> QED BY <2>2, <2>3
<1> QED BY <1>1, <1>2, <1>6 DEF IInv

LEMMA BeginInv ==
  ASSUME IInv, NEW t \in Threads, Begin(t)
  PROVE  IInv'
<1>1. StackInv' /\ \A u \in Threads : \A d \in Depths : IsOpen(u, d) => IsOpen(u, d)'
  BY BeginStack DEF IInv
<1>2. RowsInv'
  BY <1>1, RowsFrame DEF IInv, Begin
<1>3. AcceptedInv'
  BY DEF IInv, AcceptedInv, Begin
<1> QED BY <1>1, <1>2, <1>3 DEF IInv

LEMMA PersistInv ==
  ASSUME IInv, NEW t \in Threads, NEW r \in Rows, Persist(t, r)
  PROVE  IInv'
<1>1. /\ StackInv' /\ \A u \in Threads : \A d \in Depths : IsOpen(u, d)' <=> IsOpen(u, d)
      /\ current[t] \in Depths /\ IsOpen(t, current[t]) /\ TypeOK
  BY InsertStack DEF IInv, StackInv
<1>2. PICK c \in Depths : c = current[t]
  BY <1>1
<1>3. /\ r \notin rows /\ <<t, c>> \notin doomed
      /\ written' = [written EXCEPT ![<<t, c>>] = @ \cup {r}]
      /\ accepted' = [accepted EXCEPT ![t] =
           IF \E d \in Depths : d > 1 /\ IsOpen(t, d) THEN @ ELSE @ \cup {r}]
      /\ UNCHANGED <<rows, depth, doomed>>
  BY <1>2 DEF Persist
<1>4. /\ written'[<<t, c>>] = written[<<t, c>>] \cup {r}
      /\ \A u \in Threads : \A d \in Depths :
           <<u, d>> # <<t, c>> => written'[<<u, d>>] = written[<<u, d>>]
  BY <1>1, <1>3 DEF TypeOK
<1>5. \A u \in Threads : \A d \in Depths : r \notin written[<<u, d>>]
  <2> SUFFICES ASSUME NEW u \in Threads, NEW d \in Depths PROVE r \notin written[<<u, d>>]
    OBVIOUS
  <2>1. CASE IsOpen(u, d)
    <3>1. <<u, d>> \in Open
      BY <2>1 DEF Open
    <3> QED BY <3>1 DEF Persist
  <2>2. CASE ~IsOpen(u, d)
    BY <2>2 DEF IInv, RowsInv
  <2> QED BY <2>1, <2>2
<1>6. RowsInv'
  <2> SUFFICES ASSUME NEW u \in Threads, NEW d \in Depths
               PROVE  /\ ~IsOpen(u, d)' => written'[<<u, d>>] = {} /\ <<u, d>> \notin doomed'
                      /\ written'[<<u, d>>] \cap rows' = {}
                      /\ \A v \in Threads : \A e \in Depths :
                           <<v, e>> # <<u, d>> => written'[<<u, d>>] \cap written'[<<v, e>>] = {}
    BY DEF RowsInv
  <2>1. ~IsOpen(u, d)' => written'[<<u, d>>] = {} /\ <<u, d>> \notin doomed'
    BY <1>1, <1>2, <1>3, <1>4 DEF IInv, RowsInv
  <2>2. written'[<<u, d>>] \cap rows' = {}
    BY <1>3, <1>4 DEF IInv, RowsInv
  <2>3. ASSUME NEW v \in Threads, NEW e \in Depths, <<v, e>> # <<u, d>>
        PROVE  written'[<<u, d>>] \cap written'[<<v, e>>] = {}
    <3>1. written[<<u, d>>] \cap written[<<v, e>>] = {}
      BY <2>3 DEF IInv, RowsInv
    <3> QED BY <1>4, <1>5, <2>3, <3>1
  <2> QED BY <2>1, <2>2, <2>3
<1>7. AcceptedInv'
  <2>1. ASSUME NEW u \in Threads, u # t
        PROVE  accepted'[u] = IF depth'[u] > 0 THEN written'[<<u, 1>>] ELSE {}
    <3>1. accepted'[u] = accepted[u] /\ depth'[u] = depth[u]
      BY <1>1, <1>3, <2>1 DEF TypeOK
    <3>2. depth[u] > 0 => 1 \in Depths
      BY <1>1, DepthType, BoundsAssumption DEF Depths
    <3>3. depth[u] > 0 => written'[<<u, 1>>] = written[<<u, 1>>]
      BY <1>4, <2>1, <3>2
    <3> QED BY <3>1, <3>3 DEF IInv, AcceptedInv
  <2>2. accepted'[t] = IF depth'[t] > 0 THEN written'[<<t, 1>>] ELSE {}
    <3>1. depth'[t] = depth[t] /\ depth[t] > 0 /\ 1 \in Depths
      BY <1>1, <1>2, <1>3, DepthType, BoundsAssumption DEF IsOpen, Depths
    <3>2. accepted[t] = written[<<t, 1>>]
      BY <3>1 DEF IInv, AcceptedInv
    <3>3. \A d \in Depths : IsOpen(t, d) => d <= c
      BY <1>2, Innermost DEF IInv
    <3>4. CASE c = 1
      <4>1. accepted'[t] = accepted[t] \cup {r}
        BY <1>1, <1>3, <3>3, <3>4 DEF TypeOK, Depths
      <4> QED BY <1>4, <3>1, <3>2, <3>4, <4>1
    <3>5. CASE c # 1
      <4>1. accepted'[t] = accepted[t]
        BY <1>1, <1>2, <1>3, <3>5 DEF TypeOK, Depths
      <4> QED BY <1>4, <3>1, <3>2, <3>5, <4>1
    <3> QED BY <3>4, <3>5
  <2> QED BY <2>1, <2>2 DEF AcceptedInv
<1> QED BY <1>1, <1>6, <1>7 DEF IInv

LEMMA PersistAgainInv ==
  ASSUME IInv, NEW t \in Threads, NEW r \in Rows, PersistAgain(t, r)
  PROVE  IInv'
<1>1. /\ StackInv' /\ \A u \in Threads : \A d \in Depths : IsOpen(u, d)' <=> IsOpen(u, d)
      /\ IsOpen(t, current[t])
  BY InsertStack DEF IInv
<1>2. UNCHANGED <<rows, depth, written, accepted>> /\ doomed' = doomed \cup {<<t, current[t]>>}
  BY DEF PersistAgain
<1>3. RowsInv'
  BY <1>1, <1>2 DEF IInv, RowsInv
<1>4. AcceptedInv'
  BY <1>2 DEF IInv, AcceptedInv
<1> QED BY <1>1, <1>3, <1>4 DEF IInv

(* A transaction that ends leaves nothing that is not committed. *)
LEMMA EndRows ==
  ASSUME IInv, NEW t \in Threads, End(t)
  PROVE  \/ /\ UNCHANGED <<rows, written, doomed>>
            /\ ~IsOpen(t, depth[t])
         \/ /\ IsOpen(t, depth[t])
            /\ written' = [written EXCEPT ![<<t, depth[t]>>] = {}]
            /\ doomed' = doomed \ {<<t, depth[t]>>}
            /\ rows' \in {rows, rows \cup written[<<t, depth[t]>>]}
<1>1. CASE LeaveJoined(t)
  BY <1>1 DEF LeaveJoined, IsOpen
<1>2. CASE Commit(t) \/ Rollback(t)
  <2>1. TypeOK /\ depth[t] \in Nat
    BY DepthType DEF IInv, StackInv
  <2>2. IsOpen(t, depth[t])
    BY <1>2, <2>1 DEF Commit, Rollback, Running, IsOpen
  <2> QED BY <1>2, <2>2 DEF Commit, Rollback, Close
<1> QED BY <1>1, <1>2 DEF End

LEMMA EndAccepted ==
  ASSUME IInv, NEW t \in Threads, End(t),
         \A u \in Threads : \A e \in Depths :
           <<u, e>> # <<t, depth[t]>> => written'[<<u, e>>] = written[<<u, e>>]
  PROVE  AcceptedInv'
<1>1. TypeOK /\ depth[t] \in Depths
  BY EndRestores DEF IInv, StackInv
<1>2. /\ depth' = [depth EXCEPT ![t] = @ - 1]
      /\ accepted' = [accepted EXCEPT ![t] = IF depth[t] = 1 THEN {} ELSE @]
  BY EndRestores DEF IInv
<1>3. ASSUME NEW u \in Threads, u # t
      PROVE  accepted'[u] = IF depth'[u] > 0 THEN written'[<<u, 1>>] ELSE {}
  <2>1. accepted'[u] = accepted[u] /\ depth'[u] = depth[u]
    BY <1>1, <1>2, <1>3 DEF TypeOK
  <2>2. depth[u] > 0 => 1 \in Depths
    BY <1>1, DepthType, BoundsAssumption DEF Depths
  <2>3. depth[u] > 0 => written'[<<u, 1>>] = written[<<u, 1>>]
    BY <1>3, <2>2
  <2> QED BY <2>1, <2>3 DEF IInv, AcceptedInv
<1>4. accepted'[t] = IF depth'[t] > 0 THEN written'[<<t, 1>>] ELSE {}
  <2>1. depth'[t] = depth[t] - 1
        /\ accepted'[t] = IF depth[t] = 1 THEN {} ELSE accepted[t]
    BY <1>1, <1>2 DEF TypeOK
  <2>2. CASE depth[t] = 1
    BY <2>1, <2>2
  <2>3. CASE depth[t] # 1
    <3>1. 1 \in Depths /\ depth[t] > 1
      BY <1>1, <2>3, BoundsAssumption DEF Depths
    <3>2. written'[<<t, 1>>] = written[<<t, 1>>]
      BY <2>3, <3>1
    <3>3. accepted[t] = written[<<t, 1>>] /\ depth'[t] > 0
      BY <1>1, <2>1, <3>1 DEF IInv, AcceptedInv, Depths
    <3> QED BY <2>1, <2>3, <3>2, <3>3
  <2> QED BY <2>2, <2>3
<1> QED BY <1>3, <1>4 DEF AcceptedInv

LEMMA EndInv ==
  ASSUME IInv, NEW t \in Threads, End(t)
  PROVE  IInv'
<1>1. TypeOK /\ depth[t] \in Depths /\ depth[t] \in Nat
  BY EndRestores, DepthType DEF IInv, StackInv
<1>2. PICK d \in Depths : d = depth[t]
  BY <1>1
<1>3. <<t, d>> \in Threads \X Depths
  OBVIOUS
<1>4. CASE UNCHANGED <<rows, written, doomed>> /\ ~IsOpen(t, d)
  <2>1. /\ StackInv'
        /\ \A u \in Threads : \A e \in Depths : IsOpen(u, e) => IsOpen(u, e)'
    BY <1>1, <1>2, <1>4, EndStack DEF IInv, TypeOK
  <2>2. RowsInv'
    BY <1>4, <2>1, RowsFrame DEF IInv
  <2>3. written'[<<t, d>>] = {} /\ \A x : x # <<t, d>> => written'[x] = written[x]
    BY <1>4 DEF IInv, RowsInv
  <2> QED BY <2>1, <2>2, <2>3, <1>2, EndAccepted DEF IInv
<1>5. CASE /\ IsOpen(t, d)
           /\ written' = [written EXCEPT ![<<t, d>>] = {}]
           /\ doomed' = doomed \ {<<t, d>>}
           /\ rows' \in {rows, rows \cup written[<<t, d>>]}
  <2>1. /\ rows' \subseteq Rows /\ written' \in [Threads \X Depths -> SUBSET Rows]
        /\ doomed' \subseteq Threads \X Depths
    BY <1>1, <1>3, <1>5 DEF TypeOK
  <2>2. /\ StackInv'
        /\ \A u \in Threads \ {t} : \A e \in Depths : IsOpen(u, e)' <=> IsOpen(u, e)
        /\ \A e \in Depths : IsOpen(t, e)' <=> IsOpen(t, e) /\ e # d
    BY <1>2, <2>1, EndStack DEF IInv
  <2>3. /\ written'[<<t, d>>] = {}
        /\ \A u \in Threads : \A e \in Depths :
             <<u, e>> # <<t, d>> => written'[<<u, e>>] = written[<<u, e>>]
    BY <1>1, <1>5 DEF TypeOK
  <2>4. RowsInv'
    <3> SUFFICES ASSUME NEW u \in Threads, NEW e \in Depths
                 PROVE  /\ ~IsOpen(u, e)' => written'[<<u, e>>] = {} /\ <<u, e>> \notin doomed'
                        /\ written'[<<u, e>>] \cap rows' = {}
                        /\ \A v \in Threads : \A k \in Depths :
                             <<v, k>> # <<u, e>> => written'[<<u, e>>] \cap written'[<<v, k>>] = {}
      BY DEF RowsInv
    <3>1. CASE <<u, e>> = <<t, d>>
      BY <1>5, <2>3, <3>1
    <3>2. CASE <<u, e>> # <<t, d>>
      <4>1. written'[<<u, e>>] = written[<<u, e>>]
        BY <2>3, <3>2
      <4>2. ~IsOpen(u, e)' => written[<<u, e>>] = {} /\ <<u, e>> \notin doomed'
        BY <1>5, <2>2, <3>2 DEF IInv, RowsInv
      <4>3. written[<<u, e>>] \cap rows' = {}
        BY <1>5, <3>2 DEF IInv, RowsInv
      <4>4. ASSUME NEW v \in Threads, NEW k \in Depths, <<v, k>> # <<u, e>>
            PROVE  written[<<u, e>>] \cap written'[<<v, k>>] = {}
        BY <2>3, <4>4 DEF IInv, RowsInv
      <4> QED BY <4>1, <4>2, <4>3, <4>4
    <3> QED BY <3>1, <3>2
  <2> QED BY <2>2, <2>3, <2>4, <1>2, EndAccepted DEF IInv
<1> QED BY <1>2, <1>4, <1>5, EndRows

LEMMA StepInv == IInv /\ [Next]_vars => IInv'
<1> SUFFICES ASSUME IInv, [Next]_vars PROVE IInv'
  OBVIOUS
<1>1. CASE UNCHANGED vars
  BY <1>1 DEF vars, IInv, StackInv, TypeOK, Stacked, LastOwn, RowsInv, AcceptedInv, IsOpen
<1>2. ASSUME NEW t \in Threads, NEW switchCurrent \in BOOLEAN, Call(t, switchCurrent)
      PROVE  IInv'
  BY <1>2, CallInv
<1>3. ASSUME NEW t \in Threads, NEW r \in Rows, Persist(t, r) \/ PersistAgain(t, r)
      PROVE  IInv'
  BY <1>3, PersistInv, PersistAgainInv
<1>4. ASSUME NEW t \in Threads, Begin(t) \/ End(t)
      PROVE  IInv'
  BY <1>4, BeginInv, EndInv
<1> QED BY <1>1, <1>2, <1>3, <1>4 DEF Next

LEMMA Invariance == Spec => []IInv
BY InitInv, StepInv, PTL DEF Spec

(* Every variable stays what it is declared to be, and an outermost call    *)
(* always has a transaction of its own, whatever switchCurrent it asks for. *)
THEOREM TypeCorrect == Spec => []TypeOK
<1>1. IInv => TypeOK
  BY DEF IInv, StackInv
<1> QED BY <1>1, Invariance, PTL

(* TransRestore: however calls nest and end, a statement runs in the        *)
(* innermost transaction of its thread.                                     *)
THEOREM InnermostIsCurrent == Spec => []CurrentIsInnermost
<1>1. IInv => CurrentIsInnermost
  BY Innermost DEF IInv, CurrentIsInnermost
<1> QED BY <1>1, Invariance, PTL

(* operator(): what an outermost call has inserted becomes visible when it  *)
(* ends, all of it or nothing, and not before.                              *)
THEOREM OutermostIsAtomic == Spec => WholeOrNothing
<1> DEFINE Atomic ==
      \A t \in Threads :
        /\ depth[t] = 1 /\ depth'[t] = 0 => rows' \in {rows, rows \cup accepted[t]}
        /\ depth'[t] # 0 => rows' \cap accepted[t] = {}
<1>1. IInv /\ [Next]_vars => Atomic \/ UNCHANGED vars
  <2> SUFFICES ASSUME IInv, Next, NEW t \in Threads
               PROVE  /\ depth[t] = 1 /\ depth'[t] = 0 => rows' \in {rows, rows \cup accepted[t]}
                      /\ depth'[t] # 0 => rows' \cap accepted[t] = {}
    OBVIOUS
  <2>1. CASE rows' = rows
    BY <2>1, Accepted
  <2>2. CASE rows' # rows
    <3>1. PICK u \in Threads : End(u)
      BY <2>2 DEF Next, Call, Begin, Persist, PersistAgain
    <3>2. depth[u] \in Depths /\ depth' = [depth EXCEPT ![u] = @ - 1] /\ TypeOK
      BY <3>1, EndRestores DEF IInv, StackInv
    <3>3. rows' = rows \cup written[<<u, depth[u]>>]
      BY <2>2, <3>1, EndRows
    <3>4. CASE t # u
      <4>1. depth'[t] = depth[t] /\ <<u, depth[u]>> # <<t, 1>>
        BY <3>2, <3>4 DEF TypeOK
      <4>2. rows' \cap accepted[t] = {}
        BY <3>2, <3>3, <4>1, Accepted
      <4> QED BY <4>1, <4>2
    <3>5. CASE t = u /\ depth[u] = 1
      <4>1. depth'[t] = 0
        BY <3>2, <3>5 DEF TypeOK
      <4> QED BY <3>3, <3>5, <4>1, Accepted
    <3>6. CASE t = u /\ depth[u] # 1
      <4>1. <<u, depth[u]>> # <<t, 1>>
        BY <3>6
      <4>2. rows' \cap accepted[t] = {}
        BY <3>2, <3>3, <4>1, Accepted
      <4> QED BY <3>6, <4>2
    <3> QED BY <3>4, <3>5, <3>6
  <2> QED BY <2>1, <2>2
<1>2. Atomic \/ UNCHANGED vars => [Atomic]_vars
  OBVIOUS
<1> QED BY <1>1, <1>2, Invariance, PTL DEF Spec, WholeOrNothing

-----------------------------------------------------------------------------
(* A step that leaves the transactions as they are. *)
LEMMA OpenSame ==
  ASSUME \A t \in Threads : \A d \in Depths : IsOpen(t, d)' <=> IsOpen(t, d)
  PROVE  Open' = Open
BY DEF Open

(* Every step opens, uses or ends one transaction, or none is touched. *)
LEMMA StepRefines ==
  ASSUME IInv, [Next]_vars
  PROVE  [RowLevel!Next]_(RowLevel!vars)
<1>1. CASE UNCHANGED vars
  BY <1>1 DEF vars, RowLevel!vars, Open, IsOpen
<1>2. ASSUME NEW t \in Threads, NEW switchCurrent \in BOOLEAN, Call(t, switchCurrent)
      PROVE  UNCHANGED RowLevel!vars
  <2>1. Open' = Open
    BY <1>2, CallStack, OpenSame DEF IInv
  <2> QED BY <1>2, <2>1 DEF Call, RowLevel!vars
<1>3. ASSUME NEW t \in Threads, Begin(t)
      PROVE  RowLevel!Next
  <2>1. PICK d \in Depths : d = depth[t]
    BY <1>3, BeginStack DEF IInv
  <2>2. /\ \A u \in Threads \ {t} : \A e \in Depths : IsOpen(u, e)' <=> IsOpen(u, e)
        /\ \A e \in Depths : IsOpen(t, e)' <=> (IsOpen(t, e) \/ e = d)
        /\ \A e \in Depths : IsOpen(t, e) => e < d
    BY <1>3, <2>1, BeginStack DEF IInv
  <2>3. Open' = Open \cup {<<t, d>>}
    BY <2>2 DEF Open
  <2>4. \A e \in Depths : <<t, e>> \in Open => e < d
    BY <2>2 DEF Open
  <2>5. RowLevel!Open(t, d)
    BY <1>3, <2>3, <2>4 DEF Begin, RowLevel!Open
  <2> QED BY <2>5 DEF RowLevel!Next
<1>4. ASSUME NEW t \in Threads, NEW r \in Rows, Persist(t, r)
      PROVE  RowLevel!Next
  <2>1. Open' = Open /\ current[t] \in Depths /\ IsOpen(t, current[t])
    BY <1>4, InsertStack, OpenSame DEF IInv
  <2>2. RowLevel!Innermost(t, current[t])
    BY <2>1, Innermost DEF RowLevel!Innermost, IInv, Open
  <2>3. RowLevel!Insert(t, current[t], r)
    BY <1>4, <2>1, <2>2 DEF Persist, RowLevel!Insert
  <2> QED BY <2>1, <2>3 DEF RowLevel!Next
<1>5. ASSUME NEW t \in Threads, NEW r \in Rows, PersistAgain(t, r)
      PROVE  UNCHANGED RowLevel!vars
  <2>1. Open' = Open
    BY <1>5, InsertStack, OpenSame DEF IInv
  <2> QED BY <1>5, <2>1 DEF PersistAgain, RowLevel!vars
<1>6. ASSUME NEW t \in Threads, End(t)
      PROVE  RowLevel!Next \/ UNCHANGED RowLevel!vars
  <2>1. TypeOK /\ engine' = engine /\ depth[t] \in Nat
    BY <1>6, EndRestores, DepthType DEF IInv, StackInv
  <2>2. PICK d \in Depths : d = depth[t]
    BY <1>6, EndRestores DEF IInv
  <2>3. <<t, d>> \in Threads \X Depths
    OBVIOUS
  <2>4. /\ rows' \subseteq Rows /\ written' \in [Threads \X Depths -> SUBSET Rows]
        /\ doomed' \subseteq Threads \X Depths
    BY <1>6, <2>1, <2>2, <2>3, EndRows DEF TypeOK
  <2>5. /\ \A u \in Threads \ {t} : \A e \in Depths : IsOpen(u, e)' <=> IsOpen(u, e)
        /\ \A e \in Depths : IsOpen(t, e)' <=> IsOpen(t, e) /\ e # d
    BY <1>6, <2>2, <2>4, EndStack DEF IInv
  <2>6. CASE UNCHANGED <<rows, written>> /\ ~IsOpen(t, d)
    <3>1. Open' = Open
      BY <2>5, <2>6, OpenSame
    <3> QED BY <2>1, <2>6, <3>1 DEF RowLevel!vars
  <2>7. CASE /\ IsOpen(t, d) /\ written' = [written EXCEPT ![<<t, d>>] = {}]
             /\ rows' \in {rows, rows \cup written[<<t, d>>]}
    <3>1. Open' = Open \ {<<t, d>>}
      BY <2>5 DEF Open
    <3>2. \A e \in Depths : IsOpen(t, e) => e <= d
      BY <2>1, <2>2 DEF IsOpen
    <3>3. RowLevel!Innermost(t, d)
      BY <2>7, <3>2 DEF RowLevel!Innermost, Open
    <3>4. RowLevel!Close(t, d)
      BY <2>1, <2>7, <3>1, <3>3 DEF RowLevel!Close
    <3>5. RowLevel!Commit(t, d) \/ RowLevel!Abort(t, d)
      BY <2>7, <3>4 DEF RowLevel!Commit, RowLevel!Abort
    <3> QED BY <3>5 DEF RowLevel!Next
  <2> QED BY <1>6, <2>2, <2>6, <2>7, EndRows
<1> QED BY <1>1, <1>2, <1>3, <1>4, <1>5, <1>6 DEF Next

(* OdbTransaction implements RowTransactions: nested calls are transactions *)
(* that nest, and a call that joins one is not seen.                        *)
THEOREM TransactionRefinement == Spec => TransactionsNest
<1>1. Init => RowLevel!Init
  <2> SUFFICES ASSUME Init PROVE RowLevel!Init
    OBVIOUS
  <2>1. Open = {}
    BY DEF Init, Open, IsOpen, Depths
  <2> QED BY <2>1, EnginesAssumption DEF Init, RowLevel!Init
<1>2. IInv /\ [Next]_vars => [RowLevel!Next]_(RowLevel!vars)
  BY StepRefines
<1> QED BY <1>1, <1>2, Invariance, PTL DEF Spec, TransactionsNest, RowLevel!Spec
=============================================================================
