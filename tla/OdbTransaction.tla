--------------------------- MODULE OdbTransaction ----------------------------
(***************************************************************************)
(* OdbTransaction::operator(): a function is run in a transaction of its   *)
(* own, or, called by a function that has one, as a part of that.  The     *)
(* current transaction and the current session are thread-local variables  *)
(* of ODB, and what they were before a call TransRestore puts back.        *)
(*                                                                         *)
(* The functions are any: they insert rows, call operator() again, and     *)
(* return or throw; their caller may catch what they throw.  A transaction *)
(* is named by its thread and the depth of the call that began it.         *)
(***************************************************************************)
EXTENDS Naturals

CONSTANTS
  Threads,
  Rows,
  Engines,   \* the databases it may be built for
  MaxDepth,  \* bound: how deep calls nest
  MaxCalls   \* bound: how many calls there are

ASSUME EnginesAssumption == Engines \subseteq {"sqlite", "pgsql"}
ASSUME BoundsAssumption == MaxDepth \in Nat /\ MaxCalls \in Nat

VARIABLES
  engine,
  rows,      \* the committed rows
  depth,     \* how many calls of a thread are active
  frame,     \* their local variables
  waiting,   \* the innermost one is in database::begin
  current,   \* transaction::current, None or the depth of its call
  session,   \* session::current, likewise
  written,   \* what an open transaction has inserted
  doomed,    \* the open transactions that PostgreSQL has aborted
  accepted,  \* history: what a thread's outermost call has inserted
  calls

vars == <<engine, rows, depth, frame, waiting, current, session, written, doomed, accepted, calls>>

Depths == 1..MaxDepth
None == 0

(* own: s and t are set; the others are the members of TransRestore.       *)
NoFrame == [own |-> FALSE, transaction |-> None, session |-> None]

Init ==
  /\ engine \in Engines
  /\ rows = {}
  /\ depth = [t \in Threads |-> 0]
  /\ frame = [t \in Threads |-> [d \in Depths |-> NoFrame]]
  /\ waiting = [t \in Threads |-> FALSE]
  /\ current = [t \in Threads |-> None]
  /\ session = [t \in Threads |-> None]
  /\ written = [x \in Threads \X Depths |-> {}]
  /\ doomed = {}
  /\ accepted = [t \in Threads |-> {}]
  /\ calls = 0

(* The transactions that are open. *)
IsOpen(t, d) ==
  /\ d <= depth[t]
  /\ frame[t][d].own
  /\ ~(waiting[t] /\ d = depth[t])

Open == {x \in Threads \X Depths : IsOpen(x[1], x[2])}

-----------------------------------------------------------------------------
(* Mutant: whether there is a transaction is not asked. *)
JoinsUnasked(t, switchCurrent) == engine = "sqlite" \/ ~switchCurrent

(* Mutant: with SQLite transactions are switched too. *)
JoinsUnlessSwitching(t, switchCurrent) == current[t] # None /\ ~switchCurrent

(* The call is a part of the current transaction. *)
Joins(t, switchCurrent) == current[t] # None /\ (engine = "sqlite" \/ ~switchCurrent)

Call(t, switchCurrent) ==
  /\ ~waiting[t]
  /\ depth[t] < MaxDepth /\ calls < MaxCalls
  /\ depth' = [depth EXCEPT ![t] = @ + 1]
  /\ frame' = [frame EXCEPT ![t][depth[t] + 1] =
                 [own |-> ~Joins(t, switchCurrent),
                  transaction |-> current[t], session |-> session[t]]]
  /\ waiting' = [waiting EXCEPT ![t] = ~Joins(t, switchCurrent)]
  /\ calls' = calls + 1
  /\ UNCHANGED <<engine, rows, current, session, written, doomed, accepted>>

(* Mutant: as if SQLite had a pool of connections. *)
BeginAnyway(t) ==
  /\ waiting[t]
  /\ waiting' = [waiting EXCEPT ![t] = FALSE]
  /\ current' = [current EXCEPT ![t] = depth[t]]
  /\ session' = [session EXCEPT ![t] = depth[t]]
  /\ UNCHANGED <<engine, rows, depth, frame, written, doomed, accepted, calls>>

(* database::begin needs a connection, and a transaction keeps it: with the *)
(* factory that connectDatabase gives SQLite, there is one.                 *)
Begin(t) ==
  /\ waiting[t]
  /\ engine = "sqlite" => Open = {}
  /\ waiting' = [waiting EXCEPT ![t] = FALSE]
  /\ current' = [current EXCEPT ![t] = depth[t]]
  /\ session' = [session EXCEPT ![t] = depth[t]]
  /\ UNCHANGED <<engine, rows, depth, frame, written, doomed, accepted, calls>>

-----------------------------------------------------------------------------
(* The function. *)
Running(t) == depth[t] > 0 /\ ~waiting[t]

(* An insertion waits while another transaction has inserted the row.      *)
Persist(t, r) ==
  LET x == <<t, current[t]>>
  IN /\ Running(t) /\ current[t] # None
     /\ x \notin doomed
     /\ r \notin rows /\ \A y \in Open : r \notin written[y]
     /\ written' = [written EXCEPT ![x] = @ \cup {r}]
     /\ accepted' = [accepted EXCEPT ![t] =
          IF \E d \in Depths : d > 1 /\ IsOpen(t, d) THEN @ ELSE @ \cup {r}]
     /\ UNCHANGED <<engine, rows, depth, frame, waiting, current, session, doomed, calls>>

(* object_already_persistent, which persistAll catches: PostgreSQL ignores *)
(* what comes after it in the transaction.                                 *)
PersistAgain(t, r) ==
  /\ Running(t) /\ current[t] # None
  /\ r \in rows \cup written[<<t, current[t]>>]
  /\ engine = "pgsql"
  /\ doomed' = doomed \cup {<<t, current[t]>>}
  /\ UNCHANGED <<engine, rows, depth, frame, waiting, current, session, written, accepted, calls>>

-----------------------------------------------------------------------------
(* The end of a call. *)

(* ~TransRestore *)
Restored(previous, now) == IF previous # None THEN previous ELSE now

(* A transaction or session that ends is not the current one any more. *)
Released(t, now) == IF now = depth[t] THEN None ELSE now

Leave(t) ==
  /\ depth' = [depth EXCEPT ![t] = @ - 1]
  /\ frame' = [frame EXCEPT ![t][depth[t]] = NoFrame]
  /\ accepted' = [accepted EXCEPT ![t] = IF depth[t] = 1 THEN {} ELSE @]
  /\ UNCHANGED <<engine, waiting, calls>>

Close(t) ==
  /\ written' = [written EXCEPT ![<<t, depth[t]>>] = {}]
  /\ doomed' = doomed \ {<<t, depth[t]>>}

(* Mutant: a call that has joined a transaction commits it. *)
LeaveJoinedCommitting(t) ==
  LET f == frame[t][depth[t]]
  IN /\ Running(t) /\ ~f.own
     /\ rows' = rows \cup written[<<t, current[t]>>]
     /\ written' = [written EXCEPT ![<<t, current[t]>>] = {}]
     /\ current' = [current EXCEPT ![t] = Restored(f.transaction, @)]
     /\ session' = [session EXCEPT ![t] = Restored(f.session, @)]
     /\ Leave(t)
     /\ UNCHANGED doomed

(* Returned or thrown, there is nothing to end. *)
LeaveJoined(t) ==
  LET f == frame[t][depth[t]]
  IN /\ Running(t) /\ ~f.own
     /\ current' = [current EXCEPT ![t] = Restored(f.transaction, @)]
     /\ session' = [session EXCEPT ![t] = Restored(f.session, @)]
     /\ Leave(t)
     /\ UNCHANGED <<rows, written, doomed>>

(* The transaction and the session end, then TransRestore.  PostgreSQL     *)
(* answers COMMIT in an aborted transaction as if it were ROLLBACK.        *)
Commit(t) ==
  LET f == frame[t][depth[t]]
      x == <<t, depth[t]>>
  IN /\ Running(t) /\ f.own
     /\ rows' = IF x \in doomed THEN rows ELSE rows \cup written[x]
     /\ current' = [current EXCEPT ![t] = Restored(f.transaction, Released(t, @))]
     /\ session' = [session EXCEPT ![t] = Restored(f.session, Released(t, @))]
     /\ Close(t) /\ Leave(t)

(* Mutant: the order of the destructors is not seen. *)
RollbackForgets(t) ==
  LET f == frame[t][depth[t]]
  IN /\ Running(t) /\ f.own
     /\ current' = [current EXCEPT ![t] = None]
     /\ session' = [session EXCEPT ![t] = None]
     /\ Close(t) /\ Leave(t)
     /\ UNCHANGED rows

(* Thrown by the function: TransRestore, then the transaction rolls back.   *)
(* Thrown by commit: the transaction is not current any more by then.       *)
Rollback(t) ==
  LET f == frame[t][depth[t]]
  IN /\ Running(t) /\ f.own
     /\ \/ current' = [current EXCEPT ![t] = Released(t, Restored(f.transaction, @))]
        \/ current' = [current EXCEPT ![t] = Restored(f.transaction, Released(t, @))]
     /\ session' = [session EXCEPT ![t] = Released(t, Restored(f.session, @))]
     /\ Close(t) /\ Leave(t)
     /\ UNCHANGED rows

-----------------------------------------------------------------------------
End(t) == LeaveJoined(t) \/ Commit(t) \/ Rollback(t)

Next ==
  \E t \in Threads :
    \/ \E switchCurrent \in BOOLEAN : Call(t, switchCurrent)
    \/ Begin(t)
    \/ \E r \in Rows : Persist(t, r) \/ PersistAgain(t, r)
    \/ End(t)

(* Every function ends. *)
Fairness == \A t \in Threads : WF_vars(Begin(t)) /\ WF_vars(End(t))

Spec == Init /\ [][Next]_vars /\ Fairness

-----------------------------------------------------------------------------
(* Types, and an outermost call has a transaction of its own.              *)
FrameType == [own : BOOLEAN, transaction : Depths \cup {None}, session : Depths \cup {None}]

TypeOK ==
  /\ engine \in Engines
  /\ rows \subseteq Rows
  /\ depth \in [Threads -> 0..MaxDepth]
  /\ frame \in [Threads -> [Depths -> FrameType]]
  /\ waiting \in [Threads -> BOOLEAN]
  /\ current \in [Threads -> Depths \cup {None}]
  /\ session \in [Threads -> Depths \cup {None}]
  /\ written \in [Threads \X Depths -> SUBSET Rows]
  /\ doomed \subseteq Threads \X Depths
  /\ accepted \in [Threads -> SUBSET Rows]
  /\ calls \in 0..MaxCalls
  /\ \A t \in Threads : depth[t] > 0 => frame[t][1].own

(* However calls nest and fail, a statement runs in the innermost           *)
(* transaction of its thread, with the session that was made for it, and    *)
(* between two outermost calls a thread has neither.                        *)
CurrentIsInnermost ==
  \A t \in Threads :
    /\ session[t] = current[t]
    /\ current[t] # None => IsOpen(t, current[t])
    /\ \A d \in Depths : IsOpen(t, d) => d <= current[t]

(* An outermost call ends with all that it has inserted, by itself or       *)
(* through calls that joined it, or with nothing of it: also when one of    *)
(* them failed.                                                             *)
WholeOrNothing ==
  [][\A t \in Threads :
       /\ depth[t] = 1 /\ depth'[t] = 0 => rows' \in {rows, rows \cup accepted[t]}
       /\ depth'[t] # 0 => rows' \cap accepted[t] = {}]_vars

(* The comment in operator(): no call waits for ever for the connection     *)
(* that its own thread holds.                                               *)
CallsEnd == \A t \in Threads : depth[t] > 0 ~> depth[t] = 0

RowLevel == INSTANCE RowTransactions WITH open <- Open

(* Nested calls are transactions, and joined calls are not seen.           *)
TransactionsNest == RowLevel!Spec
=============================================================================
