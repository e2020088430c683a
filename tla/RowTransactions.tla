--------------------------- MODULE RowTransactions ---------------------------
(***************************************************************************)
(* What the users of OdbTransaction rely on: a thread's transactions nest, *)
(* every statement is part of the innermost one, and each of them ends in  *)
(* one step that makes all its rows visible or none.                       *)
(***************************************************************************)
EXTENDS Naturals

CONSTANTS Threads, Rows, Depths

VARIABLES
  engine,   \* the database: with SQLite transactions exclude each other
  rows,     \* the committed rows
  open,     \* the open transactions: a thread and the depth of the call that began it
  written   \* what an open transaction has inserted

vars == <<engine, rows, open, written>>

Init ==
  /\ engine \in {"sqlite", "pgsql"}
  /\ rows = {}
  /\ open = {}
  /\ written = [x \in Threads \X Depths |-> {}]

Innermost(t, d) ==
  /\ <<t, d>> \in open
  /\ \A e \in Depths : <<t, e>> \in open => e <= d

Open(t, d) ==
  /\ engine = "sqlite" => open = {}
  /\ \A e \in Depths : <<t, e>> \in open => e < d
  /\ open' = open \cup {<<t, d>>}
  /\ UNCHANGED <<engine, rows, written>>

Insert(t, d, r) ==
  /\ Innermost(t, d)
  /\ r \notin rows /\ \A x \in open : r \notin written[x]
  /\ written' = [written EXCEPT ![<<t, d>>] = @ \cup {r}]
  /\ UNCHANGED <<engine, rows, open>>

Close(t, d) ==
  /\ Innermost(t, d)
  /\ open' = open \ {<<t, d>>}
  /\ written' = [written EXCEPT ![<<t, d>>] = {}]
  /\ UNCHANGED engine

Commit(t, d) == Close(t, d) /\ rows' = rows \cup written[<<t, d>>]

Abort(t, d) == Close(t, d) /\ UNCHANGED rows

Next ==
  \E t \in Threads, d \in Depths :
    Open(t, d) \/ Commit(t, d) \/ Abort(t, d) \/ \E r \in Rows : Insert(t, d, r)

Spec == Init /\ [][Next]_vars
=============================================================================
