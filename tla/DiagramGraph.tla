----------------------------- MODULE DiagramGraph -----------------------------
(* util::Graph, as the diagrams build it: nodes that are found by their ids and
   edges that get a new id each, so that two nodes may have several edges
   between them.  Style, layout and drawing are left out. *)
EXTENDS Integers, Sequences, FiniteSets

EmptyGraph == [nodes |-> {}, edges |-> <<>>]

nodeCount(g) == Cardinality(g.nodes)

getOrCreateNode(g, id) == [g EXCEPT !.nodes = @ \cup {id}]

createEdge(g, from, to, label) ==
  [g EXCEPT !.edges = Append(@, [from |-> from, to |-> to, label |-> label])]

EdgesOf(g) == {g.edges[k] : k \in DOMAIN g.edges}

hasEdge(g, from, to) == \E e \in EdgesOf(g) : e.from = from /\ e.to = to

(* A node goes with its edges. *)
delNode(g, id) ==
  [g EXCEPT !.nodes = @ \ {id},
            !.edges = SelectSeq(@, LAMBDA e : id \notin {e.from, e.to})]

getChildren(g, id) == {e.to : e \in {d \in EdgesOf(g) : d.from = id}}
getParents(g, id)  == {e.from : e \in {d \in EdgesOf(g) : d.to = id}}

(* One round of bfsBuild: the related nodes of the first in the queue get an
   edge each, and are queued when they are met for the first time. *)
Expand(search, related, label) ==
  LET current == Head(search.queue)
      tos     == related[current]
      fresh   == SelectSeq(tos, LAMBDA n : n \notin search.seen)
      edges   == [k \in DOMAIN tos |-> [from |-> current, to |-> tos[k], label |-> label]]
  IN [graph |-> [nodes |-> search.graph.nodes \cup {tos[k] : k \in DOMAIN tos},
                 edges |-> search.graph.edges \o edges],
      queue |-> Tail(search.queue) \o fresh,
      seen  |-> search.seen \cup {fresh[k] : k \in DOMAIN fresh}]

(* bfsBuild returns the graph and the nodes it has met.  The limit counts the
   rounds, that is the nodes that were expanded and not their distance from the
   start; -1 is no limit. *)
RECURSIVE bfsRounds(_, _, _, _)

bfsRounds(search, related, label, limit) ==
  IF search.queue = <<>> \/ limit = 0 THEN search
  ELSE bfsRounds(Expand(search, related, label), related, label, limit - 1)

bfsBuild(g, start, related, label, limit) ==
  bfsRounds([graph |-> g, queue |-> <<start>>, seen |-> {}], related, label, limit)
=============================================================================
