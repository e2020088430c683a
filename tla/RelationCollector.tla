-------------------------- MODULE RelationCollector ---------------------------
(* RelationCollector: the second walk of a unit's tree, which finds which files
   use or provide what other files declare.  The caches of edges are shared by
   all units and are filled from the database by the first collector that
   finds them empty. *)
EXTENDS AstVisitor

(* An edge is identified by its files and type, an attribute by its edge too. *)
CppEdge(from, to, type) == [from |-> from, to |-> to, type |-> type]

NoAttribute == "none"

(* The walk does not enter what the compiler added.  Of a lambda it walks the
   body, without the class around it and its operator. *)
Collected(t, i) ==
  \A j \in Ancestors(t, i) \cup {i} :
    ast[t][j].implicit => ast[t][j].lambda /\ j \notin {i, ast[t][i].parent}

Wish(from, to, type, attr) ==
  IF from = to \/ NoFile \in {from, to} THEN <<>>
  ELSE <<[edge |-> CppEdge(from, to, type), attr |-> attr]>>

RelationsOfFunction(n) ==
  IF n.isDef THEN <<>> ELSE Wish(n.defFile, n.file, "PROVIDE", n.usr)

RelationsOfValue(n) == Wish(n.file, n.typeFile, "USE", NoAttribute)

RelationsOfCall(n) == Wish(n.file, n.refFile, "USE", NoAttribute)

EdgesOfNode(t, i) ==
  LET n == ast[t][i]
  IN CASE ~Collected(t, i)         -> <<>>
       [] n.kind \in FunctionKinds -> RelationsOfValue(n) \o RelationsOfFunction(n)
       [] n.kind \in ValueKinds    -> RelationsOfValue(n)
       [] n.kind = "Call"          -> RelationsOfCall(n)
       [] OTHER                    -> <<>>

(* The addEdge calls that a unit makes, in order. *)
AddEdgeCalls(t) == InTurn(\o, <<>>, [i \in DOMAIN ast[t] |-> EdgesOfNode(t, i)])

(* addEdge: the attribute comes only with a new edge, so of several functions
   that one file provides for another only the first leaves its name. *)
addEdge(edgeCache, attrCache, out, w) ==
  LET new     == w.edge \notin edgeCache
      attr    == [edge |-> w.edge, key |-> "provide", value |-> w.attr]
      newAttr == new /\ w.attr # NoAttribute /\ attr \notin attrCache
  IN [edgeCache |-> edgeCache \cup {w.edge},
      attrCache |-> IF newAttr THEN attrCache \cup {attr} ELSE attrCache,
      out |-> [out EXCEPT !.edges = IF new THEN Append(@, w.edge) ELSE @,
                          !.edgeAttributes = IF newAttr THEN Append(@, attr) ELSE @]]
=============================================================================
