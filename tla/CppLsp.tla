-------------------------------- MODULE CppLsp --------------------------------
(* CppLspServiceHandler: the language server protocol on top of the C++ service.
   A request names a place in a document; the answer is a location, a list of
   locations, or no result at all. *)
EXTENDS CppDiagrams, FileDiagrams

NoResult     == [shape |-> "none", locations |-> {}]
Single(hit)  == [shape |-> "location", locations |-> {hit}]
Vector(hits) == [shape |-> "vector", locations |-> hits]
Failed       == [shape |-> "error", locations |-> {}]  \* core::InvalidId is thrown

(* The node under the cursor; an unknown document has no answer, a place
   without a node gives an id that no row has. *)
Answerable(f, pos) == f \in File => queryCppAstNode(getAstNodeInfoByPosition(f, pos))

responseLocations(f, pos, kind) ==
  IF f \notin File THEN {} ELSE getReferences(getAstNodeInfoByPosition(f, pos), kind)

fillResponseTree(f, pos, kind, canBeSingle) ==
  LET hits == responseLocations(f, pos, kind)
  IN CASE ~Answerable(f, pos)                     -> Failed
       [] canBeSingle /\ Cardinality(hits) = 1 -> Single(CHOOSE h \in hits : TRUE)
       [] Cardinality(hits) > 1                -> Vector(hits)
       [] OTHER                                -> NoResult

(* The methods of the protocol and the reference kinds they ask for. *)
MethodKind ==
  [definition |-> "DEFINITION", declaration |-> "DECLARATION", implementation |-> "INHERIT_BY",
   references |-> "USAGE", parameters |-> "PARAMETER", localVariables |-> "LOCAL_VAR",
   overridden |-> "OVERRIDE", overrider |-> "OVERRIDDEN_BY", read |-> "READ", write |-> "WRITE",
   methods |-> "METHOD", friends |-> "FRIEND", enumConstants |-> "ENUM_CONSTANTS",
   expansion |-> "EXPANSION", undefinition |-> "UNDEFINITION", thisCalls |-> "THIS_CALLS",
   callsOfThis |-> "CALLS_OF_THIS", callee |-> "CALLEE", caller |-> "CALLER",
   virtualCall |-> "VIRTUAL_CALL", functionPointerCall |-> "FUNC_PTR_CALL", alias |-> "ALIAS",
   implements |-> "INHERIT_FROM", dataMember |-> "DATA_MEMBER",
   underlyingType |-> "UNDERLYING_TYPE"]

Response(f, pos, method) ==
  fillResponseTree(f, pos, MethodKind[method], method # "references")

fileDiagramTypes(f, cppFiles) == IF f \in File \cup Directory THEN getFileDiagramTypes(f, cppFiles) ELSE {}

nodeDiagramTypes(f, pos) ==
  IF f \in File THEN getDiagramTypes(getAstNodeInfoByPosition(f, pos)) ELSE {}

(* addPathToIdInFileDiagram and addLocationToIdInDiagram: from the root along
   the edges, both ways, every node that is reached is labelled with its place;
   at[n] is the node that stands for n. *)
RECURSIVE Reached(_, _, _)

Reached(g, nodes, at) ==
  LET near == UNION {getChildren(g, n) \cup getParents(g, n) : n \in nodes}
      next == nodes \cup {at[n] : n \in near}
  IN IF next = nodes THEN nodes ELSE Reached(g, next, at)

Located(g, root, at) == [graph |-> g, located |-> Reached(g, {at[root]}, at)]

fileDiagram(f, kind) == Located(returnFileDiagram(f, kind), f, [n \in File \cup Directory |-> n])

(* An AST node is replaced by its first definition, the one under the cursor
   too. *)
AroundNode(g, a) ==
  IF nodeCount(g) = 0 THEN [graph |-> g, located |-> {}]
  ELSE Located(g, a, [n \in g.nodes \cup {a} |-> FirstDefinition(n)])

nodeDiagram(f, pos, kind) ==
  LET a == getAstNodeInfoByPosition(f, pos)
  IN AroundNode(returnDiagram(a, kind), a)
=============================================================================
