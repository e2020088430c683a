------------------------------ MODULE CppDiagrams ------------------------------
(* Diagram: diagrams of functions and classes.  Nodes are AST nodes, found by
   their ids; the edges point as they are drawn. *)
EXTENDS CppQueries, DiagramGraph, SequencesExt

(* The answers of the service, in the order of their names. *)
Listed(a, kind) == SetToSeq(Nodes(getReferences(a, kind)))

getDiagramTypes(a) ==
  CASE a.symbolType = "Function" -> {"FUNCTION_CALL"}
    [] a.symbolType = "Type"     -> {"DETAILED_CLASS", "CLASS_COLLABORATION"}
    [] OTHER                     -> {}

FirstDefinition(a) == Listed(a, "DEFINITION")[1]

(* An edge from or to the center, once. *)
CallEdge(g, from, to, label) ==
  IF hasEdge(g, from, to) THEN g ELSE createEdge(g, from, to, label)

Calls(center, called, callers) ==
  LET down == InTurn(LAMBDA g, n : CallEdge(getOrCreateNode(g, n), center, n, "called"),
                     getOrCreateNode(EmptyGraph, center), called)
  IN InTurn(LAMBDA g, n : CallEdge(getOrCreateNode(g, n), n, center, "caller"), down, callers)

getFunctionCallDiagram(a) ==
  IF queryDefinitions(a) = {} THEN EmptyGraph
  ELSE Calls(FirstDefinition(a), Listed(a, "CALLEE"), Listed(a, "CALLER"))

(* The classes around a class; every answer gives an edge, also a repeated one. *)
Inheritance(center) ==
  LET up == InTurn(LAMBDA g, n : createEdge(getOrCreateNode(g, n), center, n, "inherits"),
                   getOrCreateNode(EmptyGraph, center), Listed(center, "INHERIT_FROM"))
  IN InTurn(LAMBDA g, n : createEdge(getOrCreateNode(g, n), n, center, "inherits"),
            up, Listed(center, "INHERIT_BY"))

getDetailedClassDiagram(a) ==
  IF queryDefinitions(a) = {} THEN EmptyGraph ELSE Inheritance(FirstDefinition(a))

(* What the box of a class in the detailed diagram lists. *)
getDetailedClassNodeLabel(a) ==
  [fields  |-> {[node |-> n, tags |-> getTags(n), type |-> getProperties(n)] :
                  n \in Nodes(getReferences(a, "DATA_MEMBER"))},
   methods |-> {[node |-> n, tags |-> getTags(n)] : n \in Nodes(getReferences(a, "METHOD"))}]

(* The classes that the members of a class have as their types: the first
   definition of each.  Members of one type share an edge. *)
AddUsedClass(g, class, types) ==
  IF types = <<>> \/ [from |-> class, to |-> types[1], label |-> "uses"] \in EdgesOf(g) THEN g
  ELSE createEdge(getOrCreateNode(g, types[1]), class, types[1], "uses")

AddMembers(g, class) ==
  InTurn(LAMBDA acc, m : AddUsedClass(acc, class, Listed(m, "TYPE")), g, Listed(class, "DATA_MEMBER"))

Collaboration(center) ==
  InTurn(AddMembers, Inheritance(center),
         <<center>> \o Listed(center, "INHERIT_FROM") \o Listed(center, "INHERIT_BY"))

getClassCollaborationDiagram(a) ==
  IF queryDefinitions(a) = {} THEN EmptyGraph ELSE Collaboration(FirstDefinition(a))

returnDiagram(a, kind) ==
  CASE kind = "FUNCTION_CALL"       -> getFunctionCallDiagram(a)
    [] kind = "DETAILED_CLASS"      -> getDetailedClassDiagram(a)
    [] kind = "CLASS_COLLABORATION" -> getClassCollaborationDiagram(a)
    [] OTHER                        -> EmptyGraph
=============================================================================
