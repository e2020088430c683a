------------------------------ MODULE CppQueries ------------------------------
(* CppServiceHandler: what the C++ service reads from the tables.

   A request names an AST node; a reference kind asks for the nodes that stand
   in a relation to it.  The handler answers with a vector: an answer here is a
   set of hits, each the node with the number of the row that gave it, 0 for
   rows of CppAstNode itself, so a node that two rows give is in it twice. *)
EXTENDS CppModel, FiniteSetsExt

Hit(row, node) == [row |-> row, node |-> node]
Plain(nodes)   == {Hit(0, a) : a \in nodes}
Nodes(hits)    == {h.node : h \in hits}

(* Rows of a table, and the first of them in the order of insertion. *)
RowsWhere(table, P(_)) == {k \in DOMAIN db[table] : P(db[table][k])}
RowsOf(table, entity)  == RowsWhere(table, LAMBDA r : r.entityHash = entity)
FirstOf(table, entity) == db[table][Min(RowsOf(table, entity))]

(* A request with an id that no row has: core::InvalidId is thrown. *)
queryCppAstNode(a) == a \in db.astNodes

(* The nodes of the entity of a node, and those of a file; the callers add a
   condition of their own. *)
queryCppAstNodes(a) ==
  {n \in db.astNodes : n.entityHash = a.entityHash /\ n.range.end # npos}

OfType(a, astType) == {n \in queryCppAstNodes(a) : n.astType = astType}

queryCppAstNodesInFile(f) == {n \in db.astNodes : n.file = f}

queryDefinitions(a) == OfType(a, "Definition")

DefinitionsOf(entity) ==
  {n \in db.astNodes : n.entityHash = entity /\ n.astType = "Definition"}

(* The first of the definitions, in the order of the ids, which are hashes. *)
SomeDefinition(a) == CHOOSE d \in queryDefinitions(a) : TRUE

(* The end is taken to be inside. *)
astCallsQueryInclusive(n, call) ==
  /\ call.file = n.file /\ call.symbolType = "Function"
  /\ call.astType \in {"Usage", "VirtualCall"}
  /\ call.range.start >= n.range.start
  /\ call.range.end <= n.range.end

(* Calls inside a function: strictly before its end. *)
astCallsQuery(n, call) ==
  /\ call.file = n.file /\ call.symbolType = "Function"
  /\ call.astType \in {"Usage", "VirtualCall"}
  /\ call.range.start >= n.range.start
  /\ call.range.end < n.range.end

queryCalls(a) ==
  IF queryDefinitions(a) = {} THEN {}
  ELSE {call \in db.astNodes : astCallsQuery(SomeDefinition(a), call)}

queryCallsCount(a) == Cardinality(queryCalls(a))

(* Reverse goes from the left hand side of a relation to the right. *)
transitiveClosureOfRel(kind, entity, reverse) ==
  LET from(r) == IF reverse THEN r.lhs ELSE r.rhs
      to(r)   == IF reverse THEN r.rhs ELSE r.lhs
      rels    == {r \in Rows(db.relations) : r.kind = kind}
      Step(S) == S \cup {to(r) : r \in {q \in rels : from(q) \in S}}
      closure[k \in 0 .. Cardinality(rels)] ==
        IF k = 0 THEN {to(r) : r \in {q \in rels : from(q) = entity}} ELSE Step(closure[k - 1])
  IN closure[Cardinality(rels)]

(* One row of each entity: whichever the database returns first. *)
queryOverrides(a, reverse) ==
  {CHOOSE n \in db.astNodes : n.entityHash = e :
     e \in transitiveClosureOfRel("Override", a.entityHash, reverse)}

queryOverridesCount(a, reverse) ==
  Cardinality(transitiveClosureOfRel("Override", a.entityHash, reverse))

-----------------------------------------------------------------------------
(* getReferences *)

(* The functions that are around the usages of a function. *)
queryCallers(a) ==
  {f \in db.astNodes :
     /\ f.astType = "Definition" /\ f.symbolType = "Function"
     /\ \E call \in OfType(a, "Usage") : /\ f.file = call.file
                                         /\ f.range.start <= call.range.start
                                         /\ f.range.end > call.range.end}

queryVirtualCalls(a) ==
  UNION {OfType(n, "VirtualCall") : n \in {a} \cup queryOverrides(a, TRUE)}

queryPointerCalls(a) ==
  {n \in db.astNodes : /\ n.entityHash \in transitiveClosureOfRel("Assign", a.entityHash, TRUE)
                       /\ n.astType = "Usage"}

(* The nodes that the first function row of the entity lists as parameters, or
   as locals. *)
OfFunction(a, list) ==
  IF RowsOf("functions", a.entityHash) = {} THEN {}
  ELSE LET nodes == FirstOf("functions", a.entityHash)[list]
       IN {Hit(k, nodes[k]) : k \in DOMAIN nodes}

(* The definitions of the record rows of a type. *)
OfTypeHash(type) ==
  UNION {{Hit(k, d) : d \in queryDefinitions(db.types[k].astNodeId)} : k \in RowsOf("types", type)}

TypeOf(table, a) ==
  IF RowsOf(table, a.entityHash) = {} THEN {}
  ELSE OfTypeHash(FirstOf(table, a.entityHash).typeHash)

(* The definitions of the entity that each of the rows names in a column. *)
DefinitionsBy(table, rows, column) ==
  UNION {{Hit(k, d) : d \in DefinitionsOf(db[table][k][column])} : k \in rows}

MemberRows(a, kind) ==
  RowsWhere("members", LAMBDA m : m.typeHash = a.entityHash /\ m.kind = kind)

Members(a, kind) == {Hit(k, db.members[k].memberAstNode) : k \in MemberRows(a, kind)}

BaseRows(a)    == RowsWhere("inheritances", LAMBDA r : r.derived = a.entityHash)
DerivedRows(a) == RowsWhere("inheritances", LAMBDA r : r.base = a.entityHash)
FriendRows(a)  == RowsWhere("friends", LAMBDA r : r.target = a.entityHash)
AliasRows(a)   == RowsWhere("typedefs", LAMBDA r : r.typeHash = a.entityHash)
ExpansionRows(a) == RowsWhere("expansions", LAMBDA r : r.astNodeId = a)

getReferences(a, kind) ==
  CASE kind = "DEFINITION"  -> Plain(queryDefinitions(a))
    [] kind = "DECLARATION" -> Plain({n \in OfType(a, "Declaration") : n.visibleInSourceCode})
    [] kind = "USAGE"       -> Plain(queryCppAstNodes(a))
    [] kind = "THIS_CALLS"  -> Plain(queryCalls(a))
    [] kind = "CALLS_OF_THIS" -> Plain(OfType(a, "Usage"))
    [] kind = "CALLEE"      -> Plain(UNION {queryDefinitions(call) : call \in queryCalls(a)})
    [] kind = "CALLER"      -> Plain(queryCallers(a))
    [] kind = "VIRTUAL_CALL"  -> Plain(queryVirtualCalls(a))
    [] kind = "FUNC_PTR_CALL" -> Plain(queryPointerCalls(a))
    [] kind = "PARAMETER"   -> OfFunction(a, "parameters")
    [] kind = "LOCAL_VAR"   -> OfFunction(a, "locals")
    [] kind = "RETURN_TYPE" -> TypeOf("functions", a)
    [] kind = "OVERRIDE"    -> Plain(queryOverrides(a, TRUE))
    [] kind = "OVERRIDDEN_BY" -> Plain(queryOverrides(a, FALSE))
    [] kind = "READ"        -> Plain(OfType(a, "Read"))
    [] kind = "WRITE"       -> Plain(OfType(a, "Write"))
    [] kind = "TYPE"        -> TypeOf("variables", a)
    [] kind = "ALIAS"       -> {Hit(k, db.typedefs[k].astNodeId) : k \in AliasRows(a)}
    [] kind = "INHERIT_FROM" -> DefinitionsBy("inheritances", BaseRows(a), "base")
    [] kind = "INHERIT_BY"  -> DefinitionsBy("inheritances", DerivedRows(a), "derived")
    [] kind = "DATA_MEMBER" -> {h \in Members(a, "Field") : h.node.range.end # npos}
    [] kind = "METHOD"      -> Members(a, "Method")
    [] kind = "FRIEND"      -> DefinitionsBy("friends", FriendRows(a), "theFriend")
    [] kind = "UNDERLYING_TYPE" ->
         IF RowsOf("typedefs", a.entityHash) = {} THEN {}
         ELSE Plain(DefinitionsOf(FirstOf("typedefs", a.entityHash).typeHash))
    [] kind = "ENUM_CONSTANTS" ->
         IF RowsOf("enums", a.entityHash) = {} THEN {}
         ELSE Plain(Rows(FirstOf("enums", a.entityHash).enumConstants))
    [] kind = "EXPANSION"   -> {Hit(k, db.expansions[k].astNodeId) : k \in ExpansionRows(a)}
    [] kind = "UNDEFINITION" -> Plain(OfType(a, "UnDefinition"))
    [] OTHER -> {}

-----------------------------------------------------------------------------
(* getReferenceCount: the same questions asked once more, as counts. *)

(* Links of the function row of this very node. *)
CountLinks(a, list) ==
  LET own == {k \in DOMAIN db.functions : db.functions[k].astNodeId = a}
  IN Cardinality(UNION {{<<k, j>> : j \in DOMAIN db.functions[k][list]} : k \in own})

TypeCount(table, a) ==
  IF RowsOf(table, a.entityHash) = {} THEN 0
  ELSE Cardinality(RowsOf("types", FirstOf(table, a.entityHash).typeHash))

CalleeCount(a) ==
  LET called == {call.entityHash : call \in queryCalls(a)}
  IN Cardinality({n \in db.astNodes : /\ n.entityHash \in called /\ n.astType = "Definition"
                                      /\ n.range.end # npos})

(* Only the calls through the base classes. *)
VirtualCallCountOfOverridden(a) ==
  MapThenSumSet(LAMBDA n : Cardinality(OfType(n, "VirtualCall")), queryOverrides(a, TRUE))

VirtualCallCount(a) ==
  Cardinality(OfType(a, "VirtualCall"))
  + MapThenSumSet(LAMBDA n : Cardinality(OfType(n, "VirtualCall")), queryOverrides(a, TRUE))

getReferenceCount(a, kind) ==
  CASE kind \in {"DEFINITION", "DECLARATION", "USAGE", "CALLS_OF_THIS", "CALLER",
                 "FUNC_PTR_CALL", "READ", "WRITE", "UNDEFINITION"} ->
         Cardinality(getReferences(a, kind))
    [] kind = "THIS_CALLS"    -> queryCallsCount(a)
    [] kind = "CALLEE"        -> CalleeCount(a)
    [] kind = "VIRTUAL_CALL"  -> VirtualCallCount(a)
    [] kind = "PARAMETER"     -> CountLinks(a, "parameters")
    [] kind = "LOCAL_VAR"     -> CountLinks(a, "locals")
    [] kind = "RETURN_TYPE"   -> TypeCount("functions", a)
    [] kind = "TYPE"          -> TypeCount("variables", a)
    [] kind = "OVERRIDE"      -> queryOverridesCount(a, TRUE)
    [] kind = "OVERRIDDEN_BY" -> queryOverridesCount(a, FALSE)
    [] kind = "ALIAS"         -> Cardinality(AliasRows(a))
    [] kind = "INHERIT_FROM"  -> Cardinality(BaseRows(a))
    [] kind = "INHERIT_BY"    -> Cardinality(DerivedRows(a))
    [] kind = "DATA_MEMBER"   -> Cardinality(MemberRows(a, "Field"))
    [] kind = "METHOD"        -> Cardinality(MemberRows(a, "Method"))
    [] kind = "FRIEND"        -> Cardinality(FriendRows(a))
    [] kind = "UNDERLYING_TYPE" -> Cardinality(RowsOf("typedefs", a.entityHash))
    [] kind = "ENUM_CONSTANTS" ->
         Cardinality(UNION {{<<k, j>> : j \in DOMAIN db.enums[k].enumConstants} :
                            k \in RowsOf("enums", a.entityHash)})
    [] kind = "EXPANSION"     -> Cardinality(ExpansionRows(a))
    [] OTHER -> 0

(* What the menu of a node offers. *)
getReferenceTypes(a) ==
  {"DEFINITION", "DECLARATION", "USAGE"} \cup
  CASE a.symbolType = "Function" ->
         {"THIS_CALLS", "CALLEE", "CALLER", "VIRTUAL_CALL", "FUNC_PTR_CALL", "PARAMETER",
          "LOCAL_VAR", "OVERRIDE", "OVERRIDDEN_BY", "RETURN_TYPE"}
    [] a.symbolType = "Variable" -> {"READ", "WRITE", "TYPE"}
    [] a.symbolType = "Type" ->
         {"ALIAS", "INHERIT_FROM", "INHERIT_BY", "DATA_MEMBER", "METHOD", "FRIEND"}
    [] a.symbolType = "Typedef" -> {"UNDERLYING_TYPE"}
    [] a.symbolType = "Enum"    -> {"ENUM_CONSTANTS"}
    [] a.symbolType = "Macro"   -> {"EXPANSION", "UNDEFINITION"}
    [] OTHER -> {}

-----------------------------------------------------------------------------
(* Files and positions. *)

FileReferenceKinds == {"TYPES", "FUNCTIONS", "INCLUDES", "MACROS"}

fileQuery(kind, n) ==
  CASE kind = "TYPES"     -> n.symbolType = "Type" /\ n.astType = "Definition"
    [] kind = "FUNCTIONS" -> n.symbolType = "Function" /\ n.astType \in {"Definition", "Declaration"}
    [] kind = "INCLUDES"  -> n.symbolType = "File"
    [] kind = "MACROS"    -> n.symbolType = "Macro" /\ n.astType = "Definition"
    [] OTHER -> FALSE

getFileReferences(f, kind) == {n \in queryCppAstNodesInFile(f) : fileQuery(kind, n)}

At(f, pos) == {n \in queryCppAstNodesInFile(f) : n.range.start <= pos /\ pos < n.range.end}

(* Range is completely inside another. *)
Inside(inner, outer) ==
  CASE inner.start = outer.start -> inner.end < outer.end
    [] inner.end = outer.end     -> outer.start < inner.start
    [] OTHER -> outer.start < inner.start /\ inner.end < outer.end

(* The innermost visible node at a position; a macro wins.  The loop keeps the
   smallest so far, and the rows come in no order. *)
getAstNodeInfoByPosition(f, pos) ==
  LET macros  == {n \in At(f, pos) : n.symbolType = "Macro"}
      visible == {n \in At(f, pos) : n.visibleInSourceCode}
      minimal == {n \in visible : ~\E m \in visible : Inside(m.range, n.range)}
  IN CASE macros # {}  -> CHOOSE n \in macros : TRUE
       [] visible = {} -> NoNode
       [] OTHER        -> CHOOSE n \in minimal : TRUE

(* The elements that a file is coloured by, over whole lines. *)
getSyntaxHighlight(f, range) ==
  {n \in queryCppAstNodesInFile(f) :
    /\ n.range.start >= range.start /\ n.range.end < range.end
    /\ n.range.end # npos /\ n.visibleInSourceCode}

-----------------------------------------------------------------------------
(* Tags, properties and documentation of a node. *)

TaggedTable(a) == IF a.symbolType = "Function" THEN "functions" ELSE "variables"

getTags(a) ==
  LET def    == IF queryDefinitions(a) = {} THEN a ELSE SomeDefinition(a)
      kind   == IF a.symbolType = "Function" THEN "Method" ELSE "Field"
      access == {m.visibility : m \in {r \in Rows(db.members) :
                                         r.memberAstNode \in {def, a} /\ r.kind = kind}}
      rows   == RowsOf(TaggedTable(a), def.entityHash)
  IN CASE a.symbolType \notin {"Function", "Variable"} -> {}
       [] rows = {} -> access
       [] OTHER     -> access \cup FirstOf(TaggedTable(a), def.entityHash).tags

(* Whether the properties of the node are found: its name, its type, ... *)
PropertyTable(a) ==
  CASE a.symbolType = "Variable"     -> "variables"
    [] a.symbolType = "Function"     -> "functions"
    [] a.symbolType = "Type"         -> "types"
    [] a.symbolType = "Typedef"      -> "typedefs"
    [] a.symbolType = "EnumConstant" -> "enumConstants"
    [] OTHER                         -> "none"

getProperties(a) ==
  IF PropertyTable(a) = "none" THEN {} ELSE RowsOf(PropertyTable(a), a.entityHash)

CommentOf(entity) ==
  LET rows == RowsOf("docComments", entity)
  IN IF rows = {} THEN <<>> ELSE <<db.docComments[Min(rows)].content>>

(* The comment of the entity, and for a type those of its methods. *)
getDocumentation(a) ==
  [own     |-> CommentOf(a.entityHash),
   members |-> IF a.symbolType # "Type" THEN {}
               ELSE {[method |-> h.node, doc |-> CommentOf(h.node.entityHash),
                      tags |-> getTags(h.node)] : h \in getReferences(a, "METHOD")}]
=============================================================================
