------------------------------ MODULE CodeModel -------------------------------
(* The C++ parser, the C++ metrics parser after it, and the services that read
   what they have stored: what the users of the services see when the parser is
   done, whichever way its workers were interleaved. *)
EXTENDS CppUnits, CppLsp, ProjectQueries

vars == <<unitVars, metricVars>>

Init == UnitsInit /\ MetricsInit

ParseUnits == UnitsNext /\ UNCHANGED metricVars

(* The plugins run one after the other. *)
Measure == AllParsed /\ MetricsStep /\ UNCHANGED unitVars

Finished == MetricsDone

Idle == Finished /\ UNCHANGED vars

Next == ParseUnits \/ Measure \/ Idle

Spec == Init /\ [][Next]_vars

-----------------------------------------------------------------------------
(* The table that holds the row of a declaring node. *)
EntityTable(a) ==
  CASE a.symbolType = "Function"                    -> "functions"
    [] a.symbolType \in {"Variable", "FunctionPtr"} -> "variables"
    [] a.symbolType = "Typedef"                     -> "typedefs"
    [] a.symbolType = "Enum"                        -> "enums"
    [] a.symbolType = "EnumConstant"                -> "enumConstants"
    [] a.symbolType = "Namespace"                   -> "namespaces"
    [] a.symbolType = "NamespaceAlias"              -> "namespaceAliases"
    [] a.symbolType = "Macro"                       -> "macros"
    [] OTHER                                        -> "types"

(* Of a class, only definitions have a row. *)
HasRow(a) ==
  \/ a.astType = "Definition"
  \/ a.astType = "Declaration" /\ a.symbolType # "Type"

(* Every declaration of the program has exactly one row, made by the one unit
   that was first to insert its node, however the units that include it met
   (insertToCache, clangastvisitor.h). *)
EntityRowsOnce ==
  Finished =>
    \A a \in db.astNodes : HasRow(a) =>
      Cardinality(RowsWhere(EntityTable(a), LAMBDA r : r.astNodeId = a)) = 1

(* A declaration and the row of what it is written in. *)
Own(t) == {i \in DOMAIN ast[t] : Private(ast[t][i].file)}

Owner(t, i, kinds) == Nearest(ast[t], Ancestors(t, i), kinds)

FunctionRow(t, j) ==
  CHOOSE f \in Rows(db.functions) : f.astNodeId = DeclNode(t, j, "Function")

(* In a file that one unit sees, every parameter is listed by its function,
   every local variable by the innermost function around it, and every field
   and method names its class: the stacks of open functions and classes are
   popped exactly when the walk leaves them. *)
OwnersFound ==
  Finished =>
    \A t \in Unit : \A i \in Own(t) :
      LET n == ast[t][i]
          f == Owner(t, i, FunctionKinds)
          c == Owner(t, i, {"Record"})
          declared(symbolType) == DeclNode(t, i, Symbol(n, symbolType))
          listedBy(list(_)) == \E r \in Rows(db.functions) :
                                 /\ r.astNodeId = DeclNode(t, f, "Function")
                                 /\ declared("Variable") \in Rows(list(r))
      IN /\ n.kind = "Parm" => listedBy(LAMBDA r : r.parameters)
         /\ n.kind = "Var" /\ f # 0 => listedBy(LAMBDA r : r.locals)
         /\ n.kind \in {"Field", "Method"} /\ c # 0 =>
              \E m \in Rows(db.members) :
                /\ m.memberAstNode = declared(IF n.kind = "Field" THEN "Variable" ELSE "Function")
                /\ m.typeHash = ast[t][c].usr

(* The metrics of a function as its tree defines them: a function is open where
   it is the innermost one, and its statements count for the functions around
   it too, as deep as the function itself is. *)
DecisionsOf(t, f) == {i \in DOMAIN ast[t] : Decides(ast[t][i]) /\ Owner(t, i, FunctionKinds) = f}

StatementsOf(t, f) ==
  {i \in DOMAIN ast[t] : ast[t][i].kind \in StmtKinds /\ f \in Ancestors(t, i) /\ IsReal(t, i)}

Between(t, f, i) == {g \in Ancestors(t, i) : f \in Ancestors(t, g) /\ ast[t][g].kind \in FunctionKinds}

Weight(t, f, i) ==
  Depth(t, i) + MapThenSumSet(LAMBDA g : Depth(t, TopValid(t, Ancestors(t, g))), Between(t, f, i))

(* What a class declares itself, but not what the compiler adds. *)
DeclaredIn(t, c, kinds) ==
  {i \in DOMAIN ast[t] : /\ ast[t][i].kind \in kinds
                         /\ Owner(t, i, {"Record"}) = c /\ ~IsImplicit(t, i)}

(* The fields of a class that a method mentions. *)
FieldsUsedIn(t, c, i) ==
  ({ast[t][j].ref : j \in {k \in DOMAIN ast[t] : i \in Ancestors(t, k)}}
   \cup {init.usr : init \in Range(ast[t][i].inits)})
  \cap {ast[t][k].usr : k \in DeclaredIn(t, c, {"Field"})}

Stored(a, type) == {row.value : row \in {r \in metrics : r.astNodeId = a /\ r.type = type}}

Complexity(t, f) == 1 + Cardinality(DecisionsOf(t, f))

(* Cyclomatic complexity and bumpiness, computed while the scopes open and
   close, are what the tree says. *)
FunctionMetricsMatch(t, f) ==
  /\ FunctionRow(t, f).mccabe = Complexity(t, f)
  /\ FunctionRow(t, f).statementCount = Cardinality(StatementsOf(t, f))
  /\ FunctionRow(t, f).bumpiness = MapThenSumSet(LAMBDA i : Weight(t, f, i), StatementsOf(t, f))

(* A class is as complex as the methods that it declares and whose definitions
   are measured; it is given no less cohesion than it has: a field that a
   method mentions is found on the lines of the method. *)
ClassMetricsMatch(t, c) ==
  LET node     == DeclNode(t, c, "Type")
      methods  == DeclaredIn(t, c, MethodKinds)
      fields   == {ast[t][k].usr : k \in DeclaredIn(t, c, {"Field"})}
      defs     == {i \in Own(t) : /\ ast[t][i].kind \in MethodKinds /\ ast[t][i].isDef
                                  /\ ast[t][i].usr \in {ast[t][m].usr : m \in methods}}
      Used(m)  == Cardinality(FieldsUsedIn(t, c, m))
      pairs    == Cardinality(methods) * Cardinality(fields)
  IN /\ Stored(node, "MCCABE_TYPE") = {Fraction(MapThenSumSet(LAMBDA i : Complexity(t, i), defs), 1)}
     /\ \A lack \in Stored(node, "LACK_OF_COHESION") :
          IF pairs = 0 THEN lack.num = 0
          ELSE lack.den = pairs /\ lack.num + MapThenSumSet(Used, methods) <= pairs

(* The metrics that are computed while a tree is walked and those that are
   computed from the tables afterwards, in a file that one unit sees. *)
MetricsMatchTree ==
  Finished =>
    \A t \in Unit : \A i \in {j \in Own(t) : ast[t][j].isDef} :
      /\ ast[t][i].kind \in FunctionKinds => FunctionMetricsMatch(t, i)
      /\ ast[t][i].kind = "Record" /\ isRootedUnderAnyOf(ast[t][i].file) => ClassMetricsMatch(t, i)

(* The metrics of a function and of a class, and the ranges that comments give
   for the values. *)
FunctionMetrics == {"PARAMETER_COUNT", "MCCABE_FUNCTION", "BUMPY_ROAD"}
TypeMetrics     == {"MCCABE_TYPE", "LACK_OF_COHESION", "LACK_OF_COHESION_HS"}

InRange(row) ==
  LET AtMost(n) == row.value.den > 0 /\ row.value.num >= 0 /\ row.value.num <= n * row.value.den
  IN CASE row.type = "LACK_OF_COHESION"    -> AtMost(1)
       [] row.type = "LACK_OF_COHESION_HS" -> AtMost(2) \/ row.value = NaN
       [] OTHER                            -> row.value.den > 0 /\ row.value.num >= 0

(* Every function and class in the inputs is measured once, and nothing else
   is: the packets cover the tasks, and no task is in two of them. *)
MeasuredOnce ==
  Finished =>
    LET Due(table, types) == {<<r.astNodeId, type>> : r \in Rows(Measured(table)), type \in types}
        due == Due("functions", FunctionMetrics) \cup Due("types", TypeMetrics)
    IN /\ {<<row.astNodeId, row.type>> : row \in metrics} = due
       /\ Cardinality(metrics) = Cardinality(due)
       /\ \A row \in metrics : InRange(row)

-----------------------------------------------------------------------------
FunctionNodes == {a \in db.astNodes : a.symbolType = "Function"}
TypeNodes     == {a \in db.astNodes : a.symbolType = "Type"}
Refs(a, kind) == Nodes(getReferences(a, kind))

(* What one end of a relation lists, the other end lists too: the functions
   that a function calls have it among their callers unless the call is
   virtual, every caller calls; overriding and overridden, deriving and base
   classes name each other. *)
Mutual ==
  /\ \A a \in FunctionNodes : \A g \in Refs(a, "CALLEE") :
       \/ queryDefinitions(a) \subseteq Refs(g, "CALLER")
       \/ \E call \in queryCalls(a) : call.astType = "VirtualCall" /\ call.entityHash = g.entityHash
  /\ \A a \in FunctionNodes : \A f \in Refs(a, "CALLER") : queryDefinitions(a) \subseteq Refs(f, "CALLEE")
  /\ \A a \in FunctionNodes : \A b \in Refs(a, "OVERRIDE") :
       \E c \in Refs(b, "OVERRIDDEN_BY") : c.entityHash = a.entityHash
  /\ \A a \in TypeNodes : \A b \in Refs(a, "INHERIT_FROM") : queryDefinitions(a) \subseteq Refs(b, "INHERIT_BY")

(* The links of a function row are counted for the very node only. *)
LinkKinds == {"PARAMETER", "LOCAL_VAR"}

(* getReferenceCount says how many nodes getReferences lists, for every kind
   that getReferenceTypes offers of a node, though each is a query of its own. *)
CountsAgree ==
  /\ \A a \in db.astNodes : \A kind \in getReferenceTypes(a) \ LinkKinds :
       getReferenceCount(a, kind) = Cardinality(getReferences(a, kind))
  /\ \A a \in {f.astNodeId : f \in Rows(db.functions)} : \A kind \in LinkKinds :
       Cardinality(RowsOf("functions", a.entityHash)) = 1 =>
         getReferenceCount(a, kind) = Cardinality(getReferences(a, kind))

(* The lists of references agree with each other and with their counts. *)
ReferencesAgree == Finished => Mutual /\ CountsAgree

-----------------------------------------------------------------------------
(* The directories that the files of a directory need. *)
Needed(d) == Range(getImplementedFiles(d, FALSE)) \cup Range(getDependFiles(d, FALSE))

(* What a directory of a module needs is drawn in exactly one of two diagrams:
   as a subsystem dependency if it is in the module too, as an external
   dependency if it is not, and nothing from outside stays among the subsystems. *)
ModuleDiagramsSplit ==
  \A d \in Directory :
    LET inside   == SubDirSearch(d).seen \cup {d}
        internal == getSubsystemDependencyDiagram(d)
        external == getExternalDependencyDiagram(d)
        drawn(g, s, n) == \E e \in EdgesOf(g) : e.from = s /\ e.to = n /\ e.label # "subdir"
    IN /\ \A s \in inside : \A n \in Needed(s) :
            /\ drawn(internal, s, n) <=> n \in inside
            /\ drawn(external, s, n) <=> n \notin inside
       /\ internal.nodes = inside

(* Every node of a diagram that the language server asks for is reached from
   the node in its centre, so it gets the location that a click leads to; and
   no edge is drawn to a node that is not there. *)
Complete(diagram) ==
  /\ diagram.located = diagram.graph.nodes
  /\ \A e \in EdgesOf(diagram.graph) : {e.from, e.to} \subseteq diagram.graph.nodes

DiagramsLocated ==
  /\ \A f \in File \cup Directory : \A kind \in fileDiagramTypes(f, cppTyped) :
       Complete(fileDiagram(f, kind))
  /\ \A f \in File : \A at \in {n.range.start : n \in queryCppAstNodesInFile(f)} \ {npos} :
       \A kind \in nodeDiagramTypes(f, at) : Complete(nodeDiagram(f, at, kind))

(* Every diagram shows all that it is of, in one place each. *)
DiagramsComplete == Finished => ModuleDiagramsSplit /\ DiagramsLocated

(* What a user can click on at the place where node n begins is n, something
   that is written inside it, or a macro. *)
Clickable(n) ==
  LET found == getAstNodeInfoByPosition(n.file, n.range.start)
  IN found.symbolType = "Macro" \/ found.range = n.range \/ Inside(found.range, n.range)

(* A file, or the files of a directory and of those beneath it. *)
Beneath(d) ==
  IF d \in File THEN {d} ELSE {f \in File : Parent[f] \in SubDirSearch(d).seen \cup {d}}

(* What is asked for a directory has all that is asked for the nodes of its
   files, or for the files; the detailed answer is about the same nodes, but
   does not have every metric. *)
MetricViewsAgree(d) ==
  LET listed   == getCppAstNodeMetricsForPath(Path[d])
      detailed == getCppAstNodeMetricsDetailedForPath(Path[d])
  IN \A f \in Beneath(d) :
       /\ \A row \in {r \in metrics : r.astNodeId.file = f} :
            /\ row.astNodeId \in DOMAIN listed
            /\ listed[row.astNodeId] = getCppMetricsForAstNode(row.astNodeId)
            /\ getSingleCppMetricForAstNode(row.astNodeId, row.type) = {row.value}
            /\ detailed[row.astNodeId].metrics \subseteq {Strip(r) : r \in listed[row.astNodeId]}
       /\ \A row \in {r \in LocRows(cppTyped) : r.file = f} :
            [path |-> Path[f], metric |-> row.metric]
              \in getMetricsFromDir(Path[d], row.type, {"CPP", "Unknown"}, cppTyped)

(* The three ways to find a file lead to one tree: the path to a file, cut out of
   its name, runs along the parents of its row; the subtrees list every row
   once, behind the directory that it lies in; what is beneath a directory is
   what its path begins; and the search finds a file by its name. *)
FileTreeAgrees(f) ==
  LET way     == getPathTillFile(f)
      subtree == getSubtree(f)
      inTree  == {subtree[k].id : k \in DOMAIN subtree}
  IN /\ getFileInfoByPath(Path[f]) = getFileInfo(f)
     /\ Parent[f] # NoFile =>
          /\ Last(way).id = f /\ way[1].parent = NoFile
          /\ \A k \in 2 .. Len(way) : <<way[k - 1]>> = getParent(way[k].id)
          /\ f \in {child.id : child \in Range(getChildFiles(Parent[f]))}
     /\ Cardinality(inTree) = Len(subtree)
     /\ inTree = {g \in FileRow : g # f /\ f \in {step.id : step \in Range(getPathTillFile(g))}}
     /\ \A k \in DOMAIN subtree : subtree[k].parent \in {f} \cup {subtree[j].id : j \in 1 .. k - 1}
     /\ f \in searchFile(FileName(Path[f]), ~IsDirectory(f))
     /\ \A info \in Range(getOpenTreeTillFile(f)) : info \in Range(getRootFiles \o FlattenSeq(
          [k \in DOMAIN way |-> getChildFiles(way[k].id)]))
     /\ inTree \subseteq searchFile(Append(Path[f], "/"), FALSE)

(* The views of a file agree, though each has a query of its own: what is
   coloured or listed can be clicked on, the includes that are listed are those
   that the diagrams draw, the box of a class knows the type of every field, the
   metrics of a directory are those of what is in it, and the tree of files is
   one tree. *)
ViewsAgree ==
  Finished =>
    /\ \A d \in FileRow : MetricViewsAgree(d) /\ FileTreeAgrees(d)
    /\ \A f \in File :
         LET listed == UNION {getFileReferences(f, kind) : kind \in FileReferenceKinds}
         IN /\ \A n \in listed \cup getSyntaxHighlight(f, Span(1, 1000)) :
                 n.range # NoRange => Clickable(n)
            /\ {n.entityHash : n \in getFileReferences(f, "INCLUDES")} = Range(getIncludedFiles(f, FALSE))
            /\ \A n \in getFileReferences(f, "TYPES") :
                 \A field \in getDetailedClassNodeLabel(n).fields : field.type # {}

(* Of every text, the lines that are not blank are counted, and with them the
   first and the last one whatever is on them; and what is left when the
   comments are erased, in two loops, is what a scanner of the language finds
   outside of them (getLocFromFile). *)
LinesCounted == Finished => AllCounted
=============================================================================
