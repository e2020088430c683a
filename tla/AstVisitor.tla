----------------------------- MODULE AstVisitor ------------------------------
(* ClangASTVisitor: how one translation unit turns its syntax tree into rows.

   Clang walks the tree in pre-order.  On the way in it calls the Traverse
   functions, which open scopes, and then the Visit functions, which make rows;
   on the way out the scopes close.  A function, record or enum that is being
   walked is the top of its stack: its parameters, locals, members and
   constants find it there.  The one thing that translation units share is the
   entity cache: only the unit that inserts a node into it makes the rows of
   the node, and it decides node by node.

   The operators transform a visitor: `cache` is the entity cache, `ids` is
   _clangToAstNodeId, `out` holds the vectors that are persisted at the end. *)
EXTENDS CppModel, SequencesExt, TLC

CONSTANTS Unit,       \* translation units
          SyntaxTree  \* Clang's tree of each unit: nodes in pre-order, each with
                      \* the index of its parent (0 for a top-level declaration)

VARIABLE ast  \* SyntaxTree, and with each node what follows from those around it:
              \* nothing changes it, but TLC would compute a constant at every use

(* What Clang tells of a node, with the values of what does not apply: usr is
   the symbol it declares, ref the one it refers to; record and dtors name the
   destructors that run where it ends; expects are its nested statements that
   count as its body; role says how the parent expression uses the value. *)
SyntaxNode ==
  [kind |-> "Other", parent |-> 0, file |-> NoFile, start |-> npos, end |-> npos,
   usr |-> NoEntity, isDef |-> FALSE, implicit |-> FALSE, lambda |-> FALSE,
   virtual |-> FALSE, static |-> FALSE, access |-> "Public", type |-> NoEntity,
   fnPtr |-> FALSE, typeLoc |-> 0, bases |-> <<>>, friends |-> <<>>, dtors |-> <<>>,
   dtorDecl |-> 0, inits |-> <<>>, shadows |-> <<>>, ref |-> NoEntity,
   refKind |-> "None", object |-> "value", overrides |-> {}, expects |-> {},
   logical |-> FALSE, role |-> "none", comment |-> "", defFile |-> NoFile,
   typeFile |-> NoFile, refFile |-> NoFile]

MethodKinds   == {"Method", "Constructor", "Destructor"}
FunctionKinds == {"Function"} \cup MethodKinds
ValueKinds    == FunctionKinds \cup {"Var", "Parm", "Field", "EnumConstant"}
DeclKinds     == ValueKinds \cup {"Record", "Enum", "Typedef", "Namespace",
                                  "NamespaceAlias", "Using", "UsingDirective"}
TypeLocKinds  == {"TypedefTypeLoc", "EnumTypeLoc", "RecordTypeLoc"}
StatementKinds == {"Compound", "DeclStmt", "Return", "If", "While", "Do", "For", "ForRange",
                   "Switch", "Case", "Default", "Continue", "Goto", "Try", "Catch"}
ExpressionKinds == {"BinaryOperator", "UnaryOperator", "Conditional", "BinaryConditional",
                    "Call", "Construct", "New", "Delete", "Subscript", "DeclRef",
                    "MemberExpr", "Lambda", "Expr"}
StmtKinds == StatementKinds \cup ExpressionKinds

(* The nodes of a set, in pre-order. *)
InOrder(t, S) == SelectSeq([i \in DOMAIN ast[t] |-> i], LAMBDA i : i \in S)

(* The innermost of a set of enclosing nodes, 0 if it is empty. *)
Innermost(S) == IF S = {} THEN 0 ELSE Max(S)

(* In a tree, or the part of it in front of node n: the nodes around n, and the
   innermost one of some kinds. *)
Above(tree, n) == IF n.parent = 0 THEN {} ELSE {n.parent} \cup tree[n.parent].above

Nearest(tree, S, kinds) == Innermost({j \in S : tree[j].kind \in kinds})

Ancestors(t, i) == ast[t][i].above

-----------------------------------------------------------------------------
(* StatementScope: how deep a statement is nested for the bumpiness metric. *)

ScopeKind(n) ==
  CASE n.kind \in {"Compound", "Case", "Default"}                 -> "Open"
    [] n.kind = "If"                                              -> "TwoWay"
    [] n.kind \in FunctionKinds \cup {"While", "Do", "For", "ForRange", "Switch",
                                      "Try", "Catch"}             -> "OneWay"
    [] OTHER                                                      -> "Closed"

(* The scope around a statement: the one of the nearest statement, or the one
   that TraverseDecl opens for a function. *)
Previous(t, i) == Nearest(ast[t], Ancestors(t, i), StmtKinds \cup FunctionKinds)

CheckNext(i, outer) ==
  LET k == ScopeKind(outer)
  IN CASE outer.scope.state = "Invalid" \/ k = "Closed" -> "Invalid"
       [] k = "Open"                                    -> "Standalone"
       [] OTHER -> IF i \in outer.expects THEN "Expected" ELSE "Invalid"

Deepens(n, state) ==
  CASE n.kind = "Compound"             -> state = "Standalone"
    [] n.kind \in {"Case", "Default"}  -> FALSE
    [] OTHER                           -> state # "Invalid"

(* The state and the depth of a node's scope; some nodes have none. *)
Scope(tree, n) ==
  LET p     == Nearest(tree, Above(tree, n), StmtKinds \cup FunctionKinds)
      state == IF p = 0 \/ n.kind \in FunctionKinds THEN "Initial" ELSE CheckNext(Len(tree) + 1, tree[p])
      outer == IF p = 0 THEN 0 ELSE tree[p].scope.depth
  IN IF n.kind \notin StmtKinds THEN [state |-> state, depth |-> 0]
     ELSE [state |-> state, depth |-> outer + (IF Deepens(n, state) THEN 1 ELSE 0)]

Depth(t, i) == IF i = 0 THEN 0 ELSE ast[t][i].scope.depth

IsReal(t, i) == Depth(t, i) > Depth(t, Previous(t, i))

TopValid(t, S) ==
  Innermost({j \in S : /\ ast[t][j].kind \in StmtKinds \cup FunctionKinds
                       /\ ast[t][j].scope.state # "Invalid"})

-----------------------------------------------------------------------------
(* Places.  What the compiler added has no place in the source; lambdas are
   explicit although Clang calls their class implicit. *)

Implicit(tree, n) ==
  /\ n.implicit \/ (n.parent # 0 /\ tree[n.parent].added)
  /\ ~(n.kind = "Record" /\ n.lambda)

IsImplicit(t, i) == ast[t][i].added

RangeOf(t, i, start, end) == IF IsImplicit(t, i) THEN NoRange ELSE Span(start, end)

Location(t, i) == RangeOf(t, i, ast[t][i].start, ast[t][i].end)

(* The closing token of node j, as node i sees it. *)
EndOf(t, i, j) == RangeOf(t, i, ast[t][j].end - 1, ast[t][j].end)

(* The nearest expression around it says how a value is used. *)
Written(tree, n) ==
  LET k == IF n.parent = 0 THEN "Other" ELSE tree[n.parent].kind
  IN CASE k \in {"Delete", "Subscript"} -> TRUE
       [] k \in {"BinaryOperator", "UnaryOperator", "Call", "Construct"} ->
            n.role \in {"assigned", "incremented", "writableArgument"}
       [] k \in ExpressionKinds -> tree[n.parent].written
       [] OTHER -> FALSE

Annotate(tree, n) ==
  Append(tree, n @@ [above |-> Above(tree, n), scope |-> Scope(tree, n),
                     added |-> Implicit(tree, n), written |-> Written(tree, n)])

AstInit == ast = [t \in Unit |-> InTurn(Annotate, <<>>, SyntaxTree[t])]

-----------------------------------------------------------------------------
(* The visitor. *)

EmptyFunction ==
  [astNodeId |-> NoNode, entityHash |-> NoEntity, typeHash |-> NoEntity, tags |-> {},
   parameters |-> <<>>, locals |-> <<>>, mccabe |-> 0, bumpiness |-> 0,
   statementCount |-> 0]

NoRow == [astNodeId |-> NoNode, entityHash |-> NoEntity]

EmptyEnum == NoRow @@ [enumConstants |-> <<>>]

NewVisitor ==
  [cache |-> {}, cppFiles |-> {}, ids |-> <<>>, open |-> <<>>, fns |-> <<>>,
   types |-> <<>>, enums |-> <<>>, typeLocs |-> <<>>, locTypes |-> <<>>, out |-> EmptyDb]

(* insertToCache, and _astNodes.push_back by the one who was first; getFileLoc
   has marked the node's file as a C++ file. *)
Insert(s, ptr, a) ==
  [s EXCEPT !.ids = (ptr :> a) @@ @, !.cache = @ \cup {a}, !.cppFiles = @ \cup {a.file},
            !.out.astNodes = IF a \in s.cache THEN @ ELSE @ \cup {a}]

(* The answer of the cache, not looked at. *)
IsNewAlways(s, a) == TRUE

IsNew(s, a) == a \notin s.cache

Add(s, table, row) == [s EXCEPT !.out[table] = Append(@, row)]

SetLocType(s, loc, astType) == [s EXCEPT !.locTypes = (loc :> astType) @@ @]

Symbol(n, symbolType) == IF n.fnPtr THEN "FunctionPtr" ELSE symbolType

DeclNode(t, i, symbolType) ==
  LET n == ast[t][i]
  IN CppAstNode(n.usr, symbolType, IF n.isDef THEN "Definition" ELSE "Declaration",
                n.file, Location(t, i))

UseNode(t, i, symbolType, astType) ==
  CppAstNode(ast[t][i].ref, symbolType, astType, ast[t][i].file, Location(t, i))

MemberType(s, a, n, kind) ==
  [typeHash |-> Last(s.types).entityHash, memberAstNode |-> a, memberTypeHash |-> n.type,
   kind |-> kind, visibility |-> n.access]

(* The destructors that run at a place, as usages of them.  Every insertion
   maps the same Clang pointer, so the last one stays. *)
addDestructorUsages(s, t, i, dtors, range, ptr) ==
  InTurn(LAMBDA acc, d :
             Insert(acc, ptr, CppAstNode(d, "Function", "Usage", ast[t][i].file, range)),
           s, dtors)

-----------------------------------------------------------------------------
(* Declarations. *)

Declare(s, t, i, symbolType) == Insert(s, i, DeclNode(t, i, symbolType))

VisitRecordDecl(s, t, i) ==
  LET n  == ast[t][i]
      a  == DeclNode(t, i, "Type")
      s1 == Declare(s, t, i, "Type")
      s2 == [s1 EXCEPT !.types[Len(s.types)] = [astNodeId |-> a, entityHash |-> n.usr],
                       !.out.inheritances = @ \o [k \in DOMAIN n.bases |->
                            [derived |-> n.usr, base |-> n.bases[k].usr]],
                       !.locTypes = [loc \in {b.at : b \in Rows(n.bases)} |->
                                       "InheritanceTypeLoc"] @@ @,
                       !.out.friends = @ \o [k \in DOMAIN n.friends |->
                            [target |-> n.usr, theFriend |-> n.friends[k]]]]
      last == IF n.dtorDecl = 0 \/ ast[t][n.dtorDecl].implicit THEN i ELSE n.dtorDecl
  IN CASE n.implicit /\ ~n.lambda      -> s
       [] ~IsNew(s, a) \/ ~n.isDef     -> s1
       [] OTHER -> addDestructorUsages(s2, t, i, n.dtors, EndOf(t, i, last),
                                       IF n.dtorDecl = 0 THEN i ELSE n.dtorDecl)

VisitEnumDecl(s, t, i) ==
  LET a  == DeclNode(t, i, "Enum")
      s1 == Declare(s, t, i, "Enum")
  IN IF ~IsNew(s, a) THEN s1
     ELSE [s1 EXCEPT !.enums[Len(s.enums)].astNodeId = a, !.enums[Len(s.enums)].entityHash = a.entityHash]

VisitEnumConstantDecl(s, t, i) ==
  LET a   == DeclNode(t, i, "EnumConstant")
      row == [astNodeId |-> a, entityHash |-> a.entityHash]
      s1  == Declare(s, t, i, "EnumConstant")
  IN IF ~IsNew(s, a) THEN s1
     ELSE [Add(s1, "enumConstants", row)
             EXCEPT !.enums[Len(s.enums)].enumConstants = Append(@, a)]

VisitTypedefNameDecl(s, t, i) ==
  LET n  == ast[t][i]
      a  == DeclNode(t, i, "Typedef")
      s1 == Declare(s, t, i, "Typedef")
  IN IF ~IsNew(s, a) THEN s1
     ELSE SetLocType(Add(s1, "typedefs", [astNodeId |-> a, entityHash |-> n.usr,
                                          typeHash |-> n.type]),
                     n.typeLoc, "TypedefTypeLoc")

FunctionTags(t, i) ==
  LET n == ast[t][i]
  IN {tag \in {"Implicit", "Virtual", "Static", "Constructor", "Destructor"} :
        CASE tag = "Implicit" -> IsImplicit(t, i)
          [] tag = "Virtual"  -> n.kind \in MethodKinds /\ n.virtual
          [] tag = "Static"   -> n.kind \in MethodKinds /\ n.static
          [] OTHER            -> n.kind = tag}

VisitFunctionDecl(s, t, i) ==
  LET n  == ast[t][i]
      a  == DeclNode(t, i, "Function")
      s1 == Declare(s, t, i, "Function")
      s2 == SetLocType([s1 EXCEPT !.fns[Len(s.fns)] =
                          [@ EXCEPT !.astNodeId = a, !.entityHash = n.usr,
                                    !.typeHash = n.type, !.tags = FunctionTags(t, i),
                                    !.mccabe = IF n.isDef THEN 1 ELSE 0,
                                    !.bumpiness = 0, !.statementCount = 0]],
                       n.typeLoc, "ReturnTypeLoc")
  IN CASE ~IsNew(s, a)                                -> s1
       [] n.kind \in MethodKinds /\ s.types # <<>>    -> Add(s2, "members", MemberType(s, a, n, "Method"))
       [] OTHER                                       -> s2

VisitCXXConstructorDecl(s, t, i) ==
  InTurn(LAMBDA acc, init :
             Insert(acc, init.member,
                    CppAstNode(init.usr, init.symbolType, "Write", ast[t][i].file,
                               RangeOf(t, i, init.start, init.end))),
           s, ast[t][i].inits)

(* The relation names the entities of the two methods; every unit adds it. *)
VisitCXXMethodDecl(s, t, i) ==
  LET known == InOrder(t, ast[t][i].overrides \cap DOMAIN s.ids)
  IN InTurn(LAMBDA acc, j :
                Add(acc, "relations", [kind |-> "Override", lhs |-> s.ids[i].entityHash,
                                       rhs |-> s.ids[j].entityHash]),
              s, known)

VisitFieldDecl(s, t, i) ==
  LET n  == ast[t][i]
      a  == DeclNode(t, i, Symbol(n, "Variable"))
      s1 == Declare(s, t, i, Symbol(n, "Variable"))
      s2 == Add(s1, "members", MemberType(s, a, n, "Field"))
      s3 == Add(s2, "variables", [astNodeId |-> a, entityHash |-> n.usr,
                                  typeHash |-> n.type, tags |-> {}])
  IN IF ~IsNew(s, a) THEN s1
     ELSE SetLocType(s3, n.typeLoc, IF n.fnPtr THEN "ReturnTypeLoc" ELSE "FieldTypeLoc")

(* A variable belongs to the function on top of the stack, to the record on
   top of its stack if there is no function, or it is global. *)
VisitVarDecl(s, t, i) ==
  LET n     == ast[t][i]
      a     == DeclNode(t, i, Symbol(n, "Variable"))
      s1    == Declare(s, t, i, Symbol(n, "Variable"))
      local == s.fns # <<>>
      static == ~local /\ s.types # <<>>
      tags  == {tag \in {"Global", "Implicit", "Static"} :
                  CASE tag = "Global"   -> ~local
                    [] tag = "Implicit" -> IsImplicit(t, i)
                    [] OTHER            -> static}
      s2 == SetLocType(Add(s1, "variables", [astNodeId |-> a, entityHash |-> n.usr,
                                             typeHash |-> n.type, tags |-> tags]),
                       n.typeLoc,
                       CASE n.kind = "Parm" -> "ParameterTypeLoc"
                         [] local           -> "LocalTypeLoc"
                         [] OTHER           -> "GlobalTypeLoc")
  IN CASE ~IsNew(s, a) -> s1
       [] static       -> Add(s2, "members", MemberType(s, a, n, "Field"))
       [] ~local       -> s2
       [] n.kind = "Var" -> [s2 EXCEPT !.fns[Len(s.fns)].locals = Append(@, a)]
       [] a.range # NoRange -> [s2 EXCEPT !.fns[Len(s.fns)].parameters = Append(@, a)]
       [] OTHER        -> s2

VisitNamespaceDecl(s, t, i) ==
  LET a == DeclNode(t, i, "Namespace")
  IN IF ~IsNew(s, a) THEN Declare(s, t, i, "Namespace")
     ELSE Add(Declare(s, t, i, "Namespace"), "namespaces",
              [astNodeId |-> a, entityHash |-> a.entityHash])

(* The alias has the entity of the namespace it stands for. *)
VisitNamespaceAliasDecl(s, t, i) ==
  LET a  == UseNode(t, i, "NamespaceAlias", "Definition")
      s1 == Insert(s, i, a)
  IN IF ~IsNew(s, a) THEN s1
     ELSE Add(s1, "namespaceAliases", [astNodeId |-> a, entityHash |-> a.entityHash])

(* The shadow declarations have no index: 0 stands for their pointers. *)
VisitUsingDecl(s, t, i) ==
  InTurn(LAMBDA acc, usr :
             Insert(acc, 0, CppAstNode(usr, "Other", "UsingLoc", ast[t][i].file,
                                       Location(t, i))),
           s, ast[t][i].shadows)

VisitUsingDirectiveDecl(s, t, i) == Insert(s, i, UseNode(t, i, "Namespace", "Usage"))

-----------------------------------------------------------------------------
(* Statements, expressions and type locations. *)

isWritten(t, i) == ast[t][i].written

isVirtualCall(n) == n.virtual /\ n.object \in {"pointer", "reference"}

VisitDeclStmt(s, t, i) ==
  LET valid == TopValid(t, Ancestors(t, i) \cup {i})
      scope == IF valid = i THEN Previous(t, i) ELSE valid
      vars  == InOrder(t, {j \in DOMAIN ast[t] : ast[t][j].parent = i /\ ast[t][j].kind = "Var"})
  IN InTurn(LAMBDA acc, j : addDestructorUsages(acc, t, i, ast[t][j].dtors,
                                                  EndOf(t, i, scope), j),
              s, vars)

VisitCXXConstructExpr(s, t, i) ==
  Insert(s, i, [UseNode(t, i, "Function", "Usage") EXCEPT !.visibleInSourceCode = FALSE])

VisitCXXNewExpr(s, t, i) == Insert(s, i, UseNode(t, i, "Function", "Usage"))

VisitCXXDeleteExpr(s, t, i) ==
  addDestructorUsages(Insert(s, i, UseNode(t, i, "Function", "Usage")), t, i,
                      ast[t][i].dtors, Location(t, i), i)

VisitCallExpr(s, t, i) ==
  LET n == ast[t][i]
  IN IF n.refKind = "None" THEN s
     ELSE Insert(s, i, UseNode(t, i, IF n.refKind = "Function" THEN "Function" ELSE "FunctionPtr",
                               IF isVirtualCall(n) THEN "VirtualCall" ELSE "Usage"))

VisitDeclRefExpr(s, t, i) ==
  LET n == ast[t][i]
  IN CASE n.refKind = "Var" ->
            Insert(s, i, UseNode(t, i, Symbol(n, "Variable"),
                                 IF isWritten(t, i) THEN "Write" ELSE "Read"))
       [] n.refKind = "EnumConstant" -> Insert(s, i, UseNode(t, i, "EnumConstant", "Usage"))
       [] OTHER -> s

VisitMemberExpr(s, t, i) ==
  LET n == ast[t][i]
  IN Insert(s, i, UseNode(t, i, IF n.refKind = "Method" THEN "Function" ELSE Symbol(n, "Variable"),
                          IF isWritten(t, i) THEN "Write" ELSE "Read"))

(* VisitTypedefTypeLoc, VisitEnumTypeLoc, VisitRecordTypeLoc: the node is kept
   by its place until the destructor, since the context of the name is known
   only to its declaration. *)
VisitTypeLoc(s, t, i) ==
  [s EXCEPT !.typeLocs =
     (i :> UseNode(t, i, CASE ast[t][i].kind = "TypedefTypeLoc" -> "Typedef"
                           [] ast[t][i].kind = "EnumTypeLoc"    -> "Enum"
                           [] OTHER                             -> "Type", "TypeLocation")) @@ @,
            !.cppFiles = @ \cup {ast[t][i].file}]

Visit(s, t, i) ==
  LET k == ast[t][i].kind
  IN CASE k \in {"Function"}       -> VisitFunctionDecl(s, t, i)
       [] k \in {"Method", "Destructor"} -> VisitCXXMethodDecl(VisitFunctionDecl(s, t, i), t, i)
       [] k = "Constructor"        ->
            VisitCXXConstructorDecl(VisitCXXMethodDecl(VisitFunctionDecl(s, t, i), t, i), t, i)
       [] k = "Record"             -> VisitRecordDecl(s, t, i)
       [] k = "Enum"               -> VisitEnumDecl(s, t, i)
       [] k = "EnumConstant"       -> VisitEnumConstantDecl(s, t, i)
       [] k = "Typedef"            -> VisitTypedefNameDecl(s, t, i)
       [] k = "Field"              -> VisitFieldDecl(s, t, i)
       [] k \in {"Var", "Parm"}    -> VisitVarDecl(s, t, i)
       [] k = "Namespace"          -> VisitNamespaceDecl(s, t, i)
       [] k = "NamespaceAlias"     -> VisitNamespaceAliasDecl(s, t, i)
       [] k = "Using"              -> VisitUsingDecl(s, t, i)
       [] k = "UsingDirective"     -> VisitUsingDirectiveDecl(s, t, i)
       [] k = "DeclStmt"           -> VisitDeclStmt(s, t, i)
       [] k = "Construct"          -> VisitCXXConstructExpr(s, t, i)
       [] k = "New"                -> VisitCXXNewExpr(s, t, i)
       [] k = "Delete"             -> VisitCXXDeleteExpr(s, t, i)
       [] k = "Call"               -> VisitCallExpr(s, t, i)
       [] k = "DeclRef"            -> VisitDeclRefExpr(s, t, i)
       [] k = "MemberExpr"         -> VisitMemberExpr(s, t, i)
       [] k \in TypeLocKinds       -> VisitTypeLoc(s, t, i)
       [] OTHER                    -> s

-----------------------------------------------------------------------------
(* The Traverse functions: what happens before a node's Visit function, and
   after its last child. *)

Decides(n) ==
  \/ n.kind \in {"If", "While", "Do", "For", "ForRange", "Case", "Default", "Continue",
                 "Goto", "Catch", "Conditional", "BinaryConditional"}
  \/ n.kind = "BinaryOperator" /\ n.logical

CountMcCabe(s) ==
  IF s.fns = <<>> THEN s ELSE [s EXCEPT !.fns[Len(s.fns)].mccabe = @ + 1]

CountBumpiness(s, t, i) ==
  IF s.fns = <<>> \/ ~IsReal(t, i) THEN s
  ELSE [s EXCEPT !.fns[Len(s.fns)].bumpiness = @ + Depth(t, i),
                 !.fns[Len(s.fns)].statementCount = @ + 1]

(* TraverseDecl, TraverseEnumDecl and TraverseStmt until the node is visited. *)
EnterScope(s, t, i) ==
  LET n  == ast[t][i]
      s1 == [s EXCEPT !.open = Append(@, i)]
  IN CASE n.kind \in FunctionKinds -> [s1 EXCEPT !.fns = Append(@, EmptyFunction)]
       [] n.kind = "Record"        -> [s1 EXCEPT !.types = Append(@, NoRow)]
       [] n.kind = "Enum"          -> [s1 EXCEPT !.enums = Append(@, EmptyEnum)]
       [] Decides(n)               -> CountMcCabe(s1)
       [] OTHER                    -> s1

(* The function stays on the stack. *)
LeaveFunctionOpen(s, t, i) ==
  IF Last(s.fns).astNodeId = NoNode THEN [s EXCEPT !.fns = Front(@)]
  ELSE Add(s, "functions", Last(s.fns))

(* ~FunctionScope: a nested function weighs on the one around it, if its own
   row was this unit's to make. *)
LeaveFunction(s, t, i) ==
  LET f  == Last(s.fns)
      s1 == [s EXCEPT !.fns = Front(@)]
      s2 == Add(s1, "functions", f)
      d  == Depth(t, TopValid(t, Ancestors(t, i)))
  IN CASE f.astNodeId = NoNode -> s1
       [] s1.fns = <<>>        -> s2
       [] OTHER -> [s2 EXCEPT !.fns[Len(s1.fns)].bumpiness = @ + f.bumpiness + f.statementCount * d,
                              !.fns[Len(s1.fns)].statementCount = @ + f.statementCount]

LeaveType(s) ==
  LET s1 == [s EXCEPT !.types = Front(@)]
  IN IF Last(s.types).astNodeId = NoNode THEN s1 ELSE Add(s1, "types", Last(s.types))

LeaveEnum(s) ==
  LET s1 == [s EXCEPT !.enums = Front(@)]
  IN IF Last(s.enums).astNodeId = NoNode THEN s1 ELSE Add(s1, "enums", Last(s.enums))

LeaveScope(s, t) ==
  LET i  == Last(s.open)
      s1 == [s EXCEPT !.open = Front(@)]
      k  == ast[t][i].kind
  IN CASE k \in FunctionKinds -> LeaveFunction(s1, t, i)
       [] k = "Record"        -> LeaveType(s1)
       [] k = "Enum"          -> LeaveEnum(s1)
       [] k \in StmtKinds     -> CountBumpiness(s1, t, i)
       [] OTHER               -> s1

(* Leaves everything that is open and not around node i. *)
LeaveBefore(s, t, i) ==
  LET done == SelectSeq(s.open, LAMBDA j : i = 0 \/ j \notin Ancestors(t, i))
  IN InTurn(LAMBDA acc, j : LeaveScope(acc, t), s, done)

VisitNode(s, t, i) == Visit(EnterScope(LeaveBefore(s, t, i), t, i), t, i)

(* ~ClangASTVisitor: the type names get the context that was found for their
   place, and are inserted into the cache now. *)
FinishTypeLocs(s, t) ==
  InTurn(LAMBDA acc, loc :
             Insert(acc, 0, IF loc \in DOMAIN s.locTypes
                            THEN [s.typeLocs[loc] EXCEPT !.astType = s.locTypes[loc]]
                            ELSE s.typeLocs[loc]),
           s, InOrder(t, DOMAIN s.typeLocs))
=============================================================================
