----------------------------- MODULE MCCodeModel ------------------------------
(* A small program for the C++ modules: the translation units a.cpp and b.cpp,
   which include h.h and t.inl.  A tree is written as the list of its nodes in pre-order,
   each with its depth; Tree works out parents, places and links.

     h.h    struct Base { T f; virtual void m(); ~Base(); };   /// doc
            int g();
     t.inl  inline int g() {}
     a.cpp  struct Derived : Base { Base b; Derived() : x(0) {} void m() { use x } int x; };
            struct Pair { Base b; };                          /// doc
            int main() { Derived d; if (x && y) return g(d.x); pd->m(); }
     b.cpp  void Base::m() { }    int k(int p) { auto l = [] { while (..) m2; }; .. }
            enum, typedef, namespace, using, new, delete, a macro *)
EXTENDS CodeModel

Node(depth, kind, usr, x) ==
  x @@ [kind |-> kind, usr |-> usr, depth |-> depth] @@ SyntaxNode

In(file, nodes) == [k \in DOMAIN nodes |-> [nodes[k] EXCEPT !.file = file]]

Bracketed == {"Compound", "Record", "Enum", "Namespace", "Call", "Construct"}

(* A sequence whose members TLC has computed. *)
Table(seq) == SubSeq(seq, 1, Len(seq))

(* Resolves the links of the listed nodes. *)
Tree(list) ==
  LET N == DOMAIN list
      all == Table([j \in N |-> j])
      lastOf == Table([i \in N |->
                  LET out == {j \in N : j > i /\ list[j].depth <= list[i].depth}
                  IN IF out = {} THEN Len(list) ELSE Min(out) - 1])
      parent == Table([i \in N |->
                  IF list[i].depth = 0 THEN 0
                  ELSE Max({j \in 1 .. i - 1 : list[j].depth = list[i].depth - 1})])
      kids   == Table([i \in N |-> {j \in N : parent[j] = i}])
      inFile == Table([i \in N |-> {j \in N : list[j].file = list[i].file}])
      Closed(S) == Cardinality({j \in S : list[j].kind \in Bracketed})
      (* Tokens of the same file before node i, and up to its end. *)
      start == Table([i \in N |->
                 LET before == {j \in inFile[i] : j < i}
                 IN Cardinality(before) + Closed({j \in before : lastOf[j] < i})])
      end   == Table([i \in N |->
                 LET upTo == {j \in inFile[i] : j <= lastOf[i]}
                 IN Cardinality(upTo) + Closed({j \in upTo : lastOf[j] <= lastOf[i]})])
      MethodsOf(usr, i)  == {j \in 1 .. i : list[j].usr = usr /\ list[j].kind \in MethodKinds}
      TypeLocs(i) == SelectSeq(all, LAMBDA j : j \in kids[i] /\ list[j].kind \in TypeLocKinds)
      Inits(i)    == SelectSeq(all, LAMBDA j : j \in kids[i] /\ list[j].role = "init")
      dtors(i)    == {j \in kids[i] : list[j].kind = "Destructor"}
      FieldOf(usr) == {j \in N : list[j].usr = usr /\ list[j].kind = "Field"}
      Initializer(i, k)  == [usr |-> list[i].inits[k], symbolType |-> "Variable",
                      member |-> Max({0} \cup FieldOf(list[i].inits[k])),
                      start |-> start[Inits(i)[k]], end |-> end[Inits(i)[k]]]
      Resolved(n, i) ==
        [n EXCEPT !.parent = parent[i], !.start = start[i], !.end = end[i],
                  !.expects = {j \in kids[i] : list[j].role = "body"},
                  !.typeLoc = IF TypeLocs(i) = <<>> \/ n.kind = "Record" THEN 0 ELSE TypeLocs(i)[1],
                  !.bases = Table([k \in DOMAIN @ |-> [usr |-> @[k], at |-> TypeLocs(i)[k]]]),
                  !.overrides = UNION {MethodsOf(u, i) : u \in @},
                  !.dtorDecl = IF dtors(i) = {} THEN 0 ELSE Max(dtors(i)),
                  !.inits = Table([k \in DOMAIN @ |-> Initializer(i, k)])]
  IN Table([i \in N |-> Resolved(list[i], i)])

None == <<>>
Def  == [isDef |-> TRUE]
Body == [role |-> "body"]

(* Of m, only b.cpp sees the definition. *)
Header(defFile) == In("h", <<
  Node(0, "Record", "Base", Def @@ [comment |-> "about Base", dtors |-> <<"~T">>]),
  Node(1, "Field", "Base::f", Def @@ [type |-> "T", access |-> "Private", comment |-> "about f"]),
  Node(1, "Method", "Base::m", [virtual |-> TRUE, type |-> "void", defFile |-> defFile]),
  Node(0, "Function", "g", [type |-> "int", defFile |-> "t", comment |-> "about g"]) >>)

Inline == In("t", <<
  Node(0, "Function", "g", Def @@ [type |-> "int"]),
  Node(1, "Compound", "none", Body) >>)

UnitA == In("a", <<
  Node(0, "Record", "Derived", Def @@ [bases |-> <<"Base">>, dtors |-> <<"~Base">>]),
  Node(1, "RecordTypeLoc", "none", [ref |-> "Base"]),
  Node(1, "Record", "Derived", [implicit |-> TRUE]),
  Node(1, "Field", "Derived::b", Def @@ [type |-> "Base", typeFile |-> "h"]),
  Node(2, "RecordTypeLoc", "none", [ref |-> "Base"]),
  Node(1, "Constructor", "Derived::Derived", Def @@ [type |-> "void", inits |-> <<"Derived::x">>]),
  Node(2, "Expr", "none", [role |-> "init"]),
  Node(2, "Compound", "none", Body),
  Node(1, "Method", "Derived::m", Def @@ [virtual |-> TRUE, type |-> "void", overrides |-> {"Base::m"}]),
  Node(2, "Compound", "none", Body),
  Node(3, "UnaryOperator", "none", None),
  Node(4, "MemberExpr", "none", [ref |-> "Derived::x", refKind |-> "Field", role |-> "incremented"]),
  Node(1, "Field", "Derived::x", Def @@ [type |-> "int"]),
  Node(1, "Destructor", "Derived::~Derived", Def @@ [implicit |-> TRUE, virtual |-> TRUE, type |-> "void"]),
  Node(0, "Record", "Pair", Def @@ [dtors |-> <<"~Base">>, comment |-> "about Pair"]),
  Node(1, "Field", "Pair::b", Def @@ [type |-> "Base", typeFile |-> "h"]),
  Node(0, "Function", "main", Def @@ [type |-> "int"]),
  Node(1, "Compound", "none", Body),
  Node(2, "DeclStmt", "none", None),
  Node(3, "Var", "main::d", Def @@ [type |-> "Derived", dtors |-> <<"Derived::~Derived">>]),
  Node(4, "RecordTypeLoc", "none", [ref |-> "Derived"]),
  Node(4, "Construct", "none", [ref |-> "Derived::Derived"]),
  Node(2, "If", "none", None),
  Node(3, "BinaryOperator", "none", [logical |-> TRUE]),
  Node(4, "DeclRef", "none", [ref |-> "main::d", refKind |-> "Var"]),
  Node(3, "Compound", "none", Body),
  Node(4, "Return", "none", None),
  Node(5, "Call", "none", [ref |-> "g", refKind |-> "Function", refFile |-> "t"]),
  Node(6, "MemberExpr", "none", [ref |-> "Derived::x", refKind |-> "Field"]),
  Node(2, "Call", "none", [ref |-> "Base::m", refKind |-> "Function", refFile |-> "h",
                           virtual |-> TRUE, object |-> "pointer"]),
  Node(3, "MemberExpr", "none", [ref |-> "Base::m", refKind |-> "Method"]),
  Node(4, "DeclRef", "none", [ref |-> "main::d", refKind |-> "Var"]) >>)

UnitB == In("b", <<
  Node(0, "Method", "Base::m", Def @@ [virtual |-> TRUE, type |-> "void"]),
  Node(1, "Compound", "none", Body),
  Node(0, "Function", "k", Def @@ [type |-> "int"]),
  Node(1, "Parm", "k::p", Def @@ [type |-> "int"]),
  Node(1, "Compound", "none", Body),
  Node(2, "DeclStmt", "none", None),
  Node(3, "Var", "k::l", Def @@ [type |-> "lambda", dtors |-> <<>>]),
  Node(4, "Lambda", "none", None),
  Node(5, "Record", "lambda", Def @@ [implicit |-> TRUE, lambda |-> TRUE]),
  Node(6, "Method", "lambda::op", Def @@ [type |-> "void"]),
  Node(7, "Compound", "none", Body),
  Node(8, "While", "none", None),
  Node(9, "Expr", "none", None),
  Node(9, "Call", "none", Body @@ [ref |-> "h", refKind |-> "Function"]),
  Node(2, "Switch", "none", None),
  Node(3, "Compound", "none", Body),
  Node(4, "Case", "none", None),
  Node(5, "Call", "none", [ref |-> "lambda::op", refKind |-> "Function", refFile |-> "b"]),
  Node(0, "Enum", "E", Def),
  Node(1, "EnumConstant", "E::one", Def),
  Node(0, "Typedef", "TD", Def @@ [type |-> "Base"]),
  Node(1, "RecordTypeLoc", "none", [ref |-> "Base"]),
  Node(0, "Namespace", "ns", Def),
  Node(1, "Var", "ns::v", Def @@ [type |-> "Base", typeFile |-> "h"]),
  Node(2, "RecordTypeLoc", "none", [ref |-> "Base"]),
  Node(2, "New", "none", [ref |-> "operator new"]),
  Node(0, "NamespaceAlias", "alias", [ref |-> "ns"]),
  Node(0, "Using", "none", [shadows |-> <<"ns::v">>]),
  Node(0, "UsingDirective", "none", [ref |-> "ns"]),
  Node(0, "Function", "h", Def @@ [type |-> "Base", static |-> TRUE]),
  Node(1, "RecordTypeLoc", "none", [ref |-> "Base"]),
  Node(1, "Compound", "none", Body),
  Node(2, "Return", "none", None),
  Node(3, "DeclRef", "none", [ref |-> "E::one", refKind |-> "EnumConstant"]),
  Node(2, "Delete", "none", [ref |-> "operator delete", dtors |-> <<"~Base">>]),
  Node(3, "DeclRef", "none", [ref |-> "ns::v", refKind |-> "Var"]) >>)

MCAst == [a |-> Tree(Header("none") \o Inline \o UnitA), b |-> Tree(Header("b") \o Inline \o UnitB)]

Event(kind, file, ref, at, ignored) ==
  [kind |-> kind, file |-> file, ref |-> ref, range |-> [start |-> at, end |-> at + 1],
   ignored |-> ignored]

MCPpEvents ==
  [a |-> << Event("Define", "builtin", "__x86", 1, TRUE), Event("Include", "a", "h", 100, FALSE),
            Event("Define", "h", "M", 100, FALSE), Event("Include", "a", "t", 101, FALSE),
            Event("Expand", "a", "M", 102, FALSE) >>,
   b |-> << Event("Include", "b", "missing", 99, TRUE), Event("Include", "b", "h", 100, FALSE),
            Event("Define", "h", "M", 100, FALSE), Event("Include", "b", "t", 101, FALSE),
            Event("Undef", "b", "M", 102, FALSE) >>]

MCFile == {"h", "t", "a", "b", "prog", "obj"}
MCDirectory == {"top", "root", "app", "lib", "inc"}
MCParent == [top |-> "none", root |-> "top", app |-> "root", lib |-> "root", inc |-> "lib",
             h |-> "inc", t |-> "lib", a |-> "app", b |-> "lib", prog |-> "root", obj |-> "app"]
(* c++ a.cpp b.cpp -Wl,.o -o prog;  c++ -c a.cpp;  c++ h.h *)
Word(option, f) == [option |-> option, file |-> f]
MCCommands ==
  {[file |-> "a", aOut |-> "prog", words |-> <<Word("", "a"), Word("", "b"), Word("-Wl,", "obj"),
                                               Word("-o", "none"), Word("", "prog")>>],
   [file |-> "a", aOut |-> "prog", words |-> <<Word("-c", "none"), Word("", "a")>>],
   [file |-> "h", aOut |-> "prog", words |-> <<Word("", "h")>>]}
MCCutName == [a |-> "obj", b |-> "obj"]
MCEntity == {n.usr : n \in UNION {{MCAst[t][i] : i \in DOMAIN MCAst[t]} : t \in {"a", "b"}}} \ {"none"}
MCStoredEdges == << CppEdge("a", "h", "USE"), CppEdge("b", "h", "PROVIDE") >>
MCStoredAttributes == << [edge |-> MCStoredEdges[2], key |-> "provide", value |-> "Base::m"] >>

MCPath ==
  [top |-> <<"/">>, root |-> <<"/", "project">>, app |-> <<"/", "project", "/", "app">>,
   lib |-> <<"/", "project", "/", "lib">>, inc |-> <<"/", "project", "/", "lib", "/", "inc">>,
   a |-> <<"/", "project", "/", "app", "/", "a.cpp">>, b |-> <<"/", "project", "/", "lib", "/", "b.cpp">>,
   h |-> <<"/", "project", "/", "lib", "/", "inc", "/", "h.h">>,
   t |-> <<"/", "project", "/", "lib", "/", "t.inl">>,
   prog |-> <<"/", "project", "/", "app", "_prog">>, obj |-> <<"/", "project", "/", "app", "/", ".o">>]

(* A name is the sequence of its symbols. *)
Alphabetical == << <<".o">>, <<"/">>, <<"a.cpp">>, <<"app">>, <<"app", "_prog">>, <<"b.cpp">>, <<"h.h">>,
                   <<"inc">>, <<"lib">>, <<"project">>, <<"t.inl">> >>
MCNamePlace == [name \in Range(Alphabetical) |->
                  CHOOSE k \in DOMAIN Alphabetical : Alphabetical[k] = name]
MCInputPaths == {MCPath.app, MCPath.inc}

(* A comment with an end, one without, blanks; a binary has no text. *)
MCContent == [a |-> <<"/", "*", "x", "\n", "x", "*", "/", "x", "\n", "\n", "x">>,
              b |-> <<"x", "\n", "x", "/", "*", "x", "\n", "x">>,
              h |-> <<"\n", " ", "\n", "/", "/", "x", "\n", "x", "\n">>, t |-> <<"x">>, prog |-> <<>>, obj |-> <<>>]
MCAlphabet == {NewLine, " ", "x", "/", "*"}
===============================================================================
