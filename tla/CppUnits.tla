------------------------------- MODULE CppUnits -------------------------------
(* Translation units that are parsed at the same time, each by one worker of
   the C++ parser: Clang preprocesses the unit and builds its tree, then
   MyConsumer::HandleTranslationUnit walks it three times, with the AST
   visitor, the relation collector and the documentation collector, and each
   of them commits what it found when it is destroyed.  The units share the
   entity cache, the edge caches and the database.

   A step visits one node, up to the next node that another unit may visit
   too: what only one unit sees cannot meet another. *)
EXTENDS RelationCollector, PreprocessorCallbacks

CONSTANTS
  StoredEdges,       \* the edges that an earlier parse left in the database
  StoredAttributes   \* and their attributes

(* They are rows: one for each identifier.  An attribute refers to its edge by a
   foreign key. *)
ASSUME StoredEdgesAssumption ==
  /\ StoredEdges \in Seq(Rows(StoredEdges)) /\ NoRepeat(StoredEdges)
  /\ StoredAttributes \in Seq(Rows(StoredAttributes)) /\ NoRepeat(StoredAttributes)
  /\ \A a \in Rows(StoredAttributes) : a.edge \in Rows(StoredEdges)

VARIABLES
  pc,          \* where each unit is
  pos,         \* the next event, node or edge of each unit
  visitor,     \* its ClangASTVisitor
  collector,   \* its preprocessor callbacks
  calls, edges, \* the addEdge calls and the vectors of its RelationCollector
  entityCache, \* MyFrontendAction::_entityCache
  edgeCache, attrCache,  \* RelationCollector::_edgeCache and _edgeAttrCache
  cppTyped     \* files whose type is "CPP" by now

unitVars == <<ast, pc, pos, visitor, collector, calls, edges, entityCache, edgeCache, attrCache, cppTyped, db>>

StartDb == [EmptyDb EXCEPT !.edges = StoredEdges, !.edgeAttributes = StoredAttributes]

UnitsInit ==
  /\ AstInit
  /\ pc = [t \in Unit |-> "preprocess"]
  /\ pos = [t \in Unit |-> 1]
  /\ visitor = [t \in Unit |-> NewVisitor]
  /\ collector = [t \in Unit |-> NewCollector]
  /\ calls = [t \in Unit |-> <<>>] /\ edges = [t \in Unit |-> EmptyDb]
  /\ entityCache = {} /\ edgeCache = {} /\ attrCache = {} /\ cppTyped = {}
  /\ db = StartDb

Goto(t, from, to) ==
  /\ pc[t] = from
  /\ pc' = [pc EXCEPT ![t] = to]
  /\ pos' = [pos EXCEPT ![t] = 1]

(* A file that only one unit sees. *)
Private(f) == Cardinality({t \in Unit : \E i \in DOMAIN ast[t] : ast[t][i].file = f}) < 2

(* The nodes that a unit visits in one step. *)
Stretch(t) ==
  LET shared == {k \in pos[t] + 1 .. Len(ast[t]) : ~Private(ast[t][k].file)}
      last   == Min(shared \cup {Len(ast[t]) + 1}) - 1
  IN [k \in 1 .. last - pos[t] + 1 |-> pos[t] + k - 1]

(* The walk of the preprocessor, one event at a time. *)
PreprocessOne(t) ==
  LET c == Preprocess([collector[t] EXCEPT !.cache = entityCache], PpEvents[t][pos[t]])
  IN /\ pc[t] = "preprocess" /\ pos[t] <= Len(PpEvents[t])
     /\ collector' = [collector EXCEPT ![t] = [c EXCEPT !.cache = {}]]
     /\ entityCache' = c.cache
     /\ cppTyped' = cppTyped \cup c.cppFiles
     /\ pos' = [pos EXCEPT ![t] = @ + 1]
     /\ UNCHANGED <<pc, visitor, calls, edges, edgeCache, attrCache, db>>

StartVisiting(t) ==
  /\ pos[t] > Len(PpEvents[t])
  /\ Goto(t, "preprocess", "visit")
  /\ UNCHANGED <<visitor, collector, calls, edges, entityCache, edgeCache, attrCache, cppTyped, db>>

VisitNext(t) ==
  /\ pc[t] = "visit" /\ pos[t] <= Len(ast[t])
  /\ LET v == InTurn(LAMBDA acc, i : VisitNode(acc, t, i),
                       [visitor[t] EXCEPT !.cache = entityCache], Stretch(t))
     IN /\ visitor' = [visitor EXCEPT ![t] = [v EXCEPT !.cache = {}]]
        /\ entityCache' = v.cache
        /\ cppTyped' = cppTyped \cup v.cppFiles
        /\ pos' = [pos EXCEPT ![t] = @ + Len(Stretch(t))]
  /\ UNCHANGED <<pc, collector, calls, edges, edgeCache, attrCache, db>>

(* The vectors of a ClangASTVisitor. *)
VisitorVectors ==
  {"astNodes", "enumConstants", "enums", "types", "typedefs", "variables", "namespaces",
   "namespaceAliases", "members", "inheritances", "friends", "functions", "relations"}

(* ~ClangASTVisitor: the last scopes close, the type names are inserted, and
   everything is committed in one transaction. *)
PersistAst(t) ==
  LET v == FinishTypeLocs(LeaveBefore([visitor[t] EXCEPT !.cache = entityCache], t, 0), t)
  IN /\ pos[t] > Len(ast[t])
     /\ Goto(t, "visit", "checkEdges")
     /\ db' = persistAll(db, v.out, VisitorVectors)
     /\ calls' = [calls EXCEPT ![t] = AddEdgeCalls(t)]
     /\ entityCache' = v.cache
     /\ visitor' = [visitor EXCEPT ![t] = [NewVisitor EXCEPT !.ids = v.ids]]
     /\ UNCHANGED <<collector, edges, edgeCache, attrCache, cppTyped>>

(* The edges of an earlier parse are not read. *)
CheckEdgesForgetful(t) ==
  /\ Goto(t, "checkEdges", "collect")
  /\ UNCHANGED <<visitor, collector, calls, edges, entityCache, edgeCache, attrCache, cppTyped, db>>

(* The constructor of the relation collector: the caches are filled if they
   are empty.  addEdge has another mutex, so it does not wait for it. *)
CheckEdges(t) ==
  /\ \A u \in Unit : pc[u] # "fillEdges"  \* _edgeCacheMutex
  /\ Goto(t, "checkEdges", IF edgeCache = {} THEN "fillEdges" ELSE "collect")
  /\ UNCHANGED <<visitor, collector, calls, edges, entityCache, edgeCache, attrCache, cppTyped, db>>

FillEdges(t) ==
  /\ Goto(t, "fillEdges", "collect")
  /\ edgeCache' = edgeCache \cup Rows(db.edges)
  /\ attrCache' = attrCache \cup Rows(db.edgeAttributes)
  /\ UNCHANGED <<visitor, collector, calls, edges, entityCache, cppTyped, db>>

AddNextEdge(t) ==
  LET r == addEdge(edgeCache, attrCache, edges[t], Head(calls[t]))
  IN /\ pc[t] = "collect" /\ calls[t] # <<>>
     /\ edgeCache' = r.edgeCache /\ attrCache' = r.attrCache
     /\ edges' = [edges EXCEPT ![t] = r.out]
     /\ calls' = [calls EXCEPT ![t] = Tail(@)]
     /\ UNCHANGED <<pc, pos, visitor, collector, entityCache, cppTyped, db>>

PersistEdges(t) ==
  /\ calls[t] = <<>>
  /\ Goto(t, "collect", "document")
  /\ db' = persistAll(db, edges[t], {"edges", "edgeAttributes"})
  /\ edges' = [edges EXCEPT ![t] = EmptyDb]
  /\ UNCHANGED <<visitor, collector, calls, entityCache, edgeCache, attrCache, cppTyped>>

(* DocCommentCollector: the comment of a declaration is stored, once, with the
   entity of the node that its pointer was mapped to last.  The rows come in
   the order of the hashes. *)
DocComments(t) ==
  LET commented == {i \in DOMAIN ast[t] : /\ ast[t][i].kind \in DeclKinds
                                          /\ ast[t][i].comment # ""
                                          /\ Collected(t, i)
                                          /\ i \in DOMAIN visitor[t].ids}
      Comment(i) == [entityHash |-> visitor[t].ids[i].entityHash, content |-> ast[t][i].comment]
  IN SetToSeq({Comment(i) : i \in commented})

(* The end of a unit: the documentation collector commits, and when Clang drops
   the preprocessor, ~PPMacroCallback and ~PPIncludeCallback do.  Nobody reads
   these tables before every unit has ended, so the three transactions are one
   step. *)
FinishUnit(t) ==
  LET documented == [db EXCEPT !.docComments = @ \o DocComments(t)]
      withMacros == persistMacros(documented, collector[t].out)
  IN /\ Goto(t, "document", "done")
     /\ db' = persistInclusions(withMacros, collector[t].out)
     /\ visitor' = [visitor EXCEPT ![t] = NewVisitor]
     /\ collector' = [collector EXCEPT ![t] = NewCollector]
     /\ UNCHANGED <<calls, edges, entityCache, edgeCache, attrCache, cppTyped>>

AllParsed == \A t \in Unit : pc[t] = "done"

ParseStep(t) ==
  /\ \/ PreprocessOne(t) \/ StartVisiting(t) \/ VisitNext(t) \/ PersistAst(t)
     \/ CheckEdges(t) \/ FillEdges(t) \/ AddNextEdge(t) \/ PersistEdges(t)
     \/ FinishUnit(t)
  /\ UNCHANGED ast

UnitsNext == \E t \in Unit : ParseStep(t)

(* The C++ parser by itself. *)
UnitsSpec == UnitsInit /\ [][UnitsNext]_unitVars

-----------------------------------------------------------------------------
(* No edge between two files is stored twice, nor is an attribute, also when an
   earlier parse has left some: the first collector fills the shared caches before
   anybody adds to them (_edgeCacheMutex, relationcollector.cpp).  And an
   attribute is never stored without its edge, although one unit may find the
   edge and another would have named it. *)
EdgesOnce ==
  /\ NoRepeat(db.edges) /\ NoRepeat(db.edgeAttributes)
  /\ \A a \in Rows(db.edgeAttributes) : a.edge \in Rows(db.edges)
=============================================================================
