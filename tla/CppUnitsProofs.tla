---------------------------- MODULE CppUnitsProofs ----------------------------
(* Theorems about CppUnits for any number of units, any trees, events, and edges
   and attributes of an earlier parse.  The relation collectors of the units share
   a cache of edges, under two mutexes that do not exclude each other.  What keeps
   them from storing an edge twice is that a collector adds edges only when the
   cache has every edge of the table.  An attribute is found with its edge, so a
   new one is in no table since its edge is in none.  Then, about CppMetrics: the packets into which the
   tasks of a metric are cut lose and double none, for any number of tasks. *)
EXTENDS CppUnits, CppMetrics, SequenceTheorems, TLAPS

(* The edges that a unit has found and not stored yet. *)
Found(t) == edges[t].edges

(* The edges that the cache or the table of an earlier parse has. *)
Known == edgeCache \cup Rows(StoredEdges)

EdgeTypes ==
  /\ "edges" \in DOMAIN db /\ db.edges \in Seq(Known)
  /\ DOMAIN edges = Unit
  /\ DOMAIN pc = Unit
  /\ \A t \in Unit : "edges" \in DOMAIN edges[t] /\ Found(t) \in Seq(edgeCache)

(* Where edges are added, and from then on, the cache has the whole table. *)
CacheCovers ==
  edgeCache # {} \/ (\E t \in Unit : pc[t] = "collect") => Rows(db.edges) \subseteq edgeCache

(* Each edge is in one place. *)
NoneTwice ==
  /\ NoRepeat(db.edges)
  /\ \A t \in Unit : NoRepeat(Found(t)) /\ Rows(Found(t)) \cap Rows(db.edges) = {}
  /\ \A t, u \in Unit : t # u => Rows(Found(t)) \cap Rows(Found(u)) = {}

EdgesInv == EdgeTypes /\ CacheCovers /\ NoneTwice

(* Attributes, none twice, each of one of the edges. *)
AttributesOf(attributes, table) ==
  /\ attributes \in Seq(Rows(attributes)) /\ NoRepeat(attributes)
  /\ \A a \in Rows(attributes) : a.edge \in Rows(table)

(* The attributes are stored with their edges and wait together with them. *)
AttributesInv ==
  /\ "edgeAttributes" \in DOMAIN db /\ AttributesOf(db.edgeAttributes, db.edges)
  /\ \A t \in Unit : /\ "edgeAttributes" \in DOMAIN edges[t]
                     /\ AttributesOf(edges[t].edgeAttributes, Found(t))

UnitsInv == EdgesInv /\ AttributesInv

-----------------------------------------------------------------------------
LEMMA RowsOfLonger ==
  ASSUME NEW S, NEW s \in Seq(S), NEW x
  PROVE  /\ Append(s, x) \in Seq(S \cup {x})
         /\ Rows(Append(s, x)) = Rows(s) \cup {x}
         /\ NoRepeat(s) /\ x \notin Rows(s) => NoRepeat(Append(s, x))
<1> DEFINE r == Append(s, x)
<1>1. s \in Seq(S \cup {x})
  OBVIOUS
<1>2. r \in Seq(S \cup {x}) /\ Len(r) = Len(s) + 1 /\ DOMAIN r = 1 .. Len(s) + 1
      /\ Len(s) \in Nat /\ DOMAIN s = 1 .. Len(s)
  BY <1>1
<1>3. \A k \in DOMAIN s : r[k] = s[k]
  BY <1>1
<1>4. r[Len(s) + 1] = x
  BY <1>1
<1>5. \A k \in DOMAIN r : k \in DOMAIN s \/ k = Len(s) + 1
  BY <1>2
<1>6. DOMAIN s \subseteq DOMAIN r /\ Len(s) + 1 \in DOMAIN r
  BY <1>2
<1> HIDE DEF r
<1>7. Rows(r) = Rows(s) \cup {x}
  BY <1>3, <1>4, <1>5, <1>6 DEF Rows
<1>8. NoRepeat(s) /\ x \notin Rows(s) => NoRepeat(r)
  BY <1>3, <1>4, <1>5 DEF Rows, NoRepeat
<1> QED BY <1>2, <1>7, <1>8 DEF r

LEMMA RowsOfBoth ==
  ASSUME NEW S, NEW s \in Seq(S), NEW r \in Seq(S)
  PROVE  /\ s \o r \in Seq(S)
         /\ Rows(s \o r) = Rows(s) \cup Rows(r)
         /\ NoRepeat(s) /\ NoRepeat(r) /\ Rows(s) \cap Rows(r) = {} => NoRepeat(s \o r)
<1> DEFINE b == s \o r
<1>1. b \in Seq(S) /\ Len(b) = Len(s) + Len(r) /\ DOMAIN b = 1 .. Len(s) + Len(r)
      /\ Len(s) \in Nat /\ Len(r) \in Nat /\ DOMAIN s = 1 .. Len(s) /\ DOMAIN r = 1 .. Len(r)
  OBVIOUS
<1>2. \A k \in DOMAIN s : b[k] = s[k]
  OBVIOUS
<1>3. \A k \in DOMAIN r : b[Len(s) + k] = r[k]
  OBVIOUS
<1>4. \A k \in DOMAIN b : k \in DOMAIN s \/ \E j \in DOMAIN r : k = Len(s) + j
  <2>1. SUFFICES ASSUME NEW k \in DOMAIN b, k \notin DOMAIN s
                 PROVE  k - Len(s) \in DOMAIN r /\ k = Len(s) + (k - Len(s))
    OBVIOUS
  <2> QED BY <1>1, <2>1
<1>5. DOMAIN s \subseteq DOMAIN b /\ \A j \in DOMAIN r : Len(s) + j \in DOMAIN b
  BY <1>1
<1> HIDE DEF b
<1>6. Rows(b) = Rows(s) \cup Rows(r)
  BY <1>2, <1>3, <1>4, <1>5 DEF Rows
<1>7. NoRepeat(s) /\ NoRepeat(r) /\ Rows(s) \cap Rows(r) = {} => NoRepeat(b)
  <2>1. SUFFICES ASSUME NoRepeat(s), NoRepeat(r), Rows(s) \cap Rows(r) = {},
                        NEW j \in DOMAIN b, NEW k \in DOMAIN b, b[j] = b[k]
                 PROVE  j = k
    BY DEF NoRepeat
  <2>2. \A i \in DOMAIN s, m \in DOMAIN r : s[i] # r[m]
    BY <2>1 DEF Rows
  <2>3. CASE j \in DOMAIN s
    BY <1>2, <1>3, <1>4, <2>1, <2>2, <2>3 DEF NoRepeat
  <2>4. CASE j \notin DOMAIN s
    <3>1. PICK i \in DOMAIN r : j = Len(s) + i /\ b[j] = r[i]
      BY <1>3, <1>4, <2>4
    <3>2. PICK m \in DOMAIN r : k = Len(s) + m /\ b[k] = r[m]
      BY <1>2, <1>3, <1>4, <2>1, <2>2, <3>1
    <3> QED BY <2>1, <3>1, <3>2 DEF NoRepeat
  <2> QED BY <2>3, <2>4
<1> QED BY <1>1, <1>6, <1>7 DEF b

LEMMA RowsInSeq ==
  ASSUME NEW S, NEW s \in Seq(S)
  PROVE  Rows(s) \subseteq S
BY DEF Rows

(* Attributes stay those of a table that grows. *)
LEMMA AttributesOfLonger ==
  ASSUME NEW attributes, NEW table, NEW longer,
         AttributesOf(attributes, table), Rows(table) \subseteq Rows(longer)
  PROVE  AttributesOf(attributes, longer)
BY DEF AttributesOf

(* Two tables with their attributes can be joined when they share no edge. *)
LEMMA AttributesOfBoth ==
  ASSUME NEW attrs1, NEW attrs2, NEW table1, NEW table2, NEW both,
         AttributesOf(attrs1, table1), AttributesOf(attrs2, table2),
         Rows(table1) \cap Rows(table2) = {}, Rows(both) = Rows(table1) \cup Rows(table2)
  PROVE  AttributesOf(attrs1 \o attrs2, both)
<1> DEFINE S == Rows(attrs1) \cup Rows(attrs2)
<1>1. attrs1 \in Seq(S) /\ attrs2 \in Seq(S)
  BY DEF AttributesOf
<1>2. Rows(attrs1) \cap Rows(attrs2) = {}
  BY DEF AttributesOf
<1>3. attrs1 \o attrs2 \in Seq(S) /\ Rows(attrs1 \o attrs2) = S /\ NoRepeat(attrs1 \o attrs2)
  BY <1>1, <1>2, RowsOfBoth DEF AttributesOf
<1> HIDE DEF S
<1>4. \A a \in S : a.edge \in Rows(both)
  BY DEF S, AttributesOf
<1> QED BY <1>3, <1>4 DEF AttributesOf

(* A new edge brings an attribute that is new too. *)
LEMMA AttributeAdded ==
  ASSUME NEW attributes, NEW table, NEW longer, NEW a,
         AttributesOf(attributes, table), a.edge \notin Rows(table),
         Rows(longer) = Rows(table) \cup {a.edge}
  PROVE  AttributesOf(Append(attributes, a), longer)
<1> DEFINE more == Append(attributes, a)
<1>1. a \notin Rows(attributes)
  BY DEF AttributesOf
<1>2. more \in Seq(Rows(attributes) \cup {a}) /\ Rows(more) = Rows(attributes) \cup {a} /\ NoRepeat(more)
  BY <1>1, RowsOfLonger DEF AttributesOf
<1> HIDE DEF more
<1>3. \A b \in Rows(more) : b.edge \in Rows(longer)
  BY <1>2 DEF AttributesOf
<1> QED BY <1>2, <1>3 DEF AttributesOf, more

(* A table that none of the vectors is for stays as it is. *)
LEMMA PersistOthers ==
  ASSUME NEW base, NEW out, NEW vectors, NEW table \in DOMAIN base, table \notin vectors
  PROVE  /\ table \in DOMAIN persistAll(base, out, vectors)
         /\ persistAll(base, out, vectors)[table] = base[table]
BY DEF persistAll

(* ~RelationCollector *)
LEMMA EdgesPersisted ==
  ASSUME NEW t \in Unit, PersistEdges(t), NEW table \in {"edges", "edgeAttributes"}, table \in DOMAIN db
  PROVE  table \in DOMAIN db' /\ db'[table] = db[table] \o edges[t][table]
<1>1. db' = persistAll(db, edges[t], {"edges", "edgeAttributes"})
  BY DEF PersistEdges
<1> QED BY <1>1 DEF persistAll

LEMMA AddedEdge ==
  ASSUME NEW cache, NEW attrs, NEW out, NEW w, "edges" \in DOMAIN out
  PROVE  LET r == addEdge(cache, attrs, out, w)
         IN /\ r.edgeCache = cache \cup {w.edge}
            /\ DOMAIN r.out = DOMAIN out
            /\ r.out.edges = IF w.edge \in cache THEN out.edges ELSE Append(out.edges, w.edge)
BY DEF addEdge

LEMMA AddedAttribute ==
  ASSUME NEW cache, NEW attrs, NEW out, NEW w, "edgeAttributes" \in DOMAIN out
  PROVE  LET r == addEdge(cache, attrs, out, w)
             a == [edge |-> w.edge, key |-> "provide", value |-> w.attr]
         IN \/ r.out.edgeAttributes = out.edgeAttributes
            \/ /\ w.edge \notin cache
               /\ r.out.edgeAttributes = Append(out.edgeAttributes, a)
BY DEF addEdge

-----------------------------------------------------------------------------
LEMMA EdgesInit == UnitsInit => EdgesInv
<1> SUFFICES ASSUME UnitsInit PROVE EdgesInv
  OBVIOUS
<1>1. edgeCache = {} /\ \A t \in Unit : pc[t] = "preprocess"
  BY DEF UnitsInit
<1>2. "edges" \in DOMAIN db /\ db.edges = StoredEdges
  BY DEF UnitsInit, StartDb, EmptyDb
<1>3. DOMAIN edges = Unit /\ DOMAIN pc = Unit
      /\ \A t \in Unit : "edges" \in DOMAIN edges[t] /\ Found(t) = <<>>
  BY DEF UnitsInit, EmptyDb, Found
<1>4. Rows(<<>>) = {} /\ NoRepeat(<<>>)
  BY DEF Rows, NoRepeat
<1>5. EdgeTypes
  <2>1. Known = Rows(StoredEdges)
    BY <1>1 DEF Known
  <2>2. db.edges \in Seq(Known)
    BY <1>2, <2>1, StoredEdgesAssumption
  <2>3. <<>> \in Seq(edgeCache)
    OBVIOUS
  <2> QED BY <1>2, <1>3, <2>2, <2>3 DEF EdgeTypes
<1>6. CacheCovers
  BY <1>1 DEF CacheCovers
<1>7. NoneTwice
  BY <1>2, <1>3, <1>4, StoredEdgesAssumption DEF NoneTwice
<1> QED BY <1>5, <1>6, <1>7 DEF EdgesInv

(* A step that leaves the edges alone, and does not begin to collect without
   the table in the cache. *)
LEMMA OtherStepInv ==
  ASSUME EdgesInv, DOMAIN pc' = Unit, edges' = edges,
         "edges" \in DOMAIN db', db'.edges = db.edges,
         edgeCache \subseteq edgeCache',
         edgeCache' # {} \/ (\E t \in Unit : pc[t]' = "collect") =>
           Rows(db.edges) \subseteq edgeCache'
  PROVE  EdgesInv'
<1>1. Known \subseteq Known'
  BY DEF Known
<1>2. EdgeTypes'
  BY <1>1 DEF EdgesInv, EdgeTypes, Found
<1>3. CacheCovers'
  BY DEF CacheCovers
<1>4. NoneTwice'
  BY DEF EdgesInv, NoneTwice, Found
<1> QED BY <1>2, <1>3, <1>4 DEF EdgesInv

LEMMA GotoCollecting ==
  ASSUME EdgesInv, NEW t \in Unit, NEW from, NEW to, Goto(t, from, to)
  PROVE  /\ DOMAIN pc' = Unit
         /\ \A u \in Unit : pc[u]' = "collect" => to = "collect" \/ pc[u] = "collect"
BY DEF Goto, EdgesInv, EdgeTypes

LEMMA FillInv ==
  ASSUME EdgesInv, NEW t \in Unit, FillEdges(t)
  PROVE  EdgesInv'
<1>1. DOMAIN pc' = Unit
  BY GotoCollecting DEF FillEdges
<1> QED BY <1>1, OtherStepInv DEF FillEdges, EdgesInv, EdgeTypes

LEMMA CheckInv ==
  ASSUME EdgesInv, NEW t \in Unit, CheckEdges(t)
  PROVE  EdgesInv'
<1>1. DOMAIN pc' = Unit
      /\ \A u \in Unit : pc[u]' = "collect" => edgeCache # {} \/ pc[u] = "collect"
  BY GotoCollecting DEF CheckEdges
<1> QED BY <1>1, OtherStepInv DEF CheckEdges, EdgesInv, EdgeTypes, CacheCovers

(* A new edge is in no vector and in no row, since the cache has all of them. *)
LEMMA AddInv ==
  ASSUME EdgesInv, NEW t \in Unit, AddNextEdge(t)
  PROVE  EdgesInv'
<1> DEFINE e == Head(calls[t]).edge
<1>1. /\ pc[t] = "collect" /\ UNCHANGED <<pc, db>> /\ DOMAIN edges' = Unit
      /\ edgeCache' = edgeCache \cup {e}
      /\ "edges" \in DOMAIN edges[t]'
      /\ Found(t)' = IF e \in edgeCache THEN Found(t) ELSE Append(Found(t), e)
      /\ \A u \in Unit : u # t => edges[u]' = edges[u]
  BY AddedEdge DEF AddNextEdge, EdgesInv, EdgeTypes, Found
<1> HIDE DEF e
<1>2. Rows(db.edges) \subseteq edgeCache
  BY <1>1 DEF EdgesInv, CacheCovers
<1>3. Known \subseteq Known' /\ edgeCache \subseteq edgeCache'
  BY <1>1 DEF Known
<1>4. \A u \in Unit : Rows(Found(u)) \subseteq edgeCache
  BY RowsInSeq DEF EdgesInv, EdgeTypes
<1>5. \A u \in Unit : u # t => Found(u)' = Found(u)
  BY <1>1 DEF Found
<1>6. CASE e \in edgeCache
  <2>1. \A u \in Unit : Found(u)' = Found(u) /\ "edges" \in DOMAIN edges[u]'
    BY <1>1, <1>5, <1>6 DEF EdgesInv, EdgeTypes
  <2>2. EdgeTypes'
    BY <1>1, <1>3, <2>1 DEF EdgesInv, EdgeTypes
  <2>3. CacheCovers'
    BY <1>1, <1>2 DEF CacheCovers
  <2>4. NoneTwice'
    BY <1>1, <2>1 DEF EdgesInv, NoneTwice
  <2> QED BY <2>2, <2>3, <2>4 DEF EdgesInv
<1>7. CASE e \notin edgeCache
  <2>1. /\ Found(t)' \in Seq(edgeCache')
        /\ Rows(Found(t)') = Rows(Found(t)) \cup {e}
        /\ NoRepeat(Found(t)')
    <3>1. Found(t) \in Seq(edgeCache) /\ NoRepeat(Found(t)) /\ e \notin Rows(Found(t))
      BY <1>4, <1>7 DEF EdgesInv, EdgeTypes, NoneTwice
    <3>2. Found(t)' = Append(Found(t), e)
      BY <1>1, <1>7
    <3>3. /\ Append(Found(t), e) \in Seq(edgeCache \cup {e})
          /\ Rows(Append(Found(t), e)) = Rows(Found(t)) \cup {e}
          /\ NoRepeat(Append(Found(t), e))
      BY <3>1, RowsOfLonger
    <3> QED BY <1>1, <3>2, <3>3
  <2>2. \A u \in Unit : "edges" \in DOMAIN edges[u]' /\ Found(u)' \in Seq(edgeCache')
    BY <1>1, <1>3, <1>5, <2>1 DEF EdgesInv, EdgeTypes
  <2>3. EdgeTypes'
    BY <1>1, <1>3, <2>2 DEF EdgesInv, EdgeTypes
  <2>4. CacheCovers'
    BY <1>1, <1>2 DEF CacheCovers
  <2>5. \A u \in Unit : Rows(Found(u)') = Rows(Found(u)) \cup (IF u = t THEN {e} ELSE {})
    BY <1>5, <2>1
  <2>6. \A u \in Unit : NoRepeat(Found(u)')
    BY <1>5, <2>1 DEF EdgesInv, NoneTwice
  <2>7. \A u \in Unit : Rows(Found(u)') \cap Rows(db.edges) = {}
    BY <1>2, <1>7, <2>5 DEF EdgesInv, NoneTwice
  <2>8. \A u, v \in Unit : u # v => Rows(Found(u)') \cap Rows(Found(v)') = {}
    BY <1>4, <1>7, <2>5 DEF EdgesInv, NoneTwice
  <2>9. NoneTwice'
    BY <1>1, <2>6, <2>7, <2>8 DEF EdgesInv, NoneTwice
  <2> QED BY <2>3, <2>4, <2>9 DEF EdgesInv
<1> QED BY <1>6, <1>7

LEMMA StoreInv ==
  ASSUME EdgesInv, NEW t \in Unit, PersistEdges(t)
  PROVE  EdgesInv'
<1>1. /\ edgeCache' = edgeCache /\ DOMAIN edges' = Unit /\ DOMAIN pc' = Unit /\ pc[t] = "collect"
      /\ "edges" \in DOMAIN edges[t]' /\ Found(t)' = <<>>
      /\ \A u \in Unit : u # t => edges[u]' = edges[u]
  BY DEF PersistEdges, Goto, EdgesInv, EdgeTypes, Found, EmptyDb
<1>2. "edges" \in DOMAIN db' /\ db'.edges = db.edges \o Found(t)
  BY EdgesPersisted DEF EdgesInv, EdgeTypes, Found
<1>3. Known' = Known /\ \A u \in Unit : u # t => Found(u)' = Found(u)
  BY <1>1 DEF Known, Found
<1>4. Found(t) \in Seq(Known)
  BY DEF EdgesInv, EdgeTypes, Known
<1>5. /\ db'.edges \in Seq(Known)
      /\ Rows(db'.edges) = Rows(db.edges) \cup Rows(Found(t))
      /\ NoRepeat(db'.edges)
  BY <1>2, <1>4, RowsOfBoth DEF EdgesInv, EdgeTypes, NoneTwice
<1>6. EdgeTypes'
  <2>1. \A u \in Unit : "edges" \in DOMAIN edges[u]'
    BY <1>1 DEF EdgesInv, EdgeTypes
  <2>2. \A u \in Unit : Found(u)' \in Seq(edgeCache)
    <3>1. ASSUME NEW u \in Unit PROVE Found(u)' \in Seq(edgeCache)
      <4>1. CASE u = t
        <5>1. <<>> \in Seq(edgeCache)
          OBVIOUS
        <5> QED BY <1>1, <4>1, <5>1
      <4>2. CASE u # t
        BY <1>3, <4>2 DEF EdgesInv, EdgeTypes
      <4> QED BY <4>1, <4>2
    <3> QED BY <3>1
  <2> QED BY <1>1, <1>2, <1>3, <1>5, <2>1, <2>2 DEF EdgeTypes
<1>7. CacheCovers'
  <2>1. Rows(db.edges) \subseteq edgeCache
    BY <1>1 DEF EdgesInv, CacheCovers
  <2>2. Rows(Found(t)) \subseteq edgeCache
    BY RowsInSeq DEF EdgesInv, EdgeTypes
  <2> QED BY <1>1, <1>5, <2>1, <2>2 DEF CacheCovers
<1>8. Rows(<<>>) = {} /\ NoRepeat(<<>>)
  BY DEF Rows, NoRepeat
<1>9. \A u \in Unit : NoRepeat(Found(u)') /\ Rows(Found(u)') \cap Rows(db'.edges) = {}
  <2>1. ASSUME NEW u \in Unit
        PROVE  NoRepeat(Found(u)') /\ Rows(Found(u)') \cap Rows(db'.edges) = {}
    BY <1>1, <1>3, <1>5, <1>8, <2>1 DEF EdgesInv, NoneTwice
  <2> QED BY <2>1
<1>10. \A u, v \in Unit : u # v => Rows(Found(u)') \cap Rows(Found(v)') = {}
  BY <1>1, <1>3, <1>8 DEF EdgesInv, NoneTwice
<1>11. NoneTwice'
  BY <1>5, <1>9, <1>10 DEF NoneTwice
<1> QED BY <1>6, <1>7, <1>11 DEF EdgesInv

(* The collectors of nodes, of comments and of the preprocessor have other
   vectors than the collector of relations. *)
LEMMA TablesElsewhere ==
  ASSUME NEW t \in Unit, NEW table \in {"edges", "edgeAttributes"}, table \in DOMAIN db,
         PreprocessOne(t) \/ StartVisiting(t) \/ VisitNext(t) \/ PersistAst(t) \/ FinishUnit(t)
  PROVE  table \in DOMAIN db' /\ db'[table] = db[table]
<1>1. CASE PreprocessOne(t) \/ VisitNext(t) \/ StartVisiting(t)
  BY <1>1 DEF PreprocessOne, VisitNext, StartVisiting
<1>2. CASE PersistAst(t)
  <2>1. PICK out : db' = persistAll(db, out, VisitorVectors)
    BY <1>2 DEF PersistAst
  <2>2. table \notin VisitorVectors
    BY DEF VisitorVectors
  <2> QED BY <2>1, <2>2, PersistOthers
<1>3. CASE FinishUnit(t)
  <2>1. PICK rows, out1, out2 :
          db' = persistAll(persistAll([db EXCEPT !.docComments = rows], out1, {"astNodes", "macros", "expansions"}),
                           out2, {"astNodes", "inclusions"})
    BY <1>3 DEF FinishUnit, persistMacros, persistInclusions
  <2> DEFINE documented == [db EXCEPT !.docComments = rows]
             macros == persistAll(documented, out1, {"astNodes", "macros", "expansions"})
  <2>2. table \in DOMAIN documented /\ documented[table] = db[table]
    OBVIOUS
  <2>3. table \notin {"astNodes", "macros", "expansions"} /\ table \notin {"astNodes", "inclusions"}
    OBVIOUS
  <2>4. table \in DOMAIN macros /\ macros[table] = documented[table]
    BY <2>2, <2>3, PersistOthers
  <2> HIDE DEF macros, documented
  <2>5. db' = persistAll(macros, out2, {"astNodes", "inclusions"})
    BY <2>1 DEF macros, documented
  <2> QED BY <2>2, <2>3, <2>4, <2>5, PersistOthers
<1> QED BY <1>1, <1>2, <1>3

LEMMA ElsewhereInv ==
  ASSUME EdgesInv, NEW t \in Unit,
         PreprocessOne(t) \/ StartVisiting(t) \/ VisitNext(t) \/ PersistAst(t) \/ FinishUnit(t)
  PROVE  EdgesInv'
<1>1. UNCHANGED <<edges, edgeCache>>
  BY DEF PreprocessOne, StartVisiting, VisitNext, PersistAst, FinishUnit
<1>2. DOMAIN pc' = Unit /\ \A u \in Unit : pc[u]' = "collect" => pc[u] = "collect"
  <2>1. CASE PreprocessOne(t) \/ VisitNext(t)
    BY <2>1 DEF PreprocessOne, VisitNext, EdgesInv, EdgeTypes
  <2>2. CASE StartVisiting(t)
    BY <2>2, GotoCollecting DEF StartVisiting
  <2>3. CASE PersistAst(t)
    BY <2>3, GotoCollecting DEF PersistAst
  <2>4. CASE FinishUnit(t)
    BY <2>4, GotoCollecting DEF FinishUnit
  <2> QED BY <2>1, <2>2, <2>3, <2>4
<1>3. "edges" \in DOMAIN db' /\ db'.edges = db.edges
  BY TablesElsewhere, Zenon DEF EdgesInv, EdgeTypes
<1> QED BY <1>1, <1>2, <1>3, OtherStepInv DEF EdgesInv, CacheCovers

-----------------------------------------------------------------------------
LEMMA AttributesInit == UnitsInit => AttributesInv
<1> SUFFICES ASSUME UnitsInit PROVE AttributesInv
  OBVIOUS
<1>1. "edgeAttributes" \in DOMAIN db /\ db.edgeAttributes = StoredAttributes /\ db.edges = StoredEdges
  BY DEF UnitsInit, StartDb, EmptyDb
<1>2. \A t \in Unit : /\ "edgeAttributes" \in DOMAIN edges[t]
                      /\ edges[t].edgeAttributes = <<>> /\ Found(t) = <<>>
  BY DEF UnitsInit, EmptyDb, Found
<1>3. AttributesOf(<<>>, <<>>)
  BY DEF AttributesOf, Rows, NoRepeat
<1>4. AttributesOf(StoredAttributes, StoredEdges)
  BY StoredEdgesAssumption DEF AttributesOf
<1> QED BY <1>1, <1>2, <1>3, <1>4 DEF AttributesInv

LEMMA AddAttributesInv ==
  ASSUME UnitsInv, NEW t \in Unit, AddNextEdge(t)
  PROVE  AttributesInv'
<1> DEFINE w == Head(calls[t])
           e == w.edge
           a == [edge |-> e, key |-> "provide", value |-> w.attr]
           attributes == edges[t].edgeAttributes
<1>1. /\ db' = db /\ \A u \in Unit : u # t => edges[u]' = edges[u]
      /\ DOMAIN edges[t]' = DOMAIN edges[t]
      /\ Found(t)' = IF e \in edgeCache THEN Found(t) ELSE Append(Found(t), e)
  BY AddedEdge DEF AddNextEdge, UnitsInv, EdgesInv, EdgeTypes, Found
<1>2. \/ edges[t]'.edgeAttributes = attributes
      \/ e \notin edgeCache /\ edges[t]'.edgeAttributes = Append(attributes, a)
  BY AddedAttribute DEF AddNextEdge, UnitsInv, EdgesInv, EdgeTypes, AttributesInv
<1>3. a.edge = e
  OBVIOUS
<1>4. /\ Found(t) \in Seq(edgeCache) /\ Rows(Found(t)) \subseteq edgeCache
      /\ AttributesOf(attributes, Found(t))
  BY RowsInSeq DEF UnitsInv, EdgesInv, EdgeTypes, AttributesInv
<1> HIDE DEF w, e, a, attributes
<1>5. Rows(Found(t)') = Rows(Found(t)) \cup (IF e \in edgeCache THEN {} ELSE {e})
  <2>1. Rows(Append(Found(t), e)) = Rows(Found(t)) \cup {e}
    BY <1>4, RowsOfLonger
  <2> QED BY <1>1, <2>1
<1>6. AttributesOf(edges[t]'.edgeAttributes, Found(t)')
  <2>1. CASE edges[t]'.edgeAttributes = attributes
    BY <1>4, <1>5, <2>1, AttributesOfLonger
  <2>2. CASE e \notin edgeCache /\ edges[t]'.edgeAttributes = Append(attributes, a)
    BY <1>3, <1>4, <1>5, <2>2, AttributeAdded
  <2> QED BY <1>2, <2>1, <2>2
<1>7. ASSUME NEW u \in Unit
      PROVE  "edgeAttributes" \in DOMAIN edges[u]' /\ AttributesOf(edges[u]'.edgeAttributes, Found(u)')
  <2>1. CASE u = t
    BY <1>1, <1>6, <2>1 DEF UnitsInv, AttributesInv
  <2>2. CASE u # t
    BY <1>1, <2>2 DEF UnitsInv, AttributesInv, Found
  <2> QED BY <2>1, <2>2
<1> QED BY <1>1, <1>7 DEF UnitsInv, AttributesInv

LEMMA StoreAttributesInv ==
  ASSUME UnitsInv, NEW t \in Unit, PersistEdges(t)
  PROVE  AttributesInv'
<1>1. /\ "edgeAttributes" \in DOMAIN edges[t]' /\ edges[t]'.edgeAttributes = <<>> /\ Found(t)' = <<>>
      /\ \A u \in Unit : u # t => edges[u]' = edges[u]
  BY DEF PersistEdges, UnitsInv, EdgesInv, EdgeTypes, Found, EmptyDb
<1>2. db'.edges = db.edges \o Found(t)
  BY EdgesPersisted DEF UnitsInv, EdgesInv, EdgeTypes, Found
<1>3. "edgeAttributes" \in DOMAIN db' /\ db'.edgeAttributes = db.edgeAttributes \o edges[t].edgeAttributes
  BY EdgesPersisted DEF UnitsInv, AttributesInv
<1>4. Rows(db'.edges) = Rows(db.edges) \cup Rows(Found(t))
  <2>1. db.edges \in Seq(Known) /\ Found(t) \in Seq(Known)
    BY DEF UnitsInv, EdgesInv, EdgeTypes, Known
  <2> QED BY <1>2, <2>1, RowsOfBoth
<1>5. AttributesOf(db'.edgeAttributes, db'.edges)
  <2>1. AttributesOf(db.edgeAttributes, db.edges) /\ AttributesOf(edges[t].edgeAttributes, Found(t))
    BY DEF UnitsInv, AttributesInv
  <2>2. Rows(db.edges) \cap Rows(Found(t)) = {}
    BY DEF UnitsInv, EdgesInv, NoneTwice
  <2>3. AttributesOf(db.edgeAttributes \o edges[t].edgeAttributes, db'.edges)
    BY <1>4, <2>1, <2>2, AttributesOfBoth
  <2> QED BY <1>3, <2>3
<1>6. ASSUME NEW u \in Unit
      PROVE  "edgeAttributes" \in DOMAIN edges[u]' /\ AttributesOf(edges[u]'.edgeAttributes, Found(u)')
  <2>1. AttributesOf(<<>>, <<>>)
    BY DEF AttributesOf, Rows, NoRepeat
  <2>2. CASE u = t
    BY <1>1, <2>1, <2>2
  <2>3. CASE u # t
    BY <1>1, <2>3 DEF UnitsInv, AttributesInv, Found
  <2> QED BY <2>2, <2>3
<1> QED BY <1>3, <1>5, <1>6 DEF AttributesInv

(* Every other step leaves both tables and the vectors of the collectors alone. *)
LEMMA OtherAttributesInv ==
  ASSUME UnitsInv, edges' = edges, "edgeAttributes" \in DOMAIN db',
         db'.edges = db.edges, db'.edgeAttributes = db.edgeAttributes
  PROVE  AttributesInv'
BY DEF UnitsInv, AttributesInv, Found

(* However the units interleave, and whatever an earlier parse has left, no edge
   and no attribute is stored twice, and no attribute without its edge. *)
THEOREM EdgesStoredOnce == UnitsSpec => []EdgesOnce
<1>1. UnitsInit => UnitsInv
  BY EdgesInit, AttributesInit DEF UnitsInv
<1>2. UnitsInv /\ [UnitsNext]_unitVars => UnitsInv'
  <2>1. ASSUME UnitsInv, NEW t \in Unit, ParseStep(t) PROVE UnitsInv'
    <3>1. EdgesInv'
      BY <2>1, FillInv, CheckInv, AddInv, StoreInv, ElsewhereInv DEF ParseStep, UnitsInv
    <3>2. CASE AddNextEdge(t)
      BY <2>1, <3>1, <3>2, AddAttributesInv DEF UnitsInv
    <3>3. CASE PersistEdges(t)
      BY <2>1, <3>1, <3>3, StoreAttributesInv DEF UnitsInv
    <3>4. CASE FillEdges(t) \/ CheckEdges(t)
      BY <2>1, <3>1, <3>4, OtherAttributesInv DEF FillEdges, CheckEdges, UnitsInv, AttributesInv
    <3>5. CASE PreprocessOne(t) \/ StartVisiting(t) \/ VisitNext(t) \/ PersistAst(t) \/ FinishUnit(t)
      <4>1. edges' = edges
        BY <3>5 DEF PreprocessOne, StartVisiting, VisitNext, PersistAst, FinishUnit
      <4>2. "edges" \in DOMAIN db /\ "edgeAttributes" \in DOMAIN db
        BY <2>1 DEF UnitsInv, EdgesInv, EdgeTypes, AttributesInv
      <4>3. /\ "edges" \in DOMAIN db' /\ db'.edges = db.edges
            /\ "edgeAttributes" \in DOMAIN db' /\ db'.edgeAttributes = db.edgeAttributes
        BY <3>5, <4>2, TablesElsewhere, Zenon
      <4> QED BY <2>1, <3>1, <4>1, <4>3, OtherAttributesInv DEF UnitsInv
    <3> QED BY <2>1, <3>2, <3>3, <3>4, <3>5 DEF ParseStep
  <2>2. ASSUME UnitsInv, UNCHANGED unitVars PROVE UnitsInv'
    <3>1. EdgesInv'
      BY <2>2, OtherStepInv DEF unitVars, UnitsInv, EdgesInv, EdgeTypes, CacheCovers
    <3> QED BY <2>2, <3>1, OtherAttributesInv DEF unitVars, UnitsInv, AttributesInv
  <2> QED BY <2>1, <2>2 DEF UnitsNext
<1>3. UnitsInv => EdgesOnce
  BY DEF UnitsInv, EdgesInv, NoneTwice, AttributesInv, AttributesOf, EdgesOnce
<1> QED BY <1>1, <1>2, <1>3, PTL DEF UnitsSpec

-----------------------------------------------------------------------------
(* The packets of the metrics *)

(* Division, by what it leaves. *)
LEMMA Divided ==
  ASSUME NEW a \in Nat, NEW n \in Nat \ {0}
  PROVE  a \div n \in Nat /\ n * (a \div n) <= a /\ a < n * (a \div n) + n
OBVIOUS

(* A product of numbers is a number. *)
LEMMA Product ==
  ASSUME NEW a \in Nat, NEW b \in Nat
  PROVE  a * b \in Nat /\ a * b = b * a
OBVIOUS

(* A product grows with its second factor. *)
LEMMA ProductGrows ==
  ASSUME NEW a \in Nat, NEW b \in Nat, NEW c \in Nat, b <= c
  PROVE  a * b <= a * c
OBVIOUS

(* One more in the second factor. *)
LEMMA ProductNext ==
  ASSUME NEW a \in Nat, NEW b \in Nat
  PROVE  a * (b + 1) = a * b + a
OBVIOUS

(* What is n * q at least has q parts of n. *)
LEMMA AtLeast ==
  ASSUME NEW a \in Nat, NEW n \in Nat \ {0}, NEW q \in Nat, n * q <= a
  PROVE  q <= a \div n
<1> DEFINE d == a \div n
<1>1. d \in Nat /\ a < n * d + n
  BY Divided
<1> HIDE DEF d
<1> SUFFICES ASSUME ~(q <= d) PROVE FALSE
  BY DEF d
<1>2. n * (d + 1) <= n * q
  BY <1>1, ProductGrows
<1>3. n * (d + 1) = n * d + n
  BY <1>1, ProductNext
<1>4. n * q \in Nat /\ n * d \in Nat
  BY <1>1, Product
<1> QED BY <1>1, <1>2, <1>3, <1>4

(* What is less than n * q has less than q parts of n. *)
LEMMA LessThan ==
  ASSUME NEW a \in Nat, NEW n \in Nat \ {0}, NEW q \in Nat, a < n * q
  PROVE  a \div n < q
<1> DEFINE d == a \div n
<1>1. d \in Nat /\ n * d <= a
  BY Divided
<1> HIDE DEF d
<1> SUFFICES ASSUME ~(d < q) PROVE FALSE
  BY DEF d
<1>2. n * q <= n * d
  BY <1>1, ProductGrows
<1>3. n * q \in Nat /\ n * d \in Nat
  BY <1>1, Product
<1> QED BY <1>1, <1>2, <1>3

(* next(i): the number of tasks in the first i of n packets of l tasks. *)
Upto(l, n, i) == (l * i) \div n

(* With at most as many packets as tasks, each packet ends behind the one before
   it, the first starts at the first task and the last ends at the last one. *)
LEMMA UptoGrows ==
  ASSUME NEW n \in Nat \ {0}, NEW l \in Nat, n <= l
  PROVE  /\ Upto(l, n, 0) = 0 /\ Upto(l, n, n) = l
         /\ \A i \in 0 .. n : Upto(l, n, i) \in 0 .. l
         /\ \A i \in 1 .. n : Upto(l, n, i - 1) < Upto(l, n, i)
         /\ \A i, j \in 0 .. n : i <= j => Upto(l, n, i) <= Upto(l, n, j)
<1>1. \A i \in Nat : l * i \in Nat /\ l * (i + 1) = l * i + l
  BY Product, ProductNext
<1>2. \A i \in 0 .. n : Upto(l, n, i) \in Nat /\ n * Upto(l, n, i) <= l * i /\ l * i < n * Upto(l, n, i) + n
  BY <1>1, Divided DEF Upto
<1>3. \A i, j \in 0 .. n : i <= j => Upto(l, n, i) <= Upto(l, n, j)
  <2> SUFFICES ASSUME NEW i \in 0 .. n, NEW j \in 0 .. n, i <= j PROVE Upto(l, n, i) <= Upto(l, n, j)
    OBVIOUS
  <2> DEFINE x == Upto(l, n, i)
             p == l * i
             q == l * j
  <2>1. i \in Nat /\ j \in Nat
    OBVIOUS
  <2>2. p <= q /\ p \in Nat /\ q \in Nat
    BY <1>1, <2>1, ProductGrows
  <2>3. x \in Nat /\ n * x <= p
    BY <1>2
  <2> HIDE DEF x, p
  <2>4. n * x \in Nat
    BY <2>3, Product
  <2> HIDE DEF q
  <2>5. n * x <= q
    BY <2>2, <2>3, <2>4
  <2>6. x <= q \div n
    BY <2>2, <2>3, <2>5, AtLeast
  <2> QED BY <2>6 DEF x, q, Upto
<1>4. \A i \in 1 .. n : Upto(l, n, i - 1) < Upto(l, n, i)
  <2> SUFFICES ASSUME NEW i \in 1 .. n PROVE Upto(l, n, i - 1) < Upto(l, n, i)
    OBVIOUS
  <2> DEFINE x == Upto(l, n, i - 1)
  <2>1. i - 1 \in 0 .. n /\ (i - 1) + 1 = i /\ i - 1 \in Nat /\ i \in 0 .. n
    OBVIOUS
  <2>2. x \in Nat /\ n * x <= l * (i - 1)
    BY <1>2, <2>1
  <2>3. l * i = l * (i - 1) + l /\ l * (i - 1) \in Nat
    BY <1>1, <2>1
  <2> HIDE DEF x
  <2>4. n * (x + 1) = n * x + n /\ n * x \in Nat
    BY <2>2, Product, ProductNext
  <2>5. n * (x + 1) <= l * i
    BY <2>2, <2>3, <2>4
  <2>6. l * i \in Nat
    BY <2>3
  <2>7. x + 1 <= Upto(l, n, i)
    BY <2>2, <2>5, <2>6, AtLeast DEF Upto
  <2> QED BY <1>2, <2>1, <2>2, <2>7 DEF x
<1>5. Upto(l, n, 0) = 0
  <2>1. l * 0 = 0 /\ 0 \in 0 .. n
    OBVIOUS
  <2>2. Upto(l, n, 0) < 1
    <3>1. n * 1 = n
      OBVIOUS
    <3> QED BY <2>1, <3>1, LessThan DEF Upto
  <2> QED BY <1>2, <2>1, <2>2
<1>6. Upto(l, n, n) = l
  <2> DEFINE x == Upto(l, n, n)
  <2>1. n \in 0 .. n /\ n \in Nat /\ l * n = n * l /\ l * n \in Nat
    BY Product
  <2>2. l <= x
    BY <2>1, AtLeast DEF Upto
  <2>3. x < l + 1
    <3>1. n * (l + 1) = n * l + n
      BY ProductNext
    <3>2. l * n < n * (l + 1)
      BY <2>1, <3>1
    <3> QED BY <2>1, <3>2, LessThan DEF Upto
  <2>4. x \in Nat
    BY <1>2, <2>1
  <2> HIDE DEF x
  <2>5. x = l
    BY <2>2, <2>3, <2>4
  <2> QED BY <2>5 DEF x
<1>7. \A i \in 0 .. n : Upto(l, n, i) \in 0 .. l
  <2>1. \A i \in 0 .. n : Upto(l, n, i) <= Upto(l, n, n)
    BY <1>3
  <2> QED BY <1>2, <1>6, <2>1
<1> QED BY <1>3, <1>4, <1>5, <1>6, <1>7

(* The packet of the task at k. *)
LEMMA PacketOf ==
  ASSUME NEW n \in Nat \ {0}, NEW l \in Nat, n <= l, NEW k \in 1 .. l
  PROVE  \E i \in 1 .. n : Upto(l, n, i - 1) < k /\ k <= Upto(l, n, i)
<1> DEFINE p == n * k
           b == p - 1
           i == b \div l + 1
<1>1. p \in Nat /\ p <= n * l /\ n <= p /\ n * l = l * n /\ n * l \in Nat
  <2>1. n * k <= n * l
    BY ProductGrows
  <2>2. n * 1 <= n * k /\ n * 1 = n
    BY ProductGrows
  <2> QED BY <2>1, <2>2, Product
<1> HIDE DEF p
<1>2. b \in Nat /\ b + 1 = p
  BY <1>1
<1> HIDE DEF b
<1> DEFINE d == b \div l
<1>3. d \in Nat /\ l * d <= b /\ b < l * d + l
  BY <1>2, Divided
<1>4. d < n
  <2>1. b < l * n
    BY <1>1, <1>2
  <2> QED BY <1>2, <2>1, LessThan
<1> HIDE DEF d
<1>5. l * d \in Nat /\ l * (d + 1) = l * d + l
  BY <1>3, Product, ProductNext
<1>6. Upto(l, n, d) < k
  <2>1. l * d < n * k
    BY <1>2, <1>3, <1>5 DEF p
  <2> QED BY <1>5, <2>1, LessThan DEF Upto
<1>7. k <= Upto(l, n, d + 1)
  <2>1. n * k <= l * (d + 1)
    BY <1>2, <1>3, <1>5 DEF p
  <2>2. l * (d + 1) \in Nat
    BY <1>5
  <2> QED BY <2>1, <2>2, AtLeast DEF Upto
<1>8. d + 1 \in 1 .. n /\ (d + 1) - 1 = d
  BY <1>3, <1>4
<1> QED BY <1>6, <1>7, <1>8

(* How parallelCalcMetric cuts. *)
Part(tasks, n, i) == SubSeq(tasks, Upto(Len(tasks), n, i - 1) + 1, Upto(Len(tasks), n, i))

(* Where there are tasks, n packets of consecutive tasks, n at most their number. *)
LEMMA CutIs ==
  ASSUME NEW S, NEW tasks \in Seq(S), tasks # <<>>
  PROVE  \E n \in Nat \ {0} :
           /\ n <= Len(tasks)
           /\ Cut(tasks) = {[number |-> i, tasks |-> Part(tasks, n, i)] : i \in 1 .. n}
<1> DEFINE n == Min({Partitions, Len(tasks)})
<1>1. Len(tasks) \in Nat \ {0}
  OBVIOUS
<1>2. n \in Nat \ {0} /\ n <= Len(tasks)
  <2>1. \E x \in {Partitions, Len(tasks)} : \A y \in {Partitions, Len(tasks)} : x <= y
    BY <1>1, PartitionsAssumption
  <2>2. n \in {Partitions, Len(tasks)} /\ \A y \in {Partitions, Len(tasks)} : n <= y
    BY <2>1 DEF Min
  <2> QED BY <1>1, <2>2, PartitionsAssumption
<1>3. Cut(tasks) = {[number |-> i, tasks |-> Part(tasks, n, i)] : i \in 1 .. n}
  BY DEF Cut, Part, Upto
<1> HIDE DEF n
<1> QED BY <1>2, <1>3

(* What is between two places of a list. *)
LEMMA RowsOfPart ==
  ASSUME NEW S, NEW tasks \in Seq(S), NEW a \in 0 .. Len(tasks), NEW b \in 0 .. Len(tasks), a < b
  PROVE  /\ SubSeq(tasks, a + 1, b) \in Seq(S) \ {<<>>}
         /\ Rows(SubSeq(tasks, a + 1, b)) = {tasks[k] : k \in a + 1 .. b}
<1> DEFINE s == SubSeq(tasks, a + 1, b)
<1>1. s \in Seq(S) /\ Len(s) = b - a /\ \A i \in 1 .. b - a : s[i] = tasks[a + i]
  OBVIOUS
<1>2. DOMAIN s = 1 .. b - a
  BY <1>1
<1> HIDE DEF s
<1>3. Rows(s) = {tasks[k] : k \in a + 1 .. b}
  <2>1. ASSUME NEW x \in Rows(s) PROVE \E k \in a + 1 .. b : x = tasks[k]
    <3>1. PICK i \in 1 .. b - a : x = s[i]
      BY <1>2, <2>1 DEF Rows
    <3>2. a + i \in a + 1 .. b /\ x = tasks[a + i]
      BY <1>1, <3>1
    <3> QED BY <3>2
  <2>2. ASSUME NEW k \in a + 1 .. b PROVE tasks[k] \in Rows(s)
    <3>1. k - a \in 1 .. b - a /\ a + (k - a) = k
      OBVIOUS
    <3>2. tasks[k] = s[k - a]
      BY <1>1, <3>1
    <3> QED BY <1>2, <3>1, <3>2 DEF Rows
  <2> QED BY <2>1, <2>2
<1>4. s # <<>>
  BY <1>1
<1> QED BY <1>1, <1>3, <1>4 DEF s

(* The packets of parallelCalcMetric (cppmetricsparser.h, "Ensure that all workers
   receive at least one task"), for any number of tasks and of partitions: no
   packet is empty, together they have every task, and if no task is listed twice,
   no two packets share one.  The integer division forgets no rest. *)
THEOREM PacketsPartition ==
  ASSUME NEW S, NEW tasks \in Seq(S)
  PROVE  /\ \A p \in Cut(tasks) : p.tasks \in Seq(S) \ {<<>>}
         /\ UNION {Rows(p.tasks) : p \in Cut(tasks)} = Rows(tasks)
         /\ NoRepeat(tasks) =>
              \A p, q \in Cut(tasks) : p # q => Rows(p.tasks) \cap Rows(q.tasks) = {}
<1>1. CASE tasks = <<>>
  <2>1. Len(tasks) = 0
    BY <1>1
  <2>2. Min({Partitions, 0}) = 0
    <3>1. 0 \in {Partitions, 0} /\ \A y \in {Partitions, 0} : 0 <= y
      BY PartitionsAssumption
    <3>2. \A x \in {Partitions, 0} : (\A y \in {Partitions, 0} : x <= y) => x = 0
      BY PartitionsAssumption
    <3> QED BY <3>1, <3>2 DEF Min
  <2>3. 1 .. 0 = {}
    OBVIOUS
  <2>4. Cut(tasks) = {}
    BY <2>1, <2>2, <2>3 DEF Cut
  <2>5. Rows(tasks) = {}
    BY <1>1 DEF Rows
  <2> QED BY <2>4, <2>5, Zenon
<1>2. CASE tasks # <<>>
  <2> DEFINE l == Len(tasks)
  <2>1. PICK n \in Nat \ {0} :
          /\ n <= l
          /\ Cut(tasks) = {[number |-> i, tasks |-> Part(tasks, n, i)] : i \in 1 .. n}
    BY <1>2, CutIs
  <2>2. l \in Nat /\ DOMAIN tasks = 1 .. l
    OBVIOUS
  <2>3. /\ \A i \in 0 .. n : Upto(l, n, i) \in 0 .. l
        /\ \A i \in 1 .. n : Upto(l, n, i - 1) < Upto(l, n, i)
        /\ \A i, j \in 0 .. n : i <= j => Upto(l, n, i) <= Upto(l, n, j)
    BY <2>1, <2>2, UptoGrows
  <2>4. ASSUME NEW i \in 1 .. n
        PROVE  /\ Part(tasks, n, i) \in Seq(S) \ {<<>>}
               /\ Rows(Part(tasks, n, i)) = {tasks[k] : k \in Upto(l, n, i - 1) + 1 .. Upto(l, n, i)}
    <3>1. i - 1 \in 0 .. n /\ i \in 0 .. n
      OBVIOUS
    <3> DEFINE a == Upto(l, n, i - 1)
               b == Upto(l, n, i)
    <3>2. a \in 0 .. l /\ b \in 0 .. l /\ a < b
      BY <2>3, <3>1
    <3>3. Part(tasks, n, i) = SubSeq(tasks, a + 1, b)
      BY DEF Part
    <3> HIDE DEF a, b
    <3>4. /\ SubSeq(tasks, a + 1, b) \in Seq(S) \ {<<>>}
          /\ Rows(SubSeq(tasks, a + 1, b)) = {tasks[k] : k \in a + 1 .. b}
      BY <3>2, RowsOfPart
    <3> QED BY <3>3, <3>4, Zenon DEF a, b
  <2> HIDE DEF l
  <2>5. \A p \in Cut(tasks) : p.tasks \in Seq(S) \ {<<>>}
    BY <2>1, <2>4
  <2>6. UNION {Rows(p.tasks) : p \in Cut(tasks)} = Rows(tasks)
    <3>1. ASSUME NEW p \in Cut(tasks), NEW x \in Rows(p.tasks) PROVE x \in Rows(tasks)
      <4>1. PICK i \in 1 .. n : p = [number |-> i, tasks |-> Part(tasks, n, i)]
        BY <2>1
      <4>2. i - 1 \in 0 .. n /\ i \in 0 .. n
        OBVIOUS
      <4>3. Upto(l, n, i - 1) \in 0 .. l /\ Upto(l, n, i) \in 0 .. l
        BY <2>3, <4>2
      <4>4. x \in Rows(Part(tasks, n, i))
        BY <3>1, <4>1
      <4>5. PICK k \in Upto(l, n, i - 1) + 1 .. Upto(l, n, i) : x = tasks[k]
        BY <2>4, <4>4, Zenon
      <4>6. k \in 1 .. l
        BY <2>2, <4>3
      <4> QED BY <2>2, <4>5, <4>6 DEF Rows
    <3>2. ASSUME NEW x \in Rows(tasks) PROVE \E p \in Cut(tasks) : x \in Rows(p.tasks)
      <4>1. PICK k \in 1 .. l : x = tasks[k]
        BY <2>2, <3>2 DEF Rows
      <4>2. PICK i \in 1 .. n : Upto(l, n, i - 1) < k /\ k <= Upto(l, n, i)
        BY <2>1, <2>2, <4>1, PacketOf
      <4>3. k \in Upto(l, n, i - 1) + 1 .. Upto(l, n, i)
        <5>1. i - 1 \in 0 .. n /\ i \in 0 .. n
          OBVIOUS
        <5>2. Upto(l, n, i - 1) \in 0 .. l /\ Upto(l, n, i) \in 0 .. l
          BY <2>3, <5>1
        <5> QED BY <2>2, <4>2, <5>2
      <4>4. x \in Rows(Part(tasks, n, i))
        BY <2>4, <4>1, <4>3, Zenon
      <4> DEFINE p == [number |-> i, tasks |-> Part(tasks, n, i)]
      <4>5. p \in Cut(tasks) /\ p.tasks = Part(tasks, n, i)
        BY <2>1
      <4> QED BY <4>4, <4>5
    <3> QED BY <3>1, <3>2, Zenon
  <2>7. ASSUME NoRepeat(tasks), NEW p \in Cut(tasks), NEW q \in Cut(tasks), p # q,
               NEW x \in Rows(p.tasks) \cap Rows(q.tasks)
        PROVE  FALSE
    <3>1. PICK i \in 1 .. n : p = [number |-> i, tasks |-> Part(tasks, n, i)]
      BY <2>1
    <3>2. PICK j \in 1 .. n : q = [number |-> j, tasks |-> Part(tasks, n, j)]
      BY <2>1
    <3>3. i # j
      BY <2>7, <3>1, <3>2
    <3>4. x \in Rows(Part(tasks, n, i)) /\ x \in Rows(Part(tasks, n, j))
      BY <3>1, <3>2
    <3>5. PICK k \in Upto(l, n, i - 1) + 1 .. Upto(l, n, i) : x = tasks[k]
      BY <2>4, <3>4, Zenon
    <3>6. PICK m \in Upto(l, n, j - 1) + 1 .. Upto(l, n, j) : x = tasks[m]
      BY <2>4, <3>4, Zenon
    <3>7. i - 1 \in 0 .. n /\ i \in 0 .. n /\ j - 1 \in 0 .. n /\ j \in 0 .. n
      OBVIOUS
    <3>8. /\ Upto(l, n, i - 1) \in 0 .. l /\ Upto(l, n, i) \in 0 .. l
          /\ Upto(l, n, j - 1) \in 0 .. l /\ Upto(l, n, j) \in 0 .. l
      BY <2>3, <3>7
    <3>9. k \in 1 .. l /\ m \in 1 .. l
      BY <2>2, <3>8
    <3>10. k = m
      BY <2>2, <2>7, <3>5, <3>6, <3>9 DEF NoRepeat
    <3>11. i <= j - 1 => Upto(l, n, i) <= Upto(l, n, j - 1)
      BY <2>3, <3>7
    <3>12. j <= i - 1 => Upto(l, n, j) <= Upto(l, n, i - 1)
      BY <2>3, <3>7
    <3>13. i <= j - 1 \/ j <= i - 1
      BY <3>3
    <3> QED BY <3>8, <3>10, <3>11, <3>12, <3>13
  <2> QED BY <2>5, <2>6, <2>7
<1> QED BY <1>1, <1>2
===============================================================================
