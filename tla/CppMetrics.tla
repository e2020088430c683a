----------------------------- MODULE CppMetrics ------------------------------
(* CppMetricsParser::parse: five metrics, one after the other, from the tables
   that the C++ parser has filled.  Four of them cut their tasks into packets
   for a pool of workers and wait for the pool; a packet is one transaction.
   typeMcCabe runs in the parser's own thread and reads what functionMcCabe has
   stored.

   Values are fractions.  The trees that are walked here have no templates, so
   the test for template instantiations is left out. *)
EXTENDS CppModel, SequencesExt, FiniteSetsExt

CONSTANTS Path,       \* the path of each file and directory, a sequence of symbols
          InputPaths, \* the canonical paths of the inputs
          Partitions, \* the number of packets: threads times the multiplier
          LineLength  \* positions per source line

ASSUME PartitionsAssumption == Partitions \in Nat \ {0} /\ LineLength \in Nat \ {0}

VARIABLES stage,   \* the number of metrics that were started
          packets, \* the packets of the last one that are not stored yet
          metrics  \* the rows of CppAstNodeMetrics

metricVars == <<stage, packets, metrics>>

(* A path with '%' behind it, in a LIKE, and path_.rfind(path, 0): both match
   whatever begins with the same symbols. *)
Like(path, f) == IsPrefix(path, Path[f])

isRootedUnderAnyOf(f) == \E path \in InputPaths : Like(path, f)

Measured(table) == SelectSeq(db[table], LAMBDA r : isRootedUnderAnyOf(r.astNodeId.file))

Fraction(num, den) == [num |-> num, den |-> den]
NaN == Fraction(0, 0)

Metric(node, type, value) == [astNodeId |-> node, type |-> type, value |-> value]

-----------------------------------------------------------------------------
(* The metrics of one task. *)

(* Rows of the view are grouped by the node of the function. *)
ParameterTasks == SetToSeq({r.astNodeId : r \in Rows(Measured("functions"))})

ParameterCount(a) ==
  LET rows == {k \in DOMAIN db.functions : db.functions[k].astNodeId = a}
      Count(k) == Len(db.functions[k].parameters)
  IN {Metric(a, "PARAMETER_COUNT", Fraction(MapThenSumSet(Count, rows), 1))}

McCabe(f) == {Metric(f.astNodeId, "MCCABE_FUNCTION", Fraction(f.mccabe, 1))}

BumpyRoad(f) ==
  {Metric(f.astNodeId, "BUMPY_ROAD", IF f.statementCount = 0 THEN Fraction(1, 1)
                                     ELSE Fraction(f.bumpiness, f.statementCount))}

TypeMembers(type, kind) ==
  {k \in DOMAIN db.members : db.members[k].typeHash = type.entityHash /\ db.members[k].kind = kind}

Fields(type) == {db.members[k].memberAstNode.entityHash : k \in TypeMembers(type, "Field")}

Line(position) == position \div LineLength

(* The fields that are read or written on the lines of a method: the conditions
   on the columns stand behind an OR of a weaker condition on the line. *)
UsedFields(type, method) ==
  {a.entityHash : a \in {n \in db.astNodes :
     /\ n.astType \in {"Read", "Write"} /\ n.file = method.file
     /\ Line(n.range.start) >= Line(method.range.start)
     /\ Line(n.range.end) <= Line(method.range.end)}} \cap Fields(type)

(* The methods that are looked at: declarations have an extent too. *)
CohesionMethods(type) ==
  {k \in TypeMembers(type, "Method") :
     LET range == db.members[k].memberAstNode.range IN range.start < range.end}

(* The unused pairs of a method and a field, over the methods but one. *)
HendersonSellers(fields, methods, unused) ==
  CASE fields = 0 \/ methods = 0 -> Fraction(0, 1)
    [] methods = 1                -> NaN
    [] OTHER                      -> Fraction(unused, fields * (methods - 1))

StandardLack(fields, methods, unused) ==
  IF fields = 0 \/ methods = 0 THEN Fraction(0, 1) ELSE Fraction(unused, methods * fields)

LackOfCohesion(type) ==
  LET fields  == Cardinality(Fields(type))
      methods == Cardinality(CohesionMethods(type))
      Used(k) == Cardinality(UsedFields(type, db.members[k].memberAstNode))
      unused  == methods * fields - MapThenSumSet(Used, CohesionMethods(type))
  IN {Metric(type.astNodeId, "LACK_OF_COHESION", StandardLack(fields, methods, unused)),
      Metric(type.astNodeId, "LACK_OF_COHESION_HS", HendersonSellers(fields, methods, unused))}

-----------------------------------------------------------------------------
(* typeMcCabe *)

(* One of the definitions of a method, and none of the compiler's. *)
MethodDefinition(method) ==
  LET defs == {a \in db.astNodes : /\ a.entityHash = method.entityHash
                                   /\ a.symbolType = "Function" /\ a.astType = "Definition"}
      def  == CHOOSE a \in defs : TRUE
  IN IF defs = {} \/ \E f \in Rows(db.functions) : f.astNodeId = def /\ "Implicit" \in f.tags
     THEN {} ELSE {def}

McCabeOf(def) ==
  MapThenSumSet(LAMBDA row : row.value.num,
    {row \in metrics : row.astNodeId = def /\ row.type = "MCCABE_FUNCTION"})

TypeMcCabe(type) ==
  LET OfMember(k) ==
        MapThenSumSet(McCabeOf, MethodDefinition(db.members[k].memberAstNode))
  IN Metric(type, "MCCABE_TYPE", Fraction(MapThenSumSet(OfMember, TypeMembers(type, "Method")), 1))

typeMcCabe ==
  {TypeMcCabe(type) : type \in {a \in db.astNodes :
     a.symbolType = "Type" /\ a.astType = "Definition" /\ isRootedUnderAnyOf(a.file)}}

-----------------------------------------------------------------------------
(* parallelCalcMetric *)

(* Packets of the same size: the rest of the tasks is forgotten. *)
CutEvenly(tasks) ==
  LET n    == Min({Partitions, Len(tasks)})
      size == Len(tasks) \div n
  IN {[number |-> i, tasks |-> SubSeq(tasks, size * (i - 1) + 1, size * i)] : i \in 1 .. n}

(* As many packets as there are partitions, or tasks if these are fewer. *)
Cut(tasks) ==
  LET n       == Min({Partitions, Len(tasks)})
      next(i) == (Len(tasks) * i) \div n
  IN {[number |-> i, tasks |-> SubSeq(tasks, next(i - 1) + 1, next(i))] : i \in 1 .. n}

Tasks(s) ==
  CASE s = 1        -> ParameterTasks
    [] s \in {2, 3} -> Measured("functions")
    [] s = 5        -> Measured("types")
    [] OTHER        -> <<>>

RowsOfTask(s, task) ==
  CASE s = 1 -> ParameterCount(task)
    [] s = 2 -> McCabe(task)
    [] s = 3 -> BumpyRoad(task)
    [] s = 5 -> LackOfCohesion(task)

(* A row has an id of its own: here, the packet that stored it. *)
Persist(rows, packet) == metrics \cup {row @@ [id |-> packet] : row \in rows}

(* functionMcCabe and bumpyRoad return while their packets are still run. *)
PoolForgotten == stage \in {2, 3} \/ packets = {}

(* What pool->wait() waits for. *)
PoolDone == packets = {}

(* The call of the next of the five functions, when the last has returned. *)
StartMetric ==
  /\ stage < 5 /\ PoolDone
  /\ stage' = stage + 1
  /\ packets' = packets \cup {p @@ [stage |-> stage'] : p \in Cut(Tasks(stage'))}
  /\ metrics' = IF stage' = 4 THEN Persist(typeMcCabe, 0) ELSE metrics

RunPacket ==
  \E p \in packets :
    /\ packets' = packets \ {p}
    /\ metrics' = Persist(UNION {RowsOfTask(p.stage, task) : task \in Rows(p.tasks)}, p.number)
    /\ UNCHANGED stage

MetricsInit == stage = 0 /\ packets = {} /\ metrics = {}

MetricsStep == StartMetric \/ RunPacket

MetricsDone == stage = 5 /\ packets = {}
=============================================================================
