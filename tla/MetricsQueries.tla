--------------------------- MODULE MetricsQueries -----------------------------
(* CppMetricsServiceHandler and MetricsServiceHandler: what the two metrics
   services read.  A request for a path is about every file whose path begins
   with it.  A map that is keyed by nodes, and lists under each of them, is a
   function here. *)
EXTENDS CppMetrics, LineCounts

CONSTANT Content  \* the content of each file

Strip(row) == [type |-> row.type, value |-> row.value]

getCppMetricsForAstNode(a) == {row \in metrics : row.astNodeId = a}

(* InvalidInput is thrown if no row is there: the empty answer. *)
getSingleCppMetricForAstNode(a, type) ==
  LET rows == {row \in metrics : row.astNodeId = a /\ row.type = type}
  IN IF rows = {} THEN {} ELSE {(CHOOSE row \in rows : TRUE).value}

(* Only files that lie in the directory itself. *)
ForPathOfDirectory(path) ==
  {row \in metrics : LET f == Path[row.astNodeId.file] IN path = SubSeq(f, 1, Len(f) - 2)}

(* The rows of the view for a path. *)
ForPath(path) == {row \in metrics : Like(path, row.astNodeId.file)}

getCppAstNodeMetricsForPath(path) ==
  [a \in {row.astNodeId : row \in ForPath(path)} |-> {row \in ForPath(path) : row.astNodeId = a}]

(* The row that comes first makes the entry of its node, with the data of the
   node; its own metric goes into a map that is thrown away. *)
getCppAstNodeMetricsDetailedForPath(path) ==
  LET listed == getCppAstNodeMetricsForPath(path)
      Later(a) == listed[a] \ {CHOOSE row \in listed[a] : TRUE}
  IN [a \in DOMAIN listed |->
        [file |-> a.file, start |-> Line(a.range.start), end |-> Line(a.range.end),
         symbolType |-> a.symbolType, astType |-> a.astType,
         metrics |-> {Strip(row) : row \in Later(a)}]]

FileType(f, typed) == IF f \in typed THEN "CPP" ELSE "Unknown"

(* The rows that the jobs of the metrics parser leave, one job per file; typed
   are the files whose type is "CPP". *)
LocRows(typed) ==
  UNION {persistLoc(f, getLocFromFile(FileType(f, typed), Content[f])) : f \in File}

(* The leaves of the tree that is written, with their numbers. *)
getMetricsFromDir(path, type, fileTypeFilter, typed) ==
  {[path |-> Path[row.file], metric |-> row.metric] : row \in {r \in LocRows(typed) :
     /\ FileType(r.file, typed) \in fileTypeFilter /\ Like(path, r.file) /\ r.type = type}}
=============================================================================
