----------------------------- MODULE FileDiagrams -----------------------------
(* FileDiagram: diagrams of files and directories, drawn from the edges that
   the relation collectors left and from the build actions. *)
EXTENDS CppQueries, BuildActions, DiagramGraph, SequencesExt

CONSTANTS Directory,  \* the directories
          Parent      \* the directory of each file and directory, NoFile at the top

IsDirectory(f) == f \in Directory

FilesIn(d) == {f \in File : Parent[f] = d}

(* A file is a C++ file once the parser has marked it; see cppTyped. *)
getFileDiagramTypes(f, cppFiles) ==
  CASE IsDirectory(f) -> {"SUBSYSTEM_DEPENDENCY", "EXTERNAL_DEPENDENCY", "EXTERNAL_USERS"}
    [] f \in cppFiles -> {"INCLUDE_DEPENDENCY", "COMPONENT_USERS", "INTERFACE"}
    [] OTHER          -> {}

-----------------------------------------------------------------------------
(* Relations of files: each lists the related ones of a file. *)

(* Rows that come in no order. *)
Unordered(S) == SetToSeq(S)

EdgeFiles(f, type, reverse) ==
  LET rows == SelectSeq(db.edges, LAMBDA e : /\ e.type = type
                                             /\ f = IF reverse THEN e.to ELSE e.from)
  IN [k \in DOMAIN rows |-> IF reverse THEN rows[k].from ELSE rows[k].to]

getProvidedFileIds(f, reverse) == EdgeFiles(f, "PROVIDE", reverse)
getUsedFileIds(f, reverse)     == EdgeFiles(f, "USE", reverse)

getIncludedFiles(f, reverse) ==
  LET rows == SelectSeq(db.inclusions, LAMBDA r : f = IF reverse THEN r.included ELSE r.includer)
  IN [k \in DOMAIN rows |-> IF reverse THEN rows[k].includer ELSE rows[k].included]

getContains(f)    == Unordered(UNION {b.sources : b \in {c \in Builds : f \in c.targets}})
getRevContains(f) == Unordered(UNION {b.targets : b \in {c \in Builds : f \in c.sources}})

getSubDirs(d) == Unordered({s \in Directory : Parent[s] = d})

(* The directories of the files that the files of a directory are related to. *)
RelatedDirs(d, related) == Unordered({Parent[f] : f \in related} \ {d})

getImplementedFiles(d, reverse) ==
  RelatedDirs(d, UNION {Range(getProvidedFileIds(f, reverse)) : f \in FilesIn(d)})
getDependFiles(d, reverse) ==
  RelatedDirs(d, UNION {Range(getUsedFileIds(f, reverse)) : f \in FilesIn(d)})

(* The relations as bfsBuild takes them. *)
Provides       == [f \in File |-> getProvidedFileIds(f, FALSE)]
RevProvides    == [f \in File |-> getProvidedFileIds(f, TRUE)]
Usages         == [f \in File |-> getUsedFileIds(f, FALSE)]
RevUsages      == [f \in File |-> getUsedFileIds(f, TRUE)]
ContainsFiles  == [f \in File |-> getContains(f)]
RevContains    == [f \in File |-> getRevContains(f)]
SubDirs        == [d \in Directory |-> getSubDirs(d)]
RevImplements  == [d \in Directory |-> getImplementedFiles(d, TRUE)]
RevDepends     == [d \in Directory |-> getDependFiles(d, TRUE)]

-----------------------------------------------------------------------------
(* The diagrams. *)

Center(f) == getOrCreateNode(EmptyGraph, f)

(* A search from every one of a set of nodes, into the same graph. *)
FromAll(g, nodes, related, label) ==
  InTurn(LAMBDA acc, n : bfsBuild(acc, n, related, label, -1).graph, g, SetToSeq(nodes))

getComponentUsersDiagram(f) ==
  LET provided == bfsBuild(Center(f), f, Provides, "provides", 1)
      users    == UNION {bfsBuild(EmptyGraph, p, RevUsages, "used by", -1).seen :
                           p \in provided.seen}
      withUsers == FromAll(provided.graph, provided.seen, RevUsages, "used by")
  IN FromAll(withUsers, provided.seen \cup users, RevContains, "contained by")

(* Searches one after the other from the same file. *)
Searches(f, steps, limit) ==
  InTurn(LAMBDA g, s : bfsBuild(g, f, s[1], s[2], limit).graph, Center(f), steps)

getIncludeDependencyDiagram(f) ==
  Searches(f, <<<<Usages, "uses">>, <<RevUsages, "used by">>, <<Provides, "uses">>,
                <<RevProvides, "used by">>>>, 3)

getInterfaceDiagram(f) ==
  Searches(f, <<<<Provides, "provides">>, <<ContainsFiles, "contains">>, <<Usages, "uses">>,
                <<RevProvides, "provided by">>, <<RevContains, "contained by">>,
                <<RevUsages, "used by">>>>, 1)

(* The directory and the ones below it; the search does not return its start. *)
SubDirSearch(d) == bfsBuild(Center(d), d, SubDirs, "subdir", -1)

(* Also what is inside the module is drawn as external. *)
AddExternalAll(g, d, dirs, inside, label) ==
  InTurn(LAMBDA acc, n : createEdge(getOrCreateNode(acc, n), d, n, label), g, dirs)

(* The node is added, the edge is not. *)
AddExternalLoose(g, d, dirs, inside, label) ==
  InTurn(LAMBDA acc, n : IF n \in inside THEN acc ELSE getOrCreateNode(acc, n), g, dirs)

(* Adds what a directory is related to: nodes outside the module for the one
   diagram, edges inside it for the other. *)
AddExternal(g, d, dirs, inside, label) ==
  InTurn(LAMBDA acc, n : IF n \in inside THEN acc
                         ELSE createEdge(getOrCreateNode(acc, n), d, n, label), g, dirs)

AddInternal(g, d, dirs, inside, label) ==
  InTurn(LAMBDA acc, n : IF n \in inside THEN createEdge(acc, d, n, label)
                         ELSE delNode(getOrCreateNode(acc, n), n), g, dirs)

getExternalDependencyDiagram(d) ==
  LET search == SubDirSearch(d)
      inside == search.seen \cup {d}
  IN InTurn(LAMBDA g, s :
              AddExternal(AddExternal(g, s, getImplementedFiles(s, FALSE), inside, "implements"),
                          s, getDependFiles(s, FALSE), inside, "depends on"),
            search.graph, SetToSeq(inside))

getSubsystemDependencyDiagram(d) ==
  LET search == SubDirSearch(d)
      inside == search.seen \cup {d}
  IN InTurn(LAMBDA g, s :
              AddInternal(AddInternal(g, s, getImplementedFiles(s, FALSE), inside, "implements"),
                          s, getDependFiles(s, FALSE), inside, "depends on"),
            search.graph, SetToSeq(inside))

(* The users of the directories below the module, and of their users. *)
getExternalUsersDiagram(d) ==
  LET search == SubDirSearch(d)
  IN InTurn(LAMBDA g, s :
              bfsBuild(bfsBuild(g, s, RevImplements, "implemented by", -1).graph,
                       s, RevDepends, "dependent on", -1).graph,
            search.graph, SetToSeq(search.seen))

returnFileDiagram(f, kind) ==
  CASE kind = "COMPONENT_USERS"      -> getComponentUsersDiagram(f)
    [] kind = "EXTERNAL_DEPENDENCY"  -> getExternalDependencyDiagram(f)
    [] kind = "EXTERNAL_USERS"       -> getExternalUsersDiagram(f)
    [] kind = "INCLUDE_DEPENDENCY"   -> getIncludeDependencyDiagram(f)
    [] kind = "INTERFACE"            -> getInterfaceDiagram(f)
    [] kind = "SUBSYSTEM_DEPENDENCY" -> getSubsystemDependencyDiagram(f)
    [] OTHER                         -> EmptyGraph
=============================================================================
