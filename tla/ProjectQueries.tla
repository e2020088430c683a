--------------------------- MODULE ProjectQueries -----------------------------
(* ProjectServiceHandler: the tree of files as the browser walks it.  A row is
   looked up by its identifier, by its path or by its parent, and the three have
   to lead to the same places.  Parse statuses, build messages, statistics and
   labels are left out. *)
EXTENDS FileDiagrams, MetricsQueries

CONSTANT NamePlace  \* the place of each file name in the order of strings

FileRow == File \cup Directory

(* boost::filesystem::path::filename: what is behind the last separator; the
   name of the root directory is the separator. *)
FileName(path) ==
  LET cut == Max({0} \cup {k \in DOMAIN path : path[k] = "/"})
  IN IF Len(path) = cut THEN path ELSE SubSeq(path, cut + 1, Len(path))

makeFileInfo(f) ==
  [id |-> f, name |-> FileName(Path[f]), path |-> Path[f],
   isDirectory |-> IsDirectory(f), parent |-> Parent[f]]

(* Answers are lists: the empty one stands for InvalidId and InvalidInput. *)
getFileInfo(id) == IF id \in FileRow THEN <<makeFileInfo(id)>> ELSE <<>>

getFileInfoByPath(path) == Unordered({makeFileInfo(f) : f \in {g \in FileRow : Path[g] = path}})

(* Only files that were read as text have a content. *)
getFileContent(id) == IF id \in File THEN Content[id] ELSE <<>>

getParent(id) == getFileInfo(Parent[id])

fileInfoOrder(left, right) ==
  IF left.isDirectory = right.isDirectory
  THEN NamePlace[left.name] < NamePlace[right.name]
  ELSE left.isDirectory

FilesUnder(id) ==
  SetToSortSeq({makeFileInfo(f) : f \in {g \in FileRow : Parent[g] = id}}, fileInfoOrder)

getRootFiles      == FilesUnder(NoFile)
getChildFiles(id) == FilesUnder(id)

(* Every child, and behind a directory its own subtree. *)
getSubtree(id) ==
  LET Entry(child, below) == IF child.isDirectory THEN <<child>> \o below ELSE <<child>>
      subtree[d \in FileRow] ==
        LET children == getChildFiles(d)
        IN FlattenSeq([k \in DOMAIN children |-> Entry(children[k], subtree[children[k].id])])
  IN subtree[id]

(* strtok: the parts of a path that are not empty. *)
PathParts(path) ==
  LET Part(k) == LET ends == {j \in k .. Len(path) : path[j] = "/"}
                 IN SubSeq(path, k, Min({Len(path) + 1} \cup ends) - 1)
      starts == {k \in DOMAIN path : path[k] # "/" /\ (k = 1 \/ path[k - 1] = "/")}
  IN LET at == SetToSortSeq(starts, <) IN [j \in DOMAIN at |-> Part(at[j])]

(* A level is opened if one of the files that were listed last has the name of
   the next part; a part without one is passed over. *)
OpenLevel(tree, part) ==
  LET hits == {k \in DOMAIN tree.sub : tree.sub[k].name = part}
      sub  == getChildFiles(tree.sub[Min(hits)].id)
  IN IF hits = {} THEN tree ELSE [sub |-> sub, listed |-> tree.listed \o sub]

getOpenTreeTillFile(id) ==
  FoldLeft(OpenLevel, [sub |-> getRootFiles, listed |-> getRootFiles], PathParts(Path[id])).listed

(* The row of every prefix of the path that a separator ends; before the first
   one, the root.  It throws if one of them has no row. *)
getPathTillFile(id) ==
  LET path == Path[id]
      cuts == SetToSortSeq({k \in DOMAIN path : path[k] = "/"}, <)
      Above(k) == getFileInfoByPath(IF k = 1 THEN <<"/">> ELSE SubSeq(path, 1, k - 1))
      above == [j \in DOMAIN cuts |-> Above(cuts[j])]
  IN IF <<>> \in Range(above) THEN <<>> ELSE FlattenSeq(above) \o getFileInfo(id)

Mentions(text, part) == \E k \in 0 .. Len(text) : IsPrefix(part, SubSeq(text, k + 1, Len(text)))

(* Letters have no cases here, and the text no wildcards. *)
searchFile(text, onlyFile) ==
  LET part == IF text # <<>> /\ Last(text) = "/" THEN Front(text) ELSE text
  IN {f \in FileRow : IF onlyFile THEN ~IsDirectory(f) /\ Mentions(FileName(Path[f]), part)
                                  ELSE Mentions(Path[f], part)}

getFileTypes(typed) ==
  {IF IsDirectory(f) THEN "Dir" ELSE FileType(f, typed) : f \in FileRow}
=============================================================================
