SPECIFICATION Spec
CONSTANTS
  File <- MCFile
  NoFile = "none"
  Entity <- MCEntity
  NoEntity = "none"
  Unit = {"a", "b"}
  SyntaxTree <- MCAst
  PpEvents <- MCPpEvents
  StoredEdges <- MCStoredEdges
  StoredAttributes <- MCStoredAttributes
  Directory <- MCDirectory
  Parent <- MCParent
  Commands <- MCCommands
  SourceNamed = {"a", "b", "obj"}
  CutName <- MCCutName
  Path <- MCPath
  NamePlace <- MCNamePlace
  InputPaths <- MCInputPaths
  Partitions = 2
  LineLength = 4
  Content <- MCContent
  Alphabet <- MCAlphabet
  MaxLength = 6
INVARIANTS
  ViewsAgree
  DiagramsComplete
  EntityRowsOnce
  OwnersFound
  MetricsMatchTree
  MeasuredOnce
  LinesCounted
  EdgesOnce
  ReferencesAgree
