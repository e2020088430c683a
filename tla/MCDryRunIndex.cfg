SPECIFICATION Spec
CONSTANTS
  Call = {"cc", "probe", "javac"}
  NoCall = "none"
  Tool <- MCTool
  Words <- MCWords
  StartedBy <- MCStartedBy
  OwnEnv = {"cc"}
  Extension <- MCExtension
  Existing = {"inc", "gen", "a.c", "a.o", "x.jar", "A.java", "B.java"}
  DefaultDirs <- MCDefaultDirs
  MaxKills = 1
  Worker = {"w1", "w2"}
  JavaFile <- MCJavaFile
  NoFile = "none"
  Classes <- MCClasses
  Answer <- MCAnswer
  Inputs <- MCInputs
  Children <- MCChildren
  SkipDirectories = {"gen"}
  Regular <- MCRegular
  Excluded = {}
  Large = {}
  PlainText = {"src/a", "sub/b", "gen/c"}
  Unreadable = {}
  NoIndex = {"none"}
  Thread = {"t1", "t2"}
  NoThread = "none"
  Query = {"p", "q"}
  Parent <- MCParent
  Hidden = {"src/a"}
  MaxSearches = 3
PROPERTY
  DryRunKeepsIndex
