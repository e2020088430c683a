------------------------------ MODULE MCPipeline ------------------------------
(* A build of a C file, whose compiler driver asks another for its version, and
   of two Java files; a jar of two classes; a source tree with a skipped directory. *)
EXTENDS Pipeline, TLC

MCTool == [cc |-> "gcc", probe |-> "gcc", javac |-> "javac"]
MCStartedBy == [cc |-> "none", probe |-> "cc", javac |-> "none"]

MCWords ==
  [cc      |-> <<Word("-I", <<"inc">>), Word("-I", <<>>), Word("", <<"gen">>), Word("-O2", <<>>),
                 Word("", <<"a.c">>), Word("-MT", <<>>), Word("", <<"a.o">>),
                 Word("-o", <<>>), Word("", <<"a.o">>)>>,
   probe |-> <<Word("--version", <<>>)>>,
   javac |-> <<Word("-d", <<>>), Word("", <<"out">>), Word("-cp", <<>>), Word("", <<"x.jar", "gone.jar">>),
                 Word("", <<"A.java">>), Word("", <<"B.java">>)>>]

MCExtension ==
  [p \in {"inc", "gen", "out"} |-> ""] @@ ("a.c" :> "c") @@ ("a.o" :> "o")
    @@ [p \in {"x.jar", "gone.jar"} |-> "jar"] @@ [p \in {"A.java", "B.java"} |-> "java"]

MCDefaultDirs == <<[path |-> "usr", builtin |-> FALSE], [path |-> "lib/gcc", builtin |-> TRUE]>>

MCClasses == <<[class |-> "X.class", source |-> "X.java"], [class |-> "Y.class", source |-> "Y.java"]>>
MCJavaFile == {"A.java", "B.java", "X.java", "Y.java", "X.class", "Y.class"}

Says(refused, error, logs) == [refused |-> refused, error |-> error, logs |-> logs]
MCAnswer ==
  ("A.java" :> Says(TRUE, FALSE, {})) @@ ("B.java" :> Says(FALSE, TRUE, {"Warning"}))
    @@ ("Y.java" :> Says(FALSE, FALSE, {"Error", "FatalError"}))
    @@ [f \in {"X.java", "X.class", "Y.class"} |-> Says(FALSE, FALSE, {})]

MCInputs == <<"src">>
MCChildren == ("src" :> <<"src/a", "sub", "gen">>) @@ ("sub" :> <<"sub/b", "img">>) @@ ("gen" :> <<"gen/c">>)
MCRegular == {"src/a", "sub/b", "gen/c", "img"}
MCParent == [f \in MCRegular |-> CASE f = "src/a" -> 1 [] f = "gen/c" -> 3 [] OTHER -> 2]
===============================================================================
