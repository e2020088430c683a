---------------------------- MODULE MCParserDriver ----------------------------
(* Two sources and a header.  b includes the header and a, a includes the    *)
(* header, and the header includes itself.  The second version of each does  *)
(* without its last #include.  a is compiled in one of two ways.  The        *)
(* project begins complete, or without a and with the other header.          *)
EXTENDS ParserDriver

MCFiles == {"a.cpp", "b.cpp", "h.h"}
MCVersions == {1, 2}
MCCommands == {"a1", "a2", "b1"}
MCSource == [c \in MCCommands |-> IF c = "b1" THEN "b.cpp" ELSE "a.cpp"]
MCIncludes ==
  [f \in MCFiles |-> [v \in MCVersions |->
     CASE f = "a.cpp" -> IF v = 1 THEN {"h.h"} ELSE {}
       [] f = "b.cpp" -> IF v = 1 THEN {"h.h", "a.cpp"} ELSE {"h.h"}
       [] f = "h.h" -> IF v = 1 THEN {"h.h"} ELSE {}]]
MCCompDbs == {{"a1", "b1"}, {"a2", "b1"}}
MCInitialProjects ==
  {[disk |-> d, compdb |-> {"a1", "b1"}] :
     d \in {[f \in MCFiles |-> 1],
            [f \in MCFiles |-> CASE f = "a.cpp" -> 0 [] f = "b.cpp" -> 1 [] f = "h.h" -> 2]}}
=============================================================================
