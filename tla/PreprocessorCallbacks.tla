------------------------ MODULE PreprocessorCallbacks ------------------------
(* PPIncludeCallback and PPMacroCallback: the rows made of the preprocessor's
   events of one translation unit.  They share the entity cache with the
   visitors.  A collector is a record of the vectors it will persist, with the
   cache and the files it has marked as C++. *)
EXTENDS CppModel

CONSTANT PpEvents  \* the events of each unit, in order: kind, file, ref (the
                   \* macro or the included file), range, and ignored:
                   \* an inclusion that was not resolved, a macro of the compiler

NewCollector == [cache |-> {}, cppFiles |-> {}, out |-> EmptyDb]

(* Inserts a node and, if it is new, makes the row that goes with it. *)
Collect(c, a, table, row) ==
  [c EXCEPT !.cache = @ \cup {a}, !.cppFiles = @ \cup {a.file},
            !.out = IF a \in c.cache THEN @
                    ELSE [@ EXCEPT !.astNodes = @ \cup {a},
                                   ![table] = IF row = <<>> THEN @ ELSE Append(@, row[1])]]

(* The inclusion itself is a row of every unit that meets it. *)
InclusionDirective(c, e) ==
  LET fileNode == CppAstNode(e.ref, "File", "Usage", e.file, e.range)
      c1 == Collect(c, fileNode, "inclusions", <<>>)
  IN IF e.ignored THEN c
     ELSE [c1 EXCEPT !.cppFiles = @ \cup {e.file, e.ref},
                     !.out.inclusions = Append(@, [includer |-> e.file, included |-> e.ref])]

createMacroAstNode(e, astType) == CppAstNode(e.ref, "Macro", astType, e.file, e.range)

MacroExpands(c, e) ==
  LET a == createMacroAstNode(e, "Usage")
  IN IF e.ignored THEN c ELSE Collect(c, a, "expansions", <<[astNodeId |-> a]>>)

MacroDefined(c, e) ==
  LET a == createMacroAstNode(e, "Definition")
  IN IF e.ignored THEN c
     ELSE Collect(c, a, "macros", <<[astNodeId |-> a, entityHash |-> a.entityHash]>>)

MacroUndefined(c, e) ==
  IF e.ignored THEN c
  ELSE Collect(c, createMacroAstNode(e, "UnDefinition"), "macros", <<>>)

Preprocess(c, e) ==
  CASE e.kind = "Include" -> InclusionDirective(c, e)
    [] e.kind = "Expand"  -> MacroExpands(c, e)
    [] e.kind = "Define"  -> MacroDefined(c, e)
    [] OTHER              -> MacroUndefined(c, e)

(* The two callbacks have their own vectors, also of nodes. *)
NodesOf(out, callback) ==
  [out EXCEPT !.astNodes = {a \in @ : (a.symbolType = "File") = (callback = "include")}]

persistMacros(base, out)     == persistAll(base, NodesOf(out, "macro"), {"astNodes", "macros", "expansions"})
persistInclusions(base, out) == persistAll(base, NodesOf(out, "include"), {"astNodes", "inclusions"})
=============================================================================
