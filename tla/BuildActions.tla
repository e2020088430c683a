----------------------------- MODULE BuildActions -----------------------------
(* CppParser: the compile commands of a JSON database and the build actions, with
   their sources and their targets, that are stored for them. *)
EXTENDS CppModel, SequencesExt

CONSTANTS
  Commands,    \* [file, words, aOut]: the source that a command is for, its words,
               \* and the file that is called a.out in its directory
  SourceNamed, \* files with an extension like .cpp or .o
  CutName      \* source -> the file whose name lacks its extension and one symbol more, and ends in .o

(* A word is an option, a file, or both: "-o" and "x.o", but "-Wl,x.a". *)
isSourceFile(word) == word.file \in SourceNamed
isNonSourceFlag(word) == word.option = "-Wl,"

(* Commands for other files, headers for instance, are left out. *)
compileCommands == {c \in Commands : c.file \in SourceNamed}

(* The sources of a command, each with its target: what -o names, or a.out, or
   an object beside each source. *)
extractInputOutputs(c) ==
  LET Read(s, word) ==
        CASE s.oParam -> [s EXCEPT !.output = word.file, !.oParam = FALSE]
          [] ~s.oParam /\ isSourceFile(word) /\ ~isNonSourceFlag(word) ->
               [s EXCEPT !.sources = @ \cup {word.file}]
          [] ~s.oParam /\ word.file = NoFile -> [s EXCEPT !.hasCParam = @ \/ word.option = "-c",
                                                          !.oParam = word.option = "-o"]
          [] OTHER -> s
      s == FoldLeft(Read, [sources |-> {}, output |-> NoFile, hasCParam |-> FALSE, oParam |-> FALSE], c.words)
      target(f) == CASE s.output # NoFile -> s.output
                     [] s.output = NoFile /\ s.hasCParam -> CutName[f]
                     [] OTHER -> c.aOut
  IN {[source |-> f, target |-> target(f)] : f \in s.sources}

(* One action for each command. *)
Builds ==
  {LET pairs == extractInputOutputs(c)
   IN [sources |-> {p.source : p \in pairs}, targets |-> {p.target : p \in pairs}] : c \in compileCommands}
===============================================================================
