----------------------------- MODULE CommentLoop -----------------------------
(* MetricsParser::eraseComments, the loop over comments of several lines, a
   round at a time, on a C++ text of which the blank lines and the comments of
   one line are gone.  The job is a thread of the pool: nothing stops it. *)
EXTENDS LineCounts

VARIABLE file

CppSymbols == CommentTypes("CPP")

Init == \E text \in Texts :
  file = Repeat(LAMBDA c : EraseSingle(CppSymbols, c), eraseBlankLines(text))

EraseNext == Find(file, CppSymbols.start, 1) # 0 /\ file' = EraseMulti(CppSymbols, file)

Spec == Init /\ [][EraseNext]_file /\ WF_file(EraseNext)

(* "Delete end comment symbol too" (eraseComments): every comment is deleted,
   with its end symbol, if it has one. *)
CommentsDeleted == <>[](Find(file, CppSymbols.start, 1) = 0)
=============================================================================
