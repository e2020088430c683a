-------------------------- MODULE MCSourceManager --------------------------
(* Three threads that share a header; two share a second file as well.  The *)
(* second has a row from an earlier run.                                    *)
EXTENDS SourceManager, TLC

CONSTANTS t1, t2, t3, h, k

MCThreads == {t1, t2, t3}
MCPaths == {h, k}
MCRounds == (t1 :> <<{h}, {k}>>) @@ (t2 :> <<{h, k}>>) @@ (t3 :> <<{h}>>)
=============================================================================
