----------------------------- MODULE MCASTCache -----------------------------
(* Two threads, hence a limit of two, and four files: both threads can find *)
(* the cache below the limit and then both insert.                          *)
EXTENDS ASTCache, TLC

CONSTANTS t1, t2, f1, f2, f3, f4

MCThreads == {t1, t2}
MCFiles == {f1, f2, f3, f4}
=============================================================================
