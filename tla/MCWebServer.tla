---------------------------- MODULE MCWebServer ----------------------------
(* Two threads, two sessions with a lifetime of two ticks, and a cleanup    *)
(* whenever a session is left, so that one request's pointer can outlive    *)
(* its session.                                                             *)
EXTENDS WebServer

CONSTANTS t1, t2, s1, s2

MCThreads == {t1, t2}
MCSessionIds == {s1, s2}
=============================================================================
