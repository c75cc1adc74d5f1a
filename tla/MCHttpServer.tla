---------------------------- MODULE MCHttpServer ----------------------------
(* A small instance of HttpServer for TLC. *)
EXTENDS HttpServer

\* A page, a call of each API, and a path under no prefix but the root's.
MCTargets == {<<"index">>, <<"api", "timer", "stop">>, <<"api", "settings">>}
=============================================================================
