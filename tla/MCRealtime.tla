----------------------------- MODULE MCRealtime ------------------------------
(***************************************************************************)
(* Two goroutines bring bars of two symbols, to clients with queues of one *)
(* event.                                                                  *)
(***************************************************************************)
EXTENDS Realtime

CONSTANTS a, b
MCWanted == {<<"rollup", a>>}
=============================================================================
