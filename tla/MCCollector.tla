----------------------------- MODULE MCCollector -----------------------------
(***************************************************************************)
(* Three symbols in chunks of two: two shards, of which one disappears     *)
(* when a symbol is delisted, and two subscription requests.               *)
(***************************************************************************)
EXTENDS Collector
=============================================================================
