---------------------------- MODULE MCKlinePages ----------------------------
(***************************************************************************)
(* Six bars of which four are closed at the call, pages of two (three of   *)
(* the recent endpoint), and requests as the callers make them: a range, a *)
(* range with a limit, the newest bars up to an end, and the newest bars.  *)
(***************************************************************************)
EXTENDS KlinePages

MCRequest ==
  [start: {1, 2}, end: {0, 3, 4, 5}, limit: {0, 2, 3}]
    \cup [start: {0}, end: {0, 4, 5}, limit: {0, 1, 3}]
=============================================================================
