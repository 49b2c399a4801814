----------------------------- MODULE MCGapRepair -----------------------------
(***************************************************************************)
(* Every audit of three buckets is planned; two are executed: a native     *)
(* series with a leading and a tail task, and an empty derived series that *)
(* is cut into two tasks.  The exchange has all of its history, or lacks   *)
(* one unit.  A correction in bucket 2 leaves the tasks that begin in      *)
(* bucket 1 to a person, one of them with a target after the correction.   *)
(***************************************************************************)
EXTENDS GapRepair

A(native, stored, listed, lower) ==
  [native |-> native, stored |-> stored, listed |-> listed, lower |-> lower,
   kept |-> 1, latest |-> 3]

MCAudits == {A(TRUE, {2}, 1, 1), A(FALSE, {}, 0, 1)}
MCHoles == {{}, {3}}
=============================================================================
