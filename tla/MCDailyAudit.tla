----------------------------- MODULE MCDailyAudit -----------------------------
(***************************************************************************)
(* Small instances of the 1D audit; day 10 is the last closed day at the   *)
(* start of the program.  With blocks of two days, a window of six days    *)
(* and four passes a day, the tenth pass runs on day 12, in the fourth     *)
(* rotation, and day 9 was audited in the second one only.                 *)
(***************************************************************************)
EXTENDS DailyAudit
=============================================================================
