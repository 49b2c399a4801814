-------------------------- MODULE MCCorporateAction --------------------------
(***************************************************************************)
(* A day of one minute and a day of two.  An action at minute 3 falls into *)
(* the second day, one at minute 4 after both days.  The answer to a job   *)
(* may lack minute 2, all days, or the first minute of the second day.     *)
(***************************************************************************)
EXTENDS CorporateAction

MCDay == {{1}, {2, 3}}
MCWholeDay == {{1}}
MCAnswered == <<{{1, 3}, {1, 2, 3}}, {{}, {1, 3}, {1, 2, 3}}>>
MCRanges == {{2}}
=============================================================================
