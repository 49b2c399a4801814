----------------------- MODULE MCMinuteAuditGuardian -----------------------
(***************************************************************************)
(* Instances of the audit ledger and its workers.  Each run takes one pair *)
(* of goroutines: the registering one and the retry worker of its group.   *)
(***************************************************************************)
EXTENDS MinuteAuditGuardian
=============================================================================
