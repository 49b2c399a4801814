---------------------------- MODULE RepairGrants ----------------------------
(***************************************************************************)
(* What the symbol inventory promises to the code that repairs history:    *)
(* complete inventories are published one after another under a watermark  *)
(* that never moves back, and a repair is granted only to symbols that an  *)
(* inventory published under the current watermark lists as tradable.      *)
(* Publications of the same millisecond share a watermark.                 *)
(***************************************************************************)
EXTENDS Naturals

CONSTANTS Symbol, Reader

VARIABLES watermark,  \* captured_at of the last publication, 0 before the first
          usable,     \* FALSE after a failed refresh
          published,  \* tradable symbols of each inventory under the watermark
          granted     \* symbols each reader may repair

vars == <<watermark, usable, published, granted>>

Init == /\ watermark = 0
        /\ usable = FALSE
        /\ published = {}
        /\ granted = [g \in Reader |-> {}]

Publish == \E S \in SUBSET Symbol :
             /\ watermark' >= watermark
             /\ usable' = TRUE
             /\ published' = IF watermark' > watermark THEN {S} ELSE published \cup {S}
             /\ UNCHANGED granted

Withdraw == usable' = FALSE /\ UNCHANGED <<watermark, published, granted>>

Grant(g) == /\ granted' = [granted EXCEPT ![g] = granted'[g]]
            /\ granted'[g] \subseteq (IF usable THEN UNION published ELSE {})
            /\ UNCHANGED <<watermark, usable, published>>

Next == Publish \/ Withdraw \/ \E g \in Reader : Grant(g)

Spec == Init /\ [][Next]_vars
=============================================================================
