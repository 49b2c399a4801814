----------------------- MODULE MCMinuteCalibration1 -----------------------
(***************************************************************************)
(* Instance with a single minute below a chain of two derived frames, for  *)
(* the questions that need more failures, clock values or a backfill.      *)
(***************************************************************************)
EXTENDS MinuteCalibration, TLC

CONSTANTS A, T, w, d, c

MCMinute == {1}
MCBucket == {A, T}
MCSource == [b \in MCBucket |-> IF b = A THEN {1} ELSE {A}]
MCClosing == [b \in MCBucket |-> IF b = A THEN 1 ELSE A]
MCSpan == [b \in MCBucket |-> {1}]

\* The free aggregator: a derived value records exactly what it was made of.
MCRollup(b, f) == <<b, f>>
MCRollA == {<<A, f>> : f \in [{1} -> Value]}
MCRollValue == [b \in MCBucket |-> IF b = A THEN MCRollA
                                    ELSE {<<T, f>> : f \in [{A} -> MCRollA]}]

MCSymmetry == Permutations(Value)

MCTask == {w, d, c}
MCTaskLive == {d, c}
MCKind == [t \in Task |-> CASE t = w -> "window" [] t = d -> "daily"
                              [] OTHER -> "conflict"]
MCTaskMinutes == [t \in Task |-> {1}]
=============================================================================
