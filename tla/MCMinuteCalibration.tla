----------------------- MODULE MCMinuteCalibration -----------------------
(***************************************************************************)
(* Instance: minutes 1 and 2 form bucket A (a 5m), and A alone forms       *)
(* T (a frame built from frames), so a cascade has two levels and the      *)
(* first minute does not close its bucket.                                 *)
(***************************************************************************)
EXTENDS MinuteCalibration, TLC

CONSTANTS A, T, w, d, c1, c2

MCMinute == {1, 2}
MCBucket == {A, T}
MCSource == [b \in MCBucket |-> IF b = A THEN {1, 2} ELSE {A}]
MCClosing == [b \in MCBucket |-> IF b = A THEN 2 ELSE A]
MCSpan == [b \in MCBucket |-> {1, 2}]

\* The free aggregator: a derived value records exactly what it was made of.
MCRollup(b, f) == <<b, f>>
MCRollA == {<<A, f>> : f \in [{1, 2} -> Value]}
MCRollValue == [b \in MCBucket |-> IF b = A THEN MCRollA
                                    ELSE {<<T, f>> : f \in [{A} -> MCRollA]}]

MCSymmetry == Permutations(Value)

MCTask == {w, d, c1, c2}
MCKind == [t \in MCTask |-> CASE t = w -> "window" [] t = d -> "daily"
                              [] OTHER -> "conflict"]
MCTaskMinutes == [t \in MCTask |-> CASE t = c1 -> {1}
                                     [] t = c2 -> {2} [] OTHER -> {1, 2}]
=============================================================================
