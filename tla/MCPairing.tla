----------------------------- MODULE MCPairing -----------------------------
(* Instances of Pairing for TLC.                                           *)
EXTENDS Pairing, TLC

CONSTANTS d1, d2, g1, g2

\* Only the device d1 has a group before anything is paired, or nobody has one.
HomeOfOne == [d \in Devices |-> IF d = d1 THEN {g1} ELSE {}]
NoHome == [d \in Devices |-> {}]

\* No definition tells one join from another.
JoinsAlike == Permutations(Joins)
=============================================================================
