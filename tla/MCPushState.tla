---------------------------- MODULE MCPushState ----------------------------
(* Instances of PushState for TLC.                                         *)
EXTENDS PushState, TLC

CONSTANTS i1, i2, a1, a2, b1, v1, v2, p1, p2

\* i1 has two copies, i2 one.
Homes == [c \in Copy |-> IF c = b1 THEN i2 ELSE i1]

\* Copies, values and job slots are interchangeable (safety runs only).
Symmetry == Permutations({a1, a2}) \cup Permutations(Value) \cup Permutations(Slot)
=============================================================================
