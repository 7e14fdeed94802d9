----------------------- MODULE MCProjectTransactions -----------------------
(* Instances of ProjectTransactions for TLC. *)
EXTENDS ProjectTransactions, TLC

CONSTANTS v1, v2, v3, g1, g2, u1

Faults(generate, update) == [c \in Command |-> IF c = "generate" THEN generate ELSE update]
ManyFaults == Faults(3, 1)
OneFault == Faults(1, 1)

Alike == Permutations(Version) \cup Permutations(Generator)
=============================================================================
