------------------------------ MODULE MCCouncils ------------------------------
(* An instance of Councils for TLC. *)
EXTENDS Councils, TLC

CONSTANTS w1, w2, u1, u2, u3, v1, v2

Symmetric == Permutations(Users) \cup Permutations(Workers) \cup Permutations(Sweepers)
=============================================================================
