---------------------------- MODULE MCDeclaration ----------------------------
(* Instances of Declaration for TLC. *)
EXTENDS Declaration, TLC

CONSTANTS t1, t2, d1, s1, s2, v1, v2

Symmetry == Permutations(Tasks) \cup Permutations(Documents) \cup Permutations(Stays)
              \cup Permutations(Versions)

=============================================================================
