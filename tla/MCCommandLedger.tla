--------------------------- MODULE MCCommandLedger ---------------------------
(* Instances of CommandLedger for TLC. *)
EXTENDS CommandLedger, TLC

CONSTANTS c1, c2, c3, k1, k2, h1, h2

PlainPath == [k \in Keys |-> "plain"]

\* One command whose lock keys are resolved under the locks, one through the
\* single transaction.
MixedPaths == [k \in Keys |-> IF k = k1 THEN "resolved" ELSE "atomic"]

Symmetry == Permutations(Calls) \cup Permutations(Hashes)

=============================================================================
