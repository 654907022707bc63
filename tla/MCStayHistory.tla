---------------------------- MODULE MCStayHistory -----------------------------
(* Instances of StayHistory for TLC. *)
EXTENDS StayHistory, TLC

CONSTANTS b1, b2, r1, r2, c1

Symmetry == Permutations(Bookings) \cup Permutations(Rooms)

=============================================================================
