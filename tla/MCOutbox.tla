------------------------------- MODULE MCOutbox -------------------------------
(* Instances of Outbox for TLC. *)
EXTENDS Outbox

CONSTANTS w1, w2, a1

OneTick == [n \in 1 .. MaxAttempts |-> 1]

\* Order is promised within an aggregate only: all events are of one.
OneAggregate == {[e \in Events |-> a1]}

=============================================================================
