---------------------------- MODULE MCBookingLocks ----------------------------
(* Instances of BookingLocks for TLC. *)
EXTENDS BookingLocks

CONSTANTS t1, t2

AllKeys == [scope : {"booking", "folio"}, id : Bookings]
             \cup [scope : {"room"}, id : Rooms]
             \cup [scope : {"group"}, id : Groups]

\* Two guests of a group, still to arrive.
GroupedStays == [b \in Bookings |-> 1]
NobodyIn     == [b \in Bookings |-> NoRoom]

TaskSymmetry == Permutations(Tasks)

=============================================================================
