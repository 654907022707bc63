----------------------------- MODULE StayHistory ------------------------------
(***************************************************************************)
(* StayCalendar with a history: who really spent which night in which      *)
(* room.  Invoices and the occupancy reports split a stay by the rooms of  *)
(* its calendar rows (room_calendar_stays_tx), so the rows of the nights   *)
(* gone by must be where the guest slept.  Every action here is            *)
(* StayCalendar's and a record of the nights it makes true.                *)
(***************************************************************************)
EXTENDS StayCalendar

VARIABLE slept    \* {<<r, d, b>>: b's guest was in room r on the night of d}

historyVars == <<vars, slept>>

HInit == Init /\ slept = {}

\* The night passes: whoever is in a room sleeps there.
TickH ==
  /\ Tick
  /\ slept' = slept \cup {<<booking[b].room, today, b>> :
                            b \in {b \in Bookings : HasStatus(b, "active")}}

\* A stay entered late tells of nights already slept.
BackfillH(b, r, from, to) ==
  /\ Backfill(b, r, from, to)
  /\ slept' = slept \cup {<<r, d, b>> : d \in {d \in NightsFrom(from, to) : d < today}}

DeskH ==
  /\ \E c \in Clerks :
       \/ ShortenStay(c)
       \/ GiveUpShorten(c)
       \/ \E b \in Bookings : LookupExpectedCheckout(c, b)
  /\ UNCHANGED slept

BookingH(b) ==
  /\ \/ CancelReservation(b)
     \/ ConfirmReservation(b)
     \/ CheckOut(b)
     \/ ExtendStay(b)
     \/ VoidBooking(b)
     \/ \E from, to \in Days : ModifyReservation(b, from, to)
     \/ \E r \in Rooms :
          \/ ChangeRoom(b, r)
          \/ \E n \in 1..MaxNights : CheckIn(b, r, n)
          \/ \E from, to \in Days : CreateReservation(b, r, from, to)
  /\ UNCHANGED slept

HNext ==
  \/ TickH
  \/ DeskH
  \/ \E b \in Bookings :
       \/ BookingH(b)
       \/ \E r \in Rooms, from, to \in Days : BackfillH(b, r, from, to)

HSpec == HInit /\ [][HNext]_historyVars

-----------------------------------------------------------------------------
PastRows(b) == {k \in Rooms \X Days : k[2] < today /\ Holder(k[1], k[2]) = b}

NightsSlept(b) == {k \in Rooms \X Days : <<k[1], k[2], b>> \in slept}

\* Changing rooms keeps the nights already slept on the old room, "so that
\* reports and invoices stay true": for a guest in the house the rows gone by
\* are the nights slept, except that nights stayed beyond the checkout get
\* theirs when the stay is extended.
RowsAreWhereTheGuestSlept ==
  \A b \in Bookings : HasStatus(b, "active") =>
    PastRows(b) = {k \in NightsSlept(b) : k[2] < booking[b].checkout}

=============================================================================
