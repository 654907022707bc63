-------------------------- MODULE StayCalendarProofs --------------------------
(***************************************************************************)
(* Proofs about the room calendar, for any bookings, rooms, desks and any  *)
(* number of days.  The four invariants are proved together: what a        *)
(* command may insert depends on the grid and on the dates, and what it    *)
(* deletes on the rows being where the dates say.  The history of who      *)
(* slept where comes on top of them.                                       *)
(***************************************************************************)
EXTENDS StayHistory, TLAPS

CalendarInv ==
  /\ TypeOK
  /\ RowsAreTheStay
  /\ ComingNightsAreInItsRoom
  /\ OneStayPerOccupiedRoom

\* RowsOfStay row by row.
RowsByCells(b) ==
  /\ Live(b) =>
       /\ booking[b].nights = booking[b].checkout - booking[b].checkin
       /\ booking[b].nights > 0
       /\ \A r \in Rooms, d \in Days : Holder(r, d) = b =>
            /\ booking[b].checkin <= d
            /\ d < booking[b].checkout
            /\ (calendar[r][d].status = "booked" <=> HasStatus(b, "booked"))
            /\ \A q \in Rooms : Holder(q, d) = b => q = r
       /\ \A d \in Days :
            booking[b].checkin <= d /\ d < booking[b].checkout
              => \E r \in Rooms : Holder(r, d) = b
  /\ booking[b].status \in {"absent", "cancelled", "voided"}
       => \A r \in Rooms, d \in Days : Holder(r, d) # b
  /\ HasStatus(b, "checked_out")
       => \A r \in Rooms, d \in Days : Holder(r, d) = b => d < today

LEMMA RowsAreCells == \A b \in Bookings : RowsOfStay(b) <=> RowsByCells(b)
<1> SUFFICES ASSUME NEW b \in Bookings PROVE RowsOfStay(b) <=> RowsByCells(b)
  OBVIOUS
<1>1. NightsOf(b) = NightsFrom(booking[b].checkin, booking[b].checkout)
        <=> /\ \A r \in Rooms, d \in Days : Holder(r, d) = b =>
                 booking[b].checkin <= d /\ d < booking[b].checkout
            /\ \A d \in Days :
                 booking[b].checkin <= d /\ d < booking[b].checkout
                   => \E r \in Rooms : Holder(r, d) = b
  BY DEF NightsOf, NightsFrom
<1>2. NightsOf(b) = {} <=> \A r \in Rooms, d \in Days : Holder(r, d) # b
  BY DEF NightsOf
<1>3. (\A d \in NightsOf(b) : d < today)
        <=> \A r \in Rooms, d \in Days : Holder(r, d) = b => d < today
  BY DEF NightsOf
<1> QED BY <1>1, <1>2, <1>3 DEF RowsOfStay, RowsByCells

LEMMA RowsAreCellsNext == \A b \in Bookings : (RowsOfStay(b) <=> RowsByCells(b))'
<1>1. (\A b \in Bookings : RowsOfStay(b) <=> RowsByCells(b))'
  BY RowsAreCells, PTL
<1> QED BY <1>1

-----------------------------------------------------------------------------
(* Cells. *)

LEMMA RowOrFree ==
  ASSUME TypeOK, NEW r \in Rooms, NEW d \in Days
  PROVE  /\ calendar[r][d] = Free \/ calendar[r][d] \in Row
         /\ Holder(r, d) = None <=> calendar[r][d] = Free
         /\ Holder(r, d) # None => Holder(r, d) \in Bookings
BY CalendarAssumption DEF TypeOK, Row, Free, Holder

\* A command on booking b takes only free cells and gives back only its own.
OwnCellsOnly(b) ==
  \A r \in Rooms, d \in Days :
    \/ calendar'[r][d] = calendar[r][d]
    \/ Holder(r, d) \in {None, b} /\ Holder(r, d)' \in {None, b}

\* The other bookings' rows stay as they were.
LEMMA OthersKeepTheirRows ==
  ASSUME TypeOK, NEW b \in Bookings, OwnCellsOnly(b),
         NEW a \in Bookings, a # b, booking'[a] = booking[a],
         today' = today, RowsOfStay(a)
  PROVE  RowsOfStay(a)'
<1>1. RowsByCells(a)
  BY RowsAreCells
<1>2. \A r \in Rooms, d \in Days :
        /\ (Holder(r, d)' = a) <=> Holder(r, d) = a
        /\ Holder(r, d) = a => calendar'[r][d] = calendar[r][d]
  BY CalendarAssumption DEF OwnCellsOnly, Holder
<1>3. RowsByCells(a)'
  BY <1>1, <1>2 DEF RowsByCells, Live, HasStatus
<1> QED BY <1>3, RowsAreCellsNext

\* What a command on booking b has to show for the two invariants on rows.
LEMMA OneBookingStep ==
  ASSUME TypeOK, RowsAreTheStay, ComingNightsAreInItsRoom, today' = today,
         NEW b \in Bookings, OwnCellsOnly(b),
         \A a \in Bookings : a # b => booking'[a] = booking[a],
         RowsByCells(b)',
         \A r \in Rooms, d \in Days :
           d >= today /\ Holder(r, d)' = b => booking'[b].room = r
  PROVE  RowsAreTheStay' /\ ComingNightsAreInItsRoom'
<1>1. RowsAreTheStay'
  <2>1. \A a \in Bookings : a # b => RowsOfStay(a)'
    BY OthersKeepTheirRows DEF RowsAreTheStay
  <2>2. RowsOfStay(b)'
    BY RowsAreCellsNext
  <2> QED BY <2>1, <2>2 DEF RowsAreTheStay
<1>2. ComingNightsAreInItsRoom'
  <2> SUFFICES ASSUME NEW r \in Rooms, NEW d \in Days, d >= today,
                      Holder(r, d)' # None
               PROVE  booking'[Holder(r, d)'].room = r
    BY DEF ComingNightsAreInItsRoom
  <2>1. CASE Holder(r, d)' = b
    BY <2>1
  <2>2. CASE Holder(r, d)' # b
    <3>1. calendar'[r][d] = calendar[r][d] /\ Holder(r, d)' = Holder(r, d)
      BY <2>2 DEF OwnCellsOnly, Holder
    <3>2. Holder(r, d) \in Bookings
      BY <3>1, RowOrFree
    <3> QED BY <2>2, <3>1, <3>2 DEF ComingNightsAreInItsRoom
  <2> QED BY <2>1, <2>2
<1> QED BY <1>1, <1>2

-----------------------------------------------------------------------------
(* The grid. *)

In(b, r) == HasStatus(b, "active") /\ booking[b].room = r

LEMMA GridByRooms ==
  OneStayPerOccupiedRoom <=>
    \A r \in Rooms :
      /\ (rooms[r] = "occupied") <=> (\E b \in Bookings : In(b, r))
      /\ \A a, b \in Bookings : In(a, r) /\ In(b, r) => a = b
BY DEF OneStayPerOccupiedRoom, In

LEMMA GridByRoomsNext ==
  (OneStayPerOccupiedRoom <=>
    \A r \in Rooms :
      /\ (rooms[r] = "occupied") <=> (\E b \in Bookings : In(b, r))
      /\ \A a, b \in Bookings : In(a, r) /\ In(b, r) => a = b)'
BY GridByRooms, PTL

\* Nobody comes or goes.
LEMMA NobodyMoves ==
  ASSUME OneStayPerOccupiedRoom, UNCHANGED rooms,
         \A b \in Bookings, r \in Rooms : In(b, r)' <=> In(b, r)
  PROVE  OneStayPerOccupiedRoom'
BY GridByRooms, GridByRoomsNext

\* A guest comes into a vacant room.
LEMMA GuestComesIn ==
  ASSUME TypeOK, OneStayPerOccupiedRoom,
         NEW b \in Bookings, NEW r \in Rooms,
         ~ HasStatus(b, "active"), In(b, r)',
         \A a \in Bookings : a # b => booking'[a] = booking[a],
         SetRoom(r, "vacant", "occupied")
  PROVE  OneStayPerOccupiedRoom'
<1>1. \A a \in Bookings, q \in Rooms :
        In(a, q)' <=> In(a, q) \/ (a = b /\ q = r)
  BY DEF In, HasStatus
<1>2. \A q \in Rooms : rooms'[q] = IF q = r THEN "occupied" ELSE rooms[q]
  BY DEF SetRoom, TypeOK
<1>3. \A a \in Bookings : ~ In(a, r)
  BY GridByRooms DEF SetRoom
<1>4. \A q \in Rooms : (rooms'[q] = "occupied") <=> (\E a \in Bookings : In(a, q)')
  BY <1>1, <1>2, GridByRooms
<1>5. \A q \in Rooms, a, c \in Bookings : In(a, q)' /\ In(c, q)' => a = c
  BY <1>1, <1>3, GridByRooms
<1> QED BY <1>4, <1>5, GridByRoomsNext

\* A guest leaves the room.
LEMMA GuestGoes ==
  ASSUME TypeOK, OneStayPerOccupiedRoom, NEW b \in Bookings,
         HasStatus(b, "active"), booking[b].room \in Rooms, ~ HasStatus(b, "active")',
         \A a \in Bookings : a # b => booking'[a] = booking[a],
         SetRoom(booking[b].room, "occupied", "vacant")
  PROVE  OneStayPerOccupiedRoom'
<1> DEFINE r == booking[b].room
<1>1. \A a \in Bookings, q \in Rooms : In(a, q)' <=> In(a, q) /\ a # b
  BY DEF In, HasStatus
<1>2. \A q \in Rooms : rooms'[q] = IF q = r THEN "vacant" ELSE rooms[q]
  BY DEF SetRoom, TypeOK
<1>3. In(b, r)
  BY DEF In
<1>4. \A q \in Rooms : (rooms'[q] = "occupied") <=> (\E a \in Bookings : In(a, q)')
  <2> SUFFICES ASSUME NEW q \in Rooms
               PROVE  (rooms'[q] = "occupied") <=> (\E a \in Bookings : In(a, q)')
    OBVIOUS
  <2>1. CASE q = r
    BY <1>1, <1>2, <1>3, <2>1, GridByRooms
  <2>2. CASE q # r
    <3>1. ~ In(b, q)
      BY <2>2 DEF In
    <3> QED BY <1>1, <1>2, <2>2, <3>1, GridByRooms
  <2> QED BY <2>1, <2>2
<1> QED BY <1>1, <1>4, GridByRooms, GridByRoomsNext

-----------------------------------------------------------------------------
(* The table writes. *)

LEMMA InsertType ==
  ASSUME TypeOK, NEW cal \in [Rooms -> [Days -> Row \cup {Free}]],
         NEW b \in Bookings, NEW r \in Rooms, NEW from, NEW to,
         NEW status \in {"booked", "occupied"}
  PROVE  Insert(cal, b, r, from, to, status) \in [Rooms -> [Days -> Row \cup {Free}]]
<1>1. [booking |-> b, status |-> status] \in Row
  BY DEF Row
<1>2. \A q \in Rooms, d \in Days :
        (IF q = r /\ d \in NightsFrom(from, to)
         THEN [booking |-> b, status |-> status]
         ELSE cal[q][d]) \in Row \cup {Free}
  BY <1>1
<1> QED BY <1>2 DEF Insert

LEMMA DeleteType ==
  ASSUME TypeOK, NEW b \in Bookings
  PROVE  Delete(b) \in [Rooms -> [Days -> Row \cup {Free}]]
BY RowOrFree DEF Delete

\* A booking that is booked has no other rows.
LEMMA DeleteBookedIsDelete ==
  ASSUME TypeOK, NEW b \in Bookings, RowsByCells(b), HasStatus(b, "booked")
  PROVE  DeleteBooked(b) = Delete(b)
<1> SUFFICES ASSUME NEW q \in Rooms, NEW d \in Days
             PROVE  calendar[q][d] = [booking |-> b, status |-> "booked"]
                      <=> Holder(q, d) = b
  BY DEF DeleteBooked, Delete
<1>1. ASSUME Holder(q, d) = b
      PROVE  calendar[q][d] = [booking |-> b, status |-> "booked"]
  <2>1. calendar[q][d] \in Row
    BY <1>1, RowOrFree, CalendarAssumption
  <2>2. calendar[q][d].status = "booked"
    BY <1>1 DEF RowsByCells, Live, HasStatus
  <2> QED BY <1>1, <2>1, <2>2 DEF Row, Holder
<1> QED BY <1>1 DEF Holder

-----------------------------------------------------------------------------
(* One lemma for each command. *)

LEMMA InvByParts ==
  ASSUME CalendarInv, NEW b \in Bookings
  PROVE  /\ TypeOK /\ RowsAreTheStay /\ ComingNightsAreInItsRoom
         /\ OneStayPerOccupiedRoom /\ RowsByCells(b)
         /\ booking[b] \in Booking /\ today \in Days
         /\ calendar \in [Rooms -> [Days -> Row \cup {Free}]]
         /\ ~ HasStatus(b, "absent") => booking[b].room \in Rooms
BY RowsAreCells DEF CalendarInv, RowsAreTheStay, TypeOK, Booking, HasStatus

LEMMA CreateReservationKeepsInv ==
  ASSUME CalendarInv, NEW b \in Bookings, NEW r \in Rooms,
         NEW from \in Days, NEW to \in Days, CreateReservation(b, r, from, to)
  PROVE  CalendarInv' /\ OwnCellsOnly(b)
<1> DEFINE row == [status |-> "booked", room |-> r, checkin |-> from, checkout |-> to,
                   nights |-> to - from, scheduled |-> to]
<1>0. /\ TypeOK /\ RowsByCells(b)
      /\ calendar \in [Rooms -> [Days -> Row \cup {Free}]]
      /\ calendar' = Insert(calendar, b, r, from, to, "booked")
  BY InvByParts DEF CreateReservation
<1>1. TypeOK'
  <2>1. row \in Booking
    BY CalendarAssumption DEF Booking, Statuses, Days
  <2>2. booking' \in [Bookings -> Booking]
    BY <2>1 DEF CreateReservation, CalendarInv, TypeOK
  <2>3. calendar' \in [Rooms -> [Days -> Row \cup {Free}]]
    BY <1>0, InsertType
  <2>4. \A a \in Bookings : HasStatus(a, "absent")' <=> booking'[a].room = None
    BY CalendarAssumption DEF CreateReservation, CalendarInv, TypeOK, HasStatus
  <2> QED BY <2>2, <2>3, <2>4 DEF CreateReservation, CalendarInv, TypeOK
<1>2. /\ \A a \in Bookings : a # b => booking'[a] = booking[a]
      /\ booking'[b] = row
  BY DEF CreateReservation, CalendarInv, TypeOK
<1>3. \A q \in Rooms, d \in Days :
        calendar'[q][d] = IF q = r /\ from <= d /\ d < to
                          THEN [booking |-> b, status |-> "booked"] ELSE calendar[q][d]
  BY <1>0 DEF Insert, NightsFrom
<1>4. \A q \in Rooms, d \in Days :
        Holder(q, d)' = IF q = r /\ from <= d /\ d < to THEN b ELSE Holder(q, d)
  BY <1>3 DEF Holder
<1>5. OwnCellsOnly(b)
  BY <1>3, <1>4 DEF OwnCellsOnly, CreateReservation, AllFree, NightsFrom, Holder, Free
<1>6. \A q \in Rooms, d \in Days : Holder(q, d) # b
  BY InvByParts DEF CreateReservation, RowsByCells, HasStatus
<1>7. RowsByCells(b)'
  BY <1>2, <1>3, <1>4, <1>6
  DEF RowsByCells, Live, HasStatus, CreateReservation, Dates, Days
<1>8. RowsAreTheStay' /\ ComingNightsAreInItsRoom'
  BY InvByParts, OneBookingStep, <1>2, <1>4, <1>5, <1>6, <1>7 DEF CreateReservation
<1>9. OneStayPerOccupiedRoom'
  BY <1>2, InvByParts, NobodyMoves DEF CreateReservation, In, HasStatus
<1> QED BY <1>1, <1>8, <1>9, <1>5 DEF CalendarInv

LEMMA CancelReservationKeepsInv ==
  ASSUME CalendarInv, NEW b \in Bookings, CancelReservation(b)
  PROVE  CalendarInv' /\ OwnCellsOnly(b)
<1>0. TypeOK /\ RowsByCells(b) /\ calendar' = Delete(b)
  BY InvByParts, DeleteBookedIsDelete DEF CancelReservation
<1>1. TypeOK'
  <2>1. booking' \in [Bookings -> Booking]
    BY <1>0 DEF CancelReservation, TypeOK, Booking, Statuses
  <2>2. \A a \in Bookings : HasStatus(a, "absent")' <=> booking'[a].room = None
    BY <1>0 DEF CancelReservation, TypeOK, HasStatus, Booking
  <2> QED BY <1>0, <2>1, <2>2, DeleteType DEF CancelReservation, TypeOK
<1>2. /\ \A a \in Bookings : a # b => booking'[a] = booking[a]
      /\ booking'[b].status = "cancelled"
  BY DEF CancelReservation, CalendarInv, TypeOK, Booking
<1>3. \A q \in Rooms, d \in Days :
        calendar'[q][d] = IF Holder(q, d) = b THEN Free ELSE calendar[q][d]
  BY <1>0 DEF Delete
<1>4. OwnCellsOnly(b) /\ \A q \in Rooms, d \in Days : Holder(q, d)' # b
  BY <1>3, CalendarAssumption DEF OwnCellsOnly, Holder, Free
<1>5. RowsByCells(b)'
  BY <1>2, <1>4 DEF RowsByCells, Live, HasStatus
<1>6. RowsAreTheStay' /\ ComingNightsAreInItsRoom'
  BY InvByParts, OneBookingStep, <1>2, <1>4, <1>5 DEF CancelReservation
<1>7. OneStayPerOccupiedRoom'
  BY <1>2, InvByParts, NobodyMoves DEF CancelReservation, In, HasStatus
<1> QED BY <1>1, <1>6, <1>7, <1>4 DEF CalendarInv

LEMMA ConfirmReservationKeepsInv ==
  ASSUME CalendarInv, NEW b \in Bookings, ConfirmReservation(b)
  PROVE  CalendarInv' /\ OwnCellsOnly(b)
<1> DEFINE r == booking[b].room
           to == ConfirmedCheckout(b)
<1>0. /\ TypeOK /\ RowsByCells(b) /\ booking[b] \in Booking
      /\ today \in Days /\ to \in Days /\ r \in Rooms
      /\ calendar' = Insert(Delete(b), b, r, today, to, "occupied")
  BY InvByParts DEF ConfirmReservation, HasStatus
<1>00. today < to
  <2>1. booking[b].scheduled <= today \/ ~ (booking[b].scheduled <= today)
    OBVIOUS
  <2> QED BY <1>0 DEF ConfirmedCheckout, Days, Booking
<1>1. TypeOK'
  <2>1. booking' \in [Bookings -> Booking]
    <3>1. to - today \in Int
      BY <1>0 DEF Days
    <3>2. [booking[b] EXCEPT !.status = "active", !.checkin = today, !.checkout = to,
                             !.nights = to - today] \in Booking
      BY <1>0, <3>1 DEF Booking, Statuses
    <3> QED BY <1>0, <3>2 DEF ConfirmReservation, TypeOK
  <2>2. calendar' \in [Rooms -> [Days -> Row \cup {Free}]]
    BY <1>0, DeleteType, InsertType
  <2>3. rooms' \in [Rooms -> {"vacant", "occupied"}]
    BY DEF ConfirmReservation, SetRoom, CalendarInv, TypeOK
  <2>4. \A a \in Bookings : HasStatus(a, "absent")' <=> booking'[a].room = None
    BY DEF ConfirmReservation, CalendarInv, TypeOK, HasStatus, Booking
  <2> QED BY <1>0, <2>1, <2>2, <2>3, <2>4 DEF ConfirmReservation, TypeOK
<1>2. /\ \A a \in Bookings : a # b => booking'[a] = booking[a]
      /\ booking'[b].status = "active" /\ booking'[b].room = r
      /\ booking'[b].checkin = today /\ booking'[b].checkout = to
      /\ booking'[b].nights = to - today
  BY <1>0 DEF ConfirmReservation, TypeOK, Booking
<1>3. \A q \in Rooms, d \in Days :
        calendar'[q][d] = IF q = r /\ today <= d /\ d < to
                          THEN [booking |-> b, status |-> "occupied"]
                          ELSE IF Holder(q, d) = b THEN Free ELSE calendar[q][d]
  BY <1>0 DEF Insert, NightsFrom, Delete
<1>4. \A q \in Rooms, d \in Days :
        (Holder(q, d)' = b) <=> (q = r /\ today <= d /\ d < to)
  BY <1>3, CalendarAssumption DEF Holder, Free
<1>5. \A d \in Days : today <= d /\ d < to => Holder(r, d) \in {None, b}
  <2> SUFFICES ASSUME NEW d \in Days, today <= d, d < to, Holder(r, d) # b
               PROVE  Holder(r, d) = None
    OBVIOUS
  <2>1. Delete(b)[r][d] = Free
    BY <1>0 DEF ConfirmReservation, AllFree, NightsFrom
  <2> QED BY <2>1, <1>0 DEF Delete, Free, Holder
<1>6. OwnCellsOnly(b)
  BY <1>3, <1>5 DEF OwnCellsOnly, Holder, Free
<1>7. RowsByCells(b)'
  BY <1>0, <1>00, <1>2, <1>3, <1>4 DEF RowsByCells, Live, HasStatus, Days
<1>8. RowsAreTheStay' /\ ComingNightsAreInItsRoom'
  BY InvByParts, OneBookingStep, <1>2, <1>4, <1>6, <1>7 DEF ConfirmReservation
<1>9. OneStayPerOccupiedRoom'
  <2>1. In(b, r)' /\ ~ HasStatus(b, "active") /\ SetRoom(r, "vacant", "occupied")
    BY <1>2 DEF ConfirmReservation, In, HasStatus
  <2> QED BY <1>0, <1>2, <2>1, InvByParts, GuestComesIn
<1> QED BY <1>1, <1>8, <1>9, <1>6 DEF CalendarInv

LEMMA ModifyReservationKeepsInv ==
  ASSUME CalendarInv, NEW b \in Bookings, NEW from \in Days, NEW to \in Days,
         ModifyReservation(b, from, to)
  PROVE  CalendarInv' /\ OwnCellsOnly(b)
<1> DEFINE r == booking[b].room
<1>0. /\ TypeOK /\ RowsByCells(b) /\ booking[b] \in Booking
      /\ today \in Days /\ r \in Rooms /\ HasStatus(b, "booked")
      /\ DeleteBooked(b) = Delete(b)
  BY InvByParts, DeleteBookedIsDelete DEF ModifyReservation, HasStatus
<1>00. calendar' = Insert(Delete(b), b, r, from, to, "booked")
  BY <1>0 DEF ModifyReservation
<1>1. TypeOK'
  <2>1. booking' \in [Bookings -> Booking]
    <3>1. to - from \in Int
      BY DEF Days
    <3>2. [booking[b] EXCEPT !.checkin = from, !.checkout = to, !.scheduled = to,
                             !.nights = to - from] \in Booking
      BY <1>0, <3>1 DEF Booking
    <3> QED BY <1>0, <3>2 DEF ModifyReservation, TypeOK
  <2>2. calendar' \in [Rooms -> [Days -> Row \cup {Free}]]
    BY <1>0, <1>00, DeleteType, InsertType
  <2>3. \A a \in Bookings : HasStatus(a, "absent")' <=> booking'[a].room = None
    BY <1>0 DEF ModifyReservation, TypeOK, HasStatus, Booking
  <2> QED BY <1>0, <2>1, <2>2, <2>3 DEF ModifyReservation, TypeOK
<1>2. /\ \A a \in Bookings : a # b => booking'[a] = booking[a]
      /\ booking'[b].status = "booked" /\ booking'[b].room = r
      /\ booking'[b].checkin = from /\ booking'[b].checkout = to
      /\ booking'[b].nights = to - from
  BY <1>0 DEF ModifyReservation, TypeOK, Booking, HasStatus
<1>3. \A q \in Rooms, d \in Days :
        calendar'[q][d] = IF q = r /\ from <= d /\ d < to
                          THEN [booking |-> b, status |-> "booked"]
                          ELSE IF Holder(q, d) = b THEN Free ELSE calendar[q][d]
  BY <1>0, <1>00 DEF Insert, NightsFrom, Delete
<1>4. \A q \in Rooms, d \in Days :
        (Holder(q, d)' = b) <=> (q = r /\ from <= d /\ d < to)
  BY <1>3, CalendarAssumption DEF Holder, Free
<1>5. \A d \in Days : from <= d /\ d < to => Holder(r, d) \in {None, b}
  <2> SUFFICES ASSUME NEW d \in Days, from <= d, d < to, Holder(r, d) # b
               PROVE  Holder(r, d) = None
    OBVIOUS
  <2>1. Delete(b)[r][d] = Free
    BY <1>0 DEF ModifyReservation, AllFree, NightsFrom
  <2> QED BY <2>1, <1>0 DEF Delete, Free, Holder
<1>6. OwnCellsOnly(b)
  BY <1>3, <1>5 DEF OwnCellsOnly, Holder, Free
<1>7. RowsByCells(b)'
  BY <1>0, <1>2, <1>3, <1>4
  DEF RowsByCells, Live, HasStatus, Days, ModifyReservation, Dates
<1>8. RowsAreTheStay' /\ ComingNightsAreInItsRoom'
  BY InvByParts, OneBookingStep, <1>2, <1>4, <1>6, <1>7 DEF ModifyReservation
<1>9. OneStayPerOccupiedRoom'
  BY <1>0, <1>2, InvByParts, NobodyMoves DEF ModifyReservation, In, HasStatus
<1> QED BY <1>1, <1>8, <1>9, <1>6 DEF CalendarInv

LEMMA CheckInKeepsInv ==
  ASSUME CalendarInv, NEW b \in Bookings, NEW r \in Rooms, NEW n \in 1..MaxNights,
         CheckIn(b, r, n)
  PROVE  CalendarInv' /\ OwnCellsOnly(b)
<1> DEFINE row == [status |-> "active", room |-> r, checkin |-> today,
                   checkout |-> today + n, nights |-> n, scheduled |-> None]
<1>0. /\ TypeOK /\ RowsByCells(b) /\ today \in Days /\ today + n \in Days
      /\ calendar \in [Rooms -> [Days -> Row \cup {Free}]]
      /\ calendar' = Insert(calendar, b, r, today, today + n, "occupied")
      /\ n \in Int /\ n > 0
  BY InvByParts, CalendarAssumption DEF CheckIn, Dates
<1>1. TypeOK'
  <2>1. row \in Booking
    BY <1>0 DEF Booking, Statuses
  <2>2. booking' \in [Bookings -> Booking]
    BY <1>0, <2>1 DEF CheckIn, TypeOK
  <2>3. calendar' \in [Rooms -> [Days -> Row \cup {Free}]]
    BY <1>0, InsertType
  <2>4. \A a \in Bookings : HasStatus(a, "absent")' <=> booking'[a].room = None
    BY <1>0, CalendarAssumption DEF CheckIn, TypeOK, HasStatus
  <2>5. rooms' \in [Rooms -> {"vacant", "occupied"}]
    BY <1>0 DEF CheckIn, SetRoom, TypeOK
  <2> QED BY <1>0, <2>2, <2>3, <2>4, <2>5 DEF CheckIn, TypeOK
<1>2. /\ \A a \in Bookings : a # b => booking'[a] = booking[a]
      /\ booking'[b] = row
  BY <1>0 DEF CheckIn, TypeOK
<1>3. \A q \in Rooms, d \in Days :
        calendar'[q][d] = IF q = r /\ today <= d /\ d < today + n
                          THEN [booking |-> b, status |-> "occupied"] ELSE calendar[q][d]
  BY <1>0 DEF Insert, NightsFrom
<1>4. \A q \in Rooms, d \in Days :
        Holder(q, d)' = IF q = r /\ today <= d /\ d < today + n THEN b ELSE Holder(q, d)
  BY <1>3 DEF Holder
<1>5. OwnCellsOnly(b)
  BY <1>3, <1>4 DEF OwnCellsOnly, CheckIn, AllFree, NightsFrom, Holder, Free
<1>6. \A q \in Rooms, d \in Days : Holder(q, d) # b
  BY <1>0 DEF CheckIn, RowsByCells, HasStatus
<1>7. RowsByCells(b)'
  <2>1. PICK to \in Days : to = today + n /\ n = to - today
    BY <1>0 DEF Days
  <2>2. /\ booking'[b].nights = to - today /\ booking'[b].nights > 0
        /\ booking'[b].checkin = today /\ booking'[b].checkout = to
        /\ booking'[b].status = "active"
    BY <1>0, <1>2, <2>1
  <2>3. \A q \in Rooms, d \in Days :
          /\ Holder(q, d)' = b <=> q = r /\ today <= d /\ d < to
          /\ Holder(q, d)' = b => calendar'[q][d].status = "occupied"
    BY <1>3, <1>4, <1>6, <2>1
  <2> QED BY <2>2, <2>3 DEF RowsByCells, Live, HasStatus
<1>8. RowsAreTheStay' /\ ComingNightsAreInItsRoom'
  BY InvByParts, OneBookingStep, <1>2, <1>4, <1>5, <1>6, <1>7 DEF CheckIn
<1>9. OneStayPerOccupiedRoom'
  <2>1. In(b, r)' /\ ~ HasStatus(b, "active") /\ SetRoom(r, "vacant", "occupied")
    BY <1>2 DEF CheckIn, In, HasStatus
  <2> QED BY <1>0, <1>2, <2>1, InvByParts, GuestComesIn
<1> QED BY <1>1, <1>8, <1>9, <1>5 DEF CalendarInv

LEMMA BackfillKeepsInv ==
  ASSUME CalendarInv, NEW b \in Bookings, NEW r \in Rooms,
         NEW from \in Days, NEW to \in Days, Backfill(b, r, from, to)
  PROVE  CalendarInv' /\ OwnCellsOnly(b)
<1> DEFINE row == [status |-> IF to > today THEN "active" ELSE "checked_out",
                   room |-> r, checkin |-> from, checkout |-> to,
                   nights |-> to - from, scheduled |-> None]
<1>0. /\ TypeOK /\ RowsByCells(b) /\ today \in Days /\ from < to
      /\ calendar \in [Rooms -> [Days -> Row \cup {Free}]]
      /\ calendar' = Insert(calendar, b, r, from, to, "occupied")
      /\ today' = today
  BY InvByParts DEF Backfill, Dates
<1>1. TypeOK'
  <2>1. row \in Booking
    BY <1>0 DEF Booking, Statuses, Days
  <2>2. booking' \in [Bookings -> Booking]
    BY <1>0, <2>1 DEF Backfill, TypeOK
  <2>3. calendar' \in [Rooms -> [Days -> Row \cup {Free}]]
    BY <1>0, InsertType
  <2>4. \A a \in Bookings : HasStatus(a, "absent")' <=> booking'[a].room = None
    BY <1>0, CalendarAssumption DEF Backfill, TypeOK, HasStatus
  <2>5. rooms' \in [Rooms -> {"vacant", "occupied"}]
    BY <1>0 DEF Backfill, SetRoom, TypeOK
  <2> QED BY <1>0, <2>2, <2>3, <2>4, <2>5 DEF Backfill, TypeOK
<1>2. /\ \A a \in Bookings : a # b => booking'[a] = booking[a]
      /\ booking'[b] = row
  BY <1>0 DEF Backfill, TypeOK
<1>3. \A q \in Rooms, d \in Days :
        calendar'[q][d] = IF q = r /\ from <= d /\ d < to
                          THEN [booking |-> b, status |-> "occupied"] ELSE calendar[q][d]
  BY <1>0 DEF Insert, NightsFrom
<1>4. \A q \in Rooms, d \in Days :
        Holder(q, d)' = IF q = r /\ from <= d /\ d < to THEN b ELSE Holder(q, d)
  BY <1>3 DEF Holder
<1>5. OwnCellsOnly(b)
  BY <1>3, <1>4 DEF OwnCellsOnly, Backfill, AllFree, NightsFrom, Holder, Free
<1>6. \A q \in Rooms, d \in Days : Holder(q, d) # b
  BY <1>0 DEF Backfill, RowsByCells, HasStatus
<1>7. RowsByCells(b)'
  <2>1. CASE to > today
    BY <1>0, <1>2, <1>3, <1>4, <1>6, <2>1 DEF RowsByCells, Live, HasStatus, Days
  <2>2. CASE ~ (to > today)
    BY <1>0, <1>2, <1>4, <1>6, <2>2 DEF RowsByCells, Live, HasStatus, Days
  <2> QED BY <2>1, <2>2
<1>8. RowsAreTheStay' /\ ComingNightsAreInItsRoom'
  BY <1>0, InvByParts, OneBookingStep, <1>2, <1>4, <1>5, <1>6, <1>7
<1>9. OneStayPerOccupiedRoom'
  <2>1. CASE to > today
    <3>1. In(b, r)' /\ ~ HasStatus(b, "active") /\ SetRoom(r, "vacant", "occupied")
      BY <1>2, <2>1 DEF Backfill, In, HasStatus
    <3> QED BY <1>0, <1>2, <3>1, InvByParts, GuestComesIn
  <2>2. CASE ~ (to > today)
    BY <1>0, <1>2, <2>2, InvByParts, NobodyMoves DEF Backfill, In, HasStatus
  <2> QED BY <2>1, <2>2
<1> QED BY <1>1, <1>8, <1>9, <1>5 DEF CalendarInv

LEMMA CheckOutKeepsInv ==
  ASSUME CalendarInv, NEW b \in Bookings, CheckOut(b)
  PROVE  CalendarInv' /\ OwnCellsOnly(b)
<1>0. /\ TypeOK /\ RowsByCells(b) /\ booking[b] \in Booking /\ today \in Days
      /\ booking[b].room \in Rooms /\ HasStatus(b, "active")
      /\ calendar' = Delete(b)
      /\ SetRoom(booking[b].room, "occupied", "vacant")
  BY InvByParts DEF CheckOut, HasStatus
<1>1. PICK n \in SettledNights(b) :
        booking' = [booking EXCEPT ![b] =
                      [@ EXCEPT !.status = "checked_out", !.nights = n]]
  BY DEF CheckOut
<1>2. TypeOK'
  <2>1. n \in Int
    BY <1>0 DEF SettledNights, Booking, Days
  <2>2. [booking[b] EXCEPT !.status = "checked_out", !.nights = n] \in Booking
    BY <1>0, <2>1 DEF Booking, Statuses
  <2>3. booking' \in [Bookings -> Booking]
    BY <1>0, <1>1, <2>2 DEF TypeOK
  <2>4. \A a \in Bookings : HasStatus(a, "absent")' <=> booking'[a].room = None
    BY <1>0, <1>1 DEF TypeOK, HasStatus, Booking
  <2>5. rooms' \in [Rooms -> {"vacant", "occupied"}]
    BY <1>0 DEF SetRoom, TypeOK
  <2> QED BY <1>0, <2>3, <2>4, <2>5, DeleteType DEF CheckOut, TypeOK
<1>3. /\ \A a \in Bookings : a # b => booking'[a] = booking[a]
      /\ booking'[b].status = "checked_out"
  BY <1>0, <1>1 DEF TypeOK, Booking
<1>4. \A q \in Rooms, d \in Days :
        calendar'[q][d] = IF Holder(q, d) = b THEN Free ELSE calendar[q][d]
  BY <1>0 DEF Delete
<1>5. OwnCellsOnly(b) /\ \A q \in Rooms, d \in Days : Holder(q, d)' # b
  BY <1>4, CalendarAssumption DEF OwnCellsOnly, Holder, Free
<1>6. RowsByCells(b)'
  BY <1>3, <1>5 DEF RowsByCells, Live, HasStatus
<1>7. RowsAreTheStay' /\ ComingNightsAreInItsRoom'
  BY InvByParts, OneBookingStep, <1>3, <1>5, <1>6 DEF CheckOut
<1>8. OneStayPerOccupiedRoom'
  BY <1>0, <1>3, InvByParts, GuestGoes DEF HasStatus
<1> QED BY <1>2, <1>7, <1>8, <1>5 DEF CalendarInv

LEMMA VoidBookingKeepsInv ==
  ASSUME CalendarInv, NEW b \in Bookings, VoidBooking(b)
  PROVE  CalendarInv' /\ OwnCellsOnly(b)
<1>0. /\ TypeOK /\ RowsByCells(b) /\ booking[b] \in Booking
      /\ booking[b].room \in Rooms /\ calendar' = Delete(b)
  BY InvByParts DEF VoidBooking, HasStatus
<1>1. TypeOK'
  <2>1. [booking[b] EXCEPT !.status = "voided"] \in Booking
    BY <1>0 DEF Booking, Statuses
  <2>2. booking' \in [Bookings -> Booking]
    BY <1>0, <2>1 DEF VoidBooking, TypeOK
  <2>3. \A a \in Bookings : HasStatus(a, "absent")' <=> booking'[a].room = None
    BY <1>0 DEF VoidBooking, TypeOK, HasStatus, Booking
  <2>4. rooms' \in [Rooms -> {"vacant", "occupied"}]
    BY <1>0 DEF VoidBooking, SetRoom, TypeOK
  <2> QED BY <1>0, <2>2, <2>3, <2>4, DeleteType DEF VoidBooking, TypeOK
<1>2. /\ \A a \in Bookings : a # b => booking'[a] = booking[a]
      /\ booking'[b].status = "voided"
  BY <1>0 DEF VoidBooking, TypeOK, Booking
<1>3. \A q \in Rooms, d \in Days :
        calendar'[q][d] = IF Holder(q, d) = b THEN Free ELSE calendar[q][d]
  BY <1>0 DEF Delete
<1>4. OwnCellsOnly(b) /\ \A q \in Rooms, d \in Days : Holder(q, d)' # b
  BY <1>3, CalendarAssumption DEF OwnCellsOnly, Holder, Free
<1>5. RowsByCells(b)'
  BY <1>2, <1>4 DEF RowsByCells, Live, HasStatus
<1>6. RowsAreTheStay' /\ ComingNightsAreInItsRoom'
  BY InvByParts, OneBookingStep, <1>2, <1>4, <1>5 DEF VoidBooking
<1>7. OneStayPerOccupiedRoom'
  <2>1. CASE HasStatus(b, "active")
    BY <1>0, <1>2, <2>1, InvByParts, GuestGoes DEF VoidBooking, HasStatus
  <2>2. CASE ~ HasStatus(b, "active")
    BY <1>2, <2>2, InvByParts, NobodyMoves DEF VoidBooking, In, HasStatus
  <2> QED BY <2>1, <2>2
<1> QED BY <1>1, <1>6, <1>7, <1>4 DEF CalendarInv

\* What extend and shorten write to the booking.
LEMMA NewCheckoutType ==
  ASSUME TypeOK, NEW b \in Bookings, NEW d \in Days
  PROVE  /\ NewCheckout(b, d) \in Booking
         /\ NewCheckout(b, d).status = booking[b].status
         /\ NewCheckout(b, d).room = booking[b].room
         /\ NewCheckout(b, d).checkin = booking[b].checkin
         /\ NewCheckout(b, d).checkout = d
         /\ NewCheckout(b, d).nights = booking[b].nights + d - booking[b].checkout
<1>1. booking[b] \in Booking
  BY DEF TypeOK
<1>2. booking[b].nights + d - booking[b].checkout \in Int
  BY <1>1 DEF Booking, Days
<1>3. (IF booking[b].scheduled = None THEN None ELSE d) \in Days \cup {None}
  OBVIOUS
<1> QED BY <1>1, <1>2, <1>3 DEF NewCheckout, Booking

LEMMA ExtendStayKeepsInv ==
  ASSUME CalendarInv, NEW b \in Bookings, ExtendStay(b)
  PROVE  CalendarInv' /\ OwnCellsOnly(b)
<1> DEFINE r == booking[b].room
           old == booking[b].checkout
<1>0. /\ TypeOK /\ RowsByCells(b) /\ booking[b] \in Booking /\ today \in Days
      /\ r \in Rooms /\ HasStatus(b, "active")
      /\ calendar \in [Rooms -> [Days -> Row \cup {Free}]]
      /\ old \in Days /\ old + 1 \in Days
      /\ calendar' = Insert(calendar, b, r, old, old + 1, "occupied")
  BY InvByParts, CalendarAssumption DEF ExtendStay, HasStatus, Booking, Days
<1>1. TypeOK'
  <2>1. booking' \in [Bookings -> Booking]
    BY <1>0, NewCheckoutType DEF ExtendStay, TypeOK
  <2>2. calendar' \in [Rooms -> [Days -> Row \cup {Free}]]
    BY <1>0, InsertType
  <2>3. \A a \in Bookings : HasStatus(a, "absent")' <=> booking'[a].room = None
    BY <1>0, NewCheckoutType DEF ExtendStay, TypeOK, HasStatus
  <2> QED BY <1>0, <2>1, <2>2, <2>3 DEF ExtendStay, TypeOK
<1>2. /\ \A a \in Bookings : a # b => booking'[a] = booking[a]
      /\ booking'[b].status = "active" /\ booking'[b].room = r
      /\ booking'[b].checkin = booking[b].checkin
      /\ booking'[b].checkout = old + 1
      /\ booking'[b].nights = booking[b].nights + (old + 1) - old
  BY <1>0, NewCheckoutType DEF ExtendStay, TypeOK, HasStatus
<1>3. \A q \in Rooms, d \in Days :
        calendar'[q][d] = IF q = r /\ d = old
                          THEN [booking |-> b, status |-> "occupied"]
                          ELSE calendar[q][d]
  BY <1>0 DEF Insert, NightsFrom, Days
<1>4. \A q \in Rooms, d \in Days :
        Holder(q, d)' = IF q = r /\ d = old THEN b ELSE Holder(q, d)
  BY <1>3 DEF Holder
<1>5. OwnCellsOnly(b)
  <2>1. calendar[r][old] = Free
    BY <1>0 DEF ExtendStay, AllFree, NightsFrom, Days
  <2> QED BY <1>3, <1>4, <2>1 DEF OwnCellsOnly, Holder, Free
<1>6. RowsByCells(b)'
  <2> USE <1>0, <1>2 DEF Days
  <2>1. booking'[b].nights = booking'[b].checkout - booking'[b].checkin
          /\ booking'[b].nights > 0
    BY DEF RowsByCells, Live, HasStatus, Booking
  <2>2. \A q \in Rooms, d \in Days : Holder(q, d)' = b =>
          /\ booking'[b].checkin <= d
          /\ d < booking'[b].checkout
          /\ calendar'[q][d].status # "booked"
          /\ \A p \in Rooms : Holder(p, d)' = b => p = q
    <3>1. \A q \in Rooms, d \in Days : Holder(q, d) = b =>
            /\ booking[b].checkin <= d
            /\ d < old
            /\ calendar[q][d].status # "booked"
            /\ \A p \in Rooms : Holder(p, d) = b => p = q
      BY DEF RowsByCells, Live, HasStatus
    <3>2. booking[b].checkin <= old
      BY DEF RowsByCells, Live, HasStatus, Booking
    <3>3. ASSUME NEW q \in Rooms, NEW d \in Days, Holder(q, d)' = b, d # old
          PROVE  /\ booking[b].checkin <= d
                 /\ d < old + 1
                 /\ calendar'[q][d].status # "booked"
                 /\ \A p \in Rooms : Holder(p, d)' = b => p = q
      BY <1>3, <1>4, <3>1, <3>3
    <3>4. ASSUME NEW q \in Rooms, NEW d \in Days, Holder(q, d)' = b, d = old
          PROVE  /\ booking[b].checkin <= d
                 /\ d < old + 1
                 /\ calendar'[q][d].status # "booked"
                 /\ \A p \in Rooms : Holder(p, d)' = b => p = q
      <4>1. \A p \in Rooms : Holder(p, d) # b
        BY <3>1, <3>4
      <4>2. q = r /\ calendar'[q][d] = [booking |-> b, status |-> "occupied"]
        BY <1>3, <1>4, <3>4, <4>1
      <4>3. booking[b].checkin <= d /\ d < old + 1
        BY <3>2, <3>4
      <4>4. calendar'[q][d].status = "occupied"
        BY <4>2
      <4>5. \A p \in Rooms : Holder(p, d)' = b => p = r
        BY <1>4, <4>1
      <4> QED BY <4>2, <4>3, <4>4, <4>5
    <3> QED BY <3>3, <3>4
  <2>3. \A d \in Days : booking'[b].checkin <= d /\ d < booking'[b].checkout
          => \E q \in Rooms : Holder(q, d)' = b
    <3> SUFFICES ASSUME NEW d \in Days, booking[b].checkin <= d, d < old + 1
                 PROVE  \E q \in Rooms : Holder(q, d)' = b
      OBVIOUS
    <3>1. CASE d = old
      BY <1>4, <3>1
    <3>2. CASE d # old
      <4>1. d < old
        BY <3>2
      <4>2. PICK q \in Rooms : Holder(q, d) = b
        BY <4>1 DEF RowsByCells, Live, HasStatus
      <4> QED BY <1>4, <4>2
    <3> QED BY <3>1, <3>2
  <2> QED BY <2>1, <2>2, <2>3 DEF RowsByCells, Live, HasStatus
<1>7. \A q \in Rooms, d \in Days : d >= today /\ Holder(q, d)' = b => q = r
  BY <1>4, InvByParts, CalendarAssumption DEF ComingNightsAreInItsRoom
<1>8. RowsAreTheStay' /\ ComingNightsAreInItsRoom'
  BY InvByParts, OneBookingStep, <1>2, <1>5, <1>6, <1>7 DEF ExtendStay
<1>9. OneStayPerOccupiedRoom'
  BY <1>0, <1>2, InvByParts, NobodyMoves DEF ExtendStay, In, HasStatus
<1> QED BY <1>1, <1>8, <1>9, <1>5 DEF CalendarInv

LEMMA ShortenStayKeepsInv ==
  ASSUME CalendarInv, NEW c \in Clerks, NEW b \in Bookings,
         clicked[c].booking = b, ShortenStay(c)
  PROVE  CalendarInv' /\ OwnCellsOnly(b)
<1> DEFINE r == booking[b].room
           freed == booking[b].checkout - 1
<1>0. /\ TypeOK /\ RowsByCells(b) /\ booking[b] \in Booking /\ today \in Days
      /\ r \in Rooms /\ HasStatus(b, "active")
      /\ calendar \in [Rooms -> [Days -> Row \cup {Free}]]
      /\ freed \in Days /\ freed > booking[b].checkin
      /\ Holder(r, freed) = b
      /\ booking' = [booking EXCEPT ![b] = NewCheckout(b, freed)]
      /\ calendar' = [calendar EXCEPT ![r][freed] = Free]
      /\ UNCHANGED <<today, rooms>>
  BY InvByParts, CalendarAssumption DEF ShortenStay, HasStatus, Booking, Days
<1>1. TypeOK'
  <2>1. booking' \in [Bookings -> Booking]
    BY <1>0, NewCheckoutType DEF TypeOK
  <2>2. calendar' \in [Rooms -> [Days -> Row \cup {Free}]]
    BY <1>0
  <2>3. \A a \in Bookings : HasStatus(a, "absent")' <=> booking'[a].room = None
    BY <1>0, NewCheckoutType DEF TypeOK, HasStatus
  <2>4. clicked' \in [Clerks -> Click]
    BY <1>0 DEF ShortenStay, TypeOK, Click
  <2> QED BY <1>0, <2>1, <2>2, <2>3, <2>4 DEF TypeOK
<1>2. /\ \A a \in Bookings : a # b => booking'[a] = booking[a]
      /\ booking'[b].status = "active" /\ booking'[b].room = r
      /\ booking'[b].checkin = booking[b].checkin
      /\ booking'[b].checkout = freed
      /\ booking'[b].nights = booking[b].nights + freed - booking[b].checkout
  BY <1>0, NewCheckoutType DEF TypeOK, HasStatus
<1>3. \A q \in Rooms, d \in Days :
        calendar'[q][d] = IF q = r /\ d = freed THEN Free ELSE calendar[q][d]
  BY <1>0
<1>4. \A q \in Rooms, d \in Days :
        Holder(q, d)' = IF q = r /\ d = freed THEN None ELSE Holder(q, d)
  BY <1>3 DEF Holder, Free
<1>5. OwnCellsOnly(b)
  BY <1>0, <1>3, <1>4 DEF OwnCellsOnly
<1>6. RowsByCells(b)'
  <2> USE <1>0, <1>2, CalendarAssumption
  <2>1. booking'[b].nights = booking'[b].checkout - booking'[b].checkin
          /\ booking'[b].nights > 0
    BY DEF RowsByCells, Live, HasStatus, Booking, Days
  <2>2. \A q \in Rooms, d \in Days : Holder(q, d)' = b =>
          /\ booking'[b].checkin <= d
          /\ d < booking'[b].checkout
          /\ calendar'[q][d].status # "booked"
          /\ \A p \in Rooms : Holder(p, d)' = b => p = q
    <3>1. \A q \in Rooms, d \in Days : Holder(q, d) = b =>
            /\ booking[b].checkin <= d
            /\ d < booking[b].checkout
            /\ calendar[q][d].status # "booked"
            /\ \A p \in Rooms : Holder(p, d) = b => p = q
      BY DEF RowsByCells, Live, HasStatus
    <3> SUFFICES ASSUME NEW q \in Rooms, NEW d \in Days, Holder(q, d)' = b
                 PROVE  /\ booking[b].checkin <= d
                        /\ d < freed
                        /\ calendar'[q][d].status # "booked"
                        /\ \A p \in Rooms : Holder(p, d)' = b => p = q
      OBVIOUS
    <3>2. Holder(q, d) = b /\ calendar'[q][d] = calendar[q][d]
      BY <1>3, <1>4
    <3>3. d # freed
      BY <1>4, <3>1, <3>2
    <3>4. d < freed
      BY <3>1, <3>2, <3>3 DEF Booking, Days
    <3> QED BY <1>4, <3>1, <3>2, <3>4
  <2>3. \A d \in Days : booking'[b].checkin <= d /\ d < booking'[b].checkout
          => \E q \in Rooms : Holder(q, d)' = b
    <3> SUFFICES ASSUME NEW d \in Days, booking[b].checkin <= d, d < freed
                 PROVE  \E q \in Rooms : Holder(q, d)' = b
      OBVIOUS
    <3>1. d < booking[b].checkout /\ d # freed
      BY DEF Booking, Days
    <3>2. PICK q \in Rooms : Holder(q, d) = b
      BY <3>1 DEF RowsByCells, Live, HasStatus
    <3> QED BY <1>4, <3>1, <3>2
  <2> QED BY <2>1, <2>2, <2>3 DEF RowsByCells, Live, HasStatus
<1>7. \A q \in Rooms, d \in Days : d >= today /\ Holder(q, d)' = b => q = r
  BY <1>4, InvByParts, CalendarAssumption DEF ComingNightsAreInItsRoom
<1>8. RowsAreTheStay' /\ ComingNightsAreInItsRoom'
  BY InvByParts, OneBookingStep, <1>0, <1>2, <1>5, <1>6, <1>7
<1>9. OneStayPerOccupiedRoom'
  BY <1>0, <1>2, InvByParts, NobodyMoves DEF In, HasStatus
<1> QED BY <1>1, <1>8, <1>9, <1>5 DEF CalendarInv

\* The coming nights go from one room to the other, cell by cell.
LEMMA MoveCells ==
  ASSUME CalendarInv, NEW b \in Bookings, NEW r \in Rooms, ChangeRoom(b, r)
  PROVE  LET old == booking[b].room
             coming(d) == d >= today /\ Holder(old, d) = b
         IN  /\ \A d \in Days : coming(d) => calendar[r][d] = Free
             /\ \A q \in Rooms, d \in Days :
                  calendar'[q][d] = IF ~ coming(d) THEN calendar[q][d]
                                    ELSE IF q = r THEN calendar[old][d]
                                    ELSE IF q = old THEN Free
                                    ELSE calendar[q][d]
<1> DEFINE old == booking[b].room
           coming(d) == d >= today /\ Holder(old, d) = b
<1>0. TypeOK /\ old \in Rooms /\ r # old
  BY InvByParts DEF ChangeRoom, HasStatus
<1>1. \A q \in Rooms, d \in Days : d >= today /\ Holder(q, d) = b => q = old
  BY InvByParts, CalendarAssumption DEF ComingNightsAreInItsRoom
<1>2. \A d \in Days : d \in Remaining(b) <=> coming(d)
  BY <1>0, <1>1 DEF Remaining, NightsOf
<1>3. \A d \in Days : coming(d) => calendar[r][d] = Free
  <2> SUFFICES ASSUME NEW d \in Days, coming(d) PROVE calendar[r][d] = Free
    OBVIOUS
  <2>1. Holder(r, d) \in {None, b}
    BY <1>2 DEF ChangeRoom, OpenFor, Days
  <2>2. Holder(r, d) # b
    BY <1>0, <1>1
  <2> QED BY <1>0, <2>1, <2>2, RowOrFree
<1>4. ASSUME NEW q \in Rooms, NEW d \in Days
      PROVE  calendar'[q][d] = IF ~ coming(d) THEN calendar[q][d]
                               ELSE IF q = r THEN calendar[old][d]
                               ELSE IF q = old THEN Free
                               ELSE calendar[q][d]
  <2>1. calendar'[q][d] =
          IF d \notin Remaining(b) THEN calendar[q][d]
          ELSE IF q = r THEN calendar[CHOOSE p \in Rooms : Holder(p, d) = b][d]
          ELSE IF Holder(q, d) = b THEN Free ELSE calendar[q][d]
    BY DEF ChangeRoom, Move
  <2>2. CASE ~ coming(d)
    BY <1>2, <2>1, <2>2
  <2>3. CASE coming(d)
    <3>1. d \in Remaining(b) /\ Holder(old, d) = b /\ d >= today
      BY <1>2, <2>3
    <3>2. (CHOOSE p \in Rooms : Holder(p, d) = b) = old
      <4> DEFINE p == CHOOSE p \in Rooms : Holder(p, d) = b
      <4>1. p \in Rooms /\ Holder(p, d) = b
        BY <1>0, <3>1
      <4> QED BY <1>1, <3>1, <4>1
    <3>3. (Holder(q, d) = b) <=> q = old
      BY <1>0, <1>1, <3>1
    <3> QED BY <2>1, <2>3, <3>1, <3>2, <3>3
  <2> QED BY <2>2, <2>3
<1> QED BY <1>3, <1>4

LEMMA ChangeRoomKeepsInv ==
  ASSUME CalendarInv, NEW b \in Bookings, NEW r \in Rooms, ChangeRoom(b, r)
  PROVE  CalendarInv' /\ OwnCellsOnly(b)
<1> DEFINE old == booking[b].room
           coming(d) == d >= today /\ Holder(old, d) = b
<1>0. /\ TypeOK /\ RowsByCells(b) /\ booking[b] \in Booking /\ today \in Days
      /\ old \in Rooms /\ r # old /\ Live(b)
      /\ calendar \in [Rooms -> [Days -> Row \cup {Free}]]
      /\ booking' = [booking EXCEPT ![b].room = r]
      /\ UNCHANGED <<today, clicked>>
  BY InvByParts DEF ChangeRoom, HasStatus, Live
<1>1. \A d \in Days : coming(d) => calendar[r][d] = Free
  BY MoveCells
<1>2. \A q \in Rooms, d \in Days :
        calendar'[q][d] = IF ~ coming(d) THEN calendar[q][d]
                          ELSE IF q = r THEN calendar[old][d]
                          ELSE IF q = old THEN Free
                          ELSE calendar[q][d]
  BY MoveCells
<1>3. TypeOK'
  <2>1. booking' \in [Bookings -> Booking]
    BY <1>0 DEF TypeOK, Booking
  <2>2. calendar' \in [Rooms -> [Days -> Row \cup {Free}]]
    <3>1. calendar' = [q \in Rooms |-> [d \in Days |-> calendar'[q][d]]]
      BY DEF ChangeRoom, Move
    <3>2. \A q \in Rooms, d \in Days : calendar'[q][d] \in Row \cup {Free}
      BY <1>0, <1>2
    <3> QED BY <3>1, <3>2
  <2>3. rooms' \in [Rooms -> {"vacant", "occupied"}]
    BY <1>0 DEF ChangeRoom, TypeOK
  <2>4. \A a \in Bookings : HasStatus(a, "absent")' <=> booking'[a].room = None
    BY <1>0, CalendarAssumption DEF TypeOK, HasStatus, Booking, Live
  <2> QED BY <1>0, <2>1, <2>2, <2>3, <2>4 DEF TypeOK
<1>4. /\ \A a \in Bookings : a # b => booking'[a] = booking[a]
      /\ booking'[b].status = booking[b].status /\ booking'[b].room = r
      /\ booking'[b].checkin = booking[b].checkin
      /\ booking'[b].checkout = booking[b].checkout
      /\ booking'[b].nights = booking[b].nights
  BY <1>0 DEF TypeOK, Booking
<1>5. \A q \in Rooms, d \in Days :
        Holder(q, d)' = IF ~ coming(d) THEN Holder(q, d)
                        ELSE IF q = r THEN b
                        ELSE IF q = old THEN None ELSE Holder(q, d)
  BY <1>2 DEF Holder, Free
<1>6. OwnCellsOnly(b)
  BY <1>0, <1>1, <1>2, <1>5 DEF OwnCellsOnly, Holder, Free
<1>7. \A q \in Rooms, d \in Days : d >= today /\ Holder(q, d) = b => q = old
  BY InvByParts, CalendarAssumption DEF ComingNightsAreInItsRoom
<1>8. \A q \in Rooms, d \in Days : d >= today /\ Holder(q, d)' = b => q = r
  BY <1>0, <1>5, <1>7, CalendarAssumption
<1>9. RowsByCells(b)'
  <2>1. \A q \in Rooms, d \in Days : Holder(q, d) = b =>
          /\ booking[b].checkin <= d
          /\ d < booking[b].checkout
          /\ (calendar[q][d].status = "booked" <=> HasStatus(b, "booked"))
          /\ \A p \in Rooms : Holder(p, d) = b => p = q
    BY <1>0 DEF RowsByCells
  <2>2. \A q \in Rooms, d \in Days : Holder(q, d)' = b =>
          /\ booking'[b].checkin <= d
          /\ d < booking'[b].checkout
          /\ (calendar'[q][d].status = "booked" <=> HasStatus(b, "booked")')
          /\ \A p \in Rooms : Holder(p, d)' = b => p = q
    <3> SUFFICES ASSUME NEW q \in Rooms, NEW d \in Days, Holder(q, d)' = b
                 PROVE  /\ booking[b].checkin <= d
                        /\ d < booking[b].checkout
                        /\ (calendar'[q][d].status = "booked" <=> HasStatus(b, "booked"))
                        /\ \A p \in Rooms : Holder(p, d)' = b => p = q
      BY <1>4 DEF HasStatus
    <3>1. CASE coming(d)
      <4>1. q = r /\ calendar'[q][d] = calendar[old][d]
        BY <1>0, <1>2, <1>5, <1>7, <3>1, CalendarAssumption
      <4>2. \A p \in Rooms : Holder(p, d)' = b => p = r
        BY <1>8, <3>1
      <4> QED BY <1>0, <2>1, <3>1, <4>1, <4>2
    <3>2. CASE ~ coming(d)
      <4>1. calendar'[q][d] = calendar[q][d]
              /\ \A p \in Rooms : Holder(p, d)' = Holder(p, d)
        BY <1>2, <1>5, <3>2
      <4> QED BY <2>1, <4>1
    <3> QED BY <3>1, <3>2
  <2>3. \A d \in Days : booking'[b].checkin <= d /\ d < booking'[b].checkout
          => \E q \in Rooms : Holder(q, d)' = b
    <3> SUFFICES ASSUME NEW d \in Days, booking[b].checkin <= d,
                        d < booking[b].checkout
                 PROVE  \E q \in Rooms : Holder(q, d)' = b
      BY <1>4
    <3>1. PICK q \in Rooms : Holder(q, d) = b
      BY <1>0 DEF RowsByCells
    <3>2. CASE coming(d)
      BY <1>5, <3>2
    <3>3. CASE ~ coming(d)
      BY <1>5, <3>1, <3>3
    <3> QED BY <3>2, <3>3
  <2>4. Live(b)' /\ (booking'[b].nights = booking'[b].checkout - booking'[b].checkin)
          /\ booking'[b].nights > 0
    BY <1>0, <1>4 DEF RowsByCells, Live
  <2> QED BY <2>2, <2>3, <2>4 DEF RowsByCells, Live, HasStatus
<1>10. RowsAreTheStay' /\ ComingNightsAreInItsRoom'
  BY InvByParts, OneBookingStep, <1>0, <1>4, <1>6, <1>8, <1>9
<1>11. OneStayPerOccupiedRoom'
  <2>1. CASE ~ HasStatus(b, "active")
    BY <1>0, <1>4, <2>1, InvByParts, NobodyMoves DEF ChangeRoom, In, HasStatus
  <2>2. CASE HasStatus(b, "active")
    <3>1. /\ rooms[old] = "occupied" /\ rooms[r] = "vacant"
          /\ rooms' = [rooms EXCEPT ![old] = "vacant", ![r] = "occupied"]
      BY <2>2 DEF ChangeRoom
    <3>2. \A q \in Rooms : rooms'[q] = IF q = r THEN "occupied"
                                       ELSE IF q = old THEN "vacant" ELSE rooms[q]
      BY <1>0, <3>1 DEF TypeOK
    <3>3. \A a \in Bookings, q \in Rooms :
            In(a, q)' <=> IF a = b THEN q = r ELSE In(a, q)
      BY <1>4, <2>2 DEF In, HasStatus
    <3>4. OneStayPerOccupiedRoom /\ In(b, old)
      BY <2>2, InvByParts DEF In
    <3>5. \A a \in Bookings : ~ In(a, r)
      BY <3>1, <3>4, GridByRooms
    <3>6. \A a \in Bookings : In(a, old) => a = b
      BY <1>0, <3>4, GridByRooms
    <3>7. ASSUME NEW q \in Rooms
          PROVE  /\ (rooms'[q] = "occupied") <=> (\E a \in Bookings : In(a, q)')
                 /\ \A a, c \in Bookings : In(a, q)' /\ In(c, q)' => a = c
      <4>1. CASE q = r
        BY <3>2, <3>3, <3>5, <4>1
      <4>2. CASE q = old
        BY <1>0, <3>2, <3>3, <3>6, <4>2
      <4>3. CASE q # r /\ q # old
        <5>1. ~ In(b, q)
          BY <4>3 DEF In
        <5>2. \A a \in Bookings : In(a, q)' <=> In(a, q)
          BY <3>3, <4>3, <5>1
        <5> QED BY <3>2, <3>4, <4>3, <5>2, GridByRooms
      <4> QED BY <4>1, <4>2, <4>3
    <3> QED BY <3>7, GridByRoomsNext
  <2> QED BY <2>1, <2>2
<1> QED BY <1>3, <1>10, <1>11, <1>6 DEF CalendarInv

\* The steps of a desk's command outside its transaction write no row.
LEMMA DeskKeepsInv ==
  ASSUME CalendarInv, NEW c \in Clerks,
         GiveUpShorten(c) \/ \E b \in Bookings : LookupExpectedCheckout(c, b)
  PROVE  CalendarInv'
<1>1. UNCHANGED <<today, booking, calendar, rooms>>
  BY DEF GiveUpShorten, LookupExpectedCheckout
<1>2. clicked' \in [Clerks -> Click]
  <2>1. CASE GiveUpShorten(c)
    BY <2>1 DEF GiveUpShorten, CalendarInv, TypeOK, Click
  <2>2. ASSUME NEW b \in Bookings, LookupExpectedCheckout(c, b)
        PROVE  clicked' \in [Clerks -> Click]
    <3>1. [booking |-> b, checkout |-> booking[b].checkout] \in Click
      BY DEF CalendarInv, TypeOK, Booking, Click
    <3> QED BY <2>2, <3>1 DEF LookupExpectedCheckout, CalendarInv, TypeOK
  <2> QED BY <2>1, <2>2
<1>3. TypeOK'
  BY <1>1, <1>2 DEF CalendarInv, TypeOK, HasStatus
<1>4. RowsAreTheStay'
  BY <1>1 DEF CalendarInv, RowsAreTheStay, RowsOfStay, Live, HasStatus, NightsOf, Holder
<1>5. ComingNightsAreInItsRoom' /\ OneStayPerOccupiedRoom'
  BY <1>1 DEF CalendarInv, ComingNightsAreInItsRoom, OneStayPerOccupiedRoom, HasStatus, Holder
<1> QED BY <1>3, <1>4, <1>5 DEF CalendarInv

LEMMA TickKeepsInv ==
  ASSUME CalendarInv, Tick
  PROVE  CalendarInv'
<1>1. today \in Days /\ today' = today + 1 /\ today' \in Days
  BY CalendarAssumption DEF Tick, CalendarInv, TypeOK, Days
<1>2. TypeOK'
  BY <1>1 DEF Tick, CalendarInv, TypeOK, HasStatus
<1>3. ASSUME NEW b \in Bookings PROVE RowsByCells(b)'
  BY <1>1, InvByParts DEF Tick, RowsByCells, Live, HasStatus, Holder, Days
<1>4. RowsAreTheStay'
  BY <1>3, RowsAreCellsNext DEF RowsAreTheStay
<1>5. ComingNightsAreInItsRoom'
  BY <1>1 DEF Tick, CalendarInv, ComingNightsAreInItsRoom, Holder, Days
<1>6. OneStayPerOccupiedRoom'
  BY DEF Tick, CalendarInv, OneStayPerOccupiedRoom, HasStatus
<1> QED BY <1>2, <1>4, <1>5, <1>6 DEF CalendarInv

-----------------------------------------------------------------------------
(* The theorems. *)

LEMMA InitEstablishesInv == Init => CalendarInv
<1> SUFFICES ASSUME Init PROVE CalendarInv
  OBVIOUS
<1>1. TypeOK
  BY CalendarAssumption
  DEF Init, TypeOK, Days, Booking, Statuses, NotInserted, NoClick, Click, HasStatus
<1>2. \A r \in Rooms, d \in Days : Holder(r, d) = None
  BY DEF Init, Holder, Free
<1>3. ASSUME NEW b \in Bookings PROVE RowsOfStay(b)
  BY <1>2, CalendarAssumption
  DEF Init, RowsOfStay, Live, HasStatus, NightsOf, NotInserted
<1>4. OneStayPerOccupiedRoom
  BY DEF Init, OneStayPerOccupiedRoom, HasStatus, NotInserted
<1> QED BY <1>1, <1>2, <1>3, <1>4
        DEF CalendarInv, RowsAreTheStay, ComingNightsAreInItsRoom

LEMMA NextKeepsInv == CalendarInv /\ [Next]_vars => CalendarInv'
<1> SUFFICES ASSUME CalendarInv, [Next]_vars PROVE CalendarInv'
  OBVIOUS
<1>1. CASE Tick
  BY <1>1, TickKeepsInv
<1>2. ASSUME NEW c \in Clerks, ShortenStay(c) PROVE CalendarInv'
  <2>1. clicked[c].booking \in Bookings
    BY <1>2 DEF ShortenStay, CalendarInv, TypeOK, Click
  <2> QED BY <1>2, <2>1, ShortenStayKeepsInv
<1>3. ASSUME NEW c \in Clerks,
             GiveUpShorten(c) \/ \E b \in Bookings : LookupExpectedCheckout(c, b)
      PROVE  CalendarInv'
  BY <1>3, DeskKeepsInv
<1>4. ASSUME NEW b \in Bookings,
             \/ CancelReservation(b) \/ ConfirmReservation(b) \/ CheckOut(b)
             \/ ExtendStay(b) \/ VoidBooking(b)
      PROVE  CalendarInv'
  BY <1>4, CancelReservationKeepsInv, ConfirmReservationKeepsInv,
     CheckOutKeepsInv, ExtendStayKeepsInv, VoidBookingKeepsInv
<1>5. ASSUME NEW b \in Bookings, NEW from \in Days, NEW to \in Days,
             ModifyReservation(b, from, to)
      PROVE  CalendarInv'
  BY <1>5, ModifyReservationKeepsInv
<1>6. ASSUME NEW b \in Bookings, NEW r \in Rooms,
             ChangeRoom(b, r) \/ \E n \in 1..MaxNights : CheckIn(b, r, n)
      PROVE  CalendarInv'
  BY <1>6, ChangeRoomKeepsInv, CheckInKeepsInv
<1>7. ASSUME NEW b \in Bookings, NEW r \in Rooms, NEW from \in Days, NEW to \in Days,
             CreateReservation(b, r, from, to) \/ Backfill(b, r, from, to)
      PROVE  CalendarInv'
  BY <1>7, CreateReservationKeepsInv, BackfillKeepsInv
<1>8. CASE UNCHANGED vars
  BY <1>8 DEF vars, CalendarInv, TypeOK, RowsAreTheStay, RowsOfStay, Live, HasStatus,
     NightsOf, Holder, ComingNightsAreInItsRoom, OneStayPerOccupiedRoom
<1> QED BY <1>1, <1>2, <1>3, <1>4, <1>5, <1>6, <1>7, <1>8 DEF Next

THEOREM CalendarInvariant == Spec => []CalendarInv
<1> QED BY InitEstablishesInv, NextKeepsInv, PTL DEF Spec

\* For any number of bookings, rooms and days, a live booking's nights, dates
\* and calendar rows say the same after every command (stay_lifecycle,
\* reservation_lifecycle, room_change, void_lifecycle, backfill).
THEOREM CalendarRowsAreTheStay == Spec => []RowsAreTheStay
<1>1. CalendarInv => RowsAreTheStay
  BY DEF CalendarInv
<1> QED BY <1>1, CalendarInvariant, PTL

\* The tables keep their types.
THEOREM CalendarTypes == Spec => []TypeOK
<1>1. CalendarInv => TypeOK
  BY DEF CalendarInv
<1> QED BY <1>1, CalendarInvariant, PTL

\* Extend and shorten always find their night in the booking's current room.
THEOREM CalendarRooms == Spec => []ComingNightsAreInItsRoom
<1>1. CalendarInv => ComingNightsAreInItsRoom
  BY DEF CalendarInv
<1> QED BY <1>1, CalendarInvariant, PTL

\* The room grid holds one guest in each occupied room and none elsewhere.
THEOREM CalendarGrid == Spec => []OneStayPerOccupiedRoom
<1>1. CalendarInv => OneStayPerOccupiedRoom
  BY DEF CalendarInv
<1> QED BY <1>1, CalendarInvariant, PTL

\* However many desks click at once, a click takes off the night its desk saw.
THEOREM DesksTakeTheNightSeen == Spec => ShortenTakesTheNightSeen
<1>1. CalendarInv /\ [Next]_vars =>
        [\A c \in Clerks : \A b \in Bookings :
           /\ clicked[c].booking = b
           /\ clicked'[c] = NoClick
           /\ booking'[b].checkout < booking[b].checkout
           => booking'[b].checkout = clicked[c].checkout - 1]_vars
  <2> SUFFICES ASSUME CalendarInv, Next, NEW c \in Clerks, NEW b \in Bookings,
                      clicked[c].booking = b, clicked'[c] = NoClick,
                      booking'[b].checkout < booking[b].checkout
               PROVE  booking'[b].checkout = clicked[c].checkout - 1
    BY DEF vars
  <2>1. clicked'[c] # clicked[c] /\ clicked[c] # NoClick
    BY CalendarAssumption DEF NoClick
  <2>2. booking' # booking
    BY DEF CalendarInv, TypeOK, Booking, Days
  <2>3. PICK e \in Clerks :
          \/ ShortenStay(e) \/ GiveUpShorten(e)
          \/ \E a \in Bookings : LookupExpectedCheckout(e, a)
    <3>1. \A a \in Bookings :
            CancelReservation(a) \/ ConfirmReservation(a) \/ CheckOut(a)
              \/ ExtendStay(a) \/ VoidBooking(a) => clicked' = clicked
      BY DEF CancelReservation, ConfirmReservation, CheckOut, ExtendStay, VoidBooking
    <3>2. \A a \in Bookings, from, to \in Days :
            ModifyReservation(a, from, to) => clicked' = clicked
      BY DEF ModifyReservation
    <3>3. \A a \in Bookings, r \in Rooms : ChangeRoom(a, r) => clicked' = clicked
      BY DEF ChangeRoom
    <3>4. \A a \in Bookings, r \in Rooms, n \in 1..MaxNights :
            CheckIn(a, r, n) => clicked' = clicked
      BY DEF CheckIn
    <3>5. \A a \in Bookings, r \in Rooms, from, to \in Days :
            CreateReservation(a, r, from, to) \/ Backfill(a, r, from, to)
              => clicked' = clicked
      BY DEF CreateReservation, Backfill
    <3>6. Tick => clicked' = clicked
      BY DEF Tick
    <3> QED BY <2>1, <3>1, <3>2, <3>3, <3>4, <3>5, <3>6 DEF Next
  <2>4. ShortenStay(e)
    BY <2>2, <2>3 DEF GiveUpShorten, LookupExpectedCheckout
  <2>5. e = c
    BY <2>1, <2>4 DEF ShortenStay, CalendarInv, TypeOK
  <2>6. /\ booking' = [booking EXCEPT ![b] = NewCheckout(b, booking[b].checkout - 1)]
        /\ booking[b].checkout = clicked[c].checkout
        /\ booking[b].checkout - 1 \in Days
    <3>1. booking[b] \in Booking /\ today \in Days
      BY DEF CalendarInv, TypeOK
    <3>2. booking[b].checkout - 1 >= today
      BY <2>4, <2>5 DEF ShortenStay
    <3>3. booking[b].checkout - 1 \in Days
      BY <3>1, <3>2, CalendarAssumption DEF Booking, Days
    <3> QED BY <2>4, <2>5, <3>3 DEF ShortenStay
  <2> QED BY <2>6, NewCheckoutType DEF CalendarInv, TypeOK
<1> QED BY <1>1, CalendarInvariant, PTL DEF Spec, ShortenTakesTheNightSeen

-----------------------------------------------------------------------------
(* Where the guests slept. *)

\* The nights gone by of a guest in the house, row by row: those before the
\* checkout have their row where they were slept, those beyond it were slept in
\* the room the guest still has, for nobody changes rooms without a night to
\* come.
SleptByCells(b) ==
  HasStatus(b, "active") =>
    \A r \in Rooms, d \in Days : d < today =>
      (<<r, d, b>> \in slept <=> IF d < booking[b].checkout
                                 THEN Holder(r, d) = b
                                 ELSE r = booking[b].room)

\* Nobody has slept before they came, nor tonight.
SleptIsPast(b) ==
  /\ HasStatus(b, "active") => booking[b].checkin <= today
  /\ \A r \in Rooms, d \in Days : <<r, d, b>> \in slept =>
       d < today /\ booking[b].status \notin {"absent", "booked"}

HistoryInv ==
  /\ CalendarInv
  /\ \A b \in Bookings : SleptByCells(b) /\ SleptIsPast(b)

LEMMA PastRowsAreSlept == HistoryInv => RowsAreWhereTheGuestSlept
<1> SUFFICES ASSUME HistoryInv, NEW b \in Bookings, HasStatus(b, "active")
             PROVE  PastRows(b) = {k \in NightsSlept(b) : k[2] < booking[b].checkout}
  BY DEF RowsAreWhereTheGuestSlept
<1>1. RowsByCells(b) /\ SleptByCells(b) /\ SleptIsPast(b)
  BY InvByParts DEF HistoryInv
<1>2. ASSUME NEW r \in Rooms, NEW d \in Days
      PROVE  (d < today /\ Holder(r, d) = b)
               <=> (<<r, d, b>> \in slept /\ d < booking[b].checkout)
  <2>1. Holder(r, d) = b => d < booking[b].checkout
    BY <1>1 DEF RowsByCells, Live, HasStatus
  <2>2. <<r, d, b>> \in slept => d < today
    BY <1>1 DEF SleptIsPast
  <2> QED BY <1>1, <2>1, <2>2 DEF SleptByCells
<1>3. ASSUME NEW k \in Rooms \X Days
      PROVE  k \in PastRows(b) <=> k \in NightsSlept(b) /\ k[2] < booking[b].checkout
  <2>1. k[1] \in Rooms /\ k[2] \in Days
    OBVIOUS
  <2> QED BY <1>2, <2>1 DEF PastRows, NightsSlept
<1>4. PastRows(b) \subseteq Rooms \X Days /\ NightsSlept(b) \subseteq Rooms \X Days
  BY DEF PastRows, NightsSlept
<1> QED BY <1>3, <1>4

\* What a command on booking b has to show while no night passes.
LEMMA OneBookingSlept ==
  ASSUME HistoryInv, CalendarInv', NEW b \in Bookings, OwnCellsOnly(b),
         \A a \in Bookings : a # b => booking'[a] = booking[a],
         today' = today, slept' = slept,
         booking'[b].status \in {"absent", "booked"}
           => booking[b].status \in {"absent", "booked"},
         HasStatus(b, "active")' => booking'[b].checkin <= today,
         SleptByCells(b)'
  PROVE  HistoryInv'
<1>1. ASSUME NEW a \in Bookings, a # b PROVE SleptByCells(a)'
  <2>1. booking'[a] = booking[a]
    BY <1>1
  <2>2. \A r \in Rooms, d \in Days : (Holder(r, d)' = a) <=> Holder(r, d) = a
    BY <1>1, CalendarAssumption DEF OwnCellsOnly, Holder
  <2> QED BY <2>1, <2>2 DEF HistoryInv, SleptByCells, HasStatus
<1>2. ASSUME NEW a \in Bookings PROVE SleptIsPast(a)'
  BY DEF HistoryInv, SleptIsPast, HasStatus
<1> QED BY <1>1, <1>2 DEF HistoryInv

\* A booking that is not in the house afterwards has nothing to show.
LEMMA NotInTheHouse ==
  ASSUME NEW b \in Bookings, booking'[b].status # "active"
  PROVE  SleptByCells(b)'
BY DEF SleptByCells, HasStatus

LEMMA ReservationsKeepHistory ==
  ASSUME HistoryInv, slept' = slept, NEW b \in Bookings,
         \/ CancelReservation(b)
         \/ CheckOut(b)
         \/ VoidBooking(b)
         \/ \E from, to \in Days : ModifyReservation(b, from, to)
         \/ \E r \in Rooms, from, to \in Days : CreateReservation(b, r, from, to)
  PROVE  HistoryInv'
<1>0. CalendarInv /\ booking \in [Bookings -> Booking]
  BY DEF HistoryInv, CalendarInv, TypeOK
<1>1. CalendarInv' /\ OwnCellsOnly(b)
  BY <1>0, CancelReservationKeepsInv, CheckOutKeepsInv, VoidBookingKeepsInv,
     ModifyReservationKeepsInv, CreateReservationKeepsInv
<1>2. /\ \A a \in Bookings : a # b => booking'[a] = booking[a]
      /\ today' = today
      /\ booking'[b].status # "active"
      /\ booking'[b].status \in {"absent", "booked"}
           => booking[b].status \in {"absent", "booked"}
  <2>1. CASE CancelReservation(b)
    BY <1>0, <2>1 DEF CancelReservation, Booking
  <2>2. CASE CheckOut(b)
    BY <1>0, <2>2 DEF CheckOut, Booking
  <2>3. CASE VoidBooking(b)
    BY <1>0, <2>3 DEF VoidBooking, Booking
  <2>4. CASE \E from, to \in Days : ModifyReservation(b, from, to)
    BY <1>0, <2>4 DEF ModifyReservation, Booking, HasStatus
  <2>5. CASE \E r \in Rooms, from, to \in Days : CreateReservation(b, r, from, to)
    BY <1>0, <2>5 DEF CreateReservation, Booking, HasStatus
  <2> QED BY <2>1, <2>2, <2>3, <2>4, <2>5
<1> QED BY <1>1, <1>2, NotInTheHouse, OneBookingSlept DEF HasStatus

LEMMA ConfirmKeepsHistory ==
  ASSUME HistoryInv, slept' = slept, NEW b \in Bookings, ConfirmReservation(b)
  PROVE  HistoryInv'
<1> DEFINE r == booking[b].room
           to == ConfirmedCheckout(b)
<1>0. CalendarInv /\ TypeOK /\ booking[b] \in Booking /\ today \in Days
  BY InvByParts DEF HistoryInv
<1>1. CalendarInv' /\ OwnCellsOnly(b)
  BY <1>0, ConfirmReservationKeepsInv
<1>2. /\ \A a \in Bookings : a # b => booking'[a] = booking[a]
      /\ booking'[b].status = "active"
      /\ booking'[b].checkout = to /\ booking'[b].checkin = today
      /\ today' = today /\ HasStatus(b, "booked")
  BY <1>0 DEF ConfirmReservation, TypeOK, Booking
<1>3. RowsByCells(b)' /\ to \in Days
  BY <1>1, RowsAreCellsNext DEF CalendarInv, RowsAreTheStay, ConfirmReservation
<1>4. today < to
  BY <1>2, <1>3, <1>0 DEF RowsByCells, Live, HasStatus, Days
<1>5. ASSUME NEW q \in Rooms, NEW d \in Days, d < today
      PROVE  <<q, d, b>> \notin slept /\ Holder(q, d)' # b /\ d < to
  BY <1>0, <1>2, <1>3, <1>4, <1>5 DEF HistoryInv, SleptIsPast, HasStatus, RowsByCells, Live, Days
<1>6. SleptByCells(b)'
  BY <1>2, <1>5 DEF SleptByCells
<1>7. booking'[b].checkin <= today
  BY <1>0, <1>2 DEF Days
<1> QED BY <1>1, <1>2, <1>6, <1>7, OneBookingSlept

LEMMA CheckInKeepsHistory ==
  ASSUME HistoryInv, slept' = slept, NEW b \in Bookings, NEW r \in Rooms,
         NEW n \in 1..MaxNights, CheckIn(b, r, n)
  PROVE  HistoryInv'
<1>0. CalendarInv /\ TypeOK /\ today \in Days
  BY InvByParts DEF HistoryInv
<1>1. CalendarInv' /\ OwnCellsOnly(b)
  BY <1>0, CheckInKeepsInv
<1>2. /\ \A a \in Bookings : a # b => booking'[a] = booking[a]
      /\ booking'[b].status = "active"
      /\ booking'[b].checkin = today /\ booking'[b].checkout = today + n
      /\ today' = today /\ HasStatus(b, "absent") /\ today + n \in Days
  BY <1>0 DEF CheckIn, TypeOK, Dates
<1>3. RowsByCells(b)'
  BY <1>1, RowsAreCellsNext DEF CalendarInv, RowsAreTheStay
<1>4. n \in Int /\ n > 0
  BY CalendarAssumption
<1>5. ASSUME NEW q \in Rooms, NEW d \in Days, d < today
      PROVE  <<q, d, b>> \notin slept /\ Holder(q, d)' # b /\ d < today + n
  BY <1>0, <1>2, <1>3, <1>4, <1>5 DEF HistoryInv, SleptIsPast, HasStatus, RowsByCells, Live, Days
<1>6. SleptByCells(b)'
  BY <1>2, <1>5 DEF SleptByCells
<1>7. booking'[b].checkin <= today
  BY <1>0, <1>2 DEF Days
<1> QED BY <1>1, <1>2, <1>6, <1>7, OneBookingSlept

\* The night that a longer stay adds may be one the guest has overstayed: its
\* row is inserted in the room the guest still has.
LEMMA ExtendKeepsHistory ==
  ASSUME HistoryInv, slept' = slept, NEW b \in Bookings, ExtendStay(b)
  PROVE  HistoryInv'
<1> DEFINE r == booking[b].room
           old == booking[b].checkout
<1>0. /\ CalendarInv /\ TypeOK /\ booking[b] \in Booking /\ today \in Days
      /\ old \in Days /\ old + 1 \in Days /\ HasStatus(b, "active")
      /\ r \in Rooms /\ RowsByCells(b)
  BY InvByParts, CalendarAssumption DEF HistoryInv, ExtendStay, HasStatus, Booking, Days
<1>1. CalendarInv' /\ OwnCellsOnly(b)
  BY <1>0, ExtendStayKeepsInv
<1>2. /\ \A a \in Bookings : a # b => booking'[a] = booking[a]
      /\ booking'[b].status = "active" /\ booking'[b].room = r
      /\ booking'[b].checkout = old + 1
      /\ today' = today
  BY <1>0, NewCheckoutType DEF ExtendStay, TypeOK, HasStatus
<1>3. \A q \in Rooms, d \in Days :
        Holder(q, d)' = IF q = r /\ d = old THEN b ELSE Holder(q, d)
  BY <1>0 DEF ExtendStay, Insert, NightsFrom, Holder, Days
<1>4. ASSUME NEW q \in Rooms, NEW d \in Days, d < today
      PROVE  <<q, d, b>> \in slept <=> IF d < old + 1 THEN Holder(q, d)' = b ELSE q = r
  <2>1. <<q, d, b>> \in slept <=> IF d < old THEN Holder(q, d) = b ELSE q = r
    BY <1>0, <1>4 DEF HistoryInv, SleptByCells
  <2>2. CASE d < old
    BY <1>0, <1>3, <2>1, <2>2 DEF Days
  <2>3. CASE d = old
    <3>1. Holder(q, d) # b
      BY <1>0, <2>3 DEF RowsByCells, Live, HasStatus, Days
    <3> QED BY <1>0, <1>3, <2>1, <2>3, <3>1 DEF Days
  <2>4. CASE d > old
    BY <1>0, <2>1, <2>4 DEF Days
  <2> QED BY <1>0, <2>2, <2>3, <2>4 DEF Days
<1>5. SleptByCells(b)'
  BY <1>2, <1>4 DEF SleptByCells
<1>6. booking'[b].checkin = booking[b].checkin
  BY <1>0, NewCheckoutType DEF ExtendStay, TypeOK
<1> QED BY <1>0, <1>1, <1>2, <1>5, <1>6, OneBookingSlept DEF HistoryInv, SleptIsPast

\* Only a night to come is taken off.
LEMMA ShortenKeepsHistory ==
  ASSUME HistoryInv, slept' = slept, NEW c \in Clerks, NEW b \in Bookings,
         clicked[c].booking = b, ShortenStay(c)
  PROVE  HistoryInv'
<1> DEFINE r == booking[b].room
           freed == booking[b].checkout - 1
<1>0. CalendarInv /\ TypeOK
  BY DEF HistoryInv, CalendarInv
<1>1. /\ CalendarInv' /\ OwnCellsOnly(b)
      /\ booking[b] \in Booking /\ today \in Days /\ HasStatus(b, "active")
      /\ freed >= today /\ freed \in Days /\ r \in Rooms
  <2>1. freed >= today /\ HasStatus(b, "active")
    BY DEF ShortenStay
  <2>2. booking[b] \in Booking /\ today \in Days /\ r \in Rooms
    BY <1>0, <2>1, InvByParts DEF HasStatus
  <2>3. CalendarInv' /\ OwnCellsOnly(b)
    BY <1>0, ShortenStayKeepsInv
  <2> QED BY <2>1, <2>2, <2>3, CalendarAssumption DEF Booking, Days
<1>2. /\ booking' = [booking EXCEPT ![b] = NewCheckout(b, freed)]
      /\ calendar' = [calendar EXCEPT ![r][freed] = Free]
      /\ today' = today
  BY DEF ShortenStay
<1>3. /\ \A a \in Bookings : a # b => booking'[a] = booking[a]
      /\ booking'[b].status = "active" /\ booking'[b].room = r
      /\ booking'[b].checkout = freed
      /\ booking'[b].checkin = booking[b].checkin
  BY <1>0, <1>1, <1>2, NewCheckoutType DEF TypeOK, HasStatus
<1>4. ASSUME NEW q \in Rooms, NEW d \in Days, d < today
      PROVE  <<q, d, b>> \in slept <=> IF d < freed THEN Holder(q, d)' = b ELSE q = r
  <2>1. d < freed /\ d < booking[b].checkout /\ d # freed
    BY <1>1, <1>4 DEF Booking, Days
  <2>2. Holder(q, d)' = Holder(q, d)
    BY <1>0, <1>1, <1>2, <2>1 DEF TypeOK, Holder
  <2>3. <<q, d, b>> \in slept <=> Holder(q, d) = b
    BY <1>0, <1>1, <1>4, <2>1 DEF HistoryInv, SleptByCells
  <2> QED BY <2>1, <2>2, <2>3
<1>5. SleptByCells(b)'
  BY <1>2, <1>3, <1>4 DEF SleptByCells
<1> QED BY <1>0, <1>1, <1>2, <1>3, <1>5, OneBookingSlept DEF HistoryInv, SleptIsPast

\* Only nights to come move, and there is one: the guest has not overstayed.
LEMMA ChangeRoomKeepsHistory ==
  ASSUME HistoryInv, slept' = slept, NEW b \in Bookings, NEW r \in Rooms,
         ChangeRoom(b, r)
  PROVE  HistoryInv'
<1> DEFINE old == booking[b].room
<1>0. /\ CalendarInv /\ TypeOK /\ booking[b] \in Booking /\ today \in Days
      /\ RowsByCells(b) /\ Live(b)
      /\ booking' = [booking EXCEPT ![b].room = r] /\ today' = today
  BY InvByParts DEF HistoryInv, ChangeRoom, Live, HasStatus
<1>1. CalendarInv' /\ OwnCellsOnly(b)
  BY <1>0, ChangeRoomKeepsInv
<1>2. /\ \A a \in Bookings : a # b => booking'[a] = booking[a]
      /\ booking'[b].status = booking[b].status
      /\ booking'[b].checkout = booking[b].checkout
      /\ booking'[b].checkin = booking[b].checkin
  BY <1>0 DEF TypeOK, Booking
<1>3. today < booking[b].checkout
  <2>1. PICK d \in Remaining(b) : TRUE
    BY DEF ChangeRoom
  <2>2. d \in Days /\ d >= today /\ d < booking[b].checkout
    BY <1>0, <2>1 DEF Remaining, NightsOf, RowsByCells
  <2> QED BY <1>0, <2>2 DEF Booking, Days
<1>4. \A q \in Rooms, d \in Days : d < today => calendar'[q][d] = calendar[q][d]
  BY <1>0, MoveCells DEF Days
<1>5. SleptByCells(b)'
  <2> SUFFICES ASSUME HasStatus(b, "active"), NEW q \in Rooms, NEW d \in Days, d < today
               PROVE  <<q, d, b>> \in slept <=> IF d < booking[b].checkout
                                                THEN Holder(q, d)' = b ELSE q = r
    BY <1>0, <1>2 DEF SleptByCells, HasStatus, TypeOK, Booking
  <2>1. d < booking[b].checkout
    BY <1>0, <1>3 DEF Booking, Days
  <2>2. Holder(q, d)' = Holder(q, d)
    BY <1>4 DEF Holder
  <2> QED BY <2>1, <2>2 DEF HistoryInv, SleptByCells
<1>6. HasStatus(b, "active")' => booking'[b].checkin <= today
  BY <1>2 DEF HistoryInv, SleptIsPast, HasStatus
<1>7. booking'[b].status \notin {"absent", "booked"} \/ HasStatus(b, "booked")
  BY <1>0, <1>2 DEF Live, HasStatus
<1> QED BY <1>0, <1>1, <1>2, <1>5, <1>6, <1>7, OneBookingSlept DEF HasStatus

\* A stay that is entered late brings its nights with it.
LEMMA BackfillKeepsHistory ==
  ASSUME HistoryInv, NEW b \in Bookings, NEW r \in Rooms,
         NEW from \in Days, NEW to \in Days, BackfillH(b, r, from, to)
  PROVE  HistoryInv'
<1>0. /\ CalendarInv /\ TypeOK /\ today \in Days /\ Backfill(b, r, from, to)
      /\ today' = today /\ HasStatus(b, "absent")
      /\ slept' = slept \cup {<<r, d, b>> : d \in {d \in NightsFrom(from, to) : d < today}}
  BY InvByParts DEF HistoryInv, BackfillH, Backfill
<1>1. CalendarInv' /\ OwnCellsOnly(b)
  BY <1>0, BackfillKeepsInv
<1>2. /\ \A a \in Bookings : a # b => booking'[a] = booking[a]
      /\ booking'[b].status = IF to > today THEN "active" ELSE "checked_out"
      /\ booking'[b].checkout = to
      /\ booking'[b].checkin = from /\ from < today
  BY <1>0 DEF Backfill, TypeOK
<1>3. \A q \in Rooms, d \in Days, a \in Bookings :
        <<q, d, a>> \in slept' <=>
          \/ <<q, d, a>> \in slept
          \/ a = b /\ q = r /\ from <= d /\ d < to /\ d < today
  BY <1>0 DEF NightsFrom
<1>4. \A q \in Rooms, d \in Days :
        Holder(q, d)' = IF q = r /\ from <= d /\ d < to THEN b ELSE Holder(q, d)
  BY <1>0 DEF Backfill, Insert, NightsFrom, Holder
<1>5. \A q \in Rooms, d \in Days : Holder(q, d) # b /\ <<q, d, b>> \notin slept
  BY <1>0, InvByParts DEF RowsByCells, HasStatus, HistoryInv, SleptIsPast
<1>6. ASSUME NEW a \in Bookings PROVE SleptIsPast(a)'
  <2>1. CASE a = b
    BY <1>0, <1>2, <1>3, <1>5, <2>1 DEF SleptIsPast, HasStatus, Days
  <2>2. CASE a # b
    BY <1>0, <1>2, <1>3, <2>2 DEF HistoryInv, SleptIsPast, HasStatus
  <2> QED BY <2>1, <2>2
<1>7. ASSUME NEW a \in Bookings PROVE SleptByCells(a)'
  <2>1. CASE a = b
    <3> SUFFICES ASSUME HasStatus(b, "active")', NEW q \in Rooms, NEW d \in Days, d < today
                 PROVE  <<q, d, b>> \in slept' <=> IF d < to THEN Holder(q, d)' = b
                                                   ELSE q = booking'[b].room
      BY <1>0, <1>2, <2>1 DEF SleptByCells
    <3>1. d < to
      BY <1>0, <1>2 DEF HasStatus, Days
    <3> QED BY <1>3, <1>4, <1>5, <3>1
  <2>2. CASE a # b
    <3>1. booking'[a] = booking[a]
      BY <1>2, <2>2
    <3>2. \A q \in Rooms, d \in Days :
            /\ (Holder(q, d)' = a) <=> Holder(q, d) = a
            /\ <<q, d, a>> \in slept' <=> <<q, d, a>> \in slept
      BY <1>1, <1>3, <2>2, CalendarAssumption DEF OwnCellsOnly, Holder
    <3> QED BY <1>0, <3>1, <3>2 DEF HistoryInv, SleptByCells, HasStatus
  <2> QED BY <2>1, <2>2
<1> QED BY <1>1, <1>6, <1>7 DEF HistoryInv

\* Tonight becomes a night slept: of a guest who has tonight's row, in the
\* room of that row, and of one who overstays, in the room they have.
LEMMA TickKeepsHistory ==
  ASSUME HistoryInv, TickH
  PROVE  HistoryInv'
<1>0. /\ CalendarInv /\ TypeOK /\ Tick /\ today \in Days
      /\ UNCHANGED <<booking, calendar, rooms, clicked>> /\ today' = today + 1
      /\ slept' = slept \cup {<<booking[b].room, today, b>> :
                                b \in {b \in Bookings : HasStatus(b, "active")}}
  BY DEF HistoryInv, CalendarInv, TypeOK, TickH, Tick
<1>1. CalendarInv'
  BY <1>0, TickKeepsInv
<1>2. \A q \in Rooms, d \in Days, a \in Bookings :
        <<q, d, a>> \in slept' <=>
          \/ <<q, d, a>> \in slept
          \/ d = today /\ HasStatus(a, "active") /\ q = booking[a].room
  BY <1>0
<1>3. ASSUME NEW a \in Bookings PROVE SleptIsPast(a)'
  <2>1. booking'[a] = booking[a] /\ booking[a] \in Booking
    BY <1>0 DEF TypeOK
  <2> QED BY <1>0, <1>2, <2>1 DEF HistoryInv, SleptIsPast, HasStatus, Days, Booking
<1>4. ASSUME NEW a \in Bookings PROVE SleptByCells(a)'
  <2> SUFFICES ASSUME HasStatus(a, "active"), NEW q \in Rooms, NEW d \in Days, d < today + 1
               PROVE  <<q, d, a>> \in slept' <=> IF d < booking[a].checkout
                                                 THEN Holder(q, d) = a
                                                 ELSE q = booking[a].room
    BY <1>0 DEF SleptByCells, HasStatus, Holder
  <2>1. CASE d < today
    <3>1. <<q, d, a>> \in slept' <=> <<q, d, a>> \in slept
      BY <1>0, <1>2, <2>1 DEF Days
    <3> QED BY <2>1, <3>1 DEF HistoryInv, SleptByCells
  <2>2. CASE d = today
    <3>1. <<q, d, a>> \notin slept
      BY <1>0, <2>2 DEF HistoryInv, SleptIsPast, Days
    <3>2. <<q, d, a>> \in slept' <=> q = booking[a].room
      BY <1>2, <2>2, <3>1
    <3>3. CASE d < booking[a].checkout
      <4>1. Holder(q, d) = a => q = booking[a].room
        BY <1>0, <2>2, CalendarAssumption DEF CalendarInv, ComingNightsAreInItsRoom, Days
      <4>2. booking[a].checkin <= d
        BY <2>2 DEF HistoryInv, SleptIsPast
      <4>3. PICK p \in Rooms : Holder(p, d) = a
        BY <1>0, <3>3, <4>2, InvByParts DEF RowsByCells, Live, HasStatus
      <4>4. p = booking[a].room
        BY <1>0, <2>2, <4>3, CalendarAssumption DEF CalendarInv, ComingNightsAreInItsRoom, Days
      <4> QED BY <3>2, <3>3, <4>1, <4>3, <4>4
    <3>4. CASE ~ (d < booking[a].checkout)
      BY <3>2, <3>4
    <3> QED BY <3>3, <3>4
  <2> QED BY <1>0, <2>1, <2>2 DEF Days
<1> QED BY <1>1, <1>3, <1>4 DEF HistoryInv

LEMMA HistoryStarts == HInit => HistoryInv
<1> SUFFICES ASSUME HInit PROVE HistoryInv
  OBVIOUS
<1>1. CalendarInv
  BY InitEstablishesInv DEF HInit
<1>2. \A b \in Bookings : SleptByCells(b) /\ SleptIsPast(b)
  BY DEF HInit, Init, NotInserted, SleptByCells, SleptIsPast, HasStatus
<1> QED BY <1>1, <1>2 DEF HistoryInv

\* A history step is a step of the calendar, or keeps both.
LEMMA HNextKeepsHistory == HistoryInv /\ [HNext]_historyVars => HistoryInv'
<1> SUFFICES ASSUME HistoryInv, [HNext]_historyVars PROVE HistoryInv'
  OBVIOUS
<1>1. CASE TickH
  BY <1>1, TickKeepsHistory
<1>2. ASSUME NEW b \in Bookings, NEW r \in Rooms, NEW from \in Days, NEW to \in Days,
             BackfillH(b, r, from, to)
      PROVE  HistoryInv'
  BY <1>2, BackfillKeepsHistory
<1>3. ASSUME NEW b \in Bookings, BookingH(b) PROVE HistoryInv'
  BY <1>3, ReservationsKeepHistory, ConfirmKeepsHistory, ExtendKeepsHistory,
     ChangeRoomKeepsHistory, CheckInKeepsHistory DEF BookingH
<1>4. CASE DeskH
  <2>1. slept' = slept
    BY <1>4 DEF DeskH
  <2>2. ASSUME NEW c \in Clerks, ShortenStay(c) PROVE HistoryInv'
    <3>1. clicked[c].booking \in Bookings
      BY <2>2 DEF ShortenStay, HistoryInv, CalendarInv, TypeOK, Click
    <3> QED BY <2>1, <2>2, <3>1, ShortenKeepsHistory
  <2>3. ASSUME NEW c \in Clerks,
               GiveUpShorten(c) \/ \E b \in Bookings : LookupExpectedCheckout(c, b)
        PROVE  HistoryInv'
    <3>1. CalendarInv'
      BY <2>3, DeskKeepsInv DEF HistoryInv
    <3>2. UNCHANGED <<today, booking, calendar>>
      BY <2>3 DEF GiveUpShorten, LookupExpectedCheckout
    <3> QED BY <2>1, <3>1, <3>2
            DEF HistoryInv, SleptByCells, SleptIsPast, HasStatus, Holder
  <2> QED BY <1>4, <2>2, <2>3 DEF DeskH
<1>5. CASE UNCHANGED historyVars
  <2>1. UNCHANGED vars /\ slept' = slept
    BY <1>5 DEF historyVars
  <2>2. CalendarInv'
    BY <2>1, NextKeepsInv DEF HistoryInv
  <2> QED BY <2>1, <2>2
          DEF vars, HistoryInv, SleptByCells, SleptIsPast, HasStatus, Holder
<1> QED BY <1>1, <1>2, <1>3, <1>4, <1>5 DEF HNext

\* However often a guest's stay is moved, lengthened, overstayed and shortened,
\* the calendar rows of the nights gone by, by which invoices and reports split
\* a stay (change_room, extend_stay, room_calendar_stays_tx), name the rooms
\* the guest slept in: for any bookings, rooms and days.
THEOREM PastNightsAreTrue == HSpec => []RowsAreWhereTheGuestSlept
<1> QED BY HistoryStarts, HNextKeepsHistory, PastRowsAreSlept, PTL DEF HSpec

=============================================================================
