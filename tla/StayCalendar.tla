----------------------------- MODULE StayCalendar -----------------------------
(***************************************************************************)
(* The life of a booking in the room calendar: reservations, walk-ins and  *)
(* stays entered late, moved, lengthened, shortened, settled and voided,   *)
(* while days pass.  Each action is the body of one command's transaction  *)
(* (services/booking), which SQLite runs alone; a refused command rolls    *)
(* back and is a step not taken.  BookingLocks models how the commands     *)
(* come to run their transactions, and why the room a command has locked   *)
(* is the booking's room; money is left out.                               *)
(***************************************************************************)
EXTENDS Integers

CONSTANTS
  Bookings,   \* booking ids, each inserted at most once
  Rooms,
  Clerks,     \* the desks that take a night off a stay
  None,       \* SQL NULL
  LastDay,    \* bound: the last day of the calendar
  MaxNights   \* bound: the nights a request may ask for

Days == 0..LastDay

ASSUME CalendarAssumption ==
  /\ LastDay \in Nat
  /\ MaxNights \in Nat
  /\ None \notin Bookings
  /\ None \notin Rooms
  /\ None \notin Days

VARIABLES
  today,
  booking,    \* table bookings
  calendar,   \* table room_calendar, by its primary key: room, then date
  rooms,      \* rooms.status
  clicked     \* the expected_checkout each desk's shorten command has read

vars == <<today, booking, calendar, rooms, clicked>>

Statuses == {"absent", "booked", "active", "checked_out", "cancelled", "voided"}

\* Dates stand for check_in_at and expected_checkout; scheduled is
\* scheduled_checkout, which only reservations have.
Booking == [status : Statuses, room : Rooms \cup {None}, checkin : Days,
            checkout : Days, nights : Int, scheduled : Days \cup {None}]

NotInserted == [status |-> "absent", room |-> None, checkin |-> 0,
                checkout |-> 0, nights |-> 0, scheduled |-> None]

Row == [booking : Bookings, status : {"booked", "occupied"}]
Free == [booking |-> None, status |-> "free"]

NoClick == [booking |-> None, checkout |-> None]
Click == [booking : Bookings, checkout : Days] \cup {NoClick}

Init ==
  /\ today = 0
  /\ booking = [b \in Bookings |-> NotInserted]
  /\ calendar = [r \in Rooms |-> [d \in Days |-> Free]]
  /\ rooms = [r \in Rooms |-> "vacant"]
  /\ clicked = [c \in Clerks |-> NoClick]

-----------------------------------------------------------------------------
(* Rows of room_calendar. *)

Holder(r, d) == calendar[r][d].booking

\* The dates a loop from the first to the day before the second inserts.
NightsFrom(from, to) == {d \in Days : from <= d /\ d < to}

\* A fresh INSERT succeeds when the primary key is free.
AllFree(cal, r, from, to) == \A d \in NightsFrom(from, to) : cal[r][d] = Free

Insert(cal, b, r, from, to, status) ==
  [q \in Rooms |-> [d \in Days |->
     IF q = r /\ d \in NightsFrom(from, to)
     THEN [booking |-> b, status |-> status]
     ELSE cal[q][d]]]

\* DELETE FROM room_calendar WHERE booking_id = ? [AND status = 'booked'].
Delete(b) ==
  [q \in Rooms |-> [d \in Days |->
     IF Holder(q, d) = b THEN Free ELSE calendar[q][d]]]

DeleteBooked(b) ==
  [q \in Rooms |-> [d \in Days |->
     IF calendar[q][d] = [booking |-> b, status |-> "booked"] THEN Free
     ELSE calendar[q][d]]]

NightsOf(b) == {d \in Days : \E r \in Rooms : Holder(r, d) = b}

Remaining(b) == {d \in NightsOf(b) : d >= today}

\* Mutant: the nights already slept move too.
MoveAll_M(b, r) ==
  [q \in Rooms |-> [d \in Days |->
     IF d \notin NightsOf(b) THEN calendar[q][d]
     ELSE IF q = r THEN [booking |-> b, status |-> "occupied"]
     ELSE IF Holder(q, d) = b THEN Free ELSE calendar[q][d]]]

\* Mutant: tonight stays behind.
MoveTomorrow_M(b, r) ==
  [q \in Rooms |-> [d \in Days |->
     IF d \notin Remaining(b) \ {today} THEN calendar[q][d]
     ELSE IF q = r
     THEN calendar[CHOOSE p \in Rooms : Holder(p, d) = b][d]
     ELSE IF Holder(q, d) = b THEN Free ELSE calendar[q][d]]]

\* UPDATE room_calendar SET room_id = r WHERE booking_id = b AND date >= today.
Move(b, r) ==
  [q \in Rooms |-> [d \in Days |->
     IF d \notin Remaining(b) THEN calendar[q][d]
     ELSE IF q = r
     THEN calendar[CHOOSE p \in Rooms : Holder(p, d) = b][d]
     ELSE IF Holder(q, d) = b THEN Free ELSE calendar[q][d]]]

\* Mutant: the old status is not asked for.
SetRoom_M(r, old, s) == rooms' = [rooms EXCEPT ![r] = s]

\* UPDATE rooms SET status = s WHERE id = r AND status = old, one row.
SetRoom(r, old, s) ==
  /\ rooms[r] = old
  /\ rooms' = [rooms EXCEPT ![r] = s]

HasStatus(b, status) == booking[b].status = status

Dates(from, to) == from \in Days /\ to \in Days /\ from < to /\ to - from <= MaxNights

-----------------------------------------------------------------------------
(* Reservations.  Any dates are accepted, past ones too. *)

CreateReservation(b, r, from, to) ==
  /\ HasStatus(b, "absent")
  /\ Dates(from, to)
  /\ AllFree(calendar, r, from, to)
  /\ booking' = [booking EXCEPT ![b] =
       [status |-> "booked", room |-> r, checkin |-> from, checkout |-> to,
        nights |-> to - from, scheduled |-> to]]
  /\ calendar' = Insert(calendar, b, r, from, to, "booked")
  /\ UNCHANGED <<today, rooms, clicked>>

\* The branch that frees a room of status 'booked' is left out: nothing in the
\* program writes that room status.
CancelReservation(b) ==
  /\ HasStatus(b, "booked")
  /\ booking' = [booking EXCEPT ![b].status = "cancelled"]
  /\ calendar' = DeleteBooked(b)
  /\ UNCHANGED <<today, rooms, clicked>>

\* Mutant: a late guest keeps the scheduled checkout.
ConfirmedCheckout_M(b) == booking[b].scheduled

\* A guest who arrives on the day of departure, or later, stays one night.
ConfirmedCheckout(b) ==
  IF booking[b].scheduled <= today THEN today + 1 ELSE booking[b].scheduled

ConfirmReservation(b) ==
  LET r  == booking[b].room
      to == ConfirmedCheckout(b)
  IN  /\ HasStatus(b, "booked")
      /\ to \in Days
      /\ AllFree(Delete(b), r, today, to)
      /\ calendar' = Insert(Delete(b), b, r, today, to, "occupied")
      /\ booking' = [booking EXCEPT ![b] =
           [@ EXCEPT !.status = "active", !.checkin = today, !.checkout = to,
                     !.nights = to - today]]
      /\ SetRoom(r, "vacant", "occupied")
      /\ UNCHANGED <<today, clicked>>

ModifyReservation(b, from, to) ==
  LET r == booking[b].room
  IN  /\ HasStatus(b, "booked")
      /\ Dates(from, to)
      /\ AllFree(DeleteBooked(b), r, from, to)
      /\ booking' = [booking EXCEPT ![b] =
           [@ EXCEPT !.checkin = from, !.checkout = to, !.scheduled = to,
                     !.nights = to - from]]
      /\ calendar' = Insert(DeleteBooked(b), b, r, from, to, "booked")
      /\ UNCHANGED <<today, rooms, clicked>>

-----------------------------------------------------------------------------
(* Walk-ins, and stays that are entered after they began. *)

CheckIn(b, r, n) ==
  /\ HasStatus(b, "absent")
  /\ Dates(today, today + n)
  /\ AllFree(calendar, r, today, today + n)
  /\ booking' = [booking EXCEPT ![b] =
       [status |-> "active", room |-> r, checkin |-> today,
        checkout |-> today + n, nights |-> n, scheduled |-> None]]
  /\ calendar' = Insert(calendar, b, r, today, today + n, "occupied")
  /\ SetRoom(r, "vacant", "occupied")
  /\ UNCHANGED <<today, clicked>>

\* The guest is still there (the end is to come), or has left by the end.
Backfill(b, r, from, to) ==
  LET staying == to > today
  IN  /\ HasStatus(b, "absent")
      /\ Dates(from, to)
      /\ from < today
      /\ AllFree(calendar, r, from, to)
      /\ booking' = [booking EXCEPT ![b] =
           [status |-> IF staying THEN "active" ELSE "checked_out", room |-> r,
            checkin |-> from, checkout |-> to, nights |-> to - from,
            scheduled |-> None]]
      /\ calendar' = Insert(calendar, b, r, from, to, "occupied")
      /\ IF staying THEN SetRoom(r, "vacant", "occupied") ELSE UNCHANGED rooms
      /\ UNCHANGED <<today, clicked>>

-----------------------------------------------------------------------------
(* A stay in the house. *)

\* What the guest pays for: the nights stayed, the nights booked, or one.
SettledNights(b) ==
  LET AtLeastOne(n) == IF n < 1 THEN 1 ELSE n
  IN  {AtLeastOne(today - booking[b].checkin), AtLeastOne(booking[b].nights), 1}

CheckOut(b) ==
  /\ HasStatus(b, "active")
  /\ \E n \in SettledNights(b) :
       booking' = [booking EXCEPT ![b] =
         [@ EXCEPT !.status = "checked_out", !.nights = n]]
  /\ SetRoom(booking[b].room, "occupied", "vacant")
  /\ calendar' = Delete(b)
  /\ UNCHANGED <<today, clicked>>

\* scheduled_checkout follows where there is one.
NewCheckout(b, d) ==
  [booking[b] EXCEPT !.nights = @ + d - booking[b].checkout, !.checkout = d,
                     !.scheduled = IF @ = None THEN None ELSE d]

ExtendStay(b) ==
  LET r   == booking[b].room
      old == booking[b].checkout
  IN  /\ HasStatus(b, "active")
      /\ old < LastDay
      /\ AllFree(calendar, r, old, old + 1)
      /\ booking' = [booking EXCEPT ![b] = NewCheckout(b, old + 1)]
      /\ calendar' = Insert(calendar, b, r, old, old + 1, "occupied")
      /\ UNCHANGED <<today, rooms, clicked>>

\* The desk's command reads expected_checkout before it takes any lock ...
LookupExpectedCheckout(c, b) ==
  /\ ~ HasStatus(b, "absent")
  /\ clicked[c] = NoClick
  /\ clicked' = [clicked EXCEPT ![c] =
                   [booking |-> b, checkout |-> booking[b].checkout]]
  /\ UNCHANGED <<today, booking, calendar, rooms>>

\* Mutant: the transaction asks for the checkout it reads itself.
ShortenStay_M(c) ==
  LET b     == clicked[c].booking
      freed == booking[b].checkout - 1
  IN  /\ clicked[c] # NoClick
      /\ HasStatus(b, "active")
      /\ freed >= today
      /\ freed > booking[b].checkin
      /\ booking' = [booking EXCEPT ![b] = NewCheckout(b, freed)]
      /\ calendar' = [calendar EXCEPT ![booking[b].room][freed] = Free]
      /\ clicked' = [clicked EXCEPT ![c] = NoClick]
      /\ UNCHANGED <<today, rooms>>

\* ... and takes the last night off in its transaction, if that is still the
\* checkout and the night is neither past nor the only one.
ShortenStay(c) ==
  LET b     == clicked[c].booking
      r     == booking[b].room
      freed == booking[b].checkout - 1
  IN  /\ clicked[c] # NoClick
      /\ HasStatus(b, "active")
      /\ freed >= today
      /\ freed > booking[b].checkin
      /\ booking[b].nights > 0
      /\ booking[b].checkout = clicked[c].checkout
      /\ Holder(r, freed) = b
      /\ booking' = [booking EXCEPT ![b] = NewCheckout(b, freed)]
      /\ calendar' = [calendar EXCEPT ![r][freed] = Free]
      /\ clicked' = [clicked EXCEPT ![c] = NoClick]
      /\ UNCHANGED <<today, rooms>>

\* The command is refused.
GiveUpShorten(c) ==
  /\ clicked[c] # NoClick
  /\ clicked' = [clicked EXCEPT ![c] = NoClick]
  /\ UNCHANGED <<today, booking, calendar, rooms>>

\* No night from the first to the last that remains is another's in room r.
OpenFor(b, r) ==
  \A d \in Days :
    (\E first, last \in Remaining(b) : first <= d /\ d <= last)
      => Holder(r, d) \in {None, b}

\* A guest who is in takes the room status along.
ChangeRoom(b, r) ==
  LET old == booking[b].room
  IN  /\ booking[b].status \in {"active", "booked"}
      /\ r # old
      /\ Remaining(b) # {}
      /\ OpenFor(b, r)
      /\ calendar' = Move(b, r)
      /\ booking' = [booking EXCEPT ![b].room = r]
      /\ IF HasStatus(b, "active")
         THEN /\ rooms[old] = "occupied"
              /\ rooms[r] = "vacant"
              /\ rooms' = [rooms EXCEPT ![old] = "vacant", ![r] = "occupied"]
         ELSE UNCHANGED rooms
      /\ UNCHANGED <<today, clicked>>

VoidBooking(b) ==
  /\ booking[b].status \in {"booked", "active", "checked_out"}
  /\ booking' = [booking EXCEPT ![b].status = "voided"]
  /\ calendar' = Delete(b)
  /\ IF HasStatus(b, "active")
     THEN SetRoom(booking[b].room, "occupied", "vacant")
     ELSE UNCHANGED rooms
  /\ UNCHANGED <<today, clicked>>

-----------------------------------------------------------------------------
Tick ==
  /\ today < LastDay
  /\ today' = today + 1
  /\ UNCHANGED <<booking, calendar, rooms, clicked>>

Next ==
  \/ Tick
  \/ \E c \in Clerks :
       \/ ShortenStay(c)
       \/ GiveUpShorten(c)
       \/ \E b \in Bookings : LookupExpectedCheckout(c, b)
  \/ \E b \in Bookings :
       \/ CancelReservation(b)
       \/ ConfirmReservation(b)
       \/ CheckOut(b)
       \/ ExtendStay(b)
       \/ VoidBooking(b)
       \/ \E from, to \in Days : ModifyReservation(b, from, to)
       \/ \E r \in Rooms :
            \/ ChangeRoom(b, r)
            \/ \E n \in 1..MaxNights : CheckIn(b, r, n)
            \/ \E from, to \in Days :
                 CreateReservation(b, r, from, to) \/ Backfill(b, r, from, to)

Spec == Init /\ [][Next]_vars

-----------------------------------------------------------------------------
(* Properties. *)

\* The tables hold what their columns allow, and no booking has two rooms or
\* no room at all once it is inserted.
TypeOK ==
  /\ today \in Days
  /\ booking \in [Bookings -> Booking]
  /\ calendar \in [Rooms -> [Days -> Row \cup {Free}]]
  /\ rooms \in [Rooms -> {"vacant", "occupied"}]
  /\ clicked \in [Clerks -> Click]
  /\ \A b \in Bookings : HasStatus(b, "absent") <=> booking[b].room = None

Live(b) == booking[b].status \in {"booked", "active"}

\* A live booking's nights, its dates and its calendar rows are three copies
\* of one fact: the columns nights, check_in_at and expected_checkout are kept
\* by arithmetic, the rows by inserts and deletes of single dates, and every
\* command must leave them saying the same.  Each night has one room; a row is
\* 'booked' until the check-in, which cancel and modify rely on; a booking
\* that is over has no rows, except a stay that was entered late.
RowsOfStay(b) ==
  /\ Live(b) =>
       /\ booking[b].nights = booking[b].checkout - booking[b].checkin
       /\ booking[b].nights > 0
       /\ NightsOf(b) = NightsFrom(booking[b].checkin, booking[b].checkout)
       /\ \A r \in Rooms, d \in Days : Holder(r, d) = b =>
            /\ calendar[r][d].status = "booked" <=> HasStatus(b, "booked")
            /\ \A q \in Rooms : Holder(q, d) = b => q = r
  /\ booking[b].status \in {"absent", "cancelled", "voided"} => NightsOf(b) = {}
  /\ HasStatus(b, "checked_out") => \A d \in NightsOf(b) : d < today

RowsAreTheStay == \A b \in Bookings : RowsOfStay(b)

\* From today on, a booking's rows are in the room it has now, whatever moves
\* it made: extend and shorten look for their night in bookings.room_id only.
ComingNightsAreInItsRoom ==
  \A r \in Rooms, d \in Days :
    d >= today /\ Holder(r, d) # None => booking[Holder(r, d)].room = r

\* The room grid: occupied means one guest is in, vacant means none, even
\* when a guest overstays and the calendar shows the room as free.
OneStayPerOccupiedRoom ==
  \A r \in Rooms :
    LET Guests == {b \in Bookings : HasStatus(b, "active") /\ booking[b].room = r}
    IN  /\ rooms[r] = "occupied" <=> Guests # {}
        /\ \A a, b \in Guests : a = b

\* "-1 night" takes off the night the desk was looking at: two desks that saw
\* the same checkout never take two nights.
ShortenTakesTheNightSeen ==
  [][\A c \in Clerks : \A b \in Bookings :
       /\ clicked[c].booking = b
       /\ clicked'[c] = NoClick
       /\ booking'[b].checkout < booking[b].checkout
       => booking'[b].checkout = clicked[c].checkout - 1]_vars

=============================================================================
