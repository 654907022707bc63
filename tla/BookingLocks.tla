----------------------------- MODULE BookingLocks -----------------------------
(***************************************************************************)
(* How the room commands use the aggregate locks, the SQLite write lock    *)
(* and each other's rows.  A command resolves its locks first (reading     *)
(* bookings.room_id between phases, from committed data), then opens one   *)
(* BEGIN IMMEDIATE transaction, then runs its service in it.               *)
(*                                                                         *)
(* Four plans stand for the commands of services/booking:                  *)
(*   check_in        room                         (backfill, reservation)  *)
(*   check_out       booking+folio, read, room    (extend, shorten, void,  *)
(*                                                 cancel, confirm, modify)*)
(*   group_checkout  group, bookings+folios, read, rooms                   *)
(*   change_room     read, then booking+folio+both rooms at once           *)
(* The guard of a resolved command is moved into its service closure and   *)
(* is dropped when the closure or the service returns: after BEGIN         *)
(* IMMEDIATE, before COMMIT.  A check-in's guard is dropped after COMMIT.  *)
(***************************************************************************)
EXTENDS AggregateLocks

CONSTANTS
  Bookings, Rooms, Groups,  \* their ids
  NoRoom, NoGroup,
  GroupOf,                  \* bookings.group_id, fixed when the row is made
  FirstRoom                 \* the stays at the start: each booking's room

room_key(r)    == [scope |-> "room", id |-> r]
booking_key(b) == [scope |-> "booking", id |-> b]
folio_key(b)   == [scope |-> "folio", id |-> b]
group_key(g)   == [scope |-> "group", id |-> g]

BookingKeys(B) == {booking_key(b) : b \in B} \cup {folio_key(b) : b \in B}
RoomKeys(R)    == {room_key(r) : r \in R}

ASSUME BookingLocksAssumption ==
  /\ NoRoom \notin Rooms
  /\ NoGroup \notin Groups
  /\ GroupOf \in [Bookings -> Groups \cup {NoGroup}]
  /\ FirstRoom \in [Bookings -> Rooms \cup {NoRoom}]
  /\ \A b, c \in Bookings :
       b # c /\ FirstRoom[b] = FirstRoom[c] => FirstRoom[b] = NoRoom
  /\ BookingKeys(Bookings) \cup RoomKeys(Rooms)
       \cup {group_key(g) : g \in Groups} \subseteq Keys

VARIABLES
  status,   \* bookings.status; "new" is a row not inserted yet
  roomOf,   \* bookings.room_id
  room,     \* rooms.status
  writer,   \* the task with SQLite's write lock
  job       \* the command each task runs

rowVars == <<status, roomOf, room>>
vars == <<lockVars, rowVars, writer, job>>

Kinds  == {"none", "check_in", "check_out", "group_checkout", "change_room"}
Stages == {"free", "looked", "group", "booking", "room", "resolved", "writing",
           "answered"}

\* What a command carries: its request, the rooms it read, its recorded keys.
Job == [kind : Kinds, stage : Stages, bookings : SUBSET Bookings,
        to : Rooms \cup {NoRoom}, seen : [Bookings -> Rooms \cup {NoRoom}],
        keys : SUBSET Keys]

NothingSeen == [b \in Bookings |-> NoRoom]

NewJob(kind, stage, B, r) ==
  [kind |-> kind, stage |-> stage, bookings |-> B, to |-> r,
   seen |-> NothingSeen, keys |-> {}]

NoJob == NewJob("none", "free", {}, NoRoom)

\* lookup_booking_room_id for each of the command's bookings.
Lookup(B) == [b \in Bookings |-> IF b \in B THEN roomOf[b] ELSE NoRoom]

SeenRooms(t) == {job[t].seen[b] : b \in job[t].bookings}

Become(t, j) == job' = [job EXCEPT ![t] = j]

At(t, stage) == job[t].stage = stage

-----------------------------------------------------------------------------
Init ==
  /\ LockInit
  /\ roomOf = FirstRoom
  /\ status = [b \in Bookings |-> IF FirstRoom[b] = NoRoom THEN "new" ELSE "active"]
  /\ room = [r \in Rooms |->
       IF \E b \in Bookings : FirstRoom[b] = r THEN "occupied" ELSE "vacant"]
  /\ writer = NoTask
  /\ job = [t \in Tasks |-> NoJob]

-----------------------------------------------------------------------------
(* Resolving the locks.                                                     *)

\* check_in_idempotent: the room is in the request.
CheckIn(t, r) ==
  /\ At(t, "free")
  /\ Acquire(t, {room_key(r)})
  /\ Become(t, NewJob("check_in", "room", {}, r))
  /\ UNCHANGED <<rowVars, writer>>

\* check_out_idempotent, first phase of lock_booking_and_read_room.
CheckOut(t, b) ==
  /\ At(t, "free")
  /\ status[b] # "new"
  /\ Acquire(t, BookingKeys({b}))
  /\ Become(t, NewJob("check_out", "booking", {b}, NoRoom))
  /\ UNCHANGED <<rowVars, writer>>

\* group_checkout_idempotent, first phase: the group.
GroupCheckout(t, g, B) ==
  /\ At(t, "free")
  /\ B # {} /\ \A b \in B : GroupOf[b] = g /\ status[b] # "new"
  /\ Acquire(t, {group_key(g)})
  /\ Become(t, NewJob("group_checkout", "group", B, NoRoom))
  /\ UNCHANGED <<rowVars, writer>>

\* Second phase: booking and folio keys of the bookings to check out.
LockGroupBookings(t) ==
  /\ At(t, "group")
  /\ AcquireNext(t, BookingKeys(job[t].bookings))
  /\ Become(t, [job[t] EXCEPT !.stage = "booking"])
  /\ UNCHANGED <<rowVars, writer>>

\* Under the booking keys: read the rooms, then lock them.
LockRoomsRead(t) ==
  /\ At(t, "booking")
  /\ LET seen == Lookup(job[t].bookings)
     IN  /\ AcquireNext(t, RoomKeys({seen[b] : b \in job[t].bookings}))
         /\ Become(t, [job[t] EXCEPT !.stage = "room", !.seen = seen])
  /\ UNCHANGED <<rowVars, writer>>

\* change_room_idempotent: the old room is looked up under no lock at all.
ChangeRoom(t, b, r) ==
  /\ At(t, "free")
  /\ status[b] # "new"
  /\ Become(t, [NewJob("change_room", "looked", {b}, r) EXCEPT !.seen = Lookup({b})])
  /\ UNCHANGED <<lockVars, rowVars, writer>>

\* Then booking, folio and both rooms are locked in one call.
LockMove(t) ==
  /\ At(t, "looked")
  /\ Acquire(t, BookingKeys(job[t].bookings)
                  \cup RoomKeys(SeenRooms(t) \cup {job[t].to}))
  /\ Become(t, [job[t] EXCEPT !.stage = "room"])
  /\ UNCHANGED <<rowVars, writer>>

\* The executor records the guard's keys in the claim, itself a write; a
\* check-in's keys were recorded with the claim.
Resolved(t) ==
  /\ At(t, "room")
  /\ pc[t] = "guarded"
  /\ job[t].kind # "check_in" => writer = NoTask
  /\ Become(t, [job[t] EXCEPT !.stage = "resolved", !.keys = guard[t]])
  /\ UNCHANGED <<lockVars, rowVars, writer>>

\* A lease refresh fails while the guard is awaited: the command is over.
GiveUp(t) ==
  /\ ~At(t, "free")
  /\ Cancel(t)
  /\ Become(t, NoJob)
  /\ UNCHANGED <<rowVars, writer>>

\* A mutex moves forward for t.
LockProgress(t) ==
  /\ Ask(t) \/ Take(t) \/ MergePhase(t)
  /\ UNCHANGED <<rowVars, writer, job>>

-----------------------------------------------------------------------------
(* The transaction.                                                         *)

\* The transaction opened before the claim's lock keys are refreshed.
Begin_M(t) ==
  /\ At(t, "room") /\ pc[t] = "guarded" /\ writer = NoTask
  /\ writer' = t
  /\ UNCHANGED <<lockVars, rowVars, job>>

\* BEGIN IMMEDIATE.
Begin(t) ==
  /\ At(t, "resolved")
  /\ writer = NoTask
  /\ writer' = t
  /\ Become(t, [job[t] EXCEPT !.stage = "writing"])
  /\ UNCHANGED <<lockVars, rowVars>>

\* The guard moved into the service closure is dropped.
DropGuard(t) ==
  /\ At(t, "writing")
  /\ job[t].kind # "check_in"
  /\ Release(t)
  /\ UNCHANGED <<rowVars, writer, job>>

Rollback == UNCHANGED rowVars

\* Booking ids are minted in the transaction; Bookings bounds their number.
FreshIds == {b \in Bookings : status[b] = "new"}

MoveIn(b, r) ==
  /\ status' = [status EXCEPT ![b] = "active"]
  /\ roomOf' = [roomOf EXCEPT ![b] = r]
  /\ room'   = [room EXCEPT ![r] = "occupied"]

\* check_in_tx: the room must be vacant, and ends up occupied.
CheckInTx(r) ==
  IF room[r] = "vacant" /\ FreshIds # {}
  THEN \E b \in FreshIds : MoveIn(b, r)
  ELSE Rollback

\* The rooms read while resolving are taken for the bookings' rooms.
CheckOutTx_M(B, seen) ==
  LET rooms == {roomOf[b] : b \in B}
  IN  IF /\ \A b \in B : status[b] = "active"
         /\ \A r \in rooms : room[r] = "occupied"
      THEN /\ status' = [b \in Bookings |-> IF b \in B THEN "checked_out" ELSE status[b]]
           /\ room' = [r \in Rooms |-> IF r \in rooms THEN "vacant" ELSE room[r]]
           /\ UNCHANGED roomOf
      ELSE Rollback

\* check_out_tx and group_checkout_tx: refuse if a booking is no longer in the
\* room that was locked, if one is not active or if a room is not occupied.
CheckOutTx(B, seen) ==
  LET rooms == {roomOf[b] : b \in B}
  IN  IF /\ \A b \in B : roomOf[b] = seen[b] /\ status[b] = "active"
         /\ \A r \in rooms : room[r] = "occupied"
      THEN /\ status' = [b \in Bookings |-> IF b \in B THEN "checked_out" ELSE status[b]]
           /\ room' = [r \in Rooms |-> IF r \in rooms THEN "vacant" ELSE room[r]]
           /\ UNCHANGED roomOf
      ELSE Rollback

\* The move trusts the room its locks were resolved for.
ChangeRoomTx_M(b, r, seen) ==
  IF status[b] = "active" /\ seen[b] # r /\ room[r] = "vacant"
  THEN /\ roomOf' = [roomOf EXCEPT ![b] = r]
       /\ room' = [room EXCEPT ![seen[b]] = "vacant", ![r] = "occupied"]
       /\ UNCHANGED status
  ELSE Rollback

\* change_room_tx: reads the booking's room again and ignores the one seen.
ChangeRoomTx(b, r, seen) ==
  IF /\ status[b] = "active"
     /\ roomOf[b] # r
     /\ room[r] = "vacant"
     /\ room[roomOf[b]] = "occupied"
  THEN /\ roomOf' = [roomOf EXCEPT ![b] = r]
       /\ room' = [room EXCEPT ![roomOf[b]] = "vacant", ![r] = "occupied"]
       /\ UNCHANGED status
  ELSE Rollback

\* The service runs and commits or rolls back.  Nobody else writes meanwhile,
\* so what it reads is what is committed.
Run(t) ==
  /\ At(t, "writing")
  /\ job[t].kind # "check_in" => pc[t] = "idle"
  /\ LET j == job[t]
     IN  \/ /\ j.kind = "check_in"
            /\ CheckInTx(j.to)
         \/ /\ j.kind \in {"check_out", "group_checkout"}
            /\ CheckOutTx(j.bookings, j.seen)
         \/ /\ j.kind = "change_room"
            /\ \E b \in j.bookings : ChangeRoomTx(b, j.to, j.seen)
  /\ writer' = NoTask
  /\ Become(t, IF job[t].kind = "check_in"
               THEN [job[t] EXCEPT !.stage = "answered"] ELSE NoJob)
  /\ UNCHANGED lockVars

\* The check-in's guard goes when the executor returns.
Finish(t) ==
  /\ At(t, "answered")
  /\ Release(t)
  /\ Become(t, NoJob)
  /\ UNCHANGED <<rowVars, writer>>

Start(t) ==
  \/ \E r \in Rooms : CheckIn(t, r)
  \/ \E b \in Bookings, r \in Rooms : ChangeRoom(t, b, r)
  \/ \E b \in Bookings : CheckOut(t, b)
  \/ \E g \in Groups, B \in SUBSET Bookings : GroupCheckout(t, g, B)

Progress(t) ==
  \/ LockGroupBookings(t) \/ LockRoomsRead(t) \/ LockMove(t) \/ LockProgress(t)
  \/ Resolved(t) \/ Begin(t) \/ DropGuard(t) \/ Run(t) \/ Finish(t)

Next == \E t \in Tasks : Start(t) \/ Progress(t) \/ GiveUp(t)

Spec == Init /\ [][Next]_vars

-----------------------------------------------------------------------------
(* Properties.                                                              *)

TypeOK ==
  /\ LockTypeOK
  /\ status \in [Bookings -> {"new", "active", "checked_out"}]
  /\ roomOf \in [Bookings -> Rooms \cup {NoRoom}]
  /\ room \in [Rooms -> {"vacant", "occupied"}]
  /\ writer \in Tasks \cup {NoTask}
  /\ job \in [Tasks -> Job]

InHouse(b, r) == status[b] = "active" /\ roomOf[b] = r

\* The room grid tells the truth whichever commands interleave, with fresh or
\* stale locks: an occupied room has exactly one guest and a vacant one none.
RoomsMatchStays ==
  /\ \A r \in Rooms : room[r] = "occupied" <=> \E b \in Bookings : InHouse(b, r)
  /\ \A b, c \in Bookings, r \in Rooms : InHouse(b, r) /\ InHouse(c, r) => b = c
  /\ \A b \in Bookings : status[b] = "active" => roomOf[b] \in Rooms

Commits(t) == At(t, "writing") /\ job'[t].stage # "writing"

Rewritten == {r \in Rooms : room'[r] # room[r]}

\* Whatever is moved between the phases, a phased command rewrites only rooms
\* among the lock keys its ledger row records.
PhasedKeysCoverWrites ==
  [][\A t \in Tasks :
       Commits(t) /\ job[t].kind # "change_room"
         => RoomKeys(Rewritten) \subseteq job[t].keys]_vars

\* t cannot write before the writer is done: the claim's lock keys and BEGIN
\* IMMEDIATE both need SQLite's write lock.
NeedsWriter(t) ==
  \/ At(t, "room") /\ pc[t] = "guarded" /\ job[t].kind # "check_in"
  \/ At(t, "resolved")

\* t cannot go on before u does.
StuckBehind(t, u) == WaitsFor(t, u) \/ (NeedsWriter(t) /\ writer = u)

\* The commands never wait for each other in a ring, not even through both
\* kinds of lock: one mutex behind another's, or behind the write lock of a
\* command that stands in a mutex's queue itself.
NoCommandCycle ==
  \A S \in SUBSET Tasks :
    S # {} => \E t \in S : \A u \in S : ~StuckBehind(t, u)

=============================================================================
