------------------------------ MODULE GroupFolio ------------------------------
(***************************************************************************)
(* Groups: several bookings made, paid and left together                   *)
(* (services/booking/group_lifecycle.rs), over the same bookings that the  *)
(* single commands of Folio go on working on.                              *)
(***************************************************************************)
EXTENDS Folio, Functions

Members(bk, g) == {b \in Bookings : bk[b].group = g}

Actives(bk, g) == {b \in Members(bk, g) : bk[b].status = "active"}

-----------------------------------------------------------------------------
(* allocate_paid_amount_by_room_price: what a group pays, split over its   *)
(* rooms in proportion to their totals and rounded down; what is left over *)
(* is spread evenly, the first rooms taking one unit more.                 *)

\* allocate_positive_money_evenly, for the i-th of count, from zero.
EvenShare(amount, count, i) ==
  IF amount <= 0 THEN 0
  ELSE amount \div count + (IF i < amount % count THEN 1 ELSE 0)

Rank(S, b) == Cardinality({c \in S : c < b})

\* Mutant: what rounding leaves over goes to nobody.
Allocate_M(amount, totals) ==
  LET S   == DOMAIN totals
      sum == SumFunction(totals)
  IN [b \in S |-> IF amount <= 0 \/ sum <= 0 THEN 0
                  ELSE (amount * totals[b]) \div sum]

Allocate(amount, totals) ==
  LET S    == DOMAIN totals
      sum  == SumFunction(totals)
      base == [b \in S |-> (amount * totals[b]) \div sum]
      left == amount - SumFunction(base)
  IN IF amount <= 0 \/ sum <= 0 THEN [b \in S |-> 0]
     ELSE [b \in S |-> base[b] + EvenShare(left, Cardinality(S), Rank(S, b))]

-----------------------------------------------------------------------------

\* One room of the group.  A reservation keeps its share of the payment in the
\* deposit column, but the row is a payment; a stay is charged at once.
Joined(status, g, lead, n, total, rate, share) ==
  LET r == [Opened(status, n, total, IF status = "booked" THEN share ELSE 0,
                   rate)
            EXCEPT !.group = g, !.lead = lead]
  IN RecordPayment(IF status = "active" THEN RecordCharge(r, total) ELSE r,
                   share)

GroupCheckin(g, status, S, master, n, rate, totals, amount) ==
  LET share == Allocate(amount, totals) IN
  /\ group[g].status = "absent"
  /\ status \in {"booked", "active"}
  /\ S # {} /\ master \in S
  /\ \A b \in S : book[b].status = "absent" /\ totals[b] \in Totals(rate[b], n)
  /\ SumFunction(totals) <= 0 => amount <= 0
  /\ \A b \in S : share[b] \in 0 .. totals[b]
  /\ book' = [b \in Bookings |->
                IF b \in S THEN Joined(status, g, b = master, n, totals[b],
                                       rate[b], share[b])
                ELSE book[b]]
  /\ group' = [group EXCEPT ![g] = [status |-> status, master |-> master]]
  /\ cash' = cash + amount
  /\ UNCHANGED <<invoice, repriced, numbered>>

\* Mutant: the old representative keeps its flag.
Lead_M(bk, g, master) ==
  [b \in Bookings |->
     IF b = master THEN [bk[b] EXCEPT !.lead = TRUE] ELSE bk[b]]

\* is_master_room is cleared in the whole group and set on its new master.
Lead(bk, g, master) ==
  [b \in Bookings |->
     IF bk[b].group = g THEN [bk[b] EXCEPT !.lead = (b = master)] ELSE bk[b]]

\* maybe_reassign_master_booking: only when the master is among those leaving.
\* The oldest booking still active follows, but a group's bookings are created
\* at one instant, so it may be any of them.
NextMasters(g, S, left) ==
  IF group[g].master \notin S THEN {group[g].master}
  ELSE IF left = {} THEN {None} ELSE left

\* The rooms of S leave at the totals they have, whatever has been paid; a last
\* payment goes to a booking still active, or else to any of the group.
GroupCheckOut(g, S, master, amount, payer) ==
  LET gone == [b \in Bookings |->
                 IF b \in S THEN [book[b] EXCEPT !.status = "checked_out"]
                 ELSE book[b]]
      left == Actives(gone, g)
      led  == IF group[g].master \in S THEN Lead(gone, g, master) ELSE gone
  IN
  /\ S # {} /\ S \subseteq Actives(book, g)
  /\ master \in NextMasters(g, S, left)
  /\ payer \in (IF left # {} THEN left ELSE Members(book, g))
  /\ book' = [led EXCEPT ![payer] = RecordPayment(@, amount)]
  /\ group' = [group EXCEPT ![g] =
                 [status |-> IF left = {} THEN "completed"
                             ELSE "partial_checkout",
                  master |-> master]]
  /\ cash' = cash + amount
  /\ UNCHANGED <<invoice, repriced, numbered>>

-----------------------------------------------------------------------------

AnyGroupCheckin(g) ==
  /\ Write
  /\ group[g].status = "absent"
  /\ \E S \in SUBSET {b \in Bookings : book[b].status = "absent"},
        status \in {"booked", "active"}, n \in Nights, amount \in Amounts :
       \E master \in S, rate \in [S -> Rates \cup {0}] :
         \E totals \in [S -> UNION {Totals(rate[b], n) : b \in S}] :
           GroupCheckin(g, status, S, master, n, rate, totals, amount)

AnyGroupCheckOut(g) ==
  /\ Write
  /\ \E S \in SUBSET Actives(book, g), amount \in Amounts,
        payer \in Members(book, g), master \in Members(book, g) \cup {None} :
       GroupCheckOut(g, S, master, amount, payer)

Next ==
  \/ \E b \in Bookings : Single(b)
  \/ \E g \in Groups : AnyGroupCheckin(g) \/ AnyGroupCheckOut(g)

Spec == Init /\ [][Next]_vars

-----------------------------------------------------------------------------
(* Properties. *)

TypeOK ==
  /\ book \in [Bookings -> Booking]
  /\ invoice \in [Bookings -> Invoice]
  /\ group \in [Groups -> Group]
  /\ repriced \subseteq Bookings
  /\ cash \in Int
  /\ numbered \subseteq (Nat \ {0}) \X Bookings
  /\ writes \in 0 .. MaxWrites

\* What a booking says it has been paid is what its payments and deposits add
\* up to, and no money a guest handed over is missing from the bookings, a
\* group's payment split over its rooms included.
CashIsAccountedFor ==
  /\ \A b \in Bookings : book[b].paid = book[b].payments + book[b].deposits
  /\ SumFunction([b \in Bookings |-> book[b].paid]) = cash

\* The charges of a stay add up to its price, and a reservation has none, but
\* for the bookings that a move repriced before the guest arrived: those carry
\* the difference and, once the guest is in, the whole price besides.
ChargesAreThePrice ==
  \A b \in Bookings \ repriced :
    book[b].charges \in
      CASE book[b].status \in {"active", "checked_out"} -> {book[b].total}
        [] book[b].status = "voided" -> {0, book[b].total}
        [] OTHER -> {0}

\* is_master_room marks the booking that its group names as master, and no
\* other booking of the group.
LeadIsTheMaster ==
  \A b \in Bookings :
    book[b].lead <=> \E g \in Groups : book[b].group = g /\ group[g].master = b

Overpaid(b) == book[b].paid > book[b].total

\* Only five commands can leave a booking that its guest has paid too much for,
\* which check-out then refuses: a payment, at the desk or at a group's
\* departure, and a move, a confirmation or a change of dates that lowers the
\* price.  Every other command looks at what was paid first.
OnlyTheseOverpay ==
  [][\A b \in Bookings : Overpaid(b)' /\ ~Overpaid(b) =>
       \/ \E amount \in Amounts : Pay(b, amount)
       \/ \E n \in Nights : \/ \E old, new \in Engine(n) :
                                 ChangeRoom(b, n, old, new)
                            \/ \E total \in Totals(book[b].rate, n) :
                                 Modify(b, n, total) \/ Confirm(b, n, total)
       \/ \E g \in Groups : AnyGroupCheckOut(g)]_vars

\* An invoice number of a day belongs to one booking for good: not even an
\* invoice issued anew, whose old number is deleted, hands its number on.
InvoiceNumberHasOneBooking ==
  \A p, q \in numbered : p[1] = q[1] => p[2] = q[2]

=============================================================================
