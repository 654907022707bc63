-------------------------------- MODULE Folio ---------------------------------
(***************************************************************************)
(* The money of a booking: what it costs, what has been paid, the rows of  *)
(* the transactions table, and the invoices.  Each action is what one      *)
(* command's transaction (services/booking) does to them; a refused        *)
(* command rolls back and is a step not taken.  Which nights and rooms a   *)
(* booking holds is StayCalendar's matter: here any room may be free and   *)
(* any price the engine (StayPrice) gives for some room may apply.  The    *)
(* commands that work on whole groups are in GroupFolio.                   *)
(***************************************************************************)
EXTENDS Integers, FiniteSets

CONSTANTS
  Bookings,   \* booking ids, each inserted at most once; they order like rooms
  Groups,     \* group ids
  None,       \* SQL NULL
  MaxNights,  \* bound: the nights of a stay
  Engine(_),  \* the totals the pricing engine may give for so many nights
  Rates,      \* the rates per night a clerk may set by hand
  Amounts,    \* the sums a guest may hand over, zero for nothing
  MaxWrites,  \* bound: commands in a behaviour
  MaxInvoices \* bound: invoices issued in a behaviour

Nights == 1 .. MaxNights

ASSUME FolioAssumption ==
  /\ Bookings \subseteq Nat /\ IsFiniteSet(Bookings)
  /\ None \notin Bookings
  /\ None \notin Groups
  /\ MaxNights \in Nat
  /\ \A n \in Nights : Engine(n) \subseteq Nat
  /\ Rates \subseteq Nat \ {0}
  /\ Amounts \subseteq Nat
  /\ MaxWrites \in Nat
  /\ MaxInvoices \in Nat

VARIABLES
  book,     \* table bookings, with the sums of its rows in transactions
  invoice,  \* table invoices: one day's, by booking
  group,    \* table booking_groups
  repriced, \* history: the bookings a move repriced before the guest arrived
  cash,     \* history: all the money guests have handed over
  numbered, \* history: the invoice numbers given, each with its booking
  writes    \* commands so far

vars == <<book, invoice, group, repriced, cash, numbered, writes>>

Statuses == {"absent", "booked", "active", "checked_out", "cancelled", "voided"}

\* rate is the manual rate that a reservation carries, zero for the engine's
\* price; lead is is_master_room; the last four are the sums of the booking's
\* rows in transactions, by their type.
Booking == [status : Statuses, group : Groups \cup {None}, lead : BOOLEAN,
            nights : Nat, total : Int, paid : Int, deposit : Int, rate : Nat,
            charges : Int, payments : Int, deposits : Int, fees : Int]

Opened(status, n, total, deposit, rate) ==
  [status |-> status, group |-> None, lead |-> FALSE, nights |-> n,
   total |-> total, paid |-> 0, deposit |-> deposit, rate |-> rate,
   charges |-> 0, payments |-> 0, deposits |-> 0, fees |-> 0]

Invoice == [number : Nat, status : {"issued", "voided"}]
NoInvoice == [number |-> 0, status |-> "voided"]

Group == [status : {"absent", "booked", "active", "partial_checkout",
                    "completed"},
          master : Bookings \cup {None}]

Init ==
  /\ book = [b \in Bookings |-> Opened("absent", 0, 0, 0, 0)]
  /\ invoice = [b \in Bookings |-> NoInvoice]
  /\ group = [g \in Groups |-> [status |-> "absent", master |-> None]]
  /\ repriced = {}
  /\ cash = 0
  /\ numbered = {}
  /\ writes = 0

-----------------------------------------------------------------------------
(* Rows of transactions. *)

RecordCharge(r, amount) == [r EXCEPT !.charges = @ + amount]

\* A payment and a deposit also raise paid_amount.
RecordPayment(r, amount) ==
  [r EXCEPT !.payments = @ + amount, !.paid = @ + amount]

RecordDeposit(r, amount) ==
  [r EXCEPT !.deposits = @ + amount, !.paid = @ + amount]

RecordFee(r, amount) == [r EXCEPT !.fees = @ + amount]

\* What n nights cost: by hand, flat, or by the engine.
Totals(rate, n) == IF rate = 0 THEN Engine(n) ELSE {rate * n}

-----------------------------------------------------------------------------
(* Commands on one booking. *)

\* The command leaves b as r, having taken the amount from the guest.
Leave(b, r, amount) ==
  /\ book' = [book EXCEPT ![b] = r]
  /\ cash' = cash + amount

OnlyMoney == UNCHANGED <<invoice, group, repriced, numbered>>

CheckIn(b, rate, n, total, amount) ==
  /\ book[b].status = "absent"
  /\ total \in Totals(rate, n)
  /\ amount <= total
  /\ LET r == RecordCharge(Opened("active", n, total, 0, 0), total)
     IN Leave(b, RecordPayment(r, amount), amount)
  /\ OnlyMoney

\* A stay that is entered late, over or still going on, at the price and the
\* payment the clerk reports.
Backfill(b, status, n, total, amount) ==
  /\ book[b].status = "absent"
  /\ status \in {"active", "checked_out"}
  /\ amount <= total
  /\ LET r == RecordCharge(Opened(status, n, total, 0, 0), total)
     IN Leave(b, RecordPayment(r, amount), amount)
  /\ OnlyMoney

\* The deposit is both a column and a row that raises paid_amount; nothing is
\* charged yet.
Reserve(b, rate, n, total, amount) ==
  /\ book[b].status = "absent"
  /\ total \in Totals(rate, n)
  /\ amount <= total
  /\ Leave(b, RecordDeposit(Opened("booked", n, total, amount, rate), amount),
           amount)
  /\ OnlyMoney

Cancel(b) ==
  /\ book[b].status = "booked"
  /\ LET r == RecordFee(book[b], book[b].deposit)
     IN Leave(b, [r EXCEPT !.status = "cancelled"], 0)
  /\ OnlyMoney

\* The dates change and the price with them; what is paid is not looked at.
Modify(b, n, total) ==
  /\ book[b].status = "booked"
  /\ total \in Totals(book[b].rate, n)
  /\ Leave(b, [book[b] EXCEPT !.nights = n, !.total = total], 0)
  /\ OnlyMoney

\* Mutant: only what the new price adds is charged.
Confirm_M(b, n, total) ==
  /\ book[b].status = "booked"
  /\ total \in Totals(book[b].rate, n)
  /\ LET r == RecordCharge(book[b], total - book[b].total)
     IN Leave(b, [r EXCEPT !.status = "active", !.nights = n,
                           !.total = total], 0)
  /\ OnlyMoney

\* The guest arrives, perhaps late: the nights that remain are priced anew and
\* charged whole; what is paid is not looked at.
Confirm(b, n, total) ==
  /\ book[b].status = "booked"
  /\ total \in Totals(book[b].rate, n)
  /\ LET r == RecordCharge(book[b], total)
     IN Leave(b, [r EXCEPT !.status = "active", !.nights = n,
                           !.total = total], 0)
  /\ OnlyMoney

\* Each night more is asked of the engine, whatever the others cost.
Extend(b, more) ==
  /\ book[b].status = "active"
  /\ book[b].nights < MaxNights
  /\ more \in Engine(1)
  /\ LET r == RecordCharge(book[b], more)
     IN Leave(b, [r EXCEPT !.nights = @ + 1, !.total = @ + more], 0)
  /\ OnlyMoney

\* Mutant: nobody asks whether the guest has paid more than what is left.
Shorten_M(b) ==
  LET back == book[b].total \div book[b].nights IN
  /\ book[b].status = "active"
  /\ book[b].nights >= 2
  /\ LET r == RecordCharge(book[b], -back)
     IN Leave(b, [r EXCEPT !.nights = @ - 1, !.total = @ - back], 0)
  /\ OnlyMoney

\* A night less takes off the average night of this booking.
Shorten(b) ==
  LET back == book[b].total \div book[b].nights IN
  /\ book[b].status = "active"
  /\ book[b].nights >= 2
  /\ book[b].paid <= book[b].total - back
  /\ LET r == RecordCharge(book[b], -back)
     IN Leave(b, [r EXCEPT !.nights = @ - 1, !.total = @ - back], 0)
  /\ OnlyMoney

\* The UPDATE also asks that the total be the one the clerk's command read;
\* when it is not, the command is refused.
SetRate(b, rate) ==
  LET total == rate * book[b].nights IN
  /\ book[b].status = "active"
  /\ book[b].nights > 0
  /\ book[b].paid <= total
  /\ LET r == RecordCharge(book[b], total - book[b].total)
     IN Leave(b, [r EXCEPT !.total = total], 0)
  /\ OnlyMoney

\* Moving the last n nights to a room of another price: the difference goes on
\* the bill at once, though nothing has been charged to a guest still to come.
\* With keep_price, or at the same price, no money moves.
ChangeRoom(b, n, old, new) ==
  LET difference == new - old IN
  /\ book[b].status \in {"booked", "active"}
  /\ n <= book[b].nights
  /\ old \in Engine(n) /\ new \in Engine(n)
  /\ difference # 0
  /\ LET r == RecordCharge(book[b], difference)
     IN Leave(b, [r EXCEPT !.total = @ + difference], 0)
  /\ repriced' = IF book[b].status = "booked" THEN repriced \cup {b}
                 ELSE repriced
  /\ UNCHANGED <<invoice, group, numbered>>

\* record_payment: no status and no total is asked for.
Pay(b, amount) ==
  /\ book[b].status # "absent"
  /\ amount > 0
  /\ Leave(b, RecordPayment(book[b], amount), amount)
  /\ OnlyMoney

\* The stay ends at the total the clerk agrees with the guest, who pays the
\* rest; the nights become those settled, which may be fewer or more.
CheckOut(b, n, total) ==
  /\ book[b].status = "active"
  /\ total >= 0
  /\ book[b].paid <= total
  /\ LET r == RecordCharge(book[b], total - book[b].total)
         s == RecordPayment(r, total - book[b].paid)
     IN Leave(b, [s EXCEPT !.status = "checked_out", !.nights = n,
                           !.total = total], total - book[b].paid)
  /\ OnlyMoney

\* The rows of transactions stay; so does the number of an invoice.
Void(b) ==
  /\ book[b].group = None
  /\ book[b].status \in {"booked", "active", "checked_out"}
  /\ Leave(b, [book[b] EXCEPT !.status = "voided"], 0)
  /\ invoice' = IF book[b].status = "checked_out"
                THEN [invoice EXCEPT ![b].status = "voided"]
                ELSE invoice
  /\ UNCHANGED <<group, repriced, numbered>>

-----------------------------------------------------------------------------
(* Invoices. *)

Numbers(inv) == {inv[b].number : b \in Bookings} \ {0}

\* Mutant: one more than the day's invoices, not than their highest number.
IsNextNumber_M(inv, number) == number = Cardinality(Numbers(inv)) + 1

\* One more than the day's highest number.
IsNextNumber(inv, number) ==
  /\ \A taken \in Numbers(inv) : taken < number
  /\ number = 1 \/ number - 1 \in Numbers(inv)

\* The booking's own invoice is deleted first; the new one is 'issued'
\* whatever the booking's status.
GenerateInvoice(b, number) ==
  LET deleted == [invoice EXCEPT ![b] = NoInvoice] IN
  /\ book[b].status # "absent"
  /\ IsNextNumber(deleted, number)
  /\ invoice' = [deleted EXCEPT ![b] = [number |-> number,
                                        status |-> "issued"]]
  /\ numbered' = numbered \cup {<<number, b>>}
  /\ UNCHANGED <<book, group, repriced, cash>>

-----------------------------------------------------------------------------

Write ==
  /\ writes < MaxWrites
  /\ writes' = writes + 1

Arrive(b) ==
  /\ Write
  /\ book[b].status = "absent"
  /\ \E n \in Nights, amount \in Amounts :
       \/ \E rate \in Rates \cup {0} : \E total \in Totals(rate, n) :
            CheckIn(b, rate, n, total, amount) \/ Reserve(b, rate, n, total, amount)
       \/ \E status \in {"active", "checked_out"}, total \in Amounts :
            Backfill(b, status, n, total, amount)

Reprice(b) ==
  /\ Write
  /\ \/ \E n \in Nights :
          \/ \E total \in Totals(book[b].rate, n) :
               Modify(b, n, total) \/ Confirm(b, n, total)
          \/ \E old, new \in Engine(n) : ChangeRoom(b, n, old, new)
     \/ \E more \in Engine(1) : Extend(b, more)
     \/ \E rate \in Rates : SetRate(b, rate)
     \/ Shorten(b)

Settle(b) ==
  /\ Write
  /\ \/ \E amount \in Amounts : Pay(b, amount)
     \/ \E n \in Nights, total \in Amounts \cup {book[b].total} : CheckOut(b, n, total)
     \/ Cancel(b)
     \/ Void(b)
     \/ \E number \in 1 .. MaxInvoices : GenerateInvoice(b, number)

Single(b) == Arrive(b) \/ Reprice(b) \/ Settle(b)

=============================================================================
