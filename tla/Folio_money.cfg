\* Two bookings and a group of them, stays of up to two nights, in the rooms of
\* MCEngine or at 2 a night.
CONSTANTS
  Bookings = {1, 2}
  Groups = {g}
  None = None
  g = g
  MaxNights = 2
  Engine <- MCEngine
  Rates = {2}
  Amounts = {0, 3}
  MaxWrites = 5
  MaxInvoices = 3
  Hour = 1
  PctScale = 1
SPECIFICATION Spec
CHECK_DEADLOCK FALSE
INVARIANTS
  CashIsAccountedFor ChargesAreThePrice LeadIsTheMaster
  InvoiceNumberHasOneBooking
PROPERTIES OnlyTheseOverpay
