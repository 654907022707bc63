------------------------------ MODULE StayQuote -------------------------------
(***************************************************************************)
(* A stay as its guest sees the price of it: quoted by the pricing engine  *)
(* of StayPrice when it begins, and lengthened by extend_stay, which asks  *)
(* the engine for the added night alone and adds that to the bill.  A stay *)
(* by the hour is quoted, too, for as long as it may last.  The rule of    *)
(* the room type is the manager's, or derived from the room's base price;  *)
(* it stands while the stay lasts.                                         *)
(***************************************************************************)
EXTENDS StayPrice

CONSTANTS
  BasePrices,   \* bound: the base prices of rooms
  StoredRules,  \* bound: the rules that the manager has saved
  Arrivals,     \* bound: the instants at which stays begin
  Uplifts,      \* bound: the uplifts of special days, in per cent
  LongestStay   \* bound: days

Horizon == 0 .. 7 + LongestStay

\* What save_pricing_rule lets through: rates that are not negative, in any
\* order, and any hours and percentages.
RuleType ==
  [hourly : Nat, overnight : Nat, daily : Nat,
   overnightStart : Int, overnightEnd : Int, dailyCheckin : Int, dailyCheckout : Int,
   early : Int, late : Int, weekend : Int]

ASSUME StayQuoteAssumption ==
  /\ BasePrices \subseteq Nat
  /\ StoredRules \subseteq RuleType
  /\ Arrivals \subseteq 0 .. 7 * Day - 1
  /\ Uplifts \subseteq Int
  /\ LongestStay \in Nat

VARIABLES
  rule,     \* what the room type is priced by
  kind,     \* bookings.pricing_type
  guests,   \* bookings.guests; two are covered, each more costs 1 a night
  special,  \* the day that is special, and its uplift
  from, until,
  bill      \* bookings.total_price

quoteVars == <<rule, kind, guests, special, from, until, bill>>

Kinds == {"nightly", "overnight", "daily", "hourly"}

\* build_effective_pricing_rule: the saved rule, or else the derived one.
Rules == StoredRules \cup {DerivedRule(base) : base \in BasePrices}

QuoteTypeOK ==
  /\ rule \in Rules /\ kind \in Kinds /\ guests \in 2 .. 3
  /\ special \in [day : Horizon, uplift : Uplifts \cup {0}]
  /\ from \in Arrivals /\ until \in Nat /\ bill \in Int

SpecialDays == [d \in Horizon |->
                  IF d = special.day THEN special.uplift ELSE 0]

\* What the engine asks for a stay between two instants of known hours.
Quote(ci, co) ==
  StayTotal(rule, kind, ci, co, TRUE, SpecialDays, 1, guests, 2)

QuoteInit ==
  /\ rule \in Rules /\ kind \in Kinds /\ guests \in 2 .. 3
  /\ special \in [day : Horizon, uplift : Uplifts] \cup {[day |-> 0, uplift |-> 0]}
  /\ from \in Arrivals
  /\ until = from + (IF kind = "hourly" THEN 1 ELSE Day)
  /\ bill = Quote(from, until)

Longer ==
  /\ until - from < LongestStay * Day
  /\ UNCHANGED <<rule, kind, guests, special, from>>

\* extend_stay.
ExtendNight ==
  /\ Longer
  /\ until' = until + Day
  /\ bill' = bill + Quote(until, until')

\* A fresh quote for a stay by the hour, a little longer than the last.
StayOn ==
  /\ Longer
  /\ kind = "hourly"
  /\ bill = Quote(from, until)
  /\ until' = until + 1
  /\ bill' = Quote(from, until')

QuoteNext == ExtendNight \/ StayOn

QuoteSpec == QuoteInit /\ [][QuoteNext]_quoteVars

-----------------------------------------------------------------------------
(* Properties. *)

\* What a night, or a day, is charged.
Rate == IF kind = "overnight" THEN rule.overnight ELSE rule.daily

\* The units that rounding each night's uplifts and surcharges apart may make
\* of difference, the mean uplift of the whole stay included.
Rounding == LET nights == DaysOf(from, until)
            IN 2 * (nights + 1) + (Rate * nights) \div (200 * PctScale)

Distance(m, n) == IF m >= n THEN m - n ELSE n - m

\* Coming early and leaving late costs more, or nothing.
NoDiscounts == rule.early >= 0 /\ rule.late >= 0

\* A stay lengthened a night at a time costs what it would have cost booked
\* whole: the weekend, the special day and the extra guest each count the night
\* of arrival, no day of departure and no night twice.  Only a stay by the day
\* may cost more, for each added day is taxed again for the hour of arrival.
NightsAddUp ==
  CASE kind \in {"nightly", "overnight"} ->
         Distance(bill, Quote(from, until)) <= Rounding
    [] kind = "daily" -> NoDiscounts => bill >= Quote(from, until) - Rounding
    [] OTHER -> TRUE

\* The night's rate is no more than the day's, or never caps a stay.  With a
\* dearer night a stay of 13 hours is capped at it, and a longer one at less.
CapsInOrder == rule.overnight <= rule.daily \/ 13 * rule.hourly <= rule.overnight

\* Where no day is special, no percentage a discount and the caps are in order,
\* a guest who stays on never pays less for it: the caps never pull the price
\* of a longer stay under that of a shorter one.  Nothing keeps a manager from
\* saving a rule with the caps out of order.
StayingOnIsNotCheaper ==
  [][special.uplift = 0 /\ NoDiscounts /\ CapsInOrder => bill' >= bill]_quoteVars

=============================================================================
