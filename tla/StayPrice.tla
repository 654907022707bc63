------------------------------- MODULE StayPrice ------------------------------
(***************************************************************************)
(* The pricing engine (pricing.rs, domain/booking/pricing.rs, money.rs):   *)
(* what a stay costs, from its room type's rule, the days the hotel has    *)
(* marked as special, and the guests beyond those the price covers.  An    *)
(* instant counts units of time from the start of a Monday, Hour units to  *)
(* the hour; a percentage counts parts of 1 / PctScale of a per cent.      *)
(* Prices past the range of the code's integers are refused there and are  *)
(* left out here.                                                          *)
(***************************************************************************)
EXTENDS Integers, FiniteSets, Functions

CONSTANTS
  Hour,     \* units of time in an hour
  PctScale  \* 1000000 in the code

ASSUME StayPriceAssumption ==
  /\ Hour \in Nat \ {0}
  /\ PctScale \in Nat \ {0}

Day == 24 * Hour

DateOf(t) == t \div Day
TimeOf(t) == t % Day

AtLeastOne(n) == IF n >= 1 THEN n ELSE 1

Ceiling(n, d) == (n + d - 1) \div d

\* round_ratio_half_away_from_zero.
RoundHalfAway(n, d) ==
  IF n >= 0 THEN (2 * n + d) \div (2 * d) ELSE -((d - 2 * n) \div (2 * d))

\* percentage_money_line; the percentage is in units of 1 / PctScale.
Percent(base, pct) == RoundHalfAway(base * pct, 100 * PctScale)

\* The rule of a room type that has none of its own: the rates derived from its
\* base price, and the house's hours and percentages.
DerivedRule(base) ==
  [hourly |-> base \div 5, overnight |-> (base * 75) \div 100, daily |-> base,
   overnightStart |-> 22 * Hour, overnightEnd |-> 11 * Hour,
   dailyCheckin |-> 14 * Hour, dailyCheckout |-> 12 * Hour,
   early |-> 30 * PctScale, late |-> 30 * PctScale, weekend |-> 20 * PctScale]

-----------------------------------------------------------------------------
(* The days of a stay. *)

\* At least one; the day of departure is not charged.
DaysOf(ci, co) == AtLeastOne(DateOf(co) - DateOf(ci))

StayDates(ci, co) == DateOf(ci) .. DateOf(ci) + DaysOf(ci, co) - 1

Weekend(date) == date % 7 \in {5, 6}

\* Mutant: the day of departure is charged.
WeekendUplift_M(rule, ci, co) ==
  LET days == Cardinality({d \in DateOf(ci) .. DateOf(co) : Weekend(d)})
  IN IF rule.weekend <= 0 THEN 0 ELSE Percent(rule.daily * days, rule.weekend)

WeekendUplift(rule, ci, co) ==
  LET days == Cardinality({d \in StayDates(ci, co) : Weekend(d)})
  IN IF rule.weekend <= 0 THEN 0 ELSE Percent(rule.daily * days, rule.weekend)

\* effective_special_uplift: the mean over the days of the stay, so that each
\* night bears its own day's uplift.
SpecialUplift(special, ci, co) ==
  RoundHalfAway(PctScale * SumFunctionOnSet(special, StayDates(ci, co)),
                DaysOf(ci, co))

-----------------------------------------------------------------------------
(* The four models. *)

\* Mutant: the cap counts the whole days that have passed.
HourlyBase_M(rule, d) ==
  LET raw == rule.hourly * AtLeastOne(Ceiling(d, Hour))
  IN IF raw > rule.overnight /\ d <= 13 * Hour THEN rule.overnight
     ELSE IF raw > rule.daily THEN rule.daily * (d \div Day)
     ELSE raw

\* By the hour, capped at the night's rate up to 13 hours and at the days' rate
\* beyond it.
HourlyBase(rule, d) ==
  LET raw  == rule.hourly * AtLeastOne(Ceiling(d, Hour))
      days == rule.daily * AtLeastOne(Ceiling(d, Day))
  IN IF raw > rule.overnight /\ d <= 13 * Hour THEN rule.overnight
     ELSE IF raw > rule.daily /\ raw > days THEN days
     ELSE raw

Base(rule, kind, ci, co) ==
  CASE kind = "hourly"    -> HourlyBase(rule, co - ci)
    [] kind = "overnight" -> rule.overnight * DaysOf(ci, co)
    [] OTHER              -> rule.daily * DaysOf(ci, co)

\* Arriving before and leaving after the rule's hours costs a share of the whole
\* base overnight, of one day's rate by the day, and only when the time of day
\* is known.
Surcharge(rule, kind, ci, co, timed) ==
  CASE timed /\ kind = "overnight" ->
         LET base == Base(rule, kind, ci, co)
         IN (IF TimeOf(ci) < rule.overnightStart THEN Percent(base, rule.early)
             ELSE 0)
            + (IF TimeOf(co) > rule.overnightEnd THEN Percent(base, rule.late)
               ELSE 0)
    [] timed /\ kind = "daily" ->
         (IF TimeOf(ci) < rule.dailyCheckin THEN Percent(rule.daily, rule.early)
          ELSE 0)
         + (IF TimeOf(co) > rule.dailyCheckout
            THEN Percent(rule.daily, rule.late) ELSE 0)
    [] OTHER -> 0

\* calculate_price.
Price(rule, kind, ci, co, timed, special) ==
  LET base == Base(rule, kind, ci, co)
  IN IF co <= ci THEN 0
     ELSE base + Surcharge(rule, kind, ci, co, timed)
          + WeekendUplift(rule, ci, co)
          + Percent(base, SpecialUplift(special, ci, co))

\* extra_guest_charge: flat for each guest beyond those the price covers and
\* each night, and nothing when the guests are not known.
ExtraGuests(fee, guests, covered, ci, co) ==
  LET extra  == IF guests > covered THEN guests - covered ELSE 0
      nights == DateOf(co) - DateOf(ci)
  IN IF fee <= 0 \/ nights <= 0 THEN 0 ELSE fee * extra * nights

\* calculate_from_loaded_inputs.
StayTotal(rule, kind, ci, co, timed, special, fee, guests, covered) ==
  Price(rule, kind, ci, co, timed, special)
  + ExtraGuests(fee, guests, covered, ci, co)

=============================================================================
