------------------------------ MODULE MCStayQuote -----------------------------
(* Instances of StayQuote for TLC. *)
EXTENDS StayQuote

\* Every day of a week, at four hours of the day.
EveryDay == {d * Day + h * Hour : d \in 0 .. 6, h \in {0, 10, 13, 23}}

UpAndDown == {25, -10}

\* Rules a manager has saved: a night dearer than the day, one so dear that it
\* caps nothing, and one with discounts and other hours.
Saved(hourly, overnight, daily, early, weekend) ==
  [DerivedRule(daily) EXCEPT !.hourly = hourly, !.overnight = overnight,
                             !.early = early, !.weekend = weekend]

Managers ==
  {Saved(20, 90, 60, 125, 0), Saved(5, 70, 61, 300, 155),
   [Saved(9, 47, 83, -150, -100) EXCEPT !.overnightStart = 12 * Hour,
                                        !.dailyCheckin = 12 * Hour]}

=============================================================================
