\* Rooms at 7 and 400 (thousand VND) a night, or at three rules of a manager's,
\* stays of up to three days, time in half hours.
CONSTANTS
  Hour = 2
  PctScale = 10
  BasePrices = {7, 400}
  StoredRules <- Managers
  Arrivals <- EveryDay
  Uplifts <- UpAndDown
  LongestStay = 3
SPECIFICATION QuoteSpec
CHECK_DEADLOCK FALSE
INVARIANTS NightsAddUp
PROPERTIES StayingOnIsNotCheaper
