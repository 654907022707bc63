\* Two bookings, two rooms, one desk, three days and the last.
CONSTANTS
  b1 = b1  b2 = b2  r1 = r1  r2 = r2  c1 = c1
  Bookings = {b1, b2}
  Rooms = {r1, r2}
  Clerks = {c1}
  None = None
  LastDay = 3
  MaxNights = 3
SPECIFICATION HSpec
SYMMETRY Symmetry
CHECK_DEADLOCK FALSE
INVARIANTS
  RowsAreTheStay ComingNightsAreInItsRoom OneStayPerOccupiedRoom
  RowsAreWhereTheGuestSlept
PROPERTIES
  ShortenTakesTheNightSeen
