\* Two commands at a time over two guests of one group, who arrive, and three
\* rooms.
CONSTANTS
  t1 = t1  t2 = t2
  Tasks = {t1, t2}
  NoTask = NoTask
  MaxId = 3
  Keys <- AllKeys
  Bookings = {1, 2}
  Rooms = {1, 2, 3}
  Groups = {1}
  NoRoom = NoRoom  NoGroup = NoGroup
  GroupOf <- GroupedStays
  FirstRoom <- NobodyIn
SPECIFICATION Spec
SYMMETRY TaskSymmetry
INVARIANTS
  GuardsAreExclusive NoCommandCycle RoomsMatchStays
PROPERTIES
  PhasedKeysCoverWrites
