\* A receptionist and the admin take turns at the desk; one old conversation, the admin's.
CONSTANTS
  ann = ann  bob = bob  old = old
  Staff = {ann, bob}
  Admins = {bob}
  Nobody = Nobody
  OldBooks = {old}
  NoBook = NoBook
  FirstOwner <- BobsBook
  MaxCalls = 3
  MaxSessions = 2
SPECIFICATION Spec
INVARIANTS BusyIsOwned CardsAreApprovedOnce BooksAreOwn SavedTurnsAreKept
CHECK_DEADLOCK FALSE
