\* Two commands at a time export one guest's two stays in two batches: what
\* counts as declared was filed, and a batch that was verified is whole.
CONSTANTS
  t1 = t1  t2 = t2  d1 = d1  s1 = s1  s2 = s2  v1 = v1  v2 = v2
  Tasks = {t1, t2}
  Documents = {d1}
  NoDocument = NoDocument
  Stays = {s1, s2}
  NoStay = NoStay
  Versions = {v1}
  MaxIdentities = 1
  MaxLinks = 2
  MaxBatches = 2
  MaxMinute = 2
  None = None
SPECIFICATION FilingSpec
SYMMETRY Symmetry
INVARIANTS
  DeclaredIsWhatWasFiled
CHECK_DEADLOCK FALSE
