\* One command at a time, an identity that is scanned again with other data:
\* the record of a batch that is verified is not what its file said.
CONSTANTS
  t1 = t1  t2 = t2  d1 = d1  s1 = s1  s2 = s2  v1 = v1  v2 = v2
  Tasks = {t1}
  Documents = {d1, NoDocument}
  NoDocument = NoDocument
  Stays = {s1, NoStay}
  NoStay = NoStay
  Versions = {v1, v2}
  MaxIdentities = 1
  MaxLinks = 1
  MaxBatches = 1
  MaxMinute = 1
  None = None
SPECIFICATION FilingSpec
SYMMETRY Symmetry
INVARIANTS
  EvidenceIsWhatWasFiled
CHECK_DEADLOCK FALSE
