\* Two fair calls, a forward clock: leases hold, every call is answered, every
\* claim comes free.
CONSTANTS
  c1 = c1  c2 = c2  c3 = c3  k1 = k1  k2 = k2  h1 = h1  h2 = h2
  Calls = {c1, c2}
  Keys = {k1, k2}
  Hashes = {h1}
  Nil = Nil
  Operator = Operator
  Path <- MixedPaths
  HighRisk = {k1}
  LeaseTime = 1
  Horizon = 1
  ClockJumps = FALSE
SPECIFICATION FairSpec
PROPERTIES
  LeaseIsRespected CallsAreAnswered ClaimsComeFree
CHECK_DEADLOCK FALSE
