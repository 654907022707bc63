\* Three calls, two payloads, one high-risk key, a clock that jumps: takeovers,
\* hash conflicts, and all that has to hold whatever the clock says.
CONSTANTS
  c1 = c1  c2 = c2  c3 = c3  k1 = k1  k2 = k2  h1 = h1  h2 = h2
  Calls = {c1, c2, c3}
  Keys = {k1}
  Hashes = {h1, h2}
  Nil = Nil
  Operator = Operator
  Path <- PlainPath
  HighRisk = {k1}
  LeaseTime = 1
  Horizon = 1
  ClockJumps = TRUE
SPECIFICATION Spec
SYMMETRY Symmetry
INVARIANTS
  EffectIffCompleted AnswersAreKept
PROPERTIES
  ImplementsCommandOnce DismissalCoversOneAttempt
CHECK_DEADLOCK FALSE
