\* Two workers, two events of one aggregate, two subscribers, two attempts.
CONSTANTS
  w1 = w1  w2 = w2  a1 = a1
  Workers = {w1, w2}
  Nil = Nil
  Aggregates = {a1}
  MaxEvent = 2
  Streams <- OneAggregate
  Subscribers = 2
  MaxAttempts = 2
  Lease = 2
  BatchSize = 2
  Backoff <- OneTick
  MaxWait = 1
  MaxFaults = 1
SPECIFICATION FairSpec
INVARIANTS
  FifoPerAggregate DispatchedWasAccepted
PROPERTIES
  HandedOncePerAttempt OnlyStaleWorkersAreLate EventsAreSettled
