SPECIFICATION Spec
CONSTANTS
  ann = ann
  bob = bob
  NEvents = 2
  EventOf <- TwoUsers
  Consumers = {c1, c2}
  NoConsumer = NoConsumer
  NoEvent = NoEvent
  BatchSize = 1
  MaxAttempts = 2
  MaxFaults = 0
INVARIANTS EveryCommitHasItsEvent
\* every event is settled in the end
CHECK_DEADLOCK FALSE
