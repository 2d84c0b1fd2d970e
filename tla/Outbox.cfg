SPECIFICATION FairSpec
CONSTANTS
  ann = ann
  bob = bob
  NEvents = 2
  EventOf <- TwoKinds
  Consumers = {c1, c2}
  NoConsumer = NoConsumer
  NoEvent = NoEvent
  BatchSize = 2
  MaxAttempts = 2
  MaxFaults = 1
INVARIANTS TypeOK LedgerExact
PROPERTIES FollowsContract EventSettles
\* every event is settled in the end
CHECK_DEADLOCK FALSE
