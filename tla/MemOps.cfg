SPECIFICATION FairSpec
CONSTANTS
  batch = batch
  member = member
  Ops = {batch, member}
  Workers = {w1}
  Gateways = {gw}
  Clients = {c1, c2}
  NoWorker = NoWorker
  NoOp = NoOp
  BatchOf <- OneBatch
  MaxAttempts = 2
  MaxGeneration = 3
  MaxFaults = 1
  MaxCommits = 1
  Slots = 2
INVARIANTS TypeOK MarkProtectsHolder ClaimsPaidFor NoStrandedMember
PROPERTIES FollowsContract EventuallySettled
\* a finite set of operations: the system stops when all are settled
CHECK_DEADLOCK FALSE
