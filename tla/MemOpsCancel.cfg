SPECIFICATION Spec
CONSTANTS
  batch = batch
  member = member
  Ops = {batch, member}
  Workers = {w1}
  Gateways = {}
  Clients = {c1}
  NoWorker = NoWorker
  NoOp = NoOp
  BatchOf <- OneBatch
  MaxAttempts = 1
  MaxGeneration = 1
  MaxFaults = 0
  MaxCommits = 1
  Slots = 2
PROPERTY CancelledNeverCommits
\* a finite set of operations: the system stops when all are settled
CHECK_DEADLOCK FALSE
