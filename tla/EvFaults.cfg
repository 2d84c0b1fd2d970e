SPECIFICATION FairSpec
CONSTANTS
  NMembers = 1
  Batches = {b1, b2}
  NoBatch = NoBatch
  NoMember = NoMember
  Clients = {}
  BatchMax = 1
  MemberAttempts = 2
  BatchAttempts = 2
  MaxGeneration = 3
  MaxFaults = 1
  MaxReleaseFaults = 0
INVARIANTS SucceededWasConcluded
PROPERTIES EvidenceSettles
\* finitely many members and batches: nothing is left to do in the end
CHECK_DEADLOCK FALSE
