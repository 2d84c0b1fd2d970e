SPECIFICATION Spec
CONSTANTS
  NMembers = 2
  Batches = {b1, b2}
  NoBatch = NoBatch
  NoMember = NoMember
  Clients = {}
  BatchMax = 2
  MemberAttempts = 2
  BatchAttempts = 2
  MaxGeneration = 2
  MaxFaults = 0
  MaxReleaseFaults = 0
SYMMETRY BatchSymmetry
INVARIANTS CommittedNotDeadLettered
\* finitely many members and batches: nothing is left to do in the end
CHECK_DEADLOCK FALSE
