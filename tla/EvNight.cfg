SPECIFICATION Spec
CONSTANTS
  NMembers = 2
  Batches = {b1, b2}
  NoBatch = NoBatch
  NoMember = NoMember
  Clients = {c1}
  BatchMax = 2
  MemberAttempts = 2
  BatchAttempts = 1
  MaxGeneration = 1
  MaxFaults = 0
  MaxReleaseFaults = 1
SYMMETRY BatchSymmetry
INVARIANTS TypeOK MembersWaitForLiveBatch WrittenBounded
PROPERTIES RunClosesWhenDone FollowsLifecycle
\* finitely many members and batches: nothing is left to do in the end
CHECK_DEADLOCK FALSE
