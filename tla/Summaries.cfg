SPECIFICATION FairSpec
CONSTANTS
  Turns = {1, 2, 3}
  Threads = {"x", "y"}
  Users = {"a", "b"}
  ThreadOf <- MCThreadOf
  OwnerOf <- MCOwnerOf
  Barren = {3}
  Concurrency = 2
  Reserved = 1
  MaxAttempts = 2
  MaxActs = 1
  MaxFaults = 1
INVARIANTS TypeOK SlotsKept NotFromDeleted DeletedSourcesMarked ConflictShown
PROPERTIES FollowsContract JobsEnd
CHECK_DEADLOCK FALSE
