SPECIFICATION FairSpec
CONSTANTS
  Items = {"item"}
  Workers = {"w1", "w2"}
  Requests = {"q"}
  Batch = 2
  MaxAttempts = 2
  MaxWeeks = 2
  MaxActs = 1
  MaxFaults = 2
  MaxEvents = 3
INVARIANTS TypeOK OneAtATime PlanKept
PROPERTIES OperationsEnd
CHECK_DEADLOCK FALSE
