SPECIFICATION Spec
CONSTANTS
  d1 = d1
  d2 = d2
  Docs <- MCDocs
  Existing <- MCExisting
  NOps = 2
  MaxPlans = 2
  NExecs = 2
  MaxNamed = 3
  MaxTasks = 1
  None = None
INVARIANT CommittedPlansKept
CHECK_DEADLOCK FALSE
