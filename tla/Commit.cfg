SPECIFICATION FairSpec
CONSTANTS
  d1 = d1
  d2 = d2
  Docs <- MCDocs
  Existing <- MCExisting
  NOps = 2
  MaxPlans = 2
  NExecs = 3
  MaxNamed = 2
  MaxTasks = 1
  None = None
INVARIANTS TypeOK VersionReadable CleanIndexIsCurrent
PROPERTIES FollowsHistory VersionsNeverReused CurrentConverges
\* everything may have been done
CHECK_DEADLOCK FALSE
