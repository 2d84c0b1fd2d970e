SPECIFICATION FairSpec
CONSTANTS
  NTurns = 1
  Workers = {w1, w2}
  Publishers = {p1, p2}
  JobWorkers = {j1}
  Nobody = Nobody
  None = None
  TurnMaxAttempts = 2
  OutboxMaxAttempts = 2
  JobMaxAttempts = 2
  MaxFaults = 1
INVARIANTS TypeOK AnswersWhole DeletedIsForgotten
PROPERTIES FollowsContract TurnEnds DeletionEnds
\* in the end the thread is deleted and everything delivered
CHECK_DEADLOCK FALSE
