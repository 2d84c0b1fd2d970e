----------------------- MODULE MemoryOperations_proofs -----------------------
(***************************************************************************)
(* Proofs about MemoryOperations, for every set of operations, workers,    *)
(* gateways and clients, every assignment of members to batches and every  *)
(* bound: type correctness, the safety invariants, the budget of claims,   *)
(* and that the queue implements OperationContract.                        *)
(*                                                                         *)
(* The inductive invariant is IInv.  Every action except Claim and Crash   *)
(* is a "calm" step (CalmRow, CalmTask), and CalmInv shows once that a     *)
(* calm step preserves IInv; the lemma of an action then only has to show  *)
(* that the action is calm.                                                *)
(***************************************************************************)
EXTENDS MemoryOperations, TLAPS

(* The inserted rows satisfy the invariant: no claim, no execution.        *)
LEMMA InitInv == Init => IInv
  <1> SUFFICES ASSUME Init PROVE IInv
    OBVIOUS
  <1> USE OpsAssumption DEF Init
  <1>1. TypeOK
    BY DEF TypeOK, Row, Task, Cancel, NoTask, Statuses, Phases, Outcomes, Generations, TERMINAL_STATUSES
  <1>2. RowsAgree
    BY DEF RowsAgree
  <1>3. TasksAgree
    BY DEF TasksAgree, NoTask
  <1>4. CancelsAgree
    BY DEF CancelsAgree
  <1>5. MarkProtectsHolder /\ ResultFromLastClaim
    BY DEF MarkProtectsHolder, ResultFromLastClaim, HolderInCommit, NoTask
  <1>6. NoStrandedMember
    BY DEF NoStrandedMember, TERMINAL_STATUSES
  <1>7. QED
    BY <1>1, <1>2, <1>3, <1>4, <1>5, <1>6 DEF IInv

(* Step keeps the type of task and changes one execution only.             *)
LEMMA StepType ==
  ASSUME TypeOK, NEW o \in Ops, NEW g \in Generations, NEW phase \in Phases,
         NEW outcome \in Outcomes, Step(o, g, phase, outcome)
  PROVE  /\ task' \in [Ops -> [Generations -> Task]]
         /\ \A x \in Ops, h \in Generations :
              x # o \/ h # g => task'[x][h] = task[x][h]
         /\ task'[o][g].phase = phase
         /\ phase \notin {"over", "settled"} => task'[o][g].outcome = outcome
         /\ task'[o][g].commits = task[o][g].commits
  <1> DEFINE t == IF phase \in {"over", "settled"} THEN Ended(task[o][g], phase)
             ELSE [task[o][g] EXCEPT !.phase = phase, !.outcome = outcome]
  <1>1. task[o] \in [Generations -> Task] /\ task[o][g] \in Task
    BY DEF TypeOK
  <1>2. t \in Task /\ t.phase = phase /\ t.commits = task[o][g].commits
    <2>1. CASE phase \in {"over", "settled"}
      <3>1. t = [worker |-> NoWorker, phase |-> phase, outcome |-> "none", attempt |-> 0,
                 commits |-> task[o][g].commits]
        BY <2>1 DEF Ended, NoTask
      <3>2. task[o][g].commits \in 0..MaxCommits
        BY <1>1 DEF Task
      <3>3. 0 \in 0..MaxGeneration
        BY OpsAssumption
      <3> HIDE DEF t
      <3> QED BY <3>1, <3>2, <3>3 DEF Task, Outcomes
    <2>2. CASE phase \notin {"over", "settled"}
      BY <1>1, <2>2 DEF Task
    <2> QED BY <2>1, <2>2
  <1>3. phase \notin {"over", "settled"} => t.outcome = outcome
    BY <1>1 DEF Task
  <1> HIDE DEF t
  <1>4. task' = [task EXCEPT ![o][g] = t]
    BY DEF Step, t
  <1>5. task' \in [Ops -> [Generations -> Task]]
    BY <1>2, <1>4 DEF TypeOK
  <1>6. task'[o][g] = t
    BY <1>1, <1>4 DEF TypeOK
  <1>7. \A x \in Ops, h \in Generations :
              x # o \/ h # g => task'[x][h] = task[x][h]
    BY <1>4 DEF TypeOK
  <1> QED BY <1>2, <1>3, <1>5, <1>6, <1>7

(* What every step except a claim does to a row: it keeps the generation,  *)
(* leaves a terminal status only for a cancel, starts no execution, and    *)
(* takes the batch of a waiting member away only with the membership.      *)
CalmRow(x) ==
  /\ row'[x].attempts = row[x].attempts
  /\ row'[x].generation = row[x].generation
  /\ row'[x].batch \in {row[x].batch, NoOp}
  /\ row[x].status \in TERMINAL_STATUSES =>
       row'[x].status \in {row[x].status, "cancelled"}
  /\ row'[x].status = "running" => row[x].status = "running"
  /\ row'[x].status = "pending_batch" => row[x].status = "pending_batch"
  /\ row'[x].status = "pending_batch" /\ row'[x].batch # NoOp =>
       (row'[row[x].batch].status \in TERMINAL_STATUSES =>
          row[row[x].batch].status \in TERMINAL_STATUSES)

(* What a step does to an execution: nothing, the mark of its row included, *)
(* or it leaves it in a phase the invariant allows.                        *)
CalmTask(x, h) ==
  \/ /\ task'[x][h] = task[x][h]
     /\ row'[x].status = "running" /\ row[x].generation = h =>
          row'[x].commitStarted = row[x].commitStarted
  \/ /\ h <= row[x].generation
     /\ task'[x][h].phase = "finish" => task'[x][h].outcome \notin {"none", "timeout"}
     /\ task'[x][h].phase = "marked" => task'[x][h].commits < MaxCommits
     /\ HolderInCommit(x, h)' => row'[x].commitStarted
     /\ task'[x][h].phase = "settled" =>
          row[x].generation = h /\ row'[x].status \in TERMINAL_STATUSES

(* A calm step preserves the invariant.                                    *)
LEMMA CalmInv ==
  ASSUME IInv, TypeOK', CancelsAgree',
         \A x \in Ops : CalmRow(x),
         \A x \in Ops, h \in Generations : CalmTask(x, h)
  PROVE  IInv'
  <1>1. RowsAgree'
    <2> SUFFICES ASSUME NEW x \in Ops
                 PROVE /\ row'[x].attempts = row'[x].generation
                       /\ row'[x].batch # NoOp => row'[row'[x].batch].batch = NoOp
      BY DEF RowsAgree
    <2>1. row'[x].attempts = row'[x].generation
      BY DEF IInv, RowsAgree, CalmRow
    <2>2. ASSUME row'[x].batch # NoOp PROVE row'[row'[x].batch].batch = NoOp
      <3>1. row'[x].batch = row[x].batch /\ row[row[x].batch].batch = NoOp
        BY <2>2 DEF IInv, RowsAgree, CalmRow
      <3>2. row[x].batch \in Ops
        BY <2>2, <3>1 DEF IInv, TypeOK, Row
      <3> QED BY <3>1, <3>2 DEF CalmRow
    <2> QED BY <2>1, <2>2
  <1>2. TasksAgree'
    <2> SUFFICES ASSUME NEW x \in Ops, NEW h \in Generations
                 PROVE /\ h > row'[x].generation => task'[x][h].phase = "none"
                       /\ task'[x][h].phase = "finish" =>
                            task'[x][h].outcome \notin {"none", "timeout"}
                       /\ task'[x][h].phase = "marked" => task'[x][h].commits < MaxCommits
      BY DEF TasksAgree
    <2>1. row'[x].generation = row[x].generation /\ row[x].generation \in Nat /\ h \in Nat
      BY DEF CalmRow, IInv, TypeOK, Row, Generations
    <2>2. CASE task'[x][h] = task[x][h]
      BY <2>1, <2>2 DEF IInv, TasksAgree
    <2>3. CASE task'[x][h] # task[x][h]
      BY <2>1, <2>3 DEF CalmTask
    <2> QED BY <2>2, <2>3
  <1>3. MarkProtectsHolder'
    <2> SUFFICES ASSUME NEW x \in Ops, NEW h \in Generations, HolderInCommit(x, h)'
                 PROVE row'[x].commitStarted
      BY DEF MarkProtectsHolder
    <2>1. row[x].status = "running" /\ row[x].generation = h
      BY DEF CalmRow, HolderInCommit
    <2>2. CalmTask(x, h)
      OBVIOUS
    <2>3. CASE task'[x][h] = task[x][h] /\ row'[x].commitStarted = row[x].commitStarted
      <3>1. HolderInCommit(x, h)
        BY <2>1, <2>3 DEF HolderInCommit
      <3>2. row[x].commitStarted
        BY <3>1 DEF IInv, MarkProtectsHolder
      <3> QED BY <2>3, <3>2
    <2> QED BY <2>1, <2>2, <2>3 DEF CalmTask, HolderInCommit
  <1>4. ResultFromLastClaim'
    BY DEF IInv, ResultFromLastClaim, CalmRow, CalmTask, TERMINAL_STATUSES
  <1>5. NoStrandedMember'
    <2> SUFFICES ASSUME NEW m \in Ops, row'[m].status = "pending_batch", row'[m].batch # NoOp
                 PROVE row'[row'[m].batch].status \notin TERMINAL_STATUSES
      BY DEF NoStrandedMember
    <2>1. row'[m].batch = row[m].batch /\ row[m].status = "pending_batch"
      BY DEF CalmRow
    <2>2. row[row[m].batch].status \notin TERMINAL_STATUSES
      BY <2>1 DEF IInv, NoStrandedMember
    <2> QED BY <2>1, <2>2 DEF CalmRow
  <1> QED BY <1>1, <1>2, <1>3, <1>4, <1>5 DEF IInv

(* A step that leaves the table alone is calm.                             *)
LEMMA SameRows ==
  ASSUME IInv, row' = row
  PROVE  /\ row' \in [Ops -> Row]
         /\ \A x \in Ops : CalmRow(x)
  BY DEF IInv, TypeOK, CalmRow

(* One execution moves to another phase, with or without a write to the    *)
(* table.                                                                  *)
LEMMA StepInv ==
  ASSUME IInv, row' \in [Ops -> Row], cancel' = cancel, faults' \in 0..MaxFaults,
         \A x \in Ops : CalmRow(x),
         NEW o \in Ops, NEW g \in Generations, NEW phase \in Phases,
         NEW outcome \in Outcomes,
         task[o][g].phase # "none",
         Step(o, g, phase, outcome),
         phase = "finish" => outcome \notin {"none", "timeout"},
         phase = "marked" => task[o][g].commits < MaxCommits,
         HolderInCommit(o, g)' => row'[o].commitStarted,
         phase = "settled" => row[o].generation = g /\ row'[o].status \in TERMINAL_STATUSES,
         \A x \in Ops : row'[x].status = "running" /\ (x = o => row[x].generation # g) =>
                          row'[x].commitStarted = row[x].commitStarted
  PROVE  IInv'
  <1>1. /\ task' \in [Ops -> [Generations -> Task]]
        /\ \A x \in Ops, h \in Generations : x # o \/ h # g => task'[x][h] = task[x][h]
        /\ task'[o][g].phase = phase
        /\ phase \notin {"over", "settled"} => task'[o][g].outcome = outcome
        /\ task'[o][g].commits = task[o][g].commits
    BY StepType DEF IInv
  <1>2. TypeOK' /\ CancelsAgree'
    BY <1>1 DEF IInv, TypeOK, CancelsAgree
  <1>3. g <= row[o].generation
    BY DEF IInv, TasksAgree, TypeOK, Row, Generations
  <1>4. ASSUME NEW x \in Ops, NEW h \in Generations PROVE CalmTask(x, h)
    <2>1. CASE x # o \/ h # g
      BY <1>1, <2>1 DEF CalmTask
    <2>2. CASE x = o /\ h = g
      BY <1>1, <1>3, <2>2 DEF CalmTask
    <2> QED BY <2>1, <2>2
  <1> QED BY <1>2, <1>4, CalmInv

(* One execution moves and the table does not change.                      *)
LEMMA QuietStepInv ==
  ASSUME IInv, UNCHANGED <<row, cancel>>, faults' \in 0..MaxFaults,
         NEW o \in Ops, NEW g \in Generations, NEW phase \in Phases,
         NEW outcome \in Outcomes,
         task[o][g].phase # "none",
         Step(o, g, phase, outcome),
         phase = "finish" => outcome \notin {"none", "timeout"},
         phase = "unmark" => task[o][g].phase = "marked",
         phase \notin {"marked", "settled"}
  PROVE  IInv'
  <1>1. task'[o][g].phase = phase
    BY StepType DEF IInv
  <1>2. HolderInCommit(o, g)' => row'[o].commitStarted
    BY <1>1 DEF IInv, MarkProtectsHolder, HolderInCommit
  <1> QED BY <1>2, SameRows, StepInv

(* The table or a cancel request changes and no execution does.            *)
LEMMA RowsInv ==
  ASSUME IInv, row' \in [Ops -> Row], task' = task,
         cancel' \in [Clients -> Cancel], CancelsAgree', faults' \in 0..MaxFaults,
         \A x \in Ops : CalmRow(x),
         \A x \in Ops : row'[x].status = "running" =>
                          row'[x].commitStarted = row[x].commitStarted
  PROVE  IInv'
  <1>1. TypeOK'
    BY DEF IInv, TypeOK
  <1>2. \A x \in Ops, h \in Generations : CalmTask(x, h)
    BY DEF CalmTask
  <1> QED BY <1>1, <1>2, CalmInv

(* Faults stay within their bound.                                         *)
LEMMA FaultType == ASSUME TypeOK, Fault PROVE faults' \in 0..MaxFaults
  BY OpsAssumption DEF TypeOK, Fault

(* Another flag of one row: nothing the invariant is about changes.        *)
LEMMA OneRow ==
  ASSUME IInv, NEW o \in Ops, NEW r \in Row, row' = [row EXCEPT ![o] = r],
         r.attempts = row[o].attempts, r.generation = row[o].generation,
         r.batch = row[o].batch, r.status = row[o].status
  PROVE  /\ row' \in [Ops -> Row]
         /\ row'[o] = r
         /\ \A x \in Ops : x # o => row'[x] = row[x]
         /\ \A x \in Ops : CalmRow(x)
  <1>1. row \in [Ops -> Row]
    BY DEF IInv, TypeOK
  <1>2. row' \in [Ops -> Row] /\ row'[o] = r /\ \A x \in Ops : x # o => row'[x] = row[x]
    BY <1>1
  <1>3. \A x \in Ops : /\ row'[x].attempts = row[x].attempts
                       /\ row'[x].generation = row[x].generation
                       /\ row'[x].batch = row[x].batch
                       /\ row'[x].status = row[x].status
    BY <1>2
  <1>4. \A x \in Ops : row[x].batch # NoOp => row[x].batch \in Ops
    BY <1>1 DEF Row
  <1>5. \A x \in Ops : CalmRow(x)
    BY <1>3, <1>4 DEF CalmRow
  <1> QED BY <1>2, <1>5

-----------------------------------------------------------------------------
(* Heartbeat renews a lease and touches nothing else.                      *)
LEMMA HeartbeatInv ==
  ASSUME IInv, NEW o \in Ops, NEW g \in Generations, Heartbeat(o, g)
  PROVE  IInv' /\ \A x \in Ops : CalmRow(x)
  <1> DEFINE r == [row[o] EXCEPT !.expired = FALSE]
  <1>0. row \in [Ops -> Row] /\ row[o] \in Row
    BY DEF IInv, TypeOK
  <1>a. /\ r \in Row /\ r.attempts = row[o].attempts /\ r.generation = row[o].generation
        /\ r.batch = row[o].batch /\ r.status = row[o].status
        /\ r.commitStarted = row[o].commitStarted
    BY <1>0 DEF Row
  <1>b. row' = [row EXCEPT ![o] = r]
    BY DEF Heartbeat
  <1> HIDE DEF r
  <1>1. row' \in [Ops -> Row]
    BY <1>a, <1>b, OneRow
  <1>2. \A x \in Ops : CalmRow(x) /\ row'[x].commitStarted = row[x].commitStarted
    BY <1>a, <1>b, OneRow
  <1> QED BY <1>1, <1>2, RowsInv DEF Heartbeat, IInv, TypeOK, CancelsAgree

(* A lease that expires changes no status.                                 *)
LEMMA LeaseExpiresInv ==
  ASSUME IInv, NEW o \in Ops, LeaseExpires(o)
  PROVE  IInv' /\ \A x \in Ops : CalmRow(x)
  <1> DEFINE r == [row[o] EXCEPT !.expired = TRUE]
  <1>0. row \in [Ops -> Row] /\ row[o] \in Row
    BY DEF IInv, TypeOK
  <1>a. /\ r \in Row /\ r.attempts = row[o].attempts /\ r.generation = row[o].generation
        /\ r.batch = row[o].batch /\ r.status = row[o].status
        /\ r.commitStarted = row[o].commitStarted
    BY <1>0 DEF Row
  <1>b. row' = [row EXCEPT ![o] = r]
    BY DEF LeaseExpires
  <1> HIDE DEF r
  <1>1. row' \in [Ops -> Row]
    BY <1>a, <1>b, OneRow
  <1>2. \A x \in Ops : CalmRow(x) /\ row'[x].commitStarted = row[x].commitStarted
    BY <1>a, <1>b, OneRow
  <1>3. faults' \in 0..MaxFaults
    BY FaultType DEF IInv, TypeOK, LeaseExpires
  <1> QED BY <1>1, <1>2, <1>3, RowsInv DEF LeaseExpires, IInv, TypeOK, CancelsAgree

(* A backoff that elapses changes no status.                               *)
LEMMA BackoffElapsesInv ==
  ASSUME IInv, NEW o \in Ops, BackoffElapses(o)
  PROVE  IInv' /\ \A x \in Ops : CalmRow(x)
  <1> DEFINE r == [row[o] EXCEPT !.due = TRUE]
  <1>0. row \in [Ops -> Row] /\ row[o] \in Row
    BY DEF IInv, TypeOK
  <1>a. /\ r \in Row /\ r.attempts = row[o].attempts /\ r.generation = row[o].generation
        /\ r.batch = row[o].batch /\ r.status = row[o].status
        /\ r.commitStarted = row[o].commitStarted
    BY <1>0 DEF Row
  <1>b. row' = [row EXCEPT ![o] = r]
    BY DEF BackoffElapses
  <1> HIDE DEF r
  <1>1. row' \in [Ops -> Row]
    BY <1>a, <1>b, OneRow
  <1>2. \A x \in Ops : CalmRow(x) /\ row'[x].commitStarted = row[x].commitStarted
    BY <1>a, <1>b, OneRow
  <1> QED BY <1>1, <1>2, RowsInv DEF BackoffElapses, IInv, TypeOK, CancelsAgree

(* Recovery turns running rows into retry_wait and keeps their marks.      *)
LEMMA RecoverInv ==
  ASSUME IInv, RecoverExpiredLeases
  PROVE  IInv' /\ \A x \in Ops : CalmRow(x)
  <1>1. ASSUME NEW x \in Ops
        PROVE  row'[x] \in Row /\ CalmRow(x) /\ row'[x].commitStarted = row[x].commitStarted
    <2>0. row[x] \in Row /\ NoWorker \in Holders \union {NoWorker}
      BY DEF IInv, TypeOK
    <2>1. CASE row[x].status = "running" /\ row[x].expired
      <3>1. row'[x] = [row[x] EXCEPT !.status = "retry_wait", !.due = TRUE,
                           !.lockedBy = NoWorker, !.expired = FALSE]
        BY <2>1 DEF RecoverExpiredLeases
      <3>2. /\ row'[x] \in Row
            /\ row'[x].status = "retry_wait" /\ row'[x].batch = row[x].batch
            /\ row'[x].generation = row[x].generation /\ row'[x].attempts = row[x].attempts
            /\ row'[x].commitStarted = row[x].commitStarted
        BY <2>0, <3>1 DEF Row, Statuses
      <3> QED BY <2>1, <3>2 DEF CalmRow, TERMINAL_STATUSES
    <2>2. CASE ~(row[x].status = "running" /\ row[x].expired)
      <3>1. row'[x] = row[x]
        BY <2>2 DEF RecoverExpiredLeases
      <3>2. ASSUME row[x].batch # NoOp
            PROVE  row'[row[x].batch].status \in TERMINAL_STATUSES =>
                     row[row[x].batch].status \in TERMINAL_STATUSES
        <4>1. row[x].batch \in Ops
          BY <2>0, <3>2 DEF Row
        <4> QED BY <4>1 DEF IInv, TypeOK, Row, RecoverExpiredLeases, TERMINAL_STATUSES
      <3> QED BY <2>0, <3>1, <3>2 DEF CalmRow
    <2> QED BY <2>1, <2>2
  <1>2. row' \in [Ops -> Row]
    BY <1>1 DEF RecoverExpiredLeases
  <1> QED BY <1>1, <1>2, RowsInv DEF RecoverExpiredLeases, IInv, TypeOK, CancelsAgree

(* Reading a row for a cancel changes no row.                              *)
LEMMA CancelReadInv ==
  ASSUME IInv, NEW c \in Clients, NEW o \in Ops, CancelRead(c, o)
  PROVE  IInv' /\ \A x \in Ops : CalmRow(x)
  <1> DEFINE k == [cancel[c] EXCEPT !.phase = "decide", !.op = o, !.status = row[o].status,
                                    !.committing = row[o].commitStarted]
  <1>0. /\ cancel \in [Clients -> Cancel] /\ cancel[c] \in Cancel /\ CancelsAgree
        /\ row[o].status \in Statuses /\ row[o].commitStarted \in BOOLEAN
    BY DEF IInv, TypeOK, Row
  <1>a. k \in Cancel /\ k.op = o
    BY <1>0 DEF Cancel
  <1>b. cancel' = [cancel EXCEPT ![c] = k]
    BY DEF CancelRead
  <1> HIDE DEF k
  <1>1. cancel' \in [Clients -> Cancel] /\ CancelsAgree'
    BY <1>0, <1>a, <1>b DEF CancelsAgree
  <1>2. \A x \in Ops : CalmRow(x)
    BY SameRows DEF CancelRead
  <1> QED BY <1>1, <1>2, RowsInv DEF CancelRead, IInv, TypeOK

(* Answering a cancel request keeps its type.                              *)
LEMMA ReplyType ==
  ASSUME IInv, NEW c \in Clients, NEW reply \in {"ok", "conflict"}, CancelReply(c, reply)
  PROVE  cancel' \in [Clients -> Cancel] /\ CancelsAgree'
  <1> DEFINE k == [cancel[c] EXCEPT !.phase = "done", !.reply = reply]
  <1>0. cancel \in [Clients -> Cancel] /\ cancel[c] \in Cancel /\ CancelsAgree
    BY DEF IInv, TypeOK
  <1>1. k \in Cancel /\ k.phase = "done"
    BY <1>0 DEF Cancel
  <1>2. cancel' = [cancel EXCEPT ![c] = k]
    BY DEF CancelReply
  <1> HIDE DEF k
  <1> QED BY <1>0, <1>1, <1>2 DEF CancelsAgree

(* A refused cancel changes no row.                                        *)
LEMMA CancelRefusedInv ==
  ASSUME IInv, NEW c \in Clients, CancelRefused(c)
  PROVE  IInv' /\ \A x \in Ops : CalmRow(x)
  <1>1. cancel' \in [Clients -> Cancel] /\ CancelsAgree'
    BY ReplyType DEF CancelRefused
  <1>2. \A x \in Ops : CalmRow(x)
    BY SameRows DEF CancelRefused
  <1> QED BY <1>1, <1>2, RowsInv DEF CancelRefused, IInv, TypeOK

(* A cooperative cancel only sets the request flag.                        *)
LEMMA CancelCooperativelyInv ==
  ASSUME IInv, NEW c \in Clients, CancelCooperatively(c)
  PROVE  IInv' /\ \A x \in Ops : CalmRow(x)
  <1>1. cancel' \in [Clients -> Cancel] /\ CancelsAgree'
    BY ReplyType DEF CancelCooperatively
  <1> DEFINE o == cancel[c].op
             r == [row[o] EXCEPT !.cancelRequested = TRUE]
  <1>0. o \in Ops /\ row \in [Ops -> Row] /\ row[o] \in Row
    BY DEF IInv, TypeOK, CancelsAgree, CancelCooperatively
  <1>a. /\ r \in Row /\ r.attempts = row[o].attempts /\ r.generation = row[o].generation
        /\ r.batch = row[o].batch /\ r.status = row[o].status
        /\ r.commitStarted = row[o].commitStarted
    BY <1>0 DEF Row
  <1>b. row' = [row EXCEPT ![o] = r]
    BY DEF CancelCooperatively
  <1> HIDE DEF o, r
  <1>2. row' \in [Ops -> Row]
    BY <1>0, <1>a, <1>b, OneRow
  <1>3. \A x \in Ops : CalmRow(x) /\ row'[x].commitStarted = row[x].commitStarted
    BY <1>0, <1>a, <1>b, OneRow
  <1> QED BY <1>1, <1>2, <1>3, RowsInv DEF CancelCooperatively, IInv, TypeOK

(* What settling the members of o does to any other row.                   *)
LEMMA SettleCalm ==
  ASSUME IInv, NEW o \in Ops, NEW r \in Row, NEW st \in TERMINAL_STATUSES,
         row' = WithMembersSettled(o, r, st),
         r.status = st,
         r.batch = row[o].batch, r.generation = row[o].generation,
         r.attempts = row[o].attempts,
         row[o].status \in TERMINAL_STATUSES => st = "cancelled"
  PROVE  /\ row' \in [Ops -> Row]
         /\ \A x \in Ops : CalmRow(x)
         /\ \A x \in Ops : row'[x].status = "running" =>
              row'[x].commitStarted = row[x].commitStarted
         /\ row'[o] = r
  <1>0. row'[o] = r /\ \A x \in Ops : x # o => row'[x] = SettledMember(row[x], o, st)
    BY DEF WithMembersSettled
  <1>1. ASSUME NEW x \in Ops, x # o
        PROVE  /\ row'[x] \in Row
               /\ row'[x].attempts = row[x].attempts
               /\ row'[x].generation = row[x].generation
               /\ row'[x].commitStarted = row[x].commitStarted
               /\ row'[x] # row[x] => row[x].status = "pending_batch"
               /\ row'[x].batch \in {row[x].batch, NoOp}
               /\ row'[x].status = "running" => row[x].status = "running"
               /\ row'[x].status = "pending_batch" => row[x].status = "pending_batch"
               /\ row'[x].status = "pending_batch" => row'[x].batch # o
    <2>0. row[x] \in Row /\ o \in Ops /\ o # NoOp
      BY OpsAssumption DEF IInv, TypeOK
    <2>1. row'[x] = SettledMember(row[x], o, st)
      BY <1>0, <1>1
    <2>2. CASE row[x].batch = o /\ row[x].status = "pending_batch"
      <3>1. CASE st = "cancelled"
        <4>1. row'[x] = [row[x] EXCEPT !.batch = NoOp]
          BY <2>1, <2>2, <3>1 DEF SettledMember
        <4> QED BY <2>0, <2>2, <4>1 DEF Row
      <3>2. CASE st # "cancelled"
        <4>1. \/ row'[x] = [row[x] EXCEPT !.status = "succeeded"]
              \/ row'[x] = [row[x] EXCEPT !.status = "dead_letter"]
          BY <2>1, <2>2, <3>2 DEF SettledMember, TERMINAL_STATUSES
        <4> QED BY <2>0, <2>2, <4>1 DEF Row, Statuses, TERMINAL_STATUSES
      <3> QED BY <3>1, <3>2
    <2>3. CASE ~(row[x].batch = o /\ row[x].status = "pending_batch")
      <3>1. row'[x] = row[x]
        BY <2>1, <2>3 DEF SettledMember
      <3> QED BY <2>0, <2>3, <3>1
    <2> QED BY <2>2, <2>3
  <1>2. row' \in [Ops -> Row]
    BY <1>0, <1>1 DEF WithMembersSettled
  <1>3. ASSUME NEW x \in Ops, x # o PROVE CalmRow(x)
    <2>1. ASSUME row'[x].status = "pending_batch", row'[x].batch # NoOp,
                 row'[row[x].batch].status \in TERMINAL_STATUSES
          PROVE  row[row[x].batch].status \in TERMINAL_STATUSES
      <3>1. row'[x].batch = row[x].batch /\ row[x].batch # o /\ row[x].batch # NoOp
        BY <1>1, <1>3, <2>1
      <3>2. row[x].batch \in Ops
        BY <3>1 DEF IInv, TypeOK, Row
      <3>3. row[row[x].batch].batch = NoOp
        BY <3>1 DEF IInv, RowsAgree
      <3>4. row'[row[x].batch] = row[row[x].batch]
        BY <1>0, <3>1, <3>2, <3>3, OpsAssumption DEF SettledMember
      <3> QED BY <2>1, <3>4
    <2>2. row[x].status \in TERMINAL_STATUSES => row'[x].status = row[x].status
      BY <1>1, <1>3 DEF TERMINAL_STATUSES
    <2> QED BY <1>1, <1>3, <2>1, <2>2 DEF CalmRow
  <1>4. CalmRow(o)
    BY <1>0 DEF CalmRow, TERMINAL_STATUSES
  <1>5. ASSUME NEW x \in Ops, row'[x].status = "running"
        PROVE  row'[x].commitStarted = row[x].commitStarted
    BY <1>0, <1>1, <1>5 DEF TERMINAL_STATUSES
  <1> QED BY <1>0, <1>2, <1>3, <1>4, <1>5

(* A cancel of a row that is not running returns its members to the pool.  *)
LEMMA CancelNowInv ==
  ASSUME IInv, NEW c \in Clients, CancelNow(c)
  PROVE  IInv' /\ \A x \in Ops : CalmRow(x)
  <1> DEFINE o == cancel[c].op
             r == IF cancel[c].status = "needs_review"
                  THEN [row[o] EXCEPT !.status = "cancelled"]
                  ELSE [row[o] EXCEPT !.status = "cancelled", !.lockedBy = NoWorker,
                              !.expired = FALSE]
  <1>1. cancel' \in [Clients -> Cancel] /\ CancelsAgree'
    BY ReplyType DEF CancelNow
  <1>2. o \in Ops /\ row[o] \in Row
    BY DEF IInv, TypeOK, CancelsAgree, CancelNow
  <1>3. /\ r \in Row /\ r.status = "cancelled"
        /\ r.batch = row[o].batch /\ r.generation = row[o].generation
        /\ r.attempts = row[o].attempts
    BY <1>2 DEF Row, Statuses, TERMINAL_STATUSES
  <1>4. row' = WithMembersSettled(o, r, "cancelled")
    BY DEF CancelNow
  <1> HIDE DEF o, r
  <1>5. /\ row' \in [Ops -> Row]
        /\ \A x \in Ops : CalmRow(x)
        /\ \A x \in Ops : row'[x].status = "running" =>
              row'[x].commitStarted = row[x].commitStarted
    BY <1>2, <1>3, <1>4, SettleCalm DEF TERMINAL_STATUSES
  <1> QED BY <1>1, <1>5, RowsInv DEF CancelNow, IInv, TypeOK

(* The check of the cancel flag writes nothing.                            *)
LEMMA CheckCancelInv ==
  ASSUME IInv, NEW o \in Ops, NEW g \in Generations, CheckCancel(o, g)
  PROVE  IInv' /\ \A x \in Ops : CalmRow(x)
  <1>1. CASE row[o].cancelRequested
    BY <1>1, QuietStepInv, SameRows DEF CheckCancel, Phases, Outcomes, IInv, TypeOK
  <1>2. CASE ~row[o].cancelRequested
    BY <1>2, QuietStepInv, SameRows DEF CheckCancel, Phases, Outcomes, IInv, TypeOK
  <1> QED BY <1>1, <1>2

(* The end of the graph writes nothing.                                    *)
LEMMA GraphEndsInv ==
  ASSUME IInv, NEW o \in Ops, NEW g \in Generations, GraphEnds(o, g)
  PROVE  IInv' /\ \A x \in Ops : CalmRow(x)
  <1>1. PICK r \in {"succeeded", "needs_review", "dead_letter", "retry"} :
               Step(o, g, "finish", r)
    BY DEF GraphEnds
  <1>2. r \in Outcomes /\ r \notin {"none", "timeout"}
    BY DEF Outcomes
  <1> QED BY <1>1, <1>2, QuietStepInv, SameRows DEF GraphEnds, Phases, IInv, TypeOK

(* A claim abandoned for maintenance writes nothing.                       *)
LEMMA AbandonInv ==
  ASSUME IInv, NEW o \in Ops, NEW g \in Generations, AbandonForMaintenance(o, g)
  PROVE  IInv' /\ \A x \in Ops : CalmRow(x)
  <1>1. faults' \in 0..MaxFaults
    BY FaultType DEF IInv, AbandonForMaintenance
  <1> QED BY <1>1, QuietStepInv, SameRows DEF AbandonForMaintenance, Phases, Outcomes

(* A hard timeout writes nothing; from the commit it goes to the finally.  *)
LEMMA HardTimeoutInv ==
  ASSUME IInv, NEW o \in Ops, NEW g \in Generations, HardTimeout(o, g)
  PROVE  IInv' /\ \A x \in Ops : CalmRow(x)
  <1>1. faults' \in 0..MaxFaults
    BY FaultType DEF IInv, HardTimeout
  <1>2. CASE task[o][g].phase = "marked" /\ Step(o, g, "unmark", "timeout")
    BY <1>1, <1>2, QuietStepInv, SameRows DEF HardTimeout, Phases, Outcomes
  <1>3. CASE task[o][g].phase # "marked" /\ Step(o, g, "over", "timeout")
    BY <1>1, <1>3, QuietStepInv, SameRows DEF HardTimeout, Phases, Outcomes
  <1> QED BY <1>2, <1>3 DEF HardTimeout

(* The commit transaction writes no operation row; the mark is still there. *)
LEMMA CommitTransactionInv ==
  ASSUME IInv, NEW o \in Ops, NEW g \in Generations, CommitTransaction(o, g)
  PROVE  IInv' /\ \A x \in Ops : CalmRow(x)
  <1>1. CASE \E r \in {"needs_review", "dead_letter", "retry"} : Step(o, g, "unmark", r)
    <2>1. PICK r \in {"needs_review", "dead_letter", "retry"} : Step(o, g, "unmark", r)
      BY <1>1
    <2>2. r \in Outcomes
      BY DEF Outcomes
    <2> QED BY <2>1, <2>2, QuietStepInv, SameRows DEF CommitTransaction, Phases, IInv, TypeOK
  <1>2. CASE task' = [task EXCEPT ![o][g] =
                   [@ EXCEPT !.phase = "unmark", !.commits = task[o][g].commits + 1]]
    <2> DEFINE t == [task[o][g] EXCEPT !.phase = "unmark", !.commits = task[o][g].commits + 1]
    <2>1. task[o][g] \in Task /\ task[o][g].commits < MaxCommits
      BY DEF IInv, TypeOK, TasksAgree, CommitTransaction
    <2>a. task[o][g].commits + 1 \in 0..MaxCommits
      BY <2>1, OpsAssumption DEF Task
    <2>2. t \in Task /\ t.phase = "unmark"
      BY <2>1, <2>a DEF Task, Phases
    <2> HIDE DEF t
    <2>3. task' = [task EXCEPT ![o][g] = t]
      BY <1>2 DEF t
    <2>4. /\ task' \in [Ops -> [Generations -> Task]]
          /\ task'[o][g].phase = "unmark"
          /\ \A x \in Ops, h \in Generations : x # o \/ h # g => task'[x][h] = task[x][h]
      BY <2>2, <2>3 DEF IInv, TypeOK
    <2>5. TypeOK' /\ CancelsAgree'
      BY <2>4 DEF IInv, TypeOK, CancelsAgree, CommitTransaction
    <2>6. g <= row[o].generation
      BY DEF IInv, TasksAgree, TypeOK, Row, Generations, CommitTransaction
    <2>7. HolderInCommit(o, g)' => row'[o].commitStarted
      BY DEF IInv, MarkProtectsHolder, HolderInCommit, CommitTransaction
    <2>8. ASSUME NEW x \in Ops, NEW h \in Generations PROVE CalmTask(x, h)
      <3>1. CASE x # o \/ h # g
        BY <2>4, <3>1 DEF CalmTask, CommitTransaction
      <3>2. CASE x = o /\ h = g
        BY <2>4, <2>6, <2>7, <3>2 DEF CalmTask
      <3> QED BY <3>1, <3>2
    <2> QED BY <2>5, <2>8, CalmInv, SameRows DEF CommitTransaction
  <1> QED BY <1>1, <1>2 DEF CommitTransaction

(* Setting or clearing the commit mark of one row.                         *)
LEMMA MarkRow ==
  ASSUME IInv, NEW o \in Ops, NEW b \in BOOLEAN,
         row' = [row EXCEPT ![o].commitStarted = b]
  PROVE  /\ row' \in [Ops -> Row]
         /\ \A x \in Ops : CalmRow(x)
         /\ row'[o].commitStarted = b
         /\ \A x \in Ops : x # o => row'[x] = row[x]
  <1> DEFINE r == [row[o] EXCEPT !.commitStarted = b]
  <1>0. row \in [Ops -> Row] /\ row[o] \in Row
    BY DEF IInv, TypeOK
  <1>1. /\ r \in Row /\ r.attempts = row[o].attempts /\ r.generation = row[o].generation
        /\ r.batch = row[o].batch /\ r.status = row[o].status /\ r.commitStarted = b
    BY <1>0 DEF Row
  <1>2. row' = [row EXCEPT ![o] = r]
    OBVIOUS
  <1> HIDE DEF r
  <1> QED BY <1>1, <1>2, OneRow

(* A new holder clears a stale mark before its execution does anything.    *)
LEMMA StartExecutionInv ==
  ASSUME IInv, NEW o \in Ops, NEW g \in Generations, StartExecution(o, g)
  PROVE  IInv' /\ \A x \in Ops : CalmRow(x)
  <1>1. CASE LeaseCAS(o, g)
    <2>1. Step(o, g, "check", "none") /\ row' = [row EXCEPT ![o].commitStarted = FALSE]
      BY <1>1 DEF StartExecution
    <2>2. ~HolderInCommit(o, g)'
      BY <2>1, StepType DEF IInv, HolderInCommit, Phases, Outcomes
    <2> QED BY <1>1, <2>1, <2>2, MarkRow, StepInv
            DEF StartExecution, LeaseCAS, IInv, TypeOK, Phases, Outcomes
  <1>2. CASE ~LeaseCAS(o, g)
    BY <1>2, QuietStepInv, SameRows DEF StartExecution, Phases, Outcomes, IInv, TypeOK
  <1> QED BY <1>1, <1>2

(* Entering the commit sets the mark under the lease.                      *)
LEMMA MarkCommitStartedInv ==
  ASSUME IInv, NEW o \in Ops, NEW g \in Generations, MarkCommitStarted(o, g)
  PROVE  IInv' /\ \A x \in Ops : CalmRow(x)
  <1>1. CASE LeaseCAS(o, g)
    <2>1. Step(o, g, "marked", "none") /\ row' = [row EXCEPT ![o].commitStarted = TRUE]
      BY <1>1 DEF MarkCommitStarted
    <2> QED BY <1>1, <2>1, MarkRow, StepInv
            DEF MarkCommitStarted, LeaseCAS, IInv, TypeOK, Phases, Outcomes
  <1>2. CASE ~LeaseCAS(o, g)
    BY <1>2, QuietStepInv, SameRows DEF MarkCommitStarted, Phases, Outcomes, IInv, TypeOK
  <1> QED BY <1>1, <1>2

(* Only the holder clears the mark, and it leaves the commit as it does.   *)
LEMMA ClearCommitStartedInv ==
  ASSUME IInv, NEW o \in Ops, NEW g \in Generations, ClearCommitStarted(o, g)
  PROVE  IInv' /\ \A x \in Ops : CalmRow(x)
  <1>1. PICK phase \in {"run", "over", "finish"} :
               /\ Step(o, g, phase, task[o][g].outcome)
               /\ phase = "finish" => task[o][g].outcome \notin {"none", "timeout"}
    BY DEF ClearCommitStarted
  <1>2. phase \in Phases /\ task[o][g].outcome \in Outcomes
    BY DEF IInv, TypeOK, Task, Phases
  <1>3. CASE LeaseCAS(o, g)
    <2>1. row' = [row EXCEPT ![o].commitStarted = FALSE]
      BY <1>3 DEF ClearCommitStarted
    <2>2. ~HolderInCommit(o, g)'
      BY <1>1, <1>2, StepType DEF IInv, HolderInCommit
    <2>3. row' \in [Ops -> Row] /\ (\A x \in Ops : CalmRow(x))
          /\ \A x \in Ops : x # o => row'[x] = row[x]
      BY <2>1, MarkRow
    <2>4. task[o][g].phase = "unmark" /\ row[o].generation = g
      BY <1>3 DEF ClearCommitStarted, LeaseCAS
    <2>5. cancel' = cancel /\ faults' \in 0..MaxFaults
      BY DEF ClearCommitStarted, IInv, TypeOK
    <2> QED BY <1>1, <1>2, <2>2, <2>3, <2>4, <2>5, StepInv
  <1>4. CASE ~LeaseCAS(o, g)
    BY <1>1, <1>2, <1>4, QuietStepInv, SameRows DEF ClearCommitStarted, IInv, TypeOK
  <1> QED BY <1>3, <1>4

(* A result is written under the lease and settles the members.            *)
LEMMA WriteResultInv ==
  ASSUME IInv, NEW o \in Ops, NEW g \in Generations, WriteResult(o, g)
  PROVE  IInv' /\ \A x \in Ops : CalmRow(x)
  <1> DEFINE st == WriteBack(task[o][g])
  <1>0. task[o][g] \in Task /\ row[o] \in Row /\ task[o][g].phase = "finish"
    BY DEF IInv, TypeOK, WriteResult
  <1>1. st \in Outcomes /\ st \notin {"none", "timeout"}
    BY <1>0 DEF IInv, TasksAgree, WriteBack, Task, Outcomes
  <1>2. CASE ~LeaseCAS(o, g)
    BY <1>0, <1>1, <1>2, QuietStepInv, SameRows DEF WriteResult, Phases, IInv, TypeOK
  <1>3. CASE LeaseCAS(o, g) /\ st = "retry"
    <2>1. row' = [row EXCEPT ![o] = Rescheduled(row[o])] /\ Step(o, g, "over", st)
      BY <1>3 DEF WriteResult
    <2>2. /\ Rescheduled(row[o]) \in Row
          /\ Rescheduled(row[o]).status = "retry_wait"
          /\ Rescheduled(row[o]).batch = row[o].batch
          /\ Rescheduled(row[o]).generation = row[o].generation
          /\ Rescheduled(row[o]).attempts = row[o].attempts
      BY <1>0 DEF Rescheduled, Row, Statuses
    <2>3. row' \in [Ops -> Row] /\ row'[o] = Rescheduled(row[o])
          /\ \A x \in Ops : x # o => row'[x] = row[x]
      BY <2>1, <2>2 DEF IInv, TypeOK
    <2>4. \A x \in Ops : CalmRow(x)
      <3>1. row'[o].status \notin TERMINAL_STATUSES /\ row[o].status = "running"
        BY <1>3, <2>2, <2>3 DEF TERMINAL_STATUSES, LeaseCAS
      <3>2. \A b \in Ops : row'[b].status \in TERMINAL_STATUSES =>
                             row[b].status \in TERMINAL_STATUSES
        BY <2>3, <3>1
      <3> QED BY <2>2, <2>3, <3>1, <3>2 DEF CalmRow, IInv, TypeOK, Row, TERMINAL_STATUSES
    <2>5. ~HolderInCommit(o, g)'
      BY <2>2, <2>3 DEF HolderInCommit
    <2> QED BY <1>0, <1>1, <2>1, <2>2, <2>3, <2>4, <2>5, StepInv
            DEF WriteResult, IInv, TypeOK, Phases
  <1>4. CASE LeaseCAS(o, g) /\ st # "retry"
    <2> DEFINE r == Completed(row[o], st)
    <2>1. row' = WithMembersSettled(o, r, st) /\ Step(o, g, "settled", st)
      BY <1>4 DEF WriteResult
    <2>2. st \in TERMINAL_STATUSES
      BY <1>1, <1>4 DEF Outcomes, TERMINAL_STATUSES
    <2>3. /\ r \in Row /\ r.status = st
          /\ r.batch = row[o].batch /\ r.generation = row[o].generation
          /\ r.attempts = row[o].attempts
      BY <1>0, <2>2 DEF Completed, Row, Statuses
    <2> HIDE DEF r, st
    <2>4. row[o].status \notin TERMINAL_STATUSES
      BY <1>4 DEF LeaseCAS, TERMINAL_STATUSES
    <2>5. /\ row' \in [Ops -> Row]
          /\ \A x \in Ops : CalmRow(x)
          /\ \A x \in Ops : row'[x].status = "running" =>
               row'[x].commitStarted = row[x].commitStarted
          /\ row'[o] = r
      BY <2>1, <2>2, <2>3, <2>4, SettleCalm
    <2>6. ~HolderInCommit(o, g)'
      BY <2>2, <2>3, <2>5 DEF HolderInCommit, TERMINAL_STATUSES
    <2> QED BY <1>0, <1>1, <1>4, <2>1, <2>2, <2>3, <2>5, <2>6, StepInv
            DEF WriteResult, LeaseCAS, IInv, TypeOK, Phases
  <1> QED BY <1>2, <1>3, <1>4

-----------------------------------------------------------------------------

(* A claim starts the next generation of every claimed row, under a        *)
(* generation no execution had before.                                     *)
LEMMA ClaimInv ==
  ASSUME IInv, NEW w \in Holders, NEW S \in SUBSET Ops, Claim(w, S)
  PROVE  IInv' /\ \A x \in Ops : row[x].status \in TERMINAL_STATUSES => row'[x] = row[x]
  <1>1. ASSUME NEW x \in S
        PROVE  /\ row[x].status \in {"queued", "retry_wait"}
               /\ row[x].generation + 1 \in 0..MaxGeneration
               /\ row[x].generation + 1 \in Generations
               /\ row[x].attempts = row[x].generation
               /\ row[x] \in Row
    <2>1. x \in Ops /\ row[x] \in Row /\ row[x].attempts = row[x].generation
      BY DEF IInv, TypeOK, RowsAgree
    <2>2. row[x].status \in {"queued", "retry_wait"} /\ row[x].generation < MaxGeneration
      BY DEF Claim, Claimable
    <2>3. row[x].generation \in 0..MaxGeneration
      BY <2>1 DEF Row
    <2> QED BY <2>1, <2>2, <2>3, OpsAssumption DEF Generations
  <1>2. ASSUME NEW x \in S
        PROVE  /\ row'[x] \in Row
               /\ row'[x].status = "running"
               /\ row'[x].generation = row[x].generation + 1
               /\ row'[x].attempts = row[x].generation + 1
               /\ row'[x].batch = row[x].batch
    <2>1. row'[x] = [row[x] EXCEPT !.status = "running", !.lockedBy = w,
                           !.expired = FALSE, !.attempts = row[x].attempts + 1,
                           !.generation = row[x].generation + 1]
      BY DEF Claim
    <2>2. row[x] \in Row /\ w \in Holders \union {NoWorker} /\ "running" \in Statuses
      BY <1>1 DEF Statuses
    <2>3. row'[x] = [row[x] EXCEPT !.status = "running", !.lockedBy = w,
                           !.expired = FALSE, !.attempts = row[x].generation + 1,
                           !.generation = row[x].generation + 1]
      BY <1>1, <2>1
    <2>4. row[x].generation + 1 \in 0..MaxGeneration
      BY <1>1
    <2> QED BY <2>2, <2>3, <2>4 DEF Row
  <1>3. \A x \in Ops \ S : row'[x] = row[x]
    BY DEF Claim
  <1>4. row' \in [Ops -> Row]
    BY <1>2, <1>3 DEF Claim, IInv, TypeOK
  <1>5. ASSUME NEW x \in S, NEW h \in Generations, h = row[x].generation + 1
        PROVE  task'[x][h] = [worker |-> w, phase |-> "claimed", outcome |-> "none",
                              attempt |-> row[x].attempts + 1, commits |-> 0]
    BY <1>5 DEF Claim, NoTask
  <1>6. ASSUME NEW x \in Ops, NEW h \in Generations,
               ~(x \in S /\ h = row[x].generation + 1)
        PROVE  task'[x][h] = task[x][h]
    BY <1>6 DEF Claim
  <1>7. task' \in [Ops -> [Generations -> Task]]
    <2>1. ASSUME NEW x \in Ops, NEW h \in Generations PROVE task'[x][h] \in Task
      <3>1. CASE x \in S /\ h = row[x].generation + 1
        <4>1. task'[x][h] = [worker |-> w, phase |-> "claimed", outcome |-> "none",
                              attempt |-> row[x].attempts + 1, commits |-> 0]
          BY <1>5, <3>1
        <4>2. row[x].attempts + 1 \in 0..MaxGeneration /\ 0 \in 0..MaxCommits
          BY <1>1, <3>1, OpsAssumption
        <4> QED BY <4>1, <4>2 DEF Task, Phases, Outcomes
      <3>2. CASE ~(x \in S /\ h = row[x].generation + 1)
        BY <1>6, <3>2 DEF IInv, TypeOK
      <3> QED BY <3>1, <3>2
    <2> QED BY <2>1 DEF Claim
  <1>8. TypeOK' /\ CancelsAgree'
    BY <1>4, <1>7 DEF IInv, TypeOK, CancelsAgree, Claim
  <1>9. RowsAgree'
    <2>1. \A x \in Ops : row'[x].batch = row[x].batch
      BY <1>2, <1>3
    <2>2. \A x \in Ops : row'[x].attempts = row'[x].generation
      BY <1>2, <1>3 DEF IInv, RowsAgree
    <2>3. \A x \in Ops : row[x].batch # NoOp => row[x].batch \in Ops
      BY DEF IInv, TypeOK, Row
    <2> QED BY <2>1, <2>2, <2>3 DEF IInv, RowsAgree
  <1>10. ASSUME NEW x \in Ops, NEW h \in Generations
         PROVE  /\ h > row'[x].generation => task'[x][h].phase = "none"
                /\ task'[x][h].phase = "finish" =>
                     task'[x][h].outcome \notin {"none", "timeout"}
                /\ task'[x][h].phase = "marked" => task'[x][h].commits < MaxCommits
                /\ HolderInCommit(x, h)' => row'[x].commitStarted
                /\ task'[x][h].phase = "settled" =>
                     row'[x].generation = h /\ row'[x].status \in TERMINAL_STATUSES
    <2>0. row[x].generation \in Nat /\ h \in Nat
      BY DEF IInv, TypeOK, Row, Generations
    <2>1. CASE x \in S /\ h = row[x].generation + 1
      <3>0. task'[x][h] = [worker |-> w, phase |-> "claimed", outcome |-> "none",
                            attempt |-> row[x].attempts + 1, commits |-> 0]
        BY <1>5, <2>1
      <3>1. task'[x][h].phase = "claimed"
        BY <3>0
      <3>2. row'[x].generation = h
        BY <1>2, <2>1
      <3> QED BY <2>0, <3>1, <3>2 DEF HolderInCommit
    <2>2. CASE x \in S /\ h # row[x].generation + 1
      <3>1. task'[x][h] = task[x][h] /\ row'[x].generation = row[x].generation + 1
        BY <1>2, <1>6, <2>2
      <3>2. row[x].status \notin TERMINAL_STATUSES
        BY <1>1, <2>2 DEF TERMINAL_STATUSES
      <3> QED BY <2>0, <2>2, <3>1, <3>2
              DEF IInv, TasksAgree, ResultFromLastClaim, HolderInCommit
    <2>3. CASE x \notin S
      BY <1>3, <1>6, <2>3
         DEF IInv, TasksAgree, MarkProtectsHolder, ResultFromLastClaim, HolderInCommit
    <2> QED BY <2>1, <2>2, <2>3
  <1>11. TasksAgree' /\ MarkProtectsHolder' /\ ResultFromLastClaim'
    BY <1>10 DEF TasksAgree, MarkProtectsHolder, ResultFromLastClaim
  <1>12. NoStrandedMember'
    <2> SUFFICES ASSUME NEW m \in Ops, row'[m].status = "pending_batch", row'[m].batch # NoOp
                 PROVE  row'[row'[m].batch].status \notin TERMINAL_STATUSES
      BY DEF NoStrandedMember
    <2>1. row'[m] = row[m]
      BY <1>2, <1>3
    <2>2. row[m].batch \in Ops /\ row[row[m].batch].status \notin TERMINAL_STATUSES
      BY <2>1 DEF IInv, NoStrandedMember, TypeOK, Row
    <2> QED BY <1>2, <1>3, <2>1, <2>2 DEF TERMINAL_STATUSES
  <1>13. \A x \in Ops : row[x].status \in TERMINAL_STATUSES => row'[x] = row[x]
    BY <1>1, <1>3 DEF TERMINAL_STATUSES
  <1> QED BY <1>8, <1>9, <1>11, <1>12, <1>13 DEF IInv

(* A crash ends executions and leaves the table alone.                     *)
LEMMA CrashInv ==
  ASSUME IInv, NEW w \in Holders, Crash(w)
  PROVE  IInv' /\ \A x \in Ops : CalmRow(x)
  <1>1. ASSUME NEW x \in Ops, NEW h \in Generations
        PROVE  /\ task'[x][h] \in Task
               /\ \/ task'[x][h] = task[x][h]
                  \/ task'[x][h].phase = "over" /\ h <= row[x].generation
    <2>1. CASE <<x, h>> \in TasksOf(w, LivePhases)
      <3>1. task'[x][h] = [worker |-> NoWorker, phase |-> "over", outcome |-> "none",
                           attempt |-> 0, commits |-> task[x][h].commits]
        BY <2>1 DEF Crash, Ended, NoTask
      <3>2. task'[x][h] \in Task
        BY <3>1, OpsAssumption DEF IInv, TypeOK, Task, Phases, Outcomes
      <3>3. task[x][h].phase # "none"
        BY <2>1 DEF TasksOf, LivePhases
      <3>4. h <= row[x].generation
        BY <3>3 DEF IInv, TasksAgree, TypeOK, Row, Generations
      <3> QED BY <3>1, <3>2, <3>4
    <2>2. CASE <<x, h>> \notin TasksOf(w, LivePhases)
      BY <2>2 DEF Crash, IInv, TypeOK
    <2> QED BY <2>1, <2>2
  <1>2. task' \in [Ops -> [Generations -> Task]]
    BY <1>1 DEF Crash
  <1>3. faults' \in 0..MaxFaults
    BY FaultType DEF Crash, IInv
  <1>4. TypeOK' /\ CancelsAgree'
    BY <1>2, <1>3 DEF Crash, IInv, TypeOK, CancelsAgree
  <1>5. \A x \in Ops, h \in Generations : CalmTask(x, h)
    BY <1>1 DEF CalmTask, Crash, HolderInCommit
  <1> QED BY <1>4, <1>5, CalmInv, SameRows DEF Crash

(* One step of the whole system.                                           *)
SettledKept ==
  \A o \in Ops : row[o].status \in TERMINAL_STATUSES =>
       row'[o].status \in {row[o].status, "cancelled"}

(* A calm step keeps what is settled.                                      *)
LEMMA CalmSettled == ASSUME \A x \in Ops : CalmRow(x) PROVE SettledKept
  BY DEF CalmRow, SettledKept

(* Every step of the system preserves the invariant and keeps what is      *)
(* settled, action by action.                                              *)
LEMMA NextInv == IInv /\ [Next]_vars => IInv' /\ SettledKept
  <1> SUFFICES ASSUME IInv, [Next]_vars PROVE IInv' /\ SettledKept
    OBVIOUS
  <1>1. ASSUME NEW w \in Workers, NEW S \in SUBSET Ops, ClaimOperations(w, S)
        PROVE  IInv' /\ SettledKept
    BY <1>1, ClaimInv DEF ClaimOperations, Holders, SettledKept
  <1>2. ASSUME NEW w \in Gateways, NEW o \in Ops, ClaimFastPath(w, o)
        PROVE  IInv' /\ SettledKept
    <2>1. {o} \in SUBSET Ops
      OBVIOUS
    <2> QED BY <1>2, <2>1, ClaimInv DEF ClaimFastPath, Holders, SettledKept
  <1>3. ASSUME NEW w \in Holders, Crash(w)
        PROVE  IInv' /\ SettledKept
    BY <1>3, CrashInv, CalmSettled
  <1>4. ASSUME NEW o \in Ops, LeaseExpires(o) \/ BackoffElapses(o)
        PROVE  IInv' /\ SettledKept
    BY <1>4, LeaseExpiresInv, BackoffElapsesInv, CalmSettled
  <1>5. CASE RecoverExpiredLeases
    BY <1>5, RecoverInv, CalmSettled
  <1>6. ASSUME NEW o \in Ops, NEW g \in Generations, ExecutionStep(o, g)
        PROVE  IInv' /\ SettledKept
    BY <1>6, StartExecutionInv, CheckCancelInv, GraphEndsInv, MarkCommitStartedInv,
       CommitTransactionInv, ClearCommitStartedInv, WriteResultInv, CalmSettled
       DEF ExecutionStep
  <1>7. ASSUME NEW o \in Ops, NEW g \in Generations,
               Heartbeat(o, g) \/ AbandonForMaintenance(o, g) \/ HardTimeout(o, g)
        PROVE  IInv' /\ SettledKept
    BY <1>7, HeartbeatInv, AbandonInv, HardTimeoutInv, CalmSettled
  <1>8. ASSUME NEW c \in Clients, NEW o \in Ops, CancelRead(c, o)
        PROVE  IInv' /\ SettledKept
    BY <1>8, CancelReadInv, CalmSettled
  <1>9. ASSUME NEW c \in Clients,
               CancelNow(c) \/ CancelCooperatively(c) \/ CancelRefused(c)
        PROVE  IInv' /\ SettledKept
    BY <1>9, CancelNowInv, CancelCooperativelyInv, CancelRefusedInv, CalmSettled
  <1>10. CASE UNCHANGED vars
    <2>1. TypeOK' /\ CancelsAgree'
      BY <1>10 DEF vars, IInv, TypeOK, CancelsAgree
    <2>2. \A x \in Ops, h \in Generations : CalmTask(x, h)
      BY <1>10 DEF vars, CalmTask
    <2> QED BY <1>10, <2>1, <2>2, SameRows, CalmInv, CalmSettled DEF vars
  <1> QED BY <1>1, <1>2, <1>3, <1>4, <1>5, <1>6, <1>7, <1>8, <1>9, <1>10 DEF Next

(* Type correctness and, with it, the invariant that makes it inductive:   *)
(* in every reachable state the rows, the executions and the cancels agree *)
(* with one another.                                                       *)
THEOREM Invariance == Spec => []IInv
  BY InitInv, NextInv, PTL DEF Spec

(* Every variable keeps its type.                                          *)
THEOREM TypeCorrect == Spec => []TypeOK
  <1>1. IInv => TypeOK
    BY DEF IInv
  <1> QED BY <1>1, Invariance, PTL

(* The commit mark is set whenever the holder of the lease is inside       *)
(* commit_plans, so request_cancel refuses to cancel it.                   *)
THEOREM CommitMarked == Spec => []MarkProtectsHolder
  <1>1. IInv => MarkProtectsHolder
    BY DEF IInv
  <1> QED BY <1>1, Invariance, PTL

(* A result was written by the last claim: fencing makes a zombie          *)
(* execution's complete_operation a no-op.                                 *)
THEOREM FencedResults == Spec => []ResultFromLastClaim
  <1>1. IInv => ResultFromLastClaim
    BY DEF IInv
  <1> QED BY <1>1, Invariance, PTL

(* No evidence member waits for a batch operation that is already final.   *)
THEOREM MembersNotStranded == Spec => []NoStrandedMember
  <1>1. IInv => NoStrandedMember
    BY DEF IInv
  <1> QED BY <1>1, Invariance, PTL

(* A terminal status is left only for "cancelled": no late reschedule,     *)
(* recovery or result puts a settled operation back to work.               *)
THEOREM TerminalIsFinal == Spec => SettledStaysSettled
  <1>1. IInv /\ [Next]_vars =>
          [\A o \in Ops : row[o].status \in TERMINAL_STATUSES =>
             row'[o].status \in {row[o].status, "cancelled"}]_vars
    BY NextInv DEF SettledKept
  <1> QED BY <1>1, Invariance, PTL DEF Spec, SettledStaysSettled

-----------------------------------------------------------------------------
(* The claim budget.  A step that starts no execution and changes no       *)
(* holder keeps HoldersAgree; it keeps the budget unless it makes an       *)
(* operation claimable without a fault that pays for it.                   *)
HolderCalm(x, h) ==
  Live(task'[x][h]) =>
    /\ Live(task[x][h])
    /\ task'[x][h].worker = task[x][h].worker
    /\ task'[x][h].attempt = task[x][h].attempt

DueCalm(x) ==
  ToBeClaimed(x)' =>
    \/ ToBeClaimed(x)
    \/ faults' = faults + 1
    \/ row[x].generation < MaxAttempts + faults

SameHolder(x) ==
  row'[x].status = "running" => row'[x].lockedBy = row[x].lockedBy

LEMMA PaidCalm ==
  ASSUME IInv, PaidInv, faults' \in {faults, faults + 1},
         \A x \in Ops : CalmRow(x) /\ SameHolder(x) /\ DueCalm(x),
         \A x \in Ops, h \in Generations : HolderCalm(x, h)
  PROVE  PaidInv'
  <1>0. faults \in Nat /\ MaxAttempts \in Nat
    BY OpsAssumption DEF IInv, TypeOK
  <1>1. HoldersAgree'
    BY DEF PaidInv, HoldersAgree, HolderCalm, SameHolder, CalmRow
  <1>2. ASSUME NEW x \in Ops
        PROVE  /\ row'[x].generation <= MaxAttempts + faults'
               /\ ToBeClaimed(x)' => row'[x].generation < MaxAttempts + faults'
    <2>1. row[x].generation \in Nat /\ row'[x].generation = row[x].generation
      BY DEF IInv, TypeOK, Row, CalmRow
    <2>2. row[x].generation <= MaxAttempts + faults
      BY DEF PaidInv, ClaimsPaidFor
    <2>3. ToBeClaimed(x) => row[x].generation < MaxAttempts + faults
      BY DEF PaidInv, NextClaimPaidFor
    <2>4. ToBeClaimed(x)' => \/ row[x].generation < MaxAttempts + faults
                             \/ faults' = faults + 1
      BY <2>3 DEF DueCalm
    <2> QED BY <1>0, <2>1, <2>2, <2>4
  <1>3. ClaimsPaidFor' /\ NextClaimPaidFor'
    BY <1>2 DEF ClaimsPaidFor, NextClaimPaidFor
  <1> QED BY <1>1, <1>3 DEF PaidInv

(* The execution of a claim in force passes the fencing CAS.               *)
LEMMA HolderPasses ==
  ASSUME PaidInv, NEW o \in Ops, NEW g \in Generations, Live(task[o][g]),
         row[o].status = "running", row[o].generation = g
  PROVE  LeaseCAS(o, g)
  BY DEF PaidInv, HoldersAgree, LeaseCAS

(* What every step of one execution does to the others and to its own      *)
(* identity, and what a write of the mark does to a lease.                 *)
Moves(o, g) ==
  /\ Live(task[o][g])
  /\ \A x \in Ops, h \in Generations : x # o \/ h # g => task'[x][h] = task[x][h]
  /\ HolderCalm(o, g)

SameLease(x) ==
  /\ row'[x].status = row[x].status
  /\ row'[x].lockedBy = row[x].lockedBy
  /\ row'[x].expired = row[x].expired
  /\ row'[x].generation = row[x].generation

LEMMA StepMoves ==
  ASSUME IInv, NEW o \in Ops, NEW g \in Generations, NEW phase \in Phases,
         NEW outcome \in Outcomes, Live(task[o][g]), Step(o, g, phase, outcome)
  PROVE  /\ Moves(o, g)
         /\ phase \in LivePhases => Live(task'[o][g]) /\ task'[o][g].outcome = outcome
  <1>1. /\ \A x \in Ops, h \in Generations : x # o \/ h # g => task'[x][h] = task[x][h]
        /\ task'[o][g].phase = phase
        /\ phase \notin {"over", "settled"} => task'[o][g].outcome = outcome
    BY StepType DEF IInv
  <1>2. HolderCalm(o, g)
    <2>1. CASE phase \in {"over", "settled"}
      BY <1>1, <2>1 DEF HolderCalm, Live, LivePhases
    <2>2. CASE phase \notin {"over", "settled"}
      <3>1. task' = [task EXCEPT ![o][g] = [@ EXCEPT !.phase = phase, !.outcome = outcome]]
        BY <2>2 DEF Step
      <3>2. task[o] \in [Generations -> Task] /\ task[o][g] \in Task
        BY DEF IInv, TypeOK
      <3>3. task'[o][g] = [task[o][g] EXCEPT !.phase = phase, !.outcome = outcome]
        BY <3>1, <3>2 DEF IInv, TypeOK
      <3>4. task'[o][g].worker = task[o][g].worker /\ task'[o][g].attempt = task[o][g].attempt
        BY <3>2, <3>3 DEF Task
      <3> QED BY <3>4 DEF HolderCalm
    <2> QED BY <2>1, <2>2
  <1> QED BY <1>1, <1>2 DEF Moves, Live, LivePhases

(* A step of one execution that leaves the leases alone keeps the budget:  *)
(* the execution goes on, was not the holder, was timed out before, or a   *)
(* fault pays for its end.                                                 *)
LEMMA MovePaid ==
  ASSUME IInv, PaidInv, NEW o \in Ops, NEW g \in Generations, Moves(o, g),
         \A x \in Ops : CalmRow(x) /\ SameLease(x),
         faults' \in {faults, faults + 1},
         \/ Live(task'[o][g]) /\ task'[o][g].outcome # "timeout"
         \/ task[o][g].outcome = "timeout"
         \/ ~LeaseCAS(o, g)
         \/ faults' = faults + 1
  PROVE  PaidInv'
  <1>1. \A x \in Ops, h \in Generations : HolderCalm(x, h)
    BY DEF Moves, HolderCalm
  <1>2. \A x \in Ops : SameHolder(x)
    BY DEF SameLease, SameHolder
  <1>3. ASSUME NEW x \in Ops, ToBeClaimed(x)', faults' = faults
        PROVE  ToBeClaimed(x)
    <2>1. CASE row'[x].status \in {"queued", "retry_wait"} \/ row'[x].expired
      BY <1>3, <2>1 DEF ToBeClaimed, SameLease
    <2>2. CASE row'[x].status = "running" /\ HolderLost(x)'
      <3>1. row[x].status = "running" /\ row'[x].generation = row[x].generation
        BY <2>2 DEF SameLease
      <3>2. SUFFICES HolderLost(x)
        BY <3>1 DEF ToBeClaimed
      <3>3. SUFFICES ASSUME NEW h \in Generations, row[x].generation = h, Live(task[x][h])
                     PROVE  task[x][h].outcome = "timeout"
        BY DEF HolderLost
      <3>4. ~Live(task'[x][h]) \/ task'[x][h].outcome = "timeout"
        BY <2>2, <3>1, <3>3 DEF HolderLost
      <3>5. CASE x # o \/ h # g
        BY <3>3, <3>4, <3>5 DEF Moves
      <3>6. CASE x = o /\ h = g
        <4>1. LeaseCAS(o, g)
          BY <3>1, <3>3, <3>6, HolderPasses
        <4>2. faults' # faults + 1
          BY <1>3 DEF IInv, TypeOK
        <4> QED BY <3>4, <3>6, <4>1, <4>2
      <3> QED BY <3>5, <3>6
    <2> QED BY <1>3, <2>1, <2>2 DEF ToBeClaimed
  <1>4. \A x \in Ops : DueCalm(x)
    BY <1>3 DEF DueCalm
  <1> QED BY <1>1, <1>2, <1>4, PaidCalm

(* A step of one execution without a write to the table or with a write of *)
(* the commit mark alone.                                                  *)
LEMMA StepPaid ==
  ASSUME IInv, PaidInv, NEW o \in Ops, NEW g \in Generations,
         NEW phase \in Phases, NEW outcome \in Outcomes,
         Live(task[o][g]), Step(o, g, phase, outcome),
         \A x \in Ops : CalmRow(x) /\ SameLease(x),
         faults' \in {faults, faults + 1},
         \/ phase \in LivePhases /\ outcome # "timeout"
         \/ task[o][g].outcome = "timeout"
         \/ ~LeaseCAS(o, g)
         \/ faults' = faults + 1
  PROVE  PaidInv'
  <1>1. /\ Moves(o, g)
        /\ phase \in LivePhases => Live(task'[o][g]) /\ task'[o][g].outcome = outcome
    BY StepMoves
  <1> QED BY <1>1, MovePaid

(* A write of the mark, or none, leaves every lease as it is.              *)
LEMMA MarkLease ==
  ASSUME IInv, NEW o \in Ops,
         row' = row \/ \E b \in BOOLEAN : row' = [row EXCEPT ![o].commitStarted = b]
  PROVE  \A x \in Ops : SameLease(x)
  BY DEF IInv, TypeOK, Row, SameLease

(* The steps of an execution before its write-back.                        *)
LEMMA ExecutionPaid ==
  ASSUME IInv, PaidInv, NEW o \in Ops, NEW g \in Generations,
         \/ StartExecution(o, g) \/ CheckCancel(o, g) \/ GraphEnds(o, g)
         \/ MarkCommitStarted(o, g) \/ ClearCommitStarted(o, g)
         \/ CommitTransaction(o, g) \/ AbandonForMaintenance(o, g) \/ HardTimeout(o, g)
  PROVE  PaidInv'
  <1>0. /\ Live(task[o][g]) /\ task[o][g] \in Task
        /\ faults \in Nat
        /\ \A x \in Ops : CalmRow(x)
    <2>1. \A x \in Ops : CalmRow(x)
      BY StartExecutionInv, CheckCancelInv, GraphEndsInv, MarkCommitStartedInv,
         ClearCommitStartedInv, CommitTransactionInv, AbandonInv, HardTimeoutInv
    <2>2. task[o][g].phase \in LivePhases
      BY DEF StartExecution, CheckCancel, GraphEnds, MarkCommitStarted, ClearCommitStarted,
             CommitTransaction, AbandonForMaintenance, HardTimeout, LivePhases, Phases
    <2> QED BY <2>1, <2>2 DEF IInv, TypeOK, Live
  <1>1. \A x \in Ops : SameLease(x)
    BY MarkLease DEF StartExecution, CheckCancel, GraphEnds, MarkCommitStarted,
       ClearCommitStarted, CommitTransaction, AbandonForMaintenance, HardTimeout
  <1>2. CASE StartExecution(o, g)
    BY <1>0, <1>1, <1>2, StepPaid DEF StartExecution, Phases, Outcomes, LivePhases
  <1>3. CASE CheckCancel(o, g)
    <2>1. \/ Step(o, g, "finish", "cancelled")
          \/ Step(o, g, "run", "none")
      BY <1>3 DEF CheckCancel
    <2> QED BY <1>0, <1>1, <1>3, <2>1, StepPaid DEF CheckCancel, Phases, Outcomes, LivePhases
  <1>4. CASE GraphEnds(o, g)
    <2>1. PICK r \in {"succeeded", "needs_review", "dead_letter", "retry"} :
                 Step(o, g, "finish", r)
      BY <1>4 DEF GraphEnds
    <2> QED BY <1>0, <1>1, <1>4, <2>1, StepPaid DEF GraphEnds, Phases, Outcomes, LivePhases
  <1>5. CASE MarkCommitStarted(o, g)
    BY <1>0, <1>1, <1>5, StepPaid DEF MarkCommitStarted, Phases, Outcomes, LivePhases
  <1>6. CASE ClearCommitStarted(o, g)
    <2>1. \/ task[o][g].outcome = "timeout" /\ Step(o, g, "over", "timeout")
          \/ task[o][g].outcome # "timeout" /\ Step(o, g, "run", task[o][g].outcome)
          \/ task[o][g].outcome # "timeout" /\ Step(o, g, "finish", task[o][g].outcome)
      BY <1>6 DEF ClearCommitStarted
    <2>2. task[o][g].outcome \in Outcomes
      BY <1>0 DEF Task
    <2>3. faults' \in {faults, faults + 1}
      BY <1>6 DEF ClearCommitStarted
    <2>4. /\ {"over", "run", "finish"} \subseteq Phases
          /\ {"run", "finish"} \subseteq LivePhases
          /\ "timeout" \in Outcomes
      BY DEF Phases, LivePhases, Outcomes
    <2>5. CASE task[o][g].outcome = "timeout" /\ Step(o, g, "over", "timeout")
      BY <1>0, <1>1, <2>3, <2>4, <2>5, StepPaid
    <2>6. CASE task[o][g].outcome # "timeout" /\ Step(o, g, "run", task[o][g].outcome)
      BY <1>0, <1>1, <2>2, <2>3, <2>4, <2>6, StepPaid
    <2>7. CASE task[o][g].outcome # "timeout" /\ Step(o, g, "finish", task[o][g].outcome)
      BY <1>0, <1>1, <2>2, <2>3, <2>4, <2>7, StepPaid
    <2> QED BY <2>1, <2>5, <2>6, <2>7
  <1>7. CASE CommitTransaction(o, g)
    <2>1. CASE \E r \in {"needs_review", "dead_letter", "retry"} : Step(o, g, "unmark", r)
      <3>1. PICK r \in {"needs_review", "dead_letter", "retry"} : Step(o, g, "unmark", r)
        BY <2>1
      <3> QED BY <1>0, <1>1, <1>7, <3>1, StepPaid
              DEF CommitTransaction, Phases, Outcomes, LivePhases
    <2>2. CASE task' = [task EXCEPT ![o][g] =
                   [@ EXCEPT !.phase = "unmark", !.commits = task[o][g].commits + 1]]
      <3>1. /\ \A x \in Ops, h \in Generations : x # o \/ h # g => task'[x][h] = task[x][h]
            /\ task'[o][g].phase = "unmark"
            /\ task'[o][g].outcome = task[o][g].outcome
            /\ task'[o][g].worker = task[o][g].worker
            /\ task'[o][g].attempt = task[o][g].attempt
        BY <1>0, <2>2 DEF IInv, TypeOK, Task
      <3>2. Moves(o, g) /\ Live(task'[o][g])
        BY <1>0, <3>1 DEF Moves, HolderCalm, Live, LivePhases, Phases
      <3> QED BY <1>0, <1>1, <1>7, <3>1, <3>2, MovePaid DEF CommitTransaction
    <2> QED BY <1>7, <2>1, <2>2 DEF CommitTransaction
  <1>8. CASE AbandonForMaintenance(o, g)
    BY <1>0, <1>1, <1>8, StepPaid DEF AbandonForMaintenance, Fault, Phases, Outcomes
  <1>9. CASE HardTimeout(o, g)
    BY <1>0, <1>1, <1>9, StepPaid DEF HardTimeout, Fault, Phases, Outcomes
  <1> QED BY <1>2, <1>3, <1>4, <1>5, <1>6, <1>7, <1>8, <1>9

(* A settled operation is not claimed again; a retry is asked for only     *)
(* before the last attempt.                                                *)
LEMMA WriteResultPaid ==
  ASSUME IInv, PaidInv, NEW o \in Ops, NEW g \in Generations, WriteResult(o, g)
  PROVE  PaidInv'
  <1> DEFINE st == WriteBack(task[o][g])
  <1>0. /\ task[o][g] \in Task /\ row[o] \in Row /\ task[o][g].phase = "finish"
        /\ Live(task[o][g])
        /\ faults' = faults /\ faults \in Nat /\ MaxAttempts \in Nat
    BY OpsAssumption DEF IInv, TypeOK, WriteResult, Live, LivePhases, Phases
  <1>1. st \in Outcomes /\ st \notin {"none", "timeout"}
    BY <1>0 DEF IInv, TasksAgree, WriteBack, Task, Outcomes
  <1>2. \A x \in Ops : CalmRow(x)
    BY WriteResultInv
  <1>3. PICK phase \in {"over", "settled"} : Step(o, g, phase, st)
    BY DEF WriteResult
  <1>4. Moves(o, g)
    BY <1>0, <1>1, <1>3, StepMoves DEF Phases
  <1>5. \A x \in Ops, h \in Generations : HolderCalm(x, h)
    BY <1>4 DEF Moves, HolderCalm
  <1>6. CASE ~LeaseCAS(o, g)
    <2>1. \A x \in Ops : SameLease(x)
      BY <1>6, MarkLease DEF WriteResult
    <2> HIDE DEF st
    <2> QED BY <1>0, <1>2, <1>4, <1>6, <2>1, MovePaid
  <1>7. CASE LeaseCAS(o, g) /\ st = "retry"
    <2>1. /\ row'[o].status = "retry_wait"
          /\ \A x \in Ops : x # o => row'[x] = row[x]
      <3>1. row \in [Ops -> Row]
        BY DEF IInv, TypeOK
      <3>2. row' = [row EXCEPT ![o] = Rescheduled(row[o])]
        BY <1>7 DEF WriteResult
      <3>3. Rescheduled(row[o]).status = "retry_wait"
        BY <1>0 DEF Rescheduled, Row
      <3> QED BY <3>1, <3>2, <3>3
    <2>2. row[o].generation = g /\ g = task[o][g].attempt /\ g \in Nat
      BY <1>0, <1>7 DEF LeaseCAS, PaidInv, HoldersAgree, Generations
    <2>3. row[o].generation < MaxAttempts + faults
      <3>1. task[o][g].outcome = "retry" /\ ~(task[o][g].attempt >= MaxAttempts)
        BY <1>7 DEF WriteBack
      <3> QED BY <1>0, <2>2, <3>1
    <2>4. ASSUME NEW x \in Ops PROVE DueCalm(x) /\ SameHolder(x)
      <3>1. CASE x = o
        BY <2>1, <2>3, <3>1 DEF DueCalm, SameHolder
      <3>2. CASE x # o
        <4>1. row'[x] = row[x] /\ \A h \in Generations : task'[x][h] = task[x][h]
          BY <1>4, <2>1, <3>2 DEF Moves
        <4> QED BY <4>1 DEF DueCalm, SameHolder, ToBeClaimed, HolderLost
      <3> QED BY <3>1, <3>2
    <2> QED BY <1>0, <1>2, <1>5, <2>4, PaidCalm
  <1>8. CASE LeaseCAS(o, g) /\ st # "retry"
    <2>1. st \in TERMINAL_STATUSES
      BY <1>1, <1>8 DEF Outcomes, TERMINAL_STATUSES
    <2>2. row' = WithMembersSettled(o, Completed(row[o], st), st)
      BY <1>8 DEF WriteResult
    <2> HIDE DEF st
    <2>3. ASSUME NEW x \in Ops PROVE DueCalm(x) /\ SameHolder(x)
      <3>1. CASE x = o
        <4>1. row'[x].status = st
          BY <1>0, <2>2, <3>1 DEF WithMembersSettled, Completed, Row
        <4> QED BY <2>1, <4>1 DEF DueCalm, SameHolder, ToBeClaimed, TERMINAL_STATUSES
      <3>2. CASE x # o
        <4>1. row'[x] = SettledMember(row[x], o, st)
          BY <2>2, <3>2 DEF WithMembersSettled
        <4>2. row[x] \in Row /\ \A h \in Generations : task'[x][h] = task[x][h]
          BY <1>4, <3>2 DEF Moves, IInv, TypeOK
        <4>3. row'[x] = row[x] \/ row'[x].status \notin {"queued", "retry_wait", "running"}
          BY <2>1, <4>1, <4>2 DEF SettledMember, TERMINAL_STATUSES, Row
        <4> QED BY <4>2, <4>3 DEF DueCalm, SameHolder, ToBeClaimed, HolderLost
      <3> QED BY <3>1, <3>2
    <2> QED BY <1>0, <1>2, <1>5, <2>3, PaidCalm
  <1> QED BY <1>6, <1>7, <1>8

(* Steps that move no execution: leases, backoffs, recovery and cancels.   *)
LEMMA LeasePaid ==
  ASSUME IInv, PaidInv, NEW o \in Ops,
         \/ \E g \in Generations : Heartbeat(o, g)
         \/ LeaseExpires(o) \/ BackoffElapses(o)
  PROVE  PaidInv'
  <1>0. \A x \in Ops : CalmRow(x)
    BY HeartbeatInv, LeaseExpiresInv, BackoffElapsesInv
  <1>1. /\ task' = task /\ faults \in Nat /\ row[o] \in Row
        /\ faults' \in {faults, faults + 1}
    BY DEF Heartbeat, LeaseExpires, BackoffElapses, Fault, IInv, TypeOK
  <1>2. /\ \A x \in Ops : row'[x].lockedBy = row[x].lockedBy
        /\ \A x \in Ops : x # o => row'[x] = row[x]
        /\ row'[o].status = row[o].status /\ row'[o].generation = row[o].generation
    <2>1. \/ \E b \in BOOLEAN : row' = [row EXCEPT ![o].expired = b]
          \/ row' = [row EXCEPT ![o].due = TRUE]
      BY DEF Heartbeat, LeaseExpires, BackoffElapses
    <2> QED BY <2>1 DEF IInv, TypeOK, Row
  <1>3. ASSUME NEW x \in Ops PROVE DueCalm(x)
    <2>1. CASE x # o
      BY <1>1, <1>2, <2>1 DEF DueCalm, ToBeClaimed, HolderLost
    <2>2. CASE x = o /\ \E g \in Generations : Heartbeat(o, g)
      BY <1>1, <1>2, <2>2 DEF Heartbeat, DueCalm, ToBeClaimed, HolderLost, IInv, TypeOK, Row
    <2>3. CASE x = o /\ BackoffElapses(o)
      BY <1>1, <1>2, <2>3 DEF BackoffElapses, DueCalm, ToBeClaimed
    <2>4. CASE x = o /\ LeaseExpires(o)
      <3>1. row[o].status = "running"
        BY <2>4 DEF LeaseExpires
      <3>2. CASE Live(task[o][row[o].generation])
        BY <2>4, <3>2 DEF LeaseExpires, Fault, DueCalm
      <3>3. CASE ~Live(task[o][row[o].generation])
        BY <2>4, <3>1, <3>3 DEF DueCalm, ToBeClaimed, HolderLost
      <3> QED BY <3>2, <3>3
    <2> QED BY <2>1, <2>2, <2>3, <2>4
  <1> QED BY <1>0, <1>1, <1>2, <1>3, PaidCalm DEF HolderCalm, SameHolder

LEMMA RecoverPaid == ASSUME IInv, PaidInv, RecoverExpiredLeases PROVE PaidInv'
  <1>0. (\A x \in Ops : CalmRow(x)) /\ task' = task /\ faults' = faults
    BY RecoverInv DEF RecoverExpiredLeases
  <1>1. ASSUME NEW x \in Ops PROVE DueCalm(x) /\ SameHolder(x)
    <2>0. row[x] \in Row
      BY DEF IInv, TypeOK
    <2>1. CASE row[x].status = "running" /\ row[x].expired
      <3>1. row'[x].status = "retry_wait"
        BY <2>0, <2>1 DEF RecoverExpiredLeases, Row
      <3> QED BY <2>1, <3>1 DEF DueCalm, SameHolder, ToBeClaimed
    <2>2. CASE ~(row[x].status = "running" /\ row[x].expired)
      <3>1. row'[x] = row[x]
        BY <2>2 DEF RecoverExpiredLeases
      <3> QED BY <1>0, <3>1 DEF DueCalm, SameHolder, ToBeClaimed, HolderLost
    <2> QED BY <2>1, <2>2
  <1> QED BY <1>0, <1>1, PaidCalm DEF HolderCalm

LEMMA CancelPaid ==
  ASSUME IInv, PaidInv, NEW c \in Clients,
         \/ \E o \in Ops : CancelRead(c, o)
         \/ CancelNow(c) \/ CancelCooperatively(c) \/ CancelRefused(c)
  PROVE  PaidInv'
  <1>0. (\A x \in Ops : CalmRow(x)) /\ task' = task /\ faults' = faults
    BY CancelReadInv, CancelNowInv, CancelCooperativelyInv, CancelRefusedInv
       DEF CancelRead, CancelNow, CancelCooperatively, CancelRefused
  <1>1. ASSUME NEW x \in Ops
        PROVE  \/ SameLease(x)
               \/ row'[x].status \notin {"queued", "retry_wait", "running"}
    <2>0. row[x] \in Row
      BY DEF IInv, TypeOK
    <2>1. CASE CancelNow(c)
      <3>1. CASE x = cancel[c].op
        <4>1. row'[x].status = "cancelled"
          BY <2>0, <2>1, <3>1 DEF CancelNow, WithMembersSettled, Row
        <4> QED BY <4>1
      <3>2. CASE x # cancel[c].op
        <4>1. row'[x] = SettledMember(row[x], cancel[c].op, "cancelled")
          BY <2>1, <3>2 DEF CancelNow, WithMembersSettled
        <4> QED BY <2>0, <4>1 DEF SettledMember, SameLease, Row
      <3> QED BY <3>1, <3>2
    <2>2. CASE CancelCooperatively(c)
      BY <2>0, <2>2 DEF CancelCooperatively, SameLease, IInv, TypeOK, Row
    <2>3. CASE (\E o \in Ops : CancelRead(c, o)) \/ CancelRefused(c)
      BY <2>3 DEF CancelRead, CancelRefused, SameLease
    <2> QED BY <2>1, <2>2, <2>3
  <1>2. \A x \in Ops : DueCalm(x) /\ SameHolder(x)
    BY <1>0, <1>1 DEF DueCalm, SameHolder, SameLease, ToBeClaimed, HolderLost
  <1> QED BY <1>0, <1>2, PaidCalm DEF HolderCalm

LEMMA CrashPaid == ASSUME IInv, PaidInv, NEW w \in Holders, Crash(w) PROVE PaidInv'
  <1>0. (\A x \in Ops : CalmRow(x)) /\ row' = row /\ faults' = faults + 1
    BY CrashInv DEF Crash, Fault
  <1>1. ASSUME NEW x \in Ops, NEW h \in Generations PROVE HolderCalm(x, h)
    <2>1. CASE <<x, h>> \in TasksOf(w, LivePhases)
      <3>1. task'[x][h].phase = "over"
        BY <2>1 DEF Crash, Ended, NoTask
      <3> QED BY <3>1 DEF HolderCalm, Live, LivePhases
    <2>2. CASE <<x, h>> \notin TasksOf(w, LivePhases)
      BY <2>2 DEF Crash, HolderCalm
    <2> QED BY <2>1, <2>2
  <1> QED BY <1>0, <1>1, PaidCalm DEF DueCalm, SameHolder

(* A claim spends what was paid for.                                       *)
LEMMA ClaimPaid ==
  ASSUME IInv, PaidInv, NEW w \in Holders, NEW S \in SUBSET Ops, Claim(w, S)
  PROVE  PaidInv'
  <1>0. faults' = faults /\ faults \in Nat /\ MaxAttempts \in Nat
    <2>1. faults' = faults
      BY DEF Claim
    <2> QED BY <2>1, OpsAssumption DEF IInv, TypeOK
  <1>1. ASSUME NEW x \in S
        PROVE  /\ row[x] \in Row
               /\ row[x].generation + 1 \in Generations
               /\ row[x].generation < MaxAttempts + faults
               /\ row'[x].status = "running" /\ row'[x].lockedBy = w
               /\ ~row'[x].expired
               /\ row'[x].generation = row[x].generation + 1
               /\ row[x].attempts = row[x].generation
    <2>1. x \in Ops /\ row[x] \in Row /\ row[x].attempts = row[x].generation
      BY DEF IInv, TypeOK, RowsAgree
    <2>2. row[x].generation < MaxGeneration /\ ToBeClaimed(x)
      BY DEF Claim, Claimable, ToBeClaimed
    <2>3. row[x].generation < MaxAttempts + faults
      BY <2>1, <2>2 DEF PaidInv, NextClaimPaidFor
    <2>4. row[x].generation + 1 \in Generations
      BY <2>1, <2>2, OpsAssumption DEF Row, Generations
    <2>5. row'[x] = [row[x] EXCEPT !.status = "running", !.lockedBy = w,
                           !.expired = FALSE, !.attempts = row[x].attempts + 1,
                           !.generation = row[x].generation + 1]
      BY <2>1 DEF Claim
    <2> QED BY <2>1, <2>3, <2>4, <2>5 DEF Row
  <1>2. \A x \in Ops \ S : row'[x] = row[x] /\ task'[x] = task[x]
    <2>1. ASSUME NEW x \in Ops \ S PROVE task'[x] = task[x]
      <3>1. \A h \in Generations : task'[x][h] = task[x][h]
        BY DEF Claim
      <3>2. task'[x] = [h \in Generations |-> task'[x][h]]
        BY DEF Claim
      <3>3. task[x] = [h \in Generations |-> task[x][h]]
        BY DEF IInv, TypeOK
      <3> QED BY <3>1, <3>2, <3>3
    <2> QED BY <2>1 DEF Claim
  <1>3. ASSUME NEW x \in S, NEW h \in Generations
        PROVE  IF h = row[x].generation + 1
               THEN /\ task'[x][h].worker = w /\ task'[x][h].phase = "claimed"
                    /\ task'[x][h].attempt = h /\ task'[x][h].outcome = "none"
               ELSE task'[x][h] = task[x][h]
    <2>1. CASE h = row[x].generation + 1
      <3>1. task'[x][h] = [worker |-> w, phase |-> "claimed", outcome |-> "none",
                           attempt |-> row[x].attempts + 1, commits |-> 0]
        BY <2>1 DEF Claim, NoTask
      <3> QED BY <1>1, <2>1, <3>1
    <2>2. CASE h # row[x].generation + 1
      BY <2>2 DEF Claim
    <2> QED BY <2>1, <2>2
  <1>4. HoldersAgree'
    <2> SUFFICES ASSUME NEW x \in Ops, NEW h \in Generations, Live(task'[x][h])
                 PROVE  /\ task'[x][h].attempt = h
                        /\ row'[x].status = "running" /\ row'[x].generation = h =>
                             row'[x].lockedBy = task'[x][h].worker
      BY DEF HoldersAgree, Live
    <2>1. CASE x \in S /\ h = row[x].generation + 1
      BY <1>1, <1>3, <2>1
    <2>2. CASE x \in S /\ h # row[x].generation + 1
      <3>1. task'[x][h] = task[x][h] /\ row'[x].generation # h
        BY <1>1, <1>3, <2>2
      <3> QED BY <3>1 DEF PaidInv, HoldersAgree
    <2>3. CASE x \notin S
      BY <1>2, <2>3 DEF PaidInv, HoldersAgree
    <2> QED BY <2>1, <2>2, <2>3
  <1>5. ClaimsPaidFor'
    <2> SUFFICES ASSUME NEW x \in Ops PROVE row'[x].generation <= MaxAttempts + faults'
      BY DEF ClaimsPaidFor
    <2>1. CASE x \in S
      <3>1. row[x].generation \in Nat
        BY <1>1, <2>1 DEF Row
      <3> QED BY <1>0, <1>1, <2>1, <3>1
    <2>2. CASE x \notin S
      BY <1>0, <1>2, <2>2 DEF PaidInv, ClaimsPaidFor
    <2> QED BY <2>1, <2>2
  <1>6. NextClaimPaidFor'
    <2> SUFFICES ASSUME NEW x \in Ops, ToBeClaimed(x)'
                 PROVE  row'[x].generation < MaxAttempts + faults'
      BY DEF NextClaimPaidFor
    <2>1. CASE x \in S
      <3>1. HolderLost(x)'
        BY <1>1, <2>1 DEF ToBeClaimed
      <3>2. Live(task'[x][row'[x].generation]) /\ task'[x][row'[x].generation].outcome # "timeout"
        BY <1>1, <1>3, <2>1 DEF Live, LivePhases, Phases
      <3>3. row'[x].generation \in Generations
        BY <1>1, <2>1
      <3> QED BY <3>1, <3>2, <3>3 DEF HolderLost, Live
    <2>2. CASE x \notin S
      <3>1. ToBeClaimed(x)
        BY <1>2, <2>2 DEF ToBeClaimed, HolderLost
      <3> QED BY <1>0, <1>2, <2>2, <3>1 DEF PaidInv, NextClaimPaidFor
    <2> QED BY <2>1, <2>2
  <1> QED BY <1>4, <1>5, <1>6 DEF PaidInv

LEMMA InitPaid == Init => PaidInv
  BY OpsAssumption DEF Init, NoTask, PaidInv, HoldersAgree, ClaimsPaidFor, NextClaimPaidFor,
     Live, LivePhases

LEMMA NextPaid == IInv /\ PaidInv /\ [Next]_vars => PaidInv'
  <1> SUFFICES ASSUME IInv, PaidInv, [Next]_vars PROVE PaidInv'
    OBVIOUS
  <1>1. ASSUME NEW w \in Workers, NEW S \in SUBSET Ops, ClaimOperations(w, S)
        PROVE  PaidInv'
    BY <1>1, ClaimPaid DEF ClaimOperations, Holders
  <1>2. ASSUME NEW w \in Gateways, NEW o \in Ops, ClaimFastPath(w, o)
        PROVE  PaidInv'
    <2>1. {o} \in SUBSET Ops
      OBVIOUS
    <2> QED BY <1>2, <2>1, ClaimPaid DEF ClaimFastPath, Holders
  <1>3. ASSUME NEW w \in Holders, Crash(w) PROVE PaidInv'
    BY <1>3, CrashPaid
  <1>4. ASSUME NEW o \in Ops, LeaseExpires(o) \/ BackoffElapses(o) PROVE PaidInv'
    BY <1>4, LeasePaid
  <1>5. CASE RecoverExpiredLeases
    BY <1>5, RecoverPaid
  <1>6. ASSUME NEW o \in Ops, NEW g \in Generations,
               \/ Heartbeat(o, g) \/ ExecutionStep(o, g)
               \/ AbandonForMaintenance(o, g) \/ HardTimeout(o, g)
        PROVE  PaidInv'
    BY <1>6, LeasePaid, ExecutionPaid, WriteResultPaid DEF ExecutionStep
  <1>7. ASSUME NEW c \in Clients,
               \/ \E o \in Ops : CancelRead(c, o)
               \/ CancelNow(c) \/ CancelCooperatively(c) \/ CancelRefused(c)
        PROVE  PaidInv'
    BY <1>7, CancelPaid
  <1>8. CASE UNCHANGED vars
    BY <1>8 DEF vars, PaidInv, HoldersAgree, ClaimsPaidFor, NextClaimPaidFor, ToBeClaimed,
                HolderLost, Live
  <1> QED BY <1>1, <1>2, <1>3, <1>4, <1>5, <1>6, <1>7, <1>8 DEF Next

(* The retry budget: an operation is claimed at most max_attempts times,   *)
(* plus once for every crash, timeout, late heartbeat or maintenance pause *)
(* of the whole system, although recovery never counts attempts.           *)
THEOREM ClaimBudget == Spec => []ClaimsPaidFor
  <1>1. Spec => []PaidInv
    BY InitPaid, NextPaid, Invariance, PTL DEF Spec
  <1>2. PaidInv => ClaimsPaidFor
    BY DEF PaidInv
  <1> QED BY <1>1, <1>2, PTL

(* The bound on claims is no restriction: with as many generations as the  *)
(* attempts and the faults together, a claimable operation is never kept   *)
(* from a claim by MaxGeneration.                                          *)
THEOREM EnoughGenerations ==
  MaxGeneration >= MaxAttempts + MaxFaults =>
    (Spec => [](\A o \in Ops : Claimable(o) => row[o].generation < MaxGeneration))
  <1> SUFFICES ASSUME MaxGeneration >= MaxAttempts + MaxFaults
               PROVE  Spec => [](\A o \in Ops : Claimable(o) =>
                                   row[o].generation < MaxGeneration)
    OBVIOUS
  <1>1. Spec => []PaidInv
    BY InitPaid, NextPaid, Invariance, PTL DEF Spec
  <1>2. TypeOK /\ PaidInv => \A o \in Ops : Claimable(o) => row[o].generation < MaxGeneration
    <2> SUFFICES ASSUME TypeOK, PaidInv, NEW o \in Ops, Claimable(o)
                 PROVE  row[o].generation < MaxGeneration
      OBVIOUS
    <2>1. row[o].generation < MaxAttempts + faults
      BY DEF PaidInv, NextClaimPaidFor, ToBeClaimed, Claimable
    <2>2. faults \in 0..MaxFaults /\ row[o].generation \in Nat
      BY DEF TypeOK, Row
    <2> QED BY <2>1, <2>2, OpsAssumption
  <1> QED BY <1>1, <1>2, TypeCorrect, PTL

-----------------------------------------------------------------------------
(* The refinement of OperationContract, step by step.                      *)
SameView == UNCHANGED <<OpState, OpClaims, OpBatch, OpDecidedBy>>

ContractStep == Contract!ContractNext \/ SameView

(* The parts of a row and of its executions that the contract sees.        *)
SameSeen(x) ==
  /\ row'[x].status = row[x].status
  /\ row'[x].generation = row[x].generation
  /\ row'[x].batch = row[x].batch

SameDecided(x) ==
  \A h \in Generations : task'[x][h].phase = "settled" <=> task[x][h].phase = "settled"

LEMMA DecidedSame ==
  ASSUME \A x \in Ops : SameDecided(x)
  PROVE  UNCHANGED OpDecidedBy
  BY DEF SameDecided, OpDecidedBy

LEMMA QuietView ==
  ASSUME \A x \in Ops : SameSeen(x) /\ SameDecided(x)
  PROVE  SameView
  BY DecidedSame DEF SameSeen, SameView, OpState, OpClaims, OpBatch

(* A step of one execution that does not settle decides nothing.           *)
LEMMA StepDecides ==
  ASSUME IInv, NEW o \in Ops, NEW g \in Generations, NEW phase \in Phases \ {"settled"},
         NEW outcome \in Outcomes, Live(task[o][g]), Step(o, g, phase, outcome)
  PROVE  \A x \in Ops : SameDecided(x)
  <1>1. /\ \A x \in Ops, h \in Generations : x # o \/ h # g => task'[x][h] = task[x][h]
        /\ task'[o][g].phase = phase
    BY StepType DEF IInv
  <1>2. task[o][g].phase # "settled"
    BY DEF Live, LivePhases
  <1> QED BY <1>1, <1>2 DEF SameDecided

(* An execution that has not ended decides nothing, nor does its end.      *)
LEMMA ExecutionQuiet ==
  ASSUME IInv, NEW o \in Ops, NEW g \in Generations,
         \/ StartExecution(o, g) \/ CheckCancel(o, g) \/ GraphEnds(o, g)
         \/ MarkCommitStarted(o, g) \/ ClearCommitStarted(o, g)
         \/ CommitTransaction(o, g) \/ AbandonForMaintenance(o, g) \/ HardTimeout(o, g)
  PROVE  SameView
  <1>1. \A x \in Ops : SameSeen(x)
    <2>1. row' = row \/ \E b \in BOOLEAN : row' = [row EXCEPT ![o].commitStarted = b]
      BY DEF StartExecution, CheckCancel, GraphEnds, MarkCommitStarted, ClearCommitStarted,
             CommitTransaction, AbandonForMaintenance, HardTimeout
    <2> QED BY <2>1 DEF IInv, TypeOK, Row, SameSeen
  <1>2. task[o][g].phase \in LivePhases /\ task[o][g] \in Task
    BY DEF StartExecution, CheckCancel, GraphEnds, MarkCommitStarted, ClearCommitStarted,
           CommitTransaction, AbandonForMaintenance, HardTimeout, LivePhases, Phases,
           IInv, TypeOK
  <1>3. \/ \E phase \in Phases \ {"settled"}, outcome \in Outcomes : Step(o, g, phase, outcome)
        \/ task' = [task EXCEPT ![o][g] =
                   [@ EXCEPT !.phase = "unmark", !.commits = task[o][g].commits + 1]]
    <2>1. task[o][g].outcome \in Outcomes
      BY <1>2 DEF Task
    <2>2. CASE CommitTransaction(o, g)
      BY <2>2 DEF CommitTransaction, Phases, Outcomes
    <2>3. CASE ClearCommitStarted(o, g)
      <3>1. \E phase \in {"run", "over", "finish"} : Step(o, g, phase, task[o][g].outcome)
        BY <2>3 DEF ClearCommitStarted
      <3> QED BY <2>1, <3>1 DEF Phases
    <2>4. CASE StartExecution(o, g) \/ CheckCancel(o, g) \/ MarkCommitStarted(o, g)
      BY <2>4 DEF StartExecution, CheckCancel, MarkCommitStarted, Phases, Outcomes
    <2>5. CASE GraphEnds(o, g)
      BY <2>5 DEF GraphEnds, Phases, Outcomes
    <2>6. CASE AbandonForMaintenance(o, g) \/ HardTimeout(o, g)
      BY <2>6 DEF AbandonForMaintenance, HardTimeout, Phases, Outcomes
    <2> QED BY <2>2, <2>3, <2>4, <2>5, <2>6
  <1>4. \A x \in Ops : SameDecided(x)
    <2>1. CASE \E phase \in Phases \ {"settled"}, outcome \in Outcomes :
                 Step(o, g, phase, outcome)
      BY <1>2, <2>1, StepDecides DEF Live
    <2>2. CASE task' = [task EXCEPT ![o][g] =
                   [@ EXCEPT !.phase = "unmark", !.commits = task[o][g].commits + 1]]
      <3>1. /\ \A x \in Ops, h \in Generations : x # o \/ h # g => task'[x][h] = task[x][h]
            /\ task'[o][g].phase = "unmark"
        BY <1>2, <2>2 DEF IInv, TypeOK, Task
      <3> QED BY <1>2, <3>1 DEF SameDecided, LivePhases
    <2> QED BY <1>3, <2>1, <2>2
  <1> QED BY <1>1, <1>4, QuietView

(* A claim takes, under a generation that has decided nothing yet.         *)
LEMMA ClaimTakes ==
  ASSUME IInv, NEW w \in Holders, NEW S \in SUBSET Ops, S # {}, Claim(w, S)
  PROVE  ContractStep
  <1>1. ASSUME NEW x \in S
        PROVE  /\ row[x].status \in {"queued", "retry_wait"}
               /\ row'[x].status = "running"
               /\ row'[x].generation = row[x].generation + 1
               /\ row'[x].batch = row[x].batch
    <2>1. row[x] \in Row /\ row[x].status \in {"queued", "retry_wait"}
      BY DEF IInv, TypeOK, Claim, Claimable
    <2>2. row'[x] = [row[x] EXCEPT !.status = "running", !.lockedBy = w,
                           !.expired = FALSE, !.attempts = row[x].attempts + 1,
                           !.generation = row[x].generation + 1]
      BY DEF Claim
    <2> QED BY <2>1, <2>2 DEF Row
  <1>2. \A x \in Ops \ S : row'[x] = row[x]
    BY DEF Claim
  <1>3. \A x \in S : OpState[x] = "ready"
    BY <1>1 DEF OpState
  <1>4. OpState' = [x \in Ops |-> IF x \in S THEN "active" ELSE OpState[x]]
    BY <1>1, <1>2 DEF OpState
  <1>5. OpClaims' = [x \in Ops |-> IF x \in S THEN OpClaims[x] + 1 ELSE OpClaims[x]]
    BY <1>1, <1>2 DEF OpClaims
  <1>6. OpBatch' = OpBatch
    BY <1>1, <1>2 DEF OpBatch
  <1>7. ASSUME NEW x \in Ops PROVE SameDecided(x)
    <2> SUFFICES ASSUME NEW h \in Generations
                 PROVE  task'[x][h].phase = "settled" <=> task[x][h].phase = "settled"
      BY DEF SameDecided
    <2>1. CASE x \in S /\ h = row[x].generation + 1
      <3>1. task'[x][h].phase = "claimed"
        BY <2>1 DEF Claim, NoTask
      <3>2. h > row[x].generation
        BY <2>1 DEF IInv, TypeOK, Row, Generations
      <3>3. task[x][h].phase = "none"
        BY <3>2 DEF IInv, TasksAgree
      <3> QED BY <3>1, <3>3
    <2>2. CASE ~(x \in S /\ h = row[x].generation + 1)
      BY <2>2 DEF Claim
    <2> QED BY <2>1, <2>2
  <1>8. OpDecidedBy' = OpDecidedBy
    BY <1>7, DecidedSame
  <1>9. Contract!Take(S)
    BY <1>3, <1>4, <1>5, <1>6, <1>8 DEF Contract!Take
  <1> QED BY <1>9 DEF ContractStep, Contract!ContractNext

(* Recovery gives back the operations whose lease expired.                 *)
LEMMA RecoverGivesBack ==
  ASSUME IInv, RecoverExpiredLeases
  PROVE  ContractStep
  <1> DEFINE S == {x \in Ops : row[x].status = "running" /\ row[x].expired}
  <1>1. ASSUME NEW x \in Ops
        PROVE  IF x \in S
               THEN /\ row[x].status = "running" /\ row'[x].status = "retry_wait"
                    /\ row'[x].generation = row[x].generation
                    /\ row'[x].batch = row[x].batch
               ELSE row'[x] = row[x]
    BY DEF RecoverExpiredLeases, IInv, TypeOK, Row
  <1>2. S # {} /\ S \in SUBSET Ops
    BY DEF RecoverExpiredLeases
  <1> HIDE DEF S
  <1>3. \A x \in S : OpState[x] = "active"
    BY <1>1, <1>2 DEF OpState
  <1>4. OpState' = [x \in Ops |-> IF x \in S THEN "ready" ELSE OpState[x]]
    BY <1>1 DEF OpState
  <1>5. OpClaims' = OpClaims /\ OpBatch' = OpBatch
    BY <1>1 DEF OpClaims, OpBatch
  <1>6. OpDecidedBy' = OpDecidedBy
    BY DEF RecoverExpiredLeases, OpDecidedBy
  <1>7. Contract!GiveBack(S)
    BY <1>2, <1>3, <1>4, <1>5, <1>6 DEF Contract!GiveBack
  <1> QED BY <1>2, <1>7 DEF ContractStep, Contract!ContractNext

(* What settling the members of o with verdict st does, in the contract's  *)
(* words.                                                                  *)
LEMMA SettleSeen ==
  ASSUME IInv, NEW o \in Ops, NEW r, NEW st \in TERMINAL_STATUSES,
         row' = WithMembersSettled(o, r, st),
         r.status = st, r.batch = row[o].batch, r.generation = row[o].generation
  PROVE  /\ OpClaims' = OpClaims
         /\ st = "cancelled" =>
              /\ OpState' = [OpState EXCEPT ![o] = st]
              /\ OpBatch' = [x \in Ops |-> IF x \in Contract!MembersOf(o) THEN NoOp
                                           ELSE OpBatch[x]]
         /\ st # "cancelled" =>
              /\ OpState' = [x \in Ops |-> IF x = o THEN st
                                   ELSE IF x \in Contract!MembersOf(o)
                                   THEN Contract!MemberVerdict(st) ELSE OpState[x]]
              /\ OpBatch' = OpBatch
  <1>0. row'[o] = r /\ \A x \in Ops : x # o => row'[x] = SettledMember(row[x], o, st)
    BY DEF WithMembersSettled
  <1>1. ASSUME NEW x \in Ops
        PROVE  x \in Contract!MembersOf(o) <=>
                 row[x].status = "pending_batch" /\ row[x].batch = o
    <2>1. row[x].status \in Statuses
      BY DEF IInv, TypeOK, Row
    <2>2. OpState[x] = "member" <=> row[x].status = "pending_batch"
      BY <2>1 DEF OpState, Statuses, TERMINAL_STATUSES
    <2> QED BY <2>2 DEF Contract!MembersOf, OpBatch
  <1>2. o \notin Contract!MembersOf(o)
    BY <1>1, OpsAssumption DEF IInv, RowsAgree
  <1>3. ASSUME NEW x \in Ops, x # o
        PROVE  /\ row'[x].generation = row[x].generation
               /\ x \notin Contract!MembersOf(o) => row'[x] = row[x]
               /\ x \in Contract!MembersOf(o) =>
                    IF st = "cancelled"
                    THEN row'[x].batch = NoOp /\ row'[x].status = row[x].status
                    ELSE /\ row'[x].batch = row[x].batch
                         /\ row'[x].status = Contract!MemberVerdict(st)
    <2>1. row[x] \in Row /\ row'[x] = SettledMember(row[x], o, st)
      BY <1>0, <1>3 DEF IInv, TypeOK
    <2>2. CASE x \notin Contract!MembersOf(o)
      BY <1>1, <2>1, <2>2 DEF SettledMember
    <2>3. CASE x \in Contract!MembersOf(o)
      <3>1. row[x].status = "pending_batch" /\ row[x].batch = o
        BY <1>1, <2>3
      <3>2. CASE st = "cancelled"
        <4>1. row'[x] = [row[x] EXCEPT !.batch = NoOp]
          BY <2>1, <3>1, <3>2 DEF SettledMember
        <4> QED BY <2>1, <2>3, <3>2, <4>1 DEF Row
      <3>3. CASE st # "cancelled"
        <4>1. row'[x] = [row[x] EXCEPT !.status = Contract!MemberVerdict(st)]
          BY <2>1, <3>1, <3>3 DEF SettledMember, TERMINAL_STATUSES, Contract!MemberVerdict
        <4> QED BY <2>1, <2>3, <3>3, <4>1 DEF Row
      <3> QED BY <3>2, <3>3
    <2> QED BY <2>2, <2>3
  <1>4. OpClaims' = OpClaims
    BY <1>0, <1>3 DEF OpClaims
  <1>5. OpState'[o] = st /\ OpBatch'[o] = OpBatch[o]
    BY <1>0 DEF OpState, OpBatch, TERMINAL_STATUSES
  <1>6. ASSUME NEW x \in Ops, x # o
        PROVE  /\ x \notin Contract!MembersOf(o) =>
                    OpState'[x] = OpState[x] /\ OpBatch'[x] = OpBatch[x]
               /\ x \in Contract!MembersOf(o) /\ st = "cancelled" =>
                    OpState'[x] = OpState[x] /\ OpBatch'[x] = NoOp
               /\ x \in Contract!MembersOf(o) /\ st # "cancelled" =>
                    OpState'[x] = Contract!MemberVerdict(st) /\ OpBatch'[x] = OpBatch[x]
    BY <1>3, <1>6 DEF OpState, OpBatch, Contract!MemberVerdict
  <1>7. /\ OpState = [x \in Ops |-> OpState[x]] /\ OpState' = [x \in Ops |-> OpState'[x]]
        /\ OpBatch = [x \in Ops |-> OpBatch[x]] /\ OpBatch' = [x \in Ops |-> OpBatch'[x]]
    BY DEF OpState, OpBatch
  <1>8. ASSUME st = "cancelled"
        PROVE  /\ OpState' = [OpState EXCEPT ![o] = st]
               /\ OpBatch' = [x \in Ops |-> IF x \in Contract!MembersOf(o) THEN NoOp
                                            ELSE OpBatch[x]]
    BY <1>2, <1>5, <1>6, <1>7, <1>8
  <1>9. ASSUME st # "cancelled"
        PROVE  /\ OpState' = [x \in Ops |-> IF x = o THEN st
                                   ELSE IF x \in Contract!MembersOf(o)
                                   THEN Contract!MemberVerdict(st) ELSE OpState[x]]
               /\ OpBatch' = OpBatch
    BY <1>5, <1>6, <1>7, <1>9
  <1> QED BY <1>4, <1>8, <1>9

(* A result that passes the CAS is a decision of the last claim; a retry   *)
(* gives the operation back; a late result is nothing.                     *)
LEMMA WriteResultDecides ==
  ASSUME IInv, NEW o \in Ops, NEW g \in Generations, WriteResult(o, g)
  PROVE  ContractStep
  <1> DEFINE st == WriteBack(task[o][g])
  <1>0. /\ task[o][g] \in Task /\ row[o] \in Row /\ task[o][g].phase = "finish"
        /\ Live(task[o][g])
    BY DEF IInv, TypeOK, WriteResult, Live, LivePhases, Phases
  <1>1. st \in Outcomes /\ st \notin {"none", "timeout"}
    BY <1>0 DEF IInv, TasksAgree, WriteBack, Task, Outcomes
  <1>2. CASE ~LeaseCAS(o, g)
    <2>1. row' = row /\ Step(o, g, "over", st)
      BY <1>2 DEF WriteResult
    <2> HIDE DEF st
    <2>2. \A x \in Ops : SameDecided(x)
      BY <1>0, <1>1, <2>1, StepDecides DEF Phases
    <2> QED BY <2>1, <2>2, QuietView DEF SameSeen, ContractStep
  <1>3. CASE LeaseCAS(o, g) /\ st = "retry"
    <2>1. row' = [row EXCEPT ![o] = Rescheduled(row[o])] /\ Step(o, g, "over", st)
      BY <1>3 DEF WriteResult
    <2>2. /\ row[o].status = "running" /\ row'[o].status = "retry_wait"
          /\ row'[o].generation = row[o].generation /\ row'[o].batch = row[o].batch
          /\ \A x \in Ops : x # o => row'[x] = row[x]
      BY <1>0, <1>3, <2>1 DEF LeaseCAS, Rescheduled, IInv, TypeOK, Row
    <2> HIDE DEF st
    <2>3. UNCHANGED OpDecidedBy
      BY <1>0, <1>1, <2>1, StepDecides, DecidedSame DEF Phases
    <2>4. OpState[o] = "active"
      BY <2>2 DEF OpState
    <2>5. OpState' = [x \in Ops |-> IF x \in {o} THEN "ready" ELSE OpState[x]]
      BY <2>2 DEF OpState
    <2>6. OpClaims' = OpClaims /\ OpBatch' = OpBatch
      BY <2>2 DEF OpClaims, OpBatch
    <2>7. Contract!GiveBack({o})
      BY <2>3, <2>4, <2>5, <2>6 DEF Contract!GiveBack
    <2> QED BY <2>7 DEF ContractStep, Contract!ContractNext
  <1>4. CASE LeaseCAS(o, g) /\ st # "retry"
    <2>1. /\ row' = WithMembersSettled(o, Completed(row[o], st), st)
          /\ Step(o, g, "settled", st)
      BY <1>4 DEF WriteResult
    <2>2. st \in TERMINAL_STATUSES
      BY <1>1, <1>4 DEF Outcomes, TERMINAL_STATUSES
    <2> HIDE DEF st
    <2>3. /\ Completed(row[o], st).status = st
          /\ Completed(row[o], st).batch = row[o].batch
          /\ Completed(row[o], st).generation = row[o].generation
      BY <1>0 DEF Completed, Row
    <2>4. row[o].generation = g /\ OpState[o] = "active" /\ OpClaims[o] = g
      BY <1>4 DEF LeaseCAS, OpState, OpClaims
    <2>5. OpDecidedBy' = [OpDecidedBy EXCEPT ![o] = @ \union {OpClaims[o]}]
      <3>1. /\ \A x \in Ops, h \in Generations : x # o \/ h # g => task'[x][h] = task[x][h]
            /\ task'[o][g].phase = "settled"
        BY <1>1, <2>1, StepType DEF IInv, Phases
      <3>2. \A x \in Ops : x # o => OpDecidedBy'[x] = OpDecidedBy[x]
        BY <3>1 DEF OpDecidedBy
      <3>3. OpDecidedBy'[o] = OpDecidedBy[o] \union {g}
        BY <3>1 DEF OpDecidedBy
      <3> QED BY <2>4, <3>2, <3>3 DEF OpDecidedBy
    <2>6. Contract!Decide(o, st)
      BY <2>1, <2>2, <2>3, <2>4, <2>5, SettleSeen DEF Contract!Decide
    <2> QED BY <2>2, <2>6
            DEF ContractStep, Contract!ContractNext, Contract!Verdicts, TERMINAL_STATUSES
  <1> QED BY <1>2, <1>3, <1>4

(* A cancel decides on what it read: whatever the row is now, it becomes   *)
(* cancelled and its members go back to the pool.                          *)
LEMMA CancelCancels ==
  ASSUME IInv, NEW c \in Clients,
         \/ \E o \in Ops : CancelRead(c, o)
         \/ CancelNow(c) \/ CancelCooperatively(c) \/ CancelRefused(c)
  PROVE  ContractStep
  <1>0. task' = task /\ \A x \in Ops : SameDecided(x)
    BY DEF CancelRead, CancelNow, CancelCooperatively, CancelRefused, SameDecided
  <1>1. CASE CancelNow(c)
    <2> DEFINE o == cancel[c].op
               r == IF cancel[c].status = "needs_review"
                    THEN [row[o] EXCEPT !.status = "cancelled"]
                    ELSE [row[o] EXCEPT !.status = "cancelled", !.lockedBy = NoWorker,
                                !.expired = FALSE]
    <2>1. o \in Ops /\ row[o] \in Row
      BY <1>1 DEF IInv, TypeOK, CancelsAgree, CancelNow
    <2>2. r.status = "cancelled" /\ r.batch = row[o].batch /\ r.generation = row[o].generation
      BY <2>1 DEF Row
    <2>3. row' = WithMembersSettled(o, r, "cancelled")
      BY <1>1 DEF CancelNow
    <2> HIDE DEF o, r
    <2>4. "cancelled" \in TERMINAL_STATUSES
      BY DEF TERMINAL_STATUSES
    <2>5. Contract!Cancel(o)
      BY <1>0, <2>1, <2>2, <2>3, <2>4, SettleSeen, DecidedSame DEF Contract!Cancel
    <2> QED BY <2>1, <2>5 DEF ContractStep, Contract!ContractNext
  <1>2. CASE ~CancelNow(c)
    <2>1. row' = row \/ row' = [row EXCEPT ![cancel[c].op].cancelRequested = TRUE]
      BY <1>2 DEF CancelRead, CancelCooperatively, CancelRefused
    <2>2. \A x \in Ops : SameSeen(x)
      BY <2>1 DEF SameSeen, IInv, TypeOK, Row
    <2> QED BY <1>0, <2>2, QuietView DEF ContractStep
  <1> QED BY <1>1, <1>2

(* Leases, heartbeats, backoffs and crashes are invisible.                 *)
LEMMA LeaseQuiet ==
  ASSUME IInv, NEW o \in Ops,
         \/ \E g \in Generations : Heartbeat(o, g)
         \/ LeaseExpires(o) \/ BackoffElapses(o)
  PROVE  SameView
  <1>1. /\ task' = task
        /\ \/ \E b \in BOOLEAN : row' = [row EXCEPT ![o].expired = b]
           \/ row' = [row EXCEPT ![o].due = TRUE]
    BY DEF Heartbeat, LeaseExpires, BackoffElapses
  <1>2. \A x \in Ops : SameSeen(x) /\ SameDecided(x)
    BY <1>1 DEF SameSeen, SameDecided, IInv, TypeOK, Row
  <1> QED BY <1>2, QuietView

LEMMA CrashQuiet == ASSUME IInv, NEW w \in Holders, Crash(w) PROVE SameView
  <1>1. ASSUME NEW x \in Ops PROVE SameDecided(x)
    <2> SUFFICES ASSUME NEW h \in Generations
                 PROVE  task'[x][h].phase = "settled" <=> task[x][h].phase = "settled"
      BY DEF SameDecided
    <2>1. CASE <<x, h>> \in TasksOf(w, LivePhases)
      <3>1. task'[x][h].phase = "over" /\ task[x][h].phase \in LivePhases
        BY <2>1 DEF Crash, Ended, NoTask, TasksOf
      <3> QED BY <3>1 DEF LivePhases
    <2>2. CASE <<x, h>> \notin TasksOf(w, LivePhases)
      BY <2>2 DEF Crash
    <2> QED BY <2>1, <2>2
  <1> QED BY <1>1, QuietView DEF Crash, SameSeen

LEMMA InitContract == Init => Contract!ContractInit
  BY OpsAssumption DEF Init, Contract!ContractInit, OpState, OpClaims, OpBatch, OpDecidedBy,
     NoTask

LEMMA NextContract == IInv /\ [Next]_vars => ContractStep
  <1> SUFFICES ASSUME IInv, [Next]_vars PROVE ContractStep
    OBVIOUS
  <1>1. ASSUME NEW w \in Workers, NEW S \in SUBSET Ops, ClaimOperations(w, S)
        PROVE  ContractStep
    BY <1>1, ClaimTakes DEF ClaimOperations, Holders
  <1>2. ASSUME NEW w \in Gateways, NEW o \in Ops, ClaimFastPath(w, o)
        PROVE  ContractStep
    <2>1. {o} \in SUBSET Ops /\ {o} # {}
      OBVIOUS
    <2> QED BY <1>2, <2>1, ClaimTakes DEF ClaimFastPath, Holders
  <1>3. ASSUME NEW w \in Holders, Crash(w) PROVE ContractStep
    BY <1>3, CrashQuiet DEF ContractStep
  <1>4. ASSUME NEW o \in Ops, LeaseExpires(o) \/ BackoffElapses(o) PROVE ContractStep
    BY <1>4, LeaseQuiet DEF ContractStep
  <1>5. CASE RecoverExpiredLeases
    BY <1>5, RecoverGivesBack
  <1>6. ASSUME NEW o \in Ops, NEW g \in Generations,
               \/ Heartbeat(o, g) \/ ExecutionStep(o, g)
               \/ AbandonForMaintenance(o, g) \/ HardTimeout(o, g)
        PROVE  ContractStep
    BY <1>6, LeaseQuiet, ExecutionQuiet, WriteResultDecides DEF ExecutionStep, ContractStep
  <1>7. ASSUME NEW c \in Clients,
               \/ \E o \in Ops : CancelRead(c, o)
               \/ CancelNow(c) \/ CancelCooperatively(c) \/ CancelRefused(c)
        PROVE  ContractStep
    BY <1>7, CancelCancels
  <1>8. CASE UNCHANGED vars
    BY <1>8 DEF vars, ContractStep, SameView, OpState, OpClaims, OpBatch, OpDecidedBy
  <1> QED BY <1>1, <1>2, <1>3, <1>4, <1>5, <1>6, <1>7, <1>8 DEF Next

(* The operation queue implements its contract: leases that expire under a *)
(* live execution, zombies that write late, recovery and cancels that      *)
(* decide on old reads never decide an operation twice, never decide it by *)
(* another claim than the last, and settle a batch and its members at once.*)
THEOREM ImplementsContract == Spec => FollowsContract
  <1>1. ContractStep => [Contract!ContractNext]_(Contract!contractVars)
    BY DEF ContractStep, SameView, Contract!contractVars
  <1> QED BY <1>1, InitContract, NextContract, Invariance, PTL
          DEF Spec, FollowsContract, Contract!ContractSpec
=============================================================================
