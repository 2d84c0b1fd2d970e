-------------------------- MODULE MemoryOperations --------------------------
(***************************************************************************)
(* The memory_operations table and everything that writes a row of it      *)
(* concurrently: workers (and the gateway's fast path, which is a worker   *)
(* too) that claim, heartbeat, execute and settle operations under a       *)
(* fenced lease; the scheduler that recovers expired leases; clients and   *)
(* the account purge that cancel.  Every action is one database            *)
(* transaction or one local step of the asyncio task that executes a       *)
(* claimed operation, so the interleavings are those of PostgreSQL's READ  *)
(* COMMITTED with several processes.                                       *)
(*                                                                         *)
(* What an operation computes is abstract.  What is kept is the control:   *)
(* the CAS of every write, the commit mark, the cooperative cancellation,  *)
(* the classification of failures and the retry budget.                    *)
(***************************************************************************)
EXTENDS Naturals, FiniteSets

CONSTANTS
  Ops,            \* operation ids
  Workers,        \* worker processes that poll the table
  Gateways,       \* gateway processes: a worker that claims one given operation
  Clients,        \* cancel requests: each makes one
  NoWorker,       \* locked_by IS NULL
  NoOp,           \* batch_operation_id IS NULL
  BatchOf,        \* the batch an evidence operation was assigned to, or NoOp
  MaxAttempts,    \* max_attempts of every operation
  MaxGeneration,  \* bound: claims of one operation
  MaxFaults,      \* bound: crashes, timeouts and late heartbeats
  MaxCommits,     \* bound: commits of one execution (a batch has many)
  Slots           \* WorkerConfig.concurrency, the size of the semaphore

Holders == Workers \union Gateways

ASSUME OpsAssumption ==
  /\ NoWorker \notin Holders
  /\ NoOp \notin Ops
  /\ BatchOf \in [Ops -> Ops \union {NoOp}]
  /\ \A o \in Ops : BatchOf[o] # NoOp => BatchOf[BatchOf[o]] = NoOp
  /\ MaxAttempts \in Nat \ {0}
  /\ MaxGeneration \in Nat \ {0}
  /\ MaxFaults \in Nat
  /\ MaxCommits \in Nat
  /\ Slots \in Nat \ {0}

Generations == 1..MaxGeneration

TERMINAL_STATUSES == {"succeeded", "needs_review", "dead_letter", "cancelled"}
Statuses ==
  {"queued", "running", "retry_wait", "pending_batch"} \union TERMINAL_STATUSES

(* What an execution decided to write back; "timeout" writes nothing.      *)
Outcomes == {"none", "succeeded", "needs_review", "dead_letter", "retry",
             "cancelled", "timeout"}

(* Where the asyncio task of a claim is.  "claimed": waiting for the       *)
(* semaphore and the maintenance gate, no heartbeat yet.  "marked": inside *)
(* commit_plans after the commit mark.  "settled": its terminal write was  *)
(* accepted.  "over": it ended and wrote no terminal status.               *)
Phases == {"none", "claimed", "check", "run", "marked", "unmark", "finish",
           "settled", "over"}

VARIABLES
  row,      \* the table: one record per operation
  task,     \* task[o][g]: the execution started by the g-th claim of o
  cancel,   \* cancel[c]: the cancel request of client c
  faults    \* faults so far

vars == <<row, task, cancel, faults>>

Row ==
  [status : Statuses, lockedBy : Holders \union {NoWorker},
   expired : BOOLEAN,           \* lease_expires_at < now()
   generation : 0..MaxGeneration, attempts : 0..MaxGeneration,
   commitStarted : BOOLEAN, cancelRequested : BOOLEAN,
   due : BOOLEAN,               \* next_run_at <= now()
   batch : Ops \union {NoOp}]

Task ==
  [worker : Holders \union {NoWorker}, phase : Phases, outcome : Outcomes,
   attempt : 0..MaxGeneration,  \* attempt_count of the claimed row
   commits : 0..MaxCommits]

Cancel ==
  [phase : {"idle", "decide", "done"}, op : Ops \union {NoOp},
   status : Statuses, committing : BOOLEAN,
   reply : {"none", "ok", "conflict"}]

TypeOK ==
  /\ row \in [Ops -> Row]
  /\ task \in [Ops -> [Generations -> Task]]
  /\ cancel \in [Clients -> Cancel]
  /\ faults \in 0..MaxFaults

NoTask ==
  [worker |-> NoWorker, phase |-> "none", outcome |-> "none", attempt |-> 0,
   commits |-> 0]

(* insert_operation, and for evidence the scheduler's assign_batch_members *)
Init ==
  /\ row = [o \in Ops |->
       [status |-> IF BatchOf[o] = NoOp THEN "queued" ELSE "pending_batch",
        lockedBy |-> NoWorker, expired |-> FALSE, generation |-> 0,
        attempts |-> 0, commitStarted |-> FALSE, cancelRequested |-> FALSE,
        due |-> TRUE, batch |-> BatchOf[o]]]
  /\ task = [o \in Ops |-> [g \in Generations |-> NoTask]]
  /\ cancel = [c \in Clients |->
       [phase |-> "idle", op |-> NoOp, status |-> "queued",
        committing |-> FALSE, reply |-> "none"]]
  /\ faults = 0

-----------------------------------------------------------------------------
(* Helpers *)

LivePhases == Phases \ {"none", "settled", "over"}
Live(t) == t.phase \in LivePhases

(* The fencing CAS: locked_by = :worker AND lease_generation = :generation *)
(* AND status = 'running'.                                                 *)
WorkerOnlyCAS(o, g) ==
  /\ row[o].status = "running"
  /\ row[o].lockedBy = task[o][g].worker

GenerationOnlyCAS(o, g) == row[o].generation = g

LeaseCAS(o, g) ==
  /\ row[o].status = "running"
  /\ row[o].lockedBy = task[o][g].worker
  /\ row[o].generation = g

(* settle_batch_members: what the terminal status st of batch b does to    *)
(* another row r.                                                          *)
SettledUnlessCancelled(r, b, st) ==
  IF r.batch = b /\ r.status = "pending_batch" /\ st # "cancelled"
  THEN [r EXCEPT !.status =
          IF st = "succeeded" THEN "succeeded" ELSE "dead_letter"]
  ELSE r

SettledMember(r, b, st) ==
  IF r.batch = b /\ r.status = "pending_batch"
  THEN CASE st = "cancelled" -> [r EXCEPT !.batch = NoOp]
         [] st = "succeeded" -> [r EXCEPT !.status = "succeeded"]
         [] st \in {"dead_letter", "needs_review"} ->
              [r EXCEPT !.status = "dead_letter"]
         [] OTHER -> r
  ELSE r

(* The table after operation o became r in a transaction that also settles *)
(* o's members for status st.                                              *)
WithMembersSettled(o, r, st) ==
  [x \in Ops |-> IF x = o THEN r ELSE SettledMember(row[x], o, st)]

(* The execution of claim g goes to the given phase with the given         *)
(* outcome; one that ended forgets what it knew.                           *)
Ended(t, phase) == [NoTask EXCEPT !.phase = phase, !.commits = t.commits]

Step(o, g, phase, outcome) ==
  task' = [task EXCEPT ![o][g] =
             IF phase \in {"over", "settled"} THEN Ended(@, phase)
             ELSE [@ EXCEPT !.phase = phase, !.outcome = outcome]]

Fault == faults < MaxFaults /\ faults' = faults + 1

-----------------------------------------------------------------------------
(* Claiming and the lease *)

Claimable(o) == row[o].status \in {"queued", "retry_wait"} /\ row[o].due

TasksOf(w, phases) ==
  {og \in Ops \X Generations :
     /\ task[og[1]][og[2]].worker = w
     /\ task[og[1]][og[2]].phase \in phases}

(* claim_operation for the set S: one UPDATE, one transaction.             *)
Claim(w, S) ==
  /\ \A o \in S : Claimable(o) /\ row[o].generation < MaxGeneration
  /\ row' = [o \in Ops |->
       IF o \in S
       THEN [row[o] EXCEPT !.status = "running", !.lockedBy = w,
                           !.expired = FALSE, !.attempts = @ + 1,
                           !.generation = @ + 1]
       ELSE row[o]]
  /\ task' = [o \in Ops |-> [g \in Generations |->
       IF o \in S /\ g = row[o].generation + 1
       THEN [NoTask EXCEPT !.worker = w, !.phase = "claimed",
                           !.attempt = row[o].attempts + 1]
       ELSE task[o][g]]]
  /\ UNCHANGED <<cancel, faults>>

(* Worker w polls.  SKIP LOCKED may leave any claimable row out, so S is   *)
(* any set of them, and never more than the worker has free slots.         *)
ClaimOperations(w, S) ==
  /\ S # {}
  /\ Cardinality(S) + Cardinality(TasksOf(w, LivePhases)) <= Slots
  /\ Claim(w, S)

(* The gateway claims the operation it has just persisted, whatever else   *)
(* it is executing.                                                        *)
ClaimFastPath(w, o) == Claim(w, {o})

(* _heartbeat_loop runs beside the execution from its first step.          *)
Heartbeat(o, g) ==
  /\ Live(task[o][g]) /\ task[o][g].phase # "claimed"
  /\ LeaseCAS(o, g)
  /\ row[o].expired
  /\ row' = [row EXCEPT ![o].expired = FALSE]
  /\ UNCHANGED <<task, cancel, faults>>

(* lease_expires_at passes.  When the holder's execution is alive this     *)
(* means its heartbeat is late (a stalled event loop, a failing database,  *)
(* a claim still waiting for a slot), which counts as a fault.             *)
LeaseExpires(o) ==
  /\ row[o].status = "running" /\ ~row[o].expired
  /\ row' = [row EXCEPT ![o].expired = TRUE]
  /\ IF Live(task[o][row[o].generation]) THEN Fault ELSE UNCHANGED faults
  /\ UNCHANGED <<task, cancel>>

RecoverUnmarkedLeases ==
  /\ \E o \in Ops : row[o].status = "running" /\ row[o].expired /\ ~row[o].commitStarted
  /\ row' = [o \in Ops |->
       IF row[o].status = "running" /\ row[o].expired /\ ~row[o].commitStarted
       THEN [row[o] EXCEPT !.status = "retry_wait", !.due = TRUE,
                           !.lockedBy = NoWorker, !.expired = FALSE]
       ELSE row[o]]
  /\ UNCHANGED <<task, cancel, faults>>

(* The scheduler's task: every expired running row goes back to the queue. *)
(* The commit mark stays, and the attempt count is not looked at.          *)
RecoverExpiredLeases ==
  /\ \E o \in Ops : row[o].status = "running" /\ row[o].expired
  /\ row' = [o \in Ops |->
       IF row[o].status = "running" /\ row[o].expired
       THEN [row[o] EXCEPT !.status = "retry_wait", !.due = TRUE,
                           !.lockedBy = NoWorker, !.expired = FALSE]
       ELSE row[o]]
  /\ UNCHANGED <<task, cancel, faults>>

BackoffElapses(o) ==
  /\ row[o].status = "retry_wait" /\ ~row[o].due
  /\ row' = [row EXCEPT ![o].due = TRUE]
  /\ UNCHANGED <<task, cancel, faults>>

-----------------------------------------------------------------------------
(* Executing a claimed operation *)

(* _execute_guarded gets the semaphore and _execute clears the commit mark *)
(* a crashed holder may have left; a failed CAS ends the execution.        *)
StartExecution(o, g) ==
  /\ task[o][g].phase = "claimed"
  /\ Cardinality(TasksOf(task[o][g].worker, LivePhases \ {"claimed"})) < Slots
  /\ IF LeaseCAS(o, g)
     THEN /\ row' = [row EXCEPT ![o].commitStarted = FALSE]
          /\ Step(o, g, "check", "none")
     ELSE Step(o, g, "over", "none") /\ UNCHANGED row
  /\ UNCHANGED <<cancel, faults>>

(* Full-system maintenance: the claim is dropped without any write.        *)
AbandonForMaintenance(o, g) ==
  /\ task[o][g].phase = "claimed"
  /\ Fault
  /\ Step(o, g, "over", "none")
  /\ UNCHANGED <<row, cancel>>

(* The one place where cancel_requested_at is read.                        *)
CheckCancel(o, g) ==
  /\ task[o][g].phase = "check"
  /\ IF row[o].cancelRequested
     THEN Step(o, g, "finish", "cancelled")
     ELSE Step(o, g, "run", "none")
  /\ UNCHANGED <<row, cancel, faults>>

(* The graph returns a result, or raises what classify_failure maps.       *)
GraphEnds(o, g) ==
  /\ task[o][g].phase = "run"
  /\ \E r \in {"succeeded", "needs_review", "dead_letter", "retry"} :
       Step(o, g, "finish", r)
  /\ UNCHANGED <<row, cancel, faults>>

(* commit_plans marks the operation in a transaction of its own; a failed  *)
(* CAS is LeaseFencedError, which ends the execution.                      *)
MarkCommitStarted(o, g) ==
  /\ task[o][g].phase = "run"
  /\ task[o][g].commits < MaxCommits
  /\ IF LeaseCAS(o, g)
     THEN /\ row' = [row EXCEPT ![o].commitStarted = TRUE]
          /\ Step(o, g, "marked", "none")
     ELSE Step(o, g, "over", "none") /\ UNCHANGED row
  /\ UNCHANGED <<cancel, faults>>

(* The commit transaction: it commits, or rolls back with an exception     *)
(* (a version conflict, a missing document, a database error).             *)
CommitTransaction(o, g) ==
  /\ task[o][g].phase = "marked"
  /\ \/ task' = [task EXCEPT ![o][g] =
                   [@ EXCEPT !.phase = "unmark", !.commits = task[o][g].commits + 1]]
     \/ \E r \in {"needs_review", "dead_letter", "retry"} :
          Step(o, g, "unmark", r)
  /\ UNCHANGED <<row, cancel, faults>>

ClearThenFinish(o, g) ==
  /\ task[o][g].phase = "unmark"
  /\ row' = IF LeaseCAS(o, g)
            THEN [row EXCEPT ![o].commitStarted = FALSE]
            ELSE row
  /\ LET r == task[o][g].outcome
     IN Step(o, g, IF r = "none" THEN "run" ELSE "finish", r)
  /\ UNCHANGED <<cancel, faults>>

(* The finally clause of commit_plans.                                     *)
ClearCommitStarted(o, g) ==
  /\ task[o][g].phase = "unmark"
  /\ row' = IF LeaseCAS(o, g)
            THEN [row EXCEPT ![o].commitStarted = FALSE]
            ELSE row
  /\ LET r == task[o][g].outcome
     IN Step(o, g, CASE r = "none" -> "run"
                     [] r = "timeout" -> "over"
                     [] OTHER -> "finish", r)
  /\ UNCHANGED <<cancel, faults>>

(* asyncio.wait_for cancels the graph.  In the commit transaction that     *)
(* rolls it back and the finally clause still runs; in the finally clause  *)
(* it may leave the mark behind.  Nothing is written back.                 *)
HardTimeout(o, g) ==
  /\ task[o][g].phase \in {"run", "marked", "unmark"}
  /\ task[o][g].outcome # "timeout"
  /\ Fault
  /\ \/ task[o][g].phase = "marked" /\ Step(o, g, "unmark", "timeout")
     \/ task[o][g].phase # "marked" /\ Step(o, g, "over", "timeout")
  /\ UNCHANGED <<row, cancel>>

(* A worker process dies; all its executions and heartbeats go with it.    *)
Crash(w) ==
  /\ TasksOf(w, LivePhases) # {}
  /\ Fault
  /\ task' = [o \in Ops |-> [g \in Generations |->
       IF <<o, g>> \in TasksOf(w, LivePhases)
       THEN Ended(task[o][g], "over") ELSE task[o][g]]]
  /\ UNCHANGED <<row, cancel>>

WriteBackUncounted(t) == t.outcome

(* The terminal status a write-back stands for: a retryable failure of the *)
(* last attempt is a dead letter.                                          *)
WriteBack(t) ==
  IF t.outcome = "retry" /\ t.attempt >= MaxAttempts
  THEN "dead_letter" ELSE t.outcome

Completed(r, st) ==
  [r EXCEPT !.status = st, !.lockedBy = NoWorker, !.expired = FALSE,
            !.commitStarted = FALSE]

Rescheduled(r) ==
  [r EXCEPT !.status = "retry_wait", !.due = FALSE, !.lockedBy = NoWorker,
            !.expired = FALSE, !.commitStarted = FALSE]

(* complete_operation, which settles the members in the same transaction,  *)
(* or reschedule_operation; both under the CAS, a late write is dropped.   *)
WriteResult(o, g) ==
  LET st == WriteBack(task[o][g])
  IN /\ task[o][g].phase = "finish"
     /\ IF ~LeaseCAS(o, g)
        THEN Step(o, g, "over", st) /\ UNCHANGED row
        ELSE IF st = "retry"
        THEN /\ row' = [row EXCEPT ![o] = Rescheduled(@)]
             /\ Step(o, g, "over", st)
        ELSE /\ row' = WithMembersSettled(o, Completed(row[o], st), st)
             /\ Step(o, g, "settled", st)
     /\ UNCHANGED <<cancel, faults>>

-----------------------------------------------------------------------------
(* Cancelling *)

(* request_cancel reads the row without locking it ...                     *)
CancelRead(c, o) ==
  /\ cancel[c].phase = "idle"
  /\ cancel' = [cancel EXCEPT ![c] =
       [@ EXCEPT !.phase = "decide", !.op = o, !.status = row[o].status,
                 !.committing = row[o].commitStarted]]
  /\ UNCHANGED <<row, task, faults>>

CancelReply(c, reply) ==
  cancel' = [cancel EXCEPT ![c] = [@ EXCEPT !.phase = "done", !.reply = reply]]

(* ... and then updates it by operation_id alone, for the status it read.  *)
(* An operation not yet running, or waiting for review, is cancelled and   *)
(* its members go back to the pool in the same transaction.                *)
CancelNow(c) ==
  LET o == cancel[c].op
  IN /\ cancel[c].phase = "decide"
     /\ cancel[c].status \in {"queued", "retry_wait", "pending_batch",
                              "needs_review"}
     /\ row' = WithMembersSettled(o,
          IF cancel[c].status = "needs_review"
          THEN [row[o] EXCEPT !.status = "cancelled"]
          ELSE [row[o] EXCEPT !.status = "cancelled", !.lockedBy = NoWorker,
                              !.expired = FALSE],
          "cancelled")
     /\ CancelReply(c, "ok")
     /\ UNCHANGED <<task, faults>>

CancelCooperatively(c) ==
  /\ cancel[c].phase = "decide"
  /\ cancel[c].status = "running" /\ ~cancel[c].committing
  /\ row' = [row EXCEPT ![cancel[c].op].cancelRequested = TRUE]
  /\ CancelReply(c, "ok")
  /\ UNCHANGED <<task, faults>>

(* 409: the operation is in its commit, or already final.                  *)
CancelRefused(c) ==
  /\ cancel[c].phase = "decide"
  /\ \/ cancel[c].status = "running" /\ cancel[c].committing
     \/ cancel[c].status \in {"succeeded", "dead_letter", "cancelled"}
  /\ CancelReply(c, "conflict")
  /\ UNCHANGED <<row, task, faults>>

-----------------------------------------------------------------------------

ExecutionStep(o, g) ==
  \/ StartExecution(o, g)
  \/ CheckCancel(o, g)
  \/ GraphEnds(o, g)
  \/ MarkCommitStarted(o, g)
  \/ CommitTransaction(o, g)
  \/ ClearCommitStarted(o, g)
  \/ WriteResult(o, g)

Next ==
  \/ \E w \in Workers, S \in SUBSET Ops : ClaimOperations(w, S)
  \/ \E w \in Gateways, o \in Ops : ClaimFastPath(w, o)
  \/ \E w \in Holders : Crash(w)
  \/ \E o \in Ops : LeaseExpires(o) \/ BackoffElapses(o)
  \/ RecoverExpiredLeases
  \/ \E o \in Ops, g \in Generations :
       \/ Heartbeat(o, g)
       \/ ExecutionStep(o, g)
       \/ AbandonForMaintenance(o, g)
       \/ HardTimeout(o, g)
  \/ \E c \in Clients, o \in Ops : CancelRead(c, o)
  \/ \E c \in Clients :
       CancelNow(c) \/ CancelCooperatively(c) \/ CancelRefused(c)

Spec == Init /\ [][Next]_vars

(* Every process keeps running: a worker polls once a second, the          *)
(* scheduler sweeps every 30 seconds, a live execution keeps stepping (the *)
(* hard timeout bounds the graph) and the clock passes every lease that is *)
(* no longer renewed and every backoff.  Clients, crashes and timeouts owe *)
(* nothing.                                                                *)
FairSpec ==
  /\ Spec
  /\ WF_vars(\E w \in Workers, S \in SUBSET Ops : ClaimOperations(w, S))
  /\ WF_vars(RecoverExpiredLeases)
  /\ \A o \in Ops :
       /\ WF_vars(LeaseExpires(o) /\ UNCHANGED faults)
       /\ WF_vars(BackoffElapses(o))
       /\ \A g \in Generations : WF_vars(ExecutionStep(o, g))

-----------------------------------------------------------------------------
(* Properties *)

(* The commit mark protects the holder: while the execution that holds the *)
(* lease is inside commit_plans, commit_started_at is set, so a cancel     *)
(* that looks at the row is refused.  What could break it is the late      *)
(* clear_commit_started of an execution that lost its lease, even one of   *)
(* the same worker.                                                        *)
HolderInCommit(o, g) ==
  /\ row[o].status = "running" /\ row[o].generation = g
  /\ task[o][g].phase \in {"marked", "unmark"}

MarkProtectsHolder ==
  \A o \in Ops, g \in Generations :
    HolderInCommit(o, g) => row[o].commitStarted

(* A terminal status that an execution wrote is the work of the last claim *)
(* of the operation, and no operation is claimed again once settled: an    *)
(* execution that lost its lease never decides the result.                 *)
ResultFromLastClaim ==
  \A o \in Ops, g \in Generations :
    task[o][g].phase = "settled" =>
      row[o].generation = g /\ row[o].status \in TERMINAL_STATUSES

(* No evidence is stranded: a member that still waits in a batch belongs   *)
(* to a batch that can still settle it (the case request_cancel's          *)
(* docstring describes).                                                   *)
NoStrandedMember ==
  \A m \in Ops :
    row[m].status = "pending_batch" /\ row[m].batch # NoOp =>
      row[row[m].batch].status \notin TERMINAL_STATUSES

(* Settled stays settled: recovery, a late reschedule or a late result     *)
(* never puts an operation back to work; only a cancel may still replace a *)
(* terminal status.                                                        *)
SettledStaysSettled ==
  [][\A o \in Ops : row[o].status \in TERMINAL_STATUSES =>
       row'[o].status \in {row[o].status, "cancelled"}]_vars

(* A claim beyond the attempt budget is paid for by a fault: the retries an *)
(* execution asks for never exceed max_attempts, although recovery does    *)
(* not look at the attempt count, a late write may race the next claim and *)
(* a timeout writes nothing back.                                          *)
ClaimsPaidFor == \A o \in Ops : row[o].generation <= MaxAttempts + faults

(* What the contract sees of the table.                                    *)
OpState ==
  [o \in Ops |-> CASE row[o].status \in {"queued", "retry_wait"} -> "ready"
                   [] row[o].status = "running" -> "active"
                   [] row[o].status = "pending_batch" -> "member"
                   [] OTHER -> row[o].status]
OpClaims == [o \in Ops |-> row[o].generation]
OpBatch == [o \in Ops |-> row[o].batch]
OpDecidedBy == [o \in Ops |-> {g \in Generations : task[o][g].phase = "settled"}]

Contract == INSTANCE OperationContract WITH
  state <- OpState, claims <- OpClaims, batch <- OpBatch, decidedBy <- OpDecidedBy

(* The queue implements the contract it offers: recovery, a late           *)
(* reschedule, a late result and a cancel that decides on an old read      *)
(* included, every step is a taking, a giving back, a decision by the      *)
(* claim in force (with its members, at once), a cancel or no step.        *)
FollowsContract == Contract!ContractSpec

(* Every operation is settled in the end, or is evidence waiting in the    *)
(* pool for a batch: nothing stays running or scheduled for ever after     *)
(* finitely many crashes, timeouts and lost leases.                        *)
EventuallySettled ==
  \A o \in Ops : <>[](\/ row[o].status \in TERMINAL_STATUSES
                      \/ row[o].status = "pending_batch" /\ row[o].batch = NoOp)

(* The inductive invariant behind the three invariants above.              *)
RowsAgree ==
  \A o \in Ops :
    /\ row[o].attempts = row[o].generation
    /\ row[o].batch # NoOp => row[row[o].batch].batch = NoOp

TasksAgree ==
  \A o \in Ops, g \in Generations :
    /\ g > row[o].generation => task[o][g].phase = "none"
    /\ task[o][g].phase = "finish" => task[o][g].outcome \notin {"none", "timeout"}
    /\ task[o][g].phase = "marked" => task[o][g].commits < MaxCommits

CancelsAgree == \A c \in Clients : cancel[c].phase = "decide" => cancel[c].op \in Ops

IInv ==
  /\ TypeOK
  /\ RowsAgree
  /\ TasksAgree
  /\ CancelsAgree
  /\ MarkProtectsHolder
  /\ ResultFromLastClaim
  /\ NoStrandedMember

(* The invariant behind ClaimsPaidFor: while nobody executes an operation  *)
(* as its holder, or the holder's end is already due to a fault, one more  *)
(* claim is still paid for.                                                *)
HoldersAgree ==
  \A o \in Ops, g \in Generations : Live(task[o][g]) =>
    /\ task[o][g].attempt = g
    /\ row[o].status = "running" /\ row[o].generation = g =>
         row[o].lockedBy = task[o][g].worker

HolderLost(o) ==
  \A g \in Generations : row[o].generation = g =>
    ~Live(task[o][g]) \/ task[o][g].outcome = "timeout"

ToBeClaimed(o) ==
  \/ row[o].status \in {"queued", "retry_wait"}
  \/ row[o].status = "running" /\ (row[o].expired \/ HolderLost(o))

NextClaimPaidFor ==
  \A o \in Ops : ToBeClaimed(o) => row[o].generation < MaxAttempts + faults

PaidInv == HoldersAgree /\ ClaimsPaidFor /\ NextClaimPaidFor

(* What a document says and the code does not keep.                        *)

(* execution spec 11.6: an operation that has entered its commit may not   *)
(* be cancelled, so nothing is committed for a cancelled operation.        *)
CancelledNeverCommits ==
  [][\A o \in Ops : row[o].status = "cancelled" =>
       \A g \in Generations : task'[o][g].commits = task[o][g].commits]_vars
=============================================================================
