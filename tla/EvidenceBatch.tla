---------------------------- MODULE EvidenceBatch ----------------------------
(***************************************************************************)
(* The evidence pool of one user and the nightly batch that empties it.    *)
(* Evidence operations wait as "pending_batch"; the scheduler (a single    *)
(* one, it holds an advisory lock) collects the due ones into a batch      *)
(* operation, under a maintenance run that is unique per day; a worker     *)
(* executes the batch member by member, releases the members that failed   *)
(* and settles the others with the batch.                                  *)
(*                                                                         *)
(* The lease of the batch operation is abstracted to what MemoryOperations *)
(* shows of it: a generation per claim, a CAS on every write of the        *)
(* operation row, and executions that live on after they lost the lease.   *)
(* next_run_at is a stamp of the logical clock that gives evidence its     *)
(* order; the contents of memories are left out, a commit is a row of      *)
(* memory_commits for the member.                                          *)
(***************************************************************************)
EXTENDS Naturals, FiniteSets

CONSTANTS
  NMembers,       \* evidence operations are numbered in the order of creation
  Batches,        \* ids of batch operations
  NoBatch,        \* batch_operation_id IS NULL
  NoMember,       \* batch_selected is empty
  Clients,        \* cancel requests for evidence or for a batch
  BatchMax,       \* memory_summary_batch_max_evidence
  MemberAttempts, \* max_attempts of an evidence operation
  BatchAttempts,  \* max_attempts of a batch operation
  MaxGeneration,  \* bound: claims of one batch operation
  MaxFaults,      \* bound: lost leases and crashes
  MaxReleaseFaults \* bound: failing release transactions

Members == 1..NMembers
Generations == 1..MaxGeneration

ASSUME EvidenceAssumption ==
  /\ NMembers \in Nat \ {0} /\ BatchMax \in Nat \ {0}
  /\ MemberAttempts \in Nat \ {0} /\ BatchAttempts \in Nat \ {0}
  /\ MaxGeneration \in Nat \ {0} /\ MaxFaults \in Nat /\ MaxReleaseFaults \in Nat
  /\ NoBatch \notin Batches /\ NoMember \notin Members
  /\ Members \intersect Batches = {}

(* How often the clock moves: every member becomes due once and is         *)
(* released fewer than MemberAttempts times.                               *)
MaxClock == NMembers * MemberAttempts

Terminal == {"succeeded", "needs_review", "dead_letter", "cancelled"}

VARIABLES
  ev,        \* evidence rows
  bop,       \* batch operation rows
  exec,      \* exec[b][g]: the execution of the g-th claim of b
  run,       \* today's row of memory_maintenance_runs
  sched,     \* the scheduler's transaction and its next due time
  cancel,    \* cancel requests
  clock,     \* the last stamp given
  committed, \* committed[m]: rows of memory_commits for m
  faults

vars == <<ev, bop, exec, run, sched, cancel, clock, committed, faults>>

Evidence ==
  [status : {"absent", "pending_batch", "succeeded", "dead_letter", "cancelled"},
   eligible : 0..MaxClock, attempts : 0..MemberAttempts,
   batch : Batches \union {NoBatch},
   \* history: an execution came to a conclusion about this evidence, or left
   \* it to a human
   concluded : BOOLEAN]

BatchRow ==
  [status : {"absent", "queued", "running", "retry_wait"} \union Terminal,
   generation : 0..MaxGeneration, cancelRequested : BOOLEAN]

(* State of the batch graph: batch_selected, the members still to do, and  *)
(* what the processed ones add up to.                                      *)
Exec ==
  [phase : {"none", "start", "load", "loop", "member", "marked", "finish", "over"},
   cur : Members \union {NoMember}, todo : SUBSET Members,
   failed : SUBSET Members,            \* batch_failed, the releasable entries
   wrote : BOOLEAN, reviews : BOOLEAN, \* mutations / review ids in batch_processed
   lost : BOOLEAN,                     \* batch_failed is not empty
   outcome : {"none", "succeeded", "needs_review", "dead_letter", "retry", "cancelled"}]

NoCursor == <<0, 0>>

Run ==
  [status : {"none", "queued", "running", "succeeded", "failed"},
   op : Batches \union {NoBatch},
   cursor : (0..MaxClock) \X (0..NMembers)]

TypeOK ==
  /\ ev \in [Members -> Evidence]
  /\ bop \in [Batches -> BatchRow]
  /\ exec \in [Batches -> [Generations -> Exec]]
  /\ run \in Run
  /\ sched \in [phase : {"idle", "assign"}, chosen : SUBSET Members]
  /\ cancel \in [Clients -> [phase : {"idle", "decide", "done"},
                             target : Members \union Batches \union {NoBatch},
                             now : BOOLEAN]]
  /\ clock \in 0..MaxClock
  /\ committed \in [Members -> Nat]
  /\ faults \in [lease : 0..MaxFaults, release : 0..MaxReleaseFaults]

NoExec ==
  [phase |-> "none", cur |-> NoMember, todo |-> {}, failed |-> {},
   wrote |-> FALSE, reviews |-> FALSE, lost |-> FALSE, outcome |-> "none"]

Idle == [phase |-> "idle", chosen |-> {}]

NoRun == [status |-> "none", op |-> NoBatch, cursor |-> NoCursor]

Init ==
  /\ ev = [m \in Members |->
       [status |-> "absent", eligible |-> 0, attempts |-> 0,
        batch |-> NoBatch, concluded |-> FALSE]]
  /\ bop = [b \in Batches |->
       [status |-> "absent", generation |-> 0, cancelRequested |-> FALSE]]
  /\ exec = [b \in Batches |-> [g \in Generations |-> NoExec]]
  /\ run = NoRun
  /\ sched = Idle
  /\ cancel = [c \in Clients |-> [phase |-> "idle", target |-> NoBatch, now |-> FALSE]]
  /\ clock = 0
  /\ committed = [m \in Members |-> 0]
  /\ faults = [lease |-> 0, release |-> 0]

-----------------------------------------------------------------------------
(* The pool *)

(* Evidence is submitted as pending_batch, in the order of its numbers.    *)
Submit(m) ==
  /\ ev[m].status = "absent"
  /\ \A n \in Members : n < m => ev[n].status # "absent"
  /\ ev' = [ev EXCEPT ![m].status = "pending_batch"]
  /\ UNCHANGED <<bop, exec, run, sched, cancel, clock, committed, faults>>

(* next_run_at <= now() becomes true.                                      *)
BecomeDue(m) ==
  /\ ev[m].status = "pending_batch" /\ ev[m].eligible = 0
  /\ ev' = [ev EXCEPT ![m].eligible = clock + 1]
  /\ clock' = clock + 1
  /\ UNCHANGED <<bop, exec, run, sched, cancel, committed, faults>>

InPool(m) ==
  ev[m].status = "pending_batch" /\ ev[m].eligible > 0 /\ ev[m].batch = NoBatch

Pool == {m \in Members : InPool(m)}

Position(m) == <<ev[m].eligible, m>>
Before(p, q) == p[1] < q[1] \/ (p[1] = q[1] /\ p[2] < q[2])

(* list_pending_batch_members: the first BatchMax of the pool after the    *)
(* cursor, by (next_run_at, created_at, operation_id).                     *)
PendingMembers(cursor) ==
  LET after == {m \in Pool : Before(cursor, Position(m))}
  IN {m \in after :
        Cardinality({n \in after : Before(Position(n), Position(m))}) < BatchMax}

-----------------------------------------------------------------------------
(* The scheduler's nightly task *)

OpTerminal(b) == b # NoBatch => bop[b].status \in Terminal

(* create_or_reuse_run                                                     *)
TodaysRun == IF run.status = "none" THEN [run EXCEPT !.status = "queued"] ELSE run

(* _resolve_run_batch_state, for a run that is there                       *)
Resolve(r) ==
  CASE r.status \in {"succeeded", "failed"} -> "done"
    [] r.op = NoBatch -> "continue"
    [] bop[r.op].status \notin Terminal -> "waiting"
    [] bop[r.op].status # "succeeded" \/ r.status = "queued" -> "failed"
    [] OTHER -> "continue"

SweepIgnoringOp(r, pool) ==
  IF r.status = "running" /\ pool = {}
  THEN [r EXCEPT !.status = "succeeded"] ELSE r

(* _sweep_batch_runs, at the end of the same transaction: today's run is   *)
(* closed when its batch is terminal and the pool has nothing due.         *)
Sweep(r, pool) ==
  IF r.status = "running" /\ OpTerminal(r.op) /\ pool = {}
  THEN [r EXCEPT !.status = "succeeded"] ELSE r

(* A tick that creates no batch: no user has due evidence, or the run is   *)
(* done, waits for its batch, has failed, or finds nothing after its       *)
(* cursor.                                                                 *)
TickWithoutBatch ==
  LET r == TodaysRun
      state == Resolve(r)
  IN /\ sched.phase = "idle"
     /\ IF Pool = {}
        THEN run' = Sweep(run, Pool)
        ELSE /\ state = "continue" => PendingMembers(r.cursor) = {}
             /\ run' = Sweep(CASE state = "failed" -> [r EXCEPT !.status = "failed"]
                               [] state = "continue" -> [r EXCEPT !.status = "succeeded"]
                               [] OTHER -> r, Pool)
     /\ UNCHANGED <<ev, bop, exec, sched, cancel, clock, committed, faults>>

(* The tick reads the members of the next batch ...                        *)
SelectMembers ==
  /\ sched.phase = "idle"
  /\ Pool # {}
  /\ Resolve(TodaysRun) = "continue"
  /\ PendingMembers(TodaysRun.cursor) # {}
  /\ sched' = [phase |-> "assign", chosen |-> PendingMembers(TodaysRun.cursor)]
  /\ UNCHANGED <<ev, bop, exec, run, cancel, clock, committed, faults>>

AllChosen == sched.chosen

(* assign_batch_members takes those that are still in the pool.            *)
Assigned == sched.chosen \intersect Pool

(* ... and creates the batch with them.  When there is none, the batch is  *)
(* cancelled and the run stays as it was.                                  *)
CreateBatch(b) ==
  LET members == Assigned
      last == CHOOSE m \in sched.chosen :
                \A n \in sched.chosen \ {m} : Before(Position(n), Position(m))
      left == Pool \ members
      created == [TodaysRun EXCEPT !.status = "running", !.op = b,
                                   !.cursor = Position(last)]
  IN /\ sched.phase = "assign"
     /\ bop[b].status = "absent"
     /\ IF members = {}
        THEN /\ bop' = [bop EXCEPT ![b].status = "cancelled"]
             /\ run' = Sweep(TodaysRun, left)
             /\ UNCHANGED ev
        ELSE /\ bop' = [bop EXCEPT ![b].status = "queued"]
             /\ run' = created
             /\ ev' = [m \in Members |->
                         IF m \in members THEN [ev[m] EXCEPT !.batch = b] ELSE ev[m]]
     /\ sched' = Idle
     /\ UNCHANGED <<exec, cancel, clock, committed, faults>>

(* The daily gate: the task works under a new run.                         *)
NextDay ==
  /\ sched.phase = "idle" /\ run # NoRun
  /\ run' = NoRun
  /\ UNCHANGED <<ev, bop, exec, sched, cancel, clock, committed, faults>>

-----------------------------------------------------------------------------
(* Executing a batch *)

LeaseCAS(b, g) == bop[b].status = "running" /\ bop[b].generation = g

(* Members are processed in the order of the pool.                         *)
IsFirst(m, S) == m \in S /\ \A n \in S \ {m} : Before(Position(m), Position(n))

Alive(x) == x.phase \notin {"none", "over"}

Become(b, g, x) == exec' = [exec EXCEPT ![b][g] = x]
Over(b, g) == Become(b, g, [NoExec EXCEPT !.phase = "over"])
Finish(b, g, outcome) ==
  Become(b, g, [NoExec EXCEPT !.phase = "finish", !.outcome = outcome])

LeaseFault == faults.lease < MaxFaults /\ faults' = [faults EXCEPT !.lease = @ + 1]

ClaimBatch(b) ==
  /\ bop[b].status \in {"queued", "retry_wait"}
  /\ bop[b].generation < MaxGeneration
  /\ bop' = [bop EXCEPT ![b].status = "running", ![b].generation = @ + 1]
  /\ Become(b, bop[b].generation + 1, [NoExec EXCEPT !.phase = "start"])
  /\ UNCHANGED <<ev, run, sched, cancel, clock, committed, faults>>

(* The lease expires under a live execution, which does not notice.        *)
LoseLease(b) ==
  /\ bop[b].status = "running"
  /\ LeaseFault
  /\ bop' = [bop EXCEPT ![b].status = "retry_wait"]
  /\ UNCHANGED <<ev, exec, run, sched, cancel, clock, committed>>

(* A crash or a hard timeout ends an execution; its lease is recovered.    *)
ExecutionDies(b, g) ==
  /\ Alive(exec[b][g])
  /\ LeaseFault
  /\ Over(b, g)
  /\ UNCHANGED <<ev, bop, run, sched, cancel, clock, committed>>

RecoverLease(b) ==
  /\ bop[b].status = "running" /\ ~Alive(exec[b][bop[b].generation])
  /\ bop' = [bop EXCEPT ![b].status = "retry_wait"]
  /\ UNCHANGED <<ev, exec, run, sched, cancel, clock, committed, faults>>

(* The worker clears the commit mark under the CAS and looks once at       *)
(* cancel_requested_at.                                                    *)
StartBatch(b, g) ==
  /\ exec[b][g].phase = "start"
  /\ CASE ~LeaseCAS(b, g) -> Over(b, g)
       [] bop[b].cancelRequested -> Finish(b, g, "cancelled")
       [] OTHER -> Become(b, g, [exec[b][g] EXCEPT !.phase = "load"])
  /\ UNCHANGED <<ev, bop, run, sched, cancel, clock, committed, faults>>

(* load_batch_members: the members that are still pending, read once.      *)
LoadBatchMembers(b, g) ==
  /\ exec[b][g].phase = "load"
  /\ Become(b, g, [exec[b][g] EXCEPT !.phase = "loop",
                     !.todo = {m \in Members : ev[m].batch = b
                                               /\ ev[m].status = "pending_batch"}])
  /\ UNCHANGED <<ev, bop, run, sched, cancel, clock, committed, faults>>

(* begin_batch_member: a member with a row in memory_commits is skipped.   *)
BeginWithoutCheck(b, g, m) ==
  LET x == exec[b][g]
  IN /\ x.phase = "loop" /\ IsFirst(m, x.todo)
     /\ Become(b, g, [x EXCEPT !.phase = "member", !.cur = m, !.todo = @ \ {m}])
     /\ UNCHANGED <<ev, bop, run, sched, cancel, clock, committed, faults>>

BeginBatchMember(b, g, m) ==
  LET x == exec[b][g]
  IN /\ x.phase = "loop" /\ IsFirst(m, x.todo)
     /\ IF committed[m] > 0
        THEN /\ Become(b, g, [x EXCEPT !.todo = @ \ {m}])
             /\ ev' = [ev EXCEPT ![m].concluded = TRUE]
        ELSE /\ Become(b, g, [x EXCEPT !.phase = "member", !.cur = m, !.todo = @ \ {m}])
             /\ UNCHANGED ev
     /\ UNCHANGED <<bop, run, sched, cancel, clock, committed, faults>>

ErrorsAreNoChange(x, outcome) ==
  [x EXCEPT !.phase = "loop", !.cur = NoMember,
            !.failed = IF outcome = "failed" THEN @ \union {x.cur} ELSE @,
            !.reviews = @ \/ outcome = "needs_review",
            !.lost = @ \/ outcome \in {"failed", "needs_review"}]

(* record_batch_member's truth table: what the outcome of the current      *)
(* member adds to the batch.  "failed" and "errors_only" are releasable.   *)
Recorded(x, outcome) ==
  [x EXCEPT !.phase = "loop", !.cur = NoMember,
            !.failed = IF outcome \in {"failed", "errors_only"}
                       THEN @ \union {x.cur} ELSE @,
            !.reviews = @ \/ outcome = "needs_review",
            !.lost = @ \/ outcome \in {"failed", "errors_only", "needs_review"}]

Concluded(m, outcome) ==
  ev' = IF outcome \in {"failed", "errors_only"} THEN ev
        ELSE [ev EXCEPT ![m].concluded = TRUE]

(* The member's chain of nodes ends without a commit ...                   *)
MemberWritesNothing(b, g) ==
  /\ exec[b][g].phase = "member"
  /\ \E outcome \in {"no_change", "needs_review", "failed", "errors_only"} :
       /\ Become(b, g, Recorded(exec[b][g], outcome))
       /\ Concluded(exec[b][g].cur, outcome)
  /\ UNCHANGED <<bop, run, sched, cancel, clock, committed, faults>>

(* ... or marks the batch operation, under the CAS, and commits.           *)
MarkCommit(b, g) ==
  /\ exec[b][g].phase = "member"
  /\ IF LeaseCAS(b, g)
     THEN Become(b, g, [exec[b][g] EXCEPT !.phase = "marked"])
     ELSE Over(b, g)
  /\ UNCHANGED <<ev, bop, run, sched, cancel, clock, committed, faults>>

(* The commit transaction of the member.  It rolls back, or what comes     *)
(* after it in the node fails, and that fails the member or the batch; the *)
(* mutations of a commit whose node failed are not in batch_processed.     *)
CommitMember(b, g) ==
  LET x == exec[b][g]
      m == x.cur
  IN /\ x.phase = "marked"
     /\ \E rows \in {0, 1} :
          /\ committed' = [committed EXCEPT ![m] = @ + rows]
          /\ \/ /\ rows = 1
                /\ Become(b, g, [Recorded(x, "succeeded") EXCEPT !.wrote = TRUE])
                /\ Concluded(m, "succeeded")
             \/ Become(b, g, Recorded(x, "failed")) /\ Concluded(m, "failed")
             \/ Finish(b, g, "retry") /\ UNCHANGED ev
     /\ UNCHANGED <<bop, run, sched, cancel, clock, faults>>

(* A node of the graph raises what the guard of the member nodes lets      *)
(* through, or one of the unguarded nodes does: the environment failed.    *)
GraphFails(b, g) ==
  /\ exec[b][g].phase \in {"load", "loop", "member"}
  /\ Finish(b, g, "retry")
  /\ UNCHANGED <<ev, bop, run, sched, cancel, clock, committed, faults>>

(* What release_batch_member does to a row.  It asks for some batch, not   *)
(* for this one.                                                           *)
ReleasedForEver(r, stamp) ==
  IF r.status = "pending_batch" /\ r.batch # NoBatch
  THEN [r EXCEPT !.attempts = @ + 1, !.batch = NoBatch, !.eligible = stamp]
  ELSE r

Released(r, stamp) ==
  IF r.status = "pending_batch" /\ r.batch # NoBatch
  THEN IF r.attempts + 1 >= MemberAttempts
       THEN [r EXCEPT !.attempts = @ + 1, !.status = "dead_letter"]
       ELSE [r EXCEPT !.attempts = @ + 1, !.batch = NoBatch, !.eligible = stamp]
  ELSE r

(* finalize_batch_result, when all members are done, releases the failed   *)
(* ones: a transaction each; one that fails is only logged.                *)
ReleaseBatchMember(b, g, m) ==
  LET x == exec[b][g]
      r == Released(ev[m], clock + 1)
  IN /\ x.phase = "loop" /\ x.todo = {} /\ m \in x.failed
     /\ Become(b, g, [x EXCEPT !.failed = @ \ {m}])
     /\ \/ /\ ev' = [ev EXCEPT ![m] = r]
           /\ clock' = IF r.eligible = ev[m].eligible THEN clock ELSE clock + 1
           /\ UNCHANGED faults
        \/ /\ faults.release < MaxReleaseFaults
           /\ faults' = [faults EXCEPT !.release = @ + 1]
           /\ UNCHANGED <<ev, clock>>
     /\ UNCHANGED <<bop, run, sched, cancel, committed>>

(* Its verdict, and normalize_result: nothing written, no review           *)
(* and a failure is BatchAllMembersFailedError, a dead letter.             *)
FinalizeBatch(b, g) ==
  LET x == exec[b][g]
  IN /\ x.phase = "loop" /\ x.todo = {} /\ x.failed = {}
     /\ Finish(b, g, CASE x.wrote -> "succeeded"
                       [] ~x.wrote /\ x.reviews -> "needs_review"
                       [] ~x.wrote /\ ~x.reviews /\ x.lost -> "dead_letter"
                       [] OTHER -> "succeeded")
     /\ UNCHANGED <<ev, bop, run, sched, cancel, clock, committed, faults>>

SettleOnlySucceeded(r, b, st) ==
  IF r.batch = b /\ r.status = "pending_batch" /\ st = "succeeded"
  THEN [r EXCEPT !.status = "succeeded"] ELSE r

(* settle_batch_members for a batch that became st                         *)
Settled(r, b, st) ==
  IF r.batch = b /\ r.status = "pending_batch"
  THEN CASE st = "cancelled" -> [r EXCEPT !.batch = NoBatch]
         [] st = "succeeded" -> [r EXCEPT !.status = "succeeded"]
         [] st \in {"dead_letter", "needs_review"} -> [r EXCEPT !.status = "dead_letter"]
         [] OTHER -> r
  ELSE r

SettleMembers(b, st) == ev' = [m \in Members |-> Settled(ev[m], b, st)]

(* complete_operation or reschedule_operation of the batch; a retryable    *)
(* failure of the last attempt is a dead letter.                           *)
WriteResult(b, g) ==
  LET st == IF exec[b][g].outcome = "retry" /\ g >= BatchAttempts
            THEN "dead_letter" ELSE exec[b][g].outcome
  IN /\ exec[b][g].phase = "finish"
     /\ Over(b, g)
     /\ IF ~LeaseCAS(b, g)
        THEN UNCHANGED <<ev, bop>>
        ELSE IF st = "retry"
        THEN bop' = [bop EXCEPT ![b].status = "retry_wait"] /\ UNCHANGED ev
        ELSE bop' = [bop EXCEPT ![b].status = st] /\ SettleMembers(b, st)
     /\ UNCHANGED <<run, sched, cancel, clock, committed, faults>>

-----------------------------------------------------------------------------
(* Cancelling evidence or a batch: request_cancel reads without a lock ... *)

CancelRead(c, t) ==
  LET status == IF t \in Members THEN ev[t].status ELSE bop[t].status
  IN /\ cancel[c].phase = "idle"
     /\ status \notin {"absent", "succeeded", "dead_letter", "cancelled"}
     /\ cancel' = [cancel EXCEPT ![c] =
          [phase |-> "decide", target |-> t, now |-> status # "running"]]
     /\ UNCHANGED <<ev, bop, exec, run, sched, clock, committed, faults>>

(* ... and writes for the status it read: evidence keeps its batch, a      *)
(* batch gives its members back, a running batch is only asked to stop.    *)
CancelWrite(c) ==
  LET t == cancel[c].target
  IN /\ cancel[c].phase = "decide"
     /\ CASE t \in Members ->
               /\ ev' = [ev EXCEPT ![t].status = "cancelled"]
               /\ UNCHANGED bop
          [] t \notin Members /\ cancel[c].now ->
               /\ bop' = [bop EXCEPT ![t].status = "cancelled"]
               /\ SettleMembers(t, "cancelled")
          [] OTHER ->
               /\ bop' = [bop EXCEPT ![t].cancelRequested = TRUE]
               /\ UNCHANGED ev
     /\ cancel' = [cancel EXCEPT ![c] = [phase |-> "done", target |-> NoBatch, now |-> FALSE]]
     /\ UNCHANGED <<exec, run, sched, clock, committed, faults>>

-----------------------------------------------------------------------------

ExecStep(b, g) ==
  \/ StartBatch(b, g) \/ LoadBatchMembers(b, g)
  \/ \E m \in Members : BeginBatchMember(b, g, m)
  \/ MemberWritesNothing(b, g) \/ GraphFails(b, g)
  \/ MarkCommit(b, g) \/ CommitMember(b, g)
  \/ \E m \in Members : ReleaseBatchMember(b, g, m)
  \/ FinalizeBatch(b, g) \/ WriteResult(b, g)

Tick == TickWithoutBatch \/ SelectMembers \/ \E b \in Batches : CreateBatch(b)

Next ==
  \/ \E m \in Members : Submit(m) \/ BecomeDue(m)
  \/ Tick \/ NextDay
  \/ \E b \in Batches : ClaimBatch(b) \/ LoseLease(b) \/ RecoverLease(b)
  \/ \E b \in Batches, g \in Generations : ExecStep(b, g) \/ ExecutionDies(b, g)
  \/ \E c \in Clients, t \in Members \union Batches : CancelRead(c, t)
  \/ \E c \in Clients : CancelWrite(c)

Spec == Init /\ [][Next]_vars

(* Time passes, the scheduler ticks while its task is due, workers claim   *)
(* and execute, expired leases are recovered.  Nobody has to submit or     *)
(* cancel, and nothing has to fail.                                        *)
FairSpec ==
  /\ Spec
  /\ \A m \in Members : WF_vars(BecomeDue(m))
  /\ WF_vars(Tick) /\ WF_vars(NextDay)
  /\ \A b \in Batches :
       /\ WF_vars(ClaimBatch(b)) /\ WF_vars(RecoverLease(b))
       /\ \A g \in Generations : WF_vars(ExecStep(b, g))
-----------------------------------------------------------------------------
(* Properties *)

(* The lifecycle an evidence row is promised, whatever the scheduler, the  *)
(* workers and the clients do: EvidenceLifecycle.                          *)
Lifecycle ==
  INSTANCE EvidenceLifecycle WITH
    status <- [m \in Members |-> ev[m].status],
    batch <- [m \in Members |-> ev[m].batch]

FollowsLifecycle == Lifecycle!Spec

(* Evidence that waits in a batch waits for one that is still going to     *)
(* settle it.                                                              *)
MembersWaitForLiveBatch ==
  \A m \in Members :
    ev[m].status = "pending_batch" /\ ev[m].batch # NoBatch =>
      bop[ev[m].batch].status \in {"queued", "running", "retry_wait"}

(* No evidence is lost: evidence that ends as succeeded was written, found *)
(* to change nothing, or left to a human; one that failed in every         *)
(* execution is never settled with the rest of its batch.                  *)
SucceededWasConcluded ==
  \A m \in Members : ev[m].status = "succeeded" => ev[m].concluded

(* The day's run is closed as succeeded only when its batch is final and   *)
(* no due evidence after its cursor is left: the scheduler never breaks    *)
(* off a user with more than one batch of evidence.                        *)
RunClosesWhenDone ==
  [][run'.status = "succeeded" /\ run.status # "succeeded" =>
       /\ OpTerminal(run'.op)
       /\ \A m \in Pool : ~Before(run'.cursor, Position(m))]_vars

(* Evidence does not stay in the pool for ever: it is settled in the end,  *)
(* over as many days and batches as its failures take.                     *)
EvidenceSettles ==
  \A m \in Members :
    ev[m].status = "pending_batch" ~>
      ev[m].status \in {"succeeded", "dead_letter", "cancelled"}

(* Re-running is safe as long as executions do not overlap: while no lease *)
(* was lost and nothing was cancelled, evidence is written once, over all  *)
(* its releases, batches and retries.                                      *)
Undisturbed == faults.lease = 0 /\ \A c \in Clients : cancel[c].phase = "idle"

WrittenOnce == Undisturbed => \A m \in Members : committed[m] <= 1

(* Evidence is written once, and once more at most for every lease that    *)
(* was lost and every cancel that was carried out, over all its releases,  *)
(* batches and retries: nothing but these lets two executions have the     *)
(* same evidence at hand, and begin_batch_member looks at memory_commits.  *)
CarriedOut == {c \in Clients : cancel[c].phase = "done"}

Disturbances == faults.lease + Cardinality(CarriedOut)

WrittenBounded == \A m \in Members : committed[m] <= 1 + Disturbances

(* The invariant behind it.  An execution that may still write m is        *)
(* rightful while its claim is in force and m waits in its batch; there is *)
(* one at a time, the others are strays, and each stray was caused by a    *)
(* disturbance of its own.                                                 *)
Waits(r, b) == r.status = "pending_batch" /\ r.batch = b

AtHand(x) ==
  x.todo \union x.failed \union (IF x.phase \in {"member", "marked"} THEN {x.cur} ELSE {})

MayWrite(x, m) == Alive(x) /\ (x.phase = "load" \/ m \in AtHand(x))

Rightful(b, g, m) ==
  LeaseCAS(b, g) /\ (exec[b][g].phase = "load" \/ Waits(ev[m], b))

Stray(b, g, m) == MayWrite(exec[b][g], m) /\ ~Rightful(b, g, m)

AtWork(x, m) == x.phase \in {"member", "marked"} /\ x.cur = m

Strays(m) == {bg \in Batches \X Generations : Stray(bg[1], bg[2], m)}

Writing(m) == {bg \in Batches \X Generations : AtWork(exec[bg[1]][bg[2]], m)}

PaidFor(m) ==
  /\ IsFiniteSet(Strays(m)) /\ Cardinality(Strays(m)) <= Disturbances
  /\ IsFiniteSet(Writing(m))
  /\ committed[m] + Cardinality(Writing(m)) <= 1 + Disturbances

PaidInv == IsFiniteSet(CarriedOut) /\ \A m \in Members : PaidFor(m)

(* A batch that keeps failing is not executed for ever: it is claimed as   *)
(* often as its attempts allow, and once more at most for every lease that *)
(* was lost, of whatever batch.                                            *)
ClaimsBounded == \A b \in Batches : bop[b].generation <= BatchAttempts + faults.lease

(* The invariant behind it: the next claim of a batch that waits for one,  *)
(* or whose execution is gone, is within the budget already.               *)
WaitsForClaim(b) ==
  \/ bop[b].status \in {"queued", "retry_wait"}
  \/ bop[b].status = "running" /\ ~Alive(exec[b][bop[b].generation])

ClaimPaidFor(b) ==
  /\ bop[b].status = "absent" => bop[b].generation = 0
  /\ bop[b].generation <= BatchAttempts + faults.lease
  /\ WaitsForClaim(b) => bop[b].generation + 1 <= BatchAttempts + faults.lease

NextClaimPaidFor == \A b \in Batches : ClaimPaidFor(b)

(* What graph/batch.py says and the code does not keep: members that are   *)
(* committed are not affected by what happens to the rest of their batch.  *)
CommittedNotDeadLettered ==
  \A m \in Members : committed[m] > 0 => ev[m].status # "dead_letter"
=============================================================================
