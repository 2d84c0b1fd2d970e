------------------------------ MODULE StudyPlans ------------------------------
(***************************************************************************)
(* One study plan of one user: its revisions with their tasks, the         *)
(* operations that replan it, the workers that run those one at a time     *)
(* under the lease of the user, and the user, who adjusts the plan, decides *)
(* on proposed revisions, and does, reopens and drops tasks meanwhile.     *)
(*                                                                         *)
(* A task of a revision is one of the items of the plan; copies are counted *)
(* by their status, where "pending" also stands for tasks that are begun   *)
(* or skipped, which a new revision copies as pending.  Dates are left     *)
(* out: whether an adjustment is major is any choice.  Left out too are    *)
(* the operations that make a plan or a feed, and tasks added from a feed. *)
(* A transaction is one step, but for the one that puts a revision in      *)
(* force: between its reading of the tasks and its commit tasks change.    *)
(***************************************************************************)
EXTENDS Naturals, FiniteSets

CONSTANTS
  Items,       \* what there is to do
  Workers,     \* study worker processes
  Requests,    \* requests of the user that are served at the same time
  Batch,       \* STUDY_WORKER_CONCURRENCY
  MaxAttempts, \* max_attempts of study_operations
  MaxWeeks,    \* bound: weekly replans
  MaxActs,     \* bound: adjustments, changes of tasks, pauses and resumptions
  MaxFaults,   \* bound: crashes, exceptions, leases that run out in use
  MaxEvents    \* bound: all of these together

Ops == 1..(MaxWeeks + MaxActs)                          \* in order of created_at
Revisions == 1..(1 + MaxWeeks * MaxAttempts + MaxActs)  \* revision_no

ASSUME StudyAssumption ==
  /\ IsFiniteSet(Workers) /\ Workers \intersect Requests = {}
  /\ {Batch, MaxAttempts} \subseteq Nat \ {0}
  /\ {MaxWeeks, MaxActs, MaxFaults, MaxEvents} \subseteq Nat

VARIABLES
  plan,    \* the row of study_plans
  rev,     \* study_plan_revisions
  task,    \* study_tasks, counted by revision, item and status
  op,      \* study_operations
  lease,   \* the row of study_user_leases; of operation 0 if there is none
  todo,    \* operations a worker has claimed and not begun
  run,     \* what workers and requests are at
  done, late,       \* history: items done in the revision in force; those of
                    \* them done while its tasks were being copied
  crossed,          \* history: a revision was put in force over another one
                    \* than was read, or was decided before
  overrun, lost,    \* history: leases that ran out in use; operations of
                    \* workers and requests that died
  acts, weeks, faults

planVars == <<plan, rev, task, done, late, crossed>>
workVars == <<lease, todo, overrun>>
bounds == <<acts, weeks, faults>>
vars == <<planVars, op, workVars, lost, run, bounds>>

RevisionRow ==
  [status : {"absent", "proposed", "active", "rejected", "superseded"},
   base : {0} \union Revisions, op : {0} \union Ops]

OperationRow ==
  [status : {"absent", "queued", "running", "needs_input", "succeeded", "failed",
             "cancelled"},
   attempts : 0..MaxAttempts]

Tasks == [Items -> [pending : Nat, completed : Nat, cancelled : Nat]]

(* "base" is current_revision_id as it was read; "seen" are the tasks      *)
(* apply_revision_diff read, "outcome" what is to be written at the end.   *)
RunState ==
  [pc : {"idle", "leased", "read", "proposed", "copy", "finish", "release", "asked"},
   kind : {"none", "replan", "adjust", "accept", "reject", "activate"},
   op : {0} \union Ops, rev : {0} \union Revisions, base : {0} \union Revisions,
   version : Nat, seen : Tasks,
   outcome : {"none", "needs_input", "succeeded", "failed"}]

Nothing == [i \in Items |-> [pending |-> 0, completed |-> 0, cancelled |-> 0]]

Idle == [pc |-> "idle", kind |-> "none", op |-> 0, rev |-> 0, base |-> 0,
         version |-> 0, seen |-> Nothing, outcome |-> "none"]

(* persist_plan_from_blueprint made a draft with its first revision.       *)
Init ==
  /\ plan = [status |-> "draft", version |-> 1, current |-> 1]
  /\ rev = [r \in Revisions |->
              [status |-> IF r = 1 THEN "proposed" ELSE "absent", base |-> 0, op |-> 0]]
  /\ task = [r \in Revisions |->
              IF r = 1 THEN [i \in Items |-> [pending |-> 1, completed |-> 0, cancelled |-> 0]]
              ELSE Nothing]
  /\ op = [o \in Ops |-> [status |-> "absent", attempts |-> 0]]
  /\ lease = [op |-> 0, live |-> FALSE]
  /\ todo = [w \in Workers |-> {}]
  /\ run = [x \in Workers \union Requests |-> Idle]
  /\ done = {} /\ late = {} /\ crossed = FALSE /\ overrun = 0 /\ lost = {}
  /\ acts = 0 /\ weeks = 0 /\ faults = 0

MoreEvents == acts + weeks + faults < MaxEvents

Act ==
  /\ acts < MaxActs /\ MoreEvents
  /\ acts' = acts + 1 /\ UNCHANGED <<weeks, faults>>

Fault ==
  /\ faults < MaxFaults /\ MoreEvents
  /\ faults' = faults + 1 /\ UNCHANGED <<acts, weeks>>

(* The row of the plan is not locked by a transaction that puts a revision *)
(* in force.                                                               *)
PlanFree == \A x \in Workers \union Requests : run[x].pc # "copy"

NewOp(o, status) ==
  /\ o \in {p \in Ops : op[p].status = "absent"}
  /\ \A p \in Ops : op[p].status = "absent" => o <= p
  /\ op' = [op EXCEPT ![o].status = status]

(* _insert_replan_revision                                                 *)
NewRevision(r, base, o) ==
  /\ rev[r].status = "absent" /\ \A s \in 1..(r - 1) : rev[s].status # "absent"
  /\ rev' = [rev EXCEPT ![r] = [status |-> "proposed", base |-> base, op |-> o]]

(* ---- operations and the user lease ------------------------------------ *)

(* _trigger_weekly_replan                                                  *)
WeeklyReplan(o) ==
  /\ plan.status = "active" /\ weeks < MaxWeeks /\ MoreEvents /\ weeks' = weeks + 1
  /\ NewOp(o, "queued")
  /\ UNCHANGED <<planVars, workVars, lost, run, acts, faults>>

Queued == {o \in Ops : op[o].status = "queued"}

Claimed == {o \in Queued : Cardinality({p \in Queued : p < o}) < Batch}

ClaimBatch(w) ==
  /\ run[w].pc = "idle" /\ todo[w] = {} /\ Claimed # {}
  /\ todo' = [todo EXCEPT ![w] = Claimed]
  /\ op' = [o \in Ops |-> IF o \in Claimed
                          THEN [status |-> "running", attempts |-> op[o].attempts + 1]
                          ELSE op[o]]
  /\ UNCHANGED <<planVars, lease, overrun, lost, run, bounds>>

(* A mistake: a failure is handed back however often it was tried *)
FinishedAlways(o, status) ==
  [op EXCEPT ![o].status = IF status = "failed" THEN "queued" ELSE status]

(* A mistake: a failure that is to be tried again is left running *)
FinishedStuck(o, status) ==
  [op EXCEPT ![o].status =
     IF status = "failed" /\ op[o].attempts \in 1..(MaxAttempts - 1)
     THEN "running" ELSE status]

(* _finish_operation: a failure is tried again while attempts are left;    *)
(* the status before is not looked at.                                     *)
Finished(o, status) ==
  [op EXCEPT ![o].status =
     IF status = "failed" /\ op[o].attempts \in 1..(MaxAttempts - 1)
     THEN "queued" ELSE status]

(* A mistake: whoever holds the lease, it is taken *)
LeaseFreeAlways == TRUE

LeaseFree == lease.op = 0 \/ ~lease.live

(* The next of the batch takes the lease of the user...                    *)
AcquireLease(w, o) ==
  /\ run[w].pc = "idle" /\ o \in todo[w] /\ \A p \in todo[w] : o <= p
  /\ LeaseFree
  /\ lease' = [op |-> o, live |-> TRUE]
  /\ todo' = [todo EXCEPT ![w] = @ \ {o}]
  /\ run' = [run EXCEPT ![w] = [Idle EXCEPT !.pc = "leased", !.kind = "replan", !.op = o]]
  /\ UNCHANGED <<planVars, op, overrun, lost, bounds>>

(* ...or finds it taken, and is handed back as a failure.                  *)
LeaseBusy(w, o) ==
  /\ run[w].pc = "idle" /\ o \in todo[w] /\ \A p \in todo[w] : o <= p
  /\ ~LeaseFree
  /\ op' = Finished(o, "failed")
  /\ todo' = [todo EXCEPT ![w] = @ \ {o}]
  /\ UNCHANGED <<planVars, lease, overrun, lost, run, bounds>>

FinishOperation(w) ==
  /\ run[w].pc = "finish"
  /\ op' = Finished(run[w].op, run[w].outcome)
  /\ run' = [run EXCEPT ![w].pc = "release"]
  /\ UNCHANGED <<planVars, workVars, lost, bounds>>

ReleaseLease(w) ==
  /\ run[w].pc = "release"
  /\ lease' = IF lease.op = run[w].op THEN [op |-> 0, live |-> FALSE] ELSE lease
  /\ run' = [run EXCEPT ![w] = Idle]
  /\ UNCHANGED <<planVars, op, todo, overrun, lost, bounds>>

(* The execution raises, or the write of its outcome does; a transaction   *)
(* that is open is rolled back.                                            *)
ExecutionRaises(w) ==
  /\ \/ run[w].pc \in {"leased", "read", "proposed", "copy"}
     \/ run[w].pc = "finish" /\ run[w].outcome # "failed"
  /\ Fault
  /\ run' = [run EXCEPT ![w].pc = "finish", ![w].outcome = "failed"]
  /\ UNCHANGED <<planVars, op, workVars, lost>>

(* Nothing looks again at what a worker that died had claimed.             *)
CrashWorker(w) ==
  /\ run[w].pc # "idle" \/ todo[w] # {}
  /\ Fault
  /\ lost' = lost \union todo[w] \union
       (IF run[w].pc \in {"idle", "release"} THEN {} ELSE {run[w].op})
  /\ todo' = [todo EXCEPT ![w] = {}]
  /\ run' = [run EXCEPT ![w] = Idle]
  /\ UNCHANGED <<planVars, op, lease, overrun>>

Working(w) == run[w].pc # "idle"

(* Nobody renews the lease: it runs out under an execution that takes too  *)
(* long, and after one that died.                                          *)
LeaseRunsOut ==
  /\ lease.op # 0 /\ lease.live
  /\ lease' = [lease EXCEPT !.live = FALSE]
  /\ IF \E w \in Workers : Working(w) /\ run[w].op = lease.op
     THEN Fault /\ overrun' = overrun + 1
     ELSE UNCHANGED <<overrun, bounds>>
  /\ UNCHANGED <<planVars, op, todo, lost, run>>

(* ---- run_replan_operation --------------------------------------------- *)

ReadPlan(w) ==
  /\ run[w].pc = "leased"
  /\ run' = [run EXCEPT ![w].pc = "read", ![w].base = plan.current]
  /\ UNCHANGED <<planVars, op, workVars, lost, bounds>>

(* build_carryover_replan locks the plan and commits a proposal for the    *)
(* revision that was read before.                                          *)
Propose(w, r) ==
  /\ run[w].pc = "read" /\ PlanFree
  /\ NewRevision(r, run[w].base, run[w].op)
  /\ run' = [run EXCEPT ![w].pc = "proposed", ![w].rev = r]
  /\ UNCHANGED <<plan, task, done, late, crossed, op, workVars, lost, bounds>>

(* adjust_plan: the same in the process of the request, without the lease  *)
AdjustPlan(q, o, r) ==
  /\ run[q].pc = "idle" /\ PlanFree /\ Act
  /\ plan' = [plan EXCEPT !.version = @ + 1]
  /\ NewOp(o, "running")
  /\ NewRevision(r, plan.current, o)
  /\ run' = [run EXCEPT ![q] = [Idle EXCEPT !.pc = "proposed", !.kind = "adjust", !.op = o,
                                            !.rev = r, !.base = plan.current]]
  /\ UNCHANGED <<task, done, late, crossed, workVars, lost>>

(* What follows the last commit of an execution                            *)
Concludes(x, outcome) ==
  run' = [run EXCEPT ![x] = IF run[x].kind = "replan"
                            THEN [@ EXCEPT !.pc = "finish", !.seen = Nothing,
                                           !.outcome = outcome]
                            ELSE Idle]

OpBecomes(o, from, to) == [op EXCEPT ![o].status = IF @ = from THEN to ELSE @]

(* A major adjustment, or one that may not be made automatically           *)
AskUser(x) ==
  /\ run[x].pc = "proposed"
  /\ op' = OpBecomes(run[x].op, "running", "needs_input")
  /\ Concludes(x, "needs_input")
  /\ UNCHANGED <<planVars, workVars, lost, bounds>>

(* Any other is put in force...                                            *)
BeginReplan(x) ==
  /\ run[x].pc = "proposed" /\ PlanFree
  /\ run' = [run EXCEPT ![x].pc = "copy", ![x].seen = task[run[x].base]]
  /\ UNCHANGED <<planVars, op, workVars, lost, bounds>>

(* The rows of revisions when "r" takes the place of "base"                *)
Replaced(r, base) ==
  [p \in Revisions |->
     [rev[p] EXCEPT !.status = CASE p = base /\ @ = "active" -> "superseded"
                                 [] p = r /\ @ = "proposed" -> "active"
                                 [] OTHER -> @]]

(* apply_revision_diff adds the tasks that were not cancelled; the proposal *)
(* names those the base had then, which is all, unless the base was filled *)
(* a second time since.                                                    *)
Copied(seen, tasks) ==
  [i \in Items |-> [tasks[i] EXCEPT !.pending = @ + seen[i].pending,
                                    !.completed = @ + seen[i].completed]]

(* ...whatever became of it and of the revision it replaces.               *)
CommitReplan(x) ==
  LET r == run[x].rev
      base == run[x].base
  IN
  /\ run[x].pc = "copy" /\ run[x].kind \in {"replan", "adjust"}
  /\ rev' = Replaced(r, base)
  /\ plan' = [plan EXCEPT !.current = r]
  /\ task' = [task EXCEPT ![r] = Copied(run[x].seen, @)]
  /\ crossed' = (crossed \/ plan.current # base \/ rev[r].status # "proposed")
  /\ op' = OpBecomes(run[x].op, "running", "succeeded")
  /\ Concludes(x, "succeeded")
  /\ UNCHANGED <<done, late, workVars, lost, bounds>>

(* ---- the user --------------------------------------------------------- *)

(* A mistake: the revision in force is not compared *)
DecidableAny(r) == rev[r].status = "proposed"

(* A proposal that was not decided, for the revision in force; the first   *)
(* revision, which is for none, too                                        *)
Decidable(r) == rev[r].status = "proposed" /\ rev[r].base \in {0, plan.current}

(* decide_revision and activate_plan read the plan without a lock...       *)
AskDecision(q, kind, r) ==
  /\ run[q].pc = "idle"
  /\ CASE kind \in {"accept", "reject"} -> Decidable(r)
       [] kind = "activate" -> plan.status = "draft" /\ r = plan.current
  /\ run' = [run EXCEPT ![q] = [Idle EXCEPT !.pc = "asked", !.kind = kind, !.rev = r,
                                            !.op = rev[r].op, !.base = plan.current,
                                            !.version = plan.version]]
  /\ UNCHANGED <<planVars, op, workVars, lost, bounds>>

Unchanged(q) == run[q].version = plan.version

(* ...and go on if the version is still that of the request and the        *)
(* proposal is not decided.                                                *)
Goes(q, kind) ==
  /\ run[q].pc = "asked" /\ run[q].kind = kind /\ PlanFree
  /\ Unchanged(q)
  /\ kind # "activate" => rev[run[q].rev].status = "proposed"

Refuse(q) ==
  /\ run[q].pc = "asked" /\ PlanFree
  /\ ~Goes(q, run[q].kind)
  /\ run' = [run EXCEPT ![q] = Idle]
  /\ UNCHANGED <<planVars, op, workVars, lost, bounds>>

Reject(q) ==
  /\ Goes(q, "reject")
  /\ plan' = [plan EXCEPT !.version = @ + 1]
  /\ rev' = [rev EXCEPT ![run[q].rev].status = "rejected"]
  /\ op' = IF run[q].op = 0 THEN op ELSE OpBecomes(run[q].op, "needs_input", "cancelled")
  /\ run' = [run EXCEPT ![q] = Idle]
  /\ UNCHANGED <<task, done, late, crossed, workVars, lost, bounds>>

BeginAccept(q) ==
  LET base == rev[run[q].rev].base IN
  /\ Goes(q, "accept")
  /\ run' = [run EXCEPT ![q].pc = "copy",
                        ![q].seen = IF base = 0 THEN Nothing ELSE task[base]]
  /\ UNCHANGED <<planVars, op, workVars, lost, bounds>>

(* The first revision takes the place of what replaced it without its      *)
(* tasks.                                                                  *)
CommitAccept(q) ==
  LET r == run[q].rev IN
  /\ run[q].pc = "copy" /\ run[q].kind = "accept"
  /\ rev' = Replaced(r, run[q].base)
  /\ plan' = [plan EXCEPT !.version = @ + 1, !.current = r]
  /\ task' = [task EXCEPT ![r] = Copied(run[q].seen, @)]
  /\ done' = IF rev[r].base = 0 THEN {i \in done : task[r][i].completed > 0} ELSE done
  /\ crossed' = (crossed \/ plan.current # run[q].base)
  /\ op' = IF run[q].op = 0 THEN op ELSE OpBecomes(run[q].op, "needs_input", "succeeded")
  /\ run' = [run EXCEPT ![q] = Idle]
  /\ UNCHANGED <<late, workVars, lost, bounds>>

(* activate_plan_transactional, whatever became of the first revision      *)
Activate(q) ==
  /\ Goes(q, "activate")
  /\ plan' = [status |-> "active", version |-> plan.version + 1, current |-> run[q].rev]
  /\ rev' = [rev EXCEPT ![run[q].rev].status = "active"]
  /\ crossed' = (crossed \/ plan.current # run[q].rev)
  /\ run' = [run EXCEPT ![q] = Idle]
  /\ UNCHANGED <<task, done, late, op, workVars, lost, bounds>>

(* The process that serves a request dies, or the request raises.          *)
RequestFails(q) ==
  /\ run[q].pc # "idle" /\ Fault
  /\ lost' = IF run[q].kind = "adjust" THEN lost \union {run[q].op} ELSE lost
  /\ run' = [run EXCEPT ![q] = Idle]
  /\ UNCHANGED <<planVars, op, workVars>>

PauseOrResume ==
  /\ PlanFree
  /\ \/ /\ plan.status = "active" /\ Act
        /\ plan' = [plan EXCEPT !.status = "paused", !.version = @ + 1]
     \/ /\ plan.status = "paused" /\ UNCHANGED bounds
        /\ plan' = [plan EXCEPT !.status = "active", !.version = @ + 1]
  /\ UNCHANGED <<rev, task, done, late, crossed, op, workVars, lost, run>>

(* cancel_tasks_for_plan_lifecycle: the tasks of every revision            *)
Archive ==
  /\ PlanFree /\ plan.status # "archived" /\ Act
  /\ plan' = [plan EXCEPT !.status = "archived", !.version = @ + 1]
  /\ task' = [r \in Revisions |-> [i \in Items |->
                [task[r][i] EXCEPT !.cancelled = @ + task[r][i].pending, !.pending = 0]]]
  /\ UNCHANGED <<rev, done, late, crossed, op, workVars, lost, run>>

(* Tasks of every revision can be done, also while others are made of them. *)
CompleteTask(r, i) ==
  /\ task[r][i].pending > 0 /\ Act
  /\ task' = [task EXCEPT ![r][i].pending = @ - 1, ![r][i].completed = @ + 1]
  /\ done' = IF r = plan.current THEN done \union {i} ELSE done
  /\ late' = IF r = plan.current /\ ~PlanFree THEN late \union {i} ELSE late
  /\ UNCHANGED <<plan, rev, crossed, op, workVars, lost, run>>

ReopenTask(r, i) ==
  /\ task[r][i].completed > 0
  /\ task' = [task EXCEPT ![r][i].pending = @ + 1, ![r][i].completed = @ - 1]
  /\ done' = IF r = plan.current THEN done \ {i} ELSE done
  /\ UNCHANGED <<plan, rev, late, crossed, op, workVars, lost, run, bounds>>

(* ---- the specification ------------------------------------------------ *)

Work(w) ==
  \/ \E o \in todo[w] : AcquireLease(w, o) \/ LeaseBusy(w, o)
  \/ ReadPlan(w) \/ (\E r \in Revisions : Propose(w, r))
  \/ FinishOperation(w) \/ ReleaseLease(w)

Replan(x) == AskUser(x) \/ BeginReplan(x) \/ CommitReplan(x)

Decide(q) == Refuse(q) \/ Reject(q) \/ BeginAccept(q) \/ CommitAccept(q) \/ Activate(q)

Next ==
  \/ \E o \in Ops : WeeklyReplan(o)
  \/ \E w \in Workers : \/ ClaimBatch(w) \/ Work(w)
                        \/ ExecutionRaises(w) \/ CrashWorker(w)
  \/ LeaseRunsOut
  \/ \E x \in Workers \union Requests : Replan(x)
  \/ \E q \in Requests :
       \/ \E o \in Ops, r \in Revisions : AdjustPlan(q, o, r)
       \/ \E kind \in {"accept", "reject", "activate"}, r \in Revisions : AskDecision(q, kind, r)
       \/ Decide(q) \/ RequestFails(q)
  \/ PauseOrResume \/ Archive
  \/ \E r \in Revisions, i \in Items : CompleteTask(r, i) \/ ReopenTask(r, i)

Spec == Init /\ [][Next]_vars

(* Workers poll and go on, requests are served, and a lease that nobody    *)
(* uses any more runs out.                                                 *)
Fairness ==
  /\ \A w \in Workers : WF_vars(ClaimBatch(w) \/ Work(w) \/ Replan(w))
  /\ \A q \in Requests : WF_vars(Replan(q) \/ Decide(q))
  /\ WF_vars(LeaseRunsOut)

FairSpec == Spec /\ Fairness

(* ---- what should hold ------------------------------------------------- *)

(* Every variable has its type; an operation is tried no more often than   *)
(* it may be (_claim_batch, _finish_operation).                            *)
TypeOK ==
  /\ plan \in [status : {"draft", "active", "paused", "archived"}, version : Nat,
               current : Revisions]
  /\ rev \in [Revisions -> RevisionRow] /\ task \in [Revisions -> Tasks]
  /\ op \in [Ops -> OperationRow]
  /\ lease \in [op : {0} \union Ops, live : BOOLEAN]
  /\ todo \in [Workers -> SUBSET Ops] /\ run \in [Workers \union Requests -> RunState]
  /\ done \in SUBSET Items /\ late \in SUBSET Items /\ lost \in SUBSET Ops
  /\ crossed \in BOOLEAN /\ {overrun, acts, weeks, faults} \subseteq Nat

(* Operations of one user are executed one at a time by all the workers,   *)
(* but for executions that outlasted their lease, through failures, waits, *)
(* crashes and takeovers (_try_acquire_user_lease, _release_user_lease).   *)
OneAtATime == Cardinality({w \in Workers : Working(w)}) <= 1 + overrun

(* Whatever fails, is handed back or is decided meanwhile, an operation is *)
(* in the hands of one worker, and proposes one revision each time it is   *)
(* tried (an adjustment, which is tried once, is not counted as a try):    *)
(* _claim_batch, _finish_operation, which looks at no status.              *)
Holds(w, o) ==
  \/ o \in todo[w]
  \/ run[w].op = o /\ run[w].pc \notin {"idle", "release"}

TriedBy(o) == IF op[o].attempts = 0 THEN 1 ELSE op[o].attempts

OneTryAtATime ==
  \A o \in Ops :
    /\ \A v, w \in Workers : Holds(v, o) /\ Holds(w, o) => v = w
    /\ Cardinality({r \in Revisions : rev[r].op = o}) <= TriedBy(o)

(* However replans, decisions, activation and work on tasks interleave:    *)
(* only the revision in force is active, it is active in a plan that was   *)
(* activated, no revision has an item twice, and what the user did in the  *)
(* revision in force stays done in the next.  It can break only where a    *)
(* revision was put in force over another than the one that was read, or   *)
(* that had been decided (run_replan_operation, decide_revision); and work *)
(* done while the tasks are copied may be lost (apply_revision_diff).      *)
PlanKept ==
  ~crossed =>
    /\ \A r \in Revisions : rev[r].status = "active" => r = plan.current
    /\ plan.status \in {"active", "paused"} => rev[plan.current].status = "active"
    /\ \A r \in Revisions, i \in Items : task[r][i].pending + task[r][i].completed <= 1
    /\ \A i \in done \ late : task[plan.current][i].completed > 0

(* Every operation ends or is put to the user, unless the process that ran *)
(* it died: then nobody takes it up again (_claim_batch).                  *)
OperationsEnd ==
  []<>(\A o \in Ops : op[o].status \in {"queued", "running"} => o \in lost)
================================================================================
