-------------------------- MODULE StudyPlans_proofs --------------------------
(***************************************************************************)
(* Proofs about StudyPlans for every number of workers, requests, items,   *)
(* weeks and faults: the types, that operations run one at a time but for  *)
(* the leases that ran out in use, that the plan is kept, that a try makes *)
(* one proposal at most, that no operation is forgotten or given up early, *)
(* and that the numbers of the model suffice.                              *)
(***************************************************************************)
EXTENDS StudyPlans, TLAPS, FiniteSetTheorems

Processes == Workers \union Requests

(* An operation that is queued, or will be, may still be tried. *)
QueuedCanRun ==
  \A o \in Ops : op[o].status \in {"absent", "queued"} => op[o].attempts < MaxAttempts

(* What process "x" is at: only workers hold leases, only requests ask. *)
RowMakesSense(x, s) ==
  /\ x \in Workers /\ s.pc # "idle" => s.kind = "replan" /\ s.op \in Ops /\ s.pc # "asked"
  /\ x \in Requests => s.pc \in {"idle", "proposed", "copy", "asked"} /\ s.kind # "replan"
  /\ s.pc \in {"read", "proposed", "copy", "asked"} => s.base \in Revisions
  /\ s.pc \in {"proposed", "copy", "asked"} => s.rev \in Revisions
  /\ s.pc = "proposed" => s.kind \in {"replan", "adjust"}
  /\ s.kind = "adjust" => s.op \in Ops
  /\ s.pc = "copy" => s.kind \in {"replan", "adjust", "accept"}
  /\ s.pc = "asked" => s.kind \in {"accept", "reject", "activate"}
  /\ s.pc = "finish" => s.outcome # "none"

RunsMakeSense == \A x \in Processes : RowMakesSense(x, run[x])

(* One transaction puts a revision in force at a time. *)
OneCopies ==
  \A x, y \in Processes : run[x].pc = "copy" /\ run[y].pc = "copy" => x = y

(* Only the first revision is for none before. *)
BasesKnown ==
  /\ rev[1].status # "absent" /\ rev[plan.current].status # "absent"
  /\ \A r \in Revisions : rev[r].status # "absent" => (rev[r].base = 0 <=> r = 1)

(* A process that proposed, decides or copies has a revision for the one   *)
(* it read.                                                                *)
RowFits(s) ==
  /\ s.pc \in {"proposed", "copy"} /\ s.kind \in {"replan", "adjust"} =>
       rev[s.rev].status # "absent" /\ rev[s.rev].base = s.base /\ s.rev # 1
  /\ s.pc = "asked" => rev[s.rev].status # "absent"
  /\ s.pc \in {"asked", "copy"} /\ s.kind \in {"accept", "reject"} =>
       rev[s.rev].status # "absent" /\ rev[s.rev].base \in {0, s.base}
  /\ s.pc = "copy" /\ s.kind = "accept" => rev[s.rev].status = "proposed"

RunsFit == \A x \in Processes : RowFits(run[x])

(* What is being copied is what was done and is to be done. *)
RowCopies(s) ==
  s.pc = "copy" =>
    /\ \A i \in Items : s.seen[i].pending + s.seen[i].completed <= 1
    /\ rev[s.rev].base = 0 => s.seen = Nothing
    /\ rev[s.rev].base # 0 /\ s.base = plan.current =>
         \A i \in done \ late : s.seen[i].completed > 0

(* A proposal that was not put in force has no tasks, but for the first. *)
ProposalsEmpty ==
  \A r \in Revisions :
    rev[r].status \in {"absent", "proposed"} /\ r # 1 => task[r] = Nothing

CopiesKnown == \A x \in Processes : RowCopies(run[x])

Kept == ~crossed => PlanKept /\ ProposalsEmpty /\ CopiesKnown

(* The lease covers one of the executions, and each of the others outlasted *)
(* a lease.                                                                *)
Executing == {w \in Workers : Working(w)}

Covered == lease.live /\ \E w \in Executing : run[w].op = lease.op

Accounted == Cardinality(Executing) <= overrun + (IF Covered THEN 1 ELSE 0)

(* ---- types ------------------------------------------------------------ *)

LEMMA Numbers ==
  /\ Ops \subseteq Nat \ {0} /\ Revisions \subseteq Nat \ {0} /\ 1 \in Revisions
  /\ 0 \notin Ops /\ 0 \notin Revisions /\ MaxAttempts \in Nat \ {0}
<1>1. MaxWeeks * MaxAttempts \in Nat  BY StudyAssumption
<1>2. 1 + MaxWeeks * MaxAttempts + MaxActs \in Nat \ {0}  BY <1>1, StudyAssumption
<1> QED  BY <1>2, StudyAssumption DEF Ops, Revisions

Sense == TypeOK /\ QueuedCanRun /\ RunsMakeSense

LEMMA NothingIsTasks == Nothing \in Tasks /\ Idle \in RunState
BY Numbers DEF Nothing, Tasks, Idle, RunState

(* The type of the state, part by part *)
LEMMA TypeParts ==
  TypeOK <=>
    /\ plan \in [status : {"draft", "active", "paused", "archived"}, version : Nat,
                 current : Revisions]
    /\ rev \in [Revisions -> RevisionRow]
    /\ task \in [Revisions -> Tasks]
    /\ op \in [Ops -> OperationRow]
    /\ lease \in [op : {0} \union Ops, live : BOOLEAN]
    /\ todo \in [Workers -> SUBSET Ops]
    /\ run \in [Processes -> RunState]
    /\ done \subseteq Items /\ late \subseteq Items /\ lost \subseteq Ops
    /\ crossed \in BOOLEAN /\ overrun \in Nat
    /\ acts \in Nat /\ weeks \in Nat /\ faults \in Nat
BY Zenon DEF TypeOK, Processes

LEMMA SenseInit == Init => Sense
<1> SUFFICES ASSUME Init PROVE Sense  OBVIOUS
<1>1. plan \in [status : {"draft", "active", "paused", "archived"}, version : Nat,
               current : Revisions] /\ rev \in [Revisions -> RevisionRow]
  BY Numbers DEF Init, RevisionRow
<1>2. task \in [Revisions -> Tasks]
  <2>1. [i \in Items |-> [pending |-> 1, completed |-> 0, cancelled |-> 0]] \in Tasks
    BY DEF Tasks
  <2> QED  BY <2>1, NothingIsTasks DEF Init
<1>3. op \in [Ops -> OperationRow] /\ QueuedCanRun
  BY StudyAssumption DEF Init, OperationRow, QueuedCanRun
<1>4. run \in [Processes -> RunState] /\ \A x \in Processes : run[x] = Idle
  BY NothingIsTasks DEF Init, Processes
<1>5. RunsMakeSense  BY <1>4 DEF RunsMakeSense, RowMakesSense, Idle
<1>6. /\ done \subseteq Items /\ late \subseteq Items /\ lost \subseteq Ops
      /\ lease \in [op : {0} \union Ops, live : BOOLEAN] /\ todo \in [Workers -> SUBSET Ops]
      /\ overrun \in Nat /\ acts \in Nat /\ weeks \in Nat /\ faults \in Nat
  BY DEF Init
<1>7. crossed \in BOOLEAN  BY Zenon DEF Init
<1>8. TypeOK  BY <1>1, <1>2, <1>3, <1>4, <1>6, <1>7, TypeParts
<1> QED  BY <1>3, <1>5, <1>8 DEF Sense

(* A process goes on to a row of its type that makes sense. *)
LEMMA GoesOn ==
  ASSUME TypeOK, RunsMakeSense, NEW x \in Processes, NEW s \in RunState,
         RowMakesSense(x, s), run' = [run EXCEPT ![x] = s]
  PROVE  run' \in [Processes -> RunState] /\ RunsMakeSense'
BY DEF TypeOK, RunsMakeSense, Processes, RowMakesSense

(* Operations are written as they may be. *)
LEMMA OpsWritten ==
  ASSUME TypeOK, QueuedCanRun
  PROVE  /\ \A o, status : NewOp(o, status) /\ status \in {"queued", "running"} =>
                op' \in [Ops -> OperationRow] /\ QueuedCanRun'
         /\ \A o, status : status \in {"needs_input", "succeeded", "failed"} /\ op' = Finished(o, status) =>
                op' \in [Ops -> OperationRow] /\ QueuedCanRun'
         /\ \A o, from, to : to \in {"needs_input", "succeeded", "cancelled"} /\ op' = OpBecomes(o, from, to) =>
                op' \in [Ops -> OperationRow] /\ QueuedCanRun'
<1> USE DEF OperationRow
<1>0. /\ op \in [Ops -> OperationRow] /\ MaxAttempts \in Nat \ {0}
      /\ \A o \in Ops : op[o] \in OperationRow /\ op[o] = [op[o] EXCEPT !.status = @]
  BY Numbers DEF TypeOK
<1>a. ASSUME NEW o, NEW status \in {"needs_input", "succeeded", "failed", "cancelled"},
             op' = [op EXCEPT ![o].status = status]
      PROVE  op' \in [Ops -> OperationRow] /\ QueuedCanRun'
  <2>1. CASE o \in Ops
    <3>1. op' = [op EXCEPT ![o] = [op[o] EXCEPT !.status = status]]  BY <1>0, <1>a, <2>1
    <3>2. [op[o] EXCEPT !.status = status] \in OperationRow  BY <1>0, <1>a, <2>1
    <3>3. op' \in [Ops -> OperationRow]  BY <1>0, <3>1, <3>2
    <3>4. /\ op'[o].status = status
          /\ \A p \in Ops \ {o} : op'[p] = op[p]
      BY <1>0, <2>1, <3>1
    <3> QED  BY <1>a, <3>3, <3>4 DEF QueuedCanRun
  <2>2. CASE o \notin Ops
    <3>1. op' = op  BY <1>0, <1>a, <2>2
    <3> QED  BY <1>0, <3>1 DEF QueuedCanRun
  <2> QED  BY <2>1, <2>2
<1>1. ASSUME NEW o, NEW status, NewOp(o, status), status \in {"queued", "running"}
      PROVE  op' \in [Ops -> OperationRow] /\ QueuedCanRun'
  <2>1. op' = [op EXCEPT ![o].status = status] /\ o \in Ops /\ op[o].status = "absent"
    BY <1>1 DEF NewOp
  <2> QED  BY <1>0, <1>1, <2>1 DEF QueuedCanRun
<1>2. ASSUME NEW o, NEW status, status \in {"needs_input", "succeeded", "failed"},
             op' = Finished(o, status)
      PROVE  op' \in [Ops -> OperationRow] /\ QueuedCanRun'
  <2>1. CASE status = "failed" /\ op[o].attempts \in 1..(MaxAttempts - 1)
    <3>1. op' = [op EXCEPT ![o].status = "queued"]  BY <1>2, <2>1 DEF Finished
    <3>2. CASE o \in Ops
      <4>1. op[o].attempts < MaxAttempts  BY <1>0, <2>1, <3>2
      <4> QED  BY <1>0, <3>1, <3>2, <4>1 DEF QueuedCanRun
    <3>3. CASE o \notin Ops
      BY <1>0, <3>1, <3>3 DEF QueuedCanRun
    <3> QED  BY <3>2, <3>3
  <2>2. CASE ~(status = "failed" /\ op[o].attempts \in 1..(MaxAttempts - 1))
    <3>1. op' = [op EXCEPT ![o].status = status]  BY <1>2, <2>2, Zenon DEF Finished
    <3> QED  BY <1>a, <1>2, <3>1
  <2> QED  BY <2>1, <2>2
<1>3. ASSUME NEW o, NEW from, NEW to, to \in {"needs_input", "succeeded", "cancelled"},
             op' = OpBecomes(o, from, to)
      PROVE  op' \in [Ops -> OperationRow] /\ QueuedCanRun'
  <2>1. CASE op[o].status = from
    <3>1. op' = [op EXCEPT ![o].status = to]  BY <1>3, <2>1, Zenon DEF OpBecomes
    <3> QED  BY <1>a, <1>3, <3>1
  <2>2. CASE op[o].status # from
    <3>1. op' = op  BY <1>0, <1>3, <2>2 DEF OpBecomes
    <3> QED  BY <1>0, <3>1 DEF QueuedCanRun
  <2> QED  BY <2>1, <2>2
<1> QED  BY <1>1, <1>2, <1>3

(* The rows of revisions are kept when one takes the place of another. *)
LEMMA ReplacedRows ==
  ASSUME rev \in [Revisions -> RevisionRow], NEW r, NEW base
  PROVE  /\ Replaced(r, base) \in [Revisions -> RevisionRow]
         /\ \A p \in Revisions :
              /\ Replaced(r, base)[p].base = rev[p].base
              /\ Replaced(r, base)[p].op = rev[p].op
              /\ Replaced(r, base)[p].status =
                   CASE p = base /\ rev[p].status = "active" -> "superseded"
                     [] p = r /\ rev[p].status = "proposed" -> "active"
                     [] OTHER -> rev[p].status
<1> DEFINE New(p) == CASE p = base /\ rev[p].status = "active" -> "superseded"
                       [] p = r /\ rev[p].status = "proposed" -> "active"
                       [] OTHER -> rev[p].status
<1>1. Replaced(r, base) = [p \in Revisions |-> [rev[p] EXCEPT !.status = New(p)]]
  BY DEF Replaced
<1>2. \A p \in Revisions : New(p) \in {"absent", "proposed", "active", "rejected", "superseded"}
  BY DEF RevisionRow
<1> HIDE DEF New
<1>3. \A p \in Revisions :
        /\ [rev[p] EXCEPT !.status = New(p)] \in RevisionRow
        /\ [rev[p] EXCEPT !.status = New(p)].base = rev[p].base
        /\ [rev[p] EXCEPT !.status = New(p)].op = rev[p].op
        /\ [rev[p] EXCEPT !.status = New(p)].status = New(p)
  BY <1>2 DEF RevisionRow
<1>4. /\ Replaced(r, base) \in [Revisions -> RevisionRow]
      /\ \A p \in Revisions :
           /\ Replaced(r, base)[p].base = rev[p].base
           /\ Replaced(r, base)[p].op = rev[p].op
           /\ Replaced(r, base)[p].status = New(p)
  BY <1>1, <1>3
<1> QED  BY <1>4 DEF New

LEMMA SenseOperations ==
  ASSUME Sense
  PROVE  /\ \A o \in Ops : WeeklyReplan(o) => Sense'
         /\ \A w \in Workers : ClaimBatch(w) => Sense'
         /\ \A w \in Workers, o \in Ops : AcquireLease(w, o) => Sense'
         /\ \A w \in Workers, o \in Ops : LeaseBusy(w, o) => Sense'
         /\ \A w \in Workers : FinishOperation(w) => Sense'
         /\ \A w \in Workers : ReleaseLease(w) => Sense'
         /\ \A w \in Workers : ExecutionRaises(w) => Sense'
         /\ \A w \in Workers : CrashWorker(w) => Sense'
         /\ LeaseRunsOut => Sense'
<1> USE DEF Sense
<1>0. TypeOK /\ QueuedCanRun /\ RunsMakeSense  OBVIOUS
<1>1. ASSUME NEW o \in Ops, WeeklyReplan(o) PROVE Sense'
  <2>1. op' \in [Ops -> OperationRow] /\ QueuedCanRun'
    BY <1>1, <1>0, OpsWritten DEF WeeklyReplan
  <2> QED  BY <1>1, <2>1 DEF WeeklyReplan, TypeOK, RunsMakeSense, planVars, workVars
<1>2. ASSUME NEW w \in Workers, ClaimBatch(w) PROVE Sense'
  <2>1. op' \in [Ops -> OperationRow] /\ QueuedCanRun'
    BY <1>2, StudyAssumption DEF ClaimBatch, TypeOK, QueuedCanRun, OperationRow, Claimed, Queued
  <2>2. todo' \in [Workers -> SUBSET Ops]
    BY <1>2 DEF ClaimBatch, TypeOK, Claimed, Queued
  <2> QED  BY <1>2, <2>1, <2>2 DEF ClaimBatch, TypeOK, RunsMakeSense, planVars, bounds
<1>3. ASSUME NEW w \in Workers, NEW o \in Ops, AcquireLease(w, o) PROVE Sense'
  <2> DEFINE s == [Idle EXCEPT !.pc = "leased", !.kind = "replan", !.op = o]
  <2>1. s \in RunState /\ RowMakesSense(w, s)
    BY NothingIsTasks, StudyAssumption DEF RunState, Idle, RowMakesSense
  <2>2. run' = [run EXCEPT ![w] = s]  BY <1>3 DEF AcquireLease
  <2> HIDE DEF s
  <2>3. run' \in [Processes -> RunState] /\ RunsMakeSense'
    BY <1>0, <2>1, <2>2, GoesOn DEF Processes
  <2>4. lease' \in [op : {0} \union Ops, live : BOOLEAN] /\ todo' \in [Workers -> SUBSET Ops]
    BY <1>3 DEF AcquireLease, TypeOK
  <2> QED  BY <1>3, <2>3, <2>4 DEF AcquireLease, TypeOK, QueuedCanRun, planVars, bounds, Processes
<1>4. ASSUME NEW w \in Workers, NEW o \in Ops, LeaseBusy(w, o) PROVE Sense'
  <2>1. op' \in [Ops -> OperationRow] /\ QueuedCanRun'
    BY <1>4, <1>0, OpsWritten DEF LeaseBusy
  <2>2. todo' \in [Workers -> SUBSET Ops]  BY <1>4 DEF LeaseBusy, TypeOK
  <2> QED  BY <1>4, <2>1, <2>2 DEF LeaseBusy, TypeOK, RunsMakeSense, planVars, bounds
<1>5. ASSUME NEW w \in Workers, FinishOperation(w) PROVE Sense'
  <2>1. run[w] \in RunState /\ RowMakesSense(w, run[w]) /\ run[w].pc = "finish"
    BY <1>0, <1>5 DEF TypeOK, RunsMakeSense, Processes, FinishOperation
  <2>2. run[w].outcome \in {"needs_input", "succeeded", "failed"}
    BY <2>1 DEF RunState, RowMakesSense
  <2>3. op' \in [Ops -> OperationRow] /\ QueuedCanRun'
    BY <1>5, <1>0, <2>2, OpsWritten DEF FinishOperation
  <2> DEFINE s == [run[w] EXCEPT !.pc = "release"]
  <2>4. s \in RunState /\ RowMakesSense(w, s)
    BY <2>1, StudyAssumption DEF RunState, RowMakesSense
  <2>5. run' = [run EXCEPT ![w] = s]  BY <1>5 DEF FinishOperation
  <2> HIDE DEF s
  <2>6. run' \in [Processes -> RunState] /\ RunsMakeSense'
    BY <1>0, <2>4, <2>5, GoesOn DEF Processes
  <2> QED  BY <1>5, <2>3, <2>6 DEF FinishOperation, TypeOK, planVars, workVars, bounds, Processes
<1>6. ASSUME NEW w \in Workers, ReleaseLease(w) PROVE Sense'
  <2>1. RowMakesSense(w, Idle)  BY DEF RowMakesSense, Idle
  <2>2. run' \in [Processes -> RunState] /\ RunsMakeSense'
    BY <1>0, <1>6, <2>1, NothingIsTasks, GoesOn DEF Processes, ReleaseLease
  <2>3. lease' \in [op : {0} \union Ops, live : BOOLEAN]
    BY <1>6 DEF ReleaseLease, TypeOK
  <2> QED  BY <1>6, <2>2, <2>3 DEF ReleaseLease, TypeOK, QueuedCanRun, planVars, bounds, Processes
<1>7. ASSUME NEW w \in Workers, ExecutionRaises(w) PROVE Sense'
  <2>1. run[w] \in RunState /\ RowMakesSense(w, run[w]) /\ run[w].pc # "idle"
    BY <1>0, <1>7 DEF TypeOK, RunsMakeSense, Processes, ExecutionRaises
  <2> DEFINE s == [run[w] EXCEPT !.pc = "finish", !.outcome = "failed"]
  <2>4. s \in RunState /\ RowMakesSense(w, s)
    BY <2>1, StudyAssumption DEF RunState, RowMakesSense
  <2>5. run' = [run EXCEPT ![w] = s]
    BY <1>7, <1>0 DEF ExecutionRaises, TypeOK
  <2> HIDE DEF s
  <2>6. run' \in [Processes -> RunState] /\ RunsMakeSense'
    BY <1>0, <2>4, <2>5, GoesOn DEF Processes
  <2> QED  BY <1>7, <2>6 DEF ExecutionRaises, TypeOK, QueuedCanRun, Fault, planVars, workVars, Processes
<1>8. ASSUME NEW w \in Workers, CrashWorker(w) PROVE Sense'
  <2>1. RowMakesSense(w, Idle)  BY DEF RowMakesSense, Idle
  <2>2. run' \in [Processes -> RunState] /\ RunsMakeSense'
    BY <1>0, <1>8, <2>1, NothingIsTasks, GoesOn DEF Processes, CrashWorker
  <2>3. run[w].pc # "idle" => run[w].op \in Ops
    BY <1>0 DEF RunsMakeSense, RowMakesSense, Processes
  <2>4. lost' \subseteq Ops /\ todo' \in [Workers -> SUBSET Ops]
    BY <1>8, <2>3 DEF CrashWorker, TypeOK
  <2> QED  BY <1>8, <2>2, <2>4 DEF CrashWorker, TypeOK, QueuedCanRun, Fault, planVars, Processes
<1>9. ASSUME LeaseRunsOut PROVE Sense'
  <2>1. lease' \in [op : {0} \union Ops, live : BOOLEAN]  BY <1>9 DEF LeaseRunsOut, TypeOK
  <2>2. overrun' \in Nat /\ acts' \in Nat /\ weeks' \in Nat /\ faults' \in Nat
    BY <1>9 DEF LeaseRunsOut, TypeOK, Fault, bounds
  <2> QED  BY <1>9, <2>1, <2>2 DEF LeaseRunsOut, TypeOK, QueuedCanRun, RunsMakeSense, planVars
<1> QED  BY <1>1, <1>2, <1>3, <1>4, <1>5, <1>6, <1>7, <1>8, <1>9

LEMMA Concluded ==
  ASSUME TypeOK, RunsMakeSense, NEW x \in Processes, run[x].pc \in {"proposed", "copy"},
         NEW outcome \in {"needs_input", "succeeded"}, Concludes(x, outcome)
  PROVE  run' \in [Processes -> RunState] /\ RunsMakeSense'
<1>1. run[x] \in RunState /\ RowMakesSense(x, run[x]) /\ run \in [Processes -> RunState]
  BY DEF TypeOK, RunsMakeSense, Processes
<1>2. CASE run[x].kind = "replan"
  <2> DEFINE s == [run[x] EXCEPT !.pc = "finish", !.seen = Nothing, !.outcome = outcome]
  <2>1. s \in RunState /\ RowMakesSense(x, s)
    <3>1. x \in Workers /\ x \notin Requests
      BY <1>1, <1>2 DEF RowMakesSense, Processes
    <3>2. s \in RunState  BY <1>1, NothingIsTasks DEF RunState
    <3>3. s.pc = "finish" /\ s.kind = run[x].kind /\ s.op = run[x].op /\ s.outcome = outcome
      BY <1>1 DEF RunState
    <3> QED  BY <1>1, <1>2, <3>1, <3>2, <3>3 DEF RowMakesSense
  <2>2. run' = [run EXCEPT ![x] = s]  BY <1>1, <1>2 DEF Concludes
  <2> HIDE DEF s
  <2> QED  BY <2>1, <2>2, GoesOn
<1>3. CASE run[x].kind # "replan"
  <2>1. RowMakesSense(x, Idle)  BY DEF RowMakesSense, Idle
  <2>2. run' = [run EXCEPT ![x] = Idle]  BY <1>1, <1>3 DEF Concludes
  <2> QED  BY <2>1, <2>2, NothingIsTasks, GoesOn
<1> QED  BY <1>2, <1>3

LEMMA TasksCopied ==
  ASSUME NEW seen \in Tasks, NEW tasks \in Tasks
  PROVE  Copied(seen, tasks) \in Tasks
<1> DEFINE Counts == [pending : Nat, completed : Nat, cancelled : Nat]
<1>1. \A i \in Items : seen[i] \in Counts /\ tasks[i] \in Counts  BY DEF Tasks
<1>2. ASSUME NEW a \in Counts, NEW b \in Counts
      PROVE  [b EXCEPT !.pending = @ + a.pending, !.completed = @ + a.completed] \in Counts
  <2>1. b.pending + a.pending \in Nat /\ b.completed + a.completed \in Nat  OBVIOUS
  <2>2. \A m, n \in Nat : [b EXCEPT !.pending = m, !.completed = n] \in Counts  OBVIOUS
  <2> QED  BY <2>1, <2>2
<1> HIDE DEF Counts
<1>3. \A i \in Items : [tasks[i] EXCEPT !.pending = @ + seen[i].pending,
                                      !.completed = @ + seen[i].completed] \in Counts
  BY <1>1, <1>2
<1>4. Copied(seen, tasks) \in [Items -> Counts]  BY <1>3 DEF Copied
<1> QED  BY <1>4 DEF Tasks, Counts

LEMMA SenseReplans ==
  ASSUME Sense
  PROVE  /\ \A w \in Workers : ReadPlan(w) => Sense'
         /\ \A w \in Workers, r \in Revisions : Propose(w, r) => Sense'
         /\ \A q \in Requests, o \in Ops, r \in Revisions : AdjustPlan(q, o, r) => Sense'
         /\ \A x \in Processes : AskUser(x) => Sense'
         /\ \A x \in Processes : BeginReplan(x) => Sense'
         /\ \A x \in Processes : CommitReplan(x) => Sense'
<1> USE DEF Sense
<1>0. /\ TypeOK /\ QueuedCanRun /\ RunsMakeSense
      /\ \A x \in Processes : run[x] \in RunState /\ RowMakesSense(x, run[x])
      /\ run \in [Processes -> RunState] /\ plan.current \in Revisions
  BY DEF TypeOK, RunsMakeSense, Processes
<1>1. ASSUME NEW w \in Workers, ReadPlan(w) PROVE Sense'
  <2> DEFINE s == [run[w] EXCEPT !.pc = "read", !.base = plan.current]
  <2>1. s \in RunState /\ RowMakesSense(w, s)
    <3>1. /\ run[w] \in RunState /\ RowMakesSense(w, run[w])
          /\ run[w].pc = "leased" /\ w \notin Requests
      BY <1>0, <1>1, StudyAssumption DEF ReadPlan, Processes
    <3>2. s \in RunState  BY <1>0, <3>1 DEF RunState
    <3>3. /\ s.pc = "read" /\ s.base = plan.current
          /\ s.kind = run[w].kind /\ s.op = run[w].op
      BY <3>1 DEF RunState
    <3> QED  BY <1>0, <3>1, <3>2, <3>3 DEF RowMakesSense
  <2>2. run' = [run EXCEPT ![w] = s]  BY <1>0, <1>1 DEF ReadPlan
  <2> HIDE DEF s
  <2>3. run' \in [Processes -> RunState] /\ RunsMakeSense'
    BY <1>0, <2>1, <2>2, GoesOn DEF Processes
  <2> QED  BY <1>1, <2>3 DEF ReadPlan, TypeOK, QueuedCanRun, planVars, workVars, bounds, Processes
<1>2. ASSUME NEW w \in Workers, NEW r \in Revisions, Propose(w, r) PROVE Sense'
  <2> DEFINE s == [run[w] EXCEPT !.pc = "proposed", !.rev = r]
  <2>1. s \in RunState /\ RowMakesSense(w, s)
    <3>1. /\ run[w] \in RunState /\ RowMakesSense(w, run[w])
          /\ run[w].pc = "read" /\ w \notin Requests
      BY <1>0, <1>2, StudyAssumption DEF Propose, Processes
    <3>2. s \in RunState  BY <3>1 DEF RunState
    <3>3. /\ s.pc = "proposed" /\ s.rev = r /\ s.base = run[w].base
          /\ s.kind = run[w].kind /\ s.op = run[w].op
      BY <3>1 DEF RunState
    <3> QED  BY <1>0, <3>1, <3>2, <3>3 DEF RowMakesSense
  <2>2. run' = [run EXCEPT ![w] = s]  BY <1>0, <1>2 DEF Propose
  <2> HIDE DEF s
  <2>3. run' \in [Processes -> RunState] /\ RunsMakeSense'
    BY <1>0, <2>1, <2>2, GoesOn DEF Processes
  <2>4. run[w].op \in {0} \union Ops /\ run[w].base \in {0} \union Revisions
    BY <1>0 DEF RunState, Processes
  <2>5. rev' \in [Revisions -> RevisionRow]
    BY <1>0, <1>2, <2>4 DEF Propose, NewRevision, TypeOK, RevisionRow
  <2> QED  BY <1>2, <2>3, <2>5 DEF Propose, TypeOK, QueuedCanRun, workVars, bounds, Processes
<1>3. ASSUME NEW q \in Requests, NEW o \in Ops, NEW r \in Revisions, AdjustPlan(q, o, r)
      PROVE Sense'
  <2> DEFINE s == [Idle EXCEPT !.pc = "proposed", !.kind = "adjust", !.op = o, !.rev = r,
                              !.base = plan.current]
  <2>1. s \in RunState /\ RowMakesSense(q, s)
    BY <1>0, NothingIsTasks, StudyAssumption DEF RunState, RowMakesSense, Idle
  <2>2. run' = [run EXCEPT ![q] = s]  BY <1>3 DEF AdjustPlan
  <2> HIDE DEF s
  <2>3. run' \in [Processes -> RunState] /\ RunsMakeSense'
    BY <1>0, <2>1, <2>2, GoesOn DEF Processes
  <2>5. rev' \in [Revisions -> RevisionRow]
    BY <1>0, <1>3 DEF AdjustPlan, NewRevision, TypeOK, RevisionRow
  <2>6. op' \in [Ops -> OperationRow] /\ QueuedCanRun'
    BY <1>0, <1>3, OpsWritten DEF AdjustPlan
  <2>7. plan' \in [status : {"draft", "active", "paused", "archived"}, version : Nat,
                   current : Revisions]
    BY <1>3 DEF AdjustPlan, TypeOK
  <2>8. acts' \in Nat /\ weeks' \in Nat /\ faults' \in Nat
    BY <1>3 DEF AdjustPlan, Act, TypeOK
  <2> QED  BY <1>3, <2>3, <2>5, <2>6, <2>7, <2>8 DEF AdjustPlan, TypeOK, workVars, Processes
<1>4. ASSUME NEW x \in Processes, AskUser(x) PROVE Sense'
  <2>1. run' \in [Processes -> RunState] /\ RunsMakeSense'
    BY <1>0, <1>4, Concluded DEF AskUser
  <2>2. op' \in [Ops -> OperationRow] /\ QueuedCanRun'
    BY <1>0, <1>4, OpsWritten DEF AskUser
  <2> QED  BY <1>4, <2>1, <2>2 DEF AskUser, TypeOK, planVars, workVars, bounds, Processes
<1>5. ASSUME NEW x \in Processes, BeginReplan(x) PROVE Sense'
  <2> DEFINE s == [run[x] EXCEPT !.pc = "copy", !.seen = task[run[x].base]]
  <2>1. task[run[x].base] \in Tasks
    BY <1>0, <1>5 DEF BeginReplan, RowMakesSense, TypeOK
  <2>2. s \in RunState /\ RowMakesSense(x, s)
    <3>1. run[x] \in RunState /\ RowMakesSense(x, run[x]) /\ run[x].pc = "proposed"
      BY <1>0, <1>5 DEF BeginReplan
    <3>2. s \in RunState  BY <2>1, <3>1 DEF RunState
    <3>3. /\ s.pc = "copy" /\ s.rev = run[x].rev /\ s.base = run[x].base
          /\ s.kind = run[x].kind /\ s.op = run[x].op
      BY <3>1 DEF RunState
    <3> QED  BY <3>1, <3>2, <3>3 DEF RowMakesSense
  <2>3. run' = [run EXCEPT ![x] = s]  BY <1>0, <1>5 DEF BeginReplan
  <2> HIDE DEF s
  <2>4. run' \in [Processes -> RunState] /\ RunsMakeSense'
    BY <1>0, <2>2, <2>3, GoesOn
  <2> QED  BY <1>5, <2>4 DEF BeginReplan, TypeOK, QueuedCanRun, planVars, workVars, bounds, Processes
<1>6. ASSUME NEW x \in Processes, CommitReplan(x) PROVE Sense'
  <2>1. run[x].rev \in Revisions /\ run[x].base \in Revisions /\ run[x].seen \in Tasks
    BY <1>0, <1>6 DEF CommitReplan, RowMakesSense, RunState
  <2>2. run' \in [Processes -> RunState] /\ RunsMakeSense'
    BY <1>0, <1>6, Concluded DEF CommitReplan
  <2>3. op' \in [Ops -> OperationRow] /\ QueuedCanRun'
    BY <1>0, <1>6, OpsWritten DEF CommitReplan
  <2>4. rev' \in [Revisions -> RevisionRow]
    <3>1. rev \in [Revisions -> RevisionRow]  BY <1>0 DEF TypeOK
    <3>2. rev' = Replaced(run[x].rev, run[x].base)  BY <1>6 DEF CommitReplan
    <3> QED  BY <2>1, <3>1, <3>2, ReplacedRows
  <2>5. task' \in [Revisions -> Tasks]
    BY <1>0, <1>6, <2>1, TasksCopied DEF CommitReplan, TypeOK
  <2>6. plan' \in [status : {"draft", "active", "paused", "archived"}, version : Nat,
                   current : Revisions]
    BY <1>6, <2>1 DEF CommitReplan, TypeOK
  <2>7. crossed' \in BOOLEAN  BY <1>6, Zenon DEF CommitReplan
  <2> QED
    BY <1>6, <2>2, <2>3, <2>4, <2>5, <2>6, <2>7
    DEF CommitReplan, TypeOK, workVars, bounds, Processes
<1> QED  BY <1>1, <1>2, <1>3, <1>4, <1>5, <1>6

LEMMA SenseDecisions ==
  ASSUME Sense
  PROVE  /\ \A q \in Requests, kind \in {"accept", "reject", "activate"}, r \in Revisions :
              AskDecision(q, kind, r) => Sense'
         /\ \A q \in Requests : Refuse(q) => Sense'
         /\ \A q \in Requests : Reject(q) => Sense'
         /\ \A q \in Requests : BeginAccept(q) => Sense'
         /\ \A q \in Requests : CommitAccept(q) => Sense'
         /\ \A q \in Requests : Activate(q) => Sense'
         /\ \A q \in Requests : RequestFails(q) => Sense'
<1> USE DEF Sense
<1>0. /\ TypeOK /\ QueuedCanRun /\ RunsMakeSense
      /\ \A q \in Requests : q \in Processes /\ q \notin Workers
      /\ \A x \in Processes : run[x] \in RunState /\ RowMakesSense(x, run[x])
      /\ run \in [Processes -> RunState] /\ plan.current \in Revisions
  BY StudyAssumption DEF TypeOK, RunsMakeSense, Processes
<1>a. ASSUME NEW q \in Requests, run' = [run EXCEPT ![q] = Idle]
      PROVE  run' \in [Processes -> RunState] /\ RunsMakeSense'
  <2>1. RowMakesSense(q, Idle)  BY DEF RowMakesSense, Idle
  <2> QED  BY <1>0, <1>a, <2>1, NothingIsTasks, GoesOn
<1>1. ASSUME NEW q \in Requests, NEW kind \in {"accept", "reject", "activate"},
             NEW r \in Revisions, AskDecision(q, kind, r)
      PROVE Sense'
  <2> DEFINE s == [Idle EXCEPT !.pc = "asked", !.kind = kind, !.rev = r, !.op = rev[r].op,
                              !.base = plan.current, !.version = plan.version]
  <2>1. rev[r].op \in {0} \union Ops /\ plan.version \in Nat
    BY <1>0 DEF TypeOK, RevisionRow
  <2>2. s \in RunState /\ RowMakesSense(q, s)
    BY <1>0, <2>1, NothingIsTasks DEF RunState, RowMakesSense, Idle
  <2>3. run' = [run EXCEPT ![q] = s]  BY <1>1 DEF AskDecision
  <2> HIDE DEF s
  <2>4. run' \in [Processes -> RunState] /\ RunsMakeSense'
    BY <1>0, <2>2, <2>3, GoesOn
  <2> QED  BY <1>1, <2>4 DEF AskDecision, TypeOK, QueuedCanRun, planVars, workVars, bounds, Processes
<1>2. ASSUME NEW q \in Requests, Refuse(q) PROVE Sense'
  <2>1. run' \in [Processes -> RunState] /\ RunsMakeSense'  BY <1>a, <1>2 DEF Refuse
  <2> QED  BY <1>2, <2>1 DEF Refuse, TypeOK, QueuedCanRun, planVars, workVars, bounds, Processes
<1>3. ASSUME NEW q \in Requests, Reject(q) PROVE Sense'
  <2>1. run' \in [Processes -> RunState] /\ RunsMakeSense'  BY <1>a, <1>3 DEF Reject
  <2>2. op' \in [Ops -> OperationRow] /\ QueuedCanRun'
    <3>1. CASE run[q].op = 0  BY <1>0, <1>3, <3>1 DEF Reject, QueuedCanRun, TypeOK
    <3>2. CASE run[q].op # 0  BY <1>0, <1>3, <3>2, OpsWritten DEF Reject
    <3> QED  BY <3>1, <3>2
  <2>3. rev' \in [Revisions -> RevisionRow]
    <3>1. run[q].rev \in Revisions  BY <1>0, <1>3 DEF Reject, Goes, RowMakesSense
    <3> QED  BY <1>3, <3>1 DEF Reject, TypeOK, RevisionRow
  <2>4. plan' \in [status : {"draft", "active", "paused", "archived"}, version : Nat,
                   current : Revisions]
    BY <1>3 DEF Reject, TypeOK
  <2> QED  BY <1>3, <2>1, <2>2, <2>3, <2>4 DEF Reject, TypeOK, workVars, bounds, Processes
<1>4. ASSUME NEW q \in Requests, BeginAccept(q) PROVE Sense'
  <2>1. /\ run[q].rev \in Revisions /\ run[q].base \in Revisions
        /\ rev[run[q].rev].base \in {0} \union Revisions
    BY <1>0, <1>4 DEF BeginAccept, Goes, RowMakesSense, TypeOK, RevisionRow
  <2> DEFINE seen == IF rev[run[q].rev].base = 0 THEN Nothing ELSE task[rev[run[q].rev].base]
  <2>2. seen \in Tasks  BY <1>0, <2>1, NothingIsTasks DEF TypeOK
  <2> HIDE DEF seen
  <2> DEFINE s == [run[q] EXCEPT !.pc = "copy", !.seen = seen]
  <2>3. s \in RunState /\ RowMakesSense(q, s)
    BY <1>0, <1>4, <2>1, <2>2 DEF RunState, RowMakesSense, BeginAccept, Goes
  <2>4. run' = [run EXCEPT ![q] = s]  BY <1>0, <1>4 DEF BeginAccept, seen
  <2> HIDE DEF s
  <2>5. run' \in [Processes -> RunState] /\ RunsMakeSense'
    BY <1>0, <2>3, <2>4, GoesOn
  <2> QED  BY <1>4, <2>5 DEF BeginAccept, TypeOK, QueuedCanRun, planVars, workVars, bounds, Processes
<1>5. ASSUME NEW q \in Requests, CommitAccept(q) PROVE Sense'
  <2>1. run[q].rev \in Revisions /\ run[q].base \in Revisions /\ run[q].seen \in Tasks
    BY <1>0, <1>5 DEF CommitAccept, RowMakesSense, RunState
  <2>2. run' \in [Processes -> RunState] /\ RunsMakeSense'  BY <1>a, <1>5 DEF CommitAccept
  <2>3. op' \in [Ops -> OperationRow] /\ QueuedCanRun'
    <3>1. CASE run[q].op = 0  BY <1>0, <1>5, <3>1 DEF CommitAccept, QueuedCanRun, TypeOK
    <3>2. CASE run[q].op # 0  BY <1>0, <1>5, <3>2, OpsWritten DEF CommitAccept
    <3> QED  BY <3>1, <3>2
  <2>4. rev' \in [Revisions -> RevisionRow]
    <3>1. rev \in [Revisions -> RevisionRow]  BY <1>0 DEF TypeOK
    <3>2. rev' = Replaced(run[q].rev, run[q].base)  BY <1>5 DEF CommitAccept
    <3> QED  BY <2>1, <3>1, <3>2, ReplacedRows
  <2>5. task' \in [Revisions -> Tasks]
    BY <1>0, <1>5, <2>1, TasksCopied DEF CommitAccept, TypeOK
  <2>6. plan' \in [status : {"draft", "active", "paused", "archived"}, version : Nat,
                   current : Revisions]
    <3>1. plan.version + 1 \in Nat  BY DEF TypeOK
    <3>2. \A n \in Nat, r \in Revisions :
            [plan EXCEPT !.version = n, !.current = r]
              \in [status : {"draft", "active", "paused", "archived"}, version : Nat,
                  current : Revisions]
      BY DEF TypeOK
    <3> QED  BY <1>5, <2>1, <3>1, <3>2 DEF CommitAccept
  <2>7. crossed' \in BOOLEAN  BY <1>5, Zenon DEF CommitAccept
  <2>8. done' \subseteq Items  BY <1>5 DEF CommitAccept, TypeOK
  <2> QED
    BY <1>5, <2>2, <2>3, <2>4, <2>5, <2>6, <2>7, <2>8
    DEF CommitAccept, TypeOK, workVars, bounds, Processes
<1>6. ASSUME NEW q \in Requests, Activate(q) PROVE Sense'
  <2>1. run[q].rev \in Revisions
    BY <1>0, <1>6 DEF Activate, Goes, RowMakesSense
  <2>2. run' \in [Processes -> RunState] /\ RunsMakeSense'  BY <1>a, <1>6 DEF Activate
  <2>3. rev' \in [Revisions -> RevisionRow]
    BY <1>0, <1>6, <2>1 DEF Activate, TypeOK, RevisionRow
  <2>4. plan' \in [status : {"draft", "active", "paused", "archived"}, version : Nat,
                   current : Revisions]
    BY <1>6, <2>1 DEF Activate, TypeOK
  <2>5. crossed' \in BOOLEAN  BY <1>6, Zenon DEF Activate
  <2> QED
    BY <1>6, <2>2, <2>3, <2>4, <2>5
    DEF Activate, TypeOK, QueuedCanRun, workVars, bounds, Processes
<1>7. ASSUME NEW q \in Requests, RequestFails(q) PROVE Sense'
  <2>1. run' \in [Processes -> RunState] /\ RunsMakeSense'  BY <1>a, <1>7 DEF RequestFails
  <2>2. lost' \subseteq Ops
    <3>1. run[q].kind = "adjust" => run[q].op \in Ops  BY <1>0 DEF RowMakesSense
    <3> QED  BY <1>7, <3>1 DEF RequestFails, TypeOK
  <2> QED
    BY <1>7, <2>1, <2>2
    DEF RequestFails, Fault, TypeOK, QueuedCanRun, planVars, workVars, Processes
<1> QED  BY <1>1, <1>2, <1>3, <1>4, <1>5, <1>6, <1>7

LEMMA SensePlans ==
  ASSUME Sense
  PROVE  /\ PauseOrResume => Sense'
         /\ Archive => Sense'
         /\ \A r \in Revisions, i \in Items : CompleteTask(r, i) => Sense'
         /\ \A r \in Revisions, i \in Items : ReopenTask(r, i) => Sense'
<1> USE DEF Sense
<1>0. TypeOK /\ QueuedCanRun /\ RunsMakeSense /\ task \in [Revisions -> Tasks]
  BY DEF TypeOK
<1>a. /\ plan.version + 1 \in Nat
      /\ \A n \in Nat, status \in {"active", "paused", "archived"} :
           [plan EXCEPT !.status = status, !.version = n]
             \in [status : {"draft", "active", "paused", "archived"}, version : Nat,
                 current : Revisions]
  <2>1. plan \in [status : {"draft", "active", "paused", "archived"}, version : Nat,
                  current : Revisions]
    BY TypeParts, <1>0
  <2>2. plan.version + 1 \in Nat  BY <2>1
  <2>3. ASSUME NEW n \in Nat, NEW status \in {"active", "paused", "archived"}
        PROVE  [plan EXCEPT !.status = status, !.version = n]
                 \in [status : {"draft", "active", "paused", "archived"}, version : Nat,
                     current : Revisions]
    BY <2>1
  <2> QED  BY <2>2, <2>3
<1>1. ASSUME PauseOrResume PROVE Sense'
  <2>1. plan' \in [status : {"draft", "active", "paused", "archived"}, version : Nat,
                   current : Revisions]
    <3>1. \/ plan' = [plan EXCEPT !.status = "paused", !.version = @ + 1]
          \/ plan' = [plan EXCEPT !.status = "active", !.version = @ + 1]
      BY <1>1 DEF PauseOrResume
    <3> QED  BY <1>a, <3>1
  <2>2. acts' \in Nat /\ weeks' \in Nat /\ faults' \in Nat
    BY <1>1 DEF PauseOrResume, Act, bounds, TypeOK
  <2> QED
    BY <1>1, <2>1, <2>2 DEF PauseOrResume, TypeOK, QueuedCanRun, RunsMakeSense, workVars
<1>2. ASSUME Archive PROVE Sense'
  <2>a. /\ plan' = [plan EXCEPT !.status = "archived", !.version = @ + 1]
        /\ task' = [r \in Revisions |-> [i \in Items |->
                     [task[r][i] EXCEPT !.cancelled = @ + task[r][i].pending, !.pending = 0]]]
        /\ acts' = acts + 1 /\ weeks' = weeks /\ faults' = faults
        /\ UNCHANGED <<rev, done, late, crossed, op, workVars, lost, run>>
    BY <1>2 DEF Archive, Act
  <2>1. plan' \in [status : {"draft", "active", "paused", "archived"}, version : Nat,
                   current : Revisions]
    BY <1>a, <2>a
  <2>2. acts' \in Nat /\ weeks' \in Nat /\ faults' \in Nat
    <3>1. acts \in Nat /\ weeks \in Nat /\ faults \in Nat  BY TypeParts, <1>0
    <3>2. acts' = acts + 1 /\ weeks' = weeks /\ faults' = faults  BY <2>a, Zenon
    <3> QED  BY <3>1, <3>2
  <2>3. task' \in [Revisions -> Tasks]
    <3> DEFINE Counts == [pending : Nat, completed : Nat, cancelled : Nat]
    <3>1. \A r \in Revisions, i \in Items : task[r][i] \in Counts  BY <1>0 DEF Tasks
    <3>2. \A c \in Counts, n \in Nat : [c EXCEPT !.cancelled = n, !.pending = 0] \in Counts
      OBVIOUS
    <3>3. \A c \in Counts : c.cancelled + c.pending \in Nat  OBVIOUS
    <3> HIDE DEF Counts
    <3>4. \A r \in Revisions, i \in Items :
            [task[r][i] EXCEPT !.cancelled = @ + task[r][i].pending, !.pending = 0] \in Counts
      BY <3>1, <3>2, <3>3
    <3>5. task' \in [Revisions -> [Items -> Counts]]  BY <2>a, <3>4
    <3> QED  BY <3>5 DEF Tasks, Counts
  <2> QED
    BY <2>a, <2>1, <2>2, <2>3 DEF TypeOK, QueuedCanRun, RunsMakeSense, workVars
<1>3. ASSUME NEW r \in Revisions, NEW i \in Items, CompleteTask(r, i) PROVE Sense'
  <2>1. task' \in [Revisions -> Tasks]
    <3>1. task[r] \in Tasks /\ task[r][i].pending \in Nat \ {0} /\ task[r][i].completed \in Nat
      BY <1>0, <1>3 DEF CompleteTask, Tasks
    <3>2. task[r][i].pending - 1 \in Nat /\ task[r][i].completed + 1 \in Nat  BY <3>1
    <3>3. \A m, n \in Nat : [task[r][i] EXCEPT !.pending = m, !.completed = n]
                              \in [pending : Nat, completed : Nat, cancelled : Nat]
      BY <3>1 DEF Tasks
    <3> DEFINE c == [task[r][i] EXCEPT !.pending = @ - 1, !.completed = @ + 1]
    <3>4. c \in [pending : Nat, completed : Nat, cancelled : Nat]  BY <3>2, <3>3
    <3>5. task' = [task EXCEPT ![r] = [task[r] EXCEPT ![i] = c]]
      BY <1>0, <1>3, <3>1 DEF CompleteTask, Tasks
    <3> HIDE DEF c
    <3> QED  BY <1>0, <3>1, <3>4, <3>5 DEF Tasks
  <2>2. acts' \in Nat /\ weeks' \in Nat /\ faults' \in Nat
    BY <1>3 DEF CompleteTask, Act, TypeOK
  <2>3. done' \subseteq Items /\ late' \subseteq Items  BY <1>3 DEF CompleteTask, TypeOK
  <2> QED
    BY <1>3, <2>1, <2>2, <2>3 DEF CompleteTask, TypeOK, QueuedCanRun, RunsMakeSense, workVars
<1>4. ASSUME NEW r \in Revisions, NEW i \in Items, ReopenTask(r, i) PROVE Sense'
  <2>1. task' \in [Revisions -> Tasks]
    <3>1. task[r] \in Tasks /\ task[r][i].completed \in Nat \ {0} /\ task[r][i].pending \in Nat
      BY <1>0, <1>4 DEF ReopenTask, Tasks
    <3>2. task[r][i].pending + 1 \in Nat /\ task[r][i].completed - 1 \in Nat  BY <3>1
    <3>3. \A m, n \in Nat : [task[r][i] EXCEPT !.pending = m, !.completed = n]
                              \in [pending : Nat, completed : Nat, cancelled : Nat]
      BY <3>1 DEF Tasks
    <3> DEFINE c == [task[r][i] EXCEPT !.pending = @ + 1, !.completed = @ - 1]
    <3>4. c \in [pending : Nat, completed : Nat, cancelled : Nat]  BY <3>2, <3>3
    <3>5. task' = [task EXCEPT ![r] = [task[r] EXCEPT ![i] = c]]
      BY <1>0, <1>4, <3>1 DEF ReopenTask, Tasks
    <3> HIDE DEF c
    <3> QED  BY <1>0, <3>1, <3>4, <3>5 DEF Tasks
  <2>3. done' \subseteq Items  BY <1>4 DEF ReopenTask, TypeOK
  <2> QED
    BY <1>4, <2>1, <2>3 DEF ReopenTask, TypeOK, QueuedCanRun, RunsMakeSense, workVars, bounds
<1> QED  BY <1>1, <1>2, <1>3, <1>4

LEMMA SenseStep == Sense /\ [Next]_vars => Sense'
<1> SUFFICES ASSUME Sense, [Next]_vars PROVE Sense'  OBVIOUS
<1>1. CASE UNCHANGED vars
  BY <1>1 DEF vars, planVars, workVars, bounds, Sense, TypeOK, QueuedCanRun, RunsMakeSense
<1>2. CASE Next
  <2>1. \A w \in Workers : todo[w] \subseteq Ops  BY DEF Sense, TypeOK
  <2> QED
    BY <1>2, <2>1, SenseOperations, SenseReplans, SenseDecisions, SensePlans
    DEF Next, Work, Replan, Decide, Processes
<1> QED  BY <1>1, <1>2

(* The rows and the history have their types, and no operation is tried    *)
(* more often than it may be.                                              *)
THEOREM TypeCorrect == Spec => []TypeOK
<1>1. Sense => TypeOK  BY DEF Sense
<1> QED  BY <1>1, SenseInit, SenseStep, PTL DEF Spec

(* ---- one at a time ---------------------------------------------------- *)

LEMMA ExecutingFinite ==
  /\ IsFiniteSet(Executing) /\ Cardinality(Executing) \in Nat
  /\ \A w : IsFiniteSet(Executing \ {w}) /\ Cardinality(Executing \ {w}) \in Nat
<1>1. Executing \subseteq Workers  BY DEF Executing
<1>2. IsFiniteSet(Executing)  BY <1>1, StudyAssumption, FS_Subset
<1>3. \A w : IsFiniteSet(Executing \ {w})  BY <1>2, FS_Subset
<1> QED  BY <1>2, <1>3, FS_CardinalityType

(* A step in which no execution begins or ends, and no lease changes *)
LEMMA Calm ==
  ASSUME Accounted, UNCHANGED <<lease, overrun>>,
         \A w \in Workers :
            (run'[w].pc = "idle" <=> run[w].pc = "idle") /\ run'[w].op = run[w].op
  PROVE  Accounted'
<1>0. \A w \in Workers : (run'[w].pc # "idle") <=> (run[w].pc # "idle")  OBVIOUS
<1>1. Executing' = Executing  BY <1>0 DEF Executing, Working
<1>2. \A w \in Executing : run'[w].op = run[w].op  BY DEF Executing
<1>3. Covered' <=> Covered  BY <1>1, <1>2 DEF Covered
<1> QED  BY <1>1, <1>3 DEF Accounted

(* An execution ends, and perhaps the lease that covers it with it. *)
LEMMA OneEnds ==
  ASSUME Accounted, overrun \in Nat, overrun' = overrun, NEW w \in Executing,
         \A v \in Workers \ {w} : run'[v] = run[v],
         run'[w].pc = "idle",
         lease' = lease \/ (lease'.live = FALSE /\ lease.op = run[w].op)
  PROVE  Accounted'
<1>1. Executing' = Executing \ {w}  BY DEF Executing, Working
<1>2. Cardinality(Executing') = Cardinality(Executing) - 1
  BY <1>1, ExecutingFinite, FS_RemoveElement
<1>3. Cardinality(Executing) <= overrun + 1 /\ (~Covered => Cardinality(Executing) <= overrun)
  BY ExecutingFinite DEF Accounted
<1>4. Covered' => Covered
  BY <1>1 DEF Covered, Executing
<1>5. Cardinality(Executing') <= overrun /\ Cardinality(Executing') \in Nat
  BY <1>1, <1>2, <1>3, ExecutingFinite
<1> QED  BY <1>5 DEF Accounted

LEMMA AccountedInit == Init => Accounted
<1> SUFFICES ASSUME Init PROVE Accounted  OBVIOUS
<1>1. Executing = {}  BY DEF Init, Executing, Working, Idle
<1>2. Cardinality(Executing) = 0  BY <1>1, FS_EmptySet
<1> QED  BY <1>2 DEF Accounted, Init

LEMMA AccountedWork ==
  ASSUME Sense, Accounted
  PROVE  /\ \A w \in Workers, o \in Ops : AcquireLease(w, o) => Accounted'
         /\ \A w \in Workers : ReleaseLease(w) => Accounted'
         /\ \A w \in Workers : CrashWorker(w) => Accounted'
         /\ LeaseRunsOut => Accounted'
<1>0. /\ run \in [Processes -> RunState] /\ overrun \in Nat
      /\ \A w \in Workers : w \in Processes /\ RowMakesSense(w, run[w])
      /\ \A w \in Executing : w \in Workers /\ run[w].op \in Ops
  BY TypeParts DEF Sense, Processes, RunsMakeSense, Executing, Working, RowMakesSense
<1>1. ASSUME NEW w \in Workers, NEW o \in Ops, AcquireLease(w, o) PROVE Accounted'
  <2>1. ~Covered
    BY <1>0, <1>1, Numbers DEF AcquireLease, LeaseFree, Covered
  <2>2. w \notin Executing /\ Executing' = Executing \union {w} /\ run'[w].op = o
    BY <1>0, <1>1 DEF AcquireLease, Executing, Working, Idle
  <2>3. Cardinality(Executing') = Cardinality(Executing) + 1
    BY <2>2, ExecutingFinite, FS_AddElement
  <2>4. Covered'  BY <1>1, <2>2 DEF Covered, AcquireLease
  <2>5. Cardinality(Executing) <= overrun  BY <2>1, <1>0 DEF Accounted
  <2>6. Cardinality(Executing') <= overrun + 1  BY <2>3, <2>5, <1>0, ExecutingFinite
  <2>7. overrun' = overrun  BY <1>1 DEF AcquireLease
  <2> QED  BY <2>4, <2>6, <2>7 DEF Accounted
<1>2. ASSUME NEW w \in Workers, ReleaseLease(w) PROVE Accounted'
  <2>1. w \in Executing /\ run'[w].pc = "idle" /\ overrun' = overrun
    BY <1>0, <1>2 DEF ReleaseLease, Executing, Working, Idle
  <2>2. \A v \in Workers \ {w} : run'[v] = run[v]  BY <1>0, <1>2 DEF ReleaseLease
  <2>3. lease' = lease \/ (lease'.live = FALSE /\ lease.op = run[w].op)
    BY <1>2 DEF ReleaseLease
  <2> QED  BY <1>0, <2>1, <2>2, <2>3, OneEnds
<1>3. ASSUME NEW w \in Workers, CrashWorker(w) PROVE Accounted'
  <2>1. run'[w].pc = "idle" /\ overrun' = overrun /\ lease' = lease
    BY <1>0, <1>3 DEF CrashWorker, Idle
  <2>2. \A v \in Workers \ {w} : run'[v] = run[v]  BY <1>0, <1>3 DEF CrashWorker
  <2>3. CASE w \in Executing  BY <1>0, <2>1, <2>2, <2>3, OneEnds
  <2>4. CASE w \notin Executing
    <3>1. Executing' = Executing  BY <2>1, <2>2, <2>4 DEF Executing, Working
    <3>2. Covered' = Covered  BY <2>1, <2>2, <2>4, <3>1, <1>0 DEF Covered
    <3> QED  BY <2>1, <3>1, <3>2 DEF Accounted
  <2> QED  BY <2>3, <2>4
<1>4. ASSUME LeaseRunsOut PROVE Accounted'
  <2>a. run' = run /\ lease.live /\ lease' = [lease EXCEPT !.live = FALSE]
    BY <1>4 DEF LeaseRunsOut
  <2>b. lease \in [op : {0} \union Ops, live : BOOLEAN]  BY TypeParts DEF Sense
  <2>1. Executing' = Executing /\ lease.live /\ ~lease'.live
    BY <2>a, <2>b DEF Executing, Working
  <2>2. ~Covered'  BY <2>1 DEF Covered
  <2>3. CASE Covered
    <3>1. overrun' = overrun + 1
      BY <1>4, <2>3 DEF LeaseRunsOut, Covered, Executing
    <3> QED  BY <1>0, <2>1, <2>2, <2>3, <3>1 DEF Accounted
  <2>4. CASE ~Covered
    <3>1. overrun' = overrun
      BY <1>4, <2>1, <2>4 DEF LeaseRunsOut, Covered, Executing
    <3> QED  BY <2>1, <2>2, <2>4, <3>1 DEF Accounted
  <2> QED  BY <2>3, <2>4
<1> QED  BY <1>1, <1>2, <1>3, <1>4

(* Nothing else begins or ends an execution or touches the lease. *)
LEMMA OthersCalm ==
  ASSUME Sense, NEW w \in Workers
  PROVE  LET Same == /\ run'[w].pc = "idle" <=> run[w].pc = "idle"
                     /\ run'[w].op = run[w].op
                     /\ UNCHANGED <<lease, overrun>>
         IN /\ \A o \in Ops : WeeklyReplan(o) => Same
            /\ \A v \in Workers : ClaimBatch(v) => Same
            /\ \A v \in Workers, o \in Ops : LeaseBusy(v, o) => Same
            /\ \A v \in Workers : ReadPlan(v) => Same
            /\ \A v \in Workers, r \in Revisions : Propose(v, r) => Same
            /\ \A v \in Workers : FinishOperation(v) => Same
            /\ \A v \in Workers : ExecutionRaises(v) => Same
            /\ \A x \in Processes : Replan(x) => Same
            /\ \A q \in Requests, o \in Ops, r \in Revisions : AdjustPlan(q, o, r) => Same
            /\ \A q \in Requests, kind \in {"accept", "reject", "activate"}, r \in Revisions :
                 AskDecision(q, kind, r) => Same
            /\ \A q \in Requests : Decide(q) => Same
            /\ \A q \in Requests : RequestFails(q) => Same
            /\ (PauseOrResume \/ Archive => Same)
            /\ \A r \in Revisions, i \in Items : CompleteTask(r, i) \/ ReopenTask(r, i) => Same
<1> DEFINE Same == /\ run'[w].pc = "idle" <=> run[w].pc = "idle"
                   /\ run'[w].op = run[w].op
                   /\ UNCHANGED <<lease, overrun>>
<1>0. /\ run \in [Processes -> RunState] /\ w \in Processes /\ w \notin Requests
      /\ \A v \in Workers : v \in Processes
      /\ \A x \in Processes : run[x] \in RunState
      /\ (run[w].kind = "replan" \/ run[w].pc = "idle")
  BY TypeParts, StudyAssumption DEF Sense, RunsMakeSense, RowMakesSense, Processes
<1>1. /\ \A o \in Ops : WeeklyReplan(o) => Same
      /\ \A v \in Workers : ClaimBatch(v) => Same
      /\ \A v \in Workers, o \in Ops : LeaseBusy(v, o) => Same
      /\ (PauseOrResume \/ Archive => Same)
      /\ \A r \in Revisions, i \in Items : CompleteTask(r, i) \/ ReopenTask(r, i) => Same
  <2>0. UNCHANGED <<run, lease, overrun>> => Same  OBVIOUS
  <2> HIDE DEF Same
  <2>1. \A o \in Ops : WeeklyReplan(o) => Same  BY <2>0 DEF WeeklyReplan, workVars
  <2>2. \A v \in Workers : ClaimBatch(v) => Same  BY <2>0 DEF ClaimBatch
  <2>3. \A v \in Workers, o \in Ops : LeaseBusy(v, o) => Same  BY <2>0 DEF LeaseBusy
  <2>4. PauseOrResume => Same  BY <2>0 DEF PauseOrResume, workVars
  <2>5. Archive => Same  BY <2>0 DEF Archive, workVars
  <2>6. \A r \in Revisions, i \in Items : CompleteTask(r, i) => Same
    BY <2>0 DEF CompleteTask, workVars
  <2>7. \A r \in Revisions, i \in Items : ReopenTask(r, i) => Same
    BY <2>0 DEF ReopenTask, workVars
  <2> QED  BY <2>1, <2>2, <2>3, <2>4, <2>5, <2>6, <2>7
<1>2. \A v \in Workers : ReadPlan(v) => Same  BY <1>0 DEF ReadPlan, workVars, RunState
<1>3. \A v \in Workers, r \in Revisions : Propose(v, r) => Same
  BY <1>0 DEF Propose, workVars, RunState
<1>4. \A v \in Workers : FinishOperation(v) => Same
  BY <1>0 DEF FinishOperation, workVars, RunState
<1>5. \A v \in Workers : ExecutionRaises(v) => Same
  BY <1>0 DEF ExecutionRaises, workVars, RunState
<1>6. ASSUME NEW x \in Processes, NEW outcome, Concludes(x, outcome), run[x].pc # "idle"
      PROVE  (run'[w].pc = "idle" <=> run[w].pc = "idle") /\ run'[w].op = run[w].op
  BY <1>0, <1>6 DEF Concludes, RunState
<1>7. \A x \in Processes : Replan(x) => Same
  <2>1. \A x \in Processes : AskUser(x) => Same
    BY <1>6 DEF AskUser, workVars
  <2>2. \A x \in Processes : BeginReplan(x) => Same
    BY <1>0 DEF BeginReplan, workVars, RunState
  <2>3. \A x \in Processes : CommitReplan(x) => Same
    BY <1>6 DEF CommitReplan, workVars
  <2> QED  BY <2>1, <2>2, <2>3 DEF Replan
<1>8. \A q \in Requests : run'[w] = run[w] /\ UNCHANGED workVars => Same  BY DEF workVars
<1> HIDE DEF Same
<1>9. \A q \in Requests, o \in Ops, r \in Revisions : AdjustPlan(q, o, r) => Same
  BY <1>0, <1>8 DEF AdjustPlan
<1>10. \A q \in Requests, kind \in {"accept", "reject", "activate"}, r \in Revisions :
          AskDecision(q, kind, r) => Same
  BY <1>0, <1>8 DEF AskDecision
<1>11. \A q \in Requests : Decide(q) => Same
  <2>1. \A q \in Requests : Refuse(q) => Same  BY <1>0, <1>8 DEF Refuse
  <2>2. \A q \in Requests : Reject(q) => Same  BY <1>0, <1>8 DEF Reject
  <2>3. \A q \in Requests : BeginAccept(q) => Same  BY <1>0, <1>8 DEF BeginAccept
  <2>4. \A q \in Requests : CommitAccept(q) => Same  BY <1>0, <1>8 DEF CommitAccept
  <2>5. \A q \in Requests : Activate(q) => Same  BY <1>0, <1>8 DEF Activate
  <2> QED  BY <2>1, <2>2, <2>3, <2>4, <2>5 DEF Decide
<1>12. \A q \in Requests : RequestFails(q) => Same  BY <1>0, <1>8 DEF RequestFails
<1> QED
  BY <1>1, <1>2, <1>3, <1>4, <1>5, <1>7, <1>9, <1>10, <1>11, <1>12 DEF Same

LEMMA AccountedStep == Sense /\ Accounted /\ [Next]_vars => Accounted'
<1> SUFFICES ASSUME Sense, Accounted, [Next]_vars PROVE Accounted'  OBVIOUS
<1>1. CASE UNCHANGED vars
  BY <1>1, Calm DEF vars, workVars
<1>2. CASE Next
  <2>1. \A w \in Workers : todo[w] \subseteq Ops  BY DEF Sense, TypeOK
  <2> DEFINE Same(w) == /\ run'[w].pc = "idle" <=> run[w].pc = "idle"
                        /\ run'[w].op = run[w].op
                        /\ UNCHANGED <<lease, overrun>>
  <2>2. CASE \/ \E w \in Workers, o \in Ops : AcquireLease(w, o)
             \/ \E w \in Workers : ReleaseLease(w) \/ CrashWorker(w)
             \/ LeaseRunsOut
    BY <2>2, AccountedWork
  <2>3. CASE ~\/ \E w \in Workers, o \in Ops : AcquireLease(w, o)
              \/ \E w \in Workers : ReleaseLease(w) \/ CrashWorker(w)
              \/ LeaseRunsOut
    <3>1. ASSUME NEW w \in Workers PROVE Same(w)
      BY <1>2, <2>1, <2>3, OthersCalm DEF Next, Work, Processes
    <3>2. UNCHANGED <<lease, overrun>>
      <4>1. /\ \A o \in Ops : WeeklyReplan(o) => UNCHANGED <<lease, overrun>>
            /\ PauseOrResume \/ Archive => UNCHANGED <<lease, overrun>>
            /\ \A r \in Revisions, i \in Items :
                 CompleteTask(r, i) \/ ReopenTask(r, i) => UNCHANGED <<lease, overrun>>
        <5>1. /\ \A o \in Ops : WeeklyReplan(o) => UNCHANGED <<lease, overrun>>
              /\ PauseOrResume \/ Archive => UNCHANGED <<lease, overrun>>
          BY DEF WeeklyReplan, PauseOrResume, Archive, workVars
        <5>2. ASSUME NEW r \in Revisions, NEW i \in Items, CompleteTask(r, i) \/ ReopenTask(r, i)
              PROVE  UNCHANGED <<lease, overrun>>
          <6>1. UNCHANGED workVars  BY <5>2 DEF CompleteTask, ReopenTask
          <6> QED  BY <6>1 DEF workVars
        <5> QED  BY <5>1, <5>2
      <4>2. \A w \in Workers :
              /\ ClaimBatch(w) => UNCHANGED <<lease, overrun>>
              /\ \A o \in Ops : LeaseBusy(w, o) => UNCHANGED <<lease, overrun>>
              /\ ReadPlan(w) => UNCHANGED <<lease, overrun>>
              /\ \A r \in Revisions : Propose(w, r) => UNCHANGED <<lease, overrun>>
              /\ FinishOperation(w) \/ ExecutionRaises(w) => UNCHANGED <<lease, overrun>>
        BY DEF ClaimBatch, LeaseBusy, ReadPlan, Propose, FinishOperation, ExecutionRaises,
               workVars
      <4>3. \A x \in Processes : Replan(x) => UNCHANGED <<lease, overrun>>
        BY DEF Replan, AskUser, BeginReplan, CommitReplan, workVars
      <4>4. \A q \in Requests :
              /\ \A o \in Ops, r \in Revisions :
                   AdjustPlan(q, o, r) => UNCHANGED <<lease, overrun>>
              /\ \A kind \in {"accept", "reject", "activate"}, r \in Revisions :
                   AskDecision(q, kind, r) => UNCHANGED <<lease, overrun>>
              /\ RequestFails(q) => UNCHANGED <<lease, overrun>>
        BY DEF AdjustPlan, AskDecision, RequestFails, workVars
      <4>5. \A q \in Requests : Decide(q) => UNCHANGED <<lease, overrun>>
        BY DEF Decide, Refuse, Reject, BeginAccept, CommitAccept, Activate, workVars
      <4>6. CASE \E w \in Workers : ClaimBatch(w) \/ Work(w)
                                   \/ ExecutionRaises(w) \/ CrashWorker(w)
        BY <2>1, <2>3, <4>2, <4>6 DEF Work
      <4>7. CASE \E q \in Requests :
                    \/ \E o \in Ops, r \in Revisions : AdjustPlan(q, o, r)
                    \/ \E kind \in {"accept", "reject", "activate"}, r \in Revisions :
                          AskDecision(q, kind, r)
                    \/ Decide(q) \/ RequestFails(q)
        BY <4>4, <4>5, <4>7
      <4> QED  BY <1>2, <2>3, <4>1, <4>3, <4>6, <4>7 DEF Next, Processes
    <3> QED  BY <3>1, <3>2, Calm
  <2> QED  BY <2>2, <2>3
<1> QED  BY <1>1, <1>2

(* The operations of the user are executed one at a time by any number of  *)
(* workers, but for executions that outlasted a lease.                     *)
THEOREM ExecutedOneAtATime == Spec => []OneAtATime
<1>1. Sense /\ Accounted => OneAtATime
  <2> SUFFICES ASSUME Sense, Accounted PROVE OneAtATime  OBVIOUS
  <2>1. overrun \in Nat  BY TypeParts DEF Sense
  <2> QED  BY <2>1, ExecutingFinite DEF Accounted, OneAtATime, Executing
<1> QED  BY <1>1, SenseInit, SenseStep, AccountedInit, AccountedStep, PTL DEF Spec

(* ---- proposals and the transactions that put them in force ------------- *)

Shape == OneCopies /\ BasesKnown /\ RunsFit

LEMMA ShapeInit == Init => Shape
<1> SUFFICES ASSUME Init PROVE Shape  OBVIOUS
<1>1. \A x \in Processes : run[x] = Idle  BY DEF Init, Processes
<1>2. OneCopies /\ RunsFit  BY <1>1 DEF OneCopies, RunsFit, RowFits, Idle
<1>3. BasesKnown  BY Numbers DEF Init, BasesKnown
<1> QED  BY <1>2, <1>3 DEF Shape

(* A process goes on; only if it may does it begin to copy. *)
LEMMA ShapeRun ==
  ASSUME Sense, Shape, NEW x \in Processes, NEW s, run' = [run EXCEPT ![x] = s],
         UNCHANGED <<plan, rev>>, RowFits(s), s.pc = "copy" => PlanFree
  PROVE  Shape'
<1>1. \A y \in Processes : run'[y] = IF y = x THEN s ELSE run[y]
  BY TypeParts DEF Sense
<1>2. OneCopies'
  BY <1>1 DEF Shape, OneCopies, PlanFree, Processes
<1>3. BasesKnown'  BY DEF Shape, BasesKnown
<1>4. RunsFit'  BY <1>1 DEF Shape, RunsFit, RowFits
<1> QED  BY <1>2, <1>3, <1>4 DEF Shape

(* Revisions are added, and get another status, while nobody else copies. *)
LEMMA ShapeRevisions ==
  ASSUME Sense, Shape, NEW x \in Processes, NEW s, run' = [run EXCEPT ![x] = s],
         \A y \in Processes \ {x} : run[y].pc # "copy",
         \A r \in Revisions :
            /\ rev[r].status # "absent" => rev'[r].status # "absent"
            /\ rev[r].status # "absent" => rev'[r].base = rev[r].base
            /\ (rev[r].status = "absent" /\ rev'[r].status # "absent") => rev'[r].base # 0,
         rev'[plan'.current].status # "absent",
         s.pc # "copy", RowFits(s)'
  PROVE  Shape'
<1>0. 1 \in Revisions  BY Numbers
<1>1. \A y \in Processes : run'[y] = IF y = x THEN s ELSE run[y]
  BY TypeParts DEF Sense
<1>2. OneCopies'  BY <1>1 DEF OneCopies
<1>3. BasesKnown'  BY <1>0 DEF Shape, BasesKnown
<1>4. ASSUME NEW y \in Processes \ {x} PROVE RowFits(run[y])'
  <2>1. run'[y] = run[y] /\ run[y].pc # "copy"  BY <1>1
  <2>2. run[y].pc \in {"proposed", "asked"} => run[y].rev \in Revisions
    BY DEF Sense, RunsMakeSense, RowMakesSense
  <2>3. RowFits(run[y])  BY DEF Shape, RunsFit
  <2> QED  BY <2>1, <2>2, <2>3 DEF RowFits
<1>5. RunsFit'
  <2>1. \A y \in Processes : RowFits(run[y])'
    <3>1. RowFits(run[x])'
      <4>1. run'[x] = s  BY <1>1
      <4> QED  BY <4>1 DEF RowFits
    <3> QED  BY <1>4, <3>1
  <2> QED  BY <2>1 DEF RunsFit
<1> QED  BY <1>2, <1>3, <1>5 DEF Shape

LEMMA ShapeIdle ==
  ASSUME Sense, Shape, NEW x \in Processes, run' = [run EXCEPT ![x] = Idle],
         UNCHANGED <<plan, rev>>
  PROVE  Shape'
BY ShapeRun DEF RowFits, Idle

LEMMA ShapeSame == Shape /\ UNCHANGED <<run, rev>> /\ plan'.current = plan.current => Shape'
BY DEF Shape, OneCopies, BasesKnown, RunsFit, RowFits

LEMMA ShapeUntouched ==
  ASSUME Sense, Shape
  PROVE  /\ \A o \in Ops : WeeklyReplan(o) => Shape'
         /\ \A w \in Workers : ClaimBatch(w) => Shape'
         /\ \A w \in Workers, o \in Ops : LeaseBusy(w, o) => Shape'
         /\ LeaseRunsOut => Shape'
         /\ PauseOrResume => Shape'
         /\ Archive => Shape'
         /\ \A r \in Revisions, i \in Items : CompleteTask(r, i) \/ ReopenTask(r, i) => Shape'
         /\ \A w \in Workers : ReleaseLease(w) \/ CrashWorker(w) => Shape'
         /\ \A q \in Requests : Refuse(q) \/ RequestFails(q) => Shape'
<1>0. plan \in [status : {"draft", "active", "paused", "archived"}, version : Nat,
                current : Revisions]
  BY TypeParts DEF Sense
<1>1. /\ \A o \in Ops : WeeklyReplan(o) => Shape'
      /\ \A w \in Workers : ClaimBatch(w) => Shape'
      /\ \A w \in Workers, o \in Ops : LeaseBusy(w, o) => Shape'
      /\ LeaseRunsOut => Shape'
      /\ \A r \in Revisions, i \in Items : CompleteTask(r, i) \/ ReopenTask(r, i) => Shape'
  BY ShapeSame DEF WeeklyReplan, ClaimBatch, LeaseBusy, LeaseRunsOut, CompleteTask, ReopenTask,
                   planVars
<1>3. PauseOrResume => Shape'
  <2> SUFFICES ASSUME PauseOrResume PROVE Shape'  OBVIOUS
  <2>1. UNCHANGED <<run, rev>> /\ plan'.current = plan.current  BY <1>0 DEF PauseOrResume
  <2> QED  BY <2>1, ShapeSame
<1>4. Archive => Shape'
  <2> SUFFICES ASSUME Archive PROVE Shape'  OBVIOUS
  <2>1. UNCHANGED <<run, rev>> /\ plan' = [plan EXCEPT !.status = "archived", !.version = @ + 1]
    BY DEF Archive
  <2>2. plan'.current = plan.current  BY <1>0, <2>1
  <2> QED  BY <2>1, <2>2, ShapeSame
<1>2. /\ \A w \in Workers : ReleaseLease(w) \/ CrashWorker(w) => Shape'
      /\ \A q \in Requests : Refuse(q) \/ RequestFails(q) => Shape'
  BY ShapeIdle DEF ReleaseLease, CrashWorker, Refuse, RequestFails, planVars, Processes
<1> QED  BY <1>1, <1>2, <1>3, <1>4

(* The row a process gets at its end *)
LEMMA ConcludedRow ==
  ASSUME Sense, NEW x \in Processes, NEW outcome, Concludes(x, outcome)
  PROVE  \E s : run' = [run EXCEPT ![x] = s] /\ s.pc \in {"finish", "idle"}
<1>0. run \in [Processes -> RunState] /\ run[x] \in RunState  BY TypeParts DEF Sense
<1>1. CASE run[x].kind = "replan"
  <2> DEFINE s == [run[x] EXCEPT !.pc = "finish", !.seen = Nothing, !.outcome = outcome]
  <2>1. s.pc = "finish"  BY <1>0 DEF RunState
  <2>2. run' = [run EXCEPT ![x] = s]  BY <1>0, <1>1 DEF Concludes
  <2> QED  BY <2>1, <2>2
<1>2. CASE run[x].kind # "replan"
  <2>1. run' = [run EXCEPT ![x] = Idle] /\ Idle.pc = "idle"
    BY <1>0, <1>2 DEF Concludes, Idle
  <2> QED  BY <2>1
<1> QED  BY <1>1, <1>2

LEMMA ShapeRuns ==
  ASSUME Sense, Shape
  PROVE  /\ \A w \in Workers, o \in Ops : AcquireLease(w, o) => Shape'
         /\ \A w \in Workers : FinishOperation(w) => Shape'
         /\ \A w \in Workers : ExecutionRaises(w) => Shape'
         /\ \A w \in Workers : ReadPlan(w) => Shape'
         /\ \A x \in Processes : AskUser(x) => Shape'
         /\ \A x \in Processes : BeginReplan(x) => Shape'
         /\ \A q \in Requests, kind \in {"accept", "reject", "activate"}, r \in Revisions :
              AskDecision(q, kind, r) => Shape'
         /\ \A q \in Requests : BeginAccept(q) => Shape'
<1>0. /\ run \in [Processes -> RunState] /\ \A x \in Processes : run[x] \in RunState
      /\ \A w \in Workers : w \in Processes /\ run[w] \in RunState
      /\ \A q \in Requests : q \in Processes /\ run[q] \in RunState
      /\ \A x \in Processes : RowFits(run[x]) /\ RowMakesSense(x, run[x])
  BY TypeParts DEF Sense, Processes, Shape, RunsFit, RunsMakeSense
<1>a. \A s : s.pc \in {"idle", "leased", "read", "finish", "release"} =>
              RowFits(s) /\ s.pc # "copy"
  BY DEF RowFits
<1>1. ASSUME NEW w \in Workers, NEW o \in Ops, AcquireLease(w, o) PROVE Shape'
  <2> DEFINE s == [Idle EXCEPT !.pc = "leased", !.kind = "replan", !.op = o]
  <2>1. run' = [run EXCEPT ![w] = s] /\ s.pc = "leased" /\ UNCHANGED <<plan, rev>>
    BY <1>1 DEF AcquireLease, Idle, planVars
  <2> HIDE DEF s
  <2>2. RowFits(s) /\ s.pc # "copy"  BY <1>a, <2>1
  <2> QED  BY <1>0, <2>1, <2>2, ShapeRun
<1>2. ASSUME NEW w \in Workers, FinishOperation(w) PROVE Shape'
  <2> DEFINE s == [run[w] EXCEPT !.pc = "release"]
  <2>1. run' = [run EXCEPT ![w] = s] /\ s.pc = "release" /\ UNCHANGED <<plan, rev>>
    BY <1>0, <1>2 DEF FinishOperation, planVars, RunState
  <2> HIDE DEF s
  <2>2. RowFits(s) /\ s.pc # "copy"  BY <1>a, <2>1
  <2> QED  BY <1>0, <2>1, <2>2, ShapeRun
<1>3. ASSUME NEW w \in Workers, ExecutionRaises(w) PROVE Shape'
  <2> DEFINE s == [run[w] EXCEPT !.pc = "finish", !.outcome = "failed"]
  <2>1. run' = [run EXCEPT ![w] = s] /\ s.pc = "finish" /\ UNCHANGED <<plan, rev>>
    BY <1>0, <1>3 DEF ExecutionRaises, planVars, RunState
  <2> HIDE DEF s
  <2>2. RowFits(s) /\ s.pc # "copy"  BY <1>a, <2>1
  <2> QED  BY <1>0, <2>1, <2>2, ShapeRun
<1>4. ASSUME NEW w \in Workers, ReadPlan(w) PROVE Shape'
  <2> DEFINE s == [run[w] EXCEPT !.pc = "read", !.base = plan.current]
  <2>1. run' = [run EXCEPT ![w] = s] /\ s.pc = "read" /\ UNCHANGED <<plan, rev>>
    BY <1>0, <1>4 DEF ReadPlan, planVars, RunState
  <2> HIDE DEF s
  <2>2. RowFits(s) /\ s.pc # "copy"  BY <1>a, <2>1
  <2> QED  BY <1>0, <2>1, <2>2, ShapeRun
<1>5. ASSUME NEW x \in Processes, AskUser(x) PROVE Shape'
  <2>1. Concludes(x, "needs_input") /\ UNCHANGED <<plan, rev>>  BY <1>5 DEF AskUser, planVars
  <2>2. PICK s : run' = [run EXCEPT ![x] = s] /\ s.pc \in {"finish", "idle"}
    BY <2>1, ConcludedRow
  <2>3. RowFits(s) /\ s.pc # "copy"  BY <1>a, <2>2
  <2> QED  BY <2>1, <2>2, <2>3, ShapeRun
<1>6. ASSUME NEW x \in Processes, BeginReplan(x) PROVE Shape'
  <2> DEFINE s == [run[x] EXCEPT !.pc = "copy", !.seen = task[run[x].base]]
  <2>1. run' = [run EXCEPT ![x] = s] /\ UNCHANGED <<plan, rev>> /\ PlanFree /\ run[x].pc = "proposed"
    BY <1>0, <1>6 DEF BeginReplan, planVars
  <2>2. s.pc = "copy" /\ s.kind = run[x].kind /\ s.rev = run[x].rev /\ s.base = run[x].base
    BY <1>0 DEF RunState
  <2>3. run[x].kind \in {"replan", "adjust"}  BY <1>0, <2>1 DEF RowMakesSense
  <2> HIDE DEF s
  <2>4. RowFits(s)  BY <1>0, <2>1, <2>2, <2>3 DEF RowFits
  <2> QED  BY <2>1, <2>4, ShapeRun
<1>7. ASSUME NEW q \in Requests, NEW kind \in {"accept", "reject", "activate"},
             NEW r \in Revisions, AskDecision(q, kind, r)
      PROVE  Shape'
  <2> DEFINE s == [Idle EXCEPT !.pc = "asked", !.kind = kind, !.rev = r, !.op = rev[r].op,
                              !.base = plan.current, !.version = plan.version]
  <2>1. run' = [run EXCEPT ![q] = s] /\ UNCHANGED <<plan, rev>>  BY <1>7 DEF AskDecision, planVars
  <2>2. s.pc = "asked" /\ s.kind = kind /\ s.rev = r /\ s.base = plan.current
    BY DEF Idle
  <2>3. /\ kind \in {"accept", "reject"} => Decidable(r)
        /\ kind = "activate" => r = plan.current /\ rev[plan.current].status # "absent"
    BY <1>7 DEF AskDecision, Shape, BasesKnown
  <2> HIDE DEF s
  <2>4. RowFits(s)  BY <1>7, <2>2, <2>3 DEF RowFits, Decidable
  <2> QED  BY <1>0, <2>1, <2>2, <2>4, ShapeRun
<1>8. ASSUME NEW q \in Requests, BeginAccept(q) PROVE Shape'
  <2>1. PICK seen : run' = [run EXCEPT ![q].pc = "copy", ![q].seen = seen]
    BY <1>8 DEF BeginAccept
  <2> DEFINE s == [run[q] EXCEPT !.pc = "copy", !.seen = seen]
  <2>2. /\ run' = [run EXCEPT ![q] = s] /\ UNCHANGED <<plan, rev>> /\ PlanFree /\ run[q].pc = "asked"
        /\ run[q].kind = "accept" /\ rev[run[q].rev].status = "proposed"
    BY <1>0, <1>8, <2>1 DEF BeginAccept, planVars, Goes
  <2>3. s.pc = "copy" /\ s.kind = run[q].kind /\ s.rev = run[q].rev /\ s.base = run[q].base
    BY <1>0 DEF RunState
  <2> HIDE DEF s
  <2>4. RowFits(s)  BY <1>0, <2>2, <2>3 DEF RowFits
  <2> QED  BY <1>0, <2>2, <2>4, ShapeRun
<1> QED  BY <1>1, <1>2, <1>3, <1>4, <1>5, <1>6, <1>7, <1>8

LEMMA ShapePlans ==
  ASSUME Sense, Shape
  PROVE  /\ \A w \in Workers, r \in Revisions : Propose(w, r) => Shape'
         /\ \A q \in Requests, o \in Ops, r \in Revisions : AdjustPlan(q, o, r) => Shape'
         /\ \A x \in Processes : CommitReplan(x) => Shape'
         /\ \A q \in Requests : Reject(q) => Shape'
         /\ \A q \in Requests : CommitAccept(q) => Shape'
         /\ \A q \in Requests : Activate(q) => Shape'
<1>0. /\ run \in [Processes -> RunState] /\ \A x \in Processes : run[x] \in RunState
      /\ \A w \in Workers : w \in Processes /\ run[w] \in RunState
      /\ \A q \in Requests : q \in Processes /\ run[q] \in RunState
      /\ \A x \in Processes : RowFits(run[x]) /\ RowMakesSense(x, run[x])
      /\ rev \in [Revisions -> RevisionRow] /\ 0 \notin Revisions /\ 1 \in Revisions
      /\ plan.current \in Revisions /\ rev[1].status # "absent"
      /\ rev[plan.current].status # "absent"
      /\ plan \in [status : {"draft", "active", "paused", "archived"}, version : Nat,
                    current : Revisions]
  BY TypeParts, Numbers DEF Sense, Processes, Shape, RunsFit, RunsMakeSense, BasesKnown
<1>f. PlanFree => \A y \in Processes : run[y].pc # "copy"  BY DEF PlanFree, Processes
<1>c. \A x \in Processes : run[x].pc = "copy" => \A y \in Processes \ {x} : run[y].pc # "copy"
  BY DEF Shape, OneCopies
<1>s. \A s : s.pc \in {"idle", "finish"} => RowFits(s)' /\ s.pc # "copy"  BY DEF RowFits
(* a revision is proposed *)
<1>n. ASSUME NEW x \in Processes, NEW s, s.pc = "proposed", s.kind \in {"replan", "adjust"},
             NEW o, s.base \in Revisions, s.rev \in Revisions, NewRevision(s.rev, s.base, o),
             run' = [run EXCEPT ![x] = s], PlanFree, plan'.current = plan.current
      PROVE  Shape'
  <2>1. \A r \in Revisions :
          rev'[r] = IF r = s.rev THEN [status |-> "proposed", base |-> s.base, op |-> o] ELSE rev[r]
    BY <1>0, <1>n DEF NewRevision
  <2>2. rev[s.rev].status = "absent" /\ s.rev # 1  BY <1>0, <1>n DEF NewRevision
  <2>3. RowFits(s)'  BY <1>n, <2>1, <2>2 DEF RowFits
  <2>4. \A r \in Revisions :
            /\ rev[r].status # "absent" => rev'[r].status # "absent"
            /\ rev[r].status # "absent" => rev'[r].base = rev[r].base
            /\ (rev[r].status = "absent" /\ rev'[r].status # "absent") => rev'[r].base # 0
    BY <1>0, <1>n, <2>1, <2>2
  <2>5. rev'[plan'.current].status # "absent"  BY <1>0, <1>n, <2>4
  <2> QED  BY <1>n, <1>f, <2>3, <2>4, <2>5, ShapeRevisions
<1>1. ASSUME NEW w \in Workers, NEW r \in Revisions, Propose(w, r) PROVE Shape'
  <2> DEFINE s == [run[w] EXCEPT !.pc = "proposed", !.rev = r]
  <2>1. /\ run' = [run EXCEPT ![w] = s] /\ run[w].pc = "read" /\ PlanFree
        /\ NewRevision(r, run[w].base, run[w].op) /\ plan'.current = plan.current
    BY <1>0, <1>1 DEF Propose
  <2>2. s.pc = "proposed" /\ s.kind = run[w].kind /\ s.rev = r /\ s.base = run[w].base
    BY <1>0 DEF RunState
  <2>3. run[w].kind = "replan" /\ run[w].base \in Revisions
    BY <1>0, <2>1 DEF RowMakesSense
  <2> HIDE DEF s
  <2> QED  BY <1>0, <1>n, <2>1, <2>2, <2>3
<1>2. ASSUME NEW q \in Requests, NEW o \in Ops, NEW r \in Revisions, AdjustPlan(q, o, r)
      PROVE  Shape'
  <2> DEFINE s == [Idle EXCEPT !.pc = "proposed", !.kind = "adjust", !.op = o, !.rev = r,
                              !.base = plan.current]
  <2>1. /\ run' = [run EXCEPT ![q] = s] /\ PlanFree /\ NewRevision(r, plan.current, o)
        /\ plan'.current = plan.current
    BY <1>0, <1>2 DEF AdjustPlan
  <2>2. s.pc = "proposed" /\ s.kind = "adjust" /\ s.rev = r /\ s.base = plan.current
    BY DEF Idle
  <2> HIDE DEF s
  <2> QED  BY <1>0, <1>n, <2>1, <2>2
<1>r. ASSUME NEW r \in Revisions, NEW b \in Revisions, rev' = Replaced(r, b)
      PROVE  \A p \in Revisions :
                /\ rev'[p].base = rev[p].base
                /\ rev'[p].status = "absent" <=> rev[p].status = "absent"
  BY <1>0, <1>r, ReplacedRows
<1>3. ASSUME NEW x \in Processes, CommitReplan(x) PROVE Shape'
  <2>1. /\ run[x].pc = "copy" /\ rev' = Replaced(run[x].rev, run[x].base)
        /\ Concludes(x, "succeeded") /\ run[x].kind \in {"replan", "adjust"}
        /\ plan' = [plan EXCEPT !.current = run[x].rev]
    BY <1>3 DEF CommitReplan
  <2>2. run[x].rev \in Revisions /\ run[x].base \in Revisions
    BY <1>0, <2>1 DEF RowMakesSense
  <2>3. PICK s : run' = [run EXCEPT ![x] = s] /\ s.pc \in {"finish", "idle"}
    BY <2>1, ConcludedRow
  <2>4. rev[run[x].rev].status # "absent"  BY <1>0, <2>1 DEF RowFits
  <2>5. \A p \in Revisions :
                /\ rev'[p].base = rev[p].base
                /\ rev'[p].status = "absent" <=> rev[p].status = "absent"
    BY <1>r, <2>1, <2>2
  <2>6. rev'[plan'.current].status # "absent"  BY <1>0, <2>1, <2>2, <2>4, <2>5
  <2>7. RowFits(s)' /\ s.pc # "copy"  BY <1>s, <2>3
  <2>8. \A y \in Processes \ {x} : run[y].pc # "copy"  BY <1>c, <2>1
  <2> QED  BY <2>3, <2>5, <2>6, <2>7, <2>8, ShapeRevisions
<1>4. ASSUME NEW q \in Requests, Reject(q) PROVE Shape'
  <2>1. /\ run' = [run EXCEPT ![q] = Idle] /\ PlanFree
        /\ rev' = [rev EXCEPT ![run[q].rev].status = "rejected"]
        /\ rev[run[q].rev].status = "proposed" /\ run[q].pc = "asked"
        /\ plan'.current = plan.current
    BY <1>0, <1>4 DEF Reject, Goes
  <2>2. run[q].rev \in Revisions  BY <1>0, <2>1 DEF RowMakesSense
  <2>3. \A p \in Revisions :
                /\ rev'[p].base = rev[p].base
                /\ rev'[p].status = "absent" <=> rev[p].status = "absent"
    BY <1>0, <2>1, <2>2 DEF RevisionRow
  <2>4. RowFits(Idle)' /\ Idle.pc # "copy"  BY DEF Idle, RowFits
  <2>5. rev'[plan'.current].status # "absent"  BY <1>0, <2>1, <2>3
  <2>6. q \in Processes /\ \A y \in Processes \ {q} : run[y].pc # "copy"
    BY <1>0, <1>f, <2>1
  <2> QED  BY <2>1, <2>3, <2>4, <2>5, <2>6, ShapeRevisions
<1>5. ASSUME NEW q \in Requests, CommitAccept(q) PROVE Shape'
  <2>1. /\ run[q].pc = "copy" /\ rev' = Replaced(run[q].rev, run[q].base)
        /\ run[q].kind = "accept" /\ run' = [run EXCEPT ![q] = Idle]
        /\ plan' = [plan EXCEPT !.version = @ + 1, !.current = run[q].rev]
    BY <1>5 DEF CommitAccept
  <2>2. run[q].rev \in Revisions /\ run[q].base \in Revisions
    BY <1>0, <2>1 DEF RowMakesSense
  <2>3. RowFits(Idle)' /\ Idle.pc # "copy"  BY DEF Idle, RowFits
  <2>4. rev[run[q].rev].status # "absent"  BY <1>0, <2>1 DEF RowFits
  <2>5. \A p \in Revisions :
                /\ rev'[p].base = rev[p].base
                /\ rev'[p].status = "absent" <=> rev[p].status = "absent"
    BY <1>r, <2>1, <2>2
  <2>6. rev'[plan'.current].status # "absent"  BY <1>0, <2>1, <2>2, <2>4, <2>5
  <2>7. q \in Processes /\ \A y \in Processes \ {q} : run[y].pc # "copy"
    BY <1>0, <1>c, <2>1
  <2> QED  BY <2>1, <2>3, <2>5, <2>6, <2>7, ShapeRevisions
<1>6. ASSUME NEW q \in Requests, Activate(q) PROVE Shape'
  <2>1. /\ run' = [run EXCEPT ![q] = Idle] /\ PlanFree
        /\ rev' = [rev EXCEPT ![run[q].rev].status = "active"]
        /\ run[q].pc = "asked" /\ plan'.current = run[q].rev
    BY <1>6 DEF Activate, Goes
  <2>2. run[q].rev \in Revisions  BY <1>0, <2>1 DEF RowMakesSense
  <2>3. rev[run[q].rev].status # "absent"  BY <1>0, <2>1 DEF RowFits
  <2>4. \A p \in Revisions :
            /\ rev'[p].base = rev[p].base
            /\ rev'[p].status = "absent" <=> rev[p].status = "absent"
    BY <1>0, <2>1, <2>2, <2>3 DEF RevisionRow
  <2>5. RowFits(Idle)' /\ Idle.pc # "copy"  BY DEF Idle, RowFits
  <2>6. rev'[plan'.current].status # "absent"  BY <2>1, <2>2, <2>3, <2>4
  <2>7. q \in Processes /\ \A y \in Processes \ {q} : run[y].pc # "copy"
    BY <1>0, <1>f, <2>1
  <2> QED  BY <2>1, <2>4, <2>5, <2>6, <2>7, ShapeRevisions
<1> QED  BY <1>1, <1>2, <1>3, <1>4, <1>5, <1>6

LEMMA ShapeStep == Sense /\ Shape /\ [Next]_vars => Shape'
<1> SUFFICES ASSUME Sense, Shape, [Next]_vars PROVE Shape'  OBVIOUS
<1>1. CASE UNCHANGED vars  BY <1>1, ShapeSame DEF vars, planVars
<1>2. CASE Next
  <2>1. \A w \in Workers : todo[w] \subseteq Ops  BY DEF Sense, TypeOK
  <2> QED
    BY <1>2, <2>1, ShapeUntouched, ShapeRuns, ShapePlans DEF Next, Work, Replan, Decide, Processes
<1> QED  BY <1>1, <1>2
(* ---- the plan is kept ------------------------------------------------- *)

(* What PlanKept says of states that did not cross *)
Whole ==
  /\ \A r \in Revisions : rev[r].status = "active" => r = plan.current
  /\ plan.status \in {"active", "paused"} => rev[plan.current].status = "active"
  /\ \A r \in Revisions, i \in Items : task[r][i].pending + task[r][i].completed <= 1
  /\ \A i \in done \ late : task[plan.current][i].completed > 0

Good == Sense /\ Shape /\ Kept

LEMMA KeptIs == Kept <=> (~crossed => Whole /\ ProposalsEmpty /\ CopiesKnown)
BY DEF Kept, PlanKept, Whole

LEMMA KeptInit == Init => Kept
<1> SUFFICES ASSUME Init PROVE Kept  OBVIOUS
<1>1. \A x \in Processes : run[x] = Idle  BY DEF Init, Processes
<1>2. CopiesKnown  BY <1>1 DEF CopiesKnown, RowCopies, Idle
<1>3. Whole /\ ProposalsEmpty  BY Numbers DEF Init, Whole, ProposalsEmpty, Nothing
<1> QED  BY <1>2, <1>3, KeptIs

(* A process goes on, and knows what it copies if it is to copy. *)
LEMMA KeptRun ==
  ASSUME Good, NEW x \in Processes, NEW s, run' = [run EXCEPT ![x] = s],
         UNCHANGED planVars, ~crossed => RowCopies(s)
  PROVE  Kept'
<1>1. \A y \in Processes : run'[y] = IF y = x THEN s ELSE run[y]
  BY TypeParts DEF Good, Sense
<1>2. ~crossed => (Whole /\ ProposalsEmpty)'
  BY KeptIs DEF Good, Whole, ProposalsEmpty, planVars
<1>3. ~crossed => CopiesKnown'
  <2> SUFFICES ASSUME ~crossed, NEW y \in Processes PROVE RowCopies(run[y])'
    BY DEF CopiesKnown
  <2>1. RowCopies(run'[y])  BY <1>1, KeptIs DEF Good, CopiesKnown
  <2> QED  BY <2>1 DEF RowCopies, planVars
<1>4. crossed' = crossed  BY DEF planVars
<1> QED  BY <1>2, <1>3, <1>4 DEF Kept, PlanKept, Whole

(* Nothing that matters changes. *)
LEMMA KeptSame == Good /\ UNCHANGED <<planVars, run>> => Kept'
BY DEF Good, Kept, PlanKept, ProposalsEmpty, CopiesKnown, RowCopies, planVars

(* The tables change while nobody else copies. *)
LEMMA KeptAlone ==
  ASSUME Good, NEW x \in Processes, NEW s, run' = [run EXCEPT ![x] = s], s.pc # "copy",
         \A y \in Processes \ {x} : run[y].pc # "copy",
         crossed => crossed',
         ~crossed' => (Whole /\ ProposalsEmpty)'
  PROVE  Kept'
<1>1. \A y \in Processes : run'[y] = IF y = x THEN s ELSE run[y]
  BY TypeParts DEF Good, Sense
<1>2. \A y \in Processes : run'[y].pc # "copy"  BY <1>1
<1>3. CopiesKnown'  BY <1>2 DEF CopiesKnown, RowCopies
<1> QED  BY <1>3 DEF Kept, PlanKept, Whole

LEMMA KeptRuns ==
  ASSUME Good
  PROVE  /\ \A o \in Ops : WeeklyReplan(o) => Kept'
         /\ \A w \in Workers : ClaimBatch(w) => Kept'
         /\ \A w \in Workers, o \in Ops : LeaseBusy(w, o) \/ AcquireLease(w, o) => Kept'
         /\ LeaseRunsOut => Kept'
         /\ \A w \in Workers : FinishOperation(w) \/ ExecutionRaises(w) \/ ReadPlan(w) => Kept'
         /\ \A w \in Workers : ReleaseLease(w) \/ CrashWorker(w) => Kept'
         /\ \A x \in Processes : AskUser(x) => Kept'
         /\ \A q \in Requests, kind \in {"accept", "reject", "activate"}, r \in Revisions :
              AskDecision(q, kind, r) => Kept'
         /\ \A q \in Requests : Refuse(q) \/ RequestFails(q) => Kept'
<1>0. /\ run \in [Processes -> RunState] /\ \A x \in Processes : run[x] \in RunState
      /\ \A w \in Workers : w \in Processes /\ run[w] \in RunState
      /\ \A q \in Requests : q \in Processes /\ run[q] \in RunState
  BY TypeParts DEF Good, Sense, Processes
<1>a. \A s : s.pc # "copy" => RowCopies(s)  BY DEF RowCopies
<1>b. ASSUME NEW x \in Processes, NEW s, run' = [run EXCEPT ![x] = s], UNCHANGED planVars,
             s.pc # "copy"
      PROVE  Kept'
  BY <1>a, <1>b, KeptRun
<1>c. Idle.pc # "copy"  BY DEF Idle
<1>1. /\ \A o \in Ops : WeeklyReplan(o) => Kept'
      /\ \A w \in Workers : ClaimBatch(w) => Kept'
      /\ \A w \in Workers, o \in Ops : LeaseBusy(w, o) => Kept'
      /\ LeaseRunsOut => Kept'
  BY KeptSame DEF WeeklyReplan, ClaimBatch, LeaseBusy, LeaseRunsOut
<1>2. ASSUME NEW w \in Workers, NEW o \in Ops, AcquireLease(w, o) PROVE Kept'
  <2> DEFINE s == [Idle EXCEPT !.pc = "leased", !.kind = "replan", !.op = o]
  <2>1. run' = [run EXCEPT ![w] = s] /\ UNCHANGED planVars  BY <1>2 DEF AcquireLease
  <2>2. s.pc = "leased"  BY DEF Idle
  <2> HIDE DEF s
  <2> QED  BY <1>0, <1>b, <2>1, <2>2
<1>3. ASSUME NEW w \in Workers, FinishOperation(w) PROVE Kept'
  <2> DEFINE s == [run[w] EXCEPT !.pc = "release"]
  <2>1. run' = [run EXCEPT ![w] = s] /\ s.pc = "release" /\ UNCHANGED planVars
    BY <1>0, <1>3 DEF FinishOperation, RunState
  <2> QED  BY <1>0, <1>b, <2>1
<1>4. ASSUME NEW w \in Workers, ExecutionRaises(w) PROVE Kept'
  <2> DEFINE s == [run[w] EXCEPT !.pc = "finish", !.outcome = "failed"]
  <2>1. run' = [run EXCEPT ![w] = s] /\ s.pc = "finish" /\ UNCHANGED planVars
    BY <1>0, <1>4 DEF ExecutionRaises, RunState
  <2> QED  BY <1>0, <1>b, <2>1
<1>5. ASSUME NEW w \in Workers, ReadPlan(w) PROVE Kept'
  <2> DEFINE s == [run[w] EXCEPT !.pc = "read", !.base = plan.current]
  <2>1. run' = [run EXCEPT ![w] = s] /\ s.pc = "read" /\ UNCHANGED planVars
    BY <1>0, <1>5 DEF ReadPlan, RunState
  <2> QED  BY <1>0, <1>b, <2>1
<1>6. ASSUME NEW w \in Workers, ReleaseLease(w) \/ CrashWorker(w) PROVE Kept'
  BY <1>0, <1>6, <1>b, <1>c DEF ReleaseLease, CrashWorker
<1>7. ASSUME NEW q \in Requests, Refuse(q) \/ RequestFails(q) PROVE Kept'
  BY <1>0, <1>7, <1>b, <1>c DEF Refuse, RequestFails
<1>8. ASSUME NEW x \in Processes, AskUser(x) PROVE Kept'
  <2>1. Concludes(x, "needs_input") /\ UNCHANGED planVars  BY <1>8 DEF AskUser
  <2>2. PICK s : run' = [run EXCEPT ![x] = s] /\ s.pc \in {"finish", "idle"}
    BY <2>1, ConcludedRow DEF Good
  <2> QED  BY <1>b, <2>1, <2>2
<1>9. ASSUME NEW q \in Requests, NEW kind \in {"accept", "reject", "activate"},
             NEW r \in Revisions, AskDecision(q, kind, r)
      PROVE  Kept'
  <2> DEFINE s == [Idle EXCEPT !.pc = "asked", !.kind = kind, !.rev = r, !.op = rev[r].op,
                              !.base = plan.current, !.version = plan.version]
  <2>1. run' = [run EXCEPT ![q] = s] /\ UNCHANGED planVars  BY <1>9 DEF AskDecision
  <2>2. s.pc = "asked"  BY DEF Idle
  <2> HIDE DEF s
  <2> QED  BY <1>0, <1>b, <2>1, <2>2
<1> QED  BY <1>1, <1>2, <1>3, <1>4, <1>5, <1>6, <1>7, <1>8, <1>9

(* The tasks that are to be copied are read. *)
LEMMA KeptBegin ==
  ASSUME Good
  PROVE  /\ \A x \in Processes : BeginReplan(x) => Kept'
         /\ \A q \in Requests : BeginAccept(q) => Kept'
<1>0. /\ run \in [Processes -> RunState] /\ \A x \in Processes : run[x] \in RunState
      /\ \A q \in Requests : q \in Processes
      /\ \A x \in Processes : RowFits(run[x]) /\ RowMakesSense(x, run[x])
      /\ 0 \notin Revisions
  BY TypeParts, Numbers DEF Good, Sense, Processes, Shape, RunsFit, RunsMakeSense
<1>a. ASSUME NEW s, ~crossed, s.pc = "copy", rev[s.rev].base \in Revisions, rev[s.rev].base = s.base,
             s.seen = task[s.base]
      PROVE  RowCopies(s)
  <2>1. Whole  BY <1>a, KeptIs DEF Good
  <2> QED  BY <1>0, <1>a, <2>1 DEF RowCopies, Whole
<1>1. ASSUME NEW x \in Processes, BeginReplan(x) PROVE Kept'
  <2> DEFINE s == [run[x] EXCEPT !.pc = "copy", !.seen = task[run[x].base]]
  <2>1. run' = [run EXCEPT ![x] = s] /\ UNCHANGED planVars /\ run[x].pc = "proposed"
    BY <1>0, <1>1 DEF BeginReplan
  <2>2. s.pc = "copy" /\ s.rev = run[x].rev /\ s.base = run[x].base /\ s.seen = task[s.base]
    BY <1>0 DEF RunState
  <2>3. run[x].kind \in {"replan", "adjust"} /\ run[x].base \in Revisions
    BY <1>0, <2>1 DEF RowMakesSense
  <2> HIDE DEF s
  <2>4. rev[s.rev].base = s.base  BY <1>0, <2>1, <2>2, <2>3 DEF RowFits
  <2> QED  BY <1>a, <2>1, <2>2, <2>3, <2>4, KeptRun
<1>2. ASSUME NEW q \in Requests, BeginAccept(q) PROVE Kept'
  <2> DEFINE base == rev[run[q].rev].base
             seen == IF base = 0 THEN Nothing ELSE task[base]
             s == [run[q] EXCEPT !.pc = "copy", !.seen = seen]
  <2>1. /\ run' = [run EXCEPT ![q] = s] /\ UNCHANGED planVars /\ run[q].pc = "asked"
        /\ run[q].kind = "accept"
    BY <1>0, <1>2 DEF BeginAccept, Goes
  <2>2. s.pc = "copy" /\ s.rev = run[q].rev /\ s.base = run[q].base /\ s.seen = seen
    BY <1>0 DEF RunState
  <2>3. run[q].base \in Revisions /\ base \in {0, run[q].base}
    BY <1>0, <2>1 DEF RowMakesSense, RowFits
  <2> HIDE DEF s
  <2>4. CASE base = 0
    <3>1. s.seen = Nothing /\ rev[s.rev].base = 0  BY <2>2, <2>4
    <3>2. RowCopies(s)  BY <3>1 DEF RowCopies, Nothing
    <3> QED  BY <1>0, <2>1, <3>2, KeptRun
  <2>5. CASE base # 0
    <3>1. rev[s.rev].base = s.base /\ s.seen = task[s.base] /\ s.base \in Revisions
      BY <2>2, <2>3, <2>5
    <3> QED  BY <1>0, <1>a, <2>1, <2>2, <3>1, KeptRun
  <2> QED  BY <2>4, <2>5
<1> QED  BY <1>1, <1>2

(* Items of a revision that is put in force with nothing in it *)
LEMMA CopiedCounts ==
  ASSUME NEW seen \in Tasks, NEW tasks \in Tasks
  PROVE  /\ \A i \in Items : /\ Copied(seen, tasks)[i].pending = tasks[i].pending + seen[i].pending
                             /\ Copied(seen, tasks)[i].completed
                                  = tasks[i].completed + seen[i].completed
BY DEF Copied, Tasks

LEMMA KeptCommits ==
  ASSUME Good
  PROVE  /\ \A x \in Processes : CommitReplan(x) => Kept'
         /\ \A q \in Requests : CommitAccept(q) => Kept'
<1>0. /\ run \in [Processes -> RunState] /\ \A x \in Processes : run[x] \in RunState
      /\ \A q \in Requests : q \in Processes
      /\ \A x \in Processes : RowFits(run[x]) /\ RowMakesSense(x, run[x])
      /\ rev \in [Revisions -> RevisionRow] /\ 0 \notin Revisions /\ 1 \in Revisions
      /\ plan \in [status : {"draft", "active", "paused", "archived"}, version : Nat,
                    current : Revisions]
      /\ task \in [Revisions -> Tasks] /\ crossed \in BOOLEAN
      /\ BasesKnown
  BY TypeParts, Numbers DEF Good, Sense, Processes, Shape, RunsFit, RunsMakeSense
<1>c. \A x \in Processes : run[x].pc = "copy" => \A y \in Processes \ {x} : run[y].pc # "copy"
  BY DEF Good, Shape, OneCopies
<1>k. ~crossed => Whole /\ ProposalsEmpty /\ CopiesKnown  BY KeptIs DEF Good
(* a revision with nothing in it takes the place of the one in force *)
<1>p. ASSUME NEW r \in Revisions, NEW b \in Revisions, rev' = Replaced(r, b), ~crossed,
             plan.current = b, rev[r].status = "proposed"
      PROVE  \A p \in Revisions :
                /\ rev'[p].status = "active" <=> p = r
                /\ rev'[p].status \in {"absent", "proposed"} =>
                     p # r /\ rev[p].status \in {"absent", "proposed"}
  BY <1>0, <1>p, <1>k, ReplacedRows DEF Whole
<1>t. ASSUME NEW r \in Revisions, NEW seen \in Tasks, ~crossed,
             task' = [task EXCEPT ![r] = Copied(seen, @)],
             \A p \in Revisions :
                /\ rev'[p].status = "active" <=> p = r
                /\ rev'[p].status \in {"absent", "proposed"} =>
                     p # r /\ rev[p].status \in {"absent", "proposed"},
             plan'.current = r,
             \A i \in Items :
                task[r][i].pending + seen[i].pending + task[r][i].completed
                  + seen[i].completed <= 1,
             done' \subseteq Items,
             late' = late,
             \A i \in done' \ late : task[r][i].completed + seen[i].completed > 0
      PROVE  (Whole /\ ProposalsEmpty)'
  <2>1. \A p \in Revisions : p # r => task'[p] = task[p]  BY <1>0, <1>t
  <2>2. \A i \in Items : /\ task'[r][i].pending = task[r][i].pending + seen[i].pending
                         /\ task'[r][i].completed = task[r][i].completed + seen[i].completed
    BY <1>0, <1>t, CopiedCounts
  <2>3. ProposalsEmpty'  BY <1>k, <1>t, <2>1 DEF ProposalsEmpty, Nothing
  <2>4. \A p \in Revisions, i \in Items : (task[p][i].pending + task[p][i].completed <= 1)'
    <3>1. task[r] \in Tasks  BY <1>0
    <3>2. \A i \in Items : (task[r][i].pending + task[r][i].completed <= 1)'
      BY <1>t, <2>2, <3>1 DEF Tasks
    <3> QED  BY <1>k, <1>t, <2>1, <3>2 DEF Whole
  <2>5. \A i \in done' \ late' : task'[plan'.current][i].completed > 0
    BY <1>t, <2>2
  <2> QED  BY <1>t, <2>3, <2>4, <2>5 DEF Whole
<1>e. ASSUME NEW r \in Revisions, r # 1, rev[r].status = "proposed", ~crossed
      PROVE  \A i \in Items : task[r][i].pending = 0 /\ task[r][i].completed = 0
  BY <1>k, <1>e DEF ProposalsEmpty, Nothing
<1>h. done \subseteq Items  BY TypeParts DEF Good, Sense
<1>1. ASSUME NEW x \in Processes, CommitReplan(x) PROVE Kept'
  <2> DEFINE r == run[x].rev
             b == run[x].base
             seen == run[x].seen
  <2>1. /\ run[x].pc = "copy" /\ run[x].kind \in {"replan", "adjust"} /\ rev' = Replaced(r, b)
        /\ plan' = [plan EXCEPT !.current = r]
        /\ task' = [task EXCEPT ![r] = Copied(seen, @)]
        /\ crossed' = (crossed \/ plan.current # b \/ rev[r].status # "proposed")
        /\ Concludes(x, "succeeded") /\ done' = done /\ late' = late
    BY <1>1 DEF CommitReplan
  <2>2. PICK s : run' = [run EXCEPT ![x] = s] /\ s.pc \in {"finish", "idle"}
    BY <2>1, ConcludedRow DEF Good
  <2>3. r \in Revisions /\ b \in Revisions /\ seen \in Tasks
    BY <1>0, <2>1 DEF RowMakesSense, RunState
  <2>4. rev[r].base = b /\ r # 1  BY <1>0, <2>1 DEF RowFits
  <2>5. ASSUME ~crossed' PROVE (Whole /\ ProposalsEmpty)'
    <3>1. ~crossed /\ plan.current = b /\ rev[r].status = "proposed"  BY <2>1, <2>5
    <3>2. RowCopies(run[x])  BY <1>k, <3>1 DEF CopiesKnown
    <3>3. /\ \A i \in Items : seen[i].pending + seen[i].completed <= 1
          /\ \A i \in done \ late : seen[i].completed > 0
      BY <1>0, <2>1, <2>3, <2>4, <3>1, <3>2 DEF RowCopies
    <3>4. plan'.current = r  BY <1>0, <2>1
    <3>5. \A i \in Items : task[r][i].pending = 0 /\ task[r][i].completed = 0
      BY <1>e, <2>3, <2>4, <3>1
    <3>6. \A i \in Items : seen[i].pending \in Nat /\ seen[i].completed \in Nat
      BY <2>3 DEF Tasks
    <3> HIDE DEF r, b, seen
    <3>7. /\ \A i \in Items : task[r][i].pending + seen[i].pending + task[r][i].completed
                                + seen[i].completed <= 1
          /\ \A i \in done \ late : task[r][i].completed + seen[i].completed > 0
      BY <1>h, <3>3, <3>5, <3>6
    <3>8. \A p \in Revisions :
                /\ rev'[p].status = "active" <=> p = r
                /\ rev'[p].status \in {"absent", "proposed"} =>
                     p # r /\ rev[p].status \in {"absent", "proposed"}
      BY <1>p, <2>1, <2>3, <3>1
    <3> QED  BY <1>h, <1>t, <2>1, <2>3, <3>1, <3>4, <3>7, <3>8
  <2>6. \A y \in Processes \ {x} : run[y].pc # "copy"  BY <1>c, <2>1
  <2>7. crossed => crossed'  BY <2>1
  <2> QED  BY <2>2, <2>5, <2>6, <2>7, KeptAlone
<1>2. ASSUME NEW q \in Requests, CommitAccept(q) PROVE Kept'
  <2> DEFINE r == run[q].rev
             b == run[q].base
             seen == run[q].seen
  <2>1. /\ run[q].pc = "copy" /\ run[q].kind = "accept" /\ rev' = Replaced(r, b)
        /\ plan' = [plan EXCEPT !.version = @ + 1, !.current = r]
        /\ task' = [task EXCEPT ![r] = Copied(seen, @)]
        /\ done' = IF rev[r].base = 0 THEN {i \in done : task[r][i].completed > 0} ELSE done
        /\ crossed' = (crossed \/ plan.current # b)
        /\ run' = [run EXCEPT ![q] = Idle] /\ late' = late
    BY <1>2 DEF CommitAccept
  <2>3. r \in Revisions /\ b \in Revisions /\ seen \in Tasks
    BY <1>0, <2>1 DEF RowMakesSense, RunState
  <2>4. rev[r].status = "proposed" /\ rev[r].base \in {0, b}
    BY <1>0, <2>1 DEF RowFits
  <2>5. ASSUME ~crossed' PROVE (Whole /\ ProposalsEmpty)'
    <3>1. ~crossed /\ plan.current = b  BY <2>1, <2>5
    <3>2. RowCopies(run[q])  BY <1>0, <1>k, <3>1 DEF CopiesKnown
    <3>3. /\ \A i \in Items : seen[i].pending + seen[i].completed <= 1
          /\ rev[r].base = 0 => seen = Nothing
          /\ rev[r].base # 0 => \A i \in done \ late : seen[i].completed > 0
      BY <2>1, <3>1, <3>2 DEF RowCopies
    <3>4. plan'.current = r  BY <1>0, <2>1
    <3>5. \A i \in Items : /\ seen[i].pending \in Nat /\ seen[i].completed \in Nat
                           /\ task[r][i].pending \in Nat /\ task[r][i].completed \in Nat
      BY <1>0, <2>3 DEF Tasks
    <3> HIDE DEF r, b, seen
    <3>6. /\ \A i \in Items : task[r][i].pending + seen[i].pending + task[r][i].completed
                                + seen[i].completed <= 1
          /\ \A i \in done' \ late : task[r][i].completed + seen[i].completed > 0
      <4>1. CASE rev[r].base = 0
        <5>1. \A i \in Items : seen[i].pending = 0 /\ seen[i].completed = 0
          BY <3>3, <4>1 DEF Nothing
        <5>2. \A i \in Items : task[r][i].pending + task[r][i].completed <= 1
          BY <1>k, <2>3, <3>1 DEF Whole
        <5> QED  BY <1>h, <2>1, <3>5, <4>1, <5>1, <5>2
      <4>2. CASE rev[r].base # 0
        <5>1. r # 1  BY <1>0, <2>3, <2>4, <4>2 DEF BasesKnown
        <5>2. \A i \in Items : task[r][i].pending = 0 /\ task[r][i].completed = 0
          BY <1>e, <2>3, <2>4, <3>1, <5>1
        <5> QED  BY <1>h, <2>1, <3>3, <3>5, <4>2, <5>2
      <4> QED  BY <4>1, <4>2
    <3>7. \A p \in Revisions :
                /\ rev'[p].status = "active" <=> p = r
                /\ rev'[p].status \in {"absent", "proposed"} =>
                     p # r /\ rev[p].status \in {"absent", "proposed"}
      BY <1>p, <2>1, <2>3, <2>4, <3>1
    <3>8. done' \subseteq Items  BY <1>h, <2>1
    <3> QED  BY <1>t, <2>1, <2>3, <3>1, <3>4, <3>6, <3>7, <3>8
  <2>6. \A y \in Processes \ {q} : run[y].pc # "copy"  BY <1>0, <1>c, <2>1
  <2>7. Idle.pc # "copy" /\ (crossed => crossed')  BY <2>1 DEF Idle
  <2> QED  BY <1>0, <2>1, <2>5, <2>6, <2>7, KeptAlone
<1> QED  BY <1>1, <1>2

LEMMA KeptPlans ==
  ASSUME Good
  PROVE  /\ \A w \in Workers, r \in Revisions : Propose(w, r) => Kept'
         /\ \A q \in Requests, o \in Ops, r \in Revisions : AdjustPlan(q, o, r) => Kept'
         /\ \A q \in Requests : Reject(q) => Kept'
         /\ \A q \in Requests : Activate(q) => Kept'
         /\ PauseOrResume => Kept'
         /\ Archive => Kept'
<1>0. /\ run \in [Processes -> RunState] /\ \A x \in Processes : run[x] \in RunState
      /\ \A q \in Requests : q \in Processes
      /\ \A w \in Workers : w \in Processes
      /\ \A x \in Processes : RowMakesSense(x, run[x])
      /\ rev \in [Revisions -> RevisionRow]
      /\ plan \in [status : {"draft", "active", "paused", "archived"}, version : Nat,
                    current : Revisions]
      /\ task \in [Revisions -> Tasks] /\ rev[plan.current].status # "absent"
      /\ \A x \in Processes : RowFits(run[x])
  BY TypeParts DEF Good, Sense, Processes, Shape, RunsFit, RunsMakeSense, BasesKnown
<1>f. PlanFree => \A y \in Processes : run[y].pc # "copy"  BY DEF PlanFree, Processes
<1>k. ~crossed => Whole /\ ProposalsEmpty /\ CopiesKnown  BY KeptIs DEF Good
<1>i. Idle.pc # "copy"  BY DEF Idle
<1>n. ASSUME NEW x \in Processes, NEW s, s.pc # "copy", NEW r \in Revisions, NEW b, NEW o,
             NewRevision(r, b, o), run' = [run EXCEPT ![x] = s], PlanFree,
             plan'.current = plan.current, plan'.status = plan.status,
             UNCHANGED <<task, done, late, crossed>>
      PROVE  Kept'
  <2>1. \A p \in Revisions :
          rev'[p].status = IF p = r THEN "proposed" ELSE rev[p].status
    BY <1>0, <1>n DEF NewRevision
  <2>2. rev[r].status = "absent"  BY <1>n DEF NewRevision
  <2>3. ASSUME ~crossed PROVE (Whole /\ ProposalsEmpty)'
    BY <1>0, <1>k, <1>n, <2>1, <2>2, <2>3 DEF Whole, ProposalsEmpty
  <2> QED  BY <1>f, <1>n, <2>3, KeptAlone
<1>1. ASSUME NEW w \in Workers, NEW r \in Revisions, Propose(w, r) PROVE Kept'
  <2> DEFINE s == [run[w] EXCEPT !.pc = "proposed", !.rev = r]
  <2>1. /\ run' = [run EXCEPT ![w] = s] /\ PlanFree /\ NewRevision(r, run[w].base, run[w].op)
        /\ UNCHANGED <<plan, task, done, late, crossed>>
    BY <1>0, <1>1 DEF Propose
  <2>2. s.pc # "copy"  BY <1>0 DEF RunState
  <2> HIDE DEF s
  <2> QED  BY <1>0, <1>n, <2>1, <2>2
<1>2. ASSUME NEW q \in Requests, NEW o \in Ops, NEW r \in Revisions, AdjustPlan(q, o, r)
      PROVE  Kept'
  <2> DEFINE s == [Idle EXCEPT !.pc = "proposed", !.kind = "adjust", !.op = o, !.rev = r,
                              !.base = plan.current]
  <2>1. /\ run' = [run EXCEPT ![q] = s] /\ PlanFree /\ NewRevision(r, plan.current, o)
        /\ plan'.current = plan.current /\ plan'.status = plan.status
        /\ UNCHANGED <<task, done, late, crossed>>
    BY <1>0, <1>2 DEF AdjustPlan
  <2>2. s.pc # "copy"  BY DEF Idle
  <2> HIDE DEF s
  <2> QED  BY <1>0, <1>n, <2>1, <2>2
<1>3. ASSUME NEW q \in Requests, Reject(q) PROVE Kept'
  <2>1. /\ run' = [run EXCEPT ![q] = Idle] /\ PlanFree /\ run[q].pc = "asked"
        /\ rev[run[q].rev].status = "proposed"
        /\ rev' = [rev EXCEPT ![run[q].rev].status = "rejected"]
        /\ plan'.current = plan.current /\ plan'.status = plan.status
        /\ UNCHANGED <<task, done, late, crossed>>
    BY <1>0, <1>3 DEF Reject, Goes
  <2>2. run[q].rev \in Revisions  BY <1>0, <2>1 DEF RowMakesSense
  <2>3. \A p \in Revisions :
          rev'[p].status = IF p = run[q].rev THEN "rejected" ELSE rev[p].status
    BY <1>0, <2>1, <2>2 DEF RevisionRow
  <2>4. ASSUME ~crossed PROVE (Whole /\ ProposalsEmpty)'
    BY <1>0, <1>k, <2>1, <2>2, <2>3, <2>4 DEF Whole, ProposalsEmpty
  <2> QED  BY <1>0, <1>f, <1>i, <2>1, <2>4, KeptAlone
<1>4. ASSUME NEW q \in Requests, Activate(q) PROVE Kept'
  <2> DEFINE r == run[q].rev
  <2>1. /\ run' = [run EXCEPT ![q] = Idle] /\ PlanFree /\ run[q].pc = "asked"
        /\ rev' = [rev EXCEPT ![r].status = "active"]
        /\ plan'.current = r /\ plan'.status = "active"
        /\ crossed' = (crossed \/ plan.current # r)
        /\ UNCHANGED <<task, done, late>>
    BY <1>4 DEF Activate, Goes
  <2>2. r \in Revisions  BY <1>0, <2>1 DEF RowMakesSense
  <2>3. \A p \in Revisions :
          rev'[p].status = IF p = r THEN "active" ELSE rev[p].status
    BY <1>0, <2>1, <2>2 DEF RevisionRow
  <2>4. ASSUME ~crossed' PROVE (Whole /\ ProposalsEmpty)'
    <3>1. ~crossed /\ plan.current = r  BY <2>1, <2>4
    <3> QED  BY <1>0, <1>k, <2>1, <2>2, <2>3, <3>1 DEF Whole, ProposalsEmpty
  <2>5. crossed => crossed'  BY <2>1
  <2> QED  BY <1>0, <1>f, <1>i, <2>1, <2>4, <2>5, KeptAlone
<1>5. ASSUME PauseOrResume PROVE Kept'
  <2>1. /\ plan.status \in {"active", "paused"} /\ plan'.current = plan.current
        /\ UNCHANGED <<rev, task, done, late, crossed, run>>
    BY <1>0, <1>5 DEF PauseOrResume
  <2>2. ASSUME ~crossed PROVE (Whole /\ ProposalsEmpty /\ CopiesKnown)'
    BY <1>k, <2>1, <2>2 DEF Whole, ProposalsEmpty, CopiesKnown, RowCopies
  <2> QED  BY <2>1, <2>2 DEF Kept, PlanKept, Whole
<1>6. ASSUME Archive PROVE Kept'
  <2>1. /\ plan'.status = "archived" /\ plan'.current = plan.current /\ PlanFree
        /\ UNCHANGED <<rev, done, late, crossed, run>>
    BY <1>0, <1>6 DEF Archive
  <2>a. \A r \in Revisions : task'[r] =
          [i \in Items |-> [task[r][i] EXCEPT !.cancelled = @ + task[r][i].pending, !.pending = 0]]
    BY <1>6 DEF Archive
  <2>2. \A r \in Revisions, i \in Items :
          /\ task'[r][i].pending = 0
          /\ task'[r][i].completed = task[r][i].completed
    <3> SUFFICES ASSUME NEW r \in Revisions, NEW i \in Items
                 PROVE  task'[r][i].pending = 0 /\ task'[r][i].completed = task[r][i].completed
      OBVIOUS
    <3>1. task[r][i] \in [pending : Nat, completed : Nat, cancelled : Nat]  BY <1>0 DEF Tasks
    <3>2. task'[r][i]
            = [task[r][i] EXCEPT !.cancelled = @ + task[r][i].pending, !.pending = 0]
      BY <2>a
    <3> QED  BY <3>1, <3>2
  <2>3. \A r \in Revisions : task[r] = Nothing => task'[r] = Nothing
    <3> SUFFICES ASSUME NEW r \in Revisions, task[r] = Nothing PROVE task'[r] = Nothing
      OBVIOUS
    <3>1. \A i \in Items :
            /\ task[r][i] = [pending |-> 0, completed |-> 0, cancelled |-> 0]
            /\ task'[r][i] = [task[r][i] EXCEPT !.cancelled = @ + task[r][i].pending, !.pending = 0]
      <4>1. \A i \in Items : Nothing[i] = [pending |-> 0, completed |-> 0, cancelled |-> 0]
        BY DEF Nothing
      <4>2. \A i \in Items : task[r][i] = Nothing[i]  OBVIOUS
      <4>3. \A i \in Items : task'[r][i]
              = [task[r][i] EXCEPT !.cancelled = @ + task[r][i].pending, !.pending = 0]
        BY <2>a
      <4> QED  BY <4>1, <4>2, <4>3
    <3>2. ASSUME NEW i \in Items
          PROVE  task'[r][i] = [pending |-> 0, completed |-> 0, cancelled |-> 0]
      <4>1. task[r][i] = [pending |-> 0, completed |-> 0, cancelled |-> 0]  BY <3>1
      <4>2. task'[r][i]
              = [task[r][i] EXCEPT !.cancelled = @ + task[r][i].pending, !.pending = 0]
        BY <3>1
      <4>3. task'[r][i] = [pending |-> 0, completed |-> task[r][i].completed,
                           cancelled |-> task[r][i].cancelled + task[r][i].pending]
        <5>1. task[r][i] \in [pending : Nat, completed : Nat, cancelled : Nat]
          BY <1>0 DEF Tasks
        <5> QED  BY <4>2, <5>1
      <4>4. /\ task[r][i].pending = 0 /\ task[r][i].completed = 0
            /\ task[r][i].cancelled = 0
        BY <4>1
      <4> QED  BY <4>3, <4>4
    <3> QED  BY <2>a, <3>2 DEF Nothing
  <2>4. CopiesKnown'  BY <1>f, <2>1 DEF CopiesKnown, RowCopies
  <2>5. done \subseteq Items  BY TypeParts DEF Good, Sense
  <2>6. ASSUME ~crossed PROVE Whole'
    <3>1. \A r \in Revisions, i \in Items : (task[r][i].pending + task[r][i].completed <= 1)'
      <4> SUFFICES ASSUME NEW r \in Revisions, NEW i \in Items
                   PROVE  task'[r][i].pending + task'[r][i].completed <= 1
        OBVIOUS
      <4>1. task[r][i].pending \in Nat /\ task[r][i].completed \in Nat  BY <1>0 DEF Tasks
      <4>2. task[r][i].pending + task[r][i].completed <= 1  BY <1>k, <2>6 DEF Whole
      <4> QED  BY <2>2, <4>1, <4>2
    <3>2. \A i \in done' \ late' : task'[plan'.current][i].completed > 0
      BY <1>0, <1>k, <2>1, <2>2, <2>5, <2>6 DEF Whole
    <3> QED  BY <1>k, <2>1, <2>6, <3>1, <3>2 DEF Whole
  <2>7. ASSUME ~crossed PROVE ProposalsEmpty'
    BY <1>k, <2>1, <2>3, <2>7 DEF ProposalsEmpty
  <2> QED  BY <2>1, <2>4, <2>6, <2>7 DEF Kept, PlanKept, Whole
<1> QED  BY <1>1, <1>2, <1>3, <1>4, <1>5, <1>6

LEMMA KeptTasks ==
  ASSUME Good, NEW r \in Revisions, NEW i \in Items
  PROVE  /\ CompleteTask(r, i) => Kept'
         /\ ReopenTask(r, i) => Kept'
<1>0. /\ task \in [Revisions -> Tasks] /\ plan.current \in Revisions
      /\ \A p \in Revisions, j \in Items :
            task[p][j] \in [pending : Nat, completed : Nat, cancelled : Nat]
      /\ done \subseteq Items
  BY TypeParts DEF Good, Sense, Tasks
<1>k. ~crossed => Whole /\ ProposalsEmpty /\ CopiesKnown  BY KeptIs DEF Good
(* a task changes, but neither how many copies of the item there are *)
<1>t. ASSUME UNCHANGED <<plan, rev, crossed>>, ~crossed,
             \A p \in Revisions : p # r => task'[p] = task[p],
             \A j \in Items : j # i => task'[r][j] = task[r][j],
             task'[r][i].pending + task'[r][i].completed = task[r][i].pending + task[r][i].completed,
             task[r][i].pending > 0 \/ task[r][i].completed > 0,
             \A j \in done' \ late' : (j # i \/ r # plan.current) => j \in done \ late,
             i \in done' \ late' => r # plan.current \/ task'[r][i].completed > 0
      PROVE  (Whole /\ ProposalsEmpty)'
  <2>1. task[r] # Nothing  BY <1>t DEF Nothing
  <2>2. ProposalsEmpty'  BY <1>k, <1>t, <2>1 DEF ProposalsEmpty
  <2>3. \A p \in Revisions, j \in Items :
          task'[p][j].pending + task'[p][j].completed = task[p][j].pending + task[p][j].completed
    BY <1>t
  <2>4. \A j \in done' \ late' : task'[plan'.current][j].completed > 0
    <3> SUFFICES ASSUME NEW j \in done' \ late' PROVE task'[plan.current][j].completed > 0
      BY <1>t
    <3>1. CASE r = plan.current /\ j = i  BY <1>t, <3>1
    <3>2. CASE r # plan.current \/ j # i
      <4>1. j \in done \ late  BY <1>t, <3>2
      <4>2. task'[plan.current][j] = task[plan.current][j] \/ r # plan.current
        BY <1>0, <1>t, <3>2, <4>1
      <4>3. task'[plan.current][j] = task[plan.current][j]  BY <1>0, <1>t, <4>2
      <4> QED  BY <1>k, <1>t, <4>1, <4>3 DEF Whole
    <3> QED  BY <3>1, <3>2
  <2>5. \A p \in Revisions, j \in Items : (task[p][j].pending + task[p][j].completed <= 1)'
    BY <1>k, <1>t, <2>3 DEF Whole
  <2> QED  BY <1>k, <1>t, <2>2, <2>4, <2>5 DEF Whole
(* what is being copied was read before *)
<1>c. ASSUME UNCHANGED <<plan, rev, run, crossed>>, ~crossed,
             ~PlanFree => done' \ late' \subseteq done \ late
      PROVE  CopiesKnown'
  <2>1. \A x \in Processes : run[x].pc = "copy" => done' \ late' \subseteq done \ late
    BY <1>c DEF PlanFree, Processes
  <2> QED  BY <1>k, <1>c, <2>1 DEF CopiesKnown, RowCopies
<1>1. ASSUME CompleteTask(r, i) PROVE Kept'
  <2>1. /\ task[r][i].pending > 0
        /\ task' = [task EXCEPT ![r][i].pending = @ - 1, ![r][i].completed = @ + 1]
        /\ done' = IF r = plan.current THEN done \union {i} ELSE done
        /\ late' = IF r = plan.current /\ ~PlanFree THEN late \union {i} ELSE late
        /\ UNCHANGED <<plan, rev, crossed, run>>
    BY <1>1 DEF CompleteTask
  <2>2. /\ \A p \in Revisions : p # r => task'[p] = task[p]
        /\ \A j \in Items : j # i => task'[r][j] = task[r][j]
        /\ task'[r][i].pending = task[r][i].pending - 1
        /\ task'[r][i].completed = task[r][i].completed + 1
    BY <1>0, <2>1 DEF Tasks
  <2>3. task[r][i].pending \in Nat /\ task[r][i].completed \in Nat  BY <1>0
  <2>4. task'[r][i].pending + task'[r][i].completed = task[r][i].pending + task[r][i].completed
    BY <2>2, <2>3
  <2>5. task'[r][i].completed > 0  BY <2>2, <2>3
  <2>6. \A j \in done' \ late' : (j # i \/ r # plan.current) => j \in done \ late
    BY <2>1
  <2>7. ~PlanFree => done' \ late' \subseteq done \ late  BY <2>1
  <2>8. ~crossed => (Whole /\ ProposalsEmpty)'  BY <1>t, <2>1, <2>2, <2>4, <2>5, <2>6
  <2>9. ~crossed => CopiesKnown'  BY <1>c, <2>1, <2>7
  <2> QED  BY <2>1, <2>8, <2>9 DEF Kept, PlanKept, Whole
<1>2. ASSUME ReopenTask(r, i) PROVE Kept'
  <2>1. /\ task[r][i].completed > 0
        /\ task' = [task EXCEPT ![r][i].pending = @ + 1, ![r][i].completed = @ - 1]
        /\ done' = IF r = plan.current THEN done \ {i} ELSE done
        /\ UNCHANGED <<plan, rev, late, crossed, run>>
    BY <1>2 DEF ReopenTask
  <2>2. /\ \A p \in Revisions : p # r => task'[p] = task[p]
        /\ \A j \in Items : j # i => task'[r][j] = task[r][j]
        /\ task'[r][i].pending = task[r][i].pending + 1
        /\ task'[r][i].completed = task[r][i].completed - 1
    BY <1>0, <2>1 DEF Tasks
  <2>3. task[r][i].pending \in Nat /\ task[r][i].completed \in Nat  BY <1>0
  <2>4. task'[r][i].pending + task'[r][i].completed = task[r][i].pending + task[r][i].completed
    BY <2>2, <2>3
  <2>5. done' \ late' \subseteq done \ late /\ (r = plan.current => i \notin done')  BY <2>1
  <2>6. ~crossed => (Whole /\ ProposalsEmpty)'  BY <1>t, <2>1, <2>2, <2>4, <2>5
  <2>7. ~crossed => CopiesKnown'  BY <1>c, <2>1, <2>5
  <2> QED  BY <2>1, <2>6, <2>7 DEF Kept, PlanKept, Whole
<1> QED  BY <1>1, <1>2

LEMMA KeptStep == Good /\ [Next]_vars => Kept'
<1> SUFFICES ASSUME Good, [Next]_vars PROVE Kept'  OBVIOUS
<1>1. CASE UNCHANGED vars  BY <1>1, KeptSame DEF vars
<1>2. CASE Next
  <2>0. \A w \in Workers : todo[w] \subseteq Ops  BY DEF Good, Sense, TypeOK
  <2>1. CASE \E o \in Ops : WeeklyReplan(o)  BY <2>1, KeptRuns
  <2>2. ASSUME NEW w \in Workers,
               ClaimBatch(w) \/ Work(w) \/ ExecutionRaises(w) \/ CrashWorker(w)
        PROVE  Kept'
    <3>1. CASE Work(w)
      <4>1. CASE \E o \in Ops : AcquireLease(w, o) \/ LeaseBusy(w, o)  BY <4>1, KeptRuns
      <4>2. CASE ReadPlan(w) \/ FinishOperation(w) \/ ReleaseLease(w)  BY <4>2, KeptRuns
      <4>3. CASE \E r \in Revisions : Propose(w, r)  BY <4>3, KeptPlans
      <4> QED  BY <2>0, <3>1, <4>1, <4>2, <4>3 DEF Work
    <3>2. CASE ClaimBatch(w)  BY <3>2, KeptRuns
    <3>3. CASE ExecutionRaises(w) \/ CrashWorker(w)  BY <3>3, KeptRuns
    <3> QED  BY <2>2, <3>1, <3>2, <3>3
  <2>3. CASE LeaseRunsOut  BY <2>3, KeptRuns
  <2>4. ASSUME NEW x \in Processes, Replan(x) PROVE Kept'
    BY <2>4, KeptRuns, KeptBegin, KeptCommits DEF Replan
  <2>5. ASSUME NEW q \in Requests,
               \/ \E o \in Ops, r \in Revisions : AdjustPlan(q, o, r)
               \/ \E kind \in {"accept", "reject", "activate"}, r \in Revisions :
                    AskDecision(q, kind, r)
               \/ Decide(q) \/ RequestFails(q)
        PROVE  Kept'
    <3>1. CASE \E o \in Ops, r \in Revisions : AdjustPlan(q, o, r)  BY <3>1, KeptPlans
    <3>2. CASE \E kind \in {"accept", "reject", "activate"}, r \in Revisions :
                AskDecision(q, kind, r)
      BY <3>2, KeptRuns
    <3>3. CASE Decide(q) \/ RequestFails(q)
      BY <3>3, KeptRuns, KeptBegin, KeptCommits, KeptPlans DEF Decide
    <3> QED  BY <2>5, <3>1, <3>2, <3>3
  <2>6. CASE PauseOrResume \/ Archive  BY <2>6, KeptPlans
  <2>7. ASSUME NEW r \in Revisions, NEW i \in Items, CompleteTask(r, i) \/ ReopenTask(r, i)
        PROVE  Kept'
    BY <2>7, KeptTasks
  <2> QED  BY <1>2, <2>1, <2>2, <2>3, <2>4, <2>5, <2>6, <2>7 DEF Next, Processes
<1> QED  BY <1>1, <1>2

(* However any number of workers and requests interleave: but for a         *)
(* revision that was put in force over another than the one that was read, *)
(* only the one in force is active, nothing is planned twice, and what is  *)
(* done stays done, unless it was done while the tasks were copied.        *)
THEOREM PlanIsKept == Spec => []PlanKept
<1>1. Init => Good  BY SenseInit, ShapeInit, KeptInit DEF Good
<1>2. Good /\ [Next]_vars => Good'  BY SenseStep, ShapeStep, KeptStep DEF Good
<1>3. Good => PlanKept  BY DEF Good, Kept, PlanKept
<1> QED  BY <1>1, <1>2, <1>3, PTL DEF Spec

(* ---- one try at a time ------------------------------------------------ *)

(* The worker is on its way to the proposal of this try.                   *)
ToPropose(w, o) ==
  \/ o \in todo[w]
  \/ run[w].op = o /\ run[w].pc \in {"leased", "read"}

Pending(o) == \E w \in Workers : ToPropose(w, o)

Proposals(o) == {r \in Revisions : rev[r].op = o}

One(b) == IF b THEN 1 ELSE 0

(* A try that has begun and has not proposed is counted in advance; what   *)
(* is queued, or is an adjustment, is in nobody's hands.                   *)
Tries(o) ==
  /\ op[o].status \in {"absent", "queued"} \/ op[o].attempts = 0 =>
       \A w \in Workers : ~Holds(w, o)
  /\ \A v, w \in Workers : Holds(v, o) /\ Holds(w, o) => v = w
  /\ \A w \in Workers : o \in todo[w] /\ run[w].op = o => run[w].pc \in {"idle", "release"}
  /\ op[o].status = "absent" \/ (op[o].status = "queued" /\ op[o].attempts = 0) =>
       Proposals(o) = {}
  /\ Cardinality(Proposals(o)) + One(Pending(o)) <= TriedBy(o)

AllTries == \A o \in Ops : Tries(o)

LEMMA ProposalsFinite ==
  \A o : /\ IsFiniteSet(Proposals(o)) /\ Cardinality(Proposals(o)) \in Nat
         /\ IsFiniteSet(Proposals(o)') /\ Cardinality(Proposals(o)') \in Nat
<1>1. IsFiniteSet(Revisions)
  <2>1. MaxWeeks * MaxAttempts \in Nat  BY StudyAssumption
  <2>2. 1 + MaxWeeks * MaxAttempts + MaxActs \in Int /\ 1 \in Int  BY <2>1, StudyAssumption
  <2> QED  BY <2>2, FS_Interval DEF Revisions
<1>2. \A o : IsFiniteSet(Proposals(o)) /\ IsFiniteSet(Proposals(o)')
  <2>1. \A o : Proposals(o) \subseteq Revisions /\ Proposals(o)' \subseteq Revisions
    BY DEF Proposals, Revisions
  <2> QED  BY <1>1, <2>1, FS_Subset
<1> QED  BY <1>2, FS_CardinalityType

LEMMA AttemptsType ==
  ASSUME TypeOK, NEW o \in Ops
  PROVE  op[o].attempts \in Nat /\ TriedBy(o) \in Nat
BY Numbers DEF TypeOK, OperationRow, TriedBy

LEMMA TriesInit == Init => AllTries
<1> SUFFICES ASSUME Init, NEW o \in Ops PROVE Tries(o)  BY DEF AllTries
<1>1. \A w \in Workers : ~Holds(w, o)  BY DEF Init, Idle, Holds
<1>2. ~Pending(o) /\ \A w \in Workers : o \notin todo[w]
  BY DEF Init, Idle, Pending, ToPropose
<1>3. Proposals(o) = {}
  <2>1. \A r \in Revisions : rev[r].op = 0  BY DEF Init
  <2> QED  BY <2>1, Numbers DEF Proposals
<1>4. Cardinality(Proposals(o)) = 0 /\ TriedBy(o) = 1
  BY <1>3, FS_EmptySet DEF Init, TriedBy
<1> QED  BY <1>1, <1>2, <1>3, <1>4 DEF Tries, One

(* Nobody comes to hold an operation, or to be on the way to its proposal. *)
Narrower ==
  \A o \in Ops, w \in Workers :
    /\ Holds(w, o)' => Holds(w, o)
    /\ ToPropose(w, o)' => ToPropose(w, o)
    /\ o \in todo'[w] => o \in todo[w]
    /\ run'[w].op = o /\ run'[w].pc \notin {"idle", "release"} =>
         \/ run[w].op = o /\ run[w].pc \notin {"idle", "release"}
         \/ o \notin todo'[w]

NoProposal == \A r \in Revisions : rev'[r].op = rev[r].op

(* The operation is not handed back, or by the worker that held it.        *)
OnItsWay(o) ==
  /\ op'[o].attempts = op[o].attempts
  /\ op'[o].status = "absent" => op[o].status = "absent"
  /\ op'[o].status = "queued" =>
       \/ op[o].status \in {"absent", "queued"}
       \/ op[o].attempts # 0 /\ \A w \in Workers : ~Holds(w, o)'

LEMMA TriesGoOn ==
  ASSUME Sense, AllTries, Narrower, NoProposal, \A o \in Ops : OnItsWay(o)
  PROVE  AllTries'
<1> SUFFICES ASSUME NEW o \in Ops PROVE Tries(o)'  BY DEF AllTries, Ops
<1>0. Tries(o) /\ OnItsWay(o)  BY DEF AllTries
<1>1. Proposals(o)' = Proposals(o)  BY DEF NoProposal, Proposals
<1>2. Pending(o)' => Pending(o)  BY DEF Narrower, Pending
<1>3. TriedBy(o)' = TriedBy(o) /\ TriedBy(o) \in Nat
  BY <1>0, AttemptsType DEF OnItsWay, TriedBy, Sense
<1>4. Cardinality(Proposals(o)') + One(Pending(o)') <= TriedBy(o)'
  BY <1>0, <1>1, <1>2, <1>3, ProposalsFinite DEF Tries, One
<1>5. op'[o].status \in {"absent", "queued"} \/ op'[o].attempts = 0 =>
        \A w \in Workers : ~Holds(w, o)'
  BY <1>0 DEF OnItsWay, Narrower, Tries
<1>6. \A v, w \in Workers : Holds(v, o)' /\ Holds(w, o)' => v = w
  BY <1>0 DEF Narrower, Tries
<1>7. \A w \in Workers : o \in todo'[w] /\ run'[w].op = o => run'[w].pc \in {"idle", "release"}
  BY <1>0 DEF Narrower, Tries
<1>8. op'[o].status = "absent" \/ (op'[o].status = "queued" /\ op'[o].attempts = 0) =>
        Proposals(o)' = {}
  BY <1>0, <1>1 DEF OnItsWay, Tries
<1> QED  BY <1>4, <1>5, <1>6, <1>7, <1>8 DEF Tries

(* A process goes on with what it is at, or leaves it.                     *)
LEMMA GoesNarrower ==
  ASSUME Sense, NEW x \in Processes, UNCHANGED todo,
         \A y \in Processes : y # x => run'[y] = run[y],
         x \in Workers => /\ run'[x].pc \notin {"idle", "release"} =>
                               run[x].pc \notin {"idle", "release"} /\ run'[x].op = run[x].op
                          /\ run'[x].pc \in {"leased", "read"} => run[x].pc \in {"leased", "read"}
  PROVE  Narrower
BY StudyAssumption DEF Narrower, Holds, ToPropose, Processes

LEMMA SameHands == UNCHANGED <<todo, run>> => Narrower
BY DEF Narrower, Holds, ToPropose

LEMMA RequestsHandless ==
  ASSUME Sense, NEW q \in Requests, UNCHANGED todo, NEW s, run' = [run EXCEPT ![q] = s]
  PROVE  Narrower
<1>1. q \in Processes /\ q \notin Workers /\ \A y \in Processes : y # q => run'[y] = run[y]
  BY StudyAssumption DEF Processes, Sense, TypeOK
<1> QED  BY <1>1, GoesNarrower

LEMMA OpStays == UNCHANGED op => \A o \in Ops : OnItsWay(o)
BY DEF OnItsWay

LEMMA OpBecomesOn ==
  ASSUME Sense, NEW p \in Ops, NEW from, NEW to \in {"needs_input", "succeeded", "cancelled"},
         op' = OpBecomes(p, from, to)
  PROVE  \A o \in Ops : OnItsWay(o)
BY DEF OpBecomes, OnItsWay, Sense, TypeOK, OperationRow

(* The holder of an operation ends its try, and holds it no more.          *)
LEMMA FinishedOn ==
  ASSUME Sense, AllTries, Narrower, NEW p \in Ops,
         NEW status \in {"needs_input", "succeeded", "failed"}, op' = Finished(p, status),
         NEW w \in Workers, Holds(w, p), ~Holds(w, p)'
  PROVE  \A o \in Ops : OnItsWay(o)
<1>1. Tries(p)  BY DEF AllTries
<1>2. \A v \in Workers : ~Holds(v, p)'
  BY <1>1 DEF Tries, Narrower
<1>3. op[p].attempts # 0  BY <1>1 DEF Tries
<1>4. op \in [Ops -> OperationRow]  BY DEF Sense, TypeOK
<1>5. \A o \in Ops : o # p => op'[o] = op[o]
  BY <1>4 DEF Finished
<1>6. op'[p].attempts = op[p].attempts /\ op'[p].status # "absent"
  BY <1>4 DEF Finished, OperationRow
<1> QED  BY <1>2, <1>3, <1>5, <1>6 DEF OnItsWay

(* A claim begins a try of each operation of the batch.                    *)
LEMMA TriesClaim ==
  ASSUME Sense, AllTries, NEW w \in Workers, ClaimBatch(w)
  PROVE  AllTries'
<1>1. PICK batch \in SUBSET Ops : batch = Claimed  BY DEF Claimed, Queued
<1>2. /\ \A o \in batch : op[o].status = "queued" /\ op'[o].attempts = op[o].attempts + 1
                          /\ op'[o].status = "running"
      /\ \A o \in Ops \ batch : op'[o] = op[o]
  BY <1>1 DEF ClaimBatch, Claimed, Queued
<1>3. /\ todo'[w] = batch /\ todo[w] = {} /\ run[w].pc = "idle"
      /\ \A v \in Workers : v # w => todo'[v] = todo[v]
      /\ UNCHANGED <<run, rev>>
  BY <1>1 DEF ClaimBatch, planVars, Sense, TypeOK
<1> SUFFICES ASSUME NEW o \in Ops PROVE Tries(o)'  BY DEF AllTries, Ops
<1>4. Tries(o)  BY DEF AllTries
<1>5. Proposals(o)' = Proposals(o)  BY <1>3 DEF Proposals
<1>6. op[o].attempts \in Nat /\ Cardinality(Proposals(o)) \in Nat
  BY AttemptsType, ProposalsFinite DEF Sense
<1>7. CASE o \in batch
  <2>1. \A v \in Workers : ~Holds(v, o)  BY <1>2, <1>4, <1>7 DEF Tries
  <2>2. \A v \in Workers : v # w => ~Holds(v, o)'  BY <1>3, <2>1 DEF Holds
  <2>3. ~Pending(o)  BY <2>1 DEF Pending, ToPropose, Holds
  <2>4. Cardinality(Proposals(o)) <= op[o].attempts
    <3>1. CASE op[o].attempts = 0
      <4>1. Proposals(o) = {}  BY <1>2, <1>4, <1>7, <3>1 DEF Tries
      <4> QED  BY <3>1, <4>1, FS_EmptySet
    <3>2. CASE op[o].attempts # 0
      BY <1>4, <1>6, <2>3, <3>2 DEF Tries, TriedBy, One
    <3> QED  BY <3>1, <3>2
  <2>5. Cardinality(Proposals(o)') + One(Pending(o)') <= TriedBy(o)'
    <3>1. op'[o].attempts = op[o].attempts + 1  BY <1>2, <1>7
    <3> QED  BY <1>5, <1>6, <2>4, <3>1 DEF TriedBy, One
  <2>6. \A v \in Workers : o \in todo'[v] /\ run'[v].op = o => run'[v].pc \in {"idle", "release"}
    BY <1>3, <1>4 DEF Tries
  <2>7. op'[o].attempts # 0 /\ op'[o].status = "running"  BY <1>2, <1>6, <1>7
  <2> QED  BY <2>2, <2>5, <2>6, <2>7 DEF Tries
<1>8. CASE o \notin batch
  <2>1. op'[o] = op[o]  BY <1>2, <1>8
  <2>2. \A v \in Workers : (Holds(v, o)' <=> Holds(v, o)) /\ (ToPropose(v, o)' <=> ToPropose(v, o))
    BY <1>3, <1>8 DEF Holds, ToPropose
  <2>3. Pending(o)' <=> Pending(o)  BY <2>2 DEF Pending
  <2>4. Cardinality(Proposals(o)') + One(Pending(o)') <= TriedBy(o)'
    BY <1>4, <1>5, <2>1, <2>3 DEF Tries, TriedBy, One
  <2>5. \A v \in Workers : o \in todo'[v] /\ run'[v].op = o => run'[v].pc \in {"idle", "release"}
    BY <1>3, <1>4, <1>8 DEF Tries
  <2> QED  BY <1>4, <1>5, <2>1, <2>2, <2>4, <2>5 DEF Tries
<1> QED  BY <1>7, <1>8

LEMMA TriesOperations ==
  ASSUME Sense, AllTries
  PROVE  /\ \A o \in Ops : WeeklyReplan(o) => AllTries'
         /\ \A w \in Workers : \A o \in todo[w] : AcquireLease(w, o) => AllTries'
         /\ \A w \in Workers : \A o \in todo[w] : LeaseBusy(w, o) => AllTries'
         /\ \A w \in Workers : FinishOperation(w) => AllTries'
         /\ \A w \in Workers : ReleaseLease(w) => AllTries'
         /\ \A w \in Workers : ExecutionRaises(w) => AllTries'
         /\ \A w \in Workers : CrashWorker(w) => AllTries'
         /\ LeaseRunsOut => AllTries'
<1>0. /\ op \in [Ops -> OperationRow] /\ todo \in [Workers -> SUBSET Ops]
      /\ run \in [Processes -> RunState]
      /\ \A w \in Workers : w \in Processes /\ run[w] \in RunState /\ RowMakesSense(w, run[w])
  BY DEF Sense, TypeOK, RunsMakeSense, Processes
<1>1. ASSUME NEW o \in Ops, WeeklyReplan(o) PROVE AllTries'
  <2>1. op' = [op EXCEPT ![o].status = "queued"] /\ op[o].status = "absent"
    BY <1>1 DEF WeeklyReplan, NewOp
  <2>2. \A p \in Ops : OnItsWay(p)  BY <1>0, <2>1 DEF OnItsWay, OperationRow
  <2>3. Narrower /\ NoProposal
    BY <1>1, SameHands DEF WeeklyReplan, workVars, planVars, NoProposal
  <2> QED  BY <2>2, <2>3, TriesGoOn
<1>2. ASSUME NEW w \in Workers, NEW o \in todo[w], AcquireLease(w, o) PROVE AllTries'
  <2>1. /\ todo'[w] = todo[w] \ {o} /\ run'[w].pc = "leased" /\ run'[w].op = o
        /\ run[w].pc = "idle"
        /\ \A v \in Workers : v # w => todo'[v] = todo[v] /\ run'[v] = run[v]
    BY <1>0, <1>2 DEF AcquireLease, Idle
  <2>2. Narrower  BY <2>1 DEF Narrower, Holds, ToPropose
  <2> QED  BY <1>2, <2>2, OpStays, TriesGoOn DEF AcquireLease, planVars, NoProposal
<1>3. ASSUME NEW w \in Workers, NEW o \in todo[w], LeaseBusy(w, o) PROVE AllTries'
  <2>1. /\ todo'[w] = todo[w] \ {o} /\ run[w].pc = "idle" /\ UNCHANGED run
        /\ \A v \in Workers : v # w => todo'[v] = todo[v]
    BY <1>0, <1>3 DEF LeaseBusy
  <2>2. Narrower  BY <2>1 DEF Narrower, Holds, ToPropose
  <2>3. o \in Ops /\ Holds(w, o) /\ ~Holds(w, o)'  BY <1>0, <2>1 DEF Holds
  <2>4. \A p \in Ops : OnItsWay(p)  BY <1>3, <2>2, <2>3, FinishedOn DEF LeaseBusy
  <2> QED  BY <1>3, <2>2, <2>4, TriesGoOn DEF LeaseBusy, planVars, NoProposal
<1>4. ASSUME NEW w \in Workers, FinishOperation(w) PROVE AllTries'
  <2>1. /\ run[w].pc = "finish" /\ run'[w].pc = "release" /\ run'[w].op = run[w].op
        /\ \A v \in Processes : v # w => run'[v] = run[v]
    BY <1>0, <1>4 DEF FinishOperation, RunState
  <2>2. Narrower  BY <1>0, <1>4, <2>1, GoesNarrower DEF FinishOperation, workVars
  <2>3. run[w].op \in Ops /\ run[w].outcome \in {"needs_input", "succeeded", "failed"}
    BY <1>0, <2>1 DEF RowMakesSense, RunState
  <2>4. Holds(w, run[w].op)  BY <2>1 DEF Holds
  <2>5. ~Holds(w, run[w].op)'
    <3>1. run[w].op \notin todo[w]  BY <2>1, <2>3 DEF AllTries, Tries
    <3> QED  BY <1>4, <2>1, <3>1 DEF Holds, FinishOperation, workVars
  <2>6. \A p \in Ops : OnItsWay(p)
    BY <1>4, <2>2, <2>3, <2>4, <2>5, FinishedOn DEF FinishOperation
  <2> QED  BY <1>4, <2>2, <2>6, TriesGoOn DEF FinishOperation, planVars, NoProposal
<1>5. ASSUME NEW w \in Workers, ReleaseLease(w) PROVE AllTries'
  <2>1. run'[w].pc = "idle" /\ \A v \in Processes : v # w => run'[v] = run[v]
    BY <1>0, <1>5 DEF ReleaseLease, Idle
  <2>2. Narrower  BY <1>0, <1>5, <2>1, GoesNarrower DEF ReleaseLease
  <2> QED  BY <1>5, <2>2, OpStays, TriesGoOn DEF ReleaseLease, planVars, NoProposal
<1>6. ASSUME NEW w \in Workers, ExecutionRaises(w) PROVE AllTries'
  <2>1. /\ run'[w].pc = "finish" /\ run'[w].op = run[w].op
        /\ run[w].pc \in {"leased", "read", "proposed", "copy", "finish"}
        /\ \A v \in Processes : v # w => run'[v] = run[v]
    BY <1>0, <1>6 DEF ExecutionRaises, RunState
  <2>2. Narrower  BY <1>0, <1>6, <2>1, GoesNarrower DEF ExecutionRaises, workVars
  <2> QED  BY <1>6, <2>2, OpStays, TriesGoOn DEF ExecutionRaises, planVars, NoProposal
<1>7. ASSUME NEW w \in Workers, CrashWorker(w) PROVE AllTries'
  <2>1. /\ run'[w].pc = "idle" /\ todo'[w] = {}
        /\ \A v \in Workers : v # w => run'[v] = run[v] /\ todo'[v] = todo[v]
    BY <1>0, <1>7 DEF CrashWorker, Idle
  <2>2. Narrower  BY <2>1 DEF Narrower, Holds, ToPropose
  <2> QED  BY <1>7, <2>2, OpStays, TriesGoOn DEF CrashWorker, planVars, NoProposal
<1>8. ASSUME LeaseRunsOut PROVE AllTries'
  BY <1>8, SameHands, OpStays, TriesGoOn DEF LeaseRunsOut, planVars, NoProposal
<1> QED  BY <1>1, <1>2, <1>3, <1>4, <1>5, <1>6, <1>7, <1>8

(* A proposal uses up the try it was counted for.                          *)
LEMMA TriesPropose ==
  ASSUME Sense, AllTries, NEW w \in Workers, NEW x \in Revisions, Propose(w, x)
  PROVE  AllTries'
<1>0. /\ run \in [Processes -> RunState] /\ w \in Processes /\ rev \in [Revisions -> RevisionRow]
      /\ run[w] \in RunState /\ RowMakesSense(w, run[w])
  BY DEF Sense, TypeOK, RunsMakeSense, Processes
<1>1. PICK p \in Ops : p = run[w].op  BY <1>0 DEF Propose, RowMakesSense
<1>2. /\ run'[w].pc = "proposed" /\ run'[w].op = p /\ run[w].pc = "read"
      /\ \A v \in Processes : v # w => run'[v] = run[v]
      /\ UNCHANGED <<todo, op>>
  BY <1>0, <1>1 DEF Propose, RunState, workVars
<1>3. Narrower  BY <1>0, <1>1, <1>2, GoesNarrower
<1>4. \A r \in Revisions : rev'[r].op = IF r = x THEN p ELSE rev[r].op
  BY <1>0, <1>1 DEF Propose, NewRevision
<1> SUFFICES ASSUME NEW o \in Ops PROVE Tries(o)'  BY DEF AllTries, Ops
<1>5. Tries(o)  BY DEF AllTries
<1>6. TriedBy(o) \in Nat /\ TriedBy(o)' = TriedBy(o)
  BY <1>2, AttemptsType DEF Sense, TriedBy
<1>7. /\ \A v \in Workers : Holds(v, o)' => Holds(v, o)
      /\ \A v \in Workers : o \in todo'[v] /\ run'[v].op = o => run'[v].pc \in {"idle", "release"}
  BY <1>3, <1>5 DEF Narrower, Tries
<1>8. Pending(o)' => Pending(o)  BY <1>3 DEF Narrower, Pending
<1>9. CASE o = p
  <2>1. Holds(w, o) /\ o \notin todo[w]  BY <1>1, <1>2, <1>5, <1>9 DEF Holds, Tries
  <2>2. Pending(o)  BY <1>1, <1>2, <1>9 DEF Pending, ToPropose
  <2>3. ~Pending(o)'
    <3>1. \A v \in Workers : v # w => ~Holds(v, o)  BY <1>5, <2>1 DEF Tries
    <3>2. \A v \in Workers : v # w => ~ToPropose(v, o)'
      BY <1>3, <3>1 DEF Narrower, ToPropose, Holds
    <3>3. ~ToPropose(w, o)'  BY <1>2, <2>1 DEF ToPropose
    <3> QED  BY <3>2, <3>3 DEF Pending
  <2>4. Proposals(o)' = Proposals(o) \union {x}  BY <1>4, <1>9 DEF Proposals
  <2>5. Cardinality(Proposals(o)') <= Cardinality(Proposals(o)) + 1
    <3>1. IsFiniteSet(Proposals(o)) /\ Cardinality(Proposals(o)) \in Nat  BY ProposalsFinite
    <3>2. \/ Cardinality(Proposals(o) \union {x}) = Cardinality(Proposals(o))
          \/ Cardinality(Proposals(o) \union {x}) = Cardinality(Proposals(o)) + 1
      BY <3>1, FS_AddElement
    <3> QED  BY <2>4, <3>1, <3>2
  <2>6. Cardinality(Proposals(o)') + One(Pending(o)') <= TriedBy(o)'
    BY <1>5, <1>6, <2>2, <2>3, <2>5, ProposalsFinite DEF Tries, One
  <2>7. op'[o].status \notin {"absent", "queued"} /\ op'[o].attempts # 0
    BY <1>2, <1>5, <2>1 DEF Tries
  <2> QED  BY <1>5, <1>7, <2>6, <2>7 DEF Tries
<1>10. CASE o # p
  <2>1. Proposals(o)' \subseteq Proposals(o)  BY <1>4, <1>10 DEF Proposals
  <2>2. Cardinality(Proposals(o)') <= Cardinality(Proposals(o))
    BY <2>1, ProposalsFinite, FS_Subset
  <2>3. Cardinality(Proposals(o)') + One(Pending(o)') <= TriedBy(o)'
    BY <1>5, <1>6, <1>8, <2>2, ProposalsFinite DEF Tries, One
  <2> QED  BY <1>2, <1>5, <1>7, <2>1, <2>3 DEF Tries
<1> QED  BY <1>9, <1>10

LEMMA TriesAdjust ==
  ASSUME Sense, AllTries, NEW q \in Requests, NEW p \in Ops, NEW x \in Revisions,
         AdjustPlan(q, p, x)
  PROVE  AllTries'
<1>0. /\ rev \in [Revisions -> RevisionRow] /\ op \in [Ops -> OperationRow]
  BY DEF Sense, TypeOK
<1>1. Narrower  BY RequestsHandless DEF AdjustPlan, workVars
<1>2. /\ op[p].status = "absent" /\ op'[p].status = "running"
      /\ op'[p].attempts = op[p].attempts
      /\ \A o \in Ops : o # p => op'[o] = op[o]
  BY <1>0 DEF AdjustPlan, NewOp, OperationRow
<1>3. \A r \in Revisions : rev'[r].op = IF r = x THEN p ELSE rev[r].op
  BY <1>0 DEF AdjustPlan, NewRevision
<1> SUFFICES ASSUME NEW o \in Ops PROVE Tries(o)'  BY DEF AllTries, Ops
<1>4. Tries(o)  BY DEF AllTries
<1>5. TriedBy(o) \in Nat /\ TriedBy(o)' = TriedBy(o) /\ op[o].attempts \in Nat
  BY <1>2, AttemptsType DEF Sense, TriedBy
<1>6. /\ \A v \in Workers : Holds(v, o)' => Holds(v, o)
      /\ \A v \in Workers : o \in todo'[v] /\ run'[v].op = o => run'[v].pc \in {"idle", "release"}
      /\ Pending(o)' => Pending(o)
  BY <1>1, <1>4 DEF Narrower, Tries, Pending
<1>7. CASE o = p
  <2>1. \A v \in Workers : ~Holds(v, o)  BY <1>2, <1>4, <1>7 DEF Tries
  <2>2. ~Pending(o)'  BY <1>6, <2>1 DEF Pending, ToPropose, Holds
  <2>3. Proposals(o)' = {x}
    <3>1. Proposals(o) = {}  BY <1>2, <1>4, <1>7 DEF Tries
    <3> QED  BY <1>3, <1>7, <3>1 DEF Proposals
  <2>4. Cardinality(Proposals(o)') = 1  BY <2>3, FS_Singleton
  <2>5. 1 <= TriedBy(o)'  BY <1>5 DEF TriedBy
  <2> QED  BY <1>2, <1>4, <1>6, <1>7, <2>1, <2>2, <2>4, <2>5 DEF Tries, One
<1>8. CASE o # p
  <2>1. Proposals(o)' \subseteq Proposals(o)  BY <1>3, <1>8 DEF Proposals
  <2>2. Cardinality(Proposals(o)') <= Cardinality(Proposals(o))
    BY <2>1, ProposalsFinite, FS_Subset
  <2>3. Cardinality(Proposals(o)') + One(Pending(o)') <= TriedBy(o)'
    BY <1>4, <1>5, <1>6, <2>2, ProposalsFinite DEF Tries, One
  <2> QED  BY <1>2, <1>4, <1>6, <1>8, <2>1, <2>3 DEF Tries
<1> QED  BY <1>7, <1>8

(* What a process does that has proposed, or whose proposal is decided.    *)
LEMMA TriesReplans ==
  ASSUME Sense, AllTries
  PROVE  /\ \A w \in Workers : ReadPlan(w) => AllTries'
         /\ \A x \in Processes : AskUser(x) => AllTries'
         /\ \A x \in Processes : BeginReplan(x) => AllTries'
         /\ \A x \in Processes : CommitReplan(x) => AllTries'
<1>0. /\ run \in [Processes -> RunState] /\ rev \in [Revisions -> RevisionRow]
      /\ Workers \subseteq Processes
      /\ \A x \in Processes : run[x] \in RunState /\ RowMakesSense(x, run[x])
  BY DEF Sense, TypeOK, RunsMakeSense, Processes
<1>1. ASSUME NEW w \in Workers, ReadPlan(w) PROVE AllTries'
  <2>1. /\ run'[w].pc = "read" /\ run'[w].op = run[w].op /\ run[w].pc = "leased"
        /\ \A v \in Processes : v # w => run'[v] = run[v]
    BY <1>0, <1>1 DEF ReadPlan, RunState
  <2>2. Narrower  BY <1>0, <1>1, <2>1, GoesNarrower DEF ReadPlan, workVars
  <2> QED  BY <1>1, <2>2, OpStays, TriesGoOn DEF ReadPlan, planVars, NoProposal
<1>2. ASSUME NEW x \in Processes, NEW outcome, Concludes(x, outcome), UNCHANGED todo,
             run[x].pc \in {"proposed", "copy"}
      PROVE  Narrower /\ (run[x].op \in Ops \/ run[x].kind \notin {"replan", "adjust"})
  <2>1. \A v \in Processes : v # x => run'[v] = run[v]
    BY <1>0, <1>2 DEF Concludes
  <2>2. x \in Workers => run[x].kind = "replan"
    BY <1>0, <1>2 DEF RowMakesSense
  <2>3. run[x].kind = "replan" => run'[x].op = run[x].op /\ run'[x].pc = "finish"
    BY <1>0, <1>2 DEF Concludes, RunState
  <2>4. Narrower  BY <1>2, <2>1, <2>2, <2>3, GoesNarrower
  <2>5. run[x].kind \in {"replan", "adjust"} => run[x].op \in Ops
    BY <1>0, <1>2 DEF RowMakesSense, Processes
  <2> QED  BY <2>4, <2>5
<1>3. ASSUME NEW x \in Processes, AskUser(x) PROVE AllTries'
  <2>1. run[x].op \in Ops  BY <1>0, <1>3 DEF RowMakesSense, Processes, AskUser
  <2>2. \A o \in Ops : OnItsWay(o)  BY <1>3, <2>1, OpBecomesOn DEF AskUser
  <2>3. Narrower  BY <1>2, <1>3 DEF AskUser, workVars
  <2> QED  BY <1>3, <2>2, <2>3, TriesGoOn DEF AskUser, planVars, NoProposal
<1>4. ASSUME NEW x \in Processes, BeginReplan(x) PROVE AllTries'
  <2>1. /\ run'[x].pc = "copy" /\ run'[x].op = run[x].op /\ run[x].pc = "proposed"
        /\ \A v \in Processes : v # x => run'[v] = run[v]
    BY <1>0, <1>4 DEF BeginReplan, RunState
  <2>2. Narrower  BY <1>0, <1>4, <2>1, GoesNarrower DEF BeginReplan, workVars
  <2> QED  BY <1>4, <2>2, OpStays, TriesGoOn DEF BeginReplan, planVars, NoProposal
<1>5. ASSUME NEW x \in Processes, CommitReplan(x) PROVE AllTries'
  <2>1. Narrower /\ run[x].op \in Ops  BY <1>2, <1>5 DEF CommitReplan, workVars
  <2>2. \A o \in Ops : OnItsWay(o)  BY <1>5, <2>1, OpBecomesOn DEF CommitReplan
  <2>3. NoProposal
    BY <1>0, <1>5, ReplacedRows DEF CommitReplan, NoProposal
  <2> QED  BY <2>1, <2>2, <2>3, TriesGoOn
<1> QED  BY <1>1, <1>3, <1>4, <1>5

LEMMA TriesRequests ==
  ASSUME Sense, AllTries, NEW q \in Requests
  PROVE  /\ \A kind, r : AskDecision(q, kind, r) => AllTries'
         /\ Decide(q) => AllTries'
         /\ RequestFails(q) => AllTries'
<1>0. /\ rev \in [Revisions -> RevisionRow] /\ q \in Processes
      /\ run[q].op \in {0} \union Ops
  BY DEF Sense, TypeOK, Processes, RunState
<1>1. ASSUME NEW kind, NEW r, AskDecision(q, kind, r) PROVE AllTries'
  <2>1. Narrower  BY <1>1, RequestsHandless DEF AskDecision, workVars
  <2> QED  BY <1>1, <2>1, OpStays, TriesGoOn DEF AskDecision, planVars, NoProposal
<1>2. CASE Refuse(q)
  <2>1. Narrower  BY <1>2, RequestsHandless DEF Refuse, workVars
  <2> QED  BY <1>2, <2>1, OpStays, TriesGoOn DEF Refuse, planVars, NoProposal
<1>3. CASE Reject(q)
  <2>1. Narrower  BY <1>3, RequestsHandless DEF Reject, workVars
  <2>2. \A o \in Ops : OnItsWay(o)
    BY <1>0, <1>3, OpBecomesOn, OpStays DEF Reject
  <2>3. NoProposal  BY <1>0, <1>3 DEF Reject, NoProposal, RevisionRow
  <2> QED  BY <2>1, <2>2, <2>3, TriesGoOn
<1>4. CASE BeginAccept(q)
  <2>1. /\ \A y \in Processes : y # q => run'[y] = run[y]
        /\ q \notin Workers /\ UNCHANGED todo
    BY <1>4, StudyAssumption DEF BeginAccept, workVars, Sense, TypeOK, Processes
  <2>2. Narrower  BY <1>0, <2>1, GoesNarrower
  <2> QED  BY <1>4, <2>2, OpStays, TriesGoOn DEF BeginAccept, planVars, NoProposal
<1>5. CASE CommitAccept(q)
  <2>1. Narrower  BY <1>5, RequestsHandless DEF CommitAccept, workVars
  <2>2. \A o \in Ops : OnItsWay(o)
    BY <1>0, <1>5, OpBecomesOn, OpStays DEF CommitAccept
  <2>3. NoProposal  BY <1>0, <1>5, ReplacedRows DEF CommitAccept, NoProposal
  <2> QED  BY <2>1, <2>2, <2>3, TriesGoOn
<1>6. CASE Activate(q)
  <2>1. Narrower  BY <1>6, RequestsHandless DEF Activate, workVars
  <2>2. NoProposal  BY <1>0, <1>6 DEF Activate, NoProposal, RevisionRow
  <2> QED  BY <1>6, <2>1, <2>2, OpStays, TriesGoOn DEF Activate
<1>7. ASSUME RequestFails(q) PROVE AllTries'
  <2>1. Narrower  BY <1>7, RequestsHandless DEF RequestFails, workVars
  <2> QED  BY <1>7, <2>1, OpStays, TriesGoOn DEF RequestFails, planVars, NoProposal
<1> QED  BY <1>1, <1>2, <1>3, <1>4, <1>5, <1>6, <1>7 DEF Decide

LEMMA TriesStep == Sense /\ AllTries /\ [Next]_vars => AllTries'
<1> SUFFICES ASSUME Sense, AllTries, [Next]_vars PROVE AllTries'  OBVIOUS
<1>0. \A w \in Workers : todo[w] \subseteq Ops  BY DEF Sense, TypeOK
<1>1. ASSUME UNCHANGED <<rev, op, todo, run>> PROVE AllTries'
  BY <1>1, SameHands, OpStays, TriesGoOn DEF NoProposal
<1>2. CASE UNCHANGED vars
  BY <1>1, <1>2 DEF vars, planVars, workVars
<1>3. ASSUME NEW w \in Workers, ClaimBatch(w) \/ Work(w) \/ ExecutionRaises(w) \/ CrashWorker(w)
      PROVE  AllTries'
  BY <1>3, TriesClaim, TriesOperations, TriesPropose, TriesReplans DEF Work
<1>4. ASSUME NEW x \in Processes, Replan(x) PROVE AllTries'
  BY <1>4, TriesReplans DEF Replan
<1>5. CASE PauseOrResume \/ Archive
         \/ \E r \in Revisions, i \in Items : CompleteTask(r, i) \/ ReopenTask(r, i)
  <2>1. CASE PauseOrResume \/ Archive
    BY <1>1, <2>1 DEF PauseOrResume, Archive, workVars
  <2>2. ASSUME NEW r \in Revisions, NEW i \in Items, CompleteTask(r, i) \/ ReopenTask(r, i)
        PROVE  AllTries'
    <3>1. UNCHANGED <<rev, op, todo, run>>  BY <2>2 DEF CompleteTask, ReopenTask, workVars
    <3> QED  BY <1>1, <3>1
  <2> QED  BY <1>5, <2>1, <2>2
<1> QED
  BY <1>2, <1>3, <1>4, <1>5, TriesOperations, TriesAdjust, TriesRequests
  DEF Next, Processes

(* An operation is in the hands of one worker at a time, and proposes at   *)
(* most one revision each time it is tried, although the end of a try does *)
(* not look at the status before: however many workers fail, are late or   *)
(* are handed back what they could not run.                                *)
THEOREM TriedOneAtATime == Spec => []OneTryAtATime
<1>1. Sense /\ AllTries => OneTryAtATime
  <2> SUFFICES ASSUME Sense, AllTries, NEW o \in Ops
               PROVE  /\ \A v, w \in Workers : Holds(v, o) /\ Holds(w, o) => v = w
                      /\ Cardinality(Proposals(o)) <= TriedBy(o)
    BY DEF OneTryAtATime, Proposals
  <2>1. Tries(o)  BY DEF AllTries
  <2>2. TriedBy(o) \in Nat  BY AttemptsType DEF Sense
  <2> QED  BY <2>1, <2>2, ProposalsFinite DEF Tries, One
<1> QED  BY <1>1, SenseInit, SenseStep, TriesInit, TriesStep, PTL DEF Spec
(* ---- nothing is forgotten --------------------------------------------- *)

(* Somebody has operation "o", or had it and died.                         *)
InHands(o) ==
  \/ o \in lost
  \/ \E w \in Workers : Holds(w, o)
  \/ \E q \in Requests : run[q].pc # "idle" /\ run[q].kind = "adjust" /\ run[q].op = o

(* An operation that runs is in the hands of a worker or of the request    *)
(* that adjusts the plan, unless that died, and one is given up only when  *)
(* it was tried as often as it may be, whatever failed, was late or was    *)
(* refused the lease (_claim_batch, _finish_operation, adjust_plan).       *)
NoneForgotten ==
  \A o \in Ops :
    /\ op[o].status = "running" => InHands(o)
    /\ op[o].status = "failed" => op[o].attempts = MaxAttempts

Remembered(o) ==
  /\ op'[o].status = "running" =>
       InHands(o)' \/ (op[o].status = "running" /\ (InHands(o) => InHands(o)'))
  /\ op'[o].status = "failed" => op'[o].attempts = MaxAttempts \/ op'[o] = op[o]

LEMMA ForgottenGoesOn ==
  ASSUME NoneForgotten, \A o \in Ops : Remembered(o)
  PROVE  NoneForgotten'
BY DEF NoneForgotten, Remembered, Ops

LEMMA GripStays ==
  ASSUME NoneForgotten, UNCHANGED op, \A o \in Ops : InHands(o) => InHands(o)'
  PROVE  NoneForgotten'
BY ForgottenGoesOn DEF Remembered

(* One process goes on with what it is at, or drops it.                    *)
LEMMA GripOfOne ==
  ASSUME Sense, NEW x \in Processes, UNCHANGED todo, lost \subseteq lost',
         \A y \in Processes : y # x => run'[y] = run[y]
  PROVE  /\ \A o \in Ops : InHands(o) =>
              InHands(o)' \/ (o = run[x].op /\ run[x].pc \notin {"idle", "release"}
                                /\ (x \in Requests => run[x].kind = "adjust"))
         /\ /\ run'[x].op = run[x].op /\ run'[x].kind = run[x].kind
            /\ run[x].pc \notin {"idle", "release"} => run'[x].pc \notin {"idle", "release"}
            => \A o \in Ops : InHands(o) => InHands(o)'
<1> USE DEF Processes
<1>0. /\ \A q \in Requests : q \notin Workers
      /\ \A q \in Requests : run[q].pc # "release"
  BY StudyAssumption DEF Sense, RunsMakeSense, RowMakesSense
<1>1. ASSUME NEW o \in Ops, InHands(o), ~InHands(o)'
      PROVE  /\ o = run[x].op /\ run[x].pc \notin {"idle", "release"}
             /\ x \in Requests => run[x].kind = "adjust"
             /\ ~(/\ run'[x].op = run[x].op /\ run'[x].kind = run[x].kind
                  /\ run'[x].pc \notin {"idle", "release"})
  <2>1. o \notin lost  BY <1>1 DEF InHands
  <2>2. CASE \E w \in Workers : Holds(w, o)
    <3>1. PICK w \in Workers : Holds(w, o)  BY <2>2
    <3>2. ~Holds(w, o)'  BY <1>1 DEF InHands
    <3>3. w = x /\ o \notin todo[w]  BY <3>1, <3>2 DEF Holds
    <3> QED  BY <1>0, <3>1, <3>2, <3>3 DEF Holds
  <2>3. CASE \E q \in Requests : run[q].pc # "idle" /\ run[q].kind = "adjust" /\ run[q].op = o
    <3>1. PICK q \in Requests : run[q].pc # "idle" /\ run[q].kind = "adjust" /\ run[q].op = o
      BY <2>3
    <3>2. ~(run'[q].pc # "idle" /\ run'[q].kind = "adjust" /\ run'[q].op = o)
      BY <1>1 DEF InHands
    <3>3. q = x  BY <3>1, <3>2
    <3> QED  BY <1>0, <3>1, <3>2, <3>3
  <2> QED  BY <1>1, <2>1, <2>2, <2>3 DEF InHands
<1> QED  BY <1>1

LEMMA SameGrip ==
  ASSUME UNCHANGED <<todo, run>>, lost \subseteq lost', NEW o, InHands(o)
  PROVE  InHands(o)'
BY DEF InHands, Holds

(* A failure is handed back, unless the attempts are used up.              *)
LEMMA FinishedEnds ==
  ASSUME Sense, AllTries, NEW p \in Ops, NEW w \in Workers, Holds(w, p),
         NEW status \in {"needs_input", "succeeded", "failed"}, op' = Finished(p, status),
         \A o \in Ops : o # p => (InHands(o) => InHands(o)')
  PROVE  \A o \in Ops : Remembered(o)
<1>1. op \in [Ops -> OperationRow] /\ MaxAttempts \in Nat
  BY StudyAssumption DEF Sense, TypeOK
<1>2. op[p].attempts \in 1..MaxAttempts
  BY <1>1 DEF AllTries, Tries, OperationRow
<1>3. op'[p].status # "running" /\ op'[p].attempts = op[p].attempts
  BY <1>1 DEF Finished, OperationRow
<1>4. op'[p].status = "failed" => op'[p].attempts = MaxAttempts
  BY <1>1, <1>2, <1>3 DEF Finished, OperationRow
<1>5. \A o \in Ops : o # p => op'[o] = op[o]
  BY <1>1 DEF Finished
<1> QED  BY <1>3, <1>4, <1>5 DEF Remembered

LEMMA OpBecomesEnds ==
  ASSUME Sense, NEW p \in Ops, NEW from, NEW to \in {"needs_input", "succeeded", "cancelled"},
         op' = OpBecomes(p, from, to),
         \A o \in Ops : InHands(o) => InHands(o)' \/ (o = p /\ from = "running")
  PROVE  \A o \in Ops : Remembered(o)
<1>1. op \in [Ops -> OperationRow]  BY DEF Sense, TypeOK
<1>2. /\ op[p].status = from => op'[p].status = to
      /\ op[p].status # from => op'[p] = op[p]
  BY <1>1 DEF OpBecomes, OperationRow
<1>3. \A o \in Ops : o # p => op'[o] = op[o]
  BY <1>1 DEF OpBecomes
<1>4. Remembered(p)
  <2>1. op'[p].status # "failed" \/ op'[p] = op[p]  BY <1>2
  <2>2. op'[p].status = "running" => op'[p] = op[p] /\ from # "running"  BY <1>2
  <2> QED  BY <2>1, <2>2 DEF Remembered
<1> QED  BY <1>3, <1>4 DEF Remembered

LEMMA ForgottenOperations ==
  ASSUME Sense, AllTries, NoneForgotten
  PROVE  /\ \A o \in Ops : WeeklyReplan(o) => NoneForgotten'
         /\ \A w \in Workers : ClaimBatch(w) => NoneForgotten'
         /\ \A w \in Workers : \A o \in todo[w] : AcquireLease(w, o) => NoneForgotten'
         /\ \A w \in Workers : \A o \in todo[w] : LeaseBusy(w, o) => NoneForgotten'
         /\ \A w \in Workers : FinishOperation(w) => NoneForgotten'
         /\ \A w \in Workers : ReleaseLease(w) => NoneForgotten'
         /\ \A w \in Workers : ExecutionRaises(w) => NoneForgotten'
         /\ \A w \in Workers : CrashWorker(w) => NoneForgotten'
         /\ LeaseRunsOut => NoneForgotten'
<1>0. /\ op \in [Ops -> OperationRow] /\ todo \in [Workers -> SUBSET Ops]
      /\ run \in [Processes -> RunState] /\ \A q \in Requests : q \notin Workers
      /\ \A w \in Workers : w \in Processes /\ run[w] \in RunState /\ RowMakesSense(w, run[w])
  BY StudyAssumption DEF Sense, TypeOK, RunsMakeSense, Processes
<1>1. ASSUME NEW o \in Ops, WeeklyReplan(o) PROVE NoneForgotten'
  <2>1. op' = [op EXCEPT ![o].status = "queued"] /\ UNCHANGED <<todo, run, lost>>
    BY <1>1 DEF WeeklyReplan, NewOp, workVars
  <2>2. op'[o].status = "queued" /\ \A p \in Ops : p # o => op'[p] = op[p]
    BY <1>0, <2>1 DEF OperationRow
  <2>3. \A p \in Ops : InHands(p) => InHands(p)'  BY <2>1, SameGrip
  <2>4. \A p \in Ops : Remembered(p)  BY <2>2, <2>3 DEF Remembered
  <2> QED  BY <2>4, ForgottenGoesOn
<1>2. ASSUME NEW w \in Workers, ClaimBatch(w) PROVE NoneForgotten'
  <2>1. PICK batch \in SUBSET Ops : batch = Claimed  BY DEF Claimed, Queued
  <2>2. /\ \A o \in batch : op'[o].status = "running"
        /\ \A o \in Ops \ batch : op'[o] = op[o]
    BY <1>2, <2>1 DEF ClaimBatch
  <2>3. /\ todo'[w] = batch /\ todo[w] = {}
        /\ \A v \in Workers : v # w => todo'[v] = todo[v]
        /\ UNCHANGED <<run, lost>>
    BY <1>0, <1>2, <2>1 DEF ClaimBatch
  <2>4. \A o \in Ops : InHands(o) => InHands(o)'  BY <2>3 DEF InHands, Holds
  <2>5. \A o \in batch : InHands(o)'  BY <2>3 DEF InHands, Holds
  <2>6. \A o \in Ops : Remembered(o)  BY <2>2, <2>4, <2>5 DEF Remembered
  <2> QED  BY <2>6, ForgottenGoesOn
<1>3. ASSUME NEW w \in Workers, NEW o \in todo[w], AcquireLease(w, o) PROVE NoneForgotten'
  <2>1. /\ todo'[w] = todo[w] \ {o} /\ run'[w].pc = "leased" /\ run'[w].op = o
        /\ run[w].pc = "idle" /\ UNCHANGED <<op, lost>>
        /\ \A v \in Workers : v # w => todo'[v] = todo[v]
        /\ \A x \in Processes : x # w => run'[x] = run[x]
    BY <1>0, <1>3 DEF AcquireLease, Idle
  <2>2. \A p \in Ops, v \in Workers : Holds(v, p) => Holds(v, p)'
    BY <2>1 DEF Holds, Processes
  <2>3. \A q \in Requests : run'[q] = run[q]  BY <1>0, <2>1 DEF Processes
  <2>4. \A p \in Ops : InHands(p) => InHands(p)'  BY <2>1, <2>2, <2>3 DEF InHands
  <2> QED  BY <2>1, <2>4, GripStays
<1>4. ASSUME NEW w \in Workers, NEW o \in todo[w], LeaseBusy(w, o) PROVE NoneForgotten'
  <2>1. /\ todo'[w] = todo[w] \ {o} /\ UNCHANGED <<run, lost>>
        /\ \A v \in Workers : v # w => todo'[v] = todo[v]
        /\ op' = Finished(o, "failed")
    BY <1>0, <1>4 DEF LeaseBusy
  <2>2. o \in Ops /\ Holds(w, o)  BY <1>0 DEF Holds
  <2>3. \A p \in Ops, v \in Workers : p # o /\ Holds(v, p) => Holds(v, p)'
    BY <2>1 DEF Holds
  <2>4. \A p \in Ops : p # o => (InHands(p) => InHands(p)')
    BY <2>1, <2>3 DEF InHands
  <2> QED  BY <2>1, <2>2, <2>4, FinishedEnds, ForgottenGoesOn
<1>5. ASSUME NEW w \in Workers, FinishOperation(w) PROVE NoneForgotten'
  <2>1. /\ run[w].pc = "finish" /\ op' = Finished(run[w].op, run[w].outcome)
        /\ UNCHANGED <<todo, lost>>
        /\ \A x \in Processes : x # w => run'[x] = run[x]
    BY <1>0, <1>5 DEF FinishOperation, workVars
  <2>2. run[w].op \in Ops /\ run[w].outcome \in {"needs_input", "succeeded", "failed"}
    BY <1>0, <2>1 DEF RowMakesSense, RunState
  <2>3. Holds(w, run[w].op)  BY <2>1 DEF Holds
  <2>4. \A p \in Ops : p # run[w].op => (InHands(p) => InHands(p)')
    BY <1>0, <2>1, GripOfOne
  <2> QED  BY <2>1, <2>2, <2>3, <2>4, FinishedEnds, ForgottenGoesOn
<1>6. ASSUME NEW w \in Workers, ReleaseLease(w) PROVE NoneForgotten'
  <2>1. /\ run[w].pc = "release" /\ UNCHANGED <<op, todo, lost>>
        /\ \A x \in Processes : x # w => run'[x] = run[x]
    BY <1>0, <1>6 DEF ReleaseLease
  <2>2. \A p \in Ops : InHands(p) => InHands(p)'  BY <1>0, <2>1, GripOfOne
  <2> QED  BY <2>1, <2>2, GripStays
<1>7. ASSUME NEW w \in Workers, ExecutionRaises(w) PROVE NoneForgotten'
  <2>1. /\ run'[w].pc = "finish" /\ run'[w].op = run[w].op /\ run'[w].kind = run[w].kind
        /\ UNCHANGED <<op, todo, lost>>
        /\ \A x \in Processes : x # w => run'[x] = run[x]
    BY <1>0, <1>7 DEF ExecutionRaises, RunState, workVars
  <2>2. \A p \in Ops : InHands(p) => InHands(p)'  BY <1>0, <2>1, GripOfOne
  <2> QED  BY <2>1, <2>2, GripStays
<1>8. ASSUME NEW w \in Workers, CrashWorker(w) PROVE NoneForgotten'
  <2>1. /\ lost \subseteq lost' /\ todo[w] \subseteq lost'
        /\ run[w].pc \notin {"idle", "release"} => run[w].op \in lost'
        /\ UNCHANGED op
        /\ \A v \in Workers : v # w => todo'[v] = todo[v]
        /\ \A x \in Processes : x # w => run'[x] = run[x]
    BY <1>0, <1>8 DEF CrashWorker
  <2>2. \A p \in Ops : Holds(w, p) => p \in lost'  BY <2>1 DEF Holds
  <2>3. \A p \in Ops, v \in Workers : v # w /\ Holds(v, p) => Holds(v, p)'
    BY <2>1 DEF Holds, Processes
  <2>4. \A q \in Requests : run'[q] = run[q]  BY <1>0, <2>1 DEF Processes
  <2>5. \A p \in Ops : InHands(p) => InHands(p)'
    BY <2>1, <2>2, <2>3, <2>4 DEF InHands
  <2> QED  BY <2>1, <2>5, GripStays
<1>9. ASSUME LeaseRunsOut PROVE NoneForgotten'
  BY <1>9, SameGrip, GripStays DEF LeaseRunsOut
<1> QED  BY <1>1, <1>2, <1>3, <1>4, <1>5, <1>6, <1>7, <1>8, <1>9

LEMMA ForgottenReplans ==
  ASSUME Sense, NoneForgotten
  PROVE  /\ \A w \in Workers : ReadPlan(w) => NoneForgotten'
         /\ \A w \in Workers, r \in Revisions : Propose(w, r) => NoneForgotten'
         /\ \A q \in Requests, o \in Ops, r \in Revisions : AdjustPlan(q, o, r) => NoneForgotten'
         /\ \A x \in Processes : AskUser(x) => NoneForgotten'
         /\ \A x \in Processes : BeginReplan(x) => NoneForgotten'
         /\ \A x \in Processes : CommitReplan(x) => NoneForgotten'
<1>0. /\ op \in [Ops -> OperationRow] /\ run \in [Processes -> RunState]
      /\ Workers \subseteq Processes /\ Requests \subseteq Processes
      /\ \A x \in Processes : run[x] \in RunState /\ RowMakesSense(x, run[x])
  BY DEF Sense, TypeOK, RunsMakeSense, Processes
<1>a. ASSUME NEW x \in Processes, UNCHANGED <<todo, lost, op>>,
             \A y \in Processes : y # x => run'[y] = run[y],
             run'[x].op = run[x].op, run'[x].kind = run[x].kind,
             run'[x].pc \notin {"idle", "release"}
      PROVE  NoneForgotten'
  <2>1. \A p \in Ops : InHands(p) => InHands(p)'  BY <1>a, GripOfOne
  <2> QED  BY <1>a, <2>1, GripStays
<1>1. ASSUME NEW w \in Workers, ReadPlan(w) PROVE NoneForgotten'
  <2>1. run' = [run EXCEPT ![w].pc = "read", ![w].base = plan.current]
        /\ UNCHANGED <<todo, lost, op>>
    BY <1>1 DEF ReadPlan, workVars
  <2>2. /\ run'[w].op = run[w].op /\ run'[w].kind = run[w].kind /\ run'[w].pc = "read"
        /\ \A y \in Processes : y # w => run'[y] = run[y]
    BY <1>0, <2>1 DEF RunState
  <2> QED  BY <1>0, <1>a, <2>1, <2>2
<1>2. ASSUME NEW w \in Workers, NEW r \in Revisions, Propose(w, r) PROVE NoneForgotten'
  <2>1. run' = [run EXCEPT ![w].pc = "proposed", ![w].rev = r]
        /\ UNCHANGED <<todo, lost, op>>
    BY <1>2 DEF Propose, workVars
  <2>2. /\ run'[w].op = run[w].op /\ run'[w].kind = run[w].kind /\ run'[w].pc = "proposed"
        /\ \A y \in Processes : y # w => run'[y] = run[y]
    BY <1>0, <2>1 DEF RunState
  <2> QED  BY <1>0, <1>a, <2>1, <2>2
<1>3. ASSUME NEW q \in Requests, NEW o \in Ops, NEW r \in Revisions, AdjustPlan(q, o, r)
      PROVE  NoneForgotten'
  <2>1. /\ run[q].pc = "idle" /\ op' = [op EXCEPT ![o].status = "running"]
        /\ run'[q].pc = "proposed" /\ run'[q].kind = "adjust" /\ run'[q].op = o
        /\ \A y \in Processes : y # q => run'[y] = run[y]
        /\ UNCHANGED <<todo, lost>>
    BY <1>0, <1>3 DEF AdjustPlan, NewOp, workVars, Idle
  <2>2. \A p \in Ops : InHands(p) => InHands(p)'  BY <1>0, <2>1, GripOfOne
  <2>3. InHands(o)'  BY <2>1 DEF InHands
  <2>4. op'[o].status = "running" /\ \A p \in Ops : p # o => op'[p] = op[p]
    BY <1>0, <2>1 DEF OperationRow
  <2>5. \A p \in Ops : Remembered(p)  BY <2>2, <2>3, <2>4 DEF Remembered
  <2> QED  BY <2>5, ForgottenGoesOn
<1>b. ASSUME NEW x \in Processes, NEW outcome, Concludes(x, outcome), UNCHANGED <<todo, lost>>,
             NEW to \in {"needs_input", "succeeded"}, op' = OpBecomes(run[x].op, "running", to),
             run[x].pc \in {"proposed", "copy"}, run[x].kind \in {"replan", "adjust"}
      PROVE  NoneForgotten'
  <2>1. \A y \in Processes : y # x => run'[y] = run[y]
    BY <1>0, <1>b DEF Concludes
  <2>2. \A p \in Ops : InHands(p) => InHands(p)' \/ p = run[x].op
    BY <1>b, <2>1, GripOfOne
  <2>3. run[x].op \in Ops  BY <1>0, <1>b DEF RowMakesSense, Processes
  <2>4. \A p \in Ops : Remembered(p)  BY <1>b, <2>2, <2>3, OpBecomesEnds
  <2> QED  BY <2>4, ForgottenGoesOn
<1>4. ASSUME NEW x \in Processes, AskUser(x) PROVE NoneForgotten'
  <2>1. run[x].pc = "proposed" /\ run[x].kind \in {"replan", "adjust"}
    BY <1>0, <1>4 DEF AskUser, RowMakesSense
  <2> QED  BY <1>4, <1>b, <2>1 DEF AskUser, workVars
<1>5. ASSUME NEW x \in Processes, BeginReplan(x) PROVE NoneForgotten'
  <2>1. run' = [run EXCEPT ![x].pc = "copy", ![x].seen = task[run[x].base]]
        /\ UNCHANGED <<todo, lost, op>>
    BY <1>5 DEF BeginReplan, workVars
  <2>2. /\ run'[x].op = run[x].op /\ run'[x].kind = run[x].kind /\ run'[x].pc = "copy"
        /\ \A y \in Processes : y # x => run'[y] = run[y]
    BY <1>0, <2>1 DEF RunState
  <2> QED  BY <1>a, <2>1, <2>2
<1>6. ASSUME NEW x \in Processes, CommitReplan(x) PROVE NoneForgotten'
  BY <1>6, <1>b DEF CommitReplan, workVars
<1> QED  BY <1>1, <1>2, <1>3, <1>4, <1>5, <1>6

LEMMA ForgottenDecisions ==
  ASSUME Sense, NoneForgotten, NEW q \in Requests
  PROVE  /\ \A kind \in {"accept", "reject", "activate"}, r \in Revisions :
              AskDecision(q, kind, r) => NoneForgotten'
         /\ Decide(q) => NoneForgotten'
         /\ RequestFails(q) => NoneForgotten'
<1>0. /\ op \in [Ops -> OperationRow] /\ run \in [Processes -> RunState] /\ q \in Processes
      /\ RowMakesSense(q, run[q]) /\ run[q].op \in {0} \union Ops
  BY DEF Sense, TypeOK, RunsMakeSense, Processes, RunState
<1>a. ASSUME UNCHANGED <<todo, lost>>, \A y \in Processes : y # q => run'[y] = run[y],
             run[q].pc = "idle" \/ run[q].kind # "adjust"
      PROVE  \A o \in Ops : InHands(o) => InHands(o)'
  BY <1>0, <1>a, GripOfOne
<1>b. ASSUME \A o \in Ops : InHands(o) => InHands(o)',
             NEW to \in {"succeeded", "cancelled"},
             op' = IF run[q].op = 0 THEN op ELSE OpBecomes(run[q].op, "needs_input", to)
      PROVE  NoneForgotten'
  <2>1. CASE run[q].op = 0  BY <1>b, <2>1, GripStays
  <2>2. CASE run[q].op # 0
    <3>1. \A o \in Ops : Remembered(o)  BY <1>0, <1>b, <2>2, OpBecomesEnds
    <3> QED  BY <3>1, ForgottenGoesOn
  <2> QED  BY <2>1, <2>2
<1>1. ASSUME NEW kind \in {"accept", "reject", "activate"}, NEW r \in Revisions,
             AskDecision(q, kind, r)
      PROVE  NoneForgotten'
  <2>1. /\ run[q].pc = "idle" /\ \A y \in Processes : y # q => run'[y] = run[y]
        /\ UNCHANGED <<todo, lost, op>>
    BY <1>0, <1>1 DEF AskDecision, workVars
  <2> QED  BY <1>a, <2>1, GripStays
<1>2. CASE Refuse(q)
  <2>1. /\ run[q].kind # "adjust" /\ \A y \in Processes : y # q => run'[y] = run[y]
        /\ UNCHANGED <<todo, lost, op>>
    BY <1>0, <1>2 DEF Refuse, RowMakesSense, workVars
  <2> QED  BY <1>a, <2>1, GripStays
<1>3. CASE Reject(q)
  <2>1. /\ run[q].kind # "adjust" /\ \A y \in Processes : y # q => run'[y] = run[y]
        /\ UNCHANGED <<todo, lost>>
    BY <1>0, <1>3 DEF Reject, Goes, workVars
  <2>2. op' = IF run[q].op = 0 THEN op ELSE OpBecomes(run[q].op, "needs_input", "cancelled")
    BY <1>3 DEF Reject
  <2> QED  BY <1>a, <1>b, <2>1, <2>2
<1>4. CASE BeginAccept(q)
  <2>1. /\ run[q].kind # "adjust" /\ \A y \in Processes : y # q => run'[y] = run[y]
        /\ UNCHANGED <<todo, lost, op>>
    BY <1>0, <1>4 DEF BeginAccept, Goes, workVars
  <2> QED  BY <1>a, <2>1, GripStays
<1>5. CASE CommitAccept(q)
  <2>1. /\ run[q].kind # "adjust" /\ \A y \in Processes : y # q => run'[y] = run[y]
        /\ UNCHANGED <<todo, lost>>
    BY <1>0, <1>5 DEF CommitAccept, workVars
  <2>2. op' = IF run[q].op = 0 THEN op ELSE OpBecomes(run[q].op, "needs_input", "succeeded")
    BY <1>5 DEF CommitAccept
  <2> QED  BY <1>a, <1>b, <2>1, <2>2
<1>6. CASE Activate(q)
  <2>1. /\ run[q].kind # "adjust" /\ \A y \in Processes : y # q => run'[y] = run[y]
        /\ UNCHANGED <<todo, lost, op>>
    BY <1>0, <1>6 DEF Activate, Goes, workVars
  <2> QED  BY <1>a, <2>1, GripStays
<1>7. ASSUME RequestFails(q) PROVE NoneForgotten'
  <2>1. /\ lost \subseteq lost' /\ \A y \in Processes : y # q => run'[y] = run[y]
        /\ UNCHANGED <<todo, op>> /\ (run[q].kind = "adjust" => run[q].op \in lost')
    BY <1>0, <1>7 DEF RequestFails, workVars
  <2>2. \A o \in Ops : o \in lost' => InHands(o)'  BY DEF InHands
  <2>3. \A o \in Ops : InHands(o) => InHands(o)'  BY <1>0, <2>1, <2>2, GripOfOne
  <2> QED  BY <2>1, <2>3, GripStays
<1> QED  BY <1>1, <1>2, <1>3, <1>4, <1>5, <1>6, <1>7 DEF Decide

LEMMA ForgottenStep == Sense /\ AllTries /\ NoneForgotten /\ [Next]_vars => NoneForgotten'
<1> SUFFICES ASSUME Sense, AllTries, NoneForgotten, [Next]_vars PROVE NoneForgotten'  OBVIOUS
<1>0. \A w \in Workers : todo[w] \subseteq Ops  BY DEF Sense, TypeOK
<1>1. ASSUME UNCHANGED <<op, todo, run, lost>> PROVE NoneForgotten'
  BY <1>1, SameGrip, GripStays
<1>2. CASE UNCHANGED vars
  BY <1>1, <1>2 DEF vars, workVars
<1>3. ASSUME NEW w \in Workers, ClaimBatch(w) \/ Work(w) \/ ExecutionRaises(w) \/ CrashWorker(w)
      PROVE  NoneForgotten'
  BY <1>3, ForgottenOperations, ForgottenReplans DEF Work
<1>4. ASSUME NEW x \in Processes, Replan(x) PROVE NoneForgotten'
  BY <1>4, ForgottenReplans DEF Replan
<1>5. CASE PauseOrResume \/ Archive
         \/ \E r \in Revisions, i \in Items : CompleteTask(r, i) \/ ReopenTask(r, i)
  <2>1. CASE PauseOrResume \/ Archive
    BY <1>1, <2>1 DEF PauseOrResume, Archive, workVars
  <2>2. ASSUME NEW r \in Revisions, NEW i \in Items, CompleteTask(r, i) \/ ReopenTask(r, i)
        PROVE  NoneForgotten'
    <3>1. UNCHANGED <<op, todo, run, lost>>  BY <2>2 DEF CompleteTask, ReopenTask, workVars
    <3> QED  BY <1>1, <3>1
  <2> QED  BY <1>5, <2>1, <2>2
<1> QED
  BY <1>2, <1>3, <1>4, <1>5, ForgottenOperations, ForgottenReplans, ForgottenDecisions
  DEF Next, Processes

(* No operation is left running by the code itself, and none is given up   *)
(* with attempts left: what OperationsEnd needs besides that workers go on, *)
(* for all numbers of workers, requests, operations and faults.            *)
THEOREM NothingForgotten == Spec => []NoneForgotten
<1>1. Init => NoneForgotten  BY DEF Init, NoneForgotten
<1> QED
  BY <1>1, SenseInit, SenseStep, TriesInit, TriesStep, ForgottenStep, PTL DEF Spec

(* ---- enough rows ------------------------------------------------------ *)

(* Operations of weekly replans are those that were tried or wait for it.  *)
Weekly == {o \in Ops : op[o].status = "queued" \/ op[o].attempts # 0}

Adjusted == {o \in Ops : op[o].status \notin {"absent", "queued"} /\ op[o].attempts = 0}

RowsPaid ==
  /\ weeks \in 0..MaxWeeks /\ acts \in 0..MaxActs
  /\ Cardinality(Weekly) <= weeks /\ Cardinality(Adjusted) <= acts
  /\ \A r \in Revisions : rev[r].status # "absent" => r = 1 \/ rev[r].op \in Ops

LEMMA OpsFinite ==
  /\ IsFiniteSet(Ops) /\ Cardinality(Ops) = MaxWeeks + MaxActs
  /\ IsFiniteSet(Weekly) /\ Cardinality(Weekly) \in Nat
  /\ IsFiniteSet(Weekly') /\ Cardinality(Weekly') \in Nat
  /\ IsFiniteSet(Adjusted) /\ Cardinality(Adjusted) \in Nat
  /\ IsFiniteSet(Adjusted') /\ Cardinality(Adjusted') \in Nat
<1>1. MaxWeeks + MaxActs \in Nat  BY StudyAssumption
<1>2. IsFiniteSet(Ops) /\ Cardinality(Ops) = MaxWeeks + MaxActs
  BY <1>1, FS_Interval DEF Ops
<1>3. /\ Weekly \subseteq Ops /\ Weekly' \subseteq Ops
      /\ Adjusted \subseteq Ops /\ Adjusted' \subseteq Ops
  BY DEF Weekly, Adjusted, Ops
<1> QED  BY <1>2, <1>3, FS_Subset, FS_CardinalityType

LEMMA OneMore ==
  ASSUME NEW S, IsFiniteSet(S), NEW x
  PROVE  /\ IsFiniteSet(S \union {x}) /\ Cardinality(S \union {x}) \in Nat
         /\ Cardinality(S \union {x}) <= Cardinality(S) + 1
<1>1. Cardinality(S) \in Nat  BY FS_CardinalityType
<1>2. /\ IsFiniteSet(S \union {x})
      /\ \/ Cardinality(S \union {x}) = Cardinality(S)
         \/ Cardinality(S \union {x}) = Cardinality(S) + 1
  BY FS_AddElement
<1> QED  BY <1>1, <1>2

(* What is no new row for the bounds: no operation enters a class...       *)
Quiet == Weekly' \subseteq Weekly /\ Adjusted' \subseteq Adjusted

(* ...and no revision comes into being.                                    *)
NoRevision ==
  \A r \in Revisions : /\ rev'[r].op = rev[r].op
                       /\ rev'[r].status # "absent" => rev[r].status # "absent"

Spent == weeks' = weeks /\ acts' \in 0..MaxActs /\ acts <= acts'

LEMMA PaidGoesOn ==
  ASSUME RowsPaid, Quiet, NoRevision, Spent
  PROVE  RowsPaid'
<1>1. /\ Cardinality(Weekly') <= Cardinality(Weekly)
      /\ Cardinality(Adjusted') <= Cardinality(Adjusted)
  BY OpsFinite, FS_Subset DEF Quiet
<1>2. \A r \in Revisions : rev'[r].status # "absent" => r = 1 \/ rev'[r].op \in Ops
  BY DEF RowsPaid, NoRevision
<1>3. Ops' = Ops /\ Revisions' = Revisions /\ weeks \in Nat /\ acts \in Nat
  BY StudyAssumption DEF RowsPaid, Ops, Revisions
<1> QED  BY <1>1, <1>2, <1>3, OpsFinite, StudyAssumption DEF RowsPaid, Spent

LEMMA OpStaysQuiet == UNCHANGED op => Quiet
BY DEF Quiet, Weekly, Adjusted

LEMMA OpBecomesQuiet ==
  ASSUME Sense, NEW p \in Ops, NEW from \in {"running", "needs_input"},
         NEW to \in {"needs_input", "succeeded", "cancelled"}, op' = OpBecomes(p, from, to)
  PROVE  Quiet
<1>1. op \in [Ops -> OperationRow]  BY DEF Sense, TypeOK
<1>2. \A o \in Ops : /\ op'[o].attempts = op[o].attempts
                     /\ \/ op'[o].status = op[o].status
                        \/ /\ op[o].status \notin {"absent", "queued"}
                           /\ op'[o].status \notin {"absent", "queued"}
  BY <1>1 DEF OpBecomes, OperationRow
<1> QED  BY <1>2 DEF Quiet, Weekly, Adjusted, Ops

(* Whoever ends a try holds an operation that was tried.                   *)
LEMMA FinishedQuiet ==
  ASSUME Sense, AllTries, NEW p \in Ops, NEW status, op' = Finished(p, status),
         NEW w \in Workers, Holds(w, p)
  PROVE  Quiet
<1>1. op[p].attempts # 0  BY DEF AllTries, Tries
<1>2. op \in [Ops -> OperationRow]  BY DEF Sense, TypeOK
<1>3. \A o \in Ops : o # p => op'[o] = op[o]  BY <1>2 DEF Finished
<1>4. op'[p].attempts = op[p].attempts  BY <1>2 DEF Finished, OperationRow
<1> QED  BY <1>1, <1>3, <1>4 DEF Quiet, Weekly, Adjusted, Ops

LEMMA ClaimQuiet == ASSUME Sense, NEW w \in Workers, ClaimBatch(w) PROVE Quiet
<1>1. \A o \in Ops : /\ op[o].attempts \in Nat
                     /\ \/ op'[o] = op[o]
                        \/ op[o].status = "queued" /\ op'[o].attempts = op[o].attempts + 1
  BY AttemptsType DEF Sense, ClaimBatch, Claimed, Queued
<1> QED  BY <1>1 DEF Quiet, Weekly, Adjusted, Ops

(* Revisions are replaced and decided only when they are there.            *)
LEMMA NoRevisionIs ==
  ASSUME Sense,
         \/ UNCHANGED rev
         \/ \E r, base : rev' = Replaced(r, base)
         \/ \E r \in Revisions : \E status :
              rev[r].status # "absent" /\ rev' = [rev EXCEPT ![r].status = status]
  PROVE  NoRevision
<1>1. rev \in [Revisions -> RevisionRow]  BY DEF Sense, TypeOK
<1>2. CASE UNCHANGED rev  BY <1>2 DEF NoRevision
<1>3. ASSUME NEW r, NEW base, rev' = Replaced(r, base) PROVE NoRevision
  BY <1>1, <1>3, ReplacedRows DEF NoRevision
<1>4. ASSUME NEW r \in Revisions, NEW status, rev[r].status # "absent",
             rev' = [rev EXCEPT ![r].status = status]
      PROVE  NoRevision
  BY <1>1, <1>4 DEF NoRevision, RevisionRow
<1> QED  BY <1>2, <1>3, <1>4

LEMMA PaidNew ==
  ASSUME Sense, RowsPaid
  PROVE  /\ \A o \in Ops : WeeklyReplan(o) => RowsPaid'
         /\ \A q \in Requests, o \in Ops, r \in Revisions : AdjustPlan(q, o, r) => RowsPaid'
<1>0. /\ op \in [Ops -> OperationRow] /\ rev \in [Revisions -> RevisionRow]
      /\ weeks \in 0..MaxWeeks /\ acts \in 0..MaxActs /\ MaxWeeks \in Nat /\ MaxActs \in Nat
      /\ Ops' = Ops /\ Revisions' = Revisions
  BY StudyAssumption DEF Sense, TypeOK, RowsPaid, Ops, Revisions
<1>1. ASSUME NEW o \in Ops, WeeklyReplan(o) PROVE RowsPaid'
  <2>1. /\ op'[o].status = "queued" /\ \A p \in Ops : p # o => op'[p] = op[p]
        /\ weeks < MaxWeeks /\ weeks' = weeks + 1 /\ acts' = acts /\ rev' = rev
    BY <1>0, <1>1 DEF WeeklyReplan, NewOp, OperationRow, planVars
  <2>2. Weekly' \subseteq Weekly \union {o} /\ Adjusted' \subseteq Adjusted
    BY <1>0, <2>1 DEF Weekly, Adjusted
  <2>3. /\ IsFiniteSet(Weekly \union {o}) /\ Cardinality(Weekly \union {o}) \in Nat
        /\ Cardinality(Weekly \union {o}) <= Cardinality(Weekly) + 1
    BY OpsFinite, OneMore
  <2>4. /\ Cardinality(Weekly') <= Cardinality(Weekly \union {o})
        /\ Cardinality(Adjusted') <= Cardinality(Adjusted)
    BY <2>2, <2>3, OpsFinite, FS_Subset
  <2> QED  BY <1>0, <2>1, <2>3, <2>4, OpsFinite DEF RowsPaid
<1>2. ASSUME NEW q \in Requests, NEW o \in Ops, NEW r \in Revisions, AdjustPlan(q, o, r)
      PROVE  RowsPaid'
  <2>1. /\ op[o].status = "absent" /\ op'[o].status = "running"
        /\ op'[o].attempts = op[o].attempts /\ \A p \in Ops : p # o => op'[p] = op[p]
        /\ acts < MaxActs /\ acts' = acts + 1 /\ weeks' = weeks
    BY <1>0, <1>2 DEF AdjustPlan, NewOp, Act, OperationRow
  <2>2. \A s \in Revisions : rev'[s] = rev[s] \/ rev'[s].op = o
    BY <1>0, <1>2 DEF AdjustPlan, NewRevision
  <2>3. Weekly' \subseteq Weekly /\ Adjusted' \subseteq Adjusted \union {o}
    BY <1>0, <2>1 DEF Weekly, Adjusted
  <2>4. /\ IsFiniteSet(Adjusted \union {o}) /\ Cardinality(Adjusted \union {o}) \in Nat
        /\ Cardinality(Adjusted \union {o}) <= Cardinality(Adjusted) + 1
    BY OpsFinite, OneMore
  <2>5. /\ Cardinality(Adjusted') <= Cardinality(Adjusted \union {o})
        /\ Cardinality(Weekly') <= Cardinality(Weekly)
    BY <2>3, <2>4, OpsFinite, FS_Subset
  <2>6. \A s \in Revisions : rev'[s].status # "absent" => s = 1 \/ rev'[s].op \in Ops
    BY <2>2 DEF RowsPaid
  <2> QED  BY <1>0, <2>1, <2>4, <2>5, <2>6, OpsFinite DEF RowsPaid
<1> QED  BY <1>1, <1>2

LEMMA PaidWork ==
  ASSUME Sense, Shape, AllTries, RowsPaid, NEW w \in Workers,
         ClaimBatch(w) \/ Work(w) \/ ExecutionRaises(w) \/ CrashWorker(w)
  PROVE  RowsPaid'
<1>0. /\ op \in [Ops -> OperationRow] /\ rev \in [Revisions -> RevisionRow]
      /\ w \in Processes /\ run[w] \in RunState /\ RowMakesSense(w, run[w])
      /\ todo[w] \subseteq Ops
  BY DEF Sense, TypeOK, RunsMakeSense, Processes
<1>1. Spent
  <2>1. weeks' = weeks /\ acts' = acts
    BY DEF ClaimBatch, Work, AcquireLease, LeaseBusy, ReadPlan, Propose, FinishOperation,
           ReleaseLease, ExecutionRaises, CrashWorker, Fault, bounds
  <2> QED  BY <2>1, StudyAssumption DEF Spent, RowsPaid
<1>2. ASSUME NEW r \in Revisions, Propose(w, r) PROVE RowsPaid'
  <2>1. run[w].op \in Ops  BY <1>0, <1>2 DEF Propose, RowMakesSense
  <2>2. \A s \in Revisions : rev'[s] = rev[s] \/ rev'[s].op = run[w].op
    BY <1>0, <1>2 DEF Propose, NewRevision
  <2>3. UNCHANGED <<op, bounds>>  BY <1>2 DEF Propose
  <2>4. UNCHANGED <<Weekly, Adjusted>>  BY <2>3 DEF Weekly, Adjusted, Ops
  <2> QED  BY <2>1, <2>2, <2>3, <2>4 DEF RowsPaid, bounds, Ops, Revisions
<1>3. ASSUME ~\E r \in Revisions : Propose(w, r) PROVE NoRevision
  <2>1. UNCHANGED rev
    BY <1>3 DEF ClaimBatch, Work, AcquireLease, LeaseBusy, ReadPlan, FinishOperation,
           ReleaseLease, ExecutionRaises, CrashWorker, planVars
  <2> QED  BY <2>1, NoRevisionIs
<1>4. ASSUME ~\E r \in Revisions : Propose(w, r) PROVE Quiet
  <2>1. CASE ClaimBatch(w)  BY <2>1, ClaimQuiet
  <2>2. ASSUME NEW o \in todo[w], LeaseBusy(w, o) PROVE Quiet
    BY <1>0, <2>2, FinishedQuiet DEF LeaseBusy, Holds
  <2>3. CASE FinishOperation(w)
    <3>1. run[w].op \in Ops /\ Holds(w, run[w].op)
      BY <1>0, <2>3 DEF FinishOperation, RowMakesSense, Holds
    <3> QED  BY <2>3, <3>1, FinishedQuiet DEF FinishOperation
  <2>4. CASE UNCHANGED op  BY <2>4, OpStaysQuiet
  <2>5. \/ ClaimBatch(w) \/ FinishOperation(w) \/ UNCHANGED op
        \/ \E o \in todo[w] : LeaseBusy(w, o)
    BY <1>4 DEF Work, AcquireLease, ReadPlan, ReleaseLease, ExecutionRaises, CrashWorker
  <2> QED  BY <2>1, <2>2, <2>3, <2>4, <2>5
<1> QED  BY <1>1, <1>2, <1>3, <1>4, PaidGoesOn

LEMMA PaidDecisions ==
  ASSUME Sense, Shape, RowsPaid
  PROVE  /\ \A x \in Processes : Replan(x) => RowsPaid'
         /\ \A q \in Requests : Decide(q) => RowsPaid'
<1>0. /\ rev \in [Revisions -> RevisionRow]
      /\ \A x \in Processes : /\ run[x] \in RunState /\ RowMakesSense(x, run[x])
                               /\ RowFits(run[x])
  BY DEF Sense, TypeOK, RunsMakeSense, Processes, Shape, RunsFit
<1>a. UNCHANGED bounds => Spent  BY StudyAssumption DEF Spent, RowsPaid, bounds
<1>1. ASSUME NEW x \in Processes, Replan(x) PROVE RowsPaid'
  <2>1. UNCHANGED bounds
    BY <1>1 DEF Replan, AskUser, BeginReplan, CommitReplan
  <2>2. NoRevision
    <3>1. UNCHANGED rev \/ \E r, base : rev' = Replaced(r, base)
      BY <1>1 DEF Replan, AskUser, BeginReplan, CommitReplan, planVars
    <3> QED  BY <3>1, NoRevisionIs
  <2>3. CASE BeginReplan(x)
    BY <1>a, <2>1, <2>2, <2>3, OpStaysQuiet, PaidGoesOn DEF BeginReplan
  <2>4. CASE AskUser(x) \/ CommitReplan(x)
    <3>1. run[x].op \in Ops
      BY <1>0, <2>4 DEF AskUser, CommitReplan, RowMakesSense, Processes
    <3>2. \E to \in {"needs_input", "succeeded"} : op' = OpBecomes(run[x].op, "running", to)
      BY <2>4 DEF AskUser, CommitReplan
    <3> QED  BY <1>a, <2>1, <2>2, <3>1, <3>2, OpBecomesQuiet, PaidGoesOn
  <2> QED  BY <1>1, <2>3, <2>4 DEF Replan
<1>2. ASSUME NEW q \in Requests, Decide(q) PROVE RowsPaid'
  <2>0. q \in Processes /\ run[q].op \in {0} \union Ops /\ run[q].rev \in {0} \union Revisions
    BY <1>0 DEF Processes, RunState
  <2>1. UNCHANGED bounds
    BY <1>2 DEF Decide, Refuse, Reject, BeginAccept, CommitAccept, Activate
  <2>2. Quiet
    <3>1. \/ UNCHANGED op
          \/ /\ run[q].op # 0
             /\ \E to \in {"succeeded", "cancelled"} :
                  op' = OpBecomes(run[q].op, "needs_input", to)
      BY <1>2 DEF Decide, Refuse, Reject, BeginAccept, CommitAccept, Activate
    <3> QED  BY <2>0, <3>1, OpStaysQuiet, OpBecomesQuiet
  <2>3. NoRevision
    <3>1. CASE Refuse(q) \/ BeginAccept(q)
      BY <3>1, NoRevisionIs DEF Refuse, BeginAccept, planVars
    <3>2. CASE CommitAccept(q)  BY <3>2, NoRevisionIs DEF CommitAccept
    <3>3. CASE Reject(q) \/ Activate(q)
      <4>1. rev[run[q].rev].status # "absent" /\ run[q].rev \in Revisions
        BY <1>0, <2>0, <3>3 DEF Reject, Activate, Goes, RowFits, RowMakesSense
      <4>2. \E status : rev' = [rev EXCEPT ![run[q].rev].status = status]
        BY <3>3 DEF Reject, Activate
      <4> QED  BY <4>1, <4>2, NoRevisionIs
    <3> QED  BY <1>2, <3>1, <3>2, <3>3 DEF Decide
  <2> QED  BY <1>a, <2>1, <2>2, <2>3, PaidGoesOn
<1> QED  BY <1>1, <1>2

LEMMA PaidStep == Good /\ AllTries /\ RowsPaid /\ [Next]_vars => RowsPaid'
<1> SUFFICES ASSUME Good, AllTries, RowsPaid, [Next]_vars PROVE RowsPaid'  OBVIOUS
<1>0. Sense /\ Shape /\ MaxActs \in Nat /\ acts \in 0..MaxActs
  BY StudyAssumption DEF Good, RowsPaid
<1>1. ASSUME UNCHANGED <<rev, op>>, weeks' = weeks,
             acts' = acts \/ (acts < MaxActs /\ acts' = acts + 1)
      PROVE  RowsPaid'
  <2>1. Spent  BY <1>0, <1>1 DEF Spent
  <2> QED  BY <1>0, <1>1, <2>1, OpStaysQuiet, NoRevisionIs, PaidGoesOn
<1>2. CASE UNCHANGED vars  BY <1>1, <1>2 DEF vars, planVars, bounds
<1>3. CASE LeaseRunsOut
  BY <1>1, <1>3 DEF LeaseRunsOut, Fault, bounds, planVars
<1>4. CASE PauseOrResume \/ Archive
  BY <1>1, <1>4 DEF PauseOrResume, Archive, Act, bounds
<1>5. ASSUME NEW r \in Revisions, NEW i \in Items, CompleteTask(r, i) \/ ReopenTask(r, i)
      PROVE  RowsPaid'
  BY <1>1, <1>5 DEF CompleteTask, ReopenTask, Act, bounds
<1>6. ASSUME NEW q \in Requests,
             RequestFails(q) \/ \E kind, r : AskDecision(q, kind, r)
      PROVE  RowsPaid'
  BY <1>1, <1>6 DEF RequestFails, AskDecision, Fault, bounds, planVars
<1> QED
  BY <1>0, <1>2, <1>3, <1>4, <1>5, <1>6, PaidNew, PaidWork, PaidDecisions
  DEF Next, Processes

(* A revision for each try of a weekly replan, one for each adjustment.    *)
Slots == (Weekly \X (1..MaxAttempts)) \union (Adjusted \X {1})

LEMMA SlotsCount ==
  ASSUME RowsPaid
  PROVE  /\ IsFiniteSet(Slots) /\ Cardinality(Slots) \in Nat
         /\ Cardinality(Slots) <= MaxWeeks * MaxAttempts + acts
<1>1. /\ MaxAttempts \in Nat \ {0} /\ MaxWeeks \in Nat /\ acts \in Nat /\ weeks \in Nat
      /\ weeks <= MaxWeeks
  BY StudyAssumption DEF RowsPaid
<1>2. IsFiniteSet(1..MaxAttempts) /\ Cardinality(1..MaxAttempts) = MaxAttempts
  BY <1>1, FS_Interval
<1>3. IsFiniteSet({1}) /\ Cardinality({1}) = 1  BY FS_Singleton
<1>4. /\ IsFiniteSet(Weekly \X (1..MaxAttempts)) /\ IsFiniteSet(Adjusted \X {1})
      /\ Cardinality(Weekly \X (1..MaxAttempts)) = Cardinality(Weekly) * MaxAttempts
      /\ Cardinality(Adjusted \X {1}) = Cardinality(Adjusted) * 1
  BY <1>2, <1>3, OpsFinite, FS_Product
<1>5. /\ IsFiniteSet(Slots)
      /\ Cardinality(Slots) = Cardinality(Weekly \X (1..MaxAttempts))
           + Cardinality(Adjusted \X {1})
           - Cardinality((Weekly \X (1..MaxAttempts)) \intersect (Adjusted \X {1}))
  BY <1>4, FS_Union DEF Slots
<1>6. /\ Cardinality(Slots) \in Nat
      /\ Cardinality((Weekly \X (1..MaxAttempts)) \intersect (Adjusted \X {1})) \in Nat
  BY <1>4, <1>5, FS_Intersection, FS_CardinalityType
<1>7. \A n, m, k \in Nat : n <= m => n * k <= m * k  OBVIOUS
<1>8. Cardinality(Weekly) <= MaxWeeks /\ Cardinality(Adjusted) <= acts
  BY <1>1, OpsFinite DEF RowsPaid
<1>9. Cardinality(Weekly) * MaxAttempts <= MaxWeeks * MaxAttempts
  BY <1>1, <1>7, <1>8, OpsFinite
<1>10. MaxWeeks * MaxAttempts \in Nat /\ Cardinality(Weekly) * MaxAttempts \in Nat
  BY <1>1, OpsFinite
<1> QED  BY <1>1, <1>4, <1>5, <1>6, <1>8, <1>9, <1>10, OpsFinite

Used == {r \in Revisions : rev[r].status # "absent"}

(* The revisions of an operation up to r                                   *)
UpTo(r) == {s \in Proposals(rev[r].op) : s <= r}

LEMMA Ranks ==
  ASSUME RowsPaid, AllTries, Sense, NEW r \in Used \ {1}
  PROVE  /\ rev[r].op \in Ops /\ r \in UpTo(r) /\ UpTo(r) \subseteq Proposals(rev[r].op)
         /\ IsFiniteSet(UpTo(r)) /\ Cardinality(UpTo(r)) \in Nat \ {0}
         /\ Cardinality(UpTo(r)) <= Cardinality(Proposals(rev[r].op))
<1>1. /\ rev[r].op \in Ops /\ r \in Proposals(rev[r].op) /\ r \in Nat
      /\ UpTo(r) \subseteq Proposals(rev[r].op)
  BY Numbers DEF RowsPaid, Used, Proposals, UpTo
<1>2. r \in UpTo(r)  BY <1>1 DEF UpTo
<1>3. /\ IsFiniteSet(UpTo(r)) /\ Cardinality(UpTo(r)) \in Nat
      /\ Cardinality(UpTo(r)) <= Cardinality(Proposals(rev[r].op))
  BY <1>1, ProposalsFinite, FS_Subset, FS_CardinalityType
<1>4. Cardinality(UpTo(r)) # 0  BY <1>2, <1>3, FS_EmptySet
<1> QED  BY <1>1, <1>2, <1>3, <1>4

LEMMA RanksDiffer ==
  ASSUME RowsPaid, AllTries, Sense, NEW r \in Used \ {1}, NEW s \in Used \ {1},
         rev[r].op = rev[s].op, r < s
  PROVE  Cardinality(UpTo(r)) < Cardinality(UpTo(s))
<1>1. /\ r \in Nat /\ s \in Nat /\ Proposals(rev[r].op) \subseteq Nat
  BY Numbers DEF Used, Proposals
<1>2. UpTo(r) \subseteq UpTo(s) /\ s \notin UpTo(r) /\ s \in UpTo(s)
  <2>1. s \in UpTo(s)  BY Ranks
  <2>2. s \notin UpTo(r)  BY <1>1 DEF UpTo
  <2>3. ASSUME NEW t \in UpTo(r) PROVE t \in UpTo(s)
    BY <1>1, <2>3 DEF UpTo
  <2> QED  BY <2>1, <2>2, <2>3
<1>3. UpTo(r) # UpTo(s)  BY <1>2
<1>4. /\ IsFiniteSet(UpTo(s)) /\ Cardinality(UpTo(s)) \in Nat /\ Cardinality(UpTo(r)) \in Nat
  BY Ranks
<1>5. Cardinality(UpTo(r)) <= Cardinality(UpTo(s)) /\ Cardinality(UpTo(r)) # Cardinality(UpTo(s))
  BY <1>2, <1>3, <1>4, FS_Subset
<1> QED  BY <1>4, <1>5

(* Each revision but the first has a slot of its own, among those of the   *)
(* tries that have proposed.                                               *)
LEMMA RevisionsInSlots ==
  ASSUME Sense, AllTries, RowsPaid, NEW T \in SUBSET Slots,
         \A r \in Used \ {1} : <<rev[r].op, Cardinality(UpTo(r))>> \in T
  PROVE  Cardinality(Used \ {1}) <= Cardinality(T)
<1> DEFINE f == [r \in Used \ {1} |-> <<rev[r].op, Cardinality(UpTo(r))>>]
<1>1. IsFiniteSet(T)  BY SlotsCount, FS_Subset
<1>2. f \in [Used \ {1} -> T]  OBVIOUS
<1>3. ASSUME NEW r \in Used \ {1}, NEW s \in Used \ {1}, f[r] = f[s] PROVE r = s
  <2>1. /\ rev[r].op = rev[s].op /\ Cardinality(UpTo(r)) = Cardinality(UpTo(s))
        /\ r \in Nat /\ s \in Nat
    BY <1>3, Numbers DEF Used
  <2>2. Cardinality(UpTo(r)) \in Nat  BY Ranks
  <2>3. ~(r < s) /\ ~(s < r)  BY <2>1, <2>2, RanksDiffer
  <2> QED  BY <2>1, <2>3
<1>4. f \in Injection(Used \ {1}, T)
  <2> HIDE DEF f
  <2> QED  BY <1>2, <1>3 DEF Injection, IsInjective
<1> HIDE DEF f
<1> QED  BY <1>1, <1>4, FS_Injection

LEMMA InSlots ==
  ASSUME Sense, AllTries, RowsPaid, NEW r \in Used \ {1}
  PROVE  <<rev[r].op, Cardinality(UpTo(r))>> \in Slots
<1>1. PICK o \in Ops : o = rev[r].op  BY Ranks
<1>2. /\ Tries(o) /\ TriedBy(o) \in Nat /\ op[o].attempts \in 0..MaxAttempts
      /\ MaxAttempts \in Nat \ {0}
  BY AttemptsType, Numbers DEF AllTries, Sense, TypeOK, OperationRow
<1>3. Cardinality(Proposals(o)) <= TriedBy(o)
  BY <1>2, ProposalsFinite DEF Tries, One
<1>4. Cardinality(UpTo(r)) \in 1..TriedBy(o)  BY <1>1, <1>2, <1>3, Ranks, ProposalsFinite
<1>5. r \in Proposals(o)  BY <1>1, Ranks
<1>6. op[o].status # "absent" /\ ~(op[o].status = "queued" /\ op[o].attempts = 0)
  BY <1>2, <1>5 DEF Tries
<1>7. CASE op[o].attempts = 0
  BY <1>1, <1>4, <1>6, <1>7 DEF TriedBy, Slots, Adjusted
<1>8. CASE op[o].attempts # 0
  BY <1>1, <1>2, <1>4, <1>8 DEF TriedBy, Slots, Weekly
<1> QED  BY <1>7, <1>8

(* As long as there are weeks or acts left there is a number for the next  *)
(* operation, and for the next revision when somebody is to propose one.   *)
RowsLeft ==
  /\ weeks < MaxWeeks \/ acts < MaxActs => \E o \in Ops : op[o].status = "absent"
  /\ acts < MaxActs \/ (\E w \in Workers : run[w].pc = "read") =>
       \E r \in Revisions : rev[r].status = "absent"

LEMMA NextOperation ==
  ASSUME Sense, RowsPaid, weeks < MaxWeeks \/ acts < MaxActs
  PROVE  \E o \in Ops : op[o].status = "absent"
<1>1. SUFFICES ASSUME \A o \in Ops : op[o].status # "absent" PROVE FALSE  OBVIOUS
<1>2. Ops = Weekly \union Adjusted  BY <1>1 DEF Weekly, Adjusted
<1>3. Cardinality(Ops) = Cardinality(Weekly) + Cardinality(Adjusted)
                           - Cardinality(Weekly \intersect Adjusted)
  BY <1>2, OpsFinite, FS_Union
<1>4. Cardinality(Weekly \intersect Adjusted) \in Nat
  BY OpsFinite, FS_Intersection, FS_CardinalityType
<1> QED  BY <1>3, <1>4, OpsFinite, StudyAssumption DEF RowsPaid

LEMMA NextRevision ==
  ASSUME Sense, AllTries, RowsPaid,
         acts < MaxActs \/ \E w \in Workers : run[w].pc = "read"
  PROVE  \E r \in Revisions : rev[r].status = "absent"
<1>1. SUFFICES ASSUME \A r \in Revisions : rev[r].status # "absent" PROVE FALSE  OBVIOUS
<1>2. Used = Revisions  BY <1>1 DEF Used
<1>3. MaxWeeks * MaxAttempts \in Nat /\ MaxActs \in Nat /\ acts \in 0..MaxActs
  BY StudyAssumption DEF RowsPaid
<1>4. /\ IsFiniteSet(Revisions)
      /\ Cardinality(Revisions) = 1 + MaxWeeks * MaxAttempts + MaxActs
  <2>1. 1 + MaxWeeks * MaxAttempts + MaxActs \in Nat  BY <1>3
  <2> QED  BY <1>3, <2>1, FS_Interval DEF Revisions
<1>5. Cardinality(Used \ {1}) = MaxWeeks * MaxAttempts + MaxActs
  <2>1. Cardinality(Revisions \ {1}) = Cardinality(Revisions) - 1
    BY <1>4, Numbers, FS_RemoveElement
  <2> QED  BY <1>2, <1>3, <1>4, <2>1
<1>6. CASE acts < MaxActs
  <2>1. Cardinality(Used \ {1}) <= Cardinality(Slots)  BY InSlots, RevisionsInSlots
  <2> QED  BY <1>3, <1>5, <1>6, <2>1, SlotsCount
<1>7. ASSUME NEW w \in Workers, run[w].pc = "read" PROVE FALSE
  <2>1. PICK o \in Ops : o = run[w].op
    BY <1>7 DEF Sense, RunsMakeSense, RowMakesSense, Processes
  <2>2. Holds(w, o) /\ Pending(o)  BY <1>7, <2>1 DEF Holds, Pending, ToPropose
  <2>3. /\ Tries(o) /\ TriedBy(o) = op[o].attempts /\ op[o].attempts \in 1..MaxAttempts
    <3>1. Tries(o) /\ op[o].attempts \in 0..MaxAttempts
      BY DEF AllTries, Sense, TypeOK, OperationRow
    <3>2. op[o].attempts # 0  BY <2>2, <3>1 DEF Tries
    <3> QED  BY <3>1, <3>2, Numbers DEF TriedBy
  <2>4. Cardinality(Proposals(o)) < op[o].attempts
    BY <2>2, <2>3, ProposalsFinite, Numbers DEF Tries, One
  <2> DEFINE slot == <<o, op[o].attempts>>
  <2>5. slot \in Slots  BY <2>3 DEF Slots, Weekly
  <2>6. ASSUME NEW r \in Used \ {1}
        PROVE  <<rev[r].op, Cardinality(UpTo(r))>> \in Slots \ {slot}
    <3>1. rev[r].op = o => Cardinality(UpTo(r)) < op[o].attempts
      BY <2>3, <2>4, Ranks, ProposalsFinite
    <3>2. rev[r].op = o => Cardinality(UpTo(r)) # op[o].attempts
      BY <2>3, <3>1, Ranks
    <3> QED  BY <3>2, InSlots
  <2> HIDE DEF slot
  <2>7. Cardinality(Used \ {1}) <= Cardinality(Slots \ {slot})
    BY <2>6, RevisionsInSlots
  <2>8. Cardinality(Slots \ {slot}) = Cardinality(Slots) - 1
    BY <2>5, SlotsCount, FS_RemoveElement
  <2> QED  BY <1>3, <1>5, <2>7, <2>8, SlotsCount
<1> QED  BY <1>6, <1>7

(* No weekly replan, adjustment or proposal is held up by the numbers of   *)
(* the model: a plan has its first revision, one for each try of a weekly  *)
(* replan and one for each adjustment, and never more (_claim_batch,       *)
(* _insert_replan_revision).                                               *)
THEOREM EnoughRows == Spec => []RowsLeft
<1>1. Init => RowsPaid
  <2> SUFFICES ASSUME Init PROVE RowsPaid  OBVIOUS
  <2>1. Weekly = {} /\ Adjusted = {}  BY DEF Init, Weekly, Adjusted
  <2>2. \A r \in Revisions : rev[r].status # "absent" => r = 1  BY DEF Init
  <2> QED  BY <2>1, <2>2, FS_EmptySet, StudyAssumption DEF Init, RowsPaid
<1>2. Sense /\ AllTries /\ RowsPaid => RowsLeft
  BY NextOperation, NextRevision DEF RowsLeft
<1>3. Init => Good /\ AllTries
  BY SenseInit, ShapeInit, KeptInit, TriesInit DEF Good
<1>4. Good /\ AllTries /\ [Next]_vars => Good' /\ AllTries'
  BY SenseStep, ShapeStep, KeptStep, TriesStep DEF Good
<1>5. Good => Sense  BY DEF Good
<1> QED  BY <1>1, <1>2, <1>3, <1>4, <1>5, PaidStep, PTL DEF Spec

=============================================================================
