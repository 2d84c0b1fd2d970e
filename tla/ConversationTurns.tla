--------------------------- MODULE ConversationTurns ---------------------------
(***************************************************************************)
(* One conversation thread: its turns, the graph workers that answer them  *)
(* under a lease, cancellation, the outbox that hands the evidence of an   *)
(* answer to the memory, and the deletion of the thread with the job that  *)
(* carries it out.                                                         *)
(*                                                                         *)
(* A request is named by its client_request_id, so sending it again names  *)
(* the same turn.  What the graph computes is left out; of its checkpoint  *)
(* only whether it says that the graph has ended.  Of the turn events the  *)
(* terminal ones are kept.  Attempt counts are only compared with their    *)
(* limit and stop counting there; lease_generation never decides anything  *)
(* here (every fence is the owner) and is left out.  A restarted process   *)
(* has a new worker id; since no process has two executions of one row,    *)
(* the model gives it the old name.  The two messages of a turn are one    *)
(* source; the code writes a deletion row for each of them.                *)
(***************************************************************************)
EXTENDS Naturals, FiniteSets

CONSTANTS
  NTurns,           \* bound: requests, in the order they are first sent
  Workers,          \* graph worker processes
  Publishers,       \* outbox publisher processes
  JobWorkers,       \* job worker processes
  Nobody,           \* lease_owner IS NULL
  None,             \* the process is at no turn or row
  TurnMaxAttempts,  \* CONVERSATION_TURN_MAX_ATTEMPTS
  OutboxMaxAttempts,\* CONVERSATION_OUTBOX_MAX_ATTEMPTS
  JobMaxAttempts,   \* CONVERSATION_JOB_MAX_ATTEMPTS
  MaxFaults         \* bound: crashes, leases lost in use, failing calls

Turns == 1..NTurns

(* Outbox rows: the evidence of a turn and the deletion of its source      *)
Rows == {"evidence", "deletion"} \X Turns
Evidence(t) == <<"evidence", t>>
Deletion(t) == <<"deletion", t>>

ASSUME TurnsAssumption ==
  /\ NTurns \in Nat /\ MaxFaults \in Nat
  /\ {TurnMaxAttempts, OutboxMaxAttempts, JobMaxAttempts} \subseteq Nat \ {0}
  /\ Nobody \notin Workers \union Publishers \union JobWorkers
  /\ None \notin Rows /\ None \notin Turns

VARIABLES
  thread,     \* status of the conversation_threads row
  turn,       \* conversation_turns, with messages and terminal events
  answers,    \* answers[t]: completions committed (history)
  ckpt,       \* the graph's checkpoint of a turn
  worker,     \* graph worker processes
  cancel,     \* cancel requests between their read and their update
  outbox,     \* conversation_outbox
  pub,        \* publisher processes
  job,        \* the delete_thread row of conversation_jobs
  jobber,     \* job worker processes
  known,      \* turns whose evidence the memory accepted
  forgotten,  \* turns whose source deletion the memory accepted
  undelivered,\* rows of evidence not delivered when deletion began (history)
  faults

turnVars == <<turn, answers, ckpt, worker, cancel>>
deliveryVars == <<outbox, pub, known, forgotten>>
deletionVars == <<thread, job, jobber, undelivered>>
vars == <<turnVars, deliveryVars, deletionVars, faults>>

Leases == {"none", "live", "expired"}

ActiveStatus == {"accepted", "running", "cancelling"}

TurnRow ==
  [status : {"absent", "completed", "failed", "cancelled"} \union ActiveStatus,
   owner : Workers \union {Nobody}, lease : Leases, attempts : 0..TurnMaxAttempts,
   messages : SUBSET {"user", "assistant"},
   events : SUBSET {"answer.completed", "turn.failed", "turn.cancelled"},
   memory : {"not_required", "pending", "retrying", "accepted", "failed"}]

(* "attempt" is the attempt_count the claim returned.                      *)
WorkerState ==
  [pc : {"idle", "claimed", "run", "ack"}, turn : Turns \union {None},
   attempt : 0..TurnMaxAttempts]

OutboxRow ==
  [status : {"absent", "pending", "processing", "retry_wait", "delivered", "dead_letter"},
   owner : Publishers \union {Nobody}, lease : Leases, attempts : 0..OutboxMaxAttempts]

(* "todo" are the rows of the batch not begun, "seen" their attempt counts *)
(* at the claim.                                                           *)
PublisherState ==
  [pc : {"idle", "look", "send", "mark", "skip", "failed"}, todo : SUBSET Rows,
   row : Rows \union {None}, seen : [Rows -> 0..OutboxMaxAttempts]]

JobRow ==
  [status : {"absent", "pending", "processing", "retry_wait", "done", "dead_letter"},
   owner : JobWorkers \union {Nobody}, lease : Leases, attempts : 0..JobMaxAttempts]

IdleWorker == [pc |-> "idle", turn |-> None, attempt |-> 0]
IdlePublisher == [pc |-> "idle", todo |-> {}, row |-> None, seen |-> [r \in Rows |-> 0]]
NoJob == [status |-> "absent", owner |-> Nobody, lease |-> "none", attempts |-> 0]

Init ==
  /\ thread = "active"
  /\ turn = [t \in Turns |-> [status |-> "absent", owner |-> Nobody, lease |-> "none",
                              attempts |-> 0, messages |-> {}, events |-> {},
                              memory |-> "not_required"]]
  /\ answers = [t \in Turns |-> 0]
  /\ ckpt = [t \in Turns |-> "none"]
  /\ worker = [w \in Workers |-> IdleWorker]
  /\ cancel = [t \in Turns |-> "none"]
  /\ outbox = [r \in Rows |-> [status |-> "absent", owner |-> Nobody, lease |-> "none",
                               attempts |-> 0]]
  /\ pub = [p \in Publishers |-> IdlePublisher]
  /\ job = NoJob
  /\ jobber = [j \in JobWorkers |-> 0]
  /\ known = {} /\ forgotten = {} /\ undelivered = {}
  /\ faults = 0

Fault ==
  /\ faults < MaxFaults
  /\ faults' = faults + 1

(* attempt_count + 1, as far as the limit can tell                         *)
OneMore(n, limit) == IF n < limit THEN n + 1 ELSE n

Active(t) == turn[t].status \in ActiveStatus

(* ---- the API ---------------------------------------------------------- *)

(* POST turns, under the lock of the thread row.  A repeated request finds *)
(* its turn and one with a stale expected_thread_version is refused; both  *)
(* change nothing.                                                         *)
CreateTurn(t) ==
  /\ thread = "active"
  /\ turn[t].status = "absent"
  /\ \A s \in Turns : ~Active(s)
  /\ \A s \in 1..(t - 1) : turn[s].status # "absent"
  /\ turn' = [turn EXCEPT ![t].status = "accepted", ![t].messages = {"user"}]
  /\ UNCHANGED <<answers, ckpt, worker, cancel, deliveryVars, deletionVars, faults>>

(* DELETE turn reads the row without a lock...                             *)
CancelRead(t) ==
  /\ cancel[t] = "none" /\ turn[t].status \in {"accepted", "running"}
  /\ cancel' = [cancel EXCEPT ![t] = turn[t].status]
  /\ UNCHANGED <<turn, answers, ckpt, worker, deliveryVars, deletionVars, faults>>

(* ...and updates what it has read, if the row is still there.  Whether it *)
(* was, is not looked at: the event of a cancellation is written anyway.   *)
CancelAccepted(t) ==
  /\ cancel[t] = "accepted"
  /\ turn' = [turn EXCEPT ![t].status = IF @ = "accepted" THEN "cancelled" ELSE @,
                          ![t].events = @ \union {"turn.cancelled"}]
  /\ cancel' = [cancel EXCEPT ![t] = "none"]
  /\ UNCHANGED <<answers, ckpt, worker, deliveryVars, deletionVars, faults>>

CancelRunning(t) ==
  /\ cancel[t] = "running"
  /\ turn' = [turn EXCEPT ![t].status = IF @ = "running" THEN "cancelling" ELSE @]
  /\ cancel' = [cancel EXCEPT ![t] = "none"]
  /\ UNCHANGED <<answers, ckpt, worker, deliveryVars, deletionVars, faults>>

(* What the deletion of the thread does to a turn                          *)
Stopped(t) ==
  CASE turn[t].status = "accepted" -> "cancelled"
    [] turn[t].status = "running"  -> "cancelling"
    [] OTHER                       -> turn[t].status

(* The sources whose evidence is marked delivered                          *)
Owed == {t \in Turns : outbox[Evidence(t)].status = "delivered"}

(* DELETE thread: one transaction under the lock of the thread row.        *)
DeleteThread ==
  /\ thread = "active"
  /\ thread' = "deleting"
  /\ turn' = [t \in Turns |-> [turn[t] EXCEPT !.status = Stopped(t)]]
  /\ outbox' = [r \in Rows |->
                  IF r[1] = "deletion" /\ r[2] \in Owed
                  THEN [outbox[r] EXCEPT !.status = "pending"] ELSE outbox[r]]
  /\ undelivered' = {t \in Turns : outbox[Evidence(t)].status \notin {"absent", "delivered"}}
  /\ job' = [NoJob EXCEPT !.status = "pending"]
  /\ UNCHANGED <<answers, ckpt, worker, cancel, pub, known, forgotten, jobber, faults>>

(* ---- the graph worker ------------------------------------------------- *)

(* A mistake: the expired lease of a turn that runs is not looked at *)
ClaimableAccepted(t) == turn[t].status = "accepted"

Claimable(t) ==
  \/ turn[t].status = "accepted"
  \/ turn[t].status \in {"running", "cancelling"} /\ turn[t].lease = "expired"

ClaimTurn(w, t) ==
  /\ worker[w].pc = "idle"
  /\ Claimable(t) /\ turn[t].status # "cancelling"
  /\ LET attempt == OneMore(turn[t].attempts, TurnMaxAttempts)
     IN  /\ turn' = [turn EXCEPT ![t].status = "running", ![t].owner = w,
                                 ![t].lease = "live", ![t].attempts = attempt]
         /\ worker' = [worker EXCEPT ![w] =
                         [pc |-> "claimed", turn |-> t, attempt |-> attempt]]
  /\ UNCHANGED <<answers, ckpt, cancel, deliveryVars, deletionVars, faults>>

(* The claim of a turn being cancelled only ends it, fenced by nothing but *)
(* the row lock and the expired lease.                                     *)
ReclaimCancelling(w, t) ==
  /\ worker[w].pc = "idle"
  /\ Claimable(t) /\ turn[t].status = "cancelling"
  /\ turn' = [turn EXCEPT ![t].status = "cancelled"]
  /\ UNCHANGED <<answers, ckpt, worker, cancel, deliveryVars, deletionVars, faults>>

(* The graph starts from the checkpoint; one that says the graph has ended *)
(* leaves nothing to do.                                                   *)
StartGraph(w) ==
  /\ worker[w].pc = "claimed"
  /\ worker' = [worker EXCEPT ![w] = IF ckpt[worker[w].turn] = "ended" THEN IdleWorker
                                     ELSE [@ EXCEPT !.pc = "run"]]
  /\ UNCHANGED <<turn, answers, ckpt, cancel, deliveryVars, deletionVars, faults>>

(* A step of the graph before persist_turn is checkpointed.                *)
GraphStep(w) ==
  /\ worker[w].pc = "run" /\ ckpt[worker[w].turn] # "open"
  /\ ckpt' = [ckpt EXCEPT ![worker[w].turn] = "open"]
  /\ UNCHANGED <<turn, answers, worker, cancel, deliveryVars, deletionVars, faults>>

(* A mistake: the owner may end a turn that was cancelled *)
HoldsByOwner(w, t) ==
  turn[t].status \in {"running", "cancelling"} /\ turn[t].owner = w

Holds(w, t) == turn[t].status = "running" /\ turn[t].owner = w

(* persist_turn: a worker that no longer holds the turn writes nothing and *)
(* the graph ends.                                                         *)
FencedOut(w) ==
  LET t == worker[w].turn IN
  /\ worker[w].pc = "run" /\ ~Holds(w, t)
  /\ ckpt' = [ckpt EXCEPT ![t] = "ended"]
  /\ worker' = [worker EXCEPT ![w] = IdleWorker]
  /\ UNCHANGED <<turn, answers, cancel, deliveryVars, deletionVars, faults>>

(* A mistake: the evidence of the answer is left to a later transaction *)
WithoutEvidence(t) == outbox

WithEvidence(t) == [outbox EXCEPT ![Evidence(t)].status = "pending"]

(* Otherwise the message, the evidence row, the event and the status are   *)
(* one transaction; it also looks at the thread, under its lock.  With     *)
(* memory_trigger = explicit_remember the graph goes on to MEMORYACK.      *)
Finalize(w) ==
  LET t == worker[w].turn IN
  /\ worker[w].pc = "run" /\ Holds(w, t)
  /\ IF thread = "active"
     THEN /\ turn' = [turn EXCEPT ![t].status = "completed",
                                  ![t].messages = @ \union {"assistant"},
                                  ![t].events = @ \union {"answer.completed"},
                                  ![t].memory = "pending"]
          /\ answers' = [answers EXCEPT ![t] = @ + 1]
          /\ outbox' = WithEvidence(t)
          /\ \E next \in {"ack", "idle"} :
               worker' = [worker EXCEPT ![w] = IF next = "ack" THEN [@ EXCEPT !.pc = "ack"]
                                               ELSE IdleWorker]
     ELSE /\ turn' = [turn EXCEPT ![t].status = "cancelled"]
          /\ worker' = [worker EXCEPT ![w] = IdleWorker]
          /\ UNCHANGED <<answers, outbox>>
  /\ ckpt' = [ckpt EXCEPT ![t] = "ended"]
  /\ UNCHANGED <<cancel, pub, known, forgotten, deletionVars, faults>>

(* The graph raises.  The turn fails if the attempts are used up; if not,  *)
(* it stays "running" until its lease has expired.                         *)
ExecutionRaises(w) ==
  LET t == worker[w].turn IN
  /\ worker[w].pc \in {"claimed", "run"}
  /\ IF worker[w].attempt >= TurnMaxAttempts /\ Holds(w, t)
     THEN turn' = [turn EXCEPT ![t].status = "failed", ![t].events = @ \union {"turn.failed"}]
     ELSE UNCHANGED turn
  /\ worker' = [worker EXCEPT ![w] = IdleWorker]
  /\ UNCHANGED <<answers, ckpt, cancel, deliveryVars, deletionVars, faults>>

(* MEMORYACK claims the evidence of its turn unless the publisher has it,  *)
(* and settles it in the same transaction.  It does not ask for the thread. *)
MemoryAck(w) ==
  LET t == worker[w].turn
      r == Evidence(t)
  IN
  /\ worker[w].pc = "ack"
  /\ IF outbox[r].status \in {"pending", "retry_wait"}
     THEN /\ outbox' = [outbox EXCEPT ![r].status = "delivered"]
          /\ turn' = [turn EXCEPT ![t].memory = "accepted"]
          /\ known' = known \union {t}
     ELSE UNCHANGED <<outbox, turn, known>>
  /\ worker' = [worker EXCEPT ![w] = IdleWorker]
  /\ UNCHANGED <<answers, ckpt, cancel, pub, forgotten, deletionVars, faults>>

(* The call fails, or its answer is lost; the row goes back to "pending".  *)
MemoryAckFails(w) ==
  LET t == worker[w].turn
      r == Evidence(t)
  IN
  /\ worker[w].pc = "ack" /\ outbox[r].status \in {"pending", "retry_wait"}
  /\ Fault
  /\ \E arrived \in BOOLEAN : known' = IF arrived THEN known \union {t} ELSE known
  /\ outbox' = [outbox EXCEPT ![r].status = "pending"]
  /\ worker' = [worker EXCEPT ![w] = IdleWorker]
  /\ UNCHANGED <<turn, answers, ckpt, cancel, pub, forgotten, deletionVars>>

CrashWorker(w) ==
  /\ worker[w].pc # "idle" /\ Fault
  /\ worker' = [worker EXCEPT ![w] = IdleWorker]
  /\ UNCHANGED <<turn, answers, ckpt, cancel, deliveryVars, deletionVars>>

(* _owned_turns: what the heartbeat of the worker renews                   *)
Renews(w, t) == worker[w].turn = t /\ worker[w].pc \in {"claimed", "run", "ack"}

(* Time passes: a lease nobody renews runs out; one that is renewed does   *)
(* when the heartbeat is late.                                             *)
TurnLeaseExpires(t) ==
  /\ turn[t].status \in {"running", "cancelling"} /\ turn[t].lease = "live"
  /\ IF Renews(turn[t].owner, t) THEN Fault ELSE UNCHANGED faults
  /\ turn' = [turn EXCEPT ![t].lease = "expired"]
  /\ UNCHANGED <<answers, ckpt, worker, cancel, deliveryVars, deletionVars>>

(* A late heartbeat takes the lease back if nobody claimed the turn.       *)
Heartbeat(w, t) ==
  /\ Renews(w, t) /\ turn[t].owner = w /\ turn[t].lease = "expired"
  /\ turn' = [turn EXCEPT ![t].lease = "live"]
  /\ UNCHANGED <<answers, ckpt, worker, cancel, deliveryVars, deletionVars, faults>>

(* ---- the outbox publisher --------------------------------------------- *)

(* A mistake: what a publisher that died had claimed is not looked at *)
ClaimableFresh(r) == outbox[r].status \in {"pending", "retry_wait"}

ClaimableRow(r) ==
  \/ outbox[r].status \in {"pending", "retry_wait"}
  \/ outbox[r].status = "processing" /\ outbox[r].lease = "expired"

ClaimRows(p) ==
  LET batch == {r \in Rows : ClaimableRow(r)}
      attempt == [r \in Rows |-> OneMore(outbox[r].attempts, OutboxMaxAttempts)]
  IN
  /\ pub[p].pc = "idle" /\ batch # {}
  /\ outbox' = [r \in Rows |->
                  IF r \in batch THEN [status |-> "processing", owner |-> p, lease |-> "live",
                                       attempts |-> attempt[r]]
                  ELSE outbox[r]]
  /\ pub' = [pub EXCEPT ![p] = [pc |-> "look", todo |-> batch, row |-> None,
                                seen |-> [r \in Rows |-> IF r \in batch THEN attempt[r] ELSE 0]]]
  /\ UNCHANGED <<turnVars, known, forgotten, deletionVars, faults>>

(* created_at: evidence in the order of the turns, the deletions after it  *)
Before(r, s) ==
  r[1] = "evidence" /\ (s[1] = "deletion" \/ r[2] < s[2])

(* The batch is worked off row by row.  Before evidence is sent the thread *)
(* is looked at, without a lock; if it is not active the row is only       *)
(* marked.                                                                 *)
BeginRow(p, r) ==
  /\ pub[p].pc = "look" /\ r \in pub[p].todo
  /\ \A s \in pub[p].todo : ~Before(s, r)
  /\ pub' = [pub EXCEPT ![p].todo = @ \ {r}, ![p].row = r,
               ![p].pc = IF r[1] = "evidence" /\ thread # "active" THEN "skip" ELSE "send"]
  /\ UNCHANGED <<turnVars, outbox, known, forgotten, deletionVars, faults>>

EndBatch(p) ==
  /\ pub[p].pc = "look" /\ pub[p].todo = {}
  /\ pub' = [pub EXCEPT ![p] = IdlePublisher]
  /\ UNCHANGED <<turnVars, outbox, known, forgotten, deletionVars, faults>>

(* The memory takes the row; it knows the idempotency key of a repetition. *)
Arrive(r) ==
  /\ known' = IF r[1] = "evidence" THEN known \union {r[2]} ELSE known
  /\ forgotten' = IF r[1] = "deletion" THEN forgotten \union {r[2]} ELSE forgotten

Send(p) ==
  /\ pub[p].pc = "send"
  /\ Arrive(pub[p].row)
  /\ pub' = [pub EXCEPT ![p].pc = "mark"]
  /\ UNCHANGED <<turnVars, outbox, deletionVars, faults>>

(* The memory refuses, cannot be reached, or its answer is lost.           *)
SendFails(p) ==
  /\ pub[p].pc = "send" /\ Fault
  /\ \/ Arrive(pub[p].row)
     \/ UNCHANGED <<known, forgotten>>
  /\ pub' = [pub EXCEPT ![p].pc = "failed"]
  /\ UNCHANGED <<turnVars, outbox, deletionVars>>

Marks(p) ==
  LET r == pub[p].row IN outbox[r].status = "processing" /\ outbox[r].owner = p

(* A mistake: the owner stays in the row *)
SettledOwned(r, status) == [outbox EXCEPT ![r].status = status]

Settled(r, status) ==
  [outbox EXCEPT ![r].status = status, ![r].owner = Nobody, ![r].lease = "none"]

(* mark_delivered; the turn learns of it in the same transaction.          *)
MarkDelivered(p) ==
  LET r == pub[p].row IN
  /\ pub[p].pc \in {"mark", "skip"}
  /\ outbox' = IF Marks(p) THEN Settled(r, "delivered") ELSE outbox
  /\ turn' = IF Marks(p) /\ r[1] = "evidence" /\ pub[p].pc = "mark"
             THEN [turn EXCEPT ![r[2]].memory = "accepted"] ELSE turn
  /\ pub' = [pub EXCEPT ![p].pc = "look", ![p].row = None]
  /\ UNCHANGED <<answers, ckpt, worker, cancel, known, forgotten, deletionVars, faults>>

(* An error that is permanent, or the last attempt, ends the row.  The     *)
(* turn is told either way, whether the mark was fenced out or not.        *)
HandleFailure(p) ==
  LET r == pub[p].row IN
  /\ pub[p].pc = "failed"
  /\ \E final \in BOOLEAN :
       /\ pub[p].seen[r] >= OutboxMaxAttempts => final
       /\ outbox' = IF Marks(p) THEN Settled(r, IF final THEN "dead_letter" ELSE "retry_wait")
                    ELSE outbox
       /\ turn' = IF r[1] = "evidence"
                  THEN [turn EXCEPT ![r[2]].memory = IF final THEN "failed" ELSE "retrying"]
                  ELSE turn
  /\ pub' = [pub EXCEPT ![p].pc = "look", ![p].row = None]
  /\ UNCHANGED <<answers, ckpt, worker, cancel, known, forgotten, deletionVars, faults>>

CrashPublisher(p) ==
  /\ pub[p].pc # "idle" /\ Fault
  /\ pub' = [pub EXCEPT ![p] = IdlePublisher]
  /\ UNCHANGED <<turnVars, outbox, known, forgotten, deletionVars>>

(* Publishers do not renew: a lease runs out while its row is worked on if *)
(* the calls before it were slow.                                          *)
RowLeaseExpires(r) ==
  /\ outbox[r].status = "processing" /\ outbox[r].lease = "live"
  /\ IF pub[outbox[r].owner].row = r \/ r \in pub[outbox[r].owner].todo
     THEN Fault ELSE UNCHANGED faults
  /\ outbox' = [outbox EXCEPT ![r].lease = "expired"]
  /\ UNCHANGED <<turnVars, pub, known, forgotten, deletionVars>>

(* ---- the deletion job ------------------------------------------------- *)

ClaimJob(j) ==
  LET attempt == OneMore(job.attempts, JobMaxAttempts) IN
  /\ jobber[j] = 0
  /\ \/ job.status \in {"pending", "retry_wait"}
     \/ job.status = "processing" /\ job.lease = "expired"
  /\ job' = [status |-> "processing", owner |-> j, lease |-> "live", attempts |-> attempt]
  /\ jobber' = [jobber EXCEPT ![j] = attempt]
  /\ UNCHANGED <<thread, undelivered, turnVars, deliveryVars, faults>>

(* The marks of a job are fenced by the owner; that they were, is not      *)
(* looked at.                                                              *)
MarkedJob(j, status) ==
  IF job.status = "processing" /\ job.owner = j
  THEN [job EXCEPT !.status = status, !.owner = Nobody, !.lease = "none"] ELSE job

DeletionsIn(statuses) == {t \in Turns : outbox[Deletion(t)].status \in statuses}

(* A mistake: a deletion that was given up counts as delivered *)
NotDelivered == DeletionsIn({"pending", "processing", "retry_wait"})

(* Deletion rows of this generation that hold the thread back              *)
Withheld == DeletionsIn({"pending", "processing", "retry_wait", "dead_letter"})

(* execute_delete_thread, one transaction: wait for the active turn; clean *)
(* up; wait again if the stored objects could not be removed (a fault) or  *)
(* deletions are not delivered; else the thread is gone.                   *)
DeleteWaits(j) ==
  /\ jobber[j] # 0
  /\ \E t \in Turns : Active(t)
  /\ job' = MarkedJob(j, "retry_wait")
  /\ jobber' = [jobber EXCEPT ![j] = 0]
  /\ UNCHANGED <<thread, undelivered, turnVars, deliveryVars, faults>>

Quiet == \A t \in Turns : ~Active(t)

DeleteCleans(j) ==
  /\ jobber[j] # 0
  /\ Quiet
  /\ turn' = [t \in Turns |-> [turn[t] EXCEPT !.messages = {}, !.events = {}]]
  /\ \/ /\ Fault
        /\ job' = MarkedJob(j, "retry_wait")
        /\ UNCHANGED thread
     \/ /\ Withheld # {}
        /\ job' = MarkedJob(j, "retry_wait")
        /\ UNCHANGED <<thread, faults>>
     \/ /\ Withheld = {}
        /\ job' = MarkedJob(j, "done")
        /\ thread' = "deleted"
        /\ UNCHANGED faults
  /\ jobber' = [jobber EXCEPT ![j] = 0]
  /\ UNCHANGED <<undelivered, answers, ckpt, worker, cancel, deliveryVars>>

(* The transaction fails.                                                  *)
JobRaises(j) ==
  /\ jobber[j] # 0 /\ Fault
  /\ job' = MarkedJob(j, IF jobber[j] >= JobMaxAttempts THEN "dead_letter" ELSE "retry_wait")
  /\ jobber' = [jobber EXCEPT ![j] = 0]
  /\ UNCHANGED <<thread, undelivered, turnVars, deliveryVars>>

CrashJobWorker(j) ==
  /\ jobber[j] # 0 /\ Fault
  /\ jobber' = [jobber EXCEPT ![j] = 0]
  /\ UNCHANGED <<thread, job, undelivered, turnVars, deliveryVars>>

JobLeaseExpires ==
  /\ job.status = "processing" /\ job.lease = "live"
  /\ IF jobber[job.owner] # 0 THEN Fault ELSE UNCHANGED faults
  /\ job' = [job EXCEPT !.lease = "expired"]
  /\ UNCHANGED <<thread, jobber, undelivered, turnVars, deliveryVars>>

-----------------------------------------------------------------------------
Execute(w) ==
  StartGraph(w) \/ FencedOut(w) \/ Finalize(w) \/ ExecutionRaises(w)
  \/ MemoryAck(w) \/ MemoryAckFails(w)

Claims(w) == \E t \in Turns : ClaimTurn(w, t) \/ ReclaimCancelling(w, t)

Deliver(p) ==
  (\E r \in Rows : BeginRow(p, r)) \/ EndBatch(p) \/ Send(p) \/ SendFails(p)
  \/ MarkDelivered(p) \/ HandleFailure(p)

WorkJob(j) == DeleteWaits(j) \/ DeleteCleans(j) \/ JobRaises(j)

Next ==
  \/ \E t \in Turns : CreateTurn(t) \/ CancelRead(t) \/ CancelAccepted(t) \/ CancelRunning(t)
  \/ DeleteThread
  \/ \E w \in Workers : Claims(w) \/ Execute(w) \/ GraphStep(w) \/ CrashWorker(w)
  \/ \E t \in Turns : TurnLeaseExpires(t) \/ \E w \in Workers : Heartbeat(w, t)
  \/ \E p \in Publishers : ClaimRows(p) \/ Deliver(p) \/ CrashPublisher(p)
  \/ \E r \in Rows : RowLeaseExpires(r)
  \/ \E j \in JobWorkers : ClaimJob(j) \/ WorkJob(j) \/ CrashJobWorker(j)
  \/ JobLeaseExpires

Spec == Init /\ [][Next]_vars

(* Every poll loop runs for ever, calls return or time out, time goes on.  *)
Fairness ==
  /\ WF_vars(\E w \in Workers : Claims(w))
  /\ \A w \in Workers : WF_vars(Execute(w))
  /\ \A t \in Turns : WF_vars(TurnLeaseExpires(t))
  /\ WF_vars(\E p \in Publishers : ClaimRows(p))
  /\ \A p \in Publishers : WF_vars(Deliver(p))
  /\ \A r \in Rows : WF_vars(RowLeaseExpires(r))
  /\ WF_vars(\E j \in JobWorkers : ClaimJob(j))
  /\ \A j \in JobWorkers : WF_vars(WorkJob(j))
  /\ WF_vars(JobLeaseExpires)

FairSpec == Spec /\ Fairness

-----------------------------------------------------------------------------
(* Type correctness, with the lease columns of outbox rows and of the job: *)
(* owner and lease are set exactly while they are "processing".  There is  *)
(* at most one active turn.                                                *)
TypeOK ==
  /\ thread \in {"active", "deleting", "deleted"}
  /\ turn \in [Turns -> TurnRow]
  /\ answers \in [Turns -> Nat]
  /\ ckpt \in [Turns -> {"none", "open", "ended"}]
  /\ worker \in [Workers -> WorkerState]
  /\ cancel \in [Turns -> {"none", "accepted", "running"}]
  /\ outbox \in [Rows -> OutboxRow]
  /\ pub \in [Publishers -> PublisherState]
  /\ job \in JobRow
  /\ jobber \in [JobWorkers -> 0..JobMaxAttempts]
  /\ known \subseteq Turns /\ forgotten \subseteq Turns /\ undelivered \subseteq Turns
  /\ faults \in 0..MaxFaults
  /\ \A r \in Rows :
       /\ (outbox[r].status = "processing") <=> (outbox[r].owner \in Publishers)
       /\ (outbox[r].status = "processing") <=> (outbox[r].lease # "none")
  /\ (job.status = "processing") <=> (job.owner \in JobWorkers)
  /\ \A s, t \in Turns : Active(s) /\ Active(t) => s = t

(* An answer is whole: a turn is completed once, together with the message *)
(* and the evidence row; no other turn shows an answer or reaches the      *)
(* memory, however many workers executed it (persist_turn).                *)
AnswersWhole ==
  \A t \in Turns :
    /\ answers[t] = IF turn[t].status = "completed" THEN 1 ELSE 0
    /\ (turn[t].status = "completed") <=> (outbox[Evidence(t)].status # "absent")
    /\ ("assistant" \in turn[t].messages \/ "answer.completed" \in turn[t].events)
          => turn[t].status = "completed"
    /\ "turn.failed" \in turn[t].events => turn[t].status = "failed"
    /\ t \in known => turn[t].status = "completed"

(* A thread that is "deleted" shows nothing and runs nothing, and the      *)
(* memory was told to forget every source it had, except those whose       *)
(* evidence was still on its way when the deletion began: these depend on  *)
(* the memory not finding their messages any more.                         *)
DeletedIsForgotten ==
  thread = "deleted" =>
    \A t \in Turns :
      /\ ~Active(t) /\ turn[t].messages = {}
      /\ t \in known => t \in forgotten \union undelivered

(* What is said of the memory is so: a turn shows "accepted" only if the   *)
(* memory has its evidence; evidence marked delivered was taken, or        *)
(* belongs to a thread that is deleted; a source is withdrawn only if it   *)
(* was taken, and marked so only if the memory has forgotten it            *)
(* (mark_delivered, MEMORYACK).  "failed" may be shown of evidence that    *)
(* was taken: the answer of the memory was lost.                           *)
AcceptedIsKnown ==
  \A t \in Turns :
    /\ turn[t].memory = "accepted" => t \in known
    /\ outbox[Evidence(t)].status = "delivered" => t \in known \/ thread # "active"
    /\ outbox[Deletion(t)].status # "absent" => t \in known
    /\ outbox[Deletion(t)].status = "delivered" => t \in forgotten

Phase ==
  [t \in Turns |->
     CASE turn[t].status = "absent"                   -> "none"
       [] turn[t].status \in {"accepted", "running"} -> "open"
       [] turn[t].status = "cancelling"               -> "stopping"
       [] turn[t].status = "completed"                -> "answered"
       [] OTHER                                       -> turn[t].status]

Contract == INSTANCE ThreadContract
              WITH life <- thread, phase <- Phase

(* Whatever workers lose their leases or come back late, a client sees the *)
(* contract of a thread: a cancelled turn is never answered, a turn that   *)
(* ended stays as it is, the deletion stops every turn, and the thread is  *)
(* gone only when nothing runs.                                            *)
FollowsContract == Contract!ContractSpec

(* Every accepted turn ends, although executions raise without failing it, *)
(* workers crash and nothing but a claim ends a cancelled one.  The        *)
(* exception is real: an execution that was fenced out closes the          *)
(* checkpoint the next one would start from.                               *)
TurnEnds ==
  \A t \in Turns : Active(t) ~> (~Active(t) \/ ckpt[t] = "ended")

(* A deletion ends, or it waits for a person: its job was given up, a      *)
(* deletion row was, or (see above) a turn cannot end.                     *)
DeletionEnds ==
  thread = "deleting" ~>
    \/ thread = "deleted" \/ job.status = "dead_letter"
    \/ \E t \in Turns : outbox[Deletion(t)].status = "dead_letter"
=============================================================================
