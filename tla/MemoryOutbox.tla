----------------------------- MODULE MemoryOutbox -----------------------------
(***************************************************************************)
(* The transactional outbox of the memory domain: a commit writes an event *)
(* and one delivery per target in its own transaction; consumer processes  *)
(* claim batches of events under a lease, deliver each target together     *)
(* with its mark in one transaction, and settle the event.  Every write of *)
(* a consumer is fenced by the owner and the lease generation of the row.  *)
(*                                                                         *)
(* The payload is left out.  A delivery counts in "dispatched" when the    *)
(* transaction that ran its side effect commits.  next_run_at is "due" or  *)
(* not yet due, a lease is live or expired; attempt_count of the row only  *)
(* sets the length of the back-off and is left out.                        *)
(***************************************************************************)
EXTENDS Naturals, FiniteSets

CONSTANTS
  NEvents,      \* events are numbered by created_at
  EventOf,      \* [type, user, aggregate, version] of each event
  Consumers,    \* consumer processes
  NoConsumer,   \* locked_by IS NULL
  NoEvent,      \* the consumer is not at a row
  BatchSize,    \* memory_outbox_batch_size
  MaxAttempts,  \* max_attempts of a row
  MaxFaults     \* bound: lost leases, crashes, failing transactions

Events == 1..NEvents

EVENT_TARGETS ==
  [type \in {"memory.changed", "learner.updated", "memory.deleted", "memory.restored",
             "review_candidate.created", "review_candidate.resolved",
             "graph_state.changed", "graph_state.explanation_available",
             "account_memory.purge_requested"} |->
     {"internal_event_log"}
     \union (IF type \in {"memory.changed", "memory.deleted", "memory.restored"}
             THEN {"summary_projection"} ELSE {})
     \union (IF type \in {"memory.changed", "learner.updated",
                          "account_memory.purge_requested"}
             THEN {} ELSE {"user_notification"})]

Targets == {"internal_event_log", "summary_projection", "user_notification"}

ASSUME OutboxAssumption ==
  /\ NEvents \in Nat /\ BatchSize \in Nat \ {0}
  /\ MaxAttempts \in Nat \ {0} /\ MaxFaults \in Nat
  /\ \A e \in Events : EventOf[e].type \in DOMAIN EVENT_TARGETS
  /\ NoConsumer \notin Consumers /\ NoEvent \notin Events

TargetsFor(e) == EVENT_TARGETS[EventOf[e].type]

(* The columns of uq_memory_outbox_event; the user is not among them.      *)
EventKey(e) == <<EventOf[e].type, EventOf[e].aggregate, EventOf[e].version>>

VARIABLES
  row,         \* memory_outbox
  delivery,    \* memory_outbox_deliveries
  dispatched,  \* dispatched[e][t]: committed side effects (history)
  refused,     \* events whose INSERT met the unique constraint (history)
  con,         \* consumer processes
  faults

vars == <<row, delivery, dispatched, refused, con, faults>>

RowStatus == {"absent", "pending", "publishing", "retry_wait", "published", "dead_letter"}

Row == [status : RowStatus, owner : Consumers \union {NoConsumer}, gen : Nat,
        lease : {"none", "live", "expired"}, due : BOOLEAN]

Delivery == [status : {"pending", "succeeded", "retry_wait", "dead_letter"},
             attempts : Nat]

(* claimed[e] is the generation under which the current batch holds e, 0   *)
(* when e is not in the batch; "todo" are the rows of the batch not begun; *)
(* "left" the deliveries of the row still to do, "seen" the attempt counts *)
(* list_deliveries read.                                                   *)
Consumer ==
  [pc : {"idle", "next", "list", "deliver", "failed", "finalize", "reschedule"},
   claimed : [Events -> Nat], todo : SUBSET Events, cur : Events \union {NoEvent},
   left : SUBSET Targets, seen : [Targets -> Nat]]

Idle == [pc |-> "idle", claimed |-> [e \in Events |-> 0], todo |-> {}, cur |-> NoEvent,
         left |-> {}, seen |-> [t \in Targets |-> 0]]

Init ==
  /\ row = [e \in Events |-> [status |-> "absent", owner |-> NoConsumer, gen |-> 0,
                              lease |-> "none", due |-> TRUE]]
  /\ delivery = [e \in Events |-> [t \in Targets |-> [status |-> "pending", attempts |-> 0]]]
  /\ dispatched = [e \in Events |-> [t \in Targets |-> 0]]
  /\ refused = {}
  /\ con = [c \in Consumers |-> Idle]
  /\ faults = 0

Fault ==
  /\ faults < MaxFaults
  /\ faults' = faults + 1

(* A commit writes its event: INSERT ... ON CONFLICT DO NOTHING.  The      *)
(* callers ignore that insert_event returned False.                        *)
InsertEvent(e) ==
  /\ row[e].status = "absent" /\ e \notin refused
  /\ IF \E f \in Events : row[f].status # "absent" /\ EventKey(f) = EventKey(e)
     THEN /\ refused' = refused \union {e}
          /\ UNCHANGED row
     ELSE /\ row' = [row EXCEPT ![e].status = "pending"]
          /\ UNCHANGED refused
  /\ UNCHANGED <<delivery, dispatched, con, faults>>

(* ---- the consumer ----------------------------------------------------- *)

(* A mistake: rows in retry_wait are never claimed again *)
ClaimablePending(e) == row[e].status = "pending" /\ row[e].due

Claimable(e) == row[e].status \in {"pending", "retry_wait"} /\ row[e].due

(* ORDER BY created_at LIMIT batch_size FOR UPDATE SKIP LOCKED             *)
OldestClaimable ==
  {e \in Events : Claimable(e) /\ Cardinality({f \in 1..(e - 1) : Claimable(f)}) < BatchSize}

ClaimBatch(c) ==
  /\ con[c].pc = "idle" /\ OldestClaimable # {}
  /\ row' = [e \in Events |->
               IF e \in OldestClaimable
               THEN [row[e] EXCEPT !.status = "publishing", !.owner = c,
                                   !.gen = row[e].gen + 1, !.lease = "live"]
               ELSE row[e]]
  /\ con' = [con EXCEPT ![c] =
       [Idle EXCEPT !.pc = "next", !.todo = OldestClaimable,
                    !.claimed = [e \in Events |-> IF e \in OldestClaimable
                                                  THEN row[e].gen + 1 ELSE 0]]]
  /\ UNCHANGED <<delivery, dispatched, refused, faults>>

(* A mistake: the lease columns stay as they are *)
ReleasedWithOwner(r, status, due) == [r EXCEPT !.status = status, !.due = due]

(* Every write that ends a lease clears its owner and keeps its generation *)
Released(r, status, due) ==
  [status |-> status, owner |-> NoConsumer, gen |-> r.gen, lease |-> "none", due |-> due]

(* A mistake: fencing by the status of the row only *)
FencedByStatus(e, c) == row[e].status = "publishing"

(* The fencing condition of every write of a consumer.                     *)
Fenced(e, c) ==
  /\ row[e].status = "publishing"
  /\ row[e].owner = c
  /\ row[e].gen = con[c].claimed[e]

(* The consumer is done with its row, for better or worse.                 *)
NextRow(c) ==
  con' = [con EXCEPT ![c].pc = "next", ![c].cur = NoEvent, ![c].left = {},
                     ![c].seen = [t \in Targets |-> 0]]

(* The rows of a batch come in no particular order.                        *)
BeginRow(c, e) ==
  /\ con[c].pc = "next" /\ e \in con[c].todo
  /\ con' = [con EXCEPT ![c].pc = "list", ![c].cur = e, ![c].todo = @ \ {e}]
  /\ UNCHANGED <<row, delivery, dispatched, refused, faults>>

EndBatch(c) ==
  /\ con[c].pc = "next" /\ con[c].todo = {}
  /\ con' = [con EXCEPT ![c] = Idle]
  /\ UNCHANGED <<row, delivery, dispatched, refused, faults>>

(* list_deliveries: everything but the succeeded ones will be delivered    *)
ListDeliveries(c) ==
  LET e == con[c].cur
      left == {t \in TargetsFor(e) : delivery[e][t].status # "succeeded"}
  IN /\ con[c].pc = "list"
     /\ con' = [con EXCEPT ![c].pc = IF left = {} THEN "finalize" ELSE "deliver",
                           ![c].left = left,
                           ![c].seen = [t \in Targets |-> delivery[e][t].attempts]]
     /\ UNCHANGED <<row, delivery, dispatched, refused, faults>>

(* ORDER BY target                                                         *)
Rank == [t \in Targets |-> CASE t = "internal_event_log" -> 1
                             [] t = "summary_projection" -> 2
                             [] OTHER -> 3]

IsNext(t, c) == t \in con[c].left /\ \A u \in con[c].left : Rank[t] <= Rank[u]

(* To the next delivery of the row, or to its end                          *)
DeliveryDone(c, t) ==
  con' = [con EXCEPT ![c].left = @ \ {t},
                     ![c].pc = IF con[c].left = {t} THEN "finalize" ELSE "deliver"]

Marked(e, t, status) ==
  [delivery EXCEPT ![e][t] = [status |-> status, attempts |-> delivery[e][t].attempts + 1]]

(* A mistake: the side effect commits in a transaction of its own before the mark *)
DeliverUnmarked(c, t) ==
  LET e == con[c].cur IN
  /\ con[c].pc = "deliver" /\ IsNext(t, c)
  /\ dispatched' = [dispatched EXCEPT ![e][t] = dispatched[e][t] + 1]
  /\ IF Fenced(e, c)
     THEN delivery' = Marked(e, t, "succeeded") /\ DeliveryDone(c, t)
     ELSE NextRow(c) /\ UNCHANGED delivery
  /\ UNCHANGED <<row, refused, faults>>

(* The side effect and the mark are one transaction: a refused mark rolls  *)
(* the side effect back, and the consumer leaves the row.                  *)
Deliver(c, t) ==
  LET e == con[c].cur IN
  /\ con[c].pc = "deliver" /\ IsNext(t, c)
  /\ IF Fenced(e, c)
     THEN /\ dispatched' = [dispatched EXCEPT ![e][t] = dispatched[e][t] + 1]
          /\ delivery' = Marked(e, t, "succeeded")
          /\ DeliveryDone(c, t)
     ELSE NextRow(c) /\ UNCHANGED <<dispatched, delivery>>
  /\ UNCHANGED <<row, refused, faults>>

(* The target raises and the transaction rolls back ...                    *)
DispatchFails(c) ==
  /\ con[c].pc = "deliver"
  /\ con' = [con EXCEPT ![c].pc = "failed"]
  /\ UNCHANGED <<row, delivery, dispatched, refused, faults>>

(* ... and a transaction of its own notes the failure.  Whether it was the *)
(* last attempt is decided from the count list_deliveries read.            *)
FailureStatus(c, t) ==
  IF con[c].seen[t] + 1 >= MaxAttempts THEN "dead_letter" ELSE "retry_wait"

MarkFailed(c, t) ==
  LET e == con[c].cur IN
  /\ con[c].pc = "failed" /\ IsNext(t, c)
  /\ IF Fenced(e, c)
     THEN delivery' = Marked(e, t, FailureStatus(c, t)) /\ DeliveryDone(c, t)
     ELSE NextRow(c) /\ UNCHANGED delivery
  /\ UNCHANGED <<row, dispatched, refused, faults>>

SomeDelivery(e, statuses) == \E t \in TargetsFor(e) : delivery[e][t].status \in statuses

FinalStatus(e) ==
  IF SomeDelivery(e, {"dead_letter"}) THEN "dead_letter"
  ELSE IF SomeDelivery(e, {"pending", "retry_wait"}) THEN "retry_wait"
  ELSE "published"

Finalize(c) ==
  LET e == con[c].cur IN
  /\ con[c].pc = "finalize"
  /\ IF Fenced(e, c)
     THEN row' = [row EXCEPT ![e] = Released(row[e], FinalStatus(e),
                                            ~SomeDelivery(e, {"pending", "retry_wait"}))]
     ELSE UNCHANGED row
  /\ NextRow(c)
  /\ UNCHANGED <<delivery, dispatched, refused, faults>>

(* Anything else raises: the row is put back with a back-off.              *)
Uncaught(c) ==
  /\ con[c].pc \in {"list", "failed", "finalize"}
  /\ Fault
  /\ con' = [con EXCEPT ![c].pc = "reschedule"]
  /\ UNCHANGED <<row, delivery, dispatched, refused>>

Reschedule(c) ==
  LET e == con[c].cur IN
  /\ con[c].pc = "reschedule"
  /\ row' = IF Fenced(e, c)
            THEN [row EXCEPT ![e] = Released(row[e], "retry_wait", FALSE)] ELSE row
  /\ NextRow(c)
  /\ UNCHANGED <<delivery, dispatched, refused, faults>>

(* The process ends, by a crash or asked to stop, and is started again;    *)
(* its rows stay "publishing" until their leases expire.                   *)
StopConsumer(c) ==
  /\ con[c].pc # "idle"
  /\ Fault
  /\ con' = [con EXCEPT ![c] = Idle]
  /\ UNCHANGED <<row, delivery, dispatched, refused>>

(* heartbeat_batch: by owner and status, without the generation            *)
Renewed(c) == {e \in Events : con[c].claimed[e] # 0 /\ row[e].owner = c
                              /\ row[e].status = "publishing"}

Heartbeat(c) ==
  /\ \E e \in Renewed(c) : row[e].lease = "expired"
  /\ row' = [e \in Events |-> IF e \in Renewed(c) THEN [row[e] EXCEPT !.lease = "live"]
                              ELSE row[e]]
  /\ UNCHANGED <<delivery, dispatched, refused, con, faults>>

(* ---- time and the scheduler ------------------------------------------- *)

(* A batch that is being processed loses a lease only when its heartbeats  *)
(* fail or stall; the lease of a stopped consumer runs out.                *)
LeaseExpires(e) ==
  /\ row[e].lease = "live"
  /\ IF \E c \in Consumers : e \in Renewed(c) THEN Fault ELSE UNCHANGED faults
  /\ row' = [row EXCEPT ![e].lease = "expired"]
  /\ UNCHANGED <<delivery, dispatched, refused, con>>

Expired == {e \in Events : row[e].status = "publishing" /\ row[e].lease = "expired"}

RecoverExpiredLeases ==
  /\ Expired # {}
  /\ row' = [e \in Events |->
               IF e \in Expired THEN Released(row[e], "retry_wait", TRUE) ELSE row[e]]
  /\ UNCHANGED <<delivery, dispatched, refused, con, faults>>

BackoffElapses(e) ==
  /\ ~row[e].due
  /\ row' = [row EXCEPT ![e].due = TRUE]
  /\ UNCHANGED <<delivery, dispatched, refused, con, faults>>

(* What a consumer does in the course of one batch, unless it fails        *)
Work(c) ==
  \/ \E e \in Events : BeginRow(c, e)
  \/ EndBatch(c) \/ ListDeliveries(c) \/ DispatchFails(c)
  \/ \E t \in Targets : Deliver(c, t) \/ MarkFailed(c, t)
  \/ Finalize(c) \/ Reschedule(c)

Next ==
  \/ \E e \in Events : InsertEvent(e) \/ LeaseExpires(e) \/ BackoffElapses(e)
  \/ \E c \in Consumers :
       ClaimBatch(c) \/ Work(c) \/ Uncaught(c) \/ StopConsumer(c) \/ Heartbeat(c)
  \/ RecoverExpiredLeases

Spec == Init /\ [][Next]_vars

(* The poll loops run for ever, the scheduler recovers leases, time goes   *)
(* on.  A consumer that is not stopped comes to the end of its batch.      *)
Fairness ==
  /\ WF_vars(\E c \in Consumers : ClaimBatch(c))
  /\ \A c \in Consumers : WF_vars(Work(c))
  /\ \A e \in Events : WF_vars(LeaseExpires(e)) /\ WF_vars(BackoffElapses(e))
  /\ WF_vars(RecoverExpiredLeases)

FairSpec == Spec /\ Fairness

-----------------------------------------------------------------------------
(* Type correctness, with the lease columns: a row has an owner and a      *)
(* lease exactly while it is "publishing".                                 *)
TypeOK ==
  /\ row \in [Events -> Row]
  /\ delivery \in [Events -> [Targets -> Delivery]]
  /\ dispatched \in [Events -> [Targets -> Nat]]
  /\ refused \subseteq Events
  /\ con \in [Consumers -> Consumer]
  /\ faults \in 0..MaxFaults
  /\ \A e \in Events :
       /\ (row[e].status = "publishing") <=> (row[e].owner \in Consumers)
       /\ (row[e].status = "publishing") <=> (row[e].lease # "none")

(* The outbox as its readers see it.                                       *)
ReachedTargets == [e \in Events |-> {t \in Targets : dispatched[e][t] > 0}]

EventPhase ==
  [e \in Events |->
     CASE row[e].status = "absent"      -> "none"
       [] row[e].status = "published"   -> "published"
       [] row[e].status = "dead_letter" -> "dead"
       [] OTHER                         -> "open"]

Contract == INSTANCE OutboxContract
              WITH event <- EventPhase, reached <- ReachedTargets

(* Whatever consumers crash, lose their lease or answer late, a reader of  *)
(* the outbox sees the contract: an event is published only after the side *)
(* effect of each of its targets was committed, and a late consumer adds   *)
(* nothing to an event that was settled without it.                        *)
FollowsContract == Contract!ContractSpec

(* The delivery table is an exact ledger of the side effects: a target     *)
(* marked "succeeded" ran exactly once, any other not at all, although a   *)
(* consumer reads the table once and works from that copy to the end of    *)
(* the row.                                                                *)
LedgerExact ==
  \A e \in Events, t \in Targets :
    dispatched[e][t] = IF delivery[e][t].status = "succeeded" THEN 1 ELSE 0

(* A target that keeps failing is not tried for ever: a delivery is tried  *)
(* as often as its row allows, and once more at most for every lost lease, *)
(* stopped consumer or failing transaction, although whether an attempt    *)
(* was the last is decided from a count read earlier.                      *)
AttemptsBounded ==
  \A e \in Events : \A t \in TargetsFor(e) :
    delivery[e][t].attempts <= MaxAttempts + faults

(* Every stored event is settled, however often its targets fail and its   *)
(* consumers stop.                                                         *)
EventSettles ==
  \A e \in Events :
    row[e].status = "pending" ~> row[e].status \in {"published", "dead_letter"}

-----------------------------------------------------------------------------
(* What the code says and does not do.                                     *)

(* outbox.py: "the event is written in the same transaction as the         *)
(* commit": every commit has its event in the outbox.                      *)
EveryCommitHasItsEvent == refused = {}
=============================================================================
