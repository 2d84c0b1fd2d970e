----------------------- MODULE ConversationTurns_proofs -----------------------
(***************************************************************************)
(* Proofs about ConversationTurns for every number of turns, workers,      *)
(* publishers, job workers and faults.  The inductive invariant says what  *)
(* each row may be, given the thread, its outbox rows and what the memory  *)
(* knows; from it a step is one of the contract, or none.                  *)
(***************************************************************************)
EXTENDS ConversationTurns, TLAPS

(* What the row of turn "t" may be: AnswersWhole, and that nothing runs in *)
(* a thread that is deleted.                                               *)
Fits(t, x) ==
  /\ answers[t] = IF x.status = "completed" THEN 1 ELSE 0
  /\ (x.status = "completed") <=> (outbox[Evidence(t)].status # "absent")
  /\ ("assistant" \in x.messages \/ "answer.completed" \in x.events) => x.status = "completed"
  /\ "turn.failed" \in x.events => x.status = "failed"
  /\ t \in known => x.status = "completed"
  /\ thread # "active" => x.status \notin {"accepted", "running"}
  /\ thread = "deleted" => x.status \notin ActiveStatus /\ x.messages = {}

TurnsFit == \A t \in Turns : Fits(t, turn[t])

WorkerFits(x) ==
  x.pc # "idle" => /\ x.turn \in Turns
                   /\ x.pc = "ack" => turn[x.turn].status = "completed"

WorkersFit == \A w \in Workers : WorkerFits(worker[w])

(* A publisher is at rows that exist; what it is to mark has arrived.      *)
PublisherFits(x) ==
  /\ \A r \in x.todo : outbox[r].status # "absent"
  /\ x.pc \notin {"idle", "look"} => x.row \in Rows /\ outbox[x.row].status # "absent"
  /\ x.pc = "mark" => x.row[2] \in IF x.row[1] = "evidence" THEN known ELSE forgotten
  /\ x.pc = "skip" => x.row[1] = "evidence" /\ thread # "active"

PublishersFit == \A p \in Publishers : PublisherFits(pub[p])

(* Until the deletion begins what is delivered is known and nothing is to  *)
(* be withdrawn; then all that is known is, or was not delivered.          *)
RowsFit ==
  \A t \in Turns :
    /\ thread = "active" => /\ outbox[Deletion(t)].status = "absent"
                            /\ outbox[Evidence(t)].status = "delivered" => t \in known
    /\ thread # "active" /\ outbox[Evidence(t)].status # "absent" =>
         t \in undelivered \/ outbox[Deletion(t)].status # "absent"
    /\ outbox[Deletion(t)].status # "absent" => t \in known
    /\ outbox[Deletion(t)].status = "delivered" => t \in forgotten
    /\ thread = "deleted" => outbox[Deletion(t)].status \in {"absent", "delivered"}

JobFits == thread = "active" => job.status = "absent" /\ \A j \in JobWorkers : jobber[j] = 0

IInv == TypeOK /\ TurnsFit /\ WorkersFit /\ PublishersFit /\ RowsFit /\ JobFits

(* ---- types ------------------------------------------------------------ *)

TurnTypes ==
  /\ turn \in [Turns -> TurnRow]
  /\ \A s, t \in Turns : Active(s) /\ Active(t) => s = t

OutboxTypes ==
  /\ outbox \in [Rows -> OutboxRow]
  /\ \A r \in Rows :
       /\ (outbox[r].status = "processing") <=> (outbox[r].owner \in Publishers)
       /\ (outbox[r].status = "processing") <=> (outbox[r].lease # "none")

JobTypes ==
  /\ job \in JobRow
  /\ (job.status = "processing") <=> (job.owner \in JobWorkers)
  /\ jobber \in [JobWorkers -> 0..JobMaxAttempts]

OtherTypes ==
  /\ thread \in {"active", "deleting", "deleted"}
  /\ answers \in [Turns -> Nat]
  /\ ckpt \in [Turns -> {"none", "open", "ended"}]
  /\ worker \in [Workers -> WorkerState]
  /\ cancel \in [Turns -> {"none", "accepted", "running"}]
  /\ pub \in [Publishers -> PublisherState]
  /\ known \subseteq Turns /\ forgotten \subseteq Turns /\ undelivered \subseteq Turns
  /\ faults \in 0..MaxFaults

LEMMA TypeParts == TypeOK <=> TurnTypes /\ OutboxTypes /\ JobTypes /\ OtherTypes
BY Zenon DEF TypeOK, TurnTypes, OutboxTypes, JobTypes, OtherTypes

LEMMA TypePartsNext ==
  TurnTypes' /\ OutboxTypes' /\ JobTypes' /\ OtherTypes' => TypeOK'
BY DEF TypeOK, TurnTypes, OutboxTypes, JobTypes, OtherTypes

(* There are two rows for each turn. *)
LEMMA TwoRows ==
  /\ \A t \in Turns : /\ Evidence(t) \in Rows /\ Deletion(t) \in Rows
                      /\ Evidence(t)[1] = "evidence" /\ Evidence(t)[2] = t
                      /\ Deletion(t)[1] = "deletion" /\ Deletion(t)[2] = t
  /\ \A r \in Rows : /\ r[2] \in Turns
                     /\ r = Evidence(r[2]) \/ r = Deletion(r[2])
                     /\ r[1] = "evidence" <=> r = Evidence(r[2])
                     /\ r[1] = "evidence" \/ r[1] = "deletion"
BY DEF Rows, Evidence, Deletion

LEMMA OneMoreType ==
  ASSUME NEW limit \in Nat \ {0}, NEW n \in 0..limit
  PROVE  OneMore(n, limit) \in 0..limit
BY DEF OneMore

LEMMA InitIInv == Init => IInv
<1> SUFFICES ASSUME Init PROVE IInv  OBVIOUS
<1> USE TurnsAssumption
<1>1. TurnTypes
  BY DEF Init, TurnTypes, TurnRow, Leases, Active, ActiveStatus
<1>2. OutboxTypes  BY DEF Init, OutboxTypes, OutboxRow, Leases
<1>3. JobTypes  BY DEF Init, JobTypes, JobRow, NoJob, Leases
<1>4. OtherTypes
  BY DEF Init, OtherTypes, WorkerState, PublisherState, IdleWorker, IdlePublisher
<1>5. TurnsFit  BY TwoRows DEF Init, TurnsFit, Fits
<1>6. WorkersFit /\ PublishersFit
  BY DEF Init, WorkersFit, WorkerFits, PublishersFit, PublisherFits, IdleWorker, IdlePublisher
<1>7. RowsFit /\ JobFits  BY TwoRows DEF Init, RowsFit, JobFits, NoJob
<1> QED  BY <1>1, <1>2, <1>3, <1>4, <1>5, <1>6, <1>7, TypeParts DEF IInv

(* ---- what keeps the invariant ------------------------------------------ *)

(* Workers go idle, claim or go on with a turn; none goes to MEMORYACK.    *)
WorkersMove ==
  /\ worker' \in [Workers -> WorkerState]
  /\ \A w \in Workers :
       \/ worker'[w] = worker[w]
       \/ worker'[w].pc # "ack" /\ (worker'[w].pc # "idle" => worker'[w].turn \in Turns)

LEMMA MoveOne ==
  ASSUME IInv, NEW w \in Workers, NEW x \in WorkerState, worker' = [worker EXCEPT ![w] = x],
         x.pc # "ack", x.pc # "idle" => x.turn \in Turns
  PROVE  WorkersMove
BY TypeParts DEF IInv, OtherTypes, WorkersMove

LEMMA MoveNone == IInv /\ UNCHANGED worker => WorkersMove
BY TypeParts DEF IInv, OtherTypes, WorkersMove

LEMMA WorkersKept ==
  ASSUME IInv, WorkersMove,
         \A t \in Turns : turn[t].status = "completed" => turn'[t].status = "completed"
  PROVE  WorkersFit'
BY DEF IInv, WorkersFit, WorkerFits, WorkersMove

(* The row of one turn changes, and what concerns workers. *)
LEMMA TurnStep ==
  ASSUME IInv, NEW t \in Turns, NEW x \in TurnRow, turn' = [turn EXCEPT ![t] = x],
         Fits(t, x), x.status \in ActiveStatus => Active(t) \/ Quiet,
         turn[t].status = "completed" => x.status = "completed",
         WorkersMove, ckpt' \in [Turns -> {"none", "open", "ended"}],
         cancel' \in [Turns -> {"none", "accepted", "running"}], faults' \in 0..MaxFaults,
         UNCHANGED <<answers, deliveryVars, deletionVars>>
  PROVE  IInv'
<1> USE DEF deliveryVars, deletionVars
<1>1. turn \in [Turns -> TurnRow]  BY TypeParts DEF IInv, TurnTypes
<1>2. \A s \in Turns : turn'[s] = IF s = t THEN x ELSE turn[s]  BY <1>1
<1>3. TurnTypes'
  <2>1. turn' \in [Turns -> TurnRow]  BY <1>1
  <2>2. \A r, s \in Turns : Active(r)' /\ Active(s)' => r = s
    <3>1. \A r, s \in Turns : Active(r) /\ Active(s) => r = s
      BY TypeParts DEF IInv, TurnTypes
    <3> QED  BY <1>2, <3>1 DEF Active, Quiet
  <2> QED  BY <2>1, <2>2 DEF TurnTypes, Active
<1>4. OutboxTypes' /\ JobTypes'
  BY TypeParts DEF IInv, OutboxTypes, JobTypes
<1>5. OtherTypes'  BY TypeParts DEF IInv, OtherTypes, WorkersMove
<1>6. TurnsFit'  BY <1>2 DEF IInv, TurnsFit, Fits
<1>7. WorkersFit'  BY <1>2, WorkersKept
<1>8. PublishersFit' /\ RowsFit' /\ JobFits'
  BY DEF IInv, PublishersFit, PublisherFits, RowsFit, JobFits
<1> QED  BY <1>3, <1>4, <1>5, <1>6, <1>7, <1>8, TypePartsNext DEF IInv

(* Only what concerns workers changes. *)
LEMMA TurnSame ==
  ASSUME IInv, WorkersMove, ckpt' \in [Turns -> {"none", "open", "ended"}],
         cancel' \in [Turns -> {"none", "accepted", "running"}], faults' \in 0..MaxFaults,
         UNCHANGED <<turn, answers, deliveryVars, deletionVars>>
  PROVE  IInv'
<1> USE DEF deliveryVars, deletionVars
<1>1. TurnTypes' /\ OutboxTypes' /\ JobTypes' /\ OtherTypes'
  BY TypeParts DEF IInv, TurnTypes, OutboxTypes, JobTypes, OtherTypes, Active, WorkersMove
<1>2. TurnsFit'  BY DEF IInv, TurnsFit, Fits
<1>3. WorkersFit'  BY WorkersKept
<1>4. PublishersFit' /\ RowsFit' /\ JobFits'
  BY DEF IInv, PublishersFit, PublisherFits, RowsFit, JobFits
<1> QED  BY <1>1, <1>2, <1>3, <1>4, TypePartsNext DEF IInv

(* Rows of the outbox that are there change, are delivered when they have  *)
(* arrived or because the thread is deleted, and stay so.                  *)
LEMMA DeliveryStep ==
  ASSUME IInv, OutboxTypes', turn' \in [Turns -> TurnRow],
         \A t \in Turns : /\ turn'[t].status = turn[t].status
                          /\ turn'[t].messages = turn[t].messages
                          /\ turn'[t].events = turn[t].events,
         \A r \in Rows : /\ (outbox'[r].status = "absent") <=> (outbox[r].status = "absent")
                         /\ outbox[r].status = "delivered" => outbox'[r].status = "delivered",
         \A t \in Turns :
           /\ outbox'[Evidence(t)].status = "delivered" =>
                outbox[Evidence(t)].status = "delivered" \/ t \in known' \/ thread # "active"
           /\ outbox'[Deletion(t)].status = "delivered" =>
                outbox[Deletion(t)].status = "delivered" \/ t \in forgotten',
         known \subseteq known', forgotten \subseteq forgotten', forgotten' \subseteq Turns,
         \A t \in known' : t \in Turns /\ outbox[Evidence(t)].status # "absent",
         pub' \in [Publishers -> PublisherState],
         \A p \in Publishers : pub'[p] = pub[p] \/ PublisherFits(pub[p])',
         WorkersMove, faults' \in 0..MaxFaults,
         UNCHANGED <<answers, ckpt, cancel, deletionVars>>
  PROVE  IInv'
<1> USE DEF deletionVars
<1>1. TurnTypes'  BY TypeParts DEF IInv, TurnTypes, Active
<1>2. JobTypes' /\ OtherTypes'
  BY TypeParts DEF IInv, JobTypes, OtherTypes, WorkersMove
<1>3. TurnsFit'
  <2> SUFFICES ASSUME NEW t \in Turns PROVE Fits(t, turn[t])'  BY DEF TurnsFit
  <2>1. Fits(t, turn[t]) /\ Evidence(t) \in Rows  BY TwoRows DEF IInv, TurnsFit
  <2> QED  BY <2>1 DEF Fits, Evidence
<1>4. WorkersFit'  BY WorkersKept
<1>5. PublishersFit'
  <2> SUFFICES ASSUME NEW p \in Publishers PROVE PublisherFits(pub[p])'  BY DEF PublishersFit
  <2>1. CASE pub'[p] = pub[p]
    <3>1. PublisherFits(pub[p])  BY DEF IInv, PublishersFit
    <3>2. pub[p].todo \subseteq Rows  BY TypeParts DEF IInv, OtherTypes, PublisherState
    <3> QED  BY <2>1, <3>1, <3>2 DEF PublisherFits
  <2>2. CASE pub'[p] # pub[p]  BY <2>2
  <2> QED  BY <2>1, <2>2
<1>6. RowsFit'
  <2> SUFFICES ASSUME NEW t \in Turns
               PROVE  /\ thread = "active" =>
                          /\ outbox'[Deletion(t)].status = "absent"
                          /\ outbox'[Evidence(t)].status = "delivered" => t \in known'
                      /\ thread # "active" /\ outbox'[Evidence(t)].status # "absent" =>
                           t \in undelivered \/ outbox'[Deletion(t)].status # "absent"
                      /\ outbox'[Deletion(t)].status # "absent" => t \in known'
                      /\ outbox'[Deletion(t)].status = "delivered" => t \in forgotten'
                      /\ thread = "deleted" =>
                           outbox'[Deletion(t)].status \in {"absent", "delivered"}
    BY DEF RowsFit, Evidence, Deletion
  <2>1. Evidence(t) \in Rows /\ Deletion(t) \in Rows  BY TwoRows
  <2> QED  BY <2>1 DEF IInv, RowsFit
<1>7. JobFits'  BY DEF IInv, JobFits
<1> QED  BY <1>1, <1>2, <1>3, <1>4, <1>5, <1>6, <1>7, TypePartsNext DEF IInv

(* Only the job changes, which there is only when the deletion has begun.  *)
LEMMA JobStep ==
  ASSUME IInv, JobTypes', thread # "active", faults' \in 0..MaxFaults,
         UNCHANGED <<turnVars, deliveryVars, thread, undelivered>>
  PROVE  IInv'
<1> USE DEF turnVars, deliveryVars
<1>1. TurnTypes' /\ OutboxTypes' /\ OtherTypes'
  BY TypeParts DEF IInv, TurnTypes, OutboxTypes, OtherTypes, Active
<1>2. TurnsFit' /\ WorkersFit'  BY DEF IInv, TurnsFit, Fits, WorkersFit, WorkerFits
<1>3. PublishersFit' /\ RowsFit' /\ JobFits'
  BY DEF IInv, PublishersFit, PublisherFits, RowsFit, JobFits
<1> QED  BY <1>1, <1>2, <1>3, TypePartsNext DEF IInv
(* ---- the API and the graph workers ------------------------------------- *)

LEMMA Parts ==
  ASSUME IInv
  PROVE  /\ turn \in [Turns -> TurnRow] /\ \A t \in Turns : turn[t] \in TurnRow
         /\ worker \in [Workers -> WorkerState] /\ \A w \in Workers : worker[w] \in WorkerState
         /\ ckpt \in [Turns -> {"none", "open", "ended"}]
         /\ cancel \in [Turns -> {"none", "accepted", "running"}]
         /\ faults \in 0..MaxFaults
         /\ \A t \in Turns : Fits(t, turn[t])
         /\ \A w \in Workers : worker[w].pc # "idle" => worker[w].turn \in Turns
BY TypeParts DEF IInv, TurnTypes, OtherTypes, TurnsFit, WorkersFit, WorkerFits

LEMMA FaultType == ASSUME IInv, Fault PROVE faults' \in 0..MaxFaults
BY Parts, TurnsAssumption DEF Fault

LEMMA UserSteps ==
  ASSUME IInv, NEW t \in Turns
  PROVE  /\ CreateTurn(t) => IInv'
         /\ CancelRead(t) => IInv'
         /\ CancelAccepted(t) => IInv'
         /\ CancelRunning(t) => IInv'
<1>0. turn[t] \in TurnRow /\ Fits(t, turn[t])  BY Parts
<1>1. ASSUME CreateTurn(t) PROVE IInv'
  <2> DEFINE x == [turn[t] EXCEPT !.status = "accepted", !.messages = {"user"}]
  <2>1. turn' = [turn EXCEPT ![t] = x]  BY <1>0, <1>1, Parts DEF CreateTurn
  <2>2. /\ x \in TurnRow /\ x.status = "accepted" /\ x.messages = {"user"}
        /\ x.events = turn[t].events
    BY <1>0 DEF TurnRow, ActiveStatus
  <2> HIDE DEF x
  <2>3. Fits(t, x)  BY <1>0, <1>1, <2>2 DEF Fits, CreateTurn
  <2>4. Quiet  BY <1>1 DEF CreateTurn, Quiet
  <2> QED  BY <1>1, <2>1, <2>2, <2>3, <2>4, MoveNone, Parts, TurnStep DEF CreateTurn
<1>2. ASSUME CancelRead(t) PROVE IInv'
  <2>1. cancel' \in [Turns -> {"none", "accepted", "running"}]
    BY <1>2, Parts DEF CancelRead
  <2> QED  BY <1>2, <2>1, MoveNone, Parts, TurnSame DEF CancelRead
<1>3. ASSUME CancelAccepted(t) PROVE IInv'
  <2> DEFINE x == [turn[t] EXCEPT !.status = IF @ = "accepted" THEN "cancelled" ELSE @,
                                  !.events = @ \union {"turn.cancelled"}]
  <2>1. turn' = [turn EXCEPT ![t] = x]  BY <1>0, <1>3, Parts DEF CancelAccepted
  <2>2. /\ x \in TurnRow /\ x.messages = turn[t].messages
        /\ x.events = turn[t].events \union {"turn.cancelled"}
        /\ x.status = IF turn[t].status = "accepted" THEN "cancelled" ELSE turn[t].status
    BY <1>0 DEF TurnRow, ActiveStatus
  <2> HIDE DEF x
  <2>3. Fits(t, x) /\ (x.status \in ActiveStatus => Active(t))
    BY <1>0, <2>2 DEF Fits, Active, ActiveStatus
  <2>4. cancel' \in [Turns -> {"none", "accepted", "running"}]
    BY <1>3, Parts DEF CancelAccepted
  <2> QED  BY <1>3, <2>1, <2>2, <2>3, <2>4, MoveNone, Parts, TurnStep DEF CancelAccepted
<1>4. ASSUME CancelRunning(t) PROVE IInv'
  <2> DEFINE x == [turn[t] EXCEPT !.status = IF @ = "running" THEN "cancelling" ELSE @]
  <2>1. turn' = [turn EXCEPT ![t] = x]  BY <1>0, <1>4, Parts DEF CancelRunning
  <2>2. /\ x \in TurnRow /\ x.messages = turn[t].messages /\ x.events = turn[t].events
        /\ x.status = IF turn[t].status = "running" THEN "cancelling" ELSE turn[t].status
    BY <1>0 DEF TurnRow, ActiveStatus
  <2> HIDE DEF x
  <2>3. Fits(t, x) /\ (x.status \in ActiveStatus => Active(t))
    BY <1>0, <2>2 DEF Fits, Active, ActiveStatus
  <2>4. cancel' \in [Turns -> {"none", "accepted", "running"}]
    BY <1>4, Parts DEF CancelRunning
  <2> QED  BY <1>4, <2>1, <2>2, <2>3, <2>4, MoveNone, Parts, TurnStep DEF CancelRunning
<1> QED  BY <1>1, <1>2, <1>3, <1>4

LEMMA WorkerSteps ==
  ASSUME IInv, NEW w \in Workers
  PROVE  /\ \A t \in Turns : ClaimTurn(w, t) => IInv'
         /\ \A t \in Turns : ReclaimCancelling(w, t) => IInv'
         /\ StartGraph(w) => IInv'
         /\ GraphStep(w) => IInv'
         /\ FencedOut(w) => IInv'
         /\ ExecutionRaises(w) => IInv'
         /\ CrashWorker(w) => IInv'
         /\ \A t \in Turns : Heartbeat(w, t) => IInv'
<1>0. /\ \A t \in Turns : turn[t] \in TurnRow /\ Fits(t, turn[t])
      /\ worker[w] \in WorkerState /\ IdleWorker \in WorkerState
      /\ worker[w].pc # "idle" => worker[w].turn \in Turns
  BY Parts, TurnsAssumption DEF IdleWorker, WorkerState
<1>1. ASSUME NEW t \in Turns, ClaimTurn(w, t) PROVE IInv'
  <2> DEFINE attempt == OneMore(turn[t].attempts, TurnMaxAttempts)
             x == [turn[t] EXCEPT !.status = "running", !.owner = w, !.lease = "live",
                                  !.attempts = attempt]
             y == [pc |-> "claimed", turn |-> t, attempt |-> attempt]
  <2>1. turn' = [turn EXCEPT ![t] = x] /\ worker' = [worker EXCEPT ![w] = y]
    BY <1>0, <1>1, Parts DEF ClaimTurn
  <2>2. attempt \in 0..TurnMaxAttempts
    BY <1>0, OneMoreType, TurnsAssumption DEF TurnRow
  <2> HIDE DEF attempt
  <2>3. /\ x \in TurnRow /\ x.messages = turn[t].messages /\ x.events = turn[t].events
        /\ x.status = "running"
    <3>1. turn[t] \in TurnRow  BY <1>0
    <3> QED  BY <2>2, <3>1 DEF TurnRow, ActiveStatus, Leases
  <2>4. y \in WorkerState /\ y.pc = "claimed" /\ y.turn = t  BY <2>2 DEF WorkerState
  <2> HIDE DEF x, y
  <2>5. turn[t].status \in {"accepted", "running"}
    BY <1>0, <1>1 DEF ClaimTurn, Claimable
  <2>6. Fits(t, x) /\ Active(t)  BY <1>0, <2>3, <2>5 DEF Fits, Active, ActiveStatus
  <2>7. WorkersMove  BY <2>1, <2>4, MoveOne
  <2> QED  BY <1>1, <2>1, <2>3, <2>5, <2>6, <2>7, Parts, TurnStep DEF ClaimTurn
<1>2. ASSUME NEW t \in Turns, ReclaimCancelling(w, t) PROVE IInv'
  <2> DEFINE x == [turn[t] EXCEPT !.status = "cancelled"]
  <2>1. turn' = [turn EXCEPT ![t] = x]  BY <1>0, <1>2, Parts DEF ReclaimCancelling
  <2>2. /\ x \in TurnRow /\ x.messages = turn[t].messages /\ x.events = turn[t].events
        /\ x.status = "cancelled"
    BY <1>0 DEF TurnRow, ActiveStatus
  <2> HIDE DEF x
  <2>3. turn[t].status = "cancelling"  BY <1>2 DEF ReclaimCancelling
  <2>4. Fits(t, x) /\ x.status \notin ActiveStatus
    BY <1>0, <2>2, <2>3 DEF Fits, ActiveStatus
  <2> QED  BY <1>2, <2>1, <2>2, <2>3, <2>4, MoveNone, Parts, TurnStep DEF ReclaimCancelling
<1>i. ASSUME worker' = [worker EXCEPT ![w] = IdleWorker] PROVE WorkersMove
  <2>1. IdleWorker.pc = "idle"  BY DEF IdleWorker
  <2> QED  BY <1>0, <1>i, <2>1, MoveOne
<1>3. ASSUME StartGraph(w) PROVE IInv'
  <2>1. CASE ckpt[worker[w].turn] = "ended"
    BY <1>3, <1>i, <2>1, Parts, TurnSame DEF StartGraph
  <2>2. CASE ckpt[worker[w].turn] # "ended"
    <3> DEFINE y == [worker[w] EXCEPT !.pc = "run"]
    <3>1. worker' = [worker EXCEPT ![w] = y]  BY <1>3, <2>2, Parts DEF StartGraph
    <3>2. y \in WorkerState /\ y.pc = "run" /\ y.turn = worker[w].turn
      BY <1>0 DEF WorkerState
    <3>3. y.turn \in Turns  BY <1>0, <1>3, <3>2 DEF StartGraph
    <3> HIDE DEF y
    <3>4. WorkersMove  BY <3>1, <3>2, <3>3, MoveOne
    <3> QED  BY <1>3, <3>4, Parts, TurnSame DEF StartGraph
  <2> QED  BY <2>1, <2>2
<1>4. ASSUME GraphStep(w) PROVE IInv'
  BY <1>4, MoveNone, Parts, TurnSame DEF GraphStep
<1>5. ASSUME FencedOut(w) PROVE IInv'
  BY <1>5, <1>i, Parts, TurnSame DEF FencedOut
<1>6. ASSUME ExecutionRaises(w) PROVE IInv'
  <2> DEFINE t == worker[w].turn
  <2>0. t \in Turns  BY <1>0, <1>6 DEF ExecutionRaises
  <2>1. CASE UNCHANGED turn
    BY <1>6, <1>i, <2>1, Parts, TurnSame DEF ExecutionRaises
  <2>2. CASE /\ turn[t].status = "running"
             /\ turn' = [turn EXCEPT ![t].status = "failed",
                                     ![t].events = @ \union {"turn.failed"}]
    <3> DEFINE x == [turn[t] EXCEPT !.status = "failed", !.events = @ \union {"turn.failed"}]
    <3>1. turn' = [turn EXCEPT ![t] = x]  BY <2>0, <2>2, Parts
    <3>2. /\ x \in TurnRow /\ x.messages = turn[t].messages /\ x.status = "failed"
          /\ x.events = turn[t].events \union {"turn.failed"}
      <4> DEFINE events == turn[t].events \union {"turn.failed"}
      <4>1. turn[t] \in TurnRow  BY <1>0, <2>0
      <4>2. events \in SUBSET {"answer.completed", "turn.failed", "turn.cancelled"}
        BY <4>1 DEF TurnRow
      <4>3. x = [turn[t] EXCEPT !.status = "failed", !.events = events]
        BY <4>1 DEF TurnRow
      <4> HIDE DEF events, x
      <4>4. /\ x \in TurnRow /\ x.messages = turn[t].messages /\ x.status = "failed"
            /\ x.events = events
        BY <4>1, <4>2, <4>3 DEF TurnRow
      <4> QED  BY <4>4 DEF events
    <3> HIDE DEF x
    <3>3. Fits(t, x) /\ x.status \notin ActiveStatus
      BY <1>0, <2>0, <2>2, <3>2 DEF Fits, ActiveStatus
    <3>4. WorkersMove  BY <1>6, <1>i DEF ExecutionRaises
    <3> QED
      BY <1>6, <2>0, <2>2, <3>1, <3>2, <3>3, <3>4, Parts, TurnStep DEF ExecutionRaises
  <2> QED  BY <1>6, <2>1, <2>2 DEF ExecutionRaises, Holds
<1>7. ASSUME CrashWorker(w) PROVE IInv'
  BY <1>7, <1>i, FaultType, Parts, TurnSame DEF CrashWorker
<1>8. ASSUME NEW t \in Turns, Heartbeat(w, t) PROVE IInv'
  <2> DEFINE x == [turn[t] EXCEPT !.lease = "live"]
  <2>1. turn' = [turn EXCEPT ![t] = x]  BY <1>0, <1>8, Parts DEF Heartbeat
  <2>2. /\ x \in TurnRow /\ x.messages = turn[t].messages /\ x.events = turn[t].events
        /\ x.status = turn[t].status
    BY <1>0 DEF TurnRow, Leases
  <2> HIDE DEF x
  <2>3. Fits(t, x) /\ (x.status \in ActiveStatus => Active(t))
    BY <1>0, <2>2 DEF Fits, Active
  <2> QED  BY <1>8, <2>1, <2>2, <2>3, MoveNone, Parts, TurnStep DEF Heartbeat
<1> QED  BY <1>1, <1>2, <1>3, <1>4, <1>5, <1>6, <1>7, <1>8

LEMMA ExpireStep == ASSUME IInv, NEW t \in Turns, TurnLeaseExpires(t) PROVE IInv'
<1>0. turn[t] \in TurnRow /\ Fits(t, turn[t])  BY Parts
<1> DEFINE x == [turn[t] EXCEPT !.lease = "expired"]
<1>1. turn' = [turn EXCEPT ![t] = x]  BY <1>0, Parts DEF TurnLeaseExpires
<1>2. /\ x \in TurnRow /\ x.messages = turn[t].messages /\ x.events = turn[t].events
      /\ x.status = turn[t].status
  BY <1>0 DEF TurnRow, Leases
<1> HIDE DEF x
<1>3. Fits(t, x) /\ (x.status \in ActiveStatus => Active(t))
  BY <1>0, <1>2 DEF Fits, Active
<1>4. faults' \in 0..MaxFaults  BY FaultType, Parts DEF TurnLeaseExpires
<1> QED  BY <1>1, <1>2, <1>3, <1>4, MoveNone, Parts, TurnStep DEF TurnLeaseExpires
(* ---- answers ----------------------------------------------------------- *)

LEMMA RowParts ==
  ASSUME IInv
  PROVE  /\ outbox \in [Rows -> OutboxRow] /\ \A r \in Rows : outbox[r] \in OutboxRow
         /\ \A r \in Rows :
               /\ (outbox[r].status = "processing") <=> (outbox[r].owner \in Publishers)
               /\ (outbox[r].status = "processing") <=> (outbox[r].lease # "none")
         /\ pub \in [Publishers -> PublisherState]
         /\ \A p \in Publishers : pub[p] \in PublisherState /\ PublisherFits(pub[p])
         /\ known \subseteq Turns /\ forgotten \subseteq Turns
         /\ \A t \in known : t \in Turns /\ outbox[Evidence(t)].status # "absent"
         /\ thread \in {"active", "deleting", "deleted"}
<1>1. \A t \in known : t \in Turns /\ outbox[Evidence(t)].status # "absent"
  BY TypeParts DEF IInv, OtherTypes, TurnsFit, Fits
<1> QED  BY <1>1, TypeParts DEF IInv, OutboxTypes, OtherTypes, PublishersFit

(* One row of the outbox changes. *)
LEMMA RowSet ==
  ASSUME IInv, NEW r \in Rows, NEW x \in OutboxRow, outbox' = [outbox EXCEPT ![r] = x],
         (x.status = "processing") <=> (x.owner \in Publishers),
         (x.status = "processing") <=> (x.lease # "none")
  PROVE  /\ OutboxTypes'
         /\ \A s \in Rows : outbox'[s].status = IF s = r THEN x.status ELSE outbox[s].status
<1>1. \A s \in Rows : outbox'[s] = IF s = r THEN x ELSE outbox[s]
  BY RowParts
<1>2. outbox' \in [Rows -> OutboxRow]  BY RowParts
<1> QED  BY <1>1, <1>2, RowParts DEF OutboxTypes

(* A status that is not "processing" leaves owner and lease as they were.  *)
LEMMA StatusSet ==
  ASSUME IInv, NEW r \in Rows, outbox[r].status # "processing",
         NEW status \in {"pending", "retry_wait", "delivered", "dead_letter"}
  PROVE  LET x == [outbox[r] EXCEPT !.status = status]
         IN  /\ x \in OutboxRow /\ x.status = status
             /\ (x.status = "processing") <=> (x.owner \in Publishers)
             /\ (x.status = "processing") <=> (x.lease # "none")
BY RowParts DEF OutboxRow

LEMMA FinalizeStep == ASSUME IInv, NEW w \in Workers, Finalize(w) PROVE IInv'
<1> DEFINE t == worker[w].turn
<1>0. /\ t \in Turns /\ turn[t] \in TurnRow /\ Fits(t, turn[t]) /\ turn[t].status = "running"
      /\ Evidence(t) \in Rows
  BY Parts, TwoRows DEF Finalize, Holds
<1>1. thread = "active"  BY <1>0 DEF Fits
<1> DEFINE x == [turn[t] EXCEPT !.status = "completed", !.messages = @ \union {"assistant"},
                                !.events = @ \union {"answer.completed"}, !.memory = "pending"]
<1>2. /\ turn' = [turn EXCEPT ![t] = x]
      /\ answers' = [answers EXCEPT ![t] = @ + 1]
      /\ outbox' = [outbox EXCEPT ![Evidence(t)].status = "pending"]
      /\ ckpt' = [ckpt EXCEPT ![t] = "ended"]
      /\ UNCHANGED <<cancel, pub, known, forgotten, deletionVars, faults>>
  BY <1>0, <1>1, Parts DEF Finalize, WithEvidence
<1>3. /\ x \in TurnRow /\ x.status = "completed"
      /\ x.events = turn[t].events \union {"answer.completed"}
  BY <1>0 DEF TurnRow, ActiveStatus
<1> HIDE DEF x
<1>4. \A s \in Turns : turn'[s] = IF s = t THEN x ELSE turn[s]  BY <1>2, Parts
<1>5. outbox[Evidence(t)].status = "absent"  BY <1>0 DEF Fits
<1>6. /\ OutboxTypes'
      /\ \A s \in Rows :
            outbox'[s].status = IF s = Evidence(t) THEN "pending" ELSE outbox[s].status
  <2> DEFINE y == [outbox[Evidence(t)] EXCEPT !.status = "pending"]
  <2>1. outbox' = [outbox EXCEPT ![Evidence(t)] = y]  BY <1>0, <1>2, RowParts
  <2>2. /\ y \in OutboxRow /\ y.status = "pending"
        /\ (y.status = "processing") <=> (y.owner \in Publishers)
        /\ (y.status = "processing") <=> (y.lease # "none")
    BY <1>0, <1>5, StatusSet
  <2>3. Evidence(t) \in Rows  BY <1>0
  <2> HIDE DEF y, t
  <2>4. /\ OutboxTypes'
        /\ \A s \in Rows :
              outbox'[s].status = IF s = Evidence(t) THEN y.status ELSE outbox[s].status
    BY <2>1, <2>2, <2>3, RowSet
  <2> QED  BY <2>2, <2>4
<1>7. TurnTypes'
  <2>1. turn' \in [Turns -> TurnRow]  BY <1>2, <1>3, Parts
  <2>2. \A r, s \in Turns : Active(r) /\ Active(s) => r = s  BY TypeParts DEF IInv, TurnTypes
  <2>3. \A r \in Turns : Active(r)' => Active(r)
    BY <1>3, <1>4 DEF Active, ActiveStatus
  <2> QED  BY <2>1, <2>2, <2>3 DEF TurnTypes, Active
<1>8. JobTypes'  BY <1>2, TypeParts DEF IInv, JobTypes, deletionVars
<1>9. \E next \in {"ack", "idle"} :
        worker' = [worker EXCEPT ![w] = IF next = "ack" THEN [@ EXCEPT !.pc = "ack"]
                                        ELSE IdleWorker]
  BY <1>1 DEF Finalize
<1>10. /\ worker' \in [Workers -> WorkerState]
       /\ \A v \in Workers :
            \/ worker'[v] = worker[v]
            \/ worker'[v].pc = "idle"
            \/ worker'[v].turn = t
  <2>1. CASE worker' = [worker EXCEPT ![w] = IdleWorker]
    <3>1. IdleWorker \in WorkerState /\ IdleWorker.pc = "idle"
      BY TurnsAssumption DEF IdleWorker, WorkerState
    <3> QED  BY <2>1, <3>1, Parts
  <2>2. CASE worker' = [worker EXCEPT ![w].pc = "ack"]
    <3>1. [worker[w] EXCEPT !.pc = "ack"] \in WorkerState
          /\ [worker[w] EXCEPT !.pc = "ack"].turn = t
      BY Parts DEF WorkerState
    <3> QED  BY <2>2, <3>1, Parts
  <2> QED  BY <1>9, <2>1, <2>2
<1>11. OtherTypes'
  <2>1. answers \in [Turns -> Nat]  BY TypeParts DEF IInv, OtherTypes
  <2>2. answers' \in [Turns -> Nat]  BY <1>0, <1>2, <2>1
  <2>3. ckpt' \in [Turns -> {"none", "open", "ended"}]  BY <1>0, <1>2, Parts
  <2> QED  BY <1>2, <1>10, <2>2, <2>3, TypeParts DEF IInv, OtherTypes, deletionVars
<1>12. TurnsFit'
  <2> SUFFICES ASSUME NEW s \in Turns PROVE Fits(s, turn[s])'  BY DEF TurnsFit
  <2>1. CASE s = t
    <3>1. answers'[t] = 1
      <4>1. answers[t] = 0  BY <1>0 DEF Fits
      <4> QED  BY <1>0, <1>2, <4>1, TypeParts DEF IInv, OtherTypes
    <3>2. outbox'[Evidence(t)].status # "absent"  BY <1>0, <1>6
    <3>3. "turn.failed" \notin x.events  BY <1>0, <1>3 DEF Fits
    <3> QED
      BY <1>0, <1>1, <1>2, <1>3, <1>4, <2>1, <3>1, <3>2, <3>3
      DEF Fits, deletionVars, Evidence
  <2>2. CASE s # t
    <3>1. Fits(s, turn[s]) /\ Evidence(s) \in Rows /\ Evidence(s) # Evidence(t)
      BY <1>0, <2>2, Parts, TwoRows
    <3>2. answers'[s] = answers[s] /\ outbox'[Evidence(s)].status = outbox[Evidence(s)].status
      BY <1>2, <1>6, <2>2, <3>1, TypeParts DEF IInv, OtherTypes
    <3> QED
      BY <1>1, <1>2, <1>4, <2>2, <3>1, <3>2 DEF Fits, deletionVars, Evidence
  <2> QED  BY <2>1, <2>2
<1>13. WorkersFit'
  <2> SUFFICES ASSUME NEW v \in Workers PROVE WorkerFits(worker[v])'  BY DEF WorkersFit
  <2>1. WorkerFits(worker[v])  BY DEF IInv, WorkersFit
  <2> QED  BY <1>0, <1>3, <1>4, <1>10, <2>1 DEF WorkerFits
<1>14. PublishersFit'
  <2> SUFFICES ASSUME NEW p \in Publishers PROVE PublisherFits(pub[p])'  BY DEF PublishersFit
  <2>1. PublisherFits(pub[p]) /\ pub[p].todo \subseteq Rows  BY RowParts DEF PublisherState
  <2> QED  BY <1>2, <1>6, <2>1 DEF PublisherFits, deletionVars
<1>15. RowsFit'
  <2>1. \A s \in Turns : /\ Evidence(s) \in Rows /\ Deletion(s) \in Rows
                         /\ Deletion(s) # Evidence(t)
    BY TwoRows DEF Evidence, Deletion
  <2>2. \A s \in Turns :
          /\ outbox'[Deletion(s)].status = outbox[Deletion(s)].status
          /\ outbox'[Evidence(s)].status = "delivered" => outbox[Evidence(s)].status = "delivered"
    BY <1>6, <2>1
  <2> QED
    BY <1>1, <1>2, <2>2 DEF IInv, RowsFit, deletionVars, Evidence, Deletion
<1>16. JobFits'  BY <1>2 DEF IInv, JobFits, deletionVars
<1> QED
  BY <1>6, <1>7, <1>8, <1>11, <1>12, <1>13, <1>14, <1>15, <1>16, TypePartsNext DEF IInv
(* ---- delivery ---------------------------------------------------------- *)

(* The memory column of a turn changes nothing else. *)
LEMMA MemorySet ==
  ASSUME IInv, NEW t \in Turns, NEW m \in {"pending", "retrying", "accepted", "failed"}
  PROVE  /\ [turn[t] EXCEPT !.memory = m] \in TurnRow
         /\ [turn[t] EXCEPT !.memory = m].status = turn[t].status
         /\ [turn[t] EXCEPT !.memory = m].messages = turn[t].messages
         /\ [turn[t] EXCEPT !.memory = m].events = turn[t].events
BY Parts DEF TurnRow

SameButMemory ==
  /\ turn' \in [Turns -> TurnRow]
  /\ \A t \in Turns : /\ turn'[t].status = turn[t].status
                      /\ turn'[t].messages = turn[t].messages
                      /\ turn'[t].events = turn[t].events

LEMMA SameMemory == IInv /\ UNCHANGED turn => SameButMemory
BY Parts DEF SameButMemory

LEMMA OtherMemory ==
  ASSUME IInv, NEW t \in Turns, NEW m \in {"pending", "retrying", "accepted", "failed"},
         turn' = [turn EXCEPT ![t].memory = m]
  PROVE  SameButMemory
<1> DEFINE x == [turn[t] EXCEPT !.memory = m]
<1>1. turn' = [turn EXCEPT ![t] = x]  BY Parts
<1>2. /\ x \in TurnRow /\ x.status = turn[t].status /\ x.messages = turn[t].messages
      /\ x.events = turn[t].events
  BY MemorySet
<1> HIDE DEF x
<1>3. \A s \in Turns : turn'[s] = IF s = t THEN x ELSE turn[s]  BY <1>1, Parts
<1>4. turn' \in [Turns -> TurnRow]  BY <1>1, <1>2, Parts
<1> QED  BY <1>2, <1>3, <1>4 DEF SameButMemory

(* Rows that are there change but for those that were delivered. *)
RowsGoOn ==
  \A r \in Rows : /\ (outbox'[r].status = "absent") <=> (outbox[r].status = "absent")
                  /\ outbox[r].status = "delivered" => outbox'[r].status = "delivered"

(* What becomes delivered has arrived. *)
DeliveredArrived ==
  \A t \in Turns :
    /\ outbox'[Evidence(t)].status = "delivered" =>
         outbox[Evidence(t)].status = "delivered" \/ t \in known' \/ thread # "active"
    /\ outbox'[Deletion(t)].status = "delivered" =>
         outbox[Deletion(t)].status = "delivered" \/ t \in forgotten'

MemoryGrows ==
  /\ known \subseteq known' /\ forgotten \subseteq forgotten' /\ forgotten' \subseteq Turns
  /\ \A t \in known' : t \in Turns /\ outbox[Evidence(t)].status # "absent"

LEMMA OutboxSame ==
  IInv /\ UNCHANGED outbox => OutboxTypes' /\ RowsGoOn /\ DeliveredArrived
BY TypeParts DEF IInv, OutboxTypes, RowsGoOn, DeliveredArrived

LEMMA MemorySame == IInv /\ UNCHANGED <<known, forgotten>> => MemoryGrows
BY RowParts DEF MemoryGrows

(* One row changes. *)
LEMMA OutboxOne ==
  ASSUME IInv, NEW r \in Rows, NEW x \in OutboxRow, outbox' = [outbox EXCEPT ![r] = x],
         (x.status = "processing") <=> (x.owner \in Publishers),
         (x.status = "processing") <=> (x.lease # "none"),
         outbox[r].status \notin {"absent", "delivered"}, x.status # "absent",
         x.status = "delivered" => IF r[1] = "evidence" THEN r[2] \in known' \/ thread # "active"
                                                        ELSE r[2] \in forgotten'
  PROVE  OutboxTypes' /\ RowsGoOn /\ DeliveredArrived
<1>1. /\ OutboxTypes'
      /\ \A s \in Rows : outbox'[s].status = IF s = r THEN x.status ELSE outbox[s].status
  BY RowSet
<1>2. RowsGoOn  BY <1>1 DEF RowsGoOn
<1>3. DeliveredArrived
  <2> SUFFICES ASSUME NEW t \in Turns
               PROVE  /\ outbox'[Evidence(t)].status = "delivered" =>
                           outbox[Evidence(t)].status = "delivered" \/ t \in known' \/ thread # "active"
                      /\ outbox'[Deletion(t)].status = "delivered" =>
                           outbox[Deletion(t)].status = "delivered" \/ t \in forgotten'
    BY DEF DeliveredArrived
  <2>1. /\ Evidence(t) \in Rows /\ Deletion(t) \in Rows
        /\ Evidence(t)[1] = "evidence" /\ Evidence(t)[2] = t
        /\ Deletion(t)[1] = "deletion" /\ Deletion(t)[2] = t
    BY TwoRows
  <2> QED  BY <1>1, <2>1
<1> QED  BY <1>1, <1>2, <1>3

PublishersGoOn ==
  /\ pub' \in [Publishers -> PublisherState]
  /\ \A p \in Publishers : pub'[p] = pub[p] \/ PublisherFits(pub[p])'

LEMMA PublishersSame == IInv /\ UNCHANGED pub => PublishersGoOn
BY RowParts DEF PublishersGoOn

LEMMA Deliveries ==
  ASSUME IInv, OutboxTypes', SameButMemory, RowsGoOn, DeliveredArrived, MemoryGrows,
         PublishersGoOn, WorkersMove, faults' \in 0..MaxFaults,
         UNCHANGED <<answers, ckpt, cancel, deletionVars>>
  PROVE  IInv'
BY DeliveryStep
DEF SameButMemory, RowsGoOn, DeliveredArrived, MemoryGrows, PublishersGoOn

LEMMA AckSteps ==
  ASSUME IInv, NEW w \in Workers
  PROVE  MemoryAck(w) \/ MemoryAckFails(w) => IInv'
<1> SUFFICES ASSUME MemoryAck(w) \/ MemoryAckFails(w) PROVE IInv'  OBVIOUS
<1> DEFINE t == worker[w].turn
           r == Evidence(t)
<1>0. /\ worker[w].pc = "ack" /\ worker' = [worker EXCEPT ![w] = IdleWorker]
      /\ UNCHANGED <<answers, ckpt, cancel, pub, forgotten, deletionVars>>
  BY DEF MemoryAck, MemoryAckFails
<1>1. /\ t \in Turns /\ r \in Rows /\ r[1] = "evidence" /\ r[2] = t
      /\ outbox[r].status # "absent" /\ outbox[r] \in OutboxRow
  <2>1. t \in Turns /\ turn[t].status = "completed"
    BY <1>0 DEF IInv, WorkersFit, WorkerFits
  <2>2. outbox[r].status # "absent"  BY <2>1, Parts DEF Fits
  <2> QED  BY <2>1, <2>2, TwoRows, RowParts
<1>2. WorkersMove
  <2>1. IdleWorker \in WorkerState /\ IdleWorker.pc = "idle"
    BY TurnsAssumption DEF IdleWorker, WorkerState
  <2> QED  BY <1>0, <2>1, MoveOne
<1>3. PublishersGoOn  BY <1>0, PublishersSame
<1>4. CASE MemoryAck(w) /\ outbox[r].status \notin {"pending", "retry_wait"}
  <2>1. UNCHANGED <<outbox, turn, known, faults>>  BY <1>4 DEF MemoryAck
  <2> QED
    BY <1>0, <1>2, <1>3, <2>1, Parts, OutboxSame, MemorySame, SameMemory, Deliveries
<1>5. ASSUME NEW status \in {"delivered", "pending"},
             outbox[r].status \in {"pending", "retry_wait"},
             outbox' = [outbox EXCEPT ![r].status = status],
             known' = known \union {t} \/ (known' = known /\ status = "pending"),
             SameButMemory, faults' \in 0..MaxFaults
      PROVE  IInv'
  <2> DEFINE x == [outbox[r] EXCEPT !.status = status]
  <2>1. outbox' = [outbox EXCEPT ![r] = x]  BY <1>1, <1>5, RowParts
  <2>2. /\ x \in OutboxRow /\ x.status = status
        /\ (x.status = "processing") <=> (x.owner \in Publishers)
        /\ (x.status = "processing") <=> (x.lease # "none")
    BY <1>1, <1>5, StatusSet
  <2>3. /\ outbox[r].status \notin {"absent", "delivered"} /\ x.status # "absent"
        /\ x.status = "delivered" => r[2] \in known'
    BY <1>1, <1>5, <2>2
  <2>4. MemoryGrows
    <3>1. outbox[Evidence(t)].status # "absent"  BY <1>1
    <3> QED  BY <1>0, <1>1, <1>5, <3>1, RowParts DEF MemoryGrows
  <2>5. r[1] = "evidence" /\ r \in Rows  BY <1>1
  <2> HIDE DEF x, r
  <2>6. OutboxTypes' /\ RowsGoOn /\ DeliveredArrived
    BY <2>1, <2>2, <2>3, <2>5, OutboxOne
  <2> QED  BY <1>0, <1>2, <1>3, <1>5, <2>4, <2>6, Deliveries
<1>6. CASE MemoryAck(w) /\ outbox[r].status \in {"pending", "retry_wait"}
  <2>1. /\ outbox' = [outbox EXCEPT ![r].status = "delivered"]
        /\ turn' = [turn EXCEPT ![t].memory = "accepted"]
        /\ known' = known \union {t} /\ UNCHANGED faults
    BY <1>6 DEF MemoryAck
  <2>2. SameButMemory  BY <1>1, <2>1, OtherMemory
  <2> QED  BY <1>5, <1>6, <2>1, <2>2, Parts
<1>7. CASE MemoryAckFails(w)
  <2>1. /\ outbox[r].status \in {"pending", "retry_wait"}
        /\ outbox' = [outbox EXCEPT ![r].status = "pending"]
        /\ known' = known \union {t} \/ known' = known
        /\ Fault /\ UNCHANGED turn
    BY <1>7 DEF MemoryAckFails
  <2>2. SameButMemory /\ faults' \in 0..MaxFaults  BY <2>1, SameMemory, FaultType
  <2> QED  BY <1>5, <2>1, <2>2
<1> QED  BY <1>4, <1>6, <1>7
(* What a publisher is to be at, of the state after the step *)
WillFit(x) ==
  /\ \A r \in x.todo : outbox'[r].status # "absent"
  /\ x.pc \notin {"idle", "look"} => x.row \in Rows /\ outbox'[x.row].status # "absent"
  /\ x.pc = "mark" => x.row[2] \in IF x.row[1] = "evidence" THEN known' ELSE forgotten'
  /\ x.pc = "skip" => x.row[1] = "evidence" /\ thread' # "active"

(* A publisher gets a row of its own. *)
LEMMA PublisherOne ==
  ASSUME IInv, NEW p \in Publishers, NEW x \in PublisherState, pub' = [pub EXCEPT ![p] = x],
         WillFit(x)
  PROVE  PublishersGoOn
<1>1. \A q \in Publishers : pub'[q] = IF q = p THEN x ELSE pub[q]  BY RowParts
<1>2. pub' \in [Publishers -> PublisherState]  BY RowParts
<1>3. PublisherFits(pub[p])'
  <2>1. pub'[p] = x  BY <1>1
  <2> QED  BY <2>1 DEF PublisherFits, WillFit
<1> QED  BY <1>1, <1>2, <1>3 DEF PublishersGoOn

LEMMA IdlePublisherFits == WillFit(IdlePublisher) /\ IdlePublisher \in PublisherState
<1>1. IdlePublisher.pc = "idle" /\ IdlePublisher.todo = {}  BY DEF IdlePublisher
<1>2. WillFit(IdlePublisher)  BY <1>1 DEF WillFit
<1> QED  BY <1>2, TurnsAssumption DEF IdlePublisher, PublisherState

(* The row a publisher is at *)
LEMMA RowOf ==
  ASSUME IInv, NEW p \in Publishers, pub[p].pc \notin {"idle", "look"}
  PROVE  /\ pub[p].row \in Rows /\ pub[p].row[2] \in Turns
         /\ outbox[pub[p].row].status # "absent"
         /\ outbox[Evidence(pub[p].row[2])].status # "absent"
         /\ pub[p].row[1] = "evidence" \/ pub[p].row[1] = "deletion"
<1> DEFINE r == pub[p].row
<1>1. r \in Rows /\ outbox[r].status # "absent"  BY RowParts DEF PublisherFits
<1>2. r[2] \in Turns /\ (r = Evidence(r[2]) \/ r = Deletion(r[2]))
      /\ (r[1] = "evidence" \/ r[1] = "deletion")
  BY <1>1, TwoRows
<1>3. CASE r = Deletion(r[2])
  <2>1. r[2] \in known  BY <1>1, <1>2, <1>3 DEF IInv, RowsFit
  <2> QED  BY <1>1, <1>2, <2>1, RowParts
<1>4. CASE r = Evidence(r[2])  BY <1>1, <1>2, <1>4
<1> QED  BY <1>2, <1>3, <1>4

LEMMA ClaimRowsStep == ASSUME IInv, NEW p \in Publishers, ClaimRows(p) PROVE IInv'
<1> DEFINE batch == {r \in Rows : ClaimableRow(r)}
           attempt == [r \in Rows |-> OneMore(outbox[r].attempts, OutboxMaxAttempts)]
           x(r) == [status |-> "processing", owner |-> p, lease |-> "live",
                    attempts |-> attempt[r]]
           y == [pc |-> "look", todo |-> batch, row |-> None,
                 seen |-> [r \in Rows |-> IF r \in batch THEN attempt[r] ELSE 0]]
<1>1. /\ outbox' = [r \in Rows |-> IF r \in batch THEN x(r) ELSE outbox[r]]
      /\ pub' = [pub EXCEPT ![p] = y]
      /\ UNCHANGED <<turnVars, known, forgotten, deletionVars, faults>>
  BY DEF ClaimRows
<1>2. ASSUME NEW r \in Rows PROVE attempt[r] \in 0..OutboxMaxAttempts
  BY RowParts, OneMoreType, TurnsAssumption DEF OutboxRow
<1>3. \A r \in Rows : /\ x(r) \in OutboxRow /\ x(r).status = "processing"
                      /\ x(r).owner = p /\ x(r).lease = "live"
  BY <1>2 DEF OutboxRow, Leases
<1>4. y \in PublisherState /\ y.pc = "look" /\ y.todo = batch
  BY <1>2, TurnsAssumption DEF PublisherState
<1>5. \A r \in batch : outbox[r].status \notin {"absent", "delivered"}
  BY DEF ClaimableRow
<1> HIDE DEF x, y, attempt
<1>6. OutboxTypes'
  <2>1. outbox' \in [Rows -> OutboxRow]  BY <1>1, <1>3, RowParts
  <2> QED  BY <1>1, <1>3, <2>1, RowParts DEF OutboxTypes
<1>7. RowsGoOn  BY <1>1, <1>3, <1>5 DEF RowsGoOn
<1>8. DeliveredArrived  BY <1>1, <1>3, TwoRows DEF DeliveredArrived
<1>9. WillFit(y)
  <2>1. \A r \in batch : outbox'[r].status # "absent"  BY <1>1, <1>3
  <2> QED  BY <1>4, <2>1 DEF WillFit
<1>10. PublishersGoOn  BY <1>1, <1>4, <1>9, PublisherOne
<1>11. UNCHANGED <<turn, answers, ckpt, worker, cancel>>  BY <1>1 DEF turnVars
<1> QED
  BY <1>1, <1>6, <1>7, <1>8, <1>10, <1>11, MemorySame, SameMemory, MoveNone, Parts, Deliveries

(* A publisher goes on, and the memory may take its row. *)
LEMMA PublisherStep ==
  ASSUME IInv, PublishersGoOn, MemoryGrows, faults' \in 0..MaxFaults,
         UNCHANGED <<turnVars, outbox, deletionVars>>
  PROVE  IInv'
<1>1. UNCHANGED <<turn, answers, ckpt, worker, cancel>>  BY DEF turnVars
<1> QED  BY <1>1, OutboxSame, SameMemory, MoveNone, Deliveries

LEMMA ArriveGrows ==
  ASSUME IInv, NEW p \in Publishers, pub[p].pc \notin {"idle", "look"}, Arrive(pub[p].row)
  PROVE  /\ MemoryGrows
         /\ pub[p].row[2] \in IF pub[p].row[1] = "evidence" THEN known' ELSE forgotten'
BY RowOf, RowParts DEF Arrive, MemoryGrows

LEMMA PublisherSteps ==
  ASSUME IInv, NEW p \in Publishers
  PROVE  /\ \A r \in Rows : BeginRow(p, r) => IInv'
         /\ EndBatch(p) => IInv'
         /\ Send(p) => IInv'
         /\ SendFails(p) => IInv'
         /\ CrashPublisher(p) => IInv'
<1>0. pub[p] \in PublisherState /\ PublisherFits(pub[p]) /\ pub \in [Publishers -> PublisherState]
  BY RowParts
<1>i. ASSUME pub' = [pub EXCEPT ![p] = IdlePublisher] PROVE PublishersGoOn
  BY <1>i, IdlePublisherFits, PublisherOne
<1>1. ASSUME NEW r \in Rows, BeginRow(p, r) PROVE IInv'
  <2> DEFINE pc == IF r[1] = "evidence" /\ thread # "active" THEN "skip" ELSE "send"
             y == [pub[p] EXCEPT !.todo = @ \ {r}, !.row = r, !.pc = pc]
  <2>1. pub' = [pub EXCEPT ![p] = y]  BY <1>0, <1>1 DEF BeginRow
  <2>2. y \in PublisherState /\ y.pc = pc /\ y.row = r /\ y.todo = pub[p].todo \ {r}
    BY <1>0 DEF PublisherState
  <2>3. r \in pub[p].todo /\ UNCHANGED <<turnVars, outbox, known, forgotten, deletionVars, faults>>
    BY <1>1 DEF BeginRow
  <2>4. UNCHANGED thread  BY <2>3 DEF deletionVars
  <2>5. pc \in {"skip", "send"} /\ (pc = "skip" => r[1] = "evidence" /\ thread # "active")
    OBVIOUS
  <2> HIDE DEF y, pc
  <2>6. WillFit(y)
    <3>1. \A s \in y.todo : outbox[s].status # "absent"  BY <1>0, <2>2 DEF PublisherFits
    <3>2. outbox[r].status # "absent"  BY <1>0, <2>3 DEF PublisherFits
    <3>3. outbox' = outbox  BY <2>3
    <3> QED  BY <2>2, <2>4, <2>5, <3>1, <3>2, <3>3 DEF WillFit
  <2>7. PublishersGoOn  BY <2>1, <2>2, <2>6, PublisherOne
  <2> QED  BY <2>3, <2>7, MemorySame, Parts, PublisherStep
<1>2. ASSUME EndBatch(p) PROVE IInv'
  BY <1>2, <1>i, MemorySame, Parts, PublisherStep DEF EndBatch
<1>3. ASSUME CrashPublisher(p) PROVE IInv'
  BY <1>3, <1>i, MemorySame, FaultType, PublisherStep DEF CrashPublisher
<1>a. ASSUME NEW pc \in {"mark", "failed"}, pub[p].pc = "send", pub' = [pub EXCEPT ![p].pc = pc],
             pc = "mark" => Arrive(pub[p].row), UNCHANGED <<outbox, deletionVars>>
      PROVE  PublishersGoOn
  <2> DEFINE y == [pub[p] EXCEPT !.pc = pc]
  <2>1. pub' = [pub EXCEPT ![p] = y]  BY <1>0, <1>a
  <2>2. y \in PublisherState /\ y.pc = pc /\ y.row = pub[p].row /\ y.todo = pub[p].todo
    BY <1>0 DEF PublisherState
  <2> HIDE DEF y
  <2>3. WillFit(y)
    <3>1. pc = "mark" => y.row[2] \in IF y.row[1] = "evidence" THEN known' ELSE forgotten'
      BY <1>a, <2>2, ArriveGrows
    <3>2. outbox' = outbox  BY <1>a
    <3>3. \A s \in y.todo : outbox[s].status # "absent"  BY <1>0, <2>2 DEF PublisherFits
    <3>4. y.row \in Rows /\ outbox[y.row].status # "absent"  BY <1>a, <2>2, RowOf
    <3> QED  BY <1>a, <2>2, <3>1, <3>2, <3>3, <3>4 DEF WillFit
  <2> QED  BY <2>1, <2>2, <2>3, PublisherOne
<1>4. ASSUME Send(p) PROVE IInv'
  <2>1. PublishersGoOn  BY <1>4, <1>a DEF Send
  <2>2. MemoryGrows  BY <1>4, ArriveGrows DEF Send
  <2> QED  BY <1>4, <2>1, <2>2, Parts, PublisherStep DEF Send
<1>5. ASSUME SendFails(p) PROVE IInv'
  <2>1. PublishersGoOn  BY <1>5, <1>a DEF SendFails
  <2>2. MemoryGrows  BY <1>5, ArriveGrows, MemorySame DEF SendFails
  <2> QED  BY <1>5, <2>1, <2>2, FaultType, PublisherStep DEF SendFails
<1> QED  BY <1>1, <1>2, <1>3, <1>4, <1>5

(* A row is settled by its owner and nobody else. *)
LEMMA SettledRow ==
  ASSUME IInv, NEW p \in Publishers, pub[p].pc \notin {"idle", "look"}, Marks(p),
         NEW status \in {"delivered", "retry_wait", "dead_letter"},
         outbox' = Settled(pub[p].row, status),
         status = "delivered" => IF pub[p].row[1] = "evidence"
                                 THEN pub[p].row[2] \in known' \/ thread # "active"
                                 ELSE pub[p].row[2] \in forgotten'
  PROVE  OutboxTypes' /\ RowsGoOn /\ DeliveredArrived
<1> DEFINE r == pub[p].row
           x == [outbox[r] EXCEPT !.status = status, !.owner = Nobody, !.lease = "none"]
<1>1. r \in Rows /\ outbox[r] \in OutboxRow /\ outbox[r].status = "processing"
  BY RowOf, RowParts DEF Marks
<1>2. outbox' = [outbox EXCEPT ![r] = x]  BY <1>1, RowParts DEF Settled
<1>3. x \in OutboxRow /\ x.status = status /\ x.owner = Nobody /\ x.lease = "none"
  BY <1>1 DEF OutboxRow, Leases
<1>4. Nobody \notin Publishers  BY TurnsAssumption
<1>5. x.status = "delivered" => IF r[1] = "evidence" THEN r[2] \in known' \/ thread # "active"
                                                      ELSE r[2] \in forgotten'
  BY <1>3
<1> HIDE DEF r, x
<1> QED  BY <1>1, <1>2, <1>3, <1>4, <1>5, OutboxOne

LEMMA MarkSteps ==
  ASSUME IInv, NEW p \in Publishers
  PROVE  MarkDelivered(p) \/ HandleFailure(p) => IInv'
<1> SUFFICES ASSUME MarkDelivered(p) \/ HandleFailure(p) PROVE IInv'  OBVIOUS
<1> DEFINE r == pub[p].row
           y == [pub[p] EXCEPT !.pc = "look", !.row = None]
<1>1. /\ pub[p].pc \in {"mark", "skip", "failed"} /\ pub' = [pub EXCEPT ![p] = y]
      /\ UNCHANGED <<answers, ckpt, worker, cancel, known, forgotten, deletionVars, faults>>
  BY RowParts DEF MarkDelivered, HandleFailure
<1>2. y \in PublisherState /\ y.pc = "look" /\ y.todo = pub[p].todo
  BY RowParts DEF PublisherState
<1>3. r[2] \in Turns  BY <1>1, RowOf
<1>g. ASSUME OutboxTypes', RowsGoOn, DeliveredArrived, SameButMemory PROVE IInv'
  <2> HIDE DEF y
  <2>1. WillFit(y)
    <3>1. pub[p].todo \subseteq Rows /\ \A s \in pub[p].todo : outbox[s].status # "absent"
      BY RowParts DEF PublisherFits, PublisherState
    <3>2. \A s \in y.todo : outbox'[s].status # "absent"  BY <1>2, <1>g, <3>1 DEF RowsGoOn
    <3> QED  BY <1>2, <3>2 DEF WillFit
  <2>2. PublishersGoOn  BY <1>1, <1>2, <2>1, PublisherOne
  <2> QED  BY <1>1, <1>g, <2>2, MemorySame, MoveNone, Parts, Deliveries
<1>4. CASE MarkDelivered(p)
  <2>1. OutboxTypes' /\ RowsGoOn /\ DeliveredArrived
    <3>1. CASE ~Marks(p)
      <4>1. outbox' = outbox  BY <1>4, <3>1 DEF MarkDelivered
      <4> QED  BY <4>1, OutboxSame
    <3>2. CASE Marks(p)
      <4>1. outbox' = Settled(r, "delivered") /\ pub[p].pc \in {"mark", "skip"}
        BY <1>4, <3>2 DEF MarkDelivered
      <4>2. IF r[1] = "evidence" THEN r[2] \in known' \/ thread # "active"
                                 ELSE r[2] \in forgotten'
        <5>1. PublisherFits(pub[p]) /\ known' = known /\ forgotten' = forgotten
          BY <1>1, RowParts
        <5> QED  BY <4>1, <5>1 DEF PublisherFits
      <4> QED  BY <1>1, <3>2, <4>1, <4>2, SettledRow
    <3> QED  BY <3>1, <3>2
  <2>2. SameButMemory
    <3>1. turn' = turn \/ turn' = [turn EXCEPT ![r[2]].memory = "accepted"]
      BY <1>4 DEF MarkDelivered
    <3> QED  BY <1>3, <3>1, SameMemory, OtherMemory
  <2> QED  BY <1>g, <2>1, <2>2
<1>5. CASE HandleFailure(p)
  <2>1. PICK final \in BOOLEAN :
          /\ outbox' = IF Marks(p) THEN Settled(r, IF final THEN "dead_letter" ELSE "retry_wait")
                       ELSE outbox
          /\ turn' = IF r[1] = "evidence"
                     THEN [turn EXCEPT ![r[2]].memory = IF final THEN "failed" ELSE "retrying"]
                     ELSE turn
    BY <1>5 DEF HandleFailure
  <2>2. OutboxTypes' /\ RowsGoOn /\ DeliveredArrived
    <3>1. CASE ~Marks(p)
      <4>1. outbox' = outbox  BY <2>1, <3>1
      <4> QED  BY <4>1, OutboxSame
    <3>2. CASE Marks(p)
      <4>1. \/ outbox' = Settled(r, "dead_letter")
            \/ outbox' = Settled(r, "retry_wait")
        BY <2>1, <3>2
      <4> QED  BY <1>1, <3>2, <4>1, SettledRow
    <3> QED  BY <3>1, <3>2
  <2>3. SameButMemory
    <3>1. \/ turn' = turn \/ turn' = [turn EXCEPT ![r[2]].memory = "failed"]
          \/ turn' = [turn EXCEPT ![r[2]].memory = "retrying"]
      BY <2>1
    <3> QED  BY <1>3, <3>1, SameMemory, OtherMemory
  <2> QED  BY <1>g, <2>2, <2>3
<1> QED  BY <1>4, <1>5

LEMMA RowExpireStep == ASSUME IInv, NEW r \in Rows, RowLeaseExpires(r) PROVE IInv'
<1> DEFINE x == [outbox[r] EXCEPT !.lease = "expired"]
<1>1. /\ outbox' = [outbox EXCEPT ![r] = x] /\ outbox[r].status = "processing"
      /\ UNCHANGED <<turnVars, pub, known, forgotten, deletionVars>>
  BY RowParts DEF RowLeaseExpires
<1>2. /\ x \in OutboxRow /\ x.status = "processing" /\ x.owner = outbox[r].owner
      /\ x.lease = "expired"
  BY <1>1, RowParts DEF OutboxRow, Leases
<1>3. x.owner \in Publishers  BY <1>1, <1>2, RowParts
<1> HIDE DEF x
<1>4. OutboxTypes' /\ RowsGoOn /\ DeliveredArrived  BY <1>1, <1>2, <1>3, OutboxOne
<1>5. faults' \in 0..MaxFaults  BY FaultType, Parts DEF RowLeaseExpires
<1>6. UNCHANGED <<turn, answers, ckpt, worker, cancel>>  BY <1>1 DEF turnVars
<1> QED
  BY <1>1, <1>4, <1>5, <1>6, PublishersSame, MemorySame, SameMemory, MoveNone, Deliveries
(* ---- the deletion ------------------------------------------------------ *)

LEMMA DeleteStep == ASSUME IInv, DeleteThread PROVE IInv'
<1> DEFINE x(t) == [turn[t] EXCEPT !.status = Stopped(t)]
           y(r) == [outbox[r] EXCEPT !.status = "pending"]
<1>1. /\ thread = "active" /\ thread' = "deleting"
      /\ turn' = [t \in Turns |-> x(t)]
      /\ outbox' = [r \in Rows |-> IF r[1] = "deletion" /\ r[2] \in Owed THEN y(r) ELSE outbox[r]]
      /\ undelivered' = {t \in Turns : outbox[Evidence(t)].status \notin {"absent", "delivered"}}
      /\ job' = [NoJob EXCEPT !.status = "pending"]
      /\ UNCHANGED <<answers, ckpt, worker, cancel, pub, known, forgotten, jobber, faults>>
  BY DEF DeleteThread
<1>2. \A t \in Turns :
        /\ x(t) \in TurnRow /\ x(t).status = Stopped(t) /\ x(t).messages = turn[t].messages
        /\ x(t).events = turn[t].events
  BY Parts DEF TurnRow, ActiveStatus, Stopped
<1>3. \A t \in Turns : turn'[t] = x(t)  BY <1>1
<1>4. \A t \in Turns : outbox[Deletion(t)].status = "absent"  BY <1>1 DEF IInv, RowsFit
<1>5. \A r \in Rows : r[1] = "deletion" =>
        /\ outbox[r].status = "absent"
        /\ y(r) \in OutboxRow /\ y(r).status = "pending"
        /\ y(r).owner = outbox[r].owner /\ y(r).lease = outbox[r].lease
  <2> SUFFICES ASSUME NEW r \in Rows, r[1] = "deletion"
               PROVE  /\ outbox[r].status = "absent"
                      /\ y(r) \in OutboxRow /\ y(r).status = "pending"
                      /\ y(r).owner = outbox[r].owner /\ y(r).lease = outbox[r].lease
    OBVIOUS
  <2>1. r = Deletion(r[2]) /\ r[2] \in Turns  BY TwoRows
  <2>2. outbox[r].status = "absent"  BY <1>4, <2>1
  <2> QED  BY <2>2, RowParts DEF OutboxRow
<1> HIDE DEF x, y
<1>6. OutboxTypes'
  <2>1. outbox' \in [Rows -> OutboxRow]  BY <1>1, <1>5, RowParts
  <2> QED  BY <1>1, <1>5, <2>1, RowParts DEF OutboxTypes
<1>7. TurnTypes'
  <2>1. turn' \in [Turns -> TurnRow]  BY <1>1, <1>2
  <2>2. \A r, s \in Turns : Active(r) /\ Active(s) => r = s  BY TypeParts DEF IInv, TurnTypes
  <2>3. \A r \in Turns : Active(r)' => Active(r)
    BY <1>2, <1>3 DEF Active, ActiveStatus, Stopped
  <2> QED  BY <2>1, <2>2, <2>3 DEF TurnTypes, Active
<1>8. JobTypes'
  <2>1. jobber' \in [JobWorkers -> 0..JobMaxAttempts]  BY <1>1, TypeParts DEF IInv, JobTypes
  <2> QED  BY <1>1, <2>1, TurnsAssumption DEF JobTypes, JobRow, NoJob, Leases
<1>9. OtherTypes'  BY <1>1, TypeParts DEF IInv, OtherTypes
<1>10. \A t \in Turns :
         /\ outbox'[Evidence(t)] = outbox[Evidence(t)]
         /\ outbox'[Deletion(t)].status = IF t \in Owed THEN "pending" ELSE "absent"
  <2> SUFFICES ASSUME NEW t \in Turns
               PROVE  /\ outbox'[Evidence(t)] = outbox[Evidence(t)]
                      /\ outbox'[Deletion(t)].status = IF t \in Owed THEN "pending" ELSE "absent"
    OBVIOUS
  <2>1. /\ Evidence(t) \in Rows /\ Deletion(t) \in Rows
        /\ Evidence(t)[1] = "evidence" /\ Evidence(t)[2] = t
        /\ Deletion(t)[1] = "deletion" /\ Deletion(t)[2] = t
    BY TwoRows
  <2> QED  BY <1>1, <1>5, <2>1
<1>11. TurnsFit'
  <2> SUFFICES ASSUME NEW t \in Turns PROVE Fits(t, turn[t])'  BY DEF TurnsFit
  <2>1. Fits(t, turn[t])  BY Parts
  <2>2. (turn'[t].status = "completed") <=> (turn[t].status = "completed")
    BY <1>2, <1>3 DEF Stopped
  <2>3. (turn'[t].status = "failed") <=> (turn[t].status = "failed")
    BY <1>2, <1>3 DEF Stopped
  <2>4. turn'[t].status \notin {"accepted", "running"}  BY <1>2, <1>3 DEF Stopped
  <2>5. turn'[t].messages = turn[t].messages /\ turn'[t].events = turn[t].events
    BY <1>2, <1>3
  <2> QED  BY <1>1, <1>10, <2>1, <2>2, <2>3, <2>4, <2>5 DEF Fits, Evidence
<1>12. WorkersFit'
  <2>1. \A t \in Turns : turn[t].status = "completed" => turn'[t].status = "completed"
    BY <1>2, <1>3 DEF Stopped
  <2> QED  BY <1>1, <2>1, MoveNone, WorkersKept
<1>13. PublishersFit'
  <2> SUFFICES ASSUME NEW p \in Publishers PROVE PublisherFits(pub[p])'  BY DEF PublishersFit
  <2>1. PublisherFits(pub[p]) /\ pub[p].todo \subseteq Rows  BY RowParts DEF PublisherState
  <2>2. \A r \in Rows : outbox[r].status # "absent" => outbox'[r].status # "absent"
    BY <1>1, <1>5
  <2> QED  BY <1>1, <2>1, <2>2 DEF PublisherFits
<1>14. RowsFit'
  <2> SUFFICES ASSUME NEW t \in Turns
               PROVE  /\ outbox'[Evidence(t)].status # "absent" =>
                           t \in undelivered' \/ outbox'[Deletion(t)].status # "absent"
                      /\ outbox'[Deletion(t)].status # "absent" => t \in known'
                      /\ outbox'[Deletion(t)].status # "delivered"
    BY <1>1 DEF RowsFit, Evidence, Deletion
  <2>1. outbox[Evidence(t)].status = "delivered" => t \in known  BY <1>1 DEF IInv, RowsFit
  <2> QED  BY <1>1, <1>10, <2>1 DEF Owed
<1>15. JobFits'  BY <1>1 DEF JobFits
<1> QED
  BY <1>6, <1>7, <1>8, <1>9, <1>11, <1>12, <1>13, <1>14, <1>15, TypePartsNext DEF IInv

(* ---- the job ----------------------------------------------------------- *)

LEMMA MarkedType ==
  ASSUME IInv, NEW j \in JobWorkers, NEW status \in {"retry_wait", "done", "dead_letter"}
  PROVE  /\ MarkedJob(j, status) \in JobRow
         /\ MarkedJob(j, status).status = "processing" <=> MarkedJob(j, status).owner \in JobWorkers
BY TypeParts, TurnsAssumption DEF IInv, JobTypes, JobRow, MarkedJob, Leases

LEMMA JobMarked ==
  ASSUME IInv, NEW j \in JobWorkers, NEW status \in {"retry_wait", "done", "dead_letter"},
         job' = MarkedJob(j, status), jobber' = [jobber EXCEPT ![j] = 0]
  PROVE  JobTypes'
<1>1. jobber' \in [JobWorkers -> 0..JobMaxAttempts]
  BY TypeParts, TurnsAssumption DEF IInv, JobTypes
<1> QED  BY <1>1, MarkedType DEF JobTypes

LEMMA JobSteps ==
  ASSUME IInv, NEW j \in JobWorkers
  PROVE  /\ ClaimJob(j) => IInv'
         /\ DeleteWaits(j) => IInv'
         /\ JobRaises(j) => IInv'
         /\ CrashJobWorker(j) => IInv'
<1>0. jobber[j] # 0 => thread # "active"  BY DEF IInv, JobFits
<1>1. ASSUME ClaimJob(j) PROVE IInv'
  <2>1. OneMore(job.attempts, JobMaxAttempts) \in 0..JobMaxAttempts
    BY OneMoreType, TypeParts, TurnsAssumption DEF IInv, JobTypes, JobRow
  <2> DEFINE attempt == OneMore(job.attempts, JobMaxAttempts)
  <2>2. /\ job' = [status |-> "processing", owner |-> j, lease |-> "live", attempts |-> attempt]
        /\ jobber' = [jobber EXCEPT ![j] = attempt] /\ job.status # "absent"
        /\ UNCHANGED <<thread, undelivered, turnVars, deliveryVars, faults>>
    BY <1>1 DEF ClaimJob
  <2>3. attempt \in 0..JobMaxAttempts  BY <2>1
  <2> HIDE DEF attempt
  <2>4. JobTypes'  BY <2>2, <2>3, TypeParts DEF IInv, JobTypes, JobRow, Leases
  <2>5. thread # "active"  BY <2>2 DEF IInv, JobFits
  <2> QED  BY <2>2, <2>4, <2>5, Parts, JobStep
<1>2. ASSUME DeleteWaits(j) PROVE IInv'
  <2>1. JobTypes'  BY <1>2, JobMarked DEF DeleteWaits
  <2> QED  BY <1>0, <1>2, <2>1, Parts, JobStep DEF DeleteWaits
<1>3. ASSUME JobRaises(j) PROVE IInv'
  <2>1. /\ job' = MarkedJob(j, "retry_wait") \/ job' = MarkedJob(j, "dead_letter")
        /\ jobber' = [jobber EXCEPT ![j] = 0] /\ jobber[j] # 0 /\ Fault
        /\ UNCHANGED <<thread, undelivered, turnVars, deliveryVars>>
    BY <1>3 DEF JobRaises
  <2>2. JobTypes'  BY <2>1, JobMarked
  <2> QED  BY <1>0, <2>1, <2>2, FaultType, JobStep
<1>4. ASSUME CrashJobWorker(j) PROVE IInv'
  <2>1. JobTypes'
    BY <1>4, TypeParts, TurnsAssumption DEF IInv, JobTypes, CrashJobWorker
  <2> QED  BY <1>0, <1>4, <2>1, FaultType, JobStep DEF CrashJobWorker
<1> QED  BY <1>1, <1>2, <1>3, <1>4

LEMMA JobExpireStep == ASSUME IInv, JobLeaseExpires PROVE IInv'
<1>1. JobTypes'
  BY TypeParts DEF IInv, JobTypes, JobRow, JobLeaseExpires, Leases
<1>2. faults' \in 0..MaxFaults  BY FaultType, Parts DEF JobLeaseExpires
<1>3. thread # "active"  BY DEF IInv, JobFits, JobLeaseExpires
<1> QED  BY <1>1, <1>2, <1>3, JobStep DEF JobLeaseExpires

LEMMA CleanStep == ASSUME IInv, NEW j \in JobWorkers, DeleteCleans(j) PROVE IInv'
<1> DEFINE x(t) == [turn[t] EXCEPT !.messages = {}, !.events = {}]
<1>1. /\ jobber[j] # 0 /\ Quiet /\ turn' = [t \in Turns |-> x(t)]
      /\ jobber' = [jobber EXCEPT ![j] = 0]
      /\ \/ thread' = thread /\ job' = MarkedJob(j, "retry_wait")
         \/ thread' = "deleted" /\ Withheld = {} /\ job' = MarkedJob(j, "done")
      /\ faults' = faults \/ Fault
      /\ UNCHANGED <<undelivered, answers, ckpt, worker, cancel, deliveryVars>>
  BY DEF DeleteCleans
<1>2. thread \in {"deleting", "deleted"}  BY <1>1, RowParts DEF IInv, JobFits
<1>3. \A t \in Turns : /\ turn'[t] = x(t) /\ x(t) \in TurnRow /\ x(t).status = turn[t].status
                       /\ x(t).messages = {} /\ x(t).events = {}
  <2> SUFFICES ASSUME NEW t \in Turns
               PROVE  /\ turn'[t] = x(t) /\ x(t) \in TurnRow /\ x(t).status = turn[t].status
                      /\ x(t).messages = {} /\ x(t).events = {}
    OBVIOUS
  <2>1. turn[t] \in TurnRow /\ turn'[t] = x(t)  BY <1>1, Parts
  <2> QED  BY <2>1 DEF TurnRow
<1> HIDE DEF x
<1>4. JobTypes'  BY <1>1, JobMarked
<1>5. faults' \in 0..MaxFaults  BY <1>1, FaultType, Parts
<1>6. TurnTypes'
  <2>1. turn' \in [Turns -> TurnRow]  BY <1>1, <1>3
  <2> QED  BY <1>3, <2>1, TypeParts DEF IInv, TurnTypes, Active
<1>7. OutboxTypes'  BY <1>1, OutboxSame DEF deliveryVars
<1>8. OtherTypes'  BY <1>1, <1>2, <1>5, TypeParts DEF IInv, OtherTypes, deliveryVars
<1>9. TurnsFit'
  <2> SUFFICES ASSUME NEW t \in Turns PROVE Fits(t, turn[t])'  BY DEF TurnsFit
  <2>1. Fits(t, turn[t]) /\ turn[t].status \notin ActiveStatus
    BY <1>1, Parts DEF Quiet, Active
  <2> QED  BY <1>1, <1>2, <1>3, <2>1 DEF Fits, deliveryVars, ActiveStatus
<1>10. WorkersFit'
  <2>1. \A t \in Turns : turn[t].status = "completed" => turn'[t].status = "completed"
    BY <1>3
  <2> QED  BY <1>1, <2>1, MoveNone, WorkersKept
<1>11. PublishersFit'
  BY <1>1, <1>2 DEF IInv, PublishersFit, PublisherFits, deliveryVars
<1>12. RowsFit'
  <2>1. Withheld = {} => \A t \in Turns : outbox[Deletion(t)].status \in {"absent", "delivered"}
    <3>1. \A t \in Turns : outbox[Deletion(t)] \in OutboxRow  BY TwoRows, RowParts
    <3> QED  BY <3>1 DEF Withheld, DeletionsIn, OutboxRow
  <2>2. thread' # "active"  BY <1>1, <1>2
  <2> QED  BY <1>1, <1>2, <2>1, <2>2 DEF IInv, RowsFit, deliveryVars, Evidence, Deletion
<1>13. JobFits'  BY <1>1, <1>2 DEF JobFits
<1> QED
  BY <1>4, <1>6, <1>7, <1>8, <1>9, <1>10, <1>11, <1>12, <1>13, TypePartsNext DEF IInv
LEMMA StepIInv == IInv /\ [Next]_vars => IInv'
<1> SUFFICES ASSUME IInv, [Next]_vars PROVE IInv'  OBVIOUS
<1>1. CASE UNCHANGED vars
  BY <1>1, MoveNone, Parts, TurnSame DEF vars, turnVars
<1>2. ASSUME NEW t \in Turns,
             CreateTurn(t) \/ CancelRead(t) \/ CancelAccepted(t) \/ CancelRunning(t)
      PROVE  IInv'
  BY <1>2, UserSteps
<1>3. ASSUME NEW w \in Workers, Claims(w) \/ Execute(w) \/ GraphStep(w) \/ CrashWorker(w)
      PROVE  IInv'
  <2>1. CASE Claims(w)  BY <2>1, WorkerSteps DEF Claims
  <2>2. CASE Execute(w)  BY <2>2, WorkerSteps, FinalizeStep, AckSteps DEF Execute
  <2> QED  BY <1>3, <2>1, <2>2, WorkerSteps
<1>4. ASSUME NEW t \in Turns, TurnLeaseExpires(t) \/ \E w \in Workers : Heartbeat(w, t)
      PROVE  IInv'
  BY <1>4, ExpireStep, WorkerSteps
<1>5. ASSUME NEW p \in Publishers, ClaimRows(p) \/ Deliver(p) \/ CrashPublisher(p)
      PROVE  IInv'
  <2>1. CASE Deliver(p)  BY <2>1, PublisherSteps, MarkSteps DEF Deliver
  <2> QED  BY <1>5, <2>1, ClaimRowsStep, PublisherSteps
<1>6. ASSUME NEW j \in JobWorkers, ClaimJob(j) \/ WorkJob(j) \/ CrashJobWorker(j) PROVE IInv'
  BY <1>6, JobSteps, CleanStep DEF WorkJob
<1>7. CASE Next
  BY <1>2, <1>3, <1>4, <1>5, <1>6, <1>7, DeleteStep, RowExpireStep, JobExpireStep DEF Next
<1> QED  BY <1>1, <1>7

(* The invariant holds of every reachable state. *)
LEMMA Invariant == Spec => []IInv
BY InitIInv, StepIInv, PTL DEF Spec

(* Every variable keeps its type, an outbox row and the job have an owner  *)
(* and a lease exactly while they are processed, and at most one turn is   *)
(* active, for any number of turns and processes.                          *)
THEOREM TypeCorrect == Spec => []TypeOK
<1>1. IInv => TypeOK  BY DEF IInv
<1> QED  BY <1>1, Invariant, PTL

(* An answer is whole: it is given once, with its message and its evidence, *)
(* by any number of workers that lose their leases.                        *)
THEOREM AnswersAreWhole == Spec => []AnswersWhole
<1>1. IInv => AnswersWhole  BY DEF IInv, TurnsFit, Fits, AnswersWhole
<1> QED  BY <1>1, Invariant, PTL

(* A deleted thread runs and shows nothing, and the memory was told to     *)
(* forget what it had of it, but for evidence that was on its way.         *)
THEOREM DeletedThreadIsForgotten == Spec => []DeletedIsForgotten
<1>1. IInv => DeletedIsForgotten
  <2> SUFFICES ASSUME IInv, thread = "deleted", NEW t \in Turns
               PROVE  /\ ~Active(t) /\ turn[t].messages = {}
                      /\ t \in known => t \in forgotten \union undelivered
    BY DEF DeletedIsForgotten
  <2>1. ~Active(t) /\ turn[t].messages = {}  BY Parts DEF Fits, Active
  <2>2. t \in known => outbox[Evidence(t)].status # "absent"  BY RowParts
  <2> QED  BY <2>1, <2>2 DEF IInv, RowsFit
<1> QED  BY <1>1, Invariant, PTL

(* ---- what is shown of the memory --------------------------------------- *)

ShownFits == \A t \in Turns : turn[t].memory = "accepted" => t \in known

(* What a step may do to what is shown.                                    *)
LEMMA ShownKept ==
  ASSUME ShownFits, known \subseteq known',
         \A t \in Turns : turn'[t].memory = "accepted" =>
                            turn[t].memory = "accepted" \/ t \in known'
  PROVE  ShownFits'
BY DEF ShownFits

LEMMA ShownOne ==
  ASSUME IInv, ShownFits, NEW t \in Turns, NEW x, turn' = [turn EXCEPT ![t] = x],
         x.memory = "accepted" => turn[t].memory = "accepted" \/ t \in known',
         known \subseteq known'
  PROVE  ShownFits'
<1>1. \A s \in Turns : turn'[s] = IF s = t THEN x ELSE turn[s]  BY Parts
<1> QED  BY <1>1, ShownKept

(* Nothing is shown and nothing is lost.                                   *)
LEMMA ShownSame == ShownFits /\ UNCHANGED turn /\ known \subseteq known' => ShownFits'
BY ShownKept

LEMMA UserShown ==
  ASSUME IInv, ShownFits, NEW t \in Turns,
         CreateTurn(t) \/ CancelRead(t) \/ CancelAccepted(t) \/ CancelRunning(t)
  PROVE  ShownFits'
<1>0. turn[t] \in TurnRow  BY Parts
<1>1. CASE CancelRead(t)  BY <1>1, ShownSame DEF CancelRead, deliveryVars
<1>2. CASE CreateTurn(t)
  <2> DEFINE x == [turn[t] EXCEPT !.status = "accepted", !.messages = {"user"}]
  <2>1. turn' = [turn EXCEPT ![t] = x]  BY <1>0, <1>2, Parts DEF CreateTurn
  <2>2. x.memory = turn[t].memory  BY <1>0 DEF TurnRow
  <2> HIDE DEF x
  <2> QED  BY <1>2, <2>1, <2>2, ShownOne DEF CreateTurn, deliveryVars
<1>3. CASE CancelAccepted(t)
  <2> DEFINE x == [turn[t] EXCEPT !.status = IF @ = "accepted" THEN "cancelled" ELSE @,
                                  !.events = @ \union {"turn.cancelled"}]
  <2>1. turn' = [turn EXCEPT ![t] = x]  BY <1>0, <1>3, Parts DEF CancelAccepted
  <2>2. x.memory = turn[t].memory  BY <1>0 DEF TurnRow
  <2> HIDE DEF x
  <2> QED  BY <1>3, <2>1, <2>2, ShownOne DEF CancelAccepted, deliveryVars
<1>4. CASE CancelRunning(t)
  <2> DEFINE x == [turn[t] EXCEPT !.status = IF @ = "running" THEN "cancelling" ELSE @]
  <2>1. turn' = [turn EXCEPT ![t] = x]  BY <1>0, <1>4, Parts DEF CancelRunning
  <2>2. x.memory = turn[t].memory  BY <1>0 DEF TurnRow
  <2> HIDE DEF x
  <2> QED  BY <1>4, <2>1, <2>2, ShownOne DEF CancelRunning, deliveryVars
<1> QED  BY <1>1, <1>2, <1>3, <1>4

LEMMA LeaseShown ==
  ASSUME IInv, ShownFits, NEW t \in Turns,
         TurnLeaseExpires(t) \/ \E w \in Workers :
            ClaimTurn(w, t) \/ ReclaimCancelling(w, t) \/ Heartbeat(w, t)
  PROVE  ShownFits'
<1>0. turn[t] \in TurnRow  BY Parts
<1>1. PICK x : turn' = [turn EXCEPT ![t] = x] /\ x.memory = turn[t].memory
  <2>1. CASE TurnLeaseExpires(t)
    <3>1. turn' = [turn EXCEPT ![t] = [turn[t] EXCEPT !.lease = "expired"]]
      BY <1>0, <2>1, Parts DEF TurnLeaseExpires
    <3>2. [turn[t] EXCEPT !.lease = "expired"].memory = turn[t].memory  BY <1>0 DEF TurnRow
    <3> QED  BY <3>1, <3>2
  <2>2. ASSUME NEW w \in Workers, ClaimTurn(w, t)
        PROVE  \E x : turn' = [turn EXCEPT ![t] = x] /\ x.memory = turn[t].memory
    <3> DEFINE x == [turn[t] EXCEPT !.status = "running", !.owner = w, !.lease = "live",
                       !.attempts = OneMore(turn[t].attempts, TurnMaxAttempts)]
    <3>1. turn' = [turn EXCEPT ![t] = x]  BY <1>0, <2>2, Parts DEF ClaimTurn
    <3>2. x.memory = turn[t].memory  BY <1>0 DEF TurnRow
    <3> QED  BY <3>1, <3>2
  <2>3. ASSUME NEW w \in Workers, ReclaimCancelling(w, t)
        PROVE  \E x : turn' = [turn EXCEPT ![t] = x] /\ x.memory = turn[t].memory
    <3>1. turn' = [turn EXCEPT ![t] = [turn[t] EXCEPT !.status = "cancelled"]]
      BY <1>0, <2>3, Parts DEF ReclaimCancelling
    <3>2. [turn[t] EXCEPT !.status = "cancelled"].memory = turn[t].memory
      BY <1>0 DEF TurnRow
    <3> QED  BY <3>1, <3>2
  <2>4. ASSUME NEW w \in Workers, Heartbeat(w, t)
        PROVE  \E x : turn' = [turn EXCEPT ![t] = x] /\ x.memory = turn[t].memory
    <3>1. turn' = [turn EXCEPT ![t] = [turn[t] EXCEPT !.lease = "live"]]
      BY <1>0, <2>4, Parts DEF Heartbeat
    <3>2. [turn[t] EXCEPT !.lease = "live"].memory = turn[t].memory  BY <1>0 DEF TurnRow
    <3> QED  BY <3>1, <3>2
  <2> QED  BY <2>1, <2>2, <2>3, <2>4
<1>2. known' = known
  BY DEF TurnLeaseExpires, ClaimTurn, ReclaimCancelling, Heartbeat, deliveryVars
<1> QED  BY <1>1, <1>2, ShownOne

(* A worker shows "pending", or "accepted" in the step in which the memory *)
(* takes the evidence.                                                     *)
LEMMA WorkerShown ==
  ASSUME IInv, ShownFits, NEW w \in Workers,
         Execute(w) \/ GraphStep(w) \/ CrashWorker(w)
  PROVE  ShownFits'
<1> DEFINE t == worker[w].turn
<1>0. worker[w].pc # "idle" => t \in Turns /\ turn[t] \in TurnRow  BY Parts
<1>1. CASE StartGraph(w) \/ GraphStep(w) \/ FencedOut(w) \/ CrashWorker(w)
  BY <1>1, ShownSame DEF StartGraph, GraphStep, FencedOut, CrashWorker, deliveryVars
<1>2. CASE Finalize(w)
  <2>1. worker[w].pc # "idle" /\ known' = known  BY <1>2 DEF Finalize
  <2>2. CASE thread = "active"
    <3> DEFINE x == [turn[t] EXCEPT !.status = "completed", !.messages = @ \union {"assistant"},
                       !.events = @ \union {"answer.completed"}, !.memory = "pending"]
    <3>1. turn' = [turn EXCEPT ![t] = x]  BY <1>0, <1>2, <2>1, <2>2, Parts DEF Finalize
    <3>2. x.memory = "pending"  BY <1>0, <2>1 DEF TurnRow
    <3> HIDE DEF x
    <3> QED  BY <1>0, <2>1, <3>1, <3>2, ShownOne
  <2>3. CASE thread # "active"
    <3> DEFINE x == [turn[t] EXCEPT !.status = "cancelled"]
    <3>1. turn' = [turn EXCEPT ![t] = x]  BY <1>0, <1>2, <2>1, <2>3, Parts DEF Finalize
    <3>2. x.memory = turn[t].memory  BY <1>0, <2>1 DEF TurnRow
    <3> HIDE DEF x
    <3> QED  BY <1>0, <2>1, <3>1, <3>2, ShownOne
  <2> QED  BY <2>2, <2>3
<1>3. CASE ExecutionRaises(w)
  <2>1. worker[w].pc # "idle" /\ known' = known
    BY <1>3 DEF ExecutionRaises, deliveryVars
  <2>2. CASE UNCHANGED turn  BY <2>1, <2>2, ShownSame
  <2>3. CASE turn' # turn
    <3> DEFINE x == [turn[t] EXCEPT !.status = "failed", !.events = @ \union {"turn.failed"}]
    <3>1. turn' = [turn EXCEPT ![t] = x]
      BY <1>0, <1>3, <2>1, <2>3, Parts DEF ExecutionRaises
    <3>2. x.memory = turn[t].memory  BY <1>0, <2>1 DEF TurnRow
    <3> HIDE DEF x
    <3> QED  BY <1>0, <2>1, <3>1, <3>2, ShownOne
  <2> QED  BY <2>2, <2>3
<1>4. CASE MemoryAck(w)
  <2>1. CASE UNCHANGED <<turn, known>>  BY <2>1, ShownSame
  <2>2. CASE outbox[Evidence(t)].status \in {"pending", "retry_wait"}
    <3> DEFINE x == [turn[t] EXCEPT !.memory = "accepted"]
    <3>1. turn' = [turn EXCEPT ![t] = x] /\ known' = known \union {t} /\ t \in Turns
      BY <1>0, <1>4, <2>2, Parts DEF MemoryAck
    <3> HIDE DEF x
    <3> QED  BY <3>1, ShownOne
  <2> QED  BY <1>4, <2>1, <2>2 DEF MemoryAck
<1>5. CASE MemoryAckFails(w)
  <2>1. UNCHANGED turn /\ known \subseteq known'  BY <1>5 DEF MemoryAckFails
  <2> QED  BY <2>1, ShownSame
<1> QED  BY <1>1, <1>2, <1>3, <1>4, <1>5 DEF Execute

(* A publisher shows "accepted" of what was taken before (PublishersFit),  *)
(* fenced or not.                                                          *)
LEMMA PublisherShown ==
  ASSUME IInv, ShownFits, NEW p \in Publishers,
         ClaimRows(p) \/ Deliver(p) \/ CrashPublisher(p)
  PROVE  ShownFits'
<1> DEFINE r == pub[p].row
<1>1. CASE \/ ClaimRows(p) \/ EndBatch(p) \/ CrashPublisher(p)
           \/ \E s \in Rows : BeginRow(p, s)
  BY <1>1, ShownSame DEF ClaimRows, EndBatch, CrashPublisher, BeginRow, turnVars
<1>2. CASE Send(p) \/ SendFails(p)
  <2>1. UNCHANGED turn /\ known \subseteq known'
    BY <1>2 DEF Send, SendFails, Arrive, turnVars
  <2> QED  BY <2>1, ShownSame
<1>3. CASE MarkDelivered(p)
  <2>1. pub[p].pc \in {"mark", "skip"} /\ known' = known  BY <1>3 DEF MarkDelivered
  <2>2. r[2] \in Turns /\ turn[r[2]] \in TurnRow  BY <2>1, RowOf, Parts
  <2>3. CASE UNCHANGED turn  BY <2>1, <2>3, ShownSame
  <2>4. CASE r[1] = "evidence" /\ pub[p].pc = "mark" /\ turn' # turn
    <3> DEFINE x == [turn[r[2]] EXCEPT !.memory = "accepted"]
    <3>1. r[2] \in known  BY <2>4 DEF IInv, PublishersFit, PublisherFits
    <3>2. turn' = [turn EXCEPT ![r[2]] = x]  BY <1>3, <2>2, <2>4, Parts DEF MarkDelivered
    <3> HIDE DEF x
    <3> QED  BY <2>1, <2>2, <3>1, <3>2, ShownOne
  <2> QED  BY <1>3, <2>3, <2>4 DEF MarkDelivered
<1>4. CASE HandleFailure(p)
  <2>1. pub[p].pc = "failed" /\ known' = known  BY <1>4 DEF HandleFailure
  <2>2. r[2] \in Turns /\ turn[r[2]] \in TurnRow  BY <2>1, RowOf, Parts
  <2>3. CASE UNCHANGED turn  BY <2>1, <2>3, ShownSame
  <2>4. CASE turn' # turn
    <3>1. PICK shown \in {"failed", "retrying"} :
            turn' = [turn EXCEPT ![r[2]] = [turn[r[2]] EXCEPT !.memory = shown]]
      BY <1>4, <2>2, <2>4, Parts DEF HandleFailure
    <3> DEFINE x == [turn[r[2]] EXCEPT !.memory = shown]
    <3>2. x.memory # "accepted"  BY <2>2 DEF TurnRow
    <3>3. turn' = [turn EXCEPT ![r[2]] = x]  BY <3>1
    <3> HIDE DEF x
    <3> QED  BY <2>1, <2>2, <3>2, <3>3, ShownOne
  <2> QED  BY <2>3, <2>4
<1> QED  BY <1>1, <1>2, <1>3, <1>4 DEF Deliver

LEMMA DeletionShown ==
  ASSUME IInv, ShownFits,
         \/ DeleteThread \/ JobLeaseExpires
         \/ \E r \in Rows : RowLeaseExpires(r)
         \/ \E j \in JobWorkers : ClaimJob(j) \/ WorkJob(j) \/ CrashJobWorker(j)
  PROVE  ShownFits'
<1>0. \A t \in Turns : turn[t] \in TurnRow  BY Parts
<1>1. CASE DeleteThread
  <2>1. turn' = [t \in Turns |-> [turn[t] EXCEPT !.status = Stopped(t)]] /\ known' = known
    BY <1>1 DEF DeleteThread
  <2>2. \A t \in Turns : turn'[t].memory = turn[t].memory  BY <1>0, <2>1 DEF TurnRow
  <2> QED  BY <2>1, <2>2, ShownKept
<1>2. ASSUME NEW j \in JobWorkers, DeleteCleans(j) PROVE ShownFits'
  <2>1. /\ turn' = [t \in Turns |-> [turn[t] EXCEPT !.messages = {}, !.events = {}]]
        /\ known' = known
    BY <1>2 DEF DeleteCleans, deliveryVars
  <2>2. \A t \in Turns : turn'[t].memory = turn[t].memory  BY <1>0, <2>1 DEF TurnRow
  <2> QED  BY <2>1, <2>2, ShownKept
<1>3. CASE JobLeaseExpires \/ \E r \in Rows : RowLeaseExpires(r)
  BY <1>3, ShownSame DEF JobLeaseExpires, RowLeaseExpires, turnVars, deliveryVars
<1>4. ASSUME NEW j \in JobWorkers,
             ClaimJob(j) \/ DeleteWaits(j) \/ JobRaises(j) \/ CrashJobWorker(j)
      PROVE  ShownFits'
  BY <1>4, ShownSame
  DEF ClaimJob, DeleteWaits, JobRaises, CrashJobWorker, turnVars, deliveryVars
<1> QED  BY <1>1, <1>2, <1>3, <1>4 DEF WorkJob

LEMMA StepShown == IInv /\ ShownFits /\ [Next]_vars => ShownFits'
<1> SUFFICES ASSUME IInv, ShownFits, [Next]_vars PROVE ShownFits'  OBVIOUS
<1>1. CASE UNCHANGED vars  BY <1>1, ShownSame DEF vars, turnVars, deliveryVars
<1>2. CASE Next
  BY <1>2, UserShown, LeaseShown, WorkerShown, PublisherShown, DeletionShown DEF Next, Claims
<1> QED  BY <1>1, <1>2

(* What a client is shown of the memory, and what a delivered row says, is *)
(* so, although late publishers mark what others have delivered and the    *)
(* graph delivers past the publishers (mark_delivered, MEMORYACK).         *)
THEOREM ShownIsSo == Spec => []AcceptedIsKnown
<1>1. Init => ShownFits  BY DEF Init, ShownFits
<1>2. IInv /\ ShownFits => AcceptedIsKnown
  BY DEF IInv, RowsFit, ShownFits, AcceptedIsKnown
<1> QED  BY <1>1, <1>2, InitIInv, StepIInv, StepShown, PTL DEF Spec

(* ---- the contract ------------------------------------------------------ *)

PhaseOf(status) ==
  CASE status = "absent"                   -> "none"
    [] status \in {"accepted", "running"} -> "open"
    [] status = "cancelling"               -> "stopping"
    [] status = "completed"                -> "answered"
    [] OTHER                               -> status

LEMMA PhaseIs == Phase = [t \in Turns |-> PhaseOf(turn[t].status)]
BY DEF Phase, PhaseOf

LEMMA PhaseNext == Phase' = [t \in Turns |-> PhaseOf(turn'[t].status)]
BY DEF Phase, PhaseOf

(* Steps that change no phase *)
LEMMA NoPhase ==
  ASSUME \A t \in Turns : PhaseOf(turn'[t].status) = PhaseOf(turn[t].status)
  PROVE  Phase' = Phase
BY PhaseIs, PhaseNext

LEMMA OnePhase ==
  ASSUME NEW t \in Turns,
         \A s \in Turns \ {t} : turn'[s].status = turn[s].status
  PROVE  Phase' = [Phase EXCEPT ![t] = PhaseOf(turn'[t].status)]
BY PhaseIs, PhaseNext
SameView == UNCHANGED <<thread, Phase, known, forgotten>>

Follows == Contract!ContractNext \/ SameView

LEMMA InitContract == Init => Contract!ContractInit
BY PhaseIs DEF Init, Contract!ContractInit, PhaseOf

(* The status of one turn changes, or none. *)
LEMMA OneTurn ==
  ASSUME NEW t \in Turns, \A s \in Turns \ {t} : turn'[s].status = turn[s].status,
         UNCHANGED <<thread, known, forgotten>>
  PROVE  /\ Contract!Becomes(t, PhaseOf(turn'[t].status))
         /\ Phase[t] = PhaseOf(turn[t].status)
BY PhaseIs, OnePhase DEF Contract!Becomes

LEMMA NoTurn ==
  ASSUME \A s \in Turns : turn'[s].status = turn[s].status,
         UNCHANGED <<thread, known, forgotten>>
  PROVE  Follows
<1>1. Phase' = Phase  BY NoPhase
<1> QED  BY <1>1 DEF Follows, SameView

LEMMA UserFollows ==
  ASSUME IInv, NEW t \in Turns
  PROVE  /\ CreateTurn(t) => Follows
         /\ CancelRead(t) => Follows
         /\ CancelAccepted(t) => Follows
         /\ CancelRunning(t) => Follows
<1>0. turn \in [Turns -> TurnRow] /\ turn[t] \in TurnRow /\ Fits(t, turn[t])  BY Parts
<1>1. ASSUME CreateTurn(t) PROVE Follows
  <2>1. /\ \A s \in Turns \ {t} : turn'[s].status = turn[s].status
        /\ turn'[t].status = "accepted"
    BY <1>0, <1>1 DEF CreateTurn, TurnRow
  <2>2. Contract!Becomes(t, "open")
    <3>1. PhaseOf("accepted") = "open"  BY DEF PhaseOf
    <3> QED  BY <1>1, <2>1, <3>1, OneTurn DEF CreateTurn, deliveryVars, deletionVars
  <2>3. Phase[t] = "none" /\ \A s \in Turns : Phase[s] \notin Contract!Unanswered
    <3>1. \A s \in Turns : turn[s].status \in {"absent", "completed", "failed", "cancelled"}
      BY <1>1, Parts DEF CreateTurn, TurnRow, Active, ActiveStatus
    <3>2. /\ PhaseOf("absent") = "none" /\ PhaseOf("completed") = "answered"
          /\ PhaseOf("failed") = "failed" /\ PhaseOf("cancelled") = "cancelled"
      BY DEF PhaseOf
    <3>3. turn[t].status = "absent"  BY <1>1 DEF CreateTurn
    <3>4. \A s \in Turns : Phase[s] \in {"none", "answered", "failed", "cancelled"}
      BY <3>1, <3>2, PhaseIs
    <3> QED  BY <3>2, <3>3, <3>4, PhaseIs DEF Contract!Unanswered
  <2> QED
    BY <1>1, <2>2, <2>3 DEF Follows, Contract!ContractNext, Contract!Ask, CreateTurn
<1>2. ASSUME CancelRead(t) PROVE Follows
  BY <1>2, NoTurn DEF CancelRead, deliveryVars, deletionVars
<1>3. ASSUME CancelAccepted(t) PROVE Follows
  <2>1. /\ \A s \in Turns \ {t} : turn'[s].status = turn[s].status
        /\ turn'[t].status = IF turn[t].status = "accepted" THEN "cancelled" ELSE turn[t].status
        /\ UNCHANGED <<thread, known, forgotten>>
    BY <1>0, <1>3 DEF CancelAccepted, TurnRow, deliveryVars, deletionVars
  <2>2. CASE turn[t].status = "accepted"
    <3>1. PhaseOf("accepted") = "open" /\ PhaseOf("cancelled") = "cancelled"  BY DEF PhaseOf
    <3>2. Contract!Becomes(t, "cancelled") /\ Phase[t] = "open"
      BY <2>1, <2>2, <3>1, OneTurn
    <3> QED
      BY <3>2 DEF Follows, Contract!ContractNext, Contract!Cancel, Contract!Unanswered
  <2>3. CASE turn[t].status # "accepted"  BY <2>1, <2>3, NoTurn
  <2> QED  BY <2>2, <2>3
<1>4. ASSUME CancelRunning(t) PROVE Follows
  <2>1. /\ \A s \in Turns \ {t} : turn'[s].status = turn[s].status
        /\ turn'[t].status = IF turn[t].status = "running" THEN "cancelling" ELSE turn[t].status
        /\ UNCHANGED <<thread, known, forgotten>>
    BY <1>0, <1>4 DEF CancelRunning, TurnRow, deliveryVars, deletionVars
  <2>2. CASE turn[t].status = "running"
    <3>1. PhaseOf("running") = "open" /\ PhaseOf("cancelling") = "stopping"  BY DEF PhaseOf
    <3>2. Contract!Becomes(t, "stopping") /\ Phase[t] = "open"
      BY <2>1, <2>2, <3>1, OneTurn
    <3> QED  BY <3>2 DEF Follows, Contract!ContractNext, Contract!Stop
  <2>3. CASE turn[t].status # "running"  BY <2>1, <2>3, NoTurn
  <2> QED  BY <2>2, <2>3
<1> QED  BY <1>1, <1>2, <1>3, <1>4

LEMMA WorkerFollows ==
  ASSUME IInv, NEW w \in Workers
  PROVE  /\ \A t \in Turns : ClaimTurn(w, t) => Follows
         /\ \A t \in Turns : ReclaimCancelling(w, t) => Follows
         /\ StartGraph(w) \/ GraphStep(w) \/ FencedOut(w) \/ CrashWorker(w) => Follows
         /\ Finalize(w) => Follows
         /\ ExecutionRaises(w) => Follows
         /\ \A t \in Turns : Heartbeat(w, t) => Follows
<1>0. /\ turn \in [Turns -> TurnRow] /\ \A t \in Turns : turn[t] \in TurnRow /\ Fits(t, turn[t])
      /\ worker[w].pc # "idle" => worker[w].turn \in Turns
  BY Parts
<1>p. /\ PhaseOf("accepted") = "open" /\ PhaseOf("running") = "open"
      /\ PhaseOf("cancelling") = "stopping" /\ PhaseOf("completed") = "answered"
      /\ PhaseOf("failed") = "failed" /\ PhaseOf("cancelled") = "cancelled"
  BY DEF PhaseOf
<1>1. ASSUME NEW t \in Turns, ClaimTurn(w, t) PROVE Follows
  <2>1. /\ \A s \in Turns \ {t} : turn'[s].status = turn[s].status
        /\ turn'[t].status = "running" /\ turn[t].status \in {"accepted", "running"}
        /\ UNCHANGED <<thread, known, forgotten>>
    BY <1>0, <1>1 DEF ClaimTurn, Claimable, TurnRow, deliveryVars, deletionVars
  <2>2. Phase' = Phase  BY <1>p, <2>1, NoPhase
  <2> QED  BY <2>1, <2>2 DEF Follows, SameView
<1>2. ASSUME NEW t \in Turns, ReclaimCancelling(w, t) PROVE Follows
  <2>1. /\ \A s \in Turns \ {t} : turn'[s].status = turn[s].status
        /\ turn'[t].status = "cancelled" /\ turn[t].status = "cancelling"
        /\ UNCHANGED <<thread, known, forgotten>>
    BY <1>0, <1>2 DEF ReclaimCancelling, TurnRow, deliveryVars, deletionVars
  <2>2. Contract!Becomes(t, "cancelled") /\ Phase[t] = "stopping"
    BY <1>p, <2>1, OneTurn
  <2> QED
    BY <2>2 DEF Follows, Contract!ContractNext, Contract!Cancel, Contract!Unanswered
<1>3. ASSUME StartGraph(w) \/ GraphStep(w) \/ FencedOut(w) \/ CrashWorker(w) PROVE Follows
  BY <1>3, NoTurn
  DEF StartGraph, GraphStep, FencedOut, CrashWorker, deliveryVars, deletionVars
<1>4. ASSUME Finalize(w) PROVE Follows
  <2> DEFINE t == worker[w].turn
  <2>0. t \in Turns /\ turn[t].status = "running"  BY <1>0, <1>4 DEF Finalize, Holds
  <2>1. thread = "active"  BY <1>0, <2>0 DEF Fits
  <2>2. /\ \A s \in Turns \ {t} : turn'[s].status = turn[s].status
        /\ turn'[t].status = "completed" /\ UNCHANGED <<thread, known, forgotten>>
    <3>1. turn' = [turn EXCEPT ![t].status = "completed",
                               ![t].messages = @ \union {"assistant"},
                               ![t].events = @ \union {"answer.completed"},
                               ![t].memory = "pending"]
      BY <1>4, <2>1 DEF Finalize
    <3> DEFINE x == [turn[t] EXCEPT !.status = "completed",
                                    !.messages = @ \union {"assistant"},
                                    !.events = @ \union {"answer.completed"},
                                    !.memory = "pending"]
    <3>2. turn' = [turn EXCEPT ![t] = x]  BY <1>0, <2>0, <3>1
    <3>3. x.status = "completed"  BY <1>0, <2>0 DEF TurnRow
    <3>4. UNCHANGED <<thread, known, forgotten>>  BY <1>4 DEF Finalize, deletionVars
    <3> HIDE DEF x
    <3> QED  BY <1>0, <2>0, <3>2, <3>3, <3>4
  <2> HIDE DEF t
  <2>3. Contract!Becomes(t, "answered") /\ Phase[t] = "open"
    BY <1>p, <2>0, <2>2, OneTurn
  <2> QED  BY <2>0, <2>1, <2>3 DEF Follows, Contract!ContractNext, Contract!Answer
<1>5. ASSUME ExecutionRaises(w) PROVE Follows
  <2> DEFINE t == worker[w].turn
  <2>0. t \in Turns  BY <1>0, <1>5 DEF ExecutionRaises
  <2>1. CASE UNCHANGED turn
    BY <1>5, <2>1, NoTurn DEF ExecutionRaises, deliveryVars, deletionVars
  <2>2. CASE /\ turn[t].status = "running"
             /\ turn' = [turn EXCEPT ![t].status = "failed",
                                     ![t].events = @ \union {"turn.failed"}]
    <3>1. /\ \A s \in Turns \ {t} : turn'[s].status = turn[s].status
          /\ turn'[t].status = "failed" /\ UNCHANGED <<thread, known, forgotten>>
      BY <1>0, <1>5, <2>0, <2>2 DEF ExecutionRaises, TurnRow, deliveryVars, deletionVars
    <3>2. thread = "active" /\ turn[t].status = "running"  BY <1>0, <2>0, <2>2 DEF Fits
    <3> HIDE DEF t
    <3>3. Contract!Becomes(t, "failed") /\ Phase[t] = "open"
      BY <1>p, <2>0, <3>1, <3>2, OneTurn
    <3> QED  BY <2>0, <3>2, <3>3 DEF Follows, Contract!ContractNext, Contract!Fail
  <2> QED  BY <1>5, <2>1, <2>2 DEF ExecutionRaises, Holds
<1>6. ASSUME NEW t \in Turns, Heartbeat(w, t) PROVE Follows
  <2>1. \A s \in Turns : turn'[s].status = turn[s].status
    BY <1>0, <1>6 DEF Heartbeat, TurnRow
  <2> QED  BY <1>6, <2>1, NoTurn DEF Heartbeat, deliveryVars, deletionVars
<1> QED  BY <1>1, <1>2, <1>3, <1>4, <1>5, <1>6

(* The memory learns or forgets one turn. *)
LEMMA MemoryFollows ==
  ASSUME IInv, SameButMemory, UNCHANGED thread, NEW t \in Turns,
         outbox[Evidence(t)].status # "absent",
         \/ UNCHANGED <<known, forgotten>>
         \/ known' = known \union {t} /\ UNCHANGED forgotten
         \/ /\ forgotten' = forgotten \union {t} /\ UNCHANGED known
            /\ outbox[Deletion(t)].status # "absent"
  PROVE  Follows
<1>1. Phase' = Phase  BY NoPhase DEF SameButMemory
<1>2. Phase[t] = "answered"
  <2>1. turn[t].status = "completed"  BY Parts DEF Fits
  <2> QED  BY <2>1, PhaseIs DEF PhaseOf
<1>3. CASE UNCHANGED <<known, forgotten>>  BY <1>1, <1>3 DEF Follows, SameView
<1>4. CASE known' = known \union {t} /\ UNCHANGED forgotten
  BY <1>1, <1>2, <1>4 DEF Follows, Contract!ContractNext, Contract!Learn
<1>5. CASE /\ forgotten' = forgotten \union {t} /\ UNCHANGED known
           /\ outbox[Deletion(t)].status # "absent"
  <2>1. /\ thread # "active" /\ t \in known
        /\ thread = "deleted" => t \in forgotten
    BY <1>5 DEF IInv, RowsFit
  <2>2. CASE thread = "deleting"
    BY <1>1, <1>5, <2>1, <2>2 DEF Follows, Contract!ContractNext, Contract!Forget
  <2>3. CASE thread = "deleted"
    BY <1>1, <1>5, <2>1, <2>3 DEF Follows, SameView
  <2> QED  BY <2>1, <2>2, <2>3, RowParts
<1> QED  BY <1>3, <1>4, <1>5
LEMMA DeliveryFollows ==
  ASSUME IInv
  PROVE  /\ \A w \in Workers : MemoryAck(w) \/ MemoryAckFails(w) => Follows
         /\ \A p \in Publishers : Send(p) \/ SendFails(p) => Follows
         /\ \A p \in Publishers : MarkDelivered(p) \/ HandleFailure(p) => Follows
         /\ \A p \in Publishers : \/ ClaimRows(p) \/ EndBatch(p) \/ CrashPublisher(p)
                                  \/ \E r \in Rows : BeginRow(p, r)
              => Follows
<1>0. turn \in [Turns -> TurnRow]  BY Parts
<1>1. ASSUME NEW w \in Workers, MemoryAck(w) \/ MemoryAckFails(w) PROVE Follows
  <2> DEFINE t == worker[w].turn
  <2>1. t \in Turns /\ turn[t].status = "completed"
    BY <1>1 DEF IInv, WorkersFit, WorkerFits, MemoryAck, MemoryAckFails
  <2>2. outbox[Evidence(t)].status # "absent"  BY <2>1, Parts DEF Fits
  <2>3. SameButMemory
    <3>1. turn' = turn \/ turn' = [turn EXCEPT ![t].memory = "accepted"]
      BY <1>1 DEF MemoryAck, MemoryAckFails
    <3> QED  BY <2>1, <3>1, SameMemory, OtherMemory
  <2>4. UNCHANGED <<thread, forgotten>> /\ (known' = known \union {t} \/ known' = known)
    BY <1>1 DEF MemoryAck, MemoryAckFails, deletionVars
  <2> HIDE DEF t
  <2> QED  BY <2>1, <2>2, <2>3, <2>4, MemoryFollows
<1>2. ASSUME NEW p \in Publishers, Send(p) \/ SendFails(p) PROVE Follows
  <2> DEFINE r == pub[p].row
             t == r[2]
  <2>1. /\ pub[p].pc = "send" /\ UNCHANGED <<turn, thread>>
        /\ Arrive(r) \/ UNCHANGED <<known, forgotten>>
    BY <1>2 DEF Send, SendFails, turnVars, deletionVars
  <2>2. /\ r \in Rows /\ t \in Turns /\ outbox[r].status # "absent"
        /\ outbox[Evidence(t)].status # "absent"
        /\ r[1] = "evidence" \/ r[1] = "deletion"
    BY <2>1, RowOf
  <2>3. r[1] = "deletion" => r = Deletion(t)  BY <2>2, TwoRows
  <2>4. \/ UNCHANGED <<known, forgotten>>
        \/ known' = known \union {t} /\ UNCHANGED forgotten
        \/ /\ forgotten' = forgotten \union {t} /\ UNCHANGED known
           /\ outbox[Deletion(t)].status # "absent"
    BY <2>1, <2>2, <2>3 DEF Arrive
  <2>5. SameButMemory  BY <2>1, SameMemory
  <2> HIDE DEF r, t
  <2> QED  BY <2>1, <2>2, <2>4, <2>5, MemoryFollows
<1>3. ASSUME NEW p \in Publishers, MarkDelivered(p) \/ HandleFailure(p) PROVE Follows
  <2>1. pub[p].pc \notin {"idle", "look"} /\ UNCHANGED <<thread, known, forgotten>>
    BY <1>3 DEF MarkDelivered, HandleFailure, deletionVars
  <2>2. pub[p].row[2] \in Turns  BY <2>1, RowOf
  <2>3. \/ turn' = turn
        \/ \E m \in {"accepted", "failed", "retrying"} :
             turn' = [turn EXCEPT ![pub[p].row[2]].memory = m]
    BY <1>3 DEF MarkDelivered, HandleFailure
  <2>4. \A s \in Turns : turn'[s].status = turn[s].status
    BY <1>0, <2>2, <2>3 DEF TurnRow
  <2> QED  BY <2>1, <2>4, NoTurn
<1>4. ASSUME NEW p \in Publishers,
             \/ ClaimRows(p) \/ EndBatch(p) \/ CrashPublisher(p)
             \/ \E r \in Rows : BeginRow(p, r)
      PROVE  Follows
  BY <1>4, NoTurn
  DEF ClaimRows, EndBatch, CrashPublisher, BeginRow, turnVars, deletionVars
<1> QED  BY <1>1, <1>2, <1>3, <1>4

LEMMA DeletionFollows ==
  ASSUME IInv
  PROVE  /\ DeleteThread => Follows
         /\ \A j \in JobWorkers : DeleteCleans(j) => Follows
<1>0. turn \in [Turns -> TurnRow] /\ \A t \in Turns : turn[t] \in TurnRow  BY Parts
<1>p. /\ PhaseOf("accepted") = "open" /\ PhaseOf("running") = "open"
      /\ PhaseOf("cancelling") = "stopping" /\ PhaseOf("completed") = "answered"
      /\ PhaseOf("failed") = "failed" /\ PhaseOf("cancelled") = "cancelled"
      /\ PhaseOf("absent") = "none"
  BY DEF PhaseOf
<1>s. \A t \in Turns : turn[t].status \in {"absent", "accepted", "running", "cancelling",
                                          "completed", "failed", "cancelled"}
  BY <1>0 DEF TurnRow, ActiveStatus
<1>1. ASSUME DeleteThread PROVE Follows
  <2>1. /\ thread = "active" /\ thread' = "deleting" /\ UNCHANGED <<known, forgotten>>
        /\ \A t \in Turns : turn'[t].status = Stopped(t)
    <3>1. /\ thread = "active" /\ thread' = "deleting" /\ UNCHANGED <<known, forgotten>>
          /\ \A t \in Turns : turn'[t] = [turn[t] EXCEPT !.status = Stopped(t)]
      BY <1>1 DEF DeleteThread
    <3>2. ASSUME NEW t \in Turns PROVE turn'[t].status = Stopped(t)
      <4>1. turn[t] \in TurnRow  BY <1>0
      <4> QED  BY <3>1, <4>1 DEF TurnRow
    <3> QED  BY <3>1, <3>2
  <2> DEFINE stopped == [t \in Turns |-> IF turn[t].status = "accepted" THEN "cancelled"
                                         ELSE "stopping"]
  <2>2. stopped \in [Turns -> {"stopping", "cancelled"}]  OBVIOUS
  <2>3. Phase' = [t \in Turns |-> IF Phase[t] = "open" THEN stopped[t] ELSE Phase[t]]
    <3>1. \A t \in Turns :
            PhaseOf(turn'[t].status)
              = IF PhaseOf(turn[t].status) = "open" THEN stopped[t] ELSE PhaseOf(turn[t].status)
      BY <1>p, <1>s, <2>1 DEF Stopped
    <3>2. \A t \in Turns : Phase[t] = PhaseOf(turn[t].status)  BY PhaseIs
    <3> QED  BY <3>1, <3>2, PhaseNext
  <2> QED  BY <2>1, <2>2, <2>3 DEF Follows, Contract!ContractNext, Contract!Delete
<1>2. ASSUME NEW j \in JobWorkers, DeleteCleans(j) PROVE Follows
  <2>1. /\ jobber[j] # 0 /\ Quiet /\ (thread' = thread \/ thread' = "deleted")
        /\ \A t \in Turns : turn'[t].status = turn[t].status
        /\ UNCHANGED <<known, forgotten>>
    <3>1. /\ jobber[j] # 0 /\ Quiet /\ (thread' = thread \/ thread' = "deleted")
          /\ turn' = [t \in Turns |-> [turn[t] EXCEPT !.messages = {}, !.events = {}]]
          /\ UNCHANGED <<known, forgotten>>
      BY <1>2 DEF DeleteCleans, deliveryVars
    <3>2. \A t \in Turns : turn'[t] = [turn[t] EXCEPT !.messages = {}, !.events = {}]
      BY <3>1
    <3>3. ASSUME NEW t \in Turns PROVE turn'[t].status = turn[t].status
      <4>1. turn[t] \in TurnRow  BY <1>0
      <4> QED  BY <3>2, <4>1 DEF TurnRow
    <3> QED  BY <3>1, <3>3
  <2>2. Phase' = Phase  BY <2>1, NoPhase
  <2>3. thread # "active"  BY <2>1 DEF IInv, JobFits
  <2>4. \A t \in Turns : Phase[t] \notin Contract!Unanswered
    <3>1. \A t \in Turns : turn[t].status \in {"absent", "completed", "failed", "cancelled"}
      BY <1>s, <2>1 DEF Quiet, Active, ActiveStatus
    <3>2. \A t \in Turns : Phase[t] = PhaseOf(turn[t].status)  BY PhaseIs
    <3> QED  BY <1>p, <3>1, <3>2 DEF Contract!Unanswered
  <2>5. CASE thread' = thread  BY <2>1, <2>2, <2>5 DEF Follows, SameView
  <2>6. CASE thread = "deleting" /\ thread' = "deleted"
    BY <2>1, <2>2, <2>4, <2>6 DEF Follows, Contract!ContractNext, Contract!Gone
  <2> QED  BY <2>1, <2>3, <2>5, <2>6, RowParts
<1> QED  BY <1>1, <1>2

LEMMA StepContract == IInv /\ [Next]_vars => Follows
<1> SUFFICES ASSUME IInv, [Next]_vars PROVE Follows  OBVIOUS
<1>0. turn \in [Turns -> TurnRow]  BY Parts
<1>1. CASE UNCHANGED vars
  BY <1>1, NoTurn DEF vars, turnVars, deliveryVars, deletionVars
<1>2. ASSUME NEW t \in Turns,
             CreateTurn(t) \/ CancelRead(t) \/ CancelAccepted(t) \/ CancelRunning(t)
      PROVE  Follows
  BY <1>2, UserFollows
<1>3. ASSUME NEW w \in Workers, Claims(w) \/ Execute(w) \/ GraphStep(w) \/ CrashWorker(w)
      PROVE  Follows
  <2>1. CASE Claims(w)  BY <2>1, WorkerFollows DEF Claims
  <2>2. CASE Execute(w)  BY <2>2, WorkerFollows, DeliveryFollows DEF Execute
  <2> QED  BY <1>3, <2>1, <2>2, WorkerFollows
<1>4. ASSUME NEW t \in Turns, TurnLeaseExpires(t) \/ \E w \in Workers : Heartbeat(w, t)
      PROVE  Follows
  <2>1. CASE TurnLeaseExpires(t)
    <3>1. \A s \in Turns : turn'[s].status = turn[s].status
      BY <1>0, <2>1 DEF TurnLeaseExpires, TurnRow
    <3> QED  BY <2>1, <3>1, NoTurn DEF TurnLeaseExpires, deliveryVars, deletionVars
  <2> QED  BY <1>4, <2>1, WorkerFollows
<1>5. ASSUME NEW p \in Publishers, ClaimRows(p) \/ Deliver(p) \/ CrashPublisher(p)
      PROVE  Follows
  <2>1. CASE Deliver(p)  BY <2>1, DeliveryFollows DEF Deliver
  <2> QED  BY <1>5, <2>1, DeliveryFollows
<1>6. ASSUME NEW r \in Rows, RowLeaseExpires(r) PROVE Follows
  BY <1>6, NoTurn DEF RowLeaseExpires, turnVars, deletionVars
<1>7. ASSUME NEW j \in JobWorkers, ClaimJob(j) \/ WorkJob(j) \/ CrashJobWorker(j)
      PROVE  Follows
  <2>1. CASE DeleteCleans(j)  BY <2>1, DeletionFollows
  <2>2. CASE ClaimJob(j) \/ DeleteWaits(j) \/ JobRaises(j) \/ CrashJobWorker(j)
    BY <2>2, NoTurn
    DEF ClaimJob, DeleteWaits, JobRaises, CrashJobWorker, turnVars, deliveryVars
  <2> QED  BY <1>7, <2>1, <2>2 DEF WorkJob
<1>8. CASE JobLeaseExpires
  BY <1>8, NoTurn DEF JobLeaseExpires, turnVars, deliveryVars
<1> QED
  BY <1>1, <1>2, <1>3, <1>4, <1>5, <1>6, <1>7, <1>8, DeletionFollows DEF Next

(* The thread follows its contract, whatever processes crash, lose their   *)
(* leases or come back late: a cancelled turn is never answered, an end    *)
(* stays, only answers are shared, only what is shared is withdrawn, and   *)
(* the thread is gone only when nothing runs.                              *)
THEOREM ImplementsContract == Spec => FollowsContract
<1>1. IInv /\ [Next]_vars => [Contract!ContractNext]_(Contract!contractVars)
  BY StepContract DEF Follows, SameView, Contract!contractVars
<1> QED  BY <1>1, InitContract, Invariant, PTL
         DEF Spec, FollowsContract, Contract!ContractSpec
==============================================================================
