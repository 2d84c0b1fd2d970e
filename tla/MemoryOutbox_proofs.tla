------------------------- MODULE MemoryOutbox_proofs --------------------------
(***************************************************************************)
(* Proofs about MemoryOutbox, for every number of events, consumers and    *)
(* attempts.  The inductive invariant says what a consumer may rely on     *)
(* while its lease lasts: the deliveries it still has to do are not done.  *)
(* A second one, on top of it, bounds the attempts: each is paid for by    *)
(* the budget of the row or by a fault before it is made.                  *)
(***************************************************************************)
EXTENDS MemoryOutbox, TLAPS

OnlyTargets ==
  \A e \in Events, t \in Targets :
    delivery[e][t].status = "succeeded" => t \in TargetsFor(e)

(* A consumer past "next" is at a row.                                     *)
AtRow(c) == con[c].pc \notin {"idle", "next"} => con[c].cur \in Events

(* What list_deliveries read stays right as long as the fence holds.       *)
LeftOpen(c) ==
  con[c].pc \in {"deliver", "failed"} =>
    /\ con[c].left \subseteq TargetsFor(con[c].cur)
    /\ Fenced(con[c].cur, c) =>
         \A t \in con[c].left : delivery[con[c].cur][t].status # "succeeded"

IInv ==
  /\ TypeOK
  /\ LedgerExact
  /\ OnlyTargets
  /\ \A c \in Consumers : AtRow(c) /\ LeftOpen(c)

-----------------------------------------------------------------------------
(* The targets of an event are targets.                                    *)
LEMMA TargetsForType == \A e \in Events : TargetsFor(e) \subseteq Targets
BY OutboxAssumption DEF TargetsFor, Targets, EVENT_TARGETS

(* The initial state satisfies the invariant.                              *)
LEMMA InitIInv == Init => IInv
<1> SUFFICES ASSUME Init PROVE IInv
  OBVIOUS
<1> USE DEF Init
<1>1. TypeOK
  <2>1. Idle \in Consumer
    BY DEF Idle, Consumer, Targets
  <2> QED BY <2>1, OutboxAssumption DEF TypeOK, Row, RowStatus, Delivery, Events
<1>2. LedgerExact
  BY DEF LedgerExact
<1>3. OnlyTargets
  BY DEF OnlyTargets
<1>4. \A c \in Consumers : AtRow(c) /\ LeftOpen(c)
  BY DEF AtRow, LeftOpen, Idle
<1> QED BY <1>1, <1>2, <1>3, <1>4 DEF IInv

-----------------------------------------------------------------------------
(* The columns of a row that go together.                                  *)
RowsOK ==
  /\ row \in [Events -> Row]
  /\ \A e \in Events :
       /\ (row[e].status = "publishing") <=> (row[e].owner \in Consumers)
       /\ (row[e].status = "publishing") <=> (row[e].lease # "none")

(* A step of the scheduler, of time or of a commit keeps the invariant     *)
(* when it fences nobody in.                                               *)
LEMMA RowStep ==
  ASSUME IInv, RowsOK', UNCHANGED <<delivery, dispatched, con>>,
         refused' \subseteq Events, faults' \in 0..MaxFaults,
         \A e \in Events, c \in Consumers : Fenced(e, c)' => Fenced(e, c)
  PROVE  IInv'
<1>1. TypeOK'
  BY DEF IInv, TypeOK, RowsOK
<1>2. LedgerExact' /\ OnlyTargets'
  BY DEF IInv, LedgerExact, OnlyTargets
<1>3. ASSUME NEW c \in Consumers PROVE AtRow(c)' /\ LeftOpen(c)'
  <2>1. AtRow(c) /\ LeftOpen(c)
    BY DEF IInv
  <2>2. AtRow(c)'
    BY <2>1 DEF AtRow
  <2>3. LeftOpen(c)'
    BY <2>1 DEF LeftOpen, AtRow
  <2> QED BY <2>2, <2>3
<1> QED BY <1>1, <1>2, <1>3 DEF IInv

(* A step of consumer c keeps the invariant when c keeps its own part and  *)
(* touches no event another consumer is fenced in to.                      *)
LEMMA ConsumerStep ==
  ASSUME IInv, NEW c \in Consumers, RowsOK',
         delivery' \in [Events -> [Targets -> Delivery]],
         dispatched' \in [Events -> [Targets -> Nat]],
         refused' \subseteq Events, faults' \in 0..MaxFaults,
         con' \in [Consumers -> Consumer],
         \A d \in Consumers : d # c => con'[d] = con[d],
         \A e \in Events, d \in Consumers :
           d # c /\ Fenced(e, d)' => Fenced(e, d) /\ delivery'[e] = delivery[e],
         LedgerExact', OnlyTargets', AtRow(c)', LeftOpen(c)'
  PROVE  IInv'
<1>1. TypeOK'
  BY DEF TypeOK, RowsOK
<1>2. ASSUME NEW d \in Consumers, d # c PROVE AtRow(d)' /\ LeftOpen(d)'
  <2>1. AtRow(d) /\ LeftOpen(d) /\ con'[d] = con[d]
    BY <1>2 DEF IInv
  <2>2. AtRow(d)'
    BY <2>1 DEF AtRow
  <2>3. LeftOpen(d)'
    BY <1>2, <2>1 DEF LeftOpen, AtRow
  <2> QED BY <2>2, <2>3
<1> QED BY <1>1, <1>2 DEF IInv

-----------------------------------------------------------------------------
(* A row whose lease ends is a row.                                        *)
LEMMA ReleasedRow ==
  ASSUME NEW r \in Row, NEW status \in RowStatus, NEW due \in BOOLEAN
  PROVE  Released(r, status, due) \in Row
<1>1. r.gen \in Nat
  BY DEF Row
<1> QED BY <1>1 DEF Released, Row

-----------------------------------------------------------------------------
(* Steps that touch the rows only.                                         *)
LEMMA InsertInv == ASSUME IInv, NEW x \in Events, InsertEvent(x) PROVE IInv'
<1>1. RowsOK
  BY DEF IInv, TypeOK, RowsOK
<1>2. RowsOK' /\ \A e \in Events, c \in Consumers : Fenced(e, c)' => Fenced(e, c)
  BY <1>1 DEF InsertEvent, RowsOK, Row, RowStatus, Fenced
<1>3. refused' \subseteq Events /\ faults' \in 0..MaxFaults
  BY DEF InsertEvent, IInv, TypeOK
<1> QED BY <1>2, <1>3, RowStep DEF InsertEvent

LEMMA LeaseExpiresInv == ASSUME IInv, NEW x \in Events, LeaseExpires(x) PROVE IInv'
<1>1. RowsOK
  BY DEF IInv, TypeOK, RowsOK
<1>2. RowsOK' /\ \A e \in Events, c \in Consumers : Fenced(e, c)' => Fenced(e, c)
  BY <1>1 DEF LeaseExpires, RowsOK, Row, Fenced
<1>3. refused' \subseteq Events /\ faults' \in 0..MaxFaults
  BY OutboxAssumption DEF LeaseExpires, Fault, IInv, TypeOK
<1> QED BY <1>2, <1>3, RowStep DEF LeaseExpires

LEMMA BackoffInv == ASSUME IInv, NEW x \in Events, BackoffElapses(x) PROVE IInv'
<1>1. RowsOK
  BY DEF IInv, TypeOK, RowsOK
<1>2. RowsOK' /\ \A e \in Events, c \in Consumers : Fenced(e, c)' => Fenced(e, c)
  BY <1>1 DEF BackoffElapses, RowsOK, Row, Fenced
<1>3. refused' \subseteq Events /\ faults' \in 0..MaxFaults
  BY DEF BackoffElapses, IInv, TypeOK
<1> QED BY <1>2, <1>3, RowStep DEF BackoffElapses

LEMMA RecoverInv == ASSUME IInv, RecoverExpiredLeases PROVE IInv'
<1>1. RowsOK
  BY DEF IInv, TypeOK, RowsOK
<1>2. ASSUME NEW e \in Events
      PROVE  row'[e] = row[e] \/ row'[e] = Released(row[e], "retry_wait", TRUE)
  BY DEF RecoverExpiredLeases
<1>3. row' \in [Events -> Row]
  <2>1. \A e \in Events : row'[e] \in Row
    <3>1. "retry_wait" \in RowStatus
      BY DEF RowStatus
    <3> QED BY <1>1, <1>2, <3>1, ReleasedRow DEF RowsOK
  <2> QED BY <2>1 DEF RecoverExpiredLeases
<1>4. ASSUME NEW e \in Events
      PROVE  /\ (row'[e].status = "publishing") <=> (row'[e].owner \in Consumers)
             /\ (row'[e].status = "publishing") <=> (row'[e].lease # "none")
             /\ \A c \in Consumers : Fenced(e, c)' => Fenced(e, c)
  <2>1. CASE row'[e] = row[e]
    BY <2>1, <1>1 DEF RowsOK, Fenced, RecoverExpiredLeases
  <2>2. CASE row'[e] = Released(row[e], "retry_wait", TRUE)
    BY <2>2, OutboxAssumption DEF Fenced, Released
  <2> QED BY <2>1, <2>2, <1>2
<1>5. refused' \subseteq Events /\ faults' \in 0..MaxFaults
  BY DEF RecoverExpiredLeases, IInv, TypeOK
<1>6. RowsOK'
  BY <1>3, <1>4 DEF RowsOK
<1> QED BY <1>4, <1>5, <1>6, RowStep DEF RecoverExpiredLeases

LEMMA HeartbeatInv == ASSUME IInv, NEW c \in Consumers, Heartbeat(c) PROVE IInv'
<1>1. RowsOK
  BY DEF IInv, TypeOK, RowsOK
<1>2. ASSUME NEW e \in Events
      PROVE  row'[e] = row[e]
             \/ (row[e].status = "publishing" /\ row'[e] = [row[e] EXCEPT !.lease = "live"])
  BY DEF Heartbeat, Renewed
<1>3. RowsOK' /\ \A e \in Events, d \in Consumers : Fenced(e, d)' => Fenced(e, d)
  BY <1>1, <1>2 DEF Heartbeat, RowsOK, Row, Fenced
<1>4. refused' \subseteq Events /\ faults' \in 0..MaxFaults
  BY DEF Heartbeat, IInv, TypeOK
<1> QED BY <1>3, <1>4, RowStep DEF Heartbeat

-----------------------------------------------------------------------------
(* Steps of a consumer that write neither rows nor deliveries.             *)
LEMMA ReadingStep ==
  ASSUME IInv, NEW c \in Consumers, UNCHANGED <<row, delivery, dispatched>>,
         refused' \subseteq Events, faults' \in 0..MaxFaults,
         con' \in [Consumers -> Consumer],
         \A d \in Consumers : d # c => con'[d] = con[d],
         AtRow(c)', LeftOpen(c)'
  PROVE  IInv'
<1>1. RowsOK'
  BY DEF IInv, TypeOK, RowsOK
<1>2. LedgerExact' /\ OnlyTargets'
  BY DEF IInv, LedgerExact, OnlyTargets
<1>3. /\ delivery' \in [Events -> [Targets -> Delivery]]
      /\ dispatched' \in [Events -> [Targets -> Nat]]
  BY DEF IInv, TypeOK
<1>4. \A e \in Events, d \in Consumers :
        d # c /\ Fenced(e, d)' => Fenced(e, d) /\ delivery'[e] = delivery[e]
  BY DEF Fenced
<1> QED BY <1>1, <1>2, <1>3, <1>4, ConsumerStep

(* Leaving a row keeps the batch.                                          *)
LEMMA NextRowType ==
  ASSUME TypeOK, NEW c \in Consumers, NextRow(c)
  PROVE  /\ con' \in [Consumers -> Consumer]
         /\ \A d \in Consumers : d # c => con'[d] = con[d]
         /\ con'[c].pc = "next" /\ con'[c].claimed = con[c].claimed
<1> DEFINE k == [con[c] EXCEPT !.pc = "next", !.cur = NoEvent, !.left = {},
                               !.seen = [t \in Targets |-> 0]]
<1>1. con \in [Consumers -> Consumer] /\ con[c] \in Consumer
  BY DEF TypeOK
<1>2. k \in Consumer
  BY <1>1 DEF Consumer
<1>3. con' = [con EXCEPT ![c] = k]
  BY DEF NextRow
<1>4. k.pc = "next" /\ k.claimed = con[c].claimed
  BY <1>1 DEF Consumer
<1> HIDE DEF k
<1> QED BY <1>1, <1>2, <1>3, <1>4

(* So does going on to the next delivery.                                  *)
LEMMA DeliveryDoneType ==
  ASSUME TypeOK, NEW c \in Consumers, NEW t \in Targets, DeliveryDone(c, t)
  PROVE  /\ con' \in [Consumers -> Consumer]
         /\ \A d \in Consumers : d # c => con'[d] = con[d]
         /\ con'[c].pc \in {"finalize", "deliver"}
         /\ con'[c].claimed = con[c].claimed /\ con'[c].cur = con[c].cur
         /\ con'[c].left = con[c].left \ {t}
<1> DEFINE pc == IF con[c].left = {t} THEN "finalize" ELSE "deliver"
           k == [con[c] EXCEPT !.left = con[c].left \ {t}, !.pc = pc]
<1>1. con \in [Consumers -> Consumer] /\ con[c] \in Consumer
  BY DEF TypeOK
<1>2. pc \in {"finalize", "deliver"}
  OBVIOUS
<1>3. k \in Consumer
  <2> HIDE DEF pc
  <2> QED BY <1>1, <1>2 DEF Consumer
<1>4. con' = [con EXCEPT ![c] = k]
  BY DEF DeliveryDone
<1>5. /\ k.pc = pc /\ k.claimed = con[c].claimed /\ k.cur = con[c].cur
      /\ k.left = con[c].left \ {t}
  <2> HIDE DEF pc
  <2> QED BY <1>1 DEF Consumer
<1> HIDE DEF k, pc
<1> QED BY <1>1, <1>2, <1>3, <1>4, <1>5

LEMMA IdleType == Idle \in Consumer
  BY DEF Idle, Consumer, Targets

LEMMA BeginRowInv ==
  ASSUME IInv, NEW c \in Consumers, NEW e \in Events, BeginRow(c, e) PROVE IInv'
<1> DEFINE k == [con[c] EXCEPT !.pc = "list", !.cur = e, !.todo = con[c].todo \ {e}]
<1>1. /\ con' \in [Consumers -> Consumer]
      /\ \A d \in Consumers : d # c => con'[d] = con[d]
      /\ con'[c].pc = "list" /\ con'[c].cur = e
  <2>1. con \in [Consumers -> Consumer] /\ con[c] \in Consumer
    BY DEF IInv, TypeOK
  <2>2. k \in Consumer /\ k.pc = "list" /\ k.cur = e
    BY <2>1 DEF Consumer
  <2>3. con' = [con EXCEPT ![c] = k]
    BY DEF BeginRow
  <2> HIDE DEF k
  <2> QED BY <2>1, <2>2, <2>3
<1>2. AtRow(c)' /\ LeftOpen(c)'
  BY <1>1 DEF AtRow, LeftOpen
<1> QED BY <1>1, <1>2, ReadingStep DEF BeginRow, IInv, TypeOK

LEMMA IdleInv ==
  ASSUME IInv, NEW c \in Consumers, con' = [con EXCEPT ![c] = Idle],
         UNCHANGED <<row, delivery, dispatched, refused>>, faults' \in 0..MaxFaults
  PROVE  IInv'
<1>1. /\ con' \in [Consumers -> Consumer]
      /\ \A d \in Consumers : d # c => con'[d] = con[d]
      /\ con'[c] = Idle
  BY IdleType DEF IInv, TypeOK
<1>2. AtRow(c)' /\ LeftOpen(c)'
  BY <1>1 DEF AtRow, LeftOpen, Idle
<1> QED BY <1>1, <1>2, ReadingStep DEF IInv, TypeOK

LEMMA EndBatchInv == ASSUME IInv, NEW c \in Consumers, EndBatch(c) PROVE IInv'
  BY IdleInv DEF EndBatch, IInv, TypeOK

LEMMA StopConsumerInv == ASSUME IInv, NEW c \in Consumers, StopConsumer(c) PROVE IInv'
<1>1. faults' \in 0..MaxFaults
  BY OutboxAssumption DEF StopConsumer, Fault, IInv, TypeOK
<1> QED BY <1>1, IdleInv DEF StopConsumer

LEMMA ListDeliveriesInv ==
  ASSUME IInv, NEW c \in Consumers, ListDeliveries(c) PROVE IInv'
<1> DEFINE e == con[c].cur
           left == {t \in TargetsFor(e) : delivery[e][t].status # "succeeded"}
           seen == [t \in Targets |-> delivery[e][t].attempts]
<1>1. e \in Events
  BY DEF IInv, AtRow, ListDeliveries
<1>2. left \subseteq Targets /\ left \subseteq TargetsFor(e)
  BY <1>1, TargetsForType
<1>3. seen \in [Targets -> Nat]
  BY <1>1 DEF IInv, TypeOK, Delivery
<1>4. /\ con' = [con EXCEPT ![c].pc = IF left = {} THEN "finalize" ELSE "deliver",
                           ![c].left = left, ![c].seen = seen]
      /\ con \in [Consumers -> Consumer]
  BY DEF ListDeliveries, IInv, TypeOK
<1>5. \A t \in left : delivery[e][t].status # "succeeded"
  OBVIOUS
<1>6. /\ con' \in [Consumers -> Consumer]
      /\ \A d \in Consumers : d # c => con'[d] = con[d]
      /\ con'[c].cur = e /\ con'[c].left = left
  <2> DEFINE pc == IF left = {} THEN "finalize" ELSE "deliver"
             k == [con[c] EXCEPT !.pc = pc, !.left = left, !.seen = seen]
  <2>1. con[c] \in Consumer /\ e = con[c].cur
    BY DEF IInv, TypeOK
  <2>2. con' = [con EXCEPT ![c] = k]
    BY <1>4
  <2>3. pc \in {"finalize", "deliver"}
    OBVIOUS
  <2>4. k \in Consumer /\ k.cur = e /\ k.left = left
    <3> HIDE DEF e, left, seen, pc
    <3> QED BY <2>1, <2>3, <1>2, <1>3 DEF Consumer
  <2>5. con \in [Consumers -> Consumer]
    BY <1>4
  <2> HIDE DEF k, e, left, seen, pc
  <2> QED BY <2>2, <2>4, <2>5
<1>7. AtRow(c)'
  BY <1>1, <1>6 DEF AtRow
<1>8. LeftOpen(c)'
  <2>1. UNCHANGED delivery
    BY DEF ListDeliveries
  <2> HIDE DEF e, left, seen
  <2> QED BY <1>2, <1>5, <1>6, <2>1 DEF LeftOpen
<1>9. UNCHANGED <<row, delivery, dispatched, refused, faults>>
  BY DEF ListDeliveries
<1>10. refused' \subseteq Events /\ faults' \in 0..MaxFaults
  BY <1>9 DEF IInv, TypeOK
<1> HIDE DEF e, left, seen
<1> QED BY <1>6, <1>7, <1>8, <1>9, <1>10, ReadingStep

(* The consumer only moves on, with its row and its targets.               *)
LEMMA MoveInv ==
  ASSUME IInv, NEW c \in Consumers, NEW pc \in {"failed", "reschedule"},
         con[c].pc \in {"list", "deliver", "failed", "finalize"},
         pc = "failed" => con[c].pc = "deliver",
         con' = [con EXCEPT ![c].pc = pc],
         UNCHANGED <<row, delivery, dispatched, refused>>, faults' \in 0..MaxFaults
  PROVE  IInv'
<1>1. /\ con' \in [Consumers -> Consumer]
      /\ \A d \in Consumers : d # c => con'[d] = con[d]
      /\ con'[c].pc = pc /\ con'[c].cur = con[c].cur
      /\ con'[c].left = con[c].left /\ con'[c].claimed = con[c].claimed
  <2> DEFINE s == [con[c] EXCEPT !.pc = pc]
  <2>1. con \in [Consumers -> Consumer] /\ con[c] \in Consumer  BY DEF IInv, TypeOK
  <2>2. /\ s \in Consumer /\ s.pc = pc /\ s.cur = con[c].cur
        /\ s.left = con[c].left /\ s.claimed = con[c].claimed
    BY <2>1 DEF Consumer
  <2>3. con' = [con EXCEPT ![c] = s]  BY <2>1
  <2> HIDE DEF s
  <2> QED  BY <2>1, <2>2, <2>3
<1>2. AtRow(c) /\ LeftOpen(c)
  BY DEF IInv
<1>3. AtRow(c)'
  BY <1>1, <1>2 DEF AtRow
<1>4. LeftOpen(c)'
  BY <1>1, <1>2 DEF LeftOpen, Fenced
<1> QED BY <1>1, <1>3, <1>4, ReadingStep DEF IInv, TypeOK

LEMMA DispatchFailsInv == ASSUME IInv, NEW c \in Consumers, DispatchFails(c) PROVE IInv'
  BY MoveInv DEF DispatchFails, IInv, TypeOK

LEMMA UncaughtInv == ASSUME IInv, NEW c \in Consumers, Uncaught(c) PROVE IInv'
<1>1. faults' \in 0..MaxFaults
  BY OutboxAssumption DEF Uncaught, Fault, IInv, TypeOK
<1> QED BY <1>1, MoveInv DEF Uncaught

-----------------------------------------------------------------------------
(* Steps of a consumer that write rows or deliveries.                      *)
LEMMA ClaimBatchInv == ASSUME IInv, NEW c \in Consumers, ClaimBatch(c) PROVE IInv'
<1> DEFINE claimed == [e \in Events |-> IF e \in OldestClaimable THEN row[e].gen + 1 ELSE 0]
           k == [Idle EXCEPT !.pc = "next", !.todo = OldestClaimable, !.claimed = claimed]
<1>1. RowsOK
  BY DEF IInv, TypeOK, RowsOK
<1>2. ASSUME NEW e \in Events
      PROVE  \/ row'[e] = row[e]
             \/ /\ row'[e].status = "publishing" /\ row'[e].owner = c
                /\ row'[e].lease # "none" /\ row'[e] \in Row
  <2>1. row[e] \in Row
    BY <1>1 DEF RowsOK
  <2>2. CASE e \in OldestClaimable
    <3>1. row'[e] = [row[e] EXCEPT !.status = "publishing", !.owner = c,
                                   !.gen = row[e].gen + 1, !.lease = "live"]
      BY <2>2 DEF ClaimBatch
    <3>2. row[e].gen + 1 \in Nat
      BY <2>1 DEF Row
    <3>3. row'[e] \in Row
      BY <2>1, <3>1, <3>2 DEF Row, RowStatus
    <3>4. row'[e].status = "publishing" /\ row'[e].owner = c /\ row'[e].lease = "live"
      BY <2>1, <3>1 DEF Row
    <3> QED BY <3>3, <3>4
  <2>3. CASE e \notin OldestClaimable
    BY <2>3 DEF ClaimBatch
  <2> QED BY <2>2, <2>3
<1>3. RowsOK'
  <2>1. row' \in [Events -> Row]
    <3>1. \A e \in Events : row'[e] \in Row
      BY <1>1, <1>2 DEF RowsOK
    <3> QED BY <3>1 DEF ClaimBatch
  <2> QED BY <1>1, <1>2, <2>1 DEF RowsOK
<1>4. /\ con' \in [Consumers -> Consumer]
      /\ \A d \in Consumers : d # c => con'[d] = con[d]
      /\ con'[c].pc = "next"
  <2>1. con \in [Consumers -> Consumer]
    BY DEF IInv, TypeOK
  <2>2. claimed \in [Events -> Nat]
    BY <1>1 DEF RowsOK, Row
  <2>3. OldestClaimable \subseteq Events
    BY DEF OldestClaimable
  <2>4. k \in Consumer /\ k.pc = "next"
    <3> HIDE DEF claimed
    <3> QED BY IdleType, <2>2, <2>3 DEF Consumer
  <2>5. con' = [con EXCEPT ![c] = k]
    BY DEF ClaimBatch
  <2> HIDE DEF k, claimed
  <2> QED BY <2>1, <2>4, <2>5
<1>5. AtRow(c)' /\ LeftOpen(c)'
  BY <1>4 DEF AtRow, LeftOpen
<1>6. UNCHANGED <<delivery, dispatched, refused, faults>>
  BY DEF ClaimBatch
<1>7. ASSUME NEW e \in Events, NEW d \in Consumers, d # c, Fenced(e, d)'
      PROVE  Fenced(e, d) /\ delivery'[e] = delivery[e]
  BY <1>2, <1>4, <1>6, <1>7 DEF Fenced
<1>8. LedgerExact' /\ OnlyTargets'
  BY <1>6 DEF IInv, LedgerExact, OnlyTargets
<1>9. /\ delivery' \in [Events -> [Targets -> Delivery]]
      /\ dispatched' \in [Events -> [Targets -> Nat]]
      /\ refused' \subseteq Events /\ faults' \in 0..MaxFaults
  BY <1>6 DEF IInv, TypeOK
<1> HIDE DEF claimed, k
<1> QED BY <1>3, <1>4, <1>5, <1>7, <1>8, <1>9, ConsumerStep

(* A consumer that leaves its row, with or without releasing the lease.    *)
LEMMA LeaveRowInv ==
  ASSUME IInv, NEW c \in Consumers, NextRow(c), con[c].cur \in Events,
         UNCHANGED <<delivery, dispatched, refused, faults>>,
         NEW status \in RowStatus, status # "publishing", NEW due \in BOOLEAN,
         row' = row \/ row' = [row EXCEPT ![con[c].cur] = Released(row[con[c].cur], status, due)]
  PROVE  IInv'
<1> DEFINE e == con[c].cur
<1>1. TypeOK /\ RowsOK
  BY DEF IInv, TypeOK, RowsOK
<1>2. /\ con' \in [Consumers -> Consumer]
      /\ \A d \in Consumers : d # c => con'[d] = con[d]
      /\ con'[c].pc = "next"
  BY <1>1, NextRowType
<1>3. AtRow(c)' /\ LeftOpen(c)'
  BY <1>2 DEF AtRow, LeftOpen
<1>4. RowsOK' /\ \A x \in Events : row'[x] = row[x] \/ row'[x].status # "publishing"
  <2>1. CASE row' = row
    BY <1>1, <2>1 DEF RowsOK
  <2>2. CASE row' = [row EXCEPT ![e] = Released(row[e], status, due)]
    <3>1. Released(row[e], status, due) \in Row
      BY <1>1, ReleasedRow DEF RowsOK
    <3>2. row' \in [Events -> Row]
      <4> HIDE DEF e
      <4> QED BY <1>1, <2>2, <3>1 DEF RowsOK
    <3>3. \A x \in Events : row'[x] = IF x = e THEN Released(row[e], status, due) ELSE row[x]
      BY <1>1, <2>2 DEF RowsOK
    <3>4. /\ Released(row[e], status, due).status # "publishing"
          /\ Released(row[e], status, due).owner \notin Consumers
          /\ Released(row[e], status, due).lease = "none"
      BY OutboxAssumption DEF Released
    <3> HIDE DEF e
    <3> QED BY <1>1, <3>2, <3>3, <3>4 DEF RowsOK
  <2> QED BY <2>1, <2>2
<1>5. \A x \in Events, d \in Consumers :
        d # c /\ Fenced(x, d)' => Fenced(x, d) /\ delivery'[x] = delivery[x]
  BY <1>2, <1>4 DEF Fenced
<1>6. LedgerExact' /\ OnlyTargets'
  BY DEF IInv, LedgerExact, OnlyTargets
<1>7. /\ delivery' \in [Events -> [Targets -> Delivery]]
      /\ dispatched' \in [Events -> [Targets -> Nat]]
      /\ refused' \subseteq Events /\ faults' \in 0..MaxFaults
  BY DEF IInv, TypeOK
<1> HIDE DEF e
<1> QED BY <1>2, <1>3, <1>4, <1>5, <1>6, <1>7, ConsumerStep

LEMMA FinalizeInv == ASSUME IInv, NEW c \in Consumers, Finalize(c) PROVE IInv'
<1>1. con[c].cur \in Events
  BY DEF Finalize, IInv, AtRow
<1>2. FinalStatus(con[c].cur) \in RowStatus \ {"publishing"}
  BY DEF FinalStatus, RowStatus
<1> DEFINE due == ~SomeDelivery(con[c].cur, {"pending", "retry_wait"})
<1>3. due \in BOOLEAN
  <2>1. CASE due
    BY <2>1
  <2>2. CASE ~due
    BY <2>2
  <2> HIDE DEF due
  <2> QED BY <2>1, <2>2
<1> HIDE DEF due
<1> QED BY <1>1, <1>2, <1>3, LeaveRowInv DEF Finalize, due

LEMMA RescheduleInv == ASSUME IInv, NEW c \in Consumers, Reschedule(c) PROVE IInv'
<1>1. con[c].cur \in Events
  BY DEF Reschedule, IInv, AtRow
<1>2. "retry_wait" \in RowStatus
  BY DEF RowStatus
<1> QED BY <1>1, <1>2, LeaveRowInv DEF Reschedule

(* What a marked delivery table looks like.                                *)
LEMMA MarkedDelivery ==
  ASSUME TypeOK, NEW e \in Events, NEW t \in Targets,
         NEW status \in {"succeeded", "retry_wait", "dead_letter"},
         delivery' = Marked(e, t, status)
  PROVE  /\ delivery' \in [Events -> [Targets -> Delivery]]
         /\ \A x \in Events : x # e => delivery'[x] = delivery[x]
         /\ \A x \in Events, u \in Targets :
              delivery'[x][u].status = IF x = e /\ u = t THEN status ELSE delivery[x][u].status
<1> DEFINE d == [status |-> status, attempts |-> delivery[e][t].attempts + 1]
           row_e == [delivery[e] EXCEPT ![t] = d]
<1>1. delivery \in [Events -> [Targets -> Delivery]]
  BY DEF TypeOK
<1>2. d \in Delivery /\ d.status = status
  <2>1. delivery[e][t].attempts \in Nat
    BY <1>1 DEF Delivery
  <2> QED BY <2>1 DEF Delivery
<1> HIDE DEF d
<1>3. /\ row_e \in [Targets -> Delivery] /\ row_e[t].status = status
      /\ \A u \in Targets : u # t => row_e[u] = delivery[e][u]
  BY <1>1, <1>2
<1>4. delivery' = [delivery EXCEPT ![e] = row_e]
  BY <1>1 DEF Marked, d
<1> HIDE DEF row_e
<1> QED BY <1>1, <1>3, <1>4

(* A consumer that is fenced in marks a delivery, and has run its side     *)
(* effect when the mark is "succeeded".                                    *)
LEMMA MarkInv ==
  ASSUME IInv, NEW c \in Consumers, NEW t \in Targets, NEW e \in Events, e = con[c].cur,
         con[c].pc \in {"deliver", "failed"}, t \in con[c].left, Fenced(e, c),
         DeliveryDone(c, t), UNCHANGED <<row, refused, faults>>,
         NEW status \in {"succeeded", "retry_wait", "dead_letter"},
         delivery' = Marked(e, t, status),
         dispatched' = IF status = "succeeded"
                       THEN [dispatched EXCEPT ![e][t] = dispatched[e][t] + 1] ELSE dispatched
  PROVE  IInv'
<1>1. TypeOK /\ RowsOK
  BY DEF IInv, TypeOK, RowsOK
<1>2. /\ con' \in [Consumers -> Consumer]
      /\ \A d \in Consumers : d # c => con'[d] = con[d]
      /\ con'[c].pc \in {"finalize", "deliver"}
      /\ con'[c].claimed = con[c].claimed /\ con'[c].cur = e
      /\ con'[c].left = con[c].left \ {t}
  BY <1>1, DeliveryDoneType
<1>3. /\ delivery' \in [Events -> [Targets -> Delivery]]
      /\ \A x \in Events : x # e => delivery'[x] = delivery[x]
      /\ \A x \in Events, u \in Targets :
           delivery'[x][u].status = IF x = e /\ u = t THEN status ELSE delivery[x][u].status
  BY <1>1, MarkedDelivery
<1>4. /\ con[c].left \subseteq TargetsFor(e)
      /\ \A u \in con[c].left : delivery[e][u].status # "succeeded"
  BY DEF IInv, LeftOpen
<1>5. /\ dispatched' \in [Events -> [Targets -> Nat]]
      /\ \A x \in Events, u \in Targets :
           dispatched'[x][u] = IF x = e /\ u = t /\ status = "succeeded"
                               THEN dispatched[e][t] + 1 ELSE dispatched[x][u]
  <2>1. dispatched \in [Events -> [Targets -> Nat]]
    BY <1>1 DEF TypeOK
  <2>2. CASE status = "succeeded"
    <3> DEFINE f == [dispatched[e] EXCEPT ![t] = dispatched[e][t] + 1]
    <3>1. /\ f \in [Targets -> Nat] /\ f[t] = dispatched[e][t] + 1
          /\ \A u \in Targets : u # t => f[u] = dispatched[e][u]
      BY <2>1
    <3>2. dispatched' = [dispatched EXCEPT ![e] = f]
      BY <2>1, <2>2
    <3> HIDE DEF f
    <3> QED BY <2>1, <2>2, <3>1, <3>2
  <2>3. CASE status # "succeeded"
    BY <2>1, <2>3
  <2> QED BY <2>2, <2>3
<1>6. LedgerExact'
  <2>1. LedgerExact /\ delivery[e][t].status # "succeeded"
    BY <1>4 DEF IInv
  <2>2. dispatched[e][t] = 0
    BY <2>1 DEF LedgerExact
  <2>3. ASSUME NEW x \in Events, NEW u \in Targets
        PROVE  dispatched'[x][u] = IF delivery'[x][u].status = "succeeded" THEN 1 ELSE 0
    <3>1. CASE x = e /\ u = t
      <4>1. delivery'[x][u].status = status
        BY <1>3, <3>1
      <4>2. dispatched'[x][u] = IF status = "succeeded" THEN 1 ELSE 0
        BY <1>5, <2>2, <3>1
      <4> QED BY <4>1, <4>2
    <3>2. CASE ~(x = e /\ u = t)
      <4>1. delivery'[x][u].status = delivery[x][u].status /\ dispatched'[x][u] = dispatched[x][u]
        BY <1>3, <1>5, <3>2
      <4> QED BY <2>1, <4>1 DEF LedgerExact
    <3> QED BY <3>1, <3>2
  <2> QED BY <2>3 DEF LedgerExact
<1>7. OnlyTargets'
  BY <1>3, <1>4 DEF IInv, OnlyTargets, TargetsFor
<1>8. AtRow(c)' /\ LeftOpen(c)'
  <2>1. con'[c].left \subseteq Targets
    BY <1>1, <1>2 DEF TypeOK, Consumer
  <2>2. AtRow(c)'
    BY <1>2 DEF AtRow
  <2>3. con'[c].left \subseteq TargetsFor(con'[c].cur)
    BY <1>2, <1>4
  <2>4. \A u \in con'[c].left : delivery'[con'[c].cur][u].status # "succeeded"
    <3>1. ASSUME NEW u \in con'[c].left
          PROVE  delivery'[e][u].status # "succeeded"
      <4>1. u \in Targets /\ u # t /\ u \in con[c].left
        BY <1>2, <2>1
      <4>2. delivery'[e][u].status = delivery[e][u].status
        BY <1>3, <4>1
      <4> QED BY <1>4, <4>1, <4>2
    <3> QED BY <1>2, <3>1
  <2>5. LeftOpen(c)'
    BY <2>3, <2>4 DEF LeftOpen, TargetsFor
  <2> QED BY <2>2, <2>5
<1>9. \A x \in Events, d \in Consumers :
        d # c /\ Fenced(x, d)' => Fenced(x, d) /\ delivery'[x] = delivery[x]
  BY <1>2, <1>3 DEF Fenced
<1>10. RowsOK' /\ refused' \subseteq Events /\ faults' \in 0..MaxFaults
  BY <1>1 DEF TypeOK, RowsOK
<1> QED BY <1>2, <1>3, <1>5, <1>6, <1>7, <1>8, <1>9, <1>10, ConsumerStep

LEMMA DeliverInv ==
  ASSUME IInv, NEW c \in Consumers, NEW t \in Targets, Deliver(c, t) PROVE IInv'
<1> DEFINE e == con[c].cur
<1>1. e \in Events /\ t \in con[c].left /\ con[c].pc = "deliver"
  BY DEF Deliver, IsNext, IInv, AtRow
<1>2. CASE Fenced(e, c)
  BY <1>1, <1>2, MarkInv DEF Deliver
<1>3. CASE ~Fenced(e, c)
  BY <1>1, <1>3, LeaveRowInv DEF Deliver, RowStatus
<1> QED BY <1>2, <1>3

LEMMA MarkFailedInv ==
  ASSUME IInv, NEW c \in Consumers, NEW t \in Targets, MarkFailed(c, t) PROVE IInv'
<1> DEFINE e == con[c].cur
<1>1. e \in Events /\ t \in con[c].left /\ con[c].pc = "failed"
  BY DEF MarkFailed, IsNext, IInv, AtRow
<1>2. FailureStatus(c, t) \in {"retry_wait", "dead_letter"}
  BY DEF FailureStatus
<1>3. CASE Fenced(e, c)
  BY <1>1, <1>2, <1>3, MarkInv DEF MarkFailed
<1>4. CASE ~Fenced(e, c)
  BY <1>1, <1>4, LeaveRowInv DEF MarkFailed, RowStatus
<1> QED BY <1>3, <1>4

-----------------------------------------------------------------------------
(* Every step preserves the invariant.                                     *)
LEMMA NextInv == IInv /\ [Next]_vars => IInv'
<1> SUFFICES ASSUME IInv, [Next]_vars PROVE IInv'
  OBVIOUS
<1>1. CASE UNCHANGED vars
  BY <1>1 DEF vars, IInv, TypeOK, LedgerExact, OnlyTargets, AtRow, LeftOpen, Fenced
<1>2. CASE RecoverExpiredLeases
  BY <1>2, RecoverInv
<1>3. ASSUME NEW e \in Events, InsertEvent(e) \/ LeaseExpires(e) \/ BackoffElapses(e)
      PROVE  IInv'
  BY <1>3, InsertInv, LeaseExpiresInv, BackoffInv
<1>4. ASSUME NEW c \in Consumers,
             ClaimBatch(c) \/ Uncaught(c) \/ StopConsumer(c) \/ Heartbeat(c)
      PROVE  IInv'
  BY <1>4, ClaimBatchInv, UncaughtInv, StopConsumerInv, HeartbeatInv
<1>5. ASSUME NEW c \in Consumers, Work(c) PROVE IInv'
  BY <1>5, BeginRowInv, EndBatchInv, ListDeliveriesInv, DispatchFailsInv, DeliverInv,
     MarkFailedInv, FinalizeInv, RescheduleInv DEF Work
<1> QED BY <1>1, <1>2, <1>3, <1>4, <1>5 DEF Next

(* IInv holds in every reachable state: in particular, what a consumer     *)
(* read with list_deliveries is right as long as its fence holds.          *)
THEOREM Invariance == Spec => []IInv
<1> QED BY InitIInv, NextInv, PTL DEF Spec

(* The types and the lease columns of memory_outbox.                       *)
THEOREM TypeCorrect == Spec => []TypeOK
<1>1. IInv => TypeOK
  BY DEF IInv
<1> QED BY Invariance, <1>1, PTL

(* A target marked "succeeded" ran exactly once, any other not at all.     *)
THEOREM LedgerIsExact == Spec => []LedgerExact
<1>1. IInv => LedgerExact
  BY DEF IInv
<1> QED BY Invariance, <1>1, PTL

-----------------------------------------------------------------------------
(* The refinement of OutboxContract.                                       *)
Unsettled == {"pending", "publishing", "retry_wait"}

(* The step does not settle or insert e.                                   *)
Steady(e) ==
  \/ row'[e].status = row[e].status
  \/ (row[e].status \in Unsettled /\ row'[e].status \in Unsettled)

(* A step the readers of the outbox do not see                             *)
SameView == EventPhase' = EventPhase /\ ReachedTargets' = ReachedTargets

LEMMA PhaseOf ==
  ASSUME NEW e \in Events, row[e].status \in RowStatus
  PROVE  /\ row[e].status = "absent" => EventPhase[e] = "none"
         /\ row[e].status = "published" => EventPhase[e] = "published"
         /\ row[e].status = "dead_letter" => EventPhase[e] = "dead"
         /\ row[e].status \in Unsettled => EventPhase[e] = "open"
  BY DEF EventPhase, RowStatus, Unsettled

(* A step that keeps every settled or absent event as it is changes no     *)
(* phase.                                                                  *)
LEMMA SamePhase ==
  ASSUME TypeOK, TypeOK',
         \A e \in Events : Steady(e)
  PROVE  EventPhase' = EventPhase
<1>1. \A e \in Events : EventPhase'[e] = EventPhase[e]
  <2> TAKE e \in Events
  <2>1. row[e].status \in RowStatus /\ row'[e].status \in RowStatus
    BY DEF TypeOK, Row
  <2>2. CASE row'[e].status = row[e].status
    BY <2>2 DEF EventPhase
  <2>3. CASE row[e].status \in Unsettled /\ row'[e].status \in Unsettled
    BY <2>3 DEF EventPhase, Unsettled
  <2> QED BY <2>2, <2>3 DEF Steady
<1> QED BY <1>1 DEF EventPhase

(* A step of one event                                                     *)
LEMMA OnePhase ==
  ASSUME TypeOK, TypeOK', NEW x \in Events,
         \A e \in Events : e # x => row'[e].status = row[e].status
  PROVE  EventPhase' = [EventPhase EXCEPT ![x] = EventPhase'[x]]
<1>1. \A e \in Events : e # x => EventPhase'[e] = EventPhase[e]
  BY DEF EventPhase
<1>2. EventPhase = [e \in Events |-> EventPhase[e]]
  BY DEF EventPhase
<1>3. EventPhase' = [e \in Events |-> EventPhase'[e]]
  BY DEF EventPhase
<1> HIDE DEF EventPhase
<1> QED BY <1>1, <1>2, <1>3

LEMMA InitContract == Init => Contract!ContractInit
<1> SUFFICES ASSUME Init PROVE Contract!ContractInit
  OBVIOUS
<1>1. EventPhase = [e \in Events |-> "none"]
  BY DEF Init, EventPhase
<1>2. ReachedTargets = [e \in Events |-> {}]
  <2>1. ASSUME NEW e \in Events PROVE ReachedTargets[e] = {}
    BY DEF Init, ReachedTargets
  <2> QED BY <2>1 DEF ReachedTargets
<1> QED BY <1>1, <1>2 DEF Contract!ContractInit

(* Reached targets are targets of the event, and exactly the succeeded     *)
(* deliveries.                                                             *)
LEMMA ReachedOf ==
  ASSUME IInv, NEW e \in Events
  PROVE  ReachedTargets[e] = {t \in TargetsFor(e) : delivery[e][t].status = "succeeded"}
<1>1. \A t \in Targets : dispatched[e][t] > 0 <=> delivery[e][t].status = "succeeded"
  BY DEF IInv, LedgerExact
<1>2. \A t \in Targets : delivery[e][t].status = "succeeded" => t \in TargetsFor(e)
  BY DEF IInv, OnlyTargets
<1> QED BY <1>1, <1>2, TargetsForType DEF ReachedTargets

LEMMA DeliverReaches ==
  ASSUME IInv, IInv', NEW c \in Consumers, NEW t \in Targets, Deliver(c, t)
  PROVE  Contract!ContractNext \/ SameView
<1> DEFINE e == con[c].cur
<1>1. e \in Events /\ t \in con[c].left /\ con[c].pc = "deliver"
  BY DEF Deliver, IsNext, IInv, AtRow
<1>2. EventPhase' = EventPhase
  <2>1. UNCHANGED row
    BY DEF Deliver
  <2> QED BY <2>1 DEF EventPhase
<1>3. CASE Fenced(e, c)
  <2>1. t \in TargetsFor(e) /\ delivery[e][t].status # "succeeded"
    BY <1>1, <1>3 DEF IInv, LeftOpen
  <2>2. EventPhase[e] = "open"
    BY <1>1, <1>3, PhaseOf DEF Fenced, RowStatus, Unsettled
  <2>3. t \notin ReachedTargets[e]
    BY <1>1, <2>1, ReachedOf
  <2>4. dispatched' = [dispatched EXCEPT ![e][t] = dispatched[e][t] + 1]
    BY <1>3 DEF Deliver
  <2>5. ReachedTargets' = [ReachedTargets EXCEPT ![e] = ReachedTargets[e] \union {t}]
    <3>1. dispatched \in [Events -> [Targets -> Nat]]
      BY DEF IInv, TypeOK
    <3>2. \A x \in Events, u \in Targets :
            dispatched'[x][u] = IF x = e /\ u = t THEN dispatched[e][t] + 1 ELSE dispatched[x][u]
      <4> HIDE DEF e
      <4> QED BY <3>1, <2>4, <1>1
    <3>3. \A x \in Events : ReachedTargets'[x] = IF x = e THEN ReachedTargets[e] \union {t}
                                                           ELSE ReachedTargets[x]
      <4> HIDE DEF e
      <4> QED BY <3>1, <3>2 DEF ReachedTargets
    <3> HIDE DEF e
    <3> QED BY <3>3 DEF ReachedTargets
  <2>6. Contract!Reach(e, t)
    <3> HIDE DEF e
    <3> QED BY <1>2, <2>1, <2>2, <2>3, <2>5 DEF Contract!Reach
  <2> QED BY <1>1, <2>6 DEF Contract!ContractNext
<1>4. CASE ~Fenced(e, c)
  <2>1. ReachedTargets' = ReachedTargets
    BY <1>4 DEF Deliver, ReachedTargets
  <2> QED BY <1>2, <2>1 DEF SameView
<1> QED BY <1>3, <1>4

LEMMA FinalizeSettles ==
  ASSUME IInv, IInv', NEW c \in Consumers, Finalize(c)
  PROVE  Contract!ContractNext \/ SameView
<1> DEFINE e == con[c].cur
<1>1. e \in Events
  BY DEF Finalize, IInv, AtRow
<1>2. ReachedTargets' = ReachedTargets
  BY DEF Finalize, ReachedTargets
<1>3. CASE ~Fenced(e, c)
  <2>1. EventPhase' = EventPhase
    BY <1>3 DEF Finalize, EventPhase
  <2> QED BY <1>2, <2>1 DEF SameView
<1>4. CASE Fenced(e, c)
  <2>1. row[e].status = "publishing" /\ EventPhase[e] = "open"
    BY <1>1, <1>4, PhaseOf DEF Fenced, RowStatus, Unsettled
  <2>2. /\ row'[e].status = FinalStatus(e)
        /\ \A x \in Events : x # e => row'[x].status = row[x].status
    BY <1>1, <1>4 DEF Finalize, Released, IInv, TypeOK
  <2>3. EventPhase' = [EventPhase EXCEPT ![e] = EventPhase'[e]]
    BY <1>1, <2>2, OnePhase DEF IInv
  <2>4. row'[e].status \in RowStatus
    BY <1>1 DEF IInv, TypeOK, Row
  <2>5. ReachedTargets[e] = {t \in TargetsFor(e) : delivery[e][t].status = "succeeded"}
    BY <1>1, ReachedOf
  <2>6. CASE SomeDelivery(e, {"dead_letter"})
    <3>1. EventPhase'[e] = "dead"
      BY <1>1, <2>2, <2>4, <2>6 DEF FinalStatus, EventPhase
    <3>2. ReachedTargets[e] # TargetsFor(e)
      BY <2>5, <2>6 DEF SomeDelivery
    <3>3. Contract!GiveUp(e)
      <4> HIDE DEF e
      <4> QED BY <1>2, <2>1, <2>3, <3>1, <3>2 DEF Contract!GiveUp
    <3> QED BY <1>1, <3>3 DEF Contract!ContractNext
  <2>7. CASE ~SomeDelivery(e, {"dead_letter"}) /\ SomeDelivery(e, {"pending", "retry_wait"})
    <3>1. row'[e].status = "retry_wait"
      BY <2>2, <2>7 DEF FinalStatus
    <3>2. EventPhase' = EventPhase
      <4>1. TypeOK /\ TypeOK'
        BY DEF IInv
      <4>2. row[e].status \in Unsettled /\ row'[e].status \in Unsettled
        BY <2>1, <3>1 DEF Unsettled
      <4> HIDE DEF e
      <4> QED BY <2>2, <4>1, <4>2, SamePhase DEF Steady
    <3> QED BY <1>2, <3>2 DEF SameView
  <2>8. CASE ~SomeDelivery(e, {"dead_letter"}) /\ ~SomeDelivery(e, {"pending", "retry_wait"})
    <3>1. EventPhase'[e] = "published"
      BY <1>1, <2>2, <2>4, <2>8 DEF FinalStatus, EventPhase
    <3>2. ReachedTargets[e] = TargetsFor(e)
      <4>1. ASSUME NEW t \in TargetsFor(e) PROVE delivery[e][t].status = "succeeded"
        <5>1. delivery[e][t].status \in {"pending", "succeeded", "retry_wait", "dead_letter"}
          BY <1>1, TargetsForType DEF IInv, TypeOK, Delivery
        <5> QED BY <5>1, <2>8 DEF SomeDelivery
      <4> QED BY <4>1, <2>5
    <3>3. Contract!Publish(e)
      <4> HIDE DEF e
      <4> QED BY <1>2, <2>1, <2>3, <3>1, <3>2 DEF Contract!Publish
    <3> QED BY <1>1, <3>3 DEF Contract!ContractNext
  <2> QED BY <2>6, <2>7, <2>8
<1> QED BY <1>3, <1>4

LEMMA InsertAccepts ==
  ASSUME IInv, IInv', NEW x \in Events, InsertEvent(x)
  PROVE  Contract!ContractNext \/ SameView
<1>1. ReachedTargets' = ReachedTargets
  BY DEF InsertEvent, ReachedTargets
<1>2. CASE UNCHANGED row
  BY <1>1, <1>2 DEF EventPhase, SameView
<1>3. CASE row' = [row EXCEPT ![x].status = "pending"]
  <2>1. /\ row'[x].status = "pending" /\ row[x].status = "absent"
        /\ \A e \in Events : e # x => row'[e].status = row[e].status
    BY <1>3 DEF InsertEvent, IInv, TypeOK, Row
  <2>2. EventPhase[x] = "none" /\ EventPhase'[x] = "open"
    BY <2>1 DEF EventPhase
  <2>3. EventPhase' = [EventPhase EXCEPT ![x] = "open"]
    BY <2>1, <2>2, OnePhase DEF IInv
  <2> QED BY <1>1, <2>2, <2>3 DEF Contract!Accept, Contract!ContractNext
<1> QED BY <1>2, <1>3 DEF InsertEvent

(* Leases come and go within the open phase.                               *)
LEMMA LeaseStutters ==
  ASSUME IInv, IInv', UNCHANGED dispatched,
         \A e \in Events : Steady(e)
  PROVE  SameView
<1>1. EventPhase' = EventPhase
  BY SamePhase DEF IInv
<1>2. ReachedTargets' = ReachedTargets
  BY DEF ReachedTargets
<1> QED BY <1>1, <1>2 DEF SameView

LEMMA StepContract ==
  IInv /\ IInv' /\ [Next]_vars => [Contract!ContractNext]_(Contract!contractVars)
<1> SUFFICES ASSUME IInv, IInv', [Next]_vars
             PROVE  Contract!ContractNext \/ SameView
  BY DEF SameView, Contract!contractVars
<1> DEFINE Quiet == /\ UNCHANGED dispatched
                    /\ \A e \in Events : Steady(e)
<1>0. row \in [Events -> Row]
  BY DEF IInv, TypeOK
<1>1. CASE UNCHANGED <<row, dispatched>>
  BY <1>1 DEF SameView, EventPhase, ReachedTargets
<1>2. CASE RecoverExpiredLeases
  <2>1. Quiet
    BY <1>0, <1>2 DEF RecoverExpiredLeases, Expired, Released, Unsettled, Steady
  <2> QED BY <2>1, LeaseStutters
<1>3. ASSUME NEW e \in Events, InsertEvent(e) \/ LeaseExpires(e) \/ BackoffElapses(e)
      PROVE  Contract!ContractNext \/ SameView
  <2>1. CASE InsertEvent(e)
    BY <2>1, InsertAccepts
  <2>2. CASE LeaseExpires(e) \/ BackoffElapses(e)
    <3>1. Quiet
      BY <1>0, <2>2 DEF LeaseExpires, BackoffElapses, Row, Steady
    <3> QED BY <3>1, LeaseStutters
  <2> QED BY <1>3, <2>1, <2>2
<1>4. ASSUME NEW c \in Consumers,
             ClaimBatch(c) \/ Uncaught(c) \/ StopConsumer(c) \/ Heartbeat(c)
      PROVE  Contract!ContractNext \/ SameView
  <2>1. CASE ClaimBatch(c)
    <3>1. ASSUME NEW e \in Events
          PROVE  Steady(e)
      <4>1. row[e] \in Row
        BY <1>0
      <4>2. CASE e \in OldestClaimable
        <5>1. row'[e] = [row[e] EXCEPT !.status = "publishing", !.owner = c,
                                       !.gen = row[e].gen + 1, !.lease = "live"]
          BY <2>1, <4>2 DEF ClaimBatch
        <5>2. row'[e].status = "publishing"
          BY <4>1, <5>1 DEF Row
        <5> QED BY <4>2, <5>2 DEF OldestClaimable, Claimable, Unsettled, Steady
      <4>3. CASE e \notin OldestClaimable
        BY <2>1, <4>3 DEF ClaimBatch, Steady
      <4> QED BY <4>2, <4>3
    <3> QED BY <2>1, <3>1, LeaseStutters DEF ClaimBatch
  <2>2. CASE Heartbeat(c)
    <3>1. Quiet
      BY <1>0, <2>2 DEF Heartbeat, Row, Steady
    <3> QED BY <3>1, LeaseStutters
  <2>3. CASE Uncaught(c) \/ StopConsumer(c)
    BY <1>1, <2>3 DEF Uncaught, StopConsumer
  <2> QED BY <1>4, <2>1, <2>2, <2>3
<1>5. ASSUME NEW c \in Consumers, Work(c)
      PROVE  Contract!ContractNext \/ SameView
  <2>1. CASE \E t \in Targets : Deliver(c, t)
    BY <2>1, DeliverReaches
  <2>2. CASE Finalize(c)
    BY <2>2, FinalizeSettles
  <2>3. CASE Reschedule(c)
    <3>1. Quiet
      BY <1>0, <2>3 DEF Reschedule, Fenced, Released, Unsettled, Steady
    <3> QED BY <3>1, LeaseStutters
  <2>4. CASE \/ \E e \in Events : BeginRow(c, e)
             \/ EndBatch(c) \/ ListDeliveries(c) \/ DispatchFails(c)
             \/ \E t \in Targets : MarkFailed(c, t)
    BY <1>1, <2>4 DEF BeginRow, EndBatch, ListDeliveries, DispatchFails, MarkFailed
  <2> QED BY <1>5, <2>1, <2>2, <2>3, <2>4 DEF Work
<1>6. CASE UNCHANGED vars
  BY <1>1, <1>6 DEF vars
<1> QED BY <1>2, <1>3, <1>4, <1>5, <1>6 DEF Next

(* The outbox implements its contract: whatever consumers crash, lose a    *)
(* lease or write late, an event is published only after each target was   *)
(* reached, no target is reached twice, and none after the event settled.  *)
THEOREM ImplementsContract == Spec => FollowsContract
<1> QED BY InitContract, StepContract, Invariance, PTL
        DEF Spec, FollowsContract, Contract!ContractSpec
-----------------------------------------------------------------------------
(* The attempts a delivery still has coming, from the consumer that holds  *)
(* its row and from the next one that will, are within the budget already. *)
StillToDo(e, t, c) ==
  /\ Fenced(e, c)
  /\ \/ e \in con[c].todo
     \/ /\ con[c].cur = e
        /\ con[c].pc = "list" \/ (con[c].pc \in {"deliver", "failed"} /\ t \in con[c].left)

Tried(e, t) == \E c \in Consumers : StillToDo(e, t, c)

Again(e) ==
  \/ row[e].status \in {"absent", "pending", "retry_wait"}
  \/ /\ row[e].status = "publishing"
     /\ \/ row[e].lease = "expired"
        \/ \A c \in Consumers : Fenced(e, c) => con[c].cur = e /\ con[c].pc = "reschedule"

One(b) == IF b THEN 1 ELSE 0

(* An attempt that is not the last leaves one.                             *)
WithinBudget(e, t) ==
  /\ delivery[e][t].attempts <= MaxAttempts + faults
  /\ delivery[e][t].status \in {"pending", "retry_wait"} =>
       delivery[e][t].attempts < MaxAttempts
  /\ delivery[e][t].status # "succeeded" =>
       delivery[e][t].attempts + One(Tried(e, t)) + One(Again(e)) <= MaxAttempts + faults

(* A delivery that nobody is trying is within its budget.                  *)
LEMMA Untried ==
  ASSUME NEW e, NEW t, ~Tried(e, t)', delivery'[e][t].attempts \in Nat, faults' \in Nat,
         MaxAttempts \in Nat, delivery'[e][t].attempts <= MaxAttempts + faults',
         delivery'[e][t].status \in {"pending", "retry_wait"} =>
           delivery'[e][t].attempts < MaxAttempts,
         delivery'[e][t].status # "succeeded" =>
           delivery'[e][t].attempts + One(Again(e)') <= MaxAttempts + faults'
  PROVE  WithinBudget(e, t)'
<1>1. One(Tried(e, t)') = 0 /\ One(Again(e)') \in Nat
  BY DEF One
<1>2. delivery'[e][t].attempts + 0 + One(Again(e)') = delivery'[e][t].attempts + One(Again(e)')
  BY <1>1
<1> QED BY <1>1, <1>2 DEF WithinBudget, One

LEMMA AttemptLeft ==
  ASSUME NEW a \in Nat, NEW m \in Nat, NEW f \in Nat, a < m, NEW x \in {0, 1}
  PROVE  a + x <= m + f
OBVIOUS

(* The counts list_deliveries read stay right as long as the fence holds.  *)
SeenRight(c) ==
  con[c].pc \in {"deliver", "failed"} /\ Fenced(con[c].cur, c) =>
    \A t \in con[c].left : con[c].seen[t] = delivery[con[c].cur][t].attempts

(* A consumer that may write a row has it before it, or is at it.          *)
HasBefore(c) ==
  /\ \A e \in Events : Fenced(e, c) =>
       /\ con[c].pc # "idle"
       /\ e \in con[c].todo \/ (con[c].pc # "next" /\ con[c].cur = e)
  /\ con[c].pc \notin {"idle", "next"} => con[c].cur \notin con[c].todo

Numbered == \A e \in Events : row[e].status = "publishing" => row[e].gen > 0

AttemptsInv ==
  /\ \A e \in Events : \A t \in TargetsFor(e) : WithinBudget(e, t)
  /\ \A c \in Consumers : SeenRight(c) /\ HasBefore(c)
  /\ Numbered

LEMMA TargetsOf == ASSUME NEW e \in Events, NEW t \in TargetsFor(e) PROVE t \in Targets
  BY TargetsForType

LEMMA OneHolder ==
  ASSUME NEW e \in Events, NEW c \in Consumers, NEW d \in Consumers, Fenced(e, c), Fenced(e, d)
  PROVE  c = d
  BY DEF Fenced

(* Nobody but a consumer with a batch is fenced in.                        *)
LEMMA NobodyWithoutClaim ==
  ASSUME TypeOK, Numbered, NEW e \in Events, NEW c \in Consumers, con[c].claimed[e] = 0
  PROVE  ~Fenced(e, c)
<1>1. row[e].status = "publishing" => row[e].gen # 0
  BY DEF Numbered, TypeOK, Row
<1> QED BY <1>1 DEF Fenced

LEMMA InitAttempts == Init => AttemptsInv
<1> SUFFICES ASSUME Init PROVE AttemptsInv
  OBVIOUS
<1>1. \A e \in Events, c \in Consumers : ~Fenced(e, c)
  BY DEF Init, Fenced
<1>2. \A c \in Consumers : SeenRight(c) /\ HasBefore(c)
  BY <1>1 DEF Init, Idle, SeenRight, HasBefore
<1>3. Numbered
  BY DEF Init, Numbered
<1>4. ASSUME NEW e \in Events, NEW t \in TargetsFor(e) PROVE WithinBudget(e, t)
  <2>1. t \in Targets
    BY TargetsOf
  <2>2. delivery[e][t].attempts = 0 /\ delivery[e][t].status = "pending" /\ faults = 0
    BY <2>1 DEF Init
  <2>3. ~Tried(e, t)
    BY <1>1 DEF Tried, StillToDo
  <2> QED BY <2>2, <2>3, OutboxAssumption DEF WithinBudget, One
<1> QED BY <1>2, <1>3, <1>4 DEF AttemptsInv

-----------------------------------------------------------------------------
(* A delivery that is left alone stays within its budget when nothing new  *)
(* is coming, or when a fault pays for one more attempt.                   *)
LEMMA BudgetStep ==
  ASSUME NEW e \in Events, NEW t \in TargetsFor(e), TypeOK, WithinBudget(e, t),
         delivery'[e][t] = delivery[e][t], Tried(e, t)' => Tried(e, t),
         \/ faults' = faults /\ (Again(e)' => Again(e))
         \/ faults' = faults + 1
  PROVE  WithinBudget(e, t)'
<1>1. t \in Targets
  BY TargetsOf
<1>2. delivery[e][t].attempts \in Nat /\ faults \in Nat /\ MaxAttempts \in Nat
  BY <1>1, OutboxAssumption DEF TypeOK, Delivery
<1>3. CASE faults' = faults /\ (Again(e)' => Again(e))
  BY <1>2, <1>3 DEF WithinBudget, One
<1>4. CASE faults' = faults + 1
  BY <1>2, <1>4 DEF WithinBudget, One
<1> QED BY <1>3, <1>4

(* Steps that touch the rows only.                                         *)
LEMMA RowAttempts ==
  ASSUME IInv, AttemptsInv, UNCHANGED <<delivery, con>>, Numbered',
         \A e \in Events, d \in Consumers : Fenced(e, d)' => Fenced(e, d),
         \/ faults' = faults /\ (\A e \in Events : Again(e)' => Again(e))
         \/ faults' = faults + 1
  PROVE  AttemptsInv'
<1>1. ASSUME NEW e \in Events, NEW t \in TargetsFor(e) PROVE WithinBudget(e, t)'
  <2>1. Tried(e, t)' => Tried(e, t)
    BY DEF Tried, StillToDo
  <2>2. TypeOK /\ WithinBudget(e, t)
    BY DEF AttemptsInv, IInv
  <2> QED BY <2>1, <2>2, BudgetStep
<1>2. ASSUME NEW c \in Consumers PROVE SeenRight(c)' /\ HasBefore(c)'
  <2>1. SeenRight(c) /\ HasBefore(c) /\ AtRow(c)
    BY DEF AttemptsInv, IInv
  <2>2. SeenRight(c)'
    BY <2>1 DEF SeenRight, AtRow
  <2>3. HasBefore(c)'
    BY <2>1 DEF HasBefore
  <2> QED BY <2>2, <2>3
<1>3. \A e \in Events : TargetsFor(e)' = TargetsFor(e)
  BY DEF TargetsFor
<1> QED BY <1>1, <1>2, <1>3 DEF AttemptsInv

LEMMA InsertAttempts ==
  ASSUME IInv, AttemptsInv, NEW x \in Events, InsertEvent(x) PROVE AttemptsInv'
<1>1. row \in [Events -> Row] /\ Numbered
  BY DEF IInv, TypeOK, AttemptsInv
<1>2. \A e \in Events : \/ row'[e] = row[e]
                        \/ row[e].status = "absent" /\ row'[e].status = "pending"
  BY <1>1 DEF InsertEvent, Row
<1>3. Numbered'
  BY <1>1, <1>2 DEF Numbered
<1>4. \A e \in Events, d \in Consumers : Fenced(e, d)' => Fenced(e, d)
  BY <1>2 DEF Fenced, InsertEvent
<1>5. \A e \in Events : Again(e)' => Again(e)
  BY <1>2 DEF Again, Fenced, InsertEvent
<1> QED BY <1>3, <1>4, <1>5, RowAttempts DEF InsertEvent

(* A lease that nobody renews has no holder any more.                      *)
LEMMA LeaseExpiresAttempts ==
  ASSUME IInv, AttemptsInv, NEW x \in Events, LeaseExpires(x) PROVE AttemptsInv'
<1>1. TypeOK /\ row \in [Events -> Row] /\ Numbered
  BY DEF IInv, TypeOK, AttemptsInv
<1>2. \A e \in Events : /\ row'[e].status = row[e].status /\ row'[e].owner = row[e].owner
                        /\ row'[e].gen = row[e].gen
                        /\ e # x => row'[e] = row[e]
  BY <1>1 DEF LeaseExpires, Row
<1>3. Numbered'
  BY <1>1, <1>2 DEF Numbered
<1>4. \A e \in Events, d \in Consumers : Fenced(e, d)' <=> Fenced(e, d)
  BY <1>2 DEF Fenced, LeaseExpires
<1>5. CASE \E c \in Consumers : x \in Renewed(c)
  <2>1. faults' = faults + 1
    BY <1>5 DEF LeaseExpires, Fault
  <2> QED BY <2>1, <1>3, <1>4, RowAttempts DEF LeaseExpires
<1>6. CASE ~ \E c \in Consumers : x \in Renewed(c)
  <2>1. row[x].status = "publishing"
    BY <1>1 DEF LeaseExpires, TypeOK
  <2>2. \A c \in Consumers : ~Fenced(x, c)
    BY <1>1, <1>6, NobodyWithoutClaim DEF Renewed, Fenced
  <2>3. Again(x)
    BY <2>1, <2>2 DEF Again
  <2>4. \A e \in Events : Again(e)' => Again(e)
    BY <1>2, <1>4, <2>3 DEF Again, LeaseExpires
  <2>5. faults' = faults
    BY <1>6 DEF LeaseExpires
  <2> QED BY <2>4, <2>5, <1>3, <1>4, RowAttempts DEF LeaseExpires
<1> QED BY <1>5, <1>6

LEMMA BackoffAttempts ==
  ASSUME IInv, AttemptsInv, NEW x \in Events, BackoffElapses(x) PROVE AttemptsInv'
<1>1. row \in [Events -> Row] /\ Numbered
  BY DEF IInv, TypeOK, AttemptsInv
<1>2. \A e \in Events : /\ row'[e].status = row[e].status /\ row'[e].owner = row[e].owner
                        /\ row'[e].gen = row[e].gen /\ row'[e].lease = row[e].lease
  BY <1>1 DEF BackoffElapses, Row
<1>3. Numbered'
  BY <1>1, <1>2 DEF Numbered
<1>4. \A e \in Events, d \in Consumers : Fenced(e, d)' <=> Fenced(e, d)
  BY <1>2 DEF Fenced, BackoffElapses
<1>5. \A e \in Events : Again(e)' => Again(e)
  BY <1>2, <1>4 DEF Again, BackoffElapses
<1> QED BY <1>3, <1>4, <1>5, RowAttempts DEF BackoffElapses

LEMMA RecoverAttempts ==
  ASSUME IInv, AttemptsInv, RecoverExpiredLeases PROVE AttemptsInv'
<1>1. row \in [Events -> Row] /\ Numbered
  BY DEF IInv, TypeOK, AttemptsInv
<1>2. \A e \in Events :
        \/ row'[e] = row[e]
        \/ /\ row[e].status = "publishing" /\ row[e].lease = "expired"
           /\ row'[e].status = "retry_wait"
  BY DEF RecoverExpiredLeases, Expired, Released
<1>3. Numbered'
  BY <1>1, <1>2 DEF Numbered
<1>4. \A e \in Events, d \in Consumers : Fenced(e, d)' => Fenced(e, d)
  BY <1>2 DEF Fenced, RecoverExpiredLeases
<1>5. ASSUME NEW e \in Events PROVE Again(e)' => Again(e)
  <2>1. CASE row'[e] = row[e]
    BY <2>1 DEF Again, Fenced, RecoverExpiredLeases
  <2>2. CASE row[e].status = "publishing" /\ row[e].lease = "expired"
    BY <2>2 DEF Again
  <2> QED BY <1>2, <2>1, <2>2
<1> QED BY <1>3, <1>4, <1>5, RowAttempts DEF RecoverExpiredLeases

LEMMA HeartbeatAttempts ==
  ASSUME IInv, AttemptsInv, NEW c \in Consumers, Heartbeat(c) PROVE AttemptsInv'
<1>1. row \in [Events -> Row] /\ Numbered
  BY DEF IInv, TypeOK, AttemptsInv
<1>2. \A e \in Events : /\ row'[e].status = row[e].status /\ row'[e].owner = row[e].owner
                        /\ row'[e].gen = row[e].gen
                        /\ row'[e].lease = row[e].lease \/ row'[e].lease = "live"
  BY <1>1 DEF Heartbeat, Row
<1>3. Numbered'
  BY <1>1, <1>2 DEF Numbered
<1>4. \A e \in Events, d \in Consumers : Fenced(e, d)' <=> Fenced(e, d)
  BY <1>2 DEF Fenced, Heartbeat
<1>5. \A e \in Events : Again(e)' => Again(e)
  BY <1>2, <1>4 DEF Again, Heartbeat
<1> QED BY <1>3, <1>4, <1>5, RowAttempts DEF Heartbeat

-----------------------------------------------------------------------------
(* Steps of a consumer that write neither rows nor deliveries: nothing new *)
(* is to do, and who holds a row and is not giving it back keeps it.       *)
LEMMA ConsumerAttempts ==
  ASSUME IInv, AttemptsInv, NEW c \in Consumers, UNCHANGED <<row, delivery>>,
         \A d \in Consumers : d # c => con'[d] = con[d],
         \A e \in Events : \A t \in TargetsFor(e) : StillToDo(e, t, c)' => StillToDo(e, t, c),
         \/ /\ faults' = faults
            /\ \A e \in Events : Fenced(e, c) =>
                 /\ Fenced(e, c)'
                 /\ con'[c].cur = e /\ con'[c].pc = "reschedule" =>
                      con[c].cur = e /\ con[c].pc = "reschedule"
         \/ faults' = faults + 1,
         SeenRight(c)', HasBefore(c)'
  PROVE  AttemptsInv'
<1>1. \A e \in Events, d \in Consumers : d # c => (Fenced(e, d)' <=> Fenced(e, d))
  BY DEF Fenced
<1>2. ASSUME NEW e \in Events, NEW t \in TargetsFor(e) PROVE WithinBudget(e, t)'
  <2>1. Tried(e, t)' => Tried(e, t)
    BY <1>1 DEF Tried, StillToDo
  <2>2. TypeOK /\ WithinBudget(e, t)
    BY DEF AttemptsInv, IInv
  <2>3. \/ faults' = faults /\ (Again(e)' => Again(e))
        \/ faults' = faults + 1
    BY <1>1 DEF Again
  <2> QED BY <2>1, <2>2, <2>3, BudgetStep
<1>3. ASSUME NEW d \in Consumers, d # c PROVE SeenRight(d)' /\ HasBefore(d)'
  <2>1. SeenRight(d) /\ HasBefore(d) /\ AtRow(d)
    BY DEF AttemptsInv, IInv
  <2>2. SeenRight(d)'
    BY <1>1, <1>3, <2>1 DEF SeenRight, AtRow
  <2>3. HasBefore(d)'
    BY <1>1, <1>3, <2>1 DEF HasBefore
  <2> QED BY <2>2, <2>3
<1>4. Numbered'
  BY DEF AttemptsInv, Numbered
<1>5. \A e \in Events : TargetsFor(e)' = TargetsFor(e)
  BY DEF TargetsFor
<1> QED BY <1>2, <1>3, <1>4, <1>5 DEF AttemptsInv

(* What leaving a row does to the consumer.                                *)
LEMMA NextRowFields ==
  ASSUME TypeOK, NEW c \in Consumers, NextRow(c)
  PROVE  /\ \A d \in Consumers : d # c => con'[d] = con[d]
         /\ con'[c].pc = "next" /\ con'[c].cur = NoEvent
         /\ con'[c].claimed = con[c].claimed /\ con'[c].todo = con[c].todo
<1> DEFINE k == [con[c] EXCEPT !.pc = "next", !.cur = NoEvent, !.left = {},
                               !.seen = [t \in Targets |-> 0]]
<1>1. con \in [Consumers -> Consumer] /\ con[c] \in Consumer
  BY DEF TypeOK
<1>2. con' = [con EXCEPT ![c] = k]
  BY DEF NextRow
<1>3. k.pc = "next" /\ k.cur = NoEvent /\ k.claimed = con[c].claimed /\ k.todo = con[c].todo
  BY <1>1 DEF Consumer
<1> HIDE DEF k
<1> QED BY <1>1, <1>2, <1>3

(* A consumer that lost its row leaves it.                                 *)
LEMMA LostRowAttempts ==
  ASSUME IInv, AttemptsInv, NEW c \in Consumers, NextRow(c), con[c].cur \in Events,
         ~Fenced(con[c].cur, c), UNCHANGED <<row, delivery, faults>>
  PROVE  AttemptsInv'
<1>1. /\ \A d \in Consumers : d # c => con'[d] = con[d]
      /\ con'[c].pc = "next" /\ con'[c].cur = NoEvent
      /\ con'[c].claimed = con[c].claimed /\ con'[c].todo = con[c].todo
  BY NextRowFields DEF IInv
<1>2. \A e \in Events : Fenced(e, c)' <=> Fenced(e, c)
  BY <1>1 DEF Fenced
<1>3. \A e \in Events : \A t \in TargetsFor(e) : StillToDo(e, t, c)' => StillToDo(e, t, c)
  BY <1>1, <1>2 DEF StillToDo
<1>4. HasBefore(c)
  BY DEF AttemptsInv
<1>5. SeenRight(c)' /\ HasBefore(c)'
  BY <1>1, <1>2, <1>4 DEF SeenRight, HasBefore
<1> QED BY <1>1, <1>2, <1>3, <1>5, ConsumerAttempts

LEMMA BeginRowAttempts ==
  ASSUME IInv, AttemptsInv, NEW c \in Consumers, NEW x \in Events, BeginRow(c, x)
  PROVE  AttemptsInv'
<1> DEFINE k == [con[c] EXCEPT !.pc = "list", !.cur = x, !.todo = con[c].todo \ {x}]
<1>1. /\ \A d \in Consumers : d # c => con'[d] = con[d]
      /\ con'[c].pc = "list" /\ con'[c].cur = x
      /\ con'[c].claimed = con[c].claimed /\ con'[c].todo = con[c].todo \ {x}
  <2>1. con \in [Consumers -> Consumer] /\ con[c] \in Consumer
    BY DEF IInv, TypeOK
  <2>2. /\ k.pc = "list" /\ k.cur = x
        /\ k.claimed = con[c].claimed /\ k.todo = con[c].todo \ {x}
    BY <2>1 DEF Consumer
  <2>3. con' = [con EXCEPT ![c] = k]
    BY DEF BeginRow
  <2> HIDE DEF k
  <2> QED BY <2>1, <2>2, <2>3
<1>2. \A e \in Events : Fenced(e, c)' <=> Fenced(e, c)
  BY <1>1 DEF Fenced, BeginRow
<1>3. con[c].pc = "next" /\ x \in con[c].todo /\ UNCHANGED <<row, delivery, faults>>
  BY DEF BeginRow
<1>4. \A e \in Events : \A t \in TargetsFor(e) : StillToDo(e, t, c)' => StillToDo(e, t, c)
  BY <1>1, <1>2, <1>3 DEF StillToDo
<1>5. HasBefore(c)
  BY DEF AttemptsInv
<1>6. SeenRight(c)' /\ HasBefore(c)'
  BY <1>1, <1>2, <1>3, <1>5 DEF SeenRight, HasBefore
<1> HIDE DEF k
<1> QED BY <1>1, <1>2, <1>3, <1>4, <1>6, ConsumerAttempts

(* A consumer without a batch is fenced in nowhere.                        *)
LEMMA IdleFields ==
  ASSUME IInv, AttemptsInv, NEW c \in Consumers, con' = [con EXCEPT ![c] = Idle],
         UNCHANGED row
  PROVE  /\ \A d \in Consumers : d # c => con'[d] = con[d]
         /\ \A e \in Events : ~Fenced(e, c)'
         /\ \A e \in Events : \A t \in TargetsFor(e) : ~StillToDo(e, t, c)'
         /\ SeenRight(c)' /\ HasBefore(c)'
<1>1. TypeOK /\ Numbered /\ con \in [Consumers -> Consumer]
  BY DEF IInv, TypeOK, AttemptsInv
<1>2. con'[c] = Idle /\ \A d \in Consumers : d # c => con'[d] = con[d]
  BY <1>1
<1>3. ASSUME NEW e \in Events PROVE ~Fenced(e, c)'
  <2>1. con'[c].claimed[e] = 0
    BY <1>2 DEF Idle
  <2>2. row[e].status = "publishing" => row[e].gen # 0
    BY <1>1 DEF Numbered, TypeOK, Row
  <2> QED BY <2>1, <2>2 DEF Fenced
<1>4. con'[c].pc = "idle"
  BY <1>2 DEF Idle
<1> QED BY <1>2, <1>3, <1>4 DEF StillToDo, SeenRight, HasBefore

LEMMA EndBatchAttempts ==
  ASSUME IInv, AttemptsInv, NEW c \in Consumers, EndBatch(c) PROVE AttemptsInv'
<1>1. \A e \in Events : ~Fenced(e, c)
  BY DEF EndBatch, AttemptsInv, HasBefore
<1> QED BY <1>1, IdleFields, ConsumerAttempts DEF EndBatch

LEMMA StopConsumerAttempts ==
  ASSUME IInv, AttemptsInv, NEW c \in Consumers, StopConsumer(c) PROVE AttemptsInv'
<1>1. faults' = faults + 1
  BY DEF StopConsumer, Fault
<1> QED BY <1>1, IdleFields, ConsumerAttempts DEF StopConsumer

(* The consumer only moves on, with its row and its targets.               *)
LEMMA MoveAttempts ==
  ASSUME IInv, AttemptsInv, NEW c \in Consumers, NEW pc \in {"failed", "reschedule"},
         con[c].pc \in {"list", "deliver", "failed", "finalize"},
         con' = [con EXCEPT ![c].pc = pc], UNCHANGED <<row, delivery>>,
         \/ pc = "failed" /\ con[c].pc = "deliver" /\ faults' = faults
         \/ pc = "reschedule" /\ faults' = faults + 1
  PROVE  AttemptsInv'
<1>1. /\ \A d \in Consumers : d # c => con'[d] = con[d]
      /\ con'[c].pc = pc /\ con'[c].cur = con[c].cur /\ con'[c].todo = con[c].todo
      /\ con'[c].left = con[c].left /\ con'[c].claimed = con[c].claimed
      /\ con'[c].seen = con[c].seen
  BY DEF IInv, TypeOK, Consumer
<1>2. \A e \in Events : Fenced(e, c)' <=> Fenced(e, c)
  BY <1>1 DEF Fenced
<1>3. \A e \in Events : \A t \in TargetsFor(e) : StillToDo(e, t, c)' => StillToDo(e, t, c)
  BY <1>1, <1>2 DEF StillToDo
<1>4. HasBefore(c) /\ SeenRight(c) /\ con[c].cur \in Events
  BY DEF AttemptsInv, IInv, AtRow
<1>5. HasBefore(c)'
  BY <1>1, <1>2, <1>4 DEF HasBefore
<1>6. SeenRight(c)'
  BY <1>1, <1>2, <1>4 DEF SeenRight
<1> QED BY <1>1, <1>2, <1>3, <1>5, <1>6, ConsumerAttempts

LEMMA ListDeliveriesAttempts ==
  ASSUME IInv, AttemptsInv, NEW c \in Consumers, ListDeliveries(c) PROVE AttemptsInv'
<1> DEFINE e == con[c].cur
           left == {t \in TargetsFor(e) : delivery[e][t].status # "succeeded"}
           pc == IF left = {} THEN "finalize" ELSE "deliver"
           seen == [t \in Targets |-> delivery[e][t].attempts]
           k == [con[c] EXCEPT !.pc = pc, !.left = left, !.seen = seen]
<1>1. e \in Events /\ left \subseteq Targets /\ con[c].pc = "list"
  BY TargetsForType DEF ListDeliveries, IInv, AtRow
<1>2. /\ \A d \in Consumers : d # c => con'[d] = con[d]
      /\ con'[c].pc \in {"finalize", "deliver"} /\ con'[c].cur = e
      /\ con'[c].left = left /\ con'[c].seen = seen
      /\ con'[c].claimed = con[c].claimed /\ con'[c].todo = con[c].todo
  <2>1. con \in [Consumers -> Consumer] /\ con[c] \in Consumer /\ e = con[c].cur
    BY DEF IInv, TypeOK
  <2>2. con' = [con EXCEPT ![c] = k]
    BY DEF ListDeliveries
  <2>3. pc \in {"finalize", "deliver"}
    OBVIOUS
  <2>4. /\ k.pc = pc /\ k.cur = e /\ k.left = left /\ k.seen = seen
        /\ k.claimed = con[c].claimed /\ k.todo = con[c].todo
    <3> HIDE DEF e, left, seen, pc
    <3> QED BY <2>1 DEF Consumer
  <2> HIDE DEF k, e, left, seen, pc
  <2> QED BY <2>1, <2>2, <2>3, <2>4
<1>3. UNCHANGED <<row, delivery, faults>>
  BY DEF ListDeliveries
<1>4. \A t \in left : seen[t] = delivery[e][t].attempts
  BY <1>1
<1> HIDE DEF k, left, seen, pc
<1>5. \A x \in Events : Fenced(x, c)' <=> Fenced(x, c)
  BY <1>2, <1>3 DEF Fenced
<1>6. \A x \in Events : \A t \in TargetsFor(x) : StillToDo(x, t, c)' => StillToDo(x, t, c)
  BY <1>1, <1>2, <1>5 DEF StillToDo
<1>7. SeenRight(c)'
  <2> HIDE DEF e
  <2> QED BY <1>2, <1>3, <1>4 DEF SeenRight
<1>8. HasBefore(c)'
  BY <1>1, <1>2, <1>5 DEF AttemptsInv, HasBefore
<1> HIDE DEF e
<1> QED BY <1>2, <1>3, <1>5, <1>6, <1>7, <1>8, ConsumerAttempts

-----------------------------------------------------------------------------
(* Steps that write rows or deliveries.                                    *)

(* Claiming a row turns the next attempt into one of this batch.           *)
LEMMA ClaimBatchAttempts ==
  ASSUME IInv, AttemptsInv, NEW c \in Consumers, ClaimBatch(c) PROVE AttemptsInv'
<1> DEFINE claimed == [e \in Events |-> IF e \in OldestClaimable THEN row[e].gen + 1 ELSE 0]
           k == [Idle EXCEPT !.pc = "next", !.todo = OldestClaimable, !.claimed = claimed]
<1>1. TypeOK /\ row \in [Events -> Row] /\ Numbered /\ con \in [Consumers -> Consumer]
  BY DEF IInv, TypeOK, AttemptsInv
<1>2. PICK batch \in SUBSET Events : batch = OldestClaimable
  BY DEF OldestClaimable
<1>3. /\ \A d \in Consumers : d # c => con'[d] = con[d]
      /\ con'[c].pc = "next" /\ con'[c].cur = NoEvent /\ con'[c].todo = batch
      /\ \A e \in Events : con'[c].claimed[e] = IF e \in batch THEN row[e].gen + 1 ELSE 0
  <2>1. /\ k.pc = "next" /\ k.cur = NoEvent /\ k.todo = batch /\ k.claimed = claimed
    BY <1>2 DEF Idle
  <2>2. con' = [con EXCEPT ![c] = k]
    BY DEF ClaimBatch
  <2>3. \A e \in Events : claimed[e] = IF e \in batch THEN row[e].gen + 1 ELSE 0
    BY <1>2
  <2> HIDE DEF k, claimed
  <2> QED BY <1>1, <2>1, <2>2, <2>3
<1>4. ASSUME NEW e \in batch
      PROVE  /\ row'[e].status = "publishing" /\ row'[e].owner = c
             /\ row'[e].gen = row[e].gen + 1 /\ row'[e].lease = "live"
             /\ row[e].status \in {"pending", "retry_wait"} /\ row[e].gen \in Nat
  <2>1. row'[e] = [row[e] EXCEPT !.status = "publishing", !.owner = c,
                                 !.gen = row[e].gen + 1, !.lease = "live"]
    BY <1>2 DEF ClaimBatch
  <2> QED BY <1>1, <1>2, <2>1 DEF Row, OldestClaimable, Claimable
<1>5. \A e \in Events : e \notin batch => row'[e] = row[e]
  BY <1>2 DEF ClaimBatch
<1>6. UNCHANGED <<delivery, faults>> /\ con[c].pc = "idle"
  BY DEF ClaimBatch
<1>7. \A e \in Events : ~Fenced(e, c)
  BY <1>6 DEF AttemptsInv, HasBefore
<1> HIDE DEF k, claimed
<1>8. Numbered'
  BY <1>1, <1>4, <1>5 DEF Numbered
<1>9. ASSUME NEW e \in Events
      PROVE  /\ \A d \in Consumers : d # c =>
                  (Fenced(e, d)' <=> Fenced(e, d) /\ e \notin batch)
             /\ Fenced(e, c)' <=> e \in batch
  <2>1. CASE e \in batch
    <3>1. ~Fenced(e, c)' => con'[c].claimed[e] # row'[e].gen
      BY <1>4, <2>1 DEF Fenced
    <3>2. \A d \in Consumers : ~Fenced(e, d)
      BY <1>4, <2>1 DEF Fenced
    <3> QED BY <1>3, <1>4, <2>1, <3>1, <3>2 DEF Fenced
  <2>2. CASE e \notin batch
    <3>1. ~Fenced(e, c)'
      <4>1. con'[c].claimed[e] = 0
        BY <1>3, <2>2
      <4>2. row'[e].status = "publishing" => row'[e].gen # 0
        BY <1>1, <1>5, <2>2 DEF Numbered, Row
      <4> QED BY <4>1, <4>2 DEF Fenced
    <3>2. \A d \in Consumers : d # c => (Fenced(e, d)' <=> Fenced(e, d))
      BY <1>3, <1>5, <2>2 DEF Fenced
    <3> QED BY <2>2, <3>1, <3>2
  <2> QED BY <2>1, <2>2
<1>10. ASSUME NEW e \in Events, NEW t \in TargetsFor(e) PROVE WithinBudget(e, t)'
  <2>1. WithinBudget(e, t)
    BY DEF AttemptsInv
  <2>2. t \in Targets
    BY TargetsOf
  <2>3. delivery[e][t].attempts \in Nat /\ faults \in Nat
    BY <1>1, <2>2 DEF TypeOK, Delivery
  <2>4. CASE e \in batch
    <3>1. Again(e)
      BY <1>4, <2>4 DEF Again
    <3>2. ~Again(e)'
      BY <1>3, <1>4, <1>9, <2>4, OutboxAssumption DEF Again
    <3>3. delivery'[e][t] = delivery[e][t] /\ faults' = faults
      BY <1>6
    <3> QED BY <2>1, <2>3, <3>1, <3>2, <3>3, OutboxAssumption DEF WithinBudget, One
  <2>5. CASE e \notin batch
    <3>1. Tried(e, t)' => Tried(e, t)
      BY <1>3, <1>9, <2>5 DEF Tried, StillToDo
    <3>2. Again(e)' => Again(e)
      BY <1>3, <1>5, <1>7, <1>9, <2>5 DEF Again
    <3> QED BY <1>1, <1>6, <2>1, <3>1, <3>2, BudgetStep
  <2> QED BY <2>4, <2>5
<1>11. SeenRight(c)' /\ HasBefore(c)'
  BY <1>3, <1>9 DEF SeenRight, HasBefore
<1>12. ASSUME NEW d \in Consumers, d # c PROVE SeenRight(d)' /\ HasBefore(d)'
  <2>1. SeenRight(d) /\ HasBefore(d) /\ AtRow(d) /\ con'[d] = con[d]
    BY <1>3, <1>12 DEF AttemptsInv, IInv
  <2>2. SeenRight(d)'
    BY <1>6, <1>9, <1>12, <2>1 DEF SeenRight, AtRow
  <2>3. HasBefore(d)'
    BY <1>9, <1>12, <2>1 DEF HasBefore
  <2> QED BY <2>2, <2>3
<1>13. \A e \in Events : TargetsFor(e)' = TargetsFor(e)
  BY DEF TargetsFor
<1> QED BY <1>8, <1>10, <1>11, <1>12, <1>13 DEF AttemptsInv

(* A holder gives its row back: nobody holds it then.                      *)
LEMMA ReleaseAttempts ==
  ASSUME IInv, AttemptsInv, NEW c \in Consumers, NEW e \in Events, e = con[c].cur,
         con[c].pc \in {"finalize", "reschedule"}, Fenced(e, c),
         NextRow(c), UNCHANGED <<delivery, faults>>,
         NEW status \in {"retry_wait", "published", "dead_letter"}, NEW due \in BOOLEAN,
         row' = [row EXCEPT ![e] = Released(row[e], status, due)],
         \/ con[c].pc = "reschedule"
         \/ status = "retry_wait" => ~SomeDelivery(e, {"dead_letter"})
  PROVE  AttemptsInv'
<1>1. TypeOK /\ row \in [Events -> Row] /\ Numbered
  BY DEF IInv, TypeOK, AttemptsInv
<1>2. /\ \A d \in Consumers : d # c => con'[d] = con[d]
      /\ con'[c].pc = "next" /\ con'[c].cur = NoEvent
      /\ con'[c].claimed = con[c].claimed /\ con'[c].todo = con[c].todo
  BY <1>1, NextRowFields
<1>3. row'[e].status = status /\ \A x \in Events : x # e => row'[x] = row[x]
  BY <1>1 DEF Released
<1>4. Numbered'
  BY <1>1, <1>3 DEF Numbered
<1>5. \A x \in Events, d \in Consumers : Fenced(x, d)' <=> (Fenced(x, d) /\ x # e)
  BY <1>2, <1>3 DEF Fenced
<1>6. ASSUME NEW x \in Events, NEW t \in TargetsFor(x) PROVE WithinBudget(x, t)'
  <2>1. WithinBudget(x, t)
    BY DEF AttemptsInv
  <2>2. t \in Targets
    BY TargetsOf
  <2>3. Tried(x, t)' => Tried(x, t)
    BY <1>2, <1>5 DEF Tried, StillToDo
  <2>4. CASE x # e
    <3>1. Again(x)' => Again(x)
      BY <1>2, <1>3, <1>5, <2>4, OutboxAssumption DEF Again
    <3> QED BY <1>1, <2>1, <2>3, <3>1, BudgetStep
  <2>5. CASE x = e /\ con[c].pc = "reschedule"
    <3>1. row[e].status = "publishing"
      BY DEF Fenced
    <3>2. \A d \in Consumers : Fenced(e, d) => d = c
      BY OneHolder
    <3>3. Again(e)
      BY <2>5, <3>1, <3>2 DEF Again
    <3> QED BY <1>1, <2>1, <2>3, <2>5, <3>3, BudgetStep
  <2>6. CASE x = e /\ (status = "retry_wait" => ~SomeDelivery(e, {"dead_letter"}))
    <3>1. /\ delivery[e][t].attempts \in Nat /\ faults \in Nat /\ MaxAttempts \in Nat
          /\ delivery[e][t].status \in {"pending", "succeeded", "retry_wait", "dead_letter"}
      BY <1>1, <2>2, OutboxAssumption DEF TypeOK, Delivery
    <3>2. ~Tried(e, t)'
      BY <1>5 DEF Tried, StillToDo
    <3>3. delivery'[e][t] = delivery[e][t] /\ faults' = faults
      OBVIOUS
    <3>4. CASE status = "retry_wait"
      <4>1. delivery[e][t].status # "dead_letter"
        BY <2>6, <3>4 DEF SomeDelivery
      <4>2. One(Tried(e, t)') = 0 /\ One(Again(e)') \in {0, 1}
        BY <3>2 DEF One
      <4>3. One(Tried(e, t)) \in {0, 1} /\ One(Again(e)) \in {0, 1}
        BY DEF One
      <4>4. WithinBudget(e, t)
        BY <2>1, <2>6
      <4>5. /\ delivery[e][t].attempts <= MaxAttempts + faults
            /\ delivery[e][t].status \in {"pending", "retry_wait"} =>
                 delivery[e][t].attempts < MaxAttempts
            /\ delivery[e][t].status # "succeeded" =>
                 delivery[e][t].attempts + One(Again(e)') <= MaxAttempts + faults
        <5>1. /\ delivery[e][t].attempts <= MaxAttempts + faults
              /\ delivery[e][t].status = "pending" => delivery[e][t].attempts < MaxAttempts
              /\ delivery[e][t].status = "retry_wait" => delivery[e][t].attempts < MaxAttempts
          BY <4>4 DEF WithinBudget
        <5>2. CASE delivery[e][t].status = "succeeded"
          BY <5>1, <5>2
        <5>3. CASE delivery[e][t].status # "succeeded"
          <6>1. delivery[e][t].attempts < MaxAttempts
            BY <3>1, <4>1, <5>1, <5>3
          <6>2. delivery[e][t].attempts + One(Again(e)') <= MaxAttempts + faults
            BY <3>1, <4>2, <6>1, AttemptLeft
          <6> QED BY <5>1, <6>2
        <5> QED BY <5>2, <5>3
      <4> QED BY <2>6, <3>1, <3>2, <3>3, <4>5, Untried
    <3>5. CASE status # "retry_wait"
      <4>1. ~Again(e)'
        BY <1>3, <3>5 DEF Again
      <4>2. One(Tried(e, t)') = 0 /\ One(Again(e)') = 0
        BY <3>2, <4>1 DEF One
      <4>3. WithinBudget(e, t)
        BY <2>1, <2>6
      <4>4. /\ delivery[e][t].attempts <= MaxAttempts + faults
            /\ delivery[e][t].status \in {"pending", "retry_wait"} =>
                 delivery[e][t].attempts < MaxAttempts
        BY <4>3 DEF WithinBudget
      <4>5. delivery[e][t].attempts + One(Again(e)') <= MaxAttempts + faults
        BY <3>1, <4>2, <4>4
      <4> QED BY <2>6, <3>1, <3>2, <3>3, <4>4, <4>5, Untried
    <3> QED BY <3>4, <3>5
  <2> QED BY <2>4, <2>5, <2>6
<1>7. ASSUME NEW d \in Consumers PROVE SeenRight(d)' /\ HasBefore(d)'
  <2>1. SeenRight(d) /\ HasBefore(d) /\ AtRow(d)
    BY DEF AttemptsInv, IInv
  <2>2. CASE d = c
    BY <1>2, <1>5, <2>1, <2>2 DEF SeenRight, HasBefore
  <2>3. CASE d # c
    <3>1. SeenRight(d)'
      BY <1>2, <1>5, <2>1, <2>3 DEF SeenRight, AtRow
    <3>2. HasBefore(d)'
      BY <1>2, <1>5, <2>1, <2>3 DEF HasBefore
    <3> QED BY <3>1, <3>2
  <2> QED BY <2>2, <2>3
<1>8. \A x \in Events : TargetsFor(x)' = TargetsFor(x)
  BY DEF TargetsFor
<1> QED BY <1>4, <1>6, <1>7, <1>8 DEF AttemptsInv

LEMMA FinalizeAttempts ==
  ASSUME IInv, AttemptsInv, NEW c \in Consumers, Finalize(c) PROVE AttemptsInv'
<1>1. con[c].cur \in Events /\ con[c].pc = "finalize"
  BY DEF Finalize, IInv, AtRow
<1>2. CASE Fenced(con[c].cur, c)
  <2> DEFINE due == ~SomeDelivery(con[c].cur, {"pending", "retry_wait"})
  <2>1. due \in BOOLEAN
    <3>1. CASE due
      BY <3>1
    <3>2. CASE ~due
      BY <3>2
    <3> HIDE DEF due
    <3> QED BY <3>1, <3>2
  <2>2. /\ FinalStatus(con[c].cur) \in {"retry_wait", "published", "dead_letter"}
        /\ FinalStatus(con[c].cur) = "retry_wait" => ~SomeDelivery(con[c].cur, {"dead_letter"})
    BY DEF FinalStatus
  <2>3. row' = [row EXCEPT ![con[c].cur] =
                  Released(row[con[c].cur], FinalStatus(con[c].cur), due)]
    BY <1>2 DEF Finalize
  <2>4. NextRow(c) /\ UNCHANGED <<delivery, faults>>
    BY DEF Finalize
  <2> HIDE DEF due
  <2> QED BY <1>1, <1>2, <2>1, <2>2, <2>3, <2>4, ReleaseAttempts
<1>3. CASE ~Fenced(con[c].cur, c)
  BY <1>1, <1>3, LostRowAttempts DEF Finalize
<1> QED BY <1>2, <1>3

LEMMA RescheduleAttempts ==
  ASSUME IInv, AttemptsInv, NEW c \in Consumers, Reschedule(c) PROVE AttemptsInv'
<1>1. con[c].cur \in Events /\ con[c].pc = "reschedule"
  BY DEF Reschedule, IInv, AtRow
<1>2. CASE Fenced(con[c].cur, c)
  BY <1>1, <1>2, ReleaseAttempts DEF Reschedule
<1>3. CASE ~Fenced(con[c].cur, c)
  BY <1>1, <1>3, LostRowAttempts DEF Reschedule
<1> QED BY <1>2, <1>3

(* A mark counts the attempt that was coming.                              *)
LEMMA MarkAttempts ==
  ASSUME IInv, AttemptsInv, NEW c \in Consumers, NEW t \in Targets, NEW e \in Events,
         e = con[c].cur, con[c].pc \in {"deliver", "failed"}, t \in con[c].left, Fenced(e, c),
         DeliveryDone(c, t), UNCHANGED <<row, faults>>,
         NEW status \in {"succeeded", "retry_wait", "dead_letter"},
         delivery' = Marked(e, t, status),
         status = "retry_wait" => con[c].seen[t] + 1 < MaxAttempts
  PROVE  AttemptsInv'
<1>1. TypeOK /\ MaxAttempts \in Nat
  BY OutboxAssumption DEF IInv
<1>2. /\ \A d \in Consumers : d # c => con'[d] = con[d]
      /\ con'[c].pc \in {"finalize", "deliver"}
      /\ con'[c].claimed = con[c].claimed /\ con'[c].cur = e
      /\ con'[c].left = con[c].left \ {t}
      /\ con'[c].todo = con[c].todo /\ con'[c].seen = con[c].seen
  <2>1. con'[c].todo = con[c].todo /\ con'[c].seen = con[c].seen
    BY <1>1 DEF DeliveryDone, TypeOK, Consumer
  <2> QED BY <1>1, <2>1, DeliveryDoneType
<1>3. \A x \in Events, u \in Targets :
        /\ x # e \/ u # t => delivery'[x][u] = delivery[x][u]
        /\ x = e /\ u = t => /\ delivery'[x][u].status = status
                             /\ delivery'[x][u].attempts = delivery[e][t].attempts + 1
  <2> DEFINE d == [status |-> status, attempts |-> delivery[e][t].attempts + 1]
  <2>1. delivery \in [Events -> [Targets -> Delivery]]
    BY <1>1 DEF TypeOK
  <2>2. delivery' = [delivery EXCEPT ![e][t] = d]
    BY DEF Marked
  <2>3. d.status = status /\ d.attempts = delivery[e][t].attempts + 1
    OBVIOUS
  <2> HIDE DEF d
  <2> QED BY <2>1, <2>2, <2>3
<1>4. /\ con[c].left \subseteq TargetsFor(e) /\ delivery[e][t].status # "succeeded"
      /\ con[c].seen[t] = delivery[e][t].attempts /\ e \notin con[c].todo
  BY DEF IInv, LeftOpen, AttemptsInv, SeenRight, HasBefore
<1>5. \A x \in Events, d \in Consumers : Fenced(x, d)' <=> Fenced(x, d)
  BY <1>2 DEF Fenced
<1>6. \A x \in Events : \A d \in Consumers \ {c} : x = e => ~Fenced(x, d)
  BY OneHolder
<1>7. ASSUME NEW x \in Events, NEW u \in TargetsFor(x) PROVE WithinBudget(x, u)'
  <2>1. WithinBudget(x, u) /\ u \in Targets
    BY TargetsOf DEF AttemptsInv
  <2>2. Tried(x, u)' => Tried(x, u)
    BY <1>2, <1>5 DEF Tried, StillToDo
  <2>3. Again(x)' => Again(x)
    BY <1>2, <1>5 DEF Again
  <2>4. CASE x # e \/ u # t
    BY <1>1, <1>3, <2>1, <2>2, <2>3, <2>4, BudgetStep
  <2>5. CASE x = e /\ u = t
    <3>1. Tried(e, t)
      BY DEF Tried, StillToDo
    <3>2. ~Tried(e, t)'
      BY <1>2, <1>4, <1>5, <1>6 DEF Tried, StillToDo
    <3>3. delivery[e][t].attempts \in Nat /\ faults \in Nat
      BY <1>1 DEF TypeOK, Delivery
    <3>4. delivery'[e][t].status = status /\ delivery'[e][t].attempts = delivery[e][t].attempts + 1
      BY <1>3
    <3>5. WithinBudget(e, t) /\ (Again(e)' => Again(e))
      BY <2>1, <2>3, <2>5
    <3>6. /\ One(Tried(e, t)) = 1 /\ One(Tried(e, t)') = 0
          /\ One(Again(e)') <= One(Again(e)) /\ One(Again(e)) \in Nat /\ One(Again(e)') \in Nat
      BY <3>1, <3>2, <3>5 DEF One
    <3>7. delivery[e][t].attempts + 1 + One(Again(e)) <= MaxAttempts + faults
      BY <1>4, <3>3, <3>5, <3>6 DEF WithinBudget
    <3>8. /\ delivery'[e][t].attempts + One(Again(e)') <= MaxAttempts + faults
          /\ delivery'[e][t].attempts <= MaxAttempts + faults
      BY <1>1, <3>3, <3>4, <3>6, <3>7
    <3>9. delivery'[e][t].status \in {"pending", "retry_wait"} =>
            delivery'[e][t].attempts < MaxAttempts
      BY <1>4, <3>4
    <3>10. delivery'[e][t].attempts \in Nat /\ faults' = faults
      BY <3>3, <3>4
    <3> QED BY <1>1, <2>5, <3>2, <3>3, <3>8, <3>9, <3>10, Untried
  <2> QED BY <2>4, <2>5
<1>8. ASSUME NEW d \in Consumers PROVE SeenRight(d)' /\ HasBefore(d)'
  <2>1. SeenRight(d) /\ HasBefore(d) /\ AtRow(d)
    BY DEF AttemptsInv, IInv
  <2>2. CASE d = c
    <3>1. con[c].left \subseteq Targets
      BY <1>1 DEF TypeOK, Consumer
    <3>2. SeenRight(c)'
      BY <1>2, <1>3, <2>1, <2>2, <3>1 DEF SeenRight
    <3>3. HasBefore(c)'
      BY <1>2, <1>5, <2>1, <2>2 DEF HasBefore
    <3> QED BY <2>2, <3>2, <3>3
  <2>3. CASE d # c
    <3>1. con[d].left \subseteq Targets
      BY <1>1 DEF TypeOK, Consumer
    <3>2. SeenRight(d)'
      <4>1. \/ Fenced(con[d].cur, d)' <=> Fenced(con[d].cur, d)
            \/ con[d].pc \in {"idle", "next"}
        BY <1>2, <1>5, <2>1, <2>3 DEF AtRow
      <4>2. con'[d] = con[d]
        BY <1>2, <2>3
      <4>3. CASE con[d].pc \in {"deliver", "failed"} /\ Fenced(con[d].cur, d)
        <5>1. con[d].cur \in Events /\ con[d].cur # e
          BY <1>6, <2>1, <2>3, <4>3 DEF AtRow
        <5>2. \A u \in con[d].left : delivery'[con[d].cur][u] = delivery[con[d].cur][u]
          BY <1>3, <3>1, <5>1
        <5> QED BY <2>1, <4>2, <4>3, <5>2 DEF SeenRight
      <4>4. CASE ~(con[d].pc \in {"deliver", "failed"} /\ Fenced(con[d].cur, d))
        BY <4>1, <4>2, <4>4 DEF SeenRight
      <4> QED BY <4>3, <4>4
    <3>3. HasBefore(d)'
      BY <1>2, <1>5, <2>1, <2>3 DEF HasBefore
    <3> QED BY <3>2, <3>3
  <2> QED BY <2>2, <2>3
<1>9. Numbered'
  BY DEF AttemptsInv, Numbered
<1>10. \A x \in Events : TargetsFor(x)' = TargetsFor(x)
  BY DEF TargetsFor
<1> QED BY <1>7, <1>8, <1>9, <1>10 DEF AttemptsInv

LEMMA DeliverAttempts ==
  ASSUME IInv, AttemptsInv, NEW c \in Consumers, NEW t \in Targets, Deliver(c, t)
  PROVE  AttemptsInv'
<1>1. con[c].cur \in Events /\ t \in con[c].left /\ con[c].pc = "deliver"
  BY DEF Deliver, IsNext, IInv, AtRow
<1>2. CASE Fenced(con[c].cur, c)
  BY <1>1, <1>2, MarkAttempts DEF Deliver
<1>3. CASE ~Fenced(con[c].cur, c)
  BY <1>1, <1>3, LostRowAttempts DEF Deliver
<1> QED BY <1>2, <1>3

LEMMA MarkFailedAttempts ==
  ASSUME IInv, AttemptsInv, NEW c \in Consumers, NEW t \in Targets, MarkFailed(c, t)
  PROVE  AttemptsInv'
<1>1. con[c].cur \in Events /\ t \in con[c].left /\ con[c].pc = "failed"
  BY DEF MarkFailed, IsNext, IInv, AtRow
<1>2. con[c].seen[t] \in Nat /\ MaxAttempts \in Nat
  BY OutboxAssumption DEF IInv, TypeOK, Consumer
<1>3. /\ FailureStatus(c, t) \in {"retry_wait", "dead_letter"}
      /\ FailureStatus(c, t) = "retry_wait" => con[c].seen[t] + 1 < MaxAttempts
  BY <1>2 DEF FailureStatus
<1>4. CASE Fenced(con[c].cur, c)
  BY <1>1, <1>3, <1>4, MarkAttempts DEF MarkFailed
<1>5. CASE ~Fenced(con[c].cur, c)
  BY <1>1, <1>5, LostRowAttempts DEF MarkFailed
<1> QED BY <1>4, <1>5

(* Every step keeps the budget.                                            *)
LEMMA NextAttempts == IInv /\ AttemptsInv /\ [Next]_vars => AttemptsInv'
<1> SUFFICES ASSUME IInv, AttemptsInv, [Next]_vars PROVE AttemptsInv'
  OBVIOUS
<1>1. CASE UNCHANGED vars
  <2>1. Numbered' /\ \A e \in Events, d \in Consumers : Fenced(e, d)' <=> Fenced(e, d)
    BY <1>1 DEF vars, AttemptsInv, Numbered, Fenced
  <2>2. \A e \in Events : Again(e)' => Again(e)
    BY <1>1, <2>1 DEF vars, Again
  <2> QED BY <1>1, <2>1, <2>2, RowAttempts DEF vars
<1>2. CASE RecoverExpiredLeases
  BY <1>2, RecoverAttempts
<1>3. ASSUME NEW e \in Events, InsertEvent(e) \/ LeaseExpires(e) \/ BackoffElapses(e)
      PROVE  AttemptsInv'
  BY <1>3, InsertAttempts, LeaseExpiresAttempts, BackoffAttempts
<1>4. ASSUME NEW c \in Consumers, ClaimBatch(c) \/ StopConsumer(c) \/ Heartbeat(c)
      PROVE  AttemptsInv'
  BY <1>4, ClaimBatchAttempts, StopConsumerAttempts, HeartbeatAttempts
<1>5. ASSUME NEW c \in Consumers, Uncaught(c) PROVE AttemptsInv'
  BY <1>5, MoveAttempts DEF Uncaught, Fault
<1>6. ASSUME NEW c \in Consumers, DispatchFails(c) PROVE AttemptsInv'
  BY <1>6, MoveAttempts DEF DispatchFails
<1>7. ASSUME NEW c \in Consumers, Work(c) PROVE AttemptsInv'
  BY <1>6, <1>7, BeginRowAttempts, EndBatchAttempts, ListDeliveriesAttempts, DeliverAttempts,
     MarkFailedAttempts, FinalizeAttempts, RescheduleAttempts DEF Work
<1> QED BY <1>1, <1>2, <1>3, <1>4, <1>5, <1>7 DEF Next

(* A delivery is tried at most max_attempts times, and once more for every *)
(* lost lease, stopped consumer or failing transaction.                    *)
THEOREM AttemptBudget == Spec => []AttemptsBounded
<1>1. AttemptsInv => AttemptsBounded
  BY DEF AttemptsInv, WithinBudget, AttemptsBounded
<1> QED BY InitIInv, NextInv, InitAttempts, NextAttempts, <1>1, PTL DEF Spec
=============================================================================
