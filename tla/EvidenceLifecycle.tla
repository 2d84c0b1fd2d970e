-------------------------- MODULE EvidenceLifecycle --------------------------
(***************************************************************************)
(* What the evidence pool promises about an evidence operation, without    *)
(* schedulers, workers, leases or runs: it waits in the pool, it is in one *)
(* batch at a time, a batch is filled once and settles all the members it  *)
(* still has in one step, and a settled member stays settled except for a  *)
(* cancel.  BATCH_MEMBER_TRANSITIONS of contracts/batch.py, with the batch *)
(* and the cancel made explicit.                                           *)
(***************************************************************************)
EXTENDS Naturals

CONSTANTS Members, Batches, NoBatch

VARIABLES status, batch

Waiting(b) == {m \in Members : status[m] = "pending_batch" /\ batch[m] = b}

Init ==
  /\ status = [m \in Members |-> "absent"]
  /\ batch = [m \in Members |-> NoBatch]

Submit(m) ==
  /\ status[m] = "absent"
  /\ status' = [status EXCEPT ![m] = "pending_batch"]
  /\ UNCHANGED batch

(* A batch takes members from the pool, once.                              *)
Fill(b, S) ==
  /\ S # {} /\ S \subseteq Waiting(NoBatch)
  /\ \A m \in Members : batch[m] # b
  /\ batch' = [m \in Members |-> IF m \in S THEN b ELSE batch[m]]
  /\ UNCHANGED status

(* A member that failed goes back to the pool, or is given up.             *)
Release(m) ==
  /\ m \notin Waiting(NoBatch) /\ status[m] = "pending_batch"
  /\ \/ batch' = [batch EXCEPT ![m] = NoBatch] /\ UNCHANGED status
     \/ status' = [status EXCEPT ![m] = "dead_letter"] /\ UNCHANGED batch

(* A batch ends, and with it all its members; a cancelled batch gives them *)
(* back.                                                                   *)
EndBatch(b) ==
  \/ /\ \E st \in {"succeeded", "dead_letter"} :
          status' = [m \in Members |-> IF m \in Waiting(b) THEN st ELSE status[m]]
     /\ UNCHANGED batch
  \/ /\ batch' = [m \in Members |-> IF m \in Waiting(b) THEN NoBatch ELSE batch[m]]
     /\ UNCHANGED status

Cancel(m) ==
  /\ status[m] # "absent"
  /\ status' = [status EXCEPT ![m] = "cancelled"]
  /\ UNCHANGED batch

Next ==
  \/ \E m \in Members : Submit(m) \/ Release(m) \/ Cancel(m)
  \/ \E b \in Batches, S \in SUBSET Members : Fill(b, S)
  \/ \E b \in Batches : EndBatch(b)

Spec == Init /\ [][Next]_<<status, batch>>
=============================================================================
