---------------------------- MODULE OutboxContract ----------------------------
(***************************************************************************)
(* What the memory outbox promises the rest of the system, without leases, *)
(* batches, attempts or consumer processes: every accepted event reaches   *)
(* each of its targets at most once, it is published only when it reached  *)
(* all of them, and nothing reaches a target after the event was settled.  *)
(***************************************************************************)
CONSTANTS
  Events,
  Targets,
  TargetsFor(_)   \* the targets of an event

VARIABLES
  event,     \* event[e] : "none", "open", "published" or "dead"
  reached    \* reached[e] : the targets e was delivered to

contractVars == <<event, reached>>

ContractInit ==
  /\ event = [e \in Events |-> "none"]
  /\ reached = [e \in Events |-> {}]

Accept(e) ==
  /\ event[e] = "none"
  /\ event' = [event EXCEPT ![e] = "open"]
  /\ UNCHANGED reached

Reach(e, t) ==
  /\ event[e] = "open"
  /\ t \in TargetsFor(e) \ reached[e]
  /\ reached' = [reached EXCEPT ![e] = @ \union {t}]
  /\ UNCHANGED event

Publish(e) ==
  /\ event[e] = "open" /\ reached[e] = TargetsFor(e)
  /\ event' = [event EXCEPT ![e] = "published"]
  /\ UNCHANGED reached

GiveUp(e) ==
  /\ event[e] = "open" /\ reached[e] # TargetsFor(e)
  /\ event' = [event EXCEPT ![e] = "dead"]
  /\ UNCHANGED reached

ContractNext ==
  \E e \in Events :
    Accept(e) \/ Publish(e) \/ GiveUp(e) \/ \E t \in Targets : Reach(e, t)

ContractSpec == ContractInit /\ [][ContractNext]_contractVars
=============================================================================
