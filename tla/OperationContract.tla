-------------------------- MODULE OperationContract --------------------------
(***************************************************************************)
(* What the operation queue promises the rest of the memory, without       *)
(* workers, leases, heartbeats, commit marks or retry counters: an         *)
(* operation is decided at most once, by the last of its claims and only   *)
(* while that claim is in force; the decision of a batch is the decision   *)
(* of all the members it still has, in the same step; and only a cancel    *)
(* replaces a decision, and gives the members back.                        *)
(***************************************************************************)
EXTENDS Naturals

CONSTANTS Ops, NoOp

VARIABLES
  state,      \* "ready", "active", "member" or a verdict
  claims,     \* claims[o] : how often o was taken
  batch,      \* the batch o is or was a member of, or NoOp
  decidedBy   \* decidedBy[o] : the claims whose execution wrote a verdict of o

contractVars == <<state, claims, batch, decidedBy>>

Verdicts == {"succeeded", "needs_review", "dead_letter", "cancelled"}

MembersOf(b) == {m \in Ops : state[m] = "member" /\ batch[m] = b}

(* Evidence starts in its batch or in the pool, the rest is ready.         *)
ContractInit ==
  /\ state \in [Ops -> {"ready", "member"}]
  /\ claims = [o \in Ops |-> 0]
  /\ batch \in [Ops -> Ops \union {NoOp}]
  /\ \A o \in Ops : batch[o] # NoOp => state[o] = "member"
  /\ decidedBy = [o \in Ops |-> {}]

Take(S) ==
  /\ S # {} /\ \A o \in S : state[o] = "ready"
  /\ state' = [o \in Ops |-> IF o \in S THEN "active" ELSE state[o]]
  /\ claims' = [o \in Ops |-> IF o \in S THEN claims[o] + 1 ELSE claims[o]]
  /\ UNCHANGED <<batch, decidedBy>>

(* A retry, or the recovery of abandoned claims.                           *)
GiveBack(S) ==
  /\ S # {} /\ \A o \in S : state[o] = "active"
  /\ state' = [o \in Ops |-> IF o \in S THEN "ready" ELSE state[o]]
  /\ UNCHANGED <<claims, batch, decidedBy>>

MemberVerdict(verdict) == IF verdict = "succeeded" THEN "succeeded" ELSE "dead_letter"

Decide(o, verdict) ==
  /\ state[o] = "active"
  /\ decidedBy' = [decidedBy EXCEPT ![o] = @ \union {claims[o]}]
  /\ \/ /\ verdict # "cancelled"
        /\ state' = [x \in Ops |-> IF x = o THEN verdict
                                   ELSE IF x \in MembersOf(o) THEN MemberVerdict(verdict)
                                   ELSE state[x]]
        /\ UNCHANGED batch
     \/ /\ verdict = "cancelled"
        /\ state' = [state EXCEPT ![o] = verdict]
        /\ batch' = [x \in Ops |-> IF x \in MembersOf(o) THEN NoOp ELSE batch[x]]
  /\ UNCHANGED claims

Cancel(o) ==
  /\ state' = [state EXCEPT ![o] = "cancelled"]
  /\ batch' = [x \in Ops |-> IF x \in MembersOf(o) THEN NoOp ELSE batch[x]]
  /\ UNCHANGED <<claims, decidedBy>>

ContractNext ==
  \/ \E S \in SUBSET Ops : Take(S) \/ GiveBack(S)
  \/ \E o \in Ops : Cancel(o) \/ \E verdict \in Verdicts : Decide(o, verdict)

ContractSpec == ContractInit /\ [][ContractNext]_contractVars
=============================================================================
