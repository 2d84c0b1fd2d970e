---------------------------- MODULE ThreadContract ----------------------------
(***************************************************************************)
(* What a conversation thread promises its client and the memory, without  *)
(* leases, workers, attempts or jobs: one question at a time, an end that  *)
(* stays, no answer to a question that was cancelled, and a deletion that  *)
(* withdraws what was shared before the thread is gone.                    *)
(***************************************************************************)
CONSTANT Turns

VARIABLES
  life,       \* "active", "deleting" or "deleted"
  phase,      \* phase[t] : "none", "open", "stopping", "answered", "failed", "cancelled"
  known,      \* turns the memory has evidence of
  forgotten   \* turns the memory was told to forget

contractVars == <<life, phase, known, forgotten>>

Unanswered == {"open", "stopping"}

ContractInit ==
  /\ life = "active"
  /\ phase = [t \in Turns |-> "none"]
  /\ known = {} /\ forgotten = {}

Becomes(t, new) ==
  /\ phase' = [phase EXCEPT ![t] = new]
  /\ UNCHANGED <<life, known, forgotten>>

Ask(t) ==
  /\ life = "active" /\ phase[t] = "none"
  /\ \A s \in Turns : phase[s] \notin Unanswered
  /\ Becomes(t, "open")

Answer(t) == life = "active" /\ phase[t] = "open" /\ Becomes(t, "answered")

Fail(t) == life = "active" /\ phase[t] = "open" /\ Becomes(t, "failed")

Stop(t) == phase[t] = "open" /\ Becomes(t, "stopping")

Cancel(t) == phase[t] \in Unanswered /\ Becomes(t, "cancelled")

(* Only answers are shared, and only what is shared is withdrawn.          *)
Learn(t) ==
  /\ phase[t] = "answered"
  /\ known' = known \union {t}
  /\ UNCHANGED <<life, phase, forgotten>>

Forget(t) ==
  /\ life = "deleting" /\ t \in known
  /\ forgotten' = forgotten \union {t}
  /\ UNCHANGED <<life, phase, known>>

(* The deletion stops what is open in the same step.                       *)
Delete ==
  /\ life = "active" /\ life' = "deleting"
  /\ \E stopped \in [Turns -> {"stopping", "cancelled"}] :
       phase' = [t \in Turns |-> IF phase[t] = "open" THEN stopped[t] ELSE phase[t]]
  /\ UNCHANGED <<known, forgotten>>

Gone ==
  /\ life = "deleting" /\ life' = "deleted"
  /\ \A t \in Turns : phase[t] \notin Unanswered
  /\ UNCHANGED <<phase, known, forgotten>>

ContractNext ==
  \/ \E t \in Turns :
       Ask(t) \/ Answer(t) \/ Fail(t) \/ Stop(t) \/ Cancel(t) \/ Learn(t) \/ Forget(t)
  \/ Delete \/ Gone

ContractSpec == ContractInit /\ [][ContractNext]_contractVars
=============================================================================
