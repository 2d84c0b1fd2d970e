---------------------------- MODULE DocumentHistory ----------------------------
(***************************************************************************)
(* What the commits of the memory promise, without files, versions, locks  *)
(* or operations: a document is the set of updates it has taken in.  An    *)
(* execution adds its update to all documents it is about or to none;      *)
(* forgetting hides a document as it is, restoring brings it back as it    *)
(* was, and only the end of the tombstone loses anything.                  *)
(***************************************************************************)
CONSTANTS Docs, Execs

VARIABLES
  about,      \* about[x]: the documents of execution x, {} until it is planned
  document,   \* document[d].state: "none", "live", "deleted", "gone"
  applied     \* the updates <<x, d>> that took place

historyVars == <<about, document, applied>>

HistoryInit ==
  /\ about = [x \in Execs |-> {}]
  /\ document \in [Docs -> [state : {"none", "live"}, updates : {{}}]]
  /\ applied = {}

Intend(x, D) ==
  /\ about[x] = {}
  /\ about' = [about EXCEPT ![x] = D]
  /\ UNCHANGED <<document, applied>>

Write(x) ==
  /\ about[x] # {}
  /\ \A d \in about[x] :
       document[d].state \in {"none", "live"} /\ <<x, d>> \notin applied
  /\ document' = [d \in Docs |->
                    IF d \in about[x]
                    THEN [state |-> "live",
                          updates |-> document[d].updates \union {<<x, d>>}]
                    ELSE document[d]]
  /\ applied' = applied \union ({x} \X about[x])
  /\ UNCHANGED about

Becomes(d, from, to) ==
  /\ document[d].state = from
  /\ document' = [document EXCEPT ![d] = [@ EXCEPT !.state = to]]
  /\ UNCHANGED <<about, applied>>

Forget(d) == Becomes(d, "live", "deleted")

Restore(d) == Becomes(d, "deleted", "live")

Lose(d) ==
  /\ document[d].state = "deleted"
  /\ document' = [document EXCEPT ![d] = [state |-> "gone", updates |-> {}]]
  /\ UNCHANGED <<about, applied>>

HistoryNext ==
  \/ \E x \in Execs : Write(x) \/ \E D \in SUBSET Docs : Intend(x, D)
  \/ \E d \in Docs : Forget(d) \/ Restore(d) \/ Lose(d)

HistorySpec == HistoryInit /\ [][HistoryNext]_historyVars
=============================================================================
