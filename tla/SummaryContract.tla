---------------------------- MODULE SummaryContract ----------------------------
(***************************************************************************)
(* What the generation of knowledge summaries promises.  A job is open,    *)
(* then it has written or is closed, for good.  It writes at most once, on *)
(* the version of the summary its plan was made from, and never about a    *)
(* turn that was there when the user last deleted the topic.               *)
(***************************************************************************)
EXTENDS Naturals

CONSTANTS Users, Turns, Jobs, ReaderOf

VARIABLES
  topic,   \* the user's summary of the topic, live or deleted
  asked,   \* turns completed
  old,     \* turns that were completed when the topic was last deleted
  about,   \* the turn a job is about
  outcome, \* of the jobs
  basis    \* summary and version a job's plan was made from

vars == <<topic, asked, old, about, outcome, basis>>

Nowhere == [id |-> 0, version |-> 0]

(* The state of the topic a plan is made from                              *)
Current(u) ==
  IF topic[u].live THEN [id |-> topic[u].id, version |-> topic[u].version] ELSE Nowhere

Init ==
  /\ topic = [u \in Users |-> [live |-> FALSE, id |-> 0, version |-> 0, sources |-> {}]]
  /\ asked = {}
  /\ old = [u \in Users |-> {}]
  /\ about \in [Jobs -> Turns]
  /\ outcome = [j \in Jobs |-> "none"]
  /\ basis = [j \in Jobs |-> Nowhere]

Ask(t) ==
  /\ asked' = asked \union {t}
  /\ UNCHANGED <<topic, old, about, basis>>

(* A job comes into being, for a turn that is or is just being completed.  *)
Submit(j, t) ==
  /\ outcome[j] = "none"
  /\ outcome' = [outcome EXCEPT ![j] = "open"]
  /\ about' = [about EXCEPT ![j] = t]
  /\ asked' = asked \union {t}
  /\ UNCHANGED <<topic, old, basis>>

(* A plan is made from the state the topic has now, or dropped.            *)
Planned(j) ==
  /\ outcome[j] = "open"
  /\ \E b \in {Nowhere, Current(ReaderOf[about[j]])} : basis' = [basis EXCEPT ![j] = b]
  /\ UNCHANGED <<topic, asked, old, about, outcome>>

Write(j) ==
  LET u == ReaderOf[about[j]]
      now == topic[u]
  IN
  /\ outcome[j] = "open" /\ about[j] \notin old[u]
  /\ outcome' = [outcome EXCEPT ![j] = "written"]
  /\ topic' = [topic EXCEPT ![u] =
       IF now.live
       THEN [now EXCEPT !.version = @ + 1, !.sources = @ \union {about[j]}]
       ELSE [live |-> TRUE, id |-> now.id + 1, version |-> 1, sources |-> {about[j]}]]
  /\ basis[j] = Current(u)
  /\ basis' = [basis EXCEPT ![j] = Nowhere]
  /\ UNCHANGED <<asked, old, about>>

(* A job asks the user to look at the summary, at whatever version it is.  *)
Flag(j) ==
  LET u == ReaderOf[about[j]] IN
  /\ outcome[j] = "open" /\ topic[u].live /\ basis[j].id = topic[u].id
  /\ outcome' = [outcome EXCEPT ![j] = "written"]
  /\ topic' = [topic EXCEPT ![u].version = @ + 1]
  /\ basis' = [basis EXCEPT ![j] = Nowhere]
  /\ UNCHANGED <<asked, old, about>>

(* Jobs end without having written anything.                               *)
Close ==
  LET some == {j \in Jobs : outcome[j] = "open" /\ outcome'[j] = "closed"} IN
  /\ outcome' = [j \in Jobs |-> IF j \in some THEN "closed" ELSE outcome[j]]
  /\ basis' = [j \in Jobs |-> IF j \in some THEN Nowhere ELSE basis[j]]
  /\ UNCHANGED <<topic, asked, old, about>>

Edit(u) ==
  /\ topic[u].live
  /\ topic' = [topic EXCEPT ![u].version = @ + 1]
  /\ UNCHANGED <<asked, old, about, outcome, basis>>

Delete(u) ==
  /\ topic[u].live
  /\ topic' = [topic EXCEPT ![u] =
                 [live |-> FALSE, id |-> @.id, version |-> 0, sources |-> {}]]
  /\ old' = [old EXCEPT ![u] = {t \in asked : ReaderOf[t] = u}]
  /\ UNCHANGED <<asked, about, outcome, basis>>

Next ==
  \/ \E t \in Turns : Ask(t) /\ UNCHANGED outcome
  \/ \E j \in Jobs, t \in Turns : Submit(j, t)
  \/ \E j \in Jobs : Planned(j) \/ Write(j) \/ Flag(j)
  \/ \E u \in Users : Edit(u) \/ Delete(u)
  \/ Close

Spec == Init /\ [][Next]_vars
================================================================================
