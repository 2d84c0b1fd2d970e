---------------------------- MODULE MCMemoryOutbox ----------------------------
(* Small outboxes: a mastery event with two targets and a learner event    *)
(* with one; the first commits of two users.                               *)
EXTENDS MemoryOutbox

CONSTANTS ann, bob

Mastery(type, user, version) ==
  [type |-> type, user |-> user, aggregate |-> "mastery:limits", version |-> version]

Learner(user, version) ==
  [type |-> "learner.updated", user |-> user, aggregate |-> "learner", version |-> version]

TwoKinds == <<Mastery("memory.changed", ann, 1), Learner(ann, 1)>>

TwoUsers == <<Mastery("memory.changed", ann, 1), Mastery("memory.changed", bob, 1)>>
=============================================================================
