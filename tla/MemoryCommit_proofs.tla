------------------------- MODULE MemoryCommit_proofs --------------------------
(***************************************************************************)
(* Proofs about MemoryCommit, for every number of documents, operations    *)
(* and executions.                                                         *)
(***************************************************************************)
EXTENDS MemoryCommit, TLAPS

(* The newest version of a document, active or deleted.                    *)
Last(d) == IF doc[d].active # 0 THEN doc[d].active ELSE doc[d].deleted

(* Texts of d that contain updates of the same executions, as those of one *)
(* version do.                                                             *)
Alike(d, B) == \A b, c \in B : TakenIn(d, b) = TakenIn(d, c)

(* The executions whose updates d contains.                                *)
Taken(d) == IF doc[d].active = 0 THEN {} ELSE TakenIn(d, doc[d].body)

(* The columns of a document that go together, and its commits: versions   *)
(* 1 to Last(d), the active one among them.                                *)
DocOK(d) ==
  /\ doc[d] \in Document
  /\ (doc[d].active = 0) <=> (doc[d].body = None)
  /\ doc[d].deleted # 0 => doc[d].active = 0
  /\ doc[d].expired => doc[d].deleted # 0
  /\ DOMAIN commit[d] = 1..Last(d)
  /\ \A v \in 1..Last(d) : commit[d][v] \subseteq Body /\ Alike(d, commit[d][v])
  /\ doc[d].active # 0 => doc[d].body \in commit[d][doc[d].active]

(* Version k of d is not active and will not be again.                     *)
Passed(d, k) == doc[d].active = 0 \/ k < doc[d].active

(* A command is about a document, and a version it had.                    *)
RequestOK(o) ==
  request[o].kind \in {"forget", "restore"} =>
    /\ request[o].on \in Docs
    /\ request[o].expected # 0 /\ request[o].expected <= Last(request[o].on)

(* An execution that has not committed.                                    *)
Uncommitted == {"idle", "planned", "rendered", "marked"}

(* A plan read versions that exist; an execution plans after it begins and *)
(* commits after it has set its mark.                                      *)
PlanOK(x) ==
  /\ \A d \in Docs : plan[x].expected[d] <= Last(d)
  /\ exec[x].pc = "idle" => plan[x] = NoPlan
  /\ exec[x].pc \in Uncommitted => \A i \in Index : <<x, i>> \notin mutations

(* A text n of d contains what version b contains, and execution x.        *)
Continues(n, d, b, x) ==
  /\ b = 0 => TakenIn(d, n) = {<<x, d>>}
  /\ b # 0 => \A c \in commit[d][b] : TakenIn(d, n) = TakenIn(d, c) \union {<<x, d>>}

(* What x rendered for its i-th plan continues version base[d], and its    *)
(* file is there as long as it can be committed.                           *)
RenderedOK(x, i) ==
  LET d == Target(x, i)
      b == exec[x].base[d]
      n == exec[x].body[i]
  IN /\ n \in Body /\ b <= Last(d)
     /\ Continues(n, d, b, x)
     /\ plan[x].expected[d] <= b \/ Passed(d, plan[x].expected[d])
     /\ doc[d].active = b /\ doc[d].deleted = 0 =>
          FileOf(d, b + 1, n) \in versions \union swept

ExecOK(x) ==
  /\ exec[x].pc \in Running => exec[x].op \in Ops
  /\ exec[x].pc \in {"planned", "rendered", "marked"} => exec[x].pending = Listed(x)
  /\ exec[x].pc \in {"rendered", "marked"} => \A i \in Listed(x) : RenderedOK(x, i)
  /\ exec[x].pc \in {"forgotten", "removed"} =>
       /\ request[exec[x].op].kind = "forget"
       /\ Passed(Memory(x), request[exec[x].op].expected)

(* Every text of the newest version has its file, for when it is deleted.  *)
Readable(d) ==
  /\ doc[d].active # 0 =>
       \A b \in commit[d][doc[d].active] :
         FileOf(d, doc[d].active, b) \in versions \union swept
  /\ doc[d].deleted # 0 /\ ~doc[d].expired =>
       \A b \in commit[d][doc[d].deleted] :
         FileOf(d, doc[d].deleted, b) \in versions \union quarantine \union swept

(* The types of everything but the documents and their commits.            *)
Types ==
  /\ mutations \subseteq Mutation
  /\ index \in [listed : [Docs -> Nat], dirty : BOOLEAN]
  /\ versions \subseteq File /\ quarantine \subseteq File /\ swept \subseteq File
  /\ current \in [Docs -> Body \union {None}]
  /\ request \in [Ops -> Request]
  /\ plan \in [Execs -> Plan]
  /\ exec \in [Execs -> Execution]
  /\ \A d \in Docs : refs[d] = None \/ refs[d] \subseteq Body
  /\ \A d \in Docs : checked[d] = None \/ checked[d] \in File

Functions ==
  /\ doc = [d \in Docs |-> doc[d]]
  /\ commit = [d \in Docs |-> commit[d]]
  /\ refs = [d \in Docs |-> refs[d]]
  /\ checked = [d \in Docs |-> checked[d]]

IInv ==
  /\ Types
  /\ Functions
  /\ \A d \in Docs : DocOK(d)
  /\ \A o \in Ops : RequestOK(o)
  /\ \A x \in Execs : PlanOK(x) /\ ExecOK(x)
  /\ \A d \in Docs : Readable(d)
  /\ CleanIndexIsCurrent
-----------------------------------------------------------------------------
(* The invariant has the type invariant in it.                             *)
LEMMA IInvTypes == IInv => TypeOK
<1> SUFFICES ASSUME IInv PROVE TypeOK
  OBVIOUS
<1>1. \A d \in Docs : doc[d] \in Document
  BY DEF IInv, DocOK
<1>2. doc \in [Docs -> Document]
  BY <1>1 DEF IInv, Functions
<1>3. \A d \in Docs : /\ (doc[d].active = 0) = (doc[d].body = None)
                      /\ doc[d].deleted = 0 \/ doc[d].active = 0
  BY DEF IInv, DocOK
<1>4. \A d \in Docs : \A v \in DOMAIN commit[d] : v \in Nat /\ commit[d][v] \subseteq Body
  <2> TAKE d \in Docs
  <2>1. DOMAIN commit[d] = 1..Last(d) /\ \A v \in 1..Last(d) : commit[d][v] \subseteq Body
    BY DEF IInv, DocOK
  <2>2. Last(d) \in Nat
    BY <1>1 DEF Last, Document
  <2> QED BY <2>1, <2>2
<1> QED BY <1>2, <1>3, <1>4 DEF TypeOK, IInv, Types, Functions

LEMMA BodyTypes == OldBody \in Body /\ None \notin Body
BY CommitAssumption DEF OldBody, Body, Mutation

LEMMA AtType ==
  ASSUME NEW o \in Ops \union {0},
         NEW pc \in {"idle", "failed", "done", "refused"} \union Running, NEW I \in SUBSET Index
  PROVE  At(pc, o, I) \in Execution
BY DEF At, Execution

(* The initial state satisfies the invariant.                              *)
LEMMA InitIInv == Init => IInv
<1> SUFFICES ASSUME Init PROVE IInv
  OBVIOUS
<1>1. Functions
  BY DEF Init, Functions
<1>2. \A d \in Docs :
        /\ doc[d] \in Document
        /\ d \in Existing => /\ doc[d] = [active |-> 1, body |-> OldBody, deleted |-> 0, expired |-> FALSE]
                             /\ commit[d] = [v \in {1} |-> {OldBody}]
        /\ d \notin Existing => /\ doc[d] = NoDocument
                                /\ commit[d] = [v \in {} |-> {OldBody}]
  BY BodyTypes DEF Init, Document, NoDocument
<1>3. \A d \in Docs : DocOK(d)
  <2> TAKE d \in Docs
  <2>1. CASE d \in Existing
    <3>1. Last(d) = 1
      BY <1>2, <2>1 DEF Last
    <3>2. 1..1 = {1}
      OBVIOUS
    <3> QED BY <1>2, <2>1, <3>1, <3>2, BodyTypes DEF DocOK, Alike
  <2>2. CASE d \notin Existing
    <3>1. Last(d) = 0
      BY <1>2, <2>2 DEF Last, NoDocument
    <3>2. 1..0 = {}
      OBVIOUS
    <3> QED BY <1>2, <2>2, <3>1, <3>2 DEF DocOK, NoDocument
  <2> QED BY <2>1, <2>2
<1>4. Types
  <2>1. NoPlan \in Plan /\ NoRequest \in Request
    BY DEF NoPlan, Plan, NoRequest, Request
  <2>2. At("idle", 0, {}) \in Execution
    BY AtType
  <2>3. \A d \in Existing : d \in Docs /\ FileOf(d, 1, OldBody) \in File
    BY BodyTypes, CommitAssumption DEF FileOf, File
  <2>4. index \in [listed : [Docs -> Nat], dirty : BOOLEAN]
    BY <1>2 DEF Init, Document
  <2>5. current \in [Docs -> Body \union {None}]
    BY BodyTypes DEF Init
  <2>6. versions \subseteq File /\ quarantine \subseteq File /\ swept \subseteq File
    BY <2>3 DEF Init
  <2> QED BY <2>1, <2>2, <2>4, <2>5, <2>6 DEF Init, Types
<1>5. \A x \in Execs : PlanOK(x)
  <2>1. \A d \in Docs : 0 <= Last(d)
    BY <1>2 DEF Last, Document
  <2> QED BY <2>1 DEF PlanOK, Init, NoPlan
<1>6. \A x \in Execs : ExecOK(x)
  BY DEF ExecOK, Init, At, Running
<1>9. \A o \in Ops : RequestOK(o)
  BY DEF RequestOK, Init, NoRequest
<1>7. \A d \in Docs : Readable(d)
  BY <1>2 DEF Readable, Init, NoDocument
<1>8. CleanIndexIsCurrent
  BY DEF CleanIndexIsCurrent, Init
<1> QED BY <1>1, <1>3, <1>4, <1>5, <1>6, <1>7, <1>8, <1>9 DEF IInv
-----------------------------------------------------------------------------
(* What a step may do to a document and to the files.                      *)
Stays(d) == doc'[d] = doc[d] /\ commit'[d] = commit[d]

Forgotten(d) ==
  /\ doc[d].active # 0
  /\ doc'[d] = [active |-> 0, body |-> None, deleted |-> doc[d].active, expired |-> FALSE]
  /\ commit'[d] = commit[d]

Expires(d) ==
  /\ doc[d].deleted # 0
  /\ doc'[d] = [doc[d] EXCEPT !.expired = TRUE]
  /\ commit'[d] = commit[d]

ExtendedBy(d, b, B) ==
  /\ B \subseteq Body /\ b \in B /\ Alike(d, B)
  /\ doc'[d] = [active |-> Last(d) + 1, body |-> b, deleted |-> 0, expired |-> FALSE]
  /\ commit'[d] = Recorded(d, Last(d) + 1, B)
  /\ \A c \in B : FileOf(d, Last(d) + 1, c) \in versions' \union swept'

DocStep(d) ==
  \/ Stays(d) \/ Forgotten(d) \/ Expires(d)
  \/ \E B \in SUBSET Body : \E b \in B : ExtendedBy(d, b, B)

(* A file goes only when its version is no longer active, and from the     *)
(* quarantine only after the tombstone has expired.                        *)
FileStep ==
  /\ \A f \in versions \union swept :
       \/ f \in versions' \union swept'
       \/ doc[f.doc].deleted # 0 \/ f.version < doc[f.doc].active
  /\ \A f \in versions \union quarantine \union swept :
       f \in versions' \union quarantine' \union swept' \/ doc[f.doc].expired

(* A document keeps its history.                                           *)
Grows(d) ==
  /\ Last(d) <= Last(d)'
  /\ \A v \in 1..Last(d) : commit'[d][v] = commit[d][v]

LEMMA LastType == ASSUME NEW d \in Docs, DocOK(d) PROVE Last(d) \in Nat
BY DEF DocOK, Last, Document

LEMMA LastType2 == ASSUME NEW d \in Docs, DocOK(d)' PROVE Last(d)' \in Nat
BY DEF DocOK, Last, Document

LEMMA ExtendOK ==
  ASSUME NEW d \in Docs, DocOK(d), NEW B \in SUBSET Body, NEW b \in B, ExtendedBy(d, b, B)
  PROVE  /\ DocOK(d)' /\ Grows(d) /\ Last(d)' = Last(d) + 1
         /\ commit'[d][Last(d) + 1] = B
<1> DEFINE n == Last(d)
<1>1. n \in Nat
  BY LastType
<1>2. Last(d)' = n + 1
  BY <1>1 DEF ExtendedBy, Last
<1>3. /\ DOMAIN commit'[d] = 1..(n + 1)
      /\ commit'[d][n + 1] = B
      /\ \A v \in 1..n : commit'[d][v] = commit[d][v]
  <2> HIDE DEF n
  <2>1. DOMAIN commit[d] = 1..n /\ commit'[d] = Recorded(d, n + 1, B)
    BY DEF DocOK, ExtendedBy, n
  <2>2. (1..n) \union {n + 1} = 1..(n + 1)
    BY <1>1
  <2>3. \A v \in 1..n : v # n + 1
    BY <1>1
  <2> QED BY <2>1, <2>2, <2>3, <1>1 DEF Recorded
<1>4. \A v \in 1..(n + 1) : commit'[d][v] \subseteq Body /\ Alike(d, commit'[d][v])
  <2>1. \A v \in 1..n : commit[d][v] \subseteq Body /\ Alike(d, commit[d][v])
    BY DEF DocOK
  <2>3. Alike(d, B)
    BY DEF ExtendedBy
  <2>2. \A v \in 1..(n + 1) : v = n + 1 \/ v \in 1..n
    BY <1>1
  <2> HIDE DEF n
  <2> QED BY <1>3, <2>1, <2>2, <2>3
<1>5. doc'[d] = [active |-> n + 1, body |-> b, deleted |-> 0, expired |-> FALSE]
  BY DEF ExtendedBy
<1> HIDE DEF n
<1>6. doc'[d] \in Document /\ doc'[d].active = n + 1 /\ n + 1 # 0
  BY <1>1, <1>5 DEF Document
<1>7. DocOK(d)'
  <2>1. b \in Body
    OBVIOUS
  <2>2. commit'[d][n + 1] = B
    BY <1>3
  <2> QED BY <1>2, <1>3, <1>4, <1>5, <1>6, <2>1, <2>2, BodyTypes DEF DocOK, Alike
<1> QED BY <1>1, <1>2, <1>3, <1>7 DEF Grows, n

(* Every step keeps the columns in order and the history of a document.    *)
LEMMA DocStepOK ==
  ASSUME NEW d \in Docs, DocOK(d), DocStep(d)
  PROVE  DocOK(d)' /\ Grows(d)
<1>0. Last(d) \in Nat
  BY LastType
<1>1. CASE Stays(d)
  BY <1>0, <1>1 DEF Stays, DocOK, Grows, Last
<1>2. CASE Forgotten(d)
  <2>1. Last(d) = doc[d].active /\ Last(d)' = doc[d].active
    BY <1>2 DEF Forgotten, Last
  <2>2. doc'[d] \in Document
    BY <1>2 DEF Forgotten, DocOK, Document
  <2> QED BY <1>0, <1>2, <2>1, <2>2 DEF Forgotten, DocOK, Grows
<1>3. CASE Expires(d)
  <2>1. /\ doc'[d] \in Document
        /\ doc'[d].active = doc[d].active /\ doc'[d].deleted = doc[d].deleted
        /\ doc'[d].body = doc[d].body
    BY <1>3 DEF Expires, DocOK, Document
  <2>2. Last(d)' = Last(d)
    BY <2>1 DEF Last
  <2> QED BY <1>0, <1>3, <2>1, <2>2 DEF Expires, DocOK, Grows
<1>4. CASE \E B \in SUBSET Body : \E b \in B : ExtendedBy(d, b, B)
  BY <1>4, ExtendOK
<1> QED BY <1>1, <1>2, <1>3, <1>4 DEF DocStep

(* A version that is past stays so.                                        *)
LEMMA PassedStays ==
  ASSUME NEW d \in Docs, DocOK(d), DocStep(d), NEW k \in Nat, k <= Last(d), Passed(d, k)
  PROVE  doc'[d].active = 0 \/ k < doc'[d].active
<1>0. Last(d) \in Nat
  BY LastType
<1>1. CASE Stays(d)
  BY <1>1 DEF Stays, Passed
<1>2. CASE Forgotten(d)
  BY <1>2 DEF Forgotten, Passed
<1>3. CASE Expires(d)
  BY <1>3 DEF Expires, Passed, DocOK, Document
<1>4. CASE \E B \in SUBSET Body : \E b \in B : ExtendedBy(d, b, B)
  BY <1>0, <1>4 DEF ExtendedBy, Passed
<1> QED BY <1>1, <1>2, <1>3, <1>4 DEF DocStep

(* A version that is the newest and active, or yet to be the first, was so *)
(* before the step.                                                        *)
LEMMA NewestWas ==
  ASSUME NEW d \in Docs, DocOK(d), DocStep(d), NEW b \in Nat, b <= Last(d),
         doc'[d].active = b, doc'[d].deleted = 0
  PROVE  doc[d].active = b /\ doc[d].deleted = 0
<1>0. Last(d) \in Nat
  BY LastType
<1>1. CASE Stays(d)
  BY <1>1 DEF Stays
<1>2. CASE Forgotten(d)
  BY <1>2 DEF Forgotten
<1>3. CASE Expires(d)
  BY <1>3 DEF Expires, DocOK, Document
<1>4. CASE \E B \in SUBSET Body : \E c \in B : ExtendedBy(d, c, B)
  BY <1>0, <1>4 DEF ExtendedBy
<1> QED BY <1>1, <1>2, <1>3, <1>4 DEF DocStep

(* Files stay readable.                                                    *)
LEMMA ReadableStays ==
  ASSUME NEW d \in Docs, DocOK(d), DocStep(d), FileStep, Readable(d)
  PROVE  Readable(d)'
<1>1. CASE Stays(d)
  <2>1. ASSUME doc[d].active # 0, NEW b \in commit[d][doc[d].active]
        PROVE  FileOf(d, doc[d].active, b) \in versions' \union swept'
    <3>1. FileOf(d, doc[d].active, b).doc = d /\ FileOf(d, doc[d].active, b).version = doc[d].active
      BY DEF FileOf
    <3>2. doc[d].deleted = 0 /\ ~(doc[d].active < doc[d].active)
      BY <2>1 DEF DocOK, Document
    <3> QED BY <2>1, <3>1, <3>2 DEF Readable, FileStep
  <2>2. ASSUME doc[d].deleted # 0, ~doc[d].expired, NEW b \in commit[d][doc[d].deleted]
        PROVE  FileOf(d, doc[d].deleted, b) \in versions' \union quarantine' \union swept'
    <3>1. FileOf(d, doc[d].deleted, b).doc = d
      BY DEF FileOf
    <3> QED BY <2>2, <3>1 DEF Readable, FileStep
  <2> QED BY <1>1, <2>1, <2>2 DEF Readable, Stays
<1>2. CASE Forgotten(d)
  <2>1. ASSUME NEW b \in commit[d][doc[d].active]
        PROVE  FileOf(d, doc[d].active, b) \in versions' \union quarantine' \union swept'
    <3>1. /\ FileOf(d, doc[d].active, b) \in versions \union swept
          /\ FileOf(d, doc[d].active, b).doc = d
      BY <1>2 DEF Forgotten, Readable, FileOf
    <3>2. ~doc[d].expired
      BY <1>2 DEF Forgotten, DocOK
    <3> QED BY <3>1, <3>2 DEF FileStep
  <2> QED BY <1>2, <2>1 DEF Forgotten, Readable
<1>3. CASE Expires(d)
  BY <1>3 DEF Expires, Readable, DocOK, Document
<1>4. ASSUME NEW B \in SUBSET Body, NEW b \in B, ExtendedBy(d, b, B) PROVE Readable(d)'
  <2>1. PICK n : n = Last(d) + 1
    OBVIOUS
  <2>2. commit'[d][n] = B
    BY <1>4, <2>1, ExtendOK
  <2>3. doc'[d].active = n /\ doc'[d].deleted = 0
    BY <1>4, <2>1 DEF ExtendedBy
  <2>4. \A c \in B : FileOf(d, n, c) \in versions' \union swept'
    BY <1>4, <2>1 DEF ExtendedBy
  <2> QED BY <2>2, <2>3, <2>4 DEF Readable
<1> QED BY <1>1, <1>2, <1>3, <1>4 DEF DocStep
-----------------------------------------------------------------------------
DocSteps == \A d \in Docs : DocStep(d)

(* The plans of an execution are about documents.                          *)
LEMMA ListedDocs ==
  ASSUME IInv, NEW x \in Execs
  PROVE  /\ plan[x] \in Plan /\ Listed(x) \subseteq Index /\ Named(x) \subseteq Docs
         /\ \A i \in Listed(x) : Target(x, i) \in Docs /\ Target(x, i) \in Named(x)
<1>1. plan[x] \in Plan
  BY DEF IInv, Types
<1>2. plan[x].on \in [Index -> Docs \union {None}]
  BY <1>1 DEF Plan
<1> QED BY <1>1, <1>2 DEF Listed, Named, Target

(* A rendering is not spoilt by steps of others.                           *)
LEMMA RenderedStays ==
  ASSUME IInv, DocSteps, FileStep, NEW x \in Execs, NEW i \in Listed(x),
         plan'[x] = plan[x], exec'[x].base = exec[x].base, exec'[x].body = exec[x].body,
         RenderedOK(x, i)
  PROVE  RenderedOK(x, i)'
<1>a. PICK d \in Docs : d = Target(x, i)
  BY ListedDocs
<1>0. PICK b, n, k : /\ b = exec[x].base[d] /\ n = exec[x].body[i]
                     /\ k = plan[x].expected[d]
  OBVIOUS
<1>1. DocOK(d) /\ DocStep(d) /\ Grows(d) /\ Last(d) \in Nat /\ Last(d)' \in Nat
  BY DocStepOK, LastType, LastType2 DEF IInv, DocSteps
<1>2. /\ b \in Nat /\ k \in Nat /\ k <= Last(d)
      /\ n \in Body /\ b <= Last(d)
      /\ Continues(n, d, b, x)
      /\ k <= b \/ Passed(d, k)
      /\ doc[d].active = b /\ doc[d].deleted = 0 =>
           FileOf(d, b + 1, n) \in versions \union swept
  <2>1. exec[x] \in Execution /\ plan[x] \in Plan
    BY DEF IInv, Types
  <2>2. b \in Nat /\ k \in Nat
    BY <1>0, <2>1 DEF Execution, Plan
  <2>3. k <= Last(d)
    BY <1>0 DEF IInv, PlanOK
  <2> QED BY <1>a, <1>0, <2>2, <2>3 DEF RenderedOK
<1>3. /\ exec'[x].base[d] = b /\ exec'[x].body[i] = n
      /\ plan'[x].expected[d] = k /\ Target(x, i)' = d
  BY <1>a, <1>0 DEF Target
<1>4. b <= Last(d)'
  BY <1>1, <1>2 DEF Grows
<1>5. b # 0 => commit'[d][b] = commit[d][b]
  BY <1>1, <1>2 DEF Grows
<1>6. k <= b \/ doc'[d].active = 0 \/ k < doc'[d].active
  BY <1>1, <1>2, PassedStays
<1>7. ASSUME doc'[d].active = b, doc'[d].deleted = 0
      PROVE  FileOf(d, b + 1, n) \in versions' \union swept'
  <2>1. doc[d].active = b /\ doc[d].deleted = 0
    BY <1>1, <1>2, <1>7, NewestWas
  <2>2. FileOf(d, b + 1, n) \in versions \union swept
    BY <1>2, <2>1
  <2>3. FileOf(d, b + 1, n).doc = d /\ FileOf(d, b + 1, n).version = b + 1 /\ ~(b + 1 < b)
    BY <1>2 DEF FileOf
  <2> QED BY <2>1, <2>2, <2>3 DEF FileStep
<1>8. /\ b = 0 => TakenIn(d, n) = {<<x, d>>}
      /\ b # 0 => \A c \in commit'[d][b] : TakenIn(d, n) = TakenIn(d, c) \union {<<x, d>>}
  BY <1>2, <1>5 DEF Continues
<1> QED BY <1>2, <1>3, <1>4, <1>6, <1>7, <1>8 DEF RenderedOK, Continues, Passed

LEMMA ExecStays ==
  ASSUME IInv, DocSteps, FileStep, NEW x \in Execs, exec'[x] = exec[x],
         exec[x].pc \in {"planned", "rendered", "marked"} => plan'[x] = plan[x],
         exec[x].pc \in Running => request'[exec[x].op] = request[exec[x].op]
  PROVE  ExecOK(x)'
<1>1. ExecOK(x)
  BY DEF IInv
<1>2. ASSUME exec[x].pc \in {"rendered", "marked"}, NEW i \in Listed(x)
      PROVE  RenderedOK(x, i)'
  <2>1. RenderedOK(x, i)
    BY <1>1, <1>2 DEF ExecOK
  <2> QED BY <1>2, <2>1, RenderedStays
<1>3. ASSUME exec[x].pc \in {"forgotten", "removed"}
      PROVE  /\ request'[exec[x].op].kind = "forget"
             /\ Passed(Memory(x), request[exec[x].op].expected)'
  <2>1. /\ exec[x].op \in Ops /\ request'[exec[x].op] = request[exec[x].op]
        /\ request[exec[x].op].kind = "forget"
        /\ Passed(Memory(x), request[exec[x].op].expected)
    BY <1>1, <1>3 DEF ExecOK, Running
  <2>2. PICK d \in Docs, k \in Nat : /\ d = Memory(x) /\ k = request[exec[x].op].expected
                                    /\ k <= Last(d)
    BY <2>1 DEF IInv, Types, Request, RequestOK, Memory
  <2>3. DocOK(d) /\ DocStep(d)
    BY DEF IInv, DocSteps
  <2>4. doc'[d].active = 0 \/ k < doc'[d].active
    BY <2>1, <2>2, <2>3, PassedStays
  <2>5. Memory(x)' = d /\ request'[exec'[x].op].expected = k
    BY <2>1, <2>2 DEF Memory
  <2> QED BY <2>1, <2>4, <2>5 DEF Passed
<1>4. exec[x].pc \in {"planned", "rendered", "marked"} => Listed(x)' = Listed(x)
  BY DEF Listed
<1> QED BY <1>1, <1>2, <1>3, <1>4 DEF ExecOK

(* Versions a plan or a command has read.                                  *)
LEMMA ReadStays ==
  ASSUME IInv, DocSteps
  PROVE  /\ \A x \in Execs, d \in Docs : plan[x].expected[d] <= Last(d)'
         /\ \A o \in Ops : request'[o] = request[o] => RequestOK(o)'
<1>1. ASSUME NEW d \in Docs PROVE Last(d) \in Nat /\ Last(d)' \in Nat /\ Last(d) <= Last(d)'
  BY DocStepOK, LastType, LastType2 DEF IInv, DocSteps, Grows
<1>2. ASSUME NEW x \in Execs, NEW d \in Docs PROVE plan[x].expected[d] <= Last(d)'
  <2>1. plan[x].expected[d] \in Nat /\ plan[x].expected[d] <= Last(d)
    BY DEF IInv, Types, Plan, PlanOK
  <2> QED BY <1>1, <2>1
<1>3. ASSUME NEW o \in Ops, request'[o] = request[o] PROVE RequestOK(o)'
  <2>1. RequestOK(o) /\ request[o] \in Request
    BY DEF IInv, Types
  <2>2. ASSUME NEW d \in Docs, d = request[o].on, request[o].kind \in {"forget", "restore"}
        PROVE  request[o].expected <= Last(d)'
    <3>1. request[o].expected \in Nat /\ request[o].expected <= Last(d)
      BY <2>1, <2>2 DEF RequestOK, Request
    <3> QED BY <1>1, <3>1
  <2> QED BY <1>3, <2>1, <2>2 DEF RequestOK, Last
<1> QED BY <1>2, <1>3

LEMMA PlanStays ==
  ASSUME IInv, DocSteps, NEW x \in Execs, plan'[x] = plan[x],
         exec'[x].pc = "idle" => exec[x].pc = "idle",
         exec'[x].pc \in Uncommitted => \A i \in Index : <<x, i>> \notin mutations'
  PROVE  PlanOK(x)'
BY ReadStays DEF PlanOK, IInv

(* What remains to be shown of a step.                                     *)
LEMMA StepInv ==
  ASSUME IInv, Types', Functions', DocSteps, FileStep,
         \A o \in Ops : RequestOK(o)', \A x \in Execs : PlanOK(x)' /\ ExecOK(x)',
         CleanIndexIsCurrent'
  PROVE  IInv'
<1>1. ASSUME NEW d \in Docs PROVE DocOK(d)' /\ Readable(d)'
  BY DocStepOK, ReadableStays DEF IInv, DocSteps
<1> QED BY <1>1 DEF IInv

(* A step that leaves the documents alone.                                 *)
LEMMA QuietStep == ASSUME UNCHANGED <<doc, commit>> PROVE DocSteps
BY DEF DocSteps, DocStep, Stays
-----------------------------------------------------------------------------
(* A step of execution x, and of no other.                                 *)
LEMMA ExecTurn ==
  ASSUME IInv, DocSteps, FileStep, NEW x \in Execs, NEW e \in Execution,
         exec' = [exec EXCEPT ![x] = e], request' = request,
         \A y \in Execs \ {x} : plan'[y] = plan[y],
         \A y \in Execs \ {x} : \A i \in Index :
           <<y, i>> \notin mutations => <<y, i>> \notin mutations',
         PlanOK(x)', ExecOK(x)'
  PROVE  /\ exec' \in [Execs -> Execution] /\ \A o \in Ops : RequestOK(o)'
         /\ \A y \in Execs : PlanOK(y)' /\ ExecOK(y)'
<1>1. exec \in [Execs -> Execution]
  BY DEF IInv, Types
<1>2. ASSUME NEW y \in Execs PROVE PlanOK(y)' /\ ExecOK(y)'
  <2>1. CASE y = x
    BY <2>1
  <2>2. CASE y # x
    <3>1. exec'[y] = exec[y] /\ plan'[y] = plan[y] /\ PlanOK(y)
      BY <1>1, <2>2 DEF IInv
    <3>2. exec'[y].pc \in Uncommitted => \A i \in Index : <<y, i>> \notin mutations'
      BY <2>2, <3>1 DEF PlanOK
    <3> QED BY <3>1, <3>2, ExecStays, PlanStays
  <2> QED BY <2>1, <2>2
<1> QED BY <1>1, <1>2, ReadStays

(* A step that changes execution x and files, and not the database.        *)
LEMMA FileTurn ==
  ASSUME IInv, UNCHANGED <<database, request, plan, maintenance>>, FileStep,
         versions' \subseteq File, quarantine' \subseteq File,
         current' \in [Docs -> Body \union {None}],
         NEW x \in Execs, NEW e \in Execution, exec' = [exec EXCEPT ![x] = e],
         e.pc # "idle", e.pc \in Uncommitted => exec[x].pc \in Uncommitted, ExecOK(x)'
  PROVE  IInv'
<1>1. DocSteps
  BY QuietStep DEF database
<1>2. PlanOK(x)'
  <2>1. exec'[x] = e /\ plan' = plan /\ mutations' = mutations /\ PlanOK(x)
    BY DEF IInv, Types, database
  <2>2. exec'[x].pc \in Uncommitted => \A i \in Index : <<x, i>> \notin mutations'
    BY <2>1 DEF PlanOK
  <2> QED BY <1>1, <2>1, <2>2, PlanStays
<1>3. /\ exec' \in [Execs -> Execution] /\ \A o \in Ops : RequestOK(o)'
      /\ \A y \in Execs : PlanOK(y)' /\ ExecOK(y)'
  BY <1>1, <1>2, ExecTurn DEF database
<1>4. Types' /\ Functions' /\ CleanIndexIsCurrent'
  BY <1>3 DEF IInv, Types, Functions, CleanIndexIsCurrent, database, maintenance
<1> QED BY <1>1, <1>3, <1>4, StepInv

(* A step without files.                                                   *)
LEMMA NoFiles == ASSUME UNCHANGED <<files, swept>> PROVE FileStep
BY DEF files, FileStep

(* Operations arrive.                                                      *)
LEMMA SentInv ==
  ASSUME IInv, NEW o \in Ops, NEW r \in Request, Sent(o, r),
         r.kind \in {"forget", "restore"} =>
           /\ r.on \in Docs /\ r.expected # 0 /\ r.expected <= Last(r.on)
  PROVE  IInv'
<1>1. DocSteps /\ FileStep
  BY QuietStep, NoFiles DEF Sent, database, maintenance
<1>2. /\ request[o] = NoRequest /\ request' \in [Ops -> Request] /\ request'[o] = r
      /\ \A p \in Ops : p # o => request'[p] = request[p]
  BY DEF Sent, IInv, Types
<1>3. ASSUME NEW p \in Ops PROVE RequestOK(p)'
  <2>1. CASE p # o
    BY <1>1, <1>2, <2>1, ReadStays
  <2>2. CASE p = o
    BY <1>2, <2>2 DEF RequestOK, Last, Sent, database
  <2> QED BY <2>1, <2>2
<1>4. ASSUME NEW x \in Execs PROVE PlanOK(x)' /\ ExecOK(x)'
  <2>1. exec' = exec /\ plan' = plan /\ mutations' = mutations /\ PlanOK(x) /\ ExecOK(x)
    BY DEF Sent, database, IInv
  <2>2. exec[x].pc \in {"forgotten", "removed"} => exec[x].op # o
    BY <1>2, <2>1 DEF ExecOK, NoRequest
  <2>3. PlanOK(x)'
    BY <1>1, <2>1, PlanStays DEF PlanOK
  <2>4. ExecOK(x)'
    <3>1. CASE exec[x].pc \in {"forgotten", "removed"}
      BY <1>1, <1>2, <2>1, <2>2, <3>1, ExecStays DEF ExecOK, Running
    <3>2. CASE exec[x].pc \notin {"forgotten", "removed"}
      <4>1. ASSUME exec[x].pc \in {"rendered", "marked"}, NEW i \in Listed(x)
            PROVE  RenderedOK(x, i)'
        BY <1>1, <2>1, <4>1, RenderedStays DEF ExecOK
      <4>2. Listed(x)' = Listed(x)
        BY <2>1 DEF Listed
      <4> QED BY <2>1, <3>2, <4>1, <4>2 DEF ExecOK
    <3> QED BY <3>1, <3>2
  <2> QED BY <2>3, <2>4
<1>5. Types' /\ Functions' /\ CleanIndexIsCurrent'
  BY <1>2 DEF Sent, IInv, Types, Functions, CleanIndexIsCurrent, database, files, maintenance
<1> QED BY <1>1, <1>3, <1>4, <1>5, StepInv

LEMMA SendingInv == ASSUME IInv, Sending PROVE IInv'
<1>0. \A d \in Docs : /\ doc[d].active \in Nat /\ doc[d].deleted \in Nat
                      /\ doc[d].active <= Last(d) /\ doc[d].deleted <= Last(d)
  BY DEF IInv, DocOK, Document, Last
<1>1. ASSUME NEW o \in Ops, SendSummary(o) PROVE IInv'
  <2>1. PICK r : r = [NoRequest EXCEPT !.kind = "write"]
    OBVIOUS
  <2>2. r \in Request /\ r.kind = "write"
    BY <2>1 DEF NoRequest, Request
  <2>3. Sent(o, r)
    BY <1>1, <2>1 DEF SendSummary
  <2> QED BY <2>2, <2>3, SentInv
<1>2. ASSUME NEW o \in Ops, NEW d \in Docs, SendForget(o, d) PROVE IInv'
  <2>1. PICK r : r = [kind |-> "forget", on |-> d, expected |-> doc[d].active]
    OBVIOUS
  <2>2. r \in Request /\ r.on = d /\ r.expected = doc[d].active
    BY <1>0, <2>1 DEF Request
  <2>3. Sent(o, r) /\ doc[d].active # 0
    BY <1>2, <2>1 DEF SendForget
  <2> QED BY <1>0, <2>2, <2>3, SentInv
<1>3. ASSUME NEW o \in Ops, NEW d \in Docs, SendRestore(o, d) PROVE IInv'
  <2>1. PICK r : r = [kind |-> "restore", on |-> d, expected |-> doc[d].deleted]
    OBVIOUS
  <2>2. r \in Request /\ r.on = d /\ r.expected = doc[d].deleted
    BY <1>0, <2>1 DEF Request
  <2>3. Sent(o, r) /\ doc[d].deleted # 0
    BY <1>3, <2>1 DEF SendRestore
  <2> QED BY <1>0, <2>2, <2>3, SentInv
<1> QED BY <1>1, <1>2, <1>3 DEF Sending
-----------------------------------------------------------------------------
(* The steps of an execution that are not transactions.                    *)
LEMMA ExecTypes ==
  ASSUME IInv, NEW x \in Execs
  PROVE  /\ exec[x] \in Execution
         /\ exec[x].op \in Ops \union {0} /\ exec[x].pending \in SUBSET Index
         /\ exec[x].base \in [Docs -> Nat]
         /\ exec[x].body \in [Index -> Body \union {None}]
         /\ exec[x].pc \in Running => exec[x].op \in Ops
         /\ plan[x] \in Plan /\ plan[x].expected \in [Docs -> Nat]
<1>1. exec[x] \in Execution /\ ExecOK(x) /\ plan[x] \in Plan
  BY DEF IInv, Types
<1> QED BY <1>1 DEF Execution, Plan, ExecOK

(* An execution that ends.                                                 *)
LEMMA EndsOK ==
  ASSUME IInv, NEW x \in Execs, NEW o \in Ops \union {0},
         NEW pc \in {"failed", "done", "refused"},
         exec' = [exec EXCEPT ![x] = At(pc, o, {})]
  PROVE  /\ At(pc, o, {}) \in Execution /\ ExecOK(x)'
         /\ At(pc, o, {}).pc # "idle" /\ At(pc, o, {}).pc \notin Uncommitted
<1>1. At(pc, o, {}) \in Execution
  BY AtType
<1>2. exec'[x] = At(pc, o, {})
  BY DEF IInv, Types
<1> QED BY <1>1, <1>2 DEF ExecOK, At, Running, Uncommitted

LEMMA PlanWriteInv ==
  ASSUME IInv, NEW x \in Execs, NEW o \in Ops, NEW on \in [Index -> Docs \union {None}],
         PlanWrite(x, o, on)
  PROVE  IInv'
<1> DEFINE I == {i \in Index : on[i] # None}
           D == {on[i] : i \in Index} \ {None}
           p == [on |-> on, expected |-> [d \in Docs |-> IF d \in D THEN doc[d].active ELSE 0]]
           e == At("planned", o, I)
<1>1. \A d \in Docs : doc[d].active \in Nat /\ doc[d].active <= Last(d) /\ Last(d) \in Nat
  BY DEF IInv, DocOK, Document, Last
<1>2. /\ exec[x].pc = "idle" /\ plan' = [plan EXCEPT ![x] = p]
      /\ exec' = [exec EXCEPT ![x] = e]
      /\ UNCHANGED <<doc, commit, mutations, index, versions, quarantine, current, request,
                     refs, checked, swept>>
  BY DEF PlanWrite, Begins, Is, database, files, maintenance
<1>3. p.on = on /\ p \in Plan /\ \A d \in Docs : p.expected[d] <= Last(d)
  BY <1>1 DEF Plan
<1>4. e \in Execution /\ e.pc = "planned" /\ e.op = o /\ e.pending = I
  BY AtType DEF Running, At
<1>5. exec'[x] = e /\ plan'[x] = p /\ \A y \in Execs \ {x} : plan'[y] = plan[y]
  BY <1>2 DEF IInv, Types
<1>6. \A i \in Index : <<x, i>> \notin mutations
  BY <1>2 DEF IInv, PlanOK, Uncommitted
<1>7. DocSteps /\ FileStep
  BY <1>2, QuietStep DEF FileStep
<1>8. I = Listed(x)'
  BY <1>3, <1>5 DEF Listed
<1> HIDE DEF p, e, I
<1>9. ExecOK(x)'
  BY <1>4, <1>5, <1>8 DEF ExecOK
<1>10. PlanOK(x)'
  <2>1. \A d \in Docs : Last(d)' = Last(d)
    BY <1>2 DEF Last
  <2> QED BY <1>2, <1>3, <1>4, <1>5, <1>6, <2>1 DEF PlanOK
<1>11. /\ exec' \in [Execs -> Execution] /\ \A q \in Ops : RequestOK(q)'
       /\ \A y \in Execs : PlanOK(y)' /\ ExecOK(y)'
  BY <1>2, <1>4, <1>5, <1>7, <1>9, <1>10, ExecTurn
<1>12. plan' \in [Execs -> Plan]
  BY <1>2, <1>3 DEF IInv, Types
<1>13. Types' /\ Functions' /\ CleanIndexIsCurrent'
  BY <1>2, <1>11, <1>12 DEF IInv, Types, Functions, CleanIndexIsCurrent
<1> QED BY <1>7, <1>11, <1>13, StepInv

(* A rendering contains what the active version contains, and the plan.    *)
LEMMA RenderingTakes ==
  ASSUME IInv, NEW x \in Execs, NEW i \in Listed(x), NEW d \in Docs, d = Target(x, i)
  PROVE  /\ Rendered(x, i) \in Body
         /\ TakenIn(d, Rendered(x, i)) = Taken(d) \union {<<x, d>>}
<1>1. DocOK(d) /\ i \in Index
  BY ListedDocs DEF IInv
<1>2. doc[d].active # 0 => doc[d].body \in Body
  BY <1>1 DEF DocOK, Document
<1>3. Updates(d) \subseteq Mutation
  BY <1>2 DEF Updates, Body
<1>4. PICK r, U : r = Rendered(x, i) /\ U = Updates(d)
  OBVIOUS
<1>5. r.muts = U \union {<<x, i>>} /\ r.by = x
  BY <1>4 DEF Rendered
<1>6. r \in Body
  BY <1>1, <1>3, <1>4 DEF Rendered, Body, Mutation
<1>7. TakenIn(d, r) = {<<m[1], d>> : m \in U} \union {<<x, d>>}
  <2>1. TakenIn(d, r) = {<<m[1], d>> : m \in r.muts}
    BY DEF TakenIn
  <2>2. {<<m[1], d>> : m \in U \union {<<x, i>>}} = {<<m[1], d>> : m \in U} \union {<<x, d>>}
    <3>1. PICK w : w = <<x, i>>
      OBVIOUS
    <3>2. PICK y : y = <<w[1], d>>
      OBVIOUS
    <3>3. {<<m[1], d>> : m \in U \union {w}} = {<<m[1], d>> : m \in U} \union {y}
      BY <3>2
    <3>4. y = <<x, d>>
      BY <3>1, <3>2
    <3> QED BY <3>1, <3>3, <3>4
  <2> QED BY <1>5, <2>1, <2>2
<1>8. Taken(d) = {<<m[1], d>> : m \in U}
  BY <1>4 DEF Taken, TakenIn, Updates
<1> QED BY <1>4, <1>6, <1>7, <1>8

LEMMA RenderInv == ASSUME IInv, NEW x \in Execs, Render(x) PROVE IInv'
<1> DEFINE I == exec[x].pending
           base == [d \in Docs |-> IF d \in Targets(x, I) THEN doc[d].active ELSE 0]
           body == [i \in Index |-> IF i \in I THEN Rendered(x, i) ELSE None]
           e == [pc |-> "rendered", op |-> exec[x].op, pending |-> I,
                 base |-> base, body |-> body]
<1>1. /\ exec[x].pc = "planned" /\ exec[x].op \in Ops
      /\ I = Listed(x) /\ I \subseteq Index
      /\ plan[x].expected \in [Docs -> Nat] /\ exec[x] \in Execution
  BY ExecTypes DEF Render, Is, Running, IInv, ExecOK
<1>a. \A i \in I : Target(x, i) \in Docs
  BY <1>1, ListedDocs
<1>2. \A i \in I : Rendered(x, i) \in Body
  BY <1>1, <1>a, RenderingTakes
<1>3. \A d \in Docs : doc[d].active \in Nat
  BY DEF IInv, DocOK, Document
<1>4. e \in Execution
  <2>1. base \in [Docs -> Nat] /\ body \in [Index -> Body \union {None}]
    BY <1>2, <1>3
  <2> HIDE DEF base, body
  <2> QED BY <1>1, <2>1 DEF Execution, Running
<1>5. exec' = [exec EXCEPT ![x] = e]
  BY DEF Render
<1>6. exec'[x] = e
  BY <1>5 DEF IInv, Types
<1>0. /\ UNCHANGED <<doc, commit, mutations, request, plan, swept, current, quarantine>>
      /\ versions' = versions \union
           {FileOf(Target(x, i), doc[Target(x, i)].active + 1, Rendered(x, i)) : i \in I}
  BY DEF Render, database, maintenance
<1>7. versions' \subseteq File /\ versions \subseteq versions'
  <2>1. ASSUME NEW i \in I
        PROVE  FileOf(Target(x, i), doc[Target(x, i)].active + 1, Rendered(x, i)) \in File
    <3>1. /\ Target(x, i) \in Docs /\ doc[Target(x, i)].active + 1 \in Nat
          /\ Rendered(x, i) \in Body
      BY <1>a, <1>2, <1>3
    <3> QED BY <3>1 DEF FileOf, File
  <2> HIDE DEF e, base, body
  <2> QED BY <1>0, <2>1 DEF IInv, Types
<1>8. ASSUME NEW i \in I PROVE RenderedOK(x, i)'
  <2>d. PICK d \in Docs : d = Target(x, i)
    BY <1>a
  <2>0. PICK r, a : /\ d = Target(x, i) /\ r = Rendered(x, i) /\ a = doc[d].active
    BY <2>d
  <2>1. DocOK(d) /\ Last(d) \in Nat /\ a \in Nat /\ a <= Last(d)
    <3>1. DocOK(d)
      BY DEF IInv
    <3> QED BY <2>0, <3>1, LastType DEF Last, DocOK, Document
  <2>2. /\ exec'[x].base[d] = a /\ exec'[x].body[i] = r
    <3>1. d \in Targets(x, I) /\ i \in Index
      BY <1>1, <2>0 DEF Targets
    <3> QED BY <1>6, <2>0, <3>1
  <2>3. r \in Body /\ TakenIn(d, r) = Taken(d) \union {<<x, d>>}
    BY <1>1, <2>0, RenderingTakes
  <2>4. Continues(r, d, a, x)
    <3>1. a = 0 => Taken(d) = {}
      BY <2>0 DEF Taken
    <3>2. a # 0 => \A c \in commit[d][a] : TakenIn(d, c) = Taken(d)
      BY <2>0, <2>1 DEF Taken, DocOK, Alike, Last
    <3> QED BY <2>3, <3>1, <3>2 DEF Continues
  <2>5. plan[x].expected[d] <= a \/ Passed(d, plan[x].expected[d])
    <3>1. plan[x].expected[d] \in Nat /\ plan[x].expected[d] <= Last(d)
      BY <1>1 DEF IInv, PlanOK
    <3> QED BY <2>0, <2>1, <3>1 DEF Last, Passed
  <2>6. FileOf(d, a + 1, r) \in versions'
    BY <1>0, <2>0
  <2>7. /\ plan' = plan /\ Target(x, i)' = d
        /\ doc' = doc /\ commit' = commit /\ Last(d)' = Last(d)
    BY <1>0, <2>0 DEF Target, Last
  <2> HIDE DEF e, base, body
  <2> QED BY <2>1, <2>2, <2>3, <2>4, <2>5, <2>6, <2>7 DEF RenderedOK, Continues, Passed
<1>9. ExecOK(x)'
  <2>1. Listed(x)' = Listed(x)
    BY <1>0 DEF Listed
  <2>2. exec'[x].pc = "rendered" /\ exec'[x].op = exec[x].op /\ exec'[x].pending = I
    BY <1>6
  <2> HIDE DEF e, base, body
  <2> QED BY <1>1, <1>8, <2>1, <2>2 DEF ExecOK
<1>10. FileStep
  BY <1>0, <1>7 DEF FileStep
<1>11. /\ UNCHANGED <<database, request, plan, maintenance>> /\ quarantine' \subseteq File
       /\ current' \in [Docs -> Body \union {None}]
  BY <1>0 DEF Render, IInv, Types
<1>12. e.pc # "idle" /\ exec[x].pc \in Uncommitted
  BY <1>1 DEF Uncommitted
<1> HIDE DEF e
<1> QED BY <1>4, <1>5, <1>7, <1>9, <1>10, <1>11, <1>12, FileTurn

LEMMA MarkInv == ASSUME IInv, NEW x \in Execs, MarkCommitStarted(x) PROVE IInv'
<1> DEFINE e == [exec[x] EXCEPT !.pc = "marked"]
<1>1. exec[x] \in Execution /\ exec[x].pc = "rendered" /\ ExecOK(x)
  BY DEF MarkCommitStarted, Is, IInv, Types
<1>2. /\ exec' = [exec EXCEPT ![x] = e]
      /\ UNCHANGED <<database, files, request, plan, maintenance>>
  BY DEF MarkCommitStarted, Goto
<1>3. /\ e \in Execution /\ e.pc = "marked" /\ e.op = exec[x].op
      /\ e.pending = exec[x].pending /\ e.base = exec[x].base /\ e.body = exec[x].body
  BY <1>1 DEF Execution, Running
<1>4. exec'[x] = e
  BY <1>2 DEF IInv, Types
<1>5. DocSteps /\ FileStep
  BY <1>2, QuietStep, NoFiles DEF database, maintenance
<1> HIDE DEF e
<1>6. \A i \in Listed(x) : RenderedOK(x, i)'
  <2> TAKE i \in Listed(x)
  <2>1. RenderedOK(x, i)
    BY <1>1 DEF ExecOK
  <2> QED BY <1>2, <1>3, <1>4, <1>5, <2>1, RenderedStays
<1>7. ExecOK(x)'
  <2>1. Listed(x)' = Listed(x)
    BY <1>2 DEF Listed
  <2> QED BY <1>1, <1>3, <1>4, <1>6, <2>1 DEF ExecOK, Running
<1>8. e.pc # "idle" /\ exec[x].pc \in Uncommitted
  BY <1>1, <1>3 DEF Uncommitted
<1> QED BY <1>2, <1>3, <1>5, <1>7, <1>8, FileTurn DEF files, IInv, Types

LEMMA CommitRefusedInv == ASSUME IInv, NEW x \in Execs, CommitRefused(x) PROVE IInv'
<1>1. PICK pc \in {"failed", "refused"} : exec' = [exec EXCEPT ![x] = At(pc, exec[x].op, {})]
  BY DEF CommitRefused, Ends
<1>2. /\ At(pc, exec[x].op, {}) \in Execution /\ ExecOK(x)'
      /\ At(pc, exec[x].op, {}).pc # "idle" /\ At(pc, exec[x].op, {}).pc \notin Uncommitted
  BY <1>1, EndsOK, ExecTypes
<1>3. FileStep
  BY NoFiles DEF CommitRefused, maintenance
<1> QED BY <1>1, <1>2, <1>3, FileTurn DEF CommitRefused, files, IInv, Types

LEMMA CommandRefusedInv ==
  ASSUME IInv, NEW x \in Execs, NEW o \in Ops, NEW d \in Docs, CommandRefused(x, o, d)
  PROVE  IInv'
<1>1. exec' = [exec EXCEPT ![x] = At("refused", o, {})]
  BY DEF CommandRefused
<1>2. /\ At("refused", o, {}) \in Execution /\ ExecOK(x)'
      /\ At("refused", o, {}).pc # "idle" /\ At("refused", o, {}).pc \notin Uncommitted
  BY <1>1, EndsOK
<1>3. FileStep
  BY NoFiles DEF CommandRefused, maintenance
<1> QED BY <1>1, <1>2, <1>3, FileTurn DEF CommandRefused, files, IInv, Types

LEMMA MaterializeInv ==
  ASSUME IInv, NEW x \in Execs, NEW i \in Index, Materialize(x, i) PROVE IInv'
<1>1. /\ exec[x] \in Execution /\ exec[x].pc = "written" /\ exec[x].op \in Ops
      /\ exec[x].body[i] \in Body \union {None}
  BY ExecTypes DEF Materialize, Is, Running
<1>2. current' \in [Docs -> Body \union {None}]
  BY <1>1 DEF Materialize, IInv, Types
<1>3. FileStep
  BY DEF Materialize, maintenance, FileStep
<1>4. PICK e \in Execution : /\ exec' = [exec EXCEPT ![x] = e] /\ ExecOK(x)'
                            /\ e.pc # "idle" /\ e.pc \notin Uncommitted
  <2>1. CASE exec[x].pending = {i}
    <3>1. exec' = [exec EXCEPT ![x] = At("done", exec[x].op, {})]
      BY <2>1 DEF Materialize, Ends
    <3> QED BY <1>1, <3>1, EndsOK
  <2>2. CASE exec[x].pending # {i}
    <3> DEFINE e == [exec[x] EXCEPT !.pending = @ \ {i}]
    <3>1. exec' = [exec EXCEPT ![x] = e]
      BY <2>2 DEF Materialize
    <3>2. e \in Execution /\ e.pc = "written" /\ e.op = exec[x].op
      BY <1>1 DEF Execution
    <3>3. exec'[x] = e
      BY <3>1 DEF IInv, Types
    <3> HIDE DEF e
    <3>4. ExecOK(x)' /\ e.pc \notin Uncommitted /\ e.pc # "idle"
      BY <1>1, <3>2, <3>3 DEF ExecOK, Uncommitted
    <3> QED BY <3>1, <3>2, <3>4
  <2> QED BY <2>1, <2>2
<1> QED BY <1>2, <1>3, <1>4, FileTurn DEF Materialize, IInv, Types

LEMMA MaterializeRestoredInv ==
  ASSUME IInv, NEW x \in Execs, MaterializeRestored(x) PROVE IInv'
<1>1. exec' = [exec EXCEPT ![x] = At("done", exec[x].op, {})]
  BY DEF MaterializeRestored, Ends
<1>2. /\ At("done", exec[x].op, {}) \in Execution /\ ExecOK(x)'
      /\ At("done", exec[x].op, {}).pc # "idle" /\ At("done", exec[x].op, {}).pc \notin Uncommitted
  BY <1>1, EndsOK, ExecTypes
<1>3. current' \in [Docs -> Body \union {None}]
  <2>1. 1 \in Index
    BY CommitAssumption DEF Index
  <2>2. exec[x].body[1] \in Body \union {None}
    BY <2>1, ExecTypes
  <2> QED BY <2>2 DEF MaterializeRestored, IInv, Types
<1>4. FileStep
  BY DEF MaterializeRestored, maintenance, FileStep
<1> QED BY <1>1, <1>2, <1>3, <1>4, FileTurn DEF MaterializeRestored, IInv, Types

LEMMA RemoveCurrentInv == ASSUME IInv, NEW x \in Execs, RemoveCurrent(x) PROVE IInv'
<1> DEFINE e == [exec[x] EXCEPT !.pc = "removed"]
<1>1. exec[x] \in Execution /\ exec[x].pc = "forgotten" /\ ExecOK(x)
  BY DEF RemoveCurrent, Is, IInv, Types
<1>2. exec' = [exec EXCEPT ![x] = e]
  BY DEF RemoveCurrent, Goto
<1>3. e \in Execution /\ e.pc = "removed" /\ e.op = exec[x].op
  BY <1>1 DEF Execution, Running
<1>4. exec'[x] = e /\ request' = request /\ doc' = doc
  BY <1>2 DEF IInv, Types, RemoveCurrent, database
<1>5. current' \in [Docs -> Body \union {None}]
  BY DEF RemoveCurrent, IInv, Types
<1>6. FileStep
  BY DEF RemoveCurrent, maintenance, FileStep
<1> HIDE DEF e
<1>7. ExecOK(x)' /\ e.pc # "idle" /\ e.pc \notin Uncommitted
  BY <1>1, <1>3, <1>4 DEF ExecOK, Memory, Running, Passed, Uncommitted
<1> QED BY <1>2, <1>3, <1>5, <1>6, <1>7, FileTurn DEF RemoveCurrent, IInv, Types

LEMMA MoveToQuarantineInv == ASSUME IInv, NEW x \in Execs, MoveToQuarantine(x) PROVE IInv'
<1>1. exec' = [exec EXCEPT ![x] = At("done", exec[x].op, {})]
  BY DEF MoveToQuarantine, Ends
<1>2. /\ At("done", exec[x].op, {}) \in Execution /\ ExecOK(x)'
      /\ At("done", exec[x].op, {}).pc # "idle" /\ At("done", exec[x].op, {}).pc \notin Uncommitted
  BY <1>1, EndsOK, ExecTypes
<1>3. PICK d \in Docs, v \in Nat : /\ d = Memory(x) /\ v = request[exec[x].op].expected
                                  /\ v # 0 /\ v <= Last(d) /\ Passed(d, v)
  <2>1. /\ exec[x].op \in Ops /\ request[exec[x].op].kind = "forget"
        /\ Passed(Memory(x), request[exec[x].op].expected)
    BY DEF MoveToQuarantine, Is, Running, IInv, ExecOK
  <2> QED BY <2>1 DEF IInv, Types, Request, RequestOK, Memory
<1>5. doc[d].deleted # 0 \/ v < doc[d].active
  BY <1>3 DEF Last, Passed
<1>6. /\ versions' = versions \ ToQuarantine(d, v)
      /\ quarantine' = quarantine \union ToQuarantine(d, v)
      /\ ToQuarantine(d, v) \subseteq versions
      /\ \A f \in ToQuarantine(d, v) : f.doc = d /\ f.version = v
      /\ UNCHANGED <<database, request, plan, maintenance, current>>
  BY <1>3 DEF MoveToQuarantine, ToQuarantine
<1>7. FileStep
  BY <1>5, <1>6 DEF FileStep, maintenance
<1>8. /\ versions' \subseteq File /\ quarantine' \subseteq File
      /\ current' \in [Docs -> Body \union {None}]
  BY <1>6 DEF IInv, Types
<1> QED BY <1>1, <1>2, <1>6, <1>7, <1>8, FileTurn
-----------------------------------------------------------------------------
(* The transactions.                                                       *)

(* What a transaction finds accepted was rendered from the active version, *)
(* or for a document that has never existed.                               *)
LEMMA AcceptedRendering ==
  ASSUME IInv, NEW x \in Execs, Is(x, "marked"), NEW i \in Listed(x),
         NEW d \in Docs, d = Target(x, i), Accepted(x, d)
  PROVE  /\ exec[x].base[d] = Last(d) /\ exec[x].base[d] = doc[d].active
         /\ doc[d].deleted = 0 /\ doc[d].expired = FALSE
         /\ exec[x].body[i] \in Body
         /\ TakenIn(d, exec[x].body[i]) = Taken(d) \union {<<x, d>>}
         /\ FileOf(d, Last(d) + 1, exec[x].body[i]) \in versions \union swept
<1>1. /\ DocOK(d) /\ RenderedOK(x, i) /\ Last(d) \in Nat
      /\ plan[x].expected \in [Docs -> Nat] /\ exec[x].base \in [Docs -> Nat]
  BY ExecTypes, LastType DEF IInv, ExecOK, Is, Running
<1>2. PICK b \in Nat, k \in Nat : b = exec[x].base[d] /\ k = plan[x].expected[d]
  BY <1>1
<1>3. /\ k <= b \/ Passed(d, k)
      /\ doc[d].active = k /\ (k = 0 => doc[d].deleted = 0)
  BY <1>1, <1>2 DEF RenderedOK, Accepted
<1>4. b <= Last(d)
  BY <1>1, <1>2 DEF RenderedOK
<1>5. b = doc[d].active /\ doc[d].deleted = 0 /\ doc[d].expired = FALSE /\ b = Last(d)
  <2>1. CASE k = 0
    BY <1>1, <1>3, <1>4, <2>1 DEF Last, DocOK, Document
  <2>2. CASE k # 0
    <3>1. doc[d].active = k /\ Last(d) = k
      BY <1>3, <2>2 DEF Last
    <3>2. ~Passed(d, k)
      BY <2>2, <3>1 DEF Passed
    <3>3. b = k
      BY <1>3, <1>4, <3>1, <3>2
    <3>4. doc[d].deleted = 0 /\ doc[d].expired = FALSE
      BY <1>1, <2>2, <3>1 DEF DocOK, Document
    <3> QED BY <3>1, <3>3, <3>4
  <2> QED BY <2>1, <2>2
<1>6. /\ exec[x].body[i] \in Body
      /\ Continues(exec[x].body[i], d, b, x)
      /\ FileOf(d, b + 1, exec[x].body[i]) \in versions \union swept
  BY <1>1, <1>2, <1>5 DEF RenderedOK
<1>7. TakenIn(d, exec[x].body[i]) = Taken(d) \union {<<x, d>>}
  <2>1. CASE b = 0
    BY <1>5, <1>6, <2>1 DEF Continues, Taken
  <2>2. CASE b # 0
    BY <1>1, <1>5, <1>6, <2>2 DEF Continues, Taken, DocOK
  <2> QED BY <2>1, <2>2
<1> QED BY <1>1, <1>2, <1>5, <1>6, <1>7

LEMMA DirtiedIndex ==
  ASSUME IInv, NEW D \in SUBSET Docs, index' = Dirtied(D),
         \A d \in Docs \ D : doc'[d] = doc[d]
  PROVE  /\ index' \in [listed : [Docs -> Nat], dirty : BOOLEAN]
         /\ CleanIndexIsCurrent'
<1>1. index \in [listed : [Docs -> Nat], dirty : BOOLEAN]
  BY DEF IInv, Types
<1>2. /\ index' \in [listed : [Docs -> Nat], dirty : BOOLEAN]
      /\ index'.listed = index.listed
      /\ index'.dirty = (index.dirty \/ D # {})
  BY <1>1 DEF Dirtied
<1>3. CASE index'.dirty
  BY <1>2, <1>3 DEF CleanIndexIsCurrent
<1>4. CASE ~index'.dirty
  BY <1>2, <1>4 DEF IInv, CleanIndexIsCurrent
<1> QED BY <1>2, <1>3, <1>4

(* An execution commits all its plans together.                            *)
LEMMA CommitsAll ==
  ASSUME IInv, NEW x \in Execs, Is(x, "marked")
  PROVE  /\ exec[x].pending = Listed(x)
         /\ Targets(x, exec[x].pending) = Named(x) /\ Named(x) \subseteq Docs
         /\ \A i \in Index : <<x, i>> \notin mutations
<1>1. ExecOK(x) /\ PlanOK(x)
  BY DEF IInv
<1>2. exec[x].pending = Listed(x) /\ \A i \in Index : <<x, i>> \notin mutations
  BY <1>1 DEF ExecOK, PlanOK, Is, Uncommitted
<1>3. Targets(x, Listed(x)) = Named(x)
  BY DEF Targets, Target, Named
<1> QED BY <1>2, <1>3, ListedDocs

(* What a commit does to the documents.                                    *)
LEMMA CommitExtends ==
  ASSUME IInv, NEW x \in Execs, CommitTransaction(x)
  PROVE  /\ \A d \in Docs \ Named(x) : Stays(d)
         /\ \A d \in Named(x) :
              /\ doc[d].deleted = 0
              /\ \E B \in SUBSET Body : \E b \in B :
                   /\ ExtendedBy(d, b, B)
                   /\ TakenIn(d, b) = Taken(d) \union {<<x, d>>}
<1> DEFINE I == exec[x].pending
           D == Targets(x, I)
           v(d) == exec[x].base[d] + 1
<1>0. Is(x, "marked") /\ I = Listed(x) /\ D = Named(x) /\ D \subseteq Docs
  BY CommitsAll DEF CommitTransaction
<1>1. /\ \A d \in D : Accepted(x, d)
      /\ UNCHANGED <<versions, swept>>
      /\ commit' = [d \in Docs |->
                      IF d \in D
                      THEN Recorded(d, v(d), {exec[x].body[i] : i \in For(x, I, d)})
                      ELSE commit[d]]
  BY DEF CommitTransaction, files, maintenance
<1>2. PICK last \in [D -> I] :
        /\ \A d \in D : last[d] \in For(x, I, d)
        /\ doc' = [d \in Docs |->
                     IF d \in D
                     THEN [doc[d] EXCEPT !.active = v(d), !.body = exec[x].body[last[d]]]
                     ELSE doc[d]]
  BY DEF CommitTransaction
<1>3. \A d \in Docs \ D : Stays(d)
  BY <1>1, <1>2 DEF Stays
<1>4. ASSUME NEW d \in D
      PROVE  /\ doc[d].deleted = 0
             /\ \E B \in SUBSET Body : \E b \in B :
                  /\ ExtendedBy(d, b, B)
                  /\ TakenIn(d, b) = Taken(d) \union {<<x, d>>}
  <2>0. d \in Docs /\ Accepted(x, d)
    BY <1>0, <1>1
  <2>1. PICK J : J = For(x, I, d)
    OBVIOUS
  <2>2. \A i \in J : i \in Listed(x) /\ Target(x, i) = d
    BY <1>0, <2>1 DEF For
  <2>3. PICK n, l : n = v(d) /\ l = last[d]
    OBVIOUS
  <2>4. l \in J
    BY <1>2, <1>4, <2>1, <2>3
  <2>5. /\ n = Last(d) + 1 /\ doc[d].deleted = 0 /\ doc[d].expired = FALSE
        /\ \A i \in J : /\ exec[x].body[i] \in Body
                         /\ TakenIn(d, exec[x].body[i]) = Taken(d) \union {<<x, d>>}
                         /\ FileOf(d, n, exec[x].body[i]) \in versions \union swept
    <3>1. ASSUME NEW i \in J
          PROVE  /\ Last(d) = exec[x].base[d] /\ doc[d].deleted = 0 /\ doc[d].expired = FALSE
                 /\ exec[x].body[i] \in Body
                 /\ TakenIn(d, exec[x].body[i]) = Taken(d) \union {<<x, d>>}
                 /\ FileOf(d, Last(d) + 1, exec[x].body[i]) \in versions \union swept
      BY <1>0, <2>0, <2>2, AcceptedRendering
    <3> QED  BY <1>1, <1>4, <2>3, <2>4, <3>1
  <2>6. PICK B : B = {exec[x].body[i] : i \in J}
    OBVIOUS
  <2>7. PICK c : c = exec[x].body[l]
    OBVIOUS
  <2>8. commit'[d] = Recorded(d, n, B) /\ doc'[d] = [doc[d] EXCEPT !.active = n, !.body = c]
    BY <1>1, <1>2, <1>4, <2>0, <2>1, <2>3, <2>6, <2>7
  <2>9. doc[d] \in Document
    BY <2>0 DEF IInv, DocOK
  <2>10. doc'[d] = [active |-> n, body |-> c, deleted |-> 0, expired |-> FALSE]
    BY <2>5, <2>8, <2>9 DEF Document
  <2>11. c \in B /\ B \subseteq Body /\ TakenIn(d, c) = Taken(d) \union {<<x, d>>}
    BY <2>4, <2>5, <2>6, <2>7
  <2>12. Alike(d, B)
    <3>1. \A b \in B : TakenIn(d, b) = Taken(d) \union {<<x, d>>}
      BY <2>5, <2>6
    <3> QED BY <3>1 DEF Alike
  <2>13. \A b \in B : FileOf(d, Last(d) + 1, b) \in versions' \union swept'
    BY <1>1, <2>5, <2>6
  <2>14. ExtendedBy(d, c, B)
    BY <2>5, <2>8, <2>10, <2>11, <2>12, <2>13 DEF ExtendedBy
  <2> QED BY <2>5, <2>11, <2>14
<1> HIDE DEF D, I
<1> QED BY <1>0, <1>3, <1>4

LEMMA CommitTransactionInv ==
  ASSUME IInv, NEW x \in Execs, CommitTransaction(x) PROVE IInv' /\ DocSteps
<1> DEFINE e == [exec[x] EXCEPT !.pc = "written"]
<1>1. /\ Is(x, "marked") /\ exec[x].pending = Listed(x) /\ Listed(x) \subseteq Index
      /\ Targets(x, exec[x].pending) = Named(x) /\ Named(x) \in SUBSET Docs
  BY CommitsAll, ListedDocs DEF CommitTransaction
<1>2. /\ mutations' = mutations \union {<<x, i>> : i \in Listed(x)}
      /\ index' = Dirtied(Named(x))
      /\ exec' = [exec EXCEPT ![x] = e]
      /\ UNCHANGED <<versions, quarantine, current, request, plan, refs, checked, swept>>
      /\ doc' = [d \in Docs |-> doc'[d]] /\ commit' = [d \in Docs |-> commit'[d]]
  BY <1>1 DEF CommitTransaction, Goto, files, maintenance
<1>3. e \in Execution /\ e.pc = "written" /\ e.op = exec[x].op /\ exec[x].op \in Ops
  BY <1>1, ExecTypes DEF Execution, Running, Is
<1> HIDE DEF e
<1>4. \A d \in Docs \ Named(x) : Stays(d)
  BY CommitExtends
<1>5. DocSteps
  BY CommitExtends DEF DocSteps, DocStep
<1>6. FileStep
  BY <1>2 DEF FileStep
<1>7. index' \in [listed : [Docs -> Nat], dirty : BOOLEAN] /\ CleanIndexIsCurrent'
  <2>1. \A d \in Docs \ Named(x) : doc'[d] = doc[d]
    BY <1>4 DEF Stays
  <2> QED BY <1>1, <1>2, <2>1, DirtiedIndex
<1>8. exec'[x] = e
  BY <1>2 DEF IInv, Types
<1>9. ExecOK(x)'
  BY <1>3, <1>8 DEF ExecOK
<1>10. PlanOK(x)'
  BY <1>2, <1>3, <1>5, <1>8, PlanStays DEF Uncommitted
<1>11. /\ exec' \in [Execs -> Execution] /\ \A o \in Ops : RequestOK(o)'
       /\ \A y \in Execs : PlanOK(y)' /\ ExecOK(y)'
  <2>1. \A y \in Execs \ {x} : \A i \in Index : <<y, i>> \notin mutations => <<y, i>> \notin mutations'
    BY <1>2
  <2> QED BY <1>2, <1>3, <1>5, <1>6, <1>9, <1>10, <2>1, ExecTurn
<1>12. mutations' \subseteq Mutation
  BY <1>1, <1>2 DEF IInv, Types, Mutation
<1>13. Types' /\ Functions'
  BY <1>2, <1>7, <1>11, <1>12 DEF IInv, Types, Functions
<1> QED BY <1>5, <1>6, <1>7, <1>11, <1>13, StepInv

(* The version a command names is one of its document.                     *)
LEMMA Named1 ==
  ASSUME IInv, NEW o \in Ops, request[o].kind \in {"forget", "restore"}
  PROVE  /\ request[o].on \in Docs
         /\ request[o].expected \in Nat \ {0} /\ request[o].expected <= Last(request[o].on)
BY DEF IInv, Types, Request, RequestOK

LEMMA ForgetInv ==
  ASSUME IInv, NEW x \in Execs, NEW o \in Ops, NEW d \in Docs, ForgetTransaction(x, o, d)
  PROVE  IInv' /\ DocSteps
<1> DEFINE e == At("forgotten", o, {})
<1>1. /\ request[o].kind = "forget" /\ d = request[o].on
      /\ doc[d].active = request[o].expected /\ doc[d].active # 0
      /\ doc' = [doc EXCEPT ![d] = [active |-> 0, body |-> None,
                                    deleted |-> doc[d].active, expired |-> FALSE]]
      /\ index' = Dirtied({d})
      /\ exec' = [exec EXCEPT ![x] = e]
      /\ UNCHANGED <<commit, mutations, versions, quarantine, current, request, plan,
                     refs, checked, swept>>
  BY Named1 DEF ForgetTransaction, Begins, files, maintenance
<1>2. /\ doc'[d] = [active |-> 0, body |-> None, deleted |-> doc[d].active, expired |-> FALSE]
      /\ \A c \in Docs \ {d} : doc'[c] = doc[c]
  BY <1>1 DEF IInv, Functions
<1>3. DocSteps
  <2>1. Forgotten(d)
    BY <1>1, <1>2 DEF Forgotten
  <2>2. \A c \in Docs \ {d} : Stays(c)
    BY <1>1, <1>2 DEF Stays
  <2> QED BY <2>1, <2>2 DEF DocSteps, DocStep
<1>4. FileStep
  BY <1>1 DEF FileStep
<1>5. e \in Execution /\ exec'[x] = e /\ e.pc = "forgotten" /\ e.op = o
  BY <1>1, AtType DEF IInv, Types, At, Running
<1> HIDE DEF e
<1>6. ExecOK(x)'
  <2>1. Memory(x)' = d
    BY <1>1, <1>5 DEF Memory
  <2> QED BY <1>1, <1>2, <1>5, <2>1 DEF ExecOK, Passed
<1>7. PlanOK(x)'
  BY <1>1, <1>3, <1>5, PlanStays DEF Uncommitted
<1>8. /\ exec' \in [Execs -> Execution] /\ \A p \in Ops : RequestOK(p)'
      /\ \A y \in Execs : PlanOK(y)' /\ ExecOK(y)'
  BY <1>1, <1>3, <1>4, <1>5, <1>6, <1>7, ExecTurn
<1>9. index' \in [listed : [Docs -> Nat], dirty : BOOLEAN] /\ CleanIndexIsCurrent'
  BY <1>1, <1>2, DirtiedIndex
<1>10. Types' /\ Functions'
  BY <1>1, <1>8, <1>9 DEF IInv, Types, Functions
<1> QED BY <1>3, <1>4, <1>8, <1>9, <1>10, StepInv

(* get_max_version finds the newest version.                               *)
LEMMA MaxIsLast == ASSUME NEW d \in Docs, DocOK(d) PROVE MaxVersion(d) = Last(d)
<1>1. Last(d) \in Nat /\ DOMAIN commit[d] = 1..Last(d)
  BY LastType DEF DocOK
<1>2. PICK n \in Nat : n = Last(d)
  BY <1>1
<1>3. DOMAIN commit[d] \union {0} = 0..n
  BY <1>1, <1>2
<1>4. n \in 0..n /\ \A y \in 0..n : n >= y
  OBVIOUS
<1>5. \A m \in 0..n : (\A y \in 0..n : m >= y) => m = n
  BY <1>4
<1>6. Max(0..n) = n
  BY <1>4, <1>5 DEF Max
<1> QED BY <1>2, <1>3, <1>6 DEF MaxVersion

LEMMA RestoreInv ==
  ASSUME IInv, NEW x \in Execs, NEW o \in Ops, NEW d \in Docs, NEW b,
         RestoreTransaction(x, o, d, b)
  PROVE  IInv' /\ DocSteps
<1>0. PICK v \in Nat : v = request[o].expected
  BY DEF IInv, Types, Request
<1>1. /\ request[o].kind = "restore" /\ v # 0
      /\ doc[d].deleted = v /\ DocOK(d) /\ Last(d) \in Nat
      /\ b \in commit[d][v]
  <2>1. DocOK(d)
    BY DEF IInv
  <2> QED BY <1>0, <2>1, LastType, Named1 DEF RestoreTransaction, InWindow, Begins
<1>2. b \in Body
  <2>1. v \in 1..Last(d)
    BY <1>1 DEF DocOK, Last
  <2> QED BY <1>1, <2>1 DEF DocOK
<1>3. PICK n \in Nat : n = Last(d) + 1
  BY <1>1
<1>4. /\ doc' = [doc EXCEPT ![d] = [active |-> n, body |-> b, deleted |-> 0, expired |-> FALSE]]
      /\ commit' = [commit EXCEPT ![d] = Recorded(d, n, {b})]
      /\ versions' = versions \union {FileOf(d, n, b)}
      /\ index' = Dirtied({d})
      /\ exec' = [exec EXCEPT ![x] = [At("restored", o, {}) EXCEPT !.body[1] = b]]
      /\ UNCHANGED <<mutations, quarantine, current, request, plan, refs, checked, swept>>
  <2>1. MaxVersion(d) + 1 = n
    BY <1>1, <1>3, MaxIsLast
  <2> QED BY <1>0, <2>1 DEF RestoreTransaction, maintenance
<1>5. /\ doc'[d] = [active |-> n, body |-> b, deleted |-> 0, expired |-> FALSE]
      /\ commit'[d] = Recorded(d, n, {b})
      /\ \A c \in Docs \ {d} : doc'[c] = doc[c] /\ commit'[c] = commit[c]
  BY <1>4 DEF IInv, Functions
<1>6. DocSteps
  <2>1. ExtendedBy(d, b, {b})
    BY <1>2, <1>3, <1>4, <1>5 DEF ExtendedBy, Alike
  <2>2. \A c \in Docs \ {d} : Stays(c)
    BY <1>5 DEF Stays
  <2>3. {b} \in SUBSET Body /\ b \in {b}
    BY <1>2
  <2>4. DocStep(d)
    BY <2>1, <2>3 DEF DocStep
  <2> QED BY <2>2, <2>4 DEF DocSteps, DocStep
<1>7. FileStep
  BY <1>4 DEF FileStep
<1>8. PICK e \in Execution : exec' = [exec EXCEPT ![x] = e] /\ e.pc = "restored" /\ e.op = o
  <2>1. PICK a : a = At("restored", o, {})
    OBVIOUS
  <2>2. /\ a \in Execution /\ a.pc = "restored" /\ a.op = o
        /\ a.body \in [Index -> Body \union {None}]
    BY <2>1, AtType DEF At, Running
  <2> DEFINE e == [a EXCEPT !.body = [a.body EXCEPT ![1] = b]]
  <2>3. [a EXCEPT !.body[1] = b] = e
    OBVIOUS
  <2>4. [a.body EXCEPT ![1] = b] \in [Index -> Body \union {None}]
    BY <1>2, <2>2
  <2>5. e \in Execution /\ e.pc = "restored" /\ e.op = o
    BY <2>2, <2>4 DEF Execution
  <2>6. exec' = [exec EXCEPT ![x] = e]
    BY <1>4, <2>1, <2>3
  <2> QED BY <2>5, <2>6
<1>9. exec'[x] = e
  BY <1>8 DEF IInv, Types
<1>10. ExecOK(x)' /\ PlanOK(x)'
  BY <1>4, <1>6, <1>8, <1>9, PlanStays DEF ExecOK, Uncommitted
<1>11. /\ exec' \in [Execs -> Execution] /\ \A p \in Ops : RequestOK(p)'
       /\ \A y \in Execs : PlanOK(y)' /\ ExecOK(y)'
  BY <1>4, <1>6, <1>7, <1>8, <1>10, ExecTurn
<1>12. index' \in [listed : [Docs -> Nat], dirty : BOOLEAN] /\ CleanIndexIsCurrent'
  BY <1>4, <1>5, DirtiedIndex
<1>13. versions' \subseteq File
  <2>1. FileOf(d, n, b) \in File
    BY <1>2 DEF FileOf, File
  <2> QED BY <1>4, <2>1 DEF IInv, Types
<1>14. Types' /\ Functions'
  BY <1>4, <1>11, <1>12, <1>13 DEF IInv, Types, Functions
<1> QED BY <1>6, <1>7, <1>11, <1>12, <1>14, StepInv
-----------------------------------------------------------------------------
(* Maintenance leaves requests, plans and executions alone.                *)
LEMMA MaintenanceStep ==
  ASSUME IInv, DocSteps, FileStep, UNCHANGED <<mutations, request, plan, exec>>,
         Types', Functions', CleanIndexIsCurrent'
  PROVE  IInv'
<1>1. ASSUME NEW x \in Execs PROVE PlanOK(x)' /\ ExecOK(x)'
  <2>1. PlanOK(x)
    BY DEF IInv
  <2>2. exec'[x].pc \in Uncommitted => \A i \in Index : <<x, i>> \notin mutations'
    BY <2>1 DEF PlanOK
  <2> QED BY <2>2, PlanStays, ExecStays
<1>2. \A o \in Ops : RequestOK(o)'
  BY ReadStays
<1> QED BY <1>1, <1>2, StepInv

LEMMA TombstoneExpiresInv == ASSUME IInv, NEW d \in Docs, TombstoneExpires(d) PROVE IInv' /\ DocSteps
<1>1. doc' = [doc EXCEPT ![d] = [doc[d] EXCEPT !.expired = TRUE]]
  BY DEF TombstoneExpires
<1>2. /\ doc[d].deleted # 0 /\ doc[d] \in Document
      /\ UNCHANGED <<commit, mutations, index, versions, quarantine, current, request, plan, exec,
                     refs, checked, swept>>
  BY DEF TombstoneExpires, files, maintenance, IInv, DocOK
<1>3. /\ doc'[d] = [doc[d] EXCEPT !.expired = TRUE]
      /\ \A c \in Docs \ {d} : doc'[c] = doc[c]
  BY <1>1 DEF IInv, Functions
<1>4. DocSteps
  BY <1>2, <1>3 DEF DocSteps, DocStep, Expires, Stays
<1>5. FileStep
  BY <1>2 DEF FileStep
<1>6. Types'
  BY <1>2 DEF IInv, Types
<1>7. Functions'
  BY <1>1, <1>2 DEF IInv, Functions
<1>8. CleanIndexIsCurrent'
  <2>1. doc'[d].active = doc[d].active
    BY <1>2, <1>3 DEF Document
  <2> QED BY <1>2, <1>3, <2>1 DEF IInv, CleanIndexIsCurrent
<1> QED BY <1>2, <1>4, <1>5, <1>6, <1>7, <1>8, MaintenanceStep

LEMMA PurgeInv == ASSUME IInv, NEW d \in Docs, PurgeTombstone(d) PROVE IInv'
<1>1. /\ UNCHANGED <<doc, commit, mutations, index, current, request, plan, exec, refs, checked, swept>>
      /\ versions' \subseteq versions /\ quarantine' \subseteq quarantine
      /\ \A f \in versions \ versions' : f.doc = d
      /\ \A f \in quarantine \ quarantine' : f.doc = d
      /\ doc[d].expired /\ DocOK(d)
  BY DEF PurgeTombstone, database, maintenance, IInv
<1>2. DocSteps
  BY <1>1, QuietStep
<1>3. FileStep
  BY <1>1 DEF FileStep, DocOK
<1>4. Types' /\ Functions' /\ CleanIndexIsCurrent'
  BY <1>1 DEF IInv, Types, Functions, CleanIndexIsCurrent
<1> QED BY <1>1, <1>2, <1>3, <1>4, MaintenanceStep

LEMMA RebuildIndexInv == ASSUME IInv, RebuildIndex PROVE IInv'
<1>1. /\ UNCHANGED <<doc, commit, mutations, versions, quarantine, current, request, plan, exec,
                     refs, checked, swept>>
      /\ index' = [listed |-> [d \in Docs |-> doc[d].active], dirty |-> FALSE]
  BY DEF RebuildIndex, files, maintenance
<1>2. DocSteps
  BY <1>1, QuietStep
<1>3. FileStep
  BY <1>1 DEF FileStep
<1>4. \A d \in Docs : doc[d].active \in Nat
  BY DEF IInv, DocOK, Document
<1>5. Types' /\ Functions' /\ CleanIndexIsCurrent'
  BY <1>1, <1>4 DEF IInv, Types, Functions, CleanIndexIsCurrent
<1> QED BY <1>1, <1>2, <1>3, <1>5, MaintenanceStep

LEMMA CleanUpInv ==
  ASSUME IInv, NEW d \in Docs, ReadReferences(d) \/ DeleteOrphans(d) PROVE IInv'
<1>1. UNCHANGED <<doc, commit, mutations, index, quarantine, current, request, plan, exec, checked>>
  BY DEF ReadReferences, DeleteOrphans, database, files
<1>2. /\ versions \union swept \subseteq versions' \union swept'
      /\ versions' \subseteq versions /\ swept' \subseteq versions \union swept
  BY DEF ReadReferences, DeleteOrphans, files
<1>3. /\ refs' = [c \in Docs |-> refs'[c]]
      /\ \A c \in Docs : refs'[c] = None \/ refs'[c] \subseteq Body
  <2>1. Referenced(d) \subseteq Body
    BY DEF IInv, DocOK, Referenced
  <2> QED BY <2>1 DEF ReadReferences, DeleteOrphans, IInv, Types, Functions
<1>4. DocSteps
  BY <1>1, QuietStep
<1>5. FileStep
  BY <1>1, <1>2 DEF FileStep
<1>6. Types' /\ Functions' /\ CleanIndexIsCurrent'
  BY <1>1, <1>2, <1>3 DEF IInv, Types, Functions, CleanIndexIsCurrent
<1> QED BY <1>1, <1>4, <1>5, <1>6, MaintenanceStep

LEMMA VerifyingInv == ASSUME IInv, NEW d \in Docs, Verifying(d) PROVE IInv'
<1>1. UNCHANGED <<doc, commit, mutations, index, versions, quarantine, request, plan, exec, refs, swept>>
  BY DEF Verifying, ReadForVerification, RepairCurrent, database, files
<1>2. current' \in [Docs -> Body \union {None}]
  <2>1. Repaired(d) \in Body \union {None}
    BY DEF IInv, Types, Repaired, File
  <2> QED BY <2>1 DEF Verifying, ReadForVerification, RepairCurrent, files, IInv, Types
<1>3. /\ checked' = [c \in Docs |-> checked'[c]]
      /\ \A c \in Docs : checked'[c] = None \/ checked'[c] \in File
  <2>1. doc[d].active # 0 => ActiveFile(d) \in File
    BY DEF ActiveFile, FileOf, File, IInv, DocOK, Document
  <2> QED BY <2>1 DEF Verifying, ReadForVerification, RepairCurrent, IInv, Types, Functions
<1>4. DocSteps
  BY <1>1, QuietStep
<1>5. FileStep
  BY <1>1 DEF FileStep
<1>6. Types' /\ Functions' /\ CleanIndexIsCurrent'
  BY <1>1, <1>2, <1>3 DEF IInv, Types, Functions, CleanIndexIsCurrent
<1> QED BY <1>1, <1>4, <1>5, <1>6, MaintenanceStep
-----------------------------------------------------------------------------
(* Every step keeps the invariant.                                         *)
LEMMA NextIInv == IInv /\ [Next]_vars => IInv'
<1> SUFFICES ASSUME IInv, [Next]_vars PROVE IInv'
  OBVIOUS
<1>1. CASE Sending
  BY <1>1, SendingInv
<1>2. CASE Executing
  BY <1>2, PlanWriteInv, RenderInv, MarkInv, CommitTransactionInv, CommitRefusedInv, ForgetInv,
     RestoreInv, CommandRefusedInv, MaterializeInv, MaterializeRestoredInv, RemoveCurrentInv,
     MoveToQuarantineInv DEF Executing
<1>3. CASE Maintaining
  BY <1>3, RebuildIndexInv, TombstoneExpiresInv, PurgeInv, CleanUpInv, VerifyingInv
     DEF Maintaining
<1>4. CASE UNCHANGED vars
  <2>1. /\ UNCHANGED <<doc, commit, mutations, index, versions, quarantine, current>>
        /\ UNCHANGED <<request, plan, exec, refs, checked, swept>>
    BY <1>4 DEF vars
  <2>2. DocSteps /\ FileStep
    BY <2>1, QuietStep DEF FileStep
  <2>3. Types' /\ Functions' /\ CleanIndexIsCurrent'
    BY <2>1 DEF IInv, Types, Functions, CleanIndexIsCurrent
  <2> QED BY <2>1, <2>2, <2>3, MaintenanceStep
<1> QED BY <1>1, <1>2, <1>3, <1>4 DEF Next

LEMMA Invariance == Spec => []IInv
BY InitIInv, NextIInv, PTL DEF Spec

(* Types, and the CHECK of memory_documents, for all sizes.                *)
THEOREM TypeCorrect == Spec => []TypeOK
BY Invariance, IInvTypes, PTL

(* No file that an active or restorable version needs is lost, but to the  *)
(* orphan clean-up.                                                        *)
THEOREM VersionsReadable == Spec => []VersionReadable
<1>1. IInv => VersionReadable
  <2> SUFFICES ASSUME IInv, NEW d \in Docs
               PROVE  /\ doc[d].active # 0 => ActiveFile(d) \in versions \union swept
                      /\ doc[d].deleted # 0 /\ ~doc[d].expired =>
                           \A b \in commit[d][doc[d].deleted] :
                             FileOf(d, doc[d].deleted, b)
                               \in versions \union quarantine \union swept
    BY DEF VersionReadable
  <2> QED BY DEF IInv, DocOK, Readable, ActiveFile
<1> QED BY <1>1, Invariance, PTL

(* A clean index lists the active versions.                                *)
THEOREM IndexCurrent == Spec => []CleanIndexIsCurrent
<1>1. IInv => CleanIndexIsCurrent
  BY DEF IInv
<1> QED BY <1>1, Invariance, PTL
-----------------------------------------------------------------------------
(* What a step may do to the documents.                                    *)
LEMMA NextDocSteps == IInv /\ [Next]_vars => DocSteps
<1> SUFFICES ASSUME IInv, [Next]_vars PROVE DocSteps
  OBVIOUS
<1>1. CASE Sending
  BY <1>1, QuietStep DEF Sending, SendSummary, SendForget, SendRestore, Sent, database
<1>2. CASE Executing
  <2>1. ASSUME NEW x \in Execs, NEW o \in Ops, NEW on \in [Index -> Docs \union {None}],
               PlanWrite(x, o, on)
        PROVE  DocSteps
    BY <2>1, QuietStep DEF PlanWrite, database
  <2>2. ASSUME NEW x \in Execs,
               \/ Render(x) \/ MarkCommitStarted(x) \/ CommitRefused(x)
               \/ RemoveCurrent(x) \/ MoveToQuarantine(x) \/ MaterializeRestored(x)
               \/ \E i \in Index : Materialize(x, i)
        PROVE  DocSteps
    BY <2>2, QuietStep DEF Render, MarkCommitStarted, CommitRefused, RemoveCurrent,
       MoveToQuarantine, MaterializeRestored, Materialize, database
  <2>3. ASSUME NEW x \in Execs, NEW o \in Ops, NEW d \in Docs, CommandRefused(x, o, d)
        PROVE  DocSteps
    BY <2>3, QuietStep DEF CommandRefused, database
  <2> QED BY <1>2, <2>1, <2>2, <2>3, CommitTransactionInv, ForgetInv, RestoreInv DEF Executing
<1>3. CASE Maintaining
  <2>1. CASE RebuildIndex
    BY <2>1, QuietStep DEF RebuildIndex
  <2>2. ASSUME NEW d \in Docs,
               PurgeTombstone(d) \/ ReadReferences(d) \/ DeleteOrphans(d) \/ Verifying(d)
        PROVE  DocSteps
    BY <2>2, QuietStep DEF PurgeTombstone, ReadReferences, DeleteOrphans, Verifying,
       ReadForVerification, RepairCurrent, database
  <2> QED BY <1>3, <2>1, <2>2, TombstoneExpiresInv DEF Maintaining
<1>4. CASE UNCHANGED vars
  BY <1>4, QuietStep DEF vars
<1> QED BY <1>1, <1>2, <1>3, <1>4 DEF Next

(* A version that was committed keeps its texts, whatever is committed,    *)
(* forgotten or restored later, by executions that overlap or not.         *)
THEOREM VersionsFinal == Spec => VersionsNeverReused
<1>1. ASSUME IInv, [Next]_vars, NEW d \in Docs, NEW v \in DOMAIN commit[d]
      PROVE  v \in DOMAIN commit'[d] /\ commit'[d][v] = commit[d][v]
  <2>1. DocOK(d) /\ DocOK(d)' /\ Grows(d)
    BY <1>1, NextDocSteps, DocStepOK DEF IInv, DocSteps
  <2>2. /\ DOMAIN commit[d] = 1..Last(d) /\ DOMAIN commit'[d] = 1..Last(d)'
        /\ Last(d) \in Nat /\ Last(d)' \in Nat /\ Last(d) <= Last(d)'
    BY <2>1, LastType, LastType2 DEF DocOK, Grows
  <2> QED BY <2>1, <2>2 DEF Grows
<1>2. IInv /\ [Next]_vars =>
        [\A d \in Docs : \A v \in DOMAIN commit[d] :
           v \in DOMAIN commit'[d] /\ commit'[d][v] = commit[d][v]]_vars
  BY <1>1
<1> QED BY <1>2, Invariance, PTL DEF Spec, VersionsNeverReused
-----------------------------------------------------------------------------
(* The refinement.                                                         *)
docs == [d \in Docs |-> State(d)]
about == [x \in Execs |-> Named(x)]
applied == {<<m[1], plan[m[1]].on[m[2]]>> : m \in mutations}

LEMMA HistoryInitOK == Init => History!HistoryInit
<1> SUFFICES ASSUME Init PROVE History!HistoryInit
  OBVIOUS
<1>1. \A d \in Docs : State(d) \in [state : {"none", "live"}, updates : {{}}]
  <2> TAKE d \in Docs
  <2>1. CASE d \in Existing
    <3>1. doc[d] = [active |-> 1, body |-> OldBody, deleted |-> 0, expired |-> FALSE]
      BY <2>1 DEF Init, NoDocument
    <3>2. TakenIn(d, OldBody) = {}
      BY DEF TakenIn, OldBody
    <3> QED BY <3>1, <3>2 DEF State
  <2>2. CASE d \notin Existing
    <3>1. doc[d] = NoDocument
      BY <2>2 DEF Init
    <3> QED BY <3>1 DEF State, NoDocument
  <2> QED BY <2>1, <2>2
<1>2. \A x \in Execs : Named(x) = {}
  BY DEF Init, NoPlan, Named, Listed
<1>3. mutations = {}
  BY DEF Init
<1> QED BY <1>1, <1>2, <1>3 DEF History!HistoryInit

HistoryStep == [History!HistoryNext]_(History!historyVars)

LEMMA HiddenStep ==
  ASSUME \A d \in Docs : State(d)' = State(d), UNCHANGED <<plan, mutations>>
  PROVE  HistoryStep
BY DEF HistoryStep, History!historyVars, Named, Listed

(* A step of one document.                                                 *)
LEMMA OneDocument ==
  ASSUME NEW d \in Docs, \A c \in Docs \ {d} : State(c)' = State(c),
         UNCHANGED <<plan, mutations>>
  PROVE  /\ docs' = [docs EXCEPT ![d] = State(d)'] /\ docs[d] = State(d)
         /\ about' = about /\ applied' = applied
BY DEF docs, about, applied, Named, Listed

(* The texts of the newest version are alike.                              *)
LEMMA ActiveState ==
  ASSUME NEW d \in Docs, doc[d].active # 0
  PROVE  State(d) = [state |-> "live", updates |-> Taken(d)]
BY DEF State, Taken

(* The updates that a commit adds to those applied.                        *)
LEMMA CommitApplies ==
  ASSUME IInv, NEW x \in Execs, plan' = plan,
         mutations' = mutations \union {<<x, i>> : i \in Listed(x)},
         \A i \in Index : <<x, i>> \notin mutations
  PROVE  /\ applied' = applied \union ({x} \X Named(x))
         /\ \A d \in Named(x) : <<x, d>> \notin applied
<1>1. mutations \subseteq Mutation
  BY DEF IInv, Types
<1> DEFINE u(m) == <<m[1], plan[m[1]].on[m[2]]>>
<1>2. ASSUME NEW d \in Named(x), <<x, d>> \in applied PROVE FALSE
  <2>1. PICK m \in mutations : <<x, d>> = u(m)
    BY <1>2 DEF applied
  <2>2. PICK y \in Execs, i \in Index : m = <<y, i>>
    BY <1>1, <2>1 DEF Mutation
  <2>3. y = x
    BY <2>1, <2>2
  <2> QED BY <2>1, <2>2, <2>3
<1>3. applied' = {u(m) : m \in mutations'}
  BY DEF applied
<1>4. {u(m) : m \in {<<x, i>> : i \in Listed(x)}} = {x} \X Named(x)
  <2>1. PICK f, L : f = plan[x].on /\ L = Listed(x)
    OBVIOUS
  <2>2. \A i \in L : u(<<x, i>>) = <<x, f[i]>>
    BY <2>1
  <2> HIDE DEF u
  <2>3. {u(m) : m \in {<<x, i>> : i \in L}} = {<<x, f[i]>> : i \in L}
    <3>1. PICK S, T : /\ S = {u(m) : m \in {<<x, i>> : i \in L}}
                      /\ T = {<<x, f[i]>> : i \in L}
      OBVIOUS
    <3>2. \A z : z \in S <=> \E i \in L : z = u(<<x, i>>)
      BY <3>1
    <3>3. \A z : z \in T <=> \E i \in L : z = <<x, f[i]>>
      BY <3>1
    <3>4. \A z : z \in S <=> z \in T
      <4>1. ASSUME NEW z, z \in S PROVE z \in T
        <5>1. PICK i \in L : z = u(<<x, i>>)
          BY <3>2, <4>1
        <5>2. z = <<x, f[i]>>
          BY <2>2, <5>1
        <5> QED BY <3>3, <5>2
      <4>2. ASSUME NEW z, z \in T PROVE z \in S
        <5>1. PICK i \in L : z = <<x, f[i]>>
          BY <3>3, <4>2
        <5>2. z = u(<<x, i>>)
          BY <2>2, <5>1
        <5> QED BY <3>2, <5>2
      <4> QED BY <4>1, <4>2
    <3>5. S = T
      BY <3>4
    <3> QED BY <3>1, <3>5
  <2>4. {<<x, f[i]>> : i \in L} = {x} \X {f[i] : i \in L}
    OBVIOUS
  <2> QED BY <2>1, <2>3, <2>4 DEF Named
<1>5. PICK M : M = {<<x, i>> : i \in Listed(x)}
  OBVIOUS
<1>6. applied = {u(m) : m \in mutations} /\ mutations' = mutations \union M
  BY <1>5 DEF applied
<1>7. {u(m) : m \in mutations \union M} = {u(m) : m \in mutations} \union {u(m) : m \in M}
  OBVIOUS
<1> HIDE DEF u
<1> QED BY <1>2, <1>3, <1>4, <1>5, <1>6, <1>7

(* An execution adds its update to all documents that it planned.          *)
LEMMA ExecutesHistory ==
  ASSUME IInv, NEW x \in Execs, CommitTransaction(x) PROVE HistoryStep
<1>0. PICK D \in SUBSET Docs : D = Named(x)
  BY ListedDocs
<1>1. /\ mutations' = mutations \union {<<x, i>> : i \in Listed(x)}
      /\ \A i \in Index : <<x, i>> \notin mutations
      /\ plan' = plan
  BY CommitsAll DEF CommitTransaction
<1>2. \A d \in Docs \ D : State(d)' = State(d)
  BY <1>0, CommitExtends DEF Stays, State
<1>3. CASE D = {}
  <2>1. Listed(x) = {}
    BY <1>0, <1>3 DEF Named
  <2>2. mutations' = mutations
    BY <1>1, <2>1
  <2> QED BY <1>1, <1>2, <1>3, <2>2, HiddenStep
<1>4. CASE D # {}
  <2>1. ASSUME NEW d \in D
        PROVE  /\ State(d).state \in {"none", "live"}
               /\ State(d)' = [state |-> "live", updates |-> State(d).updates \union {<<x, d>>}]
    <3>1. PICK B \in SUBSET Body : \E b \in B :
            /\ ExtendedBy(d, b, B) /\ TakenIn(d, b) = Taken(d) \union {<<x, d>>}
      BY <1>0, CommitExtends
    <3>2. PICK b \in B :
            /\ ExtendedBy(d, b, B) /\ TakenIn(d, b) = Taken(d) \union {<<x, d>>}
      BY <3>1
    <3>3. doc'[d].active = Last(d) + 1 /\ doc'[d].body = b /\ Last(d) + 1 # 0
      BY <3>2, LastType DEF ExtendedBy, IInv
    <3>4. State(d)' = [state |-> "live", updates |-> TakenIn(d, b)]
      BY <3>3 DEF State, TakenIn
    <3>5. doc[d].deleted = 0
      BY <1>0, CommitExtends
    <3>6. State(d).updates = Taken(d) /\ State(d).state \in {"none", "live"}
      BY <3>5 DEF State, Taken
    <3> QED BY <3>2, <3>4, <3>6
  <2>2. about[x] = D /\ about' = about
    BY <1>0, <1>1 DEF about, Named, Listed
  <2>3. docs' = [d \in Docs |->
                   IF d \in D
                   THEN [state |-> "live", updates |-> docs[d].updates \union {<<x, d>>}]
                   ELSE docs[d]]
    <3>1. ASSUME NEW d \in Docs
          PROVE  docs'[d] = IF d \in D
                   THEN [state |-> "live", updates |-> docs[d].updates \union {<<x, d>>}]
                   ELSE docs[d]
      <4>1. docs[d] = State(d) /\ docs'[d] = State(d)'
        BY DEF docs
      <4> QED BY <1>2, <2>1, <4>1
    <3>2. docs' = [d \in Docs |-> docs'[d]]
      BY DEF docs
    <3> QED BY <3>1, <3>2
  <2>4. /\ applied' = applied \union ({x} \X D)
        /\ \A d \in D : <<x, d>> \notin applied
    BY <1>0, <1>1, CommitApplies
  <2>5. \A d \in D : docs[d].state \in {"none", "live"}
    <3>1. \A d \in D : docs[d] = State(d)
      BY DEF docs
    <3> QED BY <2>1, <3>1
  <2>6. History!Write(x)
    <3>1. /\ about[x] # {}
          /\ \A d \in about[x] :
               docs[d].state \in {"none", "live"} /\ <<x, d>> \notin applied
          /\ docs' = [d \in Docs |->
                    IF d \in about[x]
                    THEN [state |-> "live",
                          updates |-> docs[d].updates \union {<<x, d>>}]
                    ELSE docs[d]]
          /\ applied' = applied \union ({x} \X about[x])
          /\ UNCHANGED about
      BY <1>4, <2>2, <2>3, <2>4, <2>5
    <3> QED BY <3>1 DEF History!Write, docs, about, applied
  <2> QED BY <2>6 DEF HistoryStep, History!HistoryNext
<1> QED BY <1>3, <1>4

(* An execution plans once.                                                *)
LEMMA PlansHistory ==
  ASSUME IInv, NEW x \in Execs, NEW o \in Ops, NEW on \in [Index -> Docs \union {None}],
         PlanWrite(x, o, on)
  PROVE  HistoryStep
<1>1. /\ exec[x].pc = "idle" /\ plan'[x].on = on
      /\ \A y \in Execs \ {x} : plan'[y] = plan[y]
      /\ doc' = doc /\ commit' = commit /\ mutations' = mutations
  BY DEF PlanWrite, Begins, Is, database, IInv, Types
<1>2. plan[x] = NoPlan /\ \A i \in Index : <<x, i>> \notin mutations
  BY <1>1 DEF IInv, PlanOK, Uncommitted
<1>3. docs' = docs
  BY <1>1 DEF docs, State
<1>4. about[x] = {}
  BY <1>2 DEF about, NoPlan, Named, Listed
<1>5. PICK D \in SUBSET Docs : D = Named(x)'
  BY <1>1 DEF Named, Listed
<1>6. about' = [about EXCEPT ![x] = D]
  <2>1. \A y \in Execs \ {x} : Named(y)' = Named(y)
    BY <1>1 DEF Named, Listed
  <2> QED BY <1>5, <2>1 DEF about
<1>7. applied' = applied
  <2>1. \A m \in mutations : m[1] \in Execs \ {x}
    <3>1. mutations \subseteq Mutation
      BY DEF IInv, Types
    <3> QED BY <1>2, <3>1 DEF Mutation
  <2>2. \A m \in mutations : plan'[m[1]].on[m[2]] = plan[m[1]].on[m[2]]
    BY <1>1, <2>1
  <2> QED BY <1>1, <2>2 DEF applied
<1>8. History!Intend(x, D)
  BY <1>3, <1>4, <1>6, <1>7 DEF History!Intend, docs, about, applied
<1> QED BY <1>8 DEF HistoryStep, History!HistoryNext

(* A change of the state of one document, from one to the other.           *)
LEMMA BecomesStep ==
  ASSUME IInv, NEW d \in Docs, \A c \in Docs \ {d} : Stays(c),
         UNCHANGED <<plan, mutations>>
  PROVE  /\ docs' = [docs EXCEPT ![d] = State(d)'] /\ docs[d] = State(d)
         /\ about' = about /\ applied' = applied
<1>1. \A c \in Docs \ {d} : State(c)' = State(c)
  BY DEF Stays, State
<1> QED BY <1>1, OneDocument

LEMMA ForgetsHistory ==
  ASSUME IInv, NEW x \in Execs, NEW o \in Ops, NEW d \in Docs, ForgetTransaction(x, o, d)
  PROVE  HistoryStep
<1>1. /\ doc' = [doc EXCEPT ![d] = [active |-> 0, body |-> None,
                                    deleted |-> doc[d].active, expired |-> FALSE]]
      /\ UNCHANGED <<commit, mutations, plan>>
      /\ doc[d].active # 0
  BY Named1 DEF ForgetTransaction, Begins
<1>2. /\ doc'[d].active = 0 /\ doc'[d].deleted = doc[d].active /\ doc'[d].expired = FALSE
      /\ \A c \in Docs \ {d} : Stays(c)
  BY <1>1 DEF IInv, Functions, Stays
<1>3. UNION {TakenIn(d, b) : b \in commit[d][doc[d].active]} = Taken(d)
  <2>1. DocOK(d)
    BY DEF IInv
  <2>2. /\ doc[d].body \in commit[d][doc[d].active]
        /\ \A b \in commit[d][doc[d].active] : TakenIn(d, b) = Taken(d)
    BY <1>1, <2>1 DEF DocOK, Document, Last, Alike, Taken
  <2> QED BY <2>2
<1>4. /\ State(d) = [state |-> "live", updates |-> Taken(d)]
      /\ State(d)' = [state |-> "deleted", updates |-> Taken(d)]
  <2>1. State(d)' = [state |-> "deleted",
                     updates |-> UNION {TakenIn(d, b) : b \in commit[d][doc[d].active]}]
    BY <1>1, <1>2 DEF State, TakenIn
  <2> QED BY <1>1, <1>3, <2>1, ActiveState
<1>5. State(d)' = [State(d) EXCEPT !.state = "deleted"]
  BY <1>4
<1>6. /\ docs' = [docs EXCEPT ![d] = State(d)'] /\ docs[d] = State(d)
      /\ about' = about /\ applied' = applied
  BY <1>1, <1>2, BecomesStep
<1>7. docs[d].state = "live" /\ docs' = [docs EXCEPT ![d] = [docs[d] EXCEPT !.state = "deleted"]]
  BY <1>4, <1>5, <1>6
<1>8. History!Forget(d)
  BY <1>1, <1>6, <1>7 DEF History!Forget, History!Becomes, docs, about, applied
<1> QED BY <1>8 DEF HistoryStep, History!HistoryNext

LEMMA RestoresHistory ==
  ASSUME IInv, NEW x \in Execs, NEW o \in Ops, NEW d \in Docs, NEW b,
         RestoreTransaction(x, o, d, b)
  PROVE  HistoryStep
<1>1. PICK v \in Nat : v = request[o].expected
  BY DEF IInv, Types, Request
<1>2. /\ v # 0
      /\ doc[d].deleted = v /\ doc[d].expired = FALSE
      /\ doc[d] \in Document /\ doc[d].active = 0 /\ Last(d) \in Nat /\ v = Last(d)
      /\ b \in commit[d][v] /\ Alike(d, commit[d][v])
  <2>1. DocOK(d)
    BY DEF IInv
  <2>2. /\ request[o].kind = "restore"
        /\ doc[d].deleted = v /\ ~doc[d].expired /\ b \in commit[d][v]
    BY <1>1 DEF RestoreTransaction, InWindow, Begins
  <2>3. v # 0 /\ doc[d].active = 0 /\ doc[d] \in Document /\ Last(d) \in Nat
    BY <1>1, <2>1, <2>2, LastType, Named1 DEF DocOK
  <2>4. v = Last(d) /\ doc[d].expired = FALSE
    BY <2>2, <2>3 DEF Last, Document
  <2>5. Alike(d, commit[d][v])
    BY <2>1, <2>3, <2>4 DEF DocOK
  <2> QED BY <2>2, <2>3, <2>4, <2>5
<1>3. PICK n : n = Last(d) + 1
  OBVIOUS
<1>4. MaxVersion(d) + 1 = n /\ n # 0
  BY <1>2, <1>3, MaxIsLast DEF IInv
<1>5. /\ doc' = [doc EXCEPT ![d] = [active |-> n, body |-> b, deleted |-> 0, expired |-> FALSE]]
      /\ commit' = [commit EXCEPT ![d] = Recorded(d, n, {b})]
      /\ UNCHANGED <<mutations, plan>>
  BY <1>1, <1>4 DEF RestoreTransaction
<1>6. /\ doc'[d].active = n /\ doc'[d].body = b
      /\ \A c \in Docs \ {d} : Stays(c)
  BY <1>5 DEF IInv, Functions, Stays
<1>7. /\ State(d) = [state |-> "deleted", updates |-> TakenIn(d, b)]
      /\ State(d)' = [state |-> "live", updates |-> TakenIn(d, b)]
  <2>1. UNION {TakenIn(d, c) : c \in commit[d][v]} = TakenIn(d, b)
    BY <1>2 DEF Alike
  <2>2. State(d) = [state |-> "deleted", updates |-> UNION {TakenIn(d, c) : c \in commit[d][v]}]
    BY <1>2 DEF State
  <2>3. State(d)' = [state |-> "live", updates |-> TakenIn(d, b)]
    BY <1>4, <1>6 DEF State, TakenIn
  <2> QED BY <2>1, <2>2, <2>3
<1>8. State(d)' = [State(d) EXCEPT !.state = "live"]
  BY <1>7
<1>9. /\ docs' = [docs EXCEPT ![d] = State(d)'] /\ docs[d] = State(d)
      /\ about' = about /\ applied' = applied
  BY <1>5, <1>6, BecomesStep
<1>10. docs[d].state = "deleted" /\ docs' = [docs EXCEPT ![d] = [docs[d] EXCEPT !.state = "live"]]
  BY <1>7, <1>8, <1>9
<1>11. History!Restore(d)
  BY <1>5, <1>9, <1>10 DEF History!Restore, History!Becomes, docs, about, applied
<1> QED BY <1>11 DEF HistoryStep, History!HistoryNext

LEMMA LosesHistory ==
  ASSUME IInv, NEW d \in Docs, TombstoneExpires(d) PROVE HistoryStep
<1>1. /\ doc' = [doc EXCEPT ![d] = [doc[d] EXCEPT !.expired = TRUE]]
      /\ UNCHANGED <<commit, mutations, plan>>
      /\ doc[d].deleted # 0 /\ doc[d].expired = FALSE
      /\ doc[d] \in Document /\ doc[d].active = 0
  BY DEF TombstoneExpires, IInv, DocOK, Document
<1>2. /\ doc'[d] = [doc[d] EXCEPT !.expired = TRUE]
      /\ \A c \in Docs \ {d} : Stays(c)
  BY <1>1 DEF IInv, Functions, Stays
<1>3. doc'[d].active = 0 /\ doc'[d].deleted # 0 /\ doc'[d].expired = TRUE
  BY <1>1, <1>2 DEF Document
<1>4. State(d).state = "deleted" /\ State(d)' = [state |-> "gone", updates |-> {}]
  BY <1>1, <1>3 DEF State
<1>5. /\ docs' = [docs EXCEPT ![d] = State(d)'] /\ docs[d] = State(d)
      /\ about' = about /\ applied' = applied
  BY <1>1, <1>2, BecomesStep
<1>6. History!Lose(d)
  BY <1>1, <1>4, <1>5 DEF History!Lose, docs, about, applied
<1> QED BY <1>6 DEF HistoryStep, History!HistoryNext

(* Every other step is hidden from the history.                            *)
LEMMA QuietHistory ==
  ASSUME UNCHANGED <<doc, commit, mutations, plan>> PROVE HistoryStep
BY HiddenStep DEF State

LEMMA NextHistory == IInv /\ [Next]_vars => HistoryStep
<1> SUFFICES ASSUME IInv, [Next]_vars PROVE HistoryStep
  OBVIOUS
<1>1. CASE Sending
  BY <1>1, QuietHistory DEF Sending, SendSummary, SendForget, SendRestore, Sent, database
<1>2. CASE Executing
  <2>1. ASSUME NEW x \in Execs,
               \/ Render(x) \/ MarkCommitStarted(x) \/ CommitRefused(x)
               \/ RemoveCurrent(x) \/ MoveToQuarantine(x) \/ MaterializeRestored(x)
               \/ \E i \in Index : Materialize(x, i)
        PROVE  HistoryStep
    BY <2>1, QuietHistory DEF Render, MarkCommitStarted, CommitRefused, RemoveCurrent,
       MoveToQuarantine, MaterializeRestored, Materialize, database
  <2>2. ASSUME NEW x \in Execs, NEW o \in Ops, NEW d \in Docs, CommandRefused(x, o, d)
        PROVE  HistoryStep
    BY <2>2, QuietHistory DEF CommandRefused, database
  <2> QED BY <1>2, <2>1, <2>2, PlansHistory, ExecutesHistory, ForgetsHistory, RestoresHistory
          DEF Executing
<1>3. CASE Maintaining
  <2>1. CASE RebuildIndex
    BY <2>1, QuietHistory DEF RebuildIndex
  <2>2. ASSUME NEW d \in Docs, TombstoneExpires(d) PROVE HistoryStep
    BY <2>2, LosesHistory
  <2>3. ASSUME NEW d \in Docs,
               PurgeTombstone(d) \/ ReadReferences(d) \/ DeleteOrphans(d) \/ Verifying(d)
        PROVE  HistoryStep
    BY <2>3, QuietHistory DEF PurgeTombstone, ReadReferences, DeleteOrphans, Verifying,
       ReadForVerification, RepairCurrent, database
  <2> QED BY <1>3, <2>1, <2>2, <2>3 DEF Maintaining
<1>4. CASE UNCHANGED vars
  BY <1>4, QuietHistory DEF vars
<1> QED BY <1>1, <1>2, <1>3, <1>4 DEF Next

(* The commits implement the history of the documents: whatever overlaps,  *)
(* crashes or is executed again, an execution adds its update to all the   *)
(* documents it planned or to none, no commit drops what another has       *)
(* added, and nothing is lost before a tombstone ends.                     *)
THEOREM ImplementsHistory == Spec => FollowsHistory
<1>1. IInv /\ [Next]_vars => [History!HistoryNext]_(History!historyVars)
  BY NextHistory DEF HistoryStep
<1> QED BY <1>1, HistoryInitOK, Invariance, PTL DEF Spec, FollowsHistory, History!HistorySpec
=============================================================================
