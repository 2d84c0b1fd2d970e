------------------------- MODULE EvidenceBatch_proofs -------------------------
(***************************************************************************)
(* Proofs about EvidenceBatch for every number of members, batches, claims *)
(* and requests.                                                           *)
(***************************************************************************)
EXTENDS EvidenceBatch, TLAPS, FiniteSetTheorems, WellFoundedInduction

(* ---- numbers and order ------------------------------------------------ *)

(* The stamps a row has been given: one when it became due, one for every  *)
(* release that sent it back to the pool.                                  *)
Given(m) == {k \in 0..(MemberAttempts - 1) : ev[m].eligible > 0 /\ k <= ev[m].attempts}

Stamps == {s \in Members \X (0..(MemberAttempts - 1)) : s[2] \in Given(s[1])}

LEMMA Numbers ==
  /\ Members \subseteq Nat \ {0} /\ IsFiniteSet(Members)
  /\ Cardinality(Members) = NMembers /\ MaxClock \in Nat
<1>1. IsFiniteSet(Members) /\ Cardinality(Members) = NMembers
  BY FS_Interval, EvidenceAssumption DEF Members
<1>2. MaxClock \in Nat  BY EvidenceAssumption DEF MaxClock
<1>3. Members \subseteq Nat \ {0}  BY EvidenceAssumption DEF Members
<1> QED  BY <1>1, <1>2, <1>3

LEMMA StampsFinite ==
  /\ IsFiniteSet(Stamps) /\ Cardinality(Stamps) \in Nat
  /\ Cardinality(Stamps) <= MaxClock
<1> DEFINE S == 0..(MemberAttempts - 1)
<1>1. IsFiniteSet(S) /\ Cardinality(S) = MemberAttempts
  <2>1. MemberAttempts - 1 \in Int /\ 0 \in Int /\ ~(0 > MemberAttempts - 1)
    BY EvidenceAssumption
  <2> QED  BY <2>1, FS_Interval, EvidenceAssumption
<1>2. IsFiniteSet(Members \X S) /\ Cardinality(Members \X S) = NMembers * MemberAttempts
  <2>1. /\ IsFiniteSet(Members \X S)
        /\ Cardinality(Members \X S) = Cardinality(Members) * Cardinality(S)
    BY <1>1, Numbers, FS_Product, Zenon
  <2> QED  BY <1>1, <2>1, Numbers
<1>3. Stamps \in SUBSET (Members \X S)  BY DEF Stamps
<1>4. IsFiniteSet(Stamps) /\ Cardinality(Stamps) <= Cardinality(Members \X S)
  BY <1>2, <1>3, FS_Subset
<1> QED  BY <1>2, <1>4, FS_CardinalityType DEF MaxClock

(* A set of members has a first and a last one in the order of the pool.   *)
LEMMA PoolOrder ==
  ASSUME \A m \in Members : ev[m].eligible \in Nat
  PROVE  /\ \A m \in Members : ~Before(Position(m), Position(m))
         /\ \A m, n, k \in Members :
              Before(Position(m), Position(n)) /\ Before(Position(n), Position(k)) =>
                Before(Position(m), Position(k))
         /\ \A m, n \in Members :
              m = n \/ Before(Position(m), Position(n)) \/ Before(Position(n), Position(m))
<1> DEFINE e(m) == ev[m].eligible
<1>1. \A m \in Members : e(m) \in Nat /\ m \in Nat  BY Numbers
<1>2. \A m, n \in Members :
        Before(Position(m), Position(n)) <=> (e(m) < e(n) \/ (e(m) = e(n) /\ m < n))
  BY DEF Before, Position
<1> HIDE DEF e
<1> QED  BY <1>1, <1>2

LEMMA Extremes ==
  ASSUME \A m \in Members : ev[m].eligible \in Nat,
         NEW S \in SUBSET Members, S # {}
  PROVE  /\ \E m \in S : \A n \in S : ~Before(Position(n), Position(m))
         /\ \E m \in S : \A n \in S \ {m} : Before(Position(n), Position(m))
<1> DEFINE R == StrictSubsetOrdering(Members)
           low(m) == {n \in S : Before(Position(n), Position(m))}
           high(m) == {n \in S : Before(Position(m), Position(n))}
<1>1. IsWellFoundedOn(R, SUBSET Members)
  <2>1. FiniteSubsetsOf(Members) = SUBSET Members
    BY Numbers, FS_FiniteSubsetsOfFinite
  <2>2. IsWellFoundedOn(R, FiniteSubsetsOf(Members))
    BY FS_StrictSubsetOrderingWellFounded
  <2> QED  BY <2>1, <2>2
<1>2. ASSUME NEW T \in SUBSET SUBSET Members, T # {}
      PROVE  \E X \in T : \A Y \in T : ~(Y \subseteq X /\ Y # X)
  <2>1. PICK X \in T : \A Y \in T : ~(<<Y, X>> \in R)
    <3> HIDE DEF R
    <3> QED  BY <1>1, <1>2, WFMin
  <2>2. ASSUME NEW Y \in T, Y \subseteq X, Y # X  PROVE FALSE
    <3>1. <<Y, X>> \in R  BY <1>2, <2>2 DEF StrictSubsetOrdering
    <3> HIDE DEF R
    <3> QED  BY <2>1, <3>1
  <2> QED  BY <2>2
<1>3. \E m \in S : \A n \in S : ~Before(Position(n), Position(m))
  <2> DEFINE T == {low(m) : m \in S}
  <2>1. T \in SUBSET SUBSET Members /\ T # {}  OBVIOUS
  <2>2. PICK X \in T : \A Y \in T : ~(Y \subseteq X /\ Y # X)
    <3> HIDE DEF T
    <3> QED  BY <1>2, <2>1
  <2>3. PICK m \in S : X = low(m)  OBVIOUS
  <2>4. ASSUME NEW n \in S, Before(Position(n), Position(m))  PROVE  FALSE
    <3>1. low(n) \subseteq low(m)  BY <2>4, PoolOrder
    <3>2. n \in low(m) /\ n \notin low(n)  BY <2>4, PoolOrder
    <3>3. low(n) \in T  OBVIOUS
    <3> HIDE DEF T, low
    <3> QED  BY <2>2, <2>3, <3>1, <3>2, <3>3
  <2> QED  BY <2>4
<1>4. \E m \in S : \A n \in S \ {m} : Before(Position(n), Position(m))
  <2> DEFINE T == {high(m) : m \in S}
  <2>1. T \in SUBSET SUBSET Members /\ T # {}  OBVIOUS
  <2>2. PICK X \in T : \A Y \in T : ~(Y \subseteq X /\ Y # X)
    <3> HIDE DEF T
    <3> QED  BY <1>2, <2>1
  <2>3. PICK m \in S : X = high(m)  OBVIOUS
  <2>4. ASSUME NEW n \in S, Before(Position(m), Position(n))  PROVE  FALSE
    <3>1. high(n) \subseteq high(m)  BY <2>4, PoolOrder
    <3>2. n \in high(m) /\ n \notin high(n)  BY <2>4, PoolOrder
    <3>3. high(n) \in T  OBVIOUS
    <3> HIDE DEF T, high
    <3> QED  BY <2>2, <2>3, <3>1, <3>2, <3>3
  <2>5. \A n \in S \ {m} : Before(Position(n), Position(m))  BY <2>4, PoolOrder
  <2> QED  BY <2>5
<1> QED  BY <1>3, <1>4

(* ---- the invariant ---------------------------------------------------- *)

Row ==
  [status : {"absent", "pending_batch", "succeeded", "dead_letter", "cancelled"},
   eligible : Nat, attempts : Nat, batch : Batches \union {NoBatch},
   concluded : BOOLEAN]

Request ==
  [phase : {"idle", "decide", "done"},
   target : Members \union Batches \union {NoBatch}, now : BOOLEAN]

LiveStatus == {"queued", "running", "retry_wait"}

(* A row's attempts and stamp, when the clock is at "now".                 *)
RowOK(r, now) ==
  /\ r.attempts <= MemberAttempts
  /\ r.status = "pending_batch" => r.attempts < MemberAttempts
  /\ r.status = "absent" => r.attempts = 0 /\ r.batch = NoBatch
  /\ r.eligible <= now
  /\ r.eligible = 0 => r.attempts = 0 /\ r.batch = NoBatch

(* A member is in a batch that exists, and waits in one that is not over.  *)
RowInBatch(r) ==
  r.batch # NoBatch =>
    /\ bop[r.batch].status # "absent"
    /\ r.status = "pending_batch" => bop[r.batch].status \in LiveStatus

(* An execution starts with no failed member, has a member at hand when it *)
(* needs one, and a verdict when it ends.                                  *)
ExecOK(x) ==
  /\ x \in Exec
  /\ x.phase \in {"start", "load"} => x.failed = {}
  /\ x.phase \in {"member", "marked"} => x.cur \in Members
  /\ x.phase = "finish" => x.outcome # "none"

(* A request was made about something that exists.                         *)
RequestOK(q) ==
  q.phase = "decide" =>
    /\ q.target \in Members \union Batches
    /\ q.target \in Members => ev[q.target].status # "absent"
    /\ q.target \in Batches => bop[q.target].status # "absent"

Types ==
  /\ ev \in [Members -> Row]
  /\ bop \in [Batches -> BatchRow]
  /\ exec \in [Batches -> [Generations -> Exec]]
  /\ run \in Run
  /\ sched \in [phase : {"idle", "assign"}, chosen : SUBSET Members]
  /\ cancel \in [Clients -> Request]
  /\ clock \in Nat
  /\ committed \in [Members -> Nat]
  /\ faults \in [lease : 0..MaxFaults, release : 0..MaxReleaseFaults]

IInv ==
  /\ Types
  /\ \A m \in Members : RowOK(ev[m], clock) /\ RowInBatch(ev[m])
  /\ \A b \in Batches, g \in Generations : ExecOK(exec[b][g])
  /\ \A c \in Clients : RequestOK(cancel[c])
  /\ sched.phase = "assign" => sched.chosen # {}
  /\ clock = Cardinality(Stamps)

(* The invariant has the type invariant and the first safety property in it. *)
LEMMA IInvImplies == IInv => TypeOK /\ MembersWaitForLiveBatch
<1> SUFFICES ASSUME IInv  PROVE TypeOK /\ MembersWaitForLiveBatch
  OBVIOUS
<1>1. clock \in 0..MaxClock  BY StampsFinite, Numbers DEF IInv, Types
<1>2. ev \in [Members -> Evidence]
  <2>1. ASSUME NEW m \in Members  PROVE ev[m] \in Evidence
    <3>1. ev[m] \in Row /\ RowOK(ev[m], clock)  BY DEF IInv, Types
    <3>2. ev[m].eligible \in 0..MaxClock /\ ev[m].attempts \in 0..MemberAttempts
      BY <1>1, <3>1, Numbers, EvidenceAssumption DEF Row, RowOK
    <3> QED  BY <3>1, <3>2 DEF Row, Evidence
  <2> QED  BY <2>1 DEF IInv, Types
<1>3. TypeOK  BY <1>1, <1>2 DEF IInv, Types, TypeOK, Request
<1>4. MembersWaitForLiveBatch
  BY DEF IInv, RowInBatch, MembersWaitForLiveBatch, LiveStatus
<1> QED  BY <1>3, <1>4

LEMMA Constants ==
  /\ NoBatch \notin Batches /\ NoMember \notin Members
  /\ Members \intersect Batches = {} /\ 1 \in Generations
  /\ Generations \subseteq Nat \ {0} /\ 0 \in 0..MaxFaults /\ 0 \in 0..MaxReleaseFaults
  /\ MemberAttempts \in Nat \ {0}
BY EvidenceAssumption DEF Generations

LEMMA ExecConstants ==
  /\ ExecOK(NoExec) /\ ExecOK([NoExec EXCEPT !.phase = "over"])
  /\ ExecOK([NoExec EXCEPT !.phase = "start"])
  /\ \A o \in {"succeeded", "needs_review", "dead_letter", "retry", "cancelled"} :
       ExecOK([NoExec EXCEPT !.phase = "finish", !.outcome = o])
BY Constants DEF ExecOK, Exec, NoExec

LEMMA InitIInv == Init => IInv
<1> SUFFICES ASSUME Init  PROVE IInv
  OBVIOUS
<1>1. \A m \in Members : /\ ev[m].eligible = 0 /\ ev[m].status = "absent"
                         /\ ev[m].attempts = 0 /\ ev[m].batch = NoBatch
  BY DEF Init
<1>2. Types
  <2>1. exec \in [Batches -> [Generations -> Exec]]
    BY ExecConstants DEF Init, ExecOK
  <2>2. run \in Run
    <3>1. NoCursor \in (0..MaxClock) \X (0..NMembers)
      BY Numbers, EvidenceAssumption DEF NoCursor
    <3> QED  BY <3>1 DEF Init, Run, NoRun
  <2>3. bop \in [Batches -> BatchRow]  BY Constants, EvidenceAssumption DEF Init, BatchRow
  <2>4. ev \in [Members -> Row]  BY DEF Init, Row
  <2>5. cancel \in [Clients -> Request]  BY DEF Init, Request
  <2> QED  BY <2>1, <2>2, <2>3, <2>4, <2>5, Constants DEF Init, Types, Idle
<1>3. \A m \in Members : RowOK(ev[m], clock) /\ RowInBatch(ev[m])
  BY <1>1, Constants DEF Init, RowOK, RowInBatch
<1>4. \A b \in Batches, g \in Generations : ExecOK(exec[b][g])
  BY ExecConstants DEF Init
<1>5. clock = Cardinality(Stamps)
  <2>1. Stamps = {}  BY <1>1 DEF Stamps, Given
  <2> QED  BY <2>1, FS_EmptySet DEF Init
<1>6. \A c \in Clients : RequestOK(cancel[c])  BY DEF Init, RequestOK
<1>7. sched.phase = "idle"  BY DEF Init, Idle
<1> QED  BY <1>2, <1>3, <1>4, <1>5, <1>6, <1>7 DEF IInv

(* ---- what the steps have in common ------------------------------------ *)

(* One execution moves on.                                                 *)
LEMMA BecomeEffect ==
  ASSUME IInv, NEW b \in Batches, NEW g \in Generations, NEW x, ExecOK(x),
         Become(b, g, x)
  PROVE  /\ exec' \in [Batches -> [Generations -> Exec]]
         /\ exec'[b][g] = x
         /\ \A c \in Batches, h \in Generations :
              c # b \/ h # g => exec'[c][h] = exec[c][h]
         /\ \A c \in Batches, h \in Generations : ExecOK(exec'[c][h])
<1>1. exec \in [Batches -> [Generations -> Exec]] /\ x \in Exec
  BY DEF IInv, Types, ExecOK
<1>2. exec' \in [Batches -> [Generations -> Exec]]  BY <1>1 DEF Become
<1>3. exec'[b][g] = x  BY <1>1 DEF Become
<1>4. \A c \in Batches, h \in Generations :
        c # b \/ h # g => exec'[c][h] = exec[c][h]
  BY <1>1 DEF Become
<1>5. \A c \in Batches, h \in Generations : ExecOK(exec'[c][h])
  BY <1>3, <1>4 DEF IInv
<1> QED  BY <1>2, <1>3, <1>4, <1>5

LEMMA OverEffect ==
  ASSUME NEW b, NEW g, Over(b, g)
  PROVE  \E x : ExecOK(x) /\ Become(b, g, x) /\ x.phase = "over"
<1> DEFINE x == [NoExec EXCEPT !.phase = "over"]
<1>1. ExecOK(x)  BY ExecConstants
<1>2. x.phase = "over"  BY DEF NoExec
<1>3. Become(b, g, x)  BY DEF Over
<1> QED  BY <1>1, <1>2, <1>3

LEMMA FinishEffect ==
  ASSUME NEW b, NEW g,
         NEW o \in {"succeeded", "needs_review", "dead_letter", "retry", "cancelled"},
         Finish(b, g, o)
  PROVE  \E x : ExecOK(x) /\ Become(b, g, x) /\ x.phase = "finish" /\ x.outcome = o
<1> DEFINE x == [NoExec EXCEPT !.phase = "finish", !.outcome = o]
<1>1. ExecOK(x)  BY ExecConstants
<1>2. x.phase = "finish" /\ x.outcome = o  BY DEF NoExec
<1>3. Become(b, g, x)  BY DEF Finish
<1> QED  BY <1>1, <1>2, <1>3

(* Every step of an execution writes only its own state, or nothing.       *)
ExecsKept ==
  /\ exec' \in [Batches -> [Generations -> Exec]]
  /\ \A c \in Batches, h \in Generations : ExecOK(exec'[c][h])

LEMMA ExecsKeptSame == IInv /\ UNCHANGED exec => ExecsKept
BY DEF IInv, Types, ExecsKept

LEMMA ExecsKeptBecome ==
  ASSUME IInv, NEW b \in Batches, NEW g \in Generations, NEW x, ExecOK(x),
         Become(b, g, x)
  PROVE  ExecsKept
BY BecomeEffect DEF ExecsKept

LEMMA ExecsKeptOver ==
  ASSUME IInv, NEW b \in Batches, NEW g \in Generations, Over(b, g)
  PROVE  ExecsKept
<1> PICK x : ExecOK(x) /\ Become(b, g, x)  BY OverEffect
<1> QED  BY ExecsKeptBecome

LEMMA ExecsKeptFinish ==
  ASSUME IInv, NEW b \in Batches, NEW g \in Generations,
         NEW o \in {"succeeded", "needs_review", "dead_letter", "retry", "cancelled"},
         Finish(b, g, o)
  PROVE  ExecsKept
<1> PICK x : ExecOK(x) /\ Become(b, g, x)  BY FinishEffect
<1> QED  BY ExecsKeptBecome

(* The rows of evidence keep their part of the invariant.                  *)
RowsKept ==
  /\ ev' \in [Members -> Row] /\ clock' \in Nat
  /\ \A m \in Members : RowOK(ev'[m], clock') /\ RowInBatch(ev[m])'
  /\ clock' = Cardinality(Stamps')
  /\ \A m \in Members : ev[m].status # "absent" => ev'[m].status # "absent"

BatchesKept ==
  /\ bop' \in [Batches -> BatchRow]
  /\ \A b \in Batches : bop[b].status # "absent" => bop'[b].status # "absent"

RequestsKept ==
  cancel' \in [Clients -> Request] /\ \A c \in Clients : RequestOK(cancel[c])'

(* A step that gives no stamp: rows are settled, given back or concluded,  *)
(* batches change, and no row waits in a batch that is over.               *)
LEMMA QuietRows ==
  ASSUME IInv, ev' \in [Members -> Row], clock' = clock, BatchesKept,
         \A m \in Members :
           /\ ev'[m].eligible = ev[m].eligible /\ ev'[m].attempts = ev[m].attempts
           /\ ev'[m].batch \in {ev[m].batch, NoBatch}
           /\ \/ ev'[m].status = ev[m].status
              \/ /\ ev[m].status # "absent"
                 /\ ev'[m].status \in {"succeeded", "dead_letter", "cancelled"}
           /\ ev'[m].status = "pending_batch" /\ ev'[m].batch # NoBatch =>
                bop'[ev'[m].batch].status \in LiveStatus
  PROVE  RowsKept
<1>1. Stamps' = Stamps  BY DEF Stamps, Given
<1>2. \A m \in Members : RowOK(ev'[m], clock')  BY DEF IInv, RowOK
<1>3. ASSUME NEW m \in Members  PROVE RowInBatch(ev[m])'
  <2> SUFFICES ASSUME ev'[m].batch # NoBatch
               PROVE  bop'[ev'[m].batch].status # "absent"
    BY DEF RowInBatch
  <2>1. ev'[m].batch = ev[m].batch /\ ev[m].batch \in Batches
    BY DEF IInv, Types, Row
  <2> QED  BY <2>1 DEF IInv, RowInBatch, BatchesKept
<1>4. \A m \in Members : ev[m].status # "absent" => ev'[m].status # "absent"
  OBVIOUS
<1>5. clock' \in Nat /\ clock' = Cardinality(Stamps')  BY <1>1 DEF IInv, Types
<1> QED  BY <1>2, <1>3, <1>4, <1>5 DEF RowsKept

LEMMA SameRows ==
  ASSUME IInv, UNCHANGED <<ev, clock>>, BatchesKept,
         \A b \in Batches : bop[b].status \in LiveStatus => bop'[b].status \in LiveStatus
  PROVE  RowsKept
<1>1. \A m \in Members : ev[m].status = "pending_batch" /\ ev[m].batch # NoBatch =>
                           bop'[ev[m].batch].status \in LiveStatus
  BY DEF IInv, RowInBatch, Types, Row
<1>2. ev' \in [Members -> Row] /\ ev' = ev /\ clock' = clock  BY DEF IInv, Types
<1> QED  BY <1>1, <1>2, QuietRows

LEMMA SameBatches == IInv /\ UNCHANGED bop => BatchesKept
BY DEF IInv, Types, BatchesKept

LEMMA SameRequests == IInv /\ RowsKept /\ BatchesKept /\ UNCHANGED cancel => RequestsKept
<1> SUFFICES ASSUME IInv, RowsKept, BatchesKept, UNCHANGED cancel  PROVE RequestsKept
  OBVIOUS
<1>1. ASSUME NEW c \in Clients  PROVE RequestOK(cancel[c])'
  BY DEF IInv, RowsKept, BatchesKept, RequestOK
<1> QED  BY <1>1 DEF RequestsKept, IInv, Types

(* The parts that are left put together.                                   *)
LEMMA PartsKept ==
  ASSUME IInv, RowsKept, BatchesKept, ExecsKept, RequestsKept,
         run' \in Run,
         sched' \in [phase : {"idle", "assign"}, chosen : SUBSET Members],
         sched'.phase = "assign" => sched'.chosen # {},
         committed' \in [Members -> Nat],
         faults' \in [lease : 0..MaxFaults, release : 0..MaxReleaseFaults]
  PROVE  IInv'
<1>1. Types'
  BY DEF Types, RowsKept, BatchesKept, ExecsKept, RequestsKept
<1>2. \A m \in Members : RowOK(ev'[m], clock') /\ RowInBatch(ev[m])'  BY DEF RowsKept
<1>3. \A b \in Batches, g \in Generations : ExecOK(exec'[b][g])  BY DEF ExecsKept
<1>4. \A c \in Clients : RequestOK(cancel[c])'  BY DEF RequestsKept
<1>5. clock' = Cardinality(Stamps')  BY DEF RowsKept
<1> QED  BY <1>1, <1>2, <1>3, <1>4, <1>5 DEF IInv

(* Most steps leave most of the rest alone.                                *)
LEMMA RestKept ==
  ASSUME IInv, RowsKept, BatchesKept, ExecsKept, RequestsKept,
         UNCHANGED <<run, sched>>,
         committed' \in [Members -> Nat],
         faults' \in [lease : 0..MaxFaults, release : 0..MaxReleaseFaults]
  PROVE  IInv'
BY PartsKept DEF IInv, Types

(* ---- steps that give a stamp, and the scheduler ----------------------- *)

LEMMA StampGiven ==
  ASSUME IInv, NEW m \in Members, NEW r \in Row,
         ev' = [ev EXCEPT ![m] = r], clock' = clock + 1,
         r.eligible = clock + 1, r.attempts < MemberAttempts,
         \/ ev[m].eligible = 0 /\ r.attempts = ev[m].attempts
         \/ ev[m].eligible > 0 /\ r.attempts = ev[m].attempts + 1
  PROVE  clock' = Cardinality(Stamps')
<1> DEFINE k == r.attempts
           new == <<m, k>>
<1>1. ev \in [Members -> Row] /\ RowOK(ev[m], clock)  BY DEF IInv, Types
<1>2. /\ ev'[m] = r /\ \A n \in Members : n # m => ev'[n] = ev[n]
  BY <1>1
<1>3. k \in 0..(MemberAttempts - 1)  BY Constants DEF Row
<1>4. ev[m].eligible \in Nat /\ ev[m].attempts \in Nat /\ clock \in Nat
  BY <1>1 DEF Row, IInv, Types
<1>5. new \notin Stamps
  <2>1. k \notin Given(m)  BY <1>3, <1>4 DEF Given
  <2> QED  BY <2>1 DEF Stamps
<1>6. Stamps' = Stamps \union {new}
  <2>1. ASSUME NEW j \in 0..(MemberAttempts - 1)
        PROVE  (j \in Given(m))' <=> (j \in Given(m) \/ j = k)
    <3>1. (j \in Given(m))' <=> j <= k  BY <1>2, <1>4 DEF Given
    <3>2. CASE ev[m].eligible = 0
      <4>1. k = 0  BY <1>1, <3>2, <1>4 DEF RowOK
      <4>2. j \notin Given(m)  BY <3>2 DEF Given
      <4> QED  BY <3>1, <4>1, <4>2
    <3>3. CASE ev[m].eligible > 0
      <4>1. j \in Given(m) <=> j <= ev[m].attempts  BY <3>3 DEF Given
      <4> QED  BY <3>1, <3>3, <4>1, <1>4
    <3> QED  BY <3>2, <3>3, <1>4
  <2>2. \A n \in Members \ {m} : Given(n)' = Given(n)  BY <1>2 DEF Given
  <2>3. Given(m)' = Given(m) \union {k}
    <3>1. Given(m) \subseteq 0..(MemberAttempts - 1) /\ Given(m)' \subseteq 0..(MemberAttempts - 1)
      BY DEF Given
    <3> QED  BY <2>1, <3>1, <1>3
  <2>4. \A n \in Members, j \in 0..(MemberAttempts - 1) :
          <<n, j>> \in Stamps' <=> j \in Given(n)'
    BY DEF Stamps
  <2>5. \A n \in Members, j \in 0..(MemberAttempts - 1) :
          <<n, j>> \in Stamps <=> j \in Given(n)
    BY DEF Stamps
  <2>6. \A n \in Members, j \in 0..(MemberAttempts - 1) :
          <<n, j>> \in Stamps' <=> <<n, j>> \in Stamps \/ <<n, j>> = new
    <3> SUFFICES ASSUME NEW n \in Members, NEW j \in 0..(MemberAttempts - 1)
                 PROVE  j \in Given(n)' <=> j \in Given(n) \/ (n = m /\ j = k)
      BY <2>4, <2>5
    <3>1. CASE n = m  BY <2>3, <3>1
    <3>2. CASE n # m
      <4>1. Given(n)' = Given(n)  BY <2>2, <3>2
      <4> QED  BY <3>2, <4>1
    <3> QED  BY <3>1, <3>2
  <2>7. /\ Stamps \subseteq Members \X (0..(MemberAttempts - 1))
        /\ Stamps' \subseteq Members \X (0..(MemberAttempts - 1))
        /\ new \in Members \X (0..(MemberAttempts - 1))
    BY <1>3 DEF Stamps
  <2> QED  BY <2>6, <2>7
<1>7. Cardinality(Stamps \union {new}) = Cardinality(Stamps) + 1
  BY <1>5, StampsFinite, FS_AddElement
<1> QED  BY <1>6, <1>7 DEF IInv

LEMMA SubmitIInv == ASSUME IInv, NEW m \in Members, Submit(m)  PROVE IInv'
<1>1. ev \in [Members -> Row] /\ RowOK(ev[m], clock)  BY DEF IInv, Types
<1>2. /\ ev' \in [Members -> Row]
      /\ ev'[m] = [ev[m] EXCEPT !.status = "pending_batch"]
      /\ \A n \in Members : n # m => ev'[n] = ev[n]
  BY <1>1 DEF Submit, Row
<1>3. BatchesKept /\ ExecsKept  BY SameBatches, ExecsKeptSame DEF Submit
<1>4. /\ ev'[m].eligible = ev[m].eligible /\ ev'[m].attempts = ev[m].attempts
      /\ ev'[m].batch = NoBatch /\ ev[m].attempts = 0
  BY <1>1, <1>2 DEF Submit, RowOK, Row
<1>5. RowsKept
  <2>1. \A n \in Members : RowOK(ev'[n], clock')
    BY <1>1, <1>2, <1>4, Constants DEF IInv, Submit, RowOK, Row
  <2>2. \A n \in Members : RowInBatch(ev[n])'
    BY <1>2, <1>4 DEF IInv, Submit, RowInBatch
  <2>3. Stamps' = Stamps  BY <1>2, <1>4 DEF Stamps, Given
  <2>4. clock' \in Nat /\ clock' = Cardinality(Stamps')
    BY <2>3 DEF IInv, Types, Submit
  <2>5. \A n \in Members : ev[n].status # "absent" => ev'[n].status # "absent"
    BY <1>2 DEF Submit
  <2> QED  BY <1>2, <2>1, <2>2, <2>4, <2>5 DEF RowsKept
<1>6. RequestsKept  BY <1>3, <1>5, SameRequests DEF Submit
<1> QED  BY <1>3, <1>5, <1>6, RestKept DEF Submit, IInv, Types

LEMMA BecomeDueIInv == ASSUME IInv, NEW m \in Members, BecomeDue(m)  PROVE IInv'
<1> DEFINE r == [ev[m] EXCEPT !.eligible = clock + 1]
<1>1. ev \in [Members -> Row] /\ RowOK(ev[m], clock) /\ clock \in Nat
  BY DEF IInv, Types
<1>2. /\ ev' = [ev EXCEPT ![m] = r] /\ r \in Row
      /\ r.eligible = clock + 1 /\ r.attempts = ev[m].attempts /\ r.attempts = 0
      /\ r.status = "pending_batch" /\ r.batch = NoBatch /\ ev[m].batch = NoBatch
  BY <1>1 DEF BecomeDue, Row, RowOK
<1>3. BatchesKept /\ ExecsKept  BY SameBatches, ExecsKeptSame DEF BecomeDue
<1> HIDE DEF r
<1>4. ev' \in [Members -> Row] /\ ev'[m] = r /\ \A n \in Members : n # m => ev'[n] = ev[n]
  BY <1>1, <1>2
<1>5. RowsKept
  <2>1. \A n \in Members : RowOK(ev'[n], clock')
    BY <1>1, <1>2, <1>4, Constants DEF IInv, Types, BecomeDue, RowOK, Row
  <2>2. \A n \in Members : RowInBatch(ev[n])'
    BY <1>2, <1>4 DEF IInv, BecomeDue, RowInBatch
  <2>3. clock' = Cardinality(Stamps')
    <3>1. /\ clock' = clock + 1 /\ ev[m].eligible = 0
          /\ r.attempts < MemberAttempts /\ r.attempts = ev[m].attempts
      BY <1>2, Constants DEF BecomeDue
    <3> QED  BY <1>2, <3>1, StampGiven
  <2>4. clock' \in Nat  BY <1>1 DEF BecomeDue
  <2>5. \A n \in Members : ev[n].status # "absent" => ev'[n].status # "absent"
    BY <1>2, <1>4
  <2> QED  BY <1>4, <2>1, <2>2, <2>3, <2>4, <2>5 DEF RowsKept
<1>6. RequestsKept  BY <1>3, <1>5, SameRequests DEF BecomeDue
<1> QED  BY <1>3, <1>5, <1>6, RestKept DEF BecomeDue, IInv, Types

(* The day's run keeps its type.                                           *)
LEMMA RunTypes ==
  ASSUME IInv
  PROVE  /\ TodaysRun \in Run /\ NoRun \in Run
         /\ \A r \in Run : \A P \in SUBSET Members : Sweep(r, P) \in Run
         /\ \A r \in Run, s \in {"succeeded", "failed"} : [r EXCEPT !.status = s] \in Run
<1>1. NoCursor \in (0..MaxClock) \X (0..NMembers)
  BY Numbers, EvidenceAssumption DEF NoCursor
<1> QED  BY <1>1 DEF IInv, Types, TodaysRun, NoRun, Sweep, Run

LEMMA PoolMembers == Pool \subseteq Members /\ \A S : Pool \ S \subseteq Members
BY DEF Pool

LEMMA EligibleNat == IInv => \A m \in Members : ev[m].eligible \in Nat
BY DEF IInv, Types, Row

LEMMA TickWithoutBatchIInv == ASSUME IInv, TickWithoutBatch  PROVE IInv'
<1>1. run' \in Run  BY RunTypes, PoolMembers DEF TickWithoutBatch, IInv, Types
<1>2. BatchesKept /\ ExecsKept
  BY SameBatches, ExecsKeptSame DEF TickWithoutBatch
<1>3. RowsKept  BY <1>2, SameRows DEF TickWithoutBatch
<1>4. RequestsKept  BY <1>2, <1>3, SameRequests DEF TickWithoutBatch
<1> QED  BY <1>1, <1>2, <1>3, <1>4, PartsKept DEF TickWithoutBatch, IInv, Types

LEMMA SelectMembersIInv == ASSUME IInv, SelectMembers  PROVE IInv'
<1>1. BatchesKept /\ ExecsKept  BY SameBatches, ExecsKeptSame DEF SelectMembers
<1>2. RowsKept  BY <1>1, SameRows DEF SelectMembers
<1>3. RequestsKept  BY <1>1, <1>2, SameRequests DEF SelectMembers
<1>4. PendingMembers(TodaysRun.cursor) \subseteq Members
  BY DEF PendingMembers, Pool
<1> QED  BY <1>1, <1>2, <1>3, <1>4, PartsKept DEF SelectMembers, IInv, Types

LEMMA NextDayIInv == ASSUME IInv, NextDay  PROVE IInv'
<1>1. BatchesKept /\ ExecsKept  BY SameBatches, ExecsKeptSame DEF NextDay
<1>2. RowsKept  BY <1>1, SameRows DEF NextDay
<1>3. RequestsKept  BY <1>1, <1>2, SameRequests DEF NextDay
<1> QED  BY <1>1, <1>2, <1>3, RunTypes, PartsKept DEF NextDay, IInv, Types

LEMMA CreateBatchIInv == ASSUME IInv, NEW b \in Batches, CreateBatch(b)  PROVE IInv'
<1> DEFINE members == Assigned
           last == CHOOSE m \in sched.chosen :
                     \A n \in sched.chosen \ {m} : Before(Position(n), Position(m))
<1>1. /\ sched.phase = "assign" /\ sched.chosen # {} /\ sched.chosen \in SUBSET Members
      /\ ev \in [Members -> Row] /\ bop \in [Batches -> BatchRow] /\ clock \in Nat
      /\ bop[b].status = "absent"
  BY DEF CreateBatch, IInv, Types
<1>2. last \in sched.chosen
  BY <1>1, EligibleNat, Extremes
<1> HIDE DEF last
<1>3. Position(last) \in (0..MaxClock) \X (0..NMembers)
  <2>1. last \in Members /\ ev[last].eligible \in Nat /\ ev[last].eligible <= clock
    BY <1>1, <1>2 DEF IInv, RowOK, Row
  <2>2. clock <= MaxClock /\ MaxClock \in Nat  BY StampsFinite, Numbers DEF IInv
  <2>3. ev[last].eligible \in 0..MaxClock  BY <2>1, <2>2, <1>1
  <2>4. last \in 0..NMembers  BY <2>1, EvidenceAssumption DEF Members
  <2> QED  BY <2>3, <2>4 DEF Position
<1>4. ExecsKept /\ UNCHANGED <<exec, cancel, clock, committed, faults>> /\ sched' = Idle
  BY ExecsKeptSame DEF CreateBatch
<1>5. CASE members = {}
  <2>1. bop' = [bop EXCEPT ![b].status = "cancelled"] /\ UNCHANGED ev
        /\ run' = Sweep(TodaysRun, Pool \ Assigned)
    BY <1>5 DEF CreateBatch
  <2>2. BatchesKept  BY <2>1, <1>1 DEF BatchesKept, BatchRow, Terminal
  <2>3. RowsKept
    <3>1. \A c \in Batches : bop[c].status \in LiveStatus => bop'[c].status \in LiveStatus
      BY <1>1, <2>1 DEF LiveStatus
    <3> QED  BY <1>4, <2>1, <2>2, <3>1, SameRows
  <2>4. RequestsKept  BY <1>4, <2>2, <2>3, SameRequests
  <2>5. run' \in Run  BY <2>1, RunTypes, PoolMembers
  <2> QED  BY <1>4, <2>2, <2>3, <2>4, <2>5, PartsKept DEF Idle, IInv, Types
<1>6. CASE members # {}
  <2>1. /\ bop' = [bop EXCEPT ![b].status = "queued"]
        /\ run' = [TodaysRun EXCEPT !.status = "running", !.op = b,
                                    !.cursor = Position(last)]
        /\ ev' = [m \in Members |->
                    IF m \in members THEN [ev[m] EXCEPT !.batch = b] ELSE ev[m]]
    BY <1>6 DEF CreateBatch, last
  <2>2. BatchesKept  BY <2>1, <1>1 DEF BatchesKept, BatchRow
  <2>3. \A m \in members : /\ m \in Members /\ ev[m].status = "pending_batch"
                           /\ ev[m].eligible > 0 /\ ev[m].batch = NoBatch
    BY <1>1 DEF Assigned, Pool, InPool
  <2>4. /\ ev' \in [Members -> Row]
        /\ \A m \in Members :
             /\ ev'[m].eligible = ev[m].eligible /\ ev'[m].attempts = ev[m].attempts
             /\ ev'[m].status = ev[m].status
             /\ ev'[m].batch = IF m \in members THEN b ELSE ev[m].batch
    BY <2>1, <1>1 DEF Row
  <2>5. RowsKept
    <3>1. ASSUME NEW m \in Members  PROVE RowOK(ev'[m], clock')
      <4>1. m \in members => ev[m].status # "absent" /\ ev[m].eligible # 0
        BY <2>3, <1>1 DEF Row
      <4> QED  BY <2>4, <4>1, <1>4 DEF IInv, RowOK
    <3>2. ASSUME NEW m \in Members  PROVE RowInBatch(ev[m])'
      <4>1. CASE m \in members
        <5>1. ev'[m].batch = b /\ bop'[b].status = "queued"
          BY <4>1, <2>1, <2>4, <1>1 DEF BatchRow
        <5> QED  BY <5>1 DEF RowInBatch, LiveStatus
      <4>2. CASE m \notin members
        <5>1. ev'[m].batch = ev[m].batch /\ ev'[m].status = ev[m].status /\ ev[m] \in Row
          BY <4>2, <2>4, <1>1
        <5>2. RowInBatch(ev[m])  BY DEF IInv
        <5>3. ev[m].batch # NoBatch => ev[m].batch # b /\ bop'[ev[m].batch] = bop[ev[m].batch]
          BY <5>1, <5>2, <2>1, <1>1 DEF RowInBatch, Row
        <5> QED  BY <5>1, <5>2, <5>3 DEF RowInBatch
      <4> QED  BY <4>1, <4>2
    <3>3. Stamps' = Stamps  BY <2>4 DEF Stamps, Given
    <3>4. clock' \in Nat /\ clock' = Cardinality(Stamps')  BY <3>3, <1>4 DEF IInv, Types
    <3>5. \A m \in Members : ev[m].status # "absent" => ev'[m].status # "absent"
      BY <2>4
    <3> QED  BY <2>4, <3>1, <3>2, <3>4, <3>5 DEF RowsKept
  <2>6. RequestsKept  BY <1>4, <2>2, <2>5, SameRequests
  <2>7. run' \in Run
    <3>1. TodaysRun \in Run  BY RunTypes
    <3> QED  BY <2>1, <3>1, <1>3 DEF Run
  <2> QED  BY <1>4, <2>2, <2>5, <2>6, <2>7, PartsKept DEF Idle, IInv, Types
<1> QED  BY <1>5, <1>6

(* ---- executing a batch ------------------------------------------------ *)

Outcomes == {"succeeded", "no_change", "needs_review", "failed", "errors_only"}

LEMMA RecordedOK ==
  ASSUME NEW x \in Exec, x.cur \in Members, NEW o \in Outcomes
  PROVE  /\ ExecOK(Recorded(x, o)) /\ Recorded(x, o).phase = "loop"
         /\ ExecOK([Recorded(x, o) EXCEPT !.wrote = TRUE])
<1> DEFINE failed == IF o \in {"failed", "errors_only"} THEN x.failed \union {x.cur} ELSE x.failed
           reviews == x.reviews \/ o = "needs_review"
           lost == x.lost \/ o \in {"failed", "errors_only", "needs_review"}
           y == [x EXCEPT !.phase = "loop", !.cur = NoMember, !.failed = failed,
                          !.reviews = reviews, !.lost = lost]
<1>1. failed \in SUBSET Members  BY DEF Exec
<1>2. reviews \in BOOLEAN /\ lost \in BOOLEAN  OBVIOUS
<1>3. Recorded(x, o) = y  BY DEF Recorded
<1> HIDE DEF failed, reviews, lost
<1>4. y \in Exec /\ y.phase = "loop"  BY <1>1, <1>2 DEF Exec
<1> HIDE DEF y
<1>5. [y EXCEPT !.wrote = TRUE] \in Exec /\ [y EXCEPT !.wrote = TRUE].phase = "loop"
  BY <1>4 DEF Exec
<1> QED  BY <1>3, <1>4, <1>5 DEF ExecOK

LEMMA FaultTypes ==
  ASSUME IInv
  PROVE  /\ faults \in [lease : 0..MaxFaults, release : 0..MaxReleaseFaults]
         /\ LeaseFault => faults' \in [lease : 0..MaxFaults, release : 0..MaxReleaseFaults]
<1>1. faults \in [lease : 0..MaxFaults, release : 0..MaxReleaseFaults]
  BY DEF IInv, Types
<1> QED  BY <1>1, EvidenceAssumption DEF LeaseFault

(* A step of an execution that writes no row, but for a conclusion.        *)
LEMMA OnlyExec ==
  ASSUME IInv, ExecsKept, UNCHANGED <<bop, run, sched, cancel, clock>>,
         ev' \in [Members -> Row],
         \A m \in Members :
           /\ ev'[m].eligible = ev[m].eligible /\ ev'[m].attempts = ev[m].attempts
           /\ ev'[m].batch = ev[m].batch /\ ev'[m].status = ev[m].status,
         committed' \in [Members -> Nat],
         faults' \in [lease : 0..MaxFaults, release : 0..MaxReleaseFaults]
  PROVE  IInv'
<1>1. BatchesKept  BY SameBatches
<1>2. \A m \in Members : ev[m].status = "pending_batch" /\ ev[m].batch # NoBatch =>
                           bop'[ev[m].batch].status \in LiveStatus
  BY DEF IInv, RowInBatch
<1>3. RowsKept  BY <1>1, <1>2, QuietRows
<1>4. RequestsKept  BY <1>1, <1>3, SameRequests
<1> QED  BY <1>1, <1>3, <1>4, RestKept

LEMMA OnlyExecState ==
  ASSUME IInv, ExecsKept,
         UNCHANGED <<ev, bop, run, sched, cancel, clock, committed, faults>>
  PROVE  IInv'
<1>1. ev' \in [Members -> Row] /\ committed' \in [Members -> Nat] /\ ev' = ev
  BY DEF IInv, Types
<1> QED  BY <1>1, FaultTypes, OnlyExec

(* A step that moves a batch between the states it lives in.               *)
LEMMA OnlyBatch ==
  ASSUME IInv, ExecsKept, NEW b \in Batches, NEW r \in BatchRow,
         UNCHANGED <<ev, run, sched, cancel, clock, committed>>,
         bop' = [bop EXCEPT ![b] = r], r.status \in LiveStatus,
         faults' \in [lease : 0..MaxFaults, release : 0..MaxReleaseFaults]
  PROVE  IInv'
<1>1. bop' \in [Batches -> BatchRow] /\ bop'[b] = r
      /\ \A c \in Batches : c # b => bop'[c] = bop[c]
  BY DEF IInv, Types
<1>2. BatchesKept  BY <1>1 DEF BatchesKept, LiveStatus
<1>3. RowsKept  BY <1>1, <1>2, SameRows
<1>4. RequestsKept  BY <1>2, <1>3, SameRequests
<1>5. committed' \in [Members -> Nat]  BY DEF IInv, Types
<1> QED  BY <1>2, <1>3, <1>4, <1>5, RestKept

LEMMA BatchTypes ==
  ASSUME IInv, NEW b \in Batches
  PROVE  /\ bop[b] \in BatchRow /\ bop \in [Batches -> BatchRow]
         /\ \A s \in LiveStatus \union Terminal : [bop[b] EXCEPT !.status = s] \in BatchRow
         /\ bop[b].generation < MaxGeneration =>
              /\ bop[b].generation + 1 \in Generations
              /\ [bop[b] EXCEPT !.status = "running", !.generation = @ + 1] \in BatchRow
<1>1. bop[b] \in BatchRow /\ bop \in [Batches -> BatchRow]  BY DEF IInv, Types
<1>2. bop[b].generation \in 0..MaxGeneration  BY <1>1 DEF BatchRow
<1>3. ASSUME bop[b].generation < MaxGeneration
      PROVE  /\ bop[b].generation + 1 \in Generations
             /\ bop[b].generation + 1 \in 0..MaxGeneration
  BY <1>2, <1>3, EvidenceAssumption DEF Generations
<1>4. \A s \in LiveStatus \union Terminal : [bop[b] EXCEPT !.status = s] \in BatchRow
  BY <1>1 DEF BatchRow, LiveStatus, Terminal
<1>5. bop[b].generation < MaxGeneration =>
        [bop[b] EXCEPT !.status = "running", !.generation = @ + 1] \in BatchRow
  BY <1>1, <1>3 DEF BatchRow
<1> QED  BY <1>1, <1>3, <1>4, <1>5

LEMMA ClaimBatchIInv == ASSUME IInv, NEW b \in Batches, ClaimBatch(b)  PROVE IInv'
<1> DEFINE r == [bop[b] EXCEPT !.status = "running", !.generation = @ + 1]
<1>1. r \in BatchRow /\ bop[b].generation + 1 \in Generations
  BY BatchTypes DEF ClaimBatch
<1>2. bop' = [bop EXCEPT ![b] = r] /\ r.status \in LiveStatus
  BY BatchTypes DEF ClaimBatch, BatchRow, LiveStatus
<1>3. ExecsKept  BY <1>1, ExecConstants, ExecsKeptBecome DEF ClaimBatch
<1> HIDE DEF r
<1> QED  BY <1>1, <1>2, <1>3, FaultTypes, OnlyBatch DEF ClaimBatch

LEMMA ToRetryIInv ==
  ASSUME IInv, NEW b \in Batches, LoseLease(b) \/ RecoverLease(b)  PROVE IInv'
<1> DEFINE r == [bop[b] EXCEPT !.status = "retry_wait"]
<1>1. r \in BatchRow  BY BatchTypes DEF LiveStatus
<1>2. bop' = [bop EXCEPT ![b] = r] /\ r.status \in LiveStatus
  BY BatchTypes DEF LoseLease, RecoverLease, BatchRow, LiveStatus
<1>3. ExecsKept  BY ExecsKeptSame DEF LoseLease, RecoverLease
<1>4. faults' \in [lease : 0..MaxFaults, release : 0..MaxReleaseFaults]
  BY FaultTypes DEF LoseLease, RecoverLease
<1> HIDE DEF r
<1> QED  BY <1>1, <1>2, <1>3, <1>4, OnlyBatch DEF LoseLease, RecoverLease

LEMMA ExecutionDiesIInv ==
  ASSUME IInv, NEW b \in Batches, NEW g \in Generations, ExecutionDies(b, g)  PROVE IInv'
<1>1. ExecsKept  BY ExecsKeptOver DEF ExecutionDies
<1>2. ev' \in [Members -> Row] /\ committed' \in [Members -> Nat] /\ ev' = ev
  BY DEF ExecutionDies, IInv, Types
<1>3. faults' \in [lease : 0..MaxFaults, release : 0..MaxReleaseFaults]
  BY FaultTypes DEF ExecutionDies
<1> QED  BY <1>1, <1>2, <1>3, OnlyExec DEF ExecutionDies

LEMMA ExecType ==
  IInv => \A b \in Batches, g \in Generations : ExecOK(exec[b][g]) /\ exec[b][g] \in Exec
BY DEF IInv, ExecOK

LEMMA ToLoad ==
  ASSUME IInv, NEW b \in Batches, NEW g \in Generations, exec[b][g].phase = "start"
  PROVE  LET x == [exec[b][g] EXCEPT !.phase = "load"]
         IN ExecOK(x) /\ x.phase = "load"
<1> DEFINE y == exec[b][g]
           x == [y EXCEPT !.phase = "load"]
<1>1. y \in Exec /\ y.failed = {}  BY ExecType DEF ExecOK
<1>2. x \in Exec /\ x.phase = "load" /\ x.failed = {}  BY <1>1 DEF Exec
<1> HIDE DEF x
<1>3. ExecOK(x) /\ x.phase = "load"  BY <1>2 DEF ExecOK
<1> QED  BY <1>3 DEF x

LEMMA ToLoop ==
  ASSUME NEW y \in Exec, NEW S \in SUBSET Members
  PROVE  LET x == [y EXCEPT !.phase = "loop", !.todo = S]
         IN ExecOK(x) /\ x.phase = "loop" /\ x.todo = S
<1> DEFINE x == [y EXCEPT !.phase = "loop", !.todo = S]
<1>1. x \in Exec /\ x.phase = "loop" /\ x.todo = S  BY DEF Exec
<1> HIDE DEF x
<1>2. ExecOK(x) /\ x.phase = "loop" /\ x.todo = S  BY <1>1 DEF ExecOK
<1> QED  BY <1>2 DEF x

LEMMA StartBatchIInv ==
  ASSUME IInv, NEW b \in Batches, NEW g \in Generations, StartBatch(b, g)  PROVE IInv'
<1>1. ExecsKept
  <2>1. CASE Over(b, g)  BY <2>1, ExecsKeptOver
  <2>2. CASE Finish(b, g, "cancelled")  BY <2>2, ExecsKeptFinish
  <2>3. CASE Become(b, g, [exec[b][g] EXCEPT !.phase = "load"])
    <3>1. ExecOK([exec[b][g] EXCEPT !.phase = "load"])
      BY ToLoad DEF StartBatch
    <3> QED  BY <2>3, <3>1, ExecsKeptBecome
  <2> QED  BY <2>1, <2>2, <2>3 DEF StartBatch
<1> QED  BY <1>1, OnlyExecState DEF StartBatch

LEMMA LoadBatchMembersIInv ==
  ASSUME IInv, NEW b \in Batches, NEW g \in Generations, LoadBatchMembers(b, g)
  PROVE IInv'
<1> DEFINE S == {m \in Members : ev[m].batch = b /\ ev[m].status = "pending_batch"}
           x == [exec[b][g] EXCEPT !.phase = "loop", !.todo = S]
<1>1. ExecOK(x)  BY ExecType, ToLoop
<1>2. Become(b, g, x)  BY DEF LoadBatchMembers
<1> HIDE DEF x
<1>3. ExecsKept  BY <1>1, <1>2, ExecsKeptBecome
<1> QED  BY <1>3, OnlyExecState DEF LoadBatchMembers

(* A conclusion about a member is all that a row sees of an execution.     *)
LEMMA ConclusionOnly ==
  ASSUME IInv, NEW m \in Members,
         ev' = ev \/ ev' = [ev EXCEPT ![m].concluded = TRUE]
  PROVE  /\ ev' \in [Members -> Row]
         /\ \A n \in Members :
              /\ ev'[n].eligible = ev[n].eligible /\ ev'[n].attempts = ev[n].attempts
              /\ ev'[n].batch = ev[n].batch /\ ev'[n].status = ev[n].status
              /\ ev[n].concluded => ev'[n].concluded
         /\ ev' # ev => ev'[m].concluded
<1>1. ev \in [Members -> Row] /\ ev[m] \in Row  BY DEF IInv, Types
<1>2. CASE ev' = ev  BY <1>1, <1>2
<1>3. CASE ev' = [ev EXCEPT ![m].concluded = TRUE]
  <2> DEFINE r == [ev[m] EXCEPT !.concluded = TRUE]
  <2>1. /\ r \in Row /\ r.eligible = ev[m].eligible /\ r.attempts = ev[m].attempts
        /\ r.batch = ev[m].batch /\ r.status = ev[m].status /\ r.concluded
    BY <1>1 DEF Row
  <2>2. ev' = [ev EXCEPT ![m] = r]  BY <1>3
  <2> HIDE DEF r
  <2>3. ev'[m] = r /\ \A n \in Members : n # m => ev'[n] = ev[n]  BY <1>1, <2>2
  <2> QED  BY <1>1, <2>1, <2>2, <2>3
<1> QED  BY <1>2, <1>3

LEMMA BeginBatchMemberIInv ==
  ASSUME IInv, NEW b \in Batches, NEW g \in Generations, NEW m \in Members,
         BeginBatchMember(b, g, m)
  PROVE IInv'
<1> DEFINE x == exec[b][g]
<1>1. ExecsKept
  <2>1. x \in Exec /\ x.phase = "loop"  BY ExecType DEF BeginBatchMember
  <2>2. ExecOK([x EXCEPT !.todo = @ \ {m}])  BY <2>1 DEF ExecOK, Exec
  <2>3. ExecOK([x EXCEPT !.phase = "member", !.cur = m, !.todo = @ \ {m}])
    BY <2>1 DEF ExecOK, Exec
  <2> QED  BY <2>2, <2>3, ExecsKeptBecome DEF BeginBatchMember
<1>2. ev' = ev \/ ev' = [ev EXCEPT ![m].concluded = TRUE]  BY DEF BeginBatchMember
<1>3. committed' \in [Members -> Nat]  BY DEF BeginBatchMember, IInv, Types
<1>4. faults' \in [lease : 0..MaxFaults, release : 0..MaxReleaseFaults]
  BY FaultTypes DEF BeginBatchMember
<1> QED  BY <1>1, <1>2, <1>3, <1>4, ConclusionOnly, OnlyExec DEF BeginBatchMember

LEMMA MemberWritesNothingIInv ==
  ASSUME IInv, NEW b \in Batches, NEW g \in Generations, MemberWritesNothing(b, g)
  PROVE IInv'
<1> DEFINE x == exec[b][g]
<1>0. x \in Exec /\ x.cur \in Members  BY ExecType DEF ExecOK, MemberWritesNothing
<1>1. PICK o \in {"no_change", "needs_review", "failed", "errors_only"} :
        Become(b, g, Recorded(x, o)) /\ Concluded(x.cur, o)
  BY DEF MemberWritesNothing
<1>2. ExecsKept  BY <1>0, <1>1, RecordedOK, ExecsKeptBecome DEF Outcomes
<1>3. ev' = ev \/ ev' = [ev EXCEPT ![x.cur].concluded = TRUE]  BY <1>1 DEF Concluded
<1>4. committed' \in [Members -> Nat]  BY DEF MemberWritesNothing, IInv, Types
<1>5. faults' \in [lease : 0..MaxFaults, release : 0..MaxReleaseFaults]
  BY FaultTypes DEF MemberWritesNothing
<1> HIDE DEF x
<1> QED  BY <1>0, <1>2, <1>3, <1>4, <1>5, ConclusionOnly, OnlyExec DEF MemberWritesNothing

LEMMA MarkCommitIInv ==
  ASSUME IInv, NEW b \in Batches, NEW g \in Generations, MarkCommit(b, g)  PROVE IInv'
<1>1. ExecOK([exec[b][g] EXCEPT !.phase = "marked"])
  BY ExecType DEF ExecOK, Exec, MarkCommit
<1>2. ExecsKept  BY <1>1, ExecsKeptBecome, ExecsKeptOver DEF MarkCommit
<1> QED  BY <1>2, OnlyExecState DEF MarkCommit

LEMMA CommitMemberIInv ==
  ASSUME IInv, NEW b \in Batches, NEW g \in Generations, CommitMember(b, g)  PROVE IInv'
<1> DEFINE x == exec[b][g]
<1>0. x \in Exec /\ x.cur \in Members  BY ExecType DEF ExecOK, CommitMember
<1>1. ExecsKept
  <2>1. /\ ExecOK([Recorded(x, "succeeded") EXCEPT !.wrote = TRUE])
        /\ ExecOK(Recorded(x, "failed"))
    BY <1>0, RecordedOK DEF Outcomes
  <2> QED  BY <2>1, ExecsKeptBecome, ExecsKeptFinish DEF CommitMember
<1>2. ev' = ev \/ ev' = [ev EXCEPT ![x.cur].concluded = TRUE]
  BY DEF CommitMember, Concluded
<1>3. committed' \in [Members -> Nat]
  BY <1>0 DEF CommitMember, IInv, Types
<1>4. faults' \in [lease : 0..MaxFaults, release : 0..MaxReleaseFaults]
  BY FaultTypes DEF CommitMember
<1> HIDE DEF x
<1> QED  BY <1>0, <1>1, <1>2, <1>3, <1>4, ConclusionOnly, OnlyExec DEF CommitMember

LEMMA GraphFailsIInv ==
  ASSUME IInv, NEW b \in Batches, NEW g \in Generations, GraphFails(b, g)  PROVE IInv'
<1>1. ExecsKept  BY ExecsKeptFinish DEF GraphFails
<1> QED  BY <1>1, OnlyExecState DEF GraphFails

LEMMA FinalizeBatchIInv ==
  ASSUME IInv, NEW b \in Batches, NEW g \in Generations, FinalizeBatch(b, g)  PROVE IInv'
<1>1. ExecsKept  BY ExecsKeptFinish DEF FinalizeBatch
<1> QED  BY <1>1, OnlyExecState DEF FinalizeBatch

(* ---- releasing, settling, cancelling ---------------------------------- *)

(* What a release makes of a row: it is given up, or is back in the pool.  *)
LEMMA ReleasedRow ==
  ASSUME IInv, NEW m \in Members
  PROVE  LET r == Released(ev[m], clock + 1)
         IN /\ r \in Row /\ r.concluded = ev[m].concluded
            /\ \/ r = ev[m]
               \/ /\ ev[m].status = "pending_batch" /\ ev[m].batch # NoBatch
                  /\ r.attempts = ev[m].attempts + 1 /\ ev[m].eligible > 0
                  /\ \/ /\ r.status = "dead_letter" /\ r.attempts = MemberAttempts
                        /\ r.eligible = ev[m].eligible /\ r.batch = ev[m].batch
                     \/ /\ r.status = "pending_batch" /\ r.attempts < MemberAttempts
                        /\ r.eligible = clock + 1 /\ r.batch = NoBatch
<1> DEFINE r == Released(ev[m], clock + 1)
<1>1. ev[m] \in Row /\ RowOK(ev[m], clock) /\ clock \in Nat  BY DEF IInv, Types
<1>2. CASE ~(ev[m].status = "pending_batch" /\ ev[m].batch # NoBatch)
  BY <1>1, <1>2 DEF Released
<1>3. CASE ev[m].status = "pending_batch" /\ ev[m].batch # NoBatch
  <2>1. ev[m].attempts + 1 \in Nat /\ clock + 1 \in Nat /\ ev[m].attempts < MemberAttempts
        /\ ev[m].eligible > 0
    BY <1>1, <1>3, Constants DEF RowOK, Row
  <2>2. CASE ev[m].attempts + 1 >= MemberAttempts
    <3>1. r = [ev[m] EXCEPT !.attempts = @ + 1, !.status = "dead_letter"]
      BY <1>3, <2>2 DEF Released
    <3>2. ev[m].attempts + 1 = MemberAttempts  BY <2>1, <2>2, <1>1, Constants DEF Row
    <3> QED  BY <1>1, <1>3, <2>1, <3>1, <3>2 DEF Row
  <2>3. CASE ~(ev[m].attempts + 1 >= MemberAttempts)
    <3>1. r = [ev[m] EXCEPT !.attempts = @ + 1, !.batch = NoBatch, !.eligible = clock + 1]
      BY <1>3, <2>3 DEF Released
    <3>2. ev[m].attempts + 1 < MemberAttempts  BY <2>1, <2>3, Constants
    <3> QED  BY <1>1, <1>3, <2>1, <3>1, <3>2 DEF Row
  <2> QED  BY <2>2, <2>3
<1> QED  BY <1>2, <1>3

LEMMA ReleaseBatchMemberIInv ==
  ASSUME IInv, NEW b \in Batches, NEW g \in Generations, NEW m \in Members,
         ReleaseBatchMember(b, g, m)
  PROVE IInv'
<1> DEFINE x == exec[b][g]
           r == Released(ev[m], clock + 1)
<1>1. ExecsKept
  <2>1. ExecOK([x EXCEPT !.failed = @ \ {m}])
    BY ExecType DEF ExecOK, Exec, ReleaseBatchMember
  <2> QED  BY <2>1, ExecsKeptBecome DEF ReleaseBatchMember
<1>2. CASE UNCHANGED <<ev, clock>> /\ faults.release < MaxReleaseFaults
           /\ faults' = [faults EXCEPT !.release = @ + 1]
  <2>1. faults' \in [lease : 0..MaxFaults, release : 0..MaxReleaseFaults]
    BY <1>2, FaultTypes, EvidenceAssumption
  <2>2. ev' \in [Members -> Row] /\ committed' \in [Members -> Nat] /\ ev' = ev
    BY <1>2 DEF ReleaseBatchMember, IInv, Types
  <2> QED  BY <1>1, <1>2, <2>1, <2>2, OnlyExec DEF ReleaseBatchMember
<1>3. CASE /\ ev' = [ev EXCEPT ![m] = r]
           /\ clock' = IF r.eligible = ev[m].eligible THEN clock ELSE clock + 1
           /\ UNCHANGED faults
  <2>1. BatchesKept  BY SameBatches DEF ReleaseBatchMember
  <2>2. ev \in [Members -> Row] /\ RowOK(ev[m], clock) /\ clock \in Nat /\ ev[m] \in Row
    BY DEF IInv, Types
  <2>3. RowsKept
    <3>1. CASE r = ev[m]
      <4>1. UNCHANGED <<ev, clock>>  BY <1>3, <2>2, <3>1
      <4> QED  BY <4>1, <2>1, SameRows DEF ReleaseBatchMember
    <3>2. CASE r # ev[m] /\ r.status = "dead_letter"
      <4>1. /\ r \in Row /\ r.eligible = ev[m].eligible /\ r.attempts = ev[m].attempts + 1
            /\ r.attempts = MemberAttempts /\ r.batch = ev[m].batch /\ ev[m].eligible > 0
            /\ ev[m].status = "pending_batch"
        BY <3>2, ReleasedRow
      <4>2. clock' = clock /\ ev' \in [Members -> Row] /\ ev'[m] = r
            /\ \A n \in Members : n # m => ev'[n] = ev[n]
        BY <1>3, <2>2, <4>1
      <4> HIDE DEF r
      <4>3. Stamps' = Stamps
        <5>1. Given(m)' = Given(m)
          <6>1. \A k \in 0..(MemberAttempts - 1) :
                  k <= r.attempts /\ k <= ev[m].attempts
            BY <4>1, <2>2, Constants DEF Row
          <6> QED  BY <4>1, <4>2, <6>1 DEF Given
        <5>2. \A n \in Members : n # m => Given(n)' = Given(n)  BY <4>2 DEF Given
        <5>3. \A n \in Members : Given(n)' = Given(n)  BY <5>1, <5>2
        <5> QED  BY <5>3 DEF Stamps
      <4>4. \A n \in Members : RowOK(ev'[n], clock')
        BY <2>2, <3>2, <4>1, <4>2 DEF IInv, RowOK, Row
      <4>5. \A n \in Members : RowInBatch(ev[n])'
        BY <2>2, <3>2, <4>1, <4>2 DEF IInv, RowInBatch, ReleaseBatchMember
      <4>6. \A n \in Members : ev[n].status # "absent" => ev'[n].status # "absent"
        BY <3>2, <4>2
      <4>7. clock' \in Nat /\ clock' = Cardinality(Stamps')
        BY <2>2, <4>2, <4>3 DEF IInv
      <4> QED  BY <4>2, <4>4, <4>5, <4>6, <4>7 DEF RowsKept
    <3>3. CASE r # ev[m] /\ r.status # "dead_letter"
      <4>1. /\ r \in Row /\ r.eligible = clock + 1 /\ r.attempts = ev[m].attempts + 1
            /\ r.attempts < MemberAttempts /\ r.batch = NoBatch /\ ev[m].eligible > 0
            /\ r.status = "pending_batch" /\ ev[m].status = "pending_batch"
        BY <3>3, ReleasedRow
      <4>2. clock' = clock + 1 /\ ev' \in [Members -> Row] /\ ev'[m] = r
            /\ \A n \in Members : n # m => ev'[n] = ev[n]
        BY <1>3, <2>2, <4>1 DEF RowOK, Row
      <4>3. ev' = [ev EXCEPT ![m] = r]  BY <1>3
      <4> HIDE DEF r
      <4>4. \A n \in Members : RowOK(ev'[n], clock')
        <5>1. RowOK(r, clock + 1)  BY <2>2, <4>1, Constants DEF RowOK, Row
        <5>2. ASSUME NEW n \in Members  PROVE RowOK(ev[n], clock + 1)
          <6>1. ev[n].eligible \in Nat /\ RowOK(ev[n], clock)  BY EligibleNat DEF IInv
          <6> QED  BY <6>1, <2>2 DEF RowOK
        <5> QED  BY <4>2, <5>1, <5>2
      <4>5. \A n \in Members : RowInBatch(ev[n])'
        BY <4>1, <4>2 DEF IInv, RowInBatch, ReleaseBatchMember
      <4>6. \A n \in Members : ev[n].status # "absent" => ev'[n].status # "absent"
        BY <4>1, <4>2
      <4>7. clock' \in Nat /\ clock' = Cardinality(Stamps')
        <5>1. clock' = clock + 1 /\ clock' \in Nat  BY <2>2, <4>2
        <5> QED  BY <4>1, <4>3, <5>1, StampGiven
      <4> QED  BY <4>2, <4>4, <4>5, <4>6, <4>7 DEF RowsKept
    <3> QED  BY <3>1, <3>2, <3>3
  <2>4. RequestsKept  BY <2>1, <2>3, SameRequests DEF ReleaseBatchMember
  <2> QED  BY <1>1, <1>3, <2>1, <2>3, <2>4, RestKept DEF ReleaseBatchMember, IInv, Types
<1> QED  BY <1>2, <1>3 DEF ReleaseBatchMember

(* What the end of a batch makes of a row.                                 *)
LEMMA SettledRow ==
  ASSUME IInv, NEW m \in Members, NEW b \in Batches, NEW s \in Terminal
  PROVE  LET r == Settled(ev[m], b, s)
         IN /\ r \in Row /\ r.eligible = ev[m].eligible /\ r.attempts = ev[m].attempts
            /\ r.concluded = ev[m].concluded
            /\ ~(ev[m].batch = b /\ ev[m].status = "pending_batch") => r = ev[m]
            /\ ev[m].batch = b /\ ev[m].status = "pending_batch" =>
                 \/ s = "cancelled" /\ r.batch = NoBatch /\ r.status = ev[m].status
                 \/ s = "succeeded" /\ r.batch = b /\ r.status = "succeeded"
                 \/ /\ s \in {"dead_letter", "needs_review"}
                    /\ r.batch = b /\ r.status = "dead_letter"
<1>1. ev[m] \in Row  BY DEF IInv, Types
<1>2. CASE ~(ev[m].batch = b /\ ev[m].status = "pending_batch")
  BY <1>1, <1>2 DEF Settled
<1>3. CASE ev[m].batch = b /\ ev[m].status = "pending_batch"
  <2>1. CASE s = "cancelled"  BY <1>1, <1>3, <2>1 DEF Settled, Row
  <2>2. CASE s = "succeeded"  BY <1>1, <1>3, <2>2 DEF Settled, Row
  <2>3. CASE s \in {"dead_letter", "needs_review"}  BY <1>1, <1>3, <2>3 DEF Settled, Row
  <2> QED  BY <2>1, <2>2, <2>3 DEF Terminal
<1> QED  BY <1>2, <1>3

(* A batch ends and settles its members.                                   *)
LEMMA EndOfBatch ==
  ASSUME IInv, NEW b \in Batches, NEW s \in Terminal,
         bop' = [bop EXCEPT ![b].status = s], SettleMembers(b, s),
         UNCHANGED clock
  PROVE  RowsKept /\ BatchesKept
<1>1. bop \in [Batches -> BatchRow] /\ [bop[b] EXCEPT !.status = s] \in BatchRow
      /\ bop[b] \in BatchRow
  BY BatchTypes
<1>2. BatchesKept
  BY <1>1 DEF BatchesKept, Terminal, BatchRow
<1>3. \A m \in Members : ev'[m] = Settled(ev[m], b, s)  BY DEF SettleMembers
<1>4. ev' \in [Members -> Row]  BY SettledRow DEF SettleMembers
<1>5. ASSUME NEW m \in Members
      PROVE  /\ ev'[m].eligible = ev[m].eligible /\ ev'[m].attempts = ev[m].attempts
             /\ ev'[m].batch \in {ev[m].batch, NoBatch}
             /\ \/ ev'[m].status = ev[m].status
                \/ /\ ev[m].status # "absent"
                   /\ ev'[m].status \in {"succeeded", "dead_letter", "cancelled"}
             /\ ev'[m].status = "pending_batch" /\ ev'[m].batch # NoBatch =>
                  bop'[ev'[m].batch].status \in LiveStatus
  <2> DEFINE r == Settled(ev[m], b, s)
  <2>1. ev'[m] = r  BY <1>3
  <2>2. CASE ev[m].batch = b /\ ev[m].status = "pending_batch"
    <3>1. /\ r.eligible = ev[m].eligible /\ r.attempts = ev[m].attempts
          /\ \/ r.batch = NoBatch /\ r.status = ev[m].status
             \/ r.batch = b /\ r.status \in {"succeeded", "dead_letter"}
      BY <2>2, SettledRow
    <3> HIDE DEF r
    <3> QED  BY <2>1, <2>2, <3>1
  <2>3. CASE ~(ev[m].batch = b /\ ev[m].status = "pending_batch")
    <3>1. ev'[m] = ev[m]  BY <2>1, <2>3, SettledRow
    <3>2. ASSUME ev[m].status = "pending_batch", ev[m].batch # NoBatch
          PROVE  bop'[ev[m].batch].status \in LiveStatus
      <4>1. ev[m].batch \in Batches /\ ev[m].batch # b
        BY <2>3, <3>2 DEF IInv, Types, Row
      <4>2. bop'[ev[m].batch] = bop[ev[m].batch]  BY <1>1, <4>1
      <4> QED  BY <3>2, <4>2 DEF IInv, RowInBatch
    <3> QED  BY <3>1, <3>2
  <2> QED  BY <2>2, <2>3
<1>6. RowsKept  BY <1>2, <1>4, <1>5, QuietRows
<1> QED  BY <1>2, <1>6

LEMMA WriteResultIInv ==
  ASSUME IInv, NEW b \in Batches, NEW g \in Generations, WriteResult(b, g)  PROVE IInv'
<1> DEFINE st == IF exec[b][g].outcome = "retry" /\ g >= BatchAttempts
                 THEN "dead_letter" ELSE exec[b][g].outcome
<1>1. ExecsKept  BY ExecsKeptOver DEF WriteResult
<1>2. UNCHANGED <<run, sched, cancel, clock, committed, faults>>  BY DEF WriteResult
<1>3. CASE UNCHANGED <<ev, bop>>  BY <1>1, <1>2, <1>3, OnlyExecState
<1>4. CASE st = "retry" /\ bop' = [bop EXCEPT ![b].status = "retry_wait"] /\ UNCHANGED ev
  <2> DEFINE r == [bop[b] EXCEPT !.status = "retry_wait"]
  <2>1. r \in BatchRow  BY BatchTypes DEF LiveStatus
  <2>2. bop' = [bop EXCEPT ![b] = r] /\ r.status \in LiveStatus
    BY <1>4, BatchTypes DEF BatchRow, LiveStatus
  <2> HIDE DEF r
  <2> QED  BY <1>1, <1>2, <1>4, <2>1, <2>2, FaultTypes, OnlyBatch
<1>5. CASE st # "retry" /\ bop' = [bop EXCEPT ![b].status = st] /\ SettleMembers(b, st)
  <2>1. st \in Terminal
    <3>1. exec[b][g].outcome # "none" /\ exec[b][g] \in Exec
      BY ExecType DEF ExecOK, WriteResult
    <3>2. exec[b][g].outcome \in Terminal \union {"retry"}
      BY <3>1 DEF Exec, Terminal
    <3> QED  BY <1>5, <3>2 DEF Terminal
  <2> HIDE DEF st
  <2>2. RowsKept /\ BatchesKept  BY <1>2, <1>5, <2>1, EndOfBatch
  <2>3. RequestsKept  BY <1>2, <2>2, SameRequests
  <2>4. committed' \in [Members -> Nat]  BY <1>2 DEF IInv, Types
  <2> QED  BY <1>1, <1>2, <2>2, <2>3, <2>4, FaultTypes, RestKept
<1> QED  BY <1>3, <1>4, <1>5 DEF WriteResult

LEMMA CancelReadIInv ==
  ASSUME IInv, NEW c \in Clients, NEW t \in Members \union Batches, CancelRead(c, t)
  PROVE  IInv'
<1> DEFINE status == IF t \in Members THEN ev[t].status ELSE bop[t].status
           q == [phase |-> "decide", target |-> t, now |-> status # "running"]
<1>1. ExecsKept /\ BatchesKept  BY ExecsKeptSame, SameBatches DEF CancelRead
<1>2. RowsKept  BY <1>1, SameRows DEF CancelRead
<1>3. RequestsKept
  <2>1. q \in Request  BY DEF Request
  <2>2. cancel' = [cancel EXCEPT ![c] = q] /\ status # "absent"  BY DEF CancelRead
  <2>3. cancel \in [Clients -> Request]  BY DEF IInv, Types
  <2>4. UNCHANGED <<ev, bop>>  BY DEF CancelRead
  <2>5. RequestOK(q) /\ \A d \in Clients : RequestOK(cancel[d])
    BY <2>2, Constants DEF RequestOK, IInv
  <2> HIDE DEF q
  <2>6. \A d \in Clients : cancel'[d] = q \/ cancel'[d] = cancel[d]  BY <2>2, <2>3
  <2>7. \A d \in Clients : RequestOK(cancel[d])'
    BY <2>4, <2>5, <2>6 DEF RequestOK
  <2> QED  BY <2>1, <2>2, <2>3, <2>7 DEF RequestsKept
<1>4. committed' \in [Members -> Nat] /\ UNCHANGED <<run, sched, faults>>
  BY DEF CancelRead, IInv, Types
<1> QED  BY <1>1, <1>2, <1>3, <1>4, FaultTypes, RestKept

LEMMA CancelWriteIInv ==
  ASSUME IInv, NEW c \in Clients, CancelWrite(c)  PROVE IInv'
<1> DEFINE t == cancel[c].target
           q == [phase |-> "done", target |-> NoBatch, now |-> FALSE]
<1>1. ExecsKept /\ UNCHANGED <<exec, run, sched, clock, committed, faults>>
  BY ExecsKeptSame DEF CancelWrite
<1>2. /\ t \in Members \union Batches
      /\ t \in Members => ev[t].status # "absent"
      /\ t \in Batches => bop[t].status # "absent"
  BY DEF CancelWrite, IInv, RequestOK
<1>3. ev \in [Members -> Row] /\ bop \in [Batches -> BatchRow]  BY DEF IInv, Types
<1>4. RowsKept /\ BatchesKept
  <2>1. CASE t \in Members
    <3>1. ev' = [ev EXCEPT ![t].status = "cancelled"] /\ UNCHANGED bop
      BY <2>1 DEF CancelWrite
    <3>2. BatchesKept  BY <3>1, SameBatches
    <3>3. /\ ev' \in [Members -> Row]
          /\ \A m \in Members :
               /\ ev'[m].eligible = ev[m].eligible /\ ev'[m].attempts = ev[m].attempts
               /\ ev'[m].batch = ev[m].batch
               /\ m # t => ev'[m].status = ev[m].status
               /\ m = t => ev'[m].status = "cancelled"
      BY <1>3, <2>1, <3>1 DEF Row
    <3>4. \A m \in Members : ev'[m].status = "pending_batch" /\ ev'[m].batch # NoBatch =>
                                bop'[ev'[m].batch].status \in LiveStatus
      BY <3>1, <3>3 DEF IInv, RowInBatch
    <3> HIDE DEF t
    <3>5. RowsKept  BY <1>1, <1>2, <2>1, <3>2, <3>3, <3>4, QuietRows
    <3> QED  BY <3>2, <3>5
  <2>2. CASE t \notin Members /\ cancel[c].now
    <3>1. bop' = [bop EXCEPT ![t].status = "cancelled"] /\ SettleMembers(t, "cancelled")
      BY <2>2 DEF CancelWrite
    <3>2. "cancelled" \in Terminal /\ t \in Batches  BY <1>2, <2>2 DEF Terminal
    <3> HIDE DEF t
    <3> QED  BY <1>1, <3>1, <3>2, EndOfBatch
  <2>3. CASE t \notin Members /\ ~cancel[c].now
    <3>1. bop' = [bop EXCEPT ![t].cancelRequested = TRUE] /\ UNCHANGED ev /\ t \in Batches
      BY <1>2, <2>3 DEF CancelWrite
    <3>2. /\ bop' \in [Batches -> BatchRow]
          /\ \A b \in Batches : bop'[b].status = bop[b].status
      BY <1>3, <3>1 DEF BatchRow
    <3>3. BatchesKept  BY <3>2 DEF BatchesKept
    <3>4. RowsKept  BY <1>1, <3>1, <3>2, <3>3, SameRows
    <3> QED  BY <3>3, <3>4
  <2> QED  BY <2>1, <2>2, <2>3
<1>5. RequestsKept
  <2>1. q \in Request /\ cancel \in [Clients -> Request]  BY DEF Request, IInv, Types
  <2>2. cancel' = [cancel EXCEPT ![c] = q]  BY DEF CancelWrite
  <2>3. \A d \in Clients : d # c => cancel'[d] = cancel[d]  BY <2>1, <2>2
  <2>4. cancel'[c].phase = "done"  BY <2>1, <2>2
  <2>5. ASSUME NEW d \in Clients  PROVE RequestOK(cancel[d])'
    BY <1>4, <2>3, <2>4 DEF IInv, RowsKept, BatchesKept, RequestOK
  <2> QED  BY <2>1, <2>2, <2>5 DEF RequestsKept
<1>6. committed' \in [Members -> Nat]  BY <1>1 DEF IInv, Types
<1> QED  BY <1>1, <1>4, <1>5, <1>6, FaultTypes, RestKept

LEMMA StepIInv == IInv /\ [Next]_vars => IInv'
<1> SUFFICES ASSUME IInv, [Next]_vars  PROVE IInv'
  OBVIOUS
<1>1. CASE UNCHANGED vars
  <2>1. ExecsKept  BY <1>1, ExecsKeptSame DEF vars
  <2> QED  BY <1>1, <2>1, OnlyExecState DEF vars
<1>2. CASE \E m \in Members : Submit(m) \/ BecomeDue(m)
  BY <1>2, SubmitIInv, BecomeDueIInv
<1>3. CASE Tick \/ NextDay
  BY <1>3, TickWithoutBatchIInv, SelectMembersIInv, CreateBatchIInv, NextDayIInv DEF Tick
<1>4. CASE \E b \in Batches : ClaimBatch(b) \/ LoseLease(b) \/ RecoverLease(b)
  BY <1>4, ClaimBatchIInv, ToRetryIInv
<1>5. CASE \E b \in Batches, g \in Generations : ExecStep(b, g) \/ ExecutionDies(b, g)
  BY <1>5, StartBatchIInv, LoadBatchMembersIInv, BeginBatchMemberIInv,
     MemberWritesNothingIInv, GraphFailsIInv, MarkCommitIInv, CommitMemberIInv,
     ReleaseBatchMemberIInv, FinalizeBatchIInv, WriteResultIInv, ExecutionDiesIInv
  DEF ExecStep
<1>6. CASE \E c \in Clients, t \in Members \union Batches : CancelRead(c, t)
  BY <1>6, CancelReadIInv
<1>7. CASE \E c \in Clients : CancelWrite(c)
  BY <1>7, CancelWriteIInv
<1> QED  BY <1>1, <1>2, <1>3, <1>4, <1>5, <1>6, <1>7 DEF Next

LEMMA Invariance == Spec => []IInv
BY InitIInv, StepIInv, PTL DEF Spec

(* The types, with the bounds on attempts and stamps: a row is released    *)
(* fewer times than it has attempts, and the clock gives one stamp per     *)
(* release and one when the row becomes due.                               *)
THEOREM TypeCorrect == Spec => []TypeOK
BY Invariance, IInvImplies, PTL

(* Evidence that waits in a batch waits for one that will settle it, for   *)
(* any number of batches, lost leases, releases and cancels.               *)
THEOREM WaitsForLiveBatch == Spec => []MembersWaitForLiveBatch
BY Invariance, IInvImplies, PTL

(* ---- the lifecycle of evidence ---------------------------------------- *)

Statuses == [m \in Members |-> ev[m].status]
Homes == [m \in Members |-> ev[m].batch]

LEMMA WaitingIs ==
  \A b : Lifecycle!Waiting(b) = {m \in Members : ev[m].status = "pending_batch" /\ ev[m].batch = b}
BY DEF Lifecycle!Waiting

(* One member's status or batch is written.                                *)
LEMMA OneWritten ==
  ASSUME NEW m \in Members, \A n \in Members : n # m => ev'[n] = ev[n]
  PROVE  /\ Statuses' = [Statuses EXCEPT ![m] = ev'[m].status]
         /\ Homes' = [Homes EXCEPT ![m] = ev'[m].batch]
<1>1. ASSUME NEW n \in Members
      PROVE  /\ ev'[n].status = IF n = m THEN ev'[m].status ELSE ev[n].status
             /\ ev'[n].batch = IF n = m THEN ev'[m].batch ELSE ev[n].batch
  OBVIOUS
<1>2. Statuses' = [n \in Members |-> IF n = m THEN ev'[m].status ELSE ev[n].status]
  BY <1>1 DEF Statuses
<1>3. Homes' = [n \in Members |-> IF n = m THEN ev'[m].batch ELSE ev[n].batch]
  BY <1>1 DEF Homes
<1>4. /\ \A v : [Statuses EXCEPT ![m] = v] = [n \in Members |-> IF n = m THEN v ELSE ev[n].status]
      /\ \A v : [Homes EXCEPT ![m] = v] = [n \in Members |-> IF n = m THEN v ELSE ev[n].batch]
  BY DEF Statuses, Homes
<1> QED  BY <1>2, <1>3, <1>4

(* A step that changes neither status nor batch is none of the lifecycle.  *)
LEMMA LifecycleStutters ==
  ASSUME \A m \in Members : ev'[m].status = ev[m].status /\ ev'[m].batch = ev[m].batch
  PROVE  UNCHANGED <<Statuses, Homes>>
BY DEF Statuses, Homes

LEMMA LifecycleRelease ==
  ASSUME IInv, NEW m \in Members, ev' = [ev EXCEPT ![m] = Released(ev[m], clock + 1)]
  PROVE  Lifecycle!Release(m) \/ UNCHANGED <<Statuses, Homes>>
<1> DEFINE r == Released(ev[m], clock + 1)
<1>1. ev \in [Members -> Row]  BY DEF IInv, Types
<1>2. ev'[m] = r /\ \A n \in Members : n # m => ev'[n] = ev[n]  BY <1>1
<1>3. CASE r = ev[m]
  <2>1. \A n \in Members : ev'[n] = ev[n]  BY <1>2, <1>3
  <2> QED  BY <2>1, LifecycleStutters
<1>4. CASE r # ev[m]
  <2>1. /\ ev[m].status = "pending_batch" /\ ev[m].batch # NoBatch
        /\ \/ r.status = "dead_letter" /\ r.batch = ev[m].batch
           \/ r.status = "pending_batch" /\ r.batch = NoBatch
    BY <1>4, ReleasedRow
  <2>2. m \notin Lifecycle!Waiting(NoBatch)  BY <2>1, WaitingIs
  <2> HIDE DEF r
  <2>3. CASE r.status = "dead_letter" /\ r.batch = ev[m].batch
    <3>1. Statuses' = [Statuses EXCEPT ![m] = "dead_letter"]
      BY <1>2, <2>3, OneWritten
    <3>2. UNCHANGED Homes  BY <1>2, <2>3 DEF Homes
    <3> QED  BY <2>1, <2>2, <3>1, <3>2 DEF Lifecycle!Release, Statuses, Homes
  <2>4. CASE r.status = "pending_batch" /\ r.batch = NoBatch
    <3>1. Homes' = [Homes EXCEPT ![m] = NoBatch]  BY <1>2, <2>4, OneWritten
    <3>2. UNCHANGED Statuses  BY <1>2, <2>1, <2>4 DEF Statuses
    <3> QED  BY <2>1, <2>2, <3>1, <3>2 DEF Lifecycle!Release, Statuses, Homes
  <2> QED  BY <2>1, <2>3, <2>4
<1> QED  BY <1>3, <1>4

LEMMA LifecycleEndBatch ==
  ASSUME IInv, NEW b \in Batches, NEW s \in Terminal, SettleMembers(b, s)
  PROVE  Lifecycle!EndBatch(b)
<1> DEFINE W == {m \in Members : ev[m].status = "pending_batch" /\ ev[m].batch = b}
<1>1. \A m \in Members : ev'[m] = Settled(ev[m], b, s)  BY DEF SettleMembers
<1>2. ASSUME NEW m \in Members, m \notin W  PROVE ev'[m] = ev[m]
  BY <1>1, <1>2, SettledRow
<1>3. W = Lifecycle!Waiting(b)  BY WaitingIs
<1>4. CASE s = "cancelled"
  <2>1. \A m \in W : ev'[m].batch = NoBatch /\ ev'[m].status = ev[m].status
    BY <1>1, <1>4, SettledRow
  <2>2. Homes' = [m \in Members |-> IF m \in W THEN NoBatch ELSE ev[m].batch]
    BY <1>2, <2>1 DEF Homes
  <2>3. UNCHANGED Statuses  BY <1>2, <2>1 DEF Statuses
  <2>4. \A m \in Members : Homes[m] = ev[m].batch  BY DEF Homes
  <2> QED  BY <1>3, <2>2, <2>3, <2>4 DEF Lifecycle!EndBatch, Statuses, Homes
<1>5. CASE s # "cancelled"
  <2>1. PICK st \in {"succeeded", "dead_letter"} :
          \A m \in W : ev'[m].batch = ev[m].batch /\ ev'[m].status = st
    <3>1. CASE s = "succeeded"
      <4>1. \A m \in W : ev'[m].batch = ev[m].batch /\ ev'[m].status = "succeeded"
        BY <1>1, <3>1, SettledRow
      <4> QED  BY <4>1
    <3>2. CASE s # "succeeded"
      <4>1. \A m \in W : ev'[m].batch = ev[m].batch /\ ev'[m].status = "dead_letter"
        BY <1>1, <1>5, <3>2, SettledRow
      <4> QED  BY <4>1
    <3> QED  BY <3>1, <3>2
  <2>2. Statuses' = [m \in Members |-> IF m \in W THEN st ELSE ev[m].status]
    BY <1>2, <2>1 DEF Statuses
  <2>3. UNCHANGED Homes  BY <1>2, <2>1 DEF Homes
  <2>4. \A m \in Members : Statuses[m] = ev[m].status  BY DEF Statuses
  <2> QED  BY <1>3, <2>1, <2>2, <2>3, <2>4 DEF Lifecycle!EndBatch, Statuses, Homes
<1> QED  BY <1>4, <1>5

LEMMA LifecycleFill ==
  ASSUME IInv, NEW b \in Batches, CreateBatch(b), NEW S, S = Assigned, S # {}
  PROVE  Lifecycle!Fill(b, S)
<1>1. /\ S \subseteq Members
      /\ \A m \in S : ev[m].status = "pending_batch" /\ ev[m].batch = NoBatch
  BY DEF Assigned, Pool, InPool
<1>2. S \subseteq Lifecycle!Waiting(NoBatch)  BY <1>1, WaitingIs
<1>3. \A m \in Members : ev[m].batch # b
  <2>1. bop[b].status = "absent"  BY DEF CreateBatch
  <2> QED  BY <2>1, Constants DEF IInv, RowInBatch
<1>4. ev' = [m \in Members |->
               IF m \in S THEN [ev[m] EXCEPT !.batch = b] ELSE ev[m]]
  BY DEF CreateBatch
<1>5. ev \in [Members -> Row]  BY DEF IInv, Types
<1>6. \A m \in Members : /\ ev'[m].status = ev[m].status
                         /\ ev'[m].batch = IF m \in S THEN b ELSE ev[m].batch
  BY <1>4, <1>5 DEF Row
<1>7. Homes' = [m \in Members |-> IF m \in S THEN b ELSE ev[m].batch]
  BY <1>6 DEF Homes
<1>8. UNCHANGED Statuses  BY <1>6 DEF Statuses
<1>9. \A m \in Members : Homes[m] = ev[m].batch  BY DEF Homes
<1> QED  BY <1>2, <1>3, <1>7, <1>8, <1>9 DEF Lifecycle!Fill, Statuses, Homes

LEMMA LifecycleSetsStatus ==
  ASSUME IInv, NEW m \in Members, NEW s,
         ev' = [ev EXCEPT ![m].status = s]
  PROVE  Statuses' = [Statuses EXCEPT ![m] = s] /\ UNCHANGED Homes
<1>1. ev \in [Members -> Row]  BY DEF IInv, Types
<1>2. /\ ev'[m] = [ev[m] EXCEPT !.status = s]
      /\ \A n \in Members : n # m => ev'[n] = ev[n]
  BY <1>1
<1>3. ev'[m].status = s /\ ev'[m].batch = ev[m].batch
  BY <1>1, <1>2 DEF Row
<1>4. UNCHANGED Homes  BY <1>2, <1>3 DEF Homes
<1> QED  BY <1>2, <1>3, <1>4, OneWritten

LEMMA LifecycleConclusion ==
  ASSUME IInv, NEW m \in Members, ev' = ev \/ ev' = [ev EXCEPT ![m].concluded = TRUE]
  PROVE  UNCHANGED <<Statuses, Homes>>
BY ConclusionOnly, LifecycleStutters

LEMMA LifecycleStep ==
  IInv /\ [Next]_vars => [Lifecycle!Next]_<<Statuses, Homes>>
<1> SUFFICES ASSUME IInv, [Next]_vars
             PROVE  Lifecycle!Next \/ UNCHANGED <<Statuses, Homes>>
  OBVIOUS
<1>1. CASE UNCHANGED ev
  BY <1>1, LifecycleStutters
<1>2. CASE \E m \in Members : Submit(m) \/ BecomeDue(m)
  <2>1. ASSUME NEW m \in Members, Submit(m)  PROVE Lifecycle!Submit(m)
    <3>1. ev' = [ev EXCEPT ![m].status = "pending_batch"] /\ ev[m].status = "absent"
      BY <2>1 DEF Submit
    <3>2. Statuses' = [Statuses EXCEPT ![m] = "pending_batch"] /\ UNCHANGED Homes
      BY <3>1, LifecycleSetsStatus
    <3> QED  BY <3>1, <3>2 DEF Lifecycle!Submit, Statuses, Homes
  <2>2. ASSUME NEW m \in Members, BecomeDue(m)  PROVE UNCHANGED <<Statuses, Homes>>
    <3>1. ev \in [Members -> Row]  BY DEF IInv, Types
    <3>2. \A n \in Members : ev'[n].status = ev[n].status /\ ev'[n].batch = ev[n].batch
      BY <2>2, <3>1 DEF BecomeDue, Row
    <3> QED  BY <3>2, LifecycleStutters
  <2> QED  BY <1>2, <2>1, <2>2 DEF Lifecycle!Next
<1>3. CASE Tick \/ NextDay
  <2>1. ASSUME NEW b \in Batches, CreateBatch(b)
        PROVE  Lifecycle!Next \/ UNCHANGED <<Statuses, Homes>>
    <3>1. CASE Assigned = {}
      <4>1. UNCHANGED ev  BY <2>1, <3>1 DEF CreateBatch
      <4> QED  BY <4>1, LifecycleStutters
    <3>2. CASE Assigned # {}
      <4>1. PICK S \in SUBSET Members : S = Assigned  BY DEF Assigned, Pool
      <4>2. Lifecycle!Fill(b, S)  BY <2>1, <3>2, <4>1, LifecycleFill
      <4> QED  BY <4>1, <4>2 DEF Lifecycle!Next
    <3> QED  BY <3>1, <3>2
  <2>2. TickWithoutBatch \/ SelectMembers \/ NextDay => UNCHANGED ev
    BY DEF TickWithoutBatch, SelectMembers, NextDay
  <2> QED  BY <1>3, <2>1, <2>2, <1>1 DEF Tick
<1>4. CASE \E b \in Batches : ClaimBatch(b) \/ LoseLease(b) \/ RecoverLease(b)
  BY <1>1, <1>4 DEF ClaimBatch, LoseLease, RecoverLease
<1>5. ASSUME NEW b \in Batches, NEW g \in Generations, ExecStep(b, g) \/ ExecutionDies(b, g)
      PROVE  Lifecycle!Next \/ UNCHANGED <<Statuses, Homes>>
  <2>1. CASE \/ StartBatch(b, g) \/ LoadBatchMembers(b, g) \/ GraphFails(b, g)
             \/ MarkCommit(b, g) \/ FinalizeBatch(b, g) \/ ExecutionDies(b, g)
    BY <1>1, <2>1 DEF StartBatch, LoadBatchMembers, GraphFails, MarkCommit, FinalizeBatch,
                      ExecutionDies
  <2>2. ASSUME NEW m \in Members, BeginBatchMember(b, g, m)
        PROVE  UNCHANGED <<Statuses, Homes>>
    <3>1. ev' = ev \/ ev' = [ev EXCEPT ![m].concluded = TRUE]
      BY <2>2 DEF BeginBatchMember
    <3> QED  BY <3>1, LifecycleConclusion
  <2>3. ASSUME MemberWritesNothing(b, g) \/ CommitMember(b, g)
        PROVE  UNCHANGED <<Statuses, Homes>>
    <3>1. exec[b][g].cur \in Members
      BY <2>3, ExecType DEF ExecOK, MemberWritesNothing, CommitMember
    <3>2. ev' = ev \/ ev' = [ev EXCEPT ![exec[b][g].cur].concluded = TRUE]
      BY <2>3 DEF MemberWritesNothing, CommitMember, Concluded
    <3> QED  BY <3>1, <3>2, LifecycleConclusion
  <2>4. ASSUME NEW m \in Members, ReleaseBatchMember(b, g, m)
        PROVE  Lifecycle!Next \/ UNCHANGED <<Statuses, Homes>>
    <3>1. CASE ev' = [ev EXCEPT ![m] = Released(ev[m], clock + 1)]
      BY <3>1, LifecycleRelease DEF Lifecycle!Next
    <3> QED  BY <1>1, <2>4, <3>1 DEF ReleaseBatchMember
  <2>5. ASSUME WriteResult(b, g)
        PROVE  Lifecycle!Next \/ UNCHANGED <<Statuses, Homes>>
    <3> DEFINE st == IF exec[b][g].outcome = "retry" /\ g >= BatchAttempts
                     THEN "dead_letter" ELSE exec[b][g].outcome
    <3>1. UNCHANGED ev \/ (st # "retry" /\ SettleMembers(b, st))
      BY <2>5 DEF WriteResult
    <3>2. st # "retry" => st \in Terminal
      <4>1. exec[b][g].outcome # "none" /\ exec[b][g] \in Exec
        BY <2>5, ExecType DEF ExecOK, WriteResult
      <4>2. exec[b][g].outcome \in Terminal \union {"retry"}
        BY <4>1 DEF Exec, Terminal
      <4> QED  BY <4>2 DEF Terminal
    <3> HIDE DEF st
    <3>3. CASE st # "retry" /\ SettleMembers(b, st)
      <4>1. Lifecycle!EndBatch(b)  BY <3>2, <3>3, LifecycleEndBatch
      <4> QED  BY <4>1 DEF Lifecycle!Next
    <3> QED  BY <1>1, <3>1, <3>3
  <2> QED  BY <1>5, <2>1, <2>2, <2>3, <2>4, <2>5 DEF ExecStep
<1>6. CASE \E c \in Clients, t \in Members \union Batches : CancelRead(c, t)
  BY <1>1, <1>6 DEF CancelRead
<1>7. ASSUME NEW c \in Clients, CancelWrite(c)
      PROVE  Lifecycle!Next \/ UNCHANGED <<Statuses, Homes>>
  <2>1. PICK t \in Members \union Batches :
          t = cancel[c].target /\ (t \in Members => ev[t].status # "absent")
    BY <1>7 DEF CancelWrite, IInv, RequestOK
  <2>2. CASE t \in Members
    <3>1. ev' = [ev EXCEPT ![t].status = "cancelled"]  BY <1>7, <2>1, <2>2 DEF CancelWrite
    <3>2. Statuses' = [Statuses EXCEPT ![t] = "cancelled"] /\ UNCHANGED Homes
      BY <2>2, <3>1, LifecycleSetsStatus
    <3>3. Lifecycle!Cancel(t)  BY <2>1, <2>2, <3>2 DEF Lifecycle!Cancel, Statuses, Homes
    <3> QED  BY <2>2, <3>3 DEF Lifecycle!Next
  <2>3. CASE t \notin Members
    <3>1. UNCHANGED ev \/ SettleMembers(t, "cancelled")
      BY <1>7, <2>1, <2>3 DEF CancelWrite
    <3>2. t \in Batches /\ "cancelled" \in Terminal  BY <2>1, <2>3 DEF Terminal
    <3>3. CASE SettleMembers(t, "cancelled")
      <4>1. Lifecycle!EndBatch(t)  BY <3>2, <3>3, LifecycleEndBatch
      <4> QED  BY <3>2, <4>1 DEF Lifecycle!Next
    <3> QED  BY <1>1, <3>1, <3>3
  <2> QED  BY <2>2, <2>3
<1> QED
  <2>1. UNCHANGED vars => UNCHANGED ev  BY DEF vars
  <2> QED  BY <1>1, <1>2, <1>3, <1>4, <1>5, <1>6, <1>7, <2>1 DEF Next

LEMMA LifecycleInit == Init => Lifecycle!Init
BY DEF Init, Lifecycle!Init

(* The pool keeps its lifecycle: evidence is in one batch at a time, a     *)
(* batch is filled once, and all it has is settled in one step.            *)
THEOREM KeepsLifecycle == Spec => FollowsLifecycle
<1>1. IInv /\ [Next]_vars =>
        [Lifecycle!Next]_<<[m \in Members |-> ev[m].status], [m \in Members |-> ev[m].batch]>>
  BY LifecycleStep DEF Statuses, Homes
<1> QED
  BY LifecycleInit, <1>1, Invariance, PTL DEF Spec, FollowsLifecycle, Lifecycle!Spec

(* ---- no evidence is lost ---------------------------------------------- *)

(* Every row that waits in b is concluded or is still to be reckoned with  *)
(* by the execution x of b; x may end as succeeded when none is left.      *)
Tracks(rows, b, x) ==
  \A m \in Members : Waits(rows[m], b) /\ ~rows[m].concluded =>
    /\ x.phase \in {"loop", "member", "marked"} => m \in AtHand(x)
    /\ x.phase = "finish" => x.outcome # "succeeded"

CInv ==
  /\ \A b \in Batches, g \in Generations :
       bop[b].status = "absent" => exec[b][g].phase = "none"
  /\ faults.release = 0 =>
       /\ SucceededWasConcluded
       /\ \A b \in Batches, g \in Generations : Tracks(ev, b, exec[b][g])

LEMMA InitCInv == Init => CInv
BY DEF Init, CInv, SucceededWasConcluded, Tracks, NoExec

(* Rows leave batches, and stay concluded.                                 *)
RowsDrain ==
  /\ \A m \in Members, b \in Batches : Waits(ev'[m], b) => Waits(ev[m], b)
  /\ \A m \in Members : ev[m].concluded => ev'[m].concluded
  /\ \A m \in Members :
       ev'[m].status = "succeeded" => ev[m].status = "succeeded" \/ ev'[m].concluded

BatchesStay == \A b \in Batches : bop'[b].status = "absent" => bop[b].status = "absent"

LEMMA DrainTracks ==
  ASSUME RowsDrain, NEW b \in Batches, NEW x, Tracks(ev, b, x)
  PROVE  Tracks(ev', b, x)
BY DEF RowsDrain, Tracks

LEMMA CKeptSame ==
  ASSUME CInv, RowsDrain, BatchesStay, UNCHANGED exec,
         faults'.release = 0 => faults.release = 0
  PROVE  CInv'
<1>1. \A b \in Batches, g \in Generations :
        bop'[b].status = "absent" => exec'[b][g].phase = "none"
  BY DEF CInv, BatchesStay
<1>2. ASSUME faults'.release = 0
      PROVE  /\ SucceededWasConcluded'
             /\ \A b \in Batches, g \in Generations : Tracks(ev', b, exec'[b][g])
  <2>1. SucceededWasConcluded'
    BY <1>2 DEF CInv, SucceededWasConcluded, RowsDrain
  <2>2. \A b \in Batches, g \in Generations : Tracks(ev', b, exec[b][g])
    BY <1>2, DrainTracks DEF CInv
  <2> QED  BY <2>1, <2>2
<1> QED  BY <1>1, <1>2 DEF CInv

LEMMA CKeptBecome ==
  ASSUME IInv, CInv, RowsDrain, BatchesStay,
         NEW b \in Batches, NEW g \in Generations, NEW x, Become(b, g, x), ExecOK(x),
         bop[b].status # "absent",
         faults'.release = 0 => faults.release = 0 /\ Tracks(ev', b, x)
  PROVE  CInv'
<1>1. /\ exec'[b][g] = x
      /\ \A c \in Batches, h \in Generations :
           c # b \/ h # g => exec'[c][h] = exec[c][h]
  BY BecomeEffect
<1>2. ASSUME NEW c \in Batches, NEW h \in Generations, bop'[c].status = "absent"
      PROVE  exec'[c][h].phase = "none"
  <2>1. bop[c].status = "absent"  BY <1>2 DEF BatchesStay
  <2> QED  BY <1>1, <2>1 DEF CInv
<1>3. ASSUME faults'.release = 0
      PROVE  /\ SucceededWasConcluded'
             /\ \A c \in Batches, h \in Generations : Tracks(ev', c, exec'[c][h])
  <2>1. SucceededWasConcluded'
    BY <1>3 DEF CInv, SucceededWasConcluded, RowsDrain
  <2>2. \A c \in Batches, h \in Generations : Tracks(ev', c, exec[c][h])
    BY <1>3, DrainTracks DEF CInv
  <2> QED  BY <1>1, <1>3, <2>1, <2>2
<1> QED  BY <1>2, <1>3 DEF CInv

(* The ways in which steps change the rows.                                *)
LEMMA SameDrain == UNCHANGED ev => RowsDrain
BY DEF RowsDrain

LEMMA ConcludedDrain ==
  ASSUME IInv, NEW m \in Members, ev' = ev \/ ev' = [ev EXCEPT ![m].concluded = TRUE]
  PROVE  RowsDrain
BY ConclusionOnly DEF RowsDrain, Waits

LEMMA SettledDrain ==
  ASSUME IInv, NEW b \in Batches, NEW s \in Terminal, SettleMembers(b, s),
         s = "succeeded" => \A m \in Members : Waits(ev[m], b) => ev[m].concluded
  PROVE  RowsDrain
<1> DEFINE r(m) == Settled(ev[m], b, s)
<1>1. \A m \in Members : ev'[m] = r(m)  BY DEF SettleMembers
<1>2. ASSUME NEW m \in Members
      PROVE  /\ \A c \in Batches : Waits(r(m), c) => Waits(ev[m], c)
             /\ ev[m].concluded => r(m).concluded
             /\ r(m).status = "succeeded" => ev[m].status = "succeeded" \/ r(m).concluded
  BY SettledRow, Constants DEF Waits
<1> HIDE DEF r
<1> QED  BY <1>1, <1>2 DEF RowsDrain

LEMMA ReleasedDrain ==
  ASSUME IInv, NEW m \in Members, ev' = [ev EXCEPT ![m] = Released(ev[m], clock + 1)]
  PROVE  RowsDrain /\ \A b \in Batches : ~Waits(ev'[m], b)
<1> DEFINE r == Released(ev[m], clock + 1)
<1>1. ev \in [Members -> Row]  BY DEF IInv, Types
<1>2. ev'[m] = r /\ \A n \in Members : n # m => ev'[n] = ev[n]  BY <1>1
<1>3. /\ \A c \in Batches : ~Waits(r, c)
      /\ r.concluded = ev[m].concluded
      /\ r.status = "succeeded" => ev[m].status = "succeeded"
  <2>1. CASE ev[m].status = "pending_batch" /\ ev[m].batch # NoBatch
    <3>1. r # ev[m]
      <4>1. r.attempts = ev[m].attempts + 1
        BY <2>1, <1>1 DEF Released, Row
      <4>2. ev[m].attempts \in Nat  BY <1>1 DEF Row
      <4> QED  BY <4>1, <4>2
    <3> QED  BY <3>1, ReleasedRow, Constants DEF Waits
  <2>2. CASE ~(ev[m].status = "pending_batch" /\ ev[m].batch # NoBatch)
    BY <2>2, Constants DEF Released, Waits
  <2> QED  BY <2>1, <2>2
<1> HIDE DEF r
<1> QED  BY <1>2, <1>3 DEF RowsDrain

LEMMA StatusDrain ==
  ASSUME IInv, NEW m \in Members, NEW s, s # "succeeded",
         ev[m].batch = NoBatch \/ s # "pending_batch",
         ev' = [ev EXCEPT ![m].status = s]
  PROVE  RowsDrain
<1>1. ev \in [Members -> Row]  BY DEF IInv, Types
<1>2. /\ ev'[m] = [ev[m] EXCEPT !.status = s]
      /\ \A n \in Members : n # m => ev'[n] = ev[n]
  BY <1>1
<1>3. ev'[m].status = s /\ ev'[m].batch = ev[m].batch /\ ev'[m].concluded = ev[m].concluded
  BY <1>1, <1>2 DEF Row
<1> QED  BY <1>2, <1>3, Constants DEF RowsDrain, Waits

(* Batches that are not there are not executed.                            *)
LEMMA Executed ==
  ASSUME CInv, NEW b \in Batches, NEW g \in Generations, exec[b][g].phase # "none"
  PROVE  bop[b].status # "absent"
BY DEF CInv

LEMMA StayKept ==
  ASSUME IInv, UNCHANGED bop \/ \E b \in Batches, s \in LiveStatus \union Terminal :
                                  bop' = [bop EXCEPT ![b].status = s]
  PROVE  BatchesStay
<1>1. bop \in [Batches -> BatchRow]  BY DEF IInv, Types
<1>2. ASSUME NEW b \in Batches, NEW s \in LiveStatus \union Terminal,
             bop' = [bop EXCEPT ![b].status = s]
      PROVE  BatchesStay
  <2>1. s # "absent"  BY DEF LiveStatus, Terminal
  <2>2. bop'[b].status = s /\ \A c \in Batches : c # b => bop'[c] = bop[c]
    BY <1>1, <1>2 DEF BatchRow
  <2> QED  BY <2>1, <2>2 DEF BatchesStay
<1>3. UNCHANGED bop => BatchesStay  BY DEF BatchesStay
<1> QED  BY <1>2, <1>3

LEMMA CreateBatchC ==
  ASSUME IInv, CInv, NEW b \in Batches, CreateBatch(b)  PROVE CInv'
<1>1. /\ bop[b].status = "absent" /\ UNCHANGED <<exec, faults>>
      /\ ev \in [Members -> Row] /\ bop \in [Batches -> BatchRow]
  BY DEF CreateBatch, IInv, Types
<1>2. \A c \in Batches : bop'[c].status = "absent" => bop[c].status = "absent"
  <2>1. PICK s \in LiveStatus \union Terminal : bop' = [bop EXCEPT ![b].status = s]
    BY DEF CreateBatch, LiveStatus, Terminal
  <2> QED  BY <2>1, StayKept DEF BatchesStay
<1>3. \A m \in Members : /\ ev'[m].status = ev[m].status
                         /\ ev'[m].concluded = ev[m].concluded
                         /\ ev'[m].batch # ev[m].batch => ev'[m].batch = b
  BY <1>1 DEF CreateBatch, Row
<1>4. ASSUME NEW c \in Batches, NEW g \in Generations, Tracks(ev, c, exec[c][g])
      PROVE  Tracks(ev', c, exec[c][g])
  <2>1. CASE c = b
    <3>1. exec[c][g].phase = "none"  BY <1>1, <2>1 DEF CInv
    <3> QED  BY <3>1 DEF Tracks
  <2>2. CASE c # b
    <3>1. \A m \in Members : Waits(ev'[m], c) => Waits(ev[m], c)
      BY <1>3, <2>2 DEF Waits
    <3> QED  BY <1>3, <1>4, <3>1 DEF Tracks
  <2> QED  BY <2>1, <2>2
<1>5. \A c \in Batches, g \in Generations :
        bop'[c].status = "absent" => exec'[c][g].phase = "none"
  BY <1>1, <1>2 DEF CInv
<1>6. ASSUME faults'.release = 0
      PROVE  /\ SucceededWasConcluded'
             /\ \A c \in Batches, g \in Generations : Tracks(ev', c, exec'[c][g])
  <2>1. faults.release = 0 /\ exec' = exec  BY <1>1, <1>6
  <2>2. SucceededWasConcluded'  BY <1>3, <2>1 DEF CInv, SucceededWasConcluded
  <2>3. \A c \in Batches, g \in Generations : Tracks(ev', c, exec[c][g])
    BY <1>4, <2>1 DEF CInv
  <2> QED  BY <2>1, <2>2, <2>3
<1> QED  BY <1>5, <1>6 DEF CInv

(* Steps outside the executions, and those that change no row.             *)
LEMMA OutsideC ==
  ASSUME IInv, CInv,
         \/ \E m \in Members : Submit(m) \/ BecomeDue(m)
         \/ TickWithoutBatch \/ SelectMembers \/ NextDay
         \/ \E b \in Batches : LoseLease(b) \/ RecoverLease(b)
         \/ \E c \in Clients, t \in Members \union Batches : CancelRead(c, t)
         \/ UNCHANGED vars
  PROVE  CInv'
<1>1. UNCHANGED exec
  BY DEF Submit, BecomeDue, TickWithoutBatch, SelectMembers, NextDay, LoseLease,
         RecoverLease, CancelRead, vars
<1>2. BatchesStay
  BY StayKept DEF Submit, BecomeDue, TickWithoutBatch, SelectMembers, NextDay, LoseLease,
         RecoverLease, CancelRead, vars, LiveStatus
<1>3. faults'.release = 0 => faults.release = 0
  <2>1. faults \in [lease : 0..MaxFaults, release : 0..MaxReleaseFaults]  BY FaultTypes
  <2>2. LeaseFault => faults'.release = faults.release  BY <2>1 DEF LeaseFault
  <2> QED  BY <2>2 DEF Submit, BecomeDue, TickWithoutBatch, SelectMembers, NextDay,
                       LoseLease, RecoverLease, CancelRead, vars
<1>4. RowsDrain
  <2>1. ASSUME NEW m \in Members, Submit(m)  PROVE RowsDrain
    <3>1. ev[m].batch = NoBatch /\ ev' = [ev EXCEPT ![m].status = "pending_batch"]
      BY <2>1 DEF Submit, IInv, RowOK
    <3> QED  BY <3>1, StatusDrain
  <2>2. ASSUME NEW m \in Members, BecomeDue(m)  PROVE RowsDrain
    <3>1. ev \in [Members -> Row]  BY DEF IInv, Types
    <3>2. \A n \in Members : /\ ev'[n].status = ev[n].status /\ ev'[n].batch = ev[n].batch
                             /\ ev'[n].concluded = ev[n].concluded
      BY <2>2, <3>1 DEF BecomeDue, Row
    <3> QED  BY <3>2 DEF RowsDrain, Waits
  <2>3. \/ UNCHANGED ev
        \/ \E m \in Members : Submit(m) \/ BecomeDue(m)
    BY DEF TickWithoutBatch, SelectMembers, NextDay, LoseLease, RecoverLease, CancelRead, vars
  <2> QED  BY <2>1, <2>2, <2>3, SameDrain
<1> QED  BY <1>1, <1>2, <1>3, <1>4, CKeptSame

LEMMA CancelWriteC ==
  ASSUME IInv, CInv, NEW c \in Clients, CancelWrite(c)  PROVE CInv'
<1>1. PICK t \in Members \union Batches :
        t = cancel[c].target /\ (t \in Members => ev[t].status # "absent")
  BY DEF CancelWrite, IInv, RequestOK
<1>2. UNCHANGED <<exec, faults>>  BY DEF CancelWrite
<1>3. CASE t \in Members
  <2>1. ev' = [ev EXCEPT ![t].status = "cancelled"] /\ UNCHANGED bop
    BY <1>1, <1>3 DEF CancelWrite
  <2>2. RowsDrain /\ BatchesStay  BY <1>3, <2>1, StatusDrain, StayKept
  <2> QED  BY <1>2, <2>2, CKeptSame
<1>4. CASE t \notin Members /\ cancel[c].now
  <2>1. /\ t \in Batches /\ bop' = [bop EXCEPT ![t].status = "cancelled"]
        /\ SettleMembers(t, "cancelled") /\ "cancelled" \in Terminal
    BY <1>1, <1>4 DEF CancelWrite, Terminal
  <2>2. RowsDrain  BY <2>1, SettledDrain
  <2>3. BatchesStay  BY <2>1, StayKept
  <2> QED  BY <1>2, <2>2, <2>3, CKeptSame
<1>5. CASE t \notin Members /\ ~cancel[c].now
  <2>1. t \in Batches /\ bop' = [bop EXCEPT ![t].cancelRequested = TRUE] /\ UNCHANGED ev
    BY <1>1, <1>5 DEF CancelWrite
  <2>2. bop \in [Batches -> BatchRow]  BY DEF IInv, Types
  <2>3. BatchesStay  BY <2>1, <2>2 DEF BatchesStay, BatchRow
  <2> QED  BY <1>2, <2>1, <2>3, SameDrain, CKeptSame
<1> QED  BY <1>3, <1>4, <1>5

(* An execution starts, ends, or is sent back.                             *)
LEMMA IdleTracks ==
  ASSUME NEW b, NEW x, x.phase \in {"none", "start", "load", "over"}
         \/ (x.phase = "finish" /\ x.outcome # "succeeded")
  PROVE  Tracks(ev', b, x)
BY DEF Tracks

LEMMA OverC ==
  ASSUME IInv, CInv, RowsDrain, BatchesStay, NEW b \in Batches, NEW g \in Generations,
         exec[b][g].phase # "none", Over(b, g),
         faults'.release = 0 => faults.release = 0
  PROVE  CInv'
<1> PICK x : ExecOK(x) /\ Become(b, g, x) /\ x.phase = "over"  BY OverEffect
<1> QED  BY Executed, IdleTracks, CKeptBecome

LEMMA FinishC ==
  ASSUME IInv, CInv, RowsDrain, BatchesStay, NEW b \in Batches, NEW g \in Generations,
         exec[b][g].phase # "none",
         NEW o \in {"succeeded", "needs_review", "dead_letter", "retry", "cancelled"},
         Finish(b, g, o),
         o = "succeeded" => \A m \in Members : Waits(ev[m], b) => ev[m].concluded,
         UNCHANGED faults
  PROVE  CInv'
<1>1. PICK x : ExecOK(x) /\ Become(b, g, x) /\ x.phase = "finish" /\ x.outcome = o
  BY FinishEffect
<1>2. Tracks(ev', b, x)
  <2>1. CASE o = "succeeded"
    <3>1. \A m \in Members : Waits(ev'[m], b) => ev'[m].concluded
      BY <2>1 DEF RowsDrain
    <3> QED  BY <3>1 DEF Tracks
  <2>2. CASE o # "succeeded"  BY <1>1, <2>2, IdleTracks
  <2> QED  BY <2>1, <2>2
<1> QED  BY <1>1, <1>2, Executed, CKeptBecome

LEMMA ClaimBatchC == ASSUME IInv, CInv, NEW b \in Batches, ClaimBatch(b)  PROVE CInv'
<1> DEFINE x == [NoExec EXCEPT !.phase = "start"]
           g == bop[b].generation + 1
<1>1. g \in Generations /\ bop[b] \in BatchRow /\ bop \in [Batches -> BatchRow]
  BY BatchTypes DEF ClaimBatch
<1>2. bop[b].status # "absent" /\ UNCHANGED <<ev, faults>> /\ Become(b, g, x)
  BY DEF ClaimBatch
<1>3. BatchesStay  BY <1>1 DEF ClaimBatch, BatchesStay, BatchRow
<1>4. x.phase = "start" /\ ExecOK(x)  BY ExecConstants DEF NoExec
<1>5. Tracks(ev', b, x)  BY <1>4, IdleTracks
<1> HIDE DEF x, g
<1> QED  BY <1>1, <1>2, <1>3, <1>4, <1>5, SameDrain, CKeptBecome

LEMMA ExecutionDiesC ==
  ASSUME IInv, CInv, NEW b \in Batches, NEW g \in Generations, ExecutionDies(b, g)
  PROVE  CInv'
<1>1. UNCHANGED <<ev, bop>> /\ Over(b, g) /\ exec[b][g].phase # "none"
  BY DEF ExecutionDies, Alive
<1>2. faults'.release = 0 => faults.release = 0
  BY FaultTypes DEF ExecutionDies, LeaseFault
<1> QED  BY <1>1, <1>2, SameDrain, StayKept, OverC

LEMMA StartBatchC ==
  ASSUME IInv, CInv, NEW b \in Batches, NEW g \in Generations, StartBatch(b, g)
  PROVE  CInv'
<1> DEFINE x == [exec[b][g] EXCEPT !.phase = "load"]
<1>1. UNCHANGED <<ev, bop, faults>> /\ exec[b][g].phase = "start"  BY DEF StartBatch
<1>2. RowsDrain /\ BatchesStay  BY <1>1, SameDrain, StayKept
<1>3. CASE Over(b, g)  BY <1>1, <1>2, <1>3, OverC
<1>4. CASE Finish(b, g, "cancelled")  BY <1>1, <1>2, <1>4, FinishC
<1>5. CASE Become(b, g, x)
  <2>1. ExecOK(x) /\ x.phase = "load"  BY <1>1, ToLoad
  <2>2. Tracks(ev', b, x)  BY <2>1, IdleTracks
  <2> HIDE DEF x
  <2> QED  BY <1>1, <1>2, <1>5, <2>1, <2>2, Executed, CKeptBecome
<1> QED  BY <1>3, <1>4, <1>5 DEF StartBatch

LEMMA LoadBatchMembersC ==
  ASSUME IInv, CInv, NEW b \in Batches, NEW g \in Generations, LoadBatchMembers(b, g)
  PROVE  CInv'
<1> DEFINE S == {m \in Members : ev[m].batch = b /\ ev[m].status = "pending_batch"}
           x == [exec[b][g] EXCEPT !.phase = "loop", !.todo = S]
<1>1. UNCHANGED <<ev, bop, faults>> /\ exec[b][g].phase = "load" /\ Become(b, g, x)
  BY DEF LoadBatchMembers
<1>2. RowsDrain /\ BatchesStay  BY <1>1, SameDrain, StayKept
<1>3. ExecOK(x) /\ x.phase = "loop" /\ x.todo = S  BY ExecType, ToLoop
<1>4. Tracks(ev', b, x)  BY <1>1, <1>3 DEF Tracks, Waits, AtHand
<1> HIDE DEF x
<1> QED  BY <1>1, <1>2, <1>3, <1>4, Executed, CKeptBecome

LEMMA BeginBatchMemberC ==
  ASSUME IInv, CInv, NEW b \in Batches, NEW g \in Generations, NEW m \in Members,
         BeginBatchMember(b, g, m)
  PROVE  CInv'
<1> DEFINE x == exec[b][g]
           y == [x EXCEPT !.todo = @ \ {m}]
           z == [x EXCEPT !.phase = "member", !.cur = m, !.todo = @ \ {m}]
<1>1. UNCHANGED <<bop, faults>> /\ x.phase = "loop" /\ x \in Exec
  BY ExecType DEF BeginBatchMember
<1>2. ev' = ev \/ ev' = [ev EXCEPT ![m].concluded = TRUE]  BY DEF BeginBatchMember
<1>3. RowsDrain /\ BatchesStay  BY <1>1, <1>2, ConcludedDrain, StayKept
<1>4. bop[b].status # "absent"  BY <1>1, Executed
<1>5. faults'.release = 0 => faults.release = 0 /\ Tracks(ev', b, x)
  BY <1>1, <1>3, DrainTracks DEF CInv
<1>6. CASE Become(b, g, y) /\ ev' = [ev EXCEPT ![m].concluded = TRUE]
  <2>1. ExecOK(y) /\ y.phase = "loop" /\ y.todo = x.todo \ {m} /\ y.failed = x.failed
    BY <1>1 DEF ExecOK, Exec
  <2>2. ev'[m].concluded
    <3>1. ev \in [Members -> Row]  BY DEF IInv, Types
    <3> QED  BY <1>6, <3>1 DEF Row
  <2>3. Tracks(ev', b, x) => Tracks(ev', b, y)
    BY <1>1, <2>1, <2>2 DEF Tracks, AtHand
  <2> HIDE DEF x, y
  <2> QED  BY <1>3, <1>4, <1>5, <1>6, <2>1, <2>3, CKeptBecome
<1>7. CASE Become(b, g, z)
  <2>1. ExecOK(z) /\ z.phase = "member" /\ z.cur = m /\ z.todo = x.todo \ {m}
        /\ z.failed = x.failed
    BY <1>1 DEF ExecOK, Exec
  <2>2. Tracks(ev', b, x) => Tracks(ev', b, z)
    BY <1>1, <2>1 DEF Tracks, AtHand
  <2> HIDE DEF x, z
  <2> QED  BY <1>3, <1>4, <1>5, <1>7, <2>1, <2>2, CKeptBecome
<1> QED  BY <1>6, <1>7 DEF BeginBatchMember

(* What is recorded of a member, releasable or concluded, is not lost.     *)
LEMMA RecordedTracks ==
  ASSUME IInv, NEW b \in Batches, NEW x \in Exec, x.phase \in {"member", "marked"},
         x.cur \in Members, NEW o \in Outcomes, Concluded(x.cur, o), Tracks(ev', b, x)
  PROVE  /\ Tracks(ev', b, Recorded(x, o))
         /\ Tracks(ev', b, [Recorded(x, o) EXCEPT !.wrote = TRUE])
<1> DEFINE y == Recorded(x, o)
           z == [Recorded(x, o) EXCEPT !.wrote = TRUE]
<1>1. y.phase = "loop" /\ y.todo = x.todo
      /\ y.failed = IF o \in {"failed", "errors_only"} THEN x.failed \union {x.cur} ELSE x.failed
  BY DEF Recorded, Exec
<1>2. z.phase = y.phase /\ z.todo = y.todo /\ z.failed = y.failed
  BY DEF Recorded, Exec
<1>3. o \notin {"failed", "errors_only"} => ev'[x.cur].concluded
  <2>1. ev \in [Members -> Row]  BY DEF IInv, Types
  <2> QED  BY <2>1 DEF Concluded, Row
<1> HIDE DEF y, z
<1>4. Tracks(ev', b, y) /\ Tracks(ev', b, z)
  BY <1>1, <1>2, <1>3 DEF Tracks, AtHand
<1> QED  BY <1>4 DEF y, z

LEMMA RecordC ==
  ASSUME IInv, CInv, NEW b \in Batches, NEW g \in Generations,
         exec[b][g].phase \in {"member", "marked"}, NEW o \in Outcomes,
         Concluded(exec[b][g].cur, o), UNCHANGED <<bop, faults>>,
         \/ Become(b, g, Recorded(exec[b][g], o))
         \/ Become(b, g, [Recorded(exec[b][g], o) EXCEPT !.wrote = TRUE])
  PROVE  CInv'
<1>1. PICK x : x = exec[b][g]  OBVIOUS
<1>2. x \in Exec /\ x.cur \in Members  BY <1>1, ExecType DEF ExecOK
<1>3. ev' = ev \/ ev' = [ev EXCEPT ![x.cur].concluded = TRUE]
  BY <1>1 DEF Concluded
<1>4. RowsDrain /\ BatchesStay  BY <1>2, <1>3, ConcludedDrain, StayKept
<1>5. bop[b].status # "absent"  BY Executed
<1>6. faults'.release = 0 => faults.release = 0 /\ Tracks(ev', b, x)
  BY <1>1, <1>4, DrainTracks DEF CInv
<1>7. /\ ExecOK(Recorded(x, o)) /\ ExecOK([Recorded(x, o) EXCEPT !.wrote = TRUE])
  BY <1>2, RecordedOK
<1>8. faults'.release = 0 => /\ Tracks(ev', b, Recorded(x, o))
                             /\ Tracks(ev', b, [Recorded(x, o) EXCEPT !.wrote = TRUE])
  BY <1>1, <1>2, <1>6, RecordedTracks
<1> QED  BY <1>1, <1>4, <1>5, <1>6, <1>7, <1>8, CKeptBecome

LEMMA MemberWritesNothingC ==
  ASSUME IInv, CInv, NEW b \in Batches, NEW g \in Generations, MemberWritesNothing(b, g)
  PROVE  CInv'
BY RecordC DEF MemberWritesNothing, Outcomes

LEMMA CommitMemberC ==
  ASSUME IInv, CInv, NEW b \in Batches, NEW g \in Generations, CommitMember(b, g)
  PROVE  CInv'
<1> DEFINE x == exec[b][g]
<1>1. UNCHANGED <<bop, faults>> /\ x.phase = "marked"  BY DEF CommitMember
<1>2. CASE /\ Become(b, g, [Recorded(x, "succeeded") EXCEPT !.wrote = TRUE])
           /\ Concluded(x.cur, "succeeded")
  BY <1>1, <1>2, RecordC DEF Outcomes
<1>3. CASE Become(b, g, Recorded(x, "failed")) /\ Concluded(x.cur, "failed")
  BY <1>1, <1>3, RecordC DEF Outcomes
<1>4. CASE Finish(b, g, "retry") /\ UNCHANGED ev
  BY <1>1, <1>4, SameDrain, StayKept, FinishC
<1> QED  BY <1>2, <1>3, <1>4 DEF CommitMember

LEMMA MarkCommitC ==
  ASSUME IInv, CInv, NEW b \in Batches, NEW g \in Generations, MarkCommit(b, g)
  PROVE  CInv'
<1> DEFINE x == exec[b][g]
           y == [x EXCEPT !.phase = "marked"]
<1>1. UNCHANGED <<ev, bop, faults>> /\ x.phase = "member" /\ ExecOK(x)
  BY ExecType DEF MarkCommit
<1>2. RowsDrain /\ BatchesStay  BY <1>1, SameDrain, StayKept
<1>3. CASE Over(b, g)  BY <1>1, <1>2, <1>3, OverC
<1>4. CASE Become(b, g, y)
  <2>1. /\ ExecOK(y) /\ y.phase = "marked" /\ y.cur = x.cur /\ y.todo = x.todo
        /\ y.failed = x.failed
    BY <1>1 DEF ExecOK, Exec
  <2>2. faults'.release = 0 => faults.release = 0 /\ Tracks(ev', b, x)
    BY <1>1, <1>2, DrainTracks DEF CInv
  <2>3. Tracks(ev', b, x) => Tracks(ev', b, y)  BY <1>1, <2>1 DEF Tracks, AtHand
  <2>4. bop[b].status # "absent"  BY <1>1, Executed
  <2> HIDE DEF x, y
  <2> QED  BY <1>2, <1>4, <2>1, <2>2, <2>3, <2>4, CKeptBecome
<1> QED  BY <1>3, <1>4 DEF MarkCommit

LEMMA GraphFailsC ==
  ASSUME IInv, CInv, NEW b \in Batches, NEW g \in Generations, GraphFails(b, g)
  PROVE  CInv'
BY SameDrain, StayKept, FinishC DEF GraphFails

LEMMA ReleaseBatchMemberC ==
  ASSUME IInv, CInv, NEW b \in Batches, NEW g \in Generations, NEW m \in Members,
         ReleaseBatchMember(b, g, m)
  PROVE  CInv'
<1> DEFINE x == exec[b][g]
           y == [x EXCEPT !.failed = @ \ {m}]
<1>1. UNCHANGED bop /\ x.phase = "loop" /\ x \in Exec /\ Become(b, g, y)
  BY ExecType DEF ReleaseBatchMember
<1>2. BatchesStay  BY <1>1, StayKept
<1>3. ExecOK(y) /\ y.phase = "loop" /\ y.todo = x.todo /\ y.failed = x.failed \ {m}
  BY <1>1 DEF ExecOK, Exec
<1>4. bop[b].status # "absent"  BY <1>1, Executed
<1>5. CASE ev' = [ev EXCEPT ![m] = Released(ev[m], clock + 1)] /\ UNCHANGED faults
  <2>1. RowsDrain /\ ~Waits(ev'[m], b)  BY <1>5, ReleasedDrain
  <2>2. faults'.release = 0 => faults.release = 0 /\ Tracks(ev', b, x)
    BY <1>5, <2>1, DrainTracks DEF CInv
  <2>3. Tracks(ev', b, x) => Tracks(ev', b, y)
    BY <1>1, <1>3, <2>1 DEF Tracks, AtHand
  <2> HIDE DEF x, y
  <2> QED  BY <1>1, <1>2, <1>3, <1>4, <2>1, <2>2, <2>3, CKeptBecome
<1>6. CASE UNCHANGED ev /\ faults' = [faults EXCEPT !.release = @ + 1]
  <2>1. faults'.release # 0
    <3>1. faults.release \in 0..MaxReleaseFaults /\ faults'.release = faults.release + 1
      BY <1>6, FaultTypes
    <3> QED  BY <3>1
  <2> HIDE DEF x, y
  <2> QED  BY <1>1, <1>2, <1>3, <1>4, <1>6, <2>1, SameDrain, CKeptBecome
<1> QED  BY <1>5, <1>6 DEF ReleaseBatchMember

LEMMA FinalizeBatchC ==
  ASSUME IInv, CInv, NEW b \in Batches, NEW g \in Generations, FinalizeBatch(b, g)
  PROVE  CInv'
<1> DEFINE x == exec[b][g]
<1>1. UNCHANGED <<ev, bop, faults>> /\ x.phase = "loop" /\ x.todo = {} /\ x.failed = {}
  BY DEF FinalizeBatch
<1>2. RowsDrain /\ BatchesStay  BY <1>1, SameDrain, StayKept
<1>3. PICK o \in {"succeeded", "needs_review", "dead_letter"} : Finish(b, g, o)
  BY DEF FinalizeBatch
<1>4. bop[b].status # "absent"  BY <1>1, Executed
<1>5. PICK y : ExecOK(y) /\ Become(b, g, y) /\ y.phase = "finish" /\ y.outcome = o
  BY <1>3, FinishEffect
<1>6. faults'.release = 0 => faults.release = 0 /\ Tracks(ev', b, y)
  <2>1. Tracks(ev, b, x) => \A m \in Members : ~(Waits(ev[m], b) /\ ~ev[m].concluded)
    BY <1>1 DEF Tracks, AtHand
  <2>2. Tracks(ev, b, x) => Tracks(ev', b, y)  BY <1>1, <2>1 DEF Tracks
  <2> QED  BY <1>1, <2>2 DEF CInv
<1> QED  BY <1>2, <1>4, <1>5, <1>6, CKeptBecome

LEMMA WriteResultC ==
  ASSUME IInv, CInv, NEW b \in Batches, NEW g \in Generations, WriteResult(b, g)
  PROVE  CInv'
<1> DEFINE x == exec[b][g]
           st == IF x.outcome = "retry" /\ g >= BatchAttempts THEN "dead_letter" ELSE x.outcome
<1>1. x.phase = "finish" /\ Over(b, g) /\ UNCHANGED faults  BY DEF WriteResult
<1>2. st \in Terminal \union {"retry"} /\ (st = "succeeded" => x.outcome = "succeeded")
  <2>1. x.outcome # "none" /\ x \in Exec  BY <1>1, ExecType DEF ExecOK
  <2>2. x.outcome \in Terminal \union {"retry"}  BY <2>1 DEF Exec, Terminal
  <2> QED  BY <2>2 DEF Terminal
<1>3. \/ UNCHANGED <<ev, bop>>
      \/ bop' = [bop EXCEPT ![b].status = "retry_wait"] /\ UNCHANGED ev
      \/ st # "retry" /\ bop' = [bop EXCEPT ![b].status = st] /\ SettleMembers(b, st)
  BY DEF WriteResult
<1> HIDE DEF st
<1>4. CASE UNCHANGED <<ev, bop>>
  BY <1>1, <1>4, SameDrain, StayKept, OverC
<1>5. CASE bop' = [bop EXCEPT ![b].status = "retry_wait"] /\ UNCHANGED ev
  BY <1>1, <1>5, SameDrain, StayKept, OverC DEF LiveStatus
<1>6. CASE st # "retry" /\ bop' = [bop EXCEPT ![b].status = st] /\ SettleMembers(b, st)
  <2>1. st \in Terminal  BY <1>2, <1>6
  <2>2. BatchesStay  BY <1>6, <2>1, StayKept
  <2>3. CASE faults.release = 0
    <3>1. st = "succeeded" => \A m \in Members : Waits(ev[m], b) => ev[m].concluded
      BY <1>1, <1>2, <2>3 DEF CInv, Tracks
    <3>2. RowsDrain  BY <1>6, <2>1, <3>1, SettledDrain
    <3> QED  BY <1>1, <2>2, <3>2, OverC
  <2>4. CASE faults.release # 0
    <3>1. \A c \in Batches, h \in Generations :
            bop'[c].status = "absent" => exec'[c][h].phase = "none"
      <4>1. PICK y : ExecOK(y) /\ Become(b, g, y)  BY <1>1, OverEffect
      <4>2. \A c \in Batches, h \in Generations :
              c # b \/ h # g => exec'[c][h] = exec[c][h]
        BY <4>1, BecomeEffect
      <4>3. bop[b].status # "absent"  BY <1>1, Executed
      <4> QED  BY <2>2, <4>2, <4>3 DEF CInv, BatchesStay
    <3> QED  BY <1>1, <2>4, <3>1 DEF CInv
  <2> QED  BY <2>3, <2>4
<1> QED  BY <1>3, <1>4, <1>5, <1>6

LEMMA StepCInv == IInv /\ CInv /\ [Next]_vars => CInv'
<1> SUFFICES ASSUME IInv, CInv, [Next]_vars  PROVE CInv'
  OBVIOUS
<1>1. CASE UNCHANGED vars \/ (\E m \in Members : Submit(m) \/ BecomeDue(m))
  BY <1>1, OutsideC
<1>2. CASE Tick \/ NextDay
  BY <1>2, OutsideC, CreateBatchC DEF Tick
<1>3. CASE \E b \in Batches : ClaimBatch(b) \/ LoseLease(b) \/ RecoverLease(b)
  BY <1>3, OutsideC, ClaimBatchC
<1>4. CASE \E b \in Batches, g \in Generations : ExecStep(b, g) \/ ExecutionDies(b, g)
  BY <1>4, StartBatchC, LoadBatchMembersC, BeginBatchMemberC, MemberWritesNothingC,
     GraphFailsC, MarkCommitC, CommitMemberC, ReleaseBatchMemberC, FinalizeBatchC,
     WriteResultC, ExecutionDiesC
  DEF ExecStep
<1>5. CASE \E c \in Clients, t \in Members \union Batches : CancelRead(c, t)
  BY <1>5, OutsideC
<1>6. CASE \E c \in Clients : CancelWrite(c)
  BY <1>6, CancelWriteC
<1> QED  BY <1>1, <1>2, <1>3, <1>4, <1>5, <1>6 DEF Next

LEMMA CInvariance == Spec => [](IInv /\ CInv)
BY InitIInv, InitCInv, StepIInv, StepCInv, PTL DEF Spec

(* No evidence is lost, whatever leases run out, executions overlap and    *)
(* cancels come: as long as every release transaction went through,        *)
(* evidence settled as succeeded was written, found to change nothing, or  *)
(* left to a human.                                                        *)
THEOREM NothingLost == Spec => [](faults.release = 0 => SucceededWasConcluded)
<1>1. CInv => (faults.release = 0 => SucceededWasConcluded)  BY DEF CInv
<1> QED  BY <1>1, CInvariance, PTL

(* ---- how often evidence is written ------------------------------------ *)

LEMMA NumbersPaid ==
  ASSUME IInv, IsFiniteSet(CarriedOut)
  PROVE  /\ Disturbances \in Nat /\ faults.lease \in Nat
         /\ \A m \in Members : committed[m] \in Nat
<1>1. Cardinality(CarriedOut) \in Nat  BY FS_CardinalityType
<1>2. faults.lease \in Nat  BY FaultTypes
<1> QED  BY <1>1, <1>2 DEF Disturbances, IInv, Types

LEMMA InitPaidInv == Init => PaidInv
<1> SUFFICES ASSUME Init  PROVE PaidInv
  OBVIOUS
<1>1. CarriedOut = {}  BY DEF Init, CarriedOut
<1>2. Disturbances = 0  BY <1>1, FS_EmptySet DEF Disturbances, Init
<1>3. ASSUME NEW m \in Members  PROVE PaidFor(m)
  <2>1. \A b \in Batches, g \in Generations : exec[b][g].phase = "none"
    BY DEF Init, NoExec
  <2>2. Strays(m) = {}  BY <2>1 DEF Strays, Stray, MayWrite, Alive
  <2>3. Writing(m) = {}  BY <2>1 DEF Writing, AtWork
  <2> QED  BY <1>2, <2>2, <2>3, FS_EmptySet DEF Init, PaidFor
<1> QED  BY <1>1, <1>3, FS_EmptySet DEF PaidInv

(* Disturbances only grow: by every lease fault and every cancel.          *)
Disturbing ==
  \/ \E b \in Batches : LoseLease(b)
  \/ \E b \in Batches, g \in Generations : ExecutionDies(b, g)
  \/ \E c \in Clients : CancelWrite(c)

LEMMA WhatDisturbs ==
  ASSUME IInv, [Next]_vars
  PROVE  \/ UNCHANGED <<cancel, faults>>
         \/ UNCHANGED cancel /\ faults' = [faults EXCEPT !.release = @ + 1]
         \/ UNCHANGED cancel /\ LeaseFault
         \/ UNCHANGED faults /\ \E c \in Clients, t \in Members \union Batches : CancelRead(c, t)
         \/ UNCHANGED faults /\ \E c \in Clients : CancelWrite(c)
<1>1. ASSUME NEW b \in Batches, NEW g \in Generations, ExecStep(b, g)
      PROVE  /\ UNCHANGED cancel
             /\ UNCHANGED faults \/ faults' = [faults EXCEPT !.release = @ + 1]
  <2>1. ASSUME NEW m \in Members, ReleaseBatchMember(b, g, m)
        PROVE  /\ UNCHANGED cancel
               /\ UNCHANGED faults \/ faults' = [faults EXCEPT !.release = @ + 1]
    BY <2>1 DEF ReleaseBatchMember
  <2>2. StartBatch(b, g) \/ LoadBatchMembers(b, g) => UNCHANGED <<cancel, faults>>
    BY DEF StartBatch, LoadBatchMembers
  <2>3. \A m \in Members : BeginBatchMember(b, g, m) => UNCHANGED <<cancel, faults>>
    BY DEF BeginBatchMember
  <2>4. MemberWritesNothing(b, g) \/ GraphFails(b, g) \/ MarkCommit(b, g) \/ CommitMember(b, g)
          => UNCHANGED <<cancel, faults>>
    BY DEF MemberWritesNothing, GraphFails, MarkCommit, CommitMember
  <2>5. FinalizeBatch(b, g) \/ WriteResult(b, g) => UNCHANGED <<cancel, faults>>
    BY DEF FinalizeBatch, WriteResult
  <2> QED  BY <1>1, <2>1, <2>2, <2>3, <2>4, <2>5 DEF ExecStep
<1>2. CASE \E b \in Batches, g \in Generations : ExecutionDies(b, g)
  BY <1>2 DEF ExecutionDies
<1>3. CASE \E b \in Batches : LoseLease(b)
  BY <1>3 DEF LoseLease
<1>4. CASE \E c \in Clients, t \in Members \union Batches : CancelRead(c, t)
  BY <1>4 DEF CancelRead
<1>5. CASE \E c \in Clients : CancelWrite(c)
  BY <1>5 DEF CancelWrite
<1>6. CASE \E b \in Batches, g \in Generations : ExecStep(b, g)
  BY <1>1, <1>6
<1>7. CASE \/ UNCHANGED vars \/ Tick \/ NextDay
           \/ \E m \in Members : Submit(m) \/ BecomeDue(m)
           \/ \E b \in Batches : ClaimBatch(b) \/ RecoverLease(b)
  BY <1>7 DEF vars, Tick, TickWithoutBatch, SelectMembers, CreateBatch, NextDay, Submit,
              BecomeDue, ClaimBatch, RecoverLease
<1> QED  BY <1>2, <1>3, <1>4, <1>5, <1>6, <1>7 DEF Next

LEMMA NeverLess ==
  ASSUME IInv, IsFiniteSet(CarriedOut), [Next]_vars
  PROVE  /\ IsFiniteSet(CarriedOut') /\ Disturbances' \in Nat
         /\ Disturbances <= Disturbances'
         /\ faults.lease <= faults'.lease /\ faults'.lease \in Nat
<1>1. /\ Disturbances \in Nat /\ faults.lease \in Nat /\ Cardinality(CarriedOut) \in Nat
      /\ faults \in [lease : 0..MaxFaults, release : 0..MaxReleaseFaults]
  BY NumbersPaid, FaultTypes, FS_CardinalityType
<1>2. cancel \in [Clients -> Request]  BY DEF IInv, Types
<1>3. CASE UNCHANGED cancel
  <2>1. CarriedOut' = CarriedOut  BY <1>3 DEF CarriedOut
  <2>2. \/ faults' = faults \/ faults' = [faults EXCEPT !.release = @ + 1]
        \/ faults' = [faults EXCEPT !.lease = @ + 1]
    BY <1>3, WhatDisturbs DEF LeaseFault
  <2>3. faults'.lease = faults.lease \/ faults'.lease = faults.lease + 1
    BY <1>1, <2>2
  <2> QED  BY <1>1, <2>1, <2>3 DEF Disturbances
<1>4. CASE UNCHANGED faults /\ \E c \in Clients : \E q :
             cancel' = [cancel EXCEPT ![c] = q] /\ cancel[c].phase # "done"
  <2> PICK c \in Clients : \E q :
             cancel' = [cancel EXCEPT ![c] = q] /\ cancel[c].phase # "done"
    BY <1>4
  <2>1. \A d \in Clients : d # c => cancel'[d] = cancel[d]  BY <1>2
  <2>2. CarriedOut' = CarriedOut \/ CarriedOut' = CarriedOut \union {c}
    BY <2>1 DEF CarriedOut
  <2>3. c \notin CarriedOut  BY DEF CarriedOut
  <2>4. /\ IsFiniteSet(CarriedOut \union {c})
        /\ Cardinality(CarriedOut \union {c}) = Cardinality(CarriedOut) + 1
    BY <2>3, FS_AddElement
  <2>5. IsFiniteSet(CarriedOut') /\ Cardinality(CarriedOut') \in Nat
        /\ Cardinality(CarriedOut) <= Cardinality(CarriedOut')
    <3>1. CASE CarriedOut' = CarriedOut  BY <1>1, <3>1
    <3>2. CASE CarriedOut' = CarriedOut \union {c}  BY <1>1, <2>4, <3>2
    <3> QED  BY <2>2, <3>1, <3>2
  <2> QED  BY <1>1, <1>4, <2>5 DEF Disturbances
<1>5. CASE \E c \in Clients, t \in Members \union Batches : CancelRead(c, t)
  <2>1. UNCHANGED faults  BY <1>5 DEF CancelRead
  <2> QED  BY <1>4, <1>5, <2>1 DEF CancelRead
<1>6. CASE \E c \in Clients : CancelWrite(c)
  <2>1. UNCHANGED faults  BY <1>6 DEF CancelWrite
  <2> QED  BY <1>4, <1>6, <2>1 DEF CancelWrite
<1> QED  BY <1>3, <1>5, <1>6, WhatDisturbs

LEMMA OneMore ==
  ASSUME IInv, IsFiniteSet(CarriedOut), [Next]_vars, Disturbing
  PROVE  Disturbances + 1 <= Disturbances'
<1>1. /\ Disturbances \in Nat /\ faults.lease \in Nat /\ Cardinality(CarriedOut) \in Nat
      /\ faults \in [lease : 0..MaxFaults, release : 0..MaxReleaseFaults]
  BY NumbersPaid, FaultTypes, FS_CardinalityType
<1>2. cancel \in [Clients -> Request]  BY DEF IInv, Types
<1>3. CASE UNCHANGED cancel /\ LeaseFault
  <2>1. CarriedOut' = CarriedOut  BY <1>3 DEF CarriedOut
  <2>2. faults'.lease = faults.lease + 1  BY <1>1, <1>3 DEF LeaseFault
  <2> QED  BY <1>1, <2>1, <2>2 DEF Disturbances
<1>4. CASE \E c \in Clients : CancelWrite(c)
  <2> PICK c \in Clients : CancelWrite(c)  BY <1>4
  <2>1. cancel'[c].phase = "done" /\ \A d \in Clients : d # c => cancel'[d] = cancel[d]
    BY <1>2 DEF CancelWrite
  <2>2. c \notin CarriedOut /\ UNCHANGED faults  BY DEF CarriedOut, CancelWrite
  <2>3. CarriedOut' = CarriedOut \union {c}  BY <2>1 DEF CarriedOut
  <2>4. Cardinality(CarriedOut \union {c}) = Cardinality(CarriedOut) + 1
    BY <2>2, FS_AddElement
  <2> QED  BY <1>1, <2>2, <2>3, <2>4 DEF Disturbances
<1> QED  BY <1>3, <1>4 DEF Disturbing, LoseLease, ExecutionDies

(* What a step may do to the strays and writers of one member.             *)
NothingNew(m) ==
  \A c \in Batches, h \in Generations :
    /\ Stray(c, h, m)' => Stray(c, h, m)
    /\ AtWork(exec'[c][h], m) => AtWork(exec[c][h], m)

OneNewStray(m) ==
  \E p : \A c \in Batches, h \in Generations :
    /\ Stray(c, h, m)' => Stray(c, h, m) \/ <<c, h>> = p
    /\ AtWork(exec'[c][h], m) => AtWork(exec[c][h], m)

OneStrayForAnother(m) ==
  \E p : \E b \in Batches, g \in Generations :
    /\ Stray(b, g, m) /\ ~Stray(b, g, m)'
    /\ \A c \in Batches, h \in Generations :
         /\ Stray(c, h, m)' => Stray(c, h, m) \/ <<c, h>> = p
         /\ AtWork(exec'[c][h], m) => AtWork(exec[c][h], m)

LEMMA WritersKept ==
  ASSUME IInv, PaidInv, [Next]_vars, NEW m \in Members, committed'[m] = committed[m],
         \A c \in Batches, h \in Generations :
           AtWork(exec'[c][h], m) => AtWork(exec[c][h], m)
  PROVE  /\ IsFiniteSet(Writing(m)')
         /\ committed'[m] + Cardinality(Writing(m)') <= 1 + Disturbances'
<1>1. Writing(m)' \subseteq Writing(m)  BY DEF Writing
<1>2. /\ Disturbances \in Nat /\ Disturbances' \in Nat /\ Disturbances <= Disturbances'
      /\ committed[m] \in Nat /\ PaidFor(m)
  BY NumbersPaid, NeverLess DEF PaidInv
<1>3. /\ IsFiniteSet(Writing(m)') /\ Cardinality(Writing(m)') <= Cardinality(Writing(m))
      /\ Cardinality(Writing(m)) \in Nat /\ Cardinality(Writing(m)') \in Nat
  BY <1>1, <1>2, FS_Subset, FS_CardinalityType DEF PaidFor
<1> QED  BY <1>2, <1>3 DEF PaidFor

LEMMA NothingNewPaid ==
  ASSUME IInv, PaidInv, [Next]_vars, NEW m \in Members, committed'[m] = committed[m],
         NothingNew(m)
  PROVE  PaidFor(m)'
<1>1. Strays(m)' \subseteq Strays(m)  BY DEF NothingNew, Strays
<1>2. /\ Disturbances \in Nat /\ Disturbances' \in Nat /\ Disturbances <= Disturbances'
      /\ PaidFor(m)
  BY NumbersPaid, NeverLess DEF PaidInv
<1>3. /\ IsFiniteSet(Strays(m)') /\ Cardinality(Strays(m)') <= Cardinality(Strays(m))
      /\ Cardinality(Strays(m)) \in Nat /\ Cardinality(Strays(m)') \in Nat
  BY <1>1, <1>2, FS_Subset, FS_CardinalityType DEF PaidFor
<1> QED  BY <1>2, <1>3, WritersKept DEF PaidFor, NothingNew

LEMMA AddOne ==
  ASSUME NEW S, NEW p, IsFiniteSet(S)
  PROVE  IsFiniteSet(S \union {p}) /\ Cardinality(S \union {p}) <= Cardinality(S) + 1
<1>1. Cardinality(S) \in Nat  BY FS_CardinalityType
<1>2. /\ IsFiniteSet(S \union {p})
      /\ Cardinality(S \union {p}) = IF p \in S THEN Cardinality(S) ELSE Cardinality(S) + 1
  BY FS_AddElement
<1> QED  BY <1>1, <1>2

LEMMA OneNewStrayPaid ==
  ASSUME IInv, PaidInv, [Next]_vars, NEW m \in Members, committed'[m] = committed[m],
         OneNewStray(m), Disturbing
  PROVE  PaidFor(m)'
<1> PICK p : \A c \in Batches, h \in Generations :
               /\ Stray(c, h, m)' => Stray(c, h, m) \/ <<c, h>> = p
               /\ AtWork(exec'[c][h], m) => AtWork(exec[c][h], m)
  BY DEF OneNewStray
<1>1. Strays(m)' \subseteq Strays(m) \union {p}
  <2> SUFFICES ASSUME NEW c \in Batches, NEW h \in Generations, Stray(c, h, m)'
               PROVE  <<c, h>> \in Strays(m) \union {p}
    BY DEF Strays
  <2> QED  BY DEF Strays
<1>2. /\ Disturbances \in Nat /\ Disturbances' \in Nat /\ Disturbances + 1 <= Disturbances'
      /\ PaidFor(m)
  BY NumbersPaid, NeverLess, OneMore DEF PaidInv
<1>3. /\ IsFiniteSet(Strays(m) \union {p}) /\ Cardinality(Strays(m)) \in Nat
      /\ Cardinality(Strays(m) \union {p}) <= Cardinality(Strays(m)) + 1
  <2>1. IsFiniteSet(Strays(m)) /\ Cardinality(Strays(m)) \in Nat
    BY <1>2, FS_CardinalityType DEF PaidFor
  <2> QED  BY <2>1, AddOne
<1>4. /\ IsFiniteSet(Strays(m)') /\ Cardinality(Strays(m) \union {p}) \in Nat
      /\ Cardinality(Strays(m)') <= Cardinality(Strays(m) \union {p})
      /\ Cardinality(Strays(m)') \in Nat
  BY <1>1, <1>3, FS_Subset, FS_CardinalityType
<1> QED  BY <1>2, <1>3, <1>4, WritersKept DEF PaidFor

LEMMA OneStrayForAnotherPaid ==
  ASSUME IInv, PaidInv, [Next]_vars, NEW m \in Members, committed'[m] = committed[m],
         OneStrayForAnother(m)
  PROVE  PaidFor(m)'
<1> PICK p : \E b \in Batches, g \in Generations :
      /\ Stray(b, g, m) /\ ~Stray(b, g, m)'
      /\ \A c \in Batches, h \in Generations :
           /\ Stray(c, h, m)' => Stray(c, h, m) \/ <<c, h>> = p
           /\ AtWork(exec'[c][h], m) => AtWork(exec[c][h], m)
  BY DEF OneStrayForAnother
<1> PICK b \in Batches, g \in Generations :
      /\ Stray(b, g, m) /\ ~Stray(b, g, m)'
      /\ \A c \in Batches, h \in Generations :
           /\ Stray(c, h, m)' => Stray(c, h, m) \/ <<c, h>> = p
           /\ AtWork(exec'[c][h], m) => AtWork(exec[c][h], m)
  OBVIOUS
<1> DEFINE q == <<b, g>>
           T == Strays(m) \ {q}
<1>0. q \in Strays(m)  BY DEF Strays
<1>1. Strays(m)' \subseteq T \union {p}
  <2> SUFFICES ASSUME NEW c \in Batches, NEW h \in Generations, Stray(c, h, m)'
               PROVE  <<c, h>> \in T \union {p}
    BY DEF Strays
  <2>1. <<c, h>> # q  OBVIOUS
  <2> QED  BY <2>1 DEF Strays
<1>2. /\ Disturbances \in Nat /\ Disturbances' \in Nat /\ Disturbances <= Disturbances'
      /\ PaidFor(m)
  BY NumbersPaid, NeverLess DEF PaidInv
<1>3. /\ IsFiniteSet(T) /\ Cardinality(T) \in Nat /\ Cardinality(Strays(m)) \in Nat
      /\ Cardinality(T) = Cardinality(Strays(m)) - 1
  BY <1>0, <1>2, FS_RemoveElement, FS_CardinalityType DEF PaidFor
<1> HIDE DEF T
<1>4. IsFiniteSet(T \union {p}) /\ Cardinality(T \union {p}) <= Cardinality(T) + 1
  BY <1>3, AddOne
<1>5. /\ IsFiniteSet(Strays(m)') /\ Cardinality(T \union {p}) \in Nat
      /\ Cardinality(Strays(m)') <= Cardinality(T \union {p})
      /\ Cardinality(Strays(m)') \in Nat
  BY <1>1, <1>4, FS_Subset, FS_CardinalityType
<1> QED  BY <1>2, <1>3, <1>4, <1>5, WritersKept DEF PaidFor

(* The steps that add neither a stray nor a writer, nor a commit.          *)
AllQuiet == UNCHANGED committed /\ \A m \in Members : NothingNew(m)

LEMMA SameExecQuiet ==
  ASSUME NEW m \in Members, UNCHANGED exec,
         \A c \in Batches, h \in Generations :
           MayWrite(exec[c][h], m) /\ Rightful(c, h, m) => Rightful(c, h, m)'
  PROVE  NothingNew(m)
BY DEF NothingNew, Stray

LEMMA OwnMove ==
  ASSUME IInv, NEW m \in Members, UNCHANGED bop,
         NEW b \in Batches, NEW g \in Generations, NEW x, ExecOK(x), Become(b, g, x),
         \A c \in Batches : Waits(ev[m], c) => Waits(ev'[m], c),
         Stray(b, g, m)' => Stray(b, g, m),
         AtWork(x, m) => AtWork(exec[b][g], m)
  PROVE  NothingNew(m)
<1>1. /\ exec'[b][g] = x
      /\ \A c \in Batches, h \in Generations :
           c # b \/ h # g => exec'[c][h] = exec[c][h]
  BY BecomeEffect
<1>2. ASSUME NEW c \in Batches, NEW h \in Generations, c # b \/ h # g
      PROVE  /\ Stray(c, h, m)' => Stray(c, h, m)
             /\ AtWork(exec'[c][h], m) => AtWork(exec[c][h], m)
  <2>1. exec'[c][h] = exec[c][h]  BY <1>1, <1>2
  <2> QED  BY <2>1 DEF Stray, Rightful, LeaseCAS
<1> QED  BY <1>1, <1>2 DEF NothingNew

(* An execution that goes on has no more at hand than before; one that     *)
(* ends has nothing.                                                       *)
LEMMA OwnLess ==
  ASSUME IInv, NEW m \in Members, UNCHANGED bop,
         NEW b \in Batches, NEW g \in Generations, NEW x, ExecOK(x), Become(b, g, x),
         \A c \in Batches : Waits(ev[m], c) => Waits(ev'[m], c),
         x.phase # "load", Alive(exec[b][g]), exec[b][g].phase # "load",
         m \in AtHand(x) => m \in AtHand(exec[b][g]),
         AtWork(x, m) => AtWork(exec[b][g], m)
  PROVE  NothingNew(m)
<1>1. exec'[b][g] = x  BY BecomeEffect
<1>2. Stray(b, g, m)' => Stray(b, g, m)
  BY <1>1 DEF Stray, MayWrite, Rightful, LeaseCAS
<1> QED  BY <1>2, OwnMove

LEMMA OwnEnd ==
  ASSUME IInv, NEW m \in Members, UNCHANGED bop, NEW b \in Batches, NEW g \in Generations,
         \/ Over(b, g)
         \/ \E o \in {"succeeded", "needs_review", "dead_letter", "retry", "cancelled"} :
              Finish(b, g, o),
         \A c \in Batches : Waits(ev[m], c) => Waits(ev'[m], c)
  PROVE  NothingNew(m)
<1>1. PICK x : ExecOK(x) /\ Become(b, g, x) /\ x.phase \in {"over", "finish"} /\ AtHand(x) = {}
  <2>1. CASE Over(b, g)
    <3> DEFINE x == [NoExec EXCEPT !.phase = "over"]
    <3>1. ExecOK(x) /\ x.phase = "over" /\ x.todo = {} /\ x.failed = {}
      BY ExecConstants DEF NoExec
    <3>2. Become(b, g, x)  BY <2>1 DEF Over
    <3> HIDE DEF x
    <3> QED  BY <3>1, <3>2 DEF AtHand
  <2>2. ASSUME NEW o \in {"succeeded", "needs_review", "dead_letter", "retry", "cancelled"},
               Finish(b, g, o)
        PROVE  \E x : ExecOK(x) /\ Become(b, g, x) /\ x.phase = "finish" /\ AtHand(x) = {}
    <3> DEFINE x == [NoExec EXCEPT !.phase = "finish", !.outcome = o]
    <3>1. ExecOK(x) /\ x.phase = "finish" /\ x.todo = {} /\ x.failed = {}
      BY ExecConstants DEF NoExec
    <3>2. Become(b, g, x)  BY <2>2 DEF Finish
    <3> HIDE DEF x
    <3> QED  BY <3>1, <3>2 DEF AtHand
  <2> QED  BY <2>1, <2>2
<1>2. exec'[b][g] = x  BY <1>1, BecomeEffect
<1>3. ~Stray(b, g, m)'  BY <1>1, <1>2 DEF Stray, MayWrite
<1>4. ~AtWork(x, m)  BY <1>1 DEF AtWork
<1> QED  BY <1>1, <1>3, <1>4, OwnMove

LEMMA OutsideQuiet ==
  ASSUME IInv,
         \/ UNCHANGED vars \/ TickWithoutBatch \/ SelectMembers \/ NextDay
         \/ \E m \in Members : Submit(m) \/ BecomeDue(m)
         \/ \E b \in Batches : RecoverLease(b)
         \/ \E c \in Clients, t \in Members \union Batches : CancelRead(c, t)
  PROVE  AllQuiet
<1>1. bop \in [Batches -> BatchRow] /\ ev \in [Members -> Row]  BY DEF IInv, Types
<1>2. CASE \E b \in Batches : RecoverLease(b)
  <2> PICK b \in Batches : RecoverLease(b)  BY <1>2
  <2>1. UNCHANGED <<ev, exec, committed>> /\ \A c \in Batches : c # b => bop'[c] = bop[c]
    BY <1>1 DEF RecoverLease
  <2>2. ~Alive(exec[b][bop[b].generation])  BY DEF RecoverLease
  <2>3. ASSUME NEW m \in Members, NEW c \in Batches, NEW h \in Generations,
               MayWrite(exec[c][h], m), Rightful(c, h, m)
        PROVE  Rightful(c, h, m)'
    <3>1. c # b  BY <2>2, <2>3 DEF MayWrite, Rightful, LeaseCAS
    <3> QED  BY <2>1, <2>3, <3>1 DEF Rightful, LeaseCAS
  <2> QED  BY <2>1, <2>3, SameExecQuiet DEF AllQuiet
<1>3. ASSUME UNCHANGED <<exec, bop, committed>>,
             \A m \in Members, c \in Batches : Waits(ev[m], c) => Waits(ev'[m], c)
      PROVE  AllQuiet
  <2>1. \A m \in Members, c \in Batches, h \in Generations :
          Rightful(c, h, m) => Rightful(c, h, m)'
    BY <1>3 DEF Rightful, LeaseCAS
  <2> QED  BY <1>3, <2>1, SameExecQuiet DEF AllQuiet
<1>4. CASE \E m \in Members : Submit(m) \/ BecomeDue(m)
  <2> PICK n \in Members : Submit(n) \/ BecomeDue(n)  BY <1>4
  <2>1. UNCHANGED <<exec, bop, committed>>  BY DEF Submit, BecomeDue
  <2>2. \A m \in Members : m # n => ev'[m] = ev[m]  BY <1>1 DEF Submit, BecomeDue
  <2>3. \A c \in Batches : Waits(ev[n], c) => Waits(ev'[n], c)
    BY <1>1 DEF Waits, Submit, BecomeDue, Row
  <2> QED  BY <1>3, <2>1, <2>2, <2>3
<1>5. CASE \/ UNCHANGED vars \/ TickWithoutBatch \/ SelectMembers \/ NextDay
           \/ \E c \in Clients, t \in Members \union Batches : CancelRead(c, t)
  <2>1. UNCHANGED <<ev, exec, bop, committed>>
    BY <1>5 DEF vars, TickWithoutBatch, SelectMembers, NextDay, CancelRead
  <2> QED  BY <1>3, <2>1
<1> QED  BY <1>2, <1>4, <1>5

LEMMA CreateBatchQuiet ==
  ASSUME IInv, NEW b \in Batches, CreateBatch(b)  PROVE AllQuiet
<1>1. bop \in [Batches -> BatchRow] /\ ev \in [Members -> Row]  BY DEF IInv, Types
<1>2. UNCHANGED <<exec, committed>> /\ bop[b].status = "absent"  BY DEF CreateBatch
<1>3. \A c \in Batches : c # b => bop'[c] = bop[c]  BY <1>1 DEF CreateBatch
<1>4. \A m \in Members : ev[m].batch # NoBatch => ev'[m] = ev[m]
  BY DEF CreateBatch, Assigned, Pool, InPool
<1>5. ASSUME NEW m \in Members, NEW c \in Batches, NEW h \in Generations, Rightful(c, h, m)
      PROVE  Rightful(c, h, m)'
  <2>1. c # b  BY <1>2, <1>5 DEF Rightful, LeaseCAS
  <2>2. Waits(ev[m], c) => Waits(ev'[m], c)  BY <1>4, Constants DEF Waits
  <2> QED  BY <1>2, <1>3, <1>5, <2>1, <2>2 DEF Rightful, LeaseCAS
<1> QED  BY <1>2, <1>5, SameExecQuiet DEF AllQuiet

LEMMA ClaimBatchQuiet ==
  ASSUME IInv, NEW b \in Batches, ClaimBatch(b)  PROVE AllQuiet
<1> DEFINE x == [NoExec EXCEPT !.phase = "start"]
           g == bop[b].generation + 1
<1>1. g \in Generations /\ bop \in [Batches -> BatchRow]  BY BatchTypes DEF ClaimBatch
<1>2. UNCHANGED <<ev, committed>> /\ Become(b, g, x)  BY DEF ClaimBatch
<1>3. \A h \in Generations : ~LeaseCAS(b, h)  BY DEF ClaimBatch, LeaseCAS
<1>4. \A c \in Batches : c # b => bop'[c] = bop[c]  BY <1>1 DEF ClaimBatch
<1>5. ExecOK(x) /\ x.phase = "start" /\ x.todo = {} /\ x.failed = {}
  BY ExecConstants DEF NoExec
<1> HIDE DEF x, g
<1>6. /\ exec'[b][g] = x
      /\ \A c \in Batches, h \in Generations :
           c # b \/ h # g => exec'[c][h] = exec[c][h]
  BY <1>1, <1>2, <1>5, BecomeEffect
<1>7. ASSUME NEW m \in Members, NEW c \in Batches, NEW h \in Generations
      PROVE  /\ Stray(c, h, m)' => Stray(c, h, m)
             /\ AtWork(exec'[c][h], m) => AtWork(exec[c][h], m)
  <2>1. CASE c = b /\ h = g
    BY <1>5, <1>6, <2>1 DEF Stray, MayWrite, AtHand, AtWork
  <2>2. CASE c = b /\ h # g
    BY <1>3, <1>6, <2>2 DEF Stray, Rightful
  <2>3. CASE c # b
    BY <1>2, <1>4, <1>6, <2>3 DEF Stray, Rightful, LeaseCAS
  <2> QED  BY <2>1, <2>2, <2>3
<1> QED  BY <1>2, <1>7 DEF AllQuiet, NothingNew

LEMMA StartBatchQuiet ==
  ASSUME IInv, NEW b \in Batches, NEW g \in Generations, StartBatch(b, g)
  PROVE  AllQuiet
<1> DEFINE x == [exec[b][g] EXCEPT !.phase = "load"]
<1>1. UNCHANGED <<ev, bop, committed>>  BY DEF StartBatch
<1>2. CASE Over(b, g) \/ Finish(b, g, "cancelled")
  BY <1>1, <1>2, OwnEnd DEF AllQuiet
<1>3. CASE LeaseCAS(b, g) /\ Become(b, g, x)
  <2>1. ExecOK(x) /\ x.phase = "load"  BY ToLoad DEF StartBatch
  <2> HIDE DEF x
  <2>2. exec'[b][g] = x  BY <1>3, <2>1, BecomeEffect
  <2>3. \A m \in Members : ~Stray(b, g, m)' /\ ~AtWork(x, m)
    BY <1>1, <1>3, <2>1, <2>2 DEF Stray, Rightful, LeaseCAS, AtWork
  <2> QED  BY <1>1, <1>3, <2>1, <2>3, OwnMove DEF AllQuiet
<1> QED  BY <1>2, <1>3 DEF StartBatch

LEMMA LoadBatchMembersQuiet ==
  ASSUME IInv, NEW b \in Batches, NEW g \in Generations, LoadBatchMembers(b, g)
  PROVE  AllQuiet
<1> DEFINE S == {m \in Members : ev[m].batch = b /\ ev[m].status = "pending_batch"}
           x == [exec[b][g] EXCEPT !.phase = "loop", !.todo = S]
<1>1. /\ UNCHANGED <<ev, bop, committed>> /\ Become(b, g, x) /\ exec[b][g].phase = "load"
  BY DEF LoadBatchMembers
<1>2. ExecOK(x) /\ x.phase = "loop" /\ x.todo = S /\ x.failed = {}
  <2>1. exec[b][g] \in Exec /\ exec[b][g].failed = {}
    BY ExecType DEF ExecOK, LoadBatchMembers
  <2> QED  BY <2>1 DEF ExecOK, Exec
<1>3. \A m \in AtHand(x) : Waits(ev[m], b)  BY <1>2 DEF AtHand, Waits
<1> HIDE DEF x
<1>4. exec'[b][g] = x  BY <1>1, <1>2, BecomeEffect
<1>5. ASSUME NEW m \in Members
      PROVE  (Stray(b, g, m)' => Stray(b, g, m)) /\ ~AtWork(x, m)
  BY <1>1, <1>2, <1>3, <1>4 DEF Stray, MayWrite, Alive, Rightful, LeaseCAS, AtWork
<1> QED  BY <1>1, <1>2, <1>5, OwnMove DEF AllQuiet

(* A conclusion leaves a row where it waits.                               *)
LEMMA ConcludedWaits ==
  ASSUME IInv, NEW n \in Members, ev' = ev \/ ev' = [ev EXCEPT ![n].concluded = TRUE]
  PROVE  \A m \in Members, c \in Batches : Waits(ev[m], c) => Waits(ev'[m], c)
BY ConclusionOnly DEF Waits

LEMMA RecordedAtHand ==
  ASSUME NEW x \in Exec, x.phase \in {"member", "marked"}, NEW o \in Outcomes
  PROVE  /\ AtHand(Recorded(x, o)) \subseteq AtHand(x)
         /\ AtHand([Recorded(x, o) EXCEPT !.wrote = TRUE]) \subseteq AtHand(x)
         /\ [Recorded(x, o) EXCEPT !.wrote = TRUE].phase = "loop"
         /\ Recorded(x, o).phase = "loop"
BY DEF Recorded, AtHand, Exec

LEMMA MemberWritesNothingQuiet ==
  ASSUME IInv, NEW b \in Batches, NEW g \in Generations, MemberWritesNothing(b, g)
  PROVE  AllQuiet
<1> DEFINE x == exec[b][g]
<1>1. /\ UNCHANGED <<bop, committed>> /\ x.phase = "member" /\ x \in Exec /\ Alive(x)
      /\ x.cur \in Members
  BY ExecType DEF MemberWritesNothing, Alive, ExecOK
<1>2. PICK o \in {"no_change", "needs_review", "failed", "errors_only"} :
        Become(b, g, Recorded(x, o)) /\ Concluded(x.cur, o)
  BY DEF MemberWritesNothing
<1>3. PICK y : y = Recorded(x, o)  OBVIOUS
<1>4. ExecOK(y) /\ y.phase = "loop" /\ AtHand(y) \subseteq AtHand(x)
  BY <1>1, <1>3, RecordedOK, RecordedAtHand DEF Outcomes
<1>5. \A m \in Members, c \in Batches : Waits(ev[m], c) => Waits(ev'[m], c)
  <2>1. ev' = ev \/ ev' = [ev EXCEPT ![x.cur].concluded = TRUE]  BY <1>2 DEF Concluded
  <2> QED  BY <1>1, <2>1, ConcludedWaits
<1>6. \A m \in Members : ~AtWork(y, m)  BY <1>4 DEF AtWork
<1> QED  BY <1>1, <1>2, <1>3, <1>4, <1>5, <1>6, OwnLess DEF AllQuiet

LEMMA MarkCommitQuiet ==
  ASSUME IInv, NEW b \in Batches, NEW g \in Generations, MarkCommit(b, g)
  PROVE  AllQuiet
<1> DEFINE x == exec[b][g]
           y == [x EXCEPT !.phase = "marked"]
<1>1. UNCHANGED <<ev, bop, committed>> /\ x.phase = "member" /\ ExecOK(x) /\ Alive(x)
  BY ExecType DEF MarkCommit, Alive
<1>2. CASE Over(b, g)  BY <1>1, <1>2, OwnEnd DEF AllQuiet
<1>3. CASE Become(b, g, y)
  <2>1. /\ ExecOK(y) /\ y.phase = "marked" /\ y.cur = x.cur /\ y.todo = x.todo
        /\ y.failed = x.failed
    BY <1>1 DEF ExecOK, Exec
  <2>2. AtHand(y) \subseteq AtHand(x)  BY <1>1, <2>1 DEF AtHand
  <2>3. \A m \in Members : AtWork(y, m) => AtWork(x, m)  BY <1>1, <2>1 DEF AtWork
  <2> HIDE DEF y
  <2> QED  BY <1>1, <1>3, <2>1, <2>2, <2>3, OwnLess DEF AllQuiet
<1> QED  BY <1>2, <1>3 DEF MarkCommit

LEMMA EndingQuiet ==
  ASSUME IInv, NEW b \in Batches, NEW g \in Generations,
         GraphFails(b, g) \/ FinalizeBatch(b, g) \/ ExecutionDies(b, g)
  PROVE  AllQuiet
<1>1. UNCHANGED <<ev, bop, committed>>  BY DEF GraphFails, FinalizeBatch, ExecutionDies
<1>2. \/ Over(b, g)
      \/ \E o \in {"succeeded", "needs_review", "dead_letter", "retry", "cancelled"} :
           Finish(b, g, o)
  BY DEF GraphFails, FinalizeBatch, ExecutionDies
<1> QED  BY <1>1, <1>2, OwnEnd DEF AllQuiet

(* ---- the steps that do -------------------------------------------------- *)

LEMMA QuietPaid == ASSUME IInv, PaidInv, [Next]_vars, AllQuiet  PROVE PaidInv'
BY NothingNewPaid, NeverLess DEF PaidInv, AllQuiet

(* The only claim in force of a batch is that of its generation: when it   *)
(* is lost, one execution is left over.                                    *)
LEMMA LeaseLost ==
  ASSUME IInv, PaidInv, [Next]_vars, Disturbing, UNCHANGED <<exec, committed>>,
         NEW b \in Batches,
         \A c \in Batches : c # b => bop'[c] = bop[c],
         \A m \in Members, c \in Batches : c # b /\ Waits(ev[m], c) => Waits(ev'[m], c)
  PROVE  PaidInv'
<1> DEFINE p == <<b, bop[b].generation>>
<1>1. ASSUME NEW m \in Members, NEW c \in Batches, NEW h \in Generations, Stray(c, h, m)'
      PROVE  Stray(c, h, m) \/ <<c, h>> = p
  <2>1. CASE c = b  BY <1>1, <2>1 DEF Stray, Rightful, LeaseCAS
  <2>2. CASE c # b  BY <1>1, <2>2 DEF Stray, Rightful, LeaseCAS
  <2> QED  BY <2>1, <2>2
<1>2. \A m \in Members : OneNewStray(m)  BY <1>1 DEF OneNewStray
<1> QED  BY <1>2, OneNewStrayPaid, NeverLess DEF PaidInv

LEMMA LoseLeasePaid ==
  ASSUME IInv, PaidInv, [Next]_vars, NEW b \in Batches, LoseLease(b)  PROVE PaidInv'
<1>1. UNCHANGED <<ev, exec, committed>> /\ \A c \in Batches : c # b => bop'[c] = bop[c]
  BY DEF LoseLease, IInv, Types
<1>2. Disturbing  BY DEF Disturbing
<1> QED  BY <1>1, <1>2, LeaseLost

LEMMA CancelWritePaid ==
  ASSUME IInv, PaidInv, [Next]_vars, NEW c \in Clients, CancelWrite(c)  PROVE PaidInv'
<1> PICK t : t = cancel[c].target  OBVIOUS
<1>1. UNCHANGED <<exec, committed>>  BY DEF CancelWrite
<1>2. t \in Members \union Batches  BY DEF CancelWrite, IInv, RequestOK
<1>3. ev \in [Members -> Row] /\ bop \in [Batches -> BatchRow]  BY DEF IInv, Types
<1>4. Disturbing  BY DEF Disturbing
<1>5. CASE t \in Members
  <2>1. UNCHANGED bop /\ \A m \in Members : m # t => ev'[m] = ev[m]
    BY <1>3, <1>5 DEF CancelWrite
  <2>2. OneNewStray(t)
    <3> DEFINE p == <<ev[t].batch, bop[ev[t].batch].generation>>
    <3>1. ASSUME NEW d \in Batches, NEW h \in Generations, Stray(d, h, t)'
          PROVE  Stray(d, h, t) \/ <<d, h>> = p
      BY <1>1, <2>1, <3>1 DEF Stray, Rightful, LeaseCAS, Waits
    <3> QED  BY <1>1, <3>1 DEF OneNewStray
  <2>3. ASSUME NEW m \in Members, m # t  PROVE NothingNew(m)
    <3>1. \A d \in Batches, h \in Generations : Rightful(d, h, m) => Rightful(d, h, m)'
      BY <1>1, <2>1, <2>3 DEF Rightful, LeaseCAS
    <3> QED  BY <1>1, <3>1, SameExecQuiet
  <2>4. ASSUME NEW m \in Members  PROVE PaidFor(m)'
    <3>1. CASE m = t  BY <1>1, <1>4, <2>2, <3>1, OneNewStrayPaid
    <3>2. CASE m # t  BY <1>1, <2>3, <3>2, NothingNewPaid
    <3> QED  BY <3>1, <3>2
  <2> QED  BY <2>4, NeverLess DEF PaidInv
<1>6. CASE t \notin Members
  <2>1. t \in Batches /\ \A d \in Batches : d # t => bop'[d] = bop[d]
    BY <1>2, <1>3, <1>6 DEF CancelWrite
  <2>2. \A m \in Members : ev'[m] = ev[m] \/ ev[m].batch = t
    BY <1>6 DEF CancelWrite, SettleMembers, Settled
  <2> QED  BY <1>1, <1>4, <2>1, <2>2, LeaseLost DEF Waits
<1> QED  BY <1>5, <1>6

(* A result is written by the claim in force, and nothing of it is left.   *)
LEMMA WriteResultQuiet ==
  ASSUME IInv, NEW b \in Batches, NEW g \in Generations, WriteResult(b, g)
  PROVE  AllQuiet
<1>1. UNCHANGED committed /\ Over(b, g)  BY DEF WriteResult
<1>2. CASE ~LeaseCAS(b, g)
  <2>1. UNCHANGED <<ev, bop>>  BY <1>2 DEF WriteResult
  <2> QED  BY <1>1, <2>1, OwnEnd DEF AllQuiet
<1>3. CASE LeaseCAS(b, g)
  <2>1. PICK x : ExecOK(x) /\ Become(b, g, x) /\ x.phase = "over"  BY <1>1, OverEffect
  <2>2. /\ exec'[b][g] = x
        /\ \A c \in Batches, h \in Generations :
             c # b \/ h # g => exec'[c][h] = exec[c][h]
    BY <2>1, BecomeEffect
  <2>3. \A c \in Batches : c # b => bop'[c] = bop[c]
    <3>1. bop \in [Batches -> BatchRow]  BY DEF IInv, Types
    <3> QED  BY <3>1 DEF WriteResult
  <2>4. \A m \in Members : ev'[m] = ev[m] \/ ev[m].batch = b
    BY DEF WriteResult, SettleMembers, Settled
  <2>5. ASSUME NEW m \in Members, NEW c \in Batches, NEW h \in Generations
        PROVE  /\ Stray(c, h, m)' => Stray(c, h, m)
               /\ AtWork(exec'[c][h], m) => AtWork(exec[c][h], m)
    <3>1. CASE c = b /\ h = g
      BY <2>1, <2>2, <3>1 DEF Stray, MayWrite, Alive, AtWork
    <3>2. CASE c = b /\ h # g
      BY <1>3, <2>2, <3>2 DEF Stray, Rightful, LeaseCAS
    <3>3. CASE c # b
      <4>1. Waits(ev[m], c) => Waits(ev'[m], c)  BY <2>4, <3>3 DEF Waits
      <4> QED  BY <2>2, <2>3, <3>3, <4>1 DEF Stray, Rightful, LeaseCAS
    <3> QED  BY <3>1, <3>2, <3>3
  <2> QED  BY <1>1, <2>5 DEF AllQuiet, NothingNew
<1> QED  BY <1>2, <1>3

(* A release takes m from the execution that does it and from the batch it *)
(* waits in: what that may leave over is paid for by the former, if it is  *)
(* not the one that had the right.                                         *)
LEMMA ReleaseBatchMemberPaid ==
  ASSUME IInv, PaidInv, [Next]_vars, NEW b \in Batches, NEW g \in Generations,
         NEW m \in Members, ReleaseBatchMember(b, g, m)
  PROVE  PaidInv'
<1> DEFINE x == exec[b][g]
           y == [x EXCEPT !.failed = @ \ {m}]
<1>1. /\ UNCHANGED <<bop, committed>> /\ x.phase = "loop" /\ x \in Exec /\ Alive(x)
      /\ Become(b, g, y) /\ x.todo = {} /\ m \in x.failed
  BY ExecType DEF ReleaseBatchMember, Alive
<1>2. ExecOK(y) /\ y.phase = "loop" /\ y.todo = {} /\ y.failed = x.failed \ {m}
  BY <1>1 DEF ExecOK, Exec
<1>3. \A n \in Members : n # m => ev'[n] = ev[n]
  <2>1. ev \in [Members -> Row]  BY DEF IInv, Types
  <2> QED  BY <2>1 DEF ReleaseBatchMember
<1>4. AtHand(y) = x.failed \ {m} /\ AtHand(x) = x.failed
  BY <1>1, <1>2 DEF AtHand
<1> HIDE DEF y
<1>5. /\ exec'[b][g] = y
      /\ \A c \in Batches, h \in Generations :
           c # b \/ h # g => exec'[c][h] = exec[c][h]
  BY <1>1, <1>2, BecomeEffect
<1>6. ASSUME NEW n \in Members, n # m  PROVE PaidFor(n)'
  <2>1. ~AtWork(y, n) /\ (n \in AtHand(y) => n \in AtHand(x))
    BY <1>2, <1>4 DEF AtWork
  <2>2. \A c \in Batches : Waits(ev[n], c) => Waits(ev'[n], c)  BY <1>3, <1>6
  <2>3. NothingNew(n)  BY <1>1, <1>2, <2>1, <2>2, OwnLess
  <2> QED  BY <1>1, <2>3, NothingNewPaid
<1>7. ~Stray(b, g, m)' /\ ~AtWork(y, m)
  BY <1>2, <1>4, <1>5 DEF Stray, MayWrite, AtWork
<1>8. \A c \in Batches, h \in Generations : AtWork(exec'[c][h], m) => AtWork(exec[c][h], m)
  BY <1>5, <1>7
<1> DEFINE p == <<ev[m].batch, bop[ev[m].batch].generation>>
<1>9. ASSUME NEW c \in Batches, NEW h \in Generations, Stray(c, h, m)'
      PROVE  Stray(c, h, m) \/ <<c, h>> = p
  <2>1. exec'[c][h] = exec[c][h]  BY <1>5, <1>7, <1>9
  <2> QED  BY <1>1, <1>9, <2>1 DEF Stray, Rightful, LeaseCAS, Waits
<1>10. PaidFor(m)'
  <2>1. CASE Stray(b, g, m)
    <3>1. OneStrayForAnother(m)  BY <1>7, <1>8, <1>9, <2>1 DEF OneStrayForAnother
    <3> QED  BY <1>1, <3>1, OneStrayForAnotherPaid
  <2>2. CASE ~Stray(b, g, m)
    <3>1. LeaseCAS(b, g) /\ Waits(ev[m], b)
      BY <1>1, <1>4, <2>2 DEF Stray, MayWrite, Rightful
    <3>2. p = <<b, g>>  BY <3>1 DEF LeaseCAS, Waits
    <3>3. NothingNew(m)  BY <1>7, <1>8, <1>9, <3>2 DEF NothingNew
    <3> QED  BY <1>1, <3>3, NothingNewPaid
  <2> QED  BY <2>1, <2>2
<1> QED  BY <1>6, <1>10, NeverLess DEF PaidInv

(* At most one execution has the right to a member it has at hand.         *)
LEMMA OneRight ==
  ASSUME NEW m \in Members,
         NEW b \in Batches, NEW g \in Generations, Rightful(b, g, m),
         exec[b][g].phase # "load",
         NEW c \in Batches, NEW h \in Generations, Rightful(c, h, m),
         exec[c][h].phase # "load"
  PROVE  b = c /\ g = h
BY DEF Rightful, LeaseCAS, Waits

(* So the executions that have it at hand are strays, but for one.         *)
Holding(m) ==
  {bg \in Batches \X Generations :
     LET x == exec[bg[1]][bg[2]] IN Alive(x) /\ x.phase # "load" /\ m \in AtHand(x)}

LEMMA HoldersAreStrays ==
  ASSUME IInv, PaidInv, NEW m \in Members
  PROVE  IsFiniteSet(Holding(m)) /\ Cardinality(Holding(m)) <= 1 + Disturbances
<1> DEFINE Holds(x) == Alive(x) /\ x.phase # "load" /\ m \in AtHand(x)
<1>1. PICK p : Holding(m) \subseteq Strays(m) \union {p}
  <2>1. ASSUME NEW b \in Batches, NEW g \in Generations, Holds(exec[b][g]),
               ~Rightful(b, g, m)
        PROVE  <<b, g>> \in Strays(m)
    BY <2>1 DEF Stray, MayWrite, Strays
  <2>2. CASE \E b \in Batches, g \in Generations : Holds(exec[b][g]) /\ Rightful(b, g, m)
    <3> PICK b \in Batches, g \in Generations : Holds(exec[b][g]) /\ Rightful(b, g, m)
      BY <2>2
    <3>1. ASSUME NEW c \in Batches, NEW h \in Generations, Holds(exec[c][h])
          PROVE  <<c, h>> \in Strays(m) \union {<<b, g>>}
      <4>1. CASE Rightful(c, h, m)  BY <3>1, <4>1, OneRight
      <4>2. CASE ~Rightful(c, h, m)  BY <2>1, <3>1, <4>2
      <4> QED  BY <4>1, <4>2
    <3>2. Holding(m) \subseteq Strays(m) \union {<<b, g>>}
      BY <3>1 DEF Holding
    <3> QED  BY <3>2
  <2>3. CASE ~\E b \in Batches, g \in Generations : Holds(exec[b][g]) /\ Rightful(b, g, m)
    <3>1. Holding(m) \subseteq Strays(m)  BY <2>1, <2>3 DEF Holding
    <3> QED  BY <3>1
  <2> QED  BY <2>2, <2>3
<1>2. /\ IsFiniteSet(Strays(m)) /\ Cardinality(Strays(m)) <= Disturbances
      /\ Disturbances \in Nat /\ Cardinality(Strays(m)) \in Nat
  BY NumbersPaid, FS_CardinalityType DEF PaidInv, PaidFor
<1>3. /\ IsFiniteSet(Strays(m) \union {p})
      /\ Cardinality(Strays(m) \union {p}) <= Cardinality(Strays(m)) + 1
      /\ Cardinality(Strays(m) \union {p}) \in Nat
  BY <1>2, AddOne, FS_CardinalityType
<1>4. /\ IsFiniteSet(Holding(m)) /\ Cardinality(Holding(m)) \in Nat
      /\ Cardinality(Holding(m)) <= Cardinality(Strays(m) \union {p})
  BY <1>1, <1>3, FS_Subset, FS_CardinalityType
<1> QED  BY <1>2, <1>3, <1>4

(* A member is begun when nothing of it is written: all who may write it   *)
(* are then paid for.                                                      *)
LEMMA BeginBatchMemberPaid ==
  ASSUME IInv, PaidInv, [Next]_vars, NEW b \in Batches, NEW g \in Generations,
         NEW m \in Members, BeginBatchMember(b, g, m)
  PROVE  PaidInv'
<1> DEFINE x == exec[b][g]
           y == [x EXCEPT !.todo = @ \ {m}]
           z == [x EXCEPT !.phase = "member", !.cur = m, !.todo = @ \ {m}]
<1>1. /\ UNCHANGED <<bop, committed>> /\ x.phase = "loop" /\ x \in Exec /\ Alive(x)
      /\ m \in x.todo
  BY ExecType DEF BeginBatchMember, IsFirst, Alive
<1>2. \A n \in Members, c \in Batches : Waits(ev[n], c) => Waits(ev'[n], c)
  BY ConcludedWaits DEF BeginBatchMember
<1>3. CASE Become(b, g, y)
  <2>1. ExecOK(y) /\ y.phase = "loop" /\ y.todo = x.todo \ {m} /\ y.failed = x.failed
    BY <1>1 DEF ExecOK, Exec
  <2>2. AtHand(y) \subseteq AtHand(x) /\ \A n \in Members : ~AtWork(y, n)
    BY <1>1, <2>1 DEF AtHand, AtWork
  <2> HIDE DEF y
  <2>3. \A n \in Members : NothingNew(n)  BY <1>1, <1>2, <1>3, <2>1, <2>2, OwnLess
  <2> QED  BY <1>1, <2>3, QuietPaid DEF AllQuiet
<1>4. CASE Become(b, g, z) /\ ~(committed[m] > 0)
  <2>1. ExecOK(z) /\ z.phase = "member" /\ z.cur = m /\ z.todo = x.todo \ {m}
        /\ z.failed = x.failed
    BY <1>1 DEF ExecOK, Exec
  <2>2. AtHand(z) \subseteq AtHand(x)  BY <1>1, <2>1 DEF AtHand
  <2> HIDE DEF z
  <2>3. /\ exec'[b][g] = z
        /\ \A c \in Batches, h \in Generations :
             c # b \/ h # g => exec'[c][h] = exec[c][h]
    BY <1>4, <2>1, BecomeEffect
  <2>4. ASSUME NEW n \in Members, n # m  PROVE PaidFor(n)'
    <3>1. ~AtWork(z, n)  BY <2>1, <2>4 DEF AtWork
    <3>2. NothingNew(n)  BY <1>1, <1>2, <1>4, <2>1, <2>2, <3>1, OwnLess
    <3> QED  BY <1>1, <3>2, NothingNewPaid
  <2>5. PaidFor(m)'
    <3>1. committed'[m] = 0
      <4>1. committed[m] \in Nat  BY DEF IInv, Types
      <4> QED  BY <1>1, <1>4, <4>1
    <3>2. Stray(b, g, m)' => Stray(b, g, m)
      BY <1>1, <1>2, <2>1, <2>2, <2>3 DEF Stray, MayWrite, Rightful, LeaseCAS
    <3>3. ASSUME NEW c \in Batches, NEW h \in Generations, Stray(c, h, m)'
          PROVE  Stray(c, h, m)
      <4>1. CASE c # b \/ h # g
        <5>1. exec'[c][h] = exec[c][h]  BY <2>3, <4>1
        <5> QED  BY <1>1, <1>2, <3>3, <5>1 DEF Stray, Rightful, LeaseCAS
      <4>2. CASE c = b /\ h = g  BY <3>2, <3>3, <4>2
      <4> QED  BY <4>1, <4>2
    <3>4. Strays(m)' \subseteq Strays(m)  BY <3>3 DEF Strays
    <3>5. Writing(m)' \subseteq Holding(m)
      <4> SUFFICES ASSUME NEW c \in Batches, NEW h \in Generations, AtWork(exec'[c][h], m)
                   PROVE  LET v == exec[c][h]
                          IN Alive(v) /\ v.phase # "load" /\ m \in AtHand(v)
        BY DEF Writing, Holding
      <4>1. CASE c = b /\ h = g  BY <1>1, <4>1 DEF AtHand
      <4>2. CASE c # b \/ h # g
        BY <2>3, <4>2 DEF AtHand, AtWork, Alive
      <4> QED  BY <4>1, <4>2
    <3>6. /\ Disturbances \in Nat /\ Disturbances' \in Nat /\ Disturbances <= Disturbances'
          /\ PaidFor(m)
      BY NumbersPaid, NeverLess DEF PaidInv
    <3>7. /\ IsFiniteSet(Strays(m)') /\ Cardinality(Strays(m)') <= Cardinality(Strays(m))
          /\ Cardinality(Strays(m)) \in Nat /\ Cardinality(Strays(m)') \in Nat
      BY <3>4, <3>6, FS_Subset, FS_CardinalityType DEF PaidFor
    <3>8. /\ IsFiniteSet(Holding(m)) /\ Cardinality(Holding(m)) <= 1 + Disturbances
          /\ Cardinality(Holding(m)) \in Nat
      BY HoldersAreStrays, FS_CardinalityType
    <3>9. /\ IsFiniteSet(Writing(m)') /\ Cardinality(Writing(m)') <= Cardinality(Holding(m))
          /\ Cardinality(Writing(m)') \in Nat
      BY <3>5, <3>8, FS_Subset, FS_CardinalityType
    <3>10. committed'[m] + Cardinality(Writing(m)') <= 1 + Disturbances'
      BY <3>1, <3>6, <3>8, <3>9
    <3> QED  BY <3>6, <3>7, <3>9, <3>10 DEF PaidFor
  <2> QED  BY <2>4, <2>5, NeverLess DEF PaidInv
<1> QED  BY <1>3, <1>4 DEF BeginBatchMember

(* A commit takes its writer with it.                                      *)
LEMMA CommitMemberPaid ==
  ASSUME IInv, PaidInv, [Next]_vars, NEW b \in Batches, NEW g \in Generations,
         CommitMember(b, g)
  PROVE  PaidInv'
<1> DEFINE x == exec[b][g]
<1> PICK m : m = x.cur  OBVIOUS
<1>1. UNCHANGED bop /\ x.phase = "marked" /\ x \in Exec /\ Alive(x) /\ m \in Members
  BY ExecType DEF CommitMember, Alive, ExecOK
<1>2. PICK rows \in {0, 1} : committed' = [committed EXCEPT ![m] = @ + rows]
  BY DEF CommitMember
<1>3. committed \in [Members -> Nat]  BY DEF IInv, Types
<1>4. \A n \in Members, c \in Batches : Waits(ev[n], c) => Waits(ev'[n], c)
  <2>1. ev' = ev \/ ev' = [ev EXCEPT ![m].concluded = TRUE]
    BY DEF CommitMember, Concluded
  <2> QED  BY <1>1, <2>1, ConcludedWaits
<1>5. PICK y : /\ Become(b, g, y) /\ ExecOK(y) /\ y.phase \in {"loop", "finish"}
               /\ AtHand(y) \subseteq AtHand(x)
  <2>1. CASE Finish(b, g, "retry")
    <3> DEFINE y == [NoExec EXCEPT !.phase = "finish", !.outcome = "retry"]
    <3>1. ExecOK(y) /\ y.phase = "finish" /\ y.todo = {} /\ y.failed = {}
      BY ExecConstants DEF NoExec
    <3>2. Become(b, g, y)  BY <2>1 DEF Finish
    <3> HIDE DEF y
    <3> QED  BY <3>1, <3>2 DEF AtHand
  <2>2. CASE Become(b, g, Recorded(x, "failed"))
    <3> PICK y : y = Recorded(x, "failed")  OBVIOUS
    <3>1. ExecOK(y) /\ y.phase = "loop" /\ AtHand(y) \subseteq AtHand(x)
      BY <1>1, RecordedOK, RecordedAtHand DEF Outcomes
    <3> QED  BY <2>2, <3>1
  <2>3. CASE Become(b, g, [Recorded(x, "succeeded") EXCEPT !.wrote = TRUE])
    <3> PICK y : y = [Recorded(x, "succeeded") EXCEPT !.wrote = TRUE]  OBVIOUS
    <3>1. ExecOK(y) /\ y.phase = "loop" /\ AtHand(y) \subseteq AtHand(x)
      BY <1>1, RecordedOK, RecordedAtHand DEF Outcomes
    <3> QED  BY <2>3, <3>1
  <2> QED  BY <2>1, <2>2, <2>3 DEF CommitMember
<1>6. \A n \in Members : ~AtWork(y, n)  BY <1>5 DEF AtWork
<1>7. \A n \in Members : NothingNew(n)
  BY <1>1, <1>4, <1>5, <1>6, OwnLess
<1>8. ASSUME NEW n \in Members, n # m  PROVE PaidFor(n)'
  <2>1. committed'[n] = committed[n]  BY <1>2, <1>3, <1>8
  <2> QED  BY <1>7, <2>1, NothingNewPaid
<1>9. PaidFor(m)'
  <2> DEFINE q == <<b, g>>
             T == Writing(m) \ {q}
  <2>1. q \in Writing(m)  BY <1>1 DEF Writing, AtWork
  <2>2. Writing(m)' \subseteq T
    <3>1. exec'[b][g] = y  BY <1>5, BecomeEffect
    <3> SUFFICES ASSUME NEW c \in Batches, NEW h \in Generations, AtWork(exec'[c][h], m)
                 PROVE  <<c, h>> \in T
      BY DEF Writing
    <3>2. AtWork(exec[c][h], m)  BY <1>1, <1>7 DEF NothingNew
    <3>3. <<c, h>> # q  BY <1>1, <1>6, <3>1
    <3> QED  BY <3>2, <3>3 DEF Writing
  <2>3. /\ Disturbances \in Nat /\ Disturbances' \in Nat /\ Disturbances <= Disturbances'
        /\ PaidFor(m) /\ committed[m] \in Nat
    BY <1>1, NumbersPaid, NeverLess DEF PaidInv
  <2>4. /\ IsFiniteSet(T) /\ Cardinality(T) \in Nat /\ Cardinality(Writing(m)) \in Nat
        /\ Cardinality(T) = Cardinality(Writing(m)) - 1
    BY <2>1, <2>3, FS_RemoveElement, FS_CardinalityType DEF PaidFor
  <2> HIDE DEF T
  <2>5. /\ IsFiniteSet(Writing(m)') /\ Cardinality(Writing(m)') <= Cardinality(T)
        /\ Cardinality(Writing(m)') \in Nat
    BY <2>2, <2>4, FS_Subset, FS_CardinalityType
  <2>6. committed'[m] <= committed[m] + 1 /\ committed'[m] \in Nat
    BY <1>1, <1>2, <1>3
  <2>7. committed'[m] + Cardinality(Writing(m)') <= 1 + Disturbances'
    BY <2>3, <2>4, <2>5, <2>6 DEF PaidFor
  <2>8. Strays(m)' \subseteq Strays(m)  BY <1>1, <1>7 DEF NothingNew, Strays
  <2>9. /\ IsFiniteSet(Strays(m)') /\ Cardinality(Strays(m)') <= Cardinality(Strays(m))
        /\ Cardinality(Strays(m)) \in Nat /\ Cardinality(Strays(m)') \in Nat
    BY <2>3, <2>8, FS_Subset, FS_CardinalityType DEF PaidFor
  <2> QED  BY <2>3, <2>5, <2>7, <2>9 DEF PaidFor
<1> QED  BY <1>8, <1>9, NeverLess DEF PaidInv

LEMMA StepPaidInv == IInv /\ PaidInv /\ [Next]_vars => PaidInv'
<1> SUFFICES ASSUME IInv, PaidInv, [Next]_vars  PROVE PaidInv'
  OBVIOUS
<1>1. CASE UNCHANGED vars \/ (\E m \in Members : Submit(m) \/ BecomeDue(m))
  BY <1>1, OutsideQuiet, QuietPaid
<1>2. CASE Tick \/ NextDay
  BY <1>2, OutsideQuiet, CreateBatchQuiet, QuietPaid DEF Tick
<1>3. CASE \E b \in Batches : ClaimBatch(b) \/ LoseLease(b) \/ RecoverLease(b)
  BY <1>3, ClaimBatchQuiet, OutsideQuiet, LoseLeasePaid, QuietPaid
<1>4. CASE \E b \in Batches, g \in Generations : ExecStep(b, g) \/ ExecutionDies(b, g)
  BY <1>4, StartBatchQuiet, LoadBatchMembersQuiet, BeginBatchMemberPaid,
     MemberWritesNothingQuiet, EndingQuiet, MarkCommitQuiet, CommitMemberPaid,
     ReleaseBatchMemberPaid, WriteResultQuiet, QuietPaid
  DEF ExecStep
<1>5. CASE \E c \in Clients, t \in Members \union Batches : CancelRead(c, t)
  BY <1>5, OutsideQuiet, QuietPaid
<1>6. CASE \E c \in Clients : CancelWrite(c)
  BY <1>6, CancelWritePaid
<1> QED  BY <1>1, <1>2, <1>3, <1>4, <1>5, <1>6 DEF Next

LEMMA PaidInvariance == Spec => [](IInv /\ PaidInv)
BY InitIInv, InitPaidInv, StepIInv, StepPaidInv, PTL DEF Spec

(* Over all its releases, batches, retries and rolled back or half         *)
(* finished commits, evidence is written once, and once more at most for   *)
(* every lease that was lost and every cancel that was carried out.        *)
THEOREM EvidenceWrittenBounded == Spec => []WrittenBounded
<1>1. IInv /\ PaidInv => WrittenBounded
  <2> SUFFICES ASSUME IInv, PaidInv, NEW m \in Members
               PROVE  committed[m] <= 1 + Disturbances
    BY DEF WrittenBounded
  <2>1. PaidFor(m) /\ Disturbances \in Nat /\ committed[m] \in Nat
    BY NumbersPaid DEF PaidInv
  <2>2. Cardinality(Writing(m)) \in Nat  BY <2>1, FS_CardinalityType DEF PaidFor
  <2> QED  BY <2>1, <2>2 DEF PaidFor
<1> QED  BY <1>1, PaidInvariance, PTL

(* In particular it is written once while no lease was lost and nothing    *)
(* was cancelled.                                                          *)
THEOREM EvidenceWrittenOnce == Spec => []WrittenOnce
<1>1. WrittenBounded => WrittenOnce
  <2> SUFFICES ASSUME WrittenBounded, Undisturbed  PROVE \A m \in Members : committed[m] <= 1
    BY DEF WrittenOnce
  <2>1. CarriedOut = {}  BY DEF Undisturbed, CarriedOut
  <2>2. Disturbances = 0  BY <2>1, FS_EmptySet DEF Disturbances, Undisturbed
  <2> QED  BY <2>2 DEF WrittenBounded
<1> QED  BY <1>1, EvidenceWrittenBounded, PTL

(* ---- how often a batch is claimed --------------------------------------- *)

LEMMA InitClaims == Init => NextClaimPaidFor
BY EvidenceAssumption DEF Init, NextClaimPaidFor, ClaimPaidFor, WaitsForClaim

LEMMA ClaimNumbers ==
  ASSUME IInv, NEW b \in Batches
  PROVE  /\ bop[b].generation \in 0..MaxGeneration /\ MaxGeneration \in Nat
         /\ bop[b].generation = 0 \/ bop[b].generation \in Generations
         /\ faults.lease \in Nat /\ BatchAttempts \in Nat \ {0}
<1>1. bop[b].generation \in 0..MaxGeneration  BY BatchTypes DEF BatchRow
<1> QED  BY <1>1, FaultTypes, EvidenceAssumption DEF Generations

(* A batch whose row stays and whose execution does not die.               *)
HolderLives(b) ==
  LET g == bop[b].generation
  IN bop[b].status = "running" /\ g \in Generations /\ Alive(exec[b][g]) =>
       Alive(exec'[b][g])

LEMMA ClaimStays ==
  ASSUME IInv, NextClaimPaidFor, NEW b \in Batches,
         bop'[b].status = bop[b].status, bop'[b].generation = bop[b].generation,
         faults.lease <= faults'.lease, faults'.lease \in Nat,
         HolderLives(b)
  PROVE  ClaimPaidFor(b)'
<1>1. ClaimPaidFor(b)  BY DEF NextClaimPaidFor
<1>2. WaitsForClaim(b)' => WaitsForClaim(b) \/ bop[b].generation = 0
  BY ClaimNumbers DEF WaitsForClaim, HolderLives
<1>3. bop[b].generation + 1 <= BatchAttempts + faults'.lease \/ ~WaitsForClaim(b)'
  BY <1>1, <1>2, ClaimNumbers DEF ClaimPaidFor
<1>4. bop'[b].generation <= BatchAttempts + faults'.lease
  BY <1>1, ClaimNumbers DEF ClaimPaidFor
<1> QED  BY <1>1, <1>3, <1>4 DEF ClaimPaidFor

(* The claim in force ends only by a result, or by a crash.                *)
LEMMA OwnClaim ==
  ASSUME IInv, NextClaimPaidFor, UNCHANGED <<bop, faults>>,
         NEW b \in Batches, NEW g \in Generations, NEW x, ExecOK(x), Become(b, g, x),
         Alive(x) \/ ~LeaseCAS(b, g)
  PROVE  NextClaimPaidFor'
<1>1. /\ exec'[b][g] = x
      /\ \A c \in Batches, h \in Generations :
           c # b \/ h # g => exec'[c][h] = exec[c][h]
  BY BecomeEffect
<1>2. ASSUME NEW c \in Batches  PROVE ClaimPaidFor(c)'
  <2>1. faults.lease <= faults'.lease /\ faults'.lease \in Nat  BY ClaimNumbers
  <2>2. HolderLives(c)
    <3> SUFFICES ASSUME bop[c].status = "running", bop[c].generation \in Generations,
                        Alive(exec[c][bop[c].generation])
                 PROVE  Alive(exec'[c][bop[c].generation])
      BY DEF HolderLives
    <3>1. CASE c = b /\ bop[c].generation = g
      BY <1>1, <3>1 DEF LeaseCAS
    <3>2. CASE c # b \/ bop[c].generation # g
      BY <1>1, <3>2
    <3> QED  BY <3>1, <3>2
  <2> QED  BY <2>1, <2>2, ClaimStays
<1> QED  BY <1>2 DEF NextClaimPaidFor

LEMMA OutsideClaims ==
  ASSUME IInv, NextClaimPaidFor,
         \/ UNCHANGED vars \/ TickWithoutBatch \/ SelectMembers \/ NextDay
         \/ \E m \in Members : Submit(m) \/ BecomeDue(m)
         \/ \E c \in Clients, t \in Members \union Batches : CancelRead(c, t)
  PROVE  NextClaimPaidFor'
<1>1. UNCHANGED <<bop, exec, faults>>
  BY DEF vars, TickWithoutBatch, SelectMembers, NextDay, Submit, BecomeDue, CancelRead
<1>2. NextClaimPaidFor' = NextClaimPaidFor
  BY <1>1 DEF NextClaimPaidFor, ClaimPaidFor, WaitsForClaim
<1> QED  BY <1>2

(* A batch changes its row.                                                *)
LEMMA RowClaims ==
  ASSUME IInv, NextClaimPaidFor, NEW b \in Batches, UNCHANGED exec,
         \A c \in Batches : c # b => bop'[c] = bop[c],
         faults.lease <= faults'.lease, faults'.lease \in Nat,
         ClaimPaidFor(b)'
  PROVE  NextClaimPaidFor'
<1>1. \A c \in Batches : c # b => ClaimPaidFor(c)'  BY ClaimStays DEF HolderLives
<1> QED  BY <1>1 DEF NextClaimPaidFor

LEMMA CreateBatchClaims ==
  ASSUME IInv, NextClaimPaidFor, NEW b \in Batches, CreateBatch(b)
  PROVE  NextClaimPaidFor'
<1>1. bop \in [Batches -> BatchRow] /\ bop[b] \in BatchRow  BY BatchTypes
<1>2. UNCHANGED <<exec, faults>> /\ bop[b].status = "absent"  BY DEF CreateBatch
<1>3. bop[b].generation = 0  BY <1>2 DEF NextClaimPaidFor, ClaimPaidFor
<1>4. /\ \A c \in Batches : c # b => bop'[c] = bop[c]
      /\ bop'[b].generation = 0 /\ bop'[b].status # "absent"
  BY <1>1, <1>3 DEF CreateBatch, BatchRow
<1>5. ClaimPaidFor(b)'  BY <1>2, <1>4, ClaimNumbers DEF ClaimPaidFor
<1> QED  BY <1>2, <1>4, <1>5, ClaimNumbers, RowClaims

LEMMA ClaimBatchClaims ==
  ASSUME IInv, NextClaimPaidFor, NEW b \in Batches, ClaimBatch(b)
  PROVE  NextClaimPaidFor'
<1> DEFINE x == [NoExec EXCEPT !.phase = "start"]
           g == bop[b].generation + 1
<1>1. g \in Generations /\ bop \in [Batches -> BatchRow] /\ bop[b] \in BatchRow
  BY BatchTypes DEF ClaimBatch
<1>2. UNCHANGED faults /\ Become(b, g, x)  BY DEF ClaimBatch
<1>3. /\ bop'[b].status = "running" /\ bop'[b].generation = g
      /\ \A c \in Batches : c # b => bop'[c] = bop[c]
  BY <1>1 DEF ClaimBatch, BatchRow
<1>4. ExecOK(x) /\ x.phase = "start"  BY ExecConstants DEF NoExec
<1>5. g <= BatchAttempts + faults.lease
  BY DEF NextClaimPaidFor, ClaimPaidFor, WaitsForClaim, ClaimBatch
<1> HIDE DEF x, g
<1>6. /\ exec'[b][g] = x
      /\ \A c \in Batches, h \in Generations :
           c # b \/ h # g => exec'[c][h] = exec[c][h]
  BY <1>1, <1>2, <1>4, BecomeEffect
<1>7. ClaimPaidFor(b)'
  BY <1>2, <1>3, <1>4, <1>5, <1>6 DEF ClaimPaidFor, WaitsForClaim, Alive
<1>8. ASSUME NEW c \in Batches, c # b  PROVE ClaimPaidFor(c)'
  BY <1>2, <1>3, <1>6, <1>8, ClaimNumbers, ClaimStays DEF HolderLives
<1> QED  BY <1>7, <1>8 DEF NextClaimPaidFor

LEMMA ToRetryClaims ==
  ASSUME IInv, NextClaimPaidFor, NEW b \in Batches, LoseLease(b) \/ RecoverLease(b)
  PROVE  NextClaimPaidFor'
<1>1. bop \in [Batches -> BatchRow] /\ bop[b] \in BatchRow /\ bop[b].status = "running"
  BY BatchTypes DEF LoseLease, RecoverLease
<1>2. /\ UNCHANGED exec
      /\ bop'[b].status = "retry_wait" /\ bop'[b].generation = bop[b].generation
      /\ \A c \in Batches : c # b => bop'[c] = bop[c]
  BY <1>1 DEF LoseLease, RecoverLease, BatchRow
<1>3. ClaimPaidFor(b)  BY DEF NextClaimPaidFor
<1>4. /\ faults.lease <= faults'.lease /\ faults'.lease \in Nat
      /\ bop[b].generation + 1 <= BatchAttempts + faults'.lease
  <2>1. CASE LoseLease(b)
    <3>1. faults'.lease = faults.lease + 1  BY <2>1, FaultTypes DEF LoseLease, LeaseFault
    <3> QED  BY <1>3, <3>1, ClaimNumbers DEF ClaimPaidFor
  <2>2. CASE RecoverLease(b)
    <3>1. WaitsForClaim(b) /\ UNCHANGED faults  BY <2>2 DEF RecoverLease, WaitsForClaim
    <3> QED  BY <1>3, <3>1, ClaimNumbers DEF ClaimPaidFor
  <2> QED  BY <2>1, <2>2
<1>5. ClaimPaidFor(b)'  BY <1>2, <1>4, ClaimNumbers DEF ClaimPaidFor
<1> QED  BY <1>2, <1>4, <1>5, RowClaims

LEMMA ExecutionDiesClaims ==
  ASSUME IInv, NextClaimPaidFor, NEW b \in Batches, NEW g \in Generations,
         ExecutionDies(b, g)
  PROVE  NextClaimPaidFor'
<1>1. UNCHANGED bop /\ faults'.lease = faults.lease + 1
  BY FaultTypes DEF ExecutionDies, LeaseFault
<1>2. ASSUME NEW c \in Batches  PROVE ClaimPaidFor(c)'
  <2>1. ClaimPaidFor(c)  BY DEF NextClaimPaidFor
  <2> QED  BY <1>1, <2>1, ClaimNumbers DEF ClaimPaidFor
<1> QED  BY <1>2 DEF NextClaimPaidFor

LEMMA CancelWriteClaims ==
  ASSUME IInv, NextClaimPaidFor, NEW c \in Clients, CancelWrite(c)
  PROVE  NextClaimPaidFor'
<1> PICK t : t = cancel[c].target  OBVIOUS
<1>1. UNCHANGED <<exec, faults>> /\ t \in Members \union Batches
  BY DEF CancelWrite, IInv, RequestOK
<1>2. bop \in [Batches -> BatchRow]  BY DEF IInv, Types
<1>3. CASE t \in Members
  <2>1. UNCHANGED bop  BY <1>3 DEF CancelWrite
  <2>2. \A b \in Batches : ClaimPaidFor(b)'
    BY <1>1, <2>1, ClaimStays, ClaimNumbers DEF HolderLives
  <2> QED  BY <2>2 DEF NextClaimPaidFor
<1>4. CASE t \notin Members
  <2>1. t \in Batches /\ bop[t] \in BatchRow /\ bop[t].status # "absent"
    BY <1>1, <1>4, BatchTypes DEF CancelWrite, IInv, RequestOK
  <2>2. /\ \A b \in Batches : b # t => bop'[b] = bop[b]
        /\ bop'[t].generation = bop[t].generation
        /\ bop'[t].status \in {"cancelled", bop[t].status}
    BY <1>2, <1>4, <2>1 DEF CancelWrite, BatchRow
  <2>3. ClaimPaidFor(t)  BY <2>1 DEF NextClaimPaidFor
  <2>4. ClaimPaidFor(t)'
    BY <1>1, <2>1, <2>2, <2>3 DEF ClaimPaidFor, WaitsForClaim
  <2> QED  BY <1>1, <2>1, <2>2, <2>4, ClaimNumbers, RowClaims
<1> QED  BY <1>3, <1>4

(* A failure that is worth a retry uses up an attempt.                     *)
LEMMA WriteResultClaims ==
  ASSUME IInv, NextClaimPaidFor, NEW b \in Batches, NEW g \in Generations,
         WriteResult(b, g)
  PROVE  NextClaimPaidFor'
<1> PICK x : ExecOK(x) /\ Become(b, g, x)  BY OverEffect DEF WriteResult
<1>1. UNCHANGED faults  BY DEF WriteResult
<1>2. CASE ~LeaseCAS(b, g)
  <2>1. UNCHANGED bop  BY <1>2 DEF WriteResult
  <2> QED  BY <1>1, <1>2, <2>1, OwnClaim
<1>3. CASE LeaseCAS(b, g)
  <2>1. bop \in [Batches -> BatchRow] /\ bop[b] \in BatchRow  BY BatchTypes
  <2>2. \A c \in Batches, h \in Generations :
          c # b => exec'[c][h] = exec[c][h]
    BY BecomeEffect
  <2>3. exec[b][g].outcome # "none" /\ exec[b][g] \in Exec
    BY ExecType DEF ExecOK, WriteResult
  <2>4. /\ \A c \in Batches : c # b => bop'[c] = bop[c]
        /\ bop'[b].generation = g
        /\ \/ bop'[b].status = "retry_wait" /\ ~(g >= BatchAttempts)
           \/ bop'[b].status \in Terminal
    <3> DEFINE st == IF exec[b][g].outcome = "retry" /\ g >= BatchAttempts
                     THEN "dead_letter" ELSE exec[b][g].outcome
    <3>1. \/ st = "retry" /\ ~(g >= BatchAttempts) /\ bop' = [bop EXCEPT ![b].status = "retry_wait"]
          \/ st # "retry" /\ bop' = [bop EXCEPT ![b].status = st]
      BY <1>3 DEF WriteResult
    <3>2. st # "retry" => st \in Terminal  BY <2>3 DEF Exec, Terminal
    <3> HIDE DEF st
    <3> QED  BY <1>3, <2>1, <3>1, <3>2 DEF LeaseCAS, BatchRow
  <2>5. ClaimPaidFor(b)'
    <3>1. ClaimPaidFor(b) /\ bop[b].generation = g  BY <1>3 DEF NextClaimPaidFor, LeaseCAS
    <3>2. ~(g >= BatchAttempts) => g + 1 <= BatchAttempts + faults.lease
      BY ClaimNumbers, <3>1
    <3> QED  BY <1>1, <2>4, <3>1, <3>2 DEF ClaimPaidFor, WaitsForClaim, Terminal
  <2>6. ASSUME NEW c \in Batches, c # b  PROVE ClaimPaidFor(c)'
    BY <1>1, <2>2, <2>4, <2>6, ClaimNumbers, ClaimStays DEF HolderLives
  <2> QED  BY <2>5, <2>6 DEF NextClaimPaidFor
<1> QED  BY <1>2, <1>3

(* The other steps of an execution leave it alive, unless it has lost its  *)
(* lease.                                                                  *)
LEMMA ExecStepClaims ==
  ASSUME IInv, NextClaimPaidFor, NEW b \in Batches, NEW g \in Generations, ExecStep(b, g)
  PROVE  NextClaimPaidFor'
<1> DEFINE x == exec[b][g]
<1>0. x \in Exec /\ ExecOK(x)  BY ExecType
<1>1. ASSUME NEW o \in {"succeeded", "needs_review", "dead_letter", "retry", "cancelled"},
             Finish(b, g, o), UNCHANGED <<bop, faults>>
      PROVE  NextClaimPaidFor'
  <2> PICK y : ExecOK(y) /\ Become(b, g, y) /\ y.phase = "finish"  BY <1>1, FinishEffect
  <2>1. Alive(y)  BY DEF Alive
  <2> QED  BY <1>1, <2>1, OwnClaim
<1>2. ASSUME Over(b, g), ~LeaseCAS(b, g), UNCHANGED <<bop, faults>>
      PROVE  NextClaimPaidFor'
  <2> PICK y : ExecOK(y) /\ Become(b, g, y)  BY <1>2, OverEffect
  <2> QED  BY <1>2, OwnClaim
<1>3. ASSUME NEW y, ExecOK(y), y.phase \in {"load", "loop", "member", "marked"},
             Become(b, g, y), UNCHANGED <<bop, faults>>
      PROVE  NextClaimPaidFor'
  BY <1>3, OwnClaim DEF Alive
<1>4. CASE StartBatch(b, g)
  BY <1>1, <1>2, <1>3, <1>4, ToLoad DEF StartBatch
<1>5. CASE LoadBatchMembers(b, g)
  <2> DEFINE S == {m \in Members : ev[m].batch = b /\ ev[m].status = "pending_batch"}
             y == [x EXCEPT !.phase = "loop", !.todo = S]
  <2>1. ExecOK(y) /\ y.phase = "loop"  BY <1>0 DEF ExecOK, Exec
  <2>2. Become(b, g, y) /\ UNCHANGED <<bop, faults>>  BY <1>5 DEF LoadBatchMembers
  <2> HIDE DEF y
  <2> QED  BY <1>3, <2>1, <2>2
<1>6. ASSUME NEW m \in Members, BeginBatchMember(b, g, m)  PROVE NextClaimPaidFor'
  <2> DEFINE y == [x EXCEPT !.todo = @ \ {m}]
             z == [x EXCEPT !.phase = "member", !.cur = m, !.todo = @ \ {m}]
  <2>1. x.phase = "loop" /\ UNCHANGED <<bop, faults>>  BY <1>6 DEF BeginBatchMember
  <2>2. /\ ExecOK(y) /\ y.phase = "loop" /\ ExecOK(z) /\ z.phase = "member"
    BY <1>0, <2>1 DEF ExecOK, Exec
  <2>3. Become(b, g, y) \/ Become(b, g, z)  BY <1>6 DEF BeginBatchMember
  <2> HIDE DEF y, z
  <2> QED  BY <1>3, <2>1, <2>2, <2>3
<1>7. CASE MemberWritesNothing(b, g)
  <2>1. x.cur \in Members  BY <1>0, <1>7 DEF MemberWritesNothing, ExecOK
  <2> PICK o \in {"no_change", "needs_review", "failed", "errors_only"} :
        Become(b, g, Recorded(x, o))
    BY <1>7 DEF MemberWritesNothing
  <2>2. ExecOK(Recorded(x, o)) /\ Recorded(x, o).phase = "loop"
    BY <1>0, <2>1, RecordedOK DEF Outcomes
  <2> QED  BY <1>3, <1>7, <2>2 DEF MemberWritesNothing
<1>8. CASE MarkCommit(b, g)
  <2> DEFINE y == [x EXCEPT !.phase = "marked"]
  <2>1. ExecOK(y) /\ y.phase = "marked"  BY <1>0, <1>8 DEF ExecOK, Exec, MarkCommit
  <2>2. UNCHANGED <<bop, faults>> /\ (Become(b, g, y) \/ (Over(b, g) /\ ~LeaseCAS(b, g)))
    BY <1>8 DEF MarkCommit
  <2> HIDE DEF y
  <2> QED  BY <1>2, <1>3, <2>1, <2>2
<1>9. CASE CommitMember(b, g)
  <2>1. x.cur \in Members /\ x.phase = "marked"  BY <1>0, <1>9 DEF CommitMember, ExecOK
  <2>2. /\ ExecOK(Recorded(x, "failed")) /\ Recorded(x, "failed").phase = "loop"
        /\ ExecOK([Recorded(x, "succeeded") EXCEPT !.wrote = TRUE])
        /\ [Recorded(x, "succeeded") EXCEPT !.wrote = TRUE].phase = "loop"
    BY <1>0, <2>1, RecordedOK, RecordedAtHand DEF Outcomes
  <2>3. /\ UNCHANGED <<bop, faults>>
        /\ \/ Finish(b, g, "retry") \/ Become(b, g, Recorded(x, "failed"))
           \/ Become(b, g, [Recorded(x, "succeeded") EXCEPT !.wrote = TRUE])
    BY <1>9 DEF CommitMember
  <2> QED  BY <1>1, <1>3, <2>2, <2>3
<1>10. CASE GraphFails(b, g)
  BY <1>1, <1>10 DEF GraphFails
<1>11. CASE FinalizeBatch(b, g)
  BY <1>1, <1>11 DEF FinalizeBatch
<1>12. ASSUME NEW m \in Members, ReleaseBatchMember(b, g, m)  PROVE NextClaimPaidFor'
  <2> DEFINE y == [x EXCEPT !.failed = @ \ {m}]
  <2>1. x.phase = "loop" /\ UNCHANGED bop /\ Become(b, g, y)
        /\ (UNCHANGED faults \/ faults' = [faults EXCEPT !.release = @ + 1])
    BY <1>12 DEF ReleaseBatchMember
  <2>2. ExecOK(y) /\ y.phase = "loop"  BY <1>0, <2>1 DEF ExecOK, Exec
  <2> HIDE DEF y
  <2>3. /\ exec'[b][g] = y
        /\ \A c \in Batches, h \in Generations :
             c # b \/ h # g => exec'[c][h] = exec[c][h]
    BY <2>1, <2>2, BecomeEffect
  <2>4. faults'.lease = faults.lease  BY <2>1, FaultTypes
  <2>5. ASSUME NEW c \in Batches  PROVE ClaimPaidFor(c)'
    <3>1. HolderLives(c)
      BY <2>2, <2>3 DEF HolderLives, Alive
    <3> QED  BY <2>1, <2>4, <3>1, ClaimNumbers, ClaimStays
  <2> QED  BY <2>5 DEF NextClaimPaidFor
<1>13. CASE WriteResult(b, g)  BY <1>13, WriteResultClaims
<1> QED  BY <1>4, <1>5, <1>6, <1>7, <1>8, <1>9, <1>10, <1>11, <1>12, <1>13 DEF ExecStep

LEMMA StepClaims == IInv /\ NextClaimPaidFor /\ [Next]_vars => NextClaimPaidFor'
<1> SUFFICES ASSUME IInv, NextClaimPaidFor, [Next]_vars  PROVE NextClaimPaidFor'
  OBVIOUS
<1> QED
  BY OutsideClaims, CreateBatchClaims, ClaimBatchClaims, ToRetryClaims, ExecStepClaims,
     ExecutionDiesClaims, CancelWriteClaims
  DEF Next, Tick

LEMMA ClaimsInvariance == Spec => [](IInv /\ NextClaimPaidFor)
BY InitIInv, InitClaims, StepIInv, StepClaims, PTL DEF Spec

(* A batch is executed no more often than its attempts allow, plus once    *)
(* for every lease that was lost.                                          *)
THEOREM BatchClaimBudget == Spec => []ClaimsBounded
<1>1. NextClaimPaidFor => ClaimsBounded
  BY DEF NextClaimPaidFor, ClaimPaidFor, ClaimsBounded
<1> QED  BY <1>1, ClaimsInvariance, PTL

(* So MaxGeneration takes no claim away from a batch that waits for one,   *)
(* when it leaves room for all the attempts and faults.                    *)
THEOREM EnoughGenerations ==
  ASSUME MaxGeneration >= BatchAttempts + MaxFaults
  PROVE  Spec => [](\A b \in Batches : bop[b].status \in {"queued", "retry_wait"} =>
                                         bop[b].generation < MaxGeneration)
<1>1. ASSUME IInv, NextClaimPaidFor, NEW b \in Batches,
             bop[b].status \in {"queued", "retry_wait"}
      PROVE  bop[b].generation < MaxGeneration
  <2>1. bop[b].generation + 1 <= BatchAttempts + faults.lease
    BY <1>1 DEF NextClaimPaidFor, ClaimPaidFor, WaitsForClaim
  <2>2. faults.lease \in 0..MaxFaults  BY <1>1, FaultTypes
  <2> QED  BY <1>1, <2>1, <2>2, ClaimNumbers, EvidenceAssumption
<1>2. IInv /\ NextClaimPaidFor =>
        \A b \in Batches : bop[b].status \in {"queued", "retry_wait"} =>
                             bop[b].generation < MaxGeneration
  BY <1>1
<1> QED  BY <1>2, ClaimsInvariance, PTL

(* ---- the day's run ---------------------------------------------------- *)

(* When members are left after a cursor, the next batch takes some.        *)
LEMMA SomeArePending ==
  ASSUME IInv, NEW cursor, PendingMembers(cursor) = {}
  PROVE  \A m \in Pool : ~Before(cursor, Position(m))
<1> DEFINE after == {m \in Pool : Before(cursor, Position(m))}
<1>1. ASSUME after # {}  PROVE FALSE
  <2>1. after \in SUBSET Members  BY DEF Pool
  <2>2. PICK m \in after : \A n \in after : ~Before(Position(n), Position(m))
    <3> HIDE DEF after
    <3> QED  BY <1>1, <2>1, EligibleNat, Extremes
  <2>3. {n \in after : Before(Position(n), Position(m))} = {}  BY <2>2
  <2>4. Cardinality({n \in after : Before(Position(n), Position(m))}) < BatchMax
    BY <2>3, FS_EmptySet, EvidenceAssumption
  <2>5. m \in PendingMembers(cursor)  BY <2>4 DEF PendingMembers
  <2> QED  BY <2>5
<1> QED  BY <1>1

RunEndsRightly ==
  run'.status = "succeeded" /\ run.status # "succeeded" =>
    /\ OpTerminal(run'.op)
    /\ \A m \in Pool : ~Before(run'.cursor, Position(m))

LEMMA SweepEnds ==
  ASSUME IInv, NEW r \in Run, NEW pool, Sweep(r, pool).status = "succeeded",
         r.status # "succeeded"
  PROVE  OpTerminal(Sweep(r, pool).op) /\ pool = {}
BY DEF Sweep, Run

LEMMA SweepKeeps ==
  ASSUME NEW r \in Run, NEW pool, pool # {}
  PROVE  Sweep(r, pool) = r
BY DEF Sweep

LEMMA TickEndsRightly ==
  ASSUME IInv, TickWithoutBatch  PROVE RunEndsRightly
<1> SUFFICES ASSUME run'.status = "succeeded", run.status # "succeeded"
             PROVE  /\ OpTerminal(run'.op)
                    /\ \A m \in Pool : ~Before(run'.cursor, Position(m))
  BY DEF RunEndsRightly
<1> DEFINE r == TodaysRun
           state == Resolve(r)
<1>0. run \in Run /\ r \in Run /\ r.status # "succeeded"
  BY RunTypes DEF IInv, Types, TodaysRun, Run
<1>1. CASE Pool = {}
  <2>1. run' = Sweep(run, Pool)  BY <1>1 DEF TickWithoutBatch
  <2>2. OpTerminal(Sweep(run, Pool).op)  BY <1>0, <2>1, SweepEnds
  <2> QED  BY <1>1, <2>1, <2>2
<1>2. CASE Pool # {}
  <2> DEFINE next == CASE state = "failed" -> [r EXCEPT !.status = "failed"]
                       [] state = "continue" -> [r EXCEPT !.status = "succeeded"]
                       [] OTHER -> r
  <2>1. run' = Sweep(next, Pool) /\ (state = "continue" => PendingMembers(r.cursor) = {})
    BY <1>2 DEF TickWithoutBatch
  <2>2. next \in Run  BY <1>0, RunTypes
  <2> HIDE DEF next
  <2>3. run' = next  BY <1>2, <2>1, <2>2, SweepKeeps
  <2> USE DEF next
  <2>4. state = "continue"
    <3>1. CASE state = "failed"  BY <1>0, <2>3, <3>1 DEF Run
    <3>2. CASE state # "failed" /\ state # "continue"
      <4>1. next = r  BY <3>2
      <4> QED  BY <1>0, <2>3, <4>1
    <3> QED  BY <3>1, <3>2
  <2>5. run' = [r EXCEPT !.status = "succeeded"]  BY <2>3, <2>4
  <2>6. run'.op = r.op /\ run'.cursor = r.cursor  BY <1>0, <2>5 DEF Run
  <2>7. OpTerminal(r.op)
    <3>1. r.op # NoBatch => bop[r.op].status \in Terminal  BY <2>4 DEF Resolve
    <3> QED  BY <3>1 DEF OpTerminal
  <2>8. \A m \in Pool : ~Before(r.cursor, Position(m))
    BY <2>1, <2>4, SomeArePending
  <2> QED  BY <2>6, <2>7, <2>8
<1> QED  BY <1>1, <1>2

LEMMA CreateEndsRightly ==
  ASSUME IInv, NEW b \in Batches, CreateBatch(b)  PROVE RunEndsRightly
<1> SUFFICES ASSUME run'.status = "succeeded", run.status # "succeeded"
             PROVE  /\ OpTerminal(run'.op)
                    /\ \A m \in Pool : ~Before(run'.cursor, Position(m))
  BY DEF RunEndsRightly
<1>0. run \in Run /\ TodaysRun \in Run /\ TodaysRun.status # "succeeded"
  BY RunTypes DEF IInv, Types, TodaysRun, Run
<1>1. CASE Assigned = {}
  <2>1. run' = Sweep(TodaysRun, Pool \ Assigned)  BY <1>1 DEF CreateBatch
  <2>2. OpTerminal(run'.op) /\ Pool \ Assigned = {}
    BY <1>0, <2>1, SweepEnds
  <2> QED  BY <1>1, <2>2
<1>2. CASE Assigned # {}
  <2>1. PICK p : run' = [TodaysRun EXCEPT !.status = "running", !.op = b, !.cursor = p]
    BY <1>2 DEF CreateBatch
  <2>2. run'.status = "running"  BY <1>0, <2>1 DEF Run
  <2> QED  BY <2>2
<1> QED  BY <1>1, <1>2

LEMMA StepEndsRightly == IInv /\ [Next]_vars => RunEndsRightly
<1> SUFFICES ASSUME IInv, [Next]_vars  PROVE RunEndsRightly
  OBVIOUS
<1>1. UNCHANGED run => RunEndsRightly  BY DEF RunEndsRightly
<1>2. CASE Tick
  BY <1>1, <1>2, TickEndsRightly, CreateEndsRightly DEF Tick, SelectMembers
<1>3. CASE NextDay  BY <1>3 DEF NextDay, NoRun, RunEndsRightly
<1>4. CASE \E b \in Batches, g \in Generations : ExecStep(b, g) \/ ExecutionDies(b, g)
  <2> PICK b \in Batches, g \in Generations : ExecStep(b, g) \/ ExecutionDies(b, g)
    BY <1>4
  <2>1. StartBatch(b, g) \/ LoadBatchMembers(b, g) \/ ExecutionDies(b, g) => UNCHANGED run
    BY DEF StartBatch, LoadBatchMembers, ExecutionDies
  <2>2. \A m \in Members : BeginBatchMember(b, g, m) \/ ReleaseBatchMember(b, g, m) =>
                             UNCHANGED run
    BY DEF BeginBatchMember, ReleaseBatchMember
  <2>3. MemberWritesNothing(b, g) \/ GraphFails(b, g) \/ MarkCommit(b, g) \/ CommitMember(b, g)
          => UNCHANGED run
    BY DEF MemberWritesNothing, GraphFails, MarkCommit, CommitMember
  <2>4. FinalizeBatch(b, g) \/ WriteResult(b, g) => UNCHANGED run
    BY DEF FinalizeBatch, WriteResult
  <2> QED  BY <1>1, <2>1, <2>2, <2>3, <2>4 DEF ExecStep
<1>5. CASE \/ \E m \in Members : Submit(m) \/ BecomeDue(m)
           \/ \E b \in Batches : ClaimBatch(b) \/ LoseLease(b) \/ RecoverLease(b)
           \/ \E c \in Clients, t \in Members \union Batches : CancelRead(c, t)
           \/ \E c \in Clients : CancelWrite(c)
           \/ UNCHANGED vars
  BY <1>1, <1>5 DEF Submit, BecomeDue, ClaimBatch, LoseLease, RecoverLease, CancelRead,
                    CancelWrite, vars
<1> QED  BY <1>2, <1>3, <1>4, <1>5 DEF Next

(* The day's run closes as succeeded only when its batch is final and no   *)
(* due evidence is left after its cursor, for any amount of evidence and   *)
(* any size of a batch.                                                    *)
THEOREM RunClosesRightly == Spec => RunClosesWhenDone
<1>1. IInv /\ [Next]_vars =>
        [run'.status = "succeeded" /\ run.status # "succeeded" =>
           /\ OpTerminal(run'.op)
           /\ \A m \in Pool : ~Before(run'.cursor, Position(m))]_vars
  BY StepEndsRightly DEF RunEndsRightly
<1> QED  BY <1>1, Invariance, PTL DEF Spec, RunClosesWhenDone
================================================================================
