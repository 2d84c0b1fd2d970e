----------------------- MODULE SummaryGeneration_proofs -----------------------
(***************************************************************************)
(* Proofs about SummaryGeneration, for every number of turns, users, slots *)
(* and attempts.  The invariant has three layers: what a job's row and its *)
(* executions agree on (Fit), what a summary shows, and what an execution  *)
(* behind its fence may rely on when it commits.  The last two sections    *)
(* count: the jobs against the turns and acts that may ask for one, and    *)
(* the automatic jobs of a turn.                                           *)
(***************************************************************************)
EXTENDS SummaryGeneration, FiniteSetTheorems, TLAPS

(* The claim of row r that may still write.                                *)
At(r, g) == r.status = "processing" /\ r.gen = g

PlanFits(p) == p \in Plan /\ (p.kind = "create" => p.id = 0 /\ p.version = 0)

(* A row r, the executions x of its claims, and the faults so far: a claim *)
(* beyond the attempts was paid for by a fault, and so was a lease that    *)
(* has run out or is about to because nobody works under it.               *)
Counted(r, x, n) ==
  /\ r.gen <= MaxAttempts + n
  /\ r.status = "absent" => r = NoJob
  /\ r.status = "pending" => r.gen = 0
  /\ r.status = "retry_wait" => r.gen < MaxAttempts
  /\ r.status = "processing" =>
       /\ r.gen \in Generations
       /\ r.lease = "expired" \/ x[r.gen] = "none" => r.gen < MaxAttempts + n

(* Only the last claim is in a commit, and one that is planned has a plan. *)
Planful(r, x) ==
  /\ \A g \in Generations : x[g] = "commit" => At(r, g)
  /\ \A g \in Generations : x[g] \in {"planned", "commit"} /\ At(r, g) => r.plan.kind # "none"

Fit(r, x, n) ==
  /\ r \in JobRow /\ x \in [Generations -> ExecState]
  /\ (r.lease = "none") <=> (r.status # "processing")
  /\ PlanFits(r.plan)
  /\ Counted(r, x, n) /\ Planful(r, x)

JobsFit ==
  /\ job \in [Jobs -> JobRow]
  /\ exec \in [Jobs -> [Generations -> ExecState]]
  /\ faults \in 0..MaxFaults
  /\ \A j \in Jobs : Fit(job[j], exec[j], faults)

-----------------------------------------------------------------------------
(* The constants, without their definitions.                               *)
LEMMA Numbers ==
  /\ MaxAttempts \in Nat \ {0} /\ MaxFaults \in Nat /\ Concurrency \in Nat \ {0}
  /\ Reserved \in Nat \ {0} /\ Reserved <= Concurrency /\ MaxActs \in Nat
  /\ Generations = 1..(MaxAttempts + MaxFaults)
  /\ Generations \subseteq Nat \ {0}
BY SummariesAssumption DEF Generations

LEMMA JobNumbers == IsFiniteSet(Jobs) /\ Jobs \subseteq Nat
<1>1. Cardinality(Turns) \in Nat  BY SummariesAssumption, FS_CardinalityType
<1>2. Cardinality(Turns) + MaxActs \in Int  BY <1>1, Numbers
<1>3. IsFiniteSet(1..(Cardinality(Turns) + MaxActs))  BY <1>2, FS_Interval
<1> QED  BY <1>2, <1>3 DEF Jobs

LEMMA Places ==
  ASSUME NEW t \in Turns
  PROVE  ThreadOf[t] \in Threads /\ UserOf(t) \in Users
BY SummariesAssumption DEF UserOf

LEMMA NoJobType ==
  /\ NoJob \in JobRow /\ NoJob.status = "absent" /\ NoJob.lease = "none" /\ NoJob.gen = 0
  /\ NoJob.plan = NoPlan /\ PlanFits(NoPlan) /\ NoPlan.kind = "none"
  /\ NoPlan.id = 0 /\ NoPlan.version = 0
<1>1. (CHOOSE t \in Turns : TRUE) \in Turns  BY SummariesAssumption
<1>2. NoPlan \in Plan  BY DEF NoPlan, Plan
<1>3. NoPlan.kind = "none" /\ NoPlan.id = 0 /\ NoPlan.version = 0  BY DEF NoPlan
<1> QED  BY <1>1, <1>2, <1>3 DEF NoJob, JobRow, PlanFits, Open, Ended

-----------------------------------------------------------------------------
(* Rows and executions, one change at a time.                              *)
LEMMA FitLater ==
  ASSUME NEW r, NEW x, NEW n \in Nat, NEW m \in Nat, n <= m, Fit(r, x, n)
  PROVE  Fit(r, x, m)
<1>1. r.gen \in Nat  BY DEF Fit, JobRow
<1> QED  BY <1>1, Numbers DEF Fit, Counted

LEMMA FitNew ==
  ASSUME NEW r, NEW s, NEW x, NEW n \in Nat, Fit(r, x, n), r.status = "absent",
         s \in JobRow, s.status = "pending", s.lease = "none", s.gen = 0, s.plan = NoPlan
  PROVE  Fit(s, x, n)
<1>1. \A g \in Generations : x[g] # "commit"  BY DEF Fit, Planful, At
<1> QED  BY <1>1, Numbers, NoJobType DEF Fit, Counted, Planful, At

LEMMA FitClaim ==
  ASSUME NEW r, NEW s, NEW x, NEW n \in 0..MaxFaults, Fit(r, x, n),
         \/ r.status \in {"pending", "retry_wait"}
         \/ r.status = "processing" /\ r.lease = "expired",
         \A g \in Generations : x[g] # "commit",
         s \in JobRow, s.status = "processing", s.lease = "live", s.gen = r.gen + 1,
         s.plan = r.plan
  PROVE  /\ r.gen + 1 \in Generations
         /\ Fit(s, [x EXCEPT ![r.gen + 1] = "claimed"], n)
<1>0. r.gen \in Nat /\ n \in Nat /\ n <= MaxFaults  BY Numbers DEF Fit, JobRow
<1>1. r.gen < MaxAttempts + n  BY <1>0, Numbers DEF Fit, Counted
<1>2. r.gen + 1 \in Generations  BY <1>0, <1>1, Numbers
<1> DEFINE y == [x EXCEPT ![r.gen + 1] = "claimed"]
<1>3. /\ y \in [Generations -> ExecState] /\ y[r.gen + 1] = "claimed"
      /\ \A g \in Generations : g # r.gen + 1 => y[g] = x[g]
  BY <1>2 DEF Fit, ExecState
<1> HIDE DEF y
<1>4. Planful(s, y)  BY <1>2, <1>3 DEF Planful, At
<1>5. Counted(s, y, n)  BY <1>0, <1>1, <1>2, <1>3, Numbers DEF Counted
<1> QED  BY <1>2, <1>3, <1>4, <1>5 DEF Fit, y

(* The last claim writes its result and ends.                              *)
LEMMA FitRelease ==
  ASSUME NEW r, NEW s, NEW x, NEW n \in Nat, NEW g \in Generations, Fit(r, x, n), At(r, g),
         s \in JobRow, s.status \in Ended \/ (s.status = "retry_wait" /\ g < MaxAttempts),
         s.lease = "none", s.gen = r.gen, PlanFits(s.plan)
  PROVE  Fit(s, [x EXCEPT ![g] = "none"], n)
<1> DEFINE y == [x EXCEPT ![g] = "none"]
<1>1. /\ y \in [Generations -> ExecState] /\ y[g] = "none"
      /\ \A h \in Generations : h # g => y[h] = x[h]
  BY DEF Fit, ExecState
<1> HIDE DEF y
<1>2. \A h \in Generations : y[h] # "commit"  BY <1>1 DEF Fit, Planful, At
<1>3. s.status \notin {"absent", "pending", "processing"}  BY DEF Ended
<1>4. Planful(s, y)  BY <1>2, <1>3 DEF Planful, At
<1>5. Counted(s, y, n)  BY <1>3 DEF Counted, Fit, At, Ended
<1> QED  BY <1>1, <1>3, <1>4, <1>5 DEF Fit, y

(* An execution ends without a write: it was fenced out, or it crashed.    *)
LEMMA FitLeave ==
  ASSUME NEW r, NEW x, NEW n \in Nat, NEW g \in Generations, NEW m \in Nat, Fit(r, x, n),
         (m = n /\ ~At(r, g)) \/ m = n + 1
  PROVE  Fit(r, [x EXCEPT ![g] = "none"], m)
<1> DEFINE y == [x EXCEPT ![g] = "none"]
<1>1. /\ y \in [Generations -> ExecState] /\ y[g] = "none"
      /\ \A h \in Generations : h # g => y[h] = x[h]
  BY DEF Fit, ExecState
<1> HIDE DEF y
<1>2. Planful(r, y)  BY <1>1 DEF Planful, Fit
<1>3. r.gen \in Nat  BY DEF Fit, JobRow
<1>4. Counted(r, y, m)
  <2>1. CASE m = n /\ ~At(r, g)  BY <1>1, <2>1 DEF Counted, Fit, At
  <2>2. CASE m = n + 1  BY <1>3, <2>2, Numbers DEF Counted, Fit
  <2> QED  BY <2>1, <2>2
<1> QED  BY <1>1, <1>2, <1>4 DEF Fit, y

(* The last claim goes on, perhaps with a plan it has made.                *)
LEMMA FitGoOn ==
  ASSUME NEW r, NEW s, NEW x, NEW n \in Nat, NEW g \in Generations, Fit(r, x, n),
         NEW pc \in {"planned", "commit"},
         At(r, g), s \in JobRow, s.status = r.status, s.lease = r.lease, s.gen = r.gen,
         PlanFits(s.plan), s.plan.kind # "none", x[g] # "none"
  PROVE  Fit(s, [x EXCEPT ![g] = pc], n)
<1> DEFINE y == [x EXCEPT ![g] = pc]
<1>1. /\ y \in [Generations -> ExecState] /\ y[g] = pc
      /\ \A h \in Generations : h # g => y[h] = x[h]
  BY DEF Fit, ExecState
<1> HIDE DEF y
<1>2. Planful(s, y)  BY <1>1 DEF Planful, Fit, At
<1>3. Counted(s, y, n)  BY <1>1 DEF Counted, Fit, At
<1> QED  BY <1>1, <1>2, <1>3 DEF Fit, At, y

(* Its lease runs out or comes back.                                       *)
LEMMA FitLease ==
  ASSUME NEW r, NEW s, NEW x, NEW n \in Nat, NEW m \in Nat, Fit(r, x, n),
         r.status = "processing", s \in JobRow, s.status = r.status, s.gen = r.gen,
         s.plan = r.plan,
         \/ s.lease = "live" /\ m = n
         \/ s.lease = "expired" /\ m = n /\ x[r.gen] = "none"
         \/ s.lease = "expired" /\ m = n + 1
  PROVE  Fit(s, x, m)
<1>1. r.gen \in Nat  BY DEF Fit, JobRow
<1>2. Planful(s, x)  BY DEF Planful, Fit, At
<1>3. Counted(s, x, m)  BY <1>1, Numbers DEF Counted, Fit
<1> QED  BY <1>2, <1>3 DEF Fit

(* The deletion of its thread cancels it.                                  *)
LEMMA FitCancelled ==
  ASSUME NEW r, NEW s, NEW x, NEW n \in Nat, Fit(r, x, n),
         r.status \in {"pending", "retry_wait"}, s \in JobRow, s.status = "cancelled",
         s.lease = r.lease, s.gen = r.gen, s.plan = NoPlan
  PROVE  Fit(s, x, n)
<1>1. \A g \in Generations : x[g] # "commit"  BY DEF Planful, Fit, At
<1>2. Planful(s, x)  BY <1>1 DEF Planful, At
<1>3. Counted(s, x, n)  BY DEF Counted, Fit
<1> QED  BY <1>2, <1>3, NoJobType DEF Fit

-----------------------------------------------------------------------------
(* What a summary shows, and that one that is not live has nothing.        *)
Shown(s) ==
  /\ s.conflict <=> s.reviews # {}
  /\ s.live => s.id # 0
  /\ ~s.live => s.reviews = {} /\ s.sources = {}

SummariesFit ==
  /\ summary \in [Users -> SummaryRow]
  /\ buried \in [Users -> [turns : SUBSET Turns, sources : SUBSET Turns]]
  /\ \A u \in Users : Shown(summary[u])

LEMMA FoundIs ==
  ASSUME SummariesFit, NEW u \in Users
  PROVE  /\ Found(u) \in Plan /\ Found(u).kind = "none"
         /\ summary[u].live => /\ Found(u).id = summary[u].id /\ Found(u).id # 0
                               /\ Found(u).version = summary[u].version
         /\ ~summary[u].live => Found(u) = NoPlan /\ Found(u).id = 0 /\ Found(u).version = 0
<1>1. summary[u] \in SummaryRow /\ Shown(summary[u])  BY DEF SummariesFit
<1>2. summary[u].id \in Nat /\ summary[u].version \in Nat  BY <1>1 DEF SummaryRow
<1>3. CASE summary[u].live
  BY <1>1, <1>2, <1>3 DEF Found, Plan, Shown
<1>4. CASE ~summary[u].live
  BY <1>4, NoJobType DEF Found, PlanFits
<1> QED  BY <1>3, <1>4

(* The plan an execution makes.                                            *)
LEMMA PlanMade ==
  ASSUME SummariesFit, NEW u \in Users, NEW kind \in {"create", "merge", "review"},
         Fits([Found(u) EXCEPT !.kind = kind], Found(u))
  PROVE  LET plan == [Found(u) EXCEPT !.kind = kind]
         IN  /\ PlanFits(plan) /\ plan.kind = kind
             /\ plan.id = Found(u).id /\ plan.version = Found(u).version
             /\ kind = "create" => ~summary[u].live
<1> DEFINE plan == [Found(u) EXCEPT !.kind = kind]
<1>1. /\ plan \in Plan /\ plan.kind = kind /\ plan.id = Found(u).id
      /\ plan.version = Found(u).version
  BY FoundIs DEF Plan
<1> HIDE DEF plan
<1>2. Fits(plan, Found(u))  BY DEF plan
<1>3. kind = "create" => Found(u).id = 0  BY <1>1, <1>2 DEF Fits
<1>4. kind = "create" => ~summary[u].live  BY <1>3, FoundIs
<1>5. PlanFits(plan)  BY <1>1, <1>3, <1>4, FoundIs DEF PlanFits
<1> QED  BY <1>1, <1>4, <1>5 DEF plan

-----------------------------------------------------------------------------
(* What a step may do to job k.                                            *)
Still(k) == job'[k] = job[k] /\ exec'[k] = exec[k]

Born(k) ==
  /\ job[k].status = "absent" /\ exec'[k] = exec[k]
  /\ job'[k] \in JobRow /\ job'[k].status = "pending" /\ job'[k].lease = "none"
  /\ job'[k].gen = 0 /\ job'[k].plan = NoPlan

Keeps(k) ==
  job'[k] \in JobRow /\ job'[k].turn = job[k].turn /\ job'[k].trigger = job[k].trigger

Taken(k) ==
  /\ ~Locked(k) /\ ~Holding(k)
  /\ \/ job[k].status \in {"pending", "retry_wait"}
     \/ job[k].status = "processing" /\ job[k].lease = "expired"
  /\ Keeps(k) /\ job'[k].status = "processing" /\ job'[k].lease = "live"
  /\ job'[k].gen = job[k].gen + 1 /\ job'[k].plan = job[k].plan
  /\ exec'[k] = [exec[k] EXCEPT ![job[k].gen + 1] = "claimed"]

Freed(k, g) ==
  /\ Fenced(k, g) /\ Keeps(k)
  /\ \/ job'[k].status \in Ended /\ job'[k].plan = NoPlan
     \/ job'[k].status = "retry_wait" /\ g < MaxAttempts /\ job'[k].plan \in {job[k].plan, NoPlan}
  /\ job'[k].lease = "none" /\ job'[k].gen = job[k].gen
  /\ exec'[k] = [exec[k] EXCEPT ![g] = "none"]

Left(k, g) ==
  /\ job'[k] = job[k] /\ exec'[k] = [exec[k] EXCEPT ![g] = "none"]
  /\ (~Fenced(k, g) /\ faults' = faults) \/ faults' = faults + 1

Plans(k, g) ==
  /\ Fenced(k, g) /\ Keeps(k) /\ exec[k][g] # "none"
  /\ job'[k].status = job[k].status /\ job'[k].lease = job[k].lease
  /\ job'[k].gen = job[k].gen
  /\ PlanFits(job'[k].plan) /\ job'[k].plan.kind # "none"
  /\ job'[k].plan.kind = "create" => ~summary[User(k)].live
  /\ exec'[k] = [exec[k] EXCEPT ![g] = "planned"]

(* An execution that was fenced out goes on with a plan.                   *)
Strays(k, g) ==
  ~Fenced(k, g) /\ job'[k] = job[k] /\ exec'[k] = [exec[k] EXCEPT ![g] = "planned"]

Commits(k, g) ==
  /\ Fenced(k, g) /\ exec[k][g] = "planned" /\ ThreadAlive(k)
  /\ job'[k] = job[k] /\ exec'[k] = [exec[k] EXCEPT ![g] = "commit"]

Leased(k, lease) ==
  /\ job[k].status = "processing" /\ Keeps(k) /\ exec'[k] = exec[k]
  /\ job'[k].status = job[k].status /\ job'[k].gen = job[k].gen
  /\ job'[k].plan = job[k].plan /\ job'[k].lease = lease
  /\ \/ lease = "live" /\ faults' = faults
     \/ lease = "expired" /\ faults' = faults /\ exec[k][job[k].gen] = "none"
     \/ lease = "expired" /\ faults' = faults + 1

Dropped(k) ==
  /\ job[k].status \in {"pending", "retry_wait"} /\ Keeps(k) /\ exec'[k] = exec[k]
  /\ job'[k].status = "cancelled" /\ job'[k].lease = job[k].lease
  /\ job'[k].gen = job[k].gen /\ job'[k].plan = NoPlan

(* It gets no lease...                                                     *)
Calm(k) ==
  \/ Still(k) \/ Born(k) \/ Dropped(k) \/ Leased(k, "expired")
  \/ \E g \in Generations : Freed(k, g) \/ Left(k, g) \/ Plans(k, g) \/ Strays(k, g)
                            \/ Commits(k, g)

(* ...or it does.                                                          *)
JobStep(k) == Calm(k) \/ Taken(k) \/ Leased(k, "live")

Whole == job' = [k \in Jobs |-> job'[k]] /\ exec' = [k \in Jobs |-> exec'[k]]

FaultsGoOn == faults' \in 0..MaxFaults /\ faults <= faults'

(* Any of these keeps the rows and executions as they should be.           *)
LEMMA StepFits ==
  ASSUME JobsFit, FaultsGoOn, NEW k \in Jobs, JobStep(k)
  PROVE  Fit(job'[k], exec'[k], faults')
<1>0. /\ faults \in Nat /\ faults' \in Nat /\ faults <= faults' /\ faults \in 0..MaxFaults
      /\ faults' \in 0..MaxFaults
  BY Numbers DEF JobsFit, FaultsGoOn
<1>1. Fit(job[k], exec[k], faults)  BY DEF JobsFit
<1>2. Fit(job[k], exec[k], faults')  BY <1>0, <1>1, FitLater
<1>3. PlanFits(job[k].plan) /\ PlanFits(NoPlan)  BY <1>1, NoJobType DEF Fit
<1>4. CASE Still(k)  BY <1>2, <1>4 DEF Still
<1>5. CASE Born(k)  BY <1>0, <1>2, <1>5, FitNew DEF Born
<1>6. CASE Taken(k)
  <2>1. \A g \in Generations : exec[k][g] # "commit"  BY <1>6 DEF Taken, Locked
  <2>2. /\ job'[k] \in JobRow /\ job'[k].status = "processing" /\ job'[k].lease = "live"
        /\ job'[k].gen = job[k].gen + 1 /\ job'[k].plan = job[k].plan
        /\ exec'[k] = [exec[k] EXCEPT ![job[k].gen + 1] = "claimed"]
        /\ \/ job[k].status \in {"pending", "retry_wait"}
           \/ job[k].status = "processing" /\ job[k].lease = "expired"
    BY <1>6 DEF Taken, Keeps
  <2> QED  BY <1>0, <1>2, <2>1, <2>2, FitClaim
<1>7. CASE Dropped(k)  BY <1>0, <1>2, <1>7, FitCancelled DEF Dropped, Keeps
<1>8. ASSUME NEW g \in Generations, Freed(k, g) PROVE Fit(job'[k], exec'[k], faults')
  <2>1. /\ job'[k] \in JobRow /\ job'[k].lease = "none" /\ job'[k].gen = job[k].gen
        /\ job'[k].status \in Ended \/ (job'[k].status = "retry_wait" /\ g < MaxAttempts)
        /\ PlanFits(job'[k].plan) /\ At(job[k], g)
        /\ exec'[k] = [exec[k] EXCEPT ![g] = "none"]
    BY <1>3, <1>8 DEF Freed, Keeps, At, Fenced
  <2> QED  BY <1>0, <1>2, <2>1, FitRelease
<1>9. ASSUME NEW g \in Generations, Left(k, g) PROVE Fit(job'[k], exec'[k], faults')
  BY <1>0, <1>1, <1>2, <1>9, FitLeave DEF Left, Fenced, At
<1>10. ASSUME NEW g \in Generations, Plans(k, g) PROVE Fit(job'[k], exec'[k], faults')
  <2>1. /\ job'[k] \in JobRow /\ job'[k].status = job[k].status
        /\ job'[k].lease = job[k].lease /\ job'[k].gen = job[k].gen
        /\ PlanFits(job'[k].plan) /\ job'[k].plan.kind # "none"
        /\ exec[k][g] # "none" /\ At(job[k], g)
        /\ exec'[k] = [exec[k] EXCEPT ![g] = "planned"]
    BY <1>10 DEF Plans, Keeps, At, Fenced
  <2>2. "planned" \in {"planned", "commit"}  OBVIOUS
  <2>3. Fit(job'[k], [exec[k] EXCEPT ![g] = "planned"], faults')
    BY <1>0, <1>2, <2>1, <2>2, FitGoOn
  <2> QED  BY <2>1, <2>3
<1>11. ASSUME NEW g \in Generations, Strays(k, g) PROVE Fit(job'[k], exec'[k], faults')
  <2>1. /\ exec'[k] \in [Generations -> ExecState] /\ exec'[k][g] = "planned"
        /\ \A h \in Generations : h # g => exec'[k][h] = exec[k][h]
    BY <1>2, <1>11 DEF Strays, Fit, ExecState
  <2>2. job'[k] = job[k] /\ ~At(job[k], g)  BY <1>11 DEF Strays, Fenced, At
  <2> QED  BY <1>2, <2>1, <2>2 DEF Fit, Counted, Planful, At
<1>12. ASSUME NEW g \in Generations, Commits(k, g) PROVE Fit(job'[k], exec'[k], faults')
  <2>1. job[k].plan.kind # "none" /\ job[k] \in JobRow
    BY <1>1, <1>12 DEF Commits, Fit, Planful, At, Fenced
  <2>2. exec[k][g] # "none" /\ At(job[k], g)  BY <1>12 DEF Commits, Fenced, At
  <2>3. "commit" \in {"planned", "commit"}  OBVIOUS
  <2>4. Fit(job[k], [exec[k] EXCEPT ![g] = "commit"], faults')
    BY <1>0, <1>2, <1>3, <2>1, <2>2, <2>3, FitGoOn
  <2> QED  BY <1>12, <2>4 DEF Commits
<1>13. ASSUME NEW lease \in {"live", "expired"}, Leased(k, lease)
       PROVE  Fit(job'[k], exec'[k], faults')
  BY <1>0, <1>1, <1>13, FitLease DEF Leased, Keeps
<1> QED
  BY <1>4, <1>5, <1>6, <1>7, <1>8, <1>9, <1>10, <1>11, <1>12, <1>13 DEF JobStep, Calm

LEMMA StepsFit ==
  ASSUME JobsFit, FaultsGoOn, Whole, \A k \in Jobs : JobStep(k)
  PROVE  JobsFit'
<1>1. \A k \in Jobs : Fit(job'[k], exec'[k], faults')  BY StepFits
<1>2. \A k \in Jobs : job'[k] \in JobRow /\ exec'[k] \in [Generations -> ExecState]
  BY <1>1 DEF Fit
<1>3. job' \in [Jobs -> JobRow] /\ exec' \in [Jobs -> [Generations -> ExecState]]
  BY <1>2 DEF Whole
<1> QED  BY <1>1, <1>3 DEF JobsFit, FaultsGoOn

-----------------------------------------------------------------------------
(* The actions in these terms.                                             *)
Only(j) == Whole /\ \A k \in Jobs : k # j => Still(k)

LEMMA OneRow ==
  ASSUME JobsFit, NEW j \in Jobs, NEW s, NEW y,
         job' = [job EXCEPT ![j] = s], exec' = [exec EXCEPT ![j] = y]
  PROVE  Only(j) /\ job'[j] = s /\ exec'[j] = y
<1>1. /\ job = [k \in Jobs |-> job[k]] /\ exec = [k \in Jobs |-> exec[k]]
  BY DEF JobsFit
<1>2. job' = [k \in Jobs |-> job'[k]] /\ exec' = [k \in Jobs |-> exec'[k]]
  BY <1>1
<1>3. job'[j] = s /\ exec'[j] = y  BY <1>1
<1>4. \A k \in Jobs : k # j => job'[k] = job[k] /\ exec'[k] = exec[k]  BY <1>1
<1> QED  BY <1>2, <1>3, <1>4 DEF Only, Whole, Still

LEMMA NoRow ==
  ASSUME JobsFit, UNCHANGED <<job, exec>>
  PROVE  Whole /\ \A k \in Jobs : Still(k)
BY DEF JobsFit, Whole, Still

(* A new job.                                                              *)
RowFor(t, trigger) == [NoJob EXCEPT !.turn = t, !.trigger = trigger, !.status = "pending"]

LEMMA NewRow ==
  ASSUME NEW t \in Turns, NEW trigger \in {"auto"} \union Manual
  PROVE  /\ RowFor(t, trigger) \in JobRow /\ RowFor(t, trigger).turn = t
         /\ RowFor(t, trigger).status = "pending" /\ RowFor(t, trigger).lease = "none"
         /\ RowFor(t, trigger).gen = 0 /\ RowFor(t, trigger).plan = NoPlan
BY NoJobType DEF RowFor, NoJob, JobRow, Open

LEMMA NewJobIs ==
  ASSUME JobsFit, NEW t \in Turns, NEW trigger \in {"auto"} \union Manual,
         NewJob(t, trigger), exec' = exec
  PROVE  \E j \in Jobs : Only(j) /\ Born(j) /\ job'[j].turn = t
<1>1. PICK j \in Jobs :
        job[j].status = "absent" /\ job' = [job EXCEPT ![j] = RowFor(t, trigger)]
  BY DEF NewJob, Created, RowFor
<1>2. exec' = [exec EXCEPT ![j] = exec[j]]  BY DEF JobsFit
<1>3. Only(j) /\ job'[j] = RowFor(t, trigger) /\ exec'[j] = exec[j]
  BY <1>1, <1>2, OneRow
<1> QED  BY <1>1, <1>3, NewRow DEF Born

(* An execution ends with a result, which it writes if it is not fenced    *)
(* out.                                                                    *)
LEMMA ReleasedRow ==
  ASSUME job \in [Jobs -> JobRow], NEW j \in Jobs, NEW status \in Open \union Ended,
         NEW plan \in Plan
  PROVE  \E s \in JobRow :
           /\ Released(j, status, plan) = [job EXCEPT ![j] = s]
           /\ s.turn = job[j].turn /\ s.trigger = job[j].trigger /\ s.status = status
           /\ s.lease = "none" /\ s.gen = job[j].gen
           /\ s.plan = IF status \in Ended THEN NoPlan ELSE plan
<1> DEFINE p == IF status \in Ended THEN NoPlan ELSE plan
           s == [job[j] EXCEPT !.status = status, !.lease = "none", !.plan = p]
<1>1. p \in Plan  BY NoJobType DEF PlanFits
<1> HIDE DEF p
<1>2. job[j] \in JobRow  OBVIOUS
<1>3. /\ s \in JobRow /\ s.turn = job[j].turn /\ s.trigger = job[j].trigger
      /\ s.status = status /\ s.lease = "none" /\ s.gen = job[j].gen /\ s.plan = p
  BY <1>1, <1>2 DEF JobRow, Open, Ended
<1>4. Released(j, status, plan) = [job EXCEPT ![j] = s]
  BY <1>2 DEF Released, p, JobRow
<1> QED  BY <1>3, <1>4 DEF p

Ends(j, g, status) == Only(j) /\ Freed(j, g) /\ job'[j].status = status

LEMMA Ending ==
  ASSUME JobsFit, NEW j \in Jobs, NEW g \in Generations,
         NEW status \in Ended \union {"retry_wait"}, NEW plan \in {job[j].plan, NoPlan},
         status = "retry_wait" => g < MaxAttempts,
         job' = (IF Fenced(j, g) THEN Released(j, status, plan) ELSE job), Leaves(j, g),
         faults' = faults \/ faults' = faults + 1
  PROVE  /\ Fenced(j, g) => /\ Ends(j, g, status)
                            /\ status = "retry_wait" => job'[j].plan = plan
         /\ ~Fenced(j, g) => Only(j) /\ Left(j, g)
<1>1. exec' = [exec EXCEPT ![j] = [exec[j] EXCEPT ![g] = "none"]]  BY DEF Leaves
<1>2. CASE Fenced(j, g)
  <2>1. plan \in Plan /\ status \in Open \union Ended /\ job \in [Jobs -> JobRow]
    BY NoJobType DEF PlanFits, Open, JobsFit, JobRow
  <2>2. PICK s \in JobRow :
          /\ job' = [job EXCEPT ![j] = s]
          /\ s.turn = job[j].turn /\ s.trigger = job[j].trigger
          /\ s.status = status /\ s.lease = "none" /\ s.gen = job[j].gen
          /\ s.plan = IF status \in Ended THEN NoPlan ELSE plan
    BY <1>2, <2>1, ReleasedRow
  <2>a. job' = [job EXCEPT ![j] = s]  BY <2>2
  <2>3. Only(j) /\ job'[j] = s /\ exec'[j] = [exec[j] EXCEPT ![g] = "none"]
    BY <1>1, <2>a, OneRow, Zenon
  <2>4. status = "retry_wait" => status \notin Ended  BY DEF Ended
  <2>5. Keeps(j) /\ job'[j].lease = "none" /\ job'[j].gen = job[j].gen
    BY <2>2, <2>3 DEF Keeps
  <2> QED  BY <1>2, <2>2, <2>3, <2>4, <2>5 DEF Freed, Ends
<1>3. CASE ~Fenced(j, g)
  <2>1. job' = [job EXCEPT ![j] = job[j]]  BY <1>3 DEF JobsFit
  <2>2. Only(j) /\ job'[j] = job[j] /\ exec'[j] = [exec[j] EXCEPT ![g] = "none"]
    BY <1>1, <2>1, OneRow
  <2> QED  BY <1>3, <2>2 DEF Left
<1> QED  BY <1>2, <1>3

LEMMA Finishing ==
  ASSUME JobsFit, NEW j \in Jobs, NEW g \in Generations, NEW status \in Ended,
         Finish(j, g, status), faults' = faults \/ faults' = faults + 1
  PROVE  /\ Fenced(j, g) => Ends(j, g, status)
         /\ ~Fenced(j, g) => Only(j) /\ Left(j, g)
<1>1. status # "retry_wait"  BY DEF Ended
<1> QED  BY <1>1, Ending DEF Finish

LEMMA Retrying ==
  ASSUME JobsFit, NEW j \in Jobs, NEW g \in Generations, NEW plan \in {job[j].plan, NoPlan},
         Retry(j, g, plan), faults' = faults \/ faults' = faults + 1
  PROVE  /\ Fenced(j, g) => \/ Ends(j, g, "dead_letter")
                            \/ Ends(j, g, "retry_wait") /\ job'[j].plan = plan
         /\ ~Fenced(j, g) => Only(j) /\ Left(j, g)
<1> DEFINE status == IF g >= MaxAttempts THEN "dead_letter" ELSE "retry_wait"
<1>1. /\ status \in Ended \union {"retry_wait"}
      /\ status = "dead_letter" \/ status = "retry_wait"
  BY DEF Ended
<1>2. g \in Nat /\ MaxAttempts \in Nat  BY Numbers
<1>3. status = "retry_wait" => g < MaxAttempts  BY <1>2
<1>4. job' = (IF Fenced(j, g) THEN Released(j, status, plan) ELSE job) /\ Leaves(j, g)
  BY DEF Retry
<1> HIDE DEF status
<1>5. /\ Fenced(j, g) => /\ Ends(j, g, status)
                         /\ status = "retry_wait" => job'[j].plan = plan
      /\ ~Fenced(j, g) => Only(j) /\ Left(j, g)
  BY <1>1, <1>3, <1>4, Ending
<1> QED  BY <1>1, <1>5

(* An execution leaves and writes nothing, or goes on.                     *)
LEMMA Leaving ==
  ASSUME JobsFit, NEW j \in Jobs, NEW g \in Generations, job' = job, Leaves(j, g),
         (~Fenced(j, g) /\ faults' = faults) \/ faults' = faults + 1
  PROVE  Only(j) /\ Left(j, g)
<1>1. exec' = [exec EXCEPT ![j] = [exec[j] EXCEPT ![g] = "none"]]  BY DEF Leaves
<1>2. job' = [job EXCEPT ![j] = job[j]]  BY DEF JobsFit
<1>3. Only(j) /\ job'[j] = job[j] /\ exec'[j] = [exec[j] EXCEPT ![g] = "none"]
  BY <1>1, <1>2, OneRow
<1> QED  BY <1>3 DEF Left

LEMMA GoingOn ==
  ASSUME JobsFit, NEW j \in Jobs, NEW g \in Generations, NEW pc, job' = job,
         GoesOn(j, g, pc)
  PROVE  Only(j) /\ job'[j] = job[j] /\ exec'[j] = [exec[j] EXCEPT ![g] = pc]
<1>1. exec' = [exec EXCEPT ![j] = [exec[j] EXCEPT ![g] = pc]]  BY DEF GoesOn
<1>2. job' = [job EXCEPT ![j] = job[j]]  BY DEF JobsFit
<1> QED  BY <1>1, <1>2, OneRow

-----------------------------------------------------------------------------
(* The steps of an execution.                                              *)
Written == {"succeeded", "needs_review"}

(* It ends and has written nothing.                                        *)
Quits(j, g) ==
  Only(j) /\ (Left(j, g) \/ (Freed(j, g) /\ job'[j].status \notin Written))

LEMMA QuitsByResult ==
  ASSUME JobsFit, NEW j \in Jobs, NEW g \in Generations,
         faults' = faults \/ faults' = faults + 1
  PROVE  /\ \A status \in {"cancelled", "no_change", "dead_letter"} :
              Finish(j, g, status) => Quits(j, g)
         /\ \A plan \in {job[j].plan, NoPlan} : Retry(j, g, plan) => Quits(j, g)
<1>1. \A status \in {"cancelled", "no_change", "dead_letter"} :
        status \in Ended /\ status \notin Written
  BY DEF Ended, Written
<1>2. "dead_letter" \notin Written /\ "retry_wait" \notin Written  BY DEF Written
<1>3. ASSUME NEW status \in {"cancelled", "no_change", "dead_letter"}, Finish(j, g, status)
      PROVE  Quits(j, g)
  BY <1>1, <1>3, Finishing DEF Quits, Ends
<1>4. ASSUME NEW plan \in {job[j].plan, NoPlan}, Retry(j, g, plan) PROVE Quits(j, g)
  BY <1>2, <1>4, Retrying DEF Quits, Ends
<1> QED  BY <1>3, <1>4

LEMMA EndsEarlyIs ==
  ASSUME JobsFit, NEW j \in Jobs, NEW g \in Generations, EndsEarly(j, g)
  PROVE  Quits(j, g) /\ faults' = faults
<1>1. faults' = faults  BY DEF EndsEarly, bounds
<1>2. Finish(j, g, "cancelled") \/ Finish(j, g, "no_change")  BY DEF EndsEarly
<1> QED  BY <1>1, <1>2, QuitsByResult

LEMMA MakePlanIs ==
  ASSUME JobsFit, SummariesFit, NEW j \in Jobs, NEW g \in Generations, MakePlan(j, g)
  PROVE  /\ faults' = faults /\ Only(j)
         /\ \/ Left(j, g)
            \/ /\ Plans(j, g) /\ job'[j].plan.id = Found(User(j)).id
               /\ job'[j].plan.version = Found(User(j)).version
<1>1. faults' = faults  BY DEF MakePlan, bounds
<1>2. CASE ~Fenced(j, g)
  BY <1>1, <1>2, Leaving DEF MakePlan
<1>3. CASE Fenced(j, g)
  <2>0. /\ job[j] \in JobRow /\ exec[j][g] # "none"
    BY DEF JobsFit, MakePlan
  <2>1. User(j) \in Users  BY <2>0, Places DEF User, Turn, JobRow
  <2>2. PICK kind \in {"create", "merge", "review"} :
          /\ Fits([Found(User(j)) EXCEPT !.kind = kind], Found(User(j)))
          /\ job' = [job EXCEPT ![j].plan = [Found(User(j)) EXCEPT !.kind = kind]]
    BY <1>3 DEF MakePlan
  <2> DEFINE plan == [Found(User(j)) EXCEPT !.kind = kind]
             s == [job[j] EXCEPT !.plan = plan]
             y == [exec[j] EXCEPT ![g] = "planned"]
  <2>3. /\ PlanFits(plan) /\ plan.kind = kind
        /\ plan.id = Found(User(j)).id /\ plan.version = Found(User(j)).version
        /\ kind = "create" => ~summary[User(j)].live
    BY <2>1, <2>2, PlanMade
  <2>4. job' = [job EXCEPT ![j].plan = plan]  BY <2>2
  <2> HIDE DEF plan
  <2>5. /\ s \in JobRow /\ s.turn = job[j].turn /\ s.trigger = job[j].trigger
        /\ s.status = job[j].status /\ s.lease = job[j].lease
        /\ s.gen = job[j].gen /\ s.plan = plan
    BY <2>0, <2>3 DEF JobRow, PlanFits
  <2>6. job' = [job EXCEPT ![j] = s]  BY <2>4
  <2>7. exec' = [exec EXCEPT ![j] = y]
    BY <1>3 DEF MakePlan, GoesOn
  <2> HIDE DEF s
  <2>8. Only(j) /\ job'[j] = s /\ exec'[j] = y  BY <2>6, <2>7, OneRow
  <2> QED  BY <1>1, <1>3, <2>0, <2>3, <2>5, <2>8 DEF Plans, Keeps
<1> QED  BY <1>2, <1>3

LEMMA ReusePlanIs ==
  ASSUME JobsFit, SummariesFit, NEW j \in Jobs, NEW g \in Generations, ReusePlan(j, g)
  PROVE  /\ faults' = faults
         /\ \/ Quits(j, g)
            \/ Only(j) /\ job'[j] = job[j] /\ (Plans(j, g) \/ Strays(j, g))
<1>1. faults' = faults  BY DEF ReusePlan, bounds
<1>2. CASE Fits(job[j].plan, Found(User(j)))
  <2>1. job' = job /\ GoesOn(j, g, "planned")  BY <1>2 DEF ReusePlan
  <2>2. Only(j) /\ job'[j] = job[j] /\ exec'[j] = [exec[j] EXCEPT ![g] = "planned"]
    BY <2>1, GoingOn
  <2>3. /\ job[j] \in JobRow /\ PlanFits(job[j].plan) /\ exec[j][g] # "none"
        /\ job[j].plan.kind # "none"
    BY DEF JobsFit, Fit, ReusePlan
  <2>4. User(j) \in Users  BY <2>3, Places DEF User, Turn, JobRow
  <2>5. job[j].plan.kind = "create" => ~summary[User(j)].live
    BY <1>2, <2>4, FoundIs DEF Fits
  <2> QED  BY <1>1, <2>2, <2>3, <2>5 DEF Plans, Strays, Keeps
<1>3. CASE ~Fits(job[j].plan, Found(User(j)))
  BY <1>1, <1>3, QuitsByResult DEF ReusePlan
<1> QED  BY <1>2, <1>3

LEMMA BeginCommitIs ==
  ASSUME JobsFit, NEW j \in Jobs, NEW g \in Generations, BeginCommit(j, g)
  PROVE  faults' = faults /\ (Quits(j, g) \/ (Only(j) /\ Commits(j, g)))
<1>1. faults' = faults  BY DEF BeginCommit, bounds
<1>2. CASE Fenced(j, g) /\ Unchanged(j)
  <2>1. job' = job /\ GoesOn(j, g, "commit")  BY <1>2 DEF BeginCommit
  <2>2. Only(j) /\ job'[j] = job[j] /\ exec'[j] = [exec[j] EXCEPT ![g] = "commit"]
    BY <2>1, GoingOn
  <2> QED  BY <1>1, <1>2, <2>2 DEF Commits, BeginCommit, Unchanged
<1>3. CASE ~(Fenced(j, g) /\ Unchanged(j))
  BY <1>1, <1>3, QuitsByResult DEF BeginCommit
<1> QED  BY <1>2, <1>3

(* A commit writes the summary, or ends without.                           *)
Writes(j, g) ==
  LET plan == job[j].plan
      s == summary[User(j)]
  IN  /\ ~Vanished(plan, s) /\ ~Stale(plan, s)
      /\ plan.kind \in {"create", "merge"} => ~Suppressed(j)
      /\ summary' = [summary EXCEPT ![User(j)] = Applied(plan, s, j)]
      /\ Only(j) /\ Freed(j, g) /\ job'[j].status \in Written

LEMMA CommitWritesIs ==
  ASSUME JobsFit, NEW j \in Jobs, NEW g \in Generations, CommitWrites(j, g)
  PROVE  /\ faults' = faults /\ Fenced(j, g)
         /\ (Quits(j, g) /\ UNCHANGED summary) \/ Writes(j, g)
<1>1. faults' = faults  BY DEF CommitWrites, bounds
<1>2. Fenced(j, g)
  BY DEF CommitWrites, JobsFit, Fit, Planful, At, Fenced
<1>3. "succeeded" \in Ended \intersect Written /\ "needs_review" \in Ended \intersect Written
  BY DEF Ended, Written
<1>4. \A status \in {"succeeded", "needs_review"} :
        Finish(j, g, status) => Only(j) /\ Freed(j, g) /\ job'[j].status = status
  BY <1>1, <1>2, <1>3, Finishing DEF Ends
<1> DEFINE plan == job[j].plan
           s == summary[User(j)]
           hushed == plan.kind \in {"create", "merge"} /\ Suppressed(j)
<1>5. \/ Quits(j, g) /\ UNCHANGED summary
      \/ /\ ~Vanished(plan, s) /\ ~Stale(plan, s) /\ ~hushed
         /\ summary' = [summary EXCEPT ![User(j)] = Applied(plan, s, j)]
         /\ Finish(j, g, IF plan.kind = "review" THEN "needs_review" ELSE "succeeded")
  BY <1>1, QuitsByResult DEF CommitWrites
<1>6. CASE ~(Quits(j, g) /\ UNCHANGED summary)
  <2>1. PICK status \in {"succeeded", "needs_review"} : Finish(j, g, status)
    BY <1>5, <1>6
  <2>2. Only(j) /\ Freed(j, g) /\ job'[j].status \in Written
    BY <1>3, <1>4, <2>1
  <2> QED  BY <1>1, <1>2, <1>5, <1>6, <2>2 DEF Writes
<1> QED  BY <1>1, <1>2, <1>6

LEMMA LeaseIs ==
  ASSUME JobsFit, NEW j \in Jobs, NEW lease \in {"live", "expired"},
         job' = [job EXCEPT ![j].lease = lease], exec' = exec, job[j].status = "processing",
         \/ lease = "live" /\ faults' = faults
         \/ lease = "expired" /\ faults' = faults /\ exec[j][job[j].gen] = "none"
         \/ lease = "expired" /\ faults' = faults + 1
  PROVE  Only(j) /\ Leased(j, lease)
<1> DEFINE s == [job[j] EXCEPT !.lease = lease]
<1>1. job[j] \in JobRow  BY DEF JobsFit
<1>2. /\ s \in JobRow /\ s.turn = job[j].turn /\ s.trigger = job[j].trigger
      /\ s.status = job[j].status /\ s.gen = job[j].gen
      /\ s.plan = job[j].plan /\ s.lease = lease
  BY <1>1 DEF JobRow
<1>3. job' = [job EXCEPT ![j] = s]  OBVIOUS
<1> HIDE DEF s
<1>4. exec' = [exec EXCEPT ![j] = exec[j]]  BY DEF JobsFit
<1>5. Only(j) /\ job'[j] = s /\ exec'[j] = exec[j]  BY <1>3, <1>4, OneRow
<1> QED  BY <1>2, <1>5 DEF Leased, Keeps

LEMMA DisturbedIs ==
  ASSUME JobsFit, NEW j \in Jobs, NEW g \in Generations, Disturbed(j, g)
  PROVE  /\ faults' = faults \/ (faults < MaxFaults /\ faults' = faults + 1)
         /\ UNCHANGED <<summary, buried, thread, enqueued, late>>
         /\ \/ Quits(j, g) /\ revived' = revived
            \/ Only(j) /\ Leased(j, "expired") /\ revived' = revived
            \/ Only(j) /\ Leased(j, "live") /\ revived' = revived + 1
<1>1. faults' = faults \/ (faults < MaxFaults /\ faults' = faults + 1)
  BY DEF Disturbed, ExecutionFails, Crash, HeartbeatLate, Renew, StopLost, Fault, bounds
<1>2. UNCHANGED <<summary, buried, thread, enqueued, late>>
  BY DEF Disturbed, ExecutionFails, Crash, HeartbeatLate, Renew, StopLost, Rest, userVars,
         historyVars
<1>3. CASE ExecutionFails(j, g)
  BY <1>1, <1>2, <1>3, QuitsByResult DEF ExecutionFails, Rest, historyVars
<1>4. CASE Crash(j, g)
  BY <1>1, <1>2, <1>4, Leaving DEF Crash, Fault, Rest, historyVars, Quits
<1>5. CASE StopLost(j, g)
  BY <1>1, <1>2, <1>5, Leaving DEF StopLost, bounds, Rest, historyVars, Quits
<1>6. CASE HeartbeatLate(j, g)
  BY <1>1, <1>2, <1>6, LeaseIs DEF HeartbeatLate, Fault, Holding, Rest, historyVars
<1>7. CASE Renew(j, g)
  BY <1>1, <1>2, <1>7, LeaseIs DEF Renew, Fenced, bounds
<1> QED  BY <1>3, <1>4, <1>5, <1>6, <1>7 DEF Disturbed

LEMMA RunsOutIs ==
  ASSUME JobsFit, NEW j \in Jobs, LeaseRunsOut(j)
  PROVE  faults' = faults /\ Only(j) /\ Leased(j, "expired")
<1>1. job[j].status = "processing" /\ faults' = faults
  BY DEF LeaseRunsOut, Holding, bounds
<1>2. job[j].gen \in Generations  BY <1>1 DEF JobsFit, Fit, Counted
<1>3. exec[j][job[j].gen] = "none"  BY <1>1, <1>2 DEF LeaseRunsOut, Fenced
<1> QED  BY <1>1, <1>3, LeaseIs DEF LeaseRunsOut

-----------------------------------------------------------------------------
(* Steps that change several jobs: a poll and the clean-up of a thread.    *)
LEMMA ClaimedAreClaimable ==
  ASSUME NEW waiting
  PROVE  /\ Claimed(waiting) \subseteq Window(waiting)
         /\ Window(waiting) \subseteq Claimable(waiting)
         /\ Claimable(waiting) \subseteq Jobs
         /\ \A j \in Claimable(waiting) :
              /\ ~Locked(j) /\ ~Holding(j)
              /\ \/ job[j].status \in {"pending", "retry_wait"}
                 \/ job[j].status = "processing" /\ job[j].lease = "expired"
<1>1. /\ Claimed(waiting) \subseteq Window(waiting)
      /\ Window(waiting) \subseteq Claimable(waiting)
      /\ Claimable(waiting) \subseteq Jobs
  BY DEF Claimed, Window, Claimable
<1>2. ASSUME NEW j \in Claimable(waiting)
      PROVE  /\ ~Locked(j) /\ ~Holding(j)
             /\ \/ job[j].status \in {"pending", "retry_wait"}
                \/ job[j].status = "processing" /\ job[j].lease = "expired"
  BY DEF Claimable, Holding
<1> QED  BY <1>1, <1>2

LEMMA PollIs ==
  ASSUME JobsFit, NEW waiting, ClaimJobs(Claimed(waiting))
  PROVE  /\ Whole /\ faults' = faults
         /\ \A j \in Jobs : /\ j \in Claimed(waiting) => Taken(j)
                            /\ j \notin Claimed(waiting) => Still(j)
<1> DEFINE claimed == Claimed(waiting)
<1>1. \A j \in claimed :
        /\ j \in Jobs /\ ~Locked(j) /\ ~Holding(j)
        /\ \/ job[j].status \in {"pending", "retry_wait"}
           \/ job[j].status = "processing" /\ job[j].lease = "expired"
  BY ClaimedAreClaimable
<1>2. ClaimJobs(claimed)  OBVIOUS
<1> HIDE DEF claimed
<1>3. Whole /\ faults' = faults  BY <1>2 DEF ClaimJobs, Whole, bounds
<1>4. ASSUME NEW j \in Jobs, j \notin claimed PROVE Still(j)
  BY <1>2, <1>4 DEF ClaimJobs, Still
<1>5. ASSUME NEW j \in Jobs, j \in claimed PROVE Taken(j)
  <2>1. job[j] \in JobRow  BY DEF JobsFit
  <2>2. job[j].gen + 1 \in Nat  BY <2>1 DEF JobRow
  <2>3. /\ job'[j] = [job[j] EXCEPT !.status = "processing", !.lease = "live",
                                    !.gen = @ + 1]
        /\ exec'[j] = [exec[j] EXCEPT ![job[j].gen + 1] = "claimed"]
    BY <1>2, <1>5 DEF ClaimJobs
  <2>4. /\ job'[j] \in JobRow /\ job'[j].turn = job[j].turn
        /\ job'[j].trigger = job[j].trigger /\ job'[j].status = "processing"
        /\ job'[j].lease = "live" /\ job'[j].gen = job[j].gen + 1
        /\ job'[j].plan = job[j].plan
    BY <2>1, <2>2, <2>3 DEF JobRow, Open
  <2> QED  BY <1>1, <1>5, <2>3, <2>4 DEF Taken, Keeps
<1> QED  BY <1>3, <1>4, <1>5 DEF claimed

LEMMA CleanIs ==
  ASSUME JobsFit, NEW h, CleanThread(h)
  PROVE  /\ Whole /\ faults' = faults
         /\ \A j \in Jobs : \/ Still(j)
                            \/ Dropped(j) /\ Thread(j) = h
<1>1. exec' = exec /\ faults' = faults /\ Whole
  BY DEF CleanThread, bounds, JobsFit, Whole
<1>2. ASSUME NEW j \in Jobs PROVE Still(j) \/ (Dropped(j) /\ Thread(j) = h)
  <2>1. job[j] \in JobRow /\ NoPlan \in Plan  BY NoJobType DEF JobsFit, PlanFits
  <2>2. CASE Thread(j) = h /\ job[j].status \in {"pending", "retry_wait"}
    <3>1. job'[j] = [job[j] EXCEPT !.status = "cancelled", !.plan = NoPlan]
      BY <2>2 DEF CleanThread
    <3>2. /\ job'[j] \in JobRow /\ job'[j].turn = job[j].turn
          /\ job'[j].trigger = job[j].trigger
          /\ job'[j].status = "cancelled" /\ job'[j].lease = job[j].lease
          /\ job'[j].gen = job[j].gen /\ job'[j].plan = NoPlan
      BY <2>1, <3>1 DEF JobRow, Ended
    <3> QED  BY <1>1, <2>2, <3>2 DEF Dropped, Keeps
  <2>3. CASE ~(Thread(j) = h /\ job[j].status \in {"pending", "retry_wait"})
    BY <1>1, <2>3 DEF CleanThread, Still
  <2> QED  BY <2>2, <2>3
<1> QED  BY <1>1, <1>2

-----------------------------------------------------------------------------
(* Every step, as seen by the jobs.                                        *)
LEMMA OpenGenerations ==
  ASSUME JobsFit, NEW j \in Created, NEW g \in 1..job[j].gen
  PROVE  j \in Jobs /\ g \in Generations
<1>1. j \in Jobs  BY DEF Created
<1>2. job[j].gen \in Nat /\ faults \in 0..MaxFaults /\ job[j].gen <= MaxAttempts + faults
  BY <1>1 DEF JobsFit, Fit, JobRow, Counted
<1> QED  BY <1>1, <1>2, Numbers

LEMMA OneCalm ==
  ASSUME NEW j \in Jobs, Only(j), Calm(j)
  PROVE  Whole /\ \A k \in Jobs : Calm(k)
BY DEF Only, Calm

LEMMA ExecuteIs ==
  ASSUME JobsFit, SummariesFit, NEW j \in Jobs, NEW g \in Generations, Execute(j, g)
  PROVE  faults' = faults /\ Only(j) /\ Calm(j) /\ revived' = revived
<1>0. revived' = revived
  BY DEF Execute, EndsEarly, MakePlan, ReusePlan, BeginCommit, CommitWrites, Rest, historyVars
<1>1. ASSUME Quits(j, g) PROVE Only(j) /\ Calm(j)  BY <1>1 DEF Quits, Calm
<1>2. CASE EndsEarly(j, g)  BY <1>0, <1>1, <1>2, EndsEarlyIs
<1>3. CASE MakePlan(j, g)  BY <1>0, <1>3, MakePlanIs DEF Calm
<1>4. CASE ReusePlan(j, g)  BY <1>0, <1>1, <1>4, ReusePlanIs DEF Calm
<1>5. CASE BeginCommit(j, g)  BY <1>0, <1>1, <1>5, BeginCommitIs DEF Calm
<1>6. CASE CommitWrites(j, g)  BY <1>0, <1>1, <1>6, CommitWritesIs DEF Calm, Writes
<1> QED  BY <1>2, <1>3, <1>4, <1>5, <1>6 DEF Execute

(* A poll gives leases, a late heartbeat takes one back, and nothing else  *)
(* does.                                                                   *)
AllCalm == Whole /\ (\A k \in Jobs : Calm(k)) /\ revived' = revived

Steps ==
  \/ \E waiting : ClaimJobs(Claimed(waiting))
  \/ AllCalm
  \/ \E j \in Jobs : Only(j) /\ Leased(j, "live") /\ revived' = revived + 1

LEMMA NextSteps ==
  ASSUME JobsFit, SummariesFit, [Next]_vars
  PROVE  FaultsGoOn /\ Steps
<1>0. faults \in Nat /\ faults \in 0..MaxFaults  BY Numbers DEF JobsFit
<1>a. ASSUME faults' = faults \/ (faults < MaxFaults /\ faults' = faults + 1)
      PROVE  FaultsGoOn
  BY <1>0, <1>a, Numbers DEF FaultsGoOn
<1>b. ASSUME UNCHANGED <<job, exec, revived>> PROVE AllCalm
  BY <1>b, NoRow DEF Calm, AllCalm
<1>c. ASSUME NEW t \in Turns, NEW trigger \in {"auto"} \union Manual, NewJob(t, trigger),
             exec' = exec, revived' = revived
      PROVE  AllCalm
  BY <1>c, NewJobIs, OneCalm DEF Calm, AllCalm
<1>d. "auto" \in {"auto"} \union Manual  OBVIOUS
<1>1. CASE UNCHANGED vars  BY <1>1, <1>a, <1>b DEF vars, bounds, historyVars, Steps
<1>2. ASSUME NEW t \in Turns, CompleteTurn(t) PROVE FaultsGoOn /\ AllCalm
  <2>1. exec' = exec /\ FaultsGoOn /\ revived' = revived
    BY <1>2, <1>a DEF CompleteTurn, Fault, historyVars
  <2>2. NewJob(t, "auto") \/ UNCHANGED job  BY <1>2 DEF CompleteTurn
  <2> QED  BY <1>b, <1>c, <1>d, <2>1, <2>2
<1>3. ASSUME NEW t \in Turns, RepairEnqueue(t) PROVE FaultsGoOn /\ AllCalm
  <2>1. exec' = exec /\ FaultsGoOn /\ revived' = revived
    BY <1>3, <1>a DEF RepairEnqueue, bounds, historyVars
  <2>2. NewJob(t, "auto") \/ UNCHANGED job  BY <1>3 DEF RepairEnqueue
  <2> QED  BY <1>b, <1>c, <1>d, <2>1, <2>2
<1>4. ASSUME NEW t \in Turns, RequestGeneration(t) PROVE FaultsGoOn /\ AllCalm
  <2>1. exec' = exec /\ FaultsGoOn /\ revived' = revived
    BY <1>4, <1>a DEF RequestGeneration, historyVars
  <2>2. PICK trigger \in {"auto"} \union Manual : NewJob(t, trigger)
    BY <1>4 DEF RequestGeneration, TriggerFor, Manual
  <2> QED  BY <1>c, <2>1, <2>2
<1>5. CASE Poll
  <2>1. PICK waiting : ClaimJobs(Claimed(waiting))  BY <1>5 DEF Poll
  <2> QED  BY <1>a, <2>1, PollIs DEF Steps
<1>6. ASSUME NEW j \in Created, NEW g \in 1..job[j].gen, Execute(j, g) \/ Disturbed(j, g)
      PROVE  FaultsGoOn /\ Steps
  <2>1. j \in Jobs /\ g \in Generations  BY OpenGenerations
  <2>2. CASE Execute(j, g)  BY <1>a, <2>1, <2>2, ExecuteIs, OneCalm DEF Steps, AllCalm
  <2>3. CASE Disturbed(j, g)
    <3>1. FaultsGoOn  BY <1>a, <2>1, <2>3, DisturbedIs
    <3>2. \/ Only(j) /\ Calm(j) /\ revived' = revived
          \/ Only(j) /\ Leased(j, "live") /\ revived' = revived + 1
      BY <2>1, <2>3, DisturbedIs DEF Calm, Quits
    <3> QED  BY <2>1, <3>1, <3>2, OneCalm DEF Steps, AllCalm
  <2> QED  BY <1>6, <2>2, <2>3
<1>7. ASSUME NEW j \in Created, LeaseRunsOut(j) PROVE FaultsGoOn /\ AllCalm
  <2>1. j \in Jobs /\ revived' = revived
    BY <1>7 DEF Created, LeaseRunsOut, Rest, historyVars
  <2> QED  BY <1>7, <1>a, <2>1, RunsOutIs, OneCalm DEF Calm, AllCalm
<1>8. ASSUME NEW u \in Users,
             \/ EditSummary(u) \/ DeleteSummary(u)
             \/ \E j \in summary[u].reviews : DismissReview(u, j)
      PROVE  UNCHANGED <<job, exec, revived, faults>>
  BY <1>8 DEF EditSummary, DeleteSummary, DismissReview, bounds, historyVars
<1>9. ASSUME NEW h \in Threads, DeleteThread(h) \/ CleanThread(h)
      PROVE  FaultsGoOn /\ AllCalm
  <2>1. CASE DeleteThread(h)  BY <2>1, <1>a, <1>b DEF DeleteThread, historyVars
  <2>2. CASE CleanThread(h)
    BY <2>2, <1>a, CleanIs DEF CleanThread, Calm, AllCalm
  <2> QED  BY <1>9, <2>1, <2>2
<1>10. CASE Suspend \/ Resume
  <2>1. UNCHANGED <<job, exec, revived>>  BY <1>10 DEF Suspend, Resume, historyVars
  <2>2. FaultsGoOn  BY <1>10, <1>a DEF Suspend, Resume, Fault, bounds
  <2> QED  BY <2>1, <2>2, <1>b DEF Steps
<1> QED
  BY <1>a, <1>b, <1>1, <1>2, <1>3, <1>4, <1>5, <1>6, <1>7, <1>8, <1>9, <1>10 DEF Next, Steps

LEMMA StepsOfJobs ==
  ASSUME JobsFit, SummariesFit, [Next]_vars
  PROVE  FaultsGoOn /\ Whole /\ \A k \in Jobs : JobStep(k)
<1>1. FaultsGoOn /\ Steps  BY NextSteps
<1>2. ASSUME NEW waiting, ClaimJobs(Claimed(waiting)) PROVE Whole /\ \A k \in Jobs : JobStep(k)
  BY <1>2, PollIs DEF JobStep, Calm
<1>3. CASE AllCalm  BY <1>1, <1>3 DEF AllCalm, JobStep
<1>4. ASSUME NEW j \in Jobs, Only(j), Leased(j, "live")
      PROVE  Whole /\ \A k \in Jobs : JobStep(k)
  BY <1>4 DEF Only, JobStep, Calm
<1> QED  BY <1>1, <1>2, <1>3, <1>4 DEF Steps

LEMMA JobsFitStep == JobsFit /\ SummariesFit /\ [Next]_vars => JobsFit'
BY StepsOfJobs, StepsFit

-----------------------------------------------------------------------------
(* The summaries.                                                          *)
LEMMA NoSummaryType ==
  /\ NoSummary \in SummaryRow /\ Shown(NoSummary) /\ ~NoSummary.live
  /\ NoSummary.id = 0 /\ NoSummary.version = 0 /\ NoSummary.sources = {}
  /\ NoSummary.gone = {} /\ NoSummary.reviews = {} /\ NoSummary.conflict = FALSE
<1>1. NoSummary \in SummaryRow  BY DEF NoSummary, SummaryRow
<1>2. /\ ~NoSummary.live
      /\ NoSummary.id = 0 /\ NoSummary.version = 0 /\ NoSummary.sources = {}
      /\ NoSummary.gone = {} /\ NoSummary.reviews = {} /\ NoSummary.conflict = FALSE
  BY DEF NoSummary
<1>3. Shown(NoSummary)  BY <1>2 DEF Shown
<1> QED  BY <1>1, <1>2, <1>3

(* What a commit makes of a summary.                                       *)
LEMMA AppliedIs ==
  ASSUME NEW plan, PlanFits(plan), plan.kind # "none", NEW s \in SummaryRow, Shown(s),
         ~Vanished(plan, s), NEW j \in Jobs, job[j] \in JobRow
  PROVE  /\ Applied(plan, s, j) \in SummaryRow /\ Shown(Applied(plan, s, j))
         /\ Applied(plan, s, j).live
         /\ plan.kind = "create" =>
              /\ Applied(plan, s, j).id = s.id + 1 /\ Applied(plan, s, j).version = 1
              /\ Applied(plan, s, j).sources = {Turn(j)}
         /\ plan.kind # "create" =>
              /\ s.live /\ s.id = plan.id
              /\ Applied(plan, s, j).id = s.id
              /\ Applied(plan, s, j).version = s.version + 1
              /\ Applied(plan, s, j).gone = s.gone
         /\ plan.kind = "merge" => Applied(plan, s, j).sources = s.sources \union {Turn(j)}
         /\ plan.kind = "review" => Applied(plan, s, j).sources = s.sources
<1>1. Turn(j) \in Turns  BY DEF Turn, JobRow
<1>2. s.id \in Nat /\ s.version \in Nat /\ s.id + 1 \in Nat /\ s.version + 1 \in Nat
  BY DEF SummaryRow
<1>3. plan.kind \in {"create", "merge", "review"}  BY DEF PlanFits, Plan
<1> DEFINE r == Applied(plan, s, j)
<1>4. CASE plan.kind = "create"
  <2>1. r = [NoSummary EXCEPT !.live = TRUE, !.id = s.id + 1, !.version = 1,
                              !.sources = {Turn(j)}]
    BY <1>4 DEF Applied
  <2> HIDE DEF r
  <2>2. /\ r \in SummaryRow /\ r.live /\ r.id = s.id + 1 /\ r.version = 1
        /\ r.sources = {Turn(j)} /\ r.reviews = {} /\ r.conflict = FALSE
    BY <1>1, <1>2, <2>1 DEF NoSummary, SummaryRow
  <2>3. Shown(r)  BY <1>2, <2>2 DEF Shown
  <2> QED  BY <1>4, <2>2, <2>3 DEF r
<1>5. CASE plan.kind = "merge"
  <2>1. r = [s EXCEPT !.version = @ + 1, !.sources = @ \union {Turn(j)}]
    BY <1>5 DEF Applied
  <2>2. s.live /\ s.id = plan.id  BY <1>5 DEF Vanished
  <2> HIDE DEF r
  <2>3. /\ r \in SummaryRow /\ r.live = s.live /\ r.id = s.id /\ r.version = s.version + 1
        /\ r.sources = s.sources \union {Turn(j)} /\ r.reviews = s.reviews
        /\ r.conflict = s.conflict /\ r.gone = s.gone
    BY <1>1, <1>2, <2>1 DEF SummaryRow
  <2>4. Shown(r)  BY <2>2, <2>3 DEF Shown
  <2> QED  BY <1>5, <2>2, <2>3, <2>4 DEF r
<1>6. CASE plan.kind = "review"
  <2>1. r = [s EXCEPT !.version = @ + 1, !.reviews = @ \union {j}, !.conflict = TRUE]
    BY <1>6 DEF Applied
  <2>2. s.live /\ s.id = plan.id  BY <1>6 DEF Vanished
  <2> HIDE DEF r
  <2>3. /\ r \in SummaryRow /\ r.live = s.live /\ r.id = s.id /\ r.version = s.version + 1
        /\ r.sources = s.sources /\ r.reviews = s.reviews \union {j}
        /\ r.conflict = TRUE /\ r.gone = s.gone
    BY <1>1, <1>2, <2>1 DEF SummaryRow
  <2>4. Shown(r)  BY <2>2, <2>3 DEF Shown
  <2> QED  BY <1>6, <2>2, <2>3, <2>4 DEF r
<1> QED  BY <1>3, <1>4, <1>5, <1>6

(* The steps that change a summary, or what was deleted.                   *)
SummaryStep ==
  \/ \E j \in Jobs : \E g \in Generations :
       CommitWrites(j, g) /\ Writes(j, g) /\ UNCHANGED <<buried, thread, late>>
  \/ \E u \in Users : \/ EditSummary(u) \/ DeleteSummary(u)
                      \/ \E j \in summary[u].reviews : DismissReview(u, j)
  \/ \E h \in Threads : CleanThread(h)

LEMMA SummarySteps ==
  ASSUME JobsFit, SummariesFit, [Next]_vars
  PROVE  UNCHANGED <<summary, buried>> \/ SummaryStep
<1>1. CASE UNCHANGED vars  BY <1>1 DEF vars
<1>2. ASSUME NEW t \in Turns, CompleteTurn(t) \/ RepairEnqueue(t) \/ RequestGeneration(t)
      PROVE  UNCHANGED <<summary, buried>>
  BY <1>2 DEF CompleteTurn, RepairEnqueue, RequestGeneration
<1>3. CASE Poll  BY <1>3 DEF Poll, ClaimJobs
<1>4. ASSUME NEW j \in Created, NEW g \in 1..job[j].gen, Execute(j, g) \/ Disturbed(j, g)
      PROVE  UNCHANGED <<summary, buried>> \/ SummaryStep
  <2>1. j \in Jobs /\ g \in Generations  BY OpenGenerations
  <2>2. CASE CommitWrites(j, g)
    BY <2>1, <2>2, CommitWritesIs DEF CommitWrites, userVars, historyVars, SummaryStep
  <2>3. CASE Disturbed(j, g)  BY <2>1, <2>3, DisturbedIs
  <2>4. CASE EndsEarly(j, g) \/ MakePlan(j, g) \/ ReusePlan(j, g) \/ BeginCommit(j, g)
    BY <2>4 DEF EndsEarly, MakePlan, ReusePlan, BeginCommit, Rest
  <2> QED  BY <1>4, <2>2, <2>3, <2>4 DEF Execute
<1>5. ASSUME NEW j \in Created, LeaseRunsOut(j) PROVE UNCHANGED <<summary, buried>>
  BY <1>5 DEF LeaseRunsOut, Rest
<1>6. ASSUME NEW h \in Threads, DeleteThread(h) PROVE UNCHANGED <<summary, buried>>
  BY <1>6 DEF DeleteThread
<1>7. CASE Suspend \/ Resume  BY <1>7 DEF Suspend, Resume
<1> QED  BY <1>1, <1>2, <1>3, <1>4, <1>5, <1>6, <1>7 DEF Next, SummaryStep

(* What users do to a summary.                                             *)
LEMMA EditedIs ==
  ASSUME SummariesFit, NEW u \in Users, EditSummary(u)
  PROVE  /\ buried' = buried /\ summary' = [summary EXCEPT ![u] = summary'[u]]
         /\ summary[u].live /\ summary'[u] \in SummaryRow /\ Shown(summary'[u])
         /\ summary'[u].live /\ summary'[u].id = summary[u].id
         /\ summary'[u].version = summary[u].version + 1
         /\ summary'[u].sources = summary[u].sources /\ summary'[u].gone = summary[u].gone
<1>1. summary[u] \in SummaryRow /\ Shown(summary[u])  BY DEF SummariesFit
<1> DEFINE s == [summary[u] EXCEPT !.version = @ + 1]
<1>2. /\ s \in SummaryRow /\ s.live = summary[u].live /\ s.id = summary[u].id
      /\ s.version = summary[u].version + 1 /\ s.sources = summary[u].sources
      /\ s.gone = summary[u].gone /\ s.reviews = summary[u].reviews
      /\ s.conflict = summary[u].conflict
  BY <1>1 DEF SummaryRow
<1>3. summary' = [summary EXCEPT ![u] = s]  BY DEF EditSummary
<1> HIDE DEF s
<1>4. summary'[u] = s  BY <1>3 DEF SummariesFit
<1>5. buried' = buried /\ summary[u].live  BY DEF EditSummary
<1> QED  BY <1>1, <1>2, <1>3, <1>4, <1>5 DEF Shown

LEMMA DeletedIs ==
  ASSUME SummariesFit, NEW u \in Users, DeleteSummary(u)
  PROVE  /\ summary' = [summary EXCEPT ![u] = summary'[u]]
         /\ buried' = [buried EXCEPT ![u] = buried'[u]]
         /\ summary[u].live /\ summary'[u] \in SummaryRow /\ Shown(summary'[u])
         /\ ~summary'[u].live /\ summary'[u].id = summary[u].id
         /\ summary'[u].version = 0 /\ summary'[u].sources = {}
         /\ buried'[u] \in [turns : SUBSET Turns, sources : SUBSET Turns]
         /\ buried'[u].turns = Completed(u)
<1>1. /\ summary[u] \in SummaryRow /\ buried[u] \in [turns : SUBSET Turns, sources : SUBSET Turns]
  BY DEF SummariesFit
<1> DEFINE s == [NoSummary EXCEPT !.id = summary[u].id]
           b == [turns |-> Completed(u),
                 sources |-> buried[u].sources \union summary[u].sources]
<1>2. /\ s \in SummaryRow /\ ~s.live /\ s.id = summary[u].id /\ s.version = 0
      /\ s.sources = {} /\ s.reviews = {} /\ s.conflict = FALSE
  BY <1>1 DEF SummaryRow, NoSummary
<1>3. Completed(u) \subseteq Turns  BY DEF Completed
<1>4. b \in [turns : SUBSET Turns, sources : SUBSET Turns] /\ b.turns = Completed(u)
  BY <1>1, <1>3 DEF SummaryRow
<1>5. summary' = [summary EXCEPT ![u] = s] /\ buried' = [buried EXCEPT ![u] = b]
  BY DEF DeleteSummary
<1> HIDE DEF s, b
<1>6. summary'[u] = s /\ buried'[u] = b  BY <1>5 DEF SummariesFit
<1>7. summary[u].live  BY DEF DeleteSummary
<1> QED  BY <1>2, <1>4, <1>5, <1>6, <1>7 DEF Shown

LEMMA DismissedIs ==
  ASSUME SummariesFit, NEW u \in Users, NEW j \in summary[u].reviews, DismissReview(u, j)
  PROVE  /\ buried' = buried /\ summary' = [summary EXCEPT ![u] = summary'[u]]
         /\ summary[u].live /\ summary'[u] \in SummaryRow /\ Shown(summary'[u])
         /\ summary'[u].live /\ summary'[u].id = summary[u].id
         /\ summary'[u].version \in {summary[u].version, summary[u].version + 1}
         /\ summary'[u].sources = summary[u].sources /\ summary'[u].gone = summary[u].gone
<1>1. summary[u] \in SummaryRow /\ Shown(summary[u])  BY DEF SummariesFit
<1>2. summary[u].live  BY <1>1 DEF Shown, SummaryRow
<1> DEFINE left == summary[u].reviews \ {j}
           n == IF ConflictOf(left) = summary[u].conflict THEN summary[u].version
                ELSE summary[u].version + 1
           s == [summary[u] EXCEPT !.reviews = left, !.conflict = ConflictOf(left),
                                   !.version = n]
<1>3. /\ left \in SUBSET Jobs /\ ConflictOf(left) \in BOOLEAN /\ n \in Nat
      /\ n \in {summary[u].version, summary[u].version + 1}
      /\ ConflictOf(left) <=> left # {}
  BY <1>1 DEF SummaryRow, ConflictOf
<1>4. summary' = [summary EXCEPT ![u] = s]
  BY <1>1 DEF DismissReview, SummaryRow
<1> HIDE DEF left, n
<1>5. /\ s \in SummaryRow /\ s.live = summary[u].live /\ s.id = summary[u].id
      /\ s.version = n /\ s.sources = summary[u].sources
      /\ s.gone = summary[u].gone /\ s.reviews = left /\ s.conflict = ConflictOf(left)
  BY <1>1, <1>3 DEF SummaryRow
<1> HIDE DEF s
<1>6. summary'[u] = s  BY <1>4 DEF SummariesFit
<1>7. Shown(s)  BY <1>1, <1>2, <1>3, <1>5 DEF Shown
<1>8. buried' = buried  BY DEF DismissReview
<1> QED  BY <1>2, <1>3, <1>4, <1>5, <1>6, <1>7, <1>8

LEMMA CleanedIs ==
  ASSUME SummariesFit, NEW h, CleanThread(h)
  PROVE  /\ buried' = buried /\ summary' = [u \in Users |-> summary'[u]]
         /\ \A u \in Users :
              /\ summary'[u] \in SummaryRow /\ Shown(summary'[u])
              /\ summary'[u].live = summary[u].live /\ summary'[u].id = summary[u].id
              /\ summary'[u].version = summary[u].version
              /\ summary'[u].sources = summary[u].sources
              /\ summary'[u].gone =
                   summary[u].gone \union {t \in summary[u].sources : ThreadOf[t] = h}
<1>1. buried' = buried /\ summary' = [u \in Users |-> summary'[u]]  BY DEF CleanThread
<1>2. ASSUME NEW u \in Users
      PROVE   /\ summary'[u] \in SummaryRow /\ Shown(summary'[u])
              /\ summary'[u].live = summary[u].live /\ summary'[u].id = summary[u].id
              /\ summary'[u].version = summary[u].version
              /\ summary'[u].sources = summary[u].sources
              /\ summary'[u].gone =
                   summary[u].gone \union {t \in summary[u].sources : ThreadOf[t] = h}
  <2>1. summary[u] \in SummaryRow /\ Shown(summary[u])  BY DEF SummariesFit
  <2> DEFINE more == {t \in summary[u].sources : ThreadOf[t] = h}
             s == [summary[u] EXCEPT !.gone = @ \union more]
  <2>2. summary'[u] = s  BY DEF CleanThread
  <2>3. more \subseteq Turns  BY <2>1 DEF SummaryRow
  <2> HIDE DEF more
  <2>4. /\ s \in SummaryRow /\ s.live = summary[u].live /\ s.id = summary[u].id
        /\ s.version = summary[u].version /\ s.sources = summary[u].sources
        /\ s.gone = summary[u].gone \union more /\ s.reviews = summary[u].reviews
        /\ s.conflict = summary[u].conflict
    BY <2>1, <2>3 DEF SummaryRow
  <2> HIDE DEF s
  <2> QED  BY <2>1, <2>2, <2>4 DEF more, Shown
<1> QED  BY <1>1, <1>2

(* A commit that writes.                                                   *)
LEMMA WritesIs ==
  ASSUME JobsFit, SummariesFit, NEW j \in Jobs, NEW g \in Generations,
         CommitWrites(j, g), Writes(j, g)
  PROVE  LET u == User(j)
             s == summary[User(j)]
             plan == job[j].plan
         IN  /\ u \in Users /\ Turn(j) \in Turns /\ exec[j][g] = "commit" /\ Fenced(j, g)
             /\ summary' = [summary EXCEPT ![u] = summary'[u]]
             /\ plan.kind \in {"create", "merge", "review"} /\ PlanFits(plan)
             /\ summary'[u] \in SummaryRow /\ Shown(summary'[u]) /\ summary'[u].live
             /\ plan.kind \in {"create", "merge"} => Turn(j) \notin buried[u].turns
             /\ plan.kind = "create" =>
                  /\ summary'[u].id = s.id + 1 /\ summary'[u].version = 1
                  /\ summary'[u].sources = {Turn(j)}
             /\ plan.kind # "create" =>
                  /\ s.live /\ s.id = plan.id /\ summary'[u].id = s.id
                  /\ summary'[u].version = s.version + 1 /\ summary'[u].gone = s.gone
             /\ plan.kind = "merge" =>
                  /\ s.version = plan.version
                  /\ summary'[u].sources = s.sources \union {Turn(j)}
             /\ plan.kind = "review" => summary'[u].sources = s.sources
<1> DEFINE u == User(j)
           s == summary[u]
           plan == job[j].plan
<1>1. job[j] \in JobRow /\ Fit(job[j], exec[j], faults)  BY DEF JobsFit
<1>2. u \in Users /\ Turn(j) \in Turns  BY <1>1, Places DEF User, Turn, JobRow
<1>3. exec[j][g] = "commit"  BY DEF CommitWrites
<1>4. Fenced(j, g) /\ PlanFits(plan) /\ plan.kind # "none"
  BY <1>1, <1>3 DEF Fit, Planful, At, Fenced
<1>5. plan.kind \in {"create", "merge", "review"}  BY <1>4 DEF PlanFits, Plan
<1>6. s \in SummaryRow /\ Shown(s)  BY <1>2 DEF SummariesFit
<1>7. /\ ~Vanished(plan, s) /\ ~Stale(plan, s)
      /\ plan.kind \in {"create", "merge"} => Turn(j) \notin buried[u].turns
      /\ summary' = [summary EXCEPT ![u] = Applied(plan, s, j)]
  BY DEF Writes, Suppressed
<1>8. summary'[u] = Applied(plan, s, j)  BY <1>2, <1>7 DEF SummariesFit
<1>9. plan.kind = "merge" => s.version = plan.version  BY <1>7 DEF Stale
<1> HIDE DEF u, s, plan
<1>10. /\ Applied(plan, s, j) \in SummaryRow /\ Shown(Applied(plan, s, j))
       /\ Applied(plan, s, j).live
       /\ plan.kind = "create" =>
            /\ Applied(plan, s, j).id = s.id + 1 /\ Applied(plan, s, j).version = 1
            /\ Applied(plan, s, j).sources = {Turn(j)}
       /\ plan.kind # "create" =>
            /\ s.live /\ s.id = plan.id
            /\ Applied(plan, s, j).id = s.id
            /\ Applied(plan, s, j).version = s.version + 1
            /\ Applied(plan, s, j).gone = s.gone
       /\ plan.kind = "merge" => Applied(plan, s, j).sources = s.sources \union {Turn(j)}
       /\ plan.kind = "review" => Applied(plan, s, j).sources = s.sources
  BY <1>1, <1>4, <1>6, <1>7, AppliedIs
<1>11. summary' = [summary EXCEPT ![u] = summary'[u]]  BY <1>7, <1>8
<1> QED
  BY <1>2, <1>3, <1>4, <1>5, <1>7, <1>8, <1>9, <1>10, <1>11 DEF u, s, plan

(* The summary of one user changes.                                        *)
LEMMA OneSummary ==
  ASSUME SummariesFit, NEW u \in Users, summary' = [summary EXCEPT ![u] = summary'[u]]
  PROVE  /\ \A v \in Users : v # u => summary'[v] = summary[v]
         /\ summary' = [v \in Users |-> summary'[v]]
<1> DEFINE s == summary'[u]
<1>1. summary = [v \in Users |-> summary[v]]  BY DEF SummariesFit
<1>2. summary' = [summary EXCEPT ![u] = s]  OBVIOUS
<1> HIDE DEF s
<1> QED  BY <1>1, <1>2

LEMMA OneFits ==
  ASSUME SummariesFit, NEW u \in Users, summary' = [summary EXCEPT ![u] = summary'[u]],
         summary'[u] \in SummaryRow, Shown(summary'[u]),
         \/ buried' = buried
         \/ /\ buried' = [buried EXCEPT ![u] = buried'[u]]
            /\ buried'[u] \in [turns : SUBSET Turns, sources : SUBSET Turns]
  PROVE  SummariesFit'
<1>1. /\ \A v \in Users : v # u => summary'[v] = summary[v]
      /\ summary' = [v \in Users |-> summary'[v]]
  BY OneSummary
<1>2. \A v \in Users : summary'[v] \in SummaryRow /\ Shown(summary'[v])
  BY <1>1 DEF SummariesFit
<1>3. summary' \in [Users -> SummaryRow]  BY <1>1, <1>2
<1>4. buried' \in [Users -> [turns : SUBSET Turns, sources : SUBSET Turns]]
  <2> DEFINE b == buried'[u]
  <2>1. CASE buried' = buried  BY <2>1 DEF SummariesFit
  <2>2. CASE /\ buried' = [buried EXCEPT ![u] = b]
             /\ b \in [turns : SUBSET Turns, sources : SUBSET Turns]
    <3> HIDE DEF b
    <3> QED  BY <2>2 DEF SummariesFit
  <2> QED  BY <2>1, <2>2
<1> QED  BY <1>2, <1>3, <1>4 DEF SummariesFit

LEMMA SummariesFitStep == JobsFit /\ SummariesFit /\ [Next]_vars => SummariesFit'
<1> SUFFICES ASSUME JobsFit, SummariesFit, [Next]_vars PROVE SummariesFit'  OBVIOUS
<1>1. CASE UNCHANGED <<summary, buried>>  BY <1>1 DEF SummariesFit
<1>2. ASSUME NEW j \in Jobs, NEW g \in Generations, CommitWrites(j, g), Writes(j, g),
             buried' = buried
      PROVE  SummariesFit'
  <2> DEFINE u == User(j)
  <2>1. /\ u \in Users /\ summary' = [summary EXCEPT ![u] = summary'[u]]
        /\ summary'[u] \in SummaryRow /\ Shown(summary'[u])
    BY <1>2, WritesIs
  <2> HIDE DEF u
  <2> QED  BY <1>2, <2>1, OneFits
<1>3. ASSUME NEW u \in Users, EditSummary(u) PROVE SummariesFit'
  BY <1>3, EditedIs, OneFits
<1>4. ASSUME NEW u \in Users, DeleteSummary(u) PROVE SummariesFit'
  BY <1>4, DeletedIs, OneFits
<1>5. ASSUME NEW u \in Users, NEW j \in summary[u].reviews, DismissReview(u, j)
      PROVE  SummariesFit'
  BY <1>5, DismissedIs, OneFits
<1>6. ASSUME NEW h \in Threads, CleanThread(h) PROVE SummariesFit'
  <2>1. /\ summary' = [u \in Users |-> summary'[u]] /\ buried' = buried
        /\ \A u \in Users : summary'[u] \in SummaryRow /\ Shown(summary'[u])
    BY <1>6, CleanedIs
  <2>2. summary' \in [Users -> SummaryRow]  BY <2>1
  <2> QED  BY <2>1, <2>2 DEF SummariesFit
<1> QED  BY <1>1, <1>2, <1>3, <1>4, <1>5, <1>6, SummarySteps DEF SummaryStep

-----------------------------------------------------------------------------
(* The other variables.                                                    *)
OthersFit ==
  /\ thread \in [Threads -> {"active", "deleting", "deleted"}]
  /\ enqueued \in [Turns -> {"none", "not_requested", "enqueued", "enqueue_failed"}]
  /\ suspended \in BOOLEAN /\ late \in SUBSET Turns
  /\ revived \in Nat /\ acts \in Nat

(* A thread is deleted by the clean-up alone, and then it was not active.  *)
ThreadsGoOn ==
  /\ late \subseteq late'
  /\ \A h \in Threads : thread'[h] = "deleted" =>
       /\ thread[h] # "active"
       /\ thread[h] = "deleted" \/ CleanThread(h)

LEMMA OthersFitStep ==
  ASSUME JobsFit, SummariesFit, OthersFit, [Next]_vars
  PROVE  OthersFit' /\ ThreadsGoOn
<1> DEFINE OK == OthersFit' /\ ThreadsGoOn
<1>a. ASSUME UNCHANGED <<thread, late, revived, acts>>,
             enqueued' \in [Turns -> {"none", "not_requested", "enqueued", "enqueue_failed"}],
             suspended' \in BOOLEAN
      PROVE  OK
  BY <1>a DEF OthersFit, ThreadsGoOn
<1>b. ASSUME UNCHANGED <<thread, late, revived, enqueued, suspended>>,
             acts' \in Nat \/ acts' = acts
      PROVE  OK
  BY <1>b DEF OthersFit, ThreadsGoOn
<1>1. CASE UNCHANGED vars
  BY <1>1, <1>b DEF vars, userVars, historyVars, bounds
<1>2. ASSUME NEW t \in Turns, CompleteTurn(t) \/ RepairEnqueue(t) PROVE OK
  <2>1. UNCHANGED <<thread, late, revived, acts, suspended>>
    BY <1>2 DEF CompleteTurn, RepairEnqueue, historyVars, bounds
  <2>2. enqueued' \in [Turns -> {"none", "not_requested", "enqueued", "enqueue_failed"}]
    BY <1>2 DEF CompleteTurn, RepairEnqueue, OthersFit
  <2> QED  BY <1>a, <2>1, <2>2 DEF OthersFit
<1>3. ASSUME NEW t \in Turns, RequestGeneration(t) PROVE OK
  <2>1. acts' = acts + 1  BY <1>3 DEF RequestGeneration, Act
  <2>2. UNCHANGED <<thread, late, revived, enqueued, suspended>>
    BY <1>3 DEF RequestGeneration, userVars, historyVars
  <2> QED  BY <1>b, <2>1, <2>2 DEF OthersFit
<1>4. CASE Poll  BY <1>4, <1>b DEF Poll, ClaimJobs, userVars, historyVars, bounds
<1>5. ASSUME NEW j \in Created, NEW g \in 1..job[j].gen, Execute(j, g) PROVE OK
  <2>1. UNCHANGED <<thread, late, revived, enqueued, suspended, acts>>
    BY <1>5 DEF Execute, EndsEarly, MakePlan, ReusePlan, BeginCommit, CommitWrites, Rest,
                userVars, historyVars, bounds
  <2> QED  BY <1>b, <2>1
<1>6. ASSUME NEW j \in Created, NEW g \in 1..job[j].gen, Disturbed(j, g) PROVE OK
  <2>1. j \in Jobs /\ g \in Generations  BY OpenGenerations
  <2>2. revived' = revived \/ revived' = revived + 1  BY <1>6, <2>1, DisturbedIs
  <2>3. UNCHANGED <<thread, late, enqueued>>  BY <1>6, <2>1, DisturbedIs
  <2>4. UNCHANGED <<suspended, acts>>
    BY <1>6 DEF Disturbed, ExecutionFails, Crash, HeartbeatLate, Renew, StopLost, Rest, userVars,
                bounds
  <2> QED  BY <2>2, <2>3, <2>4 DEF OthersFit, ThreadsGoOn
<1>7. ASSUME NEW j \in Created, LeaseRunsOut(j) PROVE OK
  BY <1>7, <1>b DEF LeaseRunsOut, Rest, userVars, historyVars, bounds
<1>8. ASSUME NEW u \in Users,
             \/ EditSummary(u) \/ DeleteSummary(u)
             \/ \E j \in summary[u].reviews : DismissReview(u, j)
      PROVE  OK
  <2>1. acts' = acts + 1 \/ acts' = acts
    BY <1>8 DEF EditSummary, DeleteSummary, DismissReview, Act, bounds
  <2>2. UNCHANGED <<thread, late, revived, enqueued, suspended>>
    BY <1>8 DEF EditSummary, DeleteSummary, DismissReview, userVars, historyVars
  <2> QED  BY <1>b, <2>1, <2>2 DEF OthersFit
<1>9. ASSUME NEW h \in Threads, DeleteThread(h) PROVE OK
  BY <1>9 DEF DeleteThread, OthersFit, ThreadsGoOn, Act, historyVars
<1>10. ASSUME NEW h \in Threads, CleanThread(h) PROVE OK
  <2>1. \A k \in Jobs : Turn(k) \in Turns  BY DEF JobsFit, Turn, JobRow
  <2>2. late' \in SUBSET Turns /\ late \subseteq late'
    BY <1>10, <2>1 DEF CleanThread, OthersFit
  <2>3. /\ thread' = [thread EXCEPT ![h] = "deleted"] /\ thread[h] = "deleting"
        /\ UNCHANGED <<enqueued, suspended, revived, acts>>
    BY <1>10 DEF CleanThread, bounds
  <2>4. thread' \in [Threads -> {"active", "deleting", "deleted"}]
    BY <2>3 DEF OthersFit
  <2>5. \A i \in Threads : thread'[i] = "deleted" =>
          thread[i] # "active" /\ (thread[i] = "deleted" \/ CleanThread(i))
    BY <1>10, <2>3 DEF OthersFit
  <2> QED  BY <2>2, <2>3, <2>4, <2>5 DEF OthersFit, ThreadsGoOn
<1>11. CASE Suspend \/ Resume
  BY <1>11, <1>a DEF Suspend, Resume, OthersFit, historyVars, bounds
<1> QED
  BY <1>1, <1>2, <1>3, <1>4, <1>5, <1>6, <1>7, <1>8, <1>9, <1>10, <1>11 DEF Next

-----------------------------------------------------------------------------
(* What was deleted, the topic or a thread.                                *)
Kept(u) ==
  /\ summary[u].live => summary[u].sources \intersect buried[u].turns = {}
  /\ \A t \in summary[u].sources :
       thread[ThreadOf[t]] = "deleted" => t \in summary[u].gone \union late

LateFits(j) == Locked(j) /\ thread[Thread(j)] = "deleted" => Turn(j) \in late

DeletionsFit == (\A u \in Users : Kept(u)) /\ (\A j \in Jobs : LateFits(j))

(* A job is locked by the step that begins its commit.                     *)
LEMMA LockedBefore ==
  ASSUME JobsFit, NEW k \in Jobs, JobStep(k), Locked(k)'
  PROVE  /\ job'[k].turn = job[k].turn
         /\ Locked(k) \/ ThreadAlive(k)
<1>1. Fit(job[k], exec[k], faults)  BY DEF JobsFit
<1>2. PICK g \in Generations : exec'[k][g] = "commit"  BY DEF Locked
<1>3. CASE Born(k)
  <2>1. exec[k][g] = "commit" /\ job[k].status = "absent"  BY <1>2, <1>3 DEF Born
  <2> QED  BY <1>1, <2>1 DEF Fit, Planful, At
<1>4. CASE Taken(k)
  <2>1. exec'[k][g] = "commit" => exec[k][g] = "commit"
    BY <1>1, <1>4 DEF Taken, Fit
  <2> QED  BY <1>2, <1>4, <2>1 DEF Taken, Locked, Keeps
<1>5. CASE Still(k) \/ Dropped(k) \/ Leased(k, "live") \/ Leased(k, "expired")
  BY <1>2, <1>5 DEF Still, Dropped, Leased, Keeps, Locked
<1>6. ASSUME NEW h \in Generations,
             Freed(k, h) \/ Left(k, h) \/ Plans(k, h) \/ Strays(k, h)
      PROVE  job'[k].turn = job[k].turn /\ Locked(k)
  <2>1. exec[k] \in [Generations -> ExecState]  BY <1>1 DEF Fit
  <2>2. exec[k][g] = "commit"
    BY <1>2, <1>6, <2>1 DEF Freed, Left, Plans, Strays
  <2> QED  BY <1>6, <2>2 DEF Freed, Left, Plans, Strays, Keeps, Locked
<1>7. ASSUME NEW h \in Generations, Commits(k, h)
      PROVE  job'[k].turn = job[k].turn /\ ThreadAlive(k)
  BY <1>7 DEF Commits
<1> QED  BY <1>3, <1>4, <1>5, <1>6, <1>7 DEF JobStep, Calm

LEMMA LateFitsStep ==
  ASSUME JobsFit, SummariesFit, OthersFit, [Next]_vars, NEW k \in Jobs, LateFits(k)
  PROVE  LateFits(k)'
<1>1. JobStep(k) /\ ThreadsGoOn  BY StepsOfJobs, OthersFitStep
<1> SUFFICES ASSUME Locked(k)', thread'[Thread(k)'] = "deleted" PROVE Turn(k)' \in late'
  BY DEF LateFits
<1>2. job'[k].turn = job[k].turn /\ (Locked(k) \/ ThreadAlive(k))  BY <1>1, LockedBefore
<1>3. Turn(k)' = Turn(k) /\ Thread(k)' = Thread(k)  BY <1>2 DEF Turn, Thread
<1>4. Thread(k) \in Threads  BY Places DEF JobsFit, JobRow, Thread, Turn
<1>5. thread[Thread(k)] # "active" /\ (thread[Thread(k)] = "deleted" \/ CleanThread(Thread(k)))
  BY <1>1, <1>3, <1>4 DEF ThreadsGoOn
<1>6. Locked(k)  BY <1>2, <1>5 DEF ThreadAlive
<1>7. CASE thread[Thread(k)] = "deleted"
  BY <1>1, <1>3, <1>6, <1>7 DEF LateFits, ThreadsGoOn
<1>8. CASE CleanThread(Thread(k))
  BY <1>3, <1>6, <1>8 DEF CleanThread
<1> QED  BY <1>5, <1>7, <1>8

LEMMA KeptStep ==
  ASSUME JobsFit, SummariesFit, OthersFit, DeletionsFit, [Next]_vars, NEW u \in Users
  PROVE  Kept(u)'
<1>1. ThreadsGoOn  BY OthersFitStep
<1>2. summary[u] \in SummaryRow /\ Shown(summary[u]) /\ Kept(u)
  BY DEF SummariesFit, DeletionsFit
<1>3. ASSUME NEW h \in Threads, CleanThread(h) PROVE Kept(u)'
  <2>1. /\ buried' = buried /\ summary'[u].live = summary[u].live
        /\ summary'[u].sources = summary[u].sources
        /\ summary[u].gone \subseteq summary'[u].gone
    BY <1>3, CleanedIs
  <2>2. ASSUME NEW t \in summary'[u].sources, thread'[ThreadOf[t]] = "deleted"
        PROVE  t \in summary'[u].gone \union late'
    <3>1. t \in summary[u].sources /\ t \in Turns  BY <1>2, <2>1, <2>2 DEF SummaryRow
    <3>2. ThreadOf[t] \in Threads  BY <3>1, Places
    <3>3. CASE thread[ThreadOf[t]] = "deleted"
      BY <1>1, <1>2, <2>1, <3>1, <3>3 DEF Kept, ThreadsGoOn
    <3>4. CASE CleanThread(ThreadOf[t])
      BY <3>1, <3>4, CleanedIs
    <3> QED  BY <1>1, <2>2, <3>2, <3>3, <3>4 DEF ThreadsGoOn
  <2> QED  BY <1>2, <2>1, <2>2 DEF Kept
<1>4. CASE \A h \in Threads : ~CleanThread(h)
  <2>1. /\ late \subseteq late'
        /\ \A t \in Turns : thread'[ThreadOf[t]] = "deleted" => thread[ThreadOf[t]] = "deleted"
    BY <1>1, <1>4, Places DEF ThreadsGoOn
  <2>2. ASSUME buried'[u] = buried[u], summary'[u].live => summary[u].live,
               summary'[u].sources = summary[u].sources, summary'[u].gone = summary[u].gone
        PROVE  Kept(u)'
    <3>1. \A t \in summary[u].sources : t \in Turns  BY <1>2 DEF SummaryRow
    <3>2. \A t \in summary'[u].sources :
            thread'[ThreadOf[t]] = "deleted" => t \in summary'[u].gone \union late'
      BY <1>2, <2>1, <2>2, <3>1 DEF Kept
    <3> QED  BY <1>2, <2>2, <3>2 DEF Kept
  <2>3. CASE UNCHANGED <<summary, buried>>  BY <2>2, <2>3
  <2>4. ASSUME NEW v \in Users, v # u, summary' = [summary EXCEPT ![v] = summary'[v]],
               buried'[u] = buried[u]
        PROVE  Kept(u)'
    BY <2>2, <2>4, OneSummary
  <2>5. ASSUME NEW v \in Users, EditSummary(v) PROVE Kept(u)'
    <3>1. CASE v = u
      <4>1. EditSummary(u)  BY <2>5, <3>1
      <4>2. /\ buried'[u] = buried[u]
            /\ summary'[u].live => summary[u].live
            /\ summary'[u].sources = summary[u].sources /\ summary'[u].gone = summary[u].gone
        BY <4>1, EditedIs
      <4> QED  BY <2>2, <4>2
    <3>2. CASE v # u  BY <2>4, <2>5, <3>2, EditedIs
    <3> QED  BY <3>1, <3>2
  <2>6. ASSUME NEW v \in Users, NEW j \in summary[v].reviews, DismissReview(v, j)
        PROVE  Kept(u)'
    <3>1. CASE v = u
      <4>1. PICK i \in summary[u].reviews : DismissReview(u, i)  BY <2>6, <3>1
      <4>2. /\ buried'[u] = buried[u]
            /\ summary'[u].live => summary[u].live
            /\ summary'[u].sources = summary[u].sources /\ summary'[u].gone = summary[u].gone
        BY <4>1, DismissedIs
      <4> QED  BY <2>2, <4>2
    <3>2. CASE v # u  BY <2>4, <2>6, <3>2, DismissedIs
    <3> QED  BY <3>1, <3>2
  <2>7. ASSUME NEW v \in Users, DeleteSummary(v) PROVE Kept(u)'
    <3>1. CASE v = u  BY <2>7, <3>1, DeletedIs DEF Kept
    <3>2. CASE v # u
      <4> DEFINE b == buried'[v]
      <4>1. buried' = [buried EXCEPT ![v] = b]  BY <2>7, DeletedIs
      <4> HIDE DEF b
      <4>2. buried'[u] = buried[u]  BY <3>2, <4>1 DEF SummariesFit
      <4> QED  BY <2>4, <2>7, <3>2, <4>2, DeletedIs
    <3> QED  BY <3>1, <3>2
  <2>8. ASSUME NEW j \in Jobs, NEW g \in Generations, CommitWrites(j, g), Writes(j, g),
               UNCHANGED <<buried, thread, late>>
        PROVE  Kept(u)'
    <3> DEFINE v == User(j)
               s == summary[User(j)]
               plan == job[j].plan
    <3>1. /\ v \in Users /\ Turn(j) \in Turns /\ exec[j][g] = "commit"
          /\ summary' = [summary EXCEPT ![v] = summary'[v]]
          /\ plan.kind \in {"create", "merge", "review"}
          /\ plan.kind \in {"create", "merge"} => Turn(j) \notin buried[v].turns
          /\ plan.kind = "create" => summary'[v].sources = {Turn(j)}
          /\ plan.kind # "create" => s.live /\ summary'[v].gone = s.gone
          /\ plan.kind = "merge" => summary'[v].sources = s.sources \union {Turn(j)}
          /\ plan.kind = "review" => summary'[v].sources = s.sources
      BY <2>8, WritesIs
    <3>2. thread[Thread(j)] = "deleted" => Turn(j) \in late
      BY <3>1 DEF DeletionsFit, LateFits, Locked
    <3> HIDE DEF v, s, plan
    <3>3. CASE v = u
      <4>0. s = summary[u] /\ Kept(u)  BY <1>2, <3>3 DEF v, s
      <4>1. s.live => summary'[u].sources \subseteq s.sources \union {Turn(j)}
        BY <3>1, <3>3
      <4>2. summary'[u].sources \intersect buried'[u].turns = {}
        BY <2>8, <3>1, <3>3, <4>0 DEF Kept
      <4>3. ASSUME NEW t \in summary'[u].sources, thread'[ThreadOf[t]] = "deleted"
            PROVE  t \in summary'[u].gone \union late'
        <5>1. CASE t = Turn(j)  BY <2>8, <3>2, <4>3, <5>1 DEF Thread
        <5>2. CASE t # Turn(j)
          <6>1. plan.kind # "create" /\ t \in s.sources  BY <3>1, <3>3, <4>3, <5>2
          <6> QED  BY <2>8, <3>1, <3>3, <4>0, <4>3, <6>1 DEF Kept
        <5> QED  BY <5>1, <5>2
      <4> QED  BY <4>2, <4>3 DEF Kept
    <3>4. CASE v # u  BY <2>4, <2>8, <3>1, <3>4
    <3> QED  BY <3>3, <3>4
  <2> QED
    BY <1>4, <2>3, <2>5, <2>6, <2>7, <2>8, SummarySteps DEF SummaryStep
<1> QED  BY <1>3, <1>4

LEMMA DeletionsFitStep ==
  JobsFit /\ SummariesFit /\ OthersFit /\ DeletionsFit /\ [Next]_vars => DeletionsFit'
<1> SUFFICES ASSUME JobsFit, SummariesFit, OthersFit, DeletionsFit, [Next]_vars
             PROVE  (\A u \in Users : Kept(u)') /\ (\A j \in Jobs : LateFits(j)')
  BY DEF DeletionsFit
<1> QED  BY KeptStep, LateFitsStep DEF DeletionsFit

-----------------------------------------------------------------------------
(* The slots.                                                              *)
OnePerUser ==
  \A j, k \in Jobs :
    job[j].status = "processing" /\ job[k].status = "processing" /\ User(j) = User(k) => j = k

HoldingJobs == {j \in Jobs : Holding(j)}
HoldingAutos == {j \in Jobs : Holding(j) /\ Trigger(j) = "auto"}

SlotsFit ==
  /\ Cardinality(HoldingJobs) <= Concurrency + revived
  /\ Cardinality(HoldingAutos) + Reserved <= Concurrency + revived
  /\ OnePerUser

(* Jobs are claimed in one order.                                          *)
LEMMA OneOrder ==
  ASSUME JobsFit, NEW i \in Jobs, NEW j \in Jobs, NEW k \in Jobs
  PROVE  /\ ~Before(i, i)
         /\ i # j => Before(i, j) \/ Before(j, i)
         /\ Before(i, j) /\ Before(j, k) => Before(i, k)
<1>1. i \in Nat /\ j \in Nat /\ k \in Nat  BY JobNumbers
<1>2. \A h \in Jobs : Priority(h) \in Nat
  <2> TAKE h \in Jobs
  <2>1. Trigger(h) \in {"auto", "manual", "manual_retry", "manual_refresh"}
    BY DEF JobsFit, JobRow, Trigger, Manual
  <2> QED  BY <2>1 DEF Priority
<1>3. Priority(i) \in Nat /\ Priority(j) \in Nat /\ Priority(k) \in Nat  BY <1>2
<1> QED  BY <1>1, <1>3 DEF Before

(* The first n in the order are at most n.                                 *)
LEMMA FirstFew ==
  ASSUME JobsFit, NEW S \in SUBSET Jobs, NEW n \in Nat
  PROVE  Cardinality({j \in S : Cardinality({k \in S : Before(k, j)}) < n}) <= n
<1> DEFINE below(j) == {k \in S : Before(k, j)}
           few == {j \in S : Cardinality(below(j)) < n}
           rank == [j \in few |-> Cardinality(below(j))]
<1>1. IsFiniteSet(S) /\ IsFiniteSet(few)
  <2>1. S \subseteq Jobs /\ few \subseteq Jobs  OBVIOUS
  <2> QED  BY <2>1, JobNumbers, FS_Subset
<1>2. ASSUME NEW j \in S PROVE IsFiniteSet(below(j)) /\ Cardinality(below(j)) \in Nat
  <2>1. below(j) \subseteq S  OBVIOUS
  <2> QED  BY <1>1, <2>1, FS_Subset, FS_CardinalityType
<1>3. ASSUME NEW i \in S, NEW j \in S, Before(i, j)
      PROVE  Cardinality(below(i)) < Cardinality(below(j))
  <2>1. i \in Jobs /\ j \in Jobs /\ S \subseteq Jobs  OBVIOUS
  <2>2. \A k \in S : Before(k, i) => Before(k, j)  BY <1>3, <2>1, OneOrder
  <2>3. ~Before(i, i)  BY <2>1, OneOrder
  <2>4. below(i) \subseteq below(j) /\ below(i) # below(j)
    BY <1>3, <2>2, <2>3
  <2>5. IsFiniteSet(below(j)) /\ IsFiniteSet(below(i))
        /\ Cardinality(below(j)) \in Nat /\ Cardinality(below(i)) \in Nat
    BY <1>2
  <2> HIDE DEF below
  <2>6. /\ Cardinality(below(i)) <= Cardinality(below(j))
        /\ Cardinality(below(i)) = Cardinality(below(j)) => below(i) = below(j)
    BY <2>4, <2>5, FS_Subset
  <2> QED  BY <2>4, <2>5, <2>6
<1>4. rank \in Injection(few, 0..(n-1))
  <2>1. ASSUME NEW j \in few PROVE rank[j] \in 0..(n-1)
    <3>1. j \in S /\ Cardinality(below(j)) < n  OBVIOUS
    <3>2. rank[j] = Cardinality(below(j))  OBVIOUS
    <3>3. Cardinality(below(j)) \in Nat  BY <1>2, <3>1
    <3> HIDE DEF below, rank, few
    <3> QED  BY <3>1, <3>2, <3>3
  <2>2. ASSUME NEW i \in few, NEW j \in few, rank[i] = rank[j] PROVE i = j
    <3>1. i \in S /\ j \in S /\ i \in Jobs /\ j \in Jobs  OBVIOUS
    <3>2. rank[i] = Cardinality(below(i)) /\ rank[j] = Cardinality(below(j))  OBVIOUS
    <3>3. Cardinality(below(i)) \in Nat /\ Cardinality(below(j)) \in Nat  BY <1>2, <3>1
    <3> HIDE DEF below, rank, few
    <3>4. Cardinality(below(i)) = Cardinality(below(j))  BY <2>2, <3>2
    <3>5. ~Before(i, j)
      <4> SUFFICES ASSUME Before(i, j) PROVE FALSE  OBVIOUS
      <4>1. Cardinality(below(i)) < Cardinality(below(j))  BY <1>3, <3>1
      <4> QED  BY <3>3, <3>4, <4>1
    <3>6. ~Before(j, i)
      <4> SUFFICES ASSUME Before(j, i) PROVE FALSE  OBVIOUS
      <4>1. Cardinality(below(j)) < Cardinality(below(i))  BY <1>3, <3>1
      <4> QED  BY <3>3, <3>4, <4>1
    <3> QED  BY <3>1, <3>5, <3>6, OneOrder
  <2>3. rank \in [few -> 0..(n-1)]  BY <2>1
  <2> HIDE DEF rank, few
  <2> QED  BY <2>2, <2>3 DEF Injection, IsInjective
<1>5. IsFiniteSet(0..(n-1)) /\ Cardinality(0..(n-1)) = n
  <2>1. 0 \in Int /\ n - 1 \in Int  OBVIOUS
  <2>2. /\ IsFiniteSet(0..(n-1))
        /\ Cardinality(0..(n-1)) = IF 0 > n - 1 THEN 0 ELSE (n - 1) - 0 + 1
    BY <2>1, FS_Interval
  <2> QED  BY <2>2
<1>6. Cardinality(few) <= Cardinality(0..(n-1))
  <2> HIDE DEF few, rank
  <2> QED  BY <1>4, <1>5, FS_Injection
<1> QED  BY <1>5, <1>6

(* Who holds a lease, or is processed, after a step.                       *)
LEMMA CalmHolds ==
  ASSUME JobsFit, NEW k \in Jobs, Calm(k)
  PROVE  /\ Holding(k)' => Holding(k) /\ job'[k].trigger = job[k].trigger
         /\ job'[k].status = "processing" =>
              job[k].status = "processing" /\ job'[k].turn = job[k].turn
<1>1. CASE Still(k)  BY <1>1 DEF Still, Holding
<1>2. CASE Born(k)  BY <1>2 DEF Born, Holding
<1>3. CASE Dropped(k)  BY <1>3 DEF Dropped, Holding
<1>4. CASE Leased(k, "expired")  BY <1>4 DEF Leased, Keeps, Holding
<1>5. ASSUME NEW g \in Generations, Freed(k, g) PROVE job'[k].status # "processing"
  BY <1>5 DEF Freed, Ended
<1>6. ASSUME NEW g \in Generations, Left(k, g) \/ Strays(k, g) \/ Commits(k, g)
      PROVE  job'[k] = job[k]
  BY <1>6 DEF Left, Strays, Commits
<1>7. ASSUME NEW g \in Generations, Plans(k, g)
      PROVE  /\ job'[k].status = job[k].status /\ job'[k].lease = job[k].lease
             /\ job'[k].turn = job[k].turn /\ job'[k].trigger = job[k].trigger
  BY <1>7 DEF Plans, Keeps
<1> QED  BY <1>1, <1>2, <1>3, <1>4, <1>5, <1>6, <1>7 DEF Calm, Holding

LEMMA LeasedHolds ==
  ASSUME NEW j \in Jobs, Only(j), Leased(j, "live")
  PROVE  \A k \in Jobs :
           /\ Holding(k)' => (Holding(k) \/ k = j) /\ job'[k].trigger = job[k].trigger
           /\ job'[k].status = "processing" =>
                job[k].status = "processing" /\ job'[k].turn = job[k].turn
BY DEF Only, Leased, Keeps, Still, Holding

LEMMA PollHolds ==
  ASSUME JobsFit, NEW waiting, ClaimJobs(Claimed(waiting))
  PROVE  \A k \in Jobs :
           /\ Holding(k)' => Holding(k) \/ k \in Claimed(waiting)
           /\ job'[k].status = "processing" =>
                job[k].status = "processing" \/ k \in Claimed(waiting)
           /\ job'[k].turn = job[k].turn /\ job'[k].trigger = job[k].trigger
<1>1. \A j \in Jobs : /\ j \in Claimed(waiting) => Taken(j)
                      /\ j \notin Claimed(waiting) => Still(j)
  BY PollIs
<1> QED  BY <1>1 DEF Taken, Keeps, Still, Holding

LEMMA HoldingFinite ==
  /\ IsFiniteSet(HoldingJobs) /\ IsFiniteSet(HoldingAutos)
  /\ Cardinality(HoldingJobs) \in Nat /\ Cardinality(HoldingAutos) \in Nat
  /\ Cardinality(HoldingAutos) <= Cardinality(HoldingJobs)
<1>1. HoldingJobs \subseteq Jobs /\ HoldingAutos \subseteq HoldingJobs
  BY DEF HoldingJobs, HoldingAutos
<1> QED  BY <1>1, JobNumbers, FS_Subset, FS_CardinalityType

(* A set that grows by at most the n elements of another.                  *)
LEMMA GrowsBy ==
  ASSUME NEW S, NEW T, NEW C, IsFiniteSet(S), IsFiniteSet(C), T \subseteq S \union C,
         NEW n \in Nat, Cardinality(C) <= n
  PROVE  IsFiniteSet(T) /\ Cardinality(T) \in Nat /\ Cardinality(T) <= Cardinality(S) + n
<1>1. /\ IsFiniteSet(S \union C)
      /\ Cardinality(S \union C) = Cardinality(S) + Cardinality(C) - Cardinality(S \intersect C)
  BY FS_Union
<1>2. IsFiniteSet(S \intersect C)  BY FS_Intersection
<1>3. IsFiniteSet(T) /\ Cardinality(T) <= Cardinality(S \union C)  BY <1>1, FS_Subset
<1>4. /\ Cardinality(S) \in Nat /\ Cardinality(C) \in Nat /\ Cardinality(T) \in Nat
      /\ Cardinality(S \intersect C) \in Nat /\ Cardinality(S \union C) \in Nat
  BY <1>1, <1>2, <1>3, FS_CardinalityType
<1> QED  BY <1>1, <1>3, <1>4

(* What a poll claims fits the free slots, and one job of each user.       *)
LEMMA AvailableIs ==
  /\ Available \in Nat
  /\ Available = 0 \/ Cardinality(HoldingJobs) + Available = Concurrency
<1>1. Available = IF Cardinality(HoldingJobs) < Concurrency
                  THEN Concurrency - Cardinality(HoldingJobs) ELSE 0
  BY DEF Available, HoldingJobs
<1> QED  BY <1>1, HoldingFinite, Numbers

ClaimedAutos(waiting) == {j \in Claimed(waiting) : Trigger(j) = "auto"}

LEMMA ClaimedFew ==
  ASSUME JobsFit, NEW waiting
  PROVE  /\ IsFiniteSet(Claimed(waiting)) /\ Cardinality(Claimed(waiting)) <= Available
         /\ IsFiniteSet(ClaimedAutos(waiting))
         /\ \/ ClaimedAutos(waiting) = {}
            \/ /\ Reserved < Available
               /\ Cardinality(ClaimedAutos(waiting)) <= Available - Reserved
<1> DEFINE rows == Claimable(waiting)
           able == {j \in Window(waiting) : ~Collides(j)}
           first == {j \in able : \A k \in able : User(k) = User(j) => ~Before(k, j)}
           autos == {j \in first : Trigger(j) = "auto"}
           n == Available - Reserved
<1>0. Available \in Nat /\ Reserved \in Nat  BY AvailableIs, Numbers
<1>1. /\ Claimed(waiting) \subseteq Window(waiting) /\ Window(waiting) \subseteq rows
      /\ rows \subseteq Jobs
  BY ClaimedAreClaimable
<1>2. Cardinality(Window(waiting)) <= Available
  <2>1. Window(waiting) = {j \in rows : Cardinality({k \in rows : Before(k, j)}) < Available}
    BY DEF Window
  <2> HIDE DEF rows
  <2> QED  BY <1>0, <1>1, <2>1, FirstFew
<1>3. IsFiniteSet(Window(waiting))  BY <1>1, JobNumbers, FS_Subset
<1>4. /\ IsFiniteSet(Claimed(waiting)) /\ Cardinality(Claimed(waiting)) <= Available
  <2>1. /\ IsFiniteSet(Claimed(waiting))
        /\ Cardinality(Claimed(waiting)) <= Cardinality(Window(waiting))
    BY <1>1, <1>3, FS_Subset
  <2> QED  BY <1>0, <1>2, <1>3, <2>1, FS_CardinalityType
<1>5. IsFiniteSet(ClaimedAutos(waiting))
  <2>1. ClaimedAutos(waiting) \subseteq Claimed(waiting)  BY DEF ClaimedAutos
  <2> QED  BY <1>4, <2>1, FS_Subset
<1>6. ClaimedAutos(waiting) =
        {j \in autos : Cardinality({k \in autos : Before(k, j)}) + Reserved < Available}
  BY DEF ClaimedAutos, Claimed
<1>7. autos \subseteq Jobs  BY <1>1
<1> HIDE DEF autos
<1>8. \A j \in autos : Cardinality({k \in autos : Before(k, j)}) \in Nat
  <2> TAKE j \in autos
  <2>1. {k \in autos : Before(k, j)} \subseteq Jobs  BY <1>7
  <2> QED  BY <2>1, JobNumbers, FS_Subset, FS_CardinalityType
<1>9. CASE Reserved < Available
  <2>1. n \in Nat  BY <1>0, <1>9
  <2>2. ClaimedAutos(waiting) =
          {j \in autos : Cardinality({k \in autos : Before(k, j)}) < n}
    <3>1. \A j \in autos :
            Cardinality({k \in autos : Before(k, j)}) + Reserved < Available
              <=> Cardinality({k \in autos : Before(k, j)}) < n
      BY <1>0, <1>8
    <3> QED  BY <1>6, <3>1
  <2>3. Cardinality(ClaimedAutos(waiting)) <= n
    <3> HIDE DEF n
    <3> QED  BY <1>7, <2>1, <2>2, FirstFew
  <2> QED  BY <1>4, <1>5, <1>9, <2>3
<1>10. CASE ~(Reserved < Available)
  <2>1. \A j \in autos : ~(Cardinality({k \in autos : Before(k, j)}) + Reserved < Available)
    BY <1>0, <1>8, <1>10
  <2> QED  BY <1>4, <1>5, <1>6, <2>1
<1> QED  BY <1>9, <1>10

LEMMA ClaimedApart ==
  ASSUME JobsFit, NEW waiting, NEW j \in Claimed(waiting), NEW k \in Jobs, User(j) = User(k),
         job[k].status = "processing" \/ k \in Claimed(waiting)
  PROVE  j = k
<1> DEFINE able == {i \in Window(waiting) : ~Collides(i)}
<1>1. j \in Jobs  BY ClaimedAreClaimable
<1>2. \A i \in Claimed(waiting) :
        /\ i \in able
        /\ \A h \in able : User(h) = User(i) => ~Before(h, i)
  BY DEF Claimed
<1> HIDE DEF able
<1>3. ~Collides(j)  BY <1>2 DEF able
<1>4. CASE job[k].status = "processing"  BY <1>3, <1>4 DEF Collides
<1>5. CASE k \in Claimed(waiting)
  <2>1. ~Before(j, k) /\ ~Before(k, j)  BY <1>2, <1>5
  <2> QED  BY <1>1, <2>1, OneOrder
<1> QED  BY <1>4, <1>5

LEMMA OnePerUserGoesOn ==
  ASSUME OnePerUser,
         \A k \in Jobs : job'[k].status = "processing" =>
           job[k].status = "processing" /\ job'[k].turn = job[k].turn
  PROVE  OnePerUser'
BY DEF OnePerUser, User, Turn

LEMMA SlotsFitStep ==
  ASSUME JobsFit, SummariesFit, OthersFit, SlotsFit, [Next]_vars
  PROVE  SlotsFit'
<1>0. /\ revived \in Nat /\ Concurrency \in Nat /\ Reserved \in Nat /\ 0 \in Nat /\ 1 \in Nat
      /\ Reserved <= Concurrency
  BY Numbers DEF OthersFit
<1>1. FaultsGoOn /\ Steps  BY NextSteps
<1>2. ASSUME NEW waiting, ClaimJobs(Claimed(waiting)) PROVE SlotsFit'
  <2> DEFINE claimed == Claimed(waiting)
             autos == ClaimedAutos(waiting)
  <2>1. \A k \in Jobs :
           /\ Holding(k)' => Holding(k) \/ k \in claimed
           /\ job'[k].status = "processing" => job[k].status = "processing" \/ k \in claimed
           /\ job'[k].turn = job[k].turn /\ job'[k].trigger = job[k].trigger
    BY <1>2, PollHolds
  <2>2. revived' = revived  BY <1>2 DEF ClaimJobs, historyVars
  <2>3. HoldingJobs' \subseteq HoldingJobs \union claimed
    BY <2>1 DEF HoldingJobs
  <2>4. HoldingAutos' \subseteq HoldingAutos \union autos
    BY <2>1 DEF HoldingAutos, ClaimedAutos, Trigger
  <2>5. /\ IsFiniteSet(claimed) /\ Cardinality(claimed) <= Available
        /\ IsFiniteSet(autos)
        /\ \/ autos = {}
           \/ Reserved < Available /\ Cardinality(autos) <= Available - Reserved
    BY ClaimedFew
  <2> HIDE DEF claimed, autos
  <2>6. /\ Cardinality(HoldingJobs') \in Nat
        /\ Cardinality(HoldingJobs') <= Cardinality(HoldingJobs) + Available
    BY <2>3, <2>5, HoldingFinite, AvailableIs, GrowsBy
  <2>7. Cardinality(HoldingJobs)' <= Concurrency + revived'
    BY <1>0, <2>2, <2>6, HoldingFinite, AvailableIs DEF SlotsFit
  <2>8. Cardinality(HoldingAutos)' + Reserved <= Concurrency + revived'
    <3>1. CASE autos = {}
      <4>1. Cardinality(autos) <= 0  BY <3>1, FS_EmptySet
      <4>2. /\ Cardinality(HoldingAutos') \in Nat
            /\ Cardinality(HoldingAutos') <= Cardinality(HoldingAutos) + 0
        BY <1>0, <2>4, <2>5, <4>1, HoldingFinite, GrowsBy
      <4> QED  BY <1>0, <2>2, <4>2, HoldingFinite DEF SlotsFit
    <3>2. CASE Reserved < Available /\ Cardinality(autos) <= Available - Reserved
      <4>1. Available - Reserved \in Nat  BY <1>0, <3>2, AvailableIs
      <4>2. /\ Cardinality(HoldingAutos') \in Nat
            /\ Cardinality(HoldingAutos') <= Cardinality(HoldingAutos) + (Available - Reserved)
        BY <2>4, <2>5, <3>2, <4>1, HoldingFinite, GrowsBy
      <4> QED  BY <1>0, <2>2, <3>2, <4>2, HoldingFinite, AvailableIs
    <3> QED  BY <2>5, <3>1, <3>2
  <2>9. OnePerUser'
    <3> SUFFICES ASSUME NEW j \in Jobs, NEW k \in Jobs, job'[j].status = "processing",
                        job'[k].status = "processing", User(j)' = User(k)'
                 PROVE  j = k
      BY DEF OnePerUser
    <3>1. User(j) = User(k)  BY <2>1 DEF User, Turn
    <3>2. /\ job[j].status = "processing" \/ j \in claimed
          /\ job[k].status = "processing" \/ k \in claimed
      BY <2>1
    <3>3. CASE j \in claimed  BY <3>1, <3>2, <3>3, ClaimedApart DEF claimed
    <3>4. CASE k \in claimed  BY <3>1, <3>2, <3>4, ClaimedApart DEF claimed
    <3>5. CASE job[j].status = "processing" /\ job[k].status = "processing"
      BY <3>1, <3>5 DEF SlotsFit, OnePerUser
    <3> QED  BY <3>2, <3>3, <3>4, <3>5
  <2> QED  BY <2>7, <2>8, <2>9 DEF SlotsFit
<1>3. CASE AllCalm
  <2>1. \A k \in Jobs :
           /\ Holding(k)' => Holding(k) /\ job'[k].trigger = job[k].trigger
           /\ job'[k].status = "processing" =>
                job[k].status = "processing" /\ job'[k].turn = job[k].turn
    BY <1>3, CalmHolds DEF AllCalm
  <2>2. HoldingJobs' \subseteq HoldingJobs /\ HoldingAutos' \subseteq HoldingAutos
    BY <2>1 DEF HoldingJobs, HoldingAutos, Trigger
  <2>3. /\ Cardinality(HoldingJobs') \in Nat /\ Cardinality(HoldingAutos') \in Nat
        /\ Cardinality(HoldingJobs') <= Cardinality(HoldingJobs)
        /\ Cardinality(HoldingAutos') <= Cardinality(HoldingAutos)
    BY <2>2, HoldingFinite, FS_Subset, FS_CardinalityType
  <2>4. OnePerUser'  BY <2>1, OnePerUserGoesOn DEF SlotsFit
  <2>5. revived' = revived  BY <1>3 DEF AllCalm
  <2> QED  BY <1>0, <2>3, <2>4, <2>5, HoldingFinite DEF SlotsFit
<1>4. ASSUME NEW j \in Jobs, Only(j), Leased(j, "live"), revived' = revived + 1
      PROVE  SlotsFit'
  <2>1. \A k \in Jobs :
           /\ Holding(k)' => (Holding(k) \/ k = j) /\ job'[k].trigger = job[k].trigger
           /\ job'[k].status = "processing" =>
                job[k].status = "processing" /\ job'[k].turn = job[k].turn
    BY <1>4, LeasedHolds
  <2>2. /\ HoldingJobs' \subseteq HoldingJobs \union {j}
        /\ HoldingAutos' \subseteq HoldingAutos \union {j}
    BY <2>1 DEF HoldingJobs, HoldingAutos, Trigger
  <2>3. IsFiniteSet({j}) /\ Cardinality({j}) <= 1
    <3>1. IsFiniteSet({j}) /\ Cardinality({j}) = 1  BY FS_Singleton, Zenon
    <3> QED  BY <3>1
  <2>4. /\ Cardinality(HoldingJobs') \in Nat
        /\ Cardinality(HoldingJobs') <= Cardinality(HoldingJobs) + 1
    BY <1>0, <2>2, <2>3, HoldingFinite, GrowsBy
  <2>5. /\ Cardinality(HoldingAutos') \in Nat
        /\ Cardinality(HoldingAutos') <= Cardinality(HoldingAutos) + 1
    BY <1>0, <2>2, <2>3, HoldingFinite, GrowsBy
  <2>6. OnePerUser'  BY <2>1, OnePerUserGoesOn DEF SlotsFit
  <2> QED  BY <1>0, <1>4, <2>4, <2>5, <2>6, HoldingFinite DEF SlotsFit
<1> QED  BY <1>1, <1>2, <1>3, <1>4 DEF Steps

-----------------------------------------------------------------------------
(* Behind the fence, a plan to create a summary finds none.                *)
FreshFits(j) ==
  \A g \in Generations :
    exec[j][g] \in {"planned", "commit"} /\ Fenced(j, g) /\ job[j].plan.kind = "create"
      => ~summary[User(j)].live

(* An execution that may create a summary was already one, or has just     *)
(* looked.                                                                 *)
LEMMA FreshBefore ==
  ASSUME JobsFit, NEW k \in Jobs, JobStep(k), FreshFits(k), NEW g \in Generations,
         exec'[k][g] \in {"planned", "commit"}, Fenced(k, g)', job'[k].plan.kind = "create"
  PROVE  /\ job[k].status = "processing" /\ job'[k].turn = job[k].turn
         /\ ~summary[User(k)].live
<1>1. Fit(job[k], exec[k], faults)  BY DEF JobsFit
<1>2. exec[k] \in [Generations -> ExecState] /\ job[k].gen \in Nat  BY <1>1 DEF Fit, JobRow
<1>3. job'[k].status = "processing" /\ job'[k].gen = g  BY DEF Fenced
<1>4. CASE Still(k)  BY <1>4 DEF Still, FreshFits, Fenced
<1>5. CASE Born(k) \/ Dropped(k)  BY <1>3, <1>5 DEF Born, Dropped
<1>6. CASE Taken(k)
  <2>1. exec'[k][g] = "claimed"  BY <1>2, <1>3, <1>6 DEF Taken
  <2> QED  BY <2>1
<1>7. CASE Leased(k, "live") \/ Leased(k, "expired")
  BY <1>3, <1>7 DEF Leased, Keeps, FreshFits, Fenced
<1>8. ASSUME NEW h \in Generations, Freed(k, h) PROVE FALSE
  BY <1>3, <1>8 DEF Freed, Ended
<1>9. ASSUME NEW h \in Generations, Left(k, h)
      PROVE  job'[k] = job[k] /\ exec[k][g] \in {"planned", "commit"}
  BY <1>2, <1>9 DEF Left
<1>10. ASSUME NEW h \in Generations, Strays(k, h)
       PROVE  job'[k] = job[k] /\ exec[k][g] \in {"planned", "commit"}
  BY <1>2, <1>3, <1>10 DEF Strays, Fenced
<1>11. ASSUME NEW h \in Generations, Commits(k, h)
       PROVE  job'[k] = job[k] /\ exec[k][g] \in {"planned", "commit"}
  BY <1>2, <1>11 DEF Commits
<1>12. ASSUME NEW h \in Generations, Plans(k, h)
       PROVE  /\ job[k].status = "processing" /\ job'[k].turn = job[k].turn
              /\ ~summary[User(k)].live
  BY <1>3, <1>12 DEF Plans, Keeps
<1>13. ASSUME job'[k] = job[k], exec[k][g] \in {"planned", "commit"}
       PROVE  /\ job[k].status = "processing" /\ job'[k].turn = job[k].turn
              /\ ~summary[User(k)].live
  BY <1>3, <1>13 DEF FreshFits, Fenced
<1> QED
  BY <1>4, <1>5, <1>6, <1>7, <1>8, <1>9, <1>10, <1>11, <1>12, <1>13 DEF JobStep, Calm

(* A summary comes into being when a job of its user ends.                 *)
LEMMA BecomesLive ==
  ASSUME JobsFit, SummariesFit, [Next]_vars, NEW u \in Users, ~summary[u].live,
         summary'[u].live
  PROVE  \E j \in Jobs : /\ User(j) = u /\ job[j].status = "processing"
                         /\ job'[j].status # "processing"
<1>1. summary' # summary  OBVIOUS
<1>2. ASSUME NEW v \in Users, v # u, summary' = [summary EXCEPT ![v] = summary'[v]]
      PROVE  FALSE
  BY <1>2, OneSummary
<1>3. ASSUME NEW v \in Users, EditSummary(v) PROVE FALSE
  BY <1>2, <1>3, EditedIs
<1>4. ASSUME NEW v \in Users, DeleteSummary(v) PROVE FALSE
  BY <1>2, <1>4, DeletedIs
<1>5. ASSUME NEW v \in Users, NEW j \in summary[v].reviews, DismissReview(v, j) PROVE FALSE
  BY <1>2, <1>5, DismissedIs
<1>6. ASSUME NEW h \in Threads, CleanThread(h) PROVE FALSE
  BY <1>6, CleanedIs
<1>7. PICK j \in Jobs, g \in Generations : CommitWrites(j, g) /\ Writes(j, g)
  BY <1>1, <1>3, <1>4, <1>5, <1>6, SummarySteps DEF SummaryStep
<1>8. /\ User(j) \in Users /\ summary' = [summary EXCEPT ![User(j)] = summary'[User(j)]]
      /\ Fenced(j, g)
  BY <1>7, WritesIs
<1>9. User(j) = u  BY <1>2, <1>8
<1>10. Freed(j, g)  BY <1>7 DEF Writes
<1> QED  BY <1>8, <1>9, <1>10 DEF Fenced, Freed, Ended

LEMMA FreshFitsStep ==
  ASSUME JobsFit, SummariesFit, OnePerUser, [Next]_vars, NEW k \in Jobs, FreshFits(k)
  PROVE  FreshFits(k)'
<1>1. JobStep(k)  BY StepsOfJobs
<1> SUFFICES ASSUME NEW g \in Generations, exec'[k][g] \in {"planned", "commit"},
                    Fenced(k, g)', job'[k].plan.kind = "create", summary'[User(k)'].live
             PROVE  FALSE
  BY DEF FreshFits
<1>2. /\ job[k].status = "processing" /\ job'[k].turn = job[k].turn
      /\ ~summary[User(k)].live
  BY <1>1, FreshBefore
<1>3. User(k)' = User(k)  BY <1>2 DEF User, Turn
<1>4. User(k) \in Users  BY Places DEF JobsFit, JobRow, User, Turn
<1>5. PICK j \in Jobs : /\ User(j) = User(k) /\ job[j].status = "processing"
                        /\ job'[j].status # "processing"
  BY <1>2, <1>3, <1>4, BecomesLive
<1>6. j = k  BY <1>2, <1>5 DEF OnePerUser
<1> QED  BY <1>5, <1>6 DEF Fenced

-----------------------------------------------------------------------------
(* The inductive invariant.                                                *)
IInv ==
  /\ JobsFit /\ SummariesFit /\ OthersFit
  /\ DeletionsFit /\ SlotsFit
  /\ \A j \in Jobs : FreshFits(j)

LEMMA InitFits == Init => IInv
<1> SUFFICES ASSUME Init PROVE IInv  OBVIOUS
<1>0. /\ job = [j \in Jobs |-> NoJob] /\ summary = [u \in Users |-> NoSummary]
      /\ exec = [j \in Jobs |-> [g \in Generations |-> "none"]]
      /\ buried = [u \in Users |-> [turns |-> {}, sources |-> {}]]
      /\ thread = [h \in Threads |-> "active"] /\ enqueued = [t \in Turns |-> "none"]
      /\ suspended = FALSE /\ revived = 0 /\ late = {} /\ acts = 0 /\ faults = 0
  BY DEF Init
<1>1. \A j \in Jobs : job[j] = NoJob /\ \A g \in Generations : exec[j][g] = "none"
  BY <1>0
<1>2. JobsFit
  <2>1. faults \in 0..MaxFaults /\ faults = 0  BY <1>0, Numbers
  <2>2. /\ job \in [Jobs -> JobRow] /\ exec \in [Jobs -> [Generations -> ExecState]]
    BY <1>0, NoJobType DEF ExecState
  <2>3. ASSUME NEW j \in Jobs PROVE Fit(job[j], exec[j], faults)
    <3>1. job[j] = NoJob /\ \A g \in Generations : exec[j][g] = "none"  BY <1>1
    <3>2. Planful(job[j], exec[j])  BY <3>1 DEF Planful
    <3>3. Counted(job[j], exec[j], faults)
      BY <2>1, <3>1, NoJobType, Numbers DEF Counted
    <3> QED  BY <2>2, <3>1, <3>2, <3>3, NoJobType DEF Fit
  <2> QED  BY <2>1, <2>2, <2>3 DEF JobsFit
<1>3. SummariesFit  BY <1>0, NoSummaryType DEF SummariesFit
<1>4. OthersFit  BY <1>0 DEF OthersFit
<1>5. DeletionsFit
  <2>1. \A u \in Users : Kept(u)  BY <1>0, NoSummaryType DEF Kept
  <2>2. \A j \in Jobs : LateFits(j)  BY <1>1 DEF LateFits, Locked
  <2> QED  BY <2>1, <2>2 DEF DeletionsFit
<1>6. SlotsFit
  <2>1. \A j \in Jobs : job[j].status # "processing"  BY <1>1, NoJobType
  <2>2. HoldingJobs = {} /\ HoldingAutos = {}
    BY <2>1 DEF HoldingJobs, HoldingAutos, Holding
  <2>3. Cardinality({}) = 0  BY FS_EmptySet
  <2>4. OnePerUser  BY <2>1 DEF OnePerUser
  <2> QED  BY <1>0, <2>2, <2>3, <2>4, Numbers DEF SlotsFit
<1>7. \A j \in Jobs : FreshFits(j)  BY <1>1 DEF FreshFits
<1> QED  BY <1>2, <1>3, <1>4, <1>5, <1>6, <1>7 DEF IInv

LEMMA NextFits == IInv /\ [Next]_vars => IInv'
<1> SUFFICES ASSUME IInv, [Next]_vars PROVE IInv'  OBVIOUS
<1>1. JobsFit /\ SummariesFit /\ OthersFit /\ DeletionsFit /\ SlotsFit /\ OnePerUser
  BY DEF IInv, SlotsFit
<1>2. JobsFit' /\ SummariesFit' /\ OthersFit'
  BY <1>1, JobsFitStep, SummariesFitStep, OthersFitStep
<1>3. DeletionsFit' /\ SlotsFit'  BY <1>1, DeletionsFitStep, SlotsFitStep
<1>4. ASSUME NEW j \in Jobs PROVE FreshFits(j)'
  BY <1>1, FreshFitsStep DEF IInv
<1> QED  BY <1>2, <1>3, <1>4 DEF IInv

LEMMA Invariant == Spec => []IInv
BY InitFits, NextFits, PTL DEF Spec

(* Every variable has its type; a job has a lease exactly while it is      *)
(* being processed, and every claim beyond its attempts was paid for by a  *)
(* fault (claim_generation_jobs, finish_generation, retry_generation).     *)
THEOREM TypeCorrect == Spec => []TypeOK
<1>1. ASSUME IInv PROVE TypeOK
  <2>1. JobsFit /\ SummariesFit /\ OthersFit  BY <1>1 DEF IInv
  <2>2. {revived, acts, faults} \subseteq Nat  BY <2>1, Numbers DEF JobsFit, OthersFit
  <2>3. \A j \in Jobs : /\ (job[j].lease = "none") <=> (job[j].status # "processing")
                        /\ job[j].gen <= MaxAttempts + faults
    BY <2>1 DEF JobsFit, Fit, Counted
  <2> QED  BY <2>1, <2>2, <2>3 DEF TypeOK, JobsFit, SummariesFit, OthersFit
<1> QED  BY <1>1, Invariant, PTL

(* Under the lock of all claims the jobs that hold a lease stay within the *)
(* slots, automatic ones leave the reserved slots, a user has one job      *)
(* processing; only a lease taken back late exceeds them (_poll_once).     *)
THEOREM SlotsAreKept == Spec => []SlotsKept
<1>1. IInv => SlotsKept
  BY DEF IInv, SlotsFit, SlotsKept, HoldingJobs, HoldingAutos, OnePerUser
<1> QED  BY <1>1, Invariant, PTL

(* No job brings back what a user deleted: the tombstones of _commit are   *)
(* about every turn completed before the deletion.                         *)
THEOREM DeletedStaysDeleted == Spec => []NotFromDeleted
<1>1. IInv => NotFromDeleted  BY DEF IInv, DeletionsFit, Kept, NotFromDeleted
<1> QED  BY <1>1, Invariant, PTL

(* The sources from a deleted thread are marked, but for the commits that  *)
(* had read the thread before (_commit reads it without a lock).           *)
THEOREM SourcesMarked == Spec => []DeletedSourcesMarked
<1>1. IInv => DeletedSourcesMarked
  BY DEF IInv, DeletionsFit, Kept, DeletedSourcesMarked
<1> QED  BY <1>1, Invariant, PTL

(* A summary is in conflict exactly while a review is pending              *)
(* (insert_review_and_mark_conflict, dismiss_review).                      *)
THEOREM ConflictMeansReview == Spec => []ConflictShown
<1>1. IInv => ConflictShown  BY DEF IInv, SummariesFit, Shown, ConflictShown
<1> QED  BY <1>1, Invariant, PTL

-----------------------------------------------------------------------------
(* The contract, and what it sees.                                         *)
OutcomeRow(status) ==
  CASE status = "absent" -> "none"
    [] status \in Open -> "open"
    [] status \in {"succeeded", "needs_review"} -> "written"
    [] OTHER -> "closed"
BasisRow(r) == [id |-> r.plan.id, version |-> r.plan.version]
TopicRow(s) == [live |-> s.live, id |-> s.id, version |-> s.version, sources |-> s.sources]

AboutOf == [j \in Jobs |-> Turn(j)]
BasisOf == [j \in Jobs |-> BasisRow(job[j])]
TopicOf == [u \in Users |-> TopicRow(summary[u])]
Asked == {t \in Turns : enqueued[t] # "none"}
OldOf == [u \in Users |-> buried[u].turns]
Nowhere == [id |-> 0, version |-> 0]

Follows == Contract!Next \/ UNCHANGED <<TopicOf, Asked, OldOf, AboutOf, Outcome, BasisOf>>

LEMMA OutcomeIs == Outcome = [j \in Jobs |-> OutcomeRow(job[j].status)]
BY DEF Outcome, OutcomeRow

LEMMA OutcomeNext == Outcome' = [j \in Jobs |-> OutcomeRow(job'[j].status)]
BY DEF Outcome, OutcomeRow

LEMMA Outcomes ==
  /\ OutcomeRow("absent") = "none"
  /\ \A status \in Open : OutcomeRow(status) = "open"
  /\ \A status \in Written : OutcomeRow(status) = "written"
  /\ \A status \in Ended : status \notin Written => OutcomeRow(status) = "closed"
BY DEF OutcomeRow, Open, Ended, Written

(* Job k looks the same, or as one that has ended and written nothing.     *)
Seen(k) ==
  /\ job'[k].turn = job[k].turn
  /\ OutcomeRow(job'[k].status) = OutcomeRow(job[k].status)
  /\ BasisRow(job'[k]) = BasisRow(job[k])

Closed(k) ==
  /\ job'[k].turn = job[k].turn /\ BasisRow(job'[k]) = Nowhere
  /\ OutcomeRow(job[k].status) = "open" /\ OutcomeRow(job'[k].status) = "closed"

LEMMA ToClose ==
  ASSUME UNCHANGED <<TopicOf, Asked, OldOf>>, \A k \in Jobs : Seen(k) \/ Closed(k)
  PROVE  Follows
<1> DEFINE some == {j \in Jobs : Outcome[j] = "open" /\ Outcome'[j] = "closed"}
<1>1. \A k \in Jobs : /\ Outcome[k] = OutcomeRow(job[k].status)
                      /\ Outcome'[k] = OutcomeRow(job'[k].status)
                      /\ BasisOf[k] = BasisRow(job[k])
                      /\ BasisOf'[k] = BasisRow(job'[k])
  BY OutcomeIs, OutcomeNext DEF BasisOf
<1>2. \A k \in Jobs : /\ k \in some => Closed(k)
                      /\ k \notin some => Seen(k)
  BY <1>1 DEF Seen, Closed
<1>3. Outcome' = [j \in Jobs |-> IF j \in some THEN "closed" ELSE Outcome[j]]
  <2>1. \A k \in Jobs : OutcomeRow(job'[k].status) = IF k \in some THEN "closed" ELSE Outcome[k]
    BY <1>1, <1>2 DEF Seen, Closed
  <2> HIDE DEF some
  <2> QED  BY <2>1, OutcomeNext
<1>4. BasisOf' = [j \in Jobs |-> IF j \in some THEN Nowhere ELSE BasisOf[j]]
  <2>1. \A k \in Jobs : BasisRow(job'[k]) = IF k \in some THEN Nowhere ELSE BasisOf[k]
    BY <1>1, <1>2 DEF Seen, Closed
  <2> HIDE DEF some
  <2> QED  BY <2>1 DEF BasisOf
<1>5. AboutOf' = AboutOf
  <2>1. \A k \in Jobs : Turn(k)' = Turn(k)  BY DEF Seen, Closed, Turn
  <2> QED  BY <2>1 DEF AboutOf
<1>6. Contract!Close
  BY <1>3, <1>4, <1>5
  DEF Contract!Close, Contract!Nowhere, AboutOf, BasisOf, BasisRow, TopicOf, TopicRow, Asked,
      OldOf, Nowhere
<1> QED  BY <1>6 DEF Follows, Contract!Next

LEMMA NoneSeen == ASSUME UNCHANGED <<TopicOf, Asked, OldOf>>, \A k \in Jobs : Seen(k) PROVE Follows
BY ToClose

(* One job changes.                                                        *)
LEMMA OneView ==
  ASSUME NEW j \in Jobs, \A k \in Jobs : k # j => Seen(k)
  PROVE  /\ AboutOf' = [AboutOf EXCEPT ![j] = job'[j].turn]
         /\ Outcome' = [Outcome EXCEPT ![j] = OutcomeRow(job'[j].status)]
         /\ BasisOf' = [BasisOf EXCEPT ![j] = BasisRow(job'[j])]
         /\ AboutOf[j] = Turn(j) /\ Outcome[j] = OutcomeRow(job[j].status)
         /\ BasisOf[j] = BasisRow(job[j])
<1> DEFINE t == job'[j].turn
           o == OutcomeRow(job'[j].status)
           b == BasisRow(job'[j])
<1>1. \A k \in Jobs : k # j => /\ Turn(k)' = Turn(k)
                               /\ OutcomeRow(job'[k].status) = OutcomeRow(job[k].status)
                               /\ BasisRow(job'[k]) = BasisRow(job[k])
  BY DEF Seen, Turn
<1>2. AboutOf' = [AboutOf EXCEPT ![j] = t]  BY <1>1 DEF AboutOf, Turn
<1>3. Outcome' = [Outcome EXCEPT ![j] = o]  BY <1>1, OutcomeIs, OutcomeNext
<1>4. BasisOf' = [BasisOf EXCEPT ![j] = b]  BY <1>1 DEF BasisOf
<1>5. AboutOf[j] = Turn(j) /\ BasisOf[j] = BasisRow(job[j])  BY DEF AboutOf, BasisOf
<1>6. Outcome[j] = OutcomeRow(job[j].status)  BY OutcomeIs
<1> QED  BY <1>2, <1>3, <1>4, <1>5, <1>6

LEMMA ToSubmit ==
  ASSUME UNCHANGED <<TopicOf, OldOf>>, NEW t \in Turns, Asked' = Asked \union {t},
         NEW j \in Jobs, \A k \in Jobs : k # j => Seen(k),
         OutcomeRow(job[j].status) = "none", OutcomeRow(job'[j].status) = "open",
         job'[j].turn = t, BasisRow(job'[j]) = BasisRow(job[j])
  PROVE  Follows
<1>1. /\ AboutOf' = [AboutOf EXCEPT ![j] = t] /\ Outcome' = [Outcome EXCEPT ![j] = "open"]
      /\ Outcome[j] = "none" /\ BasisOf' = [BasisOf EXCEPT ![j] = BasisOf[j]]
  BY OneView
<1>2. BasisOf' = BasisOf  BY <1>1 DEF BasisOf
<1>3. Contract!Submit(j, t)
  BY <1>1, <1>2
  DEF Contract!Submit, AboutOf, BasisOf, BasisRow, TopicOf, TopicRow, Asked, OldOf
<1> QED  BY <1>3 DEF Follows, Contract!Next

LEMMA ToAsk ==
  ASSUME UNCHANGED <<TopicOf, OldOf, job>>, NEW t \in Turns, Asked' = Asked \union {t}
  PROVE  Follows
<1>1. UNCHANGED <<AboutOf, BasisOf, Outcome>>  BY DEF AboutOf, BasisOf, Outcome, Turn
<1>2. Contract!Ask(t)
  BY <1>1 DEF Contract!Ask, AboutOf, BasisOf, BasisRow, TopicOf, TopicRow, Asked, OldOf
<1> QED  BY <1>1, <1>2 DEF Follows, Contract!Next

(* The state a plan is made from.                                          *)
LEMMA CurrentIs ==
  ASSUME SummariesFit, NEW u \in Users
  PROVE  Contract!Current(u) = [id |-> Found(u).id, version |-> Found(u).version]
<1>1. Contract!Current(u) = IF summary[u].live
                            THEN [id |-> summary[u].id, version |-> summary[u].version]
                            ELSE Nowhere
  BY DEF Contract!Current, Contract!Nowhere, Nowhere
<1> QED  BY <1>1, FoundIs DEF Nowhere

LEMMA ReaderIs ==
  ASSUME JobsFit, NEW j \in Jobs
  PROVE  /\ [t \in Turns |-> UserOf(t)][AboutOf[j]] = User(j)
         /\ Turn(j) \in Turns /\ User(j) \in Users
BY Places DEF JobsFit, JobRow, AboutOf, Turn, User

LEMMA ToPlanned ==
  ASSUME JobsFit, SummariesFit, UNCHANGED <<TopicOf, Asked, OldOf>>,
         NEW j \in Jobs, \A k \in Jobs : k # j => Seen(k), job'[j].turn = job[j].turn,
         OutcomeRow(job[j].status) = "open", OutcomeRow(job'[j].status) = "open",
         BasisRow(job'[j]) \in {Nowhere, Contract!Current(User(j))}
  PROVE  Follows
<1> DEFINE b == BasisRow(job'[j])
<1>1. /\ AboutOf' = [AboutOf EXCEPT ![j] = AboutOf[j]]
      /\ Outcome' = [Outcome EXCEPT ![j] = Outcome[j]]
      /\ Outcome[j] = "open" /\ BasisOf' = [BasisOf EXCEPT ![j] = b]
  BY OneView DEF Turn
<1>2. AboutOf' = AboutOf /\ Outcome' = Outcome  BY <1>1, OutcomeIs DEF AboutOf
<1>3. b \in {Contract!Nowhere, Contract!Current([t \in Turns |-> UserOf(t)][AboutOf[j]])}
  BY ReaderIs DEF Contract!Nowhere, Nowhere
<1> HIDE DEF b
<1>4. Contract!Planned(j)
  BY <1>1, <1>2, <1>3
  DEF Contract!Planned, AboutOf, BasisOf, BasisRow, TopicOf, TopicRow, Asked, OldOf
<1> QED  BY <1>4 DEF Follows, Contract!Next

(* The topic of one user changes.                                          *)
LEMMA OneTopic ==
  ASSUME SummariesFit, NEW u \in Users, summary' = [summary EXCEPT ![u] = summary'[u]]
  PROVE  /\ TopicOf' = [TopicOf EXCEPT ![u] = TopicRow(summary'[u])]
         /\ TopicOf[u] = TopicRow(summary[u])
<1> DEFINE r == TopicRow(summary'[u])
<1>1. \A v \in Users : v # u => summary'[v] = summary[v]  BY OneSummary
<1>2. TopicOf' = [TopicOf EXCEPT ![u] = r]  BY <1>1 DEF TopicOf
<1> QED  BY <1>2 DEF TopicOf

Grown(r, t) == [r EXCEPT !.version = r.version + 1, !.sources = r.sources \union {t}]
Fresh(r, t) == [live |-> TRUE, id |-> r.id + 1, version |-> 1, sources |-> {t}]

LEMMA ToWrite ==
  ASSUME JobsFit, SummariesFit, UNCHANGED <<Asked, OldOf>>,
         NEW j \in Jobs, \A k \in Jobs : k # j => Seen(k), job'[j].turn = job[j].turn,
         OutcomeRow(job[j].status) = "open", OutcomeRow(job'[j].status) = "written",
         BasisRow(job'[j]) = Nowhere, BasisRow(job[j]) = Contract!Current(User(j)),
         Turn(j) \notin buried[User(j)].turns,
         summary' = [summary EXCEPT ![User(j)] = summary'[User(j)]],
         TopicRow(summary'[User(j)]) =
           IF TopicRow(summary[User(j)]).live THEN Grown(TopicRow(summary[User(j)]), Turn(j))
           ELSE Fresh(TopicRow(summary[User(j)]), Turn(j))
  PROVE  Follows
<1> DEFINE u == User(j)
<1>1. /\ AboutOf' = [AboutOf EXCEPT ![j] = AboutOf[j]]
      /\ Outcome' = [Outcome EXCEPT ![j] = "written"] /\ Outcome[j] = "open"
      /\ BasisOf' = [BasisOf EXCEPT ![j] = Nowhere] /\ BasisOf[j] = Contract!Current(u)
      /\ AboutOf[j] = Turn(j)
  BY OneView DEF Turn
<1>2. AboutOf' = AboutOf  BY <1>1 DEF AboutOf
<1>3. u \in Users /\ u = [t \in Turns |-> UserOf(t)][AboutOf[j]]  BY ReaderIs
<1>4. OldOf[u] = buried[u].turns  BY <1>3 DEF OldOf
<1>5. /\ TopicOf' = [TopicOf EXCEPT ![u] = TopicRow(summary'[u])]
      /\ TopicOf[u] = TopicRow(summary[u])
  BY <1>3, OneTopic
<1>6. TopicOf' = [TopicOf EXCEPT ![u] = IF TopicOf[u].live THEN Grown(TopicOf[u], AboutOf[j])
                                        ELSE Fresh(TopicOf[u], AboutOf[j])]
  BY <1>1, <1>5
<1>7. Turn(j) \notin OldOf[u]  BY <1>4
<1> HIDE DEF u
<1> DEFINE v == [t \in Turns |-> UserOf(t)][AboutOf[j]]
<1>8. TopicOf' = [TopicOf EXCEPT ![v] =
        IF TopicOf[v].live
        THEN [TopicOf[v] EXCEPT !.version = @ + 1, !.sources = @ \union {AboutOf[j]}]
        ELSE [live |-> TRUE, id |-> TopicOf[v].id + 1, version |-> 1, sources |-> {AboutOf[j]}]]
  <2>1. u = v  BY <1>3
  <2> HIDE DEF v
  <2> QED  BY <1>6, <2>1, Zenon DEF Grown, Fresh
<1>9. /\ Outcome[j] = "open" /\ AboutOf[j] \notin OldOf[v]
      /\ Outcome' = [Outcome EXCEPT ![j] = "written"]
      /\ BasisOf[j] = Contract!Current(v) /\ BasisOf' = [BasisOf EXCEPT ![j] = Nowhere]
      /\ UNCHANGED <<Asked, OldOf, AboutOf>>
  BY <1>1, <1>2, <1>3, <1>7
<1>10. Contract!Write(j)
  BY <1>8, <1>9
  DEF Contract!Write, Contract!Nowhere, AboutOf, BasisOf, BasisRow, TopicOf, TopicRow, Asked,
      OldOf, Nowhere
<1> QED  BY <1>10 DEF Follows, Contract!Next

LEMMA ToFlag ==
  ASSUME JobsFit, SummariesFit, UNCHANGED <<Asked, OldOf>>,
         NEW j \in Jobs, \A k \in Jobs : k # j => Seen(k), job'[j].turn = job[j].turn,
         OutcomeRow(job[j].status) = "open", OutcomeRow(job'[j].status) = "written",
         BasisRow(job'[j]) = Nowhere, summary[User(j)].live,
         BasisRow(job[j]).id = summary[User(j)].id,
         summary' = [summary EXCEPT ![User(j)] = summary'[User(j)]],
         TopicRow(summary'[User(j)]) = [TopicRow(summary[User(j)]) EXCEPT !.version = @ + 1]
  PROVE  Follows
<1> DEFINE u == User(j)
<1>1. /\ AboutOf' = [AboutOf EXCEPT ![j] = AboutOf[j]]
      /\ Outcome' = [Outcome EXCEPT ![j] = "written"] /\ Outcome[j] = "open"
      /\ BasisOf' = [BasisOf EXCEPT ![j] = Nowhere] /\ BasisOf[j] = BasisRow(job[j])
      /\ AboutOf[j] = Turn(j)
  BY OneView DEF Turn
<1>2. AboutOf' = AboutOf  BY <1>1 DEF AboutOf
<1>3. u \in Users /\ u = [t \in Turns |-> UserOf(t)][AboutOf[j]]  BY ReaderIs
<1>4. /\ TopicOf' = [TopicOf EXCEPT ![u] = TopicRow(summary'[u])]
      /\ TopicOf[u] = TopicRow(summary[u])
  BY <1>3, OneTopic
<1>5. TopicOf' = [TopicOf EXCEPT ![u].version = @ + 1]  BY <1>4
<1>6. TopicOf[u].live /\ BasisOf[j].id = TopicOf[u].id  BY <1>1, <1>4 DEF TopicRow
<1> HIDE DEF u
<1>7. Contract!Flag(j)
  BY <1>1, <1>2, <1>3, <1>5, <1>6
  DEF Contract!Flag, Contract!Nowhere, AboutOf, BasisOf, BasisRow, TopicOf, TopicRow, Asked,
      OldOf, Nowhere
<1> QED  BY <1>7 DEF Follows, Contract!Next

LEMMA ToEdit ==
  ASSUME SummariesFit, UNCHANGED <<Asked, OldOf, job>>, NEW u \in Users, summary[u].live,
         summary' = [summary EXCEPT ![u] = summary'[u]],
         TopicRow(summary'[u]) = [TopicRow(summary[u]) EXCEPT !.version = @ + 1]
  PROVE  Follows
<1>1. UNCHANGED <<AboutOf, BasisOf, Outcome>>  BY DEF AboutOf, BasisOf, Outcome, Turn
<1>2. /\ TopicOf' = [TopicOf EXCEPT ![u] = TopicRow(summary'[u])]
      /\ TopicOf[u] = TopicRow(summary[u])
  BY OneTopic
<1>3. TopicOf' = [TopicOf EXCEPT ![u].version = @ + 1]  BY <1>2
<1>4. TopicOf[u].live  BY <1>2 DEF TopicRow
<1>5. Contract!Edit(u)
  BY <1>1, <1>3, <1>4
  DEF Contract!Edit, AboutOf, BasisOf, BasisRow, TopicOf, TopicRow, Asked, OldOf
<1> QED  BY <1>5 DEF Follows, Contract!Next

LEMMA ToDelete ==
  ASSUME SummariesFit, UNCHANGED <<Asked, job>>, NEW u \in Users, summary[u].live,
         summary' = [summary EXCEPT ![u] = summary'[u]],
         TopicRow(summary'[u]) = [live |-> FALSE, id |-> TopicRow(summary[u]).id,
                                  version |-> 0, sources |-> {}],
         OldOf' = [OldOf EXCEPT ![u] = {t \in Asked : [s \in Turns |-> UserOf(s)][t] = u}]
  PROVE  Follows
<1>1. UNCHANGED <<AboutOf, BasisOf, Outcome>>  BY DEF AboutOf, BasisOf, Outcome, Turn
<1>2. /\ TopicOf' = [TopicOf EXCEPT ![u] = TopicRow(summary'[u])]
      /\ TopicOf[u] = TopicRow(summary[u])
  BY OneTopic
<1>3. TopicOf' = [TopicOf EXCEPT ![u] =
                    [live |-> FALSE, id |-> @.id, version |-> 0, sources |-> {}]]
  BY <1>2
<1>4. TopicOf[u].live  BY <1>2 DEF TopicRow
<1>5. Contract!Delete(u)
  BY <1>1, <1>3, <1>4
  DEF Contract!Delete, AboutOf, BasisOf, BasisRow, TopicOf, TopicRow, Asked, OldOf
<1> QED  BY <1>5 DEF Follows, Contract!Next

(* What is seen of the steps of a job.                                     *)
LEMMA SameSeen ==
  ASSUME NEW k \in Jobs
  PROVE  /\ job'[k] = job[k] => Seen(k)
         /\ Still(k) => Seen(k)
         /\ Taken(k) => Seen(k)
         /\ \A lease \in {"live", "expired"} : Leased(k, lease) => Seen(k)
<1>1. job'[k] = job[k] => Seen(k)  BY DEF Seen
<1>2. Still(k) => Seen(k)  BY <1>1 DEF Still
<1>3. ASSUME Taken(k) PROVE Seen(k)
  <2>1. job[k].status \in Open /\ job'[k].status \in Open  BY <1>3 DEF Taken, Open
  <2> QED  BY <1>3, <2>1, Outcomes DEF Seen, Taken, Keeps, BasisRow
<1>4. ASSUME NEW lease \in {"live", "expired"}, Leased(k, lease) PROVE Seen(k)
  BY <1>4 DEF Leased, Keeps, Seen, BasisRow
<1> QED  BY <1>1, <1>2, <1>3, <1>4

LEMMA NowhereIs == ASSUME NEW r, r.plan = NoPlan PROVE BasisRow(r) = Nowhere
BY NoJobType DEF BasisRow, Nowhere

LEMMA DroppedClosed == ASSUME NEW k \in Jobs, Dropped(k) PROVE Closed(k)
<1>1. job[k].status \in Open /\ job'[k].status \in Ended /\ job'[k].status \notin Written
  BY DEF Dropped, Open, Ended, Written
<1> QED  BY <1>1, Outcomes, NowhereIs DEF Dropped, Keeps, Closed

LEMMA FreedIs ==
  ASSUME NEW k \in Jobs, NEW g \in Generations, Freed(k, g)
  PROVE  /\ job'[k].turn = job[k].turn /\ OutcomeRow(job[k].status) = "open"
         /\ job'[k].status \in Written =>
              OutcomeRow(job'[k].status) = "written" /\ BasisRow(job'[k]) = Nowhere
         /\ job'[k].status \in Ended \ Written => Closed(k)
         /\ job'[k].status \notin Ended =>
              /\ OutcomeRow(job'[k].status) = "open"
              /\ BasisRow(job'[k]) = Nowhere \/ Seen(k)
<1>1. job'[k].turn = job[k].turn  BY DEF Freed, Keeps
<1>2. job[k].status \in Open  BY DEF Freed, Fenced, Open
<1>3. job'[k].status \in Written =>
        OutcomeRow(job'[k].status) = "written" /\ BasisRow(job'[k]) = Nowhere
  <2>1. job'[k].status \in Written => job'[k].plan = NoPlan  BY DEF Freed, Written
  <2> QED  BY <2>1, Outcomes, NowhereIs
<1>4. job'[k].status \in Ended \ Written => Closed(k)
  <2>1. job'[k].status \in Ended => job'[k].plan = NoPlan  BY DEF Freed, Ended
  <2> QED  BY <1>1, <1>2, <2>1, Outcomes, NowhereIs DEF Closed
<1>5. ASSUME job'[k].status \notin Ended
      PROVE  /\ OutcomeRow(job'[k].status) = "open"
             /\ BasisRow(job'[k]) = Nowhere \/ Seen(k)
  <2>1. job'[k].status \in Open /\ job'[k].plan \in {job[k].plan, NoPlan}
    BY <1>5 DEF Freed, Open
  <2>2. OutcomeRow(job'[k].status) = "open" /\ OutcomeRow(job[k].status) = "open"
    BY <1>2, <2>1, Outcomes
  <2>3. CASE job'[k].plan = NoPlan  BY <2>2, <2>3, NowhereIs
  <2>4. CASE job'[k].plan = job[k].plan  BY <1>1, <2>2, <2>4 DEF Seen, BasisRow
  <2> QED  BY <2>1, <2>3, <2>4
<1> QED  BY <1>1, <1>2, <1>3, <1>4, <1>5, Outcomes

LEMMA OthersSeen == ASSUME NEW j \in Jobs, Only(j) PROVE \A k \in Jobs : k # j => Seen(k)
BY SameSeen DEF Only

LEMMA QuitsFollow ==
  ASSUME JobsFit, SummariesFit, UNCHANGED <<TopicOf, Asked, OldOf>>,
         NEW j \in Jobs, NEW g \in Generations, Quits(j, g)
  PROVE  Follows
<1>1. \A k \in Jobs : k # j => Seen(k)  BY OthersSeen DEF Quits
<1>2. CASE Left(j, g)
  <2>1. Seen(j)  BY <1>2, SameSeen DEF Left
  <2> QED  BY <1>1, <2>1, NoneSeen
<1>3. CASE Freed(j, g) /\ job'[j].status \in Ended \ Written
  BY <1>1, <1>3, FreedIs, ToClose
<1>4. CASE Freed(j, g) /\ job'[j].status \notin Ended
  <2>1. /\ job'[j].turn = job[j].turn /\ OutcomeRow(job[j].status) = "open"
        /\ OutcomeRow(job'[j].status) = "open"
        /\ BasisRow(job'[j]) = Nowhere \/ Seen(j)
    BY <1>4, FreedIs
  <2>2. CASE Seen(j)  BY <1>1, <2>2, NoneSeen
  <2>3. CASE BasisRow(job'[j]) = Nowhere
    <3>1. BasisRow(job'[j]) \in {Nowhere, Contract!Current(User(j))}  BY <2>3
    <3> QED  BY <1>1, <2>1, <3>1, ToPlanned
  <2> QED  BY <2>1, <2>2, <2>3
<1> QED  BY <1>2, <1>3, <1>4 DEF Quits

LEMMA SameTopics ==
  ASSUME UNCHANGED <<summary, buried, enqueued>>
  PROVE  UNCHANGED <<TopicOf, Asked, OldOf>>
BY DEF TopicOf, Asked, OldOf

(* The steps of an execution, in the contract.                             *)
LEMMA MakePlanFollows ==
  ASSUME JobsFit, SummariesFit, NEW j \in Jobs, NEW g \in Generations, MakePlan(j, g)
  PROVE  Follows
<1>1. UNCHANGED <<TopicOf, Asked, OldOf>>
  BY SameTopics DEF MakePlan, Rest, userVars
<1>2. Only(j) /\ \A k \in Jobs : k # j => Seen(k)  BY MakePlanIs, OthersSeen
<1>3. CASE Left(j, g)
  <2>1. Quits(j, g)  BY <1>2, <1>3 DEF Quits
  <2> QED  BY <1>1, <2>1, QuitsFollow
<1>4. CASE /\ Plans(j, g) /\ job'[j].plan.id = Found(User(j)).id
           /\ job'[j].plan.version = Found(User(j)).version
  <2>1. job[j].status \in Open /\ job'[j].status \in Open /\ job'[j].turn = job[j].turn
    BY <1>4 DEF Plans, Fenced, Keeps, Open
  <2>2. BasisRow(job'[j]) = Contract!Current(User(j))
    BY <1>4, ReaderIs, CurrentIs DEF BasisRow
  <2>3. BasisRow(job'[j]) \in {Nowhere, Contract!Current(User(j))}  BY <2>2
  <2> QED  BY <1>1, <1>2, <2>1, <2>3, Outcomes, ToPlanned
<1> QED  BY <1>3, <1>4, MakePlanIs

LEMMA ReadsFollow ==
  ASSUME JobsFit, SummariesFit, NEW j \in Jobs, NEW g \in Generations,
         EndsEarly(j, g) \/ ReusePlan(j, g) \/ BeginCommit(j, g)
  PROVE  Follows
<1>1. UNCHANGED <<TopicOf, Asked, OldOf>>
  BY SameTopics DEF EndsEarly, ReusePlan, BeginCommit, Rest, userVars
<1>2. Quits(j, g) \/ (Only(j) /\ job'[j] = job[j])
  BY EndsEarlyIs, ReusePlanIs, BeginCommitIs DEF Commits
<1>3. CASE Quits(j, g)  BY <1>1, <1>3, QuitsFollow
<1>4. CASE Only(j) /\ job'[j] = job[j]
  BY <1>1, <1>4, OthersSeen, SameSeen, NoneSeen
<1> QED  BY <1>2, <1>3, <1>4

Topics == [live : BOOLEAN, id : Nat, version : Nat, sources : SUBSET Turns]

LEMMA GrownIs ==
  ASSUME NEW x \in Topics, NEW t \in Turns
  PROVE  Grown(x, t) = [live |-> x.live, id |-> x.id, version |-> x.version + 1,
                        sources |-> x.sources \union {t}]
<1> DEFINE y == [x EXCEPT !.version = x.version + 1, !.sources = x.sources \union {t}]
<1>0. x.version + 1 \in Nat /\ x.sources \union {t} \in SUBSET Turns  BY DEF Topics
<1>1. /\ y \in Topics /\ y.live = x.live /\ y.id = x.id /\ y.version = x.version + 1
      /\ y.sources = x.sources \union {t}
  BY <1>0 DEF Topics
<1>2. Grown(x, t) = y  BY DEF Grown
<1> HIDE DEF y
<1>3. y = [live |-> x.live, id |-> x.id, version |-> x.version + 1,
           sources |-> x.sources \union {t}]
  BY <1>1 DEF Topics
<1> QED  BY <1>2, <1>3

LEMMA TopicRows ==
  ASSUME NEW s \in SummaryRow, NEW r \in SummaryRow, r.live
  PROVE  /\ TopicRow(s).live = s.live /\ TopicRow(s).id = s.id
         /\ \A t \in Turns : ~s.live /\ r.id = s.id + 1 /\ r.version = 1 /\ r.sources = {t} =>
              TopicRow(r) = Fresh(TopicRow(s), t)
         /\ \A t \in Turns : s.live /\ r.id = s.id /\ r.version = s.version + 1
                     /\ r.sources = s.sources \union {t} =>
              TopicRow(r) = Grown(TopicRow(s), t)
         /\ s.live /\ r.id = s.id /\ r.version = s.version + 1 /\ r.sources = s.sources =>
              TopicRow(r) = [TopicRow(s) EXCEPT !.version = @ + 1]
<1>1. r.live = TRUE /\ s.live \in BOOLEAN  BY DEF SummaryRow
<1>2. s.live => s.live = TRUE  BY <1>1
<1>3. TopicRow(s).live = s.live /\ TopicRow(s).id = s.id  BY DEF TopicRow
<1>4. ASSUME NEW t \in Turns, r.id = s.id + 1, r.version = 1, r.sources = {t}
      PROVE  TopicRow(r) = Fresh(TopicRow(s), t)
  BY <1>1, <1>4 DEF TopicRow, Fresh
<1>5. ASSUME NEW t \in Turns, s.live, r.id = s.id, r.version = s.version + 1,
             r.sources = s.sources \union {t}
      PROVE  TopicRow(r) = Grown(TopicRow(s), t)
  <2>1. r.live = s.live  BY <1>1, <1>2, <1>5
  <2> DEFINE x == TopicRow(s)
             y == Grown(x, t)
  <2>2. /\ x \in Topics /\ x.live = s.live /\ x.id = s.id /\ x.version = s.version
        /\ x.sources = s.sources
    BY DEF TopicRow, SummaryRow, Topics
  <2> HIDE DEF x
  <2>4. y = [live |-> s.live, id |-> s.id, version |-> s.version + 1,
             sources |-> s.sources \union {t}]
    BY <2>2, GrownIs
  <2>3. TopicRow(r) = [live |-> s.live, id |-> s.id, version |-> s.version + 1,
                       sources |-> s.sources \union {t}]
    BY <1>5, <2>1, Zenon DEF TopicRow
  <2> QED  BY <2>3, <2>4 DEF x
<1>6. ASSUME s.live, r.id = s.id, r.version = s.version + 1, r.sources = s.sources
      PROVE  TopicRow(r) = [TopicRow(s) EXCEPT !.version = @ + 1]
  <2>1. r.live = s.live  BY <1>1, <1>2, <1>6
  <2>2. [TopicRow(s) EXCEPT !.version = @ + 1]
          = [live |-> s.live, id |-> s.id, version |-> s.version + 1, sources |-> s.sources]
    BY DEF TopicRow
  <2>3. TopicRow(r) = [live |-> s.live, id |-> s.id, version |-> s.version + 1,
                       sources |-> s.sources]
    BY <1>6, <2>1, Zenon DEF TopicRow
  <2> QED  BY <2>2, <2>3
<1> QED  BY <1>3, <1>4, <1>5, <1>6

LEMMA CommitFollows ==
  ASSUME JobsFit, SummariesFit, NEW j \in Jobs, NEW g \in Generations, FreshFits(j),
         CommitWrites(j, g)
  PROVE  Follows
<1>1. UNCHANGED <<buried, enqueued>>  BY DEF CommitWrites, userVars
<1>2. UNCHANGED <<Asked, OldOf>>  BY <1>1 DEF Asked, OldOf
<1>3. CASE Quits(j, g) /\ UNCHANGED summary
  BY <1>1, <1>3, SameTopics, QuitsFollow
<1>4. CASE Writes(j, g)
  <2> DEFINE u == User(j)
             s == summary[User(j)]
             r == summary'[User(j)]
             plan == job[j].plan
  <2>1. /\ u \in Users /\ Turn(j) \in Turns /\ exec[j][g] = "commit" /\ Fenced(j, g)
        /\ summary' = [summary EXCEPT ![u] = r]
        /\ plan.kind \in {"create", "merge", "review"} /\ PlanFits(plan)
        /\ r \in SummaryRow /\ r.live
        /\ plan.kind \in {"create", "merge"} => Turn(j) \notin buried[u].turns
        /\ plan.kind = "create" => r.id = s.id + 1 /\ r.version = 1 /\ r.sources = {Turn(j)}
        /\ plan.kind # "create" =>
             s.live /\ s.id = plan.id /\ r.id = s.id /\ r.version = s.version + 1
        /\ plan.kind = "merge" =>
             s.version = plan.version /\ r.sources = s.sources \union {Turn(j)}
        /\ plan.kind = "review" => r.sources = s.sources
    BY <1>4, WritesIs
  <2>2. s \in SummaryRow  BY <2>1 DEF SummariesFit
  <2>3. /\ \A k \in Jobs : k # j => Seen(k)
        /\ job'[j].turn = job[j].turn /\ OutcomeRow(job[j].status) = "open"
        /\ OutcomeRow(job'[j].status) = "written" /\ BasisRow(job'[j]) = Nowhere
    BY <1>4, OthersSeen, FreedIs DEF Writes
  <2>4. BasisRow(job[j]) = [id |-> plan.id, version |-> plan.version]  BY DEF BasisRow
  <2>5. plan.kind = "create" => ~s.live  BY <2>1 DEF FreshFits
  <2>6. Contract!Current(u) = [id |-> Found(u).id, version |-> Found(u).version]
    BY <2>1, CurrentIs
  <2>7. /\ s.live => Found(u).id = s.id /\ Found(u).version = s.version
        /\ ~s.live => Found(u).id = 0 /\ Found(u).version = 0
    BY <2>1, FoundIs
  <2>8. summary' = [summary EXCEPT ![User(j)] = summary'[User(j)]]  BY <2>1
  <2>9. CASE plan.kind = "create"
    <3>1. BasisRow(job[j]) = Contract!Current(User(j))
      BY <2>1, <2>4, <2>5, <2>6, <2>7, <2>9 DEF PlanFits
    <3>2. TopicRow(r) = Fresh(TopicRow(s), Turn(j)) /\ ~TopicRow(s).live
      BY <2>1, <2>2, <2>5, <2>9, TopicRows
    <3> QED  BY <1>2, <2>1, <2>3, <2>8, <2>9, <3>1, <3>2, ToWrite
  <2>10. CASE plan.kind = "merge"
    <3>1. BasisRow(job[j]) = Contract!Current(User(j))
      BY <2>1, <2>4, <2>6, <2>7, <2>10
    <3>2. TopicRow(r) = Grown(TopicRow(s), Turn(j)) /\ TopicRow(s).live
      BY <2>1, <2>2, <2>10, TopicRows
    <3> QED  BY <1>2, <2>1, <2>3, <2>8, <2>10, <3>1, <3>2, ToWrite
  <2>11. CASE plan.kind = "review"
    <3>1. TopicRow(r) = [TopicRow(s) EXCEPT !.version = @ + 1]
      BY <2>1, <2>2, <2>11, TopicRows
    <3>2. BasisRow(job[j]).id = summary[User(j)].id /\ summary[User(j)].live
      BY <2>1, <2>4, <2>11
    <3> QED  BY <1>2, <2>3, <2>8, <3>1, <3>2, ToFlag
  <2> QED  BY <2>1, <2>9, <2>10, <2>11
<1> QED  BY <1>3, <1>4, CommitWritesIs

(* The steps of users and threads, and of the jobs' beginning.             *)
LEMMA BirthFollows ==
  ASSUME JobsFit, NEW t \in Turns, NEW trigger \in {"auto"} \union Manual,
         NewJob(t, trigger), UNCHANGED <<exec, summary, buried>>, Asked' = Asked \union {t}
  PROVE  Follows
<1>1. PICK j \in Jobs : Only(j) /\ Born(j) /\ job'[j].turn = t  BY NewJobIs
<1>2. UNCHANGED <<TopicOf, OldOf>>  BY DEF TopicOf, OldOf
<1>3. job[j].status = "absent" /\ job[j] = NoJob
  BY <1>1 DEF Born, JobsFit, Fit, Counted
<1>4. BasisRow(job[j]) = Nowhere /\ BasisRow(job'[j]) = Nowhere
  BY <1>1, <1>3, NoJobType, NowhereIs DEF Born
<1>5. OutcomeRow(job[j].status) = "none" /\ OutcomeRow(job'[j].status) = "open"
  BY <1>1, <1>3, Outcomes DEF Born, Open
<1>6. \A k \in Jobs : k # j => Seen(k)  BY <1>1, OthersSeen
<1> QED  BY <1>1, <1>2, <1>4, <1>5, <1>6, ToSubmit

LEMMA TurnsFollow ==
  ASSUME IInv, NEW t \in Turns, CompleteTurn(t) \/ RepairEnqueue(t) \/ RequestGeneration(t)
  PROVE  Follows
<1>0. /\ JobsFit /\ enqueued \in [Turns -> {"none", "not_requested", "enqueued",
                                            "enqueue_failed"}]
      /\ "auto" \in {"auto"} \union Manual
  BY DEF IInv, OthersFit
<1>1. UNCHANGED <<exec, summary, buried>>
  BY DEF CompleteTurn, RepairEnqueue, RequestGeneration
<1>2. Asked' = Asked \union {t}
  <2>1. CASE \E status \in {"not_requested", "enqueued", "enqueue_failed"} :
               enqueued' = [enqueued EXCEPT ![t] = status]
    BY <1>0, <2>1 DEF Asked
  <2>2. CASE UNCHANGED enqueued /\ enqueued[t] # "none"  BY <2>2 DEF Asked
  <2> QED  BY <2>1, <2>2 DEF CompleteTurn, RepairEnqueue, RequestGeneration, userVars
<1>3. CASE UNCHANGED job
  <2>1. UNCHANGED <<TopicOf, OldOf>>  BY <1>1 DEF TopicOf, OldOf
  <2> QED  BY <1>2, <1>3, <2>1, ToAsk
<1>4. ASSUME NEW trigger \in {"auto"} \union Manual, NewJob(t, trigger) PROVE Follows
  BY <1>0, <1>1, <1>2, <1>4, BirthFollows
<1>5. UNCHANGED job \/ \E trigger \in {"auto"} \union Manual : NewJob(t, trigger)
  <2>1. CASE CompleteTurn(t) \/ RepairEnqueue(t)
    BY <1>0, <2>1 DEF CompleteTurn, RepairEnqueue
  <2>2. CASE RequestGeneration(t)
    BY <2>2 DEF RequestGeneration, TriggerFor, Manual
  <2> QED  BY <2>1, <2>2
<1> QED  BY <1>3, <1>4, <1>5

LEMMA UsersFollow ==
  ASSUME IInv, NEW u \in Users,
         \/ EditSummary(u) \/ DeleteSummary(u)
         \/ \E j \in summary[u].reviews : DismissReview(u, j)
  PROVE  Follows
<1>0. JobsFit /\ SummariesFit /\ summary[u] \in SummaryRow  BY DEF IInv, SummariesFit
<1>1. UNCHANGED job /\ Asked' = Asked
  BY DEF EditSummary, DeleteSummary, DismissReview, userVars, Asked
<1>2. ASSUME buried' = buried, summary' = [summary EXCEPT ![u] = summary'[u]],
             summary[u].live, summary'[u] \in SummaryRow, summary'[u].live,
             summary'[u].id = summary[u].id, summary'[u].sources = summary[u].sources,
             summary'[u].version \in {summary[u].version, summary[u].version + 1}
      PROVE  Follows
  <2> DEFINE r == summary'[u]
  <2>1. OldOf' = OldOf  BY <1>2 DEF OldOf
  <2>2. CASE r.version = summary[u].version + 1
    <3>1. TopicRow(r) = [TopicRow(summary[u]) EXCEPT !.version = @ + 1]
      BY <1>0, <1>2, <2>2, TopicRows
    <3> QED  BY <1>0, <1>1, <1>2, <2>1, <3>1, ToEdit
  <2>3. CASE r.version = summary[u].version
    <3>1. r.live = summary[u].live  BY <1>0, <1>2 DEF SummaryRow
    <3>2. TopicRow(r) = TopicRow(summary[u])  BY <1>2, <2>3, <3>1 DEF TopicRow
    <3>3. TopicOf' = [TopicOf EXCEPT ![u] = TopicRow(r)] /\ TopicOf[u] = TopicRow(summary[u])
      BY <1>0, <1>2, OneTopic
    <3>4. TopicOf' = TopicOf  BY <3>2, <3>3 DEF TopicOf
    <3>5. \A k \in Jobs : Seen(k)  BY <1>1, SameSeen
    <3> QED  BY <1>1, <2>1, <3>4, <3>5, NoneSeen
  <2> QED  BY <1>2, <2>2, <2>3
<1>3. CASE EditSummary(u)
  <2> DEFINE r == summary'[u]
  <2>1. /\ buried' = buried /\ summary' = [summary EXCEPT ![u] = r] /\ summary[u].live
        /\ r \in SummaryRow /\ r.live /\ r.id = summary[u].id
        /\ r.version = summary[u].version + 1 /\ r.sources = summary[u].sources
    BY <1>0, <1>3, EditedIs
  <2> QED  BY <1>2, <2>1
<1>4. ASSUME NEW j \in summary[u].reviews, DismissReview(u, j) PROVE Follows
  <2> DEFINE r == summary'[u]
  <2>1. /\ buried' = buried /\ summary' = [summary EXCEPT ![u] = r] /\ summary[u].live
        /\ r \in SummaryRow /\ r.live /\ r.id = summary[u].id
        /\ r.version \in {summary[u].version, summary[u].version + 1}
        /\ r.sources = summary[u].sources
    BY <1>0, <1>4, DismissedIs
  <2> QED  BY <1>2, <2>1
<1>5. CASE DeleteSummary(u)
  <2> DEFINE r == summary'[u]
             old == buried'[u]
  <2>1. /\ summary' = [summary EXCEPT ![u] = r] /\ summary[u].live
        /\ r \in SummaryRow /\ ~r.live /\ r.id = summary[u].id /\ r.version = 0
        /\ r.sources = {} /\ buried' = [buried EXCEPT ![u] = old]
        /\ old.turns = Completed(u)
    BY <1>0, <1>5, DeletedIs
  <2>2. r.live = FALSE  BY <2>1 DEF SummaryRow
  <2>3. TopicRow(r) = [live |-> FALSE, id |-> TopicRow(summary[u]).id, version |-> 0,
                       sources |-> {}]
    BY <2>1, <2>2 DEF TopicRow
  <2>4. {t \in Asked : [s \in Turns |-> UserOf(s)][t] = u} = Completed(u)
    BY DEF Asked, Completed
  <2>5. OldOf' = [OldOf EXCEPT ![u] = Completed(u)]
    <3> HIDE DEF old
    <3> QED  BY <1>0, <2>1 DEF OldOf, SummariesFit
  <2>6. summary' = [summary EXCEPT ![u] = summary'[u]]  BY <2>1
  <2> QED  BY <1>0, <1>1, <2>1, <2>3, <2>4, <2>5, <2>6, ToDelete
<1> QED  BY <1>3, <1>4, <1>5

LEMMA StepContract == IInv /\ [Next]_vars => Follows
<1> SUFFICES ASSUME IInv, [Next]_vars PROVE Follows  OBVIOUS
<1>0. JobsFit /\ SummariesFit /\ (\A j \in Jobs : FreshFits(j))  BY DEF IInv
<1>a. ASSUME UNCHANGED <<job, summary, buried, enqueued>> PROVE Follows
  <2>1. \A k \in Jobs : Seen(k)  BY <1>a, SameSeen
  <2> QED  BY <1>a, <2>1, SameTopics, NoneSeen
<1>1. CASE UNCHANGED vars  BY <1>1, <1>a DEF vars, userVars
<1>2. CASE Poll
  <2>1. PICK waiting : ClaimJobs(Claimed(waiting))  BY <1>2 DEF Poll
  <2>2. \A k \in Jobs : Seen(k)  BY <1>0, <2>1, PollIs, SameSeen
  <2>3. UNCHANGED <<summary, buried, enqueued>>  BY <2>1 DEF ClaimJobs, userVars
  <2> QED  BY <2>2, <2>3, SameTopics, NoneSeen
<1>3. ASSUME NEW j \in Created, NEW g \in 1..job[j].gen, Execute(j, g) \/ Disturbed(j, g)
      PROVE  Follows
  <2>1. j \in Jobs /\ g \in Generations  BY <1>0, OpenGenerations
  <2>2. CASE Disturbed(j, g)
    <3>1. UNCHANGED <<TopicOf, Asked, OldOf>>  BY <1>0, <2>1, <2>2, DisturbedIs, SameTopics
    <3>2. CASE Quits(j, g)  BY <1>0, <2>1, <3>1, <3>2, QuitsFollow
    <3>3. ASSUME NEW lease \in {"live", "expired"}, Only(j), Leased(j, lease) PROVE Follows
      BY <2>1, <3>1, <3>3, OthersSeen, SameSeen, NoneSeen
    <3> QED  BY <1>0, <2>1, <2>2, <3>2, <3>3, DisturbedIs
  <2> QED
    BY <1>0, <1>3, <2>1, <2>2, MakePlanFollows, ReadsFollow, CommitFollows DEF Execute
<1>4. ASSUME NEW j \in Created, LeaseRunsOut(j) PROVE Follows
  <2>1. j \in Jobs /\ UNCHANGED <<summary, buried, enqueued>>
    BY <1>4 DEF Created, LeaseRunsOut, Rest, userVars
  <2>2. Only(j) /\ Leased(j, "expired")  BY <1>0, <1>4, <2>1, RunsOutIs
  <2> QED  BY <2>1, <2>2, SameTopics, OthersSeen, SameSeen, NoneSeen
<1>5. ASSUME NEW h \in Threads, DeleteThread(h) PROVE Follows
  BY <1>5, <1>a DEF DeleteThread
<1>6. ASSUME NEW h \in Threads, CleanThread(h) PROVE Follows
  <2>1. \A k \in Jobs : Seen(k) \/ Closed(k)  BY <1>0, <1>6, CleanIs, SameSeen, DroppedClosed
  <2>2. TopicOf' = TopicOf
    <3>1. \A u \in Users : TopicRow(summary'[u]) = TopicRow(summary[u])
      BY <1>0, <1>6, CleanedIs DEF TopicRow
    <3> QED  BY <3>1 DEF TopicOf
  <2>3. UNCHANGED <<Asked, OldOf>>  BY <1>6 DEF CleanThread, Asked, OldOf
  <2> QED  BY <2>1, <2>2, <2>3, ToClose
<1>7. CASE Suspend \/ Resume  BY <1>7, <1>a DEF Suspend, Resume
<1> QED
  BY <1>1, <1>2, <1>3, <1>4, <1>5, <1>6, <1>7, TurnsFollow, UsersFollow DEF Next

LEMMA InitContract == Init => Contract!Init
<1> SUFFICES ASSUME Init PROVE Contract!Init  OBVIOUS
<1>1. IInv  BY InitFits
<1>2. /\ \A j \in Jobs : job[j] = NoJob
      /\ \A u \in Users : summary[u] = NoSummary /\ buried[u].turns = {}
      /\ \A t \in Turns : enqueued[t] = "none"
  BY DEF Init
<1>3. AboutOf \in [Jobs -> Turns]  BY <1>1, ReaderIs DEF IInv, AboutOf
<1>4. Outcome = [j \in Jobs |-> "none"]
  <2>1. \A j \in Jobs : OutcomeRow(job[j].status) = "none"
    BY <1>2, NoJobType, Outcomes
  <2> QED  BY <2>1, OutcomeIs
<1>5. BasisOf = [j \in Jobs |-> Nowhere]
  <2>1. \A j \in Jobs : BasisRow(job[j]) = Nowhere  BY <1>2, NoJobType, NowhereIs
  <2> QED  BY <2>1 DEF BasisOf
<1>6. TopicOf = [u \in Users |-> [live |-> FALSE, id |-> 0, version |-> 0, sources |-> {}]]
  <2>1. NoSummary.live = FALSE  BY NoSummaryType DEF SummaryRow
  <2>2. \A u \in Users :
          TopicRow(summary[u]) = [live |-> FALSE, id |-> 0, version |-> 0, sources |-> {}]
    BY <1>2, <2>1, NoSummaryType DEF TopicRow
  <2> QED  BY <2>2 DEF TopicOf
<1>7. Asked = {} /\ OldOf = [u \in Users |-> {}]  BY <1>2 DEF Asked, OldOf
<1> QED
  BY <1>3, <1>4, <1>5, <1>6, <1>7
  DEF Contract!Init, Contract!Nowhere, AboutOf, BasisOf, BasisRow, TopicOf, TopicRow, Asked,
      OldOf, Nowhere

(* Jobs follow their contract, whatever workers crash, lose leases or come *)
(* back late and whatever users do meanwhile: each writes at most once, in *)
(* the step that ends it, on the version its plan was made from, and never *)
(* about a turn that was there when the topic was deleted (_commit).       *)
THEOREM ImplementsContract == Spec => FollowsContract
<1>1. IInv /\ [Next]_vars => [Contract!Next]_(Contract!vars)
  BY StepContract
  DEF Follows, Contract!vars, AboutOf, BasisOf, BasisRow, TopicOf, TopicRow, Asked, OldOf
<1> QED  BY <1>1, InitContract, Invariant, PTL DEF Spec, FollowsContract, Contract!Spec
-----------------------------------------------------------------------------
(* The bounds of the model are no restriction of their own: each job is    *)
(* paid for by the turn that was enqueued with it or by an act of a user.  *)
Enqueued == {t \in Turns : enqueued[t] = "enqueued"}

JobsPaid ==
  /\ acts \in 0..MaxActs
  /\ Cardinality(Created) <= Cardinality(Enqueued) + acts

LEMMA CreatedFinite ==
  /\ IsFiniteSet(Created) /\ Cardinality(Created) \in Nat
  /\ IsFiniteSet(Enqueued) /\ Cardinality(Enqueued) \in Nat
  /\ Cardinality(Enqueued) <= Cardinality(Turns) /\ Cardinality(Turns) \in Nat
<1>1. Created \subseteq Jobs /\ Enqueued \subseteq Turns  BY DEF Created, Enqueued
<1>2. IsFiniteSet(Turns)  BY SummariesAssumption
<1> QED  BY <1>1, <1>2, JobNumbers, FS_Subset, FS_CardinalityType

LEMMA MoreEnqueued ==
  ASSUME OthersFit, NEW t \in Turns, enqueued[t] # "enqueued",
         NEW status, enqueued' = [enqueued EXCEPT ![t] = status]
  PROVE  /\ status = "enqueued" => Cardinality(Enqueued') = Cardinality(Enqueued) + 1
         /\ status # "enqueued" => Enqueued' = Enqueued
<1>1. enqueued \in [Turns -> {"none", "not_requested", "enqueued", "enqueue_failed"}]
  BY DEF OthersFit
<1>2. t \notin Enqueued  BY DEF Enqueued
<1>3. ASSUME status = "enqueued"
      PROVE  Cardinality(Enqueued') = Cardinality(Enqueued) + 1
  <2>1. Enqueued' = Enqueued \union {t}  BY <1>1, <1>3 DEF Enqueued
  <2> QED  BY <1>2, <2>1, CreatedFinite, FS_AddElement
<1>4. ASSUME status # "enqueued" PROVE Enqueued' = Enqueued
  BY <1>1, <1>4 DEF Enqueued
<1> QED  BY <1>3, <1>4

LEMMA OneMoreJob ==
  ASSUME JobsFit, NEW t \in Turns, NEW trigger \in {"auto"} \union Manual,
         NewJob(t, trigger), exec' = exec
  PROVE  Cardinality(Created') = Cardinality(Created) + 1
<1>1. PICK j \in Jobs : Only(j) /\ Born(j)  BY NewJobIs
<1>2. Created' = Created \union {j} /\ j \notin Created
  BY <1>1 DEF Created, Only, Still, Born
<1> QED  BY <1>2, CreatedFinite, FS_AddElement

(* A step that is no birth adds no job.                                    *)
LEMMA NoBirth ==
  ASSUME \A k \in Jobs : job[k].status = "absent" => job'[k].status = "absent"
  PROVE  Cardinality(Created') <= Cardinality(Created)
<1>1. Created' \subseteq Created  BY DEF Created
<1> QED  BY <1>1, CreatedFinite, FS_Subset

LEMMA JobsPaidStep == IInv /\ JobsPaid /\ [Next]_vars => JobsPaid'
<1> SUFFICES ASSUME IInv, JobsPaid, [Next]_vars PROVE JobsPaid'  OBVIOUS
<1>0. JobsFit /\ SummariesFit /\ OthersFit /\ acts \in 0..MaxActs /\ MaxActs \in Nat
  BY Numbers DEF IInv, JobsPaid
<1>a. ASSUME Cardinality(Created') <= Cardinality(Created), enqueued' = enqueued,
             \/ acts' = acts
             \/ acts < MaxActs /\ acts' = acts + 1
      PROVE  JobsPaid'
  <2>1. Enqueued' = Enqueued  BY <1>a DEF Enqueued
  <2>2. acts' \in 0..MaxActs /\ acts <= acts'  BY <1>0, <1>a
  <2>3. Cardinality(Created') \in Nat
    <3>1. Created' \subseteq Jobs  BY DEF Created
    <3> QED  BY <3>1, JobNumbers, FS_Subset, FS_CardinalityType
  <2> QED  BY <1>0, <1>a, <2>1, <2>2, <2>3, CreatedFinite DEF JobsPaid
<1>b. ASSUME job' = job PROVE Cardinality(Created') <= Cardinality(Created)
  BY <1>b, NoBirth
<1>c. ASSUME NEW j \in Created, Only(j)
      PROVE  Cardinality(Created') <= Cardinality(Created)
  BY <1>c, NoBirth DEF Only, Still, Created
<1>1. CASE UNCHANGED vars  BY <1>1, <1>a, <1>b DEF vars, userVars, bounds
<1>2. ASSUME NEW t \in Turns, CompleteTurn(t) \/ RepairEnqueue(t) PROVE JobsPaid'
  <2>1. acts' = acts /\ exec' = exec /\ enqueued[t] # "enqueued"
    BY <1>2 DEF CompleteTurn, RepairEnqueue, bounds
  <2>2. \/ enqueued' = [enqueued EXCEPT ![t] = "enqueued"] /\ NewJob(t, "auto")
        \/ \E status \in {"not_requested", "enqueue_failed"} :
             enqueued' = [enqueued EXCEPT ![t] = status] /\ job' = job
    BY <1>2 DEF CompleteTurn, RepairEnqueue
  <2>3. CASE enqueued' = [enqueued EXCEPT ![t] = "enqueued"] /\ NewJob(t, "auto")
    <3>1. Cardinality(Created') = Cardinality(Created) + 1
      BY <1>0, <2>1, <2>3, OneMoreJob
    <3>2. Cardinality(Enqueued') = Cardinality(Enqueued) + 1
      BY <1>0, <2>1, <2>3, MoreEnqueued
    <3> QED  BY <1>0, <2>1, <3>1, <3>2, CreatedFinite DEF JobsPaid
  <2>4. ASSUME NEW status \in {"not_requested", "enqueue_failed"},
               enqueued' = [enqueued EXCEPT ![t] = status], job' = job
        PROVE  JobsPaid'
    <3>1. Created' = Created  BY <2>4 DEF Created
    <3>2. status # "enqueued" /\ enqueued[t] # "enqueued"  BY <2>1
    <3>3. Enqueued' = Enqueued  BY <1>0, <2>4, <3>2, MoreEnqueued
    <3> QED  BY <1>0, <2>1, <3>1, <3>3, CreatedFinite DEF JobsPaid
  <2> QED  BY <2>2, <2>3, <2>4
<1>3. ASSUME NEW t \in Turns, RequestGeneration(t) PROVE JobsPaid'
  <2>1. /\ acts < MaxActs /\ acts' = acts + 1 /\ exec' = exec /\ enqueued' = enqueued
        /\ \E trigger \in {"auto"} \union Manual : NewJob(t, trigger)
    BY <1>3 DEF RequestGeneration, Act, TriggerFor, Manual, userVars
  <2>2. Cardinality(Created') = Cardinality(Created) + 1  BY <1>0, <2>1, OneMoreJob
  <2>3. Enqueued' = Enqueued  BY <2>1 DEF Enqueued
  <2> QED  BY <1>0, <2>1, <2>2, <2>3, CreatedFinite DEF JobsPaid
<1>4. CASE Poll
  <2>1. PICK waiting : ClaimJobs(Claimed(waiting))  BY <1>4 DEF Poll
  <2>2. \A k \in Jobs : Taken(k) \/ Still(k)  BY <1>0, <2>1, PollIs
  <2>3. enqueued' = enqueued /\ acts' = acts  BY <2>1 DEF ClaimJobs, userVars, bounds
  <2>4. \A k \in Jobs : job[k].status = "absent" => job'[k].status = "absent"
    BY <2>2 DEF Taken, Still
  <2> QED  BY <1>a, <2>3, <2>4, NoBirth
<1>5. ASSUME NEW j \in Created, NEW g \in 1..job[j].gen, Execute(j, g) \/ Disturbed(j, g)
      PROVE  JobsPaid'
  <2>1. j \in Jobs /\ g \in Generations  BY <1>0, OpenGenerations
  <2>2. Only(j)
    <3>1. CASE Execute(j, g)  BY <1>0, <2>1, <3>1, ExecuteIs
    <3>2. CASE Disturbed(j, g)  BY <1>0, <2>1, <3>2, DisturbedIs DEF Quits
    <3> QED  BY <1>5, <3>1, <3>2
  <2>3. acts' = acts /\ enqueued' = enqueued
    BY <1>5 DEF Execute, EndsEarly, MakePlan, ReusePlan, BeginCommit, CommitWrites,
         Disturbed, ExecutionFails, Crash, HeartbeatLate, Renew, StopLost, Rest, bounds, userVars
  <2> QED  BY <1>5, <1>a, <1>c, <2>2, <2>3
<1>6. ASSUME NEW j \in Created, LeaseRunsOut(j) PROVE JobsPaid'
  <2>1. j \in Jobs /\ acts' = acts /\ enqueued' = enqueued
    BY <1>6 DEF LeaseRunsOut, Created, Rest, bounds, userVars
  <2> QED  BY <1>0, <1>6, <1>a, <1>c, <2>1, RunsOutIs
<1>7. ASSUME NEW u \in Users,
             \/ EditSummary(u) \/ DeleteSummary(u)
             \/ \E j \in summary[u].reviews : DismissReview(u, j)
      PROVE  JobsPaid'
  BY <1>7, <1>a, <1>b
  DEF EditSummary, DeleteSummary, DismissReview, Act, userVars, bounds
<1>8. ASSUME NEW h \in Threads, DeleteThread(h) PROVE JobsPaid'
  BY <1>8, <1>a, <1>b DEF DeleteThread, Act
<1>9. ASSUME NEW h \in Threads, CleanThread(h) PROVE JobsPaid'
  <2>1. \A k \in Jobs : job[k].status = "absent" => job'[k].status = "absent"
    BY <1>0, <1>9, CleanIs DEF Still, Dropped
  <2>2. acts' = acts /\ enqueued' = enqueued  BY <1>9 DEF CleanThread, bounds
  <2> QED  BY <1>a, <2>1, <2>2, NoBirth
<1>10. CASE Suspend \/ Resume  BY <1>10, <1>a, <1>b DEF Suspend, Resume, bounds
<1> QED
  BY <1>1, <1>2, <1>3, <1>4, <1>5, <1>6, <1>7, <1>8, <1>9, <1>10 DEF Next

(* A number for the next job and for the next execution.                  *)
NumbersLeft ==
  /\ (acts < MaxActs \/ \E t \in Turns : enqueued[t] # "enqueued") => Jobs \ Created # {}
  /\ \A waiting : \A j \in Claimed(waiting) : job[j].gen + 1 \in Generations

(* A turn that is completed or repaired and a request of a user find a     *)
(* number for their job, and a claim one for its execution: what no bound  *)
(* but the numbers of turns, acts and faults excludes can happen           *)
(* (insert_generation_job, claim_generation_jobs).                         *)
THEOREM EnoughNumbers == Spec => []NumbersLeft
<1>1. Init => JobsPaid
  <2> SUFFICES ASSUME Init PROVE JobsPaid  OBVIOUS
  <2>1. acts = 0 /\ \A j \in Jobs : job[j] = NoJob  BY DEF Init
  <2>2. Created = {}  BY <2>1, NoJobType DEF Created
  <2> QED  BY <2>1, <2>2, CreatedFinite, FS_EmptySet, Numbers DEF JobsPaid
<1>2. ASSUME IInv, JobsPaid PROVE NumbersLeft
  <2>1. ASSUME acts < MaxActs \/ \E t \in Turns : enqueued[t] # "enqueued"
        PROVE  Jobs \ Created # {}
    <3>1. Cardinality(Enqueued) + acts < Cardinality(Turns) + MaxActs
      <4>1. CASE acts < MaxActs  BY <1>2, <4>1, CreatedFinite, Numbers DEF JobsPaid
      <4>2. ASSUME NEW t \in Turns, enqueued[t] # "enqueued"
            PROVE  Cardinality(Enqueued) < Cardinality(Turns)
        <5>1. Enqueued \subseteq Turns /\ Enqueued # Turns  BY <4>2 DEF Enqueued
        <5>2. Cardinality(Enqueued) # Cardinality(Turns)
          BY <5>1, SummariesAssumption, FS_Subset
        <5> QED  BY <5>2, CreatedFinite
      <4> QED  BY <1>2, <2>1, <4>1, <4>2, CreatedFinite, Numbers DEF JobsPaid
    <3>2. Cardinality(Jobs) = Cardinality(Turns) + MaxActs
      <4>1. Cardinality(Turns) + MaxActs \in Nat  BY CreatedFinite, Numbers
      <4> QED  BY <4>1, FS_Interval DEF Jobs
    <3>3. Cardinality(Created) < Cardinality(Jobs)
      BY <1>2, <3>1, <3>2, CreatedFinite, Numbers DEF JobsPaid
    <3>4. Created # Jobs  BY <3>3, CreatedFinite
    <3> QED  BY <3>4 DEF Created
  <2>2. ASSUME NEW waiting, NEW j \in Claimed(waiting) PROVE job[j].gen + 1 \in Generations
    <3>1. /\ j \in Jobs
          /\ \/ job[j].status \in {"pending", "retry_wait"}
             \/ job[j].status = "processing" /\ job[j].lease = "expired"
      BY ClaimedAreClaimable
    <3>2. Counted(job[j], exec[j], faults) /\ job[j].gen \in Nat /\ faults \in 0..MaxFaults
      BY <1>2, <3>1 DEF IInv, JobsFit, Fit, JobRow
    <3> QED  BY <3>1, <3>2, Numbers DEF Counted
  <2> QED  BY <2>1, <2>2 DEF NumbersLeft
<1>3. IInv /\ JobsPaid /\ [Next]_vars => JobsPaid'  BY JobsPaidStep
<1> QED  BY <1>1, <1>2, <1>3, Invariant, PTL DEF Spec

-----------------------------------------------------------------------------
(* One automatic job for each turn.                                        *)
SameJob(k) ==
  /\ job'[k].status = "absent" <=> job[k].status = "absent"
  /\ job'[k].turn = job[k].turn /\ job'[k].trigger = job[k].trigger

LEMMA NewJobRow ==
  ASSUME JobsFit, NEW t \in Turns, NEW trigger \in {"auto"} \union Manual,
         NewJob(t, trigger)
  PROVE  \E j \in Jobs : /\ job[j].status = "absent" /\ job'[j].status = "pending"
                         /\ job'[j].turn = t /\ job'[j].trigger = trigger
                         /\ \A k \in Jobs : k # j => job'[k] = job[k]
<1>1. PICK j \in Jobs :
        job[j].status = "absent" /\ job' = [job EXCEPT ![j] = RowFor(t, trigger)]
  BY DEF NewJob, Created, RowFor
<1>2. job'[j] = RowFor(t, trigger) /\ \A k \in Jobs : k # j => job'[k] = job[k]
  BY <1>1 DEF JobsFit
<1>3. RowFor(t, trigger).trigger = trigger  BY NoJobType DEF RowFor, NoJob, JobRow
<1> QED  BY <1>1, <1>2, <1>3, NewRow

LEMMA SameJobs ==
  ASSUME OneAutoJob, \A k \in Jobs : SameJob(k),
         \A t \in Turns : enqueued'[t] = "enqueued" <=> enqueued[t] = "enqueued"
  PROVE  OneAutoJob'
<1>1. \A k \in Jobs : (Automatic(k)' <=> Automatic(k)) /\ Turn(k)' = Turn(k)
  BY DEF SameJob, Automatic, Trigger, Turn
<1> QED  BY <1>1 DEF OneAutoJob

LEMMA OneAutoJobStep == IInv /\ OneAutoJob /\ [Next]_vars => OneAutoJob'
<1> SUFFICES ASSUME IInv, OneAutoJob, [Next]_vars PROVE OneAutoJob'  OBVIOUS
<1>0. /\ JobsFit /\ SummariesFit
      /\ enqueued \in [Turns -> {"none", "not_requested", "enqueued", "enqueue_failed"}]
      /\ \A k \in Jobs : job[k] \in JobRow
  BY DEF IInv, OthersFit, JobsFit
<1>b. ASSUME job' = job, \A t \in Turns : enqueued'[t] = "enqueued" <=> enqueued[t] = "enqueued"
      PROVE  OneAutoJob'
  BY <1>b, SameJobs DEF SameJob
<1>c. ASSUME NEW j \in Created, Only(j), JobStep(j), enqueued' = enqueued PROVE OneAutoJob'
  <2>1. j \in Jobs /\ ~Born(j)  BY <1>c DEF Created, Born
  <2>2. \A k \in Jobs : k # j => Still(k) /\ Whole  BY <1>c DEF Only
  <2>3. \A k \in Jobs : Still(k) => SameJob(k)  BY DEF Still, SameJob
  <2>4. \A k \in Jobs : k # j => SameJob(k)  BY <2>2, <2>3
  <2>5. SameJob(j)
    <3>1. job[j] \in JobRow /\ job[j].status # "absent"  BY <1>0, <1>c, <2>1 DEF Created
    <3>2. CASE Still(j) \/ \E g \in Generations : Left(j, g) \/ Strays(j, g) \/ Commits(j, g)
      BY <3>2 DEF Still, Left, Strays, Commits, SameJob
    <3>3. CASE Dropped(j) \/ Taken(j) \/ Leased(j, "live") \/ Leased(j, "expired")
      BY <3>3 DEF Dropped, Taken, Leased, Keeps, SameJob
    <3>4. ASSUME NEW g \in Generations, Freed(j, g) \/ Plans(j, g) PROVE SameJob(j)
      BY <3>4 DEF Freed, Plans, Fenced, Keeps, Ended, SameJob
    <3> QED  BY <1>c, <2>1, <3>2, <3>3, <3>4 DEF JobStep, Calm
  <2> QED  BY <1>c, <2>4, <2>5, SameJobs
<1>1. CASE UNCHANGED vars  BY <1>1, <1>b DEF vars, userVars
<1>2. ASSUME NEW t \in Turns, CompleteTurn(t) \/ RepairEnqueue(t) PROVE OneAutoJob'
  <2>1. enqueued[t] # "enqueued"  BY <1>2 DEF CompleteTurn, RepairEnqueue
  <2>2. \/ enqueued' = [enqueued EXCEPT ![t] = "enqueued"] /\ NewJob(t, "auto")
        \/ \E status \in {"not_requested", "enqueue_failed"} :
             enqueued' = [enqueued EXCEPT ![t] = status] /\ job' = job
    BY <1>2 DEF CompleteTurn, RepairEnqueue
  <2>3. CASE enqueued' = [enqueued EXCEPT ![t] = "enqueued"] /\ NewJob(t, "auto")
    <3>1. PICK j \in Jobs : /\ job[j].status = "absent" /\ job'[j].status = "pending"
                            /\ job'[j].turn = t /\ job'[j].trigger = "auto"
                            /\ \A k \in Jobs : k # j => job'[k] = job[k]
      BY <1>0, <2>3, NewJobRow
    <3>2. ~Automatic(j) /\ Automatic(j)' /\ Turn(j)' = t  BY <3>1 DEF Automatic, Trigger, Turn
    <3>3. \A k \in Jobs : k # j => (Automatic(k)' <=> Automatic(k)) /\ Turn(k)' = Turn(k)
      BY <3>1 DEF Automatic, Trigger, Turn
    <3>4. \A k \in Jobs : Automatic(k) => Turn(k) # t  BY <2>1 DEF OneAutoJob
    <3>5. enqueued'[t] = "enqueued" /\ \A s \in Turns : s # t => enqueued'[s] = enqueued[s]
      BY <1>0, <2>3
    <3>6. ASSUME NEW s \in Turns
          PROVE  enqueued'[s] = "enqueued" <=> \E k \in Jobs : Automatic(k)' /\ Turn(k)' = s
      <4>1. CASE s = t  BY <3>2, <3>5, <4>1
      <4>2. CASE s # t  BY <3>2, <3>3, <3>5, <4>2 DEF OneAutoJob
      <4> QED  BY <4>1, <4>2
    <3>7. \A k, l \in Jobs : Automatic(k)' /\ Automatic(l)' /\ Turn(k)' = Turn(l)' => k = l
      BY <3>2, <3>3, <3>4 DEF OneAutoJob
    <3> QED  BY <3>6, <3>7 DEF OneAutoJob
  <2>4. ASSUME NEW status \in {"not_requested", "enqueue_failed"},
               enqueued' = [enqueued EXCEPT ![t] = status], job' = job
        PROVE  OneAutoJob'
    <3>1. status # "enqueued"  OBVIOUS
    <3>2. \A s \in Turns : enqueued'[s] = "enqueued" <=> enqueued[s] = "enqueued"
      BY <1>0, <2>1, <2>4, <3>1
    <3> QED  BY <1>b, <2>4, <3>2
  <2> QED  BY <2>2, <2>3, <2>4
<1>3. ASSUME NEW t \in Turns, RequestGeneration(t) PROVE OneAutoJob'
  <2>1. PICK trigger \in Manual : NewJob(t, trigger)
    BY <1>3 DEF RequestGeneration, TriggerFor, Manual
  <2>2. enqueued' = enqueued  BY <1>3 DEF RequestGeneration, userVars
  <2>3. trigger \in {"auto"} \union Manual /\ trigger # "auto"  BY DEF Manual
  <2>4. PICK j \in Jobs : /\ job[j].status = "absent" /\ job'[j].status = "pending"
                          /\ job'[j].turn = t /\ job'[j].trigger = trigger
                          /\ \A k \in Jobs : k # j => job'[k] = job[k]
    BY <1>0, <2>1, <2>3, NewJobRow
  <2>5. ~Automatic(j) /\ ~Automatic(j)'  BY <2>3, <2>4 DEF Automatic, Trigger
  <2>6. \A k \in Jobs : k # j => (Automatic(k)' <=> Automatic(k)) /\ Turn(k)' = Turn(k)
    BY <2>4 DEF Automatic, Trigger, Turn
  <2> QED  BY <2>2, <2>5, <2>6 DEF OneAutoJob
<1>4. CASE Poll
  <2>1. PICK waiting : ClaimJobs(Claimed(waiting))  BY <1>4 DEF Poll
  <2>2. \A k \in Jobs : Taken(k) \/ Still(k)  BY <1>0, <2>1, PollIs
  <2>3. enqueued' = enqueued  BY <2>1 DEF ClaimJobs, userVars
  <2>4. \A k \in Jobs : SameJob(k)
    BY <2>2 DEF Taken, Still, Keeps, SameJob
  <2> QED  BY <2>3, <2>4, SameJobs
<1>5. ASSUME NEW j \in Created, NEW g \in 1..job[j].gen, Execute(j, g) \/ Disturbed(j, g)
      PROVE  OneAutoJob'
  <2>1. j \in Jobs /\ g \in Generations  BY <1>0, OpenGenerations
  <2>2. Only(j) /\ JobStep(j)
    <3>1. CASE Execute(j, g)  BY <1>0, <2>1, <3>1, ExecuteIs DEF JobStep
    <3>2. CASE Disturbed(j, g)
      BY <1>0, <2>1, <3>2, DisturbedIs DEF Quits, JobStep, Calm
    <3> QED  BY <1>5, <3>1, <3>2
  <2>3. enqueued' = enqueued
    BY <1>5 DEF Execute, EndsEarly, MakePlan, ReusePlan, BeginCommit, CommitWrites,
         Disturbed, ExecutionFails, Crash, HeartbeatLate, Renew, StopLost, Rest, userVars
  <2> QED  BY <1>5, <1>c, <2>2, <2>3
<1>6. ASSUME NEW j \in Created, LeaseRunsOut(j) PROVE OneAutoJob'
  <2>1. j \in Jobs /\ enqueued' = enqueued
    BY <1>6 DEF LeaseRunsOut, Created, Rest, userVars
  <2>2. Only(j) /\ JobStep(j)  BY <1>0, <1>6, <2>1, RunsOutIs DEF JobStep, Calm
  <2> QED  BY <1>6, <1>c, <2>1, <2>2
<1>7. ASSUME NEW u \in Users,
             \/ EditSummary(u) \/ DeleteSummary(u)
             \/ \E j \in summary[u].reviews : DismissReview(u, j)
      PROVE  OneAutoJob'
  BY <1>7, <1>b DEF EditSummary, DeleteSummary, DismissReview, userVars
<1>8. ASSUME NEW h \in Threads, DeleteThread(h) PROVE OneAutoJob'
  BY <1>8, <1>b DEF DeleteThread
<1>9. ASSUME NEW h \in Threads, CleanThread(h) PROVE OneAutoJob'
  <2>1. \A k \in Jobs : SameJob(k)
    BY <1>0, <1>9, CleanIs DEF Still, Dropped, Keeps, SameJob
  <2>2. enqueued' = enqueued  BY <1>9 DEF CleanThread
  <2> QED  BY <2>1, <2>2, SameJobs
<1>10. CASE Suspend \/ Resume  BY <1>10, <1>b DEF Suspend, Resume
<1> QED
  BY <1>1, <1>2, <1>3, <1>4, <1>5, <1>6, <1>7, <1>8, <1>9, <1>10 DEF Next

(* A turn is marked as enqueued exactly when it has its automatic job, and *)
(* there is one only, whatever fails, is repaired or asked for between     *)
(* (_enqueue_knowledge_summary_auto_job, repair_turn).                     *)
THEOREM EnqueuedOnce == Spec => []OneAutoJob
<1>1. Init => OneAutoJob
  <2> SUFFICES ASSUME Init PROVE OneAutoJob  OBVIOUS
  <2>1. \A j \in Jobs : job[j].status = "absent"  BY NoJobType DEF Init
  <2>2. \A t \in Turns : enqueued[t] = "none"  BY DEF Init
  <2> QED  BY <2>1, <2>2 DEF OneAutoJob, Automatic
<1>2. IInv /\ OneAutoJob /\ [Next]_vars => OneAutoJob'  BY OneAutoJobStep
<1> QED  BY <1>1, <1>2, Invariant, PTL DEF Spec

================================================================================
