--------------------------- MODULE SummaryGeneration ---------------------------
(***************************************************************************)
(* Knowledge summaries: the jobs that turn the completed turns of a user   *)
(* into a summary, the claim that hands them to workers under leases, an   *)
(* execution from the frozen input to the commit, and what users do to the *)
(* summary meanwhile: they edit it, delete it, dismiss a review, ask for   *)
(* another generation, delete the thread the knowledge came from.          *)
(*                                                                         *)
(* Every turn is about one topic of its user, so a user has at most one    *)
(* summary at a time; of its content the model keeps the turns it was made *)
(* from.  Identities that are only similar, renamings, and with them the   *)
(* duplicates and the conflict on the unique topic index, are left out.    *)
(* An execution is named by the job and the lease_generation of its claim: *)
(* that pair with the worker's id is the fence of every write it makes.    *)
(* A worker that claimed several jobs is that many executions, and its     *)
(* crash the crash of each.  A backoff is any time.                        *)
(***************************************************************************)
EXTENDS Naturals, FiniteSets

CONSTANTS
  Turns,         \* bound: turns 1, 2, ... in the order they are completed
  Threads, Users,
  ThreadOf,      \* ThreadOf[t]: the thread of turn t
  OwnerOf,       \* OwnerOf[th]: the user a thread belongs to
  Barren,        \* turns there is nothing to tell about
  Concurrency,   \* CONVERSATION_KNOWLEDGE_SUMMARY_WORKER_CONCURRENCY
  Reserved,      \* CONVERSATION_KNOWLEDGE_SUMMARY_MANUAL_RESERVED_SLOTS
  MaxAttempts,   \* CONVERSATION_KNOWLEDGE_SUMMARY_MAX_ATTEMPTS
  MaxActs,       \* bound: requests and edits of users and deletions of threads
  MaxFaults      \* bound: crashes, late heartbeats, failing calls, suspensions

Manual == {"manual", "manual_retry", "manual_refresh"}
Jobs == 1..(Cardinality(Turns) + MaxActs)  \* in the order of their created_at

UserOf(t) == OwnerOf[ThreadOf[t]]

(* Claims of one job: its attempts and the claims of leases that ran out.  *)
Generations == 1..(MaxAttempts + MaxFaults)

ASSUME SummariesAssumption ==
  /\ Turns \subseteq Nat \ {0} /\ IsFiniteSet(Turns) /\ Turns # {}
  /\ Barren \subseteq Turns
  /\ ThreadOf \in [Turns -> Threads] /\ OwnerOf \in [Threads -> Users]
  /\ {Concurrency, Reserved, MaxAttempts} \subseteq Nat \ {0}
  /\ Reserved <= Concurrency
  /\ {MaxActs, MaxFaults} \subseteq Nat

VARIABLES
  thread,    \* status of the conversation_threads rows
  enqueued,  \* knowledge_summary_enqueue_status of the turns
  job,       \* knowledge_summary_generation_jobs
  exec,      \* executions of the workers
  summary,   \* the row of knowledge_summaries that bears the user's topic
  buried,    \* what the tombstones of the user's topic say
  suspended, \* auto_generation_suspended of the runtime control row
  revived, late, \* history: leases renewed after they had run out; turns in
             \* their commit when their thread was deleted
  acts, faults

userVars == <<thread, enqueued, suspended>>
historyVars == <<revived, late>>
bounds == <<acts, faults>>
vars == <<job, exec, summary, buried, userVars, historyVars, bounds>>

(* A merge plan: what to do, and the summary and version it was made for   *)
Plan == [kind : {"none", "create", "merge", "review"}, id : Nat, version : Nat]
NoPlan == [kind |-> "none", id |-> 0, version |-> 0]

Open == {"pending", "processing", "retry_wait"}
Ended == {"succeeded", "no_change", "needs_review", "dead_letter", "cancelled"}

(* "gen" is lease_generation, and attempt_count, which the claim alone     *)
(* counts with it.                                                         *)
JobRow ==
  [turn : Turns, trigger : {"auto"} \union Manual,
   status : {"absent"} \union Open \union Ended, lease : {"none", "live", "expired"},
   gen : Nat, plan : Plan]

(* An execution goes by the plan stored on its job: nobody replaces it     *)
(* while the execution is behind the fence, and after that it cannot write. *)
ExecState == {"none", "claimed", "planned", "commit"}

(* "live" is status = active; "gone" are the sources marked unavailable,   *)
(* "reviews" the jobs with a pending review, "conflict" the review_state.  *)
SummaryRow ==
  [live : BOOLEAN, id : Nat, version : Nat, sources : SUBSET Turns,
   gone : SUBSET Turns, reviews : SUBSET Jobs, conflict : BOOLEAN]

NoJob == [turn |-> CHOOSE t \in Turns : TRUE, trigger |-> "auto", status |-> "absent",
          lease |-> "none", gen |-> 0, plan |-> NoPlan]
NoSummary == [live |-> FALSE, id |-> 0, version |-> 0, sources |-> {}, gone |-> {},
              reviews |-> {}, conflict |-> FALSE]

Init ==
  /\ thread = [h \in Threads |-> "active"]
  /\ enqueued = [t \in Turns |-> "none"]
  /\ job = [j \in Jobs |-> NoJob]
  /\ exec = [j \in Jobs |-> [g \in Generations |-> "none"]]
  /\ summary = [u \in Users |-> NoSummary]
  /\ buried = [u \in Users |-> [turns |-> {}, sources |-> {}]]
  /\ suspended = FALSE
  /\ revived = 0 /\ late = {} /\ acts = 0 /\ faults = 0

Act ==
  /\ acts < MaxActs
  /\ acts' = acts + 1

Fault ==
  /\ faults < MaxFaults
  /\ faults' = faults + 1

Created == {j \in Jobs : job[j].status # "absent"}
Completed(u) == {t \in Turns : UserOf(t) = u /\ enqueued[t] # "none"}

Turn(j) == job[j].turn
Trigger(j) == job[j].trigger
Thread(j) == ThreadOf[Turn(j)]
User(j) == UserOf(Turn(j))

NewJob(t, trigger) ==
  \E j \in Jobs \ Created :
    /\ \A k \in Jobs \ Created : j <= k
    /\ job' = [job EXCEPT ![j] = [NoJob EXCEPT !.turn = t, !.trigger = trigger,
                                               !.status = "pending"]]

(* ---- jobs come into being --------------------------------------------- *)

(* persist_turn completes the turn and adds its job in a savepoint; an     *)
(* insertion that fails is left to the repair.                             *)
CompleteTurn(t) ==
  /\ thread[ThreadOf[t]] = "active"
  /\ enqueued[t] = "none"
  /\ \A s \in Turns : s < t /\ ThreadOf[s] = ThreadOf[t] => enqueued[s] # "none"
  /\ \/ /\ suspended
        /\ enqueued' = [enqueued EXCEPT ![t] = "not_requested"]
        /\ UNCHANGED <<job, faults>>
     \/ /\ ~suspended
        /\ enqueued' = [enqueued EXCEPT ![t] = "enqueued"]
        /\ NewJob(t, "auto")
        /\ UNCHANGED faults
     \/ /\ ~suspended /\ Fault
        /\ enqueued' = [enqueued EXCEPT ![t] = "enqueue_failed"]
        /\ UNCHANGED job
  /\ UNCHANGED <<thread, exec, summary, buried, suspended, historyVars, acts>>

(* Every poll of a worker begins with the turns whose insertion failed.    *)
RepairEnqueue(t) ==
  /\ enqueued[t] = "enqueue_failed" /\ ~suspended
  /\ IF thread[ThreadOf[t]] # "active" \/ t \in buried[UserOf(t)].sources
     THEN /\ enqueued' = [enqueued EXCEPT ![t] = "not_requested"]
          /\ UNCHANGED job
     ELSE /\ enqueued' = [enqueued EXCEPT ![t] = "enqueued"]
          /\ NewJob(t, "auto")
  /\ UNCHANGED <<thread, exec, summary, buried, suspended, historyVars, bounds>>

(* _get_latest_job_for_turn: its status, if there is one                   *)
Latest(t) ==
  LET jobs == {j \in Created : Turn(j) = t}
  IN  {job[j].status : j \in {k \in jobs : \A i \in jobs : i <= k}}

(* The trigger of a request; {} when it finds a job to show instead, or is *)
(* refused because the source of the last one was gone.                    *)
TriggerFor(t, force) ==
  LET last == Latest(t)
  IN  CASE "cancelled" \in last     -> {}
        [] force                    -> {"manual_refresh"}
        [] "dead_letter" \in last   -> {"manual_retry"}
        [] last = {}                -> {"manual"}
        [] OTHER                    -> {}

(* POST knowledge-summary-generations; one that is sent again, with the    *)
(* same client_request_id, finds its job.                                  *)
RequestGeneration(t) ==
  /\ Act
  /\ thread[ThreadOf[t]] = "active" /\ enqueued[t] # "none"
  /\ t \notin buried[UserOf(t)].sources
  /\ \E force \in BOOLEAN : \E trigger \in TriggerFor(t, force) : NewJob(t, trigger)
  /\ UNCHANGED <<exec, summary, buried, userVars, historyVars, faults>>

(* ---- the claim -------------------------------------------------------- *)

Priority(j) ==
  CASE Trigger(j) = "manual_refresh" -> 0
    [] Trigger(j) = "manual_retry"   -> 1
    [] Trigger(j) = "manual"         -> 2
    [] Trigger(j) = "auto"           -> 4

Before(j, k) ==
  \/ Priority(j) < Priority(k)
  \/ Priority(j) = Priority(k) /\ j < k

(* The transaction of a commit holds the lock of the job's row.            *)
Locked(j) == \E g \in Generations : exec[j][g] = "commit"

Holding(j) == job[j].status = "processing" /\ job[j].lease = "live"

(* A mistake: jobs of workers that died are not looked at *)
ClaimableFresh(waiting) ==
  {j \in Jobs :
     /\ \/ job[j].status = "pending"
        \/ job[j].status = "retry_wait" /\ j \notin waiting
     /\ Trigger(j) = "auto" => ~suspended
     /\ ~Locked(j)}

(* The rows the claim selects from, but those whose backoff still lasts    *)
Claimable(waiting) ==
  {j \in Jobs :
     /\ \/ job[j].status = "pending"
        \/ job[j].status = "retry_wait" /\ j \notin waiting
        \/ job[j].status = "processing" /\ job[j].lease = "expired"
     /\ Trigger(j) = "auto" => ~suspended
     /\ ~Locked(j)}

(* A mistake: the slots of the jobs that run are not taken off *)
AvailableAlways == Concurrency

Available ==
  LET running == Cardinality({j \in Jobs : Holding(j)})
  IN  IF running < Concurrency THEN Concurrency - running ELSE 0

(* SELECT ... ORDER BY ... LIMIT available                                 *)
Window(waiting) ==
  LET rows == Claimable(waiting)
  IN  {j \in rows : Cardinality({k \in rows : Before(k, j)}) < Available}

(* The unique index on the jobs of a user that are processing              *)
Collides(j) ==
  \E k \in Jobs \ {j} : User(k) = User(j) /\ job[k].status = "processing"

(* Of the window one job for each user, and no more automatic ones than    *)
(* the slots that are free now, less the reserved ones                     *)
Claimed(waiting) ==
  LET able  == {j \in Window(waiting) : ~Collides(j)}
      first == {j \in able : \A k \in able : User(k) = User(j) => ~Before(k, j)}
      autos == {j \in first : Trigger(j) = "auto"}
  IN  {j \in first : j \in autos =>
         Cardinality({k \in autos : Before(k, j)}) + Reserved < Available}

(* _poll_once, under the advisory lock of all claims.                      *)
ClaimJobs(claimed) ==
  /\ claimed # {}
  /\ job' = [j \in Jobs |->
               IF j \in claimed
               THEN [job[j] EXCEPT !.status = "processing", !.lease = "live", !.gen = @ + 1]
               ELSE job[j]]
  /\ exec' = [j \in Jobs |-> IF j \in claimed
                             THEN [exec[j] EXCEPT ![job[j].gen + 1] = "claimed"]
                             ELSE exec[j]]
  /\ UNCHANGED <<summary, buried, userVars, historyVars, bounds>>

Poll ==
  \E waiting \in SUBSET {j \in Jobs : job[j].status = "retry_wait"} :
    \E claimed \in {Claimed(waiting)} : ClaimJobs(claimed)

(* ---- an execution ----------------------------------------------------- *)

Fenced(j, g) == job[j].status = "processing" /\ job[j].gen = g

(* A mistake: the lease is left on the row *)
ReleasedWithLease(j, status, plan) ==
  [job EXCEPT ![j].status = status, ![j].plan = plan]

(* The plan of a job that has ended is never looked at again, and left out. *)
Released(j, status, plan) ==
  [job EXCEPT ![j].status = status, ![j].lease = "none",
              ![j].plan = IF status \in Ended THEN NoPlan ELSE plan]

(* finish_generation and retry_generation write nothing for an execution   *)
(* that was fenced out; both end it.                                       *)
Leaves(j, g) == exec' = [exec EXCEPT ![j][g] = "none"]

Finish(j, g, status) ==
  /\ job' = IF Fenced(j, g) THEN Released(j, status, job[j].plan) ELSE job
  /\ Leaves(j, g)

Retry(j, g, plan) ==
  /\ job' = IF Fenced(j, g)
            THEN Released(j, IF g >= MaxAttempts THEN "dead_letter"
                             ELSE "retry_wait", plan)
            ELSE job
  /\ Leaves(j, g)

ThreadAlive(j) == thread[Thread(j)] = "active"

Rest == <<summary, buried, userVars, historyVars>>

(* The version of the summary the recall finds, which a plan is made for   *)
Found(u) == IF summary[u].live
            THEN [kind |-> "none", id |-> summary[u].id, version |-> summary[u].version]
            ELSE NoPlan

(* What _validate_merge_targets lets pass: a new summary only if the topic *)
(* was not found, and only the one that was found as a target              *)
Fits(plan, found) ==
  CASE plan.kind = "create"               -> found.id = 0
    [] plan.kind \in {"merge", "review"}  -> found.id # 0 /\ plan.id = found.id

GoesOn(j, g, pc) == exec' = [exec EXCEPT ![j][g] = pc]

(* _freeze_or_validate_input finds the thread gone; or the extraction finds *)
(* nothing, or the plan is to change nothing, and then the commit, which    *)
(* writes nothing else, is not a step of its own.                           *)
EndsEarly(j, g) ==
  /\ exec[j][g] = "claimed"
  /\ \/ ~ThreadAlive(j) /\ Finish(j, g, "cancelled")
     \/ ThreadAlive(j) /\ job[j].plan = NoPlan /\ Finish(j, g, "no_change")
  /\ UNCHANGED <<Rest, bounds>>

(* The frozen input, the extraction, _recall, and the plan the model makes *)
(* of it; the writes that keep the answers for another attempt are fenced. *)
MakePlan(j, g) ==
  /\ exec[j][g] = "claimed" /\ ThreadAlive(j)
  /\ Turn(j) \notin Barren /\ job[j].plan.kind = "none"
  /\ \/ /\ ~Fenced(j, g)
        /\ Leaves(j, g) /\ UNCHANGED job
     \/ /\ Fenced(j, g)
        /\ \E kind \in {"create", "merge", "review"} :
             LET plan == [Found(User(j)) EXCEPT !.kind = kind] IN
             /\ Fits(plan, Found(User(j)))
             /\ job' = [job EXCEPT ![j].plan = plan]
        /\ GoesOn(j, g, "planned")
  /\ UNCHANGED <<Rest, bounds>>

(* With the answer of an earlier attempt: if it no longer fits what the    *)
(* recall finds now, the execution fails on it and leaves it where it is.  *)
ReusePlan(j, g) ==
  LET plan == job[j].plan IN
  /\ exec[j][g] = "claimed" /\ ThreadAlive(j) /\ plan.kind # "none"
  /\ IF Fits(plan, Found(User(j)))
     THEN GoesOn(j, g, "planned") /\ UNCHANGED job
     ELSE Retry(j, g, plan)
  /\ UNCHANGED <<Rest, bounds>>

(* A mistake: the thread is not looked at again *)
StillThere(j) == TRUE

Unchanged(j) == ThreadAlive(j)

(* _commit, one transaction: it locks the job behind the fence and reads   *)
(* the thread, without a lock...                                           *)
BeginCommit(j, g) ==
  /\ exec[j][g] = "planned"
  /\ IF Fenced(j, g) /\ Unchanged(j)
     THEN GoesOn(j, g, "commit") /\ UNCHANGED job
     ELSE Finish(j, g, "cancelled")
  /\ UNCHANGED <<Rest, bounds>>

(* A mistake: what was deleted is known by the sources it had *)
SuppressedSource(j) == Turn(j) \in buried[User(j)].sources

(* _candidate_tombstone_suppressed: the turn is not younger than a deletion *)
Suppressed(j) == Turn(j) \in buried[User(j)].turns

(* A mistake: any version of the target will do *)
AnyVersion(plan, s) == FALSE

Stale(plan, s) == plan.kind = "merge" /\ s.version # plan.version

Vanished(plan, s) == plan.kind \in {"merge", "review"} /\ ~(s.live /\ s.id = plan.id)

(* _apply_create, _apply_merge and insert_review_and_mark_conflict         *)
Applied(plan, s, j) ==
  CASE plan.kind = "create" ->
         [NoSummary EXCEPT !.live = TRUE, !.id = s.id + 1, !.version = 1,
                           !.sources = {Turn(j)}]
    [] plan.kind = "merge" ->
         [s EXCEPT !.version = @ + 1, !.sources = @ \union {Turn(j)}]
    [] plan.kind = "review" ->
         [s EXCEPT !.version = @ + 1, !.reviews = @ \union {j}, !.conflict = TRUE]

(* ...then it locks the target, looks at its version and at the tombstones *)
(* and writes.  A merge may turn out to change nothing, or to break a rule *)
(* (a protected section, a user's words, an item that is not there).       *)
CommitWrites(j, g) ==
  LET u == User(j)
      plan == job[j].plan
      s == summary[u]
      hushed == plan.kind \in {"create", "merge"} /\ Suppressed(j)
  IN
  /\ exec[j][g] = "commit"
  /\ \/ /\ Vanished(plan, s)
        /\ Finish(j, g, "cancelled")
        /\ UNCHANGED summary
     \/ /\ ~Vanished(plan, s) /\ Stale(plan, s)
        /\ Retry(j, g, NoPlan)
        /\ UNCHANGED summary
     \/ /\ ~Vanished(plan, s) /\ ~Stale(plan, s) /\ hushed
        /\ Finish(j, g, "no_change")
        /\ UNCHANGED summary
     \/ /\ ~Vanished(plan, s) /\ ~Stale(plan, s) /\ ~hushed
        /\ summary' = [summary EXCEPT ![u] = Applied(plan, s, j)]
        /\ Finish(j, g, IF plan.kind = "review" THEN "needs_review" ELSE "succeeded")
     \/ /\ ~Vanished(plan, s) /\ ~Stale(plan, s) /\ ~hushed /\ plan.kind = "merge"
        /\ \E status \in {"no_change", "dead_letter"} : Finish(j, g, status)
        /\ UNCHANGED summary
  /\ UNCHANGED <<buried, userVars, historyVars, bounds>>

(* A call of the model or the database fails.                              *)
ExecutionFails(j, g) ==
  /\ exec[j][g] \in {"claimed", "commit"} /\ Fault
  /\ \/ Retry(j, g, job[j].plan)
     \/ exec[j][g] = "claimed" /\ Finish(j, g, "dead_letter")
  /\ UNCHANGED <<Rest, acts>>

Crash(j, g) ==
  /\ exec[j][g] # "none" /\ Fault
  /\ Leaves(j, g)
  /\ UNCHANGED <<job, Rest, acts>>

(* The heartbeat stops an execution that lost its lease...                 *)
StopLost(j, g) ==
  /\ exec[j][g] # "none" /\ ~Fenced(j, g)
  /\ Leaves(j, g)
  /\ UNCHANGED <<job, Rest, bounds>>

(* ...but one that was only late has it back, whatever was claimed since.  *)
Renew(j, g) ==
  /\ exec[j][g] \notin {"none", "commit"} /\ Fenced(j, g) /\ job[j].lease = "expired"
  /\ job' = [job EXCEPT ![j].lease = "live"]
  /\ revived' = revived + 1
  /\ UNCHANGED <<exec, summary, buried, userVars, late, bounds>>

(* Time passes: a lease nobody renews runs out...                          *)
LeaseRunsOut(j) ==
  /\ Holding(j) /\ \A g \in Generations : ~(Fenced(j, g) /\ exec[j][g] # "none")
  /\ job' = [job EXCEPT ![j].lease = "expired"]
  /\ UNCHANGED <<exec, Rest, bounds>>

(* ...and so does one whose heartbeat is late.                             *)
HeartbeatLate(j, g) ==
  /\ Holding(j) /\ Fenced(j, g) /\ exec[j][g] \notin {"none", "commit"}
  /\ Fault
  /\ job' = [job EXCEPT ![j].lease = "expired"]
  /\ UNCHANGED <<exec, Rest, acts>>

(* evaluate_auto_suspension, and the command that takes it back            *)
Suspend ==
  /\ ~suspended /\ Fault
  /\ suspended' = TRUE
  /\ UNCHANGED <<job, exec, summary, buried, thread, enqueued, historyVars, acts>>

Resume ==
  /\ suspended
  /\ suspended' = FALSE
  /\ UNCHANGED <<job, exec, summary, buried, thread, enqueued, historyVars, bounds>>

(* ---- the users -------------------------------------------------------- *)

(* PATCH knowledge-summary; one with a stale expected_version is refused.  *)
EditSummary(u) ==
  /\ summary[u].live /\ Act
  /\ summary' = [summary EXCEPT ![u].version = @ + 1]
  /\ UNCHANGED <<job, exec, buried, userVars, historyVars, faults>>

(* DELETE knowledge-summary leaves a tombstone.                            *)
DeleteSummary(u) ==
  /\ summary[u].live
  /\ summary' = [summary EXCEPT ![u] = [NoSummary EXCEPT !.id = summary[u].id]]
  /\ buried' = [buried EXCEPT ![u] =
                  [turns |-> Completed(u), sources |-> @.sources \union summary[u].sources]]
  /\ UNCHANGED <<job, exec, userVars, historyVars, bounds>>

(* A mistake: a dismissal takes the conflict away with it *)
ConflictCleared(reviews) == FALSE

ConflictOf(reviews) == reviews # {}

(* POST dismiss: the version counts only a change of the review_state.     *)
DismissReview(u, j) ==
  LET left == summary[u].reviews \ {j} IN
  /\ j \in summary[u].reviews
  /\ summary' = [summary EXCEPT
       ![u].reviews = left,
       ![u].conflict = ConflictOf(left),
       ![u].version = IF ConflictOf(left) = summary[u].conflict THEN @ ELSE @ + 1]
  /\ UNCHANGED <<job, exec, buried, userVars, historyVars, bounds>>

DeleteThread(h) ==
  /\ thread[h] = "active" /\ Act
  /\ thread' = [thread EXCEPT ![h] = "deleting"]
  /\ UNCHANGED <<job, exec, summary, buried, enqueued, suspended, historyVars, faults>>

(* The last round of execute_delete_thread                                 *)
CleanThread(h) ==
  /\ thread[h] = "deleting"
  /\ thread' = [thread EXCEPT ![h] = "deleted"]
  /\ job' = [j \in Jobs |-> IF Thread(j) = h /\ job[j].status \in {"pending", "retry_wait"}
                            THEN [job[j] EXCEPT !.status = "cancelled", !.plan = NoPlan]
                            ELSE job[j]]
  /\ summary' = [u \in Users |->
                   [summary[u] EXCEPT !.gone = @ \union {t \in summary[u].sources : ThreadOf[t] = h}]]
  /\ late' = late \union {Turn(j) : j \in {k \in Jobs : Thread(k) = h /\ Locked(k)}}
  /\ UNCHANGED <<exec, buried, enqueued, suspended, revived, bounds>>

Execute(j, g) ==
  \/ EndsEarly(j, g) \/ MakePlan(j, g) \/ ReusePlan(j, g)
  \/ BeginCommit(j, g) \/ CommitWrites(j, g)

Disturbed(j, g) ==
  \/ ExecutionFails(j, g) \/ Crash(j, g)
  \/ HeartbeatLate(j, g) \/ Renew(j, g) \/ StopLost(j, g)

Next ==
  \/ \E t \in Turns : CompleteTurn(t) \/ RepairEnqueue(t) \/ RequestGeneration(t)
  \/ Poll
  \/ \E j \in Created : \E g \in 1..job[j].gen : Execute(j, g) \/ Disturbed(j, g)
  \/ \E j \in Created : LeaseRunsOut(j)
  \/ \E u \in Users : \/ EditSummary(u) \/ DeleteSummary(u)
                      \/ \E j \in summary[u].reviews : DismissReview(u, j)
  \/ \E h \in Threads : DeleteThread(h) \/ CleanThread(h)
  \/ Suspend \/ Resume

Spec == Init /\ [][Next]_vars

(* The poll loops go on, and repair and claim; a backoff runs out, leases  *)
(* nobody renews run out, and executions go on.                            *)
Fairness ==
  /\ WF_vars(\E t \in Turns : RepairEnqueue(t))
  /\ WF_vars(\E claimed \in {Claimed({})} : ClaimJobs(claimed))
  /\ WF_vars(\E j \in Created : LeaseRunsOut(j))
  /\ WF_vars(\E j \in Created : \E g \in 1..job[j].gen : Execute(j, g))

FairSpec == Spec /\ Fairness

(* ---- what should hold ------------------------------------------------- *)

(* Every variable has its type; a job has a lease exactly while it is      *)
(* being processed, and is claimed no more often than it has attempts or   *)
(* faults took it from a worker (claim_generation_jobs, finish_generation, *)
(* retry_generation).                                                      *)
TypeOK ==
  /\ thread \in [Threads -> {"active", "deleting", "deleted"}]
  /\ enqueued \in [Turns -> {"none", "not_requested", "enqueued", "enqueue_failed"}]
  /\ job \in [Jobs -> JobRow] /\ exec \in [Jobs -> [Generations -> ExecState]]
  /\ summary \in [Users -> SummaryRow]
  /\ buried \in [Users -> [turns : SUBSET Turns, sources : SUBSET Turns]]
  /\ suspended \in BOOLEAN /\ late \in SUBSET Turns
  /\ {revived, acts, faults} \subseteq Nat
  /\ \A j \in Jobs : /\ job[j].lease = "none" <=> job[j].status # "processing"
                     /\ job[j].gen <= MaxAttempts + faults

(* The jobs that hold a lease are no more than the slots, the automatic    *)
(* ones leave the reserved slots to the others, and a user has one job     *)
(* processing.  A lease taken back after it ran out may exceed the slots.  *)
SlotsKept ==
  /\ Cardinality({j \in Jobs : Holding(j)}) <= Concurrency + revived
  /\ Cardinality({j \in Jobs : Holding(j) /\ Trigger(j) = "auto"}) + Reserved
       <= Concurrency + revived
  /\ \A j, k \in Jobs :
       job[j].status = "processing" /\ job[k].status = "processing" /\ User(j) = User(k)
         => j = k

(* A turn says that its generation was enqueued exactly when it has its    *)
(* automatic job, and it has one only: neither an insertion that failed in *)
(* its savepoint, nor a repair, nor a request of the user makes a second.  *)
Automatic(j) == job[j].status # "absent" /\ Trigger(j) = "auto"

OneAutoJob ==
  /\ \A t \in Turns : enqueued[t] = "enqueued" <=> \E j \in Jobs : Automatic(j) /\ Turn(j) = t
  /\ \A j, k \in Jobs : Automatic(j) /\ Automatic(k) /\ Turn(j) = Turn(k) => j = k

(* What a user deleted does not come back: a summary is made of no turn    *)
(* that was there when the topic was last deleted, whatever job was under  *)
(* way with a plan, retried or asked for then.                             *)
NotFromDeleted ==
  \A u \in Users : summary[u].live => summary[u].sources \intersect buried[u].turns = {}

(* A deleted thread is not a source that can be opened, unless a commit    *)
(* had read the thread before the deletion and wrote after its clean-up.   *)
DeletedSourcesMarked ==
  \A u \in Users : \A t \in summary[u].sources :
    thread[ThreadOf[t]] = "deleted" => t \in summary[u].gone \union late

(* A summary is shown as in conflict exactly while a review is pending,    *)
(* through flags, dismissals, merges and deletions in any order.           *)
ConflictShown ==
  \A u \in Users : summary[u].conflict <=> summary[u].reviews # {}

(* Jobs are the steps of SummaryContract: each contributes at most once,   *)
(* in the step that ends it, on the version it was planned for, and a job  *)
(* that has ended stays ended.                                             *)
Outcome ==
  [j \in Jobs |-> CASE job[j].status = "absent" -> "none"
                     [] job[j].status \in Open -> "open"
                     [] job[j].status \in {"succeeded", "needs_review"} -> "written"
                     [] OTHER -> "closed"]

Contract ==
  INSTANCE SummaryContract WITH
    about <- [j \in Jobs |-> Turn(j)], ReaderOf <- [t \in Turns |-> UserOf(t)],
    topic <- [u \in Users |-> [live |-> summary[u].live, id |-> summary[u].id,
                               version |-> summary[u].version,
                               sources |-> summary[u].sources]],
    asked <- {t \in Turns : enqueued[t] # "none"},
    old <- [u \in Users |-> buried[u].turns],
    outcome <- Outcome,
    basis <- [j \in Jobs |-> [id |-> job[j].plan.id, version |-> job[j].plan.version]]

FollowsContract == Contract!Spec

(* Every turn gets its job and every job ends, also when workers die, lose *)
(* leases or see calls fail: again and again nothing is left to do.        *)
(* Automatic jobs wait while they are suspended, or for a slot that is not *)
(* reserved; and a window that is filled by jobs of users whose expired    *)
(* job lies outside of it lets nobody through.                             *)
Settled ==
  /\ \A t \in Turns : enqueued[t] # "enqueue_failed" \/ suspended
  /\ \A j \in Jobs : job[j].status \in Open =>
                       Trigger(j) = "auto" /\ (suspended \/ Reserved = Concurrency)

Blocked == Window({}) # {} /\ Claimed({}) = {}

JobsEnd == []<>Settled \/ <>[]Blocked
================================================================================
