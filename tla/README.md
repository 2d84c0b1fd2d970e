# Formal models of the xueshen backend

This directory holds TLA+ models of the asynchronous core of the backend under
`src/backend`, the TLC configurations that check them on small instances, and
TLAPS proofs of their main invariants for instances of every size. The models
are translated from the code; where a document and the code differ, the model
follows the code and the difference is a finding.

Tools: `tlc -workers 2 -config X.cfg M` checks a module, `tlapm M.tla` checks
its proofs. `PROJECT.json` lists runs, mutants, the map from definitions to
source lines, findings, hazards and theorems.

## 1. The system

One FastAPI entry point and a number of worker processes, each domain with its
own PostgreSQL database. Within a domain, processes communicate through tables
(claims with leases, compare-and-set updates, advisory locks); between domains
through transactional outboxes whose publishers call the other domain's API.

| component | state it keeps | operations | hard behaviour | what makes it correct |
|---|---|---|---|---|
| memory: operation queue | `memory_operations` rows (status, lease, generation, attempts, commit mark, cancel flag, batch) | submit, claim, heartbeat, execute, mark and commit, complete, reschedule, recover, cancel | several workers, the gateway's fast path, lost leases, hard timeouts, crashes, cancels at any moment | results only from the lease holder; no operation or member left behind; a cancel means no commit |
| memory: evidence pool and nightly batch | evidence rows, `memory_maintenance_runs`, batch operations, the checkpointed state of the batch graph | submit, select, assign, run, release, settle, sweep the run of the day | selection and assignment in separate steps, executions that overlap after a lost lease, members that fail alone | evidence keeps its lifecycle, is written once, is settled in the end, none is lost |
| memory: outbox | `memory_outbox`, `memory_outbox_deliveries` | insert in a commit, claim a batch, deliver per target, mark, finalise, reschedule, recover | batches under one lease, several targets per event, late writers, stops in the middle | each target acts once per event; no event is forgotten |
| memory: commits | documents, versions, commits, tombstones, index entries, files (`versions/`, `current/`) | commit plans, forget, restore, rebuild the index | file and database written in separate steps, operations executed again, per-user lock | no version is given twice, the active version has its file, no commit drops another |
| memory: projection into the knowledge graph | graph links, overlays, audits | apply or recompute a projection, user command | events of old versions arrive late or twice | an overlay is supported by active evidence |
| memory: maintenance gate | durable active flag, advisory locks, per-process count | enter and leave traffic, restore | flag and lock are read and written separately, crashes of the restore | no traffic during a restore |
| memory: search, context, readers, catalogue | none | queries | - | - |
| conversation: turns | turn rows (status, lease, generation, attempts), events, messages | accept, claim, renew, run the answer graph, cancel, finish | reclaim of expired turns, cancelling turns, overlapping workers | one terminal status, one answer, every turn ends |
| conversation: outbox, jobs | outbox and job rows | insert, claim, deliver, retry, dead-letter | leases per batch | evidence reaches the memory once per key |
| conversation: rollout segments | manifest rows, hot files, objects | register, rename, append, seal, reconcile | file, object and row are written in three systems | a sealed row has its object; one active segment per turn |
| conversation: knowledge summaries | summaries, versions, generation jobs | enqueue, claim, generate, publish, edit, retain | slots per trigger, one job per user, edits during a generation | no lost edit, no starved trigger |
| study: operations, feed, plans | operations, user leases, feed runs, plans, revisions, tasks | claim, run, finish, scan, replan, confirm | user lease, no lease recovery, retries through the failure path | operations end; one at a time per user |
| study: publisher; community: activity publisher | outbox rows | claim, deliver, retry | lost publishers | every event delivered or given up |
| community: posts, boards, attachments | rows | single transactions under row locks | races of reviewers | one review per application |
| auth: sessions | refresh token families | login, rotate, logout, replay detection | concurrent refreshes | a replayed token ends its family |
| rag | corpora, chunks | import, retrieve | - | - |

The domains meet in three places: conversation, study and community publish
activity as evidence operations of the memory (deduplicated by an idempotency
key); the memory's outbox turns commits into projection operations,
notifications and event log entries of its own; all memory processes pass the
maintenance gate.

The hazards of this code, with their lines, are listed in `PROJECT.json`.

## 2. Plan

Modules, in the order of what the system depends on most:

1. `MemoryOperations` implementing `OperationContract`: the lease, the mark, cancellation, members of a batch
   (done: checked and proved).
2. `EvidenceBatch` implementing `EvidenceLifecycle` (done: checked and proved).
3. `MemoryOutbox` implementing `OutboxContract` (done: checked and proved).
4. `MemoryCommit` implementing `DocumentHistory` (done: checked and proved).
5. `ConversationTurns` implementing `ThreadContract`: turns, publisher and
   deletion of a thread (done: checked and proved).
6. `SummaryGeneration` implementing `SummaryContract` (done: checked and proved).
7. `StudyPlans`: operations, replanning and decisions (done: checked and proved).
8. Not begun: the rollout segments of a turn, the feed runs of the study domain,
   the projection of commits into the knowledge graph (which would stand on
   `OutboxContract`), the maintenance gate.

Abstract specifications: `OperationContract`, `EvidenceLifecycle`,
`OutboxContract`, `DocumentHistory`, `ThreadContract`, `SummaryContract`.
Theorems, per module: the type invariant, the inductive invariant behind its
safety properties, the step simulation of its abstract specification, and the
budgets: how often something is claimed, tried, written or proposed. The budgets
also show that the bounds of the models hide nothing: a claim, a job or a
revision for which the model has no number left is one that the code's own limits
and the number of faults exclude.

One instance per question: each component has one run that checks its safety
and, where the instance stays small, its liveness together; a second one only
where faults and breadth do not fit in one instance; a violation run only for
the clearest disagreement of a component.

## 3. MemoryOperations and OperationContract

Models `persistence/operations.py`, `worker/worker.py`,
`graph/runner.py`, the mark and the transaction boundary of
`MemoryService.commit_plans`, the cancel endpoint and the gateway's fast path.

| state | code |
|---|---|
| `row[o]` | a row of `memory_operations`; `expired` and `due` stand for the comparison of `lease_expires_at` and `next_run_at` with `now()` |
| `task[o][g]` | the asyncio task that the g-th claim of `o` started; it lives on after its lease is lost |
| `cancel[c]` | a cancel request between its unlocked read and its update |
| `faults` | bound on crashes, hard timeouts, late heartbeats, maintenance stops |

Each action is one database transaction or one step of the task between two
awaits: `ClaimOperations`, `ClaimFastPath`, `Heartbeat`, `LeaseExpires`,
`RecoverExpiredLeases`, `StartExecution` (clears a mark left by a crashed
holder), `CheckCancel`, `GraphEnds`, `MarkCommitStarted`, `CommitTransaction`,
`ClearCommitStarted` (the `finally` clause), `HardTimeout`, `Crash`,
`WriteResult` (complete with settling of the members, or reschedule), and the
read and the write of a cancel. What the graph computes is nondeterministic.

Run `operations` checks a batch operation with one member, one worker and the
gateway, three claims, two attempts, one fault, two cancels, one commit per
execution (1.0M states). Two actors that can hold the lease, one loss of it and
a claim after that are what every fencing property needs; the proofs cover all
other sizes.

`OperationContract` says, without workers, leases, heartbeats, marks and retry
counters: an operation is decided at most once, by the last of its claims and
while that claim is in force; a batch is decided together with the members it
still has, in one step; only a cancel replaces a decision, and it gives the
members back.

The run checks `MarkProtectsHolder` (the commit mark is set while the holder is
in its commit), `ClaimsPaidFor` (the budget of claims), `NoStrandedMember`,
`FollowsContract` (the refinement) and under fairness `EventuallySettled`.

Proved for all constants in `MemoryOperations_proofs`, from `OpsAssumption`:

- `TypeCorrect`, `CommitMarked`, `MembersNotStranded`, and the two facts the
  contract rests on, `FencedResults` and `TerminalIsFinal`. The inductive
  invariant `IInv` adds to them that attempts equal generations (`RowsAgree`:
  every claim increments both), that no execution exists beyond the row's
  generation (`TasksAgree`; without it a new claim could find an execution with
  its own generation) and that a cancel that decides has an operation
  (`CancelsAgree`). The proof handles the many steps that change one row or one
  execution through lemmas about "calm" steps, which keep the parts of the row
  the invariant reads.
- `ImplementsContract`: `Spec => FollowsContract`. A late execution cannot
  decide, because `IInv` says its generation is not the row's; the generation
  alone would not be enough (recovery and a result leave it as it is), so the row
  must be running as well: the mutant that keeps only the generation breaks the
  refinement.
- `ClaimBudget`: `ClaimsPaidFor`, an operation is claimed `max_attempts` times
  and once more at most per fault. Recovery does not look at the attempts, so
  the number of faults is really part of the bound. The invariant `PaidInv` says
  that the next claim is paid for whenever one can come: while the row waits,
  and while its holder is gone. `EnoughGenerations` is the converse for the
  model: with `MaxGeneration >= MaxAttempts + MaxFaults` no claimable operation
  is kept from a claim by the bound.
- `EventuallySettled` is only model-checked. Fairness: worker polls, the
  scheduler's recovery, every live execution (the hard timeout bounds the
  graph), the clock. Heartbeats, cancels and faults get none. It holds because
  faults are finitely many; the code itself has no limit (see below).

Finding (`cancelled_commits`): a cancelled operation can still commit.
Other differences seen while modelling, without a run of their own:
`request_cancel` overwrites a `succeeded` or `dead_letter` row it had read as
queued (operations.py:445, spec 11.6 lines 1608-1612 asks for the row lock); the
cancel flag is read once, before the graph runs, not before every commit
(operations.py:463, spec line 1609); lease recovery re-queues without looking at
`max_attempts` (operations.py:410, spec 11.2), so an operation whose executions
crash is retried for ever.

## 4. EvidenceBatch and EvidenceLifecycle

`EvidenceBatch` models the pool (`pending_batch` rows), the scheduler's batch
task (`worker/scheduler.py`: selection, assignment, creation of the batch
operation, cursor, sweep and closing of the day's run), the batch graph
(`graph/batch.py`: load, begin, record, release, finalise) and what
`settle_batch_members`, `release_batch_member` and `request_cancel` do to the
rows. The lease is abstracted to what `MemoryOperations` shows: a generation per
claim, a compare-and-set on every write, executions that live on.
`next_run_at` is a stamp of a logical clock, which is all the order of the pool
and the cursor use. `EvidenceLifecycle` is the promise: evidence is submitted,
taken by a batch only out of the pool, released or settled, and never changes
once terminal except by a cancel.

- `evidence_night`: two members, two batches, cancel of member or batch,
  failing members and a failing release (0.8M states). `FollowsLifecycle` (the
  refinement), `MembersWaitForLiveBatch`, `RunClosesWhenDone`, `WrittenBounded`.
  Two members are needed for a batch in which one fails and one succeeds, two
  batches for a release followed by another batch.
- `evidence_faults`: one member, two batches of two attempts and three claims, a
  lost lease or crash (0.3M states). `SucceededWasConcluded`, and under fairness
  `EvidenceSettles`. Two batches are enough because a member has two attempts.

`WrittenBounded` allows one more writing of a member for each lost lease and each
cancel that was carried out: with them the code does write twice, see below.
Nothing else may: not a release, a retry, another batch or a commit half done.

Proved for all constants in `EvidenceBatch_proofs`, from the conditions of
`EvidenceAssumption` alone, in five layers:

- `TypeCorrect` and `WaitsForLiveBatch`, from `IInv`. The bound on the clock is
  the hard part of the type: `IInv` says the clock equals the number of stamps
  in the rows (one for becoming due, one per release that did not give the row
  up), and these are a subset of members times attempts, so a release that did
  not count its attempt would break it. `IInv` also says that a row in a batch
  has been due and its batch exists, that an execution has a member at hand when
  it needs one and a verdict when it ends, and that cancels were asked about
  something that exists. The position of the new cursor needs that a set of
  members has a last one (`Extremes`, from the well-foundedness of strict
  inclusion on finite sets).
- `KeepsLifecycle`: `Spec` implements `EvidenceLifecycle` under the refinement
  mapping, step by step from `IInv`.
- `NothingLost`: as long as no release transaction failed,
  `SucceededWasConcluded`. `CInv` says that every row waiting in a batch is
  concluded or still at hand (`todo`, `failed`, the current member) of each
  execution of that batch, lost leases, overlapping executions and cancels
  included. The condition is the divergence named below; the run has
  `MaxReleaseFaults = 0` for the same reason.
- `EvidenceWrittenBounded` (`WrittenBounded`), with `EvidenceWrittenOnce` for an
  undisturbed system as its corollary. An execution that may still write a member
  is rightful while its claim is in force and the member waits in its batch;
  there is one such execution at most, since a row waits in one batch and a batch
  has one claim in force. All others are strays, and the invariant counts them:
  there are at most as many strays of a member as there were disturbances, and
  its writings, with those that are in a commit, are at most one more. Losing a
  lease and carrying out a cancel are the only steps that make a stray, and each
  pays for the one it makes.
- `BatchClaimBudget`: a batch is claimed as often as its attempts allow and once
  more per lost lease; `EnoughGenerations` is the converse for `MaxGeneration`,
  as in section 3.
- `RunClosesRightly` follows from `IInv` and `Extremes`: when nothing is pending
  after the cursor, no due evidence is after the cursor, for any batch size.

`EvidenceSettles` is only model-checked. Its fairness: time, scheduler ticks,
claims, lease recovery and the steps of executions; no submission, cancel or
fault has to happen.

Finding (`committed_dead_lettered`): a member that is written can end as
`dead_letter`. Other differences seen: evidence cancelled after the batch has
loaded is still written (graph/batch.py:199 against operations.py:701-703); two
overlapping executions both write a member, because the check of
graph/batch.py:351 and the commit are separate transactions (against
graph/batch.py:21-23); `release_batch_member` does not ask which batch the
member is in (operations.py:792 against 781); a released member is taken again
the same night, because its new `next_run_at` lies after the cursor
(operations.py:818 against 770); when the release transaction fails it is only
logged and the member is settled as succeeded (graph/batch.py:660 against
539-541), which `MaxReleaseFaults` reproduces.

Left out: other users (the limit on users per tick), the contents of memories,
the consolidation stage; a scheduler tick reads its inputs in one step.

## 5. MemoryOutbox and OutboxContract

`MemoryOutbox` models `persistence/outbox.py` and `worker/outbox_consumer.py`:
events with a delivery per target, claimed in batches by consumers with one
heartbeat per batch, delivered in the order of `list_deliveries` from a copy
read at the start, each side effect and its mark in one transaction under the
fence, finalised or rescheduled, recovered by the scheduler. `con[c]` is a
consumer process with the rows it claimed and the deliveries it read; `ran`
counts committed side effects and is history; `refused` collects events that met
the unique key.

`OutboxContract` says: an event is accepted once per key, each of its targets is
reached at most once, and the event is then published, when all targets were
reached, or given up.

Run `outbox`: a mastery event (two targets) and a learner event (one), two
consumers, batches of up to two, two attempts, one fault. `LedgerExact` (a
delivery says succeeded exactly when its side effect committed once),
`FollowsContract` (refinement), and under fairness of polling, work, recovery and
time `EventSettles`. One fault is enough for a lease to be lost in the middle of
a batch while the late consumer goes on.

Proved for all constants in `MemoryOutbox_proofs`: `TypeCorrect`,
`LedgerIsExact` and `ImplementsContract` (Spec => OutboxContract!Spec under the
refinement mapping). The inductive invariant is `TypeOK`, `LedgerExact`, that
deliveries exist for the event's targets only, that a consumer is at a row it
holds in its list (`AtRow`), and that a fenced consumer finds open what it has
not yet done (`LeftOpen`); the last two are what makes the finalisation a step of
the contract. Assumed: the conditions on the constants only
(`OutboxAssumption`).

`AttemptBudget` (`AttemptsBounded`): a delivery is tried `max_attempts` times and
once more at most for every fault, although whether an attempt is the last is
decided from the count that was read with the batch. The invariant pays in
advance: the attempts of a delivery, plus one if a consumer that holds the row
may still try it (`Tried`), plus one if the row may be claimed again for it
(`Again`), stay within the budget. A consumer that was fenced out cannot count an
attempt, and the fault that fenced it out pays for that of its successor.

Finding (`outbox_refused`, a bug of the code): the unique key lacks the user, so
the event of a second user's commit is dropped. Also seen: one target out of
attempts takes the event to `dead_letter` while others have attempts left
(outbox.py:246 against outbox_consumer.py:5).

Left out: what a target does beyond being done, the maintenance gate; the
attempt count of the row itself only sets the backoff; a consumer identity is
reused after a restart.

## 6. MemoryCommit and DocumentHistory

`MemoryCommit` models how the documents of one user are written: the plans of
`graph/summary.py`, the commands of `graph/memory_command.py`, `commit_plans`,
`forget`, `restore` and `rebuild_index` of `services/memory_service.py`, the files
of `storage/local_markdown.py`, and three tasks of `graph/maintenance.py`
(`purge_tombstones`, `cleanup_orphan_versions`, `verify_checksums`).

| state | code |
|---|---|
| `doc[d]` | a row of `memory_documents`: active version and its text, deleted version, whether `tombstone_until` has passed |
| `commit[d][v]`, `mutations` | the texts (checksums) `memory_commits` has for version `v`, and the `mutation_id`s of its rows |
| `index` | the `index` document: the versions it lists, `index_dirty_at` |
| `versions`, `quarantine`, `current` | the file tree |
| `request[o]` | an operation: a summary, or a command with its document and the version its sender saw |
| `plan[x]` | the `CommitMutationPlan`s of an execution, with the versions they expect |
| `exec[x]` | an execution between two awaits; several may run for one operation after a lost lease |
| `refs[d]`, `checked[d]` | what a maintenance task has read and not yet used |
| `swept` | files the orphan clean-up removed (history) |

A text is the set of updates it contains and the execution that rendered it:
two renderings differ, because `updated_at` does, and so do their checksums and
file names. A summary is five actions: `PlanWrite` (the drafts of this execution,
new `mutation_id`s, the versions that are active now), `Render` (from versions
read without a lock, files written), `MarkCommitStarted` (fails for all but the
last execution of the operation), `CommitTransaction` or `CommitRefused` (under
the user lock), `Materialize` (the copy under `current/`). A forget is its
transaction, the removal of the copy and the move to the quarantine; a restore is
its transaction, which also writes the file, and its copy. A process that stops
leaves its execution where it is. A version conflict ends the operation
(`MemoryVersionConflictError` is not retried), a violated CHECK only the
execution.

An operation that is executed again runs its whole graph again:
`LocalLangGraphRunner.run` passes an input on the thread of the operation
(graph/runner.py:360), so that the checkpoint is not resumed, and the planning
reads the versions and makes the `mutation_id`s anew (graph/summary.py:669, 682).
Hence `plan` and `mutations` belong to executions, and the two replay checks of
`commit_plans` (memory_service.py:545-573, 634-650), which look for the
`mutation_id` of a plan among the commits, are not modelled: no execution can
present one that was committed.

`DocumentHistory` says, without files, versions and locks: an execution adds its
update to all documents it is about or to none; a forget hides a document as it
is, a restore brings it back as it was, and only the end of the tombstone loses
anything. It does not say that an operation is taken in once, because that does
not hold (below).

Run `memory_commit`: two documents, one of which exists, two operations, three
executions, two plans together (the code allows eight for one operation), one
maintenance task (0.5M states). Three executions give every overlap of a summary
with another one, a forget or a restore, a repetition after a commit, a refusal
or a failure, and a repetition of one operation while the other is between its
plan and its commit; two documents and two plans an execution that is refused
for one of its documents only; the document that does not exist gives the
create. A commit of the model that is forgotten and restored takes three
operations: it is beyond the run and covered by the proofs only.
`VersionReadable`, `CleanIndexIsCurrent`, `FollowsHistory` (the refinement),
`VersionsNeverReused` (what a version number names never changes, which the
optimistic lock and the commands rest on), and under fairness
`CurrentConverges`. Fairness: a maintenance task that has begun ends, and
`verify_checksums` comes to each document again and again (strong, because the
document may be deleted and restored meanwhile). Executions get none.

Proved for all constants in `MemoryCommit_proofs`, from `CommitAssumption`
alone: `TypeCorrect`, `VersionsReadable`, `IndexCurrent`, `VersionsFinal` and
`ImplementsHistory`. The parts of the inductive invariant `IInv` that do the work:

- the versions of a document are 1 to the last, and the texts of one version
  contain the updates of the same executions (`Alike`): this is why it does not
  matter which of several rows a restore finds;
- a rendering continues the version it was based on (`Continues`), and a version
  it expects is not above that one unless it has passed for good (`RenderedOK`):
  a commit that is accepted therefore continues the newest version;
- every text of the newest version has its file. This is stronger than
  `VersionReadable`, which is about the active text only, and is needed because
  a forget makes all texts of that version restorable;
- an index that is not dirty lists the active versions.

`VersionsFinal` and the refinement both follow from what a step may do to a
document (`DocStep`: nothing, forget, expire, or extend it by the next version).

`CurrentConverges` is only model-checked.

Finding (`plans_for_one_memory`, a bug of the code): of two plans of one
execution for the same memory both are committed and the update of the first is
lost. Other differences seen while modelling, without a run of their own:

- A summary that is executed again after its commit (the worker stopped before
  it settled the operation) commits its update a second time, as a new version.
  The specification wants the first commit recognised by its `mutation_id`
  (src/memory-manager-execution-spec-v1.1.md:97 「所有写操作幂等，不出现重复
  commit。」, 1484, 1576, 1604), and so does summary.py:734; the test of the
  replay (tests/failure_recovery/test_mutation_replay.py:101-130) calls
  `commit_plans` twice with the same plans, which the runner never does. In a
  batch the members that have a commit are skipped (section 4).
- A create for a forgotten document always violates the CHECK of
  `memory_documents` (`set_active_version` leaves the tombstone), so the
  operation is retried until it is a dead letter; the specification
  (src/memory-manager-execution-spec-v1.1.md:380, 1150) lets the document come
  back under the same `memory_id`.
- The DELETE of `purge_tombstones` is refused by the foreign key of
  `memory_commits`: the files are gone, the row stays, and the task fails the
  same way every day (`PurgeTombstone`).
- `cleanup_orphan_versions` does not look at the age of a file (line 1104 of the
  specification: 24 hours): a file whose commit is about to take place can be
  deleted. `VersionReadable` exempts what was `swept`; nothing else is exempt.
- A refused summary is not planned again (line 1575 asks for two rounds).
- A copy that comes after a forget leaves the deleted text under `current/`, and
  `verify_checksums` looks at active documents only.
- A command gets a new `mutation_id` in each execution as well
  (graph/memory_command.py:84-144): its version has passed by then, so that an
  execution after a crash is refused instead of returning the first result.
- `migrate_markdown_schema_v2`, off by default, makes a file active without a
  row in `memory_commits`; the next orphan clean-up deletes it.

Abstractions: the versions of the plans of one execution are read together,
where the code reads them one after the other (a mixture of old and new
versions is refused like an old one); maintenance works on one document at a
time. Left out: the commands that replace a whole text (`correct_memory`,
`override_learner_profile`: they drop updates by intention), review decisions
and the consolidation, which commit in the same way; evidence references, links and titles inside the texts, search
entries, suppressions, the contents of events, the migration to schema v2, the
purge of an account.

## 7. ConversationTurns and ThreadContract

`ConversationTurns` models one thread: `services/conversation_service.py` and
`api/turns.py` (create, cancel, delete), `persistence/turns.py` and
`worker/graph_worker.py` (claim, heartbeat, recovery from the checkpoint, end),
`graph/nodes/finalize.py` and `memory_ack.py`, the outbox and its publisher
(`persistence/outbox.py`, `publisher/outbox_publisher.py`), and the
`delete_thread` job (`persistence/jobs.py`, `services/thread_deletion.py`).

| state | code |
|---|---|
| `thread`, `turn[t]` | the thread's and the turns' rows, with a turn's messages and terminal events |
| `ckpt[t]` | whether the checkpoint of the graph is absent, open or at its end |
| `worker[w]`, `cancel` | an execution between two awaits; a cancel request between its read and its update |
| `outbox[r]`, `pub[p]` | the row of a turn's evidence or of the deletion of its source; a publisher with its batch |
| `job`, `jobber[j]` | the deletion job and its workers |
| `known`, `forgotten` | what the memory has accepted |
| `answers`, `undelivered` | history: completions per turn; evidence under way when the deletion began |

`ThreadContract` says, without leases, workers, attempts or jobs: one question
at a time; its end stays; a cancelled question gets no answer; only answers are
shared with the memory; the thread is gone only when nothing is open.

Run `turns`: one turn, two graph workers, two publishers, a job worker, two
attempts of each kind, one fault (150 k states). Two actors of each kind and one
fault give a lease that is lost in use, with the old and the new holder going on
together; two turns with one worker were checked during development (0.6 M
states), and the theorems hold for any number. `AnswersWhole`,
`DeletedIsForgotten`, `FollowsContract`, and under fairness `TurnEnds` and
`DeletionEnds`. Fairness: the poll loops of workers, publishers and job workers,
their steps, and the clock; requests of users and faults get none.

Proved for all constants in `ConversationTurns_proofs`: `TypeCorrect`,
`AnswersAreWhole`, `DeletedThreadIsForgotten`, `ImplementsContract`, and
`ShownIsSo` (`AcceptedIsKnown`: what a turn shows of the memory, and what a
delivered row says, is so). No write of a
turn's end compares a lease generation, so the proof rests on what each process
may rely on: a worker at a turn that is still its own finds it running
(`WorkersFit`), a publisher at hand has an existing row, at "mark" one the memory
has accepted (`PublishersFit`), rows of deletions exist only after the deletion
began and only for what was delivered, and every evidence row is then
undelivered in the sense of the history or has its deletion row (`RowsFit`). The
two liveness properties are only model-checked.

What the properties except, and what was seen on the way:

- An execution that is fenced out when it persists its answer still runs its
  graph to the end and closes the checkpoint. The next holder resumes from there
  (graph/runner.py:58), does nothing, raises nothing, and so never compares its
  attempts with their limit: the turn stays running until somebody cancels it or
  deletes the thread. `TurnEnds` excepts this case.
- Evidence on its way when the deletion begins is not withdrawn: only rows
  already delivered get a deletion row (conversation_service.py:276-286), while
  the publisher looks at the thread without a lock before it sends.
  `DeletedIsForgotten` excepts the `undelivered`.
- `cancel_turn` does not look at the number of rows it changed
  (api/turns.py:132-147), so it can answer with a cancellation that was not.
- A wait of the deletion job costs one of its attempts, although `wait_job` says
  it does not (jobs.py:224).
- `memory_submission_status` can go back from accepted to retrying.

Left out: streamed events before the terminal ones, retention, the jobs for
titles and summaries (which write unfenced, also after the clean-up), the rollout
segments.

## 8. SummaryGeneration and SummaryContract

`SummaryGeneration` models the knowledge summaries: the jobs
(`persistence/knowledge_summary_generations.py`, their insertion in
`graph/nodes/finalize.py` and its repair), the claim of
`worker/knowledge_summary_worker.py`, the execution
(`services/knowledge_summary_generation.py`) from the frozen input over recall
and plan to the commit, and what users do: edit, delete, dismiss a review, ask
again, delete the thread.

| state | code |
|---|---|
| `thread`, `enqueued` | thread rows; the turns' enqueue status |
| `job[j]` | a generation job: trigger, status, lease, `lease_generation`, the merge plan stored on it with the summary and version it was made for |
| `exec[j][g]` | the execution of the g-th claim of `j`, which may outlive its lease |
| `summary[u]`, `buried[u]` | the summary of the user's topic; what the tombstones of the topic hold |
| `suspended` | the runtime control row |
| `revived`, `late` | history: leases renewed after they ran out; turns in their commit when their thread was deleted |

`SummaryContract` says: a job is open, then it has written or is closed for
good; it writes at most once, on the version its plan was made from, and never
about a turn that was there when the topic was last deleted.

Run `summaries`: three turns of two users in two threads, two slots of which one
is reserved, two attempts, one act of a user besides deletions and dismissals,
one fault (0.3 M states). Two users are needed for the skip of a user who is
served, two turns of one user for a merge, a stale version and a deletion
between plan and commit. `SlotsKept`, `NotFromDeleted`, `DeletedSourcesMarked`,
`ConflictShown`, `FollowsContract`, and under fairness of polling, execution and
the clock `JobsEnd`.

Proved for all constants in `SummaryGeneration_proofs`: `TypeCorrect`,
`SlotsAreKept`, `DeletedStaysDeleted`, `SourcesMarked`, `ConflictMeansReview`,
`ImplementsContract`. `SummariesAssumption` is all that is assumed. Each action is
first shown to do one of a dozen things to one job (`JobStep`) and one of five to
a summary (`SummaryStep`); the rest is about those. The invariant says what a row
and the executions of its claims agree on (`JobsFit`: only the last claim is in a
commit, every claim beyond the attempts was paid for by a fault), and what an
execution behind its fence may rely on: one that was about to create a summary
finds none (`FreshFits`, since another job of the user cannot be processing), one
that is in its commit when its thread is cleaned up is recorded as late
(`LateFits`). `EnqueuedOnce` (`OneAutoJob`): a turn is marked as enqueued exactly
when it has its automatic job, and it has one only. `EnoughNumbers`: every job was
paid for by a turn that is enqueued or an act of a user, so that a turn, a repair
and a request find a number for their job, and a claim finds one for its
execution. `FirstFew`, that at most n jobs have fewer than n before them, turns
LIMIT and the reserved slots into a bound on what a poll claims. `JobsEnd` is only
model-checked.

What the properties except, and what was seen on the way:

- The LIMIT of the claim comes before the skips of users who are served
  (knowledge_summary_generations.py:104-217): a window filled with jobs of such a
  user lets nobody else through. `JobsEnd` excepts a window that stays blocked.
- A renewal does not look whether the lease has run out (line 219), so a late
  heartbeat takes back a slot that was given away; `SlotsKept` counts these
  (`revived`).
- A stored plan that no longer fits raises outside the try block and is not
  cleared: the job is retried with it until it is a dead letter, where the
  specification of the feature asks for a new plan.
- The commit reads the thread's status without a lock; sources of a thread
  deleted meanwhile stay available (`late`).
- Settings allow as many reserved slots as slots (settings.py:853): automatic
  jobs then never run.
- A turn whose job was cancelled because its source changed can never be
  requested again.

Abstractions: a summary written for a turn has that turn as its source, where a
merge may also cite earlier turns of the thread (one that was removed makes the
insertion of the sources fail, and the commit with it); whether a topic was
deleted after a turn is decided by the order of turns and deletions, where the
code compares the time of the question with that of the deletion.

Left out: summaries that are only similar, with duplicates, renamings and the
conflict on the topic index; aliases, retention, listing, the cache of model
calls, `ops_retry`, the purge of an account.

## 9. StudyPlans

`StudyPlans` models one plan of one user: `study/worker/main.py` (claim, user
lease, execution, finish), `services/replan.py` (weekly replans, adjustments, the
copy of the tasks into a new revision), `services/plan_service.py` (decisions,
pause, archive), the activation and the tasks.

| state | code |
|---|---|
| `plan`, `rev[r]` | the plan's row with `current_revision_id`; its revisions |
| `task[r][i]` | tasks of a revision, counted by item and status |
| `op[o]`, `lease`, `todo[w]` | operations, the user lease, what a worker has claimed and not begun |
| `run[x]` | what a worker or a request is at, with what it has read |
| `done`, `late`, `crossed`, `overrun`, `lost` | history |

Run `plans`: one task, two workers, one request at a time, two weekly replans,
two attempts, one act besides decisions, two faults, three of these events
together (0.9 M states). One task suffices because tasks do not depend on each
other; two workers and two replans give an overtaken lease, and a proposal that
is decided while another is made. `OneAtATime`, `PlanKept`, and under fairness of
workers and requests `OperationsEnd`.

Proved for all constants in `StudyPlans_proofs`: `TypeCorrect`,
`ExecutedOneAtATime`, `PlanIsKept`, `TriedOneAtATime`, `NothingForgotten`,
`EnoughRows`. For the second the invariant counts
(`Accounted`): the workers that execute are at most those whose lease ran out
under them, plus one if the lease is held by one of them. For the third it adds
that a proposal has no tasks until it is put in force, that what a run has read
of the tasks is what they are, up to work done since, and that a run knows its
base. `TriedOneAtATime` (`OneTryAtATime`) says that an operation is in the hands of
one worker at a time and proposes at most one revision per try. The end of a try
does not look at the status, so this rests on `Tries`: nobody holds an operation
that is queued, and the revisions proposed for an operation, plus one while
somebody is still to propose for it, are at most its tries. `NothingForgotten`
(`NoneForgotten`) is the safety half of `OperationsEnd`: an operation that is
`running` is in the hands of a worker, or of the request that adjusts the plan,
unless that died, and one that `failed` has used up its attempts. `EnoughRows`
(`RowsLeft`) says that a revision always finds a number: the revisions are mapped
one to one to slots, one for the first revision, one for each try of each weekly
replan and one for each adjustment, and a run that is about to propose has a slot
left. `OperationsEnd` itself is only model-checked.

What the properties except, and what was seen on the way:

- A replan that is put in force automatically neither bumps the plan's version
  nor looks again at the revision in force (replan.py:390-404); a decision reads
  them without a lock (plan_service.py:379-393), although the documentation says
  both happen in one transaction under the lock of the plan. When they cross,
  two revisions end active, a rejected one is in force, or tasks are copied
  twice: `PlanKept` holds while nothing was `crossed`.
- Work completed between the copy of the tasks and its commit is lost (`late`).
- Operations of a worker or request that died stay running for ever
  (main.py:141); `OperationsEnd` excepts them (`lost`).
- An operation that finds its user busy is handed back through the failure path,
  so waiting costs attempts (main.py:351). The lease is never renewed, and
  released by operation only (main.py:171).
- The end of an operation is written without a fence: a second execution can put
  `needs_input` back over an operation the user has decided (main.py:254-269).
  An exception in that write turns an operation that is done into a failed one.
- A retry after a failure makes another proposal; the first stays proposed. The
  draft a plan starts with stays decidable after an adjustment.
- Calendar and lists select tasks by plan only, so the tasks of superseded
  revisions stay visible and can be done.

Left out: graphs that make a plan or a feed (feed runs are written unfenced, too),
skipping and rescheduling, tasks added from recommendations (a proposal made
before drops them), study sessions, availability, several plans of one user.

## 10. What is not modelled

See the components of `PROJECT.json`: calls of language models, prompt assembly,
read-only queries, configuration, front end, migrations; and those of section 2,
item 8. Hazards of these parts, and lesser ones of the modelled parts, that
`PROJECT.json` does not list:

- the restore sets the flag of the maintenance gate and then waits for its lock;
  a request passes the check of the flag and then takes the lock
  (maintenance_gate.py:116);
- hot file, object and manifest row of a rollout segment are written in three
  systems (rollout/sealer.py:427);
- the key of a projection operation lacks the action (outbox_consumer.py:133);
- `limited` is decided before the runs of the day are looked at
  (scheduler.py:589);
- the study publisher claims pending rows only (publisher/main.py:58).

## 11. Proved and only model-checked

Every invariant, every action property and every refinement that a run checks is
also a theorem for all values of the constants. The eight liveness properties
stay with TLC, because the prover does not handle fairness and `ENABLED`:
`EventuallySettled`, `EvidenceSettles`, `EventSettles`, `CurrentConverges`,
`TurnEnds`, `DeletionEnds`, `JobsEnd`, `OperationsEnd`. The four runs that show
a finding are counterexamples and need no proof.

The other way round, some theorems state invariants that no run lists:
`ResultFromLastClaim`, `SettledStaysSettled`, `WrittenOnce`, `ClaimsBounded`,
`AttemptsBounded`, `AcceptedIsKnown`, `OneAutoJob`, `OneTryAtATime`,
`NoneForgotten`, `NumbersLeft`, `RowsLeft`. The first three follow from a property
that a run checks; the others were checked with TLC on the instances of the runs
before they were proved.

No proof assumes anything but the named conditions on the constants, which TLC
evaluates in every run.
