----------------------------- MODULE MemoryCommit -----------------------------
(***************************************************************************)
(* How the memory of one user is written: commits of new versions, forget, *)
(* restore, the derived index, and the daily maintenance of the files.     *)
(*                                                                         *)
(* The database and the file tree are written in separate steps.  A commit *)
(* renders the new version from what it reads without a lock, writes the   *)
(* file, and checks in a transaction under the lock of the user that the   *)
(* version it was planned against is still the active one.                 *)
(*                                                                         *)
(* An operation may be executed again until one execution ends it.  Every  *)
(* execution runs the whole graph: it plans anew, with new mutation_ids    *)
(* and the versions it finds, so that the replay checks of commit_plans,   *)
(* which look for mutation_ids, never find any and are left out.           *)
(*                                                                         *)
(* The text of a version is the set of updates it contains, and the        *)
(* execution that rendered it (every rendering has its own updated_at and  *)
(* so its own checksum).  Leases are those of MemoryOperations, events     *)
(* those of MemoryOutbox.                                                  *)
(***************************************************************************)
EXTENDS Naturals, FiniteSets, FiniteSetsExt

CONSTANTS
  Docs,     \* memory_ids of the user
  Existing, \* those that have a first version when the model begins
  NOps,     \* operations (summaries and commands), numbered as they are sent
  MaxPlans, \* MAX_PLANS_PER_OPERATION
  NExecs,   \* executions of operations, numbered as they begin
  MaxNamed, \* bound: plans of all executions together
  MaxTasks, \* bound: maintenance tasks between their reading and their writing
  None

Ops == 1..NOps
Execs == 1..NExecs
Index == 1..MaxPlans

(* mutation_id: one for each plan of an execution.                         *)
Mutation == Execs \X Index

(* Execution 0 is one from before the operations of interest.              *)
Body == [muts : SUBSET Mutation, by : Execs \union {0}]

OldBody == [muts |-> {}, by |-> 0]

ASSUME CommitAssumption ==
  /\ Existing \subseteq Docs
  /\ NOps \in Nat /\ NExecs \in Nat /\ MaxPlans \in Nat \ {0}
  /\ MaxNamed \in Nat /\ MaxTasks \in Nat
  /\ None \notin Body \union Docs

(* A file of versions/ or quarantine/: v{version}-{checksum}.md.           *)
File == [doc : Docs, version : Nat, body : Body]

VARIABLES
  doc,         \* memory_documents
  commit,      \* memory_commits: commit[d][v]: the texts committed as v of d
  mutations,   \* memory_commits: the mutation_ids
  index,       \* memory_documents, the row of index.md, and its last version
  versions,    \* the files of versions/
  quarantine,  \* the files of quarantine/
  current,     \* current[d]: the text under current/
  request,     \* request[o]: the payload of operation o
  plan,        \* plan[x]: the plans of execution x, with the versions it has read
  exec,        \* exec[x]: the executions
  refs,        \* refs[d]: checksums an orphan clean-up of d has read, or None
  checked,     \* checked[d]: the row a verification of d has read, or None
  swept        \* files an orphan clean-up removed (history)

vars == <<doc, commit, mutations, index, versions, quarantine, current, request, plan,
          exec, refs, checked, swept>>

(* 0 stands for NULL; expired: tombstone_until <= now().                   *)
Document == [active : Nat, body : Body \union {None}, deleted : Nat, expired : BOOLEAN]

NoDocument == [active |-> 0, body |-> None, deleted |-> 0, expired |-> FALSE]

(* A command names its document and the version its sender saw; what a     *)
(* summary is about is found out when it is executed.                      *)
Request == [kind : {"none", "write", "forget", "restore"}, on : Docs \union {None},
            expected : Nat]

NoRequest == [kind |-> "none", on |-> None, expected |-> 0]

(* on[i]: the document of the i-th plan of an execution; several plans may *)
(* name the same one.                                                      *)
Plan == [on : [Index -> Docs \union {None}], expected : [Docs -> Nat]]

NoPlan == [on |-> [i \in Index |-> None], expected |-> [d \in Docs |-> 0]]

Listed(x) == {i \in Index : plan[x].on[i] # None}

Named(x) == {plan[x].on[i] : i \in Listed(x)}

(* pending: the plans still to be rendered, committed or materialised;     *)
(* base and body: what Render read and produced.                           *)
Running == {"planned", "rendered", "marked", "written", "forgotten", "removed", "restored"}

(* failed: the transaction was rolled back and the operation is retried.   *)
Execution == [pc : {"idle", "failed", "done", "refused"} \union Running,
              op : Ops \union {0},
              pending : SUBSET Index, base : [Docs -> Nat],
              body : [Index -> Body \union {None}]]

At(pc, o, I) == [pc |-> pc, op |-> o, pending |-> I, base |-> [d \in Docs |-> 0],
                 body |-> [i \in Index |-> None]]

FileOf(d, v, b) == [doc |-> d, version |-> v, body |-> b]

Init ==
  /\ doc = [d \in Docs |-> IF d \in Existing
                           THEN [NoDocument EXCEPT !.active = 1, !.body = OldBody]
                           ELSE NoDocument]
  /\ commit = [d \in Docs |-> [v \in IF d \in Existing THEN {1} ELSE {} |-> {OldBody}]]
  /\ index = [listed |-> [d \in Docs |-> doc[d].active], dirty |-> FALSE]
  /\ versions = {FileOf(d, 1, OldBody) : d \in Existing}
  /\ current = [d \in Docs |-> IF d \in Existing THEN OldBody ELSE None]
  /\ mutations = {} /\ quarantine = {} /\ swept = {}
  /\ request = [o \in Ops |-> NoRequest]
  /\ plan = [x \in Execs |-> NoPlan]
  /\ exec = [x \in Execs |-> At("idle", 0, {})]
  /\ refs = [d \in Docs |-> None]
  /\ checked = [d \in Docs |-> None]

ActiveFile(d) == FileOf(d, doc[d].active, doc[d].body)

Updates(d) == IF doc[d].active = 0 THEN {} ELSE doc[d].body.muts

(* A mistake: the index is marked only for documents it does not list.     *)
DirtiedByNew(D) == [index EXCEPT !.dirty = @ \/ \E d \in D : index.listed[d] = 0]

(* mark_index_dirty, in the transaction that changes the documents D.      *)
Dirtied(D) == [index EXCEPT !.dirty = @ \/ D # {}]

(* insert_commit of the texts B as version v.                              *)
Recorded(d, v, B) ==
  [u \in DOMAIN commit[d] \union {v} |-> IF u = v THEN B ELSE commit[d][u]]

MaxVersion(d) == Max(DOMAIN commit[d] \union {0})

(* The texts (checksums) the commits of d refer to.                        *)
Referenced(d) == UNION {commit[d][v] : v \in DOMAIN commit[d]}

Target(x, i) == plan[x].on[i]

Targets(x, I) == {Target(x, i) : i \in I}

(* The plans of I for document d.                                          *)
For(x, I, d) == {i \in I : Target(x, i) = d}

Is(x, pc) == exec[x].pc = pc

Goto(x, pc) == exec' = [exec EXCEPT ![x].pc = pc]

Ends(x, pc) == exec' = [exec EXCEPT ![x] = At(pc, @.op, {})]

(* A worker begins the next execution of an operation.  One that crashes   *)
(* takes no further step; one that only lost its lease may overlap with    *)
(* the next.                                                               *)
Begins(x, o, kind) ==
  /\ Is(x, "idle") /\ \A y \in Execs : y < x => ~Is(y, "idle")
  /\ request[o].kind = kind
  /\ \A y \in Execs : exec[y].op = o => exec[y].pc \notin {"done", "refused"}

(* The document of a command.                                              *)
Memory(x) == request[exec[x].op].on

maintenance == <<refs, checked, swept>>
database == <<doc, commit, mutations, index>>
files == <<versions, quarantine, current>>
-----------------------------------------------------------------------------
(* Operations arrive.                                                      *)

Sent(o, r) ==
  /\ request[o] = NoRequest /\ \A p \in Ops : p < o => request[p] # NoRequest
  /\ request' = [request EXCEPT ![o] = r]
  /\ UNCHANGED <<database, files, plan, exec, maintenance>>

SendSummary(o) == Sent(o, [NoRequest EXCEPT !.kind = "write"])

SendForget(o, d) ==
  /\ doc[d].active # 0
  /\ Sent(o, [kind |-> "forget", on |-> d, expected |-> doc[d].active])

SendRestore(o, d) ==
  /\ doc[d].deleted # 0
  /\ Sent(o, [kind |-> "restore", on |-> d, expected |-> doc[d].deleted])
-----------------------------------------------------------------------------
(* The summary graph, from its start to its commit.                        *)

(* prepare_commit_mutation_plans: the drafts of this execution, new        *)
(* mutation_ids, and the versions that are active now.                     *)
PlanWrite(x, o, on) ==
  LET D == {on[i] : i \in Index} \ {None} IN
  /\ Begins(x, o, "write")
  /\ on[1] # None /\ \A i, j \in Index : i < j /\ on[i] = None => on[j] = None
  /\ Cardinality({m \in Mutation : plan[m[1]].on[m[2]] # None})
       + Cardinality({i \in Index : on[i] # None}) <= MaxNamed
  /\ plan' = [plan EXCEPT ![x] =
       [on |-> on, expected |-> [d \in Docs |-> IF d \in D THEN doc[d].active ELSE 0]]]
  /\ exec' = [exec EXCEPT ![x] = At("planned", o, {i \in Index : on[i] # None})]
  /\ UNCHANGED <<database, files, request, maintenance>>

(* 1. render every plan from the active version, read without a lock, and  *)
(* write the immutable files; a missing file of the active version is an   *)
(* error.                                                                  *)
Rendered(x, i) ==
  [muts |-> Updates(Target(x, i)) \union {<<x, i>>}, by |-> x]

Render(x) ==
  LET I == exec[x].pending
      D == Targets(x, I)
  IN
  /\ Is(x, "planned")
  /\ \A d \in D : doc[d].active # 0 => ActiveFile(d) \in versions
  /\ exec' = [exec EXCEPT
       ![x] = [pc |-> "rendered", op |-> @.op, pending |-> I,
               base |-> [d \in Docs |-> IF d \in D THEN doc[d].active ELSE 0],
               body |-> [i \in Index |-> IF i \in I THEN Rendered(x, i) ELSE None]]]
  /\ versions' = versions \union
       {FileOf(Target(x, i), doc[Target(x, i)].active + 1, Rendered(x, i)) : i \in I}
  /\ UNCHANGED <<database, quarantine, current, request, plan, maintenance>>

(* mark_commit_started, in a transaction of its own, fails for all but the *)
(* holder of the lease, which only the last execution of an operation can  *)
(* be; the lease may be lost between the mark and the commit.              *)
MarkCommitStarted(x) ==
  /\ Is(x, "rendered") /\ \A y \in Execs : exec[y].op = exec[x].op => y <= x
  /\ Goto(x, "marked")
  /\ UNCHANGED <<database, files, request, plan, maintenance>>

(* A mistake: the CHECK of the table is dropped.                           *)
AcceptedBesideTombstone(x, d) ==
  doc[d].active = plan[x].expected[d]

(* A mistake: any active version will do.                                  *)
AcceptedWhileActive(x, d) ==
  /\ plan[x].expected[d] = 0 => doc[d].deleted = 0
  /\ (plan[x].expected[d] = 0) = (doc[d].active = 0)

(* 2. the transaction.  A create needs a document without active version,  *)
(* and the table refuses an active version beside a tombstone; any other   *)
(* action needs the version it was planned against.  The rows it is        *)
(* compared with are read once, when they are locked.                      *)
Accepted(x, d) ==
  /\ doc[d].active = plan[x].expected[d]
  /\ plan[x].expected[d] = 0 => doc[d].deleted = 0

(* Of several plans for a document the last sets its text; all have their  *)
(* row in memory_commits.                                                  *)
CommitTransaction(x) ==
  LET I == exec[x].pending
      D == Targets(x, I)
      v(d) == exec[x].base[d] + 1
  IN
  /\ Is(x, "marked")
  /\ \A d \in D : Accepted(x, d)
  /\ \E last \in [D -> I] :
       /\ \A d \in D : /\ last[d] \in For(x, I, d)
                       /\ \A i \in For(x, I, d) : i <= last[d]
       /\ doc' = [d \in Docs |->
                    IF d \in D
                    THEN [doc[d] EXCEPT !.active = v(d), !.body = exec[x].body[last[d]]]
                    ELSE doc[d]]
  /\ commit' = [d \in Docs |->
                  IF d \in D THEN Recorded(d, v(d), {exec[x].body[i] : i \in For(x, I, d)})
                  ELSE commit[d]]
  /\ mutations' = mutations \union {<<x, i>> : i \in I}
  /\ index' = Dirtied(D)
  /\ Goto(x, "written")
  /\ UNCHANGED <<files, request, plan, maintenance>>

(* The first plan that is not accepted decides: a version conflict ends    *)
(* the operation, a CHECK that fails does not.                             *)
CommitRefused(x) ==
  /\ Is(x, "marked")
  /\ \E i \in exec[x].pending :
       LET d == Target(x, i) IN
       /\ ~Accepted(x, d)
       /\ \A j \in exec[x].pending : j < i => Accepted(x, Target(x, j))
       /\ Ends(x, IF doc[d].active # plan[x].expected[d] THEN "refused" ELSE "failed")
  /\ UNCHANGED <<database, files, request, plan, maintenance>>

(* 3. after the transaction, without a lock, one plan after the other.     *)
Materialize(x, i) ==
  /\ Is(x, "written") /\ i \in exec[x].pending /\ \A j \in exec[x].pending : i <= j
  /\ current' = [current EXCEPT ![Target(x, i)] = exec[x].body[i]]
  /\ IF exec[x].pending = {i} THEN Ends(x, "done")
     ELSE exec' = [exec EXCEPT ![x].pending = @ \ {i}]
  /\ UNCHANGED <<database, versions, quarantine, request, plan, maintenance>>
-----------------------------------------------------------------------------
(* forget and restore.  They pass no lease and set no mark.                *)

ForgetTransaction(x, o, d) ==
  /\ Begins(x, o, "forget") /\ d = request[o].on
  /\ doc[d].active = request[o].expected
  /\ doc' = [doc EXCEPT ![d] = [active |-> 0, body |-> None,
                                deleted |-> @.active, expired |-> FALSE]]
  /\ index' = Dirtied({d})
  /\ exec' = [exec EXCEPT ![x] = At("forgotten", o, {})]
  /\ UNCHANGED <<commit, mutations, files, request, plan, maintenance>>

RemoveCurrent(x) ==
  /\ Is(x, "forgotten")
  /\ current' = [current EXCEPT ![Memory(x)] = None]
  /\ Goto(x, "removed")
  /\ UNCHANGED <<database, versions, quarantine, request, plan, maintenance>>

(* A mistake: the files of all versions go.                                *)
AllToQuarantine(d, v) == {f \in versions : f.doc = d}

(* Moves every file of the deleted version, whatever its checksum.         *)
ToQuarantine(d, v) == {f \in versions : f.doc = d /\ f.version = v}

MoveToQuarantine(x) ==
  LET moved == ToQuarantine(Memory(x), request[exec[x].op].expected) IN
  /\ Is(x, "removed")
  /\ versions' = versions \ moved
  /\ quarantine' = quarantine \union moved
  /\ Ends(x, "done")
  /\ UNCHANGED <<database, current, request, plan, maintenance>>

InWindow(d, v) == doc[d].deleted = v /\ ~doc[d].expired

(* Of several rows of the deleted version any may be found: they have the  *)
(* same created_at.                                                        *)
Unreadable(d, v) ==
  \E b \in commit[d][v] : FileOf(d, v, b) \notin versions \union quarantine

RestoreTransaction(x, o, d, b) ==
  LET v == request[o].expected
      new == MaxVersion(d) + 1
  IN
  /\ Begins(x, o, "restore") /\ d = request[o].on
  /\ InWindow(d, v) /\ b \in commit[d][v] /\ FileOf(d, v, b) \in versions \union quarantine
  /\ versions' = versions \union {FileOf(d, new, b)}
  /\ doc' = [doc EXCEPT ![d] = [active |-> new, body |-> b, deleted |-> 0, expired |-> FALSE]]
  /\ commit' = [commit EXCEPT ![d] = Recorded(d, new, {b})]
  /\ index' = Dirtied({d})
  /\ exec' = [exec EXCEPT ![x] = [At("restored", o, {}) EXCEPT !.body[1] = b]]
  /\ UNCHANGED <<mutations, quarantine, current, request, plan, maintenance>>

MaterializeRestored(x) ==
  /\ Is(x, "restored")
  /\ current' = [current EXCEPT ![Memory(x)] = exec[x].body[1]]
  /\ Ends(x, "done")
  /\ UNCHANGED <<database, versions, quarantine, request, plan, maintenance>>

CommandRefused(x, o, d) ==
  LET v == request[o].expected IN
  /\ d = request[o].on
  /\ \/ Begins(x, o, "forget") /\ doc[d].active # v
     \/ Begins(x, o, "restore") /\ (~InWindow(d, v) \/ Unreadable(d, v))
  /\ exec' = [exec EXCEPT ![x] = At("refused", o, {})]
  /\ UNCHANGED <<database, files, request, plan, maintenance>>
-----------------------------------------------------------------------------
(* The scheduler's maintenance.                                            *)

TombstoneExpires(d) ==
  /\ doc[d].deleted # 0 /\ ~doc[d].expired
  /\ doc' = [doc EXCEPT ![d].expired = TRUE]
  /\ UNCHANGED <<commit, mutations, index, files, request, plan, exec, maintenance>>

(* The files go; the row stays, because the commits of the document        *)
(* reference it and the DELETE is refused.                                 *)
PurgeTombstone(d) ==
  /\ doc[d].expired
  /\ versions' = {f \in versions : f.doc # d}
  /\ quarantine' = {f \in quarantine : f.doc # d}
  /\ UNCHANGED <<database, current, request, plan, exec, maintenance>>

RebuildIndex ==
  /\ index.dirty
  /\ index' = [listed |-> [d \in Docs |-> doc[d].active], dirty |-> FALSE]
  /\ UNCHANGED <<doc, commit, mutations, files, request, plan, exec, maintenance>>

MayBegin ==
  Cardinality({d \in Docs : refs[d] # None}) + Cardinality({d \in Docs : checked[d] # None})
    < MaxTasks

(* cleanup_orphan_versions: the checksums of the commits of an active      *)
(* document, then the files that have none of them.                        *)
ReadReferences(d) ==
  /\ doc[d].active # 0 /\ refs[d] = None /\ MayBegin
  /\ refs' = [refs EXCEPT ![d] = Referenced(d)]
  /\ UNCHANGED <<database, files, request, plan, exec, checked, swept>>

DeleteOrphans(d) ==
  LET orphans == {f \in versions : f.doc = d /\ f.body \notin refs[d]} IN
  /\ refs[d] # None
  /\ versions' = versions \ orphans
  /\ swept' = swept \union orphans
  /\ refs' = [refs EXCEPT ![d] = None]
  /\ UNCHANGED <<database, quarantine, current, request, plan, exec, checked>>

(* verify_checksums: the row of an active document, then the repair of     *)
(* its copy under current/ from the file the row named.                    *)
ReadForVerification(d) ==
  /\ doc[d].active # 0 /\ checked[d] = None /\ MayBegin
  /\ checked' = [checked EXCEPT ![d] = ActiveFile(d)]
  /\ UNCHANGED <<database, files, request, plan, exec, refs, swept>>

(* A mistake: only a missing copy is repaired.                             *)
RepairedIfMissing(d) ==
  IF checked[d] \in versions /\ current[d] = None THEN checked[d].body ELSE current[d]

Repaired(d) == IF checked[d] \in versions THEN checked[d].body ELSE current[d]

RepairCurrent(d) ==
  /\ checked[d] # None
  /\ current' = [current EXCEPT ![d] = Repaired(d)]
  /\ checked' = [checked EXCEPT ![d] = None]
  /\ UNCHANGED <<database, versions, quarantine, request, plan, exec, refs, swept>>
-----------------------------------------------------------------------------
Sending ==
  \E o \in Ops :
    \/ SendSummary(o)
    \/ \E d \in Docs : SendForget(o, d) \/ SendRestore(o, d)

Executing ==
  \E x \in Execs :
    \/ \E o \in Ops, on \in [Index -> Docs \union {None}] : PlanWrite(x, o, on)
    \/ Render(x) \/ MarkCommitStarted(x) \/ CommitTransaction(x) \/ CommitRefused(x)
    \/ \E i \in Index : Materialize(x, i)
    \/ \E o \in Ops, d \in Docs :
         \/ ForgetTransaction(x, o, d) \/ CommandRefused(x, o, d)
         \/ \E b \in Referenced(d) : RestoreTransaction(x, o, d, b)
    \/ RemoveCurrent(x) \/ MoveToQuarantine(x) \/ MaterializeRestored(x)

Verifying(d) == ReadForVerification(d) \/ RepairCurrent(d)

Maintaining ==
  \/ RebuildIndex
  \/ \E d \in Docs :
       \/ TombstoneExpires(d) \/ PurgeTombstone(d)
       \/ ReadReferences(d) \/ DeleteOrphans(d) \/ Verifying(d)

Next == Sending \/ Executing \/ Maintaining

Spec == Init /\ [][Next]_vars

(* A maintenance task that has begun ends (a lost one is executed again),  *)
(* and the scheduler comes to verify_checksums every day, whatever else    *)
(* keeps the workers busy.                                                 *)
FairSpec ==
  /\ Spec
  /\ \A d \in Docs : /\ WF_vars(DeleteOrphans(d)) /\ WF_vars(RepairCurrent(d))
                     /\ SF_vars(ReadForVerification(d))
-----------------------------------------------------------------------------
(* Types, and the CHECK of the table: a tombstone has no active version.   *)
TypeOK ==
  /\ doc \in [Docs -> Document]
  /\ \A d \in Docs : /\ (doc[d].active = 0) = (doc[d].body = None)
                     /\ doc[d].deleted = 0 \/ doc[d].active = 0
  /\ commit = [d \in Docs |-> commit[d]]
  /\ \A d \in Docs : \A v \in DOMAIN commit[d] : v \in Nat /\ commit[d][v] \subseteq Body
  /\ mutations \subseteq Mutation
  /\ index \in [listed : [Docs -> Nat], dirty : BOOLEAN]
  /\ versions \subseteq File /\ quarantine \subseteq File /\ swept \subseteq File
  /\ current \in [Docs -> Body \union {None}]
  /\ request \in [Ops -> Request]
  /\ plan \in [Execs -> Plan]
  /\ exec \in [Execs -> Execution]
  /\ \A d \in Docs : refs[d] = None \/ refs[d] \subseteq Body
  /\ \A d \in Docs : checked[d] = None \/ checked[d] \in File

(* The text of an active version, and of a deleted one until its tombstone *)
(* expires, can be read: forget, a delayed move to the quarantine, restore *)
(* and purge never take away the wrong file.  Only the orphan clean-up can *)
(* (see swept), which does not wait for the age the design asks for.       *)
VersionReadable ==
  \A d \in Docs :
    /\ doc[d].active # 0 => ActiveFile(d) \in versions \union swept
    /\ doc[d].deleted # 0 /\ ~doc[d].expired =>
         \A b \in commit[d][doc[d].deleted] :
           FileOf(d, doc[d].deleted, b) \in versions \union quarantine \union swept

(* index.md lists exactly the active versions unless it is marked dirty:   *)
(* no commit, forget or restore gets past a rebuild.                       *)
CleanIndexIsCurrent ==
  index.dirty \/ \A d \in Docs : index.listed[d] = doc[d].active

(* Whichever executions overlap, crash, fail or repeat an operation: each  *)
(* takes its updates in in all the documents it planned or in none, and no *)
(* document loses what another one has committed.  (An operation that is   *)
(* executed again after its commit takes its update in again.)             *)
TakenIn(d, b) == {<<m[1], d>> : m \in b.muts}

State(d) ==
  IF doc[d].active # 0 THEN [state |-> "live", updates |-> TakenIn(d, doc[d].body)]
  ELSE IF doc[d].deleted = 0 THEN [state |-> "none", updates |-> {}]
  ELSE IF doc[d].expired THEN [state |-> "gone", updates |-> {}]
  ELSE [state |-> "deleted",
        updates |-> UNION {TakenIn(d, b) : b \in commit[d][doc[d].deleted]}]

History == INSTANCE DocumentHistory
             WITH about <- [x \in Execs |-> Named(x)],
                  document <- [d \in Docs |-> State(d)],
                  applied <- {<<m[1], plan[m[1]].on[m[2]]>> : m \in mutations}

FollowsHistory == History!HistorySpec

(* A version number is given once: whatever is committed late, forgotten,  *)
(* restored or purged, it names the same texts for ever.  The optimistic   *)
(* lock and the commands rest on it: the version a sender saw is the text  *)
(* the sender saw.                                                         *)
VersionsNeverReused ==
  [][\A d \in Docs : \A v \in DOMAIN commit[d] :
       v \in DOMAIN commit'[d] /\ commit'[d][v] = commit[d][v]]_vars

(* Once the executions are over, current/ shows the active versions: late, *)
(* lost or reordered copies are repaired for good.                         *)
CurrentConverges ==
  <>[](\A d \in Docs : doc[d].active # 0 /\ ActiveFile(d) \in versions =>
                         current[d] = doc[d].body)

(* Every plan that was committed is in the text of its document as long as *)
(* the document is there.                                                  *)
CommittedPlansKept ==
  \A m \in mutations :
    LET d == plan[m[1]].on[m[2]] IN
    doc[d].active # 0 => m \in doc[d].body.muts
=============================================================================
