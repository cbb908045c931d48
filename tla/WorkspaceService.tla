--------------------------- MODULE WorkspaceService ---------------------------
(* The life of a course workspace: it is created once per idempotency key,  *)
(* from a folder the user picks or from files a browser uploads, scanned by *)
(* the one job thread, and deleted with everything that was made for it.    *)
(* The Worker may die between any two steps; what it had begun is found and *)
(* finished, or taken back, when the next one starts.                       *)
(*                                                                          *)
(* A key is claimed once, so it stands for its workspace.  Edits of the     *)
(* manifest are those of SourceAuthority.                                   *)
EXTENDS Integers, FiniteSets, Sequences

CONSTANTS Keys,       \* idempotency keys, and the workspaces made for them
          Callers,    \* threads that serve calls
          Starter,    \* the thread that starts the Worker
          MaxOps,     \* bound on calls
          MaxFaults,  \* bound on failures
          MaxDeaths   \* bound on deaths of the Worker

ASSUME WorkspaceServiceAssumption ==
    /\ IsFiniteSet(Keys) /\ Starter \notin Callers
    /\ MaxOps \in Nat /\ MaxFaults \in Nat /\ MaxDeaths \in Nat

VARIABLES request,    \* the creation request of each key
          row,        \* the state of its workspace
          job,        \* its last job; those before have ended
          runs,       \* its Agent runs
          evidence,   \* whether there is evidence of it
          tree,       \* what there is on disk below workspaces/<id>
          cleanup,    \* the cleanup queue
          active,     \* _active_workspaces
          activeJob,  \* _active_jobs: the number of a job, or 0
          queue,      \* the jobs on their way to the job thread
          loop,       \* the job thread
          boot,       \* the start of the Worker
          th,         \* the calls under way, by thread
          ops, faults, deaths

stored == <<request, row, job, runs, evidence, tree, cleanup>>
memory == <<active, activeJob, queue, loop>>
bounds == <<ops, faults, deaths>>
vars == <<stored, memory, boot, th, bounds>>

-----------------------------------------------------------------------------
Threads == Callers \cup {Starter}
Kinds == {"folder", "browser"}
RequestStates == {"none", "claimed", "completed", "cancelled", "failed", "interrupted"}
Recoverable == {"claimed", "interrupted", "failed"}
RowStates == {"none", "ready", "deleting", "cleanup_pending"}
Blocked == {"deleting", "cleanup_pending"}
Statuses == {"none", "queued", "running", "ended"}
Unfinished == {"queued", "running"}
Remnants == {"temp", "orphan", "intake"}
Paths == {"root"} \cup Remnants
Records == [key : Keys, path : Paths, known : BOOLEAN]

CreatePcs == {"pick", "snapshot", "write", "validate", "create", "fail"}

Waiting == [pc |-> "wait", key |-> "none", id |-> 0]
Idle == [pc |-> "idle", key |-> "none", todo |-> {}]
Up == [pc |-> "up", todo |-> {}, clean |-> TRUE]

Init ==
    /\ request = [k \in Keys |-> [state |-> "none", kind |-> "folder"]]
    /\ row = [k \in Keys |-> "none"] /\ job = [k \in Keys |-> [id |-> 0, status |-> "none"]]
    /\ runs = [k \in Keys |-> "none"] /\ evidence = [k \in Keys |-> FALSE]
    /\ tree = [k \in Keys |-> {}] /\ cleanup = {}
    /\ active = {} /\ activeJob = [k \in Keys |-> 0] /\ queue = <<>> /\ loop = Waiting
    /\ boot = Up /\ th = [t \in Threads |-> Idle]
    /\ ops = 0 /\ faults = 0 /\ deaths = 0

At(t, pc) == th[t].pc = pc
Become(t, next) == th' = [th EXCEPT ![t] = next]
Goto(t, pc) == Become(t, [th[t] EXCEPT !.pc = pc])
Call(t) == t \in Callers /\ boot.pc = "up" /\ At(t, "idle") /\ ops < MaxOps /\ ops' = ops + 1
Fault == faults < MaxFaults /\ faults' = faults + 1
NoFault == UNCHANGED faults

-----------------------------------------------------------------------------
(* Creation.  A key that is already claimed gets the answer it got before   *)
(* and changes nothing.                                                     *)

ClaimCreation(t, k, kind) ==
    /\ Call(t) /\ request[k].state = "none"
    /\ request' = [request EXCEPT ![k] = [state |-> "claimed", kind |-> kind]]
    /\ Become(t, [Idle EXCEPT !.pc = IF kind = "folder" THEN "pick" ELSE "snapshot", !.key = k])
    /\ UNCHANGED <<row, job, runs, evidence, tree, cleanup, memory, boot, faults, deaths>>

EndRequest(t, next) ==
    request' = [request EXCEPT ![th[t].key].state = IF @ = "claimed" THEN next ELSE @]

(* The user picks a folder, or cancels, or the folder is no good.           *)
ChooseFolder(t) ==
    /\ At(t, "pick")
    /\ \/ Goto(t, "create") /\ UNCHANGED request
       \/ EndRequest(t, "cancelled") /\ Become(t, Idle)
       \/ Goto(t, "fail") /\ UNCHANGED request
    /\ UNCHANGED <<row, job, runs, evidence, tree, cleanup, memory, boot, bounds>>

(* The uploads are refused, or a temporary directory is made for them: a    *)
(* failure may leave it, or the workspace's own directory, behind.          *)
StartSession(t) ==
    /\ At(t, "snapshot")
    /\ LET k == th[t].key
       IN  \/ Goto(t, "write") /\ tree' = [tree EXCEPT ![k] = {"root", "temp"}] /\ NoFault
           \/ Goto(t, "fail") /\ tree' = tree /\ NoFault
           \/ /\ Goto(t, "fail") /\ Fault
              /\ \E left \in {{"root"}, {"root", "temp"}} : tree' = [tree EXCEPT ![k] = left]
    /\ UNCHANGED <<request, row, job, runs, evidence, cleanup, memory, boot, ops, deaths>>

Renamed(k, from, to) == tree' = [tree EXCEPT ![k] = (@ \ {from}) \cup {to}]

(* They are written and the directory gets its name, or they are not what   *)
(* was announced: then it is put aside as an orphan, if that succeeds.      *)
CreateSnapshot(t) ==
    /\ At(t, "write")
    /\ \/ Goto(t, "validate") /\ Renamed(th[t].key, "temp", "intake") /\ NoFault
       \/ Goto(t, "fail") /\ Renamed(th[t].key, "temp", "orphan") /\ NoFault
       \/ Goto(t, "fail") /\ UNCHANGED tree /\ Fault
    /\ UNCHANGED <<request, row, job, runs, evidence, cleanup, memory, boot, ops, deaths>>

(* A path is queued once.  With the same identity the record it has is the  *)
(* answer; another identity is an error, which _queue_orphan_cleanup hides  *)
(* and a deletion never meets: the root's identity is stored with it.       *)
Queued(records, k, path, known) ==
    IF \E r \in records : r.key = k /\ r.path = path THEN records
    ELSE records \cup {[key |-> k, path |-> path, known |-> known]}

QueueOrphanCleanup(k, known) == cleanup' = Queued(cleanup, k, "root", known)

ValidateRoot(t) ==
    /\ At(t, "validate")
    /\ \/ Goto(t, "create") /\ UNCHANGED cleanup /\ NoFault
       \/ \E known \in BOOLEAN :
             Goto(t, "fail") /\ QueueOrphanCleanup(th[t].key, known) /\ Fault
    /\ UNCHANGED <<request, row, job, runs, evidence, tree, memory, boot, ops, deaths>>

CreateWorkspace(t) ==
    /\ At(t, "create")
    /\ LET k == th[t].key
       IN  \/ /\ request[k].state = "claimed" /\ EndRequest(t, "completed")
              /\ row' = [row EXCEPT ![k] = "ready"]
              /\ job' = [job EXCEPT ![k] = [id |-> 1, status |-> "queued"]]
              /\ Goto(t, "enqueue") /\ UNCHANGED cleanup /\ NoFault
           \/ /\ Fault /\ Goto(t, "fail") /\ UNCHANGED <<request, row, job>>
              /\ IF request[k].kind = "browser" THEN QueueOrphanCleanup(k, TRUE) ELSE UNCHANGED cleanup
    /\ UNCHANGED <<runs, evidence, tree, memory, boot, ops, deaths>>

FailCreation(t) ==
    /\ At(t, "fail") /\ EndRequest(t, "failed") /\ Become(t, Idle)
    /\ UNCHANGED <<row, job, runs, evidence, tree, cleanup, memory, boot, bounds>>

(* An error that no handler of the creation expects, or the failure of the  *)
(* very write that should say so: the call ends and its key stays claimed.  *)
EscapeCreation(t) ==
    /\ th[t].pc \in CreatePcs /\ Fault /\ Become(t, Idle)
    /\ UNCHANGED <<stored, memory, boot, ops, deaths>>

QueueExisting(k, id) ==
    /\ active' = active \cup {k} /\ activeJob' = [activeJob EXCEPT ![k] = id]
    /\ queue' = Append(queue, [key |-> k, id |-> id])

QueueInitialJob(t) ==
    /\ At(t, "enqueue") /\ QueueExisting(th[t].key, 1) /\ Become(t, Idle)
    /\ UNCHANGED <<stored, loop, boot, bounds>>

-----------------------------------------------------------------------------
(* Jobs.                                                                    *)

JobEnded(k) == job[k].status = "ended" \/ activeJob[k] < job[k].id
Released(k) == activeJob[k] # 0 /\ row[k] # "none" /\ JobEnded(k)

AcceptsJobs(k) == row[k] \notin Blocked \cup {"none"} /\ job[k].status \notin Unfinished

Rescan(t, k) ==
    /\ Call(t) /\ AcceptsJobs(k) /\ (activeJob[k] = 0 \/ Released(k))
    /\ job' = [job EXCEPT ![k] = [id |-> @.id + 1, status |-> "queued"]]
    /\ QueueExisting(k, job[k].id + 1)
    /\ UNCHANGED <<request, row, runs, evidence, tree, cleanup, loop, boot, th, faults, deaths>>

StartJob ==
    /\ boot.pc = "up" /\ loop.pc = "wait" /\ queue # <<>> /\ queue' = Tail(queue)
    /\ LET k == Head(queue).key
       IN  IF row[k] = "ready" /\ job[k] = [id |-> Head(queue).id, status |-> "queued"]
           THEN job' = [job EXCEPT ![k].status = "running"]
                /\ loop' = [pc |-> "scan", key |-> k, id |-> Head(queue).id]
           ELSE job' = job /\ loop' = [pc |-> "finish", key |-> k, id |-> Head(queue).id]
    /\ UNCHANGED <<request, row, runs, evidence, tree, cleanup, active, activeJob, boot, th, bounds>>

(* The scan is committed, or fails.                                         *)
EndJob ==
    /\ loop.pc = "scan"
    /\ job' = [job EXCEPT ![loop.key].status = "ended"]
    /\ loop' = [loop EXCEPT !.pc = "finish"]
    /\ UNCHANGED <<request, row, runs, evidence, tree, cleanup, active, activeJob, queue, boot, th,
                   bounds>>

(* A job whose workspace is gone with it has nothing to release.            *)
FinishJob ==
    /\ loop.pc = "finish" /\ loop' = Waiting
    /\ IF job[loop.key].status # "none" /\ activeJob[loop.key] = loop.id
       THEN active' = active \ {loop.key} /\ activeJob' = [activeJob EXCEPT ![loop.key] = 0]
       ELSE UNCHANGED <<active, activeJob>>
    /\ UNCHANGED <<stored, queue, boot, th, bounds>>

-----------------------------------------------------------------------------
(* Runs of the Agent make evidence of a workspace that is not on its way    *)
(* out; they settle in the end.                                             *)

SubmitRun(t, k) ==
    /\ Call(t) /\ row[k] = "ready" /\ runs[k] # "active"
    /\ runs' = [runs EXCEPT ![k] = "active"] /\ evidence' = [evidence EXCEPT ![k] = TRUE]
    /\ UNCHANGED <<request, row, job, tree, cleanup, memory, boot, th, faults, deaths>>

SettleRun(k) ==
    /\ boot.pc = "up" /\ runs[k] = "active" /\ runs' = [runs EXCEPT ![k] = "settled"]
    /\ UNCHANGED <<request, row, job, evidence, tree, cleanup, memory, boot, th, bounds>>

-----------------------------------------------------------------------------
(* Deletion, of one workspace or of all that have no unsettled run, and of  *)
(* those found marked when the Worker starts.  Its steps are durable one by *)
(* one.  Whoever deletes all stops at the first that fails.                 *)

DeleteWorkspaces(t) ==
    /\ Call(t)
    /\ \E todo \in {{k} : k \in Keys} \cup {{k \in Keys : runs[k] # "active" /\ row[k] # "none"}} :
          /\ \E k \in todo : row[k] # "none"
          /\ Become(t, [pc |-> "delete", key |-> "none", todo |-> todo])
    /\ UNCHANGED <<stored, memory, boot, faults, deaths>>

Continue(t, deleted) ==
    Become(t, IF deleted \/ t = Starter THEN [th[t] EXCEPT !.pc = "delete"] ELSE Idle)

EndDelete(t, deleted) ==
    /\ active' = active \ {th[t].key} /\ Continue(t, deleted)
    /\ UNCHANGED <<activeJob, queue, loop>>

BeginDelete(t) ==
    /\ At(t, "delete") /\ th[t].todo # {}
    /\ LET k == CHOOSE k \in th[t].todo : TRUE
       IN  IF k \in active /\ ~Released(k)
           THEN /\ Become(t, IF t = Starter THEN [th[t] EXCEPT !.todo = @ \ {k}] ELSE Idle)
                /\ UNCHANGED <<active, activeJob>>
           ELSE /\ Become(t, [pc |-> "mark", key |-> k, todo |-> th[t].todo \ {k}])
                /\ active' = active \cup {k}
                /\ activeJob' = IF Released(k) THEN [activeJob EXCEPT ![k] = 0] ELSE activeJob
    /\ UNCHANGED <<stored, queue, loop, boot, bounds>>

DeletedAll(t) ==
    /\ At(t, "delete") /\ th[t].todo = {} /\ Become(t, Idle)
    /\ UNCHANGED <<stored, memory, boot, bounds>>

(* Mutant: the runs are not asked about.                                    *)
DeletableAnyhow(k) == row[k] # "none" /\ job[k].status \notin Unfinished

Deletable(k) == row[k] # "none" /\ job[k].status \notin Unfinished /\ runs[k] # "active"

MarkDeleting(t) ==
    /\ At(t, "mark")
    /\ LET k == th[t].key
       IN  IF Deletable(k)
           THEN row' = [row EXCEPT ![k] = "deleting"] /\ Goto(t, "runs") /\ UNCHANGED memory
           ELSE EndDelete(t, FALSE) /\ UNCHANGED row
    /\ UNCHANGED <<request, job, runs, evidence, tree, cleanup, boot, bounds>>

(* When it fails at the start of the Worker, so does the start: that is Die. *)
DeleteRuns(t) ==
    /\ At(t, "runs")
    /\ LET k == th[t].key
       IN  \/ Goto(t, "evidence") /\ UNCHANGED memory /\ NoFault
              /\ runs' = [runs EXCEPT ![k] = IF @ = "settled" THEN "none" ELSE @]
           \/ t \in Callers /\ Fault /\ EndDelete(t, FALSE) /\ UNCHANGED runs
    /\ UNCHANGED <<request, row, job, evidence, tree, cleanup, boot, ops, deaths>>

(* A start in which something failed may leave work for the next one.       *)
Spoiled(t) == boot' = [boot EXCEPT !.clean = @ /\ t # Starter]

DeleteEvidence(t) ==
    /\ At(t, "evidence")
    /\ LET k == th[t].key
       IN  \/ /\ evidence' = [evidence EXCEPT ![k] = FALSE]
              /\ Goto(t, IF request[k].kind = "folder" THEN "rows" ELSE "identity")
              /\ NoFault /\ UNCHANGED <<memory, boot>>
           \/ Fault /\ Spoiled(t) /\ EndDelete(t, FALSE) /\ UNCHANGED evidence
    /\ UNCHANGED <<request, row, job, runs, tree, cleanup, ops, deaths>>

WithoutRow(k) == row' = [row EXCEPT ![k] = "none"] /\ job' = [job EXCEPT ![k].status = "none"]

DeleteRows(t) ==
    /\ At(t, "rows")
    /\ LET k == th[t].key
       IN  IF row[k] = "deleting" /\ job[k].status \notin Unfinished
           THEN WithoutRow(k) /\ EndDelete(t, TRUE)
           ELSE EndDelete(t, FALSE) /\ UNCHANGED <<row, job>>
    /\ UNCHANGED <<request, runs, evidence, tree, cleanup, boot, bounds>>

OwnedRootIdentity(t) ==
    /\ At(t, "identity")
    /\ IF row[th[t].key] # "none" THEN Goto(t, "queue") /\ UNCHANGED memory
       ELSE EndDelete(t, FALSE)
    /\ UNCHANGED <<stored, boot, bounds>>

QueueCleanup(t) ==
    /\ At(t, "queue") /\ cleanup' = Queued(cleanup, th[t].key, "root", TRUE) /\ Goto(t, "remove")
    /\ UNCHANGED <<request, row, job, runs, evidence, tree, memory, boot, bounds>>

(* What is below a path, all of it or, when it fails, some.                 *)
Below(path) == IF path = "root" THEN Paths ELSE {path}
RemovedAll(k, path) == tree' = [tree EXCEPT ![k] = @ \ Below(path)]
RemovedSome(k, path) ==
    \E some \in SUBSET (Below(path) \ {path}) : tree' = [tree EXCEPT ![k] = @ \ some]

RemoveOwnedTree(t) ==
    /\ At(t, "remove")
    /\ LET k == th[t].key
       IN  \/ "root" \in tree[k] /\ RemovedAll(k, "root") /\ Goto(t, "complete") /\ UNCHANGED boot /\ NoFault
           \/ "root" \in tree[k] /\ RemovedSome(k, "root") /\ Goto(t, "failed") /\ Spoiled(t) /\ Fault
           \/ "root" \notin tree[k] /\ UNCHANGED <<tree, boot>> /\ Goto(t, "failed") /\ NoFault
    /\ UNCHANGED <<request, row, job, runs, evidence, cleanup, memory, ops, deaths>>

(* complete_cleanup deletes the record and the workspace, unless this is in *)
(* use; fail_cleanup leaves both for the next start.                        *)
Completable(k) == row[k] \in Blocked \cup {"none"} /\ job[k].status \notin Unfinished

Completed(r) == cleanup' = cleanup \ {r} /\ WithoutRow(r.key)

Failed(r) ==
    /\ row' = [row EXCEPT ![r.key] = IF @ = "none" THEN @ ELSE "cleanup_pending"]
    /\ UNCHANGED <<cleanup, job>>

RootRecords(k) == {r \in cleanup : r.key = k /\ r.path = "root"}

CompleteCleanup(t) ==
    /\ At(t, "complete")
    /\ LET k == th[t].key
           mine == RootRecords(k)
       IN  /\ IF mine # {} /\ Completable(k) THEN \E r \in mine : Completed(r)
              ELSE UNCHANGED <<cleanup, row, job>>
           /\ EndDelete(t, mine = {} \/ Completable(k))
    /\ UNCHANGED <<request, runs, evidence, tree, boot, bounds>>

FailCleanup(t) ==
    /\ At(t, "failed") /\ EndDelete(t, FALSE)
    /\ LET mine == RootRecords(th[t].key)
       IN  IF mine = {} THEN UNCHANGED <<cleanup, row, job>> ELSE \E r \in mine : Failed(r)
    /\ UNCHANGED <<request, runs, evidence, tree, boot, bounds>>

-----------------------------------------------------------------------------
(* The start of a Worker: orphans are queued, creations that were under way *)
(* are interrupted, the queue is worked through, marked workspaces are      *)
(* deleted, unfinished jobs are queued again; then calls are served.        *)

Orphans ==
    {o \in Keys \X Remnants : /\ o[2] \in tree[o[1]]
                             /\ \/ o[2] = "orphan"
                                \/ request[o[1]].kind = "browser" /\ request[o[1]].state \in Recoverable}

NewRecords(unknown) ==
    {[key |-> o[1], path |-> o[2], known |-> request[o[1]].state \in Recoverable /\ o \notin unknown] :
        o \in {p \in Orphans : ~\E r \in cleanup : r.key = p[1] /\ r.path = p[2]}}

(* An orphan may not let itself be identified.                              *)
DiscoverOrphans ==
    /\ boot.pc = "discover"
    /\ \E unknown \in SUBSET Orphans :
          /\ cleanup' = cleanup \cup NewRecords(unknown)
          /\ IF unknown = {} THEN NoFault ELSE Fault
    /\ boot' = [boot EXCEPT !.pc = "interrupt"]
    /\ UNCHANGED <<request, row, job, runs, evidence, tree, memory, th, ops, deaths>>

InterruptCreations ==
    /\ boot.pc = "interrupt"
    /\ request' = [k \in Keys |-> [request[k] EXCEPT !.state = IF @ = "claimed" THEN "interrupted" ELSE @]]
    /\ boot' = [boot EXCEPT !.pc = "cleanup", !.todo = cleanup]
    /\ UNCHANGED <<row, job, runs, evidence, tree, cleanup, memory, th, bounds>>

Tried(r) == boot' = [boot EXCEPT !.todo = @ \ {r}]

(* What is not there any more is done with; what is there is removed first, *)
(* if it is what the record says it is.                                     *)
RecoverCleanup ==
    /\ boot.pc = "cleanup"
    /\ \E r \in boot.todo :
          LET k == r.key
              unsettled == row[k] # "none" /\ runs[k] = "active"
              gone == r.path \notin tree[k]
          IN  \/ /\ unsettled \/ ~r.known \/ (gone /\ ~Completable(k))
                 /\ Failed(r) /\ Tried(r) /\ UNCHANGED tree /\ NoFault
              \/ /\ ~unsettled /\ r.known /\ gone /\ Completable(k)
                 /\ Completed(r) /\ Tried(r) /\ UNCHANGED tree /\ NoFault
              \/ /\ ~unsettled /\ r.known /\ ~gone
                 /\ RemovedAll(k, r.path) /\ UNCHANGED <<cleanup, row, job, boot>> /\ NoFault
              \/ /\ ~unsettled /\ r.known /\ ~gone /\ Fault
                 /\ RemovedSome(k, r.path) /\ Failed(r)
                 /\ boot' = [boot EXCEPT !.todo = @ \ {r}, !.clean = FALSE]
    /\ UNCHANGED <<request, runs, evidence, memory, th, ops, deaths>>

RecoverDeleting ==
    /\ boot.pc = "cleanup" /\ boot.todo = {}
    /\ boot' = [boot EXCEPT !.pc = "deleting"]
    /\ Become(Starter, [pc |-> "delete", key |-> "none", todo |-> {k \in Keys : row[k] = "deleting"}])
    /\ UNCHANGED <<stored, memory, bounds>>

(* Mutant: a job that was running is not queued again.                      *)
RecoverQueued(status) == status

RecoverRunning(status) == IF status = "running" THEN "queued" ELSE status

RecoverJobs ==
    /\ boot.pc = "deleting" /\ At(Starter, "idle")
    /\ job' = [k \in Keys |-> [job[k] EXCEPT !.status = RecoverRunning(@)]]
    /\ boot' = [boot EXCEPT !.pc = "requeue", !.todo = {k \in Keys : job'[k].status = "queued"}]
    /\ UNCHANGED <<request, row, runs, evidence, tree, cleanup, memory, th, bounds>>

Requeue ==
    /\ boot.pc = "requeue"
    /\ IF boot.todo = {} THEN boot' = Up /\ UNCHANGED <<active, activeJob, queue>>
       ELSE \E k \in boot.todo :
               QueueExisting(k, job[k].id) /\ boot' = [boot EXCEPT !.todo = @ \ {k}]
    /\ UNCHANGED <<stored, loop, th, bounds>>

Die ==
    /\ deaths < MaxDeaths /\ deaths' = deaths + 1
    /\ active' = {} /\ activeJob' = [k \in Keys |-> 0] /\ queue' = <<>> /\ loop' = Waiting
    /\ th' = [t \in Threads |-> Idle]
    /\ boot' = [pc |-> "discover", todo |-> {}, clean |-> TRUE]
    /\ UNCHANGED <<stored, ops, faults>>

-----------------------------------------------------------------------------
Creating(t) ==
    \/ \E k \in Keys, kind \in Kinds : ClaimCreation(t, k, kind)
    \/ ChooseFolder(t) \/ StartSession(t) \/ CreateSnapshot(t) \/ ValidateRoot(t)
    \/ CreateWorkspace(t) \/ FailCreation(t) \/ EscapeCreation(t) \/ QueueInitialJob(t)

Deleting(t) ==
    \/ BeginDelete(t) \/ DeletedAll(t) \/ MarkDeleting(t) \/ DeleteRuns(t) \/ DeleteEvidence(t)
    \/ DeleteRows(t) \/ OwnedRootIdentity(t) \/ QueueCleanup(t) \/ RemoveOwnedTree(t)
    \/ CompleteCleanup(t) \/ FailCleanup(t)

JobThread == StartJob \/ EndJob \/ FinishJob

Starting ==
    DiscoverOrphans \/ InterruptCreations \/ RecoverCleanup \/ RecoverDeleting \/ RecoverJobs \/ Requeue

Rest ==
    /\ ops = MaxOps \/ \A k \in Keys : request[k].state # "none" /\ row[k] = "none"
    /\ boot.pc = "up" /\ queue = <<>> /\ loop = Waiting
    /\ \A t \in Threads : At(t, "idle")
    /\ UNCHANGED vars

Next ==
    \/ \E t \in Callers : Creating(t) \/ DeleteWorkspaces(t)
    \/ \E t \in Callers, k \in Keys : Rescan(t, k) \/ SubmitRun(t, k)
    \/ \E t \in Threads : Deleting(t)
    \/ \E k \in Keys : SettleRun(k)
    \/ JobThread \/ Starting \/ Die \/ Rest

(* The threads of the Worker run, and it is started again when it has died. *)
Fairness ==
    /\ WF_vars(JobThread) /\ WF_vars(Starting)
    /\ \A t \in Threads : WF_vars(Deleting(t)) /\ WF_vars(QueueInitialJob(t))

Spec == Init /\ [][Next]_vars /\ Fairness

-----------------------------------------------------------------------------
Types ==
    /\ request \in [Keys -> [state : RequestStates, kind : Kinds]] /\ row \in [Keys -> RowStates]
    /\ \A k \in Keys : job[k].status \in Statuses
    /\ runs \in [Keys -> {"none", "active", "settled"}] /\ evidence \in [Keys -> BOOLEAN]
    /\ tree \in [Keys -> SUBSET Paths] /\ cleanup \subseteq Records /\ active \subseteq Keys

(* Nothing of a workspace in use is removed under it: while it is there for *)
(* its user or a job is to scan it, the uploaded files are all there, no    *)
(* record asks for their removal, and none of its jobs outlives it.         *)
OwnedKept ==
    \A k \in Keys :
        /\ job[k].status \in Unfinished \/ runs[k] = "active" => row[k] = "ready"
        /\ row[k] = "ready" =>
              /\ request[k].kind = "browser" => tree[k] = {"root", "intake"}
              /\ \A r \in cleanup : r.key # k

(* A deleted workspace leaves nothing behind, and what a creation that came *)
(* to nothing leaves is something the next start can find; a workspace is   *)
(* only given up with its runs and its evidence already gone.               *)
NothingLeft ==
    \A k \in Keys :
        /\ row[k] # "none" => request[k].state = "completed"
        /\ row[k] = "none" =>
              /\ runs[k] = "none" /\ ~evidence[k]
              /\ tree[k] \cap Remnants # {} =>
                    request[k].kind = "browser" /\ request[k].state \in Recoverable
        /\ row[k] = "cleanup_pending" => RootRecords(k) # {} /\ runs[k] = "none" /\ ~evidence[k]

(* A start in which nothing fails leaves no workspace half deleted and no   *)
(* orphan, except one that did not let itself be identified, once.          *)
BootCleans ==
    boot.pc = "requeue" /\ boot.clean => \A k \in Keys :
        \/ row[k] = "ready"
        \/ row[k] = "none" /\ tree[k] \cap Remnants = {}
        \/ \E r \in cleanup : r.key = k /\ ~r.known

(* Creation, scan and deletion of workspaces by several callers, with the   *)
(* death of the Worker between any two durable steps, keep a workspace in   *)
(* use whole and in the end leave no trace of any other                     *)
(* (WorkspaceService, BrowserIntakeWriter, OwnedTreeRemover).               *)
Sound == Types /\ OwnedKept /\ NothingLeft /\ BootCleans

(* A job that was promised to a caller comes to an end, though the Worker   *)
(* that had it may die.                                                     *)
JobsSettle == \A k \in Keys : job[k].status \in Unfinished ~> job[k].status \notin Unfinished
=============================================================================
