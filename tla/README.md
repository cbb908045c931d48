# ExamSage in TLA+

TLA+ modules, TLC runs and TLAPS proofs for the core of ExamSage: the Agent
Worker, a local FastAPI process that runs an LLM agent over course material on
the user's machine, keeps everything in SQLite files, and calls a model
provider with a key kept in the operating system's credential vault. Paths
below are relative to `src/exam_predictor/` unless they start at the root.

`PROJECT.json` lists the components, the runs, the source lines behind every
definition, the known hazards and the theorems.

## 1. The system

| part | state | operations | talks to |
|---|---|---|---|
| Run coordinator, `runtime/coordinator.py` | one lock, a command queue, one worker thread, `_shutdown_requested` | submit, stop, resume, pause all, shutdown, connect/forget a provider, delete a workspace's runs, start | store, checkpoints, control, sessions, vault, graph |
| Run and event store, `runtime/store.py` | `agent_runs`, `agent_events`, saved provider profiles | one transaction each; `recover_unfinished` at boot | coordinator, event readers |
| Stop requests, `runtime/control.py` | one event per run | request, clear, ask | coordinator sets, graph nodes read and clear |
| Agent graph, `graphs/kernel.py`, `graphs/evidence.py` | a checkpoint per workspace thread (LangGraph), `pause_pending` at two levels | stop gate, pause (interrupt), work node, wait node | tools, evidence service, control |
| Provider sessions and vault, `runtime/provider_sessions.py`, `runtime/credential_vault.py` | provider objects in memory, secrets in the OS vault | connect, disconnect, save, load, delete | coordinator |
| Worker API, `worker/api.py` | none of its own; one generator per open event stream | the HTTP routes, the SSE stream | coordinator, store |
| User interface, `ui/agent_view.py`, `runtime/client.py` | the folded view of a run | poll events, poll status, stop, resume | Worker API |
| Evidence service, `evidence/service.py` | run deadline, prepared revision | prepare a revision, analyse a frontier, publish a map, retry failed parts | workspace store, evidence store, scheduler |
| Evidence scheduler, `evidence/scheduler.py` | a thread pool per frontier | claim, reuse, call the provider, retry, pause | evidence store, provider, workspace authority lock |
| Evidence store, `evidence/store.py` | parts with claim tokens, attempts, units, cache, snapshots, revocations | one transaction each; `recover_unfinished` at boot | scheduler, study map |
| Study map, `evidence/study_map.py` | snapshots and their files | publish initial / complete, revoke | evidence store, artifacts |
| Evidence artifacts, `evidence/artifacts.py`, `evidence/registry.py` | files, an append-only registry with a publication journal | publish, revoke, delete a workspace | file system |
| Workspace store and service, `workspace/store.py`, `workspace/service.py` | manifests, approvals, jobs, cleanup claims, the authority lock of each workspace | scan, approve, revoke, delete, clean up | scanner, intake, evidence service, coordinator |
| Browser intake, scanner, transmission preview, `workspace/*` | staged uploads, file identities | stage, scan, revalidate | file system |

| Source preparation, `evidence/preparation.py`, `evidence/ooxml.py` | none of its own | divide an approved source into parts | evidence service, artifacts |

The rest (parsers, provider HTTP adapters, the pipeline of the earlier versions,
views, launcher) keeps no shared state or is sequential data transformation. `PROJECT.json` says of every part whether it is modelled.

**How they interact.** API threads take the coordinator's lock and put commands
into a queue; a single worker thread takes a command, invokes the compiled graph
and settles the run under the same lock. The graph's nodes run without the lock,
append events, read stop requests, and call the evidence service. That one starts
a pool of threads per frontier, which write to the evidence store and call the
provider while holding the authority lock of the workspace, which scans and
approvals take as well. Readers (the SSE stream, the polling view) read the event
log in several transactions or requests. The process may die between any two
writes and every store recovers at the next start.

**What is hard.** Operations of several durable writes interleaved with the worker
(stop racing with the end of a run); a crash between a node's effect and its
checkpoint; flags that live in a checkpoint that the next run of the workspace
continues; shutdown racing with the hand-over of the queue; claims taken over by a
recovery or a second process; authority withdrawn while a provider call is in
flight; retries, deadlines and limits across stops, resumptions and requeueing;
three stores for one credential; readers whose two reads see different states.
`hazards` in `PROJECT.json` lists each at its line with the property for it, or
why there is none.

**What makes each part correct.** Coordinator: one run active at a time, in order,
never carried on twice, never stranded, its resting status announced. Graph: a
pause only when asked for, a stop not passed over, only the run's own checkpoint.
Credentials: keys stay with their endpoints, what the user was told is so,
forgotten is forgotten. Frontier: a running part is held by exactly one thread,
limits hold, only approved content is published, nothing is sent twice, a frontier
returns and reports the truth. Readers: a stream ends when the run rests and not
before; the view is the fold of the log. Artifacts: whatever fails, the registry
stays readable, no artifact is lost, no file of ours is forgotten and none of
somebody else touched. Maps: what a map cites exists, a revoked map stays revoked,
an answer is from the approved revision. Sources: only bytes that were approved are
divided and sent, and the parts make the source up. Workspaces: what is in use stays
whole, what is not leaves no trace, a promised job ends.

## 2. Modules

| module | models | of |
|---|---|---|
| `AgentGraph` | nodes and edges of the two graphs | `graphs/kernel.py`, `graphs/evidence.py` |
| `RunLifecycle` | runs, coordinator, worker thread, graph execution, checkpoints, crash and boot | `runtime/coordinator.py`, `store.py`, `control.py`, the graphs |
| `RunQueue` | the abstract promise of the coordinator: a serial queue | |
| `RunLifecycleProofs` | theorems, the refinement of the queue among them | |
| `ProviderCredentials`, `ProviderCredentialsProofs` | connect, forget, restore over session, row and vault; theorems | `runtime/coordinator.py`, `provider_sessions.py`, `credential_vault.py` |
| `EventLog` | the log of one run as its writers extend it | `runtime/store.py` |
| `EventReaders` | the SSE stream and the polling view over it | `worker/api.py`, `ui/agent_view.py` |
| `EventReadersProofs` | theorems | |
| `EvidenceFrontier` | preparation, frontier, pool threads, claims, cache, authority, several Workers | `evidence/scheduler.py`, `service.py`, `store.py`, `workspace/store.py` |
| `EvidenceFrontierProofs` | theorems | |
| `ArtifactSlots` | the abstract promise of the artifact store | |
| `ArtifactStoreProofs` | theorems | |
| `ArtifactStore` | publication, revocation, reading and deletion of artifacts over registry and files, failures, deaths, recovery | `evidence/artifacts.py`, `registry.py`, `workspace/filesystem.py` |
| `StudyMap` | publication, revocation and reading of study maps, preparation of revisions, deletion of the evidence | `evidence/study_map.py`, `service.py`, `store.py` |
| `StudyMapProofs` | theorems | |
| `SourceParts` | how each kind of source divides into parts | `evidence/preparation.py`, `ooxml.py`, `policy.py`, `workspace/archive.py` |
| `SourceAuthority` | scan, inclusion, approval, transmission of a folder that changes | `workspace/service.py`, `store.py`, `scanner.py`, `transmission.py`, `evidence/service.py` |
| `SourceAuthorityProofs` | theorems | |
| `WorkspaceService` | creation, jobs, deletion and recovery of workspaces | `workspace/service.py`, `store.py`, `browser_intake.py` |
| `WorkspaceServiceProofs` | theorems | |
| `MC*` | instances for TLC; `MCSourceAuthority` also has the documents that `SourceParts` divides | |

`SourceAuthority` extends `SourceParts`: the bytes it sends are a document that is
divided by it. `StudyMap` takes artifacts as what `ArtifactSlots` promises of them,
and `ArtifactStore` is shown to keep that promise. `RunLifecycle` takes a frontier
as what `EvidenceFrontier` reports. `WorkspaceService` takes a scan as one step;
`SourceAuthority` has its inside, and the edits of the manifest.

### RunLifecycle

`status`, `thread`, `profile`, `lastEvent` are the rows of a run; `ckpt` the last
saved checkpoint of each thread; `pending` the parts of the thread's course that
are not yet terminal, which is durable in the evidence store. `commands`,
`stopReq`, `sessions`, `shutting`, `worker`, `graph`, `op` are the memory of the
Worker. `op` is the operation that holds the lock with its program counter, so an
operation of several writes (`Submit`, `Submitted`, `StartNext`, `StartedNext`;
`Stop`, `StopEvent`, `StopStatus`; `DeleteCheckpoints`, `DeleteRows`) is several
steps and the worker or a crash may come between. The worker's steps are `Take`,
`Invoke`/`InvokeResume`, one step per graph node (`StopNode`, `Interrupt`,
`Resumed`, `WorkNode`) and `Settle`. `asked` is history: which runs were asked to
pause since their last Resume.

Choices. LangGraph saves checkpoints behind the execution: `Flush` may save the
current state at any time, `Crash` drops what was not saved; these are external and
modelled from how `_invoke_resume` uses them. `update_state` of a noticed stop and
the RESUMED event are one step. Time appears only as a choice (`late` in
`AfterPublish`). A frontier is one step, `Analyze`, whose outcome and remaining
parts are limited to what the property `Reported` of `EvidenceFrontier` allows. The
thread of a deleted workspace stands for that of the next. A store write may fail
in any operation (`Fault`), with the lock released and the writes made so far kept;
a failure while settling (`SettleFails`), or of the reads before `_execute` guards
itself (`ReadFails`), ends the worker thread, as in the code; other reads do not fail.

### ProviderCredentials

A request to connect stands for the endpoint and key given together; a session, a
row and a vault entry carry the number of the request they come from, so crossing
two requests is visible. `Connect` opens the session, `Guard` blocks the saved row,
`SaveSecret` writes the vault, `Finalize` trusts the row; `Compensate` undoes.
`Forget` drops the session, `DeleteSecret` and `Mark` follow. Every store may fail
at every step, `Crash` may come between any two, `Start` and `Restore` bring back
what a row vouches for. One Worker; the vault outlives it. `forgotten` and `deleted` are
history: what the user was told, and what was told by a Worker that had a vault.

### EvidenceFrontier

`agent` is the Agent thread of each Worker (invalidate changed entries, requeue
failed parts, drop parts of the revision that another Worker invalidated, plan parts,
run frontiers), `thr` its pool threads: `Start` picks the route, `LookUp` reuses cached
evidence under the authority lock, `Count` reads the attempts after that and takes a
turn on the route, `Try` is the head of the attempt loop, `Call` takes the lock and
checks the authority under it, `Answered` publishes, `Failed` gives the lock back,
`RecordFailure` records the attempt without it, `Retry` turns the claim over with a new
token, `GiveUp` leaves at a stop or the deadline. `Rescan` and
`Approve` change the authority, `Restart` is a Worker that dies and starts, or a
second one that starts beside it: nothing in the code keeps two Workers from one
data directory, the claim tokens are there for it.

Choices. One part per file (the ordering of parts in a frontier, `_ordinals`, is a
free choice); a failed preparation shares the file's slot. Time is `expired` and
`ComeDue`, which may happen at any moment. A token is a number that is never used
again, as the code's random ones are not. `Count` reads the attempts of the part and of
its route in one step: only a thread that holds the claim writes them. A step of the
preparation that raises leaves the store as a death at that place does. `Drop` deletes
the parts of all entries in one step, where the code has a transaction for each; it
finds any only when two Workers prepare two revisions, which no run has room for: there,
the theorems that are not about one Worker speak for it. The artifacts of dropped parts
are `ArtifactStore`'s. The change of policy version (`service.py:430-442`), plan
generations and the repair of an invalid answer are left out.

### EventLog, EventReaders

One run's `log` and `status`, with `owed` for the second transaction of a change.
The stream reads events, status, history and again events; the view reads events,
then status, and folds. The view's limit of twelve polls is left out.

### ArtifactStore, ArtifactSlots

`phase`, `claims`, `pub` and `items` are the state the registry appends as one
record; `files` and `dir` the disk; `op` the call in progress with its position.
A publication reserves an intent (`ReservePublish`), creates, claims and writes a
temporary file, journals it (`PreparePublish`), moves the old file to a backup name,
installs the new one, commits and cleans up. The next access recovers: an intent is
forgotten with its temporary (`RecoverIntent`), a journal is rolled back or forward
(`RollBack`, `RollForward`). A deletion plans, quarantines and removes item by item.
`Fault` fails a step before or after its effect; `Die` loses `op`; `Meddle` puts a
foreign file under any name.

Choices. One Worker, since the registry is locked within a process. Random names are
one per kind and slot. Generations, tokens and the encoding are left out; a torn last
record is a record that was not written. The reuse of inode numbers, and a change of
a file between a check and the call it guards, are below the model's steps. A publish
may raise although it published; that is the code's contract. `Uncertain` names the
two leftovers that the code does not take up on purpose.

### StudyMap

`rows`, `revoked`, `pending`, `part`, `rev`, `deletion` are the evidence store; `docs`
and `tombs` the artifacts; `guard` and `lock` the authority lock and the builder's
lock; `th` the calls. The id of a map is a digest of its content, here the content.
The coverage in it has the times of the evidence (`last_successful_evidence_at`), so a
map that is made again after its evidence was has another id, up to `MaxTime`, as if
the clock stood still from there on: then a revoked id comes up again.
Calls are `PublishFrontier`, `AnswerFromEvidence`, `PrepareCurrent` and
`DeleteWorkspaceEvidence`, each a walk through its transactions; the environment
approves revisions, analyses parts, fails and dies. The graph of prerequisites that
a synthesizer proposes is any graph; the check of it is an operator of its own.

Choices. The reads of one decision are one step. The artifacts of prepared parts are
no state of this module, so that `DropStale` is the deletion of the rows alone, without
the revocations of artifacts that come before it (`service.py:443-453`). Deleting a workspace excludes calls
about it, by the run guard, the service's mutation and `mark_deleting`. What a map
says of its course is left out.

### SourceParts

`Sources` is what the readers may make of a source: the sizes of its lines or pages,
the tokens of a table, the sections or paragraphs of an office document, the members
of an archive. `Documents` are those an instance has, any of them. There is an
operator for each reader: `TextParts`, `TabularParts` (quoted line ends),
`StructuredParts`, `PdfParts` (halving), `ImageParts` (representative frames),
`OfficeParts` over documents, slides and sheets, `LegacyParts`, `ArchiveParts` with
the limits of the inspection. Sizes are bytes, scaled down; a page range is as large
as its pages; an image is shown once, and one inside an office file is one part, though an animated
one there may give up to three (`preparation.py:700-712`); the members of an archive are
texts, where the code divides a member of another kind with the reader of that kind
(`preparation.py:822-863`), and that a member does not change and keeps to its own limit
of bytes is not checked; the error codes, the limits on output bytes and
the footnotes of a document are left out. `Rejoins` says what the parts are to be
without the algorithms: an overlap, a boundary or a quoted line end is described by
sums of sizes and numbers of quotes, never by the steps of the code. `PartsRejoin` asks
it of every source of `Documents`. As that is of no state in particular, it is asked
when the workspace has just been created.

### SourceAuthority

`file` and `sameRoot` are the folder, which may change without a trace in size, time
and inode; `draft`, `approved`, `approval` the manifest; `job`, `active`, `activeJob`,
`loop` the service; `holder` the authority lock. Callers set inclusions, approve, and
send (`SnapshotAuthority`, `HoldAuthority`, `Authorize`, `OpenApproved`,
`PrepareParts`, `UpsertPlans`); the job thread scans entry by entry. The content of a
file stands for its hash. Excluded kinds of files and members of archives are left
out. `Authorize` is one step with the snapshot check nested in it, which rests on the
same lock; the policy's version never changes, so that its staleness checks
(`transmission.py:180-198`) have nothing to find. `seen` is history: what approvals have read.

### WorkspaceService

A key is claimed once and stands for its workspace: `request` and `row` are its rows,
`job` its last job, `runs` and `evidence` what belongs to it, `tree` what is on disk
below `workspaces/<id>`, `cleanup` the queue. `active`, `activeJob`, `queue`, `loop`
are the service in memory, `boot` its start, `th` its callers; the thread that starts
the Worker deletes like a caller does. `Die` may fall between any two steps; a
shutdown is no gentler.

Choices. Edits of the manifest are in `SourceAuthority` only. Failing writes of job
states, rows of before there were owned identities, the Windows variants, and two
removals of one tree inside one another are left out.

## 3. Runs

Deadlock is not checked where a system really may stop: after a shutdown, when no
request comes, or when the bounds are used up. `StudyMaps`, `Sources` and
`Workspaces` do check it: there, only a system without calls may rest.

| run | question | bounds | states |
|---|---|---|---|
| `RunServed` | are runs announced, on their own graph, never stranded, when the Worker dies and writes fail anywhere? implements `RunQueue` | 3 runs, one thread, kernel and immediate tools | 1.0 M |
| `RunLive` | are stops held and settled, does the queue move, does a shutdown end, is no run carried twice? | 2 runs, kernel and staged analysis of one part, no crash | 0.5 M |
| `EventReaders` | does a stream end exactly at rest, is the view the fold of the log? | 4 events and the settling one, 2 streams, 1 view | 2.9 M |
| `Credentials` | keys with their endpoints, told the truth, never revived | 2 profiles, 4 requests, every store failing, crashes | 14 k |
| `FrontierWorkers` | does every running part have exactly one holder, are attempts fresh and limited? | 2 Workers, 1 part, 4 claims, 2 attempts, crashes | 4.0 M |
| `FrontierRevised` | is only approved content published, all of it covered, none sent twice? | 2 revisions of 2 files, crashes, failing store | 1.6 M |
| `FrontierLive` | does a frontier return and report the truth, are calls limited? | 2 parts at once, 3 claims, 2 attempts | 0.7 M |
| `Artifacts` | is the registry readable, nothing lost, littered or foreign touched; does a deletion end? implements `ArtifactSlots` | 2 slots, 3 calls, 2 failures or deaths, 1 foreign file | 0.4 M |
| `StudyMaps` | do maps cite what exists, stay revoked, answer from the approved revision? | 2 parts, 2 revisions, 2 policies or 2 times of evidence, 3 calls in 2 threads, 2 maps, 1 failure or death; all graphs of 3 nodes | 3.7 M |
| `Sources` | is what is sent what was approved, and do parts make up their source? | 2 files with 2 contents, 4 calls in 2 threads, 1 silent change, 1 fault; 8669 sources of every kind | 3.6 M |
| `Workspaces` | does what is in use stay whole, what is not leave no trace, do jobs end? | 2 keys, 4 calls by 2 callers, 1 failure, 2 deaths | 0.7 M |
| `ScanEdits` (violated) | is a scan ever running while an inclusion or an approval is under way? | as `Sources` | |

**Bounds.** Three runs are needed for the queue (one active, two in order); two
share a thread, which is what makes a foreign checkpoint possible. One thread is
the harder case for it. One pending part already gives the frontier loop both of
its exits. Two Workers, or one Worker that restarts, on one part give every
takeover of a claim; four claims allow a retry, a takeover and a requeueing in one
behaviour. Two revisions of two files give a file that changed, one that did not,
and one left out. Four requests let two replace each other on each profile. Four
events allow started, stop, paused, resumed before the one that settles. Three calls
on the artifacts allow a publication, its replacement or revocation and a deletion,
two failures a failing recovery of a failed call. Three calls on the maps allow a
publication, a supersession or preparation, and an answer or a deletion, two of them
at a time; `OneChange` lets another policy come when there is a map to lose, not
together with evidence made at another time, and one part be made again after a failure.
Four calls on the sources are inclusion or rescan, approval, and a send against another
of them. The sources divided there are all of up to four lines or
pages and five tokens, images of up to one frame too many, and office documents
and archives of up to three paragraphs, two sections and three members, with parts
of four bytes and three pages: every way a line, page or quote may fall at the end
of a part or of the source occurs, and every refusal. Four calls on the workspaces
are creation, run, rescan and deletion of one, or creation and deletion of both;
two deaths let the recovery of a death die.

**Fairness.** `RunLive`: weak fairness of an operation that holds the lock and of
the worker thread, since threads are scheduled; nobody is obliged to send a
request, and crashes are excluded because nothing restarts the Worker by itself.
`FrontierLive`: weak fairness of each pool thread and of the collecting thread; a
provider call and a retry wait end by their timeouts. `EventReaders`: weak fairness
of the open stream's own generator, nothing of the run. `Artifacts`: weak fairness of
the call in progress, which runs in one thread. `Workspaces`: weak fairness of the job
thread, of the start of a Worker, of a deletion and of the one step that queues a
job already stored; deaths are bounded, and after the last the Worker is started.

### What the violated run shows

- `ScanEdits`: `_enqueue` (`workspace/service.py:517`) asks for an active job of the
  workspace but not for `_active_workspaces`, which an inclusion or an approval holds;
  and the `finally` of a mutation (`service.py:864`) takes the workspace out of it while
  a scan is queued. A scan may therefore run while an edit is under way, and a commit
  of entries computed before it overwrites the inclusion. What does hold is
  `ApprovedSound`: nothing counts as approved that no approval has read.

### Observations without a run

- `clear_stop` after an interrupt (`graphs/kernel.py:65`, `graphs/evidence.py:99`)
  clears whatever stop is set, so a stop accepted between Resume and the re-execution
  of the pause node is recorded, shown as stopping, and lost. `FirstStopHeld` is what
  does hold.
- `_invoke_resume` (`runtime/coordinator.py:508`) recognises a noticed, unsaved stop
  only at the kernel's own gates. After a crash between an evidence stop gate and its
  interrupt the first Resume pauses again, and so it does after a failing PAUSED event;
  `AskedPause` is stated without crashes and failing writes.
- A refused or missing vault leaves a connected provider in memory, with a warning
  (`runtime/coordinator.py:213`); the root README (line 38) says the connection fails.
- A Worker without a vault reports a credential forgotten that an earlier Worker put
  into the vault, where it stays (`runtime/coordinator.py:270`, root README line 107).
  It is not restored (`Told`).
- The view reads events before the status that ends its loop (`ui/agent_view.py:213`),
  so an answer recorded between the two requests of its last poll is not shown.
- A stream may close on an old PAUSED when its status read falls between a Resume
  and the RESUMED event; the client reopens it.
- Provider calls hold the workspace's exclusive authority lock
  (`evidence/scheduler.py:292`, `workspace/store.py:1563`), so a concurrency of 2
  (`README.md:68` at the root) never gives two provider calls at once for one
  workspace.
- `CarriedOnce` forbids two carriers; a failing write can leave none until the next
  start, which `NoneStranded` states exactly.
- A death between the revocation of a map's artifact and the deletion of its row
  (`evidence/study_map.py:626-633`) leaves a row with a tombstone and no revocation:
  every later initial build of that content fails.
- A call that finds the map it would build returns it once its artifact is written
  (`evidence/study_map.py:358-361`, `434-436`), without the second look that a new map
  gets (`635-646`). Evidence invalidated meanwhile takes the row away, so the call
  returns a map that is about to be revoked; `PublicationReadable` says that the
  revocation is on record then. If the insertion of a row and the taking back of it both
  fail, an artifact stays that has neither row nor revocation.
- A preparer of an older revision that is slow invalidates evidence of the approved one:
  `_prepare_current` (`evidence/service.py:396-411`, `700-722`) compares with the current
  revision and asks for its authority only afterwards. The evidence is analysed again.
- Unit ids and contents being the same for the same evidence, a publication with a draft
  from before a revocation may put a revoked map's row back into the store. `CheckRevoked`
  takes it back before an artifact is written; if the Worker dies or that fails, the row
  stays, never to be read, since its artifact has a tombstone.
- `publish_complete` compares the units a map cites with all units, so a map that
  cites only some is synthesized again at each build.
- Excluding a file is forgotten when a scan cannot read the file or misses it once:
  the next scan that finds it includes it. Approval still has to be given.
- Artifacts of prepared parts whose later part could not be published stay without a
  plan until the workspace is deleted.
- An error that `create_browser_snapshot` does not expect (`workspace/service.py:226`),
  or a failure to record an expected one, leaves the key claimed until the next start:
  every retry with it is refused (`EscapeCreation`).
- `set_inclusion`, `approve` and `fail_job` do not ask whether a workspace is on its
  way out; the interface offers none of them for such a workspace.
- A cleanup record without an identity never completes, and a later one for the same
  path is refused; an empty `workspaces/<id>` stays after an orphan's cleanup.
- A failure of the store in the error path of a job (`workspace/service.py:620`) ends
  the only job thread until the next start, and so does a failed deletion of
  checkpoints at a start (`runtime/coordinator.py:160`) with the start itself.

## 4. Proofs

Checked by TLAPS for every value of the constants, under the named assumptions of
the modules (bounds are naturals, flags are Boolean, `Tools` is a subset of
`AllTools`, `Threads` and `Profiles` are not empty, `Entries` is finite,
bounds on parts are positive), with crashes and failing writes.

- `RunLifecycleProofs!TypeCorrect`, `ExclusiveRuns` (`OneActive`), `SingleCarrier`
  (`CarriedOnce`), `RestAnnounced` (`RestIsAnnounced`). Statuses alone are not
  inductive: the worker settles a run on the strength of a command queued earlier.
  The strengthening `TokenInv` says that a single token, a queued command, the
  worker's run or an operation about to queue its command, goes with the one run
  that is executing, and that none goes with any other; `TypeInv` adds that the
  graph in execution is the run of the worker.
- `RunLifecycleProofs!QueueIsSerial`: the abstract queue is serial and ordered; that
  arrivals are in order makes the order of service inductive.
- `RunLifecycleProofs!Implementation`: every step of `RunLifecycle` is a step of
  `RunQueue` or a stutter under `Place`; `ServedInOrder` carries the order back.
- `RunLifecycleProofs!OwnGraphOnly` (`OwnGraph`), `NobodyStranded` (`NoneStranded`),
  `FirstStopIsHeld` (`FirstStopHeld`), `PausesAreAsked` (`AskedPause`). `DoneOwn` adds to
  the invariant that what the worker settles is its own run's graph, which a resumed
  thread gets from the checkpoint of that run alone. `NobodyStranded` follows the
  holder of an executing run, which each step keeps or hands on. `HeldInv` says that
  only a resumption clears a stop request, so a run that was never resumed has its stop
  as long as it executes. `PauseInv` is about stops that nobody asks for any more: a
  stop noted in a checkpoint is there only where the graph waits, who waits is paused
  or being resumed, and a request left behind belongs to a resumption about to clear
  it. It holds while the Worker is up and writes succeed, which is the assumption of
  `PausesAreAsked`: a death or a failing event at an evidence gate leaves the note in
  the checkpoint.
- `ProviderCredentialsProofs`: `TypeCorrect`, `NeverCrossed` (`Paired`),
  `ToldTheTruth` (`Told`), `StaysForgotten` (`Forgotten`: not connected, not
  restorable, and no secret left if there was a vault), `NothingRevived`
  (`NeverRevived`). A row is trusted only while the vault holds the secret of its
  own request or none, because `Guard` blocks it before `SaveSecret` changes the
  secret and only `Finalize` trusts it again; the rest of the invariant is what the
  lock keeps true between the steps of a call.
- `ArtifactStoreProofs!RegistryReadable` (`RegistryLoads`), `PromiseKept`
  (`KeepsPromise`), `OthersFilesKept` (`ForeignKept`), `NothingIsLost`
  (`NothingLost`), `NothingIsLittered` (`NoLitter`), with failing calls and deaths
  of the Worker at any step. `RegInv` says what the position of a call fixes of the
  registry: its phase, whose publication is in the journal and how far it is. With
  it every step leaves the registry acceptable, and readers see a slot change only
  when a publication is journalled as installed or a deletion begins; every other
  step stutters in `ArtifactSlots`. The files need `FileInv`: the identity of a
  publication is in no other record and on no other file, so a file under one of
  its names is its own, the one it replaces or somebody else's, and what each stage
  of the journal allows under each name is spelled out; recovery decides by
  identity and content alone, and the invariant is why that is enough. The first
  two theorems need no assumption about other files; `NothingLost` is about a
  directory nobody else touches.

- `EvidenceFrontierProofs!TypeCorrect`, `AttemptsAreLimited`, `ClaimsAreSound`
  (`ClaimsSound`), `UnitsAreSound` (`UnitsSound`), `CallsAreLimited` (`CallLimit`),
  `OnlyApprovedPublished` (`PublishedApproved`), `NeverResent` (`NotResent`),
  `ReportsAreTrue` (`Reported`). Every
  step of a pool thread is one of seven moves (it pauses, is dropped, records an
  attempt, publishes, finds its turns used, goes on, turns its claim over), and every
  other action but `Claim` is quiet: it takes no new claim and gives no part back to
  `running`. `ThreadsInv` says that a claim's token is at most the generation of its
  part, so that a new claim is new, and that one thread at most has the latest one.
  `TurnsInv` says that only the thread with the latest claim may record, and that its
  number and its turn are ahead of every row; a thread that lost its claim may be
  behind, which is why the invariant is about current threads only. `LockInv` keeps
  the approval fixed through a provider call. `Alone` is what one Worker may rely on:
  nobody prepares another revision under its frontier, what is invalidated is of an older
  revision, so that there is nothing to drop, and a key that was not cached
  when a thread looked is not cached when it calls. `Undisturbed` counts the calls
  by the rows, the answer and the call under way. `CountedInv` is why a frontier's report
  is true: the parts its threads settled and those still pending are together no more
  than it counted before the pool, since a thread settles only a part that was pending
  and makes none pending, and a pool has a thread at all. The first two theorems and
  `OnlyApprovedPublished` assume nothing of Workers, crashes or failures;
  `ClaimsAreSound` assumes that the store does not fail; `UnitsAreSound`,
  `NeverResent` and `ReportsAreTrue` that there is one Worker; `CallsAreLimited` that there is one and
  that neither it nor its store fails. `NamesAssumption` says that the approved files are
  finitely many and that the route name `unavailable`, under which the code records
  that it found no route, is not the name of a route.

- `SourceAuthorityProofs!TypeCorrect`, `ApprovedIsSound` (`ApprovedSound`),
  `OnlyApprovedBytes` (`SentBytes`), `OnlyApprovedSent` (`SentApproved`), for any
  callers and any changes of the folder. `TrustInv` follows what counts as approved
  through the manifests a scan copies, from the draft it began with to the one it
  commits. `EditInv` is about calls that read the draft and come to the store later:
  if no other draft was written since, hashes and inclusion are still the ones that
  were revalidated, so the new approval covers what it read. `GrantInv` is about calls
  that send: from the check under the authority lock on, revision and approval stay
  in force, and the bytes read are compared with both hashes. `OnlyApprovedBytes`
  says so, and `OnlyApprovedSent` adds, by the theorems on parts, that what is planned
  is all of the source.
- `SourceAuthorityProofs!PartsMakeUpSource` (`PartsRejoin`), for sources of any length
  and any bounds on parts, frames, members and bytes. It rests on one theorem for
  each reader: `PackedCovers` (lines and rows), `TabularCovered`, `PdfCovered`,
  `ImageChosen`, `OfficeCovers`, `DocumentCovers`, `ArchiveCovers`; none has an
  assumption but that the source is one of `Sources`. Each loop of a reader is a
  recursive function, shown to have a value at each place, and what it has done up to
  there is an invariant along it; an induction over places takes the least one at which
  the invariant fails, as an induction theorem cannot be instantiated. `PackedCovers`
  keeps that the open part begins where the last one ended, less the overlap, and that
  its size is the sum of its lines; sums of sizes split where intervals do. `PdfCovered`
  takes, for a range that is halved, the least end that would be wrong. For a table, the
  mode of the scanner after `i` tokens is related to the number of quotes among them and
  to the field that it is in: it is `malformed` exactly if a field with quotes has text
  outside of them, which is how `WellQuoted` puts it without a scanner, and its row ends
  are the line ends after an even number of quotes. For office documents the parts of
  the sections are one sequence, in which each part is traced to its section and the
  images of a section are those that none before it has; a document's sections are
  counted against its headings, its lines and its images as they are read.
  `RepresentativeOrdinals` is shown to be a permutation, so that each part has a rank.

- `WorkspaceServiceProofs!TypeCorrect`, `WorkspacesSound` (`Sound`), with deaths and
  failing steps anywhere. `IInv` relates the request, row, tree and cleanup record of
  each key, and says what every call knows at its place: what a creation has written
  and still owns, what a deletion has recorded before it removes anything. Two calls
  may delete one workspace and a start may delete it under neither, so what a deletion
  knows is stated to be stable under the steps of the other (`GivenUp`). A start is
  described place by place (`FoundInv`, `CleanInv`, `DeletingInv`, `DoneInv`): what it
  has taken up, what it has still to find, and that no call runs before it is over.
- `StudyMapProofs!TypeCorrect`, `MapsAreSound` (`MapsSound`), `AnswersAreCurrent`
  (`AnswerCurrent`), `PublicationsAreReadable` (`PublicationReadable`), with any number
  of calls, revisions, policies, failures and deaths. `PhaseOK` says that a call keeps
  the revision that was approved when it started and never runs ahead of the approval,
  and that one that answers saw evidence of its own; `TargetOK` that the map it works
  on is of that revision; `RevokeOK` that a revocation has its tombstone before it is
  completed, and that a map whose artifact is being written is not revoked as long as
  it has a row. `WithdrawnInv` is the hard part: who revokes removes the row in the
  same transaction, and a row of the same id that a slow publication inserts later is
  its own to take back. `ReturnInv` follows a map that existed: from the check on, it has
  its row, or its revocation is recorded and not completed, or two calls have failed.
  The newest map of a revision exists because a finite set of
  rows has one, by induction over strict subsets with the library's theorem.
- `StudyMapProofs!CyclesAreRefused` (`CyclesRefused`), for any finite set of nodes. The
  search is a recursion over the path and, at each node, a fold over its successors.
  `FoldExists` and `VisitExists` show that both recursions have a solution, stage by
  stage up to the number of nodes; `FoldFinds` and `VisitFinds` that every solution
  finds what it should (`Finds`): nodes that were visited without meeting a cycle are
  closed under dependency and have no circle among them, and a node met again while it
  is on the path closes one, since every node of the path leads to another (`Chain`).
  Neither needs induction over an operator: each takes the least stage, the least
  subset or the longest path that would be wrong (`LeastOf`, `WFMin`).

- `EventReadersProofs!ViewFolds` (`Folded`), `StreamsEndSettled` (`EndsSettled`), for
  logs of any length and any number of streams. `LogInv` says that a run at rest has no
  second write to come and that its newest lifecycle event is one that settles it.
  `StreamInv` carries this from the read of the status to the end of the stream: the log
  only grows, so a log as long as the cursor is the one that was read, and the status
  was read later than it. `ViewInv` says what the view shows of the events up to its
  last one. That a poll keeps it is a fact about the fold over the new events:
  `FoldingIs` gives the fold a closed form (the last event, the last answer and the last
  mark among those folded), shows that it solves the recursion of `FoldLeft`, and that
  another solution would have a least number of events at which it differs.

`ExclusiveRuns`, `ServedInOrder`, `StaysForgotten` and `AttemptsAreLimited` have no
run of their own: the refinement of the abstract queue, or another property of the same
module, shows them on the instance.

Only model-checked: the liveness properties (the prover has no fairness or
`ENABLED`), `DeletionEnds` among them. Every invariant and every other action property
that a run checks is a theorem.

## 5. Limits

`ClaimsSound` and `CallLimit` are stated without store failures: with them
`pause_claim` can itself fail and leave a part running until the next start.
`NotResent`, `CallLimit` and `Covered` are stated for one Worker; with two, one may
call the provider for a file whose evidence the other has just published for
another revision. `ProviderCredentials`, `ArtifactStore`, `StudyMap`,
`SourceAuthority` and `WorkspaceService` cover one Worker. Staged analysis together
with crashes is in the theorems, not in a run. `NothingLost` and `DeletionEnds` are
about a directory that nobody else touches.

**Not modelled**, and why: parsers of documents, prompts and the converter process
(data, or another program); the provider adapter (one HTTP request whose outcome is a
choice); HTTP routes, authentication and views (each calls one operation); the SQL
text, schemas and migrations (a transaction is a step); the system calls behind the
file access and their Windows variants; the folder picker; the earlier prediction
pipeline (floating point and text); the launcher.
