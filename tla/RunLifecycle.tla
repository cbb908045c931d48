----------------------------- MODULE RunLifecycle -----------------------------
(***************************************************************************)
(* The life of Agent runs: runtime/coordinator.py driving the graph of     *)
(* AgentGraph over runtime/store.py, the LangGraph checkpoints and         *)
(* runtime/control.py.                                                     *)
(*                                                                         *)
(* Three kinds of actor interleave: the API threads and the boot code,     *)
(* which hold the coordinator's lock; the single "examsage-agent" worker   *)
(* thread, which takes that lock only to settle a run; and the process,    *)
(* which may die between any two writes.  An operation that makes several  *)
(* durable writes under the lock is several steps, op holding the program  *)
(* counter and so the lock.                                                *)
(***************************************************************************)
EXTENDS AgentGraph, Sequences, FiniteSets

CONSTANTS Threads,      \* checkpoint threads, one per workspace
          Profiles,     \* provider profile ids
          Tools,        \* what the planner may select, a subset of AllTools
          MaxRuns,      \* bound: runs ever submitted
          MaxParts,     \* bound: source parts of a course
          CanCrash,     \* whether the Worker process may die (or exit)
          CanFail       \* whether a write to the run store may raise

ASSUME RunsAssumption    == MaxRuns \in Nat /\ MaxParts \in Nat
ASSUME ToolsAssumption   == Tools \subseteq AllTools
ASSUME ThreadsAssumption == Threads # {} /\ Profiles # {}
ASSUME FlagsAssumption   == CanCrash \in BOOLEAN /\ CanFail \in BOOLEAN

\* Runs in the order of created_at, rowid.
Runs  == 1 .. MaxRuns
NoRun == 0

VARIABLES
    (* run store, durable *)
    status,      \* RunStatus of each run; "none" unborn, "deleted" row gone
    thread,      \* thread_id of each run
    profile,     \* provider_profile_id of each run
    lastEvent,   \* type of the run's last lifecycle event, or "none"
    (* checkpoints and evidence, durable *)
    ckpt,        \* last checkpoint of each thread
    pending,     \* parts of the thread's course not yet terminal
    (* Worker process, lost when it dies *)
    up,
    shutting,    \* _shutdown_requested
    commands,    \* _commands
    stopReq,     \* runs whose control event is set
    sessions,    \* connected profiles
    worker,      \* the worker thread
    graph,       \* the state of the graph it is executing
    op,          \* the operation that holds _lock
    (* history, read by properties only *)
    asked        \* runs asked to pause since their last Resume

store    == <<status, thread, profile, lastEvent>>
evidence == <<pending>>
control  == <<shutting, sessions>>
vars     == <<store, ckpt, pending, up, control, commands, stopReq, worker,
              graph, op, asked>>
-------------------------------------------------------------------------------
(* Records.                                                                *)

Levels   == {"kernel", "evidence"}   \* whose pause_pending a gate reads
Level(x) == IF x \in KernelGates THEN "kernel" ELSE "evidence"

GraphStates == [run : Runs \cup {NoRun}, at : Nodes, pend : [Levels -> BOOLEAN],
                tool : AllTools \cup {"none"}, left : 0 .. MaxParts,
                outcome : Outcomes, resumed : BOOLEAN, waiting : BOOLEAN]

NoState == [run |-> NoRun, at |-> GraphEnd, pend |-> [l \in Levels |-> FALSE],
            tool |-> "none", left |-> 0, outcome |-> "none",
            resumed |-> FALSE, waiting |-> FALSE]

\* New input on a thread restarts the graph; the channels the input does not
\* name, pause_pending among them, keep the values of the last checkpoint.
InitialState(r, old) ==
    [NoState EXCEPT !.run = r, !.at = StopAt("plan"),
                    !.pend = [NoState.pend EXCEPT !["kernel"] = old.pend["kernel"]]]

Executing == {"running", "stopping"}
Active    == Executing \cup {"paused"}
Terminal  == {"completed", "failed"}
Statuses  == Active \cup Terminal \cup {"none", "queued", "deleted"}
Lifecycle == {"queued", "started", "stop_requested", "paused", "resumed",
              "completed", "failed"}

Quit     == [act |-> "quit", run |-> NoRun]
Commands == [act : {"start", "resume"}, run : Runs] \cup {Quit}

Free == [pc |-> "free", run |-> NoRun, by |-> "none"]
Ops  == [pc : {"free", "submitted", "stop_event", "stop_status", "start_next",
               "started_next", "delete"},
         run : Runs \cup {NoRun}, by : {"none", "api", "worker", "boot"}]

Idle    == [phase |-> "idle", act |-> "none", run |-> NoRun,
            resuming |-> FALSE, verdict |-> "none"]
Gone(p) == [Idle EXCEPT !.phase = p]
Workers == [phase : {"idle", "invoke", "node", "settle", "handoff", "dead", "exited"},
            act : {"none", "start", "resume"}, run : Runs \cup {NoRun},
            resuming : BOOLEAN,
            verdict : {"none", "interrupt", "auth", "completed", "failed"}]

WithStatus(S) == {r \in Runs : status[r] \in S}
First(r, S)   == r \in S /\ \A q \in S : r <= q
-------------------------------------------------------------------------------
Init ==
    /\ status    = [r \in Runs |-> "none"]
    /\ thread    \in {[r \in Runs |-> t] : t \in Threads}
    /\ profile   \in {[r \in Runs |-> p] : p \in Profiles}
    /\ lastEvent = [r \in Runs |-> "none"]
    /\ ckpt      = [t \in Threads |-> NoState]
    /\ pending   = [t \in Threads |-> MaxParts]
    /\ up        = TRUE
    /\ shutting  = FALSE
    /\ commands  = <<>>
    /\ stopReq   = {}
    /\ sessions  = {}
    /\ worker    = Idle
    /\ graph     = NoState
    /\ op        = Free
    /\ asked     = {}
-------------------------------------------------------------------------------
(* Operations under _lock.                                                 *)

Locking == up /\ op = Free

\* The runs a new one must wait for: those active and those queued.
Ahead           == Active \cup {"queued"}

\* submit_message up to create_run's commit.
Submit(t, p) ==
    /\ Locking /\ ~shutting /\ p \in sessions
    /\ \E new \in Runs :
       /\ First(new, WithStatus({"none"}))
       /\ status'  = [status EXCEPT ![new] = IF WithStatus(Ahead) # {} THEN "queued" ELSE "running"]
       /\ thread'  = [thread EXCEPT ![new] = t]
       /\ profile' = [profile EXCEPT ![new] = p]
       /\ op'      = [pc |-> "submitted", run |-> new, by |-> "api"]
    /\ UNCHANGED <<lastEvent, ckpt, pending, up, control, commands, stopReq,
                   worker, graph, asked>>

\* The rest of submit_message: the event, then the command or _start_next.
Submitted ==
    /\ up /\ op.pc = "submitted"
    /\ LET queued == status[op.run] = "queued" IN
       /\ lastEvent' = [lastEvent EXCEPT ![op.run] = IF queued THEN "queued" ELSE "started"]
       /\ commands'  = IF queued THEN commands
                       ELSE Append(commands, [act |-> "start", run |-> op.run])
       /\ op' = IF queued /\ WithStatus(Active) = {}
                THEN [op EXCEPT !.pc = "start_next", !.run = NoRun] ELSE Free
    /\ UNCHANGED <<status, thread, profile, ckpt, pending, up, control, stopReq,
                   worker, graph, asked>>

\* A worker that hands over goes back to its queue when it drops the lock.
Unlock == /\ op' = Free
          /\ worker' = IF op.by = "worker" THEN Idle ELSE worker

\* The early returns of _start_next.
MayStartWhileShutting == WithStatus(Active) = {}
MayStart              == ~shutting /\ WithStatus(Active) = {}

\* _start_next up to set_status.
StartNext ==
    /\ up /\ op.pc = "start_next"
    /\ \/ /\ ~MayStart \/ WithStatus({"queued"}) = {}
          /\ Unlock
          /\ UNCHANGED status
       \/ /\ MayStart
          /\ \E r \in Runs :
             /\ First(r, WithStatus({"queued"}))
             /\ status' = [status EXCEPT ![r] = "running"]
             /\ op'     = [op EXCEPT !.pc = "started_next", !.run = r]
          /\ UNCHANGED worker
    /\ UNCHANGED <<thread, profile, lastEvent, ckpt, pending, up, control,
                   commands, stopReq, graph, asked>>

\* The rest of _start_next: the event and the command.
StartedNext ==
    /\ up /\ op.pc = "started_next"
    /\ lastEvent' = [lastEvent EXCEPT ![op.run] = "started"]
    /\ commands'  = Append(commands, [act |-> "start", run |-> op.run])
    /\ Unlock
    /\ UNCHANGED <<status, thread, profile, ckpt, pending, up, control, stopReq,
                   graph, asked>>

\* stop: the control event, then the STOP_REQUESTED event, then the status.
Stop(r) ==
    /\ Locking /\ status[r] = "running"
    /\ stopReq' = stopReq \cup {r}
    /\ asked'   = asked \cup {r}
    /\ op'      = [pc |-> "stop_event", run |-> r, by |-> "api"]
    /\ UNCHANGED <<store, ckpt, pending, up, control, commands, worker, graph>>

StopEvent ==
    /\ up /\ op.pc = "stop_event"
    /\ lastEvent' = [lastEvent EXCEPT ![op.run] = "stop_requested"]
    /\ op'        = [op EXCEPT !.pc = "stop_status"]
    /\ UNCHANGED <<status, thread, profile, ckpt, pending, up, control, commands,
                   stopReq, worker, graph, asked>>

StopStatus ==
    /\ up /\ op.pc = "stop_status"
    /\ status' = [status EXCEPT ![op.run] = "stopping"]
    /\ op'     = Free
    /\ UNCHANGED <<thread, profile, lastEvent, ckpt, pending, up, control, commands,
                   stopReq, worker, graph, asked>>

\* What resume demands of a run.
ResumableStopping(r) == status[r] \in {"paused", "stopping"} /\ profile[r] \in sessions /\ ~shutting
ResumableFailed(r)   == status[r] \in {"paused", "failed"} /\ profile[r] \in sessions /\ ~shutting
Resumable(r)         == status[r] = "paused" /\ profile[r] \in sessions /\ ~shutting

Resume(r) ==
    /\ Locking /\ Resumable(r)
    /\ status'   = [status EXCEPT ![r] = "running"]
    /\ commands' = Append(commands, [act |-> "resume", run |-> r])
    /\ asked'    = asked \ {r}
    /\ UNCHANGED <<thread, profile, lastEvent, ckpt, pending, up, control, stopReq,
                   worker, graph, op>>

RequestAllStops == /\ stopReq' = stopReq \cup WithStatus(Executing)
                   /\ asked'   = asked \cup WithStatus(Executing)

PauseAll ==
    /\ Locking /\ RequestAllStops
    /\ UNCHANGED <<store, ckpt, pending, up, control, commands, worker, graph, op>>

Shutdown ==
    /\ Locking /\ ~shutting /\ RequestAllStops
    /\ shutting' = TRUE
    /\ commands' = Append(commands, Quit)
    /\ UNCHANGED <<store, ckpt, pending, up, sessions, worker, graph, op>>

\* Sessions; the credential protocol behind them is ProviderCredentials.
InUse(p) == \E r \in WithStatus(Executing) : profile[r] = p

Connect(p) ==
    /\ Locking /\ p \notin sessions
    /\ sessions' = sessions \cup {p}
    /\ UNCHANGED <<store, ckpt, pending, up, shutting, commands, stopReq, worker,
                   graph, op, asked>>

Forget(p) ==
    /\ Locking /\ p \in sessions /\ ~InUse(p)
    /\ sessions' = sessions \ {p}
    /\ UNCHANGED <<store, ckpt, pending, up, shutting, commands, stopReq, worker,
                   graph, op, asked>>

\* delete_settled_workspace_runs: checkpoints first, then the rows.  The thread
\* then stands for the next workspace.
OfThread(t) == {r \in Runs : thread[r] = t /\ status[r] \notin {"none", "deleted"}}
Settled(t)  == \A r \in OfThread(t) : status[r] \in Terminal

DeleteCheckpoints(t) ==
    /\ Locking /\ Settled(t)
    /\ ckpt' = [ckpt EXCEPT ![t] = NoState]
    /\ \E r \in Runs : First(r, OfThread(t)) /\ op' = [pc |-> "delete", run |-> r, by |-> "api"]
    /\ UNCHANGED <<store, pending, up, control, commands, stopReq, worker, graph, asked>>

DeleteRows ==
    /\ up /\ op.pc = "delete"
    /\ LET gone == OfThread(thread[op.run]) IN
       /\ status'    = [r \in Runs |-> IF r \in gone THEN "deleted" ELSE status[r]]
       /\ lastEvent' = [r \in Runs |-> IF r \in gone THEN "none" ELSE lastEvent[r]]
    /\ pending' = [pending EXCEPT ![thread[op.run]] = MaxParts]
    /\ op' = Free
    /\ UNCHANGED <<thread, profile, ckpt, up, control, commands, stopReq, worker,
                   graph, asked>>

OpStep == Submitted \/ StartNext \/ StartedNext \/ StopEvent \/ StopStatus \/ DeleteRows

\* The store raises in the middle of an operation.  A request answers with an
\* error; raised out of _execute it ends the worker thread, out of start() the
\* process.
OpFault ==
    /\ CanFail /\ up /\ op # Free
    /\ op' = Free
    /\ CASE op.by = "api"    -> UNCHANGED <<up, shutting, commands, stopReq, sessions, worker,
                                            graph>>
         [] op.by = "worker" -> /\ worker' = Gone("dead")
                                /\ UNCHANGED <<up, shutting, commands, stopReq, sessions, graph>>
         [] OTHER            -> /\ up' = FALSE /\ shutting' = FALSE
                                /\ commands' = <<>> /\ stopReq' = {} /\ sessions' = {}
                                /\ worker' = Idle /\ graph' = NoState
    /\ UNCHANGED <<store, ckpt, pending, asked>>
-------------------------------------------------------------------------------
(* The worker thread: _loop and _execute.                                  *)

Execute(c)            == [Idle EXCEPT !.phase = "invoke", !.act = c.act, !.run = c.run]
DispatchNotStopped(c) == IF c = Quit THEN Gone("exited")
                         ELSE IF c.run \in stopReq THEN Idle ELSE Execute(c)
Dispatch(c)           == IF c = Quit THEN Gone("exited") ELSE Execute(c)

Take ==
    /\ up /\ worker.phase = "idle" /\ commands # <<>>
    /\ commands' = Tail(commands)
    /\ worker'   = Dispatch(Head(commands))
    /\ UNCHANGED <<store, ckpt, pending, up, control, stopReq, graph, op, asked>>

\* graph.invoke(initial_state): a new input on the thread.
Enter(g, resuming) ==
    /\ graph'  = g
    /\ worker' = [worker EXCEPT !.phase = "node", !.resuming = resuming]

Invoke ==
    /\ up /\ worker.phase = "invoke" /\ worker.act = "start"
    /\ Enter(InitialState(worker.run, ckpt[thread[worker.run]]), FALSE)
    /\ UNCHANGED <<store, ckpt, pending, up, control, commands, stopReq, op, asked>>

\* Whether a checkpoint is that of run r, and whether it holds a stop that the
\* kernel noticed and whose interrupt was never saved.
SameThread(r, ck) == TRUE
SameRun(r, ck)    == ck.run = r
NoticedStop(ck)   == ck.pend["kernel"] /\ ck.at.kind = "pause" /\ ck.at.at \in KernelGates
Undone(r, ck)     == SameRun(r, ck) /\ NoticedStop(ck)
Fixed(r, ck)      == IF Undone(r, ck)
                     THEN [ck EXCEPT !.pend["kernel"] = FALSE, !.at = WorkAt(ck.at.at)]
                     ELSE ck

\* _invoke_resume.  A checkpoint that holds an interrupt of this run is resumed
\* there; otherwise the run continues from durable state, or from scratch when
\* the thread's checkpoint is another run's.  A noticed stop is undone first.
InvokeResume ==
    /\ up /\ worker.phase = "invoke" /\ worker.act = "resume"
    /\ LET r     == worker.run
           ck    == ckpt[thread[r]]
           same  == SameRun(r, ck)
           fixed == Fixed(r, ck) IN
       \/ /\ same /\ ck.waiting
          /\ Enter([ck EXCEPT !.waiting = FALSE], TRUE)
          /\ UNCHANGED <<ckpt, stopReq, lastEvent>>
       \/ /\ ~(same /\ ck.waiting)
          /\ ckpt'      = [ckpt EXCEPT ![thread[r]] = fixed]
          /\ stopReq'   = IF Undone(r, ck) THEN stopReq \ {r} ELSE stopReq
          /\ lastEvent' = [lastEvent EXCEPT ![r] = "resumed"]
          /\ IF same /\ ck.at = GraphEnd
             THEN /\ graph'  = ck
                  /\ worker' = [worker EXCEPT !.phase = "settle", !.verdict = "completed"]
             ELSE Enter(IF same THEN fixed ELSE InitialState(r, ck), FALSE)
    /\ UNCHANGED <<status, thread, profile, pending, up, control, commands, op, asked>>

\* The invocation ends and _execute is about to take the lock.
Return(verdict) == worker' = [worker EXCEPT !.phase = "settle", !.verdict = verdict,
                                            !.resuming = FALSE]

AtNode(kind) == up /\ worker.phase = "node" /\ graph.at.kind = kind

\* detect_stop.
NoticedByKernelOnly(x) == graph.pend[Level(x)] \/ (x \in KernelGates /\ graph.run \in stopReq)
Noticed(x)             == graph.pend[Level(x)] \/ graph.run \in stopReq

\* detect_stop and route_after_stop.
StopNode ==
    /\ AtNode("stop")
    /\ LET x == graph.at.at
           p == Noticed(x) IN
       graph' = [graph EXCEPT !.pend[Level(x)] = p,
                              !.at = IF p THEN PauseAt(x) ELSE WorkAt(x)]
    /\ UNCHANGED <<store, ckpt, pending, up, control, commands, stopReq, worker, op, asked>>

\* interrupt() in a pause_before_X, pause_evidence_frontier or
\* pause_source_changed node that has no resume value.
Interrupt ==
    /\ AtNode("pause") \/ AtNode("wait")
    /\ ~worker.resuming
    /\ graph.at.kind = "pause" => graph.pend[Level(graph.at.at)]
    /\ graph' = [graph EXCEPT !.waiting = TRUE]
    /\ Return("interrupt")
    /\ UNCHANGED <<store, ckpt, pending, up, control, commands, stopReq, op, asked>>

\* clear_stop.
NotCleared == stopReq
Cleared    == stopReq \ {graph.run}

\* The same node executed again with the resume value.
Resumed ==
    /\ AtNode("pause") \/ AtNode("wait")
    /\ worker.resuming
    /\ LET l == IF graph.at.kind = "wait" THEN "evidence" ELSE Level(graph.at.at) IN
       graph' = [graph EXCEPT !.pend[l] = FALSE, !.at = AfterResume(graph.at),
                              !.resumed = IF l = "evidence" THEN graph.at.kind = "pause" ELSE @]
    /\ stopReq'   = Cleared
    /\ lastEvent' = [lastEvent EXCEPT ![graph.run] = "resumed"]
    /\ worker'    = [worker EXCEPT !.resuming = FALSE]
    /\ UNCHANGED <<status, thread, profile, ckpt, pending, up, control, commands, op, asked>>

(* The nodes that work.  Each is one step: what it reads besides the state *)
(* it is given does not change under it, save the stop flag that the       *)
(* frontier's scheduler polls.                                             *)
At(x)   == AtNode("work") /\ graph.at = WorkAt(x)
Work(g) == /\ graph' = g
           /\ UNCHANGED <<store, ckpt, up, control, commands, stopReq, worker, op, asked>>
Go(n)   == Work([graph EXCEPT !.at = n])

HasSession == profile[graph.run] \in sessions

Plan == \E tool \in Tools :
    /\ At("plan") /\ HasSession
    /\ Work([graph EXCEPT !.tool = tool, !.at = StopAt("tool")])
    /\ UNCHANGED pending

\* route_selected_tool with run_tool, or with start_evidence_tool.
RunTool ==
    /\ At("tool")
    /\ \/ graph.tool = "kernel" /\ HasSession /\ Go(AfterTool("kernel"))
       \/ /\ graph.tool # "kernel"
          /\ Work([graph EXCEPT !.at = AfterTool(graph.tool),
                                !.pend["evidence"] = FALSE, !.resumed = FALSE])
    /\ UNCHANGED pending

RunImmediate == At("immediate") /\ Go(StopAt("compose")) /\ UNCHANGED pending

\* prepare also returns failed parts, perhaps all there are, to the pending.
Prepare ==
    /\ At("authorize") /\ Go(StopAt("frontier"))
    /\ \E left \in pending[thread[graph.run]] .. MaxParts :
          pending' = [pending EXCEPT ![thread[graph.run]] = left]

\* analyze_frontier.  A frontier of which every part was processed is complete
\* unless a stop was requested meanwhile; a part that failed or is to be retried,
\* a stop or the deadline make it paused ("failed": paused, with failed parts).
Analyze ==
    /\ At("frontier")
    /\ LET t == thread[graph.run] IN
       \E outcome \in {"complete", "failed", "paused"}, left \in 0 .. pending[t] :
          /\ outcome = "complete" => /\ graph.run \notin stopReq
                                     /\ left < pending[t] \/ pending[t] = 0
          /\ outcome = "failed"   => left < pending[t]
          /\ Work([graph EXCEPT !.left = left, !.outcome = outcome,
                                !.resumed = FALSE, !.at = StopAt("publish")])
          /\ pending' = [pending EXCEPT ![t] = left]

\* publish_frontier and route_after_publication; late: under ten seconds left.
Publish == \E late \in BOOLEAN :
    /\ At("publish")
    /\ Go(AfterPublish(graph.left, late, graph.outcome, graph.resumed))
    /\ UNCHANGED pending

Finish == At("finish") /\ Go(StopAt("compose")) /\ UNCHANGED pending

\* The approval of the sources no longer holds: the staged nodes route to
\* pause_source_changed, and a new revision of the course starts over.
SourceChanged == \E x \in {"authorize", "frontier", "publish"} :
    /\ At(x) /\ Go(WaitAt("source"))
    /\ pending' = [pending EXCEPT ![thread[graph.run]] = MaxParts]

\* run_immediate lets the same error out of graph.invoke.
Unauthorized ==
    /\ At("immediate") /\ Return("auth")
    /\ UNCHANGED <<store, ckpt, pending, up, control, commands, stopReq, graph, op, asked>>

Compose ==
    /\ At("compose")
    /\ graph' = [graph EXCEPT !.at = GraphEnd]
    /\ Return("completed")
    /\ UNCHANGED <<store, ckpt, pending, up, control, commands, stopReq, op, asked>>

WorkNode == Plan \/ RunTool \/ RunImmediate \/ Prepare \/ Analyze \/ Publish \/ Finish
                 \/ SourceChanged \/ Unauthorized \/ Compose

\* A node that works raises; the state of the graph stays what it was.
NodeFails ==
    /\ AtNode("work")
    /\ Return("failed")
    /\ UNCHANGED <<store, ckpt, pending, up, control, commands, stopReq, graph, op, asked>>

\* The store raises under an emit: the RESUMED event of a resumption, before or
\* after a noticed stop was undone, or that of a pause node, whose stop has been
\* cleared by then.
EmitFails ==
    /\ CanFail /\ up
    /\ \/ /\ worker.phase = "invoke" /\ worker.act = "resume"
          /\ LET r  == worker.run
                 ck == ckpt[thread[r]] IN
             /\ ~(SameRun(r, ck) /\ ck.waiting)
             /\ graph' \in {ck, Fixed(r, ck)}
             /\ ckpt' = [ckpt EXCEPT ![thread[r]] = graph']
             /\ stopReq' = IF graph' = ck THEN stopReq ELSE stopReq \ {r}
       \/ /\ worker.phase = "node" /\ graph.at.kind \in {"pause", "wait"} /\ worker.resuming
          /\ stopReq' = Cleared
          /\ UNCHANGED <<ckpt, graph>>
    /\ Return("failed")
    /\ UNCHANGED <<store, pending, up, control, commands, op, asked>>

\* The store raises when _execute reads the run and its events, before it guards
\* itself against errors: the worker thread ends.
ReadFails ==
    /\ CanFail /\ up /\ worker.phase = "invoke"
    /\ worker' = Gone("dead")
    /\ UNCHANGED <<store, ckpt, pending, up, control, commands, stopReq, graph, op, asked>>

\* LangGraph saves checkpoints behind the execution and has saved the last one
\* when invoke returns.  A lag matters only to a process that may die.
Flush ==
    /\ CanCrash /\ up /\ worker.phase \in {"node", "settle"}
    /\ ckpt[thread[worker.run]] # graph
    /\ ckpt' = [ckpt EXCEPT ![thread[worker.run]] = graph]
    /\ UNCHANGED <<store, pending, up, control, commands, stopReq, worker, graph, op, asked>>

\* The rest of _execute, under the lock: status and event in one transaction.
SettledInterrupt == IF worker.verdict = "interrupt" THEN "paused" ELSE worker.verdict
SettledAs        == IF worker.verdict \in {"interrupt", "auth"} THEN "paused" ELSE worker.verdict

\* A run that is over hands the queue to the next; one that pauses keeps it.
HandsOverCompleted == SettledAs = "completed"
HandsOver          == SettledAs # "paused"

Settle ==
    /\ Locking /\ worker.phase = "settle"
    /\ status'    = [status EXCEPT ![worker.run] = SettledAs]
    /\ lastEvent' = [lastEvent EXCEPT ![worker.run] = SettledAs]
    /\ ckpt'      = [ckpt EXCEPT ![thread[worker.run]] = graph]
    /\ stopReq'   = IF worker.verdict = "interrupt" THEN stopReq ELSE stopReq \ {worker.run}
    /\ graph'     = NoState
    /\ IF HandsOver
       THEN /\ worker' = Gone("handoff")
            /\ op'     = [pc |-> "start_next", run |-> NoRun, by |-> "worker"]
       ELSE worker' = Idle /\ op' = op
    /\ UNCHANGED <<thread, profile, pending, up, control, commands, asked>>

\* That transaction raises, and the worker thread with it.
SettleFailsHalfway ==
    /\ CanFail /\ Locking /\ worker.phase = "settle"
    /\ status' = [status EXCEPT ![worker.run] = SettledAs]
    /\ ckpt'   = [ckpt EXCEPT ![thread[worker.run]] = graph]
    /\ worker' = Gone("dead")
    /\ graph'  = NoState
    /\ UNCHANGED <<thread, profile, lastEvent, pending, up, control, commands, stopReq, op, asked>>

SettleFails ==
    /\ CanFail /\ Locking /\ worker.phase = "settle"
    /\ ckpt'   = [ckpt EXCEPT ![thread[worker.run]] = graph]
    /\ worker' = Gone("dead")
    /\ graph'  = NoState
    /\ UNCHANGED <<store, pending, up, control, commands, stopReq, op, asked>>

WorkerStep == Take \/ Invoke \/ InvokeResume \/ StopNode \/ Interrupt \/ Resumed
                   \/ WorkNode \/ Settle
-------------------------------------------------------------------------------
(* The process dies, or exits, and is started again.                       *)

Crash ==
    /\ CanCrash /\ up
    /\ up' = FALSE /\ shutting' = FALSE /\ commands' = <<>>
    /\ stopReq' = {} /\ sessions' = {} /\ worker' = Idle /\ graph' = NoState
    /\ op' = Free
    /\ UNCHANGED <<store, ckpt, pending, asked>>

\* What recover_unfinished finds unfinished.
UnfinishedRunning == {"running"}
Unfinished        == Executing

\* start: recover_unfinished in one transaction, then the saved profiles whose
\* credential can be loaded, the worker thread, and _start_next if nothing is active.
Boot ==
    /\ ~up
    /\ up' = TRUE
    /\ LET found == WithStatus(Unfinished) IN
       /\ status'    = [r \in Runs |-> IF r \in found THEN "paused" ELSE status[r]]
       /\ lastEvent' = [r \in Runs |-> IF r \in found THEN "paused" ELSE lastEvent[r]]
    /\ sessions' \in SUBSET Profiles
    /\ op' = IF WithStatus(Active) = {}
             THEN [pc |-> "start_next", run |-> NoRun, by |-> "boot"] ELSE Free
    /\ UNCHANGED <<thread, profile, ckpt, pending, shutting, commands, stopReq,
                   worker, graph, asked>>

Api == \/ \E t \in Threads, p \in Profiles : Submit(t, p)
       \/ \E r \in Runs : Stop(r) \/ Resume(r)
       \/ \E p \in Profiles : Connect(p) \/ Forget(p)
       \/ \E t \in Threads : DeleteCheckpoints(t)
       \/ PauseAll \/ Shutdown

Fault == OpFault \/ NodeFails \/ EmitFails \/ ReadFails \/ SettleFails

Next == Api \/ OpStep \/ WorkerStep \/ Fault \/ Flush \/ Crash \/ Boot

Spec == Init /\ [][Next]_vars

\* A thread that holds the lock goes on, and so does the worker thread; nobody
\* is obliged to send a request.
Fairness == WF_vars(OpStep) /\ WF_vars(WorkerStep)

FairSpec == Spec /\ Fairness
-------------------------------------------------------------------------------
(* Properties.                                                             *)

(* Types of every variable. *)
TypeOK ==
    /\ status    \in [Runs -> Statuses]
    /\ thread    \in [Runs -> Threads]
    /\ profile   \in [Runs -> Profiles]
    /\ lastEvent \in [Runs -> Lifecycle \cup {"none"}]
    /\ ckpt      \in [Threads -> GraphStates]
    /\ pending   \in [Threads -> 0 .. MaxParts]
    /\ up \in BOOLEAN /\ shutting \in BOOLEAN
    /\ commands  \in Seq(Commands)
    /\ stopReq   \subseteq Runs
    /\ sessions  \subseteq Profiles
    /\ worker    \in Workers
    /\ graph     \in GraphStates
    /\ op        \in Ops
    /\ asked     \subseteq Runs

(* At most one run is running, stopping or paused: submit_message,         *)
(* _start_next, resume and recovery each decide it from their own reading. *)
OneActive == \A q, r \in WithStatus(Active) : q = r

(* The runs a command, the worker or an operation is about to carry on.    *)
Ordered  == {commands[i].run : i \in DOMAIN commands} \ {NoRun}
Carried  == IF worker.phase \in {"invoke", "node", "settle"} THEN {worker.run} ELSE {}
Starting == IF op.pc = "started_next" \/ (op.pc = "submitted" /\ status[op.run] = "running")
            THEN {op.run} ELSE {}

(* A run is never carried on twice: no second command for it is queued     *)
(* while the worker executes it or while an operation is starting it, and  *)
(* whatever is carried on is running or stopping in the store.             *)
CarriedOnce ==
    /\ Ordered \cap Carried = {} /\ Ordered \cap Starting = {} /\ Carried \cap Starting = {}
    /\ \A i, j \in DOMAIN commands :
          commands[i].run = commands[j].run /\ commands[i] # Quit => i = j
    /\ Ordered \cup Carried \cup Starting \subseteq WithStatus(Executing)

(* Only a failing write or the death of the Worker leaves a run that the   *)
(* store shows as running or stopping with nobody to carry it on or settle *)
(* it, and the next start of the Worker leaves none.                       *)
Stranded     == WithStatus(Executing) \ (Ordered \cup Carried \cup Starting)
NoneStranded == [][ /\ Fault \/ Crash \/ Stranded' \subseteq Stranded
                    /\ Boot => Stranded' = {} ]_vars

(* The worker executes, and reports as completed, only the graph state of  *)
(* the run it was told to carry on, on a thread that successive runs share *)
(* and whose last checkpoint may be another run's.                         *)
OwnGraph ==
    /\ worker.phase = "node" \/ worker.verdict = "completed" => graph.run = worker.run
    /\ worker.verdict = "completed" => graph.at = GraphEnd

(* Runs leave the queue in the order they were submitted. *)
QueueOrder == \A q, r \in Runs :
    q < r /\ status[q] = "queued" => status[r] \in {"queued", "none"}

(* What the event stream last said of a run that rests is its status, so   *)
(* a reader that only follows events (ui/agent_view.py) ends in agreement. *)
RestIsAnnounced == \A r \in Runs :
    /\ status[r] \in Terminal \cup {"paused"} => lastEvent[r] = status[r]
    /\ lastEvent[r] \in Terminal => status[r] = lastEvent[r]

(* A run that pauses at a stop gate was asked to, after its last Resume.   *)
AskedPause == [][ Interrupt /\ graph.at.kind = "pause" => graph.run \in asked ]_vars

(* A run that was never resumed does not go through a stop gate once its   *)
(* stop was accepted, which is all that the code ensures: a resumption     *)
(* that the worker has yet to carry out clears a stop accepted after it.   *)
FirstStopHeld ==
    [][ StopNode /\ worker.act = "start" /\ status[graph.run] = "stopping"
          => graph'.at.kind = "pause" ]_vars

(* A stop that was accepted ends in a run at rest.                         *)
StopSettles == \A r \in Runs :
    status[r] = "stopping" ~> status[r] \in Terminal \cup {"paused", "deleted"}

(* A queued run starts unless a paused run holds the queue or the Worker   *)
(* is being shut down.                                                     *)
QueueMoves == \A r \in Runs :
    status[r] = "queued" ~> \/ status[r] # "queued" \/ shutting
                            \/ WithStatus({"paused"}) # {}

(* A shutdown ends the worker thread, with no run left executing.          *)
ShutdownEnds == shutting ~> worker.phase = "exited" /\ WithStatus(Executing) = {}

(* The serial queue that the runs implement. *)
Place(r) == CASE status[r] = "queued"        -> "waiting"
              [] status[r] \in Active        -> "active"
              [] status[r] \in Terminal      -> "done"
              [] status[r] = "deleted"       -> "gone"
              [] OTHER                       -> "unborn"

Queue == INSTANCE RunQueue WITH place <- [r \in Runs |-> Place(r)]

(* The coordinator implements the serial queue of RunQueue: whatever the   *)
(* API, the worker, recovery and failures do to the statuses, it amounts   *)
(* to runs served one at a time in order of arrival and never twice.       *)
ImplementsQueue == Queue!Spec
===============================================================================
