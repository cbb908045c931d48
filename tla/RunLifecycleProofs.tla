-------------------------- MODULE RunLifecycleProofs --------------------------
(***************************************************************************)
(* Theorems of RunLifecycle for any number of runs, threads, profiles and  *)
(* parts, with crashes and failing writes.                                 *)
(***************************************************************************)
EXTENDS RunLifecycle, TLAPS

(***************************************************************************)
(* The operators of the graph.                                             *)
(***************************************************************************)

LEMMA NodeTypes ==
    /\ \A x \in Gates : StopAt(x) \in Nodes /\ PauseAt(x) \in Nodes
    /\ \A x \in Works : WorkAt(x) \in Nodes
    /\ \A x \in Waits : WaitAt(x) \in Nodes
    /\ GraphEnd \in Nodes
    /\ \A n \in Nodes : n.kind \in {"stop", "pause"} => n.at \in Gates
    /\ \A n \in Nodes : n.kind = "wait" => n.at \in Waits
    /\ \A n \in Nodes : n.kind = "wait" => n = WaitAt(n.at)
BY DEF Nodes, StopAt, PauseAt, WorkAt, WaitAt, GraphEnd, Gates, Works, Waits,
       KernelGates, EvidenceGates

LEMMA RouteTypes ==
    /\ \A tool \in AllTools : AfterTool(tool) \in Nodes
    /\ \A left, late, outcome, resumed : AfterPublish(left, late, outcome, resumed) \in Nodes
    /\ \A n \in Nodes : n.kind \in {"pause", "wait"} => AfterResume(n) \in Nodes
<1>1. {"compose", "immediate", "authorize", "frontier"} \subseteq Gates
  BY DEF Gates, KernelGates, EvidenceGates
<1>2. Gates \subseteq Works /\ "finish" \in Works
  BY DEF Works
<1>3. {"evidence", "source"} \subseteq Waits
  BY DEF Waits
<1>4. \A tool \in AllTools : AfterTool(tool) \in Nodes
  BY <1>1, <1>2, NodeTypes DEF AfterTool, AllTools
<1>5. \A left, late, outcome, resumed : AfterPublish(left, late, outcome, resumed) \in Nodes
  BY <1>1, <1>2, <1>3, NodeTypes DEF AfterPublish
<1>6. \A n \in Nodes : n.kind \in {"pause", "wait"} => AfterResume(n) \in Nodes
  <2>1. SUFFICES ASSUME NEW n \in Nodes, n.kind \in {"pause", "wait"}
                 PROVE  AfterResume(n) \in Nodes
    OBVIOUS
  <2>2. CASE n.kind = "pause"
    BY <2>2, <1>1, <1>2, NodeTypes DEF AfterResume, WaitAt
  <2>3. CASE n.kind = "wait"
    BY <2>3, <1>1, NodeTypes DEF AfterResume, Waits
  <2>4. QED BY <2>1, <2>2, <2>3
<1>7. QED BY <1>4, <1>5, <1>6

(***************************************************************************)
(* Types.  A queued command, a busy worker and an operation in progress    *)
(* name runs, and the graph in execution is the worker's own.              *)
(***************************************************************************)
Busy == worker.phase \in {"invoke", "node", "settle"}

Shape ==
    /\ Busy => worker.run \in Runs
    /\ worker.phase = "node" => graph.run = worker.run
    /\ worker.phase = "settle" => worker.verdict # "none"
    /\ op.pc \notin {"free", "start_next"} => op.run \in Runs
    /\ op.by = "worker" => worker.phase = "handoff"

TypeInv == TypeOK /\ Shape

LEMMA RunsArePositive == NoRun \notin Runs
BY RunsAssumption DEF NoRun, Runs

LEMMA NoStateType == NoState \in GraphStates
BY NodeTypes, RunsAssumption DEF NoState, GraphStates, Outcomes

LEMMA InitialStateType ==
    ASSUME NEW r \in Runs, NEW g \in GraphStates
    PROVE  InitialState(r, g) \in GraphStates
<1>1. "plan" \in Gates
  BY DEF Gates, KernelGates
<1>2. g.pend \in [Levels -> BOOLEAN] /\ NoState.pend \in [Levels -> BOOLEAN]
  BY NoStateType DEF GraphStates
<1>3. QED BY <1>1, <1>2, NodeTypes, NoStateType DEF InitialState, GraphStates, Levels

LEMMA WorkerTypes ==
    /\ Free \in Ops /\ Idle \in Workers /\ Idle.phase = "idle" /\ Free.pc = "free"
    /\ Free.by = "none"
    /\ \A p \in {"handoff", "dead", "exited"} : Gone(p) \in Workers /\ Gone(p).phase = p
    /\ \A w \in Workers : /\ [w EXCEPT !.phase = "settle", !.verdict = "completed"] \in Workers
                           /\ \A b \in BOOLEAN :
                                [w EXCEPT !.phase = "node", !.resuming = b] \in Workers
    /\ \A w \in Workers : \A v \in {"interrupt", "auth", "completed", "failed"} :
          [w EXCEPT !.phase = "settle", !.verdict = v, !.resuming = FALSE] \in Workers
    /\ \A o \in Ops : \A r \in Runs : [o EXCEPT !.pc = "started_next", !.run = r] \in Ops
BY DEF Free, Ops, Idle, Workers, Gone

LEMMA TypeInit == Init => TypeInv
<1>1. SUFFICES ASSUME Init PROVE TypeInv
  OBVIOUS
<1>2. TypeOK
  <2>1. status \in [Runs -> Statuses] /\ lastEvent \in [Runs -> Lifecycle \cup {"none"}]
    BY <1>1 DEF Init, Statuses
  <2>2. thread \in [Runs -> Threads] /\ profile \in [Runs -> Profiles]
    BY <1>1 DEF Init
  <2>3. ckpt \in [Threads -> GraphStates] /\ graph \in GraphStates
    BY <1>1, NoStateType DEF Init
  <2>4. pending \in [Threads -> 0 .. MaxParts]
    BY <1>1, RunsAssumption DEF Init
  <2>5. worker \in Workers /\ op \in Ops
    BY <1>1 DEF Init, Workers, Idle, Ops, Free
  <2>6. commands \in Seq(Commands)
    BY <1>1 DEF Init
  <2>7. QED BY <1>1, <2>1, <2>2, <2>3, <2>4, <2>5, <2>6 DEF Init, TypeOK
<1>3. Shape
  BY <1>1 DEF Init, Shape, Busy, Idle, Free
<1>4. QED BY <1>2, <1>3 DEF TypeInv

LEMMA WorkTypes == TypeInv /\ WorkNode => TypeInv'
<1> SUFFICES ASSUME TypeInv, WorkNode PROVE TypeInv'
  OBVIOUS
<1> USE DEF TypeInv, store, control
<1>1. /\ worker.phase = "node" /\ graph.run \in Runs /\ thread[graph.run] \in Threads
      /\ graph \in GraphStates
  BY DEF WorkNode, Plan, RunTool, RunImmediate, Prepare, Analyze, Publish, Finish,
         SourceChanged, Unauthorized, Compose, At, AtNode, TypeOK, Shape, Busy
<1>2. ASSUME NEW g \in GraphStates, g.run = graph.run, Work(g),
             pending' \in [Threads -> 0 .. MaxParts]
      PROVE  TypeInv'
  BY <1>1, <1>2 DEF Work, TypeOK, Shape, Busy
<1>3. ASSUME NEW n \in Nodes, Go(n), pending' \in [Threads -> 0 .. MaxParts]
      PROVE  TypeInv'
  <2>1. [graph EXCEPT !.at = n] \in GraphStates /\ [graph EXCEPT !.at = n].run = graph.run
    BY <1>1 DEF GraphStates
  <2>2. QED BY <1>2, <1>3, <2>1 DEF Go
<1>4. /\ \A x \in {"tool", "compose", "frontier", "publish"} : StopAt(x) \in Nodes
      /\ GraphEnd \in Nodes /\ WaitAt("source") \in Nodes
  BY NodeTypes DEF Gates, KernelGates, EvidenceGates, Waits
<1>5. pending \in [Threads -> 0 .. MaxParts]
  BY DEF TypeOK
<1>6. CASE Plan
  <2>1. PICK tool \in Tools : Work([graph EXCEPT !.tool = tool, !.at = StopAt("tool")])
    BY <1>6 DEF Plan
  <2>2. [graph EXCEPT !.tool = tool, !.at = StopAt("tool")] \in GraphStates
    BY <1>1, <1>4, ToolsAssumption DEF GraphStates
  <2>3. [graph EXCEPT !.tool = tool, !.at = StopAt("tool")].run = graph.run
    BY <1>1 DEF GraphStates
  <2>4. QED BY <1>2, <1>5, <1>6, <2>1, <2>2, <2>3 DEF Plan
<1>7. CASE RunTool
  <2>1. CASE Go(AfterTool("kernel"))
    BY <1>3, <1>5, <1>7, <2>1, RouteTypes DEF RunTool, AllTools
  <2>2. CASE ~ Go(AfterTool("kernel"))
    <3> DEFINE g == [graph EXCEPT !.at = AfterTool(graph.tool),
                                  !.pend["evidence"] = FALSE, !.resumed = FALSE]
    <3>1. AfterTool(graph.tool) \in Nodes
      BY <1>1, <1>4, RouteTypes, NodeTypes
      DEF GraphStates, AfterTool, Gates, EvidenceGates
    <3>2. g \in GraphStates /\ g.run = graph.run
      BY <1>1, <3>1 DEF GraphStates, Levels
    <3>3. Work(g)
      BY <1>7, <2>2 DEF RunTool
    <3>4. QED BY <1>2, <1>5, <1>7, <3>2, <3>3 DEF RunTool
  <2>3. QED BY <2>1, <2>2
<1>8. CASE RunImmediate \/ Finish
  BY <1>3, <1>4, <1>5, <1>8 DEF RunImmediate, Finish
<1>13. CASE Prepare
  <2>1. PICK left \in pending[thread[graph.run]] .. MaxParts :
           Go(StopAt("frontier")) /\ pending' = [pending EXCEPT ![thread[graph.run]] = left]
    BY <1>13 DEF Prepare
  <2>2. left \in 0 .. MaxParts
    BY <1>1, <1>5, <2>1, RunsAssumption
  <2>3. pending' \in [Threads -> 0 .. MaxParts]
    BY <1>5, <2>1, <2>2
  <2>4. QED BY <1>3, <1>4, <2>1, <2>3
<1>9. CASE Analyze
  <2>1. PICK outcome \in {"complete", "failed", "paused"}, left \in 0 .. pending[thread[graph.run]] :
           /\ Work([graph EXCEPT !.left = left, !.outcome = outcome,
                                 !.resumed = FALSE, !.at = StopAt("publish")])
           /\ pending' = [pending EXCEPT ![thread[graph.run]] = left]
    BY <1>9 DEF Analyze
  <2>2. left \in 0 .. MaxParts
    BY <1>1, <1>5, <2>1, RunsAssumption
  <2>3. pending' \in [Threads -> 0 .. MaxParts]
    BY <1>5, <2>1, <2>2
  <2>4. [graph EXCEPT !.left = left, !.outcome = outcome, !.resumed = FALSE,
                      !.at = StopAt("publish")] \in GraphStates
    BY <1>1, <1>4, <2>2 DEF GraphStates, Outcomes
  <2>5. [graph EXCEPT !.left = left, !.outcome = outcome, !.resumed = FALSE,
                      !.at = StopAt("publish")].run = graph.run
    BY <1>1 DEF GraphStates
  <2>6. QED BY <1>2, <2>1, <2>3, <2>4, <2>5
<1>10. CASE Publish
  <2>1. PICK late \in BOOLEAN :
           Go(AfterPublish(graph.left, late, graph.outcome, graph.resumed))
    BY <1>10 DEF Publish
  <2>2. QED BY <1>3, <1>5, <1>10, <2>1, RouteTypes DEF Publish
<1>11. CASE SourceChanged
  <2>1. MaxParts \in 0 .. MaxParts
    BY RunsAssumption
  <2>2. pending' = [pending EXCEPT ![thread[graph.run]] = MaxParts] /\ Go(WaitAt("source"))
    BY <1>11 DEF SourceChanged
  <2>3. pending' \in [Threads -> 0 .. MaxParts]
    BY <1>5, <2>1, <2>2
  <2>4. QED BY <1>3, <1>4, <2>2, <2>3
<1>12. CASE Unauthorized \/ Compose
  <2>1. PICK v \in {"auth", "completed"} :
           worker' = [worker EXCEPT !.phase = "settle", !.verdict = v, !.resuming = FALSE]
    BY <1>12 DEF Unauthorized, Compose, Return
  <2>2. worker \in Workers
    BY DEF TypeOK
  <2>3. worker' \in Workers
    BY <2>1, <2>2, WorkerTypes
  <2>4. worker'.phase = "settle" /\ worker'.run = worker.run /\ worker'.verdict # "none"
    BY <2>1, <2>2 DEF Workers
  <2>5. graph' \in GraphStates
    BY <1>1, <1>4, <1>12 DEF Unauthorized, Compose, GraphStates
  <2>6. QED BY <1>1, <1>12, <2>3, <2>4, <2>5 DEF Unauthorized, Compose, TypeOK, Shape, Busy
<1>14. QED
  BY <1>6, <1>7, <1>8, <1>9, <1>10, <1>11, <1>12, <1>13 DEF WorkNode

LEMMA TypeStep == TypeInv /\ [Next]_vars => TypeInv'
<1> SUFFICES ASSUME TypeInv, [Next]_vars PROVE TypeInv'
  OBVIOUS
<1> USE DEF TypeInv, store, control
<1>1. ASSUME NEW t \in Threads, NEW p \in Profiles, Submit(t, p) PROVE TypeInv'
  BY <1>1 DEF Submit, Locking, TypeOK, Shape, Busy, Statuses, Active, Executing, Ops, Ahead
<1>2. CASE Submitted
  <2>1. op' \in Ops /\ Shape'
    BY <1>2 DEF Submitted, TypeOK, Shape, Busy, Ops, Free
  <2>2. commands' \in Seq(Commands)
    BY <1>2 DEF Submitted, TypeOK, Shape, Commands
  <2>3. lastEvent' \in [Runs -> Lifecycle \cup {"none"}]
    BY <1>2 DEF Submitted, TypeOK, Lifecycle
  <2>4. QED BY <1>2, <2>1, <2>2, <2>3 DEF Submitted, TypeOK
<1>3. CASE StartNext
  <2>0. \/ op' = Free /\ worker' = IF op.by = "worker" THEN Idle ELSE worker
        \/ /\ \E r \in Runs : op' = [op EXCEPT !.pc = "started_next", !.run = r]
           /\ worker' = worker
    BY <1>3 DEF StartNext, Unlock, MayStart
  <2>1. op' \in Ops /\ worker' \in Workers
    <3>1. op \in Ops /\ worker \in Workers
      BY DEF TypeOK
    <3>2. QED BY <2>0, <3>1, WorkerTypes
  <2>2. status' \in [Runs -> Statuses]
    BY <1>3 DEF StartNext, TypeOK, Statuses, Active, Executing, MayStart
  <2>3. Shape'
    <3>1. op \in Ops /\ graph' = graph /\ op.pc = "start_next"
      BY <1>3 DEF StartNext, TypeOK, MayStart
    <3>2. CASE op' = Free
      BY <2>0, <3>1, <3>2, WorkerTypes DEF Shape, Busy
    <3>3. CASE op' # Free
      BY <2>0, <3>1, <3>3 DEF Shape, Busy, Ops
    <3>4. QED BY <3>2, <3>3
  <2>4. QED BY <1>3, <2>1, <2>2, <2>3 DEF StartNext, TypeOK, MayStart
<1>4. CASE StartedNext
  BY <1>4 DEF StartedNext, Unlock, TypeOK, Shape, Busy, Lifecycle, Ops, Free, Commands,
              Idle, Workers
<1>5. ASSUME NEW r \in Runs, Stop(r) PROVE TypeInv'
  BY <1>5 DEF Stop, Locking, TypeOK, Shape, Busy, Ops
<1>6. CASE StopEvent
  BY <1>6 DEF StopEvent, TypeOK, Shape, Busy, Ops, Lifecycle
<1>7. CASE StopStatus
  BY <1>7 DEF StopStatus, TypeOK, Shape, Busy, Ops, Free, Statuses, Active, Executing
<1>8. ASSUME NEW r \in Runs, Resume(r) PROVE TypeInv'
  BY <1>8 DEF Resume, Locking, TypeOK, Shape, Busy, Statuses, Active, Executing, Commands, Resumable
<1>9. CASE PauseAll
  BY <1>9 DEF PauseAll, RequestAllStops, Locking, TypeOK, Shape, Busy, WithStatus
<1>10. CASE Shutdown
  BY <1>10 DEF Shutdown, RequestAllStops, Locking, TypeOK, Shape, Busy, WithStatus, Commands
<1>11. ASSUME NEW p \in Profiles, Connect(p) \/ Forget(p) PROVE TypeInv'
  BY <1>11 DEF Connect, Forget, Locking, TypeOK, Shape, Busy
<1>12. ASSUME NEW t \in Threads, DeleteCheckpoints(t) PROVE TypeInv'
  BY <1>12, NoStateType DEF DeleteCheckpoints, Locking, TypeOK, Shape, Busy, Ops
<1>13. CASE DeleteRows
  BY <1>13, RunsAssumption DEF DeleteRows, OfThread, TypeOK, Shape, Busy, Ops, Free, Statuses
<1>14. CASE OpFault
  <2>1. CASE op.by = "api"
    BY <1>14, <2>1, WorkerTypes DEF OpFault, TypeOK, Shape, Busy
  <2>2. CASE op.by = "worker"
    BY <1>14, <2>2, WorkerTypes DEF OpFault, TypeOK, Shape, Busy
  <2>3. CASE op.by \notin {"api", "worker"}
    <3>1. /\ up' = FALSE /\ shutting' = FALSE /\ commands' = <<>> /\ stopReq' = {}
          /\ sessions' = {} /\ worker' = Idle /\ graph' = NoState /\ op' = Free
          /\ UNCHANGED <<status, thread, profile, lastEvent, ckpt, pending, asked>>
      BY <1>14, <2>3 DEF OpFault
    <3>2. commands' \in Seq(Commands)
      BY <3>1
    <3>3. QED BY <3>1, <3>2, WorkerTypes, NoStateType DEF TypeOK, Shape, Busy
  <2>4. QED BY <2>1, <2>2, <2>3
<1>15. CASE Take
  <2>1. Head(commands) \in Commands /\ commands' \in Seq(Commands)
    BY <1>15 DEF Take, TypeOK, Dispatch, Execute
  <2>2. worker' \in Workers /\ (worker'.phase = "invoke" => worker'.run \in Runs)
    BY <1>15, <2>1 DEF Take, TypeOK, Commands, Quit, Workers, Idle, Gone, Dispatch, Execute
  <2>3. worker'.phase \in {"invoke", "exited"} /\ worker.phase = "idle"
    BY <1>15 DEF Take, Idle, Gone, Dispatch, Execute
  <2>4. QED BY <1>15, <2>1, <2>2, <2>3 DEF Take, TypeOK, Shape, Busy, Dispatch, Execute
<1>16. CASE Invoke
  <2>1. worker.run \in Runs /\ ckpt[thread[worker.run]] \in GraphStates
    BY <1>16 DEF Invoke, TypeOK, Shape, Busy
  <2>2. graph' \in GraphStates /\ graph'.run = worker.run
    BY <1>16, <2>1, InitialStateType DEF Invoke, Enter, InitialState, NoState
  <2>3. worker' \in Workers
    BY <1>16 DEF Invoke, Enter, TypeOK, Workers
  <2>4. QED BY <1>16, <2>1, <2>2, <2>3 DEF Invoke, Enter, TypeOK, Shape, Busy, Workers
<1>17. CASE InvokeResume
  <2> DEFINE r  == worker.run
             ck == ckpt[thread[r]]
  <2>1. r \in Runs /\ thread[r] \in Threads /\ ck \in GraphStates
    BY <1>17 DEF InvokeResume, TypeOK, Shape, Busy, SameRun, Undone, Fixed, NoticedStop
  <2>2. [ck EXCEPT !.waiting = FALSE] \in GraphStates
    BY <2>1 DEF GraphStates
  <2>3. ck.at.at \in KernelGates =>
           [ck EXCEPT !.pend["kernel"] = FALSE, !.at = WorkAt(ck.at.at)] \in GraphStates
    BY <2>1, NodeTypes DEF GraphStates, Works, Gates, Levels
  <2>4. InitialState(r, ck) \in GraphStates /\ InitialState(r, ck).run = r
    BY <2>1, InitialStateType DEF InitialState, NoState
  <2>5. graph' \in GraphStates /\ (worker'.phase = "node" => graph'.run = r)
    BY <1>17, <2>1, <2>2, <2>3, <2>4 DEF InvokeResume, Enter, GraphStates, SameRun, Undone, Fixed, NoticedStop
  <2>6. ckpt' \in [Threads -> GraphStates]
    BY <1>17, <2>1, <2>3 DEF InvokeResume, TypeOK, SameRun, Undone, Fixed, NoticedStop
  <2>7. /\ worker' \in Workers /\ worker'.run = r
        /\ worker'.phase = "settle" => worker'.verdict # "none"
    <3>1. \/ \E b \in BOOLEAN : worker' = [worker EXCEPT !.phase = "node", !.resuming = b]
          \/ worker' = [worker EXCEPT !.phase = "settle", !.verdict = "completed"]
      BY <1>17 DEF InvokeResume, Enter, SameRun, Undone, Fixed, NoticedStop
    <3>2. worker \in Workers
      BY DEF TypeOK
    <3>3. worker' \in Workers
      BY <3>1, <3>2, WorkerTypes
    <3>4. worker'.run = r /\ (worker'.phase = "settle" => worker'.verdict # "none")
      BY <3>1, <3>2 DEF Workers
    <3>5. QED BY <3>3, <3>4
  <2>8. lastEvent' \in [Runs -> Lifecycle \cup {"none"}] /\ stopReq' \subseteq Runs
    BY <1>17 DEF InvokeResume, TypeOK, Lifecycle, SameRun, Undone, Fixed, NoticedStop
  <2>9. op.by # "worker"
    BY <1>17 DEF InvokeResume, Shape, SameRun, Undone, Fixed, NoticedStop
  <2>10. QED
    BY <1>17, <2>1, <2>5, <2>6, <2>7, <2>8, <2>9 DEF InvokeResume, TypeOK, Shape, Busy, SameRun, Undone, Fixed, NoticedStop
<1>18. CASE StopNode
  <2>1. graph.at.at \in Gates /\ graph \in GraphStates
    BY <1>18, NodeTypes DEF StopNode, AtNode, TypeOK, GraphStates, Noticed
  <2>2. graph' \in GraphStates /\ graph'.run = graph.run
    <3>1. \A p \in BOOLEAN : IF p THEN PauseAt(graph.at.at) \in Nodes
                                    ELSE WorkAt(graph.at.at) \in Nodes
      BY <2>1, NodeTypes DEF Works
    <3>2. PICK p \in BOOLEAN :
             graph' = [graph EXCEPT !.pend[Level(graph.at.at)] = p,
                                    !.at = IF p THEN PauseAt(graph.at.at) ELSE WorkAt(graph.at.at)]
      BY <1>18, <2>1 DEF StopNode, GraphStates, Level, Levels, Noticed
    <3>3. QED BY <2>1, <3>1, <3>2 DEF GraphStates
  <2>3. QED BY <1>18, <2>2 DEF StopNode, AtNode, TypeOK, Shape, Busy, Noticed
<1>19. CASE Interrupt
  <2>1. /\ worker' \in Workers /\ worker'.phase = "settle" /\ worker'.run = worker.run
        /\ worker'.verdict = "interrupt"
    <3>1. worker' = [worker EXCEPT !.phase = "settle", !.verdict = "interrupt",
                                   !.resuming = FALSE]
      BY <1>19 DEF Interrupt, Return
    <3>2. worker \in Workers
      BY DEF TypeOK
    <3>3. worker' \in Workers
      BY <3>1, <3>2, WorkerTypes
    <3>4. QED BY <3>1, <3>2, <3>3 DEF Workers
  <2>2. graph' \in GraphStates
    BY <1>19 DEF Interrupt, TypeOK, GraphStates
  <2>3. worker.phase = "node"
    BY <1>19 DEF Interrupt, AtNode
  <2>4. QED BY <1>19, <2>1, <2>2, <2>3 DEF Interrupt, TypeOK, Shape, Busy
<1>20. CASE Resumed
  <2>1. AfterResume(graph.at) \in Nodes
    BY <1>20, RouteTypes DEF Resumed, AtNode, TypeOK, GraphStates, Cleared
  <2>2. graph' \in GraphStates /\ graph'.run = graph.run
    <3>1. PICK l \in Levels :
             graph' = [graph EXCEPT !.pend[l] = FALSE, !.at = AfterResume(graph.at),
                                    !.resumed = IF l = "evidence" THEN graph.at.kind = "pause" ELSE @]
      BY <1>20 DEF Resumed, Level, Levels, Cleared
    <3>2. (IF l = "evidence" THEN graph.at.kind = "pause" ELSE graph.resumed) \in BOOLEAN
      BY DEF TypeOK, GraphStates
    <3>3. QED BY <2>1, <3>1, <3>2 DEF TypeOK, GraphStates
  <2>3. worker' = [worker EXCEPT !.resuming = FALSE]
    BY <1>20 DEF Resumed, Cleared
  <2>4. worker' \in Workers /\ worker'.phase = worker.phase /\ worker'.run = worker.run
    BY <2>3 DEF TypeOK, Workers
  <2>5. QED BY <1>20, <2>2, <2>4 DEF Resumed, AtNode, TypeOK, Shape, Busy, Lifecycle, Cleared
<1>21. CASE WorkNode
  BY <1>21, WorkTypes
<1>22. CASE NodeFails \/ EmitFails
  <2> DEFINE r  == worker.run
             ck == ckpt[thread[r]]
  <2>1. worker' = [worker EXCEPT !.phase = "settle", !.verdict = "failed", !.resuming = FALSE]
    BY <1>22 DEF NodeFails, EmitFails, Return
  <2>2. /\ worker' \in Workers /\ worker'.phase = "settle" /\ worker'.run = r
        /\ worker'.verdict = "failed"
    <3>1. worker \in Workers
      BY DEF TypeOK
    <3>2. worker' \in Workers
      BY <2>1, <3>1, WorkerTypes
    <3>3. QED BY <2>1, <3>1, <3>2 DEF Workers
  <2>3. worker.phase \in {"node", "invoke"}
    BY <1>22 DEF NodeFails, EmitFails, AtNode
  <2>4. r \in Runs /\ thread[r] \in Threads /\ ck \in GraphStates /\ Fixed(r, ck) \in GraphStates
    <3>1. r \in Runs /\ thread[r] \in Threads /\ ck \in GraphStates
      BY <2>3 DEF TypeOK, Shape, Busy
    <3>2. ck.at.at \in KernelGates =>
             [ck EXCEPT !.pend["kernel"] = FALSE, !.at = WorkAt(ck.at.at)] \in GraphStates
      BY <3>1, NodeTypes DEF GraphStates, Works, Gates, Levels
    <3>3. QED BY <3>1, <3>2 DEF Fixed, Undone, NoticedStop
  <2>5. graph' \in GraphStates /\ ckpt' \in [Threads -> GraphStates] /\ stopReq' \subseteq Runs
    <3>1. CASE NodeFails
      BY <3>1 DEF NodeFails, TypeOK
    <3>2. CASE EmitFails
      <4>1. /\ graph' \in {graph, ck, Fixed(r, ck)} /\ stopReq' \subseteq stopReq
            /\ ckpt' \in {ckpt, [ckpt EXCEPT ![thread[r]] = graph']}
        BY <3>2 DEF EmitFails, Cleared
      <4>2. graph' \in GraphStates
        BY <2>4, <4>1 DEF TypeOK
      <4>3. ckpt' \in [Threads -> GraphStates]
        BY <2>4, <4>1, <4>2 DEF TypeOK
      <4>4. QED BY <4>1, <4>2, <4>3 DEF TypeOK
    <3>3. QED BY <1>22, <3>1, <3>2
  <2>6. QED BY <1>22, <2>2, <2>3, <2>5 DEF NodeFails, EmitFails, TypeOK, Shape, Busy
<1>23. CASE Flush
  BY <1>23 DEF Flush, TypeOK, Shape, Busy
<1>24. CASE Settle
  <2>1. SettledAs \in Statuses /\ SettledAs \in Lifecycle
    <3>1. worker.verdict \in {"interrupt", "auth", "completed", "failed"}
      BY <1>24 DEF Settle, TypeOK, Workers, Shape, HandsOver
    <3>2. SettledAs \in {"paused", "completed", "failed"}
      BY <3>1 DEF SettledAs
    <3>3. QED BY <3>2 DEF Statuses, Active, Terminal, Lifecycle
  <2>2. worker' \in Workers /\ worker'.phase \in {"idle", "handoff"}
    BY <1>24, WorkerTypes DEF Settle, HandsOver
  <2>3. \/ op' = op /\ op = Free
        \/ /\ op' = [pc |-> "start_next", run |-> NoRun, by |-> "worker"]
           /\ worker' = Gone("handoff")
    BY <1>24 DEF Settle, Locking, HandsOver
  <2>4. op' \in Ops /\ Shape'
    <3>1. CASE op' = op /\ op = Free
      BY <2>2, <3>1, WorkerTypes DEF Shape, Busy
    <3>2. CASE op' # op \/ op # Free
      <4>1. /\ op' = [pc |-> "start_next", run |-> NoRun, by |-> "worker"]
            /\ worker'.phase = "handoff"
        BY <2>3, <3>2, WorkerTypes
      <4>2. op' \in Ops /\ op'.pc = "start_next"
        BY <4>1 DEF Ops
      <4>3. Shape'
        BY <4>1, <4>2 DEF Shape, Busy
      <4>4. QED BY <4>2, <4>3
    <3>3. QED BY <3>1, <3>2
  <2>5. QED BY <1>24, <2>1, <2>2, <2>4, NoStateType DEF Settle, TypeOK, HandsOver
<1>25. CASE SettleFails \/ ReadFails
  BY <1>25, NoStateType, WorkerTypes DEF SettleFails, ReadFails, Locking, TypeOK, Shape, Busy
<1>26. CASE Crash
  <2>1. commands' \in Seq(Commands)
    BY <1>26 DEF Crash
  <2>2. QED BY <1>26, <2>1, WorkerTypes, NoStateType DEF Crash, TypeOK, Shape, Busy
<1>27. CASE Boot
  <2>1. op' \in Ops /\ Shape'
    BY <1>27, WorkerTypes DEF Boot, TypeOK, Shape, Busy, Ops, Unfinished
  <2>2. QED BY <1>27, <2>1 DEF Boot, TypeOK, Statuses, Active, Lifecycle, Unfinished
<1>28. CASE UNCHANGED vars
  BY <1>28 DEF vars, evidence, TypeOK, Shape, Busy
<1>29. QED
  BY <1>1, <1>2, <1>3, <1>4, <1>5, <1>6, <1>7, <1>8, <1>9, <1>10, <1>11, <1>12, <1>13,
     <1>14, <1>15, <1>16, <1>17, <1>18, <1>19, <1>20, <1>21, <1>22, <1>23, <1>24, <1>25,
     <1>26, <1>27, <1>28 DEF Next, Api, OpStep, WorkerStep, Fault

(* Whatever the store, the API, the worker and crashes do, every variable  *)
(* keeps its type, and the graph in execution is the worker's own run's.   *)
THEOREM TypeCorrect == Spec => []TypeOK
<1>1. TypeInv /\ [Next]_vars => TypeInv'
  BY TypeStep
<1>2. TypeInv => TypeOK
  BY DEF TypeInv
<1>3. QED BY TypeInit, <1>1, <1>2, PTL DEF Spec

(***************************************************************************)
(* One active run.  The statuses alone are not inductive: what settles a   *)
(* run is the worker, on the strength of a command queued earlier.  The    *)
(* strengthening says that a single token, a queued command, the worker's  *)
(* current run or an operation about to queue its command, goes with the   *)
(* one run that is executing, and none with any other.                     *)
(***************************************************************************)
Calm   == \A i \in DOMAIN commands : commands[i] = Quit
Starts == op.pc = "started_next" \/ (op.pc = "submitted" /\ status[op.run] = "running")

CommandInv ==
    /\ \A i \in DOMAIN commands : commands[i] # Quit => status[commands[i].run] \in Executing
    /\ \A i, j \in DOMAIN commands : commands[i] # Quit /\ commands[j] # Quit => i = j

WorkerInv == Busy => status[worker.run] \in Executing /\ Calm /\ ~ Starts

OpInv ==
    /\ op.pc = "submitted" => status[op.run] \in {"queued", "running"}
    /\ op.pc \in {"stop_event", "stop_status", "started_next"} => status[op.run] = "running"
    /\ op.pc = "delete" => Settled(thread[op.run])
    /\ Starts => Calm

DownInv == ~ up => op = Free /\ commands = <<>> /\ worker = Idle

TokenInv == OneActive /\ CommandInv /\ WorkerInv /\ OpInv /\ DownInv

Inv == TypeInv /\ TokenInv

LEMMA ExecutingIsActive == Executing \subseteq Active /\ "paused" \in Active /\ "paused" \notin Executing
                           /\ Active \cap Terminal = {} /\ "queued" \notin Active
                           /\ "none" \notin Active /\ "deleted" \notin Active
BY DEF Active, Executing, Terminal

(* No token without an executing run. *)
LEMMA NoToken ==
    ASSUME Inv, \A r \in Runs : status[r] \notin Executing
    PROVE  Calm /\ ~ Busy /\ ~ Starts
<1>1. Calm
  <2>1. SUFFICES ASSUME NEW i \in DOMAIN commands, commands[i] # Quit PROVE FALSE
    BY DEF Calm
  <2>2. commands[i] \in Commands
    BY <2>1 DEF Inv, TypeInv, TypeOK
  <2>3. commands[i].run \in Runs
    BY <2>1, <2>2 DEF Commands
  <2>4. QED BY <2>1, <2>3 DEF Inv, TokenInv, CommandInv
<1>2. ~ Busy
  BY DEF Inv, TokenInv, WorkerInv, TypeInv, Shape
<1>3. ~ Starts
  BY DEF Inv, TokenInv, OpInv, Starts, TypeInv, Shape, Executing
<1>4. QED BY <1>1, <1>2, <1>3

(* A step of the worker or of the checkpointer that leaves statuses,       *)
(* commands and operations alone keeps the token where it is.              *)
LEMMA TokenFrame ==
    ASSUME Inv, UNCHANGED <<status, thread, commands, op, up>>, up,
           Busy' => Busy /\ worker'.run = worker.run
    PROVE  TokenInv'
BY DEF Inv, TokenInv, OneActive, WithStatus, CommandInv, WorkerInv, OpInv, DownInv, Calm,
       Starts, Settled, OfThread

(* Queueing a command for an executing run when no other is queued. *)
LEMMA TokenAppend ==
    ASSUME NEW c \in Commands, Inv, Calm, commands' = Append(commands, c),
           c # Quit => status'[c.run] \in Executing
    PROVE  CommandInv'
<1>1. /\ DOMAIN commands' = 1 .. Len(commands) + 1
      /\ DOMAIN commands = 1 .. Len(commands) /\ Len(commands) \in Nat
      /\ \A i \in 1 .. Len(commands) : commands'[i] = commands[i]
      /\ commands'[Len(commands) + 1] = c
  BY DEF Inv, TypeInv, TypeOK
<1>2. QED BY <1>1 DEF CommandInv, Calm

LEMMA CalmAppendQuit ==
    ASSUME Inv, commands' = Append(commands, Quit)
    PROVE  /\ Calm => Calm'
           /\ (\A i \in DOMAIN commands : commands[i] # Quit => status[commands[i].run] \in Executing)
              /\ UNCHANGED status => CommandInv'
<1>1. /\ DOMAIN commands' = 1 .. Len(commands) + 1
      /\ DOMAIN commands = 1 .. Len(commands) /\ Len(commands) \in Nat
      /\ \A i \in 1 .. Len(commands) : commands'[i] = commands[i]
      /\ commands'[Len(commands) + 1] = Quit
  BY DEF Inv, TypeInv, TypeOK
<1>2. QED BY <1>1 DEF CommandInv, Calm, Inv, TokenInv

LEMMA TokenInit == Init => TokenInv
BY DEF Init, TokenInv, OneActive, WithStatus, Active, Executing, CommandInv, WorkerInv, OpInv,
       DownInv, Busy, Idle, Free, Starts

LEMMA TokenStep == Inv /\ [Next]_vars => TokenInv'
<1> SUFFICES ASSUME Inv, [Next]_vars PROVE TokenInv'
  OBVIOUS
<1> USE DEF store, control
<1>0. /\ status \in [Runs -> Statuses] /\ commands \in Seq(Commands) /\ op \in Ops
      /\ worker \in Workers /\ thread \in [Runs -> Threads]
  BY DEF Inv, TypeInv, TypeOK
<1>1. ASSUME NEW t \in Threads, NEW p \in Profiles, Submit(t, p) PROVE TokenInv'
  <2>1. PICK new \in Runs :
           /\ status[new] = "none"
           /\ status' = [status EXCEPT ![new] = IF WithStatus(Active \cup {"queued"}) # {}
                                                THEN "queued" ELSE "running"]
           /\ op' = [pc |-> "submitted", run |-> new, by |-> "api"]
    BY <1>1 DEF Submit, First, WithStatus, Ahead
  <2>2. up /\ up' /\ op.pc = "free" /\ UNCHANGED <<commands, worker>>
    BY <1>1, WorkerTypes DEF Submit, Locking, Ahead
  <2>3. CASE WithStatus(Active \cup {"queued"}) # {}
    <3>1. status' = [status EXCEPT ![new] = "queued"]
      BY <2>1, <2>3
    <3>2. OneActive'
      BY <1>0, <2>1, <3>1, ExecutingIsActive DEF Inv, TokenInv, OneActive, WithStatus
    <3>3. CommandInv'
      BY <1>0, <2>1, <2>2, <3>1, ExecutingIsActive DEF Inv, TokenInv, CommandInv
    <3>4. ~ Starts'
      BY <1>0, <2>1, <3>1 DEF Starts
    <3>5. WorkerInv'
      BY <1>0, <2>1, <2>2, <3>1, <3>4, ExecutingIsActive
      DEF Inv, TypeInv, Shape, TokenInv, WorkerInv, Busy, Calm
    <3>6. OpInv' /\ DownInv'
      BY <1>0, <2>1, <2>2, <3>1, <3>4 DEF OpInv, DownInv
    <3>7. QED BY <3>2, <3>3, <3>5, <3>6 DEF TokenInv
  <2>4. CASE WithStatus(Active \cup {"queued"}) = {}
    <3>1. status' = [status EXCEPT ![new] = "running"]
      BY <2>1, <2>4
    <3>2. \A r \in Runs : status[r] \notin Active
      BY <2>4 DEF WithStatus
    <3>3. Calm /\ ~ Busy /\ ~ Starts
      BY <3>2, NoToken, ExecutingIsActive
    <3>4. OneActive'
      BY <1>0, <3>1, <3>2 DEF OneActive, WithStatus
    <3>5. Calm' /\ ~ Busy'
      BY <2>2, <3>3 DEF Calm, Busy
    <3>6. status'[new] = "running"
      BY <1>0, <3>1
    <3>7. QED BY <2>1, <2>2, <3>4, <3>5, <3>6
          DEF TokenInv, CommandInv, WorkerInv, OpInv, DownInv, Calm
  <2>5. QED BY <2>3, <2>4
<1>2. CASE Submitted
  <2>1. op.run \in Runs /\ up /\ up' /\ op.pc = "submitted" /\ UNCHANGED <<status, thread, worker>>
    BY <1>2 DEF Submitted, Inv, TypeInv, Shape
  <2>2. CASE status[op.run] = "queued"
    <3>1. commands' = commands /\ op'.pc \in {"start_next", "free"} /\ op'.pc # "submitted"
      BY <1>0, <1>2, <2>2, WorkerTypes DEF Submitted, Ops
    <3>2. ~ Starts'
      BY <3>1 DEF Starts
    <3>3. QED BY <2>1, <3>1, <3>2 DEF Inv, TokenInv, OneActive, WithStatus, CommandInv,
              WorkerInv, OpInv, DownInv, Calm, Busy
  <2>3. CASE status[op.run] # "queued"
    <3>1. Starts /\ Calm
      BY <2>1, <2>3 DEF Inv, TokenInv, OpInv, Starts
    <3>2. ~ Busy'
      BY <2>1, <3>1 DEF Inv, TokenInv, WorkerInv, Busy
    <3>3. commands' = Append(commands, [act |-> "start", run |-> op.run]) /\ op' = Free
      BY <1>2, <2>3 DEF Submitted
    <3>4. status'[op.run] \in Executing
      BY <2>1, <2>3 DEF Inv, TokenInv, OpInv, Executing
    <3>5. CommandInv'
      BY <2>1, <3>1, <3>3, <3>4, TokenAppend DEF Commands
    <3>6. QED BY <2>1, <3>2, <3>3, <3>5, WorkerTypes DEF Inv, TokenInv, OneActive, WithStatus,
              WorkerInv, OpInv, DownInv, Starts
  <2>4. QED BY <2>2, <2>3
<1>3. CASE StartNext
  <2>1. up /\ up' /\ op.pc = "start_next" /\ UNCHANGED <<thread, commands>>
    BY <1>3 DEF StartNext, MayStart
  <2>2. CASE UNCHANGED status
    <3>1. op' = Free /\ worker' = IF op.by = "worker" THEN Idle ELSE worker
      <4>1. ASSUME NEW r \in Runs, status[r] = "queued",
                   status' = [status EXCEPT ![r] = "running"]
            PROVE  FALSE
        BY <1>0, <2>2, <4>1
      <4>2. QED BY <1>3, <4>1 DEF StartNext, Unlock, First, WithStatus, MayStart
    <3>2. Busy' => Busy /\ worker'.run = worker.run
      BY <3>1, WorkerTypes DEF Busy
    <3>3. ~ Starts'
      BY <3>1, WorkerTypes DEF Starts
    <3>4. QED BY <2>1, <2>2, <3>1, <3>2, <3>3, WorkerTypes
          DEF Inv, TokenInv, OneActive, WithStatus, CommandInv, WorkerInv, OpInv, DownInv, Calm
  <2>3. CASE ~ UNCHANGED status
    <3>1. /\ WithStatus(Active) = {} /\ worker' = worker
          /\ \E r \in Runs : /\ status' = [status EXCEPT ![r] = "running"]
                            /\ op' = [op EXCEPT !.pc = "started_next", !.run = r]
      BY <1>3, <2>3 DEF StartNext, MayStart
    <3>2. PICK r \in Runs : /\ status' = [status EXCEPT ![r] = "running"]
                            /\ op' = [op EXCEPT !.pc = "started_next", !.run = r]
      BY <3>1
    <3>3. \A q \in Runs : status[q] \notin Active
      BY <3>1 DEF WithStatus
    <3>4. Calm /\ ~ Busy
      BY <3>3, NoToken, ExecutingIsActive
    <3>5. Calm' /\ ~ Busy'
      BY <2>1, <3>1, <3>4 DEF Calm, Busy
    <3>6. OneActive'
      BY <1>0, <3>2, <3>3 DEF OneActive, WithStatus
    <3>7. op'.pc = "started_next" /\ op'.run = r /\ status'[r] = "running"
      BY <1>0, <3>2 DEF Ops
    <3>8. QED BY <2>1, <3>5, <3>6, <3>7 DEF TokenInv, CommandInv, WorkerInv, OpInv, DownInv, Calm
  <2>4. QED BY <2>2, <2>3
<1>4. CASE StartedNext
  <2>1. /\ op.run \in Runs /\ up /\ up' /\ op.pc = "started_next" /\ UNCHANGED <<status, thread>>
        /\ commands' = Append(commands, [act |-> "start", run |-> op.run])
        /\ op' = Free /\ worker' = IF op.by = "worker" THEN Idle ELSE worker
    BY <1>4 DEF StartedNext, Unlock, Inv, TypeInv, Shape
  <2>2. Starts /\ Calm /\ status[op.run] = "running"
    BY <2>1 DEF Inv, TokenInv, OpInv, Starts
  <2>3. ~ Busy'
    BY <2>1, <2>2, WorkerTypes DEF Inv, TokenInv, WorkerInv, Busy
  <2>4. CommandInv'
    BY <2>1, <2>2, TokenAppend DEF Commands, Executing
  <2>5. QED BY <2>1, <2>3, <2>4, WorkerTypes DEF Inv, TokenInv, OneActive, WithStatus,
            WorkerInv, OpInv, DownInv, Starts
<1>5. ASSUME NEW r \in Runs, Stop(r) PROVE TokenInv'
  <2>1. /\ up /\ up' /\ status[r] = "running" /\ UNCHANGED <<status, thread, commands, worker>>
        /\ op'.pc = "stop_event" /\ op'.run = r
    BY <1>5 DEF Stop, Locking
  <2>2. QED BY <2>1 DEF Inv, TokenInv, OneActive, WithStatus, CommandInv, WorkerInv, OpInv,
            DownInv, Calm, Busy, Starts
<1>6. CASE StopEvent
  <2>1. /\ up /\ up' /\ UNCHANGED <<status, thread, commands, worker>> /\ op.pc = "stop_event"
        /\ op'.pc = "stop_status" /\ op'.run = op.run
    BY <1>0, <1>6 DEF StopEvent, Ops
  <2>2. QED BY <2>1 DEF Inv, TokenInv, OneActive, WithStatus, CommandInv, WorkerInv, OpInv,
            DownInv, Calm, Busy, Starts
<1>7. CASE StopStatus
  <2>1. /\ up /\ up' /\ UNCHANGED <<thread, commands, worker>> /\ op.pc = "stop_status"
        /\ status' = [status EXCEPT ![op.run] = "stopping"] /\ op' = Free
    BY <1>7 DEF StopStatus
  <2>2. op.run \in Runs /\ status[op.run] = "running"
    BY <2>1 DEF Inv, TypeInv, Shape, TokenInv, OpInv
  <2>3. \A q \in Runs : /\ status'[q] \in Executing <=> status[q] \in Executing
                        /\ status'[q] \in Active <=> status[q] \in Active
    BY <1>0, <2>1, <2>2 DEF Executing, Active
  <2>4. OneActive'
    BY <2>3 DEF Inv, TokenInv, OneActive, WithStatus
  <2>5. CommandInv'
    <3>1. \A i \in DOMAIN commands : commands[i] # Quit => commands[i].run \in Runs
      BY <1>0 DEF Commands
    <3>2. QED BY <2>1, <2>3, <3>1 DEF Inv, TokenInv, CommandInv
  <2>6. WorkerInv' /\ OpInv' /\ DownInv'
    BY <2>1, <2>3, WorkerTypes DEF Inv, TypeInv, Shape, TokenInv, WorkerInv, OpInv, DownInv,
       Busy, Calm, Starts
  <2>7. QED BY <2>4, <2>5, <2>6 DEF TokenInv
<1>8. ASSUME NEW r \in Runs, Resume(r) PROVE TokenInv'
  <2>1. /\ up /\ up' /\ op = Free /\ UNCHANGED <<thread, worker, op>> /\ status[r] = "paused"
        /\ status' = [status EXCEPT ![r] = "running"]
        /\ commands' = Append(commands, [act |-> "resume", run |-> r])
    BY <1>8 DEF Resume, Locking, Resumable
  <2>2. \A q \in Runs : q # r => status[q] \notin Active
    BY <2>1, ExecutingIsActive DEF Inv, TokenInv, OneActive, WithStatus
  <2>3. Calm /\ ~ Busy
    BY <2>1, <2>2, NoToken, ExecutingIsActive
  <2>4. OneActive'
    BY <1>0, <2>1, <2>2 DEF OneActive, WithStatus
  <2>5. CommandInv'
    BY <1>0, <2>1, <2>3, TokenAppend DEF Commands, Executing
  <2>6. QED BY <2>1, <2>3, <2>4, <2>5, WorkerTypes
        DEF TokenInv, WorkerInv, OpInv, DownInv, Busy, Starts
<1>9. CASE PauseAll
  <2>1. UNCHANGED <<status, thread, commands, worker, op, up>>
    BY <1>9 DEF PauseAll
  <2>2. QED BY <2>1 DEF Inv, TokenInv, OneActive, WithStatus, CommandInv, WorkerInv, OpInv,
            DownInv, Calm, Busy, Starts, Settled, OfThread
<1>10. CASE Shutdown
  <2>1. /\ up /\ up' /\ op = Free /\ UNCHANGED <<status, thread, worker, op>>
        /\ commands' = Append(commands, Quit)
    BY <1>10 DEF Shutdown, Locking
  <2>2. CommandInv' /\ (Calm => Calm')
    BY <2>1, CalmAppendQuit DEF Inv, TokenInv, CommandInv
  <2>3. QED BY <2>1, <2>2, WorkerTypes DEF Inv, TokenInv, OneActive, WithStatus, WorkerInv,
            OpInv, DownInv, Busy, Starts
<1>11. ASSUME NEW p \in Profiles, Connect(p) \/ Forget(p) PROVE TokenInv'
  <2>1. UNCHANGED <<status, thread, commands, worker, op, up>>
    BY <1>11 DEF Connect, Forget
  <2>2. QED BY <2>1 DEF Inv, TokenInv, OneActive, WithStatus, CommandInv, WorkerInv, OpInv,
            DownInv, Calm, Busy, Starts, Settled, OfThread
<1>12. ASSUME NEW t \in Threads, DeleteCheckpoints(t) PROVE TokenInv'
  <2>1. /\ up /\ up' /\ UNCHANGED <<status, thread, commands, worker>> /\ Settled(t)
        /\ op'.pc = "delete" /\ thread[op'.run] = t
    BY <1>12 DEF DeleteCheckpoints, Locking, First, OfThread
  <2>2. Settled(thread[op.run])'
    BY <2>1 DEF Settled, OfThread
  <2>3. QED BY <2>1, <2>2 DEF Inv, TokenInv, OneActive, WithStatus, CommandInv, WorkerInv, OpInv,
            DownInv, Calm, Busy, Starts
<1>13. CASE DeleteRows
  <2>1. /\ up /\ up' /\ UNCHANGED <<thread, commands, worker>> /\ op.pc = "delete" /\ op' = Free
        /\ status' = [r \in Runs |-> IF r \in OfThread(thread[op.run]) THEN "deleted" ELSE status[r]]
    BY <1>13 DEF DeleteRows
  <2>2. \A r \in OfThread(thread[op.run]) : status[r] \in Terminal
    BY <2>1 DEF Inv, TokenInv, OpInv, Settled
  <2>3. \A r \in Runs : /\ status'[r] \in Executing <=> status[r] \in Executing
                        /\ status'[r] \in Active <=> status[r] \in Active
    BY <2>1, <2>2, ExecutingIsActive
  <2>4. OneActive'
    BY <2>3 DEF Inv, TokenInv, OneActive, WithStatus
  <2>5. CommandInv'
    <3>1. \A i \in DOMAIN commands : commands[i] # Quit => commands[i].run \in Runs
      BY <1>0 DEF Commands
    <3>2. QED BY <2>1, <2>3, <3>1 DEF Inv, TokenInv, CommandInv
  <2>6. WorkerInv' /\ OpInv' /\ DownInv'
    BY <2>1, <2>3, WorkerTypes DEF Inv, TypeInv, Shape, TokenInv, WorkerInv, OpInv, DownInv,
       Busy, Calm, Starts
  <2>7. QED BY <2>4, <2>5, <2>6 DEF TokenInv
<1>14. CASE OpFault
  <2>1. up /\ op' = Free /\ UNCHANGED <<status, thread>>
    BY <1>14 DEF OpFault
  <2>2. \/ UNCHANGED <<up, commands, worker>>
        \/ UNCHANGED <<up, commands>> /\ worker' = Gone("dead")
        \/ up' = FALSE /\ commands' = <<>> /\ worker' = Idle
    BY <1>14 DEF OpFault
  <2>3. (Busy' => Busy /\ worker' = worker /\ UNCHANGED commands) /\ ~ Starts'
    BY <2>1, <2>2, WorkerTypes DEF Busy, Starts
  <2>4. OneActive' /\ OpInv'
    BY <2>1, <2>3, WorkerTypes DEF Inv, TokenInv, OneActive, WithStatus, OpInv
  <2>5. CommandInv' /\ (UNCHANGED commands => (Calm => Calm'))
    <3>1. CASE UNCHANGED commands
      BY <2>1, <3>1 DEF Inv, TokenInv, CommandInv, Calm
    <3>2. CASE commands' = <<>>
      BY <3>2 DEF CommandInv, Calm
    <3>3. QED BY <2>2, <3>1, <3>2
  <2>6. WorkerInv' /\ DownInv'
    BY <2>1, <2>2, <2>3, <2>5 DEF Inv, TokenInv, WorkerInv, DownInv
  <2>7. QED BY <2>4, <2>5, <2>6 DEF TokenInv
<1>15. CASE Take
  <2>1. /\ up /\ up' /\ UNCHANGED <<status, thread, op>> /\ ~ Busy /\ commands # <<>>
        /\ commands' = Tail(commands)
        /\ worker' = IF Head(commands) = Quit THEN Gone("exited")
                     ELSE [Idle EXCEPT !.phase = "invoke", !.act = Head(commands).act,
                                       !.run = Head(commands).run]
    BY <1>15 DEF Take, Busy, Dispatch, Execute
  <2>2. /\ DOMAIN commands = 1 .. Len(commands) /\ Len(commands) \in Nat /\ Len(commands) # 0
        /\ DOMAIN commands' = 1 .. Len(commands) - 1
        /\ \A i \in 1 .. Len(commands) - 1 : commands'[i] = commands[i + 1]
        /\ Head(commands) = commands[1]
    BY <1>0, <2>1
  <2>3. CommandInv' /\ (Calm => Calm')
    BY <2>1, <2>2 DEF Inv, TokenInv, CommandInv, Calm
  <2>4. CASE Head(commands) = Quit
    <3>1. ~ Busy'
      BY <2>1, <2>4, WorkerTypes DEF Busy
    <3>2. QED BY <2>1, <2>3, <3>1 DEF Inv, TokenInv, OneActive, WithStatus, WorkerInv, OpInv,
              DownInv, Starts, Settled, OfThread
  <2>5. CASE Head(commands) # Quit
    <3>1. worker'.run = commands[1].run
      BY <2>1, <2>2, <2>5 DEF Idle
    <3>2. 1 \in DOMAIN commands /\ commands[1] # Quit
      BY <2>2, <2>5
    <3>3. status[commands[1].run] \in Executing
      BY <3>2 DEF Inv, TokenInv, CommandInv
    <3>4. ~ Starts
      BY <3>2 DEF Inv, TokenInv, OpInv, Calm
    <3>5. Calm'
      BY <2>2, <3>2 DEF Inv, TokenInv, CommandInv, Calm
    <3>6. ~ Starts' /\ WorkerInv'
      BY <2>1, <3>1, <3>3, <3>4, <3>5 DEF WorkerInv, Starts
    <3>7. QED BY <2>1, <2>3, <3>6 DEF Inv, TokenInv, OneActive, WithStatus, OpInv, DownInv,
              Starts, Settled, OfThread
  <2>6. QED BY <2>4, <2>5
<1>16. CASE Invoke \/ InvokeResume \/ StopNode \/ Interrupt \/ Resumed \/ WorkNode
            \/ NodeFails \/ EmitFails \/ ReadFails \/ Flush \/ SettleFails
  <2>1. up /\ UNCHANGED <<status, thread, commands, op, up>>
    BY <1>16 DEF Invoke, InvokeResume, StopNode, Interrupt, Resumed, WorkNode, NodeFails,
       EmitFails, ReadFails, Flush, SettleFails, Plan, RunTool, RunImmediate, Prepare, Analyze, Publish,
       Finish, SourceChanged, Unauthorized, Compose, Go, Work, At, AtNode, Locking, SameRun, Undone, Fixed, NoticedStop, Noticed, Cleared
  <2>2. Busy' => Busy /\ worker'.run = worker.run
    <3>1. CASE Invoke \/ InvokeResume
      BY <1>0, <3>1 DEF Invoke, InvokeResume, Enter, Busy, Workers, SameRun, Undone, Fixed, NoticedStop
    <3>2. CASE StopNode \/ Interrupt \/ Resumed
      BY <1>0, <3>2 DEF StopNode, Interrupt, Resumed, Return, AtNode, Busy, Workers, Noticed, Cleared
    <3>3. CASE WorkNode
      BY <1>0, <3>3 DEF WorkNode, Plan, RunTool, RunImmediate, Prepare, Analyze, Publish,
         Finish, SourceChanged, Unauthorized, Compose, Go, Work, At, AtNode, Return, Busy, Workers
    <3>4. CASE NodeFails \/ EmitFails \/ Flush
      BY <1>0, <3>4 DEF NodeFails, EmitFails, Flush, Return, AtNode, Busy, Workers, Cleared
    <3>5. CASE SettleFails \/ ReadFails
      BY <3>5, WorkerTypes DEF SettleFails, ReadFails, Busy
    <3>6. QED BY <1>16, <3>1, <3>2, <3>3, <3>4, <3>5
  <2>3. QED BY <2>1, <2>2, TokenFrame
<1>17. CASE Settle
  <2>1. /\ up /\ up' /\ op = Free /\ Busy /\ UNCHANGED <<thread, commands>>
        /\ status' = [status EXCEPT ![worker.run] = SettledAs]
    BY <1>17 DEF Settle, Locking, Busy, HandsOver
  <2>2. worker.run \in Runs /\ status[worker.run] \in Executing /\ Calm
    BY <2>1 DEF Inv, TypeInv, Shape, TokenInv, WorkerInv
  <2>3. SettledAs \in {"paused", "completed", "failed"}
    BY <1>0, <1>17 DEF Settle, SettledAs, Workers, Inv, TypeInv, Shape, HandsOver
  <2>4. ~ Busy' /\ op'.pc \in {"free", "start_next"}
    <3>1. CASE SettledAs = "paused"
      BY <1>17, <2>1, <3>1, WorkerTypes DEF Settle, Busy, HandsOver
    <3>2. CASE SettledAs # "paused"
      <4>1. worker'.phase = "handoff"
        BY <1>17, <3>2, WorkerTypes DEF Settle, HandsOver
      <4>2. op' = [pc |-> "start_next", run |-> NoRun, by |-> "worker"]
        BY <1>17, <3>2 DEF Settle, HandsOver
      <4>3. QED BY <4>1, <4>2 DEF Busy
    <3>3. QED BY <3>1, <3>2
  <2>5. OneActive'
    BY <1>0, <2>1, <2>2, <2>3, ExecutingIsActive DEF Inv, TokenInv, OneActive, WithStatus
  <2>6. CommandInv' /\ Calm'
    BY <2>1, <2>2 DEF CommandInv, Calm
  <2>7. QED BY <2>1, <2>4, <2>5, <2>6 DEF TokenInv, WorkerInv, OpInv, DownInv, Starts
<1>18. CASE Crash
  <2>1. /\ op' = Free /\ commands' = <<>> /\ worker' = Idle /\ UNCHANGED status
    BY <1>18 DEF Crash
  <2>2. OneActive' /\ CommandInv' /\ DownInv'
    BY <2>1 DEF Inv, TokenInv, OneActive, WithStatus, CommandInv, DownInv
  <2>3. ~ Busy' /\ ~ Starts'
    BY <2>1, WorkerTypes DEF Busy, Starts
  <2>4. QED BY <2>1, <2>2, <2>3, WorkerTypes DEF TokenInv, WorkerInv, OpInv
<1>19. CASE Boot
  <2>1. /\ op = Free /\ commands' = <<>> /\ worker' = Idle /\ up' /\ UNCHANGED thread
        /\ status' = [r \in Runs |-> IF status[r] \in Executing THEN "paused" ELSE status[r]]
        /\ op'.pc \in {"free", "start_next"}
    BY <1>19, WorkerTypes DEF Boot, Inv, TokenInv, DownInv, WithStatus, Unfinished
  <2>2. \A r \in Runs : status'[r] \in Active <=> status[r] \in Active
    BY <2>1, ExecutingIsActive
  <2>3. OneActive'
    BY <2>2 DEF Inv, TokenInv, OneActive, WithStatus
  <2>4. ~ Busy' /\ ~ Starts'
    BY <2>1, WorkerTypes DEF Busy, Starts
  <2>5. CommandInv' /\ DownInv' /\ OpInv'
    BY <2>1, <2>4 DEF CommandInv, DownInv, OpInv
  <2>6. QED BY <2>3, <2>4, <2>5 DEF TokenInv, WorkerInv
<1>20. CASE UNCHANGED vars
  BY <1>20 DEF vars, evidence, Inv, TokenInv, OneActive, WithStatus, CommandInv, WorkerInv, OpInv,
     DownInv, Busy, Calm, Starts, Settled, OfThread
<1>21. QED
  BY <1>1, <1>2, <1>3, <1>4, <1>5, <1>6, <1>7, <1>8, <1>9, <1>10, <1>11, <1>12, <1>13,
     <1>14, <1>15, <1>16, <1>17, <1>18, <1>19, <1>20 DEF Next, Api, OpStep, WorkerStep, Fault

LEMMA InvHolds == Spec => []Inv
<1>1. Init => Inv
  BY TypeInit, TokenInit DEF Inv
<1>2. Inv /\ [Next]_vars => Inv'
  BY TypeStep, TokenStep DEF Inv
<1>3. QED BY <1>1, <1>2, PTL DEF Spec

(* At most one run is ever running, stopping or paused.                    *)
THEOREM ExclusiveRuns == Spec => []OneActive
<1>1. Inv => OneActive
  BY DEF Inv, TokenInv
<1>2. QED BY InvHolds, <1>1, PTL

(* No run is ever carried on twice, and what is carried on is executing.   *)
THEOREM SingleCarrier == Spec => []CarriedOnce
<1>1. ASSUME Inv PROVE CarriedOnce
  <2>1. \A i \in DOMAIN commands : commands[i] # Quit =>
           commands[i].run \in Runs /\ status[commands[i].run] \in Executing
    BY <1>1 DEF Inv, TypeInv, TypeOK, TokenInv, CommandInv, Commands
  <2>2. Ordered \subseteq WithStatus(Executing)
    BY <2>1 DEF Ordered, WithStatus, Quit
  <2>3. Carried \subseteq WithStatus(Executing) /\ (Carried # {} => Busy)
    BY <1>1 DEF Carried, Busy, WithStatus, Inv, TypeInv, Shape, TokenInv, WorkerInv
  <2>4. Starting \subseteq WithStatus(Executing) /\ (Starting # {} => Starts)
    BY <1>1 DEF Starting, Starts, WithStatus, Inv, TypeInv, Shape, TokenInv, OpInv, Executing
  <2>5. Calm => Ordered = {}
    BY DEF Calm, Ordered, Quit
  <2>6. (Busy => Calm /\ ~ Starts) /\ (Starts => Calm)
    BY <1>1 DEF Inv, TokenInv, WorkerInv, OpInv
  <2>7. \A i, j \in DOMAIN commands :
           commands[i].run = commands[j].run /\ commands[i] # Quit => i = j
    <3>1. SUFFICES ASSUME NEW i \in DOMAIN commands, NEW j \in DOMAIN commands,
                          commands[i].run = commands[j].run, commands[i] # Quit
                   PROVE  i = j
      OBVIOUS
    <3>2. commands[j] # Quit
      BY <2>1, <3>1, RunsArePositive DEF Quit
    <3>3. QED BY <1>1, <3>1, <3>2 DEF Inv, TokenInv, CommandInv
  <2>8. QED BY <2>2, <2>3, <2>4, <2>5, <2>6, <2>7 DEF CarriedOnce
<1>2. QED BY InvHolds, <1>1, PTL

(***************************************************************************)
(* Events.  With Inv, the property is inductive: an event is only appended *)
(* to a run that is queued or executing, or together with its status.      *)
(***************************************************************************)
LEMMA AnnouncedAppend ==
    ASSUME Inv, RestIsAnnounced, NEW r \in Runs, NEW e \in Lifecycle \ Terminal,
           status[r] \in Executing \cup {"queued"}, UNCHANGED status,
           lastEvent' = [lastEvent EXCEPT ![r] = e]
    PROVE  RestIsAnnounced'
BY DEF RestIsAnnounced, Inv, TypeInv, TypeOK, Executing, Terminal

LEMMA AnnouncedMove ==
    ASSUME Inv, RestIsAnnounced, NEW r \in Runs, NEW s \in Executing \cup {"queued"},
           status[r] \notin Terminal, UNCHANGED lastEvent, status' = [status EXCEPT ![r] = s]
    PROVE  RestIsAnnounced'
BY DEF RestIsAnnounced, Inv, TypeInv, TypeOK, Executing, Terminal

LEMMA AnnouncedStep == Inv /\ RestIsAnnounced /\ [Next]_vars => RestIsAnnounced'
<1>1. SUFFICES ASSUME Inv, RestIsAnnounced, [Next]_vars PROVE RestIsAnnounced'
  OBVIOUS
<1>2. CASE UNCHANGED <<status, lastEvent>>
  BY <1>1, <1>2 DEF RestIsAnnounced
<1>3. /\ status \in [Runs -> Statuses] /\ lastEvent \in [Runs -> Lifecycle \cup {"none"}]
      /\ op.pc \in {"submitted", "stop_event", "stop_status", "started_next"} => op.run \in Runs
      /\ op.pc = "submitted" => status[op.run] \in {"queued", "running"}
      /\ op.pc \in {"stop_event", "stop_status", "started_next"} => status[op.run] = "running"
      /\ Busy => worker.run \in Runs /\ status[worker.run] \in Executing
      /\ worker.phase = "node" => graph.run = worker.run
  BY <1>1 DEF Inv, TypeInv, TypeOK, Shape, TokenInv, OpInv, WorkerInv
<1>4. {"queued", "started", "stop_requested", "resumed"} \subseteq Lifecycle \ Terminal
  BY DEF Lifecycle, Terminal
<1>5. ASSUME NEW t \in Threads, NEW p \in Profiles, Submit(t, p) PROVE RestIsAnnounced'
  <2>1. PICK new \in Runs :
           /\ status[new] = "none"
           /\ \E s \in {"queued", "running"} : status' = [status EXCEPT ![new] = s]
    BY <1>5 DEF Submit, First, WithStatus, Ahead
  <2>2. UNCHANGED lastEvent
    BY <1>5 DEF Submit, Ahead
  <2>3. QED BY <1>1, <2>1, <2>2, AnnouncedMove DEF Executing, Terminal
<1>6. CASE Submitted
  <2>1. \E e \in {"queued", "started"} : lastEvent' = [lastEvent EXCEPT ![op.run] = e]
    BY <1>6 DEF Submitted
  <2>2. UNCHANGED status /\ op.pc = "submitted"
    BY <1>6 DEF Submitted
  <2>3. QED BY <1>1, <1>3, <1>4, <2>1, <2>2, AnnouncedAppend DEF Executing
<1>7. CASE StartNext
  <2>1. CASE UNCHANGED status
    BY <1>2, <1>7, <2>1 DEF StartNext, MayStart
  <2>2. CASE status' # status
    BY <1>1, <1>7, <2>2, AnnouncedMove DEF StartNext, First, WithStatus, Executing, Terminal, MayStart
  <2>3. QED BY <2>1, <2>2
<1>8. CASE StartedNext
  BY <1>1, <1>3, <1>4, <1>8, AnnouncedAppend DEF StartedNext, Executing
<1>9. CASE StopEvent
  BY <1>1, <1>3, <1>4, <1>9, AnnouncedAppend DEF StopEvent, Executing
<1>10. CASE StopStatus
  BY <1>1, <1>3, <1>10, AnnouncedMove DEF StopStatus, Executing, Terminal
<1>11. ASSUME NEW r \in Runs, Resume(r) PROVE RestIsAnnounced'
  BY <1>1, <1>11, AnnouncedMove DEF Resume, Executing, Terminal, Resumable
<1>12. CASE DeleteRows
  BY <1>1, <1>3, <1>12 DEF DeleteRows, RestIsAnnounced, Terminal
<1>13. CASE InvokeResume
  <2>1. UNCHANGED status /\ Busy
    BY <1>13 DEF InvokeResume, Busy, SameRun, Undone, Fixed, NoticedStop
  <2>2. UNCHANGED lastEvent \/ lastEvent' = [lastEvent EXCEPT ![worker.run] = "resumed"]
    BY <1>13 DEF InvokeResume, SameRun, Undone, Fixed, NoticedStop
  <2>3. QED BY <1>1, <1>2, <1>3, <1>4, <2>1, <2>2, AnnouncedAppend
<1>14. CASE Resumed
  <2>1. UNCHANGED status /\ worker.phase = "node"
        /\ lastEvent' = [lastEvent EXCEPT ![graph.run] = "resumed"]
    BY <1>14 DEF Resumed, AtNode, Cleared
  <2>2. QED BY <1>1, <1>3, <1>4, <2>1, AnnouncedAppend DEF Busy
<1>15. CASE Settle
  <2>1. SettledAs \in {"paused", "completed", "failed"}
    BY <1>1, <1>15 DEF Settle, SettledAs, Workers, Inv, TypeInv, TypeOK, Shape, HandsOver
  <2>2. /\ status' = [status EXCEPT ![worker.run] = SettledAs]
        /\ lastEvent' = [lastEvent EXCEPT ![worker.run] = SettledAs]
    BY <1>15 DEF Settle, HandsOver
  <2>3. QED BY <1>1, <1>3, <2>1, <2>2 DEF RestIsAnnounced, Terminal
<1>16. CASE Boot
  <2>1. /\ status'    = [r \in Runs |-> IF status[r] \in Executing THEN "paused" ELSE status[r]]
        /\ lastEvent' = [r \in Runs |-> IF status[r] \in Executing THEN "paused" ELSE lastEvent[r]]
    BY <1>16 DEF Boot, WithStatus, Unfinished
  <2>2. QED BY <1>1, <1>3, <2>1 DEF RestIsAnnounced, Terminal, Executing
<1>17. CASE Take \/ Invoke \/ StopNode \/ Interrupt \/ Fault \/ Flush \/ Crash
  BY <1>2, <1>17 DEF Take, Invoke, StopNode, Interrupt, Fault, OpFault, NodeFails, EmitFails,
     ReadFails, SettleFails, Flush, Crash, store, Dispatch, Execute, Noticed, Cleared
<1>18. CASE WorkNode
  BY <1>2, <1>18 DEF WorkNode, Plan, RunTool, RunImmediate, Prepare, Analyze, Publish, Finish,
     SourceChanged, Unauthorized, Compose, Go, Work, store
<1>19. ASSUME NEW r \in Runs, Stop(r) PROVE UNCHANGED <<status, lastEvent>>
  BY <1>19 DEF Stop, store
<1>20. ASSUME NEW p \in Profiles, Connect(p) \/ Forget(p) PROVE UNCHANGED <<status, lastEvent>>
  BY <1>20 DEF Connect, Forget, store
<1>21. ASSUME NEW t \in Threads, DeleteCheckpoints(t) PROVE UNCHANGED <<status, lastEvent>>
  BY <1>21 DEF DeleteCheckpoints, store
<1>22. CASE PauseAll \/ Shutdown \/ UNCHANGED vars
  BY <1>2, <1>22 DEF PauseAll, Shutdown, vars, store
<1>23. QED
  BY <1>1, <1>2, <1>5, <1>6, <1>7, <1>8, <1>9, <1>10, <1>11, <1>12, <1>13, <1>14, <1>15, <1>16,
     <1>17, <1>18, <1>19, <1>20, <1>21, <1>22 DEF Next, Api, OpStep, WorkerStep

(* The last lifecycle event of a run at rest is its status, also after a   *)
(* restart and when writes fail.                                           *)
THEOREM RestAnnounced == Spec => []RestIsAnnounced
<1>1. Init => RestIsAnnounced
  BY DEF Init, RestIsAnnounced, Terminal
<1>2. QED BY <1>1, AnnouncedStep, InvHolds, PTL DEF Spec

(***************************************************************************)
(* Refinement.  The coordinator implements the serial queue of RunQueue,   *)
(* with every crash and failing write; what the queue promises of order    *)
(* then holds of the runs.                                                 *)
(***************************************************************************)
Places == [r \in Runs |-> Place(r)]

(* The sets the queue's actions speak of, in terms of the statuses.        *)
LEMMA PlaceSets ==
    ASSUME TypeInv
    PROVE  /\ Queue!Runs = Runs
           /\ Queue!In("unborn")  = WithStatus({"none"})
           /\ Queue!In("waiting") = WithStatus({"queued"})
           /\ Queue!In("active")  = WithStatus(Active)
           /\ Queue!In("done")    = WithStatus(Terminal)
<1>1. Queue!Runs = Runs
  BY DEF Queue!Runs, Runs
<1>2. \A r \in Runs : status[r] \in Statuses
  BY DEF TypeInv, TypeOK
<1>3. QED BY <1>1, <1>2 DEF Queue!In, WithStatus, Place, Statuses, Active, Executing, Terminal

LEMMA SameActive ==
    ASSUME \A r \in Runs : status'[r] = status[r]
                           \/ (status[r] \in Active /\ status'[r] \in Active)
    PROVE  Places' = Places
<1>1. ASSUME NEW r \in Runs PROVE Place(r)' = Place(r)
  <2>1. CASE status'[r] = status[r]
    BY <2>1 DEF Place
  <2>2. CASE status[r] \in Active /\ status'[r] \in Active
    BY <2>2 DEF Place, Active, Executing, Terminal
  <2>3. QED BY <2>1, <2>2
<1>2. QED BY <1>1 DEF Places

LEMMA SubmitArrives ==
    ASSUME Inv, NEW t \in Threads, NEW p \in Profiles, Submit(t, p)
    PROVE  Queue!Arrive
<1>1. PICK new \in Runs :
         /\ First(new, WithStatus({"none"}))
         /\ status' = [status EXCEPT ![new] =
                         IF WithStatus(Active \cup {"queued"}) # {} THEN "queued" ELSE "running"]
  BY Zenon DEF Submit, Ahead
<1>2. TypeInv /\ status \in [Runs -> Statuses]
  BY DEF Inv, TypeInv, TypeOK
<1>3. WithStatus(Active \cup {"queued"}) = WithStatus(Active) \cup WithStatus({"queued"})
  BY DEF WithStatus
<1>4. Queue!First(new, Queue!In("unborn"))
  BY <1>1, <1>2, PlaceSets DEF First, Queue!First
<1>5. ASSUME NEW r \in Runs
      PROVE  Place(r)' = IF r = new
                         THEN IF WithStatus({"queued"}) = {} /\ WithStatus(Active) = {}
                              THEN "active" ELSE "waiting"
                         ELSE Place(r)
  <2>1. CASE r = new
    <3>1. status'[r] = IF WithStatus({"queued"}) = {} /\ WithStatus(Active) = {}
                       THEN "running" ELSE "queued"
      BY <1>1, <1>2, <1>3, <2>1
    <3>2. QED BY <2>1, <3>1 DEF Place, Active, Executing, Terminal
  <2>2. CASE r # new
    BY <1>1, <1>2, <2>2 DEF Place
  <2>3. QED BY <2>1, <2>2
<1>6. Places' = [Places EXCEPT ![new] = IF Queue!In("waiting") = {} /\ Queue!In("active") = {}
                                        THEN "active" ELSE "waiting"]
  BY <1>2, <1>5, PlaceSets DEF Places
<1>7. QED BY <1>1, <1>2, <1>4, <1>6, PlaceSets DEF Queue!Arrive, Places

LEMMA StartServes ==
    ASSUME Inv, StartNext PROVE Queue!Serve \/ Places' = Places
<1>1. CASE UNCHANGED status
  BY <1>1, SameActive
<1>2. CASE status' # status
  <2>1. WithStatus(Active) = {}
    BY <1>2 DEF StartNext, MayStart
  <2>2. PICK r \in Runs : First(r, WithStatus({"queued"}))
                          /\ status' = [status EXCEPT ![r] = "running"]
    BY <1>2 DEF StartNext, MayStart
  <2>3. TypeInv /\ status \in [Runs -> Statuses]
    BY DEF Inv, TypeInv, TypeOK
  <2>4. ASSUME NEW q \in Runs PROVE Place(q)' = IF q = r THEN "active" ELSE Place(q)
    <3>1. CASE q = r
      BY <2>2, <2>3, <3>1 DEF Place, Active, Executing, Terminal
    <3>2. CASE q # r
      BY <2>2, <2>3, <3>2 DEF Place
    <3>3. QED BY <3>1, <3>2
  <2>5. Places' = [Places EXCEPT ![r] = "active"]
    BY <2>4 DEF Places
  <2>6. Queue!In("active") = {} /\ Queue!First(r, Queue!In("waiting"))
    BY <2>1, <2>2, <2>3, PlaceSets DEF First, Queue!First
  <2>7. QED BY <2>2, <2>3, <2>5, <2>6, PlaceSets DEF Queue!Serve, Places
<1>3. QED BY <1>1, <1>2

LEMMA SettleFinishes ==
    ASSUME Inv, Settle PROVE Queue!Finish \/ Places' = Places
<1>1. status \in [Runs -> Statuses] /\ worker.run \in Runs /\ status[worker.run] \in Executing
  BY DEF Settle, Inv, TypeInv, TypeOK, Shape, TokenInv, WorkerInv, Busy, HandsOver
<1>2. SettledAs \in {"paused"} \cup Terminal
  BY DEF Settle, SettledAs, Workers, Inv, TypeInv, TypeOK, Shape, Terminal, HandsOver
<1>3. status' = [status EXCEPT ![worker.run] = SettledAs]
  BY DEF Settle, HandsOver
<1>4. CASE SettledAs = "paused"
  BY <1>1, <1>3, <1>4, ExecutingIsActive, SameActive
<1>5. CASE SettledAs \in Terminal
  <2>1. \A r \in Runs : Place(r)' = IF r = worker.run THEN "done" ELSE Place(r)
    BY <1>1, <1>3, <1>5 DEF Place, Terminal, Active, Executing
  <2>2. Places' = [Places EXCEPT ![worker.run] = "done"]
    BY <2>1 DEF Places
  <2>3. worker.run \in Queue!In("active")
    BY <1>1, PlaceSets, ExecutingIsActive DEF Inv, WithStatus
  <2>4. QED BY <2>2, <2>3 DEF Queue!Finish, Places
<1>6. QED BY <1>2, <1>4, <1>5

LEMMA DeleteRemoves ==
    ASSUME Inv, DeleteRows PROVE Queue!Remove
<1> DEFINE gone == OfThread(thread[op.run])
<1>1. status \in [Runs -> Statuses]
  BY DEF Inv, TypeInv, TypeOK
<1>2. status' = [r \in Runs |-> IF r \in gone THEN "deleted" ELSE status[r]]
  BY DEF DeleteRows
<1>3. gone \subseteq WithStatus(Terminal)
  BY DEF DeleteRows, Inv, TokenInv, OpInv, Settled, OfThread, WithStatus
<1>4. \A r \in Runs : Place(r)' = IF r \in gone THEN "gone" ELSE Place(r)
  BY <1>1, <1>2 DEF Place, Active, Executing, Terminal
<1>5. Places' = [r \in Runs |-> IF r \in gone THEN "gone" ELSE Places[r]]
  BY <1>4 DEF Places
<1>6. gone \in SUBSET Queue!In("done")
  BY <1>3, PlaceSets DEF Inv
<1>7. QED BY <1>5, <1>6, PlaceSets DEF Queue!Remove, Places, Inv

(* Every step is a step of the queue or leaves it alone.                   *)
LEMMA QueueStep == Inv /\ [Next]_vars => [Queue!Next]_Places
<1>1. SUFFICES ASSUME Inv, [Next]_vars PROVE Queue!Next \/ Places' = Places
  OBVIOUS
<1>2. CASE UNCHANGED status
  BY <1>2, SameActive
<1>3. ASSUME NEW t \in Threads, NEW p \in Profiles, Submit(t, p) PROVE Queue!Next
  BY <1>1, <1>3, SubmitArrives DEF Queue!Next
<1>4. CASE StartNext
  BY <1>1, <1>4, StartServes DEF Queue!Next
<1>5. CASE StopStatus
  BY <1>1, <1>5, SameActive DEF StopStatus, Inv, TypeInv, TypeOK, TokenInv, OpInv, Active, Executing
<1>6. ASSUME NEW r \in Runs, Resume(r) PROVE Places' = Places
  BY <1>1, <1>6, SameActive DEF Resume, Inv, TypeInv, TypeOK, Active, Executing, Resumable
<1>7. CASE DeleteRows
  BY <1>1, <1>7, DeleteRemoves DEF Queue!Next
<1>8. CASE Settle
  BY <1>1, <1>8, SettleFinishes DEF Queue!Next
<1>9. CASE Boot
  BY <1>1, <1>9, SameActive DEF Boot, WithStatus, Active, Unfinished
<1>10. CASE Submitted \/ StartedNext \/ StopEvent \/ Take \/ Invoke \/ InvokeResume \/ StopNode
            \/ Interrupt \/ Resumed \/ Fault \/ Flush \/ Crash
  BY <1>2, <1>10 DEF Submitted, StartedNext, StopEvent, Take, Invoke, InvokeResume, StopNode,
     Interrupt, Resumed, Fault, OpFault, NodeFails, EmitFails, ReadFails, SettleFails, Flush, Crash, store, Dispatch, Execute, SameRun, Undone, Fixed, NoticedStop, Noticed, Cleared
<1>11. CASE WorkNode
  BY <1>2, <1>11 DEF WorkNode, Plan, RunTool, RunImmediate, Prepare, Analyze, Publish, Finish,
     SourceChanged, Unauthorized, Compose, Go, Work, store
<1>12. ASSUME NEW r \in Runs, Stop(r) PROVE UNCHANGED status
  BY <1>12 DEF Stop, store
<1>13. ASSUME NEW p \in Profiles, Connect(p) \/ Forget(p) PROVE UNCHANGED status
  BY <1>13 DEF Connect, Forget, store
<1>14. ASSUME NEW t \in Threads, DeleteCheckpoints(t) PROVE UNCHANGED status
  BY <1>14 DEF DeleteCheckpoints, store
<1>15. CASE PauseAll \/ Shutdown \/ UNCHANGED vars
  BY <1>2, <1>15 DEF PauseAll, Shutdown, vars, store
<1>16. QED
  BY <1>1, <1>2, <1>3, <1>4, <1>5, <1>6, <1>7, <1>8, <1>9, <1>10, <1>11, <1>12, <1>13, <1>14,
     <1>15 DEF Next, Api, OpStep, WorkerStep

(* The coordinator implements the serial queue: whatever requests, the     *)
(* worker, recovery and failures do to the statuses, runs are served one   *)
(* at a time in order of arrival, and no run is served twice.              *)
THEOREM Implementation == Spec => ImplementsQueue
<1>1. Init => Queue!Init
  BY DEF Init, Queue!Init, Queue!Runs, Runs, Place, Active, Executing, Terminal
<1>2. Inv /\ [Next]_vars => [Queue!Next]_Places
  BY QueueStep
<1>3. QED BY <1>1, <1>2, InvHolds, PTL DEF Spec, ImplementsQueue, Queue!Spec, Places

\* Arrivals are in order too: that is what makes the order of service inductive.
QInv == /\ \A r \in Runs : Place(r) \in {"unborn", "waiting", "active", "done", "gone"}
        /\ \A q, r \in Runs : Place(q) = "active" /\ Place(r) = "active" => q = r
        /\ \A q, r \in Runs : q < r /\ Place(q) = "waiting" => Place(r) \in {"waiting", "unborn"}
        /\ \A q, r \in Runs : q < r /\ Place(q) = "unborn" => Place(r) = "unborn"

LEMMA QueueRuns == /\ Queue!Runs = Runs /\ Runs \subseteq Nat
                   /\ \A p : Queue!In(p) = {r \in Runs : Place(r) = p}
BY DEF Queue!Runs, Runs, Queue!In

LEMMA QueueStays == QInv /\ [Queue!Next]_Places => QInv'
<1> SUFFICES ASSUME QInv, [Queue!Next]_Places PROVE QInv'
  OBVIOUS
<1>1. CASE Queue!Arrive
  <2>1. PICK r \in Runs : /\ Queue!First(r, Queue!In("unborn"))
                          /\ \A q \in Runs : q # r => Place(q)' = Place(q)
                          /\ Place(r)' = IF Queue!In("waiting") = {} /\ Queue!In("active") = {}
                                         THEN "active" ELSE "waiting"
    BY <1>1, QueueRuns DEF Queue!Arrive
  <2> QED BY <2>1, QueueRuns DEF QInv, Queue!First
<1>2. CASE Queue!Serve
  <2>1. PICK r \in Runs : /\ Queue!In("active") = {} /\ Queue!First(r, Queue!In("waiting"))
                          /\ \A q \in Runs : q # r => Place(q)' = Place(q)
                          /\ Place(r)' = "active"
    BY <1>2, QueueRuns DEF Queue!Serve
  <2> QED BY <2>1, QueueRuns DEF QInv, Queue!First
<1>3. CASE Queue!Finish
  <2>1. PICK r \in Queue!In("active") : /\ \A q \in Runs : q # r => Place(q)' = Place(q)
                                        /\ Place(r)' = "done"
    BY <1>3, QueueRuns DEF Queue!Finish
  <2> QED BY <2>1, QueueRuns DEF QInv
<1>4. CASE Queue!Remove
  <2>1. PICK S \in SUBSET Queue!In("done") :
           \A q \in Runs : Place(q)' = IF q \in S THEN "gone" ELSE Place(q)
    BY <1>4, QueueRuns DEF Queue!Remove
  <2> QED BY <2>1, QueueRuns DEF QInv
<1>5. CASE UNCHANGED Places
  <2>1. \A q \in Runs : Place(q)' = Place(q)
    BY <1>5 DEF Places
  <2> QED BY <2>1, QueueRuns DEF QInv
<1> QED BY <1>1, <1>2, <1>3, <1>4, <1>5 DEF Queue!Next

(* The queue serves one run at a time, in order of arrival.                *)
THEOREM QueueIsSerial == Queue!Spec => [](Queue!Serial /\ Queue!InOrder)
<1>1. Queue!Init => QInv
  <2> SUFFICES ASSUME Queue!Init PROVE QInv
    OBVIOUS
  <2>1. \A r \in Runs : Place(r) = "unborn"
    BY QueueRuns DEF Queue!Init
  <2> QED BY <2>1, QueueRuns DEF QInv
<1>2. QInv => Queue!Serial /\ Queue!InOrder
  BY QueueRuns DEF QInv, Queue!Serial, Queue!InOrder
<1>3. QED BY <1>1, <1>2, QueueStays, PTL DEF Queue!Spec, Places

(* Runs leave the queue in the order they were submitted.                  *)
THEOREM ServedInOrder == Spec => []QueueOrder
<1>1. ASSUME Inv, Queue!InOrder PROVE QueueOrder
  BY SMTT(30), <1>1 DEF Queue!InOrder, Queue!Runs, Runs, QueueOrder, Place, Inv, TypeInv,
     TypeOK, Statuses, Active, Executing, Terminal
<1>2. QED BY <1>1, Implementation, QueueIsSerial, InvHolds, PTL DEF ImplementsQueue

(***************************************************************************)
(* What the nodes that work leave alone, whichever of them it is: the      *)
(* stop machinery, the run the graph belongs to, and the stops noticed.    *)
(***************************************************************************)
LEMMA WorkStep ==
    ASSUME Inv, WorkNode
    PROVE  /\ up /\ worker.phase = "node" /\ graph.at.kind = "work"
           /\ UNCHANGED <<status, thread, ckpt, up, commands, stopReq, op, asked>>
           /\ graph'.run = graph.run /\ graph'.waiting = graph.waiting
           /\ \A l \in Levels : graph'.pend[l] => graph.pend[l]
           /\ \/ worker' = worker
              \/ \E v \in {"auth", "completed"} :
                    /\ worker' = [worker EXCEPT !.phase = "settle", !.verdict = v,
                                                !.resuming = FALSE]
                    /\ v = "completed" => graph'.at = GraphEnd
<1> USE DEF store, control
<1>1. graph \in GraphStates
  BY DEF Inv, TypeInv, TypeOK
<1>2. ASSUME NEW n, Go(n)
      PROVE  /\ UNCHANGED <<status, thread, ckpt, up, commands, stopReq, op, asked, worker>>
             /\ graph'.run = graph.run /\ graph'.waiting = graph.waiting
             /\ \A l \in Levels : graph'.pend[l] => graph.pend[l]
  BY <1>1, <1>2 DEF Go, Work, GraphStates
<1>3. CASE Plan
  BY <1>1, <1>3 DEF Plan, At, AtNode, Work, GraphStates
<1>4. CASE RunTool
  <2>1. up /\ worker.phase = "node" /\ graph.at.kind = "work"
    BY <1>4 DEF RunTool, At, AtNode
  <2>2. CASE Go(AfterTool("kernel"))
    BY <1>2, <2>1, <2>2
  <2>3. CASE ~ Go(AfterTool("kernel"))
    BY ZenonT(60), <1>1, <1>4, <2>1, <2>3 DEF RunTool, Work, GraphStates, Levels
  <2>4. QED BY <2>2, <2>3
<1>5. CASE RunImmediate
  BY <1>2, <1>5 DEF RunImmediate, At, AtNode
<1>6. CASE Prepare
  BY <1>2, <1>6 DEF Prepare, At, AtNode
<1>7. CASE Analyze
  BY <1>1, <1>7 DEF Analyze, At, AtNode, Work, GraphStates
<1>8. CASE Publish
  BY <1>2, <1>8 DEF Publish, At, AtNode
<1>9. CASE Finish
  BY <1>2, <1>9 DEF Finish, At, AtNode
<1>10. CASE SourceChanged
  BY <1>2, <1>10 DEF SourceChanged, At, AtNode
<1>11. CASE Unauthorized
  BY <1>11 DEF Unauthorized, At, AtNode, Return
<1>12. CASE Compose
  BY <1>1, <1>12 DEF Compose, At, AtNode, Return, GraphStates
<1>13. QED
  BY <1>3, <1>4, <1>5, <1>6, <1>7, <1>8, <1>9, <1>10, <1>11, <1>12 DEF WorkNode

(* The steps that never touch the worker thread or the graph it executes.  *)
LEMMA ApiFrame ==
    ASSUME Api \/ Submitted \/ StopEvent \/ StopStatus \/ DeleteRows \/ Flush
    PROVE  UNCHANGED <<worker, graph>>
<1>1. ASSUME NEW t \in Threads, NEW p \in Profiles, Submit(t, p)
      PROVE  UNCHANGED <<worker, graph>>
  BY <1>1 DEF Submit, Ahead
<1>2. ASSUME NEW r \in Runs, Stop(r) \/ Resume(r) PROVE UNCHANGED <<worker, graph>>
  BY <1>2 DEF Stop, Resume
<1>3. ASSUME NEW p \in Profiles, Connect(p) \/ Forget(p) PROVE UNCHANGED <<worker, graph>>
  BY <1>3 DEF Connect, Forget
<1>4. ASSUME NEW t \in Threads, DeleteCheckpoints(t) PROVE UNCHANGED <<worker, graph>>
  BY <1>4 DEF DeleteCheckpoints
<1>5. QED BY <1>1, <1>2, <1>3, <1>4 DEF Api, PauseAll, Shutdown, Submitted, StopEvent,
             StopStatus, DeleteRows, Flush

(* The end of an operation under the lock frees a worker that hands over.  *)
LEMMA UnlockFrame ==
    ASSUME Inv, StartNext \/ StartedNext
    PROVE  /\ worker' = worker \/ (worker.phase = "handoff" /\ worker' = Idle)
           /\ graph' = graph
BY DEF StartNext, StartedNext, Unlock, MayStart, Inv, TypeInv, Shape

(***************************************************************************)
(* The graph of the run.  A verdict of completion is given only on the     *)
(* ended graph of the worker's own run, and nothing touches that graph     *)
(* between the end of the invocation and the settling.                     *)
(***************************************************************************)
DoneOwn == worker.verdict = "completed" =>
              worker.phase = "settle" /\ graph.run = worker.run /\ graph.at = GraphEnd

LEMMA DoneStep == Inv /\ DoneOwn /\ [Next]_vars => DoneOwn'
<1> SUFFICES ASSUME Inv, DoneOwn, [Next]_vars PROVE DoneOwn'
  OBVIOUS
<1>0. /\ worker \in Workers /\ graph \in GraphStates
      /\ worker.phase = "node" => graph.run = worker.run
  BY DEF Inv, TypeInv, TypeOK, Shape
<1>1. CASE UNCHANGED <<worker, graph>>
  BY <1>1 DEF DoneOwn
<1>2. CASE worker'.verdict # "completed"
  BY <1>2 DEF DoneOwn
<1>3. \A p \in {"handoff", "dead", "exited"} :
         Gone(p).verdict # "completed" /\ Idle.verdict # "completed"
  BY DEF Gone, Idle
<1>4. CASE Api \/ Submitted \/ StopEvent \/ StopStatus \/ DeleteRows \/ Flush
  BY <1>1, <1>4, ApiFrame
<1>5. CASE StartNext \/ StartedNext
  BY <1>1, <1>2, <1>3, <1>5, UnlockFrame
<1>6. CASE OpFault
  BY <1>1, <1>2, <1>3, <1>6 DEF OpFault
<1>7. CASE Take
  BY <1>2, <1>3, <1>7 DEF Take, Dispatch, Execute, Idle
<1>8. CASE Invoke
  <2>1. worker.verdict # "completed"
    BY <1>8 DEF Invoke, DoneOwn
  <2>2. QED BY <1>0, <1>2, <1>8, <2>1 DEF Invoke, Enter, Workers
<1>9. CASE InvokeResume
  <2>1. worker.verdict # "completed"
    BY <1>9 DEF InvokeResume, DoneOwn, SameRun, Undone, Fixed, NoticedStop
  <2>2. CASE \E b \in BOOLEAN : worker' = [worker EXCEPT !.phase = "node", !.resuming = b]
    BY <1>0, <1>2, <2>1, <2>2 DEF Workers
  <2>3. CASE /\ worker' = [worker EXCEPT !.phase = "settle", !.verdict = "completed"]
             /\ graph'.run = worker.run /\ graph'.at = GraphEnd
    BY <1>0, <2>3 DEF Workers, DoneOwn
  <2>4. QED BY <1>9, <2>2, <2>3 DEF InvokeResume, Enter, SameRun, Undone, Fixed, NoticedStop
<1>10. CASE StopNode \/ Resumed
  <2>1. worker.phase = "node"
    BY <1>10 DEF StopNode, Resumed, AtNode, Noticed, Cleared
  <2>2. worker' = worker \/ worker' = [worker EXCEPT !.resuming = FALSE]
    BY <1>10 DEF StopNode, Resumed, AtNode, Noticed, Cleared
  <2>3. QED BY <1>0, <1>2, <2>1, <2>2 DEF Workers, DoneOwn
<1>11. CASE Interrupt \/ NodeFails \/ EmitFails
  BY <1>0, <1>2, <1>11 DEF Interrupt, NodeFails, EmitFails, Return, Workers, Cleared
<1>12. CASE WorkNode
  <2>1. /\ worker.phase = "node" /\ graph'.run = graph.run
        /\ \/ worker' = worker
           \/ \E v \in {"auth", "completed"} :
                 /\ worker' = [worker EXCEPT !.phase = "settle", !.verdict = v, !.resuming = FALSE]
                 /\ v = "completed" => graph'.at = GraphEnd
    BY <1>12, WorkStep
  <2>2. QED BY <1>0, <2>1 DEF Workers, DoneOwn
<1>13. CASE Settle \/ SettleFails \/ ReadFails
  BY <1>2, <1>3, <1>13 DEF Settle, SettleFails, ReadFails, HandsOver
<1>14. CASE Crash \/ Boot
  BY <1>1, <1>2, <1>3, <1>14 DEF Crash, Boot
<1>15. CASE UNCHANGED vars
  BY <1>1, <1>15 DEF vars
<1>16. QED
  BY <1>4, <1>5, <1>6, <1>7, <1>8, <1>9, <1>10, <1>11, <1>12, <1>13, <1>14, <1>15
  DEF Next, OpStep, WorkerStep, Fault

(* On a checkpoint thread that successive runs share, the worker executes  *)
(* and reports as completed only the graph of the run it was told to carry *)
(* on.                                                                     *)
THEOREM OwnGraphOnly == Spec => []OwnGraph
<1>1. Init => DoneOwn
  BY DEF Init, DoneOwn, Idle
<1>2. Inv /\ DoneOwn => OwnGraph
  BY DEF Inv, TypeInv, Shape, DoneOwn, OwnGraph
<1>3. QED BY <1>1, <1>2, DoneStep, InvHolds, PTL DEF Spec

(***************************************************************************)
(* Nobody is stranded.  What holds a run is a queued command, the worker   *)
(* or the operation about to queue its command; every step but a fault     *)
(* hands the run from one to the next or settles it.                       *)
(***************************************************************************)
Holders == Ordered \cup Carried \cup Starting

(* Queueing a command adds its run to the ordered ones, taking one removes *)
(* only that run.                                                          *)
LEMMA OrderedAppend ==
    ASSUME NEW c \in Commands, commands \in Seq(Commands), commands' = Append(commands, c)
    PROVE  Ordered' = Ordered \cup ({c.run} \ {NoRun})
<1>1. /\ DOMAIN commands' = 1 .. Len(commands) + 1
      /\ DOMAIN commands = 1 .. Len(commands) /\ Len(commands) \in Nat
      /\ \A i \in 1 .. Len(commands) : commands'[i] = commands[i]
      /\ commands'[Len(commands) + 1] = c
  OBVIOUS
<1>2. DOMAIN commands' = DOMAIN commands \cup {Len(commands) + 1}
  BY <1>1
<1>3. {commands'[i].run : i \in DOMAIN commands'}
        = {commands[i].run : i \in DOMAIN commands} \cup {c.run}
  BY <1>1, <1>2
<1>4. QED BY <1>3 DEF Ordered

LEMMA OrderedTail ==
    ASSUME commands \in Seq(Commands), commands # <<>>, commands' = Tail(commands)
    PROVE  Ordered \subseteq Ordered' \cup ({Head(commands).run} \ {NoRun})
<1>1. /\ DOMAIN commands = 1 .. Len(commands) /\ Len(commands) \in Nat /\ Len(commands) # 0
      /\ DOMAIN commands' = 1 .. Len(commands) - 1
      /\ \A i \in 1 .. Len(commands) - 1 : commands'[i] = commands[i + 1]
      /\ Head(commands) = commands[1]
  OBVIOUS
<1>2. SUFFICES ASSUME NEW i \in DOMAIN commands, commands[i].run # NoRun
               PROVE  \/ commands[i].run = Head(commands).run
                      \/ \E j \in DOMAIN commands' : commands'[j].run = commands[i].run
  BY DEF Ordered
<1>3. CASE i = 1
  BY <1>1, <1>3
<1>4. CASE i # 1
  <2>1. i - 1 \in DOMAIN commands' /\ commands'[i - 1] = commands[i]
    BY <1>1, <1>4
  <2>2. QED BY <2>1
<1>5. QED BY <1>3, <1>4

(* Enough for a step to strand nobody. *)
LEMMA StrandedFrame ==
    ASSUME \A r \in Runs : status'[r] \in Executing /\ r \notin Holders'
                             => status[r] \in Executing /\ r \notin Holders
    PROVE  Stranded' \subseteq Stranded
BY DEF Stranded, Holders, WithStatus

LEMMA StrandedSame ==
    ASSUME Holders \subseteq Holders', \A r \in Runs : status'[r] \in Executing => status[r] \in Executing
    PROVE  Stranded' \subseteq Stranded
BY StrandedFrame

LEMMA StrandsNobody ==
    ASSUME Inv, Next, ~ Fault, ~ Crash
    PROVE  Stranded' \subseteq Stranded
<1> USE DEF store, control
<1>0. /\ status \in [Runs -> Statuses] /\ commands \in Seq(Commands) /\ op \in Ops
      /\ worker \in Workers
  BY DEF Inv, TypeInv, TypeOK
<1>1. ASSUME NEW t \in Threads, NEW p \in Profiles, Submit(t, p) PROVE Stranded' \subseteq Stranded
  <2>1. PICK new \in Runs :
           /\ status' = [status EXCEPT ![new] = IF WithStatus(Active \cup {"queued"}) # {}
                                                THEN "queued" ELSE "running"]
           /\ op' = [pc |-> "submitted", run |-> new, by |-> "api"]
    BY <1>1 DEF Submit, Ahead
  <2>2. op = Free /\ UNCHANGED <<commands, worker>>
    BY <1>1 DEF Submit, Locking, Ahead
  <2>3. Starting = {} /\ Ordered' = Ordered /\ Carried' = Carried
    BY <2>2 DEF Starting, Ordered, Carried, Free
  <2>4. \A r \in Runs : r # new => status'[r] = status[r]
    BY <1>0, <2>1
  <2>5. status'[new] = "running" => new \in Holders'
    BY <2>1 DEF Holders, Starting
  <2>6. status'[new] \in {"queued", "running"}
    BY <1>0, <2>1
  <2>7. QED BY <2>3, <2>4, <2>5, <2>6, StrandedFrame DEF Holders, Executing
<1>2. CASE Submitted
  <2>1. op.pc = "submitted" /\ op.run \in Runs /\ UNCHANGED <<status, worker>>
    BY <1>2 DEF Submitted, Inv, TypeInv, Shape
  <2>2. CASE status[op.run] = "queued"
    <3>1. Starting = {} /\ commands' = commands
      BY <1>2, <2>1, <2>2 DEF Submitted, Starting
    <3>2. QED BY <2>1, <3>1, StrandedSame DEF Holders, Ordered, Carried
  <2>3. CASE status[op.run] # "queued"
    <3>1. Ordered' = Ordered \cup ({op.run} \ {NoRun})
      BY <1>0, <1>2, <2>1, <2>3, OrderedAppend DEF Submitted, Commands
    <3>2. Starting \subseteq Ordered'
      BY <2>1, <3>1, RunsArePositive DEF Starting
    <3>3. QED BY <2>1, <3>1, <3>2, StrandedSame DEF Holders, Carried
  <2>4. QED BY <2>2, <2>3
<1>3. CASE StartNext
  <2>1. op.pc = "start_next" /\ commands' = commands
    BY <1>3 DEF StartNext, MayStart
  <2>2. Starting = {} /\ Ordered' = Ordered
    BY <2>1 DEF Starting, Ordered
  <2>3. Carried \subseteq Carried'
    BY <1>3, UnlockFrame DEF Carried
  <2>4. CASE status' = status
    BY <2>2, <2>3, <2>4, StrandedSame DEF Holders
  <2>5. CASE status' # status
    <3>1. PICK r \in Runs : /\ status' = [status EXCEPT ![r] = "running"]
                            /\ op' = [op EXCEPT !.pc = "started_next", !.run = r]
      BY <1>3, <2>5 DEF StartNext, MayStart
    <3>2. r \in Starting'
      BY <1>0, <3>1 DEF Starting, Ops
    <3>3. \A q \in Runs : q # r => status'[q] = status[q]
      BY <1>0, <3>1
    <3>4. QED BY <2>2, <2>3, <3>2, <3>3, StrandedFrame DEF Holders
  <2>6. QED BY <2>4, <2>5
<1>4. CASE StartedNext
  <2>1. op.pc = "started_next" /\ op.run \in Runs /\ status' = status
        /\ commands' = Append(commands, [act |-> "start", run |-> op.run])
    BY <1>4 DEF StartedNext, Inv, TypeInv, Shape
  <2>2. Ordered' = Ordered \cup ({op.run} \ {NoRun})
    BY <1>0, <2>1, OrderedAppend DEF Commands
  <2>3. Starting \subseteq Ordered' /\ Ordered \subseteq Ordered'
    BY <2>1, <2>2, RunsArePositive DEF Starting
  <2>4. Carried \subseteq Carried'
    BY <1>4, UnlockFrame DEF Carried
  <2>5. QED BY <2>1, <2>3, <2>4, StrandedSame DEF Holders
<1>5. ASSUME NEW r \in Runs, Stop(r) PROVE Stranded' \subseteq Stranded
  <2>1. op = Free /\ UNCHANGED <<status, commands, worker>>
    BY <1>5 DEF Stop, Locking
  <2>2. QED BY <2>1, StrandedSame DEF Holders, Ordered, Carried, Starting, Free
<1>6. CASE StopEvent
  <2>1. op.pc = "stop_event" /\ UNCHANGED <<status, commands, worker>>
    BY <1>6 DEF StopEvent
  <2>2. QED BY <2>1, StrandedSame DEF Holders, Ordered, Carried, Starting
<1>7. CASE StopStatus
  <2>1. /\ op.pc = "stop_status" /\ UNCHANGED <<commands, worker>>
        /\ status' = [status EXCEPT ![op.run] = "stopping"]
    BY <1>7 DEF StopStatus
  <2>2. status[op.run] \in Executing
    BY <2>1 DEF Inv, TokenInv, OpInv, Executing
  <2>3. \A r \in Runs : status'[r] \in Executing => status[r] \in Executing
    BY <1>0, <2>1, <2>2
  <2>4. QED BY <2>1, <2>3, StrandedSame DEF Holders, Ordered, Carried, Starting
<1>8. ASSUME NEW r \in Runs, Resume(r) PROVE Stranded' \subseteq Stranded
  <2>1. /\ op = Free /\ op' = op /\ worker' = worker
        /\ status' = [status EXCEPT ![r] = "running"]
        /\ commands' = Append(commands, [act |-> "resume", run |-> r])
    BY <1>8 DEF Resume, Locking
  <2>2. Ordered' = Ordered \cup ({r} \ {NoRun})
    BY <1>0, <2>1, OrderedAppend DEF Commands
  <2>3. Starting = {} /\ Carried' = Carried
    BY <2>1 DEF Starting, Carried, Free
  <2>4. \A q \in Runs : q # r => status'[q] = status[q]
    BY <1>0, <2>1
  <2>5. QED BY <2>2, <2>3, <2>4, StrandedFrame, RunsArePositive DEF Holders
<1>9. CASE PauseAll
  <2>1. UNCHANGED <<status, commands, worker, op>>
    BY <1>9 DEF PauseAll
  <2>2. QED BY <2>1, StrandedSame DEF Holders, Ordered, Carried, Starting
<1>10. CASE Shutdown
  <2>1. UNCHANGED <<status, worker, op>> /\ commands' = Append(commands, Quit)
    BY <1>10 DEF Shutdown
  <2>2. Ordered \subseteq Ordered'
    BY <1>0, <2>1, OrderedAppend DEF Commands
  <2>3. QED BY <2>1, <2>2, StrandedSame DEF Holders, Carried, Starting
<1>11. ASSUME NEW p \in Profiles, Connect(p) \/ Forget(p) PROVE Stranded' \subseteq Stranded
  <2>1. UNCHANGED <<status, commands, worker, op>>
    BY <1>11 DEF Connect, Forget
  <2>2. QED BY <2>1, StrandedSame DEF Holders, Ordered, Carried, Starting
<1>12. ASSUME NEW t \in Threads, DeleteCheckpoints(t) PROVE Stranded' \subseteq Stranded
  <2>1. op = Free /\ UNCHANGED <<status, commands, worker>>
    BY <1>12 DEF DeleteCheckpoints, Locking
  <2>2. QED BY <2>1, StrandedSame DEF Holders, Ordered, Carried, Starting, Free
<1>13. CASE DeleteRows
  <2>1. /\ op.pc = "delete" /\ UNCHANGED <<commands, worker>>
        /\ \A r \in Runs : status'[r] \in {"deleted", status[r]}
    BY <1>13 DEF DeleteRows
  <2>2. QED BY <2>1, StrandedSame DEF Holders, Ordered, Carried, Starting, Executing
<1>14. CASE Take
  <2>1. /\ worker.phase = "idle" /\ UNCHANGED <<status, op>>
        /\ commands # <<>> /\ commands' = Tail(commands)
        /\ worker' = Dispatch(Head(commands))
    BY <1>14 DEF Take
  <2>2. Ordered \subseteq Ordered' \cup ({Head(commands).run} \ {NoRun})
    BY <1>0, <2>1, OrderedTail
  <2>3. {Head(commands).run} \ {NoRun} \subseteq Carried'
    BY <2>1 DEF Dispatch, Execute, Idle, Carried, Quit
  <2>4. Carried = {} /\ Starting' = Starting
    BY <2>1 DEF Carried, Starting
  <2>5. QED BY <2>1, <2>2, <2>3, <2>4, StrandedSame DEF Holders
<1>15. CASE Invoke \/ InvokeResume \/ StopNode \/ Interrupt \/ Resumed \/ WorkNode \/ Flush
  <2>1. UNCHANGED <<status, commands, op>>
    <3>1. CASE WorkNode
      BY <3>1, WorkStep
    <3>2. CASE ~ WorkNode
      BY <1>15, <3>2 DEF Invoke, InvokeResume, StopNode, Interrupt, Resumed, Flush, SameRun,
         Undone, Fixed, NoticedStop, Noticed, Cleared
    <3>3. QED BY <3>1, <3>2
  <2>2. Carried' = Carried
    <3>1. CASE WorkNode
      BY <1>0, <3>1, WorkStep DEF Carried, Workers
    <3>2. CASE Flush
      BY <3>2 DEF Flush, Carried
    <3>3. CASE Invoke \/ InvokeResume
      BY <1>0, <3>3 DEF Invoke, InvokeResume, Enter, Carried, Workers, SameRun, Undone, Fixed, NoticedStop
    <3>4. CASE StopNode \/ Interrupt \/ Resumed
      BY <1>0, <3>4 DEF StopNode, Interrupt, Resumed, Return, AtNode, Carried, Workers, Noticed,
         Cleared
    <3>5. QED BY <1>15, <3>1, <3>2, <3>3, <3>4
  <2>3. QED BY <2>1, <2>2, StrandedSame DEF Holders, Ordered, Starting
<1>16. CASE Settle
  <2>1. /\ op = Free /\ commands' = commands /\ worker.phase = "settle"
        /\ status' = [status EXCEPT ![worker.run] = SettledAs]
    BY <1>16 DEF Settle, Locking, HandsOver
  <2>2. SettledAs \notin Executing
    BY <1>0, <2>1 DEF SettledAs, Workers, Inv, TypeInv, Shape, Executing
  <2>3. Starting = {} /\ Ordered' = Ordered /\ Carried = {worker.run}
    BY <2>1 DEF Starting, Free, Ordered, Carried
  <2>4. QED BY <1>0, <2>1, <2>2, <2>3, StrandedFrame DEF Holders
<1>17. CASE Boot
  <2>1. \A r \in Runs : status'[r] \notin Executing
    BY <1>17 DEF Boot, Unfinished, WithStatus, Executing
  <2>2. QED BY <2>1, StrandedFrame
<1>18. QED
  BY <1>1, <1>2, <1>3, <1>4, <1>5, <1>6, <1>7, <1>8, <1>9, <1>10, <1>11, <1>12, <1>13, <1>14,
     <1>15, <1>16, <1>17 DEF Next, Api, OpStep, WorkerStep

LEMMA BootStrandsNobody == Boot => Stranded' = {}
BY DEF Boot, Unfinished, WithStatus, Executing, Stranded

(* Only a failing write or the death of the Worker leaves a run that the   *)
(* store shows as executing with nobody to carry it on, and the next start *)
(* of the Worker leaves none.                                              *)
THEOREM NobodyStranded == Spec => NoneStranded
<1>1. ASSUME Inv, [Next]_vars
      PROVE  [ /\ Fault \/ Crash \/ Stranded' \subseteq Stranded
               /\ Boot => Stranded' = {} ]_vars
  BY <1>1, StrandsNobody, BootStrandsNobody
<1>2. QED BY <1>1, InvHolds, PTL DEF Spec, NoneStranded

(***************************************************************************)
(* The first stop.  While a start command is queued or carried out, a stop *)
(* that was accepted keeps its control event: only a resumption clears it. *)
(***************************************************************************)
StartQueued(r)  == \E i \in DOMAIN commands : commands[i] = [act |-> "start", run |-> r]
StartCarried(r) == StartQueued(r) \/ (Busy /\ worker.act = "start" /\ worker.run = r)
StopAccepted(r) == \/ status[r] = "stopping"
                   \/ op.pc \in {"stop_event", "stop_status"} /\ op.run = r

HeldInv ==
    /\ worker.act = "start" => ~ worker.resuming
    /\ \A r \in Runs : StartCarried(r) /\ StopAccepted(r) => r \in stopReq

LEMMA QueuedAppend ==
    ASSUME NEW c \in Commands, NEW d \in Commands, commands \in Seq(Commands),
           commands' = Append(commands, c)
    PROVE  (\E i \in DOMAIN commands' : commands'[i] = d)
              <=> (c = d \/ \E i \in DOMAIN commands : commands[i] = d)
<1>1. /\ DOMAIN commands' = 1 .. Len(commands) + 1
      /\ DOMAIN commands = 1 .. Len(commands) /\ Len(commands) \in Nat
      /\ \A i \in 1 .. Len(commands) : commands'[i] = commands[i]
      /\ commands'[Len(commands) + 1] = c
  OBVIOUS
<1>2. DOMAIN commands' = DOMAIN commands \cup {Len(commands) + 1}
  BY <1>1
<1>3. QED BY <1>1, <1>2

LEMMA QueuedTail ==
    ASSUME NEW d, commands \in Seq(Commands), commands # <<>>, commands' = Tail(commands)
    PROVE  /\ (\E i \in DOMAIN commands' : commands'[i] = d)
                 => \E i \in DOMAIN commands : commands[i] = d
           /\ (\E i \in DOMAIN commands : commands[i] = d)
                 => Head(commands) = d \/ \E i \in DOMAIN commands' : commands'[i] = d
           /\ \E i \in DOMAIN commands : commands[i] = Head(commands)
<1>1. /\ DOMAIN commands = 1 .. Len(commands) /\ Len(commands) \in Nat /\ Len(commands) # 0
      /\ DOMAIN commands' = 1 .. Len(commands) - 1
      /\ \A i \in 1 .. Len(commands) - 1 : commands'[i] = commands[i + 1]
      /\ Head(commands) = commands[1]
  OBVIOUS
<1>2. ASSUME NEW i \in DOMAIN commands', commands'[i] = d
      PROVE  \E j \in DOMAIN commands : commands[j] = d
  BY <1>1, <1>2
<1>3. ASSUME NEW i \in DOMAIN commands, commands[i] = d
      PROVE  Head(commands) = d \/ \E j \in DOMAIN commands' : commands'[j] = d
  <2>1. CASE i = 1
    BY <1>1, <1>3, <2>1
  <2>2. CASE i # 1
    <3>1. i - 1 \in DOMAIN commands' /\ commands'[i - 1] = commands[i]
      BY <1>1, <2>2
    <3>2. QED BY <1>3, <3>1
  <2>3. QED BY <2>1, <2>2
<1>4. QED BY <1>1, <1>2, <1>3

(* Nothing that carries a run on starts in a step that leaves the commands *)
(* and the worker's run alone.                                             *)
LEMMA HeldFrame ==
    ASSUME HeldInv,
           \A r \in Runs : StartCarried(r)' => StartCarried(r),
           \A r \in Runs : StartCarried(r) /\ StopAccepted(r)' =>
                              StopAccepted(r) \/ r \in stopReq',
           \A r \in Runs : StartCarried(r)' /\ r \in stopReq => r \in stopReq',
           (worker.act = "start" => ~ worker.resuming)'
    PROVE  HeldInv'
BY DEF HeldInv

(* With a busy worker nothing is queued, so that a start is carried by the *)
(* worker or by nobody.                                                    *)
LEMMA BusyCarries ==
    ASSUME Inv, Busy, NEW r \in Runs, StartCarried(r)
    PROVE  worker.act = "start" /\ worker.run = r
BY DEF Inv, TokenInv, WorkerInv, Calm, StartCarried, StartQueued, Quit

LEMMA HeldStep == Inv /\ HeldInv /\ [Next]_vars => HeldInv'
<1> SUFFICES ASSUME Inv, HeldInv, [Next]_vars PROVE HeldInv'
  OBVIOUS
<1> USE DEF store, control
<1>0. /\ status \in [Runs -> Statuses] /\ commands \in Seq(Commands) /\ op \in Ops
      /\ worker \in Workers /\ stopReq \subseteq Runs
  BY DEF Inv, TypeInv, TypeOK
<1>a. Idle.act # "start" /\ Idle.phase = "idle"
      /\ \A p : Gone(p).act # "start" /\ Gone(p).phase = p
  BY DEF Idle, Gone
<1>b. CASE UNCHANGED <<status, commands, op, worker>> /\ stopReq \subseteq stopReq'
  BY <1>b DEF HeldInv, StartCarried, StartQueued, StopAccepted, Busy
<1>1. ASSUME NEW t \in Threads, NEW p \in Profiles, Submit(t, p) PROVE HeldInv'
  <2>1. PICK new \in Runs :
           /\ status' = [status EXCEPT ![new] = IF WithStatus(Active \cup {"queued"}) # {}
                                                THEN "queued" ELSE "running"]
           /\ op' = [pc |-> "submitted", run |-> new, by |-> "api"]
    BY <1>1 DEF Submit, Ahead
  <2>2. UNCHANGED <<commands, worker, stopReq>>
    BY <1>1 DEF Submit, Ahead
  <2>3. \A r \in Runs : StopAccepted(r)' => StopAccepted(r)
    BY <1>0, <2>1 DEF StopAccepted
  <2>4. QED BY <2>2, <2>3 DEF HeldInv, StartCarried, StartQueued, Busy
<1>2. CASE Submitted
  <2>1. op.pc = "submitted" /\ op.run \in Runs /\ UNCHANGED <<status, worker, stopReq>>
        /\ op'.pc \in {"free", "start_next"}
    BY <1>0, <1>2 DEF Submitted, Inv, TypeInv, Shape, Free, Ops
  <2>2. CASE status[op.run] = "queued"
    <3>1. commands' = commands
      BY <1>2, <2>2 DEF Submitted
    <3>2. QED BY <2>1, <3>1 DEF HeldInv, StartCarried, StartQueued, StopAccepted, Busy
  <2>3. CASE status[op.run] # "queued"
    <3>1. commands' = Append(commands, [act |-> "start", run |-> op.run])
      BY <1>2, <2>3 DEF Submitted
    <3>2. status[op.run] = "running"
      BY <2>1, <2>3 DEF Inv, TokenInv, OpInv
    <3>3. \A r \in Runs : StartCarried(r)' => StartCarried(r) \/ r = op.run
      BY <1>0, <2>1, <3>1, QueuedAppend DEF StartCarried, StartQueued, Busy, Commands
    <3>4. \A r \in Runs : StopAccepted(r)' => StopAccepted(r) /\ r # op.run
      BY <2>1, <3>2 DEF StopAccepted
    <3>5. QED BY <2>1, <3>3, <3>4 DEF HeldInv
  <2>4. QED BY <2>2, <2>3
<1>3. CASE StartNext
  <2>1. /\ op.pc = "start_next" /\ UNCHANGED <<commands, stopReq>>
        /\ op'.pc \in {"free", "started_next"}
        /\ worker' = worker \/ (worker.phase = "handoff" /\ worker' = Idle)
    <3>1. op' = Free \/ \E r \in Runs : op' = [op EXCEPT !.pc = "started_next", !.run = r]
      BY <1>3 DEF StartNext, MayStart, Unlock
    <3>2. op'.pc \in {"free", "started_next"}
      <4>1. CASE op' = Free
        BY <4>1, WorkerTypes
      <4>2. CASE op' # Free
        <5>1. PICK r \in Runs : op' = [op EXCEPT !.pc = "started_next", !.run = r]
          BY <3>1, <4>2
        <5>2. QED BY <1>0, <5>1 DEF Ops
      <4>3. QED BY <4>1, <4>2
    <3>3. QED BY <1>3, <3>2, UnlockFrame DEF StartNext, MayStart
  <2>2. \A r \in Runs : StartCarried(r)' => StartCarried(r)
    BY <1>a, <2>1 DEF StartCarried, StartQueued, Busy
  <2>3. \A r \in Runs : StopAccepted(r)' => StopAccepted(r)
    BY <1>0, <1>3, <2>1 DEF StartNext, MayStart, StopAccepted
  <2>4. QED BY <1>a, <2>1, <2>2, <2>3 DEF HeldInv
<1>4. CASE StartedNext
  <2>1. /\ op.pc = "started_next" /\ op.run \in Runs /\ UNCHANGED <<status, stopReq>>
        /\ op' = Free /\ commands' = Append(commands, [act |-> "start", run |-> op.run])
        /\ worker' = worker \/ (worker.phase = "handoff" /\ worker' = Idle)
    BY <1>4, UnlockFrame DEF StartedNext, Unlock, Inv, TypeInv, Shape
  <2>2. status[op.run] = "running"
    BY <2>1 DEF Inv, TokenInv, OpInv
  <2>3. \A r \in Runs : StartCarried(r)' => StartCarried(r) \/ r = op.run
    BY <1>0, <1>a, <2>1, QueuedAppend DEF StartCarried, StartQueued, Busy, Commands
  <2>4. \A r \in Runs : StopAccepted(r)' => StopAccepted(r) /\ r # op.run
    BY <2>1, <2>2, WorkerTypes DEF StopAccepted
  <2>5. QED BY <1>a, <2>1, <2>3, <2>4 DEF HeldInv
<1>5. ASSUME NEW r \in Runs, Stop(r) PROVE HeldInv'
  <2>1. /\ UNCHANGED <<status, commands, worker>> /\ stopReq' = stopReq \cup {r}
        /\ op'.run = r
    BY <1>5 DEF Stop
  <2>2. \A q \in Runs : StartCarried(q)' => StartCarried(q)
    BY <2>1 DEF StartCarried, StartQueued, Busy
  <2>3. \A q \in Runs : StopAccepted(q)' => StopAccepted(q) \/ q = r
    BY <2>1 DEF StopAccepted
  <2>4. QED BY <2>1, <2>2, <2>3 DEF HeldInv
<1>6. CASE StopEvent \/ StopStatus
  <2>1. UNCHANGED <<commands, worker, stopReq>> /\ op.pc \in {"stop_event", "stop_status"}
    BY <1>6 DEF StopEvent, StopStatus
  <2>2. \A q \in Runs : StartCarried(q)' => StartCarried(q)
    BY <2>1 DEF StartCarried, StartQueued, Busy
  <2>3. \A q \in Runs : StopAccepted(q)' => StopAccepted(q)
    BY <1>0, <1>6 DEF StopAccepted, StopEvent, StopStatus, Ops, Free
  <2>4. QED BY <2>1, <2>2, <2>3 DEF HeldInv
<1>7. ASSUME NEW r \in Runs, Resume(r) PROVE HeldInv'
  <2>1. /\ UNCHANGED <<worker, stopReq, op>> /\ op = Free
        /\ status' = [status EXCEPT ![r] = "running"]
        /\ commands' = Append(commands, [act |-> "resume", run |-> r])
    BY <1>7 DEF Resume, Locking
  <2>2. \A q \in Runs : StartCarried(q)' => StartCarried(q)
    BY <1>0, <2>1, QueuedAppend DEF StartCarried, StartQueued, Busy, Commands
  <2>3. \A q \in Runs : StopAccepted(q)' => StopAccepted(q)
    BY <1>0, <2>1 DEF StopAccepted
  <2>4. QED BY <2>1, <2>2, <2>3 DEF HeldInv
<1>8. CASE Shutdown
  <2>1. /\ UNCHANGED <<status, worker, op>> /\ commands' = Append(commands, Quit)
        /\ stopReq \subseteq stopReq'
    BY <1>8 DEF Shutdown, RequestAllStops
  <2>2. \A q \in Runs : StartCarried(q)' => StartCarried(q)
    BY <1>0, <2>1, QueuedAppend DEF StartCarried, StartQueued, Busy, Commands, Quit
  <2>3. QED BY <2>1, <2>2 DEF HeldInv, StopAccepted
<1>9. CASE PauseAll \/ \E p \in Profiles : Connect(p) \/ Forget(p)
  BY <1>b, <1>9 DEF PauseAll, RequestAllStops, Connect, Forget
<1>10. ASSUME NEW t \in Threads, DeleteCheckpoints(t) PROVE HeldInv'
  BY <1>10 DEF DeleteCheckpoints, HeldInv, StartCarried, StartQueued, StopAccepted, Busy
<1>11. CASE DeleteRows
  <2>1. UNCHANGED <<commands, worker, stopReq>> /\ op' = Free
        /\ \A r \in Runs : status'[r] \in {"deleted", status[r]}
    BY <1>11 DEF DeleteRows
  <2>2. QED BY <2>1 DEF HeldInv, StartCarried, StartQueued, StopAccepted, Busy, Free
<1>12. CASE OpFault
  <2>1. /\ status' = status /\ op' = Free
        /\ \/ UNCHANGED <<commands, stopReq>> /\ worker' \in {worker, Gone("dead")}
           \/ commands' = <<>> /\ worker' = Idle
    BY <1>12 DEF OpFault
  <2>2. \A r \in Runs : StartCarried(r)' => StartCarried(r) /\ stopReq' = stopReq
    BY <1>a, <2>1 DEF StartCarried, StartQueued, Busy
  <2>3. \A r \in Runs : StopAccepted(r)' => StopAccepted(r)
    BY <2>1 DEF StopAccepted, Free
  <2>4. QED BY <1>a, <2>1, <2>2, <2>3 DEF HeldInv
<1>13. CASE Take
  <2>1. /\ UNCHANGED <<status, stopReq, op>> /\ commands # <<>>
        /\ commands' = Tail(commands)
        /\ worker' = Dispatch(Head(commands))
    BY <1>13 DEF Take
  <2>2. Busy' => worker'.act = Head(commands).act /\ worker'.run = Head(commands).run
    BY <1>a, <2>1 DEF Dispatch, Execute, Idle, Busy
  <2>3. ~ worker'.resuming
    BY <2>1 DEF Dispatch, Execute, Idle, Gone
  <2>4. Head(commands) \in Commands
    BY <1>0, <2>1
  <2>5. \A r \in Runs : StartCarried(r)' => StartCarried(r)
    BY <1>0, <2>1, <2>2, <2>4, QueuedTail DEF StartCarried, StartQueued, Commands, Quit
  <2>6. \A r \in Runs : StopAccepted(r)' => StopAccepted(r)
    BY <2>1 DEF StopAccepted
  <2>7. QED BY <2>1, <2>3, <2>5, <2>6 DEF HeldInv
<1>14. CASE Invoke \/ InvokeResume \/ StopNode \/ Interrupt \/ Resumed \/ WorkNode
            \/ NodeFails \/ EmitFails
  <2>1. Busy /\ UNCHANGED <<status, commands, op>>
    <3>1. CASE WorkNode
      BY <3>1, WorkStep DEF Busy
    <3>2. CASE ~ WorkNode
      BY <1>14, <3>2 DEF Invoke, InvokeResume, StopNode, Interrupt, Resumed, NodeFails,
         EmitFails, AtNode, Busy, SameRun, Undone, Fixed, NoticedStop, Noticed, Cleared
    <3>3. QED BY <3>1, <3>2
  <2>2. /\ worker'.act = worker.act /\ worker'.run = worker.run
        /\ worker'.resuming => worker.resuming \/ worker.act = "resume"
    <3>1. CASE WorkNode
      BY <1>0, <3>1, WorkStep DEF Workers
    <3>2. CASE Invoke \/ InvokeResume
      BY <1>0, <3>2 DEF Invoke, InvokeResume, Enter, Workers, SameRun, Undone, Fixed, NoticedStop
    <3>3. CASE StopNode \/ Interrupt \/ Resumed \/ NodeFails \/ EmitFails
      BY <1>0, <3>3 DEF StopNode, Interrupt, Resumed, NodeFails, EmitFails, Return, Workers,
         Noticed, Cleared
    <3>4. QED BY <1>14, <3>1, <3>2, <3>3
  <2>3. worker.act = "start" => stopReq' = stopReq
    <3>1. CASE WorkNode
      BY <3>1, WorkStep
    <3>2. CASE InvokeResume
      BY <3>2 DEF InvokeResume, SameRun, Undone, Fixed, NoticedStop
    <3>3. CASE Resumed \/ EmitFails
      BY <3>3 DEF Resumed, EmitFails, HeldInv, Cleared
    <3>4. CASE Invoke \/ StopNode \/ Interrupt \/ NodeFails
      BY <3>4 DEF Invoke, StopNode, Interrupt, NodeFails, Noticed
    <3>5. QED BY <1>14, <3>1, <3>2, <3>3, <3>4
  <2>4. \A r \in Runs : StartCarried(r)' => StartCarried(r) /\ worker.act = "start"
    <3>1. \A r \in Runs : ~ StartQueued(r)'
      BY <2>1 DEF StartQueued, Inv, TokenInv, WorkerInv, Calm, Quit
    <3>2. QED BY <2>1, <2>2, <3>1 DEF StartCarried
  <2>5. \A r \in Runs : StopAccepted(r)' => StopAccepted(r)
    BY <2>1 DEF StopAccepted
  <2>6. QED BY <2>2, <2>3, <2>4, <2>5 DEF HeldInv
<1>15. CASE Flush
  BY <1>b, <1>15 DEF Flush
<1>16. CASE Settle \/ SettleFails \/ ReadFails
  <2>1. Busy /\ commands' = commands
    BY <1>16 DEF Settle, SettleFails, ReadFails, Busy, HandsOver
  <2>2. worker' \in {Idle, Gone("handoff"), Gone("dead")}
    BY <1>16 DEF Settle, SettleFails, ReadFails, HandsOver
  <2>3. \A r \in Runs : ~ StartCarried(r)'
    BY <1>a, <2>1, <2>2 DEF StartCarried, StartQueued, Busy, Inv, TokenInv, WorkerInv, Calm, Quit
  <2>4. QED BY <1>a, <2>2, <2>3 DEF HeldInv
<1>17. CASE Crash \/ Boot
  <2>1. commands' = <<>> /\ worker' = Idle
    BY <1>17 DEF Crash, Boot, Inv, TokenInv, DownInv
  <2>2. QED BY <1>a, <2>1 DEF HeldInv, StartCarried, StartQueued, Busy
<1>18. CASE UNCHANGED vars
  BY <1>b, <1>18 DEF vars
<1>19. QED
  BY <1>1, <1>2, <1>3, <1>4, <1>5, <1>6, <1>7, <1>8, <1>9, <1>10, <1>11, <1>12, <1>13, <1>14,
     <1>15, <1>16, <1>17, <1>18 DEF Next, Api, OpStep, WorkerStep, Fault

(* A run that was never resumed does not go through a stop gate once its   *)
(* stop was accepted, with every crash and failing write.                  *)
THEOREM FirstStopIsHeld == Spec => FirstStopHeld
<1>1. Init => HeldInv
  BY DEF Init, HeldInv, Idle, Busy, StartCarried, StartQueued
<1>2. ASSUME Inv, HeldInv, StopNode, worker.act = "start", status[graph.run] = "stopping"
      PROVE  graph'.at.kind = "pause"
  <2>1. worker.phase = "node" /\ graph.run = worker.run /\ worker.run \in Runs
    BY <1>2 DEF StopNode, AtNode, Noticed, Inv, TypeInv, Shape, Busy
  <2>2. StartCarried(graph.run) /\ StopAccepted(graph.run)
    BY <1>2, <2>1 DEF StartCarried, StopAccepted, Busy
  <2>3. graph.run \in stopReq
    BY <1>2, <2>1, <2>2 DEF HeldInv
  <2>4. graph \in GraphStates
    BY <1>2 DEF Inv, TypeInv, TypeOK
  <2>5. QED BY <1>2, <2>3, <2>4 DEF StopNode, Noticed, PauseAt, GraphStates
<1>3. ASSUME Inv, HeldInv, [Next]_vars
      PROVE  [ StopNode /\ worker.act = "start" /\ status[graph.run] = "stopping"
                 => graph'.at.kind = "pause" ]_vars
  BY <1>2, <1>3
<1>4. QED BY <1>1, <1>3, HeldStep, InvHolds, PTL DEF Spec, FirstStopHeld

(***************************************************************************)
(* Pauses that were asked for.  A run pauses at a stop gate when its graph *)
(* state says that a stop was noticed.  That note may survive its stop: in *)
(* a checkpoint that a process saved before it died, or in the state of an *)
(* invocation that ended because a write failed.  Without either, a note   *)
(* is found only where the graph waits for the run's resumption, and the   *)
(* resumption clears both the note and the control event before any gate   *)
(* is reached.                                                             *)
(***************************************************************************)
ResumeQueued(r)  == \E i \in DOMAIN commands : commands[i] = [act |-> "resume", run |-> r]
ResumeCarried(r) == ResumeQueued(r) \/ (Busy /\ worker.act = "resume" /\ worker.run = r)
Kept(r)          == status[r] = "paused" \/ ResumeCarried(r)

\* The checkpoint of the run's thread holds an interrupt of the run.
Suspended(r)     == ckpt[thread[r]].run = r /\ ckpt[thread[r]].waiting

Noted(g)         == \E l \in Levels : g.pend[l]
NotedAtPause(g)  == \A l \in Levels : g.pend[l] => g.at.kind = "pause" /\ Level(g.at.at) = l
WaitsAtPause(g)  == g.waiting => g.at.kind \in {"pause", "wait"}

(* A checkpoint: a stop is noted in it only where it waits, and who waits  *)
(* is paused in the store or about to be resumed.                          *)
SavedInv == \A t \in Threads :
    LET g == ckpt[t] IN
    /\ NotedAtPause(g) /\ WaitsAtPause(g) /\ (Noted(g) => g.waiting)
    /\ g.waiting => \E r \in Runs : r = g.run /\ thread[r] = t /\ Kept(r)

(* The graph in execution: a stop is noted in it only at the pause it      *)
(* leads to, which the run enters by request or leaves by a resumption.    *)
GraphInv ==
    /\ worker.resuming => worker.phase = "node" /\ graph.at.kind \in {"pause", "wait"}
    /\ worker.phase = "node" => /\ NotedAtPause(graph) /\ ~ graph.waiting
                                /\ Noted(graph) => worker.resuming \/ graph.run \in asked
    /\ worker.phase = "settle" => /\ graph.run = worker.run
                                  /\ NotedAtPause(graph) /\ WaitsAtPause(graph)
                                  /\ Noted(graph) => graph.waiting
                                  /\ graph.waiting => worker.verdict = "interrupt"
                                  /\ worker.verdict = "interrupt" => graph.waiting

(* A control event that nobody asked for since the run's last Resume is    *)
(* one that this resumption is about to clear.                             *)
Resuming(r) == \/ ResumeQueued(r)
               \/ worker.phase = "invoke" /\ worker.act = "resume" /\ worker.run = r
               \/ worker.phase = "node" /\ worker.resuming /\ worker.run = r

StopInv == \A r \in stopReq :
    /\ r \notin asked => Resuming(r)
    /\ status[r] = "paused" => Suspended(r)
    /\ r \notin asked /\ worker.phase # "node" => Suspended(r)

PauseInv == up /\ SavedInv /\ GraphInv /\ StopInv

LEMMA LevelTypes == \A x : Level(x) \in Levels
BY DEF Level, Levels

LEMMA KeptActive ==
    ASSUME Inv, NEW r \in Runs
    PROVE  /\ Kept(r) => status[r] \in Active
           /\ ResumeCarried(r) \/ Resuming(r) => status[r] \in Executing
<1>1. ResumeQueued(r) => status[r] \in Executing
  BY DEF ResumeQueued, Inv, TokenInv, CommandInv, Quit
<1>2. QED BY <1>1, ExecutingIsActive
       DEF Kept, ResumeCarried, Resuming, Busy, Inv, TokenInv, WorkerInv

(* A run at rest in a pause is not the one a busy worker executes.         *)
LEMMA BusyNotPaused == ASSUME Inv, Busy, NEW r \in Runs PROVE status[r] # "paused"
<1>1. worker.run \in Runs /\ status[worker.run] \in Executing
  BY DEF Inv, TypeInv, Shape, TokenInv, WorkerInv
<1>2. status[r] \in Active => r = worker.run
  BY <1>1, ExecutingIsActive DEF Inv, TokenInv, OneActive, WithStatus
<1>3. QED BY <1>1, <1>2, ExecutingIsActive

(* With a busy worker nothing is queued, and only the run it resumes can   *)
(* be waiting in a checkpoint.                                             *)
LEMMA BusyResumes ==
    ASSUME Inv, Busy
    PROVE  /\ \A r \in Runs : ~ ResumeQueued(r)
           /\ commands' = commands => \A r \in Runs : ~ ResumeQueued(r)'
           /\ \A r \in Runs : Kept(r) => worker.act = "resume" /\ worker.run = r
<1>1. \A r \in Runs : ~ ResumeQueued(r)
  BY DEF ResumeQueued, Inv, TokenInv, WorkerInv, Calm, Quit
<1>2. commands' = commands => \A r \in Runs : ~ ResumeQueued(r)'
  BY <1>1 DEF ResumeQueued
<1>3. QED BY <1>1, <1>2, BusyNotPaused DEF Kept, ResumeCarried

LEMMA OnlyOwnWaits ==
    ASSUME Inv, SavedInv, Busy, NEW t \in Threads, ckpt[t].waiting \/ Noted(ckpt[t])
    PROVE  worker.act = "resume" /\ ckpt[t].run = worker.run /\ thread[worker.run] = t
<1>1. ckpt[t].run \in Runs /\ thread[ckpt[t].run] = t /\ Kept(ckpt[t].run)
  BY DEF SavedInv
<1>2. QED BY <1>1, BusyResumes

(* What _invoke_resume does then: it never has a noticed stop to undo.     *)
LEMMA ResumeStep ==
    ASSUME Inv, PauseInv, InvokeResume
    PROVE  /\ UNCHANGED <<status, thread, ckpt, up, commands, stopReq, op, asked>>
           /\ worker.phase = "invoke" /\ worker.act = "resume" /\ worker.run \in Runs
           /\ \/ /\ Suspended(worker.run)
                 /\ graph' = [ckpt[thread[worker.run]] EXCEPT !.waiting = FALSE]
                 /\ worker' = [worker EXCEPT !.phase = "node", !.resuming = TRUE]
              \/ /\ ~ Suspended(worker.run) /\ ~ ckpt[thread[worker.run]].waiting
                 /\ ~ Noted(ckpt[thread[worker.run]])
                 /\ \/ /\ graph' = ckpt[thread[worker.run]] /\ graph'.run = worker.run
                       /\ worker' \in {[worker EXCEPT !.phase = "settle", !.verdict = "completed"],
                                       [worker EXCEPT !.phase = "node", !.resuming = FALSE]}
                    \/ /\ graph' = InitialState(worker.run, ckpt[thread[worker.run]])
                       /\ worker' = [worker EXCEPT !.phase = "node", !.resuming = FALSE]
<1> DEFINE r  == worker.run
           ck == ckpt[thread[r]]
<1>1. /\ up /\ worker.phase = "invoke" /\ worker.act = "resume"
      /\ UNCHANGED <<status, thread, up, commands, op, asked>>
  BY DEF InvokeResume, SameRun, Undone, Fixed, NoticedStop
<1>2. /\ r \in Runs /\ thread[r] \in Threads /\ ckpt \in [Threads -> GraphStates]
  BY <1>1 DEF Inv, TypeInv, TypeOK, Shape, Busy
<1>3. Suspended(r) <=> ck.run = r /\ ck.waiting
  BY DEF Suspended
<1>4. ck.waiting \/ Noted(ck) => ck.run = r
  BY <1>1, <1>2, OnlyOwnWaits DEF PauseInv, Busy
<1>5. Noted(ck) => ck.waiting
  BY <1>2 DEF PauseInv, SavedInv
<1>6. CASE ck.run = r /\ ck.waiting
  BY <1>1, <1>2, <1>3, <1>6 DEF InvokeResume, Enter, SameRun, Undone, Fixed, NoticedStop
<1>7. CASE ~ (ck.run = r /\ ck.waiting)
  <2>1. ~ ck.waiting /\ ~ Noted(ck)
    BY <1>4, <1>5, <1>7
  <2>2. ~ Undone(r, ck)
    BY <2>1 DEF Undone, NoticedStop, Noted, Levels
  <2>3. /\ ckpt' = [ckpt EXCEPT ![thread[r]] = ck] /\ stopReq' = stopReq
        /\ IF ck.run = r /\ ck.at = GraphEnd
           THEN /\ graph' = ck
                /\ worker' = [worker EXCEPT !.phase = "settle", !.verdict = "completed"]
           ELSE Enter(IF ck.run = r THEN ck ELSE InitialState(r, ck), FALSE)
    BY <1>7, <2>2 DEF InvokeResume, SameRun, Fixed
  <2>4. ckpt' = ckpt
    BY <1>2, <2>3
  <2>5. QED BY <1>1, <1>2, <1>3, <1>7, <2>1, <2>3, <2>4 DEF Enter
<1>8. QED BY <1>6, <1>7

LEMMA QuietNext ==
    ASSUME ~ CanCrash, ~ CanFail, up, Next
    PROVE  up' /\ (Api \/ OpStep \/ WorkerStep \/ NodeFails)
<1> USE DEF store, control
<1>1. Api \/ OpStep \/ WorkerStep \/ NodeFails
  BY DEF Next, Fault, OpFault, EmitFails, ReadFails, SettleFails, Flush, Crash, Boot
<1>2. CASE Api
  <2>1. ASSUME NEW t \in Threads, NEW p \in Profiles, Submit(t, p) PROVE up'
    BY <2>1 DEF Submit, Ahead
  <2>2. ASSUME NEW r \in Runs, Stop(r) \/ Resume(r) PROVE up'
    BY <2>2 DEF Stop, Resume
  <2>3. ASSUME NEW p \in Profiles, Connect(p) \/ Forget(p) PROVE up'
    BY <2>3 DEF Connect, Forget
  <2>4. ASSUME NEW t \in Threads, DeleteCheckpoints(t) PROVE up'
    BY <2>4 DEF DeleteCheckpoints
  <2>5. QED BY <1>1, <1>2, <2>1, <2>2, <2>3, <2>4 DEF Api, PauseAll, Shutdown
<1>3. CASE OpStep
  BY <1>1, <1>3 DEF OpStep, Submitted, StartNext, StartedNext, StopEvent, StopStatus, DeleteRows,
     MayStart
<1>4. CASE WorkNode
  BY <1>1, <1>4 DEF WorkNode, Plan, RunTool, RunImmediate, Prepare, Analyze, Publish, Finish,
     SourceChanged, Unauthorized, Compose, Go, Work
<1>5. CASE (WorkerStep /\ ~ WorkNode) \/ NodeFails
  BY <1>1, <1>5 DEF WorkerStep, Take, Invoke, InvokeResume, StopNode, Interrupt, Resumed, Settle,
     NodeFails, SameRun, Undone, Fixed, NoticedStop, Noticed, Cleared, HandsOver
<1>6. QED BY <1>1, <1>2, <1>3, <1>4, <1>5

(* Who is kept waiting stays so: only a Resume ends a pause, and it queues *)
(* the command that the worker then carries.                               *)
LEMMA SavedFrame ==
    ASSUME SavedInv, ckpt' = ckpt,
           \A r \in Runs : Kept(r) => thread'[r] = thread[r] /\ Kept(r)'
    PROVE  SavedInv'
BY DEF SavedInv

LEMMA KeptSame ==
    ASSUME NEW r \in Runs, Kept(r), status'[r] = status[r],
           ResumeQueued(r) => ResumeQueued(r)',
           worker' = worker \/ ~ Busy
           \/ (Busy' /\ worker'.act = worker.act /\ worker'.run = worker.run)
    PROVE  Kept(r)'
BY DEF Kept, ResumeCarried, Busy

LEMMA SavedStep ==
    ASSUME ~ CanCrash, ~ CanFail, Inv, PauseInv, Next
    PROVE  SavedInv'
<1> USE DEF store, control
<1>0. /\ status \in [Runs -> Statuses] /\ commands \in Seq(Commands) /\ op \in Ops
      /\ worker \in Workers /\ thread \in [Runs -> Threads] /\ ckpt \in [Threads -> GraphStates]
      /\ SavedInv /\ GraphInv /\ up /\ up'
  BY QuietNext DEF Inv, TypeInv, TypeOK, PauseInv
<1>a. \A r \in Runs : [act |-> "resume", run |-> r] \in Commands
  BY DEF Commands
<1>1. ASSUME NEW t \in Threads, NEW p \in Profiles, Submit(t, p) PROVE SavedInv'
  <2>1. PICK new \in Runs :
           /\ status[new] = "none"
           /\ thread' = [thread EXCEPT ![new] = t]
           /\ \E s : status' = [status EXCEPT ![new] = s]
    BY <1>1 DEF Submit, First, WithStatus, Ahead
  <2>2. UNCHANGED <<commands, worker, ckpt>>
    BY <1>1 DEF Submit, Ahead
  <2>3. ~ Kept(new)
    BY <2>1, KeptActive, ExecutingIsActive
  <2>4. \A r \in Runs : r # new => thread'[r] = thread[r] /\ status'[r] = status[r]
    BY <1>0, <2>1
  <2>5. \A r \in Runs : ResumeQueued(r) => ResumeQueued(r)'
    BY <2>2 DEF ResumeQueued
  <2>6. QED BY <1>0, <2>2, <2>3, <2>4, <2>5, KeptSame, SavedFrame
<1>2. CASE Submitted
  <2>1. UNCHANGED <<status, thread, worker, ckpt>> /\ op.run \in Runs
    BY <1>2 DEF Submitted, Inv, TypeInv, Shape
  <2>2. commands' = commands \/ commands' = Append(commands, [act |-> "start", run |-> op.run])
    BY <1>2 DEF Submitted
  <2>3. [act |-> "start", run |-> op.run] \in Commands
    BY <2>1 DEF Commands
  <2>4. \A r \in Runs : ResumeQueued(r) => ResumeQueued(r)'
    BY <1>0, <1>a, <2>2, <2>3, QueuedAppend DEF ResumeQueued
  <2>5. QED BY <1>0, <2>1, <2>4, KeptSame, SavedFrame
<1>3. CASE StartNext
  <2>1. UNCHANGED <<thread, ckpt, commands>>
    BY <1>3 DEF StartNext, MayStart
  <2>2. worker' = worker \/ ~ Busy
    BY <1>3, UnlockFrame DEF Busy
  <2>3. \A r \in Runs : status'[r] = status[r] \/ status[r] = "queued"
    <3>1. CASE status' = status
      BY <3>1
    <3>2. CASE status' # status
      BY <1>0, <1>3, <3>2 DEF StartNext, MayStart, First, WithStatus
    <3>3. QED BY <3>1, <3>2
  <2>4. \A r \in Runs : Kept(r) => status'[r] = status[r]
    BY <2>3, KeptActive, ExecutingIsActive
  <2>5. \A r \in Runs : ResumeQueued(r) => ResumeQueued(r)'
    BY <2>1 DEF ResumeQueued
  <2>6. QED BY <1>0, <2>1, <2>2, <2>4, <2>5, KeptSame, SavedFrame
<1>4. CASE StartedNext
  <2>1. /\ UNCHANGED <<status, thread, ckpt>> /\ op.run \in Runs
        /\ commands' = Append(commands, [act |-> "start", run |-> op.run])
    BY <1>4 DEF StartedNext, Inv, TypeInv, Shape
  <2>2. worker' = worker \/ ~ Busy
    BY <1>4, UnlockFrame DEF Busy
  <2>3. [act |-> "start", run |-> op.run] \in Commands
    BY <2>1 DEF Commands
  <2>4. \A r \in Runs : ResumeQueued(r) => ResumeQueued(r)'
    BY <1>0, <1>a, <2>1, <2>3, QueuedAppend DEF ResumeQueued
  <2>5. QED BY <1>0, <2>1, <2>2, <2>4, KeptSame, SavedFrame
<1>5. CASE PauseAll \/ StopEvent \/ (\E r \in Runs : Stop(r))
           \/ (\E p \in Profiles : Connect(p) \/ Forget(p))
  <2>1. UNCHANGED <<status, thread, worker, ckpt, commands>>
    BY <1>5 DEF PauseAll, StopEvent, Stop, Connect, Forget
  <2>2. \A r \in Runs : ResumeQueued(r) => ResumeQueued(r)'
    BY <2>1 DEF ResumeQueued
  <2>3. QED BY <1>0, <2>1, <2>2, KeptSame, SavedFrame
<1>6. CASE StopStatus
  <2>1. /\ UNCHANGED <<thread, worker, ckpt, commands>> /\ op.pc = "stop_status"
        /\ status' = [status EXCEPT ![op.run] = "stopping"]
    BY <1>6 DEF StopStatus
  <2>2. status[op.run] = "running"
    BY <2>1 DEF Inv, TokenInv, OpInv
  <2>3. \A r \in Runs : status[r] = "paused" => status'[r] = "paused"
    BY <1>0, <2>1, <2>2
  <2>4. \A r \in Runs : Kept(r) => Kept(r)'
    BY <2>1, <2>3 DEF Kept, ResumeCarried, ResumeQueued, Busy
  <2>5. QED BY <1>0, <2>1, <2>4, SavedFrame
<1>7. ASSUME NEW r \in Runs, Resume(r) PROVE SavedInv'
  <2>1. /\ UNCHANGED <<thread, worker, ckpt>>
        /\ status' = [status EXCEPT ![r] = "running"]
        /\ commands' = Append(commands, [act |-> "resume", run |-> r])
    BY <1>7 DEF Resume
  <2>2. \A q \in Runs : ResumeQueued(q) \/ q = r => ResumeQueued(q)'
    BY <1>0, <1>a, <2>1, QueuedAppend DEF ResumeQueued
  <2>3. \A q \in Runs : q # r => status'[q] = status[q]
    BY <1>0, <2>1
  <2>4. \A q \in Runs : Kept(q) => Kept(q)'
    BY <2>1, <2>2, <2>3, KeptSame DEF Kept, ResumeCarried
  <2>5. QED BY <1>0, <2>1, <2>4, SavedFrame
<1>8. CASE Shutdown
  <2>1. UNCHANGED <<status, thread, worker, ckpt>> /\ commands' = Append(commands, Quit)
    BY <1>8 DEF Shutdown
  <2>2. \A r \in Runs : ResumeQueued(r) => ResumeQueued(r)'
    BY <1>0, <1>a, <2>1, QueuedAppend DEF ResumeQueued, Commands
  <2>3. QED BY <1>0, <2>1, <2>2, KeptSame, SavedFrame
<1>9. ASSUME NEW t \in Threads, DeleteCheckpoints(t) PROVE SavedInv'
  <2>1. UNCHANGED <<status, thread, worker, commands>> /\ ckpt' = [ckpt EXCEPT ![t] = NoState]
    BY <1>9 DEF DeleteCheckpoints
  <2>2. \A r \in Runs : Kept(r) => Kept(r)'
    BY <2>1 DEF Kept, ResumeCarried, ResumeQueued, Busy
  <2>3. ~ NoState.waiting /\ \A l \in Levels : ~ NoState.pend[l]
    BY DEF NoState
  <2>4. ASSUME NEW u \in Threads
        PROVE  LET g == ckpt'[u] IN
               /\ NotedAtPause(g) /\ WaitsAtPause(g) /\ (Noted(g) => g.waiting)
               /\ g.waiting => \E r \in Runs : r = g.run /\ thread'[r] = u /\ Kept(r)'
    <3>1. CASE u = t
      BY <1>0, <2>1, <2>3, <3>1 DEF NotedAtPause, WaitsAtPause, Noted
    <3>2. CASE u # t
      BY <1>0, <2>1, <2>2, <3>2 DEF SavedInv
    <3>3. QED BY <3>1, <3>2
  <2>5. QED BY <2>4 DEF SavedInv
<1>10. CASE DeleteRows
  <2>1. /\ UNCHANGED <<thread, worker, ckpt, commands>> /\ op.pc = "delete"
        /\ status' = [r \in Runs |-> IF r \in OfThread(thread[op.run]) THEN "deleted" ELSE status[r]]
    BY <1>10 DEF DeleteRows
  <2>2. \A r \in OfThread(thread[op.run]) : status[r] \in Terminal
    BY <2>1 DEF Inv, TokenInv, OpInv, Settled
  <2>3. \A r \in Runs : Kept(r) => status'[r] = status[r]
    BY <2>1, <2>2, KeptActive, ExecutingIsActive
  <2>4. \A r \in Runs : ResumeQueued(r) => ResumeQueued(r)'
    BY <2>1 DEF ResumeQueued
  <2>5. QED BY <1>0, <2>1, <2>3, <2>4, KeptSame, SavedFrame
<1>11. CASE Take
  <2>1. /\ UNCHANGED <<status, thread, ckpt>> /\ worker.phase = "idle" /\ commands # <<>>
        /\ commands' = Tail(commands) /\ worker' = Dispatch(Head(commands))
    BY <1>11 DEF Take
  <2>2. ASSUME NEW r \in Runs, Kept(r) PROVE Kept(r)'
    <3>1. CASE status[r] = "paused"
      BY <2>1, <3>1 DEF Kept
    <3>2. CASE ResumeQueued(r)
      <4>1. \/ ResumeQueued(r)'
            \/ Head(commands) = [act |-> "resume", run |-> r]
        BY <1>0, <2>1, <3>2, QueuedTail DEF ResumeQueued
      <4>2. CASE Head(commands) = [act |-> "resume", run |-> r]
        BY <2>1, <4>2 DEF Dispatch, Execute, Idle, Quit, Kept, ResumeCarried, Busy
      <4>3. QED BY <4>1, <4>2 DEF Kept, ResumeCarried
    <3>3. QED BY <2>1, <2>2, <3>1, <3>2 DEF Kept, ResumeCarried, Busy
  <2>3. QED BY <1>0, <2>1, <2>2, SavedFrame
<1>12. CASE Invoke \/ InvokeResume \/ StopNode \/ Interrupt \/ Resumed \/ WorkNode \/ NodeFails
  <2>1. UNCHANGED <<status, thread, ckpt, commands>>
    <3>1. CASE WorkNode
      BY <3>1, WorkStep
    <3>2. CASE InvokeResume
      BY <3>2, ResumeStep
    <3>3. CASE Invoke \/ StopNode \/ Interrupt \/ Resumed \/ NodeFails
      BY <3>3 DEF Invoke, StopNode, Interrupt, Resumed, NodeFails, Noticed, Cleared
    <3>4. QED BY <1>12, <3>1, <3>2, <3>3
  <2>2. Busy' /\ worker'.act = worker.act /\ worker'.run = worker.run
    <3>1. CASE WorkNode
      BY <1>0, <3>1, WorkStep DEF Workers, Busy
    <3>2. CASE Invoke \/ InvokeResume
      BY <1>0, <3>2 DEF Invoke, InvokeResume, Enter, Workers, Busy, SameRun, Undone, Fixed, NoticedStop
    <3>3. CASE StopNode \/ Interrupt \/ Resumed \/ NodeFails
      BY <1>0, <3>3 DEF StopNode, Interrupt, Resumed, NodeFails, Return, AtNode, Workers, Busy,
         Noticed, Cleared
    <3>4. QED BY <1>12, <3>1, <3>2, <3>3
  <2>3. \A r \in Runs : ResumeQueued(r) => ResumeQueued(r)'
    BY <2>1 DEF ResumeQueued
  <2>4. QED BY <1>0, <2>1, <2>2, <2>3, KeptSame, SavedFrame
<1>13. CASE Settle
  <2> DEFINE s == worker.run
  <2>1. /\ worker.phase = "settle" /\ s \in Runs /\ thread[s] \in Threads
        /\ status' = [status EXCEPT ![s] = SettledAs]
        /\ ckpt' = [ckpt EXCEPT ![thread[s]] = graph] /\ UNCHANGED <<thread, commands>>
    BY <1>0, <1>13 DEF Settle, HandsOver, Inv, TypeInv, Shape, Busy
  <2>2. /\ graph.run = s /\ NotedAtPause(graph) /\ WaitsAtPause(graph)
        /\ Noted(graph) => graph.waiting
        /\ graph.waiting => worker.verdict = "interrupt"
    BY <1>0, <2>1 DEF GraphInv
  <2>3. worker.verdict = "interrupt" => status'[s] = "paused"
    BY <1>0, <2>1 DEF SettledAs
  <2>4. ASSUME NEW u \in Threads
        PROVE  LET g == ckpt'[u] IN
               /\ NotedAtPause(g) /\ WaitsAtPause(g) /\ (Noted(g) => g.waiting)
               /\ g.waiting => \E r \in Runs : r = g.run /\ thread'[r] = u /\ Kept(r)'
    <3>1. CASE u = thread[s]
      <4>1. ckpt'[u] = graph
        BY <1>0, <2>1, <3>1
      <4>2. QED BY <2>1, <2>2, <2>3, <3>1, <4>1 DEF Kept
    <3>2. CASE u # thread[s]
      <4>1. ckpt'[u] = ckpt[u]
        BY <1>0, <2>1, <3>2
      <4>2. ~ ckpt[u].waiting
        BY <1>0, <2>1, <3>2, OnlyOwnWaits DEF Busy
      <4>3. QED BY <1>0, <4>1, <4>2 DEF SavedInv
    <3>3. QED BY <3>1, <3>2
  <2>5. QED BY <2>4 DEF SavedInv
<1>14. QED
  BY <1>0, <1>1, <1>2, <1>3, <1>4, <1>5, <1>6, <1>7, <1>8, <1>9, <1>10, <1>11, <1>12, <1>13,
     QuietNext DEF Api, OpStep, WorkerStep

LEMMA GraphStep ==
    ASSUME ~ CanCrash, ~ CanFail, Inv, PauseInv, Next
    PROVE  GraphInv'
<1> USE DEF store, control
<1>0. /\ worker \in Workers /\ graph \in GraphStates /\ ckpt \in [Threads -> GraphStates]
      /\ thread \in [Runs -> Threads] /\ SavedInv /\ GraphInv /\ StopInv
      /\ worker.phase = "node" => graph.run = worker.run
      /\ Busy => worker.run \in Runs
  BY DEF Inv, TypeInv, TypeOK, PauseInv, Shape
<1>a. ASSUME worker'.phase \notin {"node", "settle"}, ~ worker'.resuming PROVE GraphInv'
  BY <1>a DEF GraphInv
<1>b. /\ Idle.phase = "idle" /\ ~ Idle.resuming
      /\ \A p : Gone(p).phase = p /\ ~ Gone(p).resuming
  BY DEF Idle, Gone
<1>c. ASSUME UNCHANGED <<worker, graph>>, worker.phase = "node" => asked \subseteq asked'
      PROVE  GraphInv'
  BY <1>0, <1>c DEF GraphInv, Noted, NotedAtPause, WaitsAtPause
\* The end of the invocation, from a state in which nothing is noted.
<1>d. ASSUME worker.phase = "node", graph.at.kind = "work", graph'.run = graph.run,
             graph'.waiting = graph.waiting, \A l \in Levels : graph'.pend[l] => graph.pend[l]
      PROVE  /\ ~ Noted(graph') /\ ~ graph'.waiting /\ graph'.run = worker.run
             /\ ~ worker.resuming
  BY <1>0, <1>d DEF GraphInv, Noted, NotedAtPause
<1>e. ASSUME ~ Noted(graph'), ~ graph'.waiting, graph'.run = worker'.run,
             worker'.phase \in {"node", "settle"}, ~ worker'.resuming,
             worker'.phase = "settle" => worker'.verdict # "interrupt"
      PROVE  GraphInv'
  BY <1>e DEF GraphInv, Noted, NotedAtPause, WaitsAtPause
<1>1. ASSUME NEW r \in Runs, Resume(r) PROVE GraphInv'
  <2>1. UNCHANGED <<worker, graph>> /\ status[r] = "paused"
    BY <1>1 DEF Resume, Resumable
  <2>2. ~ Busy
    BY <2>1, BusyNotPaused
  <2>3. QED BY <1>c, <2>1, <2>2 DEF Busy
<1>2. CASE (Api /\ \A r \in Runs : ~ Resume(r)) \/ Submitted \/ StopEvent \/ StopStatus \/ DeleteRows
  <2>1. UNCHANGED <<worker, graph>>
    BY <1>2, ApiFrame
  <2>2. asked \subseteq asked'
    <3>1. ASSUME NEW t \in Threads, NEW p \in Profiles, Submit(t, p) PROVE asked' = asked
      BY <3>1 DEF Submit, Ahead
    <3>2. ASSUME NEW r \in Runs, Stop(r) PROVE asked \subseteq asked'
      BY <3>2 DEF Stop
    <3>3. ASSUME NEW p \in Profiles, Connect(p) \/ Forget(p) PROVE asked' = asked
      BY <3>3 DEF Connect, Forget
    <3>4. ASSUME NEW t \in Threads, DeleteCheckpoints(t) PROVE asked' = asked
      BY <3>4 DEF DeleteCheckpoints
    <3>5. CASE PauseAll \/ Shutdown \/ Submitted \/ StopEvent \/ StopStatus \/ DeleteRows
      BY <3>5 DEF PauseAll, Shutdown, RequestAllStops, Submitted, StopEvent, StopStatus, DeleteRows
    <3>6. QED BY <1>2, <3>1, <3>2, <3>3, <3>4, <3>5 DEF Api
  <2>3. QED BY <1>c, <2>1, <2>2
<1>3. CASE StartNext \/ StartedNext
  <2>1. asked' = asked
    BY <1>3 DEF StartNext, StartedNext, MayStart
  <2>2. QED BY <1>3, <1>a, <1>b, <1>c, <2>1, UnlockFrame
<1>4. CASE Take
  BY <1>4, <1>a, <1>b DEF Take, Dispatch, Execute, Idle
<1>5. CASE Invoke
  <2> DEFINE ck == ckpt[thread[worker.run]]
  <2>1. /\ worker.phase = "invoke" /\ worker.act = "start" /\ graph' = InitialState(worker.run, ck)
        /\ worker' = [worker EXCEPT !.phase = "node", !.resuming = FALSE]
        /\ thread[worker.run] \in Threads
    BY <1>0, <1>5 DEF Invoke, Enter, Busy
  <2>2. ~ Noted(ck)
    BY <1>0, <2>1, OnlyOwnWaits DEF Busy
  <2>3. ~ Noted(graph') /\ ~ graph'.waiting /\ graph'.run = worker.run
    BY <2>1, <2>2 DEF InitialState, NoState, Noted, Levels
  <2>4. QED BY <1>0, <1>e, <2>1, <2>3 DEF Workers
<1>6. CASE InvokeResume
  <2> DEFINE ck == ckpt[thread[worker.run]]
  <2>1. worker.phase = "invoke" /\ worker.run \in Runs /\ thread[worker.run] \in Threads
    BY <1>0, <1>6, ResumeStep
  <2>3. CASE /\ Suspended(worker.run) /\ graph' = [ck EXCEPT !.waiting = FALSE]
             /\ worker' = [worker EXCEPT !.phase = "node", !.resuming = TRUE]
    <3>1. /\ NotedAtPause(ck) /\ ck.at.kind \in {"pause", "wait"} /\ ck \in GraphStates
      BY <1>0, <2>1, <2>3 DEF SavedInv, WaitsAtPause, Suspended
    <3>2. /\ graph'.at = ck.at /\ graph'.pend = ck.pend /\ ~ graph'.waiting
          /\ worker'.phase = "node" /\ worker'.resuming
      BY <1>0, <2>3, <3>1 DEF GraphStates, Workers
    <3>3. QED BY <3>1, <3>2 DEF GraphInv, NotedAtPause, Noted
  <2>4. CASE /\ ~ ck.waiting /\ ~ Noted(ck)
             /\ graph' = ck /\ graph'.run = worker.run
             /\ worker' = [worker EXCEPT !.phase = "settle", !.verdict = "completed"]
    <3>1. ~ worker.resuming
      BY <1>0, <2>1 DEF GraphInv
    <3>2. QED BY <1>0, <1>e, <2>4, <3>1 DEF Workers
  <2>5. CASE /\ ~ ck.waiting /\ ~ Noted(ck)
             /\ graph' = ck /\ graph'.run = worker.run
             /\ worker' = [worker EXCEPT !.phase = "node", !.resuming = FALSE]
    BY <1>0, <1>e, <2>5 DEF Workers
  <2>6. CASE /\ ~ Noted(ck) /\ graph' = InitialState(worker.run, ck)
             /\ worker' = [worker EXCEPT !.phase = "node", !.resuming = FALSE]
    <3>1. ~ Noted(graph') /\ ~ graph'.waiting /\ graph'.run = worker.run
      BY <2>6 DEF InitialState, NoState, Noted, Levels
    <3>2. QED BY <1>0, <1>e, <2>6, <3>1 DEF Workers
  <2>7. QED BY <1>6, <2>3, <2>4, <2>5, <2>6, ResumeStep
<1>7. CASE StopNode
  <2> DEFINE x == graph.at.at
  <2>1. /\ worker.phase = "node" /\ graph.at.kind = "stop" /\ UNCHANGED <<worker, asked, stopReq>>
        /\ graph' = [graph EXCEPT !.pend[Level(x)] = Noticed(x),
                                  !.at = IF Noticed(x) THEN PauseAt(x) ELSE WorkAt(x)]
    BY <1>7 DEF StopNode, AtNode, Noticed
  <2>2. /\ ~ worker.resuming /\ ~ Noted(graph) /\ ~ graph.waiting
    BY <1>0, <2>1 DEF GraphInv, Noted, NotedAtPause
  <2>3. Noticed(x) => graph.run \in stopReq
    BY <2>2, LevelTypes DEF Noticed, Noted
  <2>4. graph.run \in stopReq => graph.run \in asked
    <3>1. Busy /\ graph.run = worker.run /\ graph.run \in Runs
      BY <1>0, <2>1 DEF Busy
    <3>2. QED BY <1>0, <2>1, <2>2, <3>1, BusyResumes DEF StopInv, Resuming
  <2>5. /\ graph'.run = graph.run /\ ~ graph'.waiting
        /\ \A l \in Levels : graph'.pend[l] => l = Level(x) /\ Noticed(x)
    BY <1>0, <2>1, <2>2, LevelTypes DEF GraphStates, Noted
  <2>6. Noticed(x) => graph'.at.kind = "pause" /\ graph'.at.at = x
    BY <1>0, <2>1 DEF GraphStates, PauseAt
  <2>7. QED BY <2>1, <2>2, <2>3, <2>4, <2>5, <2>6 DEF GraphInv, Noted, NotedAtPause
<1>8. CASE Interrupt
  <2>1. /\ worker.phase = "node" /\ graph.at.kind \in {"pause", "wait"}
        /\ graph' = [graph EXCEPT !.waiting = TRUE]
        /\ worker' = [worker EXCEPT !.phase = "settle", !.verdict = "interrupt", !.resuming = FALSE]
    BY <1>8 DEF Interrupt, AtNode, Return
  <2>2. /\ graph'.at = graph.at /\ graph'.pend = graph.pend /\ graph'.waiting
        /\ graph'.run = worker'.run /\ worker'.phase = "settle" /\ ~ worker'.resuming
        /\ worker'.verdict = "interrupt"
    BY <1>0, <2>1 DEF GraphStates, Workers
  <2>3. NotedAtPause(graph)
    BY <1>0, <2>1 DEF GraphInv
  <2>4. QED BY <2>1, <2>2, <2>3 DEF GraphInv, NotedAtPause, WaitsAtPause
<1>9. CASE Resumed
  <2>1. PICK l \in Levels :
           /\ l = IF graph.at.kind = "wait" THEN "evidence" ELSE Level(graph.at.at)
           /\ graph' = [graph EXCEPT !.pend[l] = FALSE, !.at = AfterResume(graph.at),
                                     !.resumed = IF l = "evidence" THEN graph.at.kind = "pause" ELSE @]
    BY <1>9 DEF Resumed, Level, Levels, Cleared
  <2>2. /\ worker.phase = "node" /\ worker' = [worker EXCEPT !.resuming = FALSE]
    BY <1>9 DEF Resumed, AtNode, Cleared
  <2>3. /\ NotedAtPause(graph) /\ ~ graph.waiting
    BY <1>0, <2>2 DEF GraphInv
  <2>4. ~ Noted(graph') /\ ~ graph'.waiting /\ graph'.run = graph.run
    BY <1>0, <2>1, <2>3 DEF Noted, NotedAtPause, GraphStates
  <2>5. QED BY <1>0, <1>e, <2>2, <2>4 DEF Workers
<1>10. CASE WorkNode
  <2>1. /\ worker.phase = "node"
        /\ ~ Noted(graph') /\ ~ graph'.waiting /\ graph'.run = worker.run /\ ~ worker.resuming
    BY <1>10, <1>d, WorkStep
  <2>2. \/ worker' = worker
        \/ \E v \in {"auth", "completed"} :
              worker' = [worker EXCEPT !.phase = "settle", !.verdict = v, !.resuming = FALSE]
    BY <1>10, WorkStep
  <2>3. QED BY <1>0, <1>e, <2>1, <2>2 DEF Workers
<1>11. CASE NodeFails
  <2>1. /\ worker.phase = "node" /\ graph.at.kind = "work" /\ graph' = graph
        /\ worker' = [worker EXCEPT !.phase = "settle", !.verdict = "failed", !.resuming = FALSE]
    BY <1>11 DEF NodeFails, AtNode, Return
  <2>2. ~ Noted(graph') /\ ~ graph'.waiting /\ graph'.run = worker.run
    BY <1>d, <2>1
  <2>3. QED BY <1>0, <1>e, <2>1, <2>2 DEF Workers
<1>12. CASE Settle
  BY <1>12, <1>a, <1>b DEF Settle, HandsOver
<1>13. QED
  BY <1>1, <1>2, <1>3, <1>4, <1>5, <1>6, <1>7, <1>8, <1>9, <1>10, <1>11, <1>12, QuietNext
  DEF PauseInv, OpStep, WorkerStep

(* The steps that leave every resumption where it is and ask for what they *)
(* stop.                                                                   *)
LEMMA StopFrame ==
    ASSUME StopInv, ckpt' = ckpt, asked \subseteq asked',
           worker' = worker \/ (~ Busy /\ ~ Busy'),
           \A r \in stopReq' : \/ r \in stopReq
                               \/ r \in asked' /\ status'[r] # "paused",
           \A r \in stopReq :
              /\ status'[r] = "paused" => status[r] = "paused"
              /\ ResumeQueued(r) => ResumeQueued(r)'
              /\ Resuming(r) \/ status[r] = "paused" => thread'[r] = thread[r]
    PROVE  StopInv'
<1>1. ASSUME NEW r \in stopReq', r \in stopReq
      PROVE  /\ r \notin asked' => Resuming(r)'
             /\ status'[r] = "paused" => Suspended(r)'
             /\ r \notin asked' /\ worker'.phase # "node" => Suspended(r)'
  BY <1>1 DEF StopInv, Resuming, Suspended, Busy
<1>2. QED BY <1>1 DEF StopInv

LEMMA StopAsked ==
    ASSUME stopReq' \subseteq asked', \A r \in stopReq' : status'[r] # "paused"
    PROVE  StopInv'
BY DEF StopInv

(* While the worker is busy with anything but a resumption under way,      *)
(* every control event was asked for.                                      *)
LEMMA AllAsked ==
    ASSUME Inv, StopInv, Busy,
           ~ (worker.phase = "invoke" /\ worker.act = "resume"),
           worker.phase = "node" => ~ worker.resuming
    PROVE  stopReq \subseteq asked /\ \A r \in stopReq : status[r] # "paused"
<1>1. stopReq \subseteq Runs
  BY DEF Inv, TypeInv, TypeOK
<1>2. QED BY <1>1, BusyResumes, BusyNotPaused DEF StopInv, Resuming

LEMMA StopStep ==
    ASSUME ~ CanCrash, ~ CanFail, Inv, PauseInv, Next
    PROVE  StopInv'
<1> USE DEF store, control
<1>0. /\ status \in [Runs -> Statuses] /\ commands \in Seq(Commands) /\ op \in Ops
      /\ worker \in Workers /\ thread \in [Runs -> Threads] /\ ckpt \in [Threads -> GraphStates]
      /\ stopReq \subseteq Runs /\ SavedInv /\ GraphInv /\ StopInv
      /\ worker.phase = "node" => graph.run = worker.run
      /\ Busy => worker.run \in Runs
  BY DEF Inv, TypeInv, TypeOK, PauseInv, Shape
<1>a. \A r \in Runs : /\ [act |-> "resume", run |-> r] \in Commands
                      /\ [act |-> "start", run |-> r] \in Commands
  BY DEF Commands
<1>b. Quit \in Commands
  BY DEF Commands
<1>1. ASSUME NEW t \in Threads, NEW p \in Profiles, Submit(t, p) PROVE StopInv'
  <2>1. PICK new \in Runs :
           /\ status[new] = "none" /\ thread' = [thread EXCEPT ![new] = t]
           /\ status' = [status EXCEPT ![new] = IF WithStatus(Active \cup {"queued"}) # {}
                                                THEN "queued" ELSE "running"]
    BY <1>1 DEF Submit, First, WithStatus, Ahead
  <2>2. UNCHANGED <<commands, worker, ckpt, stopReq, asked>>
    BY <1>1 DEF Submit, Ahead
  <2>3. \A r \in Runs : Resuming(r) \/ status[r] = "paused" => r # new
    BY <2>1, KeptActive DEF Executing
  <2>4. \A r \in Runs : status'[r] = "paused" => status[r] = "paused"
    BY <1>0, <2>1
  <2>5. \A r \in Runs : ResumeQueued(r) => ResumeQueued(r)'
    BY <2>2 DEF ResumeQueued
  <2>6. \A r \in Runs : r # new => thread'[r] = thread[r]
    BY <1>0, <2>1
  <2>7. QED BY <1>0, <2>2, <2>3, <2>4, <2>5, <2>6, StopFrame
<1>2. CASE Submitted \/ StartedNext
  <2>1. UNCHANGED <<status, thread, ckpt, stopReq, asked>> /\ op.run \in Runs
    BY <1>2 DEF Submitted, StartedNext, Inv, TypeInv, Shape
  <2>2. commands' = commands \/ commands' = Append(commands, [act |-> "start", run |-> op.run])
    BY <1>2 DEF Submitted, StartedNext
  <2>3. worker' = worker \/ (~ Busy /\ ~ Busy')
    BY <1>2, UnlockFrame, WorkerTypes DEF Submitted, Busy
  <2>4. \A r \in Runs : ResumeQueued(r) => ResumeQueued(r)'
    BY <1>0, <1>a, <2>1, <2>2, QueuedAppend DEF ResumeQueued
  <2>5. QED BY <1>0, <2>1, <2>3, <2>4, StopFrame
<1>3. CASE StartNext
  <2>1. UNCHANGED <<thread, ckpt, commands, stopReq, asked>>
    BY <1>3 DEF StartNext, MayStart
  <2>2. worker' = worker \/ (~ Busy /\ ~ Busy')
    BY <1>3, UnlockFrame, WorkerTypes DEF Busy
  <2>3. \A r \in Runs : status'[r] = "paused" => status[r] = "paused"
    <3>1. CASE status' = status
      BY <3>1
    <3>2. CASE status' # status
      BY <1>0, <1>3, <3>2 DEF StartNext, MayStart, First, WithStatus
    <3>3. QED BY <3>1, <3>2
  <2>4. \A r \in Runs : ResumeQueued(r) => ResumeQueued(r)'
    BY <2>1 DEF ResumeQueued
  <2>5. QED BY <1>0, <2>1, <2>2, <2>3, <2>4, StopFrame
<1>4. ASSUME NEW r \in Runs, Stop(r) PROVE StopInv'
  <2>1. /\ UNCHANGED <<status, thread, ckpt, commands, worker>> /\ status[r] = "running"
        /\ stopReq' = stopReq \cup {r} /\ asked' = asked \cup {r}
    BY <1>4 DEF Stop
  <2>2. \A q \in Runs : ResumeQueued(q) => ResumeQueued(q)'
    BY <2>1 DEF ResumeQueued
  <2>3. QED BY <1>0, <2>1, <2>2, StopFrame
<1>5. CASE StopEvent \/ StopStatus \/ \E p \in Profiles : Connect(p) \/ Forget(p)
  <2>1. UNCHANGED <<thread, ckpt, commands, worker, stopReq, asked>>
    BY <1>5 DEF StopEvent, StopStatus, Connect, Forget
  <2>2. \A r \in Runs : status'[r] = "paused" => status[r] = "paused"
    BY <1>0, <1>5 DEF StopEvent, StopStatus, Connect, Forget
  <2>3. \A q \in Runs : ResumeQueued(q) => ResumeQueued(q)'
    BY <2>1 DEF ResumeQueued
  <2>4. QED BY <1>0, <2>1, <2>2, <2>3, StopFrame
<1>6. CASE PauseAll \/ Shutdown
  <2>1. /\ UNCHANGED <<status, thread, ckpt, worker>> /\ RequestAllStops
        /\ commands' = commands \/ commands' = Append(commands, Quit)
    BY <1>6 DEF PauseAll, Shutdown
  <2>2. \A q \in Runs : ResumeQueued(q) => ResumeQueued(q)'
    BY <1>0, <1>a, <1>b, <2>1, QueuedAppend DEF ResumeQueued
  <2>3. \A r \in WithStatus(Executing) : status[r] # "paused"
    BY DEF WithStatus, Executing
  <2>4. QED BY <1>0, <2>1, <2>2, <2>3, StopFrame DEF RequestAllStops
<1>7. ASSUME NEW r \in Runs, Resume(r) PROVE StopInv'
  <2>1. /\ UNCHANGED <<thread, ckpt, worker, stopReq>> /\ status[r] = "paused"
        /\ status' = [status EXCEPT ![r] = "running"] /\ asked' = asked \ {r}
        /\ commands' = Append(commands, [act |-> "resume", run |-> r])
    BY <1>7 DEF Resume, Resumable
  <2>2. \A q \in Runs : ResumeQueued(q) \/ q = r => ResumeQueued(q)'
    BY <1>0, <1>a, <2>1, QueuedAppend DEF ResumeQueued
  <2>3. \A q \in Runs : Resuming(q) \/ q = r => Resuming(q)'
    BY <2>1, <2>2 DEF Resuming
  <2>4. \A q \in Runs : Suspended(q)' = Suspended(q)
    BY <2>1 DEF Suspended
  <2>5. r \in stopReq => Suspended(r)
    BY <1>0, <2>1 DEF StopInv
  <2>6. ASSUME NEW q \in stopReq'
        PROVE  /\ q \notin asked' => Resuming(q)'
               /\ status'[q] = "paused" => Suspended(q)'
               /\ q \notin asked' /\ worker'.phase # "node" => Suspended(q)'
    <3>1. CASE q = r
      BY <1>0, <2>1, <2>3, <2>4, <2>5, <3>1
    <3>2. CASE q # r
      <4>1. q \in stopReq /\ q \in Runs /\ status'[q] = status[q] /\ (q \in asked' <=> q \in asked)
        BY <1>0, <2>1, <3>2
      <4>2. QED BY <1>0, <2>1, <2>3, <2>4, <4>1 DEF StopInv
    <3>3. QED BY <3>1, <3>2
  <2>7. QED BY <2>6 DEF StopInv
<1>8. ASSUME NEW t \in Threads, DeleteCheckpoints(t) PROVE StopInv'
  <2>1. /\ UNCHANGED <<status, thread, worker, commands, stopReq, asked>> /\ Settled(t)
        /\ ckpt' = [ckpt EXCEPT ![t] = NoState]
    BY <1>8 DEF DeleteCheckpoints
  <2>2. \A r \in Runs : Resuming(r)' = Resuming(r)
    BY <2>1 DEF Resuming, ResumeQueued
  <2>3. ASSUME NEW r \in Runs, status[r] \in Active, Suspended(r) PROVE Suspended(r)'
    <3>1. thread[r] # t
      BY <2>1, <2>3, ExecutingIsActive DEF Settled, OfThread
    <3>2. ckpt'[thread[r]] = ckpt[thread[r]]
      BY <1>0, <2>1, <3>1
    <3>3. QED BY <2>1, <2>3, <3>2 DEF Suspended
  <2>4. \A r \in Runs : Resuming(r) \/ status[r] = "paused" => status[r] \in Active
    BY KeptActive, ExecutingIsActive
  <2>5. QED BY <1>0, <2>1, <2>2, <2>3, <2>4 DEF StopInv
<1>9. CASE DeleteRows
  <2>1. /\ UNCHANGED <<thread, ckpt, commands, worker, stopReq, asked>>
        /\ \A r \in Runs : status'[r] \in {"deleted", status[r]}
    BY <1>9 DEF DeleteRows
  <2>2. \A q \in Runs : ResumeQueued(q) => ResumeQueued(q)'
    BY <2>1 DEF ResumeQueued
  <2>3. QED BY <1>0, <2>1, <2>2, StopFrame
<1>10. CASE Take
  <2>1. /\ UNCHANGED <<status, thread, ckpt, stopReq, asked>> /\ worker.phase = "idle"
        /\ commands # <<>> /\ commands' = Tail(commands) /\ worker' = Dispatch(Head(commands))
    BY <1>10 DEF Take
  <2>2. ASSUME NEW r \in Runs, Resuming(r) PROVE Resuming(r)'
    <3>1. ResumeQueued(r)
      BY <2>1, <2>2 DEF Resuming
    <3>2. ResumeQueued(r)' \/ Head(commands) = [act |-> "resume", run |-> r]
      BY <1>0, <2>1, <3>1, QueuedTail DEF ResumeQueued
    <3>3. CASE Head(commands) = [act |-> "resume", run |-> r]
      BY <2>1, <3>3 DEF Dispatch, Execute, Idle, Quit, Resuming
    <3>4. QED BY <3>2, <3>3 DEF Resuming
  <2>3. \A r \in Runs : Suspended(r)' = Suspended(r)
    BY <2>1 DEF Suspended
  <2>4. QED BY <1>0, <2>1, <2>2, <2>3 DEF StopInv
<1>11. CASE Invoke
  <2>1. /\ worker.phase = "invoke" /\ worker.act = "start"
        /\ UNCHANGED <<status, stopReq, asked>>
    BY <1>11 DEF Invoke
  <2>2. stopReq \subseteq asked /\ \A r \in stopReq : status[r] # "paused"
    BY <1>0, <2>1, AllAsked DEF Busy
  <2>3. QED BY <2>1, <2>2, StopAsked
<1>12. CASE InvokeResume
  <2>1. /\ UNCHANGED <<status, thread, ckpt, commands, stopReq, asked>>
        /\ worker.phase = "invoke" /\ worker.act = "resume" /\ worker.run \in Runs
    BY <1>12, ResumeStep
  <2>2. \A r \in stopReq : status[r] # "paused"
    BY <1>0, <2>1, BusyNotPaused DEF Busy
  <2>3. \A r \in stopReq : r \notin asked => r = worker.run /\ Suspended(r)
    BY <1>0, <2>1, BusyResumes DEF StopInv, Resuming, Busy
  <2>4. CASE Suspended(worker.run)
    <3>1. worker' = [worker EXCEPT !.phase = "node", !.resuming = TRUE]
      BY <1>12, <2>4, ResumeStep
    <3>2. worker'.phase = "node" /\ worker'.resuming /\ worker'.run = worker.run
      BY <1>0, <3>1 DEF Workers
    <3>3. QED BY <2>1, <2>2, <2>3, <3>2 DEF StopInv, Resuming
  <2>5. CASE ~ Suspended(worker.run)
    BY <2>1, <2>2, <2>3, <2>5, StopAsked
  <2>6. QED BY <2>4, <2>5
<1>13. CASE StopNode
  <2>1. UNCHANGED <<status, thread, ckpt, commands, worker, stopReq, asked>>
    BY <1>13 DEF StopNode, Noticed
  <2>2. \A q \in Runs : ResumeQueued(q) => ResumeQueued(q)'
    BY <2>1 DEF ResumeQueued
  <2>3. QED BY <1>0, <2>1, <2>2, StopFrame
<1>14. CASE Interrupt \/ WorkNode \/ NodeFails
  <2>1. UNCHANGED <<status, stopReq, asked>> /\ worker.phase = "node" /\ ~ worker.resuming
    <3>1. CASE WorkNode
      BY <1>0, <3>1, WorkStep DEF GraphInv
    <3>2. CASE Interrupt \/ NodeFails
      BY <1>0, <3>2 DEF Interrupt, NodeFails, AtNode, GraphInv
    <3>3. QED BY <1>14, <3>1, <3>2
  <2>2. stopReq \subseteq asked /\ \A r \in stopReq : status[r] # "paused"
    BY <1>0, <2>1, AllAsked DEF Busy
  <2>3. QED BY <2>1, <2>2, StopAsked
<1>15. CASE Resumed
  <2>1. /\ UNCHANGED <<status, asked>> /\ worker.phase = "node" /\ stopReq' = stopReq \ {graph.run}
    BY <1>15 DEF Resumed, AtNode, Cleared
  <2>2. \A r \in stopReq : status[r] # "paused" /\ (r \notin asked => r = worker.run)
    BY <1>0, <2>1, BusyNotPaused, BusyResumes DEF StopInv, Resuming, Busy
  <2>3. QED BY <1>0, <2>1, <2>2, StopAsked
<1>16. CASE Settle
  <2> DEFINE s == worker.run
  <2>1. /\ worker.phase = "settle" /\ s \in Runs /\ thread[s] \in Threads
        /\ status' = [status EXCEPT ![s] = SettledAs]
        /\ ckpt' = [ckpt EXCEPT ![thread[s]] = graph] /\ UNCHANGED <<thread, asked>>
        /\ stopReq' = IF worker.verdict = "interrupt" THEN stopReq ELSE stopReq \ {s}
    BY <1>0, <1>16 DEF Settle, HandsOver, Busy
  <2>2. stopReq \subseteq asked /\ \A r \in stopReq : status[r] # "paused"
    BY <1>0, <2>1, AllAsked DEF Busy
  <2>3. CASE worker.verdict # "interrupt"
    <3>1. \A r \in stopReq' : status'[r] = status[r]
      BY <1>0, <2>1, <2>3
    <3>2. QED BY <2>1, <2>2, <2>3, <3>1, StopAsked
  <2>4. CASE worker.verdict = "interrupt"
    <3>1. graph.run = s /\ graph.waiting
      BY <1>0, <2>1, <2>4 DEF GraphInv
    <3>3. \A r \in stopReq' : r # s => status'[r] # "paused"
      BY <1>0, <2>1, <2>2, <2>4
    <3>4. \A r \in stopReq' : status'[r] = "paused" => Suspended(r)'
      <4>1. ckpt'[thread'[s]].run = s /\ ckpt'[thread'[s]].waiting
        BY <1>0, <2>1, <3>1
      <4>2. QED BY <3>3, <4>1 DEF Suspended
    <3>5. QED BY <2>1, <2>2, <2>4, <3>4 DEF StopInv
  <2>5. QED BY <2>3, <2>4
<1>17. QED
  BY <1>1, <1>2, <1>3, <1>4, <1>5, <1>6, <1>7, <1>8, <1>9, <1>10, <1>11, <1>12, <1>13,
     <1>14, <1>15, <1>16, QuietNext DEF PauseInv, Api, OpStep, WorkerStep

(* A run that pauses at a stop gate was asked to, after its last Resume,   *)
(* as long as the Worker does not die and no write fails: either leaves a  *)
(* noticed stop behind that a later invocation of the thread acts upon.    *)
THEOREM PausesAreAsked ==
    ASSUME ~ CanCrash, ~ CanFail
    PROVE  Spec => AskedPause
<1>1. Init => PauseInv
  <2>1. SUFFICES ASSUME Init PROVE PauseInv
    OBVIOUS
  <2>2. SavedInv
    BY <2>1 DEF Init, SavedInv, NoState, Noted, NotedAtPause, WaitsAtPause
  <2>3. up /\ GraphInv /\ StopInv
    BY <2>1 DEF Init, GraphInv, StopInv, Idle
  <2>4. QED BY <2>2, <2>3 DEF PauseInv
<1>2. Inv /\ PauseInv /\ [Next]_vars => PauseInv'
  <2>1. CASE UNCHANGED vars
    <3>1. UNCHANGED <<status, thread, ckpt, commands, worker, graph, stopReq, asked, up>>
      BY <2>1 DEF vars, store
    <3>2. QED BY <3>1 DEF PauseInv, SavedInv, GraphInv, StopInv, Kept, ResumeCarried,
              ResumeQueued, Resuming, Suspended, Noted, NotedAtPause, WaitsAtPause, Busy
  <2>2. QED BY <2>1, QuietNext, SavedStep, GraphStep, StopStep DEF PauseInv
<1>3. ASSUME Inv, PauseInv, Interrupt, graph.at.kind = "pause" PROVE graph.run \in asked
  BY <1>3, LevelTypes DEF Interrupt, AtNode, PauseInv, GraphInv, Noted
<1>4. ASSUME Inv, PauseInv, [Next]_vars
      PROVE  [ Interrupt /\ graph.at.kind = "pause" => graph.run \in asked ]_vars
  BY <1>3, <1>4
<1>5. QED BY <1>1, <1>2, <1>4, InvHolds, PTL DEF Spec, AskedPause
===============================================================================
