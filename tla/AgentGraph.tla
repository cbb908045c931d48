------------------------------ MODULE AgentGraph ------------------------------
(***************************************************************************)
(* The compiled Agent graph: the kernel graph of graphs/kernel.py with the *)
(* evidence subgraph of graphs/evidence.py in the place of                 *)
(* "run_evidence_tool".                                                    *)
(*                                                                         *)
(* Both graphs are built from the same gate: a "stop_before_X" node that   *)
(* looks at the stop request, a "pause_before_X" node that interrupts, and *)
(* the node X itself.  A node is a record [kind, at]; kind says which of   *)
(* the three it is.  The two unconditional interrupts of the evidence      *)
(* graph (pause_evidence_frontier, pause_source_changed) are "wait" nodes. *)
(***************************************************************************)
EXTENDS Naturals

KernelGates   == {"plan", "tool", "compose"}
EvidenceGates == {"immediate", "authorize", "frontier", "publish"}
Gates         == KernelGates \cup EvidenceGates
Waits         == {"evidence", "source"}
Works         == Gates \cup {"finish"}

StopAt(x)  == [kind |-> "stop",  at |-> x]
PauseAt(x) == [kind |-> "pause", at |-> x]
WorkAt(x)  == [kind |-> "work",  at |-> x]
WaitAt(x)  == [kind |-> "wait",  at |-> x]
GraphEnd   == [kind |-> "end",   at |-> "end"]

Nodes == [kind : {"stop", "pause"}, at : Gates] \cup [kind : {"work"}, at : Works]
           \cup [kind : {"wait"}, at : Waits] \cup {GraphEnd}

(* What the planner may select: a tool the kernel runs itself, one of the  *)
(* two immediate evidence tools, or the staged study-map analysis.         *)
AllTools == {"kernel", "inspect", "answer", "staged"}

(* Where a gate or a wait leads once a resume has been accepted.           *)
AfterResume(n) == IF n = WaitAt("evidence") THEN StopAt("frontier")
                  ELSE IF n = WaitAt("source") THEN StopAt("authorize")
                  ELSE WorkAt(n.at)

(* The conditional edge out of route_selected_tool and start_evidence_tool,*)
(* the kernel's own run_tool included.                                     *)
AfterTool(tool) == CASE tool = "kernel"  -> StopAt("compose")
                     [] tool = "inspect" -> WorkAt("immediate")
                     [] tool = "answer"  -> StopAt("immediate")
                     [] OTHER            -> StopAt("authorize")

(* route_after_publication: what follows a published frontier whose source *)
(* authority still held.  left is the pending part count the frontier      *)
(* reported; resumed says that the pause just left was a stop.             *)
AfterPublish(left, late, outcome, resumed) ==
    IF late \/ left = 0 THEN WorkAt("finish")
    ELSE IF resumed /\ outcome # "failed" THEN StopAt("frontier")
    ELSE IF outcome \in {"paused", "failed"} THEN WaitAt("evidence")
    ELSE StopAt("frontier")

Outcomes == {"none", "complete", "paused", "failed"}
===============================================================================
