------------------------------ MODULE EventLog ------------------------------
(***************************************************************************)
(* The durable event log of one run, runtime/store.py, as its readers see  *)
(* it being written.                                                       *)
(*                                                                         *)
(* The writers are the coordinator, under its lock, and the worker thread, *)
(* whose nodes append progress without it; RunLifecycle has the whole of   *)
(* both.  Here they are what a reader can tell: the order in which the row *)
(* of the run and its events change, where a change is two transactions,   *)
(* and what a recovery adds.                                               *)
(***************************************************************************)
EXTENDS Naturals, Sequences, SequencesExt

CONSTANT MaxLog      \* bound: events of the run before the one that settles it

ASSUME LogAssumption == MaxLog \in Nat

Settling   == {"paused", "completed", "failed"}
Lifecycle  == Settling \cup {"queued", "started", "stop_requested", "resumed"}
Events     == Lifecycle \cup {"progress", "message"}
Statuses   == Settling \cup {"queued", "running", "stopping"}
Executions == {"none", "resuming", "running"}

VARIABLES
    log,      \* agent_events of the run; the sequence number is the position
    status,   \* its row
    owed,     \* the second transaction of a change under the lock, or "nothing"
    exec      \* the worker thread's execution of it

written == <<log, status, owed, exec>>

\* The sequence number of the newest event of some types, or 0.
Newest(types, l) == SelectLastInSeq(l, LAMBDA e : e \in types)

\* list_events after c: the number of the last event it returns, or c.
Reached(l, c) == IF Len(l) > c THEN Len(l) ELSE c

LogInit == /\ log = <<>> /\ exec = "none"
           /\ status \in {"queued", "running"}
           /\ owed = IF status = "queued" THEN "queued" ELSE "started"
-------------------------------------------------------------------------------
(* The writers. *)

Room == Len(log) < MaxLog

\* The second half of a change: the event after the row, or for a stop the row
\* after the event.
Complete ==
    /\ owed # "nothing" /\ owed' = "nothing"
    /\ \/ /\ owed \in {"queued", "started"} /\ Room
          /\ log' = Append(log, owed)
          /\ exec' = IF owed = "started" THEN "running" ELSE exec
          /\ UNCHANGED status
       \/ /\ owed = "stopping" /\ status' = "stopping"
          /\ UNCHANGED <<log, exec>>

StartNext ==
    /\ status = "queued" /\ owed = "nothing"
    /\ status' = "running" /\ owed' = "started"
    /\ UNCHANGED <<log, exec>>

Stop ==
    /\ status = "running" /\ owed = "nothing" /\ Room
    /\ log' = Append(log, "stop_requested")
    /\ owed' = "stopping"
    /\ UNCHANGED <<status, exec>>

Resume ==
    /\ status = "paused" /\ owed = "nothing" /\ Room
    /\ status' = "running" /\ exec' = "resuming"
    /\ UNCHANGED <<log, owed>>

\* The nodes of the graph: a resumed one says so before it goes on.
Emit ==
    /\ exec # "none" /\ Room
    /\ \/ exec = "resuming" /\ log' = Append(log, "resumed") /\ exec' = "running"
       \/ exec = "running" /\ UNCHANGED exec
          /\ \E e \in {"progress", "message"} : log' = Append(log, e)
    /\ UNCHANGED <<status, owed>>

\* The row and its event in one transaction.
Settle ==
    /\ exec # "none" /\ owed = "nothing"
    /\ \E s \in Settling : /\ s = "completed" => exec = "running"
                           /\ status' = s /\ log' = Append(log, s)
    /\ exec' = "none"
    /\ UNCHANGED owed

\* The Worker dies, and the next one recovers the run before anyone can read.
Recover ==
    /\ exec' = "none" /\ owed' = "nothing"
    /\ IF status \in {"running", "stopping"}
       THEN /\ status' = "paused"
            /\ log' = IF Newest({"paused"}, log) # 0 /\ Newest({"paused"}, log) = Newest(Lifecycle, log)
                      THEN log ELSE Append(log, "paused")
       ELSE UNCHANGED <<status, log>>

Writer == Complete \/ StartNext \/ Stop \/ Resume \/ Emit \/ Settle
-------------------------------------------------------------------------------
(* Types of the variables of the log. *)
LogTypeOK == /\ log \in Seq(Events) /\ status \in Statuses
             /\ owed \in {"nothing", "queued", "started", "stopping"}
             /\ exec \in Executions
===============================================================================
