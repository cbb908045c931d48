----------------------------- MODULE EventReaders -----------------------------
(***************************************************************************)
(* The two readers of a run's event log: the event stream, generate() in   *)
(* worker/api.py, and the polling view of the user interface,              *)
(* _render_run_activity in ui/agent_view.py.  Each of their reads is a     *)
(* transaction or a request of its own, and the run may be resumed,        *)
(* stopped, settled or recovered between any two.                          *)
(***************************************************************************)
EXTENDS EventLog

CONSTANT MaxOpens    \* bound: streams opened, one after the other

ASSUME OpensAssumption == MaxOpens \in Nat

VARIABLES
    stream,    \* the stream: its position and what it has read
    opens,     \* streams opened so far
    view       \* AgentViewState, and where the poll is

vars == <<written, stream, opens, view>>

Sequence == 0 .. MaxLog + 1

Closed  == [pc |-> "closed", cursor |-> 0, status |-> "queued", over |-> FALSE]
Streams == [pc : {"closed", "list", "status", "history", "last"}, cursor : Sequence,
            status : Statuses, over : BOOLEAN]

\* last: the last event folded; fetched: those of the first request; verdict: its
\* settled, paused and failed; answer, shown: the newest answer, and the newest that
\* is in the conversation; reset: the last event when the user selected Resume.
Unread == [pc |-> "idle", last |-> 0, fetched |-> 0, verdict |-> "none", answer |-> 0,
           shown |-> 0, reset |-> 0]
Views  == [pc : {"idle", "status", "left"}, last : Sequence, fetched : Sequence,
           verdict : Settling \cup {"none"}, answer : Sequence, shown : Sequence,
           reset : Sequence]

Init == LogInit /\ stream = Closed /\ opens = 0 /\ view = Unread

Write == Writer /\ UNCHANGED <<stream, opens, view>>

\* The stream of a Worker that died is closed; the view polls the next Worker.
Restart == Recover /\ stream' = [stream EXCEPT !.pc = "closed"] /\ UNCHANGED <<opens, view>>
-------------------------------------------------------------------------------
(* The stream. *)

\* A client opens it at the start or where its last one ended, and may leave.
Open ==
    /\ stream.pc = "closed" /\ opens < MaxOpens
    /\ opens' = opens + 1
    /\ \E after \in {0, stream.cursor} : stream' = [Closed EXCEPT !.pc = "list", !.cursor = after]
    /\ UNCHANGED <<written, view>>

Leave ==
    /\ stream.pc # "closed"
    /\ stream' = [stream EXCEPT !.pc = "closed"]
    /\ UNCHANGED <<written, opens, view>>

List ==
    /\ stream.pc = "list"
    /\ stream' = [stream EXCEPT !.pc = "status", !.cursor = Reached(log, @)]
    /\ UNCHANGED <<written, opens, view>>

ReadStatus ==
    /\ stream.pc = "status"
    /\ stream' = [stream EXCEPT !.pc = "history", !.status = status]
    /\ UNCHANGED <<written, opens, view>>

\* The event that a status waits for, in the epoch since the run last set off.
NoTypeForFailed(s) == s \in {"paused", "completed"}
HasType(s)         == s \in Settling

Epoch(l) == Newest({"started", "resumed"}, l)

ReadHistory ==
    /\ stream.pc = "history"
    /\ stream' = [stream EXCEPT !.pc = "last",
          !.over = /\ HasType(stream.status)
                   /\ \E i \in DOMAIN log : /\ log[i] = stream.status
                                            /\ Epoch(log) < i /\ i <= stream.cursor]
    /\ UNCHANGED <<written, opens, view>>

\* It ends when nothing has been written since.
Unchecked(l, c)  == TRUE
NothingNew(l, c) == Len(l) = c

End ==
    /\ stream.pc = "last"
    /\ stream' = [stream EXCEPT !.pc = IF stream.over /\ NothingNew(log, stream.cursor)
                                       THEN "closed" ELSE "list"]
    /\ UNCHANGED <<written, opens, view>>

Read == List \/ ReadStatus \/ ReadHistory \/ End
-------------------------------------------------------------------------------
(* The view: two requests a poll, and reduce_agent_events folds the events *)
(* of the first into what the user sees.                                   *)

Poll ==
    /\ view.pc = "idle"
    /\ view' = [view EXCEPT !.pc = "status", !.fetched = Len(log)]
    /\ UNCHANGED <<written, stream, opens>>

SetsOffOnce(e) == e = "started"
SetsOff(e)     == e \in {"started", "resumed"}

\* reduce_agent_events, for the event numbered i.
Reduced(v, i) ==
    [v EXCEPT !.last    = i,
              !.answer  = IF log[i] = "message" THEN i ELSE @,
              !.verdict = IF log[i] \in Settling THEN log[i]
                          ELSE IF SetsOff(log[i]) THEN "none" ELSE @]

New == [i \in 1 .. view.fetched - view.last |-> view.last + i]

\* The status is that of the second request, the events are those of the first.
Show ==
    /\ view.pc = "status"
    /\ LET v == FoldLeft(Reduced, view, New) IN
       view' = [v EXCEPT !.pc = IF status \in {"completed", "failed"} THEN "left" ELSE "idle",
                         !.shown = v.answer]
    /\ UNCHANGED <<written, stream, opens>>

\* The user selects Resume on what the last poll showed.
SelectResume ==
    /\ view.pc = "idle" /\ Resume
    /\ view' = [view EXCEPT !.verdict = "none", !.reset = view.last]
    /\ UNCHANGED <<stream, opens>>
-------------------------------------------------------------------------------
Next == Write \/ Restart \/ Open \/ Leave \/ Read \/ Poll \/ Show \/ SelectResume

Spec == Init /\ [][Next]_vars

\* The generator of an open stream is scheduled by the event loop; nothing else is
\* assumed, in particular not that a run goes on.
FairSpec == Spec /\ WF_vars(Read)
-------------------------------------------------------------------------------
(* Properties.                                                             *)

(* Types of every variable. *)
TypeOK == LogTypeOK /\ stream \in Streams /\ opens \in 0 .. MaxOpens /\ view \in Views

(* A stream ends by itself only when it has delivered the whole log and    *)
(* the log says that the run rests: a Resume, a Stop or the end of the run *)
(* between its reads keeps it open.                                        *)
EndsSettled == [][ stream.pc = "last" /\ stream'.pc = "closed" /\ End =>
    /\ stream.cursor = Len(log)
    /\ Newest(Lifecycle, log) = Newest(Settling, log) ]_vars

(* The stream of a run that rests for good ends, however it came to rest   *)
(* and whatever was delivered on earlier streams.                          *)
StreamEnds == <>[](status \in Settling) => []<>(stream.pc = "closed")

(* However the log was cut into polls, the view shows the newest answer of *)
(* what it has read, and the verdict of the epoch that it has read into.   *)
Folded ==
    LET read == SubSeq(log, 1, view.last)
        i    == Newest(Settling \cup {"started", "resumed"}, read) IN
    /\ TypeOK
    /\ view.shown = Newest({"message"}, read)
    /\ view.verdict = IF i > view.reset /\ log[i] \in Settling THEN log[i] ELSE "none"
===============================================================================
