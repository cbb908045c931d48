------------------------------- MODULE RunQueue -------------------------------
(***************************************************************************)
(* What the runtime coordinator promises of the runs it is given, with no  *)
(* word of threads, locks, commands, events or checkpoints: a serial queue.*)
(* A run waits, is active (executing, or paused and holding the queue), is *)
(* done for good, and may then be removed.                                 *)
(***************************************************************************)
EXTENDS Integers

CONSTANT MaxRuns

VARIABLE place

Runs  == 1 .. MaxRuns
In(p) == {r \in Runs : place[r] = p}
First(r, S) == r \in S /\ \A q \in S : r <= q

Init == place = [r \in Runs |-> "unborn"]

\* A run that finds the queue empty and nobody active is served at once.
Arrive == \E r \in Runs :
    /\ First(r, In("unborn"))
    /\ place' = [place EXCEPT ![r] = IF In("waiting") = {} /\ In("active") = {}
                                     THEN "active" ELSE "waiting"]

Serve == \E r \in Runs :
    /\ In("active") = {} /\ First(r, In("waiting"))
    /\ place' = [place EXCEPT ![r] = "active"]

Finish == \E r \in In("active") : place' = [place EXCEPT ![r] = "done"]

Remove == \E S \in SUBSET In("done") :
    place' = [r \in Runs |-> IF r \in S THEN "gone" ELSE place[r]]

Next == Arrive \/ Serve \/ Finish \/ Remove

Spec == Init /\ [][Next]_place

(* One run at a time. *)
Serial == \A q, r \in In("active") : q = r

(* Nobody overtakes: whoever came before a waiting run is not behind it,   *)
(* and whoever came after it has not been served.                          *)
InOrder == \A q, r \in Runs : q < r /\ place[q] = "waiting" => place[r] \in {"waiting", "unborn"}
===============================================================================
