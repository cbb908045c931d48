------------------------ MODULE EvidenceFrontierProofs ------------------------
(***************************************************************************)
(* Proofs about EvidenceFrontier: its inductive invariant IInv, and from   *)
(* it the soundness of claims, units and publications, for any Workers,    *)
(* entries, routes and bounds.                                             *)
(*                                                                         *)
(* A step is either a move of one pool thread, which changes that thread   *)
(* and its part, or leaves the threads as they are (or takes them away):   *)
(* the first half is about moves, the second about the other actions.      *)
(***************************************************************************)
EXTENDS EvidenceFrontier, TLAPS, FiniteSetTheorems

OneWorker == \A v, w \in Workers : v = w

\* A thread that works under the claim that is the latest of its part.
Current(w, p) == Live(w, p) /\ thr[w][p].token = part[p].gen

Trying  == {"try", "lock", "call", "record"}
Called  == {"call", "record"}
Asking  == Trying \cup {"count", "wait"}
Holding == Trying \cup {"start", "cache", "count"}

(***************************************************************************)
(* The parts of the inductive invariant.                                   *)
(***************************************************************************)

\* Attempts are numbered up to the count that the part keeps, and a part that
\* is gone keeps none.
PartsInv ==
    /\ \A p \in Parts : part[p].state = "absent" => part[p].tries = 0 /\ part[p].due
    /\ \A p \in Parts : IsFiniteSet(rows[p])
    /\ \A p \in Parts : \A x \in rows[p] : x.n \in 1 .. part[p].tries

\* Claims are numbered up to the generation of the part, and no two threads
\* have the same one.
ThreadsInv ==
    /\ \A w \in Workers, p \in Parts : agent[w].phase # "pool" => thr[w][p].pc = "none"
    /\ \A w \in Workers, p \in Parts : Live(w, p) => thr[w][p].token \in 1 .. part[p].gen
    /\ \A v, w \in Workers, p \in Parts : Current(v, p) /\ Current(w, p) => v = w
    /\ \A w \in Workers, p \in Parts : Live(w, p) /\ thr[w][p].pc # "start" => thr[w][p].route \in Routes
    /\ \A w \in Workers, p \in Parts : thr[w][p].pc \in Trying \cup {"wait"} => thr[w][p].attempt # 0

\* The number and the turn of a current thread are ahead of what is recorded.
TurnsInv ==
    \A w \in Workers, p \in Parts : Current(w, p) =>
      LET t == thr[w][p]
          used == Cardinality(Rows(p, t.route)) IN
      /\ t.pc \in Trying =>
           /\ \A x \in rows[p] : x.n < t.attempt
           /\ used < t.turn
      /\ t.pc = "wait" =>
           /\ \A x \in rows[p] : x.n <= t.attempt
           /\ used <= t.turn /\ t.turn < MaxAttempts
           /\ part[p].state # "running"

RunningHeld == CanFail \/ \A p \in Parts :
                   part[p].state = "running" => \E w \in Workers : Current(w, p)

\* The lock is held, and the approval therefore stands, through a provider call.
LockInv == \A w \in Workers, p \in Parts :
             thr[w][p].pc = "call" => holder = <<w, p>> /\ approved = Rev(p)

\* Whatever names a revision names one that was drafted, and a part is of an
\* included entry.
DraftInv ==
    /\ approved \in {0, drafted} /\ current <= drafted /\ ready <= drafted
    /\ \A w \in Workers : agent[w].rev <= drafted /\ (agent[w].phase # "rest" => agent[w].rev # 0)
    /\ \A p \in Parts : part[p].state # "absent" => Rev(p) <= drafted
    /\ \A p \in Parts : part[p].state # "absent" => content[Rev(p)][Entry(p)] # 0

\* What one Worker can rely on: nobody prepares another revision under it, and
\* what was not cached when a thread looked is not cached when it calls.
Alone(w) ==
    /\ agent[w].phase \in {"invalidate", "requeue", "drop", "upsert"} => ready = 0 /\ current <= agent[w].rev
    /\ agent[w].phase \in {"frontier", "pool"} => ready = agent[w].rev
    /\ ready # 0 => \A p \in Included(ready) : part[p].state # "absent"
    /\ \A p \in Parts : part[p].state = "invalidated" =>
          Rev(p) < drafted /\ (agent[w].phase # "rest" => Rev(p) < agent[w].rev)
    /\ \A p \in Parts : Live(w, p) => Rev(p) = agent[w].rev /\ part[p].state # "absent"
    /\ \A p \in Parts : thr[w][p].pc \in Asking => cache[Key(p, thr[w][p].route)] = NoPart
    /\ \A p \in Parts : part[p].state # "absent" => Rev(p) <= current

\* Without crashes and failures a thread keeps its claim until it ends, and
\* every call is recorded, answered or under way.
Undisturbed(w) ==
    /\ \A p \in Parts : thr[w][p].pc \in Holding => Holds(w, p)
    /\ \A p \in Parts, r \in Routes :
        calls[p][r] <= Cardinality(Rows(p, r)) +
             (IF \/ part[p].state \in {"processed", "invalidated"}
                 \/ thr[w][p].pc \in Called /\ thr[w][p].route = r THEN 1 ELSE 0)

AloneInv       == OneWorker => \A w \in Workers : Alone(w)
UndisturbedInv == OneWorker /\ ~CanCrash /\ ~CanFail => \A w \in Workers : Undisturbed(w)

USE DEF approval, plans, results, During, Trying, Called, Asking, Holding

ThreadsType == [Workers -> [Parts -> Threads]]
PartType == [state : States, gen : 0 .. MaxClaims, tries : Nat, due : BOOLEAN]

(***************************************************************************)
(* The moves of a pool thread: every step of it is one of these.           *)
(***************************************************************************)
Elsewhere(w, p) ==
    \A v \in Workers, q \in Parts : ~(v = w /\ q = p) => thr'[v][q] = thr[v][q]

Ends(w, p) == thr'[w][p].pc = "done"

Pausing(w, p) ==
    /\ Ends(w, p) /\ part' = Paused(w, p)
    /\ UNCHANGED <<rows, units, cache>>

Dropping(w, p) ==
    /\ thr[w][p].pc = "wait" \/ CanFail
    /\ Ends(w, p)
    /\ UNCHANGED <<part, rows, units, cache>>

Recorded(w, p, route, n, state) ==
    /\ Holds(w, p) /\ n \notin Numbers(p)
    /\ rows' = [rows EXCEPT ![p] = @ \cup {[n |-> n, route |-> route]}]
    /\ \E due \in BOOLEAN :
          part' = [part EXCEPT ![p] = [part[p] EXCEPT !.state = state, !.due = due,
                                                      !.tries = IF n > @ THEN n ELSE @]]
    /\ UNCHANGED <<units, cache>>

Recording(w, p) ==
    LET t == thr[w][p] IN
    \/ /\ t.pc = "start" /\ Ends(w, p)
       /\ Recorded(w, p, "unavailable", part[p].tries + 1, "retry_wait")
    \/ /\ t.pc = "record"
       /\ \E state \in {"retry_wait", "failed"} : Recorded(w, p, t.route, t.attempt, state)
       /\ Ends(w, p)
    \/ /\ t.pc = "record" /\ t.turn < MaxAttempts
       /\ Recorded(w, p, t.route, t.attempt, "retry_wait")
       /\ thr'[w][p] = [t EXCEPT !.pc = "wait"]

Publishing(w, p) ==
    LET k == Key(p, thr[w][p].route) IN
    /\ Holds(w, p) /\ Ends(w, p)
    /\ part' = [part EXCEPT ![p] = [@ EXCEPT !.state = "processed", !.due = TRUE]]
    /\ units' = units \cup {p}
    /\ \/ thr[w][p].pc = "cache" /\ approved = Rev(p) /\ cache' = cache
       \/ thr[w][p].pc = "call" /\ cache' = [cache EXCEPT ![k] = p]
    /\ UNCHANGED rows

Exhausting(w, p) ==
    /\ Holds(w, p) /\ Ends(w, p)
    /\ Rows(p, thr[w][p].route) # {}
    /\ part' = [part EXCEPT ![p] = [@ EXCEPT !.state = "failed", !.due = TRUE]]
    /\ UNCHANGED <<rows, units, cache>>

Advancing(w, p) ==
    LET t == thr[w][p]
        u == thr'[w][p] IN
    /\ u.token = t.token
    /\ \/ t.pc = "start" /\ u.pc = "cache" /\ u.route \in Routes
       \/ /\ t.pc = "cache" /\ u = [t EXCEPT !.pc = "count"]
          /\ Holds(w, p) /\ cache[Key(p, t.route)] = NoPart
       \/ /\ t.pc = "count" /\ u.pc = "try" /\ u.route = t.route
          /\ u.turn = Turn(p, t.route) /\ u.turn <= MaxAttempts
          /\ u.attempt = part[p].tries + 1
       \/ t.pc = "try" /\ u = [t EXCEPT !.pc = "lock"]
       \/ t.pc = "lock" /\ u = [t EXCEPT !.pc = "call"] /\ approved = Rev(p)
       \/ t.pc = "lock" /\ u = [t EXCEPT !.pc = "record", !.result = "failed"]
       \/ t.pc = "call" /\ u = [t EXCEPT !.pc = "record"]
    /\ UNCHANGED <<part, rows, units, cache>>

Retrying(w, p) ==
    LET t == thr[w][p]
        u == thr'[w][p] IN
    /\ t.pc = "wait" /\ part[p].state = "retry_wait" /\ part[p].gen = t.token /\ current = Rev(p)
    /\ part' = [part EXCEPT ![p] = [state |-> "running", gen |-> part[p].gen + 1, due |-> TRUE,
                   tries |-> IF t.attempt + 1 > part[p].tries THEN t.attempt + 1 ELSE part[p].tries]]
    /\ u.pc = "try" /\ u.token = t.token + 1 /\ u.route = t.route
    /\ u.attempt = t.attempt + 1 /\ u.turn = t.turn + 1
    /\ UNCHANGED <<rows, units, cache>>

Move(w, p) ==
    /\ Live(w, p) /\ Elsewhere(w, p)
    /\ UNCHANGED <<approval, plans, agent, stop, expired>>
    /\ \/ Pausing(w, p) \/ Dropping(w, p) \/ Recording(w, p) \/ Publishing(w, p)
       \/ Exhausting(w, p) \/ Advancing(w, p) \/ Retrying(w, p)

LEMMA AnswersEffect ==
    ASSUME TypeOK, NEW w \in Workers, NEW p \in Parts, Live(w, p),
           NEW x \in {"processed", "failed", "retry_wait", "raised"}, Answers(w, p, x)
    PROVE  /\ thr' \in ThreadsType /\ Elsewhere(w, p)
           /\ thr'[w][p].pc = "done" /\ thr'[w][p].result = x
<1> DEFINE t == [thr[w][p] EXCEPT !.pc = "done", !.result = x]
<1>1. thr \in ThreadsType /\ thr[w] \in [Parts -> Threads] /\ thr[w][p] \in Threads
  BY DEF TypeOK, ThreadsType
<1>2. t \in Threads /\ t.pc = "done" /\ t.result = x
  BY <1>1 DEF Threads
<1>3. thr' = [thr EXCEPT ![w] = [thr[w] EXCEPT ![p] = t]]
  BY <1>1 DEF Answers
<1>4. QED BY <1>1, <1>2, <1>3 DEF ThreadsType, Elsewhere

LEMMA ToEffect ==
    ASSUME TypeOK, NEW w \in Workers, NEW p \in Parts,
           NEW pc \in {"count", "try", "lock", "call", "record", "wait"}, To(w, p, pc)
    PROVE  /\ thr' \in ThreadsType /\ Elsewhere(w, p)
           /\ thr'[w][p] = [thr[w][p] EXCEPT !.pc = pc]
<1>1. thr \in ThreadsType /\ thr[w] \in [Parts -> Threads] /\ thr[w][p] \in Threads
  BY DEF TypeOK, ThreadsType
<1>2. [thr[w][p] EXCEPT !.pc = pc] \in Threads
  BY <1>1 DEF Threads
<1>3. thr' = [thr EXCEPT ![w] = [thr[w] EXCEPT ![p] = [thr[w][p] EXCEPT !.pc = pc]]]
  BY <1>1 DEF To
<1>4. QED BY <1>1, <1>2, <1>3 DEF ThreadsType, Elsewhere

LEMMA PauseEffect ==
    ASSUME TypeOK, NEW w \in Workers, NEW p \in Parts, Live(w, p), PauseClaim(w, p)
    PROVE  /\ thr' \in ThreadsType /\ Elsewhere(w, p) /\ thr'[w][p].pc = "done"
           /\ part' \in [Parts -> PartType]
           /\ part' = Paused(w, p)
<1>1. Answers(w, p, "retry_wait") /\ part' = Paused(w, p)
  BY DEF PauseClaim
<1>2. part' \in [Parts -> PartType]
  BY ZenonT(60), <1>1 DEF TypeOK, Paused, PartType, States
<1>3. QED BY <1>1, <1>2, AnswersEffect

LEMMA SmallFacts ==
    /\ NoPart \notin Parts
    /\ \A p \in Parts : Rev(p) \in Revisions /\ Entry(p) \in Entries /\ p = <<Rev(p), Entry(p)>>
    /\ NoThread \in Threads /\ AtRest \in Agents /\ Absent \in PartType
BY BoundsAssumption DEF NoPart, Parts, Revisions, Rev, Entry, NoThread, Threads, AllRoutes, AtRest,
   Agents, Outcomes, Absent, PartType, States

LEMMA ThreadSet ==
    ASSUME TypeOK, NEW w \in Workers, NEW p \in Parts, NEW t \in Threads,
           thr' = [thr EXCEPT ![w] = [thr[w] EXCEPT ![p] = t]]
    PROVE  thr' \in ThreadsType /\ Elsewhere(w, p) /\ thr'[w][p] = t
BY DEF TypeOK, ThreadsType, Elsewhere

LEMMA RecordSet ==
    ASSUME TypeOK, NEW p \in Parts, NEW n \in Nat,
           NEW state \in {"retry_wait", "failed"}, NEW due \in BOOLEAN,
           part' = [part EXCEPT ![p].state = state, ![p].due = due,
                                ![p].tries = IF n > @ THEN n ELSE @]
    PROVE  /\ part' \in [Parts -> PartType]
           /\ part' = [part EXCEPT ![p] = [part[p] EXCEPT !.state = state, !.due = due,
                                            !.tries = IF n > @ THEN n ELSE @]]
<1> DEFINE q == [part[p] EXCEPT !.state = state, !.due = due, !.tries = IF n > @ THEN n ELSE @]
<1>1. part \in [Parts -> PartType] /\ part[p] \in PartType
  BY DEF TypeOK, PartType
<1>2. q \in PartType
  BY <1>1 DEF PartType, States
<1>3. part' = [part EXCEPT ![p] = q]
  BY <1>1
<1> HIDE DEF q
<1>4. part' \in [Parts -> PartType]
  BY <1>1, <1>2, <1>3
<1> USE DEF q
<1>5. QED BY <1>3, <1>4

LEMMA RecordEffect ==
    ASSUME TypeOK, NEW w \in Workers, NEW p \in Parts, NEW route \in AllRoutes, NEW n \in Nat,
           NEW state \in {"retry_wait", "failed"}, NEW due \in BOOLEAN, NEW next, Live(w, p),
           Record(w, p, route, n, state, due, next), UNCHANGED <<units, cache>>
    PROVE  /\ part' \in [Parts -> PartType]
           /\ rows' \in [Parts -> SUBSET [n : Nat, route : AllRoutes]]
           /\ \/ next /\ Recorded(w, p, route, n, state)
              \/ thr' \in ThreadsType /\ Elsewhere(w, p) /\ Pausing(w, p)
<1>1. CASE Holds(w, p) /\ n \notin Numbers(p)
  <2>1. /\ next
        /\ rows' = [rows EXCEPT ![p] = @ \cup {[n |-> n, route |-> route]}]
        /\ part' = [part EXCEPT ![p].state = state, ![p].due = due,
                                ![p].tries = IF n > @ THEN n ELSE @]
    BY <1>1 DEF Record
  <2>2. /\ part' \in [Parts -> PartType]
        /\ part' = [part EXCEPT ![p] = [part[p] EXCEPT !.state = state, !.due = due,
                                         !.tries = IF n > @ THEN n ELSE @]]
    BY ZenonT(60), <2>1, RecordSet
  <2>3. rows' \in [Parts -> SUBSET [n : Nat, route : AllRoutes]]
    BY <2>1 DEF TypeOK
  <2>4. Recorded(w, p, route, n, state)
    BY <1>1, <2>1, <2>2 DEF Recorded
  <2>5. QED BY <2>1, <2>2, <2>3, <2>4
<1>2. CASE ~(Holds(w, p) /\ n \notin Numbers(p))
  <2>1. PauseClaim(w, p) /\ rows' = rows
    BY <1>2 DEF Record
  <2>2. QED BY <2>1, PauseEffect DEF Pausing, Ends, TypeOK
<1>3. QED BY <1>1, <1>2

TypeRest == units' \subseteq Parts /\ cache' \in [Keys -> Parts \cup {NoPart}]

LEMMA PausingMove ==
    ASSUME TypeOK, NEW w \in Workers, NEW p \in Parts, Live(w, p), PauseClaim(w, p),
           UNCHANGED <<rows, units, cache>>
    PROVE  /\ part' \in [Parts -> PartType] /\ thr' \in ThreadsType
           /\ Elsewhere(w, p) /\ Pausing(w, p)
BY PauseEffect DEF Pausing, Ends

Typed == /\ part' \in [Parts -> PartType] /\ thr' \in ThreadsType
         /\ rows' \in [Parts -> SUBSET [n : Nat, route : AllRoutes]]
         /\ units' \subseteq Parts /\ cache' \in [Keys -> Parts \cup {NoPart}]

LEMMA StartMove ==
    ASSUME TypeOK, NEW w \in Workers, NEW p \in Parts, Start(w, p)
    PROVE  Typed /\ Move(w, p)
<1>1. /\ Live(w, p) /\ thr[w][p].pc = "start"
      /\ UNCHANGED <<units, cache, approval, plans, agent, stop, expired>>
  BY DEF Start, Thread, Live
<1>2. CASE PauseClaim(w, p) /\ UNCHANGED rows
  BY <1>1, <1>2, PausingMove DEF Typed, Move, TypeOK
<1>3. CASE /\ \E r \in Routes : thr' = [thr EXCEPT ![w][p].pc = "cache", ![w][p].route = r]
           /\ UNCHANGED <<part, rows>>
  <2>1. PICK r \in Routes : thr' = [thr EXCEPT ![w][p].pc = "cache", ![w][p].route = r]
    BY <1>3
  <2>2. thr[w][p] \in Threads /\ thr[w] \in [Parts -> Threads] /\ thr[w][p].pc = "start"
    BY DEF TypeOK, Start, Thread
  <2> DEFINE u == [thr[w][p] EXCEPT !.pc = "cache", !.route = r]
  <2>3. /\ u \in Threads
        /\ u.pc = "cache" /\ u.route = r /\ u.token = thr[w][p].token
    BY <2>2 DEF Threads, AllRoutes
  <2>4. thr' = [thr EXCEPT ![w] = [thr[w] EXCEPT ![p] = u]]
    BY <2>1, <2>2 DEF TypeOK
  <2> HIDE DEF u
  <2>5. thr' \in ThreadsType /\ Elsewhere(w, p) /\ thr'[w][p] = u
    BY <2>3, <2>4, ThreadSet
  <2>6. Advancing(w, p)
    BY <1>1, <1>3, <2>2, <2>3, <2>5 DEF Advancing
  <2>7. QED BY <1>1, <1>3, <2>5, <2>6 DEF Typed, Move, TypeOK, PartType
<1>4. CASE Record(w, p, "unavailable", part[p].tries + 1, "retry_wait", TRUE,
                  Answers(w, p, "retry_wait"))
  <2>1. part[p].tries + 1 \in Nat /\ "unavailable" \in AllRoutes
    BY DEF TypeOK, AllRoutes
  <2>2. /\ part' \in [Parts -> PartType]
        /\ rows' \in [Parts -> SUBSET [n : Nat, route : AllRoutes]]
        /\ \/ /\ Answers(w, p, "retry_wait")
              /\ Recorded(w, p, "unavailable", part[p].tries + 1, "retry_wait")
           \/ thr' \in ThreadsType /\ Elsewhere(w, p) /\ Pausing(w, p)
    BY <1>1, <1>4, <2>1, RecordEffect
  <2>3. Answers(w, p, "retry_wait") => thr' \in ThreadsType /\ Elsewhere(w, p) /\ Ends(w, p)
    BY <1>1, AnswersEffect DEF Ends
  <2>4. QED BY <1>1, <2>2, <2>3 DEF Typed, Move, Recording, TypeOK
<1>5. QED BY <1>2, <1>3, <1>4 DEF Start

LEMMA LookUpMove ==
    ASSUME TypeOK, PartsInv, ThreadsInv, NEW w \in Workers, NEW p \in Parts, LookUp(w, p)
    PROVE  Typed /\ Move(w, p)
<1> DEFINE r == thr[w][p].route
<1>1. /\ Live(w, p) /\ UNCHANGED <<rows, cache, approval, plans, agent, stop, expired>>
      /\ thr[w][p] \in Threads /\ thr[w] \in [Parts -> Threads] /\ thr[w][p].pc = "cache"
      /\ part[p] \in PartType
  BY DEF LookUp, Thread, Live, TypeOK, PartType
<1>2. CASE PauseClaim(w, p) /\ UNCHANGED units
  BY <1>1, <1>2, PausingMove DEF Typed, Move, TypeOK
<1>3. CASE approved = Rev(p) /\ Holds(w, p) /\ Publish(p) /\ Answers(w, p, "processed")
  <2>1. thr' \in ThreadsType /\ Elsewhere(w, p) /\ Ends(w, p)
    BY <1>1, <1>3, AnswersEffect DEF Ends
  <2>2. /\ part' = [part EXCEPT ![p] = [@ EXCEPT !.state = "processed", !.due = TRUE]]
        /\ units' = units \cup {p}
    BY <1>1, <1>3 DEF Publish, TypeOK
  <2>3. part' \in [Parts -> PartType]
    BY <1>1, <2>2 DEF TypeOK, PartType, States
  <2>4. Publishing(w, p)
    BY <1>1, <1>3, <2>1, <2>2 DEF Publishing
  <2>5. QED BY <1>1, <2>1, <2>2, <2>3, <2>4 DEF Typed, Move, TypeOK
<1>4. CASE Holds(w, p) /\ ~Cached(p, r) /\ To(w, p, "count") /\ UNCHANGED <<part, units>>
  <2>1. /\ thr' \in ThreadsType /\ Elsewhere(w, p)
        /\ thr'[w][p] = [thr[w][p] EXCEPT !.pc = "count"]
    BY <1>4, ToEffect
  <2>2. Advancing(w, p)
    BY <1>1, <1>4, <2>1 DEF Advancing, Cached, Threads
  <2>3. QED BY <1>1, <1>4, <2>1, <2>2 DEF Typed, Move, TypeOK, PartType
<1>5. QED BY <1>2, <1>3, <1>4 DEF LookUp

LEMMA TurnMove ==
    ASSUME TypeOK, PartsInv, ThreadsInv, NEW w \in Workers, NEW p \in Parts, Count(w, p)
    PROVE  Typed /\ Move(w, p)
<1> DEFINE r == thr[w][p].route
<1>1. /\ Live(w, p) /\ UNCHANGED <<rows, units, cache, approval, plans, agent, stop, expired>>
      /\ thr[w][p] \in Threads /\ thr[w] \in [Parts -> Threads] /\ thr[w][p].pc = "count"
      /\ part[p] \in PartType
  BY DEF Count, Thread, Live, TypeOK, PartType
<1>2. CASE PauseClaim(w, p)
  BY <1>1, <1>2, PausingMove DEF Typed, Move, TypeOK
<1>3. CASE /\ Holds(w, p) /\ Turn(p, r) > MaxAttempts
           /\ part' = [part EXCEPT ![p].state = "failed", ![p].due = TRUE]
           /\ Answers(w, p, "failed")
  <2>1. thr' \in ThreadsType /\ Elsewhere(w, p) /\ Ends(w, p)
    BY <1>1, <1>3, AnswersEffect DEF Ends
  <2>2. Rows(p, r) # {}
    BY <1>3, FS_EmptySet, BoundsAssumption DEF Turn
  <2>3. part' \in [Parts -> PartType]
    BY <1>1, <1>3 DEF TypeOK, PartType, States
  <2>4. Exhausting(w, p)
    BY <1>1, <1>3, <2>1, <2>2 DEF Exhausting, TypeOK
  <2>5. QED BY <1>1, <1>3, <2>1, <2>3, <2>4 DEF Typed, Move, TypeOK
<1>4. CASE /\ Turn(p, r) <= MaxAttempts
           /\ thr' = [thr EXCEPT ![w][p].pc = "try", ![w][p].turn = Turn(p, r),
                                 ![w][p].attempt = part[p].tries + 1]
           /\ UNCHANGED part
  <2> DEFINE u == [thr[w][p] EXCEPT !.pc = "try", !.turn = Turn(p, r), !.attempt = part[p].tries + 1]
  <2>1. Turn(p, r) \in 0 .. MaxAttempts
    <3>1. IsFiniteSet(Rows(p, r))
      BY FS_Subset DEF PartsInv, Rows
    <3>2. QED BY <1>4, <3>1, FS_CardinalityType, BoundsAssumption DEF Turn
  <2>2. /\ u \in Threads /\ u.pc = "try" /\ u.turn = Turn(p, r)
        /\ u.attempt = part[p].tries + 1 /\ u.token = thr[w][p].token /\ u.route = r
    <3>1. part[p].tries + 1 \in Nat
      BY <1>1 DEF PartType
    <3> HIDE DEF r
    <3>2. QED BY <1>1, <2>1, <3>1 DEF Threads, r
  <2>3. thr' = [thr EXCEPT ![w] = [thr[w] EXCEPT ![p] = u]]
    BY <1>1, <1>4 DEF TypeOK
  <2> HIDE DEF u
  <2>4. thr' \in ThreadsType /\ Elsewhere(w, p) /\ thr'[w][p] = u
    BY <2>2, <2>3, ThreadSet
  <2>5. Advancing(w, p)
    BY <1>1, <1>4, <2>2, <2>4 DEF Advancing
  <2>6. QED BY <1>1, <1>4, <2>4, <2>5 DEF Typed, Move, TypeOK, PartType
<1>5. QED BY <1>2, <1>3, <1>4 DEF Count

LEMMA TryMove ==
    ASSUME TypeOK, NEW w \in Workers, NEW p \in Parts, Try(w, p)
    PROVE  Typed /\ Move(w, p)
<1>1. /\ Live(w, p) /\ UNCHANGED <<rows, units, cache, approval, plans, agent, stop, expired>>
      /\ thr[w][p] \in Threads /\ thr[w][p].pc = "try"
  BY DEF Try, Thread, Live, TypeOK
<1>2. CASE PauseClaim(w, p)
  BY <1>1, <1>2, PausingMove DEF Typed, Move, TypeOK
<1>3. CASE To(w, p, "lock") /\ UNCHANGED part
  <2>1. /\ thr' \in ThreadsType /\ Elsewhere(w, p)
        /\ thr'[w][p] = [thr[w][p] EXCEPT !.pc = "lock"]
    BY <1>3, ToEffect
  <2>2. Advancing(w, p)
    BY <1>1, <1>3, <2>1 DEF Advancing, Threads
  <2>3. QED BY <1>1, <1>3, <2>1, <2>2 DEF Typed, Move, TypeOK, PartType
<1>4. QED BY <1>2, <1>3 DEF Try

LEMMA CallMove ==
    ASSUME TypeOK, ThreadsInv, NEW w \in Workers, NEW p \in Parts, Call(w, p)
    PROVE  Typed /\ Move(w, p)
<1>1. /\ Live(w, p) /\ UNCHANGED <<rows, units, cache, approval, plans, agent, stop, expired>>
      /\ thr[w][p] \in Threads /\ thr[w] \in [Parts -> Threads] /\ thr[w][p].pc = "lock"
  BY DEF Call, Thread, Live, TypeOK
<1>2. CASE PauseClaim(w, p)
  BY <1>1, <1>2, PausingMove DEF Typed, Move, TypeOK
<1>3. CASE /\ thr' = [thr EXCEPT ![w][p].pc = "record", ![w][p].result = "failed"]
           /\ UNCHANGED part
  <2> DEFINE u == [thr[w][p] EXCEPT !.pc = "record", !.result = "failed"]
  <2>1. u \in Threads /\ u.token = thr[w][p].token
    BY <1>1 DEF Threads
  <2>2. thr' = [thr EXCEPT ![w] = [thr[w] EXCEPT ![p] = u]]
    BY <1>1, <1>3 DEF TypeOK
  <2>3. thr' \in ThreadsType /\ Elsewhere(w, p) /\ thr'[w][p] = u
    <3> HIDE DEF u
    <3>1. QED BY <2>1, <2>2, ThreadSet
  <2>4. Advancing(w, p)
    BY <1>1, <1>3, <2>1, <2>3 DEF Advancing
  <2>5. QED BY <1>1, <1>3, <2>3, <2>4 DEF Typed, Move, TypeOK, PartType
<1>4. CASE Authorized(p) /\ To(w, p, "call") /\ UNCHANGED part
  <2>1. /\ thr' \in ThreadsType /\ Elsewhere(w, p)
        /\ thr'[w][p] = [thr[w][p] EXCEPT !.pc = "call"]
    BY <1>4, ToEffect
  <2>2. Advancing(w, p)
    BY <1>1, <1>4, <2>1 DEF Advancing, Threads, Authorized
  <2>3. QED BY <1>1, <1>4, <2>1, <2>2 DEF Typed, Move, TypeOK, PartType
<1>5. QED BY <1>2, <1>3, <1>4 DEF Call

LEMMA AnsweredMove ==
    ASSUME TypeOK, NEW w \in Workers, NEW p \in Parts, Answered(w, p)
    PROVE  Typed /\ Move(w, p)
<1>1. /\ Live(w, p) /\ UNCHANGED <<rows, approval, plans, agent, stop, expired>>
      /\ thr[w][p].pc = "call" /\ part[p] \in PartType
  BY DEF Answered, Thread, Live, TypeOK, PartType
<1>2. CASE PauseClaim(w, p) /\ UNCHANGED <<units, cache>>
  BY <1>1, <1>2, PausingMove DEF Typed, Move, TypeOK
<1>3. CASE /\ Holds(w, p) /\ Publish(p) /\ Answers(w, p, "processed")
           /\ cache' = [cache EXCEPT ![Key(p, thr[w][p].route)] = p]
  <2>1. thr' \in ThreadsType /\ Elsewhere(w, p) /\ Ends(w, p)
    BY <1>1, <1>3, AnswersEffect DEF Ends
  <2>2. /\ part' = [part EXCEPT ![p] = [@ EXCEPT !.state = "processed", !.due = TRUE]]
        /\ units' = units \cup {p}
    BY <1>1, <1>3 DEF Publish, TypeOK
  <2>3. part' \in [Parts -> PartType] /\ cache' \in [Keys -> Parts \cup {NoPart}]
    BY <1>1, <1>3, <2>2 DEF TypeOK, PartType, States
  <2>4. Publishing(w, p)
    BY <1>1, <1>3, <2>1, <2>2 DEF Publishing
  <2>5. QED BY <1>1, <2>1, <2>2, <2>3, <2>4 DEF Typed, Move, TypeOK
<1>4. QED BY <1>2, <1>3 DEF Answered

LEMMA FailedMove ==
    ASSUME TypeOK, NEW w \in Workers, NEW p \in Parts, Failed(w, p)
    PROVE  Typed /\ Move(w, p)
<1>1. /\ Live(w, p) /\ UNCHANGED <<part, rows, units, cache, approval, plans, agent, stop, expired>>
      /\ thr[w][p] \in Threads /\ thr[w][p].pc = "call"
  BY DEF Failed, Thread, Live, TypeOK
<1>2. /\ thr' \in ThreadsType /\ Elsewhere(w, p)
      /\ thr'[w][p] = [thr[w][p] EXCEPT !.pc = "record"]
  BY ToEffect DEF Failed
<1>3. Advancing(w, p)
  BY <1>1, <1>2 DEF Advancing, Threads
<1>4. QED BY <1>1, <1>2, <1>3 DEF Typed, Move, TypeOK, PartType

LEMMA FailureMove ==
    ASSUME TypeOK, NEW w \in Workers, NEW p \in Parts, RecordFailure(w, p)
    PROVE  Typed /\ Move(w, p)
<1> DEFINE t == thr[w][p]
<1>1. /\ Live(w, p) /\ UNCHANGED <<units, cache, approval, plans, agent, stop, expired>>
      /\ t \in Threads /\ t.pc = "record"
  BY DEF RecordFailure, Thread, Live, TypeOK
<1>2. t.attempt \in Nat /\ t.route \in AllRoutes /\ t.turn \in Nat
  BY <1>1, BoundsAssumption DEF Threads
<1>3. ASSUME NEW state \in {"retry_wait", "failed"}, NEW due \in BOOLEAN,
             NEW x \in {"retry_wait", "failed"},
             Record(w, p, t.route, t.attempt, state, due, Answers(w, p, x))
      PROVE  Typed /\ Move(w, p)
  <2>1. /\ part' \in [Parts -> PartType]
        /\ rows' \in [Parts -> SUBSET [n : Nat, route : AllRoutes]]
        /\ \/ Answers(w, p, x) /\ Recorded(w, p, t.route, t.attempt, state)
           \/ thr' \in ThreadsType /\ Elsewhere(w, p) /\ Pausing(w, p)
    BY <1>1, <1>2, <1>3, RecordEffect
  <2>2. Answers(w, p, x) => thr' \in ThreadsType /\ Elsewhere(w, p) /\ Ends(w, p)
    BY <1>1, AnswersEffect DEF Ends
  <2>3. QED BY <1>1, <2>1, <2>2 DEF Typed, Move, Recording, TypeOK
<1>4. CASE /\ MoreTurns(t.turn)
           /\ Record(w, p, t.route, t.attempt, "retry_wait", FALSE, To(w, p, "wait"))
  <2>1. /\ part' \in [Parts -> PartType]
        /\ rows' \in [Parts -> SUBSET [n : Nat, route : AllRoutes]]
        /\ \/ To(w, p, "wait") /\ Recorded(w, p, t.route, t.attempt, "retry_wait")
           \/ thr' \in ThreadsType /\ Elsewhere(w, p) /\ Pausing(w, p)
    BY <1>1, <1>2, <1>4, RecordEffect
  <2>2. To(w, p, "wait") => /\ thr' \in ThreadsType /\ Elsewhere(w, p)
                            /\ thr'[w][p] = [t EXCEPT !.pc = "wait"]
    BY ToEffect
  <2>3. t.turn < MaxAttempts
    BY <1>4 DEF MoreTurns
  <2>4. QED BY <1>1, <2>1, <2>2, <2>3 DEF Typed, Move, Recording, TypeOK
<1>5. QED BY <1>3, <1>4 DEF RecordFailure

LEMMA RetryMove ==
    ASSUME TypeOK, TurnsInv, NEW w \in Workers, NEW p \in Parts, Retry(w, p)
    PROVE  Typed /\ Move(w, p)
<1> DEFINE t == thr[w][p]
<1>1. /\ Live(w, p) /\ UNCHANGED <<rows, units, cache, approval, plans, agent, stop, expired>>
      /\ t \in Threads /\ thr[w] \in [Parts -> Threads] /\ t.pc = "wait" /\ part[p] \in PartType
  BY DEF Retry, Thread, Live, TypeOK, PartType
<1>2. CASE PauseClaim(w, p)
  BY <1>1, <1>2, PausingMove DEF Typed, Move, TypeOK
<1>3. CASE /\ part[p].state = "retry_wait" /\ part[p].gen = t.token /\ part[p].gen < MaxClaims
           /\ current = Rev(p)
           /\ part' = [part EXCEPT ![p] = [state |-> "running", gen |-> part[p].gen + 1, due |-> TRUE,
                          tries |-> IF t.attempt + 1 > part[p].tries THEN t.attempt + 1
                                    ELSE part[p].tries]]
           /\ thr' = [thr EXCEPT ![w][p].pc = "try", ![w][p].token = part[p].gen + 1,
                                 ![w][p].attempt = t.attempt + 1, ![w][p].turn = @ + 1]
  <2> DEFINE u == [t EXCEPT !.pc = "try", !.token = part[p].gen + 1,
                            !.attempt = t.attempt + 1, !.turn = t.turn + 1]
  <2>1. t.turn + 1 \in 0 .. MaxAttempts
    BY <1>1, <1>3, BoundsAssumption DEF TurnsInv, Current, Threads
  <2>2. /\ u \in Threads /\ u.pc = "try" /\ u.token = t.token + 1 /\ u.route = t.route
        /\ u.attempt = t.attempt + 1 /\ u.turn = t.turn + 1
    <3>1. part[p].gen + 1 \in 0 .. MaxClaims /\ t.attempt + 1 \in Nat
      BY <1>1, <1>3, BoundsAssumption DEF Threads, PartType
    <3>2. QED BY <1>1, <1>3, <2>1, <3>1 DEF Threads
  <2>3. thr' = [thr EXCEPT ![w] = [thr[w] EXCEPT ![p] = u]]
    BY ZenonT(60), <1>1, <1>3 DEF TypeOK
  <2> HIDE DEF u
  <2>4. thr' \in ThreadsType /\ Elsewhere(w, p) /\ thr'[w][p] = u
    BY <2>2, <2>3, ThreadSet
  <2>5. part' \in [Parts -> PartType]
    BY <1>1, <1>3, BoundsAssumption DEF TypeOK, PartType, States, Threads
  <2>6. Retrying(w, p)
    BY <1>1, <1>3, <2>2, <2>4 DEF Retrying
  <2>7. QED BY <1>1, <2>4, <2>5, <2>6 DEF Typed, Move, TypeOK
<1>4. QED BY <1>2, <1>3 DEF Retry, NextNumber

LEMMA DropMove ==
    ASSUME TypeOK, NEW w \in Workers, NEW p \in Parts, GiveUp(w, p) \/ Raise(w, p)
    PROVE  Typed /\ Move(w, p)
<1>1. /\ Live(w, p) /\ UNCHANGED <<part, rows, units, cache, approval, plans, agent, stop, expired>>
      /\ thr[w][p].pc = "wait" \/ CanFail
  BY DEF GiveUp, Raise, Thread, Live
<1>2. thr' \in ThreadsType /\ Elsewhere(w, p) /\ Ends(w, p)
  BY <1>1, AnswersEffect DEF GiveUp, Raise, Ends
<1>3. QED BY <1>1, <1>2 DEF Typed, Move, Dropping, TypeOK, PartType

LEMMA ThreadMoves ==
    ASSUME TypeOK, PartsInv, ThreadsInv, TurnsInv, NEW w \in Workers, NEW p \in Parts,
           ThreadStep(w, p) \/ Raise(w, p)
    PROVE  Typed /\ Move(w, p)
BY StartMove, LookUpMove, TurnMove, TryMove, CallMove, AnsweredMove, FailedMove, FailureMove,
   RetryMove, DropMove
   DEF ThreadStep

(***************************************************************************)
(* What each kind of move makes of the part of its thread, field by field. *)
(***************************************************************************)
Retried(w, p) ==
    /\ Owns(w, p) /\ part'[p].state = "retry_wait"
    /\ part'[p].gen = part[p].gen /\ part'[p].tries = part[p].tries

LEMMA PausingPart ==
    ASSUME TypeOK, NEW w \in Workers, NEW p \in Parts, Pausing(w, p)
    PROVE  /\ rows' = rows
           /\ Retried(w, p) \/ (~Owns(w, p) /\ part' = part)
<1>1. part[p] \in PartType /\ part \in [Parts -> PartType]
  BY DEF TypeOK, PartType
<1>2. CASE Owns(w, p)
  <2>1. part' = [part EXCEPT ![p] = [part[p] EXCEPT !.state = "retry_wait", !.due = TRUE]]
    BY <1>1, <1>2 DEF Pausing, Paused
  <2>2. part'[p] = [part[p] EXCEPT !.state = "retry_wait", !.due = TRUE]
    BY <1>1, <2>1
  <2>3. part'[p].state = "retry_wait" /\ part'[p].gen = part[p].gen /\ part'[p].tries = part[p].tries
    BY <1>1, <2>2 DEF PartType
  <2>4. Retried(w, p)
    BY <1>2, <2>3 DEF Retried
  <2>5. rows' = rows
    BY DEF Pausing
  <2>6. QED BY <2>4, <2>5
<1>3. CASE ~Owns(w, p)
  BY <1>3 DEF Pausing, Paused
<1>4. QED BY <1>2, <1>3

LEMMA RecordedPart ==
    ASSUME TypeOK, NEW w \in Workers, NEW p \in Parts, NEW route, NEW n \in Nat, NEW state,
           Recorded(w, p, route, n, state)
    PROVE  /\ Holds(w, p) /\ n \notin Numbers(p)
           /\ part'[p].state = state /\ part'[p].gen = part[p].gen
           /\ part'[p].tries = IF n > part[p].tries THEN n ELSE part[p].tries
           /\ rows'[p] = rows[p] \cup {[n |-> n, route |-> route]}
<1>1. part[p] \in PartType /\ part \in [Parts -> PartType]
  BY DEF TypeOK, PartType
<1>2. PICK due \in BOOLEAN :
         part' = [part EXCEPT ![p] = [part[p] EXCEPT !.state = state, !.due = due,
                                                     !.tries = IF n > @ THEN n ELSE @]]
  BY DEF Recorded
<1>3. part'[p] = [part[p] EXCEPT !.state = state, !.due = due, !.tries = IF n > @ THEN n ELSE @]
  BY <1>1, <1>2
<1>4. /\ part'[p].state = state /\ part'[p].gen = part[p].gen
      /\ part'[p].tries = IF n > part[p].tries THEN n ELSE part[p].tries
  BY <1>1, <1>3 DEF PartType
<1>5. rows'[p] = rows[p] \cup {[n |-> n, route |-> route]}
  BY DEF Recorded, TypeOK
<1>6. QED BY <1>4, <1>5 DEF Recorded

LEMMA DonePart ==
    ASSUME TypeOK, NEW w \in Workers, NEW p \in Parts, Publishing(w, p) \/ Exhausting(w, p)
    PROVE  /\ Holds(w, p) /\ rows' = rows
           /\ part'[p].state = IF Publishing(w, p) THEN "processed" ELSE "failed"
           /\ part'[p].gen = part[p].gen /\ part'[p].tries = part[p].tries
<1>1. part[p] \in PartType /\ part \in [Parts -> PartType]
  BY DEF TypeOK, PartType
<1>2. CASE Publishing(w, p)
  <2>1. part'[p] = [part[p] EXCEPT !.state = "processed", !.due = TRUE]
    BY <1>1, <1>2 DEF Publishing
  <2>2. QED BY <1>1, <1>2, <2>1 DEF Publishing, PartType
<1>3. CASE ~Publishing(w, p)
  <2>1. part'[p] = [part[p] EXCEPT !.state = "failed", !.due = TRUE]
    BY <1>1, <1>3 DEF Exhausting
  <2>2. QED BY <1>1, <1>3, <2>1 DEF Exhausting, PartType
<1>4. QED BY <1>2, <1>3

LEMMA RetryingPart ==
    ASSUME TypeOK, NEW w \in Workers, NEW p \in Parts, Retrying(w, p)
    PROVE  /\ rows' = rows /\ part[p].state = "retry_wait" /\ thr[w][p].token = part[p].gen
           /\ part'[p].state = "running" /\ part'[p].gen = part[p].gen + 1
           /\ part'[p].tries >= part[p].tries /\ part'[p].tries >= thr[w][p].attempt + 1
<1>1. /\ part[p] \in PartType /\ part \in [Parts -> PartType] /\ thr[w][p] \in Threads
  BY DEF TypeOK, PartType
<1>2. part'[p] = [state |-> "running", gen |-> part[p].gen + 1, due |-> TRUE,
         tries |-> IF thr[w][p].attempt + 1 > part[p].tries THEN thr[w][p].attempt + 1
                   ELSE part[p].tries]
  BY <1>1 DEF Retrying
<1>3. part[p].tries \in Nat /\ thr[w][p].attempt + 1 \in Nat
  BY <1>1 DEF PartType, Threads
<1>4. QED BY <1>2, <1>3 DEF Retrying

\* What a step of a thread may make of its part.
LEMMA MovePart ==
    ASSUME TypeOK, ThreadsInv, NEW w \in Workers, NEW p \in Parts, Typed, Move(w, p)
    PROVE  /\ part'[p].gen \in Nat /\ part[p].gen \in Nat /\ part'[p].gen >= part[p].gen
           /\ part'[p].tries \in Nat /\ part[p].tries \in Nat /\ part'[p].tries >= part[p].tries
           /\ part'[p].gen = part[p].gen \/ Retrying(w, p)
           /\ \/ part'[p].state = part[p].state /\ part' = part /\ rows' = rows
              \/ Owns(w, p) /\ part'[p].state \in {"retry_wait", "processed", "failed"}
              \/ Retrying(w, p) /\ part'[p].state = "running"
<1>1. part[p] \in PartType /\ part'[p] \in PartType /\ thr[w][p] \in Threads
  BY DEF TypeOK, PartType, Typed
<1>2. /\ part[p].gen \in Nat /\ part[p].tries \in Nat /\ thr[w][p].attempt \in Nat
      /\ part'[p].gen \in Nat /\ part'[p].tries \in Nat
  BY <1>1, BoundsAssumption DEF PartType, Threads
<1>3. CASE Pausing(w, p)
  BY <1>2, <1>3, PausingPart DEF Retried
<1>4. CASE Recording(w, p)
  <2>1. ASSUME NEW route, NEW n \in Nat, NEW state \in {"retry_wait", "failed"},
               Recorded(w, p, route, n, state)
        PROVE  /\ part'[p].gen = part[p].gen /\ part'[p].tries >= part[p].tries
               /\ Owns(w, p) /\ part'[p].state \in {"retry_wait", "failed"}
    BY <1>2, <2>1, RecordedPart DEF Holds
  <2>2. QED BY <1>2, <1>4, <2>1 DEF Recording
<1>5. CASE Publishing(w, p) \/ Exhausting(w, p)
  BY <1>2, <1>5, DonePart DEF Holds
<1>6. CASE Retrying(w, p)
  BY <1>2, <1>6, RetryingPart
<1>7. CASE Dropping(w, p) \/ Advancing(w, p)
  BY <1>2, <1>7 DEF Dropping, Advancing
<1>8. QED BY <1>3, <1>4, <1>5, <1>6, <1>7 DEF Move

(***************************************************************************)
(* What a move leaves alone, and what it makes of its own part.            *)
(***************************************************************************)
LEMMA MoveLocal ==
    ASSUME TypeOK, NEW w \in Workers, NEW p \in Parts, Typed, Move(w, p)
    PROVE  /\ \A q \in Parts : q # p => part'[q] = part[q] /\ rows'[q] = rows[q]
           /\ \A v \in Workers, q \in Parts : ~(v = w /\ q = p) => thr'[v][q] = thr[v][q]
           /\ agent' = agent /\ content' = content /\ drafted' = drafted
           /\ approved' = approved /\ current' = current /\ ready' = ready
<1>1. \A q \in Parts : q # p => part'[q] = part[q] /\ rows'[q] = rows[q]
  BY DEF Move, Pausing, Paused, Dropping, Recording, Recorded, Publishing, Exhausting, Advancing,
         Retrying, TypeOK
<1>2. QED BY <1>1 DEF Move, Elsewhere, approval, plans

\* The thread ends or goes on under its claim, unless it turns the claim over.
Onward(w, p) ==
    LET t == thr[w][p]
        u == thr'[w][p] IN
    \/ u.pc = "done"
    \/ /\ u.token = t.token
       /\ u.pc # "start" /\ u.pc # "none" /\ u.route \in Routes
       /\ u.pc \in Trying \cup {"wait"} => u.attempt # 0

LEMMA MoveThread ==
    ASSUME TypeOK, ThreadsInv, NEW w \in Workers, NEW p \in Parts, Typed, Move(w, p)
    PROVE  \/ Onward(w, p) /\ part'[p].gen = part[p].gen
           \/ Retrying(w, p)
<1>1. thr[w][p] \in Threads /\ thr'[w][p] \in Threads /\ part[p] \in PartType /\ part'[p] \in PartType
  BY DEF TypeOK, Typed, ThreadsType, PartType
<1>2. Live(w, p)
  BY DEF Move
<1>3. CASE Pausing(w, p) \/ Dropping(w, p) \/ Publishing(w, p) \/ Exhausting(w, p)
  <2>1. Onward(w, p)
    BY <1>3 DEF Pausing, Dropping, Publishing, Exhausting, Ends, Onward
  <2>2. part'[p].gen = part[p].gen
    BY <1>3, PausingPart, DonePart DEF Dropping, Retried
  <2>3. QED BY <2>1, <2>2
<1>4. CASE Recording(w, p)
  <2>1. part[p].tries + 1 \in Nat /\ thr[w][p].attempt \in Nat
    BY <1>1 DEF PartType, Threads
  <2>2. part'[p].gen = part[p].gen
    BY <1>4, <2>1, RecordedPart DEF Recording
  <2>3. CASE Ends(w, p)
    BY <2>2, <2>3 DEF Onward, Ends
  <2>4. CASE thr[w][p].pc = "record" /\ thr'[w][p] = [thr[w][p] EXCEPT !.pc = "wait"]
    <3>1. /\ thr'[w][p].pc = "wait" /\ thr'[w][p].token = thr[w][p].token
          /\ thr'[w][p].route = thr[w][p].route /\ thr'[w][p].attempt = thr[w][p].attempt
      BY <1>1, <2>4 DEF Threads
    <3>2. thr[w][p].route \in Routes /\ thr[w][p].attempt # 0
      BY <1>2, <2>4 DEF ThreadsInv
    <3>3. QED BY <2>2, <3>1, <3>2 DEF Onward
  <2>5. QED BY <1>4, <2>3, <2>4 DEF Recording
<1>5. CASE Advancing(w, p)
  <2>1. part'[p].gen = part[p].gen
    BY <1>5 DEF Advancing
  <2>2. CASE thr[w][p].pc = "start"
    BY <1>1, <1>5, <2>1, <2>2 DEF Advancing, Onward
  <2>3. CASE thr[w][p].pc \in {"cache", "count"}
    <3>1. thr[w][p].route \in Routes
      BY <1>2, <2>3 DEF ThreadsInv
    <3>2. QED BY <1>1, <1>5, <2>1, <2>3, <3>1 DEF Advancing, Onward, PartType, Threads
  <2>4. CASE thr[w][p].pc \in {"try", "lock", "call"}
    <3>1. thr[w][p].route \in Routes /\ thr[w][p].attempt # 0
      BY <1>2, <2>4 DEF ThreadsInv
    <3>2. QED BY <1>1, <1>5, <2>1, <2>4, <3>1 DEF Advancing, Onward, Threads
  <2>5. QED BY <1>5, <2>2, <2>3, <2>4 DEF Advancing
<1>6. QED BY <1>3, <1>4, <1>5 DEF Move

LEMMA ThreadsMove ==
    ASSUME TypeOK, ThreadsInv, NEW w \in Workers, NEW p \in Parts, Typed, Move(w, p)
    PROVE  ThreadsInv'
<1>1. thr[w][p] \in Threads /\ thr'[w][p] \in Threads /\ part[p] \in PartType /\ part'[p] \in PartType
  BY DEF TypeOK, Typed, ThreadsType, PartType
<1>2. /\ \A q \in Parts : q # p => part'[q] = part[q]
      /\ \A v \in Workers, q \in Parts : ~(v = w /\ q = p) => thr'[v][q] = thr[v][q]
      /\ agent' = agent
  BY MoveLocal
<1>3. Live(w, p) /\ agent[w].phase = "pool" /\ thr[w][p].token \in 1 .. part[p].gen
  BY DEF Move, ThreadsInv, Live
<1>4. (Onward(w, p) /\ part'[p].gen = part[p].gen) \/ Retrying(w, p)
  BY MoveThread
<1>5. /\ part'[p].gen \in part[p].gen .. part[p].gen + 1
      /\ Retrying(w, p) => /\ part'[p].gen = part[p].gen + 1 /\ thr[w][p].token = part[p].gen
                           /\ thr'[w][p].token = thr[w][p].token + 1
                           /\ thr'[w][p].pc = "try" /\ thr'[w][p].attempt # 0
                           /\ thr'[w][p].route = thr[w][p].route
  BY <1>1, <1>4 DEF Retrying, PartType, Threads, TypeOK
<1>6. \A v \in Workers, q \in Parts : agent'[v].phase # "pool" => thr'[v][q].pc = "none"
  BY <1>2, <1>3 DEF ThreadsInv
<1>7. \A v \in Workers, q \in Parts : Live(v, q)' => thr'[v][q].token \in 1 .. part'[q].gen
  <2>1. ASSUME NEW v \in Workers, NEW q \in Parts, Live(v, q)'
        PROVE  thr'[v][q].token \in 1 .. part'[q].gen
    <3>1. CASE v = w /\ q = p
      BY <1>1, <1>3, <1>4, <1>5, <2>1, <3>1 DEF Onward, Live, PartType
    <3>2. CASE ~(v = w /\ q = p)
      <4>1. thr[v][q].token \in 1 .. part[q].gen /\ part[q] \in PartType
        BY <1>2, <2>1, <3>2 DEF ThreadsInv, Live, TypeOK, PartType
      <4>2. QED BY <1>1, <1>2, <1>5, <3>2, <4>1 DEF PartType
    <3>3. QED BY <3>1, <3>2
  <2>2. QED BY <2>1
<1>8. \A u, v \in Workers, q \in Parts : Current(u, q)' /\ Current(v, q)' => u = v
  <2>1. ASSUME NEW u \in Workers, NEW v \in Workers, NEW q \in Parts, Current(u, q)', Current(v, q)'
        PROVE  u = v
    <3>1. CASE q # p \/ (Onward(w, p) /\ part'[p].gen = part[p].gen)
      <4>1. ASSUME NEW x \in Workers, Current(x, q)' PROVE Current(x, q)
        BY <1>2, <1>3, <3>1, <4>1 DEF Current, Live, Onward
      <4>2. QED BY <2>1, <4>1 DEF ThreadsInv
    <3>2. CASE q = p /\ Retrying(w, p)
      <4>1. ASSUME NEW x \in Workers, x # w PROVE ~Current(x, p)'
        <5>1. Live(x, p) => thr[x][p].token \in 1 .. part[p].gen
          BY DEF ThreadsInv
        <5>2. QED BY <1>1, <1>2, <1>5, <3>2, <4>1, <5>1 DEF Current, Live, PartType
      <4>2. QED BY <2>1, <3>2, <4>1
    <3>3. QED BY <1>4, <3>1, <3>2
  <2>2. QED BY <2>1
<1>9. \A v \in Workers, q \in Parts :
        /\ Live(v, q)' /\ thr'[v][q].pc # "start" => thr'[v][q].route \in Routes
        /\ thr'[v][q].pc \in Trying \cup {"wait"} => thr'[v][q].attempt # 0
  <2>1. ASSUME NEW v \in Workers, NEW q \in Parts
        PROVE  /\ Live(v, q)' /\ thr'[v][q].pc # "start" => thr'[v][q].route \in Routes
               /\ thr'[v][q].pc \in Trying \cup {"wait"} => thr'[v][q].attempt # 0
    <3>1. CASE v = w /\ q = p
      <4>1. Retrying(w, p) => thr[w][p].route \in Routes
        BY <1>3 DEF Retrying, ThreadsInv
      <4>2. QED BY <1>4, <1>5, <3>1, <4>1 DEF Onward, Live
    <3>2. CASE ~(v = w /\ q = p)
      BY <1>2, <3>2 DEF ThreadsInv, Live
    <3>3. QED BY <3>1, <3>2
  <2>2. QED BY <2>1
<1>10. QED BY <1>6, <1>7, <1>8, <1>9 DEF ThreadsInv

LEMMA PartsMove ==
    ASSUME TypeOK, PartsInv, ThreadsInv, NEW w \in Workers, NEW p \in Parts, Typed, Move(w, p)
    PROVE  PartsInv'
<1>1. /\ part[p] \in PartType /\ part'[p] \in PartType /\ thr[w][p] \in Threads
      /\ thr[w][p].attempt \in Nat /\ part[p].tries + 1 \in Nat
  BY DEF TypeOK, PartType, Typed, Threads
<1>2. /\ \A q \in Parts : q # p => part'[q] = part[q] /\ rows'[q] = rows[q]
      /\ thr[w][p].token \in 1 .. part[p].gen
  BY MoveLocal DEF Move, ThreadsInv
<1>3. /\ part'[p].gen \in Nat /\ part[p].gen \in Nat /\ part'[p].gen >= part[p].gen
      /\ part'[p].tries \in Nat /\ part[p].tries \in Nat /\ part'[p].tries >= part[p].tries
  BY MovePart
<1>4. part'[p].state # "absent" \/ part' = part
  <2>1. part[p].state = "running" \/ part[p].state = "retry_wait" \/ part' = part
    BY MovePart, RetryingPart DEF Owns
  <2>2. QED BY MovePart, <2>1
<1>5. IsFiniteSet(rows'[p]) /\ \A x \in rows'[p] : x.n \in 1 .. part'[p].tries
  <2>1. CASE rows'[p] = rows[p]
    <3>1. \A x \in rows[p] : x.n \in 1 .. part[p].tries
      BY DEF PartsInv
    <3>2. QED BY <1>3, <2>1, <3>1 DEF PartsInv
  <2>2. ASSUME NEW route, NEW n \in Nat, NEW state, n # 0, Recorded(w, p, route, n, state)
        PROVE  IsFiniteSet(rows'[p]) /\ \A x \in rows'[p] : x.n \in 1 .. part'[p].tries
    <3>1. /\ rows'[p] = rows[p] \cup {[n |-> n, route |-> route]}
          /\ part'[p].tries = IF n > part[p].tries THEN n ELSE part[p].tries
      BY <2>2, RecordedPart
    <3>2. IsFiniteSet(rows[p]) /\ \A x \in rows[p] : x.n \in 1 .. part[p].tries
      BY DEF PartsInv
    <3>3. IsFiniteSet(rows'[p])
      BY <3>1, <3>2, FS_AddElement
    <3>4. \A x \in rows'[p] : x.n \in 1 .. part'[p].tries
      BY <1>3, <2>2, <3>1, <3>2
    <3>5. QED BY <3>3, <3>4
  <2>3. rows' # rows => Recording(w, p)
    BY DEF Move, Pausing, Dropping, Publishing, Exhausting, Advancing, Retrying
  <2>4. thr[w][p].pc = "record" => thr[w][p].attempt # 0
    BY DEF ThreadsInv
  <2>5. part[p].tries + 1 # 0
    BY <1>3
  <2>6. QED BY <1>1, <2>1, <2>2, <2>3, <2>4, <2>5 DEF Recording
<1>6. \A q \in Parts : part'[q].state = "absent" => part'[q].tries = 0 /\ part'[q].due
  BY <1>2, <1>4 DEF PartsInv
<1>7. \A q \in Parts : IsFiniteSet(rows'[q]) /\ \A x \in rows'[q] : x.n \in 1 .. part'[q].tries
  BY <1>2, <1>5 DEF PartsInv
<1>8. QED BY <1>6, <1>7 DEF PartsInv

\* The rows of the thread that holds the claim, after one more of them.
LEMMA OneMoreRow ==
    ASSUME TypeOK, PartsInv, NEW p \in Parts, NEW route, NEW n,
           rows'[p] = rows[p] \cup {[n |-> n, route |-> route]}
    PROVE  /\ \A r \in AllRoutes : /\ Cardinality(Rows(p, r)) \in Nat
                                   /\ Cardinality(Rows(p, r)') \in Nat
                                   /\ Cardinality(Rows(p, r)') <= Cardinality(Rows(p, r)) + 1
                                   /\ Cardinality(Rows(p, r)') >= Cardinality(Rows(p, r))
           /\ \A r \in AllRoutes : r = route /\ n \notin Numbers(p) =>
                 Cardinality(Rows(p, r)') = Cardinality(Rows(p, r)) + 1
           /\ \A r \in AllRoutes : r # route => Rows(p, r)' = Rows(p, r)
<1>1. \A r \in AllRoutes : r # route => Rows(p, r)' = Rows(p, r)
  BY DEF Rows
<1>2. ASSUME NEW r \in AllRoutes
      PROVE  /\ Cardinality(Rows(p, r)) \in Nat /\ Cardinality(Rows(p, r)') \in Nat
             /\ Cardinality(Rows(p, r)') <= Cardinality(Rows(p, r)) + 1
             /\ Cardinality(Rows(p, r)') >= Cardinality(Rows(p, r))
             /\ r = route /\ n \notin Numbers(p) =>
                   Cardinality(Rows(p, r)') = Cardinality(Rows(p, r)) + 1
  <2>1. IsFiniteSet(Rows(p, r))
    BY FS_Subset DEF PartsInv, Rows
  <2>2. Cardinality(Rows(p, r)) \in Nat
    BY <2>1, FS_CardinalityType
  <2>3. CASE r = route
    <3> DEFINE x == [n |-> n, route |-> route]
    <3>1. Rows(p, r)' = Rows(p, r) \cup {x} /\ x.n = n
      BY <2>3 DEF Rows
    <3>2. Cardinality(Rows(p, r)') = IF x \in Rows(p, r) THEN Cardinality(Rows(p, r))
                                     ELSE Cardinality(Rows(p, r)) + 1
      BY <2>1, <3>1, FS_AddElement
    <3>3. n \notin Numbers(p) => x \notin Rows(p, r)
      BY <3>1 DEF Numbers, Rows
    <3> HIDE DEF x
    <3>4. QED BY <2>2, <3>2, <3>3
  <2>4. CASE r # route
    BY <1>1, <2>2, <2>4
  <2>5. QED BY <2>3, <2>4
<1>3. QED BY <1>1, <1>2

LEMMA RowsSame ==
    ASSUME TypeOK, PartsInv, NEW p \in Parts
    PROVE  /\ \A r \in AllRoutes : Cardinality(Rows(p, r)) \in Nat
           /\ rows'[p] = rows[p] => \A r \in AllRoutes : Rows(p, r)' = Rows(p, r)
<1>1. ASSUME NEW r \in AllRoutes PROVE Cardinality(Rows(p, r)) \in Nat
  BY FS_Subset, FS_CardinalityType DEF PartsInv, Rows
<1>2. QED BY <1>1 DEF Rows

\* A thread that is not the one that moves, or has no claim, sees nothing move.
LEMMA OthersMove ==
    ASSUME TypeOK, PartsInv, ThreadsInv, NEW w \in Workers, NEW p \in Parts, Typed, Move(w, p),
           NEW v \in Workers, NEW q \in Parts, ~(v = w /\ q = p), Current(v, q)'
    PROVE  /\ Current(v, q) /\ thr'[v][q] = thr[v][q]
           /\ part'[q] = part[q] /\ rows'[q] = rows[q]
<1>1. /\ \A x \in Parts : x # p => part'[x] = part[x] /\ rows'[x] = rows[x]
      /\ thr'[v][q] = thr[v][q]
  BY MoveLocal
<1>2. CASE q # p
  BY <1>1, <1>2 DEF Current, Live
<1>3. CASE q = p
  <2>1. v # w
    BY <1>3
  <2>2. thr[w][p].token \in 1 .. part[p].gen /\ (Live(v, p) => thr[v][p].token \in 1 .. part[p].gen)
    BY DEF Move, ThreadsInv
  <2>3. ~Retrying(w, p)
    <3>1. ASSUME Retrying(w, p) PROVE FALSE
      <4>1. part'[p].gen = part[p].gen + 1 /\ part[p].gen \in Nat
        BY <3>1, RetryingPart, MovePart
      <4>2. QED BY <1>1, <1>3, <2>2, <4>1 DEF Current, Live
    <3>2. QED BY <3>1
  <2>4. Current(v, p)
    BY <1>1, <1>3, <2>3, MovePart DEF Current, Live
  <2>5. ~Owns(w, p)
    BY <2>1, <2>4 DEF ThreadsInv, Owns, Current, Live, Move
  <2>6. part' = part /\ rows' = rows
    BY <2>3, <2>5, MovePart
  <2>7. QED BY <1>1, <1>3, <2>4, <2>6
<1>4. QED BY <1>2, <1>3

\* What TurnsInv says of one current thread.
TurnOK(w, p) ==
    LET t == thr[w][p]
        used == Cardinality(Rows(p, t.route)) IN
    /\ t.pc \in Trying =>
         /\ \A x \in rows[p] : x.n < t.attempt
         /\ used < t.turn
    /\ t.pc = "wait" =>
         /\ \A x \in rows[p] : x.n <= t.attempt
         /\ used <= t.turn /\ t.turn < MaxAttempts
         /\ part[p].state # "running"

LEMMA OwnTurn ==
    ASSUME TypeOK, PartsInv, ThreadsInv, TurnsInv, NEW w \in Workers, NEW p \in Parts,
           Typed, Move(w, p), Current(w, p)'
    PROVE  TurnOK(w, p)'
<1>1. /\ part[p] \in PartType /\ part'[p] \in PartType
      /\ thr[w][p] \in Threads /\ thr'[w][p] \in Threads
  BY DEF TypeOK, PartType, Typed, ThreadsType
<1>2. /\ thr[w][p].attempt \in Nat /\ thr[w][p].turn \in Nat /\ MaxAttempts \in Nat
      /\ thr[w][p].route \in AllRoutes /\ thr[w][p].token \in Nat /\ part[p].gen \in Nat
  BY <1>1, BoundsAssumption DEF Threads, PartType
<1>3. Live(w, p) /\ thr'[w][p].pc # "done"
  BY DEF Move, Current, Live
<1>4. \A x \in rows[p] : x.n \in 1 .. part[p].tries
  BY DEF PartsInv
<1>5. CASE Recording(w, p)
  <2>1. /\ thr[w][p].pc = "record" /\ thr[w][p].turn < MaxAttempts
        /\ Recorded(w, p, thr[w][p].route, thr[w][p].attempt, "retry_wait")
        /\ thr'[w][p] = [thr[w][p] EXCEPT !.pc = "wait"]
    BY <1>3, <1>5 DEF Recording, Ends
  <2>2. /\ thr'[w][p].pc = "wait" /\ thr'[w][p].attempt = thr[w][p].attempt
        /\ thr'[w][p].turn = thr[w][p].turn /\ thr'[w][p].route = thr[w][p].route
    BY <1>1, <2>1 DEF Threads
  <2>3. /\ Owns(w, p) /\ part'[p].state = "retry_wait"
        /\ rows'[p] = rows[p] \cup {[n |-> thr[w][p].attempt, route |-> thr[w][p].route]}
    BY <1>2, <2>1, RecordedPart DEF Holds
  <2>4. Current(w, p)
    BY <1>3, <2>3 DEF Current, Owns
  <2>5. /\ \A x \in rows[p] : x.n < thr[w][p].attempt
        /\ Cardinality(Rows(p, thr[w][p].route)) < thr[w][p].turn
    BY <2>1, <2>4 DEF TurnsInv
  <2>6. \A x \in rows'[p] : x.n <= thr[w][p].attempt
    BY <1>2, <1>4, <2>3, <2>5
  <2>7. PICK r \in AllRoutes : r = thr[w][p].route
    BY <1>2
  <2>8. Cardinality(Rows(p, r)') <= thr[w][p].turn
    <3>1. /\ Cardinality(Rows(p, r)) \in Nat /\ Cardinality(Rows(p, r)') \in Nat
          /\ Cardinality(Rows(p, r)') <= Cardinality(Rows(p, r)) + 1
      BY <2>3, OneMoreRow
    <3>2. QED BY <1>2, <2>5, <2>7, <3>1
  <2>9. {x \in rows'[p] : x.route = thr'[w][p].route} = Rows(p, r)'
    BY <2>2, <2>7 DEF Rows
  <2>10. Cardinality({x \in rows'[p] : x.route = thr'[w][p].route}) <= thr[w][p].turn
    BY <2>8, <2>9
  <2>11. QED BY <2>1, <2>2, <2>3, <2>6, <2>10 DEF TurnOK, Rows
<1>6. CASE Advancing(w, p)
  <2>1. part' = part /\ rows' = rows /\ thr'[w][p].token = thr[w][p].token
    BY <1>6 DEF Advancing
  <2>2. Current(w, p)
    BY <1>3, <2>1 DEF Current
  <2>3. CASE thr'[w][p].pc \in {"cache", "count"}
    BY <2>3 DEF TurnOK
  <2>4. CASE thr[w][p].pc = "count" /\ thr'[w][p].pc = "try"
    <3>1. /\ thr'[w][p].route = thr[w][p].route /\ thr'[w][p].attempt = part[p].tries + 1
          /\ thr'[w][p].turn = Turn(p, thr[w][p].route)
      BY <1>6, <2>4 DEF Advancing
    <3>2. Cardinality(Rows(p, thr[w][p].route)) \in Nat
      BY <1>2, RowsSame
    <3>3. part[p].tries \in Nat
      BY <1>1 DEF PartType
    <3>4. {x \in rows'[p] : x.route = thr'[w][p].route} = Rows(p, thr[w][p].route)
      BY <2>1, <3>1 DEF Rows
    <3>5. QED BY <1>4, <2>1, <2>4, <3>1, <3>2, <3>3, <3>4 DEF TurnOK, Turn, Rows
  <2>5. CASE \/ thr[w][p].pc = "try" /\ thr'[w][p] = [thr[w][p] EXCEPT !.pc = "lock"]
             \/ thr[w][p].pc = "lock" /\ thr'[w][p] = [thr[w][p] EXCEPT !.pc = "call"]
             \/ thr[w][p].pc = "lock" /\ thr'[w][p] = [thr[w][p] EXCEPT !.pc = "record", !.result = "failed"]
             \/ thr[w][p].pc = "call" /\ thr'[w][p] = [thr[w][p] EXCEPT !.pc = "record"]
    <3>1. /\ thr'[w][p].pc \in Trying /\ thr[w][p].pc \in Trying
          /\ thr'[w][p].attempt = thr[w][p].attempt
          /\ thr'[w][p].turn = thr[w][p].turn /\ thr'[w][p].route = thr[w][p].route
      BY <1>1, <2>5 DEF Threads
    <3>2. /\ \A x \in rows[p] : x.n < thr[w][p].attempt
          /\ Cardinality(Rows(p, thr[w][p].route)) < thr[w][p].turn
      BY <2>2, <3>1 DEF TurnsInv
    <3>3. {x \in rows'[p] : x.route = thr'[w][p].route} = Rows(p, thr[w][p].route)
      BY <2>1, <3>1 DEF Rows
    <3>4. QED BY <2>1, <3>1, <3>2, <3>3 DEF TurnOK, Rows
  <2>6. CASE thr[w][p].pc = "cache" /\ thr'[w][p] = [thr[w][p] EXCEPT !.pc = "count"]
    BY <1>1, <2>3, <2>6 DEF Threads
  <2>7. QED BY <1>6, <2>3, <2>4, <2>5, <2>6 DEF Advancing
<1>7. CASE Retrying(w, p)
  <2>1. /\ rows' = rows /\ thr[w][p].pc = "wait" /\ thr[w][p].token = part[p].gen
        /\ thr'[w][p].pc = "try" /\ thr'[w][p].route = thr[w][p].route
        /\ thr'[w][p].attempt = thr[w][p].attempt + 1 /\ thr'[w][p].turn = thr[w][p].turn + 1
    BY <1>7 DEF Retrying
  <2>2. Current(w, p)
    BY <1>3, <2>1 DEF Current
  <2>3. /\ \A x \in rows[p] : x.n <= thr[w][p].attempt
        /\ Cardinality(Rows(p, thr[w][p].route)) <= thr[w][p].turn
    BY <2>1, <2>2 DEF TurnsInv
  <2>4. Cardinality(Rows(p, thr[w][p].route)) \in Nat
    BY <1>2, RowsSame
  <2>5. {x \in rows'[p] : x.route = thr'[w][p].route} = Rows(p, thr[w][p].route)
    BY <2>1 DEF Rows
  <2>6. \A x \in rows[p] : x.n \in Nat
    BY <1>1, <1>4 DEF PartType
  <2>7. QED BY <1>2, <2>1, <2>3, <2>4, <2>5, <2>6 DEF TurnOK, Rows
<1>8. QED BY <1>3, <1>5, <1>6, <1>7
     DEF Move, Pausing, Dropping, Publishing, Exhausting, Ends

LEMMA TurnsMove ==
    ASSUME TypeOK, PartsInv, ThreadsInv, TurnsInv, NEW w \in Workers, NEW p \in Parts,
           Typed, Move(w, p)
    PROVE  TurnsInv'
<1>1. ASSUME NEW v \in Workers, NEW q \in Parts, Current(v, q)'
      PROVE  TurnOK(v, q)'
  <2>1. CASE v = w /\ q = p
    BY <1>1, <2>1, OwnTurn
  <2>2. CASE ~(v = w /\ q = p)
    <3>1. /\ Current(v, q) /\ thr'[v][q] = thr[v][q]
          /\ part'[q] = part[q] /\ rows'[q] = rows[q]
      BY <1>1, <2>2, OthersMove
    <3>2. TurnOK(v, q)
      BY <3>1 DEF TurnsInv, TurnOK
    <3>3. {x \in rows'[q] : x.route = thr'[v][q].route} = Rows(q, thr[v][q].route)
      BY <3>1 DEF Rows
    <3>4. QED BY <3>1, <3>2, <3>3 DEF TurnOK, Rows
  <2>3. QED BY <2>1, <2>2
<1>2. QED BY <1>1 DEF TurnsInv, TurnOK

LEMMA LimitMove ==
    ASSUME TypeOK, PartsInv, ThreadsInv, TurnsInv, AttemptLimit,
           NEW w \in Workers, NEW p \in Parts, Typed, Move(w, p)
    PROVE  AttemptLimit'
<1>1. \A q \in Parts : q # p => rows'[q] = rows[q]
  BY MoveLocal
<1>2. thr[w][p] \in Threads /\ part[p].tries + 1 \in Nat /\ thr[w][p].attempt \in Nat
      /\ thr[w][p].turn \in 0 .. MaxAttempts /\ MaxAttempts \in Nat
  BY BoundsAssumption DEF TypeOK, Threads
<1>3. ASSUME NEW r \in Routes PROVE Cardinality(Rows(p, r)') <= MaxAttempts
  <2>1. r \in AllRoutes /\ r # "unavailable"
    BY NamesAssumption DEF AllRoutes
  <2>2. Cardinality(Rows(p, r)) \in Nat /\ Cardinality(Rows(p, r)) <= MaxAttempts
    BY <2>1, RowsSame DEF AttemptLimit
  <2>3. CASE rows'[p] = rows[p]
    BY <2>2, <2>3 DEF Rows
  <2>4. ASSUME NEW n \in Nat, NEW state, Recorded(w, p, "unavailable", n, state)
        PROVE  Cardinality(Rows(p, r)') <= MaxAttempts
    <3>1. rows'[p] = rows[p] \cup {[n |-> n, route |-> "unavailable"]}
      BY <2>4, RecordedPart
    <3>2. QED BY <2>1, <2>2, <3>1, OneMoreRow
  <2>5. ASSUME NEW state, Recorded(w, p, thr[w][p].route, thr[w][p].attempt, state),
               thr[w][p].pc = "record"
        PROVE  Cardinality(Rows(p, r)') <= MaxAttempts
    <3>1. /\ Owns(w, p)
          /\ rows'[p] = rows[p] \cup {[n |-> thr[w][p].attempt, route |-> thr[w][p].route]}
      BY <1>2, <2>5, RecordedPart DEF Holds
    <3>2. Current(w, p)
      BY <3>1 DEF Current, Owns, Move
    <3>3. Cardinality(Rows(p, thr[w][p].route)) < thr[w][p].turn
      BY <2>5, <3>2 DEF TurnsInv
    <3>4. CASE r = thr[w][p].route
      <4>1. Cardinality(Rows(p, r)') <= Cardinality(Rows(p, r)) + 1 /\ Cardinality(Rows(p, r)') \in Nat
        BY <2>1, <3>1, OneMoreRow
      <4>2. QED BY <1>2, <2>2, <3>3, <3>4, <4>1
    <3>5. CASE r # thr[w][p].route
      BY <2>1, <2>2, <3>1, <3>5, OneMoreRow
    <3>6. QED BY <3>4, <3>5
  <2>6. rows' # rows => Recording(w, p)
    BY DEF Move, Pausing, Dropping, Publishing, Exhausting, Advancing, Retrying
  <2>7. QED BY <1>2, <2>3, <2>4, <2>5, <2>6 DEF Recording
<1>4. QED BY <1>1, <1>3 DEF AttemptLimit, Rows

LEMMA RunningMove ==
    ASSUME TypeOK, ThreadsInv, TurnsInv, RunningHeld,
           NEW w \in Workers, NEW p \in Parts, Typed, Move(w, p)
    PROVE  RunningHeld'
<1>1. /\ \A q \in Parts : q # p => part'[q] = part[q]
      /\ \A v \in Workers, q \in Parts : ~(v = w /\ q = p) => thr'[v][q] = thr[v][q]
  BY MoveLocal
<1>2. ASSUME ~CanFail, NEW q \in Parts, part'[q].state = "running"
      PROVE  \E v \in Workers : Current(v, q)'
  <2>1. CASE Retrying(w, p) /\ q = p
    <3>1. thr'[w][p].token = part'[p].gen /\ thr'[w][p].pc = "try"
      BY <2>1, RetryingPart DEF Retrying
    <3>2. QED BY <2>1, <3>1 DEF Current, Live
  <2>2. CASE ~(Retrying(w, p) /\ q = p)
    <3>1. part'[q] = part[q] /\ (q = p => part' = part)
      BY <1>1, <1>2, <2>2, MovePart
    <3>2. PICK v \in Workers : Current(v, q)
      BY <1>2, <3>1 DEF RunningHeld
    <3>3. CASE ~(v = w /\ q = p)
      BY <1>1, <3>1, <3>2, <3>3 DEF Current, Live
    <3>4. CASE v = w /\ q = p
      <4>1. Owns(w, p) /\ thr[w][p].pc # "wait"
        BY <1>2, <3>1, <3>2, <3>4 DEF Current, Owns, TurnsInv
      <4>2. ~Dropping(w, p)
        BY <1>2, <4>1 DEF Dropping
      <4>3. ~Pausing(w, p)
        BY <1>2, <3>4, <4>1, PausingPart DEF Retried
      <4>4. ~Recording(w, p)
        <5>1. part[p].tries + 1 \in Nat /\ thr[w][p].attempt \in Nat
          BY DEF TypeOK, Threads
        <5>2. QED BY <1>2, <3>4, <5>1, RecordedPart DEF Recording
      <4>5. ~Publishing(w, p) /\ ~Exhausting(w, p)
        BY <1>2, <3>4, DonePart
      <4>6. Advancing(w, p)
        BY <2>2, <3>4, <4>2, <4>3, <4>4, <4>5 DEF Move
      <4>7. thr'[w][p].token = thr[w][p].token /\ thr'[w][p].pc \in {"cache", "count"} \cup Trying
        <5>1. thr[w][p] \in Threads
          BY DEF TypeOK
        <5>2. QED BY <4>6, <5>1 DEF Advancing, Threads
      <4>8. QED BY <3>1, <3>2, <3>4, <4>7 DEF Current, Live
    <3>5. QED BY <3>3, <3>4
  <2>3. QED BY <2>1, <2>2
<1>3. QED BY <1>2 DEF RunningHeld

LEMMA UnitsMove ==
    ASSUME TypeOK, ThreadsInv, OneUnit, NEW w \in Workers, NEW p \in Parts, Typed, Move(w, p)
    PROVE  OneUnit'
<1>1. /\ \A q \in Parts : q # p => part'[q] = part[q]
      /\ content' = content
  BY MoveLocal
<1>2. CASE Publishing(w, p)
  <2>1. /\ units' = units \cup {p} /\ part'[p].state = "processed"
        /\ \/ cache' = cache
           \/ thr[w][p].pc = "call" /\ cache' = [cache EXCEPT ![Key(p, thr[w][p].route)] = p]
    BY ZenonT(60), <1>2, DonePart DEF Publishing
  <2>2. \A q \in Parts : q \in units' <=> part'[q].state = "processed"
    BY <1>1, <2>1 DEF OneUnit
  <2> DEFINE KeyOf(q, r) == <<Entry(q), content[Rev(q)][Entry(q)], r>>
  <2>3. \A k \in Keys : cache[k] # NoPart =>
           cache[k] \in units /\ \E r \in Routes : KeyOf(cache[k], r) = k
    BY DEF OneUnit, Key
  <2>4. \A k \in Keys : cache'[k] # NoPart =>
           cache'[k] \in units' /\ \E r \in Routes : KeyOf(cache'[k], r) = k
    <3>1. CASE cache' = cache
      BY <2>1, <2>3, <3>1
    <3>2. CASE thr[w][p].pc = "call" /\ cache' = [cache EXCEPT ![Key(p, thr[w][p].route)] = p]
      <4>1. thr[w][p].route \in Routes
        BY <3>2 DEF ThreadsInv, Live
      <4>2. ASSUME NEW k \in Keys, cache'[k] # NoPart
            PROVE  cache'[k] \in units' /\ \E r \in Routes : KeyOf(cache'[k], r) = k
        <5>1. CASE k = Key(p, thr[w][p].route)
          <6>1. cache'[k] = p
            BY <3>2, <5>1 DEF TypeOK
          <6>2. QED BY <2>1, <4>1, <5>1, <6>1 DEF Key
        <5>2. CASE k # Key(p, thr[w][p].route)
          <6>1. cache'[k] = cache[k]
            BY <3>2, <5>2 DEF TypeOK
          <6>2. QED BY <2>1, <2>3, <4>2, <6>1
        <5>3. QED BY <5>1, <5>2
      <4>3. QED BY <4>2
    <3>3. QED BY <2>1, <3>1, <3>2
  <2>5. QED BY <1>1, <2>2, <2>4 DEF OneUnit, Key, Rev, Entry
<1>3. CASE ~Publishing(w, p)
  <2>1. units' = units /\ cache' = cache
    BY <1>3 DEF Move, Pausing, Dropping, Recording, Recorded, Exhausting, Advancing, Retrying
  <2>2. part'[p].state = "processed" <=> part[p].state = "processed"
    <3>1. CASE Pausing(w, p) \/ Exhausting(w, p) \/ Retrying(w, p) \/ Dropping(w, p) \/ Advancing(w, p)
      BY <1>3, <3>1, PausingPart, DonePart, RetryingPart DEF Retried, Holds, Owns, Dropping, Advancing
    <3>2. CASE Recording(w, p)
      <4>1. part[p].tries + 1 \in Nat /\ thr[w][p].attempt \in Nat
        BY DEF TypeOK, Threads
      <4>2. QED BY <3>2, <4>1, RecordedPart DEF Recording, Holds, Owns
    <3>3. QED BY <1>3, <3>1, <3>2 DEF Move
  <2>3. QED BY <1>1, <2>1, <2>2 DEF OneUnit, Key
<1>4. QED BY <1>2, <1>3

LEMMA DraftMove ==
    ASSUME TypeOK, PartsInv, ThreadsInv, DraftInv, NEW w \in Workers, NEW p \in Parts,
           Typed, Move(w, p)
    PROVE  DraftInv' /\ \A q \in Parts : part'[q].state = "absent" <=> part[q].state = "absent"
<1>1. /\ \A q \in Parts : q # p => part'[q] = part[q]
      /\ agent' = agent /\ content' = content /\ drafted' = drafted
      /\ approved' = approved /\ current' = current /\ ready' = ready
  BY MoveLocal
<1>2. part'[p].state = "absent" <=> part[p].state = "absent"
  BY MovePart, RetryingPart DEF Owns
<1>3. QED BY <1>1, <1>2 DEF DraftInv

\* With one Worker, no unit of another part answers what a thread is to ask for.
LEMMA UncachedMove ==
    ASSUME TypeOK, PartsInv, ThreadsInv, DraftInv, NEW w \in Workers, NEW p \in Parts,
           Typed, Move(w, p), Alone(w)
    PROVE  \A q \in Parts : thr'[w][q].pc \in Asking =>
              cache'[<<Entry(q), content[Rev(q)][Entry(q)], thr'[w][q].route>>] = NoPart
<1> DEFINE KeyOf(q, r) == <<Entry(q), content[Rev(q)][Entry(q)], r>>
<1>1. \A q \in Parts : ~(q = p) => thr'[w][q] = thr[w][q]
  BY MoveLocal
<1>2. \A q \in Parts : thr[w][q].pc \in Asking => cache[KeyOf(q, thr[w][q].route)] = NoPart
  BY DEF Alone, Key
<1>3. thr[w][p] \in Threads /\ Live(w, p)
  BY DEF TypeOK, Move
<1>4. ASSUME NEW q \in Parts, q # p, thr[w][q].pc \in Asking
      PROVE  cache'[KeyOf(q, thr[w][q].route)] = NoPart
  <2>1. CASE cache' = cache
    BY <1>2, <1>4, <2>1
  <2>2. CASE cache' # cache
    <3>1. cache' = [cache EXCEPT ![KeyOf(p, thr[w][p].route)] = p]
      BY <2>2 DEF Move, Pausing, Dropping, Recording, Recorded, Publishing, Exhausting, Advancing,
                  Retrying, Key
    <3>2. Rev(q) = agent[w].rev /\ Rev(p) = agent[w].rev
      BY <1>3, <1>4 DEF Alone, Live
    <3>3. Entry(q) # Entry(p)
      BY <1>4, <3>2, SmallFacts
    <3>4. KeyOf(q, thr[w][q].route) # KeyOf(p, thr[w][p].route)
      BY <3>3
    <3>5. KeyOf(q, thr[w][q].route) \in Keys
      <4>1. thr[w][q].route \in Routes
        BY <1>4 DEF ThreadsInv, Live
      <4>2. part[q].state # "absent"
        BY <1>4 DEF Alone, Live
      <4>3. content[Rev(q)][Entry(q)] \in 0 .. MaxRevision /\ content[Rev(q)][Entry(q)] # 0
        BY <4>2, SmallFacts DEF DraftInv, TypeOK
      <4>4. content[Rev(q)][Entry(q)] \in Revisions
        BY <4>3, BoundsAssumption DEF Revisions
      <4>5. QED BY <4>1, <4>4, SmallFacts DEF Keys
    <3>6. QED BY <1>2, <1>4, <3>1, <3>4, <3>5 DEF TypeOK
  <2>3. QED BY <2>1, <2>2
<1>5. ASSUME thr'[w][p].pc \in Asking
      PROVE  cache'[KeyOf(p, thr'[w][p].route)] = NoPart
  <2>1. cache' = cache
    BY <1>5 DEF Move, Pausing, Dropping, Recording, Recorded, Publishing, Exhausting, Advancing,
                Retrying, Ends
  <2>2. CASE thr[w][p].pc \in Asking /\ thr'[w][p].route = thr[w][p].route
    BY <1>2, <2>1, <2>2
  <2>3. CASE thr[w][p].pc = "cache" /\ Advancing(w, p)
    BY <1>3, <2>1, <2>3 DEF Advancing, Key, Threads
  <2>4. \/ thr[w][p].pc \in Asking /\ thr'[w][p].route = thr[w][p].route
        \/ thr[w][p].pc = "cache" /\ Advancing(w, p)
    <3>1. CASE Recording(w, p)
      BY <1>3, <1>5, <3>1 DEF Recording, Ends, Threads
    <3>2. CASE Advancing(w, p)
      BY <1>3, <1>5, <3>2 DEF Advancing, Threads
    <3>3. CASE Retrying(w, p)
      BY <3>3 DEF Retrying
    <3>4. QED BY <1>5, <3>1, <3>2, <3>3
         DEF Move, Pausing, Dropping, Publishing, Exhausting, Ends
  <2>5. QED BY <2>2, <2>3, <2>4
<1>6. QED BY <1>1, <1>4, <1>5

LEMMA IncludedParts ==
    ASSUME TypeOK PROVE \A r \in 0 .. MaxRevision : r # 0 => r \in Revisions /\ Included(r) \subseteq Parts
<1>1. ASSUME NEW r \in 0 .. MaxRevision, r # 0 PROVE r \in Revisions /\ Included(r) \subseteq Parts
  BY <1>1, BoundsAssumption DEF Included, Parts, Revisions
<1>2. QED BY <1>1

LEMMA AloneMove ==
    ASSUME TypeOK, PartsInv, ThreadsInv, DraftInv, AloneInv, NEW w \in Workers, NEW p \in Parts,
           Typed, Move(w, p)
    PROVE  AloneInv'
<1>1. /\ \A q \in Parts : q # p => part'[q] = part[q]
      /\ \A v \in Workers, q \in Parts : ~(v = w /\ q = p) => thr'[v][q] = thr[v][q]
      /\ agent' = agent /\ content' = content /\ drafted' = drafted
      /\ approved' = approved /\ current' = current /\ ready' = ready
  BY MoveLocal
<1>2. \A q \in Parts : part'[q].state = "absent" <=> part[q].state = "absent"
  BY DraftMove
<1>3. \A q \in Parts : part'[q].state = "invalidated" => part[q].state = "invalidated"
  BY <1>1, MovePart
<1>4. Live(w, p)
  BY DEF Move
<1>5. SUFFICES ASSUME OneWorker PROVE Alone(w)'
  BY DEF AloneInv, OneWorker
<1>6. Alone(w)
  BY <1>5 DEF AloneInv
<1>7. \A q \in Parts : Live(w, q)' => Live(w, q)
  BY <1>1, <1>4 DEF Live
<1>8. \A q \in Parts : thr'[w][q].pc \in Asking =>
         cache'[<<Entry(q), content[Rev(q)][Entry(q)], thr'[w][q].route>>] = NoPart
  BY <1>6, UncachedMove
<1>9. Included(ready)' = Included(ready)
  BY <1>1 DEF Included
<1>10. \A q \in Parts : thr'[w][q].pc \in Asking => (cache[Key(q, thr[w][q].route)] = NoPart)'
  BY <1>1, <1>8 DEF Key, Rev, Entry
<1>11. \A q \in Included(ready)' : ready' # 0 => part'[q].state # "absent"
  <2>1. ASSUME NEW q \in Included(ready), ready # 0 PROVE part'[q].state # "absent"
    <3>1. part[q].state # "absent"
      BY <1>6, <2>1 DEF Alone
    <3>2. q \in Parts
      BY <2>1, IncludedParts DEF TypeOK
    <3>3. QED BY <1>2, <3>1, <3>2
  <2>2. QED BY <1>1, <1>9, <2>1
<1>12. \A q \in Parts : Live(w, q)' => Rev(q) = agent[w].rev /\ part'[q].state # "absent"
  BY <1>2, <1>6, <1>7 DEF Alone
<1>13. \A q \in Parts : /\ part'[q].state = "invalidated" =>
                            Rev(q) < drafted /\ (agent[w].phase # "rest" => Rev(q) < agent[w].rev)
                        /\ part'[q].state # "absent" => Rev(q) <= current
  BY <1>2, <1>3, <1>6 DEF Alone
<1>14. QED BY <1>1, <1>6, <1>10, <1>11, <1>12, <1>13 DEF Alone

(***************************************************************************)
(* The lock and the calls, which only some steps of a thread touch.        *)
(***************************************************************************)
LEMMA LockMove ==
    ASSUME TypeOK, ThreadsInv, LockInv, NEW w \in Workers, NEW p \in Parts,
           Typed, Move(w, p), ThreadStep(w, p) \/ Raise(w, p)
    PROVE  LockInv' /\ holder' \in (Workers \X Parts) \cup {Free}
<1>1. /\ \A v \in Workers, q \in Parts : ~(v = w /\ q = p) => thr'[v][q] = thr[v][q]
      /\ approved' = approved
  BY MoveLocal
<1>2. thr[w][p] \in Threads
  BY DEF TypeOK
<1>3. \/ holder' = holder /\ thr'[w][p].pc # "call"
      \/ Release(w, p) /\ thr'[w][p].pc # "call"
      \/ holder = Free /\ holder' = <<w, p>> /\ approved = Rev(p)
  <2>1. CASE Answered(w, p) \/ Failed(w, p) \/ Raise(w, p)
    <3>1. thr[w][p].pc = "call" \/ Raise(w, p)
      BY <2>1 DEF Answered, Failed, Thread
    <3>2. thr'[w][p].pc # "call"
      <4>1. CASE Raise(w, p)
        BY <4>1, AnswersEffect DEF Raise
      <4>2. CASE thr[w][p].pc = "call"
        BY <1>2, <4>2 DEF Move, Pausing, Dropping, Recording, Recorded, Publishing, Exhausting, Advancing,
                    Retrying, Ends, Threads
      <4>3. QED BY <3>1, <4>1, <4>2
    <3>3. QED BY <2>1, <3>2 DEF Answered, Failed, Raise
  <2>2. CASE \/ Start(w, p) \/ LookUp(w, p) \/ Count(w, p) \/ Try(w, p)
             \/ RecordFailure(w, p) \/ GiveUp(w, p) \/ Retry(w, p)
    <3>1. holder' = holder /\ thr[w][p].pc \notin {"lock", "call"}
      BY <2>2 DEF Start, LookUp, Count, Try, RecordFailure, GiveUp, Retry, Thread
    <3>2. thr'[w][p].pc # "call"
      BY <1>2, <3>1 DEF Move, Pausing, Dropping, Recording, Recorded, Publishing, Exhausting, Advancing,
                    Retrying, Ends, Threads
    <3>3. QED BY <3>1, <3>2
  <2>3. CASE Call(w, p)
    <3>1. CASE PauseClaim(w, p) /\ UNCHANGED holder
      BY <3>1, PauseEffect DEF Move
    <3>2. CASE /\ thr' = [thr EXCEPT ![w][p].pc = "record", ![w][p].result = "failed"]
               /\ UNCHANGED holder
      <4>1. thr'[w][p].pc = "record"
        BY <3>2 DEF TypeOK, Threads
      <4>2. QED BY <3>2, <4>1
    <3>3. CASE Authorized(p) /\ holder' = <<w, p>>
      BY <2>3, <3>3 DEF Call, Unheld, Authorized
    <3>4. QED BY <2>3, <3>1, <3>2, <3>3 DEF Call
  <2>4. QED BY <2>1, <2>2, <2>3 DEF ThreadStep
<1>4. Free \notin Workers \X Parts
  BY SmallFacts DEF Free
<1>5. holder' \in (Workers \X Parts) \cup {Free}
  BY <1>3 DEF TypeOK, Release
<1>6. ASSUME NEW v \in Workers, NEW q \in Parts, thr'[v][q].pc = "call"
      PROVE  holder' = <<v, q>> /\ approved = Rev(q)
  <2>1. CASE v = w /\ q = p
    BY <1>3, <1>6, <2>1
  <2>2. CASE ~(v = w /\ q = p)
    <3>1. holder = <<v, q>> /\ approved = Rev(q)
      BY <1>1, <1>6, <2>2 DEF LockInv
    <3>2. holder # Free /\ holder # <<w, p>>
      BY <1>4, <2>2, <3>1
    <3>3. QED BY <1>3, <3>1, <3>2 DEF Release
  <2>3. QED BY <2>1, <2>2
<1>7. QED BY <1>1, <1>5, <1>6 DEF LockInv, Rev

LEMMA CallsMove ==
    ASSUME TypeOK, ThreadsInv, NEW w \in Workers, NEW p \in Parts,
           ThreadStep(w, p) \/ Raise(w, p)
    PROVE  \/ calls' = calls
           \/ /\ thr[w][p].pc = "lock" /\ To(w, p, "call") /\ part' = part /\ rows' = rows
              /\ calls' = [calls EXCEPT ![p][thr[w][p].route] = IF @ > MaxAttempts THEN @ ELSE @ + 1]
BY DEF ThreadStep, Start, LookUp, Count, Try, Call, Answered, Failed, RecordFailure, GiveUp, Retry,
   Raise, Thread

LEMMA CallsTyped ==
    ASSUME TypeOK, ThreadsInv, NEW w \in Workers, NEW p \in Parts,
           ThreadStep(w, p) \/ Raise(w, p)
    PROVE  calls' \in [Parts -> [Routes -> Nat]]
<1>1. CASE calls' = calls
  BY <1>1 DEF TypeOK
<1>2. CASE /\ thr[w][p].pc = "lock"
           /\ calls' = [calls EXCEPT ![p][thr[w][p].route] = IF @ > MaxAttempts THEN @ ELSE @ + 1]
  <2>1. thr[w][p].route \in Routes
    BY <1>2 DEF ThreadsInv, Live
  <2>2. calls[p] \in [Routes -> Nat] /\ calls[p][thr[w][p].route] \in Nat
    BY <2>1 DEF TypeOK
  <2>3. QED BY <1>2, <2>1, <2>2 DEF TypeOK
<1>3. QED BY <1>1, <1>2, CallsMove

\* An undisturbed provider call goes on to its evidence or to its attempt.
Recordable(w, p) == /\ part' = part /\ rows' = rows
                    /\ thr'[w][p].pc = "record" /\ thr'[w][p].route = thr[w][p].route

LEMMA CallEnds ==
    ASSUME TypeOK, PartsInv, ThreadsInv, TurnsInv, ~CanFail, NEW w \in Workers, NEW p \in Parts,
           Alone(w), Undisturbed(w), Typed, Move(w, p), ThreadStep(w, p) \/ Raise(w, p),
           thr[w][p].pc \in Called
    PROVE  Publishing(w, p) \/ Recording(w, p) \/ Recordable(w, p)
<1>1. Holds(w, p) /\ cache[Key(p, thr[w][p].route)] = NoPart
  BY DEF Alone, Undisturbed
<1>2. /\ thr[w][p].attempt \notin Numbers(p)
      /\ thr[w][p].attempt \in Nat
  <2>1. \A x \in rows[p] : x.n < thr[w][p].attempt
    BY <1>1 DEF TurnsInv, Current, Live, Holds, Owns
  <2>2. \A x \in rows[p] : x.n \in Nat
    BY DEF TypeOK
  <2>3. thr[w][p].attempt \in Nat
    BY DEF TypeOK, Threads
  <2>4. QED BY <2>1, <2>2, <2>3 DEF Numbers
<1>3. Answered(w, p) \/ Failed(w, p) \/ RecordFailure(w, p)
  BY DEF ThreadStep, Start, LookUp, Count, Try, Call, GiveUp, Retry, Raise, Thread
<1>4. CASE Answered(w, p)
  <2>1. Publish(p) /\ cache' = [cache EXCEPT ![Key(p, thr[w][p].route)] = p]
    BY <1>1, <1>4 DEF Answered
  <2>2. part'[p].state = "processed"
    BY <2>1 DEF Publish, TypeOK
  <2>3. part[p].state = "running"
    BY <1>1 DEF Holds, Owns
  <2>4. ~Pausing(w, p) /\ ~Retrying(w, p) /\ (Exhausting(w, p) => Publishing(w, p))
    BY <2>2, <2>3, PausingPart, DonePart, RetryingPart DEF Retried
  <2>5. ~Dropping(w, p) /\ ~Advancing(w, p)
    BY <2>2, <2>3 DEF Dropping, Advancing
  <2>6. QED BY <2>4, <2>5 DEF Move
<1>5. CASE RecordFailure(w, p)
  <2>1. part'[p].state \in {"retry_wait", "failed"} /\ rows'[p] # rows[p]
    <3>1. ASSUME NEW state \in {"retry_wait", "failed"}, NEW due \in BOOLEAN, NEW next,
                 Record(w, p, thr[w][p].route, thr[w][p].attempt, state, due, next)
          PROVE  part'[p].state \in {"retry_wait", "failed"} /\ rows'[p] # rows[p]
      <4>1. /\ rows' = [rows EXCEPT ![p] = @ \cup {[n |-> thr[w][p].attempt, route |-> thr[w][p].route]}]
            /\ part' = [part EXCEPT ![p].state = state, ![p].due = due,
                           ![p].tries = IF thr[w][p].attempt > @ THEN thr[w][p].attempt ELSE @]
        BY <1>1, <1>2, <3>1 DEF Record
      <4>2. rows'[p] = rows[p] \cup {[n |-> thr[w][p].attempt, route |-> thr[w][p].route]}
        BY <4>1 DEF TypeOK
      <4>3. rows'[p] # rows[p]
        <5> DEFINE x == [n |-> thr[w][p].attempt, route |-> thr[w][p].route]
        <5>1. x \in rows'[p] /\ x.n = thr[w][p].attempt
          BY <4>2
        <5>2. x \notin rows[p]
          BY <1>2, <5>1 DEF Numbers
        <5>3. QED BY <5>1, <5>2
      <4>4. part'[p].state = state
        BY <4>1 DEF TypeOK
      <4>5. QED BY <4>3, <4>4
    <3>2. QED BY <1>5, <3>1 DEF RecordFailure
  <2>2. rows' # rows
    BY <2>1
  <2>3. QED BY <2>2 DEF Move, Pausing, Dropping, Publishing, Exhausting, Advancing, Retrying
<1>6. CASE Failed(w, p)
  <2>1. part' = part /\ rows' = rows /\ thr'[w][p] = [thr[w][p] EXCEPT !.pc = "record"]
    BY <1>6, ToEffect DEF Failed
  <2>2. thr[w][p] \in Threads
    BY DEF TypeOK
  <2>3. QED BY <2>1, <2>2 DEF Recordable, Threads
<1>7. QED BY <1>3, <1>4, <1>5, <1>6

LEMMA HoldsMove ==
    ASSUME TypeOK, ThreadsInv, NEW w \in Workers, NEW p \in Parts, Typed, Move(w, p),
           \A q \in Parts : thr[w][q].pc \in Holding => Holds(w, q)
    PROVE  \A q \in Parts : thr'[w][q].pc \in Holding => Holds(w, q)'
<1>1. /\ \A q \in Parts : q # p => part'[q] = part[q] /\ thr'[w][q] = thr[w][q]
      /\ current' = current
  BY MoveLocal
<1>2. ASSUME NEW q \in Parts, thr'[w][q].pc \in Holding
      PROVE  Holds(w, q)'
  <2>1. CASE q # p
    BY <1>1, <1>2, <2>1 DEF Holds, Owns, Rev
  <2>2. CASE q = p /\ Advancing(w, p)
    <3>1. thr[w][p].pc \in Holding /\ thr'[w][p].token = thr[w][p].token /\ part' = part
      BY <2>2 DEF Advancing
    <3>2. QED BY <1>1, <2>2, <3>1 DEF Holds, Owns, Rev
  <2>3. CASE q = p /\ Retrying(w, p)
    <3>1. current = Rev(p) /\ thr'[w][p].token = thr[w][p].token + 1
      BY <2>3 DEF Retrying
    <3>2. QED BY <1>1, <2>3, <3>1, RetryingPart DEF Holds, Owns, Rev
  <2>4. CASE q = p /\ Recording(w, p)
    <3>1. thr[w][p] \in Threads
      BY DEF TypeOK
    <3>2. FALSE
      BY <1>2, <2>4, <3>1 DEF Recording, Ends, Threads
    <3>3. QED BY <3>2
  <2>5. QED BY <1>2, <2>1, <2>2, <2>3, <2>4
       DEF Move, Pausing, Dropping, Publishing, Exhausting, Ends
<1>3. QED BY <1>2

\* The bound that Undisturbed sets to the calls for a part on a route.
Allowed(w, p, r) ==
    Cardinality(Rows(p, r)) +
         (IF \/ part[p].state \in {"processed", "invalidated"}
             \/ thr[w][p].pc \in Called /\ thr[w][p].route = r THEN 1 ELSE 0)

LEMMA CountMove ==
    ASSUME TypeOK, PartsInv, ThreadsInv, TurnsInv, NamesAssumption, ~CanFail,
           NEW w \in Workers, NEW p \in Parts, Alone(w), Undisturbed(w), Typed, Move(w, p),
           ThreadStep(w, p) \/ Raise(w, p), NEW r \in Routes
    PROVE  calls'[p][r] <= Allowed(w, p, r)'
<1>1. /\ thr[w][p] \in Threads /\ part[p] \in PartType /\ part'[p] \in PartType
      /\ thr[w][p].attempt \in Nat /\ part[p].tries + 1 \in Nat /\ calls[p][r] \in Nat
      /\ calls' \in [Parts -> [Routes -> Nat]] /\ calls'[p][r] \in Nat
  BY CallsTyped DEF TypeOK, PartType, Typed, Threads
<1>2. r \in AllRoutes /\ r # "unavailable" /\ Cardinality(Rows(p, r)) \in Nat
  BY NamesAssumption, RowsSame DEF AllRoutes
<1>3. calls[p][r] <= Allowed(w, p, r)
  BY DEF Undisturbed, Allowed
<1>4. CASE calls' # calls
  <2>1. /\ thr[w][p].pc = "lock" /\ To(w, p, "call") /\ part' = part /\ rows' = rows
        /\ calls' = [calls EXCEPT ![p][thr[w][p].route] = IF @ > MaxAttempts THEN @ ELSE @ + 1]
    BY <1>4, CallsMove
  <2>2. thr'[w][p].pc = "call" /\ thr'[w][p].route = thr[w][p].route
    <3>1. thr'[w][p] = [thr[w][p] EXCEPT !.pc = "call"]
      BY <2>1, ToEffect
    <3>2. QED BY <1>1, <3>1 DEF Threads
  <2>3. part[p].state = "running"
    BY <2>1 DEF Undisturbed, Holds, Owns
  <2>4. calls[p][r] <= Cardinality(Rows(p, r))
    BY <1>2, <1>3, <2>1, <2>3 DEF Allowed
  <2>5. calls'[p][r] <= IF thr[w][p].route = r THEN calls[p][r] + 1 ELSE calls[p][r]
    BY <1>1, <2>1 DEF TypeOK
  <2>6. Rows(p, r)' = Rows(p, r)
    BY <2>1 DEF Rows
  <2>7. QED BY <1>1, <1>2, <2>1, <2>2, <2>3, <2>4, <2>5, <2>6 DEF Allowed
<1>5. CASE calls' = calls
  <2>1. CASE thr[w][p].pc \in Called
    <3>1. CASE Publishing(w, p)
      <4>1. part'[p].state = "processed" /\ Rows(p, r)' = Rows(p, r)
        BY <3>1, DonePart DEF Rows
      <4>2. calls[p][r] <= Cardinality(Rows(p, r)) + 1
        BY <1>1, <1>2, <1>3 DEF Allowed
      <4>3. QED BY <1>5, <4>1, <4>2 DEF Allowed
    <3>2. CASE Recording(w, p)
      <4>1. PICK state \in {"retry_wait", "failed"} :
               Recorded(w, p, thr[w][p].route, thr[w][p].attempt, state)
        BY <2>1, <3>2 DEF Recording
      <4>2. /\ part[p].state = "running" /\ thr[w][p].attempt \notin Numbers(p)
            /\ rows'[p] = rows[p] \cup {[n |-> thr[w][p].attempt, route |-> thr[w][p].route]}
        BY <1>1, <4>1, RecordedPart DEF Holds, Owns
      <4>3. CASE r = thr[w][p].route
        <5>1. Cardinality(Rows(p, r)') = Cardinality(Rows(p, r)) + 1
          BY <1>2, <4>2, <4>3, OneMoreRow
        <5>2. calls[p][r] <= Cardinality(Rows(p, r)) + 1
          BY <1>1, <1>2, <1>3 DEF Allowed
        <5>3. QED BY <1>1, <1>2, <1>5, <5>1, <5>2 DEF Allowed
      <4>4. CASE r # thr[w][p].route
        <5>1. Rows(p, r)' = Rows(p, r)
          BY <1>2, <4>2, <4>4, OneMoreRow
        <5>2. calls[p][r] <= Cardinality(Rows(p, r))
          BY <1>1, <1>2, <1>3, <4>2, <4>4 DEF Allowed
        <5>3. QED BY <1>1, <1>2, <1>5, <5>1, <5>2 DEF Allowed
      <4>5. QED BY <4>3, <4>4
    <3>3. CASE Recordable(w, p)
      <4>1. Rows(p, r)' = Rows(p, r)
        BY <3>3 DEF Recordable, Rows
      <4>2. QED BY <1>3, <1>5, <2>1, <3>3, <4>1 DEF Recordable, Allowed
    <3>4. QED BY <2>1, <3>1, <3>2, <3>3, CallEnds
  <2>2. CASE thr[w][p].pc \notin Called
    <3>1. calls[p][r] <= Cardinality(Rows(p, r)) +
             (IF part[p].state \in {"processed", "invalidated"} THEN 1 ELSE 0)
      BY <1>3, <2>2 DEF Allowed
    <3>2. part[p].state \in {"processed", "invalidated"} => part'[p].state = part[p].state
      BY MovePart, RetryingPart DEF Owns
    <3>3. Cardinality(Rows(p, r)') >= Cardinality(Rows(p, r)) /\ Cardinality(Rows(p, r)') \in Nat
      <4>1. CASE rows' = rows
        BY <1>2, <4>1 DEF Rows
      <4>2. CASE rows' # rows
        <5>1. Recording(w, p)
          BY <4>2 DEF Move, Pausing, Dropping, Publishing, Exhausting, Advancing, Retrying
        <5>2. ASSUME NEW route, NEW n \in Nat, NEW state, Recorded(w, p, route, n, state)
              PROVE  Cardinality(Rows(p, r)') >= Cardinality(Rows(p, r)) /\ Cardinality(Rows(p, r)') \in Nat
          <6>1. /\ n \notin Numbers(p)
                /\ rows'[p] = rows[p] \cup {[n |-> n, route |-> route]}
            BY ONLY TypeOK, <5>2, RecordedPart
          <6>2. QED BY <1>2, <6>1, OneMoreRow
        <5>3. QED BY <1>1, <5>1, <5>2 DEF Recording
      <4>3. QED BY <4>1, <4>2
    <3>4. QED BY <1>1, <1>2, <1>5, <3>1, <3>2, <3>3 DEF Allowed
  <2>3. QED BY <2>1, <2>2
<1>6. QED BY <1>4, <1>5

LEMMA UndisturbedMove ==
    ASSUME TypeOK, PartsInv, ThreadsInv, TurnsInv, AloneInv, UndisturbedInv,
           NEW w \in Workers, NEW p \in Parts, Typed, Move(w, p), ThreadStep(w, p) \/ Raise(w, p)
    PROVE  UndisturbedInv'
<1>1. SUFFICES ASSUME OneWorker, ~CanCrash, ~CanFail PROVE Undisturbed(w)'
  BY DEF UndisturbedInv, OneWorker
<1>2. Alone(w) /\ Undisturbed(w)
  BY <1>1 DEF AloneInv, UndisturbedInv
<1>3. \A q \in Parts : thr'[w][q].pc \in Holding => Holds(w, q)'
  BY <1>2, HoldsMove DEF Undisturbed
<1>4. \A q \in Parts, r \in Routes : calls'[q][r] <= Allowed(w, q, r)'
  <2>1. ASSUME NEW q \in Parts, NEW r \in Routes PROVE calls'[q][r] <= Allowed(w, q, r)'
    <3>1. CASE q = p
      BY <1>1, <1>2, <3>1, CountMove, NamesAssumption
    <3>2. CASE q # p
      <4>1. part'[q] = part[q] /\ rows'[q] = rows[q] /\ thr'[w][q] = thr[w][q]
        BY <3>2, MoveLocal
      <4>2. calls'[q] = calls[q]
        BY <3>2, CallsMove DEF TypeOK
      <4>3. Rows(q, r)' = Rows(q, r)
        BY <4>1 DEF Rows
      <4>4. QED BY <1>2, <4>1, <4>2, <4>3 DEF Undisturbed, Allowed
    <3>3. QED BY <3>1, <3>2
  <2>2. QED BY <2>1
<1>5. QED BY <1>3, <1>4 DEF Undisturbed, Allowed

\* No call is begun that is one too many.
LEMMA CallLimitMove ==
    ASSUME TypeOK, PartsInv, ThreadsInv, TurnsInv, AloneInv, UndisturbedInv, CallLimit,
           OneWorker, ~CanCrash, ~CanFail, NEW w \in Workers, NEW p \in Parts,
           ThreadStep(w, p) \/ Raise(w, p)
    PROVE  CallLimit'
<1>1. Undisturbed(w)
  BY DEF UndisturbedInv
<1>2. CASE calls' = calls
  BY <1>2 DEF CallLimit
<1>3. CASE /\ thr[w][p].pc = "lock"
           /\ calls' = [calls EXCEPT ![p][thr[w][p].route] = IF @ > MaxAttempts THEN @ ELSE @ + 1]
  <2> DEFINE r == thr[w][p].route
  <2>1. Holds(w, p) /\ Current(w, p)
    BY <1>1, <1>3 DEF Undisturbed, Holds, Owns, Current, Live
  <2>2. /\ r \in Routes /\ r \in AllRoutes
        /\ Cardinality(Rows(p, r)) \in Nat /\ Cardinality(Rows(p, r)) < thr[w][p].turn
    BY <1>3, <2>1, RowsSame DEF ThreadsInv, Live, TurnsInv, AllRoutes
  <2>3. thr[w][p].turn \in 0 .. MaxAttempts /\ MaxAttempts \in Nat
    BY BoundsAssumption DEF TypeOK, Threads
  <2>4. calls[p][r] <= Cardinality(Rows(p, r)) /\ calls[p][r] \in Nat
    <3>1. part[p].state = "running"
      BY <2>1 DEF Holds, Owns
    <3>2. calls[p] \in [Routes -> Nat]
      BY DEF TypeOK
    <3> HIDE DEF r
    <3>3. calls[p][r] <= Allowed(w, p, r) /\ calls[p][r] \in Nat
      BY <1>1, <2>2, <3>2 DEF Undisturbed, Allowed
    <3>4. QED BY <1>3, <2>2, <3>1, <3>3 DEF Allowed
  <2> HIDE DEF r
  <2>5. calls[p][r] + 1 <= MaxAttempts
    BY <2>2, <2>3, <2>4
  <2>6. calls' = [calls EXCEPT ![p] = [calls[p] EXCEPT ![r] = calls[p][r] + 1]]
    <3>1. ~(calls[p][r] > MaxAttempts)
      BY <2>3, <2>4, <2>5
    <3>2. calls' = [calls EXCEPT ![p][r] = IF @ > MaxAttempts THEN @ ELSE @ + 1]
      BY <1>3 DEF r
    <3>3. calls \in [Parts -> [Routes -> Nat]] /\ calls[p] \in [Routes -> Nat]
      BY DEF TypeOK
    <3>4. QED BY <2>2, <3>1, <3>2, <3>3
  <2>7. \A q \in Parts, x \in Routes : calls'[q][x] = IF q = p /\ x = r THEN calls[p][r] + 1 ELSE calls[q][x]
    BY <2>2, <2>6 DEF TypeOK
  <2>8. QED BY <2>5, <2>7 DEF CallLimit
<1>4. QED BY <1>2, <1>3, CallsMove

CallLimitInv == OneWorker /\ ~CanCrash /\ ~CanFail => CallLimit

(***************************************************************************)
(* Every other step but a claim leaves the claims as they are, or takes    *)
(* threads away.                                                           *)
(***************************************************************************)
Quiet ==
    /\ rows' = rows
    /\ \A q \in Parts :
          /\ part'[q].gen = part[q].gen /\ part'[q].tries = part[q].tries
          /\ part'[q].state = "absent" => part'[q].tries = 0 /\ part'[q].due
          /\ part'[q].state = "running" => part[q].state = "running"
    /\ \A v \in Workers, q \in Parts :
          \/ thr'[v][q] = thr[v][q]
          \/ /\ thr'[v][q] = NoThread
             /\ ~Live(v, q) \/ part'[q].state # "running"
    /\ \A v \in Workers, q \in Parts : agent'[v].phase # "pool" => thr'[v][q].pc = "none"

LEMMA QuietStep ==
    ASSUME TypeOK, PartsInv, ThreadsInv, TurnsInv, AttemptLimit, RunningHeld, Quiet
    PROVE  PartsInv' /\ ThreadsInv' /\ TurnsInv' /\ AttemptLimit' /\ RunningHeld'
<1>1. ASSUME NEW v \in Workers, NEW q \in Parts, thr'[v][q] # thr[v][q]
      PROVE  thr'[v][q].pc = "none"
  BY <1>1 DEF Quiet, NoThread
<1>2. ASSUME NEW v \in Workers, NEW q \in Parts, Live(v, q)'
      PROVE  thr'[v][q] = thr[v][q] /\ Live(v, q)
  BY <1>1, <1>2 DEF Live
<1>3. ASSUME NEW v \in Workers, NEW q \in Parts, Current(v, q)'
      PROVE  Current(v, q) /\ thr'[v][q] = thr[v][q]
  BY <1>2, <1>3 DEF Current, Quiet
<1>4. PartsInv'
  <2>1. \A q \in Parts : IsFiniteSet(rows'[q]) /\ \A x \in rows'[q] : x.n \in 1 .. part'[q].tries
    BY DEF Quiet, PartsInv
  <2>2. QED BY <2>1 DEF Quiet, PartsInv
<1>5. ThreadsInv'
  <2>1. \A v \in Workers, q \in Parts : agent'[v].phase # "pool" => thr'[v][q].pc = "none"
    BY DEF Quiet
  <2>2. \A v \in Workers, q \in Parts : Live(v, q)' => thr'[v][q].token \in 1 .. part'[q].gen
    BY <1>2 DEF ThreadsInv, Quiet
  <2>3. \A u, v \in Workers, q \in Parts : Current(u, q)' /\ Current(v, q)' => u = v
    BY <1>3 DEF ThreadsInv
  <2>4. \A v \in Workers, q \in Parts : Live(v, q)' /\ thr'[v][q].pc # "start" => thr'[v][q].route \in Routes
    BY <1>2 DEF ThreadsInv
  <2>5. \A v \in Workers, q \in Parts : thr'[v][q].pc \in Trying \cup {"wait"} => thr'[v][q].attempt # 0
    <3>1. ASSUME NEW v \in Workers, NEW q \in Parts, thr'[v][q].pc \in Trying \cup {"wait"}
          PROVE  thr'[v][q].attempt # 0
      BY <1>1, <3>1 DEF ThreadsInv
    <3>2. QED BY <3>1
  <2>6. QED BY <2>1, <2>2, <2>3, <2>4, <2>5 DEF ThreadsInv
<1>6. TurnsInv'
  <2>1. ASSUME NEW v \in Workers, NEW q \in Parts, Current(v, q)'
        PROVE  TurnOK(v, q)'
    <3>1. Current(v, q) /\ thr'[v][q] = thr[v][q] /\ rows' = rows
      BY <1>3, <2>1 DEF Quiet
    <3>2. TurnOK(v, q)
      BY <3>1 DEF TurnsInv, TurnOK
    <3>3. {x \in rows'[q] : x.route = thr'[v][q].route} = Rows(q, thr[v][q].route)
      BY <3>1 DEF Rows
    <3>4. part'[q].state = "running" => part[q].state = "running"
      BY DEF Quiet
    <3>5. QED BY <3>1, <3>2, <3>3, <3>4 DEF TurnOK, Rows
  <2>2. QED BY <2>1 DEF TurnsInv, TurnOK
<1>7. AttemptLimit'
  <2>1. rows' = rows
    BY DEF Quiet
  <2>2. QED BY <2>1 DEF AttemptLimit, Rows
<1>8. RunningHeld'
  <2>1. ASSUME ~CanFail, NEW q \in Parts, part'[q].state = "running"
        PROVE  \E v \in Workers : Current(v, q)'
    <3>1. part[q].state = "running" /\ part'[q].gen = part[q].gen
      BY <2>1 DEF Quiet
    <3>2. PICK v \in Workers : Current(v, q)
      BY <2>1, <3>1 DEF RunningHeld
    <3>3. thr'[v][q] = thr[v][q]
      BY <2>1, <3>2 DEF Quiet, Current
    <3>4. QED BY <3>1, <3>2, <3>3 DEF Current, Live
  <2>2. QED BY <2>1 DEF RunningHeld
<1>9. QED BY <1>4, <1>5, <1>6, <1>7, <1>8

\* The answers and the counts stay as they are, too.
LEMMA UnitsQuiet ==
    ASSUME OneUnit, UNCHANGED <<units, cache, content>>,
           \A q \in Parts : part'[q].state = "processed" <=> part[q].state = "processed"
    PROVE  OneUnit'
BY DEF OneUnit, Key, Rev, Entry

LEMMA CountsQuiet ==
    ASSUME TypeOK, PartsInv, UndisturbedInv, CallLimitInv, rows' = rows, calls' = calls, thr' = thr,
           OneWorker => \A v \in Workers, q \in Parts : Live(v, q) =>
               part'[q].state = part[q].state /\ part'[q].gen = part[q].gen /\ current' = current,
           \A q \in Parts : part[q].state \in {"processed", "invalidated"} =>
               part'[q].state \in {"processed", "invalidated"}
    PROVE  UndisturbedInv' /\ CallLimitInv'
<1>1. CallLimitInv'
  BY DEF CallLimitInv, CallLimit
<1>2. SUFFICES ASSUME OneWorker /\ ~CanCrash /\ ~CanFail, NEW w \in Workers PROVE Undisturbed(w)'
  BY <1>1 DEF UndisturbedInv
<1>3. Undisturbed(w)
  BY <1>2 DEF UndisturbedInv
<1>4. \A q \in Parts : thr'[w][q].pc \in Holding => Holds(w, q)'
  <2>1. ASSUME NEW q \in Parts, thr'[w][q].pc \in Holding PROVE Holds(w, q)'
    <3>1. Holds(w, q) /\ Live(w, q)
      BY <1>3, <2>1 DEF Undisturbed, Live
    <3>2. QED BY <1>2, <3>1 DEF Holds, Owns, Rev
  <2>2. QED BY <2>1
<1>5. \A q \in Parts, r \in Routes : calls'[q][r] <= Allowed(w, q, r)'
  <2>1. ASSUME NEW q \in Parts, NEW r \in Routes PROVE calls'[q][r] <= Allowed(w, q, r)'
    <3>1. calls[q][r] <= Allowed(w, q, r) /\ Rows(q, r)' = Rows(q, r)
      BY <1>3 DEF Undisturbed, Allowed, Rows
    <3>2. Cardinality(Rows(q, r)) \in Nat /\ calls[q][r] \in Nat
      BY RowsSame DEF AllRoutes, TypeOK
    <3>3. CASE part'[q].state \in {"processed", "invalidated"}
      BY <3>1, <3>2, <3>3 DEF Allowed
    <3>4. CASE part'[q].state \notin {"processed", "invalidated"}
      BY <3>1, <3>2, <3>4 DEF Allowed
    <3>5. QED BY <3>3, <3>4
  <2>2. QED BY <2>1
<1>6. QED BY <1>1, <1>4, <1>5 DEF Undisturbed, Allowed

(***************************************************************************)
(* The inductive invariant.                                                *)
(***************************************************************************)
IInv == /\ TypeOK /\ PartsInv /\ ThreadsInv /\ TurnsInv /\ AttemptLimit /\ RunningHeld
        /\ LockInv /\ DraftInv /\ OneUnit /\ AloneInv /\ UndisturbedInv /\ CallLimitInv

ClaimsQuiet == PartsInv' /\ ThreadsInv' /\ TurnsInv' /\ AttemptLimit' /\ RunningHeld'
CountsKept  == UndisturbedInv' /\ CallLimitInv'

\* Steps of the workspace and of the clocks.
LEMMA SameParts ==
    ASSUME IInv, UNCHANGED <<part, rows, thr, calls, current>>, \A v \in Workers : agent'[v].phase = agent[v].phase
    PROVE  ClaimsQuiet /\ CountsKept
<1>1. Quiet
  BY DEF IInv, Quiet, PartsInv, ThreadsInv
<1>2. QED BY <1>1, QuietStep, CountsQuiet DEF IInv, ClaimsQuiet, CountsKept

LEMMA RescanStep == ASSUME IInv, Rescan PROVE IInv'
<1>1. /\ UNCHANGED <<part, rows, units, cache, thr, calls, agent, current, ready, holder, stop, expired>>
      /\ holder = Free /\ drafted' = drafted + 1 /\ drafted < MaxRevision /\ approved' = 0
  BY DEF Rescan, Unheld
<1>2. ClaimsQuiet /\ CountsKept
  BY <1>1, SameParts
<1>3. PICK c \in [Entries -> 0 .. drafted + 1] : content' = [content EXCEPT ![drafted + 1] = c]
  BY DEF Rescan
<1>4. drafted \in Nat /\ drafted + 1 \in Revisions /\ drafted + 1 \in 0 .. MaxRevision
  BY <1>1, BoundsAssumption DEF IInv, TypeOK, Revisions
<1>5. TypeOK'
  <2>1. c \in [Entries -> 0 .. MaxRevision]
    BY <1>4, BoundsAssumption
  <2>2. content' \in [Revisions -> [Entries -> 0 .. MaxRevision]]
    BY <1>3, <1>4, <2>1 DEF IInv, TypeOK
  <2>3. approved' \in 0 .. MaxRevision
    BY <1>1, BoundsAssumption
  <2>4. QED BY <1>1, <1>4, <2>2, <2>3 DEF IInv, TypeOK
<1>6. \A r \in Revisions : r <= drafted => content'[r] = content[r]
  BY <1>3, <1>4 DEF IInv, TypeOK, Revisions
<1>7. \A q \in Parts : part[q].state # "absent" => content'[Rev(q)] = content[Rev(q)]
  BY <1>6, SmallFacts DEF IInv, DraftInv
<1>8. LockInv'
  <2>1. \A v \in Workers, q \in Parts : thr[v][q].pc # "call"
    BY <1>1, SmallFacts DEF IInv, LockInv, Free
  <2>2. QED BY <1>1, <2>1 DEF LockInv
<1>9. DraftInv'
  <2>1. /\ current <= drafted + 1 /\ ready <= drafted + 1 /\ \A v \in Workers : agent[v].rev <= drafted + 1 /\ (agent[v].phase # "rest" => agent[v].rev # 0)
        /\ \A q \in Parts : part[q].state # "absent" => Rev(q) <= drafted + 1
    BY <1>4, SmallFacts, BoundsAssumption DEF IInv, DraftInv, TypeOK, Agents, Revisions
  <2>2. \A q \in Parts : part[q].state # "absent" => content'[Rev(q)][Entry(q)] # 0
    BY <1>7 DEF IInv, DraftInv
  <2>3. QED BY <1>1, <2>1, <2>2 DEF DraftInv, Rev, Entry
<1>10. OneUnit'
  <2>1. ASSUME NEW k \in Keys, cache[k] # NoPart
        PROVE  cache[k] \in units /\ \E r \in Routes : <<Entry(cache[k]), content'[Rev(cache[k])][Entry(cache[k])], r>> = k
    <3>1. cache[k] \in units /\ cache[k] \in Parts /\ part[cache[k]].state = "processed"
      BY <2>1 DEF IInv, OneUnit, TypeOK
    <3>2. QED BY <1>7, <2>1, <3>1 DEF IInv, OneUnit, Key
  <2>2. QED BY <1>1, <2>1 DEF IInv, OneUnit, Key, Rev, Entry
<1>11. AloneInv'
  <2>1. SUFFICES ASSUME OneWorker, NEW w \in Workers PROVE Alone(w)'
    BY DEF AloneInv
  <2>2. Alone(w)
    BY <2>1 DEF IInv, AloneInv
  <2>3. ready # 0 => \A q \in Included(ready)' : part'[q].state # "absent"
    <3>1. ASSUME ready # 0 PROVE ready \in Revisions /\ content'[ready] = content[ready]
      BY <1>6, <3>1, IncludedParts DEF IInv, TypeOK, DraftInv
    <3>2. ready # 0 => Included(ready)' = Included(ready)
      BY <1>1, <3>1 DEF Included
    <3>3. QED BY <1>1, <2>2, <3>2 DEF Alone
  <2>4. \A q \in Parts : part'[q].state = "invalidated" =>
           Rev(q) < drafted' /\ (agent[w].phase # "rest" => Rev(q) < agent[w].rev)
    BY <1>1, <1>4, <2>2, SmallFacts DEF Alone, Revisions
  <2>5. \A q \in Parts : thr'[w][q].pc \in Asking =>
           cache'[<<Entry(q), content'[Rev(q)][Entry(q)], thr'[w][q].route>>] = NoPart
    <3>1. \A q \in Parts : thr[w][q].pc \in Asking => part[q].state # "absent"
      BY <2>2 DEF Alone, Live
    <3>2. QED BY <1>1, <1>7, <2>2, <3>1 DEF Alone, Key
  <2>6. QED BY <1>1, <2>2, <2>3, <2>4, <2>5 DEF Alone, Key, Rev, Entry, Live
<1>12. QED BY <1>2, <1>5, <1>8, <1>9, <1>10, <1>11 DEF IInv, ClaimsQuiet, CountsKept

LEMMA ApproveStep == ASSUME IInv, Approve PROVE IInv'
<1>1. /\ UNCHANGED <<content, drafted, part, rows, units, cache, thr, calls, agent, current, ready, holder, stop, expired>>
      /\ holder = Free /\ approved' = drafted
  BY DEF Approve, Unheld
<1>2. ClaimsQuiet /\ CountsKept
  BY <1>1, SameParts
<1>3. LockInv'
  <2>1. \A v \in Workers, q \in Parts : thr[v][q].pc # "call"
    BY <1>1, SmallFacts DEF IInv, LockInv, Free
  <2>2. QED BY <1>1, <2>1 DEF LockInv
<1>4. TypeOK' /\ DraftInv'
  BY <1>1 DEF IInv, TypeOK, DraftInv
<1>5. OneUnit'
  BY <1>1, UnitsQuiet DEF IInv
<1>6. AloneInv'
  BY <1>1 DEF IInv, AloneInv, Alone, Live, Key, Included
<1>7. QED BY <1>2, <1>3, <1>4, <1>5, <1>6 DEF IInv, ClaimsQuiet, CountsKept

LEMMA ClockStep == ASSUME IInv, NEW w \in Workers, RequestStop(w) \/ Expire(w) PROVE IInv'
<1>1. /\ UNCHANGED <<content, drafted, approved, part, rows, units, cache, thr, calls, agent, current, ready, holder>>
      /\ stop' \in [Workers -> BOOLEAN] /\ expired' \in [Workers -> BOOLEAN]
  BY DEF IInv, TypeOK, RequestStop, Expire
<1>2. ClaimsQuiet /\ CountsKept
  BY <1>1, SameParts
<1>3. TypeOK' /\ DraftInv' /\ LockInv' /\ OneUnit'
  BY <1>1, UnitsQuiet DEF IInv, TypeOK, DraftInv, LockInv
<1>4. AloneInv'
  BY <1>1 DEF IInv, AloneInv, Alone, Live, Key, Included
<1>5. QED BY <1>2, <1>3, <1>4 DEF IInv, ClaimsQuiet, CountsKept

LEMMA ComeDueStep == ASSUME IInv, NEW p \in Parts, ComeDue(p) PROVE IInv'
<1>1. /\ UNCHANGED <<content, drafted, approved, rows, units, cache, thr, calls, agent, current, ready, holder, stop, expired>>
      /\ part' = [part EXCEPT ![p] = [part[p] EXCEPT !.due = TRUE]]
      /\ part \in [Parts -> PartType] /\ part[p] \in PartType
  BY DEF IInv, TypeOK, ComeDue, PartType
<1>2. /\ part' \in [Parts -> PartType]
      /\ \A q \in Parts : /\ part'[q].state = part[q].state /\ part'[q].gen = part[q].gen
                           /\ part'[q].tries = part[q].tries
  <2> DEFINE u == [part[p] EXCEPT !.due = TRUE]
  <2>1. u \in PartType /\ u.state = part[p].state /\ u.gen = part[p].gen /\ u.tries = part[p].tries
    BY <1>1 DEF PartType
  <2> HIDE DEF u
  <2>2. QED BY <1>1, <2>1 DEF u
<1>3. part[p].state # "absent"
  BY DEF ComeDue, IInv, PartsInv
<1>4. ClaimsQuiet /\ CountsKept
  <2>1. \A q \in Parts : part'[q].state = "absent" => part'[q].tries = 0 /\ part'[q].due
    <3>1. \A q \in Parts : q # p => part'[q] = part[q]
      BY <1>1
    <3>2. QED BY <1>2, <1>3, <3>1 DEF IInv, PartsInv
  <2>2. Quiet
    BY <1>1, <1>2, <2>1 DEF IInv, Quiet, PartsInv, ThreadsInv
  <2>3. QED BY <1>1, <1>2, <2>2, QuietStep, CountsQuiet DEF IInv, ClaimsQuiet, CountsKept
<1>5. TypeOK' /\ DraftInv' /\ LockInv' /\ OneUnit'
  BY <1>1, <1>2, UnitsQuiet DEF IInv, TypeOK, DraftInv, LockInv, PartType, Rev, Entry
<1>6. AloneInv'
  BY <1>1, <1>2 DEF IInv, AloneInv, Alone, Live, Key, Included
<1>7. QED BY <1>4, <1>5, <1>6 DEF IInv, ClaimsQuiet, CountsKept

(***************************************************************************)
(* Steps of an Agent thread.                                               *)
(***************************************************************************)
OtherAgents(w) == \A v \in Workers : v # w => agent'[v] = agent[v]

LEMMA AgentSet ==
    ASSUME TypeOK, NEW w \in Workers, NEW a \in Agents, agent' = [agent EXCEPT ![w] = a]
    PROVE  agent' \in [Workers -> Agents] /\ agent'[w] = a /\ OtherAgents(w)
BY DEF TypeOK, OtherAgents

LEMMA PhaseEffect ==
    ASSUME TypeOK, NEW w \in Workers, NEW ph \in {"invalidate", "requeue", "drop", "upsert", "frontier"},
           Phase(w, ph)
    PROVE  /\ agent' \in [Workers -> Agents] /\ OtherAgents(w)
           /\ agent'[w].phase = ph /\ agent'[w].rev = agent[w].rev
<1> DEFINE a == [agent[w] EXCEPT !.phase = ph]
<1>1. agent[w] \in Agents
  BY DEF TypeOK
<1>2. a \in Agents /\ a.phase = ph /\ a.rev = agent[w].rev
  BY <1>1 DEF Agents
<1>3. agent' = [agent EXCEPT ![w] = a]
  BY DEF Phase, TypeOK
<1> HIDE DEF a
<1>4. QED BY <1>2, <1>3, AgentSet

LEMMA RestEffect ==
    ASSUME TypeOK, NEW w \in Workers, NEW o \in Outcomes, NEW n \in Nat, Rest(w, o, n)
    PROVE  /\ agent' \in [Workers -> Agents] /\ OtherAgents(w)
           /\ agent'[w].phase = "rest" /\ agent'[w].rev = agent[w].rev
<1> DEFINE a == [agent[w] EXCEPT !.phase = "rest", !.outcome = o, !.left = n]
<1>1. agent[w] \in Agents
  BY DEF TypeOK
<1>2. a \in Agents /\ a.phase = "rest" /\ a.rev = agent[w].rev
  BY <1>1 DEF Agents
<1>3. agent' = [agent EXCEPT ![w] = a]
  BY DEF Rest, TypeOK
<1> HIDE DEF a
<1>4. QED BY <1>2, <1>3, AgentSet

LEMMA LeftCounts == \A r \in 0 .. MaxRevision : Left(r) \in Nat
<1>1. IsFiniteSet(Parts)
  <2>1. IsFiniteSet(Revisions)
    BY FS_Interval, BoundsAssumption DEF Revisions
  <2>2. QED BY <2>1, FS_Product, NamesAssumption DEF Parts
<1>2. ASSUME NEW r \in 0 .. MaxRevision PROVE Left(r) \in Nat
  <2>1. IsFiniteSet(Pending(r, part))
    BY <1>1, FS_Subset DEF Pending
  <2>2. QED BY <2>1, FS_CardinalityType DEF Left
<1>3. QED BY <1>2

\* The agent is all that changes, and it is not in its pool.
LEMMA SameFiles ==
    ASSUME IInv, NEW w \in Workers, agent[w].phase # "pool", agent' \in [Workers -> Agents],
           OtherAgents(w), agent'[w].rev <= drafted,
           agent'[w].phase # "rest" => agent'[w].rev # 0, ready' <= drafted, ready' \in 0 .. MaxRevision,
           UNCHANGED <<content, drafted, approved, part, rows, units, cache, thr, calls, current, holder>>,
           stop' \in [Workers -> BOOLEAN], expired' \in [Workers -> BOOLEAN], OneWorker => Alone(w)'
    PROVE  IInv'
<1>1. \A v \in Workers, q \in Parts : agent'[v].phase # "pool" => thr'[v][q].pc = "none"
  BY DEF IInv, ThreadsInv, OtherAgents
<1>2. Quiet
  BY <1>1 DEF IInv, Quiet, PartsInv
<1>3. ClaimsQuiet /\ CountsKept
  BY <1>2, QuietStep, CountsQuiet DEF IInv, ClaimsQuiet, CountsKept
<1>4. TypeOK' /\ LockInv' /\ OneUnit'
  BY UnitsQuiet DEF IInv, TypeOK, LockInv
<1>5. DraftInv'
  BY DEF IInv, DraftInv, OtherAgents
<1>6. AloneInv'
  BY DEF AloneInv, OneWorker
<1>7. QED BY <1>3, <1>4, <1>5, <1>6 DEF IInv, ClaimsQuiet, CountsKept

LEMMA NoThreads ==
    ASSUME ThreadsInv, NEW w \in Workers, agent[w].phase # "pool"
    PROVE  \A q \in Parts : thr[w][q].pc = "none"
BY DEF ThreadsInv

LEMMA BeginStep == ASSUME IInv, NEW w \in Workers, Begin(w) PROVE IInv'
<1>1. /\ agent[w].phase = "rest" /\ approved # 0 /\ ready' = 0
      /\ agent' = [agent EXCEPT ![w] = [AtRest EXCEPT !.phase = "invalidate", !.rev = approved]]
      /\ UNCHANGED <<content, drafted, approved, part, rows, units, cache, thr, calls, current, holder>>
      /\ stop' \in [Workers -> BOOLEAN] /\ expired' \in [Workers -> BOOLEAN]
  BY DEF IInv, TypeOK, Begin
<1>2. approved = drafted /\ approved \in 0 .. MaxRevision /\ current <= drafted
  BY <1>1 DEF IInv, TypeOK, DraftInv
<1> DEFINE a == [AtRest EXCEPT !.phase = "invalidate", !.rev = approved]
<1>3. a \in Agents /\ a.phase = "invalidate" /\ a.rev = approved
  BY <1>2, SmallFacts DEF Agents, AtRest
<1>4. agent' \in [Workers -> Agents] /\ agent'[w] = a /\ OtherAgents(w)
  <2> HIDE DEF a
  <2>1. agent' = [agent EXCEPT ![w] = a]
    BY <1>1 DEF a
  <2>2. QED BY <1>3, <2>1, AgentSet DEF IInv
<1> HIDE DEF a
<1>5. ASSUME OneWorker PROVE Alone(w)'
  <2>1. Alone(w) /\ \A q \in Parts : thr[w][q].pc = "none"
    BY <1>1, <1>5, NoThreads DEF IInv, AloneInv
  <2>2. QED BY <1>1, <1>2, <1>3, <1>4, <2>1 DEF Alone, Live, Key
<1>6. 0 <= drafted /\ 0 \in 0 .. MaxRevision /\ drafted <= drafted
  BY BoundsAssumption DEF IInv, TypeOK
<1>7. QED BY <1>1, <1>2, <1>3, <1>4, <1>5, <1>6, SameFiles

LEMMA ReturnStep == ASSUME IInv, NEW w \in Workers, Return(w) PROVE IInv'
<1>1. /\ agent[w].phase = "rest" /\ ready # 0 /\ ready' = ready /\ approved = ready
      /\ agent' = [agent EXCEPT ![w] = [AtRest EXCEPT !.phase = "frontier", !.rev = ready]]
      /\ UNCHANGED <<content, drafted, approved, part, rows, units, cache, thr, calls, current, holder>>
      /\ stop' \in [Workers -> BOOLEAN] /\ expired' \in [Workers -> BOOLEAN]
  BY DEF IInv, TypeOK, Return
<1>2. ready \in 0 .. MaxRevision /\ ready <= drafted /\ approved \in {0, drafted}
  BY DEF IInv, TypeOK, DraftInv
<1> DEFINE a == [AtRest EXCEPT !.phase = "frontier", !.rev = ready]
<1>3. a \in Agents /\ a.phase = "frontier" /\ a.rev = ready
  BY <1>2, SmallFacts DEF Agents, AtRest
<1>4. agent' \in [Workers -> Agents] /\ agent'[w] = a /\ OtherAgents(w)
  <2> HIDE DEF a
  <2>1. agent' = [agent EXCEPT ![w] = a]
    BY <1>1 DEF a
  <2>2. QED BY <1>3, <2>1, AgentSet DEF IInv
<1> HIDE DEF a
<1>5. ASSUME OneWorker PROVE Alone(w)'
  <2>1. Alone(w) /\ \A q \in Parts : thr[w][q].pc = "none"
    BY <1>1, <1>5, NoThreads DEF IInv, AloneInv
  <2>2. QED BY <1>1, <1>2, <1>3, <1>4, <2>1 DEF Alone, Live, Key, Included
<1>6. QED BY <1>1, <1>2, <1>3, <1>4, <1>5, SameFiles

LEMMA ClaimNothingStep == ASSUME IInv, NEW w \in Workers, ClaimNothing(w) PROVE IInv'
<1>1. /\ agent[w].phase = "frontier" /\ ready' = ready
      /\ UNCHANGED <<content, drafted, approved, part, rows, units, cache, thr, calls, current, holder>>
      /\ stop' \in [Workers -> BOOLEAN] /\ expired' \in [Workers -> BOOLEAN]
  BY DEF IInv, TypeOK, ClaimNothing
<1>2. Left(agent[w].rev) \in Nat
  BY LeftCounts DEF IInv, TypeOK, Agents
<1>3. PICK o \in Outcomes : Rest(w, o, Left(agent[w].rev))
  BY DEF ClaimNothing, Outcomes
<1>4. /\ agent' \in [Workers -> Agents] /\ OtherAgents(w)
      /\ agent'[w].phase = "rest" /\ agent'[w].rev = agent[w].rev
  BY <1>2, <1>3, RestEffect DEF IInv
<1>5. ASSUME OneWorker PROVE Alone(w)'
  <2>1. Alone(w) /\ \A q \in Parts : thr[w][q].pc = "none"
    BY <1>1, <1>5, NoThreads DEF IInv, AloneInv
  <2>2. QED BY <1>1, <1>4, <2>1 DEF Alone, Live, Key, Included
<1>6. ready \in 0 .. MaxRevision /\ ready <= drafted /\ agent[w].rev <= drafted
  BY DEF IInv, TypeOK, DraftInv
<1>7. QED BY <1>1, <1>4, <1>5, <1>6, SameFiles

LEMMA InvalidateStep == ASSUME IInv, NEW w \in Workers, Invalidate(w) PROVE IInv'
<1>1. /\ agent[w].phase = "invalidate" /\ agent[w] \in Agents /\ agent[w].rev \in 0 .. MaxRevision
      /\ UNCHANGED <<content, drafted, approved, current, ready, rows, thr, calls, holder, stop, expired>>
  BY DEF IInv, TypeOK, Invalidate, Agents
<1>2. \A q \in Parts : thr[w][q].pc = "none"
  BY <1>1, NoThreads DEF IInv
<1>3. CASE Phase(w, "requeue") /\ UNCHANGED <<part, units, cache>>
  <2>1. /\ agent' \in [Workers -> Agents] /\ OtherAgents(w)
        /\ agent'[w].phase = "requeue" /\ agent'[w].rev = agent[w].rev
    BY <1>3, PhaseEffect DEF IInv
  <2>2. ASSUME OneWorker PROVE Alone(w)'
    <3>1. Alone(w)
      BY <2>2 DEF IInv, AloneInv
    <3>2. QED BY <1>1, <1>2, <1>3, <2>1, <3>1 DEF Alone, Live, Key, Included
  <2>3. ready \in 0 .. MaxRevision /\ ready <= drafted /\ agent[w].rev <= drafted /\ agent[w].rev # 0
    BY <1>1 DEF IInv, TypeOK, DraftInv
  <2>4. stop \in [Workers -> BOOLEAN] /\ expired \in [Workers -> BOOLEAN]
    BY DEF IInv, TypeOK
  <2>5. QED BY <1>1, <1>3, <2>1, <2>2, <2>3, <2>4, SameFiles
<1>4. ASSUME NEW p \in Changed(agent[w].rev),
             part' = [part EXCEPT ![p].state = "invalidated", ![p].due = TRUE],
             units' = units \ {p}, cache' = Cascaded({p}), UNCHANGED agent
      PROVE  IInv'
  <2>1. /\ p \in Parts /\ part[p].state \notin {"absent", "invalidated"}
        /\ Rev(p) = current /\ current # agent[w].rev /\ part[p] \in PartType
        /\ part \in [Parts -> PartType]
    BY <1>4 DEF Changed, Of, IInv, TypeOK, PartType
  <2>2. /\ part' \in [Parts -> PartType]
        /\ part'[p].state = "invalidated" /\ part'[p].gen = part[p].gen /\ part'[p].tries = part[p].tries
        /\ \A q \in Parts : q # p => part'[q] = part[q]
    <3> DEFINE u == [part[p] EXCEPT !.state = "invalidated", !.due = TRUE]
    <3>1. u \in PartType /\ u.state = "invalidated" /\ u.gen = part[p].gen /\ u.tries = part[p].tries
      BY <2>1 DEF PartType, States
    <3>2. part' = [part EXCEPT ![p] = u]
      BY <1>4, <2>1
    <3> HIDE DEF u
    <3>3. QED BY <2>1, <3>1, <3>2
  <2>3. Quiet
    BY <1>1, <1>4, <2>1, <2>2 DEF IInv, Quiet, PartsInv, ThreadsInv
  <2>4. OneWorker => \A v \in Workers, q \in Parts : ~Live(v, q)
    BY <1>2 DEF OneWorker, Live
  <2>5. ClaimsQuiet /\ CountsKept
    BY <1>1, <2>2, <2>3, <2>4, QuietStep, CountsQuiet DEF IInv, ClaimsQuiet, CountsKept
  <2>6. /\ units' \subseteq Parts /\ cache' \in [Keys -> Parts \cup {NoPart}]
        /\ \A k \in Keys : cache'[k] = IF cache[k] = p THEN NoPart ELSE cache[k]
    BY <1>4 DEF IInv, TypeOK, Cascaded
  <2>7. TypeOK' /\ LockInv'
    BY <1>1, <1>4, <2>2, <2>6 DEF IInv, TypeOK, LockInv, PartType
  <2>8. DraftInv'
    BY <1>1, <1>4, <2>1, <2>2 DEF IInv, DraftInv
  <2>9. OneUnit'
    <3>1. \A q \in Parts : q \in units' <=> part'[q].state = "processed"
      BY <1>4, <2>2 DEF IInv, OneUnit
    <3>2. \A k \in Keys : cache'[k] # NoPart => cache'[k] = cache[k] /\ cache'[k] \in units'
      BY <1>4, <2>6 DEF IInv, OneUnit
    <3>3. \A k \in Keys : cache[k] # NoPart =>
             \E r \in Routes : <<Entry(cache[k]), content[Rev(cache[k])][Entry(cache[k])], r>> = k
      BY DEF IInv, OneUnit, Key
    <3>4. \A k \in Keys : cache'[k] # NoPart =>
             \E r \in Routes : <<Entry(cache'[k]), content[Rev(cache'[k])][Entry(cache'[k])], r>> = k
      BY <3>2, <3>3
    <3>5. QED BY <1>1, <3>1, <3>2, <3>4 DEF OneUnit, Key, Rev, Entry
  <2>10. AloneInv'
    <3>1. SUFFICES ASSUME OneWorker PROVE Alone(w)'
      BY DEF AloneInv, OneWorker
    <3>2. Alone(w)
      BY <3>1 DEF IInv, AloneInv
    <3>3. Rev(p) < drafted /\ Rev(p) < agent[w].rev
      <4>1. /\ current <= agent[w].rev /\ agent[w].rev <= drafted
            /\ current \in Int /\ agent[w].rev \in Int /\ drafted \in Int
        BY <1>1, <3>2, BoundsAssumption DEF Alone, IInv, DraftInv, TypeOK, Agents
      <4>2. QED BY <2>1, <4>1
    <3>4. ready = 0
      BY <1>1, <3>2 DEF Alone
    <3>5. QED BY <1>1, <1>2, <1>4, <2>1, <2>2, <3>2, <3>3, <3>4 DEF Alone, Live, Key
  <2>11. QED BY <2>5, <2>7, <2>8, <2>9, <2>10 DEF IInv, ClaimsQuiet, CountsKept
<1>5. QED BY <1>3, <1>4 DEF Invalidate

LEMMA RequeueStep == ASSUME IInv, NEW w \in Workers, Requeue(w) PROVE IInv'
<1> DEFINE failed == {p \in Of(agent[w].rev) : part[p].state = "failed" /\ current = Rev(p)}
<1>1. /\ agent[w].phase = "requeue" /\ Phase(w, "drop")
      /\ UNCHANGED <<content, drafted, approved, current, ready, units, cache, thr, calls, holder, stop, expired>>
      /\ part' = [p \in Parts |-> IF p \notin failed THEN part[p]
                                  ELSE IF part[p].tries = 0 THEN Gone(p)
                                  ELSE [part[p] EXCEPT !.state = "prepared", !.due = TRUE]]
      /\ rows' = [p \in Parts |-> IF p \in failed THEN Kept(rows[p]) ELSE rows[p]]
  BY DEF Requeue
<1>2. rows' = rows
  BY <1>1 DEF IInv, TypeOK, Kept
<1>3. /\ agent' \in [Workers -> Agents] /\ OtherAgents(w)
      /\ agent'[w].phase = "drop" /\ agent'[w].rev = agent[w].rev
  BY <1>1, PhaseEffect DEF IInv
<1>4. \A q \in Parts : thr[w][q].pc = "none"
  BY <1>1, NoThreads DEF IInv
<1>5. \A q \in Parts : q \in failed => part[q].state = "failed"
  OBVIOUS
<1> HIDE DEF failed
<1>6. ASSUME NEW q \in Parts
      PROVE  /\ part'[q] \in PartType
             /\ part'[q].gen = part[q].gen /\ part'[q].tries = part[q].tries
             /\ \/ part'[q] = part[q]
                \/ part[q].state = "failed" /\ part'[q].state = "absent" /\ part'[q].tries = 0 /\ part'[q].due
                \/ part[q].state = "failed" /\ part'[q].state = "prepared"
  <2>1. part[q] \in PartType
    BY DEF IInv, TypeOK, PartType
  <2>2. CASE q \notin failed
    BY <1>1, <2>1, <2>2
  <2>3. CASE q \in failed /\ part[q].tries = 0
    <3>1. part'[q] = Gone(q) /\ part[q].state = "failed"
      BY <1>1, <1>5, <2>3
    <3>2. QED BY <2>1, <2>3, <3>1 DEF Gone, Absent, PartType, States
  <2>4. CASE q \in failed /\ part[q].tries # 0
    <3>1. part'[q] = [part[q] EXCEPT !.state = "prepared", !.due = TRUE] /\ part[q].state = "failed"
      BY <1>1, <1>5, <2>4
    <3>2. QED BY <2>1, <3>1 DEF PartType, States
  <2>5. QED BY <2>2, <2>3, <2>4
<1>7. Quiet
  <2>1. \A q \in Parts :
          /\ part'[q].gen = part[q].gen /\ part'[q].tries = part[q].tries
          /\ part'[q].state = "absent" => part'[q].tries = 0 /\ part'[q].due
          /\ part'[q].state = "running" => part[q].state = "running"
    BY <1>6 DEF IInv, PartsInv
  <2>2. \A v \in Workers, q \in Parts : agent'[v].phase # "pool" => thr'[v][q].pc = "none"
    BY <1>1, <1>3, <1>4 DEF IInv, ThreadsInv, OtherAgents
  <2>3. QED BY <1>1, <1>2, <2>1, <2>2 DEF Quiet
<1>8. ClaimsQuiet /\ CountsKept
  <2>1. OneWorker => \A v \in Workers, q \in Parts : ~Live(v, q)
    BY <1>4 DEF OneWorker, Live
  <2>2. \A q \in Parts : part[q].state \in {"processed", "invalidated"} =>
           part'[q].state \in {"processed", "invalidated"}
    BY <1>6
  <2>3. QED BY <1>1, <1>2, <1>7, <2>1, <2>2, QuietStep, CountsQuiet DEF IInv, ClaimsQuiet, CountsKept
<1>9. TypeOK'
  <2>1. part' \in [Parts -> PartType]
    BY <1>1, <1>6
  <2>2. QED BY <1>1, <1>2, <1>3, <2>1 DEF IInv, TypeOK, PartType
<1>10. LockInv'
  BY <1>1 DEF IInv, LockInv
<1>11. DraftInv'
  <2>1. \A q \in Parts : part'[q].state # "absent" => part[q].state # "absent"
    BY <1>6
  <2>2. \A v \in Workers : agent'[v].rev = agent[v].rev /\ (agent'[v].phase # "rest" => agent[v].phase # "rest")
    BY <1>1, <1>3 DEF OtherAgents
  <2>3. QED BY <1>1, <2>1, <2>2 DEF IInv, DraftInv
<1>12. OneUnit'
  <2>1. \A q \in Parts : part'[q].state = "processed" <=> part[q].state = "processed"
    BY <1>6
  <2>2. QED BY <1>1, <2>1, UnitsQuiet DEF IInv
<1>13. AloneInv'
  <2>1. SUFFICES ASSUME OneWorker PROVE Alone(w)'
    BY DEF AloneInv, OneWorker
  <2>2. Alone(w)
    BY <2>1 DEF IInv, AloneInv
  <2>3. \A q \in Parts : /\ part'[q].state = "invalidated" => part[q].state = "invalidated"
                         /\ part'[q].state # "absent" => part[q].state # "absent"
    BY <1>6
  <2>4. QED BY <1>1, <1>3, <1>4, <2>2, <2>3 DEF Alone, Live, Key
<1>14. QED BY <1>8, <1>9, <1>10, <1>11, <1>12, <1>13 DEF IInv, ClaimsQuiet, CountsKept

LEMMA DropStep == ASSUME IInv, NEW w \in Workers, Drop(w) PROVE IInv'
<1> DEFINE stale == {p \in Included(agent[w].rev) : part[p].state = "invalidated"}
<1>1. /\ agent[w].phase = "drop" /\ agent[w].rev \in 0 .. MaxRevision /\ agent[w].rev # 0
      /\ agent[w].rev <= drafted /\ ready <= drafted /\ ready \in 0 .. MaxRevision
      /\ UNCHANGED <<content, drafted, approved, current, ready, units, cache, thr, calls, holder, stop, expired>>
      /\ stop \in [Workers -> BOOLEAN] /\ expired \in [Workers -> BOOLEAN]
  BY DEF IInv, TypeOK, DraftInv, Agents, Drop
<1>2. \A q \in Parts : thr[w][q].pc = "none"
  BY <1>1, NoThreads DEF IInv
<1>3. /\ agent' \in [Workers -> Agents] /\ OtherAgents(w)
      /\ agent'[w].phase = "upsert" /\ agent'[w].rev = agent[w].rev
  BY PhaseEffect DEF IInv, Drop
<1>4. /\ part' = [p \in Parts |-> IF p \in stale THEN Gone(p) ELSE part[p]]
      /\ rows' = [p \in Parts |-> IF p \in stale THEN {} ELSE rows[p]]
      /\ part \in [Parts -> PartType] /\ rows \in [Parts -> SUBSET [n : Nat, route : AllRoutes]]
      /\ agent \in [Workers -> Agents]
  BY DEF Drop, IInv, TypeOK, PartType
<1>5. CASE stale = {}
  <2>1. part' = part /\ rows' = rows
    BY <1>4, <1>5
  <2>2. ASSUME OneWorker PROVE Alone(w)'
    <3>1. Alone(w)
      BY <2>2 DEF IInv, AloneInv
    <3>2. QED BY <1>1, <1>2, <1>3, <2>1, <3>1 DEF Alone, Live, Key, Included
  <2>3. QED BY <1>1, <1>3, <2>1, <2>2, SameFiles
<1>6. ASSUME NEW o \in stale PROVE IInv'
  <2>1. \A p \in stale : p \in Parts /\ part[p].state = "invalidated" /\ Rev(p) = agent[w].rev
    BY <1>1, IncludedParts DEF IInv, Included, Rev
  <2>2. /\ part' \in [Parts -> PartType] /\ rows' \in [Parts -> SUBSET [n : Nat, route : AllRoutes]]
        /\ \A p \in stale : /\ part'[p].state = "absent" /\ part'[p].gen = part[p].gen
                            /\ part'[p].tries = 0 /\ part'[p].due /\ rows'[p] = {}
        /\ \A q \in Parts : q \notin stale => part'[q] = part[q] /\ rows'[q] = rows[q]
    <3>1. ASSUME NEW p \in stale
          PROVE  /\ Gone(p) \in PartType /\ Gone(p).state = "absent" /\ Gone(p).gen = part[p].gen
                 /\ Gone(p).tries = 0 /\ Gone(p).due
      <4>1. part[p] \in PartType
        BY <1>4, <2>1
      <4>2. QED BY <4>1 DEF Gone, Absent, PartType, States
    <3> HIDE DEF stale
    <3>2. \A q \in Parts : /\ part'[q] = IF q \in stale THEN Gone(q) ELSE part[q]
                           /\ rows'[q] = IF q \in stale THEN {} ELSE rows[q]
      BY <1>4
    <3>3. part' \in [Parts -> PartType] /\ rows' \in [Parts -> SUBSET [n : Nat, route : AllRoutes]]
      BY <1>4, <3>1
    <3>4. QED BY <2>1, <3>1, <3>2, <3>3
  <2>3. ~OneWorker     \* what one Worker invalidated is of an older revision
    <3>1. ASSUME OneWorker PROVE FALSE
      <4>1. Alone(w)
        BY <3>1 DEF IInv, AloneInv
      <4>2. Rev(o) < agent[w].rev
        BY <1>1, <2>1, <4>1 DEF Alone
      <4>3. QED BY <1>1, <2>1, <4>2
    <3>2. QED BY <3>1
  <2>4. \A v \in Workers, q \in Parts : Current(v, q)' => Current(v, q)
    BY <1>1, <2>2 DEF Current, Live
  <2>5. PartsInv'
    <3>1. \A q \in stale : IsFiniteSet(rows'[q])
      BY <2>2, FS_EmptySet
    <3>2. \A q \in Parts : IsFiniteSet(rows'[q]) /\ \A x \in rows'[q] : x.n \in 1 .. part'[q].tries
      BY <2>2, <3>1 DEF IInv, PartsInv
    <3>3. QED BY <2>2, <3>2 DEF IInv, PartsInv
  <2>6. ThreadsInv'
    <3>1. \A v \in Workers, q \in Parts : Live(v, q)' => thr'[v][q].token \in 1 .. part'[q].gen
      BY <1>1, <2>2 DEF IInv, ThreadsInv, Live
    <3>2. \A v \in Workers, q \in Parts : agent'[v].phase # "pool" => thr'[v][q].pc = "none"
      BY <1>1, <1>2, <1>3 DEF IInv, ThreadsInv, OtherAgents
    <3>3. QED BY <1>1, <2>4, <3>1, <3>2 DEF IInv, ThreadsInv, Live
  <2>7. TurnsInv'
    <3>1. ASSUME NEW v \in Workers, NEW q \in Parts, Current(v, q)' PROVE TurnOK(v, q)'
      <4>1. TurnOK(v, q)
        BY <2>4, <3>1 DEF IInv, TurnsInv, TurnOK
      <4>2. CASE q \notin stale
        <5>1. {x \in rows'[q] : x.route = thr'[v][q].route} = Rows(q, thr[v][q].route)
          BY <1>1, <2>2, <4>2 DEF Rows
        <5>2. QED BY <1>1, <2>2, <4>1, <4>2, <5>1 DEF TurnOK, Rows
      <4>3. CASE q \in stale
        <5>1. {x \in rows'[q] : x.route = thr'[v][q].route} = {} /\ Cardinality({}) = 0
          BY <2>2, <4>3, FS_EmptySet
        <5>2. thr[v][q] \in Threads /\ thr[v][q].turn \in Nat
          <6>1. thr[v][q] \in Threads
            BY <2>1 DEF IInv, TypeOK
          <6>2. QED BY <6>1, BoundsAssumption DEF Threads
        <5>3. thr[v][q].route \in AllRoutes /\ Cardinality(Rows(q, thr[v][q].route)) \in Nat
          <6>1. thr[v][q].route \in AllRoutes
            BY <5>2 DEF Threads
          <6>2. QED BY <2>1, <6>1, RowsSame DEF IInv
        <5>4. /\ thr[v][q].pc \in Trying => 0 < thr[v][q].turn
              /\ thr[v][q].pc = "wait" => 0 <= thr[v][q].turn /\ thr[v][q].turn < MaxAttempts
          BY <4>1, <4>3, <5>2, <5>3 DEF TurnOK
        <5>5. Cardinality({x \in rows'[q] : x.route = thr'[v][q].route}) = 0
          BY <5>1
        <5>6. thr' = thr /\ rows'[q] = {} /\ part'[q].state # "running"
          BY <1>1, <2>2, <4>3
        <5>7. QED BY <4>3, <5>4, <5>5, <5>6 DEF TurnOK, Rows
      <4>4. QED BY <4>2, <4>3
    <3>2. QED BY <3>1 DEF TurnsInv, TurnOK
  <2>8. AttemptLimit'
    <3>1. ASSUME NEW q \in Parts, NEW x \in Routes PROVE Cardinality(Rows(q, x)') <= MaxAttempts
      <4>1. CASE q \in stale
        <5>1. Rows(q, x)' = {}
          BY <2>2, <4>1 DEF Rows
        <5>2. QED BY <5>1, FS_EmptySet, BoundsAssumption
      <4>2. CASE q \notin stale
        <5>1. Rows(q, x)' = Rows(q, x)
          BY <2>2, <4>2 DEF Rows
        <5>2. QED BY <5>1 DEF IInv, AttemptLimit
      <4>3. QED BY <4>1, <4>2
    <3>2. QED BY <3>1 DEF AttemptLimit
  <2>9. RunningHeld'
    <3>1. \A q \in Parts : part'[q].state = "running" => part'[q] = part[q] /\ part[q].state = "running"
      BY <2>2
    <3>2. QED BY <1>1, <3>1 DEF IInv, RunningHeld, Current, Live
  <2>10. TypeOK' /\ LockInv'
    BY <1>1, <1>3, <2>2 DEF IInv, TypeOK, LockInv, PartType
  <2>11. DraftInv'
    <3>1. \A q \in Parts : part'[q].state # "absent" => part[q].state # "absent"
      BY <2>2
    <3>2. \A v \in Workers : agent'[v].rev = agent[v].rev /\ (agent'[v].phase # "rest" => agent[v].phase # "rest")
      BY <1>1, <1>3 DEF OtherAgents
    <3>3. QED BY <1>1, <3>1, <3>2 DEF IInv, DraftInv
  <2>12. OneUnit'
    <3>1. \A q \in Parts : part'[q].state = "processed" <=> part[q].state = "processed"
      BY <2>1, <2>2
    <3>2. QED BY <1>1, <3>1, UnitsQuiet DEF IInv
  <2>13. AloneInv' /\ UndisturbedInv' /\ CallLimitInv'
    BY <2>3 DEF AloneInv, UndisturbedInv, CallLimitInv, OneWorker
  <2>14. QED BY <2>5, <2>6, <2>7, <2>8, <2>9, <2>10, <2>11, <2>12, <2>13 DEF IInv
<1>7. QED BY <1>5, <1>6

LEMMA UpsertStep == ASSUME IInv, NEW w \in Workers, Upsert(w) PROVE IInv'
<1> DEFINE r == agent[w].rev
<1>1. /\ agent[w].phase = "upsert" /\ holder = Free /\ r \in 0 .. MaxRevision
      /\ UNCHANGED <<content, drafted, approved, rows, units, cache, thr, calls, holder, stop, expired>>
      /\ stop \in [Workers -> BOOLEAN] /\ expired \in [Workers -> BOOLEAN]
      /\ ready \in 0 .. MaxRevision /\ ready <= drafted /\ r <= drafted /\ r # 0
  BY DEF IInv, TypeOK, DraftInv, Upsert, Unheld, Agents
<1>2. \A q \in Parts : thr[w][q].pc = "none"
  BY <1>1, NoThreads DEF IInv
<1>3. CASE Rest(w, "revoked", 0) /\ UNCHANGED <<current, ready, part>>
  <2>1. /\ agent' \in [Workers -> Agents] /\ OtherAgents(w)
        /\ agent'[w].phase = "rest" /\ agent'[w].rev = r
    BY <1>3, RestEffect DEF IInv, Outcomes
  <2>2. ASSUME OneWorker PROVE Alone(w)'
    <3>1. Alone(w)
      BY <2>2 DEF IInv, AloneInv
    <3>2. QED BY <1>1, <1>2, <1>3, <2>1, <3>1 DEF Alone, Live, Key, Included
  <2>3. QED BY <1>1, <1>3, <2>1, <2>2, SameFiles
<1>4. CASE Missing(r) = {} /\ Phase(w, "frontier") /\ ready' = r /\ UNCHANGED <<current, part>>
  <2>1. /\ agent' \in [Workers -> Agents] /\ OtherAgents(w)
        /\ agent'[w].phase = "frontier" /\ agent'[w].rev = r
    BY <1>4, PhaseEffect DEF IInv
  <2>2. ASSUME OneWorker PROVE Alone(w)'
    <3>1. Alone(w)
      BY <2>2 DEF IInv, AloneInv
    <3>2. \A q \in Included(r) : part[q].state # "absent"
      BY <1>4 DEF Missing, Of
    <3>3. Included(ready)' = Included(r)
      BY <1>1, <1>4 DEF Included
    <3>4. \A q \in Included(ready)' : part'[q].state # "absent"
      BY <1>4, <3>2, <3>3
    <3>5. QED BY <1>1, <1>2, <1>4, <2>1, <3>1, <3>4 DEF Alone, Live, Key
  <2>3. QED BY <1>1, <1>4, <2>1, <2>2, SameFiles
<1>5. ASSUME approved = r, NEW p \in Missing(r), NEW s \in {"prepared", "failed"},
             part' = [part EXCEPT ![p] = [Gone(p) EXCEPT !.state = s]],
             current' = r, UNCHANGED <<ready, agent>>
      PROVE  IInv'
  <2>1. /\ r \in Revisions /\ p \in Parts /\ Rev(p) = r /\ content[r][Entry(p)] # 0
        /\ part[p].state = "absent" /\ part[p].tries = 0 /\ drafted = r
    <3>1. p \in Included(r) /\ p \notin Of(r)
      BY <1>5 DEF Missing
    <3>2. r \in Revisions /\ Included(r) \subseteq Parts
      BY <1>1, IncludedParts DEF IInv
    <3>3. Rev(p) = r /\ content[r][Entry(p)] # 0
      BY <3>1 DEF Included, Rev, Entry
    <3>4. part[p].state = "absent"
      BY <3>1, <3>2, <3>3 DEF Of
    <3>5. QED BY <1>1, <1>5, <3>1, <3>2, <3>3, <3>4 DEF IInv, PartsInv, DraftInv
  <2>2. /\ part' \in [Parts -> PartType]
        /\ part'[p].state = s /\ part'[p].gen = part[p].gen /\ part'[p].tries = 0
        /\ \A q \in Parts : q # p => part'[q] = part[q]
    <3> DEFINE u == [Gone(p) EXCEPT !.state = s]
    <3>1. u \in PartType /\ u.state = s /\ u.gen = part[p].gen /\ u.tries = 0
      <4>1. part[p] \in PartType
        BY <2>1 DEF IInv, TypeOK, PartType
      <4>2. QED BY <4>1 DEF Gone, Absent, PartType, States
    <3>2. part' = [part EXCEPT ![p] = u] /\ part \in [Parts -> PartType]
      BY <1>5 DEF IInv, TypeOK, PartType
    <3> HIDE DEF u
    <3>3. QED BY <2>1, <3>1, <3>2
  <2>3. part'[p].tries = part[p].tries
    BY <2>1, <2>2
  <2>4. Quiet
    BY <1>1, <1>5, <2>2, <2>3 DEF IInv, Quiet, PartsInv, ThreadsInv
  <2>5. OneWorker => \A v \in Workers, q \in Parts : ~Live(v, q)
    BY <1>2 DEF OneWorker, Live
  <2>6. ClaimsQuiet /\ CountsKept
    BY <1>1, <2>1, <2>2, <2>4, <2>5, QuietStep, CountsQuiet DEF IInv, ClaimsQuiet, CountsKept
  <2>7. TypeOK' /\ LockInv'
    BY <1>1, <1>5, <2>2 DEF IInv, TypeOK, LockInv, PartType
  <2>8. DraftInv'
    <3>1. \A q \in Parts : part'[q].state # "absent" => Rev(q) <= drafted /\ content[Rev(q)][Entry(q)] # 0
      BY <1>1, <2>1, <2>2 DEF IInv, DraftInv
    <3>2. QED BY <1>1, <1>5, <3>1 DEF IInv, DraftInv, Rev, Entry
  <2>9. OneUnit'
    BY <1>1, <2>1, <2>2, UnitsQuiet DEF IInv
  <2>10. AloneInv'
    <3>1. SUFFICES ASSUME OneWorker PROVE Alone(w)'
      BY DEF AloneInv, OneWorker
    <3>2. Alone(w)
      BY <3>1 DEF IInv, AloneInv
    <3>3. ready = 0 /\ current <= r /\ current \in Nat /\ r \in Nat
      BY <1>1, <3>2, BoundsAssumption DEF Alone, IInv, TypeOK
    <3>4. \A q \in Parts : part'[q].state # "absent" => Rev(q) <= r
      <4>1. ASSUME NEW q \in Parts, part'[q].state # "absent" PROVE Rev(q) <= r
        <5>1. CASE q = p
          BY <2>1, <3>3, <5>1
        <5>2. CASE q # p
          <6>1. Rev(q) <= current /\ Rev(q) \in Nat
            BY <2>2, <3>2, <4>1, <5>2, SmallFacts DEF Alone, Revisions
          <6>2. QED BY <3>3, <6>1
        <5>3. QED BY <5>1, <5>2
      <4>2. QED BY <4>1
    <3>5. \A q \in Parts : part'[q].state = "invalidated" => Rev(q) < drafted /\ Rev(q) < r
      BY <1>1, <2>2, <3>2 DEF Alone
    <3>6. QED BY <1>1, <1>2, <1>5, <3>3, <3>4, <3>5 DEF Alone, Live, Key
  <2>11. QED BY <2>6, <2>7, <2>8, <2>9, <2>10 DEF IInv, ClaimsQuiet, CountsKept
<1>6. QED BY <1>1, <1>3, <1>4, <1>5 DEF Upsert

LEMMA CollectStep == ASSUME IInv, NEW w \in Workers, Collect(w) PROVE IInv'
<1>1. /\ agent[w].phase = "pool" /\ \A q \in Parts : ~Live(w, q)
      /\ thr' = [thr EXCEPT ![w] = [q \in Parts |-> NoThread]]
      /\ UNCHANGED <<content, drafted, approved, current, ready, part, rows, units, cache, calls, holder, stop, expired>>
  BY DEF Collect
<1>2. Left(agent[w].rev) \in Nat
  BY LeftCounts DEF IInv, TypeOK, Agents
<1>3. PICK o \in Outcomes : Rest(w, o, Left(agent[w].rev))
  BY DEF Collect, Outcome, Outcomes
<1>4. /\ agent' \in [Workers -> Agents] /\ OtherAgents(w)
      /\ agent'[w].phase = "rest" /\ agent'[w].rev = agent[w].rev
  BY <1>2, <1>3, RestEffect DEF IInv
<1>5. /\ thr' \in ThreadsType /\ \A q \in Parts : thr'[w][q] = NoThread
      /\ \A v \in Workers : v # w => thr'[v] = thr[v]
  BY <1>1, SmallFacts DEF IInv, TypeOK, ThreadsType
<1>6. Quiet
  BY <1>1, <1>4, <1>5 DEF IInv, Quiet, PartsInv, ThreadsInv, OtherAgents, NoThread
<1>7. ClaimsQuiet
  BY <1>6, QuietStep DEF IInv, ClaimsQuiet
<1>8. TypeOK' /\ DraftInv' /\ OneUnit'
  BY <1>1, <1>4, <1>5, UnitsQuiet DEF IInv, TypeOK, DraftInv, OtherAgents, ThreadsType
<1>9. LockInv'
  BY <1>1, <1>5 DEF IInv, LockInv, NoThread
<1>10. AloneInv'
  <2>1. SUFFICES ASSUME OneWorker PROVE Alone(w)'
    BY DEF AloneInv, OneWorker
  <2>2. Alone(w)
    BY <2>1 DEF IInv, AloneInv
  <2>3. \A q \in Parts : thr'[w][q].pc = "none"
    BY <1>5 DEF NoThread
  <2>4. QED BY <1>1, <1>4, <2>2, <2>3 DEF Alone, Live, Key, Included
<1>11. CountsKept
  <2>1. CallLimitInv'
    BY <1>1 DEF IInv, CallLimitInv, CallLimit
  <2>2. SUFFICES ASSUME OneWorker, ~CanCrash, ~CanFail PROVE Undisturbed(w)'
    BY <2>1 DEF CountsKept, UndisturbedInv, OneWorker
  <2>3. Undisturbed(w)
    BY <2>2 DEF IInv, UndisturbedInv
  <2>4. \A q \in Parts : thr'[w][q].pc = "none"
    BY <1>5 DEF NoThread
  <2>5. \A q \in Parts, r \in Routes : calls'[q][r] <= Allowed(w, q, r)'
    <3>1. ASSUME NEW q \in Parts, NEW r \in Routes PROVE calls'[q][r] <= Allowed(w, q, r)'
      <4>1. calls[q][r] <= Allowed(w, q, r) /\ Rows(q, r)' = Rows(q, r)
        BY <1>1, <2>3 DEF Undisturbed, Allowed, Rows
      <4>2. thr[w][q].pc \notin Called /\ thr'[w][q].pc \notin Called
        BY <1>1, <2>4 DEF Live
      <4>3. QED BY <1>1, <4>1, <4>2 DEF Allowed
    <3>2. QED BY <3>1
  <2>6. QED BY <2>4, <2>5 DEF Undisturbed, Allowed
<1>12. QED BY <1>7, <1>8, <1>9, <1>10, <1>11 DEF IInv, ClaimsQuiet, CountsKept

LEMMA RestartStep == ASSUME IInv, NEW w \in Workers, Restart(w) PROVE IInv'
<1>1. /\ CanCrash /\ part' = Recovered
      /\ thr' = [thr EXCEPT ![w] = [q \in Parts |-> NoThread]]
      /\ agent' = [agent EXCEPT ![w] = AtRest] /\ stop' \in [Workers -> BOOLEAN]
      /\ holder' = IF holder[1] = w THEN Free ELSE holder
      /\ UNCHANGED <<content, drafted, approved, current, ready, rows, units, cache, calls, expired>>
  BY DEF Restart, IInv, TypeOK
<1>2. ASSUME NEW q \in Parts
      PROVE  /\ part'[q] \in PartType
             /\ part'[q].gen = part[q].gen /\ part'[q].tries = part[q].tries
             /\ \/ part[q].state # "running" /\ part'[q] = part[q]
                \/ part[q].state = "running" /\ part'[q].state = "retry_wait"
  <2>1. part[q] \in PartType
    BY DEF IInv, TypeOK, PartType
  <2>2. CASE part[q].state = "running"
    <3>1. part'[q] = [part[q] EXCEPT !.state = "retry_wait", !.due = TRUE]
      BY <1>1, <2>2 DEF Recovered
    <3>2. QED BY <2>1, <2>2, <3>1 DEF PartType, States
  <2>3. CASE part[q].state # "running"
    BY <1>1, <2>1, <2>3 DEF Recovered
  <2>4. QED BY <2>2, <2>3
<1>3. /\ agent' \in [Workers -> Agents] /\ OtherAgents(w) /\ agent'[w] = AtRest
  BY <1>1, SmallFacts, AgentSet DEF IInv
<1>4. /\ thr' \in ThreadsType /\ \A q \in Parts : thr'[w][q] = NoThread
      /\ \A v \in Workers : v # w => thr'[v] = thr[v]
  BY <1>1, SmallFacts DEF IInv, TypeOK, ThreadsType
<1>5. Quiet
  <2>1. \A q \in Parts :
          /\ part'[q].gen = part[q].gen /\ part'[q].tries = part[q].tries
          /\ part'[q].state = "absent" => part'[q].tries = 0 /\ part'[q].due
          /\ part'[q].state # "running"
    BY <1>2 DEF IInv, PartsInv
  <2>2. \A v \in Workers, q \in Parts : thr'[v][q] = thr[v][q] \/ thr'[v][q] = NoThread
    BY <1>4
  <2>3. \A v \in Workers, q \in Parts : agent'[v].phase # "pool" => thr'[v][q].pc = "none"
    BY <1>3, <1>4 DEF IInv, ThreadsInv, OtherAgents, NoThread
  <2>4. QED BY <1>1, <2>1, <2>2, <2>3 DEF Quiet
<1>6. ClaimsQuiet
  BY <1>5, QuietStep DEF IInv, ClaimsQuiet
<1>7. TypeOK'
  <2>1. part' \in [Parts -> PartType]
    BY <1>1, <1>2 DEF Recovered
  <2>2. holder' \in (Workers \X Parts) \cup {Free}
    BY <1>1 DEF IInv, TypeOK
  <2>3. QED BY <1>1, <1>3, <1>4, <2>1, <2>2 DEF IInv, TypeOK, PartType, ThreadsType
<1>8. DraftInv'
  <2>1. \A q \in Parts : part'[q].state # "absent" => part[q].state # "absent"
    BY <1>2
  <2>2. drafted \in Nat
    BY BoundsAssumption DEF IInv, TypeOK
  <2>3. \A v \in Workers : agent'[v].rev <= drafted /\ (agent'[v].phase # "rest" => agent'[v].rev # 0)
    BY <1>3, <2>2 DEF IInv, DraftInv, OtherAgents, AtRest
  <2>4. QED BY <1>1, <2>1, <2>3 DEF IInv, DraftInv
<1>9. OneUnit'
  BY <1>1, <1>2, UnitsQuiet DEF IInv
<1>10. LockInv'
  <2>1. ASSUME NEW v \in Workers, NEW q \in Parts, thr'[v][q].pc = "call"
        PROVE  holder' = <<v, q>> /\ approved = Rev(q)
    <3>1. v # w /\ thr'[v][q] = thr[v][q]
      BY <1>4, <2>1 DEF NoThread
    <3>2. holder = <<v, q>> /\ approved = Rev(q)
      BY <2>1, <3>1 DEF IInv, LockInv
    <3>3. QED BY <1>1, <3>1, <3>2
  <2>2. QED BY <1>1, <2>1 DEF LockInv, Rev
<1>11. AloneInv'
  <2>1. SUFFICES ASSUME OneWorker PROVE Alone(w)'
    BY DEF AloneInv, OneWorker
  <2>2. Alone(w)
    BY <2>1 DEF IInv, AloneInv
  <2>3. \A q \in Parts : thr'[w][q].pc = "none"
    BY <1>4 DEF NoThread
  <2>4. \A q \in Parts : /\ part'[q].state = "absent" <=> part[q].state = "absent"
                         /\ part'[q].state = "invalidated" => part[q].state = "invalidated"
    BY <1>2
  <2>5. ready # 0 => \A q \in Included(ready)' : part'[q].state # "absent"
    <3>1. ready # 0 => Included(ready) \subseteq Parts
      BY IncludedParts DEF IInv, TypeOK
    <3>2. Included(ready)' = Included(ready)
      BY <1>1 DEF Included
    <3>3. QED BY <2>2, <2>4, <3>1, <3>2 DEF Alone
  <2>6. QED BY <1>1, <1>3, <2>2, <2>3, <2>4, <2>5 DEF Alone, Live, Key, AtRest
<1>12. CountsKept
  BY <1>1 DEF CountsKept, UndisturbedInv, CallLimitInv
<1>13. QED BY <1>6, <1>7, <1>8, <1>9, <1>10, <1>11, <1>12 DEF IInv, ClaimsQuiet, CountsKept

(***************************************************************************)
(* A claim makes its parts running and gives each to a thread of its own.  *)
(***************************************************************************)
Claiming(w, chosen) ==
    /\ agent[w].phase = "frontier" /\ approved = agent[w].rev
    /\ agent'[w].phase = "pool" /\ agent'[w].rev = agent[w].rev /\ OtherAgents(w)
    /\ \A p \in Parts : p \in chosen =>
          /\ current = agent[w].rev /\ Rev(p) = agent[w].rev /\ part[p].state \in Claimable
          /\ part'[p].state = "running" /\ part'[p].gen = part[p].gen + 1
          /\ part'[p].tries = part[p].tries
          /\ thr'[w][p] = [NoThread EXCEPT !.pc = "start", !.token = part[p].gen + 1]
    /\ \A p \in Parts : p \notin chosen => part'[p] = part[p] /\ thr'[w][p] = NoThread
    /\ \A v \in Workers : v # w => thr'[v] = thr[v]
    /\ UNCHANGED <<content, drafted, approved, current, ready, rows, units, cache, calls, holder, stop, expired>>

LEMMA ClaimEffect ==
    ASSUME IInv, NEW w \in Workers, Claim(w)
    PROVE  /\ \E chosen : Claiming(w, chosen)
           /\ part' \in [Parts -> PartType] /\ thr' \in ThreadsType
           /\ agent' \in [Workers -> Agents]
<1> DEFINE r == agent[w].rev
<1>1. /\ agent[w].phase = "frontier" /\ approved = r
      /\ agent' = [agent EXCEPT ![w].phase = "pool", ![w].before = Left(r)]
      /\ UNCHANGED <<content, drafted, approved, current, ready, rows, units, cache, calls, holder, stop, expired>>
  BY DEF Claim
<1>2. PICK chosen \in SUBSET Due(r) :
         /\ \A p \in chosen : part[p].gen < MaxClaims
         /\ part' = [p \in Parts |-> IF p \in chosen
                        THEN [part[p] EXCEPT !.state = "running", !.gen = @ + 1] ELSE part[p]]
         /\ thr' = [thr EXCEPT ![w] = [p \in Parts |-> IF p \in chosen
                        THEN [NoThread EXCEPT !.pc = "start", !.token = part[p].gen + 1]
                        ELSE NoThread]]
  BY DEF Claim
<1>3. /\ agent' \in [Workers -> Agents] /\ OtherAgents(w)
      /\ agent'[w].phase = "pool" /\ agent'[w].rev = r
  <2> DEFINE a == [agent[w] EXCEPT !.phase = "pool", !.before = Left(r)]
  <2>1. agent[w] \in Agents /\ Left(r) \in Nat
    BY LeftCounts DEF IInv, TypeOK, Agents
  <2>2. a \in Agents /\ a.phase = "pool" /\ a.rev = r
    BY <2>1 DEF Agents
  <2>3. agent' = [agent EXCEPT ![w] = a]
    BY <1>1 DEF IInv, TypeOK
  <2> HIDE DEF a
  <2>4. QED BY <2>2, <2>3, AgentSet DEF IInv
<1>4. ASSUME NEW p \in Parts, p \in chosen
      PROVE  /\ current = r /\ Rev(p) = r /\ part[p].state \in Claimable
             /\ part'[p] \in PartType
             /\ part'[p].state = "running" /\ part'[p].gen = part[p].gen + 1
             /\ part'[p].tries = part[p].tries
             /\ thr'[w][p] = [NoThread EXCEPT !.pc = "start", !.token = part[p].gen + 1]
             /\ thr'[w][p] \in Threads
  <2>1. /\ current = r /\ Rev(p) = r /\ part[p].state \in Claimable
        /\ part[p] \in PartType /\ part[p].gen < MaxClaims
    BY <1>2, <1>4 DEF Due, Of, IInv, TypeOK, PartType
  <2>2. part[p].gen + 1 \in 0 .. MaxClaims
    BY <2>1, BoundsAssumption DEF PartType
  <2>3. part'[p] = [part[p] EXCEPT !.state = "running", !.gen = part[p].gen + 1]
    BY <1>2, <1>4
  <2>4. thr'[w][p] = [NoThread EXCEPT !.pc = "start", !.token = part[p].gen + 1]
    BY <1>2, <1>4 DEF IInv, TypeOK
  <2>5. thr'[w][p] \in Threads
    BY <2>2, <2>4, SmallFacts DEF Threads
  <2>6. part'[p] \in PartType /\ part'[p].state = "running" /\ part'[p].gen = part[p].gen + 1
        /\ part'[p].tries = part[p].tries
    BY <2>1, <2>2, <2>3 DEF PartType, States
  <2>7. QED BY <2>1, <2>4, <2>5, <2>6
<1>5. ASSUME NEW p \in Parts, p \notin chosen
      PROVE  part'[p] = part[p] /\ thr'[w][p] = NoThread
  BY <1>2, <1>5 DEF IInv, TypeOK
<1>6. \A v \in Workers : v # w => thr'[v] = thr[v]
  BY <1>2 DEF IInv, TypeOK
<1>7. Claiming(w, chosen)
  BY <1>1, <1>3, <1>4, <1>5, <1>6 DEF Claiming
<1>8. part' \in [Parts -> PartType]
  BY <1>2, <1>4, <1>5 DEF IInv, TypeOK, PartType
<1>9. thr' \in ThreadsType
  <2>1. \A p \in Parts : thr'[w][p] \in Threads
    BY <1>4, <1>5, SmallFacts
  <2>2. QED BY <1>2, <1>6, <2>1 DEF IInv, TypeOK, ThreadsType
<1>10. QED BY <1>3, <1>7, <1>8, <1>9

LEMMA ClaimStep == ASSUME IInv, NEW w \in Workers, Claim(w) PROVE IInv'
<1>1. PICK chosen : Claiming(w, chosen)
  BY ClaimEffect
<1>2. part' \in [Parts -> PartType] /\ thr' \in ThreadsType /\ agent' \in [Workers -> Agents]
  BY ClaimEffect
<1>3. \A q \in Parts : thr[w][q].pc = "none"
  BY <1>1, NoThreads DEF IInv, Claiming
<1>4. /\ rows' = rows /\ units' = units /\ cache' = cache /\ content' = content /\ calls' = calls
      /\ drafted' = drafted /\ approved' = approved /\ current' = current /\ ready' = ready
      /\ holder' = holder
  BY <1>1 DEF Claiming
<1>5. ASSUME NEW q \in Parts
      PROVE  \/ q \notin chosen /\ part'[q] = part[q] /\ thr'[w][q] = NoThread
             \/ /\ q \in chosen /\ part[q].state \in Claimable /\ part'[q].state = "running"
                /\ part'[q].gen = part[q].gen + 1 /\ part'[q].tries = part[q].tries
                /\ thr'[w][q].pc = "start" /\ thr'[w][q].token = part[q].gen + 1
  BY <1>1 DEF Claiming, NoThread
<1>6. \A q \in Parts : part[q].gen \in Nat /\ part[q].tries \in Nat /\ part'[q].gen \in Nat
  BY <1>2, BoundsAssumption DEF IInv, TypeOK, PartType
<1>7. ASSUME NEW v \in Workers, v # w, NEW q \in Parts, Current(v, q)'
      PROVE  Current(v, q) /\ thr'[v][q] = thr[v][q] /\ q \notin chosen /\ part'[q] = part[q]
  <2>1. thr'[v][q] = thr[v][q]
    BY <1>1, <1>7 DEF Claiming
  <2>2. Live(v, q) /\ thr[v][q].token \in 1 .. part[q].gen /\ thr[v][q].token = part'[q].gen
    BY <1>7, <2>1 DEF Current, Live, IInv, ThreadsInv
  <2>3. part'[q].gen # part[q].gen + 1
    BY <1>6, <2>2
  <2>4. QED BY <1>5, <2>1, <2>2, <2>3 DEF Current
<1>8. TypeOK'
  BY <1>1, <1>2 DEF IInv, TypeOK, Claiming, PartType, ThreadsType
<1>9. PartsInv'
  <2>1. \A q \in Parts : IsFiniteSet(rows'[q]) /\ \A x \in rows'[q] : x.n \in 1 .. part'[q].tries
    BY <1>4, <1>5 DEF IInv, PartsInv
  <2>2. QED BY <1>5, <2>1 DEF IInv, PartsInv
<1>10. ThreadsInv'
  <2>1. ASSUME NEW v \in Workers, NEW q \in Parts, agent'[v].phase # "pool"
        PROVE  thr'[v][q].pc = "none"
    <3>1. v # w
      BY <1>1, <2>1 DEF Claiming
    <3>2. agent'[v] = agent[v] /\ thr'[v][q] = thr[v][q]
      BY <1>1, <3>1 DEF Claiming, OtherAgents
    <3>3. QED BY <2>1, <3>2 DEF IInv, ThreadsInv
  <2>2. \A v \in Workers, q \in Parts : Live(v, q)' => thr'[v][q].token \in 1 .. part'[q].gen
    <3>1. ASSUME NEW v \in Workers, NEW q \in Parts, Live(v, q)'
          PROVE  thr'[v][q].token \in 1 .. part'[q].gen
      <4>1. CASE v = w
        BY <1>5, <1>6, <3>1, <4>1 DEF Live, NoThread
      <4>2. CASE v # w
        <5>1. thr'[v][q] = thr[v][q]
          BY <1>1, <4>2 DEF Claiming
        <5>2. thr[v][q].token \in 1 .. part[q].gen
          BY <3>1, <5>1 DEF IInv, ThreadsInv, Live
        <5>3. QED BY <1>5, <1>6, <5>1, <5>2
      <4>3. QED BY <4>1, <4>2
    <3>2. QED BY <3>1
  <2>3. \A u, v \in Workers, q \in Parts : Current(u, q)' /\ Current(v, q)' => u = v
    <3>1. ASSUME NEW u \in Workers, NEW v \in Workers, NEW q \in Parts, Current(u, q)', Current(v, q)', u # v
          PROVE  FALSE
      <4>1. CASE u # w /\ v # w
        BY <1>7, <3>1, <4>1 DEF IInv, ThreadsInv
      <4>2. CASE u = w \/ v = w
        <5>1. q \notin chosen
          BY <1>7, <3>1, <4>2
        <5>2. ~Live(w, q)'
          BY <1>5, <5>1 DEF Live, NoThread
        <5>3. QED BY <3>1, <4>2, <5>2 DEF Current
      <4>3. QED BY <4>1, <4>2
    <3>2. QED BY <3>1
  <2>4. \A v \in Workers, q \in Parts : Live(v, q)' /\ thr'[v][q].pc # "start" => thr'[v][q].route \in Routes
    <3>1. ASSUME NEW v \in Workers, NEW q \in Parts, Live(v, q)', thr'[v][q].pc # "start"
          PROVE  thr'[v][q].route \in Routes
      <4>1. v # w
        BY <1>5, <3>1 DEF Live, NoThread
      <4>2. thr'[v][q] = thr[v][q]
        BY <1>1, <4>1 DEF Claiming
      <4>3. QED BY <3>1, <4>2 DEF IInv, ThreadsInv, Live
    <3>2. QED BY <3>1
  <2>5. \A v \in Workers, q \in Parts : thr'[v][q].pc \in Trying \cup {"wait"} => thr'[v][q].attempt # 0
    <3>1. ASSUME NEW v \in Workers, NEW q \in Parts, thr'[v][q].pc \in Trying \cup {"wait"}
          PROVE  thr'[v][q].attempt # 0
      <4>1. v # w
        BY <1>5, <3>1 DEF NoThread
      <4>2. thr'[v][q] = thr[v][q]
        BY <1>1, <4>1 DEF Claiming
      <4>3. QED BY <3>1, <4>2 DEF IInv, ThreadsInv
    <3>2. QED BY <3>1
  <2>6. QED BY <2>1, <2>2, <2>3, <2>4, <2>5 DEF ThreadsInv
<1>11. TurnsInv'
  <2>1. ASSUME NEW v \in Workers, NEW q \in Parts, Current(v, q)'
        PROVE  TurnOK(v, q)'
    <3>1. CASE v = w
      BY <1>5, <2>1, <3>1 DEF Current, Live, TurnOK, NoThread
    <3>2. CASE v # w
      <4>1. Current(v, q) /\ thr'[v][q] = thr[v][q] /\ part'[q] = part[q]
        BY <1>7, <2>1, <3>2
      <4>2. TurnOK(v, q)
        BY <4>1 DEF IInv, TurnsInv, TurnOK
      <4>3. {x \in rows'[q] : x.route = thr'[v][q].route} = Rows(q, thr[v][q].route)
        BY <1>4, <4>1 DEF Rows
      <4>4. QED BY <1>4, <4>1, <4>2, <4>3 DEF TurnOK, Rows
    <3>3. QED BY <3>1, <3>2
  <2>2. QED BY <2>1 DEF TurnsInv, TurnOK
<1>12. AttemptLimit' /\ CallLimitInv'
  BY <1>4 DEF IInv, AttemptLimit, Rows, CallLimitInv, CallLimit
<1>13. RunningHeld'
  <2>1. ASSUME ~CanFail, NEW q \in Parts, part'[q].state = "running"
        PROVE  \E v \in Workers : Current(v, q)'
    <3>1. CASE q \in chosen
      BY <1>5, <3>1 DEF Current, Live
    <3>2. CASE q \notin chosen
      <4>1. part'[q] = part[q]
        BY <1>5, <3>2
      <4>2. PICK v \in Workers : Current(v, q)
        BY <2>1, <4>1 DEF IInv, RunningHeld
      <4>3. v # w
        BY <1>3, <4>2 DEF Current, Live
      <4>4. QED BY <1>1, <4>1, <4>2, <4>3 DEF Current, Live, Claiming
    <3>3. QED BY <3>1, <3>2
  <2>2. QED BY <2>1 DEF RunningHeld
<1>14. LockInv'
  <2>1. ASSUME NEW v \in Workers, NEW q \in Parts, thr'[v][q].pc = "call"
        PROVE  holder = <<v, q>> /\ approved = Rev(q)
    <3>1. v # w
      BY <1>5, <2>1 DEF NoThread
    <3>2. thr'[v][q] = thr[v][q]
      BY <1>1, <3>1 DEF Claiming
    <3>3. QED BY <2>1, <3>2 DEF IInv, LockInv
  <2>2. QED BY <1>4, <2>1 DEF LockInv, Rev
<1>15. \A q \in Parts : /\ part'[q].state = "absent" <=> part[q].state = "absent"
                        /\ part'[q].state = "processed" <=> part[q].state = "processed"
                        /\ part'[q].state = "invalidated" <=> part[q].state = "invalidated"
  BY <1>5 DEF Claimable
<1>16. DraftInv'
  <2>1. \A v \in Workers : agent'[v].rev = agent[v].rev /\ (agent'[v].phase # "rest" => agent[v].phase # "rest")
    BY <1>1 DEF Claiming, OtherAgents
  <2>2. QED BY <1>4, <1>15, <2>1 DEF IInv, DraftInv
<1>17. OneUnit'
  BY <1>4, <1>15, UnitsQuiet DEF IInv
<1>18. AloneInv'
  <2>1. SUFFICES ASSUME OneWorker PROVE Alone(w)'
    BY DEF AloneInv, OneWorker
  <2>2. Alone(w) /\ agent[w].phase = "frontier"
    BY <1>1, <2>1 DEF IInv, AloneInv, Claiming
  <2>3. ready # 0 => \A q \in Included(ready)' : part'[q].state # "absent"
    <3>1. ready # 0 => Included(ready) \subseteq Parts
      BY IncludedParts DEF IInv, TypeOK
    <3>2. Included(ready)' = Included(ready)
      BY <1>4 DEF Included
    <3>3. QED BY <1>15, <2>2, <3>1, <3>2 DEF Alone
  <2>4. \A q \in Parts : Live(w, q)' => Rev(q) = agent[w].rev /\ part'[q].state # "absent"
    <3>1. \A q \in Parts : Live(w, q)' => q \in chosen
      BY <1>5 DEF Live, NoThread
    <3>2. QED BY <1>1, <3>1 DEF Claiming
  <2>5. \A q \in Parts : thr'[w][q].pc \notin Asking
    BY <1>5 DEF NoThread
  <2>6. agent'[w].phase = "pool" /\ agent'[w].rev = agent[w].rev
    BY <1>1 DEF Claiming
  <2>7. QED BY <1>4, <1>15, <2>2, <2>3, <2>4, <2>5, <2>6 DEF Alone
<1>19. UndisturbedInv'
  <2>1. SUFFICES ASSUME OneWorker, ~CanCrash, ~CanFail PROVE Undisturbed(w)'
    BY DEF UndisturbedInv, OneWorker
  <2>2. Undisturbed(w)
    BY <2>1 DEF IInv, UndisturbedInv
  <2>3. \A q \in Parts : thr'[w][q].pc \in Holding => Holds(w, q)'
    <3>1. ASSUME NEW q \in Parts, thr'[w][q].pc \in Holding PROVE Holds(w, q)'
      <4>1. q \in chosen
        BY <1>5, <3>1 DEF NoThread
      <4>2. Rev(q) = current
        BY <1>1, <4>1 DEF Claiming
      <4>3. QED BY <1>4, <1>5, <4>1, <4>2 DEF Holds, Owns, Rev
    <3>2. QED BY <3>1
  <2>4. \A q \in Parts, r \in Routes : calls'[q][r] <= Allowed(w, q, r)'
    <3>1. ASSUME NEW q \in Parts, NEW r \in Routes PROVE calls'[q][r] <= Allowed(w, q, r)'
      <4>1. calls[q][r] <= Allowed(w, q, r) /\ Rows(q, r)' = Rows(q, r)
        BY <1>4, <2>2 DEF Undisturbed, Allowed, Rows
      <4>2. thr[w][q].pc \notin Called /\ thr'[w][q].pc \notin Called
        BY <1>3, <1>5 DEF NoThread
      <4>3. QED BY <1>4, <1>15, <4>1, <4>2 DEF Allowed
    <3>2. QED BY <3>1
  <2>5. QED BY <2>3, <2>4 DEF Undisturbed, Allowed
<1>20. QED BY <1>8, <1>9, <1>10, <1>11, <1>12, <1>13, <1>14, <1>16, <1>17, <1>18, <1>19 DEF IInv

LEMMA InitInv == Init => IInv
<1> SUFFICES ASSUME Init PROVE IInv
  OBVIOUS
<1>1. MaxRevision \in Nat /\ MaxClaims \in Nat /\ MaxAttempts \in Nat /\ 0 \in 0 .. MaxRevision
      /\ 0 \in 0 .. MaxClaims /\ 0 \in 0 .. MaxAttempts
  BY BoundsAssumption
<1>2. NoThread \in Threads /\ AtRest \in Agents /\ Absent \in PartType
  BY <1>1 DEF NoThread, Threads, AllRoutes, AtRest, Agents, Outcomes, Absent, PartType, States
<1>3. TypeOK
  BY <1>1, <1>2 DEF Init, TypeOK, PartType
<1>4. \A q \in Parts : part[q] = Absent /\ rows[q] = {} /\ \A v \in Workers : thr[v][q] = NoThread
  BY DEF Init
<1>5. /\ \A q \in Parts : part[q].state = "absent"
      /\ \A q \in Parts, v \in Workers : ~Live(v, q) /\ ~Current(v, q) /\ thr[v][q].pc = "none"
  BY <1>4 DEF Live, Current, NoThread, Absent
<1>6. PartsInv
  <2>1. \A q \in Parts : IsFiniteSet(rows[q])
    BY <1>4, FS_EmptySet
  <2>2. QED BY <1>4, <2>1 DEF PartsInv, Absent
<1>7. ThreadsInv /\ TurnsInv /\ RunningHeld
  BY <1>5 DEF ThreadsInv, TurnsInv, RunningHeld
<1>8. Cardinality({}) = 0
  BY FS_EmptySet
<1>9. AttemptLimit
  <2>1. ASSUME NEW q \in Parts, NEW r \in Routes PROVE Cardinality(Rows(q, r)) <= MaxAttempts
    <3>1. Rows(q, r) = {}
      BY <1>4 DEF Rows
    <3>2. QED BY <1>1, <1>8, <3>1
  <2>2. QED BY <2>1 DEF AttemptLimit
<1>10. LockInv
  BY <1>5 DEF LockInv
<1>11. DraftInv
  BY <1>5 DEF Init, DraftInv, AtRest
<1>12. OneUnit
  BY <1>5 DEF Init, OneUnit
<1>13. AloneInv
  BY <1>5 DEF Init, AloneInv, Alone, AtRest
<1>14. UndisturbedInv /\ CallLimitInv
  <2>1. \A q \in Parts, r \in Routes : calls[q][r] = 0
    BY DEF Init
  <2>2. ASSUME NEW v \in Workers PROVE Undisturbed(v)
    <3>1. ASSUME NEW q \in Parts, NEW r \in Routes PROVE calls[q][r] <= Allowed(v, q, r)
      <4>1. Rows(q, r) = {}
        BY <1>4 DEF Rows
      <4>2. QED BY <1>5, <1>8, <2>1, <4>1 DEF Allowed
    <3>2. QED BY <1>5, <3>1 DEF Undisturbed, Allowed
  <2>3. QED BY <1>1, <2>1, <2>2 DEF UndisturbedInv, CallLimitInv, CallLimit
<1>15. QED BY <1>3, <1>6, <1>7, <1>9, <1>10, <1>11, <1>12, <1>13, <1>14 DEF IInv

LEMMA ThreadsStep ==
    ASSUME IInv, NEW w \in Workers, NEW p \in Parts, ThreadStep(w, p) \/ Raise(w, p)
    PROVE  IInv'
<1>1. Typed /\ Move(w, p)
  BY ThreadMoves DEF IInv
<1>2. PartsInv' /\ ThreadsInv' /\ TurnsInv' /\ AttemptLimit' /\ RunningHeld'
  BY <1>1, PartsMove, ThreadsMove, TurnsMove, LimitMove, RunningMove DEF IInv
<1>3. LockInv' /\ holder' \in (Workers \X Parts) \cup {Free}
  BY <1>1, LockMove DEF IInv
<1>4. DraftInv' /\ OneUnit'
  BY <1>1, DraftMove, UnitsMove DEF IInv
<1>5. AloneInv' /\ UndisturbedInv'
  BY <1>1, AloneMove, UndisturbedMove DEF IInv
<1>6. CallLimitInv'
  BY CallLimitMove DEF IInv, CallLimitInv
<1>7. TypeOK'
  <2>1. calls' \in [Parts -> [Routes -> Nat]]
    BY CallsTyped DEF IInv
  <2>2. /\ content' = content /\ drafted' = drafted /\ approved' = approved /\ current' = current
        /\ ready' = ready /\ agent' = agent /\ stop' = stop /\ expired' = expired
    BY <1>1 DEF Move
  <2>3. QED BY <1>1, <1>3, <2>1, <2>2 DEF IInv, TypeOK, Typed, ThreadsType, PartType
<1>8. QED BY <1>2, <1>3, <1>4, <1>5, <1>6, <1>7 DEF IInv

LEMMA Stutter == ASSUME IInv, UNCHANGED vars PROVE IInv'
<1>1. /\ content' = content /\ drafted' = drafted /\ approved' = approved /\ current' = current
      /\ ready' = ready /\ part' = part /\ rows' = rows /\ units' = units /\ cache' = cache
      /\ agent' = agent /\ thr' = thr /\ stop' = stop /\ expired' = expired /\ holder' = holder
      /\ calls' = calls
  BY DEF vars
<1>2. ClaimsQuiet /\ CountsKept
  BY <1>1, SameParts
<1>3. TypeOK' /\ DraftInv' /\ LockInv' /\ OneUnit'
  BY <1>1, UnitsQuiet DEF IInv, TypeOK, DraftInv, LockInv
<1>4. AloneInv'
  BY <1>1 DEF IInv, AloneInv, Alone, Live, Key, Included
<1>5. QED BY <1>2, <1>3, <1>4 DEF IInv, ClaimsQuiet, CountsKept

LEMMA NextStep == IInv /\ [Next]_vars => IInv'
<1> SUFFICES ASSUME IInv, [Next]_vars PROVE IInv'
  OBVIOUS
<1>1. CASE Environment
  BY <1>1, RescanStep, ApproveStep, ClockStep, ComeDueStep DEF Environment
<1>2. ASSUME NEW w \in Workers, AgentStep(w) PROVE IInv'
  BY <1>2, BeginStep, InvalidateStep, RequeueStep, DropStep, UpsertStep, ReturnStep, ClaimStep,
     ClaimNothingStep, CollectStep DEF AgentStep
<1>3. ASSUME NEW w \in Workers, Restart(w) PROVE IInv'
  BY <1>3, RestartStep
<1>4. ASSUME NEW w \in Workers, NEW p \in Parts, ThreadStep(w, p) \/ Raise(w, p) PROVE IInv'
  BY <1>4, ThreadsStep
<1>5. CASE UNCHANGED vars
  BY <1>5, Stutter
<1>6. QED BY <1>1, <1>2, <1>3, <1>4, <1>5 DEF Next

(***************************************************************************)
(* The inductive invariant holds in every behaviour.                       *)
(***************************************************************************)
LEMMA InvariantHolds == Spec => []IInv
<1>1. Init => IInv
  BY InitInv
<1>2. IInv /\ [Next]_vars => IInv'
  BY NextStep
<1>3. QED BY <1>1, <1>2, PTL DEF Spec

(***************************************************************************)
(* What the invariant says of the claims.                                  *)
(***************************************************************************)
LEMMA ClaimsFromInv == ASSUME IInv, ~CanFail PROVE ClaimsSound
<1>1. ClaimsHeld
  <2>1. ASSUME NEW p \in Parts, part[p].state = "running"
        PROVE  \E w \in Workers : /\ Live(w, p) /\ thr[w][p].token = part[p].gen
                                  /\ \A v \in Workers : Live(v, p) /\ thr[v][p].token = part[p].gen => v = w
    <3>1. PICK w \in Workers : Current(w, p)
      BY <2>1 DEF IInv, RunningHeld
    <3>2. QED BY <3>1 DEF IInv, ThreadsInv, Current
  <2>2. QED BY <2>1 DEF ClaimsHeld
<1>2. FreshNumbers
  <2>1. ASSUME NEW w \in Workers, NEW p \in Parts, thr[w][p].pc \in Trying, Holds(w, p)
        PROVE  thr[w][p].attempt \notin Numbers(p)
    <3>1. Current(w, p)
      BY <2>1 DEF Current, Live, Holds, Owns
    <3>2. \A x \in rows[p] : x.n < thr[w][p].attempt
      BY <2>1, <3>1 DEF IInv, TurnsInv
    <3>3. \A x \in rows[p] : x.n \in Nat
      BY DEF IInv, TypeOK
    <3>4. QED BY <3>2, <3>3 DEF Numbers
  <2>2. QED BY <2>1 DEF FreshNumbers
<1>3. QED BY <1>1, <1>2 DEF IInv, ClaimsSound

\* The answers and the parts of the approved revision.
LEMMA UnitsFromInv == ASSUME IInv, OneWorker PROVE UnitsSound
<1>1. ASSUME NEW w \in Workers, agent[w].phase \in {"frontier", "pool"}, approved = agent[w].rev,
             NEW p \in Included(approved)
      PROVE  part[p].state \notin {"absent", "invalidated"}
  <2>1. Alone(w)
    BY DEF IInv, AloneInv
  <2>2. ready = approved /\ approved # 0 /\ approved = drafted
    BY <1>1, <2>1 DEF Alone, IInv, DraftInv
  <2>3. p \in Parts /\ Rev(p) = drafted /\ drafted \in Nat
    BY <2>2, IncludedParts, BoundsAssumption DEF IInv, TypeOK, Included, Rev
  <2>4. part[p].state # "absent"
    BY <2>1, <2>2 DEF Alone
  <2>5. part[p].state # "invalidated"
    BY <2>1, <2>3 DEF Alone
  <2>6. QED BY <2>4, <2>5
<1>2. QED BY <1>1 DEF IInv, UnitsSound, Covered

(***************************************************************************)
(* Which steps publish, and which call the provider.                       *)
(***************************************************************************)
NotByThread ==
    \/ Environment \/ UNCHANGED vars
    \/ \E w \in Workers : AgentStep(w) \/ Restart(w)

LEMMA ByThread ==
    ASSUME [Next]_vars
    PROVE  NotByThread \/ \E w \in Workers, p \in Parts : ThreadStep(w, p) \/ Raise(w, p)
BY DEF Next, NotByThread

LEMMA NotPublishing ==
    ASSUME IInv, NotByThread
    PROVE  \A p \in Parts : part'[p].state = "processed" => part[p].state = "processed"
<1>1. CASE part' = part
  BY <1>1
<1>2. part \in [Parts -> PartType] /\ \A p \in Parts : part[p] \in PartType
  BY DEF IInv, TypeOK, PartType
<1>3. ASSUME NEW p \in Parts, ComeDue(p) PROVE \A q \in Parts : part'[q].state = part[q].state
  BY <1>2, <1>3 DEF ComeDue, PartType
<1>4. CASE Environment
  BY <1>1, <1>3, <1>4 DEF Environment, Rescan, Approve, RequestStop, Expire
<1>5. ASSUME NEW w \in Workers, AgentStep(w)
      PROVE  \A p \in Parts : part'[p].state = "processed" => part[p].state = "processed"
  <2>1. CASE Invalidate(w)
    <3>1. CASE part' = part
      BY <3>1
    <3>2. ASSUME NEW p \in Parts, part' = [part EXCEPT ![p].state = "invalidated", ![p].due = TRUE]
          PROVE  part'[p].state = "invalidated" /\ \A q \in Parts : q # p => part'[q] = part[q]
      BY <1>2, <3>2 DEF PartType
    <3>3. Changed(agent[w].rev) \subseteq Parts
      BY DEF Changed, Of
    <3>4. QED BY <2>1, <3>1, <3>2, <3>3 DEF Invalidate
  <2>2. CASE Requeue(w)
    BY <1>2, <2>2 DEF Requeue, Gone, Absent, PartType
  <2>3. CASE Upsert(w)
    <3>1. CASE part' = part
      BY <3>1
    <3>2. ASSUME NEW p \in Missing(agent[w].rev), NEW s \in {"prepared", "failed"},
                 part' = [part EXCEPT ![p] = [Gone(p) EXCEPT !.state = s]]
          PROVE  \A q \in Parts : part'[q].state = "processed" => part[q].state = "processed"
      BY <1>2, <3>2 DEF Gone, Absent
    <3>3. QED BY <2>3, <3>1, <3>2 DEF Upsert
  <2>4. CASE Claim(w)
    <3>1. PICK chosen : Claiming(w, chosen)
      BY <2>4, ClaimEffect
    <3>2. QED BY <3>1 DEF Claiming
  <2>5. CASE Begin(w) \/ Return(w) \/ ClaimNothing(w) \/ Collect(w)
    BY <2>5 DEF Begin, Return, ClaimNothing, Collect
  <2>6. CASE Drop(w)
    BY <1>2, <2>6 DEF Drop, Gone, Absent, PartType
  <2>7. QED BY <1>5, <2>1, <2>2, <2>3, <2>4, <2>5, <2>6 DEF AgentStep
<1>6. ASSUME NEW w \in Workers, Restart(w)
      PROVE  \A p \in Parts : part'[p].state = "processed" => part[p].state = "processed"
  BY <1>2, <1>6 DEF Restart, Recovered, PartType
<1>7. CASE UNCHANGED vars
  BY <1>7 DEF vars
<1>8. QED BY <1>4, <1>5, <1>6, <1>7 DEF NotByThread

LEMMA NotCalling ==
    ASSUME IInv, NotByThread
    PROVE  \A w \in Workers, p \in Parts : thr'[w][p].pc = "call" => thr[w][p].pc = "call"
<1>1. CASE thr' = thr
  BY <1>1
<1>2. CASE Environment \/ UNCHANGED vars
  BY <1>1, <1>2 DEF Environment, Rescan, Approve, RequestStop, Expire, ComeDue, vars
<1>3. ASSUME NEW w \in Workers, AgentStep(w)
      PROVE  \A v \in Workers, p \in Parts : thr'[v][p].pc = "call" => thr[v][p].pc = "call"
  <2>1. CASE \/ Begin(w) \/ Invalidate(w) \/ Requeue(w) \/ Drop(w) \/ Upsert(w)
             \/ Return(w) \/ ClaimNothing(w)
    BY <1>1, <2>1 DEF Begin, Invalidate, Requeue, Drop, Upsert, Return, ClaimNothing
  <2>2. CASE Claim(w)
    <3>1. PICK chosen : Claiming(w, chosen)
      BY <2>2, ClaimEffect
    <3>2. ASSUME NEW v \in Workers, NEW p \in Parts, thr'[v][p].pc = "call"
          PROVE  thr[v][p].pc = "call"
      <4>1. thr'[w][p].pc # "call"
        <5>1. CASE p \in chosen
          <6>1. thr'[w][p] = [NoThread EXCEPT !.pc = "start", !.token = part[p].gen + 1]
            BY <3>1, <5>1 DEF Claiming
          <6>2. QED BY <6>1 DEF NoThread
        <5>2. CASE p \notin chosen
          <6>1. thr'[w][p] = NoThread
            BY <3>1, <5>2 DEF Claiming
          <6>2. QED BY <6>1 DEF NoThread
        <5>3. QED BY <5>1, <5>2
      <4>2. v # w => thr'[v] = thr[v]
        BY <3>1 DEF Claiming
      <4>3. QED BY <3>2, <4>1, <4>2
    <3>3. QED BY <3>2
  <2>3. CASE Collect(w)
    BY <2>3 DEF Collect, NoThread, IInv, TypeOK
  <2>4. QED BY <1>3, <2>1, <2>2, <2>3 DEF AgentStep
<1>4. ASSUME NEW w \in Workers, Restart(w)
      PROVE  \A v \in Workers, p \in Parts : thr'[v][p].pc = "call" => thr[v][p].pc = "call"
  BY <1>4 DEF Restart, NoThread, IInv, TypeOK
<1>5. QED BY <1>2, <1>3, <1>4 DEF NotByThread

LEMMA PublishStep ==
    ASSUME IInv, [Next]_vars, NEW p \in Parts, part[p].state # "processed", part'[p].state = "processed"
    PROVE  approved = Rev(p) /\ current = Rev(p)
<1>1. PICK w \in Workers, q \in Parts : ThreadStep(w, q) \/ Raise(w, q)
  BY ByThread, NotPublishing
<1>2. Typed /\ Move(w, q)
  BY <1>1, ThreadMoves DEF IInv
<1>3. p = q
  BY <1>2, MoveLocal DEF IInv
<1>4. Publishing(w, p)
  <2>1. part[p] \in PartType /\ part \in [Parts -> PartType] /\ thr[w][p] \in Threads
    BY DEF IInv, TypeOK, PartType
  <2>2. CASE Pausing(w, p)
    BY <2>2, PausingPart DEF IInv, Retried
  <2>3. CASE Dropping(w, p) \/ Advancing(w, p)
    BY <2>3 DEF Dropping, Advancing
  <2>4. ASSUME NEW route, NEW n \in Nat, NEW state \in {"retry_wait", "failed"},
               Recorded(w, p, route, n, state)
        PROVE  FALSE
    BY <2>4, RecordedPart DEF IInv
  <2>5. CASE Recording(w, p)
    <3>1. part[p].tries + 1 \in Nat /\ thr[w][p].attempt \in Nat
      BY <2>1 DEF PartType, Threads
    <3>2. QED BY <2>4, <2>5, <3>1 DEF Recording
  <2>6. CASE Exhausting(w, p) /\ ~Publishing(w, p)
    BY <2>6, DonePart DEF IInv
  <2>7. CASE Retrying(w, p)
    BY <2>7, RetryingPart DEF IInv
  <2>8. QED BY <1>2, <1>3, <2>2, <2>3, <2>5, <2>6, <2>7 DEF Move
<1>5. QED BY <1>4 DEF Publishing, Holds, IInv, LockInv

LEMMA CallStep ==
    ASSUME IInv, OneWorker, [Next]_vars, NEW w \in Workers, NEW p \in Parts,
           thr[w][p].pc # "call", thr'[w][p].pc = "call"
    PROVE  cache[Key(p, thr[w][p].route)] = NoPart
<1>1. PICK v \in Workers, q \in Parts : ThreadStep(v, q) \/ Raise(v, q)
  BY ByThread, NotCalling
<1>2. Typed /\ Move(v, q)
  BY <1>1, ThreadMoves DEF IInv
<1>3. v = w /\ q = p
  BY <1>2, MoveLocal DEF IInv
<1>4. Onward(w, p) \/ Retrying(w, p)
  BY <1>2, <1>3, MoveThread DEF IInv
<1>5. thr[w][p].pc \in Trying
  <2>1. thr[w][p] \in Threads
    BY DEF IInv, TypeOK
  <2>2. ASSUME Recording(w, p) PROVE FALSE
    BY <2>1, <2>2 DEF Recording, Ends, Threads
  <2>3. QED BY <1>2, <1>3, <2>1, <2>2
     DEF Move, Pausing, Dropping, Publishing, Exhausting, Advancing, Retrying, Ends, Threads
<1>6. QED BY <1>5 DEF IInv, AloneInv, Alone
(***************************************************************************)
(* What a frontier reports.  A thread that ended with "processed" or       *)
(* "failed" has settled its part, which was among the pending ones when    *)
(* the frontier counted them and is not any more.                          *)
(***************************************************************************)
Final == {"processed", "failed"}

Settled(w) == {p \in Parts : thr[w][p].pc = "done" /\ thr[w][p].result \in Final}
Counted(w) == Pending(agent[w].rev, part) \cup Settled(w)

PoolInv(w) ==
    /\ \E p \in Parts : thr[w][p].pc # "none"
    /\ \A p \in Parts : thr[w][p].pc = "done" => thr[w][p].result # "none"
    /\ \A p \in Settled(w) : part[p].state \in Final
    /\ Cardinality(Counted(w)) <= agent[w].before

CountedInv == OneWorker => \A w \in Workers : agent[w].phase = "pool" => PoolInv(w)

LEMMA FiniteParts == IsFiniteSet(Parts)
<1>1. IsFiniteSet(Revisions)
  BY FS_Interval, BoundsAssumption DEF Revisions
<1>2. QED BY <1>1, FS_Product, NamesAssumption DEF Parts

\* How a thread ends, and what has become of its part then.
EndsWith(w, p) ==
    \/ thr'[w][p].result \in {"retry_wait", "raised"}
    \/ /\ thr'[w][p].result \in Final
       /\ part'[p].state \in Final /\ part[p].state = "running"

LEMMA PauseResult ==
    ASSUME TypeOK, NEW w \in Workers, NEW p \in Parts, Live(w, p), PauseClaim(w, p)
    PROVE  EndsWith(w, p)
BY AnswersEffect DEF PauseClaim, EndsWith

LEMMA RecordResult ==
    ASSUME TypeOK, NEW w \in Workers, NEW p \in Parts, NEW n \in Nat,
           NEW state \in {"retry_wait", "failed"}, NEW due \in BOOLEAN, Live(w, p),
           Holds(w, p), Answers(w, p, state),
           part' = [part EXCEPT ![p].state = state, ![p].due = due,
                                ![p].tries = IF n > @ THEN n ELSE @]
    PROVE  EndsWith(w, p)
<1>1. /\ part' \in [Parts -> PartType]
      /\ part' = [part EXCEPT ![p] = [part[p] EXCEPT !.state = state, !.due = due,
                                       !.tries = IF n > @ THEN n ELSE @]]
  BY ZenonT(60), RecordSet
<1>2. part[p] \in PartType /\ part \in [Parts -> PartType]
  BY DEF TypeOK, PartType
<1>3. part'[p] = [part[p] EXCEPT !.state = state, !.due = due, !.tries = IF n > @ THEN n ELSE @]
  BY <1>1, <1>2
<1>4. part'[p].state = state
  BY <1>2, <1>3 DEF PartType
<1>5. thr'[w][p].result = state
  BY AnswersEffect
<1>6. QED BY <1>4, <1>5 DEF EndsWith, Final, Holds, Owns

LEMMA RecordEnds ==
    ASSUME TypeOK, NEW w \in Workers, NEW p \in Parts, NEW r, NEW n \in Nat,
           NEW state \in {"retry_wait", "failed"}, NEW due \in BOOLEAN, Live(w, p)
    PROVE  Record(w, p, r, n, state, due, Answers(w, p, state)) => EndsWith(w, p)
<1>1. ASSUME Record(w, p, r, n, state, due, Answers(w, p, state)) PROVE EndsWith(w, p)
  <2>1. \/ /\ Holds(w, p) /\ Answers(w, p, state)
           /\ part' = [part EXCEPT ![p].state = state, ![p].due = due,
                                   ![p].tries = IF n > @ THEN n ELSE @]
        \/ PauseClaim(w, p)
    BY <1>1 DEF Record
  <2>2. QED BY <2>1, PauseResult, RecordResult
<1>2. QED BY <1>1

\* Every way a thread has of ending.
LEMMA StepResult ==
    ASSUME IInv, NEW w \in Workers, NEW p \in Parts, ThreadStep(w, p) \/ Raise(w, p),
           thr'[w][p].pc = "done"
    PROVE  EndsWith(w, p)
<1>1. TypeOK /\ Live(w, p) /\ Move(w, p)
  BY ThreadMoves DEF IInv, Move
<1>2. /\ thr[w][p] \in Threads /\ part[p] \in PartType /\ part \in [Parts -> PartType]
      /\ thr[w] \in [Parts -> Threads] /\ thr \in [Workers -> [Parts -> Threads]]
  BY <1>1 DEF TypeOK, PartType
<1>3. /\ thr[w][p].attempt \in Nat /\ thr[w][p].route \in AllRoutes /\ "unavailable" \in AllRoutes
      /\ part[p].tries + 1 \in Nat
  BY <1>2 DEF Threads, PartType, AllRoutes
<1>4. ASSUME NEW pc \in {"count", "try", "lock", "call", "record", "wait"}, To(w, p, pc) PROVE FALSE
  <2>1. thr' = [thr EXCEPT ![w] = [thr[w] EXCEPT ![p] = [thr[w][p] EXCEPT !.pc = pc]]]
    BY <1>2, <1>4 DEF To
  <2>2. thr'[w][p] = [thr[w][p] EXCEPT !.pc = pc]
    BY <1>2, <2>1
  <2>3. thr'[w][p].pc = pc
    BY <1>2, <2>2 DEF Threads
  <2>4. QED BY <2>3
<1> DEFINE r == thr[w][p].route
           n == thr[w][p].attempt
<1>5. /\ Record(w, p, "unavailable", part[p].tries + 1, "retry_wait", TRUE,
                Answers(w, p, "retry_wait")) => EndsWith(w, p)
      /\ Record(w, p, r, n, "failed", TRUE, Answers(w, p, "failed")) => EndsWith(w, p)
      /\ Record(w, p, r, n, "retry_wait", TRUE, Answers(w, p, "retry_wait")) => EndsWith(w, p)
  <2>1. Record(w, p, "unavailable", part[p].tries + 1, "retry_wait", TRUE,
               Answers(w, p, "retry_wait")) => EndsWith(w, p)
    BY <1>1, <1>3, RecordEnds
  <2>2. Record(w, p, r, n, "failed", TRUE, Answers(w, p, "failed")) => EndsWith(w, p)
    BY <1>1, <1>3, RecordEnds
  <2>3. Record(w, p, r, n, "retry_wait", TRUE, Answers(w, p, "retry_wait")) => EndsWith(w, p)
    BY <1>1, <1>3, RecordEnds
  <2>4. QED BY <2>1, <2>2, <2>3
<1>6. CASE Start(w, p)
  <2>1. ASSUME NEW x \in Routes,
               thr' = [thr EXCEPT ![w][p].pc = "cache", ![w][p].route = x]
        PROVE  FALSE
    <3>1. thr'[w][p].pc = "cache"
      BY <1>2, <2>1 DEF Threads
    <3>2. QED BY <3>1
  <2>2. \/ PauseClaim(w, p)
        \/ Record(w, p, "unavailable", part[p].tries + 1, "retry_wait", TRUE,
                  Answers(w, p, "retry_wait"))
    BY <1>6, <2>1 DEF Start
  <2>3. QED BY <1>1, <1>5, <2>2, PauseResult
<1>7. CASE LookUp(w, p)
  <2>1. CASE Publish(p) /\ Answers(w, p, "processed") /\ Holds(w, p)
    <3>1. part'[p] = [part[p] EXCEPT !.state = "processed", !.due = TRUE]
      BY <1>2, <2>1 DEF Publish
    <3>2. part'[p].state = "processed" /\ thr'[w][p].result = "processed"
      BY <1>1, <1>2, <2>1, <3>1, AnswersEffect DEF PartType
    <3>3. QED BY <2>1, <3>2 DEF EndsWith, Final, Holds, Owns
  <2>2. QED BY <1>1, <1>4, <1>7, <2>1, PauseResult DEF LookUp
<1>8. CASE Try(w, p)
  BY <1>1, <1>4, <1>8, PauseResult DEF Try
<1>9. CASE Call(w, p)
  <2>1. ASSUME thr' = [thr EXCEPT ![w][p].pc = "record", ![w][p].result = "failed"] PROVE FALSE
    <3>1. thr'[w][p].pc = "record"
      BY <1>2, <2>1 DEF Threads
    <3>2. QED BY <3>1
  <2>2. PauseClaim(w, p) \/ To(w, p, "call")
    BY <1>9, <2>1 DEF Call
  <2>3. QED BY <1>1, <1>4, <2>2, PauseResult
<1>10. CASE Answered(w, p)
  <2>1. CASE Publish(p) /\ Answers(w, p, "processed") /\ Holds(w, p)
    <3>1. part'[p] = [part[p] EXCEPT !.state = "processed", !.due = TRUE]
      BY <1>2, <2>1 DEF Publish
    <3>2. part'[p].state = "processed" /\ thr'[w][p].result = "processed"
      BY <1>1, <1>2, <2>1, <3>1, AnswersEffect DEF PartType
    <3>3. QED BY <2>1, <3>2 DEF EndsWith, Final, Holds, Owns
  <2>2. QED BY <1>1, <1>10, <2>1, PauseResult DEF Answered
<1>11. CASE RecordFailure(w, p)
  <2>1. ASSUME Record(w, p, r, n, "retry_wait", FALSE, To(w, p, "wait"))
        PROVE  EndsWith(w, p)
    <3>1. To(w, p, "wait") \/ PauseClaim(w, p)
      BY <2>1 DEF Record
    <3>2. QED BY <1>1, <1>4, <3>1, PauseResult
  <2>2. \/ Record(w, p, r, n, "retry_wait", FALSE, To(w, p, "wait"))
        \/ Record(w, p, r, n, "failed", TRUE, Answers(w, p, "failed"))
        \/ Record(w, p, r, n, "retry_wait", TRUE, Answers(w, p, "retry_wait"))
    BY <1>11 DEF RecordFailure
  <2>3. QED BY <1>5, <2>1, <2>2
<1>12. CASE GiveUp(w, p) \/ Raise(w, p)
  BY <1>1, <1>12, AnswersEffect DEF GiveUp, Raise, EndsWith
<1>13. CASE Retry(w, p)
  <2>1. ASSUME thr' = [thr EXCEPT ![w][p].pc = "try", ![w][p].token = part[p].gen + 1,
                           ![w][p].attempt = NextNumber(thr[w][p].attempt), ![w][p].turn = @ + 1]
        PROVE  FALSE
    <3>1. thr'[w][p].pc = "try"
      BY <1>2, <2>1 DEF Threads
    <3>2. QED BY <3>1
  <2>2. QED BY <1>1, <1>13, <2>1, PauseResult DEF Retry
<1>14. CASE Failed(w, p)
  BY <1>4, <1>14 DEF Failed
<1>15. CASE Count(w, p)
  <2>1. CASE /\ part' = [part EXCEPT ![p].state = "failed", ![p].due = TRUE]
             /\ Answers(w, p, "failed") /\ Holds(w, p)
    <3>1. part'[p] = [part[p] EXCEPT !.state = "failed", !.due = TRUE]
      BY <1>2, <2>1
    <3>2. part'[p].state = "failed" /\ thr'[w][p].result = "failed"
      BY <1>1, <1>2, <2>1, <3>1, AnswersEffect DEF PartType
    <3>3. QED BY <2>1, <3>2 DEF EndsWith, Final, Holds, Owns
  <2>2. CASE thr' = [thr EXCEPT ![w][p].pc = "try", ![w][p].turn = Turn(p, r),
                                ![w][p].attempt = part[p].tries + 1]
    <3>1. thr'[w][p].pc = "try"
      BY <1>2, <2>2 DEF Threads
    <3>2. QED BY <3>1
  <2>3. QED BY <1>1, <1>15, <2>1, <2>2, PauseResult DEF Count
<1>16. QED BY <1>6, <1>7, <1>8, <1>9, <1>10, <1>11, <1>12, <1>13, <1>14, <1>15 DEF ThreadStep

\* A step of a thread settles what was pending and makes nothing pending.
LEMMA PoolMove ==
    ASSUME IInv, OneWorker, CountedInv, NEW w \in Workers, NEW p \in Parts,
           ThreadStep(w, p) \/ Raise(w, p), agent[w].phase = "pool"
    PROVE  PoolInv(w)'
<1>1. Typed /\ Move(w, p) /\ Live(w, p)
  BY ThreadMoves DEF IInv, Move
<1>2. PoolInv(w) /\ agent' = agent /\ Rev(p) = agent[w].rev
  BY <1>1, MoveLocal DEF IInv, CountedInv, AloneInv, Alone
<1>3. /\ \A q \in Parts : q # p => part'[q] = part[q] /\ thr'[w][q] = thr[w][q]
      /\ thr'[w][p].pc = "done" => EndsWith(w, p)
  BY <1>1, MoveLocal, StepResult DEF IInv
<1>4. /\ \/ part'[p].state = part[p].state
         \/ part[p].state = "running" /\ part'[p].state \in {"retry_wait", "processed", "failed"}
         \/ part[p].state = "retry_wait" /\ part'[p].state = "running"
  BY <1>1, MovePart, RetryingPart DEF IInv, Owns
<1>5. thr'[w][p].pc # "none"
  <2>1. ASSUME Retrying(w, p) PROVE thr'[w][p].pc # "none"
    BY <2>1 DEF Retrying
  <2>2. QED BY <1>1, <2>1, MoveThread DEF IInv, Onward
<1>6. Pending(agent[w].rev, part') \subseteq Pending(agent[w].rev, part)
  BY <1>3, <1>4 DEF Pending, Done
<1>7. Settled(w)' \subseteq Settled(w) \cup Pending(agent[w].rev, part)
  <2>1. ASSUME NEW q \in Settled(w)', q = p PROVE q \in Pending(agent[w].rev, part)
    BY <1>2, <1>3, <2>1 DEF Settled, EndsWith, Final, Pending, Done
  <2>2. ASSUME NEW q \in Settled(w)', q # p PROVE q \in Settled(w)
    BY <1>3, <2>2 DEF Settled
  <2>3. QED BY <2>1, <2>2
<1>8. Cardinality(Counted(w)') <= agent'[w].before
  <2>1. Counted(w)' \subseteq Counted(w) /\ Counted(w) \subseteq Parts
    BY <1>2, <1>6, <1>7 DEF Counted, Settled, Pending
  <2>2. IsFiniteSet(Counted(w))
    BY <2>1, FiniteParts, FS_Subset
  <2>3. /\ Cardinality(Counted(w)') <= Cardinality(Counted(w))
        /\ Cardinality(Counted(w)') \in Nat /\ Cardinality(Counted(w)) \in Nat
    BY <2>1, <2>2, FS_Subset, FS_CardinalityType
  <2>4. Cardinality(Counted(w)) <= agent[w].before /\ agent[w].before \in Nat
    BY <1>2 DEF PoolInv, IInv, TypeOK, Agents
  <2>5. QED BY <1>2, <2>3, <2>4
<1>9. \A q \in Parts : thr'[w][q].pc = "done" => thr'[w][q].result # "none"
  BY <1>2, <1>3 DEF PoolInv, EndsWith, Final
<1>10. \A q \in Settled(w)' : part'[q].state \in Final
  <2>1. ASSUME NEW q \in Settled(w)', q = p PROVE part'[q].state \in Final
    BY <1>3, <2>1 DEF Settled, EndsWith, Final
  <2>2. ASSUME NEW q \in Settled(w)', q # p PROVE part'[q].state \in Final
    BY <1>2, <1>3, <2>2 DEF Settled, PoolInv
  <2>3. QED BY <2>1, <2>2
<1>11. QED BY <1>5, <1>8, <1>9, <1>10 DEF PoolInv

\* A frontier that takes parts counts them among the pending ones.
LEMMA PoolClaim ==
    ASSUME IInv, NEW w \in Workers, Claim(w)
    PROVE  PoolInv(w)'
<1> DEFINE r == agent[w].rev
<1>1. PICK chosen \in SUBSET Due(r) :
         /\ \/ Cardinality(chosen) = Concurrency
            \/ chosen = Due(r) /\ Cardinality(chosen) < Concurrency
         /\ \A p \in chosen : part[p].gen < MaxClaims
         /\ part' = [p \in Parts |-> IF p \in chosen
                        THEN [part[p] EXCEPT !.state = "running", !.gen = @ + 1] ELSE part[p]]
         /\ thr' = [thr EXCEPT ![w] = [p \in Parts |-> IF p \in chosen
                        THEN [NoThread EXCEPT !.pc = "start", !.token = part[p].gen + 1]
                        ELSE NoThread]]
  BY DEF Claim
<1>2. chosen # {} /\ chosen \subseteq Parts
  <2>1. Due(r) # {}
    BY DEF Claim
  <2>2. Due(r) \subseteq Parts
    BY DEF Due, Of
  <2>3. Cardinality({}) = 0 /\ Concurrency # 0
    BY FS_EmptySet, BoundsAssumption
  <2>4. QED BY <1>1, <2>1, <2>2, <2>3
<1>3. \A q \in Parts : thr'[w][q] = IF q \in chosen
                THEN [NoThread EXCEPT !.pc = "start", !.token = part[q].gen + 1] ELSE NoThread
  <2>1. thr \in [Workers -> [Parts -> Threads]]
    BY DEF IInv, TypeOK
  <2>2. QED BY <1>1, <2>1
<1>4. \A q \in Parts : thr'[w][q].pc = IF q \in chosen THEN "start" ELSE "none"
  <2>1. \A q \in chosen : thr'[w][q].pc = "start"
    <3>1. \A x : [NoThread EXCEPT !.pc = "start", !.token = x].pc = "start"
      BY DEF NoThread
    <3>2. QED BY <1>2, <1>3, <3>1
  <2>2. \A q \in Parts \ chosen : thr'[w][q].pc = "none"
    <3>1. NoThread.pc = "none"
      BY DEF NoThread
    <3>2. QED BY <1>3, <3>1
  <2>3. QED BY <2>1, <2>2
<1>5. Settled(w)' = {}
  BY <1>4 DEF Settled
<1>6. agent'[w].rev = r /\ agent'[w].before = Left(r)
  <2>1. agent' = [agent EXCEPT ![w] = [agent[w] EXCEPT !.phase = "pool", !.before = Left(r)]]
    <3>1. agent' = [agent EXCEPT ![w].phase = "pool", ![w].before = Left(r)]
      BY DEF Claim
    <3>2. agent \in [Workers -> Agents]
      BY DEF IInv, TypeOK
    <3>3. QED BY <3>1, <3>2
  <2>2. agent[w] \in Agents
    BY DEF IInv, TypeOK
  <2>3. agent'[w] = [agent[w] EXCEPT !.phase = "pool", !.before = Left(r)]
    BY <2>1 DEF IInv, TypeOK
  <2>4. QED BY <2>2, <2>3 DEF Agents
<1>7. Pending(r, part') = Pending(r, part)
  <2>1. \A q \in Parts : part[q] \in PartType
    BY DEF IInv, TypeOK, PartType
  <2>2. \A q \in Parts : q \in chosen => part[q].state \in Claimable /\ part'[q].state = "running"
    <3>1. ASSUME NEW q \in Parts, q \in chosen
          PROVE  part[q].state \in Claimable /\ part'[q].state = "running"
      <4>1. part'[q] = [part[q] EXCEPT !.state = "running", !.gen = @ + 1]
        BY <1>1, <3>1
      <4>2. QED BY <1>1, <2>1, <3>1, <4>1 DEF Due, PartType
    <3>2. QED BY <3>1
  <2>3. \A q \in Parts : q \notin chosen => part'[q] = part[q]
    BY <1>1
  <2>4. QED BY <2>2, <2>3 DEF Pending, Claimable, Done
<1>8. Cardinality(Counted(w)') <= agent'[w].before
  <2>1. Counted(w)' = Pending(r, part)
    BY <1>5, <1>6, <1>7 DEF Counted
  <2>2. r \in 0 .. MaxRevision
    BY DEF IInv, TypeOK, Agents
  <2>3. QED BY <1>6, <2>1, <2>2, LeftCounts DEF Left
<1>9. QED BY <1>2, <1>4, <1>5, <1>8 DEF PoolInv

\* Everything else leaves a pool alone, or is of an agent that has none.
LEMMA PoolElse ==
    ASSUME IInv, OneWorker, CountedInv, NotByThread, NEW w \in Workers, ~Claim(w),
           agent'[w].phase = "pool"
    PROVE  PoolInv(w)'
<1>1. agent[w] \in Agents /\ agent \in [Workers -> Agents]
  BY DEF IInv, TypeOK
<1>2. ASSUME AgentStep(w) \/ Restart(w) PROVE FALSE
  <2>1. ASSUME NEW ph \in {"invalidate", "requeue", "drop", "upsert", "frontier"}, Phase(w, ph) PROVE FALSE
    BY <2>1, PhaseEffect DEF IInv
  <2>2. ASSUME NEW o, NEW n, Rest(w, o, n) PROVE FALSE
    <3>1. agent'[w] = [agent[w] EXCEPT !.phase = "rest", !.outcome = o, !.left = n]
      BY <1>1, <2>2 DEF Rest
    <3>2. QED BY <1>1, <3>1 DEF Agents
  <2>3. CASE Begin(w) \/ Return(w) \/ Restart(w)
    <3>1. CASE Begin(w)
      <4>1. agent'[w] = [AtRest EXCEPT !.phase = "invalidate", !.rev = approved]
        BY <1>1, <3>1 DEF Begin
      <4>2. QED BY <4>1 DEF AtRest
    <3>2. CASE Return(w)
      <4>1. agent'[w] = [AtRest EXCEPT !.phase = "frontier", !.rev = ready]
        BY <1>1, <3>2 DEF Return
      <4>2. QED BY <4>1 DEF AtRest
    <3>3. CASE Restart(w)
      <4>1. agent'[w] = AtRest
        BY <1>1, <3>3 DEF Restart
      <4>2. QED BY <4>1 DEF AtRest
    <3>4. QED BY <2>3, <3>1, <3>2, <3>3
  <2>4. CASE Invalidate(w) \/ Requeue(w) \/ Drop(w) \/ Upsert(w)
    <3>1. ASSUME agent' = agent, agent[w].phase # "pool" PROVE FALSE
      BY <3>1
    <3>2. ASSUME Invalidate(w) PROVE FALSE
      BY <2>1, <3>1, <3>2 DEF Invalidate
    <3>3. ASSUME Requeue(w) PROVE FALSE
      BY <2>1, <3>3 DEF Requeue
    <3>4. ASSUME Upsert(w) PROVE FALSE
      BY <2>1, <2>2, <3>1, <3>4 DEF Upsert
    <3>5. ASSUME Drop(w) PROVE FALSE
      BY <2>1, <2>2, <3>1, <3>5 DEF Drop
    <3>6. QED BY <2>4, <3>2, <3>3, <3>4, <3>5
  <2>5. CASE ClaimNothing(w) \/ Collect(w)
    BY <2>2, <2>5 DEF ClaimNothing, Collect
  <2>6. QED BY <1>2, <2>3, <2>4, <2>5 DEF AgentStep
<1>3. Environment \/ UNCHANGED vars
  BY <1>2 DEF NotByThread, OneWorker
<1>4. agent' = agent /\ thr' = thr /\ \A q \in Parts : part'[q].state = part[q].state
  <2>1. ASSUME NEW p \in Parts, ComeDue(p)
        PROVE  \A q \in Parts : part'[q].state = part[q].state
    BY <2>1 DEF ComeDue, IInv, TypeOK
  <2>2. QED BY <1>3, <2>1 DEF Environment, Rescan, Approve, RequestStop, Expire, ComeDue, vars
<1>5. PoolInv(w)
  BY <1>4 DEF CountedInv
<1>6. Settled(w)' = Settled(w) /\ Counted(w)' = Counted(w)
  BY <1>4 DEF Settled, Counted, Pending
<1>7. \A q \in Settled(w) : q \in Parts
  BY DEF Settled
<1>8. QED BY <1>4, <1>5, <1>6, <1>7 DEF PoolInv

LEMMA CountedStep == IInv /\ CountedInv /\ [Next]_vars => CountedInv'
<1> SUFFICES ASSUME IInv, CountedInv, [Next]_vars, OneWorker, NEW w \in Workers,
                    agent'[w].phase = "pool"
             PROVE  PoolInv(w)'
  BY DEF CountedInv, OneWorker
<1>1. ASSUME NEW v \in Workers, NEW p \in Parts, ThreadStep(v, p) \/ Raise(v, p)
      PROVE  PoolInv(w)'
  <2>1. v = w /\ agent' = agent
    BY <1>1, ThreadMoves DEF IInv, Move, OneWorker
  <2>2. QED BY <1>1, <2>1, PoolMove
<1>2. CASE NotByThread
  BY <1>2, PoolClaim, PoolElse
<1>3. QED BY <1>1, <1>2, ByThread

LEMMA CountedHolds == Spec => []CountedInv
<1>1. Init => CountedInv
  BY DEF Init, CountedInv, AtRest
<1>2. QED BY <1>1, CountedStep, InvariantHolds, PTL DEF Spec

\* A part that is settled was counted and is not pending any more.
LEMMA FewerLeft ==
    ASSUME IInv, NEW w \in Workers, PoolInv(w), NEW p \in Settled(w)
    PROVE  Left(agent[w].rev) < agent[w].before
<1> DEFINE left == Pending(agent[w].rev, part)
<1>1. p \in Counted(w) /\ p \notin left /\ left \subseteq Counted(w) /\ Counted(w) \subseteq Parts
  BY DEF Counted, PoolInv, Pending, Done, Final, Settled
<1>2. IsFiniteSet(Counted(w)) /\ IsFiniteSet(left)
  BY <1>1, FiniteParts, FS_Subset
<1>3. Cardinality(left) < Cardinality(Counted(w))
  <2>1. Cardinality(left) <= Cardinality(Counted(w))
    BY <1>1, <1>2, FS_Subset
  <2>2. Cardinality(left) # Cardinality(Counted(w))
    BY <1>1, <1>2, FS_Subset
  <2>3. QED BY <1>2, <2>1, <2>2, FS_CardinalityType
<1>4. /\ Cardinality(left) \in Nat /\ Cardinality(Counted(w)) \in Nat /\ agent[w].before \in Nat
      /\ Cardinality(Counted(w)) <= agent[w].before
  BY <1>2, FS_CardinalityType DEF PoolInv, IInv, TypeOK, Agents
<1>5. QED BY <1>3, <1>4 DEF Left

\* Nothing left means that everything approved is settled.
LEMMA NothingLeft ==
    ASSUME IInv, OneWorker, NEW w \in Workers, agent[w].phase \in {"frontier", "pool"},
           approved = agent[w].rev, Left(agent[w].rev) = 0
    PROVE  \A p \in Included(agent[w].rev) : part[p].state \in Final
<1>1. Pending(agent[w].rev, part) = {}
  <2>1. IsFiniteSet(Pending(agent[w].rev, part))
    BY FiniteParts, FS_Subset DEF Pending
  <2>2. QED BY <2>1, FS_EmptySet DEF Left
<1>2. \A p \in Included(agent[w].rev) : part[p].state \notin {"absent", "invalidated"}
  BY UnitsFromInv DEF UnitsSound, Covered
<1>3. Included(agent[w].rev) \subseteq Parts
  BY IncludedParts DEF IInv, TypeOK, Agents, DraftInv
<1>4. ASSUME NEW p \in Included(agent[w].rev) PROVE part[p].state \in Final
  <2>1. p \in Parts /\ Rev(p) = agent[w].rev /\ part[p].state \notin {"absent", "invalidated"}
    BY <1>2, <1>3 DEF Included, Rev
  <2>2. part[p].state \in Done \cup {"absent"}
    BY <1>1, <2>1 DEF Pending
  <2>3. QED BY <2>1, <2>2 DEF Done, Final
<1>5. QED BY <1>4

ReportsTruly(w) ==
    LET a == agent[w]
        b == agent'[w] IN
    a.phase \in {"frontier", "pool"} /\ b.phase = "rest" =>
        /\ b.outcome = "complete" => /\ ~stop[w]
                                     /\ IF a.phase = "pool" THEN b.left < a.before ELSE b.left = 0
        /\ b.outcome = "failed"   => b.left < a.before
        /\ b.outcome = "complete" /\ b.left = 0 =>
              \A p \in Included(a.rev) : part'[p].state \in {"processed", "failed"}

LEMMA ReportStep ==
    ASSUME IInv, CountedInv, OneWorker, [Next]_vars, NEW w \in Workers
    PROVE  ReportsTruly(w)
<1> SUFFICES ASSUME agent[w].phase \in {"frontier", "pool"}, agent'[w].phase = "rest"
             PROVE  ReportsTruly(w)
  BY DEF ReportsTruly
<1>1. agent[w] \in Agents /\ agent \in [Workers -> Agents]
  BY DEF IInv, TypeOK
<1>2. ASSUME NEW o, NEW n, Rest(w, o, n)
      PROVE  agent'[w].outcome = o /\ agent'[w].left = n
  <2>1. agent'[w] = [agent[w] EXCEPT !.phase = "rest", !.outcome = o, !.left = n]
    BY <1>1, <1>2 DEF Rest
  <2>2. QED BY <1>1, <2>1 DEF Agents
<1> DEFINE r == agent[w].rev
<1>3. CASE ClaimNothing(w)
  <2>1. agent[w].phase = "frontier" /\ part' = part
    BY <1>3 DEF ClaimNothing
  <2>2. \/ agent'[w].outcome \in {"revoked", "paused"}
        \/ approved = r /\ ~MustPause(w) /\ Left(r) = 0 /\ agent'[w].outcome = "complete"
           /\ agent'[w].left = Left(r)
    BY <1>2, <1>3 DEF ClaimNothing
  <2>3. QED BY <2>1, <2>2, NothingLeft DEF ReportsTruly, MustPause, Final
<1>4. CASE Collect(w)
  <2>1. agent[w].phase = "pool" /\ part' = part /\ \A p \in Parts : ~Live(w, p)
    BY <1>4 DEF Collect
  <2>2. agent'[w].left = Left(r)
    BY <1>2, <1>4 DEF Collect
  <2>3. agent'[w].outcome = IF "raised" \in Results(w) THEN "raised"
                            ELSE IF approved # r THEN "revoked" ELSE Outcome(w)
    BY <1>2, <1>4 DEF Collect
  <2>4. PoolInv(w)
    BY <2>1 DEF CountedInv
  <2>5. ASSUME agent'[w].outcome = "failed" PROVE \E p \in Parts : p \in Settled(w)
    <3>1. "failed" \in Results(w)
      BY <2>3, <2>5 DEF Outcome
    <3>2. QED BY <3>1 DEF Results, Settled, Final
  <2>6. ASSUME agent'[w].outcome = "complete"
        PROVE  approved = r /\ ~stop[w] /\ \E p \in Parts : p \in Settled(w)
    <3>1. /\ approved = r /\ ~MustPause(w)
          /\ "raised" \notin Results(w) /\ "failed" \notin Results(w) /\ "retry_wait" \notin Results(w)
      BY <2>3, <2>6 DEF Outcome
    <3>2. PICK p \in Parts : thr[w][p].pc # "none"
      BY <2>4 DEF PoolInv
    <3>3. thr[w][p].pc = "done" /\ thr[w][p].result # "none"
      BY <2>1, <2>4, <3>2 DEF Live, PoolInv
    <3>4. thr[w][p].result \in Results(w) /\ thr[w][p] \in Threads
      BY <3>3 DEF Results, IInv, TypeOK
    <3>5. thr[w][p].result = "processed"
      BY <3>1, <3>3, <3>4 DEF Threads
    <3>6. QED BY <3>1, <3>3, <3>5 DEF Settled, Final, MustPause
  <2>7. agent'[w].outcome \in {"complete", "failed"} => Left(r) < agent[w].before
    BY <2>4, <2>5, <2>6, FewerLeft
  <2>8. QED BY <2>1, <2>2, <2>6, <2>7, NothingLeft DEF ReportsTruly, Final
<1>5. CASE Restart(w)
  <2>1. agent'[w].outcome = "none"
    BY <1>1, <1>5 DEF Restart, AtRest
  <2>2. QED BY <2>1 DEF ReportsTruly
<1>6. ClaimNothing(w) \/ Collect(w) \/ Restart(w)
  <2>1. ASSUME agent' = agent PROVE FALSE
    BY <2>1
  <2>2. ASSUME NEW p \in Parts, ThreadStep(w, p) \/ Raise(w, p) PROVE FALSE
    BY <2>1, <2>2, ThreadMoves DEF IInv, Move
  <2>3. ASSUME Environment \/ UNCHANGED vars PROVE FALSE
    BY <2>1, <2>3 DEF Environment, Rescan, Approve, RequestStop, Expire, ComeDue, vars
  <2>4. ASSUME Begin(w) \/ Invalidate(w) \/ Requeue(w) \/ Drop(w) \/ Upsert(w) \/ Return(w)
        PROVE  FALSE
    <3>1. ASSUME NEW ph, agent[w].phase = ph, ph \notin {"frontier", "pool"} PROVE FALSE
      BY <3>1
    <3>2. QED BY <2>4, <3>1 DEF Begin, Invalidate, Requeue, Drop, Upsert, Return
  <2>5. ASSUME Claim(w) PROVE FALSE
    <3>1. agent'[w].phase = "pool"
      BY <2>5, ClaimEffect DEF Claiming
    <3>2. QED BY <3>1
  <2>6. QED BY <2>2, <2>3, <2>4, <2>5 DEF Next, AgentStep, OneWorker
<1>7. QED BY <1>3, <1>4, <1>5, <1>6
-------------------------------------------------------------------------------
(* The theorems.                                                           *)

(* Every variable keeps its type, whatever fails and dies.                 *)
THEOREM TypeCorrect == Spec => []TypeOK
<1>1. IInv => TypeOK
  BY DEF IInv
<1>2. QED BY <1>1, InvariantHolds, PTL

(* No route is tried too often for a part, over all the stops, takeovers,  *)
(* failures, crashes and requeueings of its life (record_attempt,          *)
(* fail_exhausted_claim, resume_claim).                                    *)
THEOREM AttemptsAreLimited == Spec => []AttemptLimit
<1>1. IInv => AttemptLimit
  BY DEF IInv
<1>2. QED BY <1>1, InvariantHolds, PTL

(* Every claim is sound (claim_parts_with_tokens, record_attempt,          *)
(* resume_claim, recover_unfinished): whatever number of Workers share the *)
(* database and however often they die, a running part has exactly one     *)
(* live thread, no route is tried too often for a part, and no number of   *)
(* an attempt is used twice, if the store does not fail under pause_claim. *)
THEOREM ClaimsAreSound == ASSUME ~CanFail PROVE Spec => []ClaimsSound
<1>1. IInv => ClaimsSound
  BY ClaimsFromInv
<1>2. QED BY <1>1, InvariantHolds, PTL

(* Units and parts agree, and a frontier covers the approved revision      *)
(* (prepare_analysis, invalidate_entry, publish_evidence), through every   *)
(* crash and failure of one Worker.                                        *)
THEOREM UnitsAreSound == ASSUME OneWorker PROVE Spec => []UnitsSound
<1>1. IInv => UnitsSound
  BY UnitsFromInv
<1>2. QED BY <1>1, InvariantHolds, PTL

(* One Worker that neither dies nor meets a failing store calls the        *)
(* provider no more often for a part than the attempts allow.              *)
THEOREM CallsAreLimited == ASSUME OneWorker, ~CanCrash, ~CanFail PROVE Spec => []CallLimit
<1>1. IInv => CallLimit
  BY DEF IInv, CallLimitInv
<1>2. QED BY <1>1, InvariantHolds, PTL

(* Evidence is published only under the approved revision, whoever rescans *)
(* or approves while the provider answers: the call is made under the      *)
(* authority lock (run_frontier, publish_evidence).                        *)
THEOREM OnlyApprovedPublished == Spec => PublishedApproved
<1> DEFINE Allows == \A p \in Parts :
        part[p].state # "processed" /\ part'[p].state = "processed" => approved = Rev(p) /\ current = Rev(p)
<1>1. IInv /\ [Next]_vars => Allows
  BY PublishStep
<1>2. QED BY <1>1, InvariantHolds, PTL DEF Spec, PublishedApproved

(* One Worker, whatever happens to it, never sends a provider the content  *)
(* of a file for which that route has published evidence                   *)
(* (reuse_cached_evidence).                                                *)
THEOREM NeverResent == ASSUME OneWorker PROVE Spec => NotResent
<1> DEFINE Fresh == \A w \in Workers, p \in Parts :
        thr[w][p].pc # "call" /\ thr'[w][p].pc = "call" => cache[Key(p, thr[w][p].route)] = NoPart
<1>1. IInv /\ [Next]_vars => Fresh
  BY CallStep
<1>2. QED BY <1>1, InvariantHolds, PTL DEF Spec, NotResent

(* What a frontier of one Worker tells the graph is so: complete means not *)
(* stopped, and fewer parts left than found unless there were none; failed *)
(* means fewer left too; complete with nothing left means that every       *)
(* approved part is processed or has failed (run_frontier).                *)
THEOREM ReportsAreTrue == ASSUME OneWorker PROVE Spec => Reported
<1>1. IInv /\ CountedInv /\ [Next]_vars => \A w \in Workers : ReportsTruly(w)
  BY ReportStep
<1>2. QED BY <1>1, InvariantHolds, CountedHolds, PTL DEF Spec, Reported, ReportsTruly
===============================================================================
