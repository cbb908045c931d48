--------------------------- MODULE EvidenceFrontier ---------------------------
(***************************************************************************)
(* The evidence frontier: evidence/scheduler.py over evidence/store.py,    *)
(* with the preparation of evidence/service.py that fills it and the       *)
(* approval of the workspace store that it reads under.                    *)
(*                                                                         *)
(* Each Worker process has one Agent thread, which prepares a revision of  *)
(* the course and then runs frontiers: it claims some parts, gives each to *)
(* a pool thread, and waits for all of them.  A pool thread makes one      *)
(* store transaction per step.  The provider is called under the authority *)
(* lock of the workspace, which the API and every Worker process share.    *)
(* Nothing keeps a second Worker from starting on the same data directory; *)
(* the claim tokens are there for it.                                      *)
(*                                                                         *)
(* An entry has one part; priorities only choose which parts are claimed.  *)
(* A part id holds the policy versions, so within one version of the       *)
(* program a plan never changes and plan_generation stays 1.               *)
(***************************************************************************)
EXTENDS Naturals, FiniteSets

CONSTANTS Workers,      \* Worker processes on the data directory
          Entries,      \* approved files
          Routes,       \* provider routes, one per profile and model
          MaxRevision,  \* bound: manifest revisions
          MaxClaims,    \* bound: claims of one part
          MaxAttempts,  \* policy.max_attempts_per_route
          Concurrency,  \* policy.multimodal_concurrency
          CanCrash,     \* whether a Worker may die and start again
          CanFail       \* whether the evidence store may raise

ASSUME BoundsAssumption == /\ MaxRevision \in Nat /\ MaxClaims \in Nat
                           /\ MaxAttempts \in Nat \ {0} /\ Concurrency \in Nat \ {0}
ASSUME NamesAssumption == IsFiniteSet(Entries) /\ "unavailable" \notin Routes
ASSUME SwitchAssumption == CanCrash \in BOOLEAN /\ CanFail \in BOOLEAN

Revisions == 1 .. MaxRevision
Parts     == Revisions \X Entries
Rev(p)    == p[1]
Entry(p)  == p[2]
NoPart    == <<0, 0>>
Free      == <<"free", NoPart>>

VARIABLES
    (* workspace store, durable *)
    content,    \* content of each entry in each revision; 0: not included
    drafted,    \* the draft revision, 0 before the first
    approved,   \* the revision whose approval is current, or 0
    (* evidence store, durable *)
    current,    \* current_revision of the course
    part,       \* evidence_parts
    rows,       \* evidence_attempts: numbers used, by route
    units,      \* parts that have an evidence unit
    cache,      \* evidence_cache: the part whose unit answers a key
    ready,      \* the revision that the unfinished run has prepared, or 0
    (* Worker processes *)
    agent,      \* the Agent thread
    thr,        \* the pool threads
    stop,       \* the stop event of the run
    expired,    \* the run's persisted deadline has passed
    (* shared by the processes *)
    holder,     \* who holds the workspace authority lock
    (* history *)
    calls       \* provider calls begun, by part and route (saturating)

approval == <<content, drafted, approved>>
plans    == <<current, ready>>
results  == <<rows, units, cache>>
vars     == <<approval, plans, part, results, agent, thr, stop, expired, holder, calls>>

States     == {"absent", "prepared", "running", "retry_wait", "processed", "failed",
               "invalidated"}
Claimable  == {"prepared", "retry_wait"}
Done       == {"processed", "failed", "invalidated"}
Absent     == [state |-> "absent", gen |-> 0, tries |-> 0, due |-> TRUE]
AllRoutes  == Routes \cup {"unavailable"}
Keys       == Entries \X Revisions \X Routes
Key(p, r)  == <<Entry(p), content[Rev(p)][Entry(p)], r>>

\* "failed" is paused with failed parts, which the caller treats as a failure;
\* "raised" and "revoked" are exceptions out of the frontier.
Outcomes   == {"none", "complete", "paused", "failed", "raised", "revoked"}
AtRest     == [phase |-> "rest", rev |-> 0, before |-> 0, left |-> 0, outcome |-> "none"]
Agents     == [phase : {"rest", "invalidate", "requeue", "drop", "upsert", "frontier", "pool"},
               rev : 0 .. MaxRevision, before : Nat, left : Nat, outcome : Outcomes]

NoThread   == [pc |-> "none", token |-> 0, route |-> "unavailable", attempt |-> 0,
               turn |-> 0, result |-> "none"]
Threads    == [pc : {"none", "start", "cache", "count", "try", "lock", "call", "record",
                     "wait", "done"},
               token : 0 .. MaxClaims, route : AllRoutes, attempt : Nat,
               turn : 0 .. MaxAttempts,
               result : {"none", "processed", "failed", "retry_wait", "raised"}]
Live(w, p) == thr[w][p].pc \notin {"none", "done"}

Of(r)       == {p \in Parts : Rev(p) = r /\ part[p].state # "absent"}
Included(r) == {<<r, e>> : e \in {f \in Entries : content[r][f] # 0}}
-------------------------------------------------------------------------------
Init ==
    /\ content  = [r \in Revisions |-> [e \in Entries |-> 0]]
    /\ drafted  = 0 /\ approved = 0
    /\ current  = 0 /\ ready = 0
    /\ part     = [p \in Parts |-> Absent]
    /\ rows     = [p \in Parts |-> {}]
    /\ units    = {}
    /\ cache    = [k \in Keys |-> NoPart]
    /\ agent    = [w \in Workers |-> AtRest]
    /\ thr      = [w \in Workers |-> [p \in Parts |-> NoThread]]
    /\ stop     = [w \in Workers |-> FALSE]
    /\ expired  = [w \in Workers |-> FALSE]
    /\ holder   = Free
    /\ calls    = [p \in Parts |-> [r \in Routes |-> 0]]
-------------------------------------------------------------------------------
(* The workspace store: what a rescan and an approval do to the authority. *)

Anyway    == TRUE
Unheld    == holder = Free

\* A new draft takes the authority away; an entry keeps its content, changes or
\* is left out.
Rescan ==
    /\ Unheld /\ drafted < MaxRevision
    /\ LET new  == drafted + 1
           was(e) == IF drafted = 0 THEN 0 ELSE content[drafted][e] IN
       /\ \E c \in [Entries -> 0 .. new] :
             /\ \A e \in Entries : c[e] \in {0, was(e), new}
             /\ \E e \in Entries : c[e] # 0
             /\ content' = [content EXCEPT ![new] = c]
       /\ drafted' = new
    /\ approved' = 0
    /\ UNCHANGED <<plans, part, results, agent, thr, stop, expired, holder, calls>>

Approve ==
    /\ Unheld /\ approved = 0 /\ drafted # 0
    /\ approved' = drafted
    /\ UNCHANGED <<content, drafted, plans, part, results, agent, thr, stop, expired,
                   holder, calls>>

RequestStop(w) ==
    /\ ~stop[w] /\ agent[w].phase # "rest"
    /\ stop' = [stop EXCEPT ![w] = TRUE]
    /\ UNCHANGED <<approval, plans, part, results, agent, thr, expired, holder, calls>>

\* The clock: the run's deadline passes, or a part's next_attempt_at.
Expire(w) ==
    /\ ~expired[w] /\ agent[w].phase # "rest"
    /\ expired' = [expired EXCEPT ![w] = TRUE]
    /\ UNCHANGED <<approval, plans, part, results, agent, thr, stop, holder, calls>>

ComeDue(p) ==
    /\ ~part[p].due
    /\ part' = [part EXCEPT ![p].due = TRUE]
    /\ UNCHANGED <<approval, plans, results, agent, thr, stop, expired, holder, calls>>

Environment == \/ Rescan \/ Approve
               \/ \E w \in Workers : RequestStop(w) \/ Expire(w)
               \/ \E p \in Parts : ComeDue(p)
-------------------------------------------------------------------------------
(* The Agent thread: prepare_analysis, one transaction a step, and then    *)
(* analyze_frontier, once or more.                                         *)

Phase(w, ph)   == agent' = [agent EXCEPT ![w].phase = ph]
Rest(w, o, n)  == agent' = [agent EXCEPT ![w].phase = "rest", ![w].outcome = o, ![w].left = n]
During(w, ph)  == agent[w].phase = ph

\* A run reaches the preparation: a new one has its own deadline, a resumed one
\* finds that of its first visit.
Begin(w) ==
    /\ During(w, "rest") /\ approved # 0
    /\ agent' = [agent EXCEPT ![w] = [AtRest EXCEPT !.phase = "invalidate", !.rev = approved]]
    /\ ready' = 0
    /\ stop'  = [stop EXCEPT ![w] = FALSE]
    /\ expired' \in {expired, [expired EXCEPT ![w] = FALSE]}
    /\ UNCHANGED <<approval, current, part, results, thr, holder, calls>>

\* The parts of the revision prepared before that are no longer current.
Changed(r) == {p \in Of(current) : /\ current # r /\ part[p].state # "invalidated"
                                   /\ content[r][Entry(p)] # content[current][Entry(p)]}

\* Deleting a unit deletes the cache rows that refer to it.
Uncascaded(gone) == cache
Cascaded(gone)   == [k \in Keys |-> IF cache[k] \in gone THEN NoPart ELSE cache[k]]

Invalidate(w) ==
    /\ During(w, "invalidate")
    /\ LET stale == Changed(agent[w].rev) IN
       \/ /\ stale = {} /\ Phase(w, "requeue")
          /\ UNCHANGED <<part, units, cache>>
       \/ \E p \in stale :
          /\ part'  = [part EXCEPT ![p].state = "invalidated", ![p].due = TRUE]
          /\ units' = units \ {p}
          /\ cache' = Cascaded({p})
          /\ UNCHANGED agent
    /\ UNCHANGED <<approval, plans, rows, thr, stop, expired, holder, calls>>

\* retry_failed_parts: a part that the provider failed is prepared again as it
\* is, with its attempts; one whose preparation failed is forgotten.  Tokens are
\* never used again, so a part that is gone keeps the number of its claims.
Gone(p)       == [Absent EXCEPT !.gen = part[p].gen]
Forgiven(old) == {}
Kept(old)     == old

Requeue(w) ==
    /\ During(w, "requeue")
    /\ LET failed == {p \in Of(agent[w].rev) : part[p].state = "failed" /\ current = Rev(p)} IN
       /\ part' = [p \in Parts |->
                     IF p \notin failed THEN part[p]
                     ELSE IF part[p].tries = 0 THEN Gone(p)
                     ELSE [part[p] EXCEPT !.state = "prepared", !.due = TRUE]]
       /\ rows' = [p \in Parts |-> IF p \in failed THEN Kept(rows[p]) ELSE rows[p]]
    /\ Phase(w, "drop")
    /\ UNCHANGED <<approval, plans, units, cache, thr, stop, expired, holder, calls>>

\* Parts of this very revision, which a preparer of an older one invalidated, are
\* deleted, with their attempts, to be planned again.
Drop(w) ==
    /\ During(w, "drop")
    /\ LET stale == {p \in Included(agent[w].rev) : part[p].state = "invalidated"} IN
       /\ part' = [p \in Parts |-> IF p \in stale THEN Gone(p) ELSE part[p]]
       /\ rows' = [p \in Parts |-> IF p \in stale THEN {} ELSE rows[p]]
    /\ Phase(w, "upsert")
    /\ UNCHANGED <<approval, plans, units, cache, thr, stop, expired, holder, calls>>

\* Each entry that has no part is read and planned under the authority lock.
Missing(r)       == Included(r) \ Of(r)

Upsert(w) ==
    /\ During(w, "upsert") /\ Unheld
    /\ LET r == agent[w].rev IN
       \/ /\ approved # r /\ Rest(w, "revoked", 0)
          /\ UNCHANGED <<plans, part>>
       \/ /\ approved = r /\ Missing(r) = {}
          /\ Phase(w, "frontier")
          /\ ready' = r
          /\ UNCHANGED <<current, part>>
       \/ /\ approved = r
          /\ \E p \in Missing(r), s \in {"prepared", "failed"} :
                part' = [part EXCEPT ![p] = [Gone(p) EXCEPT !.state = s]]
          /\ current' = r
          /\ UNCHANGED <<ready, agent>>
    /\ UNCHANGED <<approval, results, thr, stop, expired, holder, calls>>

\* The graph comes back to the frontier, in this Worker or in another, with or
\* without a Resume in between.
Return(w) ==
    /\ During(w, "rest") /\ ready # 0 /\ approved = ready
    /\ agent' = [agent EXCEPT ![w] = [AtRest EXCEPT !.phase = "frontier", !.rev = ready]]
    /\ stop'  = [stop EXCEPT ![w] = FALSE]
    /\ UNCHANGED <<approval, plans, part, results, thr, expired, holder, calls>>

MustPause(w) == stop[w] \/ expired[w]

PendingButRetrying(r, pt) == {p \in Parts : Rev(p) = r /\ pt[p].state \notin Done \cup {"absent", "retry_wait"}}
Pending(r, pt)            == {p \in Parts : Rev(p) = r /\ pt[p].state \notin Done \cup {"absent"}}
Left(r)                   == Cardinality(Pending(r, part))

Due(r) == {p \in Of(r) : current = r /\ part[p].state \in Claimable /\ part[p].due}

\* run_frontier up to the pool: claim_parts_with_tokens.
Claim(w) ==
    LET r == agent[w].rev IN
    /\ During(w, "frontier") /\ approved = r /\ ~MustPause(w) /\ Due(r) # {}
    /\ \E chosen \in SUBSET Due(r) :
       /\ \/ Cardinality(chosen) = Concurrency
          \/ chosen = Due(r) /\ Cardinality(chosen) < Concurrency
       /\ \A p \in chosen : part[p].gen < MaxClaims
       /\ part' = [p \in Parts |-> IF p \in chosen
                      THEN [part[p] EXCEPT !.state = "running", !.gen = @ + 1] ELSE part[p]]
       /\ thr' = [thr EXCEPT ![w] = [p \in Parts |-> IF p \in chosen
                      THEN [NoThread EXCEPT !.pc = "start", !.token = part[p].gen + 1]
                      ELSE NoThread]]
    /\ agent' = [agent EXCEPT ![w].phase = "pool", ![w].before = Left(r)]
    /\ UNCHANGED <<approval, plans, results, stop, expired, holder, calls>>

\* Its early returns: the authority is gone, it must pause, nothing can be claimed.
ClaimNothing(w) ==
    LET r == agent[w].rev IN
    /\ During(w, "frontier")
    /\ \/ approved # r /\ Rest(w, "revoked", Left(r))
       \/ /\ approved = r /\ MustPause(w)
          /\ Rest(w, "paused", Left(r))
       \/ /\ approved = r /\ ~MustPause(w) /\ Due(r) = {}
          /\ Rest(w, IF Left(r) = 0 THEN "complete" ELSE "paused", Left(r))
    /\ UNCHANGED <<approval, plans, part, results, thr, stop, expired, holder, calls>>

\* The rest of run_frontier: every pool thread has returned.
Results(w) == {thr[w][p].result : p \in {q \in Parts : thr[w][q].pc = "done"}}
Outcome(w) == IF "failed" \in Results(w) THEN "failed"
              ELSE IF MustPause(w) \/ "retry_wait" \in Results(w) THEN "paused"
              ELSE "complete"

Collect(w) ==
    LET r == agent[w].rev IN
    /\ During(w, "pool") /\ \A p \in Parts : ~Live(w, p)
    /\ Rest(w, IF "raised" \in Results(w) THEN "raised"
               ELSE IF approved # r THEN "revoked" ELSE Outcome(w), Left(r))
    /\ thr' = [thr EXCEPT ![w] = [p \in Parts |-> NoThread]]
    /\ UNCHANGED <<approval, plans, part, results, stop, expired, holder, calls>>

AgentStep(w) == \/ Begin(w) \/ Invalidate(w) \/ Requeue(w) \/ Drop(w)
                \/ Upsert(w) \/ Return(w) \/ Claim(w) \/ ClaimNothing(w) \/ Collect(w)
-------------------------------------------------------------------------------
(* The pool threads: _run_part under _run_part_guarded.                    *)

Thread(w, p, pc) == thr[w][p].pc = pc
To(w, p, pc)     == thr' = [thr EXCEPT ![w][p].pc = pc]
Answers(w, p, x) == thr' = [thr EXCEPT ![w][p].pc = "done", ![w][p].result = x]
KeptLocked(w, p) == holder' = holder
Release(w, p)    == holder' = IF holder = <<w, p>> THEN Free ELSE holder

\* The claim is the current one, of the current revision.
Owns(w, p)        == part[p].state = "running" /\ part[p].gen = thr[w][p].token
Holds(w, p)       == Owns(w, p) /\ current = Rev(p)

\* pause_claim, whose refusal is ignored, and the answer of a thread that pauses.
StillRunning(w, p)   == part
Paused(w, p)         == IF Owns(w, p)
                        THEN [part EXCEPT ![p].state = "retry_wait", ![p].due = TRUE] ELSE part
PauseClaim(w, p)     == part' = Paused(w, p) /\ Answers(w, p, "retry_wait")

\* record_attempt, in one transaction, or else the guard's pause.
Numbers(p)      == {x.n : x \in rows[p]}
Rows(p, r)      == {x \in rows[p] : x.route = r}
Record(w, p, route, n, state, due, next) ==
    IF Holds(w, p) /\ n \notin Numbers(p)
    THEN /\ rows' = [rows EXCEPT ![p] = @ \cup {[n |-> n, route |-> route]}]
         /\ part' = [part EXCEPT ![p].state = state, ![p].due = due,
                                 ![p].tries = IF n > @ THEN n ELSE @]
         /\ next
    ELSE PauseClaim(w, p) /\ UNCHANGED rows

Start(w, p) ==
    /\ Thread(w, p, "start")
    /\ \/ MustPause(w) /\ PauseClaim(w, p) /\ UNCHANGED rows
       \/ /\ ~MustPause(w)
          /\ \E r \in Routes : thr' = [thr EXCEPT ![w][p].pc = "cache", ![w][p].route = r]
          /\ UNCHANGED <<part, rows>>
       \/ /\ ~MustPause(w)   \* route_identity raises
          /\ Record(w, p, "unavailable", part[p].tries + 1, "retry_wait", TRUE,
                    Answers(w, p, "retry_wait"))
    /\ UNCHANGED <<approval, plans, units, cache, agent, stop, expired, holder, calls>>

CachedHere(p, r) == cache[Key(p, r)] # NoPart /\ Rev(cache[Key(p, r)]) = Rev(p)
Cached(p, r)     == cache[Key(p, r)] # NoPart

Publish(p) == /\ part'  = [part EXCEPT ![p].state = "processed", ![p].due = TRUE]
              /\ units' = units \cup {p}

\* reuse_cached_evidence, under the authority lock.
LookUp(w, p) ==
    LET r == thr[w][p].route IN
    /\ Thread(w, p, "cache") /\ Unheld
    /\ \/ /\ approved # Rev(p) \/ ~Holds(w, p)
          /\ PauseClaim(w, p) /\ UNCHANGED units
       \/ /\ approved = Rev(p) /\ Holds(w, p) /\ Cached(p, r)
          /\ Publish(p) /\ Answers(w, p, "processed")
       \/ /\ approved = Rev(p) /\ Holds(w, p) /\ ~Cached(p, r)
          /\ To(w, p, "count") /\ UNCHANGED <<part, units>>
    /\ UNCHANGED <<approval, plans, rows, cache, agent, stop, expired, holder, calls>>

\* The attempts are counted, without the lock: the part gets its number and its turn
\* on the route, or fail_exhausted_claim when all turns are used.
Turn(p, r) == Cardinality(Rows(p, r)) + 1

Count(w, p) ==
    LET turn == Turn(p, thr[w][p].route) IN
    /\ Thread(w, p, "count")
    /\ \/ /\ part[p].state = "absent" \/ (turn > MaxAttempts /\ ~Holds(w, p))
          /\ PauseClaim(w, p)
       \/ /\ turn > MaxAttempts /\ Holds(w, p)
          /\ part' = [part EXCEPT ![p].state = "failed", ![p].due = TRUE]
          /\ Answers(w, p, "failed")
       \/ /\ part[p].state # "absent" /\ turn <= MaxAttempts
          /\ thr' = [thr EXCEPT ![w][p].pc = "try", ![w][p].turn = turn,
                                ![w][p].attempt = part[p].tries + 1]
          /\ UNCHANGED part
    /\ UNCHANGED <<approval, plans, results, agent, stop, expired, holder, calls>>

\* The head of the attempt loop.
Try(w, p) ==
    /\ Thread(w, p, "try")
    /\ \/ MustPause(w) /\ PauseClaim(w, p)
       \/ ~MustPause(w) /\ To(w, p, "lock") /\ UNCHANGED part
    /\ UNCHANGED <<approval, plans, results, agent, stop, expired, holder, calls>>

\* The authority is taken, the part read, and the provider called under it.
Authorized(p) == approved = Rev(p)

Call(w, p) ==
    /\ Thread(w, p, "lock") /\ Unheld
    /\ \/ /\ ~Authorized(p) \/ MustPause(w)
          /\ PauseClaim(w, p) /\ UNCHANGED <<holder, calls>>
       \/ /\ Authorized(p)      \* the prepared part cannot be read
          /\ thr' = [thr EXCEPT ![w][p].pc = "record", ![w][p].result = "failed"]
          /\ UNCHANGED <<part, holder, calls>>
       \/ /\ Authorized(p) /\ ~MustPause(w)
          /\ holder' = <<w, p>> /\ To(w, p, "call")
          /\ calls'  = [calls EXCEPT ![p][thr[w][p].route] =
                           IF @ > MaxAttempts THEN @ ELSE @ + 1]
          /\ UNCHANGED part
    /\ UNCHANGED <<approval, plans, results, agent, stop, expired>>

\* A valid answer is published, stop or no stop, before the lock is released.
Answered(w, p) ==
    LET k == Key(p, thr[w][p].route) IN
    /\ Thread(w, p, "call")
    /\ \/ /\ Holds(w, p) /\ cache[k] = NoPart
          /\ Publish(p) /\ Answers(w, p, "processed")
          /\ cache' = [cache EXCEPT ![k] = p]
       \/ /\ ~Holds(w, p) \/ cache[k] # NoPart \/ CanFail
          /\ PauseClaim(w, p) /\ UNCHANGED <<units, cache>>
    /\ Release(w, p)
    /\ UNCHANGED <<approval, plans, rows, agent, stop, expired, calls>>

\* The provider, or the validation of its answer, fails, which gives the lock back.
Failed(w, p) ==
    /\ Thread(w, p, "call") /\ To(w, p, "record")
    /\ Release(w, p)
    /\ UNCHANGED <<approval, plans, part, results, agent, stop, expired, calls>>

\* The failed attempt is recorded after that, by what failed.
MoreTurns(n)        == n < MaxAttempts

RecordFailure(w, p) ==
    LET t == thr[w][p] IN
    /\ Thread(w, p, "record")
    /\ \/ /\ MoreTurns(t.turn) /\ t.result = "none"      \* retryable, with a turn left
          /\ Record(w, p, t.route, t.attempt, "retry_wait", FALSE, To(w, p, "wait"))
       \/ /\ ~MoreTurns(t.turn) /\ t.result = "none"     \* retryable, the last turn
          /\ Record(w, p, t.route, t.attempt, "failed", TRUE, Answers(w, p, "failed"))
       \/ \* credentials, policy, model or request refused: no turn can help
          /\ t.result = "none"
          /\ Record(w, p, t.route, t.attempt, "retry_wait", TRUE, Answers(w, p, "retry_wait"))
       \/ \* evidence_validation_failed
          Record(w, p, t.route, t.attempt, "failed", TRUE, Answers(w, p, "failed"))
    /\ UNCHANGED <<approval, plans, units, cache, agent, stop, expired, holder, calls>>

\* _wait_for_retry gives up: a stop, or the deadline before the retry.
GiveUp(w, p) ==
    /\ Thread(w, p, "wait") /\ Answers(w, p, "retry_wait")
    /\ UNCHANGED <<approval, plans, part, results, agent, stop, expired, holder, calls>>

\* It ends, and resume_claim turns the claim over.
NextNumber(n) == n + 1

Retry(w, p) ==
    LET n == NextNumber(thr[w][p].attempt) IN
    /\ Thread(w, p, "wait") /\ ~MustPause(w)
    /\ \/ /\ part[p].state = "retry_wait" /\ part[p].gen = thr[w][p].token /\ current = Rev(p)
          /\ part[p].gen < MaxClaims
          /\ part' = [part EXCEPT ![p] = [state |-> "running", gen |-> part[p].gen + 1, due |-> TRUE,
                                          tries |-> IF n > part[p].tries THEN n ELSE part[p].tries]]
          /\ thr' = [thr EXCEPT ![w][p].pc = "try", ![w][p].token = part[p].gen + 1,
                                ![w][p].attempt = n, ![w][p].turn = @ + 1]
       \/ /\ part[p].state # "retry_wait" \/ part[p].gen # thr[w][p].token \/ current # Rev(p)
          /\ PauseClaim(w, p)
    /\ UNCHANGED <<approval, plans, results, agent, stop, expired, holder, calls>>

ThreadStep(w, p) == \/ Start(w, p) \/ LookUp(w, p) \/ Count(w, p) \/ Try(w, p)
                    \/ Call(w, p) \/ Answered(w, p) \/ Failed(w, p) \/ RecordFailure(w, p)
                    \/ GiveUp(w, p) \/ Retry(w, p)

\* The store raises, and raises again under pause_claim: the thread ends, its
\* exception comes out of run_frontier, and nothing is known of its part.
Raise(w, p) ==
    /\ CanFail /\ Live(w, p)
    /\ Answers(w, p, "raised") /\ Release(w, p)
    /\ UNCHANGED <<approval, plans, part, results, agent, stop, expired, calls>>
-------------------------------------------------------------------------------
\* A Worker dies and starts again, or one starts beside another: whatever was
\* running anywhere is recovered.
Recovered == [p \in Parts |-> IF part[p].state = "running"
                 THEN [part[p] EXCEPT !.state = "retry_wait", !.due = TRUE] ELSE part[p]]

Restart(w) ==
    /\ CanCrash
    /\ part'   = Recovered
    /\ agent'  = [agent EXCEPT ![w] = AtRest]
    /\ thr'    = [thr EXCEPT ![w] = [p \in Parts |-> NoThread]]
    /\ stop'   = [stop EXCEPT ![w] = FALSE]
    /\ holder' = IF holder[1] = w THEN Free ELSE holder
    /\ UNCHANGED <<approval, plans, results, expired, calls>>

Next == \/ Environment
        \/ \E w \in Workers : \/ AgentStep(w) \/ Restart(w)
                              \/ \E p \in Parts : ThreadStep(w, p) \/ Raise(w, p)

Spec == Init /\ [][Next]_vars

\* A pool thread goes on and the Agent thread collects: a provider call and a wait
\* for a retry are bounded by timeouts.
Fairness == \A w \in Workers : /\ WF_vars(Collect(w))
                               /\ \A p \in Parts : WF_vars(ThreadStep(w, p))

FairSpec == Spec /\ Fairness
-------------------------------------------------------------------------------
(* Properties.                                                             *)

(* Types of every variable. *)
TypeOK ==
    /\ content \in [Revisions -> [Entries -> 0 .. MaxRevision]]
    /\ drafted \in 0 .. MaxRevision /\ approved \in 0 .. MaxRevision
    /\ current \in 0 .. MaxRevision /\ ready \in 0 .. MaxRevision
    /\ part \in [Parts -> [state : States, gen : 0 .. MaxClaims, tries : Nat, due : BOOLEAN]]
    /\ rows \in [Parts -> SUBSET [n : Nat, route : AllRoutes]]
    /\ units \subseteq Parts
    /\ cache \in [Keys -> Parts \cup {NoPart}]
    /\ agent \in [Workers -> Agents]
    /\ thr \in [Workers -> [Parts -> Threads]]
    /\ stop \in [Workers -> BOOLEAN] /\ expired \in [Workers -> BOOLEAN]
    /\ holder \in (Workers \X Parts) \cup {Free}
    /\ calls \in [Parts -> [Routes -> Nat]]

(* A running part is in the hands of exactly one live thread that has its  *)
(* current claim, whatever was stopped, revoked, retried, recovered or     *)
(* taken over by another Worker: otherwise it would stay running, and its  *)
(* course unfinished, until the next start.                                *)
ClaimsHeld == \A p \in Parts : part[p].state = "running" =>
    \E w \in Workers : /\ Live(w, p) /\ thr[w][p].token = part[p].gen
                       /\ \A v \in Workers : Live(v, p) /\ thr[v][p].token = part[p].gen => v = w

(* What the study map requires of the store: a part is processed exactly   *)
(* when it has a unit, and a cached answer is a unit that exists, of the   *)
(* same content.                                                           *)
OneUnit == /\ \A p \in Parts : p \in units <=> part[p].state = "processed"
           /\ \A k \in Keys : cache[k] # NoPart =>
                 /\ cache[k] \in units
                 /\ \E r \in Routes : Key(cache[k], r) = k

(* No part has more recorded attempts on a route than the policy allows,   *)
(* over all the stops, restarts, takeovers and requeueings of its life.    *)
AttemptLimit == \A p \in Parts, r \in Routes : Cardinality(Rows(p, r)) <= MaxAttempts

(* An attempt is recorded under a number that was not used before, so that *)
(* the primary key of evidence_attempts never refuses a current claim.     *)
FreshNumbers == \A w \in Workers, p \in Parts :
    thr[w][p].pc \in {"try", "lock", "call", "record"} /\ Holds(w, p) => thr[w][p].attempt \notin Numbers(p)

(* Claims and their attempts are sound through every takeover              *)
(* (claim_parts_with_tokens, record_attempt, recover_unfinished).          *)
ClaimsSound == TypeOK /\ ClaimsHeld /\ AttemptLimit /\ FreshNumbers

(* As long as no Worker dies and the store does not fail, the provider is  *)
(* not called more often than that either.                                 *)
CallLimit == \A p \in Parts, r \in Routes : calls[p][r] <= MaxAttempts

(* A frontier that may begin covers every approved entry with a part that  *)
(* is not invalidated, even when a preparation was cut short before (one   *)
(* Worker).                                                                *)
Covered == \A w \in Workers :
    agent[w].phase \in {"frontier", "pool"} /\ approved = agent[w].rev =>
        \A p \in Included(approved) : part[p].state \notin {"absent", "invalidated"}

(* What the store has of the approved revision is one unit of each part    *)
(* that is done, and a part of each file that is not (prepare_analysis,    *)
(* invalidate_entry).                                                      *)
UnitsSound == OneUnit /\ Covered

(* The provider is not called for content that has published evidence on   *)
(* that route, in whatever revision it was published (one Worker).         *)
NotResent == [][ \A w \in Workers, p \in Parts :
    thr[w][p].pc # "call" /\ thr'[w][p].pc = "call" => cache[Key(p, thr[w][p].route)] = NoPart ]_vars

(* A part becomes processed only while its revision is the approved one,   *)
(* although the thread checked that long before the provider answered.     *)
PublishedApproved == [][ \A p \in Parts :
    part[p].state # "processed" /\ part'[p].state = "processed" =>
        approved = Rev(p) /\ current = Rev(p) ]_vars

(* What the graph relies on: a frontier reported complete was not stopped, *)
(* and has left fewer parts pending than it found unless none were; one    *)
(* with failed parts has left fewer as well; and complete with nothing     *)
(* pending means that every approved part was processed or has failed.     *)
Reported == [][ \A w \in Workers : LET a == agent[w]  b == agent'[w] IN
    a.phase \in {"frontier", "pool"} /\ b.phase = "rest" =>
        /\ b.outcome = "complete" => /\ ~stop[w]
                                     /\ IF a.phase = "pool" THEN b.left < a.before ELSE b.left = 0
        /\ b.outcome = "failed"   => b.left < a.before
        /\ b.outcome = "complete" /\ b.left = 0 =>
              \A p \in Included(a.rev) : part'[p].state \in {"processed", "failed"} ]_vars

(* Every frontier returns: no thread waits for the authority lock, for its *)
(* provider or for a retry for ever.                                       *)
FrontierReturns == \A w \in Workers : agent[w].phase = "pool" ~> agent[w].phase # "pool"
===============================================================================
