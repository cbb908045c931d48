------------------------------ MODULE StudyMap ------------------------------
(* The study maps of one workspace: the StudyMapBuilder and the calls of    *)
(* the EvidenceService around it.  A map is a row of the evidence store,    *)
(* with the units it cites, and a JSON artifact; the artifacts keep what    *)
(* ArtifactSlots promises, so the tombstone of a revoked map is final.      *)
(*                                                                          *)
(* A transaction of the evidence store and a call of the artifact store are *)
(* one step each, and the reads of one decision are one step.  Each of them *)
(* may fail, a call of the artifact store also after its effect, and the    *)
(* Worker may die between any two.  Each approved file is one part.         *)
EXTENDS Integers, FiniteSets, FiniteSetsExt, Sequences

CONSTANTS Parts,
          Urgent,      \* the parts of high priority
          Unreadable,  \* the parts whose preparation may fail
          Nodes,       \* the knowledge nodes a synthesizer may propose
          Threads, NoOne,
          MaxRev,      \* bound on approved revisions
          MaxPolicy,   \* bound on versions of the preparation policy
          MaxTime,     \* bound on the times of evidence told apart
          MaxOps,      \* bound on calls
          MaxMaps,     \* bound on synthesized maps
          MaxFaults    \* bound on failing calls and deaths of the Worker

ASSUME StudyMapAssumption ==
    /\ Urgent \cup Unreadable \subseteq Parts /\ NoOne \notin Threads \cup Nodes
    /\ IsFiniteSet(Nodes)
    /\ MaxRev \in Nat \ {0} /\ MaxPolicy \in Nat \ {0} /\ MaxTime \in Nat \ {0}
    /\ MaxOps \in Nat /\ MaxMaps \in Nat /\ MaxFaults \in Nat

VARIABLES approved,   \* the revision that is approved, 0, or Gone
          source,     \* by revision and part: the revision that last changed it
          policy,     \* the preparation policy of this Worker
          rev,        \* the current revision of the evidence, or 0
          part,       \* the parts of each revision
          rows,       \* the maps in the store
          revoked, pending,   \* the revocation rows, those not completed
          deletion,   \* the mark of a deletion in the evidence store
          docs, tombs,        \* the maps with an artifact, with a tombstone
          guard,      \* the holder of the workspace's authority lock
          lock,       \* the holder of the builder's artifact lock
          th,         \* the calls under way, by thread
          ops, maps, faults

workspace == <<approved, source, policy>>
store == <<rev, part, rows, revoked, pending, deletion>>
artifacts == <<docs, tombs>>
locks == <<guard, lock>>
vars == <<workspace, store, artifacts, locks, th, ops, maps, faults>>

-----------------------------------------------------------------------------
(* A unit of evidence belongs to one plan of one part, and has the same id  *)
(* when that is analysed again.  The id of a map is a digest of its content *)
(* and of the id of the map it supersedes: here it is those contents        *)
(* themselves, newest first.  The coverage in it has the times of the       *)
(* evidence: another each time a part was invalidated, up to MaxTime, as of *)
(* a clock that stands still from there on.                                 *)

Revs == 1..MaxRev
Gone == MaxRev + 1      \* the workspace itself is being deleted
States == {"absent", "pending", "processed", "failed", "unprepared", "invalidated"}
Units == [rev : Revs, part : Parts, policy : 1..MaxPolicy]
Contents == [rev : Revs, status : {"initial", "complete"}, cites : SUBSET Units,
             processed : SUBSET [part : Parts, time : 1..MaxTime]]
NoMap == <<>>
IsMap(id) == id \in Seq(Contents) /\ Len(id) \in 1..MaxMaps

In(r, states) == {p \in Parts : part[r][p].state \in states}
Planned(r) == Parts \ In(r, {"absent"})
UnitOf(r, p) == [rev |-> r, part |-> p, policy |-> part[r][p].policy]
UnitsOf(r) == {UnitOf(r, p) : p \in In(r, {"processed"})}
Valid(id) == id[1].cites \subseteq UnitsOf(id[1].rev)
RowsOf(r) == {row \in rows : row.id[1].rev = r}
Row(id) == {row \in rows : row.id = id}
Newest(set) == CHOOSE row \in set : \A other \in set : other.stamp <= row.stamp
Current(r) == IF RowsOf(r) = {} THEN NoMap ELSE Newest(RowsOf(r)).id

\* The nodes visited so far, and NoOne if a cycle was met.
SeenSets == SUBSET (Nodes \cup {NoOne})

(* Mutant: a node stays among those being visited.                          *)
RejectsShared(graph) ==
    LET visit[path \in SUBSET Nodes] == [n \in Nodes |-> [seen \in SeenSets |->
            IF n \in path \cup seen THEN seen \cup {NoOne}
            ELSE {n} \cup FoldSet(LAMBDA d, done : visit[path \cup {n}][d][done], seen, graph[n])]]
    IN  NoOne \in FoldSet(LAMBDA n, done : visit[{}][n][done], {}, Nodes)

(* visit: the nodes on the path are being visited; one that is met again    *)
(* closes a cycle.  The result carries the nodes visited so far.            *)
RejectsCycle(graph) ==
    LET visit[path \in SUBSET Nodes] == [n \in Nodes |-> [seen \in SeenSets |->
            IF n \in path THEN seen \cup {NoOne}
            ELSE IF n \in seen \/ NoOne \in seen THEN seen
            ELSE {n} \cup FoldSet(LAMBDA d, done : visit[path \cup {n}][d][done], seen, graph[n])]]
    IN  NoOne \in FoldSet(LAMBDA n, done : visit[{}][n][done], {}, Nodes)

Idle == [kind |-> "idle", pc |-> "idle", rev |-> 0, status |-> "initial",
         of |-> 0, entries |-> {}, ids |-> {}, target |-> NoMap,
         stamp |-> 0, inserted |-> FALSE]

Kinds == {"idle", "build", "answer", "prepare", "delete"}
Guarded == {"synthesize", "parse", "save", "load", "check", "write", "recheck",
            "undo", "drop", "withdraw", "forget", "compose"}
Pcs == Guarded \cup {"idle", "begin", "revoke", "completed", "decide", "draft", "publish",
        "context", "authority", "answer", "previous", "changed", "retry", "stale", "plan", "files", "rows"}

(* The first revision is approved, and perhaps prepared.                    *)
Init ==
    /\ approved = 1 /\ source = [r \in Revs |-> [p \in Parts |-> 1]] /\ policy = 1
    /\ rev \in {0, 1}
    /\ part = [r \in Revs |-> [p \in Parts |->
                  [state |-> IF r = rev THEN "pending" ELSE "absent", policy |-> 1,
                   time |-> 1]]]
    /\ rows = {} /\ revoked = {} /\ pending = {} /\ deletion = FALSE
    /\ docs = {} /\ tombs = {} /\ guard = NoOne /\ lock = NoOne
    /\ th = [t \in Threads |-> Idle]
    /\ ops = 0 /\ maps = 0 /\ faults = 0

-----------------------------------------------------------------------------
(* A thread takes its next step, with the locks its new place holds.        *)

At(t, pc) == th[t].pc = pc
Become(t, next) ==
    /\ th' = [th EXCEPT ![t] = next]
    /\ guard' = IF next.pc \in Guarded THEN t ELSE IF guard = t THEN NoOne ELSE guard
    /\ lock' = IF next.pc = "write" THEN t ELSE IF lock = t THEN NoOne ELSE lock
Goto(t, pc) == Become(t, [th[t] EXCEPT !.pc = pc])

(* Where an exception leads: a publication takes back the row it inserted,  *)
(* even when the revocation of the artifact fails as well; every other call *)
(* ends.                                                                    *)
Raised(t) ==
    CASE th[t].pc \in {"check", "write"} /\ th[t].inserted -> [th[t] EXCEPT !.pc = "undo"]
      [] th[t].pc = "undo" -> [th[t] EXCEPT !.pc = "drop"]
      [] OTHER -> Idle

Raise(t) == Become(t, Raised(t))
Fault(t) == faults < MaxFaults /\ faults' = faults + 1 /\ Raise(t)

(* An artifact call that has had its effect returns, or fails all the same. *)
Then(t, next) == (Become(t, next) /\ UNCHANGED faults) \/ Fault(t)
To(t, pc) == Then(t, [th[t] EXCEPT !.pc = pc])

Local == UNCHANGED <<workspace, store, artifacts, ops, maps, faults>>

Fail(t) ==
    /\ ~At(t, "idle") /\ Fault(t)
    /\ UNCHANGED <<workspace, store, artifacts, ops, maps>>

Authorized(t) == approved = th[t].rev /\ ~deletion

-----------------------------------------------------------------------------
(* The calls, each with the authority it finds at its start.                *)

Start(t, kind, pc) ==
    /\ At(t, "idle") /\ ops < MaxOps /\ approved \in Revs /\ ~deletion
    /\ ops' = ops + 1
    /\ Become(t, [Idle EXCEPT !.kind = kind, !.pc = pc, !.rev = approved])
    /\ UNCHANGED <<workspace, store, artifacts, maps, faults>>

PublishFrontier(t) == Start(t, "build", "begin")
AnswerFromEvidence(t) == Start(t, "answer", "context")

PrepareCurrent(t) == Start(t, "prepare", "previous")

(* The revocations on record are made sure of, completed or not.            *)
Recover(next) == [next EXCEPT !.pc = "revoke", !.ids = revoked]

Recovered(t) ==
    /\ At(t, "revoke") /\ th[t].ids = {}
    /\ IF th[t].kind = "build" THEN Goto(t, "decide")
       ELSE IF th[t].of = th[t].rev THEN Goto(t, "stale") ELSE Goto(t, "changed")
    /\ Local

RevokeArtifact(t) ==
    /\ At(t, "revoke") /\ lock = NoOne
    /\ \E id \in th[t].ids :
          /\ tombs' = tombs \cup {id} /\ docs' = docs \ {id}
          /\ Then(t, [th[t] EXCEPT !.pc = "completed", !.target = id])
    /\ UNCHANGED <<workspace, store, ops, maps>>

CompleteRevocation(t) ==
    /\ At(t, "completed")
    /\ pending' = pending \ {th[t].target}
    /\ Become(t, [th[t] EXCEPT !.pc = "revoke", !.target = NoMap, !.ids = @ \ {th[t].target}])
    /\ UNCHANGED <<workspace, artifacts, rev, part, rows, revoked, deletion, ops, maps, faults>>

-----------------------------------------------------------------------------
(* publish_initial, then publish_complete when the frontier left nothing    *)
(* pending: what it left is read before, so this may be asked for at any    *)
(* state of the parts.                                                      *)

Published(t) ==
    IF th[t].status = "initial"
    THEN \/ Become(t, [Idle EXCEPT !.kind = "build", !.pc = "begin", !.rev = th[t].rev,
                                   !.status = "complete"])
         \/ Become(t, Idle)
    ELSE Become(t, Idle)

Begin(t) ==
    /\ At(t, "begin")
    /\ IF rev = th[t].rev THEN Become(t, Recover(th[t])) ELSE Published(t)
    /\ Local

HighPriorityReady(r) ==
    LET high == Urgent \cap Planned(r)
        ready == IF high = {} THEN Planned(r) ELSE high
    IN  ready \cap In(r, {"processed"}) # {}

(* The coverage of a map counts parts by state, and has the times of their  *)
(* evidence: of a map that is complete, the processed ones say all.         *)
Coverage(r) == {[part |-> p, time |-> part[r][p].time] : p \in In(r, {"processed"})}
Partial(r) == In(r, {"processed"}) \notin {{}, Parts}

Draft(t, r, superseded) ==
    [th[t] EXCEPT !.pc = "draft",
                  !.target = <<[rev |-> r, status |-> th[t].status, cites |-> UnitsOf(r),
                                processed |-> Coverage(r)]>> \o superseded]
Existing(t, id) == [th[t] EXCEPT !.pc = "publish", !.target = id]

DecideInitial(t) ==
    /\ At(t, "decide") /\ th[t].status = "initial"
    /\ LET r == th[t].rev
       IN  IF Current(r) # NoMap THEN Become(t, Existing(t, Current(r)))
           ELSE IF Partial(r) /\ HighPriorityReady(r)
           THEN Become(t, Draft(t, r, NoMap))
           ELSE Published(t)
    /\ Local

SameCoverage(id, r) == id[1].processed = Coverage(r)

DecideComplete(t) ==
    /\ At(t, "decide") /\ th[t].status = "complete"
    /\ LET r == th[t].rev
           current == Current(r)
       IN  IF Parts # In(r, {"processed", "failed", "unprepared"}) THEN Become(t, Idle)
           ELSE IF /\ current # NoMap /\ current[1].status = "complete"
                   /\ SameCoverage(current, r) /\ current[1].cites = UnitsOf(r)
           THEN Become(t, Existing(t, current))
           ELSE Become(t, Draft(t, r, current))
    /\ Local

(* The authority is held while the synthesizer has the evidence; it may     *)
(* fail, and does so once MaxMaps maps were made.                           *)
HoldToSynthesize(t) ==
    /\ At(t, "draft") /\ guard = NoOne
    /\ IF Authorized(t) THEN Goto(t, "synthesize") ELSE Raise(t)
    /\ Local

Synthesize(t) ==
    /\ At(t, "synthesize")
    /\ \/ Raise(t)
       \/ maps < MaxMaps /\ Goto(t, "parse")
    /\ Local

(* The synthesizer may propose any prerequisites of its nodes.  Of the      *)
(* evidence it was given it cites some.  The time of the map is taken when  *)
(* its content is known.                                                    *)
Graphs == [Nodes -> SUBSET Nodes]
Rejections == {RejectsCycle(graph) : graph \in Graphs}

Parse(t) ==
    /\ At(t, "parse")
    /\ \E rejected \in Rejections :
          IF rejected THEN Raise(t) /\ UNCHANGED maps
          ELSE \E cites \in SUBSET th[t].target[1].cites :
                 /\ cites = {} => th[t].target[1].cites = {}
                 /\ maps' = maps + 1
                 /\ Become(t, [th[t] EXCEPT !.pc = "publish", !.stamp = maps + 1,
                                            !.target[1].cites = cites])
    /\ UNCHANGED <<workspace, store, artifacts, ops, faults>>

(* A new map is saved first; one that is current already only has its       *)
(* artifact published again.                                                *)
HoldToPublish(t) ==
    /\ At(t, "publish") /\ guard = NoOne
    /\ IF ~Authorized(t) THEN Raise(t)
       ELSE IF th[t].stamp # 0 THEN Goto(t, "save") ELSE Goto(t, "check")
    /\ Local

SaveSnapshot(t) ==
    /\ At(t, "save")
    /\ LET id == th[t].target
       IN  IF rev # th[t].rev \/ ~Valid(id) THEN Raise(t) /\ UNCHANGED rows
           ELSE IF Row(id) # {} THEN Goto(t, "load") /\ UNCHANGED rows
           ELSE /\ rows' = rows \cup {[id |-> id, stamp |-> th[t].stamp]}
                /\ Become(t, [th[t] EXCEPT !.pc = "check", !.inserted = TRUE])
    /\ UNCHANGED <<workspace, artifacts, rev, part, revoked, pending, deletion, ops, maps, faults>>

LoadSnapshot(t) ==
    /\ At(t, "load")
    /\ IF Row(th[t].target) = {} THEN Raise(t) ELSE Goto(t, "check")
    /\ Local

CheckRevoked(t) ==
    /\ At(t, "check") /\ lock = NoOne
    /\ IF th[t].target \in revoked THEN Raise(t) ELSE Goto(t, "write")
    /\ Local

WriteArtifact(t) ==
    /\ At(t, "write")
    /\ IF th[t].target \in tombs THEN Raise(t) /\ UNCHANGED <<docs, faults>>
       ELSE /\ docs' = docs \cup {th[t].target}
            /\ \/ UNCHANGED faults /\ IF th[t].stamp # 0 THEN Goto(t, "recheck") ELSE Published(t)
               \/ Fault(t)
    /\ UNCHANGED <<workspace, store, tombs, ops, maps>>

Recheck(t) ==
    /\ At(t, "recheck")
    /\ IF rev = th[t].rev /\ Row(th[t].target) # {} THEN Published(t) ELSE Goto(t, "withdraw")
    /\ Local

(* Taking a map back: after a failed publication, or because its row or its *)
(* revision is gone.                                                        *)
RevokeOwn(t) ==
    /\ th[t].pc \in {"undo", "withdraw"} /\ lock = NoOne
    /\ tombs' = tombs \cup {th[t].target} /\ docs' = docs \ {th[t].target}
    /\ To(t, IF At(t, "undo") THEN "drop" ELSE "forget")
    /\ UNCHANGED <<workspace, store, ops, maps>>

DeleteSnapshot(t) ==
    /\ th[t].pc \in {"drop", "forget"}
    /\ rows' = rows \ Row(th[t].target)
    /\ Become(t, Idle)
    /\ UNCHANGED <<workspace, artifacts, rev, part, revoked, pending, deletion, ops, maps, faults>>

-----------------------------------------------------------------------------
(* answer_from_evidence reads the map and its units in one transaction,     *)
(* and hands them to the composer under the authority it started with.      *)

ReadContext(t) ==
    /\ At(t, "context")
    /\ LET id == Current(th[t].rev)
       IN  IF rev # th[t].rev \/ id = NoMap \/ (id # NoMap /\ ~Valid(id)) THEN Become(t, Idle)
           ELSE Become(t, [th[t] EXCEPT !.pc = "authority", !.target = id])
    /\ Local

MatchAuthority(t) ==
    /\ At(t, "authority")
    /\ IF approved = th[t].rev THEN Goto(t, "answer") ELSE Become(t, Idle)
    /\ Local

(* Mutant: the lock is taken without asking for the authority again.        *)
HoldUnasked(t) == At(t, "answer") /\ guard = NoOne /\ Goto(t, "compose") /\ Local

HoldToAnswer(t) ==
    /\ At(t, "answer") /\ guard = NoOne
    /\ IF Authorized(t) THEN Goto(t, "compose") ELSE Become(t, Idle)
    /\ Local

Compose(t) == At(t, "compose") /\ Become(t, Idle) /\ Local

-----------------------------------------------------------------------------
(* _prepare_current invalidates what changed since the revision that has    *)
(* evidence, retries what failed, drops what another preparation policy     *)
(* prepared, and plans what is missing, file by file.                       *)

Invalidated(p) ==
    IF p.state = "absent" THEN p
    ELSE [p EXCEPT !.state = "invalidated",
                   !.time = IF p.state = "processed" /\ @ < MaxTime THEN @ + 1 ELSE @]

(* Mutant: the maps that cite the part are revoked but not deleted.         *)
InvalidateUnits(t, p, next) ==
    LET r == th[t].of
        ids == {row.id : row \in {row \in RowsOf(r) : \E u \in row.id[1].cites : u.part = p}}
    IN  /\ revoked' = revoked \cup ids /\ pending' = pending \cup (ids \ revoked)
        /\ part' = [part EXCEPT ![r][p] = Invalidated(@)]
        /\ Become(t, [Recover(next) EXCEPT !.ids = revoked \cup ids])
        /\ UNCHANGED <<workspace, artifacts, rev, rows, deletion, ops, maps, faults>>

(* Mutant: the maps that cite the part are deleted but not revoked.         *)
InvalidateUnrecorded(t, p, next) ==
    LET r == th[t].of
    IN  /\ rows' = {row \in rows : row.id[1].rev # r \/ \A u \in row.id[1].cites : u.part # p}
        /\ part' = [part EXCEPT ![r][p] = Invalidated(@)]
        /\ Become(t, Recover(next))
        /\ UNCHANGED <<workspace, artifacts, rev, revoked, pending, deletion, ops, maps, faults>>

InvalidateEntry(t, p, next) ==
    LET r == th[t].of
        gone == {row \in RowsOf(r) : \E u \in row.id[1].cites : u.part = p}
        ids == {row.id : row \in gone}
    IN  /\ rows' = rows \ gone
        /\ revoked' = revoked \cup ids /\ pending' = pending \cup (ids \ revoked)
        /\ part' = [part EXCEPT ![r][p] = Invalidated(@)]
        /\ Become(t, [Recover(next) EXCEPT !.ids = revoked \cup ids])
        /\ UNCHANGED <<workspace, artifacts, rev, deletion, ops, maps, faults>>

ReadPrevious(t) ==
    /\ At(t, "previous")
    /\ IF deletion THEN Raise(t)
       ELSE IF rev \in {0, th[t].rev} THEN Goto(t, "retry")
       ELSE Become(t, [th[t] EXCEPT !.pc = "changed", !.of = rev,
                 !.entries = {p \in Planned(rev) : source[rev][p] # source[th[t].rev][p]}])
    /\ Local

InvalidateChanged(t) ==
    /\ At(t, "changed")
    /\ \E p \in th[t].entries : InvalidateEntry(t, p, [th[t] EXCEPT !.entries = @ \ {p}])

AllInvalidated(t) ==
    /\ At(t, "changed") /\ th[t].entries = {}
    /\ Become(t, [th[t] EXCEPT !.pc = "retry", !.of = 0])
    /\ Local

RetryFailed(t) ==
    /\ At(t, "retry")
    /\ LET r == th[t].rev
           Retried(p) == CASE rev = r /\ p.state = "failed" -> [p EXCEPT !.state = "pending"]
                           [] rev = r /\ p.state = "unprepared" -> [p EXCEPT !.state = "absent"]
                           [] OTHER -> p
       IN  part' = [part EXCEPT ![r] = [p \in Parts |-> Retried(@[p])]]
    /\ Become(t, [th[t] EXCEPT !.pc = "stale", !.of = th[t].rev, !.entries = Parts])
    /\ UNCHANGED <<workspace, artifacts, rev, rows, revoked, pending, deletion, ops, maps, faults>>

(* The parts that another policy prepared are invalidated, then those that  *)
(* are invalidated are dropped with their artifacts.                        *)
DropStale(t) ==
    /\ At(t, "stale")
    /\ \E p \in th[t].entries :
          LET it == part[th[t].of][p]
              next == [th[t] EXCEPT !.entries = @ \ {p}]
          IN  CASE it.state \notin {"absent", "invalidated"} /\ it.policy # policy ->
                     InvalidateEntry(t, p, th[t])
                [] it.state = "invalidated" ->
                     /\ part' = [part EXCEPT ![th[t].of][p].state = "absent"]
                     /\ Become(t, next)
                     /\ UNCHANGED <<workspace, artifacts, rev, rows, revoked, pending, deletion,
                                    ops, maps, faults>>
                [] OTHER -> Become(t, next) /\ Local

ReadPrepared(t) ==
    /\ At(t, "stale") /\ th[t].entries = {}
    /\ Become(t, [th[t] EXCEPT !.pc = "plan", !.entries = In(th[t].rev, {"absent", "invalidated"})])
    /\ Local

(* Reading, preparing and planning a file under the authority lock is one   *)
(* step.  Its plan makes the revision the current one; a file that cannot   *)
(* be prepared is planned as one failed part.                               *)
PlanEntry(t) ==
    /\ At(t, "plan") /\ guard = NoOne
    /\ \E p \in th[t].entries, state \in {"pending", "unprepared"} :
          IF ~Authorized(t) THEN Raise(t) /\ UNCHANGED <<rev, part>>
          ELSE /\ state = "unprepared" => p \in Unreadable
               /\ rev' = th[t].rev
               /\ part' = [part EXCEPT ![rev'][p] =
                              IF @.state = "absent" THEN [@ EXCEPT !.state = state, !.policy = policy]
                              ELSE @]
               /\ Become(t, [th[t] EXCEPT !.entries = @ \ {p}])
    /\ UNCHANGED <<workspace, artifacts, rows, revoked, pending, deletion, ops, maps, faults>>

Prepared(t) == At(t, "plan") /\ th[t].entries = {} /\ Become(t, Idle) /\ Local

-----------------------------------------------------------------------------
(* delete_workspace_evidence is called when the workspace is marked as      *)
(* deleting, one call at a time, and goes on only when none of its runs is  *)
(* unsettled, and so no other call is under way.  It may be asked again.    *)

DeleteWorkspaceEvidence(t) ==
    /\ \A u \in Threads : At(u, "idle")
    /\ ops < MaxOps /\ ops' = ops + 1
    /\ approved' = Gone /\ deletion' = TRUE
    /\ Become(t, [Idle EXCEPT !.kind = "delete", !.pc = "files"])
    /\ UNCHANGED <<source, policy, artifacts, rev, part, rows, revoked, pending, maps, faults>>

DeleteArtifacts(t) ==
    /\ At(t, "files")
    /\ docs' = {} /\ tombs' = {}
    /\ To(t, "rows")
    /\ UNCHANGED <<workspace, store, ops, maps>>

CompleteDeletion(t) ==
    /\ At(t, "rows")
    /\ rev' = 0 /\ part' = [r \in Revs |-> [p \in Parts |->
                            [state |-> "absent", policy |-> 1, time |-> 1]]]
    /\ rows' = {} /\ revoked' = {} /\ pending' = {} /\ deletion' = FALSE
    /\ Become(t, Idle)
    /\ UNCHANGED <<workspace, artifacts, ops, maps, faults>>

-----------------------------------------------------------------------------
(* The rest of the system: an approval of another revision, the scheduler   *)
(* that analyses a part, and the Worker that dies and starts again, perhaps *)
(* with another preparation policy.  At its start it takes up a deletion    *)
(* that was under way, unless runs are unsettled by then.                   *)

Approve ==
    /\ approved < MaxRev /\ guard = NoOne
    /\ approved' = approved + 1
    /\ \E changed \in SUBSET Parts :
          source' = [r \in Revs |-> [p \in Parts |->
                        IF r > approved /\ p \in changed THEN approved + 1 ELSE source[r][p]]]
    /\ UNCHANGED <<policy, store, artifacts, locks, th, ops, maps, faults>>

Analyse ==
    /\ guard = NoOne /\ approved = rev /\ rev # 0 /\ ~deletion
    /\ \E p \in In(rev, {"pending"}), state \in {"processed", "failed"} :
          part' = [part EXCEPT ![rev][p].state = state]
    /\ UNCHANGED <<workspace, rev, rows, revoked, pending, deletion, artifacts, locks, th,
                   ops, maps, faults>>

Die ==
    /\ faults < MaxFaults /\ faults' = faults + 1
    /\ policy' \in {policy, policy + 1} \cap 1..MaxPolicy
    /\ \E t \in Threads, next \in {Idle, [Idle EXCEPT !.kind = "delete", !.pc = "files"]} :
          /\ next # Idle => deletion
          /\ th' = [u \in Threads |-> IF u = t THEN next ELSE Idle]
    /\ guard' = NoOne /\ lock' = NoOne
    /\ UNCHANGED <<approved, source, store, artifacts, ops, maps>>

(* Only a system without calls may stop: a deadlock is two that wait for    *)
(* one another.                                                             *)
Rest == (\A t \in Threads : At(t, "idle")) /\ UNCHANGED vars

Steps(t) ==
    \/ Recovered(t) \/ RevokeArtifact(t) \/ CompleteRevocation(t)
    \/ Begin(t) \/ DecideInitial(t) \/ DecideComplete(t)
    \/ HoldToSynthesize(t) \/ Synthesize(t) \/ Parse(t)
    \/ HoldToPublish(t) \/ SaveSnapshot(t) \/ LoadSnapshot(t) \/ CheckRevoked(t)
    \/ WriteArtifact(t) \/ Recheck(t) \/ RevokeOwn(t) \/ DeleteSnapshot(t)
    \/ ReadContext(t) \/ MatchAuthority(t) \/ HoldToAnswer(t) \/ Compose(t)
    \/ ReadPrevious(t) \/ InvalidateChanged(t) \/ AllInvalidated(t) \/ RetryFailed(t)
    \/ DropStale(t) \/ ReadPrepared(t) \/ PlanEntry(t) \/ Prepared(t)
    \/ DeleteArtifacts(t) \/ CompleteDeletion(t)

Next ==
    \/ \E t \in Threads :
          \/ PublishFrontier(t) \/ AnswerFromEvidence(t) \/ PrepareCurrent(t)
          \/ DeleteWorkspaceEvidence(t) \/ Steps(t) \/ Fail(t)
    \/ Approve \/ Analyse \/ Die \/ Rest

Spec == Init /\ [][Next]_vars

-----------------------------------------------------------------------------

Parted == [state : States, policy : 1..MaxPolicy, time : 1..MaxTime]
Call == [kind : Kinds, pc : Pcs, rev : 0..MaxRev, status : {"initial", "complete"},
         of : 0..MaxRev, entries : SUBSET Parts, ids : SUBSET Seq(Contents),
         target : Seq(Contents), stamp : 0..MaxMaps, inserted : BOOLEAN]

TypeOK ==
    /\ approved \in 0..Gone /\ rev \in 0..MaxRev /\ policy \in 1..MaxPolicy
    /\ source \in [Revs -> [Parts -> Revs]]
    /\ part \in [Revs -> [Parts -> Parted]]
    /\ \A row \in rows : IsMap(row.id) /\ row.stamp \in 1..MaxMaps
    /\ \A id \in revoked \cup docs \cup tombs : IsMap(id)
    /\ pending \subseteq revoked /\ docs \cap tombs = {} /\ deletion \in BOOLEAN
    /\ guard \in Threads \cup {NoOne} /\ lock \in Threads \cup {NoOne}
    /\ th \in [Threads -> Call]
    /\ \A t \in Threads :
          /\ guard = t <=> th[t].pc \in Guarded
          /\ lock = t <=> th[t].pc = "write"
    /\ ops \in 0..MaxOps /\ maps \in 0..MaxMaps /\ faults \in 0..MaxFaults

(* A publication has put a row in the store that it will take back.         *)
TakesBack(t, id) ==
    th[t].inserted /\ th[t].target = id /\ th[t].pc \in {"check", "undo", "drop"}

(* A map in the store cites evidence that is still in it (1), and no two    *)
(* maps have the same id (2).  A map whose revocation is completed has a    *)
(* tombstone (3); no map that is revoked is in the store, unless a late     *)
(* publication of the same contents has put it there and is about to take   *)
(* it back, or something failed meanwhile (4).  A deleted workspace leaves  *)
(* nothing behind (5).                                                      *)
MapsSound ==
    /\ TypeOK
    /\ \A row \in rows : Valid(row.id) /\ Cardinality(Row(row.id)) = 1
    /\ deletion \/ revoked \ pending \subseteq tombs
    /\ faults > 0 \/ \A id \in revoked : Row(id) = {} \/ \E t \in Threads : TakesBack(t, id)
    /\ approved = Gone /\ ~deletion => rows \cup docs \cup tombs \cup revoked = {}

(* The composer is given a map of the revision that is approved now, and    *)
(* that has the current evidence.                                           *)
AnswerCurrent == [][\A t \in Threads : Compose(t) =>
                       th[t].target[1].rev = approved /\ rev = approved]_vars

(* A call of the builder returns a map: a new one that was looked for once  *)
(* more, or one that existed and has its artifact again.                    *)
Returns(t) ==
    \/ Recheck(t) /\ th'[t].pc # "withdraw"
    \/ WriteArtifact(t) /\ th[t].stamp = 0 /\ th[t].target \in docs' /\ faults' = faults

(* A map that is returned can be read and is of the revision that is both   *)
(* approved and current.  A new one is in the store.  One that existed may  *)
(* have lost its row on the way: then its revocation is on record and not   *)
(* completed, so that its artifact will be taken back, or its insertion and *)
(* the taking back of it had both failed.                                   *)
PublicationReadable ==
    [][\A t \in Threads : Returns(t) =>
           LET id == th[t].target
           IN  /\ id \in docs' /\ id[1].rev = rev /\ rev = approved
               /\ \/ Row(id) # {}
                  \/ th[t].stamp = 0 /\ (id \in pending \/ faults > 1)]_vars

(* A map is accepted exactly when no set of its nodes depends on itself in  *)
(* a circle: each such set has a node that depends on none of it.  This is  *)
(* of no state in particular and asked before the first call only.          *)
Acyclic(graph) == \A set \in (SUBSET Nodes) \ {{}} : \E n \in set : graph[n] \cap set = {}
CyclesRefused == ops = 0 => \A graph \in Graphs : RejectsCycle(graph) <=> ~Acyclic(graph)
=============================================================================
