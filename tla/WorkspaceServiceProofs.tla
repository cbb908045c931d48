------------------------ MODULE WorkspaceServiceProofs ------------------------
(***************************************************************************)
(* Theorems of WorkspaceService for any keys and callers, any number of    *)
(* calls, of failures and of deaths of the Worker.                         *)
(***************************************************************************)
EXTENDS WorkspaceService, TLAPS, SequenceTheorems

(***************************************************************************)
(* The types.                                                              *)
(***************************************************************************)
MarkedPcs == {"runs", "evidence", "rows", "identity", "queue", "remove", "complete", "failed"}
Pcs == {"idle", "enqueue", "delete", "mark"} \cup CreatePcs \cup MarkedPcs
KeyPcs == {"enqueue", "mark"} \cup CreatePcs \cup MarkedPcs
Calls == [pc : Pcs, key : Keys \cup {"none"}, todo : SUBSET Keys]
Loops == [pc : {"wait", "scan", "finish"}, key : Keys \cup {"none"}, id : Nat]
Boots == [pc : {"up", "discover", "interrupt", "cleanup", "deleting", "requeue"},
          todo : SUBSET (Records \cup Keys), clean : BOOLEAN]
Requests == [state : RequestStates, kind : Kinds]

StoredTypes ==
    /\ request \in [Keys -> Requests] /\ row \in [Keys -> RowStates]
    /\ job \in [Keys -> [id : Nat, status : Statuses]]
    /\ runs \in [Keys -> {"none", "active", "settled"}] /\ evidence \in [Keys -> BOOLEAN]
    /\ tree \in [Keys -> SUBSET Paths] /\ cleanup \in SUBSET Records

MemoryTypes ==
    /\ active \in SUBSET Keys /\ activeJob \in [Keys -> Nat]
    /\ queue \in Seq([key : Keys, id : Nat])
    /\ loop \in Loops /\ (loop.pc # "wait" => loop.key \in Keys)

CallTypes ==
    /\ th \in [Threads -> Calls]
    /\ \A t \in Threads : th[t].pc \in KeyPcs => th[t].key \in Keys

TypeInv == StoredTypes /\ MemoryTypes /\ CallTypes /\ boot \in Boots

(***************************************************************************)
(* The rows of one workspace and what is there of it on disk.              *)
(***************************************************************************)
Recorded(k) == \E r \in cleanup : r.key = k /\ r.path = "root"

RowOK(k) ==
    /\ job[k].status \in Unfinished \/ runs[k] = "active" => row[k] = "ready"
    /\ row[k] # "none" => request[k].state = "completed"
    /\ row[k] = "none" => runs[k] = "none" /\ ~evidence[k]
    /\ row[k] = "cleanup_pending" => Recorded(k) /\ runs[k] = "none" /\ ~evidence[k]

TreeOK(k) ==
    /\ request[k].kind = "folder" \/ request[k].state = "none" => tree[k] = {}
    /\ tree[k] # {} => "root" \in tree[k]
    /\ row[k] = "ready" /\ request[k].kind = "browser" => tree[k] = {"root", "intake"}
    /\ row[k] # "none" => tree[k] \subseteq {"root", "intake"}
    /\ row[k] = "none" /\ tree[k] \cap Remnants # {} => request[k].state \in Recoverable
    /\ row[k] \in Blocked /\ request[k].kind = "browser" /\ "root" \notin tree[k] => Recorded(k)

RowInv == \A k \in Keys : RowOK(k)
TreeInv == \A k \in Keys : TreeOK(k)

RecordOK(r) ==
    /\ row[r.key] # "ready" /\ request[r.key].state # "none"
    /\ r.path # "root" => request[r.key].state \in Recoverable
    /\ row[r.key] # "none" => runs[r.key] = "none" /\ ~evidence[r.key]

RecordInv ==
    /\ \A r \in cleanup : RecordOK(r)
    /\ \A r, s \in cleanup : r.key = s.key /\ r.path = s.path => r = s

JobInv == loop.pc = "scan" => job[loop.key].status = "running"

(***************************************************************************)
(* What a call knows at its place.                                         *)
(***************************************************************************)
CreateOK(c) ==
    /\ c.pc \in CreatePcs => request[c.key].state = "claimed"
    /\ c.pc \in CreatePcs \ {"fail"} => \A r \in cleanup : r.key # c.key
    /\ c.pc = "pick" => request[c.key].kind = "folder"
    /\ c.pc \in {"snapshot", "write", "validate"} => request[c.key].kind = "browser"
    /\ c.pc = "write" => tree[c.key] = {"root", "temp"}
    /\ c.pc \in {"validate", "create"} /\ request[c.key].kind = "browser" =>
          tree[c.key] = {"root", "intake"}

DeleteOK(c) ==
    /\ c.pc \in MarkedPcs => request[c.key].state = "completed" /\ row[c.key] # "ready"
    /\ c.pc \in MarkedPcs \ {"runs"} => runs[c.key] = "none"
    /\ c.pc \in MarkedPcs \ {"runs", "evidence"} => ~evidence[c.key]
    /\ c.pc = "rows" => request[c.key].kind = "folder"
    /\ c.pc \in MarkedPcs \ {"runs", "evidence", "rows"} => request[c.key].kind = "browser"
    /\ c.pc \in {"remove", "complete", "failed"} => Recorded(c.key) \/ row[c.key] = "none"
    /\ c.pc = "complete" => tree[c.key] = {}

CreateInv ==
    /\ \A t \in Threads : CreateOK(th[t])
    /\ \A t, u \in Threads :
          th[t].pc \in CreatePcs /\ th[u].pc \in CreatePcs /\ th[t].key = th[u].key => t = u
DeleteInv == \A t \in Threads : DeleteOK(th[t])

(***************************************************************************)
(* The start of a Worker.  Nothing else runs then.                         *)
(***************************************************************************)
QuietInv ==
    /\ boot.pc # "up" => loop.pc = "wait" /\ \A t \in Callers : th[t].pc = "idle"
    /\ boot.pc # "deleting" => th[Starter].pc = "idle"
    /\ boot.pc \in {"discover", "interrupt", "cleanup"} => active = {}
    /\ th[Starter].pc \in {"idle", "delete", "mark"} \cup MarkedPcs

Started == {"interrupt", "cleanup", "deleting", "requeue"}
Deleter == th[Starter]

FoundInv ==
    boot.pc \in Started => \A k \in Keys, p \in Remnants :
        row[k] = "none" /\ p \in tree[k] => \E r \in cleanup : r.key = k /\ r.path = p

CleanInv ==
    boot.pc = "cleanup" =>
        /\ boot.todo \subseteq cleanup
        /\ boot.clean => \A r \in cleanup : r.known => r \in boot.todo
        /\ \A r \in cleanup : row[r.key] = "deleting" => r \in boot.todo

DeletingInv ==
    boot.pc = "deleting" =>
        /\ active \subseteq IF Deleter.pc \in {"mark"} \cup MarkedPcs THEN {Deleter.key} ELSE {}
        /\ \A k \in Deleter.todo : Deleter.pc # "idle" =>
              /\ row[k] = "deleting" /\ (\A r \in cleanup : r.key # k)
              /\ k # Deleter.key \/ Deleter.pc = "delete"
        /\ Deleter.pc \in {"mark"} \cup MarkedPcs => row[Deleter.key] = "deleting"
        /\ Deleter.pc \in {"mark"} \cup (MarkedPcs \ {"remove", "complete", "failed"}) =>
              \A r \in cleanup : r.key # Deleter.key
        /\ Deleter.pc = "remove" => "root" \in tree[Deleter.key]
        /\ boot.clean => Deleter.pc # "failed"
        /\ boot.clean => \A r \in cleanup :
              r.known => Deleter.pc \in {"remove", "complete"} /\ r.key = Deleter.key
        /\ boot.clean => \A k \in Keys : row[k] = "deleting" =>
              /\ Deleter.pc # "idle"
              /\ k \in Deleter.todo \/ (Deleter.pc # "delete" /\ k = Deleter.key)

DoneInv ==
    boot.pc = "requeue" =>
        /\ boot.todo \subseteq Keys
        /\ boot.clean => (\A k \in Keys : row[k] # "deleting") /\ \A r \in cleanup : ~r.known

BootInv == QuietInv /\ FoundInv /\ CleanInv /\ DeletingInv /\ DoneInv

IInv == /\ TypeInv /\ RowInv /\ TreeInv /\ RecordInv /\ JobInv
        /\ CreateInv /\ DeleteInv /\ BootInv

(***************************************************************************)
(* What the steps have in common.  A step is about one workspace k, and    *)
(* about one call.                                                         *)
(***************************************************************************)
RecordsOK(k) ==
    /\ \A r \in cleanup : r.key = k => RecordOK(r)
    /\ \A r, s \in cleanup : r.key = k /\ s.key = k /\ r.path = s.path => r = s

Elsewhere(k) ==
    /\ \A j \in Keys \ {k} :
          /\ request'[j] = request[j] /\ row'[j] = row[j] /\ job'[j] = job[j]
          /\ runs'[j] = runs[j] /\ evidence'[j] = evidence[j] /\ tree'[j] = tree[j]
    /\ \A r \in Records : r.key # k => (r \in cleanup' <=> r \in cleanup)

Moves(t) ==
    /\ th' \in [Threads -> Calls]
    /\ \A u \in Threads : u # t => th'[u] = th[u]
    /\ \A u \in Threads : th'[u].pc \in KeyPcs => th'[u].key \in Keys

LEMMA IdleTyped == Idle \in Calls /\ Idle.pc = "idle" /\ Idle.todo = {}
BY DEF Idle, Calls, Pcs

LEMMA BecomeEffect ==
    ASSUME TypeInv, NEW t \in Threads, NEW n \in Calls, Become(t, n),
           n.pc \in KeyPcs => n.key \in Keys
    PROVE  Moves(t) /\ th'[t] = n
BY DEF TypeInv, StoredTypes, MemoryTypes, CallTypes, Become, Moves

LEMMA GotoEffect ==
    ASSUME TypeInv, NEW t \in Threads, NEW pc \in Pcs, Goto(t, pc), th[t].key \in Keys
    PROVE  Moves(t) /\ th'[t].pc = pc /\ th'[t].key = th[t].key /\ th'[t].todo = th[t].todo
<1>1. th[t] \in Calls
  BY DEF TypeInv, StoredTypes, MemoryTypes, CallTypes
<1>2. [th[t] EXCEPT !.pc = pc] \in Calls
  BY <1>1 DEF Calls
<1>3. [th[t] EXCEPT !.pc = pc].key = th[t].key /\ [th[t] EXCEPT !.pc = pc].pc = pc
      /\ [th[t] EXCEPT !.pc = pc].todo = th[t].todo
  BY <1>1 DEF Calls
<1>4. QED BY <1>2, <1>3, BecomeEffect DEF Goto

\* A deletion that ends, well or not.
LEMMA EndDeleteEffect ==
    ASSUME TypeInv, NEW t \in Threads, NEW d \in BOOLEAN, EndDelete(t, d)
    PROVE  /\ Moves(t) /\ th'[t].pc \in {"idle", "delete"}
           /\ d \/ t = Starter => th'[t].pc = "delete" /\ th'[t].todo = th[t].todo
                                  /\ th'[t].key = th[t].key
           /\ active' = active \ {th[t].key} /\ UNCHANGED <<activeJob, queue, loop>>
<1>1. th[t] \in Calls
  BY DEF TypeInv, StoredTypes, MemoryTypes, CallTypes
<1> DEFINE n == IF d \/ t = Starter THEN [th[t] EXCEPT !.pc = "delete"] ELSE Idle
<1>2. n \in Calls /\ n.pc \in {"idle", "delete"}
      /\ (d \/ t = Starter => n.pc = "delete" /\ n.todo = th[t].todo /\ n.key = th[t].key)
  BY <1>1, IdleTyped DEF Calls, Pcs
<1>3. Become(t, n)
  BY DEF EndDelete, Continue
<1> HIDE DEF n
<1>4. n.pc \notin KeyPcs
  BY <1>2 DEF KeyPcs, CreatePcs, MarkedPcs
<1>5. QED BY <1>2, <1>3, <1>4, BecomeEffect DEF EndDelete

LEMMA StoreStep ==
    ASSUME IInv, TypeInv', NEW k \in Keys, Elsewhere(k), RowOK(k)', TreeOK(k)', RecordsOK(k)'
    PROVE  RowInv' /\ TreeInv' /\ RecordInv'
<1>1. ASSUME NEW j \in Keys, j # k PROVE RowOK(j)' /\ TreeOK(j)'
  <2>1. Recorded(j) <=> Recorded(j)'
    BY <1>1 DEF IInv, TypeInv, StoredTypes, Elsewhere, Recorded
  <2>2. RowOK(j) /\ TreeOK(j)
    BY DEF IInv, RowInv, TreeInv
  <2>3. RowOK(j)'
    BY <1>1, <2>1, <2>2 DEF RowOK, Elsewhere
  <2>4. TreeOK(j)'
    BY <1>1, <2>1, <2>2 DEF TreeOK, Elsewhere
  <2>5. QED BY <2>3, <2>4
<1>2. ASSUME NEW r \in cleanup', r.key # k PROVE r \in cleanup /\ RecordOK(r)'
  <2>1. r \in Records /\ r.key \in Keys
    BY DEF TypeInv, StoredTypes, MemoryTypes, CallTypes, Records
  <2>2. r \in cleanup
    BY <1>2, <2>1 DEF Elsewhere
  <2>3. QED BY <1>2, <2>1, <2>2 DEF IInv, RecordInv, RecordOK, Elsewhere
<1>3. RecordInv'
  BY <1>2 DEF RecordInv, RecordsOK, IInv
<1>4. QED BY <1>1, <1>3 DEF RowInv, TreeInv

\* Calls about other workspaces are not disturbed.
LEMMA OtherCalls ==
    ASSUME IInv, TypeInv', NEW k \in Keys, Elsewhere(k),
           NEW u \in Threads, th'[u] = th[u], th[u].key # k
    PROVE  CreateOK(th[u])' /\ DeleteOK(th[u])'
<1>1. /\ CreateOK(th[u]) /\ DeleteOK(th[u])
      /\ th[u].pc \in CreatePcs \cup MarkedPcs => th[u].key \in Keys
  BY DEF IInv, CreateInv, DeleteInv, TypeInv, CallTypes, KeyPcs
<1>2. th[u].key \in Keys => (Recorded(th[u].key) <=> Recorded(th[u].key)')
  BY DEF IInv, TypeInv, StoredTypes, Elsewhere, Recorded
<1>3. th[u].key \in Keys => \A r \in cleanup' : r.key = th[u].key => r \in cleanup
  BY DEF TypeInv, StoredTypes, Elsewhere, Records
<1>4. CreateOK(th[u])'
  BY <1>1, <1>3 DEF CreateOK, Elsewhere, CreatePcs
<1>5. DeleteOK(th[u])'
  BY <1>1, <1>2 DEF DeleteOK, Elsewhere, MarkedPcs
<1>6. QED BY <1>4, <1>5

LEMMA CreatorCalls ==
    ASSUME IInv, TypeInv', NEW t \in Threads, NEW k \in Keys, Moves(t), Elsewhere(k),
           th[t].pc \in CreatePcs, th[t].key = k,
           th'[t].pc \in CreatePcs \cup {"idle", "enqueue"}, th'[t].pc \in CreatePcs => th'[t].key = k,
           CreateOK(th[t])'
    PROVE  CreateInv' /\ DeleteInv'
<1>1. request[k].state = "claimed"
  BY DEF IInv, CreateInv, CreateOK
<1>2. ASSUME NEW u \in Threads, u # t
      PROVE  CreateOK(th[u])' /\ DeleteOK(th[u])' /\ (th[u].pc \in CreatePcs => th[u].key # k)
  <2>1. CASE th[u].key = k
    <3>1. th'[u] = th[u] /\ th[u].pc \notin CreatePcs
      BY <1>2, <2>1 DEF Moves, IInv, CreateInv
    <3>2. th[u].pc \notin MarkedPcs
      BY <1>1, <2>1 DEF IInv, DeleteInv, DeleteOK
    <3>3. QED BY <3>1, <3>2 DEF CreateOK, DeleteOK, CreatePcs, MarkedPcs
  <2>2. CASE th[u].key # k
    BY <1>2, <2>2, OtherCalls DEF Moves
  <2>3. QED BY <2>1, <2>2
<1>3. DeleteOK(th[t])'
  BY DEF DeleteOK, MarkedPcs, CreatePcs
<1>4. \A u \in Threads : u # t => th'[u] = th[u]
  BY DEF Moves
<1>5. QED BY <1>2, <1>3, <1>4 DEF CreateInv, DeleteInv, IInv

\* What nobody takes back of a workspace that is being deleted.
GivenUp(k) ==
    /\ request'[k] = request[k] /\ row'[k] # "ready" /\ (row[k] = "none" => row'[k] = "none")
    /\ runs[k] = "none" => runs'[k] = "none"
    /\ ~evidence[k] => ~evidence'[k]
    /\ tree'[k] \subseteq tree[k]
    /\ Recorded(k) => Recorded(k)' \/ row'[k] = "none"

LEMMA DeleterCalls ==
    ASSUME IInv, TypeInv', NEW t \in Threads, NEW k \in Keys, Moves(t), Elsewhere(k),
           request[k].state = "completed", GivenUp(k),
           th'[t].pc \notin CreatePcs, DeleteOK(th[t])'
    PROVE  CreateInv' /\ DeleteInv'
<1>1. ASSUME NEW u \in Threads, u # t PROVE CreateOK(th[u])' /\ DeleteOK(th[u])'
  <2>1. CASE th[u].key = k
    <3>1. th'[u] = th[u] /\ th[u].pc \notin CreatePcs
      BY <1>1, <2>1 DEF Moves, IInv, CreateInv, CreateOK
    <3>2. DeleteOK(th[u])
      BY DEF IInv, DeleteInv
    <3>3. DeleteOK(th[u])'
      BY <2>1, <3>1, <3>2 DEF DeleteOK, GivenUp, MarkedPcs
    <3>4. CreateOK(th[u])'
      BY <3>1 DEF CreateOK, CreatePcs
    <3>5. QED BY <3>3, <3>4
  <2>2. CASE th[u].key # k
    BY <1>1, <2>2, OtherCalls DEF Moves
  <2>3. QED BY <2>1, <2>2
<1>2. CreateOK(th[t])'
  BY DEF CreateOK, CreatePcs
<1>3. \A u \in Threads : u # t => th'[u] = th[u]
  BY DEF Moves
<1>4. QED BY <1>1, <1>2, <1>3 DEF CreateInv, DeleteInv, IInv

\* Calls are served while nothing is being started.
LEMMA BootUp ==
    ASSUME IInv, boot.pc = "up", boot'.pc = "up", th'[Starter] = th[Starter]
    PROVE  BootInv'
BY DEF IInv, BootInv, QuietInv, FoundInv, CleanInv, DeletingInv, DoneInv, Started

LEMMA CallersStep ==
    ASSUME IInv, NEW t \in Callers, th[t].pc # "idle"
    PROVE  boot.pc = "up" /\ Starter \in Threads /\ t \in Threads /\ t # Starter
BY WorkspaceServiceAssumption DEF IInv, BootInv, QuietInv, Threads

LEMMA TypeStep ==
    ASSUME TypeInv, NEW t \in Threads, Moves(t), StoredTypes', MemoryTypes', boot' \in Boots
    PROVE  TypeInv'
BY DEF TypeInv, CallTypes, Moves

LEMMA JobStep ==
    ASSUME IInv, NEW k \in Keys, Elsewhere(k), UNCHANGED loop, row[k] # "ready" \/ job'[k] = job[k]
    PROVE  JobInv'
<1>1. loop.pc = "scan" =>
        loop.key \in Keys /\ job[loop.key].status = "running" /\ row[loop.key] = "ready"
  BY DEF IInv, JobInv, TypeInv, MemoryTypes, RowInv, RowOK, Unfinished
<1>2. QED BY <1>1 DEF JobInv, Elsewhere

\* A step of the call that has claimed k.
LEMMA CreatorStep ==
    ASSUME IInv, NEW t \in Callers, NEW k \in Keys, Moves(t), Elsewhere(k), StoredTypes',
           th[t].pc \in CreatePcs, th[t].key = k,
           th'[t].pc \in CreatePcs \cup {"idle", "enqueue"}, th'[t].pc \in CreatePcs => th'[t].key = k,
           CreateOK(th[t])', RowOK(k)', TreeOK(k)', RecordsOK(k)', UNCHANGED <<memory, boot>>
    PROVE  IInv'
<1>1. boot.pc = "up" /\ t \in Threads /\ t # Starter /\ Starter \in Threads
  BY CallersStep DEF CreatePcs
<1>2. TypeInv'
  BY <1>1, TypeStep DEF IInv, TypeInv, MemoryTypes, memory
<1>3. row[k] # "ready"
  BY DEF IInv, CreateInv, CreateOK, RowInv, RowOK, Threads
<1>4. JobInv'
  BY <1>3, JobStep DEF memory
<1>5. CreateInv' /\ DeleteInv'
  BY <1>1, <1>2, CreatorCalls
<1>6. BootInv'
  BY <1>1, BootUp DEF Moves
<1>7. QED BY <1>2, <1>4, <1>5, <1>6, StoreStep DEF IInv

\* What the creator of k knows.
LEMMA Created ==
    ASSUME IInv, NEW t \in Threads, th[t].pc \in CreatePcs
    PROVE  /\ th[t].key \in Keys /\ CreateOK(th[t]) /\ request[th[t].key].state = "claimed"
           /\ row[th[t].key] = "none" /\ RowOK(th[t].key) /\ TreeOK(th[t].key)
           /\ RecordsOK(th[t].key)
<1>1. th[t].key \in Keys
  BY DEF IInv, TypeInv, CallTypes, KeyPcs
<1>2. CreateOK(th[t]) /\ request[th[t].key].state = "claimed"
  BY DEF IInv, CreateInv, CreateOK
<1>3. RowOK(th[t].key) /\ TreeOK(th[t].key)
  BY <1>1 DEF IInv, RowInv, TreeInv
<1>4. RecordsOK(th[t].key)
  BY DEF IInv, RecordInv, RecordsOK
<1>5. QED BY <1>1, <1>2, <1>3, <1>4 DEF RowOK

LEMMA ClaimCreationStep ==
    ASSUME IInv, NEW t \in Callers, NEW k \in Keys, NEW kind \in Kinds, ClaimCreation(t, k, kind)
    PROVE  IInv'
<1> DEFINE n == [Idle EXCEPT !.pc = IF kind = "folder" THEN "pick" ELSE "snapshot", !.key = k]
<1>1. boot.pc = "up" /\ t \in Threads /\ th[t].pc = "idle" /\ t # Starter
  BY WorkspaceServiceAssumption DEF ClaimCreation, Call, At, Threads
<1>2. n \in Calls /\ n.key = k /\ n.pc = (IF kind = "folder" THEN "pick" ELSE "snapshot")
  BY DEF Idle, Calls, Pcs, CreatePcs
<1>3. Become(t, n)
  BY DEF ClaimCreation
<1> HIDE DEF n
<1>4. Moves(t) /\ th'[t] = n
  BY <1>1, <1>2, <1>3, BecomeEffect DEF IInv
<1>5. /\ request[k].state = "none" /\ UNCHANGED <<row, job, runs, evidence, tree, cleanup>>
      /\ request' = [request EXCEPT ![k] = [state |-> "claimed", kind |-> kind]]
      /\ UNCHANGED <<memory, boot>>
  BY DEF ClaimCreation
<1>6. RowOK(k) /\ TreeOK(k) /\ RecordsOK(k)
  BY DEF IInv, RowInv, TreeInv, RecordInv, RecordsOK
<1>7. StoredTypes'
  BY <1>5 DEF IInv, TypeInv, StoredTypes, Requests, RequestStates
<1>8. request' \in [Keys -> Requests] /\ request'[k] = [state |-> "claimed", kind |-> kind]
      /\ \A j \in Keys \ {k} : request'[j] = request[j]
  BY <1>5, <1>7 DEF StoredTypes, IInv, TypeInv
<1>9. Elsewhere(k)
  BY <1>5, <1>8 DEF Elsewhere
<1>10. TypeInv'
  BY <1>1, <1>4, <1>5, <1>7, TypeStep DEF IInv, TypeInv, MemoryTypes, memory
<1>11. row[k] = "none" /\ tree[k] \cap Remnants = {} /\ (\A r \in cleanup : r.key # k)
  BY <1>5, <1>6 DEF RowOK, TreeOK, RecordsOK, RecordOK, Recoverable
<1>12. RowOK(k)' /\ TreeOK(k)' /\ RecordsOK(k)'
  <2>1. RowOK(k)'
    BY <1>5, <1>6, <1>11 DEF RowOK
  <2>2. TreeOK(k)'
    BY <1>5, <1>6, <1>8, <1>11 DEF TreeOK, Blocked, Recoverable
  <2>3. RecordsOK(k)'
    BY <1>5, <1>11 DEF RecordsOK
  <2>4. QED BY <2>1, <2>2, <2>3
<1>13. RowInv' /\ TreeInv' /\ RecordInv'
  BY <1>9, <1>10, <1>12, StoreStep
<1>14. JobInv'
  BY <1>5, <1>9, <1>11, JobStep DEF memory
<1>15. CreateOK(th[t])'
  BY <1>2, <1>4, <1>5, <1>8, <1>11 DEF CreateOK, CreatePcs, Kinds
<1>16. DeleteOK(th[t])'
  BY <1>2, <1>4 DEF DeleteOK, MarkedPcs
<1>17. ASSUME NEW u \in Threads, u # t
       PROVE  CreateOK(th[u])' /\ DeleteOK(th[u])' /\ (th[u].pc \in CreatePcs => th[u].key # k)
  <2>1. CreateOK(th[u]) /\ DeleteOK(th[u]) /\ th'[u] = th[u]
    BY <1>4, <1>17 DEF IInv, CreateInv, DeleteInv, Moves
  <2>2. CASE th[u].key = k
    BY <1>5, <2>1, <2>2 DEF CreateOK, DeleteOK, CreatePcs, MarkedPcs
  <2>3. CASE th[u].key # k
    BY <1>9, <1>10, <1>17, <2>1, <2>3, OtherCalls DEF CreateOK
  <2>4. QED BY <2>2, <2>3
<1>18. CreateInv' /\ DeleteInv'
  BY <1>2, <1>4, <1>15, <1>16, <1>17 DEF CreateInv, DeleteInv, IInv, Moves
<1>19. BootInv'
  BY <1>1, <1>4, <1>5, BootUp, WorkspaceServiceAssumption DEF Moves, Threads
<1>20. QED BY <1>10, <1>13, <1>14, <1>18, <1>19 DEF IInv

\* The request of k is no longer under way: its creation has come to nothing.
LEMMA CreationEnded ==
    ASSUME IInv, NEW t \in Callers, th[t].pc \in CreatePcs, NEW next \in RequestStates \ {"none"},
           EndRequest(t, next), Become(t, Idle), UNCHANGED <<row, job, runs, evidence, tree, cleanup>>,
           UNCHANGED <<memory, boot>>,
           next = "failed" \/ tree[th[t].key] = {}, next = "failed" \/ th[t].pc = "pick"
    PROVE  IInv'
<1>1. t \in Threads
  BY DEF Threads
<1>2. PICK k \in Keys : k = th[t].key
  BY <1>1, Created
<1>3. /\ request[k].state = "claimed" /\ row[k] = "none" /\ RowOK(k) /\ TreeOK(k) /\ RecordsOK(k)
      /\ CreateOK(th[t])
  BY <1>1, <1>2, Created
<1>4. Moves(t) /\ th'[t] = Idle
  BY <1>1, BecomeEffect, IdleTyped DEF IInv, KeyPcs, CreatePcs, MarkedPcs
<1>5. request[k] \in Requests
  BY DEF IInv, TypeInv, StoredTypes
<1>6. request' = [request EXCEPT ![k].state = IF @ = "claimed" THEN next ELSE @]
  BY <1>2 DEF EndRequest
<1>7. /\ request' \in [Keys -> Requests] /\ request'[k].state = next /\ request'[k].kind = request[k].kind
      /\ \A j \in Keys \ {k} : request'[j] = request[j]
  BY <1>3, <1>5, <1>6 DEF IInv, TypeInv, StoredTypes, Requests
<1>8. StoredTypes'
  BY <1>7 DEF IInv, TypeInv, StoredTypes
<1>9. Elsewhere(k)
  BY <1>7 DEF Elsewhere
<1>10. RowOK(k)'
  BY <1>3 DEF RowOK
<1>11. TreeOK(k)'
  BY <1>2, <1>3, <1>7 DEF TreeOK, Blocked, Recoverable
<1>12. th[t].pc = "pick" => \A r \in cleanup : r.key # k
  BY <1>2, <1>3 DEF CreateOK, CreatePcs
<1>13. RecordsOK(k)'
  BY <1>3, <1>7, <1>12 DEF RecordsOK, RecordOK, Recoverable
<1>14. CreateOK(th[t])' /\ th'[t].pc = "idle"
  BY <1>4, IdleTyped DEF CreateOK, CreatePcs
<1>15. QED BY <1>2, <1>4, <1>8, <1>9, <1>10, <1>11, <1>13, <1>14, CreatorStep DEF CreatePcs

LEMMA FailCreationStep ==
    ASSUME IInv, NEW t \in Callers, FailCreation(t)
    PROVE  IInv'
<1>1. th[t].pc \in CreatePcs /\ "failed" \in RequestStates \ {"none"}
  BY DEF FailCreation, At, CreatePcs, RequestStates
<1>2. EndRequest(t, "failed") /\ Become(t, Idle)
      /\ UNCHANGED <<row, job, runs, evidence, tree, cleanup>> /\ UNCHANGED <<memory, boot>>
  BY DEF FailCreation
<1>3. QED BY <1>1, <1>2, CreationEnded

\* The key stays claimed by no call: nothing that is stored changes.
LEMMA EscapeCreationStep ==
    ASSUME IInv, NEW t \in Callers, EscapeCreation(t)
    PROVE  IInv'
<1>1. t \in Threads /\ th[t].pc \in CreatePcs
  BY DEF EscapeCreation, Threads
<1>2. PICK k \in Keys : k = th[t].key
  BY <1>1, Created
<1>3. RowOK(k) /\ TreeOK(k) /\ RecordsOK(k)
  BY <1>1, <1>2, Created
<1>4. Become(t, Idle) /\ UNCHANGED <<request, row, job, runs, evidence, tree, cleanup>>
      /\ UNCHANGED <<memory, boot>>
  BY DEF EscapeCreation, stored
<1>5. Moves(t) /\ th'[t] = Idle
  BY <1>1, <1>4, BecomeEffect, IdleTyped DEF IInv, KeyPcs, CreatePcs, MarkedPcs
<1>6. StoredTypes' /\ Elsewhere(k)
  BY <1>4 DEF IInv, TypeInv, StoredTypes, Elsewhere
<1>7. RowOK(k)' /\ TreeOK(k)'
  BY <1>3, <1>4 DEF RowOK, TreeOK, Recorded
<1>8. RecordsOK(k)'
  BY <1>3, <1>4 DEF RecordsOK, RecordOK
<1>9. CreateOK(th[t])' /\ th'[t].pc = "idle"
  BY <1>5, IdleTyped DEF CreateOK, CreatePcs
<1>10. QED BY <1>1, <1>2, <1>4, <1>5, <1>6, <1>7, <1>8, <1>9, CreatorStep DEF CreatePcs

\* The call goes on to another place and nothing else happens.
LEMMA CreatorGoes ==
    ASSUME IInv, NEW t \in Callers, th[t].pc \in CreatePcs, NEW pc \in CreatePcs, Goto(t, pc),
           UNCHANGED <<request, row, job, runs, evidence, tree, cleanup>>, UNCHANGED <<memory, boot>>,
           CreateOK([pc |-> pc, key |-> th[t].key, todo |-> {}])
    PROVE  IInv'
<1>1. t \in Threads
  BY DEF Threads
<1>2. PICK k \in Keys : k = th[t].key
  BY <1>1, Created
<1>3. RowOK(k) /\ TreeOK(k) /\ RecordsOK(k)
  BY <1>1, <1>2, Created
<1>4. Moves(t) /\ th'[t].pc = pc /\ th'[t].key = k
  BY <1>1, <1>2, GotoEffect DEF IInv, Pcs
<1>5. StoredTypes' /\ Elsewhere(k)
  BY DEF IInv, TypeInv, StoredTypes, Elsewhere
<1>6. RowOK(k)' /\ TreeOK(k)'
  BY <1>3 DEF RowOK, TreeOK, Recorded
<1>7. RecordsOK(k)'
  BY <1>3 DEF RecordsOK, RecordOK
<1>8. CreateOK(th[t])'
  BY <1>2, <1>4 DEF CreateOK
<1>9. QED BY <1>2, <1>4, <1>5, <1>6, <1>7, <1>8, CreatorStep

LEMMA ChooseFolderStep ==
    ASSUME IInv, NEW t \in Callers, ChooseFolder(t)
    PROVE  IInv'
<1>1. th[t].pc = "pick" /\ th[t].pc \in CreatePcs /\ t \in Threads
  BY DEF ChooseFolder, At, CreatePcs, Threads
<1>2. UNCHANGED <<row, job, runs, evidence, tree, cleanup>> /\ UNCHANGED <<memory, boot>>
  BY DEF ChooseFolder
<1>3. CreateOK(th[t]) /\ TreeOK(th[t].key)
  BY <1>1, Created
<1>4. tree[th[t].key] = {} /\ request[th[t].key].kind = "folder" /\ request[th[t].key].state = "claimed"
      /\ \A r \in cleanup : r.key # th[t].key
  BY <1>1, <1>3 DEF CreateOK, TreeOK, CreatePcs
<1>5. CASE Goto(t, "create") /\ UNCHANGED request
  <2>1. CreateOK([pc |-> "create", key |-> th[t].key, todo |-> {}])
    BY <1>4 DEF CreateOK
  <2>2. QED BY <1>1, <1>2, <1>5, <2>1, CreatorGoes DEF CreatePcs
<1>6. CASE Goto(t, "fail") /\ UNCHANGED request
  <2>1. CreateOK([pc |-> "fail", key |-> th[t].key, todo |-> {}])
    BY <1>4 DEF CreateOK
  <2>2. QED BY <1>1, <1>2, <1>6, <2>1, CreatorGoes DEF CreatePcs
<1>7. CASE EndRequest(t, "cancelled") /\ Become(t, Idle)
  BY <1>1, <1>2, <1>4, <1>7, CreationEnded DEF RequestStates
<1>8. QED BY <1>5, <1>6, <1>7 DEF ChooseFolder

\* The creator makes, renames or records something.
LEMMA CreatorWrites ==
    ASSUME IInv, NEW t \in Callers, th[t].pc \in {"snapshot", "write", "validate", "create"},
           th[t].pc = "create" => request[th[t].key].kind = "browser",
           NEW pc \in {"write", "validate", "create", "fail"}, Goto(t, pc),
           NEW S \in SUBSET Paths, tree' = [tree EXCEPT ![th[t].key] = S],
           S # {} => "root" \in S,
           UNCHANGED <<request, row, job, runs, evidence>>, UNCHANGED <<memory, boot>>,
           \/ UNCHANGED cleanup
           \/ pc = "fail" /\ \E known \in BOOLEAN : QueueOrphanCleanup(th[t].key, known),
           pc = "write" => S = {"root", "temp"},
           pc \in {"validate", "create"} => S = {"root", "intake"}
    PROVE  IInv'
<1>1. t \in Threads /\ th[t].pc \in CreatePcs
  BY DEF Threads, CreatePcs
<1>2. PICK k \in Keys : k = th[t].key
  BY <1>1, Created
<1>3. /\ RowOK(k) /\ TreeOK(k) /\ RecordsOK(k) /\ CreateOK(th[t])
      /\ request[k].state = "claimed" /\ row[k] = "none"
  BY <1>1, <1>2, Created
<1>4. request[k].kind = "browser" /\ \A r \in cleanup : r.key # k
  BY <1>2, <1>3 DEF CreateOK, CreatePcs
<1>5. Moves(t) /\ th'[t].pc = pc /\ th'[t].key = k
  BY <1>1, <1>2, GotoEffect DEF IInv, Pcs, CreatePcs
<1>6. tree' \in [Keys -> SUBSET Paths] /\ tree'[k] = S /\ \A j \in Keys \ {k} : tree'[j] = tree[j]
  BY <1>2 DEF IInv, TypeInv, StoredTypes
<1>7. PICK known \in BOOLEAN :
         \/ UNCHANGED cleanup
         \/ pc = "fail" /\ cleanup' = cleanup \cup {[key |-> k, path |-> "root", known |-> known]}
  BY <1>2, <1>4 DEF QueueOrphanCleanup, Queued
<1>8. cleanup' \in SUBSET Records /\ (\A r \in Records : r.key # k => (r \in cleanup' <=> r \in cleanup))
  BY <1>7 DEF Records, Paths, IInv, TypeInv, StoredTypes
<1>9. StoredTypes' /\ Elsewhere(k)
  BY <1>6, <1>8 DEF IInv, TypeInv, StoredTypes, Elsewhere
<1>10. RowOK(k)'
  BY <1>3 DEF RowOK
<1>11. TreeOK(k)'
  BY <1>3, <1>4, <1>6 DEF TreeOK, Blocked, Recoverable
<1>12. RecordsOK(k)'
  BY <1>3, <1>4, <1>7 DEF RecordsOK, RecordOK
<1>13. CreateOK(th[t])'
  BY <1>3, <1>4, <1>5, <1>6, <1>7 DEF CreateOK, CreatePcs
<1>14. QED BY <1>1, <1>2, <1>5, <1>9, <1>10, <1>11, <1>12, <1>13, CreatorStep DEF CreatePcs

\* The tree of a call.
LEMMA TreeTyped ==
    ASSUME IInv, NEW t \in Threads, th[t].pc \in CreatePcs, UNCHANGED tree
    PROVE  tree' = [tree EXCEPT ![th[t].key] = tree[th[t].key]] /\ tree[th[t].key] \in SUBSET Paths
           /\ (tree[th[t].key] # {} => "root" \in tree[th[t].key])
<1>1. th[t].key \in Keys /\ TreeOK(th[t].key)
  BY Created
<1>2. QED BY <1>1 DEF IInv, TypeInv, StoredTypes, TreeOK

LEMMA StartSessionStep ==
    ASSUME IInv, NEW t \in Callers, StartSession(t)
    PROVE  IInv'
<1>1. th[t].pc = "snapshot" /\ th[t].pc \in CreatePcs /\ t \in Threads
  BY DEF StartSession, At, CreatePcs, Threads
<1>2. UNCHANGED <<request, row, job, runs, evidence, cleanup>> /\ UNCHANGED <<memory, boot>>
  BY DEF StartSession
<1>3. CASE Goto(t, "write") /\ tree' = [tree EXCEPT ![th[t].key] = {"root", "temp"}]
  BY <1>1, <1>2, <1>3, CreatorWrites DEF Paths, Remnants
<1>4. CASE Goto(t, "fail") /\ tree' = tree
  BY <1>1, <1>2, <1>4, TreeTyped, CreatorWrites
<1>5. CASE Goto(t, "fail") /\ tree' = [tree EXCEPT ![th[t].key] = {"root"}]
  BY <1>1, <1>2, <1>5, CreatorWrites DEF Paths
<1>6. CASE Goto(t, "fail") /\ tree' = [tree EXCEPT ![th[t].key] = {"root", "temp"}]
  BY <1>1, <1>2, <1>6, CreatorWrites DEF Paths, Remnants
<1>7. QED BY <1>3, <1>4, <1>5, <1>6 DEF StartSession

LEMMA CreateSnapshotStep ==
    ASSUME IInv, NEW t \in Callers, CreateSnapshot(t)
    PROVE  IInv'
<1>1. th[t].pc = "write" /\ th[t].pc \in CreatePcs /\ t \in Threads
  BY DEF CreateSnapshot, At, CreatePcs, Threads
<1>2. UNCHANGED <<request, row, job, runs, evidence, cleanup>> /\ UNCHANGED <<memory, boot>>
  BY DEF CreateSnapshot
<1>3. tree[th[t].key] = {"root", "temp"} /\ th[t].key \in Keys
  BY <1>1, Created DEF CreateOK
<1>4. ASSUME NEW to, Renamed(th[t].key, "temp", to), to \in {"intake", "orphan"}
      PROVE  tree' = [tree EXCEPT ![th[t].key] = {"root", to}] /\ {"root", to} \in SUBSET Paths
  <2>1. (tree[th[t].key] \ {"temp"}) \cup {to} = {"root", to}
    BY <1>3, <1>4
  <2>2. QED BY <1>4, <2>1 DEF Renamed, Paths, Remnants
<1>5. CASE Goto(t, "validate") /\ Renamed(th[t].key, "temp", "intake")
  BY <1>1, <1>2, <1>4, <1>5, CreatorWrites
<1>6. CASE Goto(t, "fail") /\ Renamed(th[t].key, "temp", "orphan")
  BY <1>1, <1>2, <1>4, <1>6, CreatorWrites
<1>7. CASE Goto(t, "fail") /\ UNCHANGED tree
  BY <1>1, <1>2, <1>7, TreeTyped, CreatorWrites
<1>8. QED BY <1>5, <1>6, <1>7 DEF CreateSnapshot

LEMMA ValidateRootStep ==
    ASSUME IInv, NEW t \in Callers, ValidateRoot(t)
    PROVE  IInv'
<1>1. th[t].pc = "validate" /\ th[t].pc \in CreatePcs /\ t \in Threads
  BY DEF ValidateRoot, At, CreatePcs, Threads
<1>2. UNCHANGED <<request, row, job, runs, evidence, tree>> /\ UNCHANGED <<memory, boot>>
  BY DEF ValidateRoot
<1>3. tree[th[t].key] = {"root", "intake"}
  BY <1>1, Created DEF CreateOK, CreatePcs
<1>4. CASE Goto(t, "create") /\ UNCHANGED cleanup
  BY <1>1, <1>2, <1>3, <1>4, TreeTyped, CreatorWrites
<1>5. CASE \E known \in BOOLEAN : Goto(t, "fail") /\ QueueOrphanCleanup(th[t].key, known)
  BY <1>1, <1>2, <1>5, TreeTyped, CreatorWrites
<1>6. QED BY <1>4, <1>5 DEF ValidateRoot

LEMMA CreateWorkspaceStep ==
    ASSUME IInv, NEW t \in Callers, CreateWorkspace(t)
    PROVE  IInv'
<1>1. th[t].pc = "create" /\ th[t].pc \in CreatePcs /\ t \in Threads
  BY DEF CreateWorkspace, At, CreatePcs, Threads
<1>2. UNCHANGED <<runs, evidence, tree>> /\ UNCHANGED <<memory, boot>>
  BY DEF CreateWorkspace
<1>3. PICK k \in Keys : k = th[t].key
  BY <1>1, Created
<1>4. /\ RowOK(k) /\ TreeOK(k) /\ RecordsOK(k) /\ CreateOK(th[t])
      /\ request[k].state = "claimed" /\ row[k] = "none"
  BY <1>1, <1>3, Created
<1>5. (\A r \in cleanup : r.key # k) /\ (request[k].kind = "browser" => tree[k] = {"root", "intake"})
  BY <1>1, <1>3, <1>4 DEF CreateOK, CreatePcs
<1>6. ASSUME /\ EndRequest(t, "completed") /\ row' = [row EXCEPT ![k] = "ready"]
             /\ job' = [job EXCEPT ![k] = [id |-> 1, status |-> "queued"]]
             /\ Goto(t, "enqueue") /\ UNCHANGED cleanup
      PROVE  IInv'
  <2>1. Moves(t) /\ th'[t].pc = "enqueue" /\ th'[t].key = k
    BY <1>1, <1>3, <1>6, GotoEffect DEF IInv, Pcs
  <2>2. request' = [request EXCEPT ![k].state = IF @ = "claimed" THEN "completed" ELSE @]
    BY <1>3, <1>6 DEF EndRequest
  <2>3. request[k] \in Requests
    BY DEF IInv, TypeInv, StoredTypes
  <2>4. /\ request' \in [Keys -> Requests] /\ request'[k].state = "completed"
        /\ request'[k].kind = request[k].kind /\ \A j \in Keys \ {k} : request'[j] = request[j]
    BY <1>4, <2>2, <2>3 DEF IInv, TypeInv, StoredTypes, Requests, RequestStates
  <2>5. row' \in [Keys -> RowStates] /\ row'[k] = "ready" /\ \A j \in Keys \ {k} : row'[j] = row[j]
    BY <1>6 DEF IInv, TypeInv, StoredTypes, RowStates
  <2>6. /\ job' \in [Keys -> [id : Nat, status : Statuses]] /\ job'[k].status = "queued"
        /\ \A j \in Keys \ {k} : job'[j] = job[j]
    BY <1>6 DEF IInv, TypeInv, StoredTypes, Statuses
  <2>7. StoredTypes' /\ Elsewhere(k)
    BY <1>2, <1>6, <2>4, <2>5, <2>6 DEF IInv, TypeInv, StoredTypes, Elsewhere
  <2>8. RowOK(k)'
    BY <2>4, <2>5 DEF RowOK
  <2>9. TreeOK(k)'
    BY <1>2, <1>4, <1>5, <2>3, <2>4, <2>5 DEF TreeOK, Blocked, Requests, Kinds
  <2>10. RecordsOK(k)'
    BY <1>5, <1>6 DEF RecordsOK
  <2>11. CreateOK(th[t])'
    BY <2>1 DEF CreateOK, CreatePcs
  <2>12. QED
    BY <1>1, <1>2, <1>3, <2>1, <2>7, <2>8, <2>9, <2>10, <2>11, CreatorStep DEF CreatePcs
<1>7. ASSUME /\ Goto(t, "fail") /\ UNCHANGED <<request, row, job>>
             /\ IF request[k].kind = "browser" THEN QueueOrphanCleanup(k, TRUE) ELSE UNCHANGED cleanup
      PROVE  IInv'
  <2>1. CASE request[k].kind = "browser"
    BY ZenonT(60), <1>1, <1>2, <1>3, <1>7, <2>1, TreeTyped, CreatorWrites
  <2>2. CASE request[k].kind # "browser"
    <3>1. CreateOK([pc |-> "fail", key |-> th[t].key, todo |-> {}])
      BY <1>3, <1>4 DEF CreateOK
    <3>2. QED BY <1>1, <1>2, <1>7, <2>2, <3>1, CreatorGoes DEF CreatePcs
  <2>3. QED BY <2>1, <2>2
<1>8. QED BY <1>3, <1>6, <1>7 DEF CreateWorkspace

-----------------------------------------------------------------------------
(***************************************************************************)
(* Calls that are about nothing yet, jobs, runs, and the death of the      *)
(* Worker.                                                                 *)
(***************************************************************************)
\* A call that is about nothing yet, or not any more.
LEMMA CallMoves ==
    ASSUME IInv, NEW t \in Threads, Moves(t), th'[t].pc \in {"idle", "delete", "mark"},
           UNCHANGED stored, MemoryTypes', boot' \in Boots
    PROVE  TypeInv' /\ RowInv' /\ TreeInv' /\ RecordInv' /\ CreateInv' /\ DeleteInv'
<1>1. StoredTypes'
  BY DEF IInv, TypeInv, StoredTypes, stored
<1>2. TypeInv'
  BY <1>1, TypeStep DEF IInv
<1>3. RowInv' /\ TreeInv'
  BY DEF IInv, RowInv, RowOK, TreeInv, TreeOK, Recorded, stored
<1>4. RecordInv'
  BY DEF IInv, RecordInv, RecordOK, stored
<1>5. \A u \in Threads : u # t => th'[u] = th[u]
  BY DEF Moves
<1>6. \A u \in Threads : u # t => CreateOK(th[u])' /\ DeleteOK(th[u])'
  BY <1>5 DEF IInv, CreateInv, CreateOK, DeleteInv, DeleteOK, stored, Recorded
<1>7. CreateOK(th[t])' /\ DeleteOK(th[t])'
  BY DEF CreateOK, DeleteOK, CreatePcs, MarkedPcs
<1>8. th'[t].pc \notin CreatePcs
  BY DEF CreatePcs
<1>9. QED BY <1>2, <1>3, <1>4, <1>5, <1>6, <1>7, <1>8 DEF CreateInv, DeleteInv, IInv

LEMMA QueueTyped ==
    ASSUME IInv, NEW k \in Keys, NEW id \in Nat, QueueExisting(k, id), UNCHANGED loop
    PROVE  MemoryTypes'
<1>1. queue' \in Seq([key : Keys, id : Nat])
  BY AppendProperties DEF QueueExisting, IInv, TypeInv, MemoryTypes
<1>2. QED BY <1>1 DEF QueueExisting, IInv, TypeInv, MemoryTypes

LEMMA QueueInitialJobStep ==
    ASSUME IInv, NEW t \in Callers, QueueInitialJob(t)
    PROVE  IInv'
<1>1. th[t].pc = "enqueue" /\ UNCHANGED <<loop, boot>> /\ UNCHANGED stored
  BY DEF QueueInitialJob, At
<1>2. boot.pc = "up" /\ Starter \in Threads /\ t \in Threads /\ t # Starter
  BY <1>1, CallersStep
<1>3. PICK k \in Keys : k = th[t].key
  BY <1>1, <1>2 DEF IInv, TypeInv, CallTypes, KeyPcs
<1>4. MemoryTypes'
  BY <1>1, <1>3, QueueTyped DEF QueueInitialJob
<1>5. Moves(t) /\ th'[t] = Idle
  BY <1>2, BecomeEffect, IdleTyped DEF IInv, KeyPcs, CreatePcs, MarkedPcs, QueueInitialJob
<1>6. TypeInv' /\ RowInv' /\ TreeInv' /\ RecordInv' /\ CreateInv' /\ DeleteInv'
  BY <1>1, <1>2, <1>4, <1>5, CallMoves, IdleTyped DEF IInv, TypeInv
<1>7. JobInv'
  BY <1>1 DEF IInv, JobInv, stored
<1>8. BootInv'
  BY <1>1, <1>2, <1>5, BootUp DEF Moves
<1>9. QED BY <1>6, <1>7, <1>8 DEF IInv

LEMMA DeleteWorkspacesStep ==
    ASSUME IInv, NEW t \in Callers, DeleteWorkspaces(t)
    PROVE  IInv'
<1>1. /\ boot.pc = "up" /\ t \in Threads /\ t # Starter /\ Starter \in Threads
      /\ UNCHANGED stored /\ UNCHANGED memory /\ UNCHANGED boot
  BY WorkspaceServiceAssumption DEF DeleteWorkspaces, Call, Threads
<1>2. PICK todo \in SUBSET Keys : Become(t, [pc |-> "delete", key |-> "none", todo |-> todo])
  BY DEF DeleteWorkspaces
<1>3. [pc |-> "delete", key |-> "none", todo |-> todo] \in Calls
  BY DEF Calls, Pcs
<1>4. Moves(t) /\ th'[t].pc = "delete"
  BY <1>1, <1>2, <1>3, BecomeEffect DEF IInv, KeyPcs, CreatePcs, MarkedPcs
<1>5. TypeInv' /\ RowInv' /\ TreeInv' /\ RecordInv' /\ CreateInv' /\ DeleteInv'
  BY <1>1, <1>4, CallMoves DEF IInv, TypeInv, MemoryTypes, memory
<1>6. JobInv'
  BY <1>1 DEF IInv, JobInv, stored, memory
<1>7. BootInv'
  BY <1>1, <1>4, BootUp DEF Moves
<1>8. QED BY <1>5, <1>6, <1>7 DEF IInv

\* What is kept where no call moves and only the job or the runs of k change.
LEMMA Steady ==
    ASSUME IInv, NEW k \in Keys, Elsewhere(k), UNCHANGED <<th, boot>>, boot.pc = "up",
           UNCHANGED <<request, row, tree, cleanup>>, StoredTypes', MemoryTypes', RowOK(k)',
           row[k] = "ready" \/ (UNCHANGED evidence /\ (runs[k] = "none" => runs'[k] = "none"))
    PROVE  TypeInv' /\ RowInv' /\ TreeInv' /\ RecordInv' /\ CreateInv' /\ DeleteInv' /\ BootInv'
<1>1. TypeInv'
  BY DEF IInv, TypeInv, CallTypes
<1>2. TreeOK(k)' /\ RecordsOK(k)'
  <2>1. TreeOK(k)'
    BY DEF IInv, TreeInv, TreeOK, Recorded
  <2>2. RecordsOK(k)'
    BY DEF IInv, RecordInv, RecordsOK, RecordOK
  <2>3. QED BY <2>1, <2>2
<1>3. RowInv' /\ TreeInv' /\ RecordInv'
  BY <1>1, <1>2, StoreStep
<1>4. CreateInv'
  BY DEF IInv, CreateInv, CreateOK
<1>5. ASSUME NEW u \in Threads PROVE DeleteOK(th[u])'
  <2>1. DeleteOK(th[u]) /\ th'[u] = th[u] /\ (th[u].pc \in MarkedPcs => th[u].key \in Keys)
    BY DEF IInv, DeleteInv, TypeInv, CallTypes, KeyPcs
  <2>2. CASE th[u].key = k
    BY <2>1, <2>2 DEF DeleteOK, MarkedPcs, Recorded
  <2>3. CASE th[u].key # k
    BY <1>1, <2>1, <2>3, OtherCalls
  <2>4. QED BY <2>2, <2>3
<1>6. Starter \in Threads
  BY DEF Threads
<1>7. BootInv'
  BY <1>6, BootUp
<1>8. QED BY <1>1, <1>3, <1>4, <1>5, <1>7 DEF DeleteInv

LEMMA RescanStep ==
    ASSUME IInv, NEW t \in Callers, NEW k \in Keys, Rescan(t, k)
    PROVE  IInv'
<1>1. /\ boot.pc = "up" /\ UNCHANGED <<th, boot>> /\ UNCHANGED <<request, row, tree, cleanup>>
      /\ UNCHANGED <<runs, evidence, loop>> /\ row[k] \notin Blocked \cup {"none"}
      /\ job[k].status \notin Unfinished
      /\ job' = [job EXCEPT ![k] = [id |-> @.id + 1, status |-> "queued"]]
  BY DEF Rescan, Call, AcceptsJobs
<1>2. row[k] = "ready"
  BY <1>1 DEF IInv, TypeInv, StoredTypes, RowStates, Blocked
<1>3. job[k].id + 1 \in Nat
  BY DEF IInv, TypeInv, StoredTypes
<1>4. /\ job' \in [Keys -> [id : Nat, status : Statuses]] /\ \A j \in Keys \ {k} : job'[j] = job[j]
  BY <1>1, <1>3 DEF IInv, TypeInv, StoredTypes, Statuses
<1>5. StoredTypes' /\ Elsewhere(k)
  BY <1>1, <1>4 DEF IInv, TypeInv, StoredTypes, Elsewhere
<1>6. MemoryTypes'
  BY <1>1, <1>3, QueueTyped DEF Rescan
<1>7. RowOK(k)'
  BY <1>1, <1>2 DEF IInv, RowInv, RowOK
<1>8. TypeInv' /\ RowInv' /\ TreeInv' /\ RecordInv' /\ CreateInv' /\ DeleteInv' /\ BootInv'
  BY <1>1, <1>2, <1>5, <1>6, <1>7, Steady
<1>9. JobInv'
  BY <1>1, <1>4 DEF IInv, JobInv, TypeInv, MemoryTypes, Unfinished
<1>10. QED BY <1>8, <1>9 DEF IInv

LEMMA StartJobStep ==
    ASSUME IInv, StartJob
    PROVE  IInv'
<1>1. /\ boot.pc = "up" /\ UNCHANGED <<th, boot>> /\ UNCHANGED <<request, row, tree, cleanup>>
      /\ UNCHANGED <<runs, evidence, active, activeJob>> /\ queue # <<>> /\ queue' = Tail(queue)
  BY DEF StartJob
<1>2. queue \in Seq([key : Keys, id : Nat])
  BY DEF IInv, TypeInv, MemoryTypes
<1>3. Head(queue) \in [key : Keys, id : Nat] /\ queue' \in Seq([key : Keys, id : Nat])
  BY <1>1, <1>2, HeadTailProperties
<1>4. PICK k \in Keys, id \in Nat : Head(queue) = [key |-> k, id |-> id]
  BY <1>3
<1>5. \/ /\ row[k] = "ready" /\ job[k].status = "queued"
         /\ job' = [job EXCEPT ![k].status = "running"] /\ loop' = [pc |-> "scan", key |-> k, id |-> id]
      \/ job' = job /\ loop' = [pc |-> "finish", key |-> k, id |-> id]
  BY <1>4 DEF StartJob
<1>6. loop' \in Loops /\ loop'.key = k
  BY <1>5 DEF Loops
<1>7. MemoryTypes'
  BY <1>1, <1>3, <1>6 DEF IInv, TypeInv, MemoryTypes
<1>8. job[k] \in [id : Nat, status : Statuses]
  BY DEF IInv, TypeInv, StoredTypes
<1>9. /\ job' \in [Keys -> [id : Nat, status : Statuses]] /\ \A j \in Keys \ {k} : job'[j] = job[j]
      /\ loop'.pc = "scan" => job'[k].status = "running"
      /\ job'[k] = job[k] \/ row[k] = "ready"
  BY SMTT(30), <1>5, <1>8 DEF IInv, TypeInv, StoredTypes, Statuses
<1>10. StoredTypes' /\ Elsewhere(k)
  BY <1>1, <1>9 DEF IInv, TypeInv, StoredTypes, Elsewhere
<1>11. RowOK(k)'
  BY <1>1, <1>9 DEF IInv, RowInv, RowOK, Recorded
<1>12. TypeInv' /\ RowInv' /\ TreeInv' /\ RecordInv' /\ CreateInv' /\ DeleteInv' /\ BootInv'
  BY <1>1, <1>7, <1>10, <1>11, Steady
<1>13. JobInv'
  BY <1>6, <1>9 DEF JobInv
<1>14. QED BY <1>12, <1>13 DEF IInv

LEMMA EndJobStep ==
    ASSUME IInv, EndJob
    PROVE  IInv'
<1>1. /\ UNCHANGED <<th, boot>> /\ UNCHANGED <<request, row, tree, cleanup>>
      /\ UNCHANGED <<runs, evidence, active, activeJob, queue>> /\ loop.pc = "scan"
      /\ loop' = [loop EXCEPT !.pc = "finish"]
  BY DEF EndJob
<1>2. boot.pc = "up"
  BY <1>1 DEF IInv, BootInv, QuietInv
<1>3. PICK k \in Keys : k = loop.key
  BY <1>1 DEF IInv, TypeInv, MemoryTypes
<1>4. loop \in Loops
  BY DEF IInv, TypeInv, MemoryTypes
<1>5. loop' \in Loops /\ loop'.key = k /\ loop'.pc = "finish"
  BY <1>1, <1>3, <1>4 DEF Loops
<1>6. MemoryTypes'
  BY <1>1, <1>5 DEF IInv, TypeInv, MemoryTypes
<1>7. job[k] \in [id : Nat, status : Statuses]
  BY DEF IInv, TypeInv, StoredTypes
<1>8. /\ job' \in [Keys -> [id : Nat, status : Statuses]] /\ (\A j \in Keys \ {k} : job'[j] = job[j])
      /\ job'[k].status = "ended"
  BY <1>3, <1>7 DEF EndJob, IInv, TypeInv, StoredTypes, Statuses
<1>9. StoredTypes' /\ Elsewhere(k)
  BY <1>1, <1>8 DEF IInv, TypeInv, StoredTypes, Elsewhere
<1>10. RowOK(k)'
  BY <1>1, <1>8 DEF IInv, RowInv, RowOK, Recorded, Unfinished
<1>11. TypeInv' /\ RowInv' /\ TreeInv' /\ RecordInv' /\ CreateInv' /\ DeleteInv' /\ BootInv'
  BY <1>1, <1>2, <1>6, <1>9, <1>10, Steady
<1>12. JobInv'
  BY <1>5 DEF JobInv
<1>13. QED BY <1>11, <1>12 DEF IInv

LEMMA FinishJobStep ==
    ASSUME IInv, FinishJob
    PROVE  IInv'
<1>1. /\ UNCHANGED <<queue, boot, th>> /\ UNCHANGED stored /\ loop.pc = "finish" /\ loop' = Waiting
      /\ active' \in SUBSET active
      /\ activeJob' \in {activeJob, [activeJob EXCEPT ![loop.key] = 0]}
  BY DEF FinishJob
<1>2. boot.pc = "up" /\ Starter \in Threads
  BY <1>1 DEF IInv, BootInv, QuietInv, Threads
<1>3. MemoryTypes'
  BY <1>1 DEF IInv, TypeInv, MemoryTypes, Loops, Waiting
<1>4. TypeInv' /\ RowInv' /\ TreeInv'
  BY <1>1, <1>3 DEF IInv, TypeInv, CallTypes, StoredTypes, RowInv, RowOK, TreeInv, TreeOK, Recorded, stored
<1>5. RecordInv' /\ CreateInv' /\ DeleteInv'
  BY <1>1 DEF IInv, RecordInv, RecordOK, CreateInv, CreateOK, DeleteInv, DeleteOK, Recorded, stored
<1>6. JobInv'
  BY <1>1 DEF JobInv, Waiting
<1>7. BootInv'
  BY <1>1, <1>2, BootUp
<1>8. QED BY <1>4, <1>5, <1>6, <1>7 DEF IInv

\* A run begins or ends.
LEMMA RunStep ==
    ASSUME IInv, NEW k \in Keys, boot.pc = "up", UNCHANGED <<th, boot>>, UNCHANGED memory,
           UNCHANGED <<request, row, job, tree, cleanup>>, row[k] = "ready",
           NEW s \in {"active", "settled"}, runs' = [runs EXCEPT ![k] = s],
           NEW e \in BOOLEAN, evidence' = [evidence EXCEPT ![k] = e]
    PROVE  IInv'
<1>1. /\ runs' \in [Keys -> {"none", "active", "settled"}] /\ evidence' \in [Keys -> BOOLEAN]
      /\ \A j \in Keys \ {k} : runs'[j] = runs[j] /\ evidence'[j] = evidence[j]
  BY DEF IInv, TypeInv, StoredTypes
<1>2. StoredTypes' /\ Elsewhere(k) /\ MemoryTypes'
  BY <1>1 DEF IInv, TypeInv, StoredTypes, Elsewhere, MemoryTypes, memory
<1>3. RowOK(k)'
  BY DEF IInv, RowInv, RowOK
<1>4. TypeInv' /\ RowInv' /\ TreeInv' /\ RecordInv' /\ CreateInv' /\ DeleteInv' /\ BootInv'
  BY <1>2, <1>3, Steady
<1>5. JobInv'
  BY DEF IInv, JobInv, memory
<1>6. QED BY <1>4, <1>5 DEF IInv

LEMMA SubmitRunStep ==
    ASSUME IInv, NEW t \in Callers, NEW k \in Keys, SubmitRun(t, k)
    PROVE  IInv'
BY RunStep DEF SubmitRun, Call

LEMMA SettleRunStep ==
    ASSUME IInv, NEW k \in Keys, SettleRun(k)
    PROVE  IInv'
<1>1. row[k] = "ready"
  BY DEF SettleRun, IInv, RowInv, RowOK
<1>2. evidence' = [evidence EXCEPT ![k] = evidence[k]] /\ evidence[k] \in BOOLEAN
  BY DEF SettleRun, IInv, TypeInv, StoredTypes
<1>3. QED BY <1>1, <1>2, RunStep DEF SettleRun

LEMMA DieStep ==
    ASSUME IInv, Die
    PROVE  IInv'
<1>1. /\ UNCHANGED stored /\ loop' = Waiting /\ th' = [t \in Threads |-> Idle] /\ active' = {}
      /\ boot' = [pc |-> "discover", todo |-> {}, clean |-> TRUE] /\ queue' = <<>>
      /\ activeJob' = [k \in Keys |-> 0] /\ Starter \in Threads
  BY DEF Die, Threads
<1>2. StoredTypes'
  BY <1>1 DEF IInv, TypeInv, StoredTypes, stored
<1>3. MemoryTypes'
  BY <1>1, EmptySeq DEF MemoryTypes, Loops, Waiting
<1>4. CallTypes' /\ boot' \in Boots
  BY <1>1, IdleTyped DEF CallTypes, KeyPcs, CreatePcs, MarkedPcs, Boots
<1>5. RowInv' /\ TreeInv' /\ RecordInv'
  BY <1>1 DEF IInv, RowInv, RowOK, TreeInv, TreeOK, Recorded, RecordInv, RecordOK, stored
<1>6. JobInv' /\ CreateInv' /\ DeleteInv'
  BY <1>1, IdleTyped DEF JobInv, Waiting, CreateInv, CreateOK, DeleteInv, DeleteOK, CreatePcs, MarkedPcs
<1>7. BootInv'
  BY <1>1, IdleTyped DEF BootInv, QuietInv, FoundInv, CleanInv, DeletingInv, DoneInv, Started, Threads, Waiting
<1>8. QED BY <1>2, <1>3, <1>4, <1>5, <1>6, <1>7 DEF IInv, TypeInv

-----------------------------------------------------------------------------
(***************************************************************************)
(* Deletion.  Two calls may delete one workspace, so what one of them      *)
(* knows must be what no other takes back.                                 *)
(***************************************************************************)
\* Whoever deletes does so while calls are served, or when the Worker starts.
LEMMA DeleterWho ==
    ASSUME IInv, NEW t \in Threads, th[t].pc # "idle"
    PROVE  /\ t \in Callers => boot.pc = "up" /\ t # Starter
           /\ t = Starter => /\ boot.pc = "deleting" /\ loop.pc = "wait"
                             /\ \A u \in Callers : th[u].pc = "idle"
           /\ t \in Callers \/ t = Starter
           /\ Starter \in Threads
BY WorkspaceServiceAssumption DEF IInv, BootInv, QuietInv, Threads

LEMMA DeleterStep ==
    ASSUME IInv, NEW t \in Threads, NEW k \in Keys, th[t].pc # "idle",
           Moves(t), Elsewhere(k), StoredTypes', MemoryTypes', boot' \in Boots, UNCHANGED loop,
           request[k].state = "completed", GivenUp(k), job'[k] = job[k] \/ row[k] # "ready",
           th'[t].pc \notin CreatePcs, DeleteOK(th[t])', RowOK(k)', TreeOK(k)', RecordsOK(k)',
           boot'.pc = boot.pc, t = Starter => BootInv'
    PROVE  IInv'
<1>1. TypeInv'
  BY TypeStep DEF IInv
<1>2. RowInv' /\ TreeInv' /\ RecordInv'
  BY <1>1, StoreStep
<1>3. JobInv'
  BY JobStep
<1>4. CreateInv' /\ DeleteInv'
  BY <1>1, DeleterCalls
<1>5. CASE t \in Callers
  BY <1>1, <1>2, <1>3, <1>4, <1>5, DeleterWho, BootUp DEF IInv, Moves
<1>6. CASE t = Starter
  BY <1>1, <1>2, <1>3, <1>4, <1>6 DEF IInv
<1>7. QED BY <1>5, <1>6, DeleterWho

\* The same where only the call moves.
LEMMA DeleterMoves ==
    ASSUME IInv, NEW t \in Threads, th[t].pc # "idle", Moves(t),
           th'[t].pc \in {"idle", "delete", "mark"}, UNCHANGED stored, MemoryTypes', UNCHANGED loop,
           boot' \in Boots, boot'.pc = boot.pc, t = Starter => BootInv'
    PROVE  IInv'
<1>1. TypeInv' /\ RowInv' /\ TreeInv' /\ RecordInv' /\ CreateInv' /\ DeleteInv'
  BY CallMoves
<1>2. JobInv'
  BY DEF IInv, JobInv, stored
<1>3. CASE t \in Callers
  BY <1>1, <1>2, <1>3, DeleterWho, BootUp DEF IInv, Moves
<1>4. CASE t = Starter
  BY <1>1, <1>2, <1>4 DEF IInv
<1>5. QED BY <1>3, <1>4, DeleterWho

LEMMA StarterStep ==
    ASSUME IInv, Moves(Starter), th[Starter].pc # "idle", NEW k \in Keys, Elsewhere(k),
           th'[Starter].pc \in {"idle", "delete", "mark"} \cup MarkedPcs, UNCHANGED loop,
           boot'.pc = boot.pc, row[k] # "none", row'[k] = "none" => tree'[k] \cap Remnants = {},
           DeletingInv'
    PROVE  BootInv'
<1>1. /\ boot.pc = "deleting" /\ loop.pc = "wait" /\ Starter \in Threads
      /\ \A u \in Callers : th[u].pc = "idle" /\ u # Starter /\ u \in Threads
  BY DeleterWho, WorkspaceServiceAssumption DEF Threads
<1>2. QuietInv'
  BY <1>1 DEF QuietInv, Moves
<1>3. CleanInv' /\ DoneInv'
  BY <1>1 DEF CleanInv, DoneInv
<1>4. ASSUME NEW j \in Keys, NEW p \in Remnants, row'[j] = "none", p \in tree'[j]
      PROVE  \E r \in cleanup' : r.key = j /\ r.path = p
  <2>1. j # k
    BY <1>4
  <2>2. row[j] = "none" /\ p \in tree[j]
    BY <1>4, <2>1 DEF Elsewhere
  <2>3. PICK r \in cleanup : r.key = j /\ r.path = p
    BY <1>1, <2>2 DEF IInv, BootInv, FoundInv, Started
  <2>4. r \in cleanup'
    BY <2>1, <2>3 DEF Elsewhere, IInv, TypeInv, StoredTypes
  <2>5. QED BY <2>3, <2>4
<1>5. FoundInv'
  BY <1>4 DEF FoundInv
<1>6. QED BY <1>2, <1>3, <1>5 DEF BootInv

\* What the deleter of k knows.
LEMMA Marked ==
    ASSUME IInv, NEW t \in Threads, th[t].pc \in MarkedPcs
    PROVE  /\ th[t].key \in Keys /\ DeleteOK(th[t]) /\ request[th[t].key].state = "completed"
           /\ row[th[t].key] # "ready" /\ RowOK(th[t].key) /\ TreeOK(th[t].key)
           /\ RecordsOK(th[t].key) /\ runs[th[t].key] # "active"
           /\ job[th[t].key].status \notin Unfinished /\ th[t].pc # "idle"
<1>1. th[t].key \in Keys
  BY DEF IInv, TypeInv, CallTypes, KeyPcs
<1>2. DeleteOK(th[t]) /\ request[th[t].key].state = "completed" /\ row[th[t].key] # "ready"
  BY DEF IInv, DeleteInv, DeleteOK
<1>3. RowOK(th[t].key) /\ TreeOK(th[t].key)
  BY <1>1 DEF IInv, RowInv, TreeInv
<1>4. RecordsOK(th[t].key)
  BY DEF IInv, RecordInv, RecordsOK
<1>5. QED BY <1>1, <1>2, <1>3, <1>4 DEF RowOK, MarkedPcs

\* What the Starter knows of what it deletes.
LEMMA StarterKnows ==
    ASSUME IInv, th[Starter].pc \in {"mark"} \cup MarkedPcs
    PROVE  /\ boot.pc = "deleting" /\ DeletingInv /\ row[th[Starter].key] = "deleting"
           /\ th[Starter].key \in Keys /\ Starter \in Threads /\ th[Starter].pc # "idle"
<1>1. Starter \in Threads /\ th[Starter].pc # "idle"
  BY DEF Threads, MarkedPcs
<1>2. boot.pc = "deleting" /\ DeletingInv
  BY <1>1, DeleterWho DEF IInv, BootInv
<1>3. QED BY <1>1, <1>2 DEF DeletingInv, Deleter, IInv, TypeInv, CallTypes, KeyPcs

\* The Starter goes on with its deletion.
LEMMA StarterGoes ==
    ASSUME IInv, th[Starter].pc \in {"mark", "runs", "evidence", "identity"},
           th'[Starter].pc \in {"runs", "evidence", "rows", "identity", "queue"},
           th'[Starter].key = th[Starter].key, th'[Starter].todo = th[Starter].todo,
           Moves(Starter), Elsewhere(th[Starter].key),
           UNCHANGED <<active, loop, boot, cleanup>>, row'[th[Starter].key] = "deleting"
    PROVE  BootInv'
<1>1. PICK k \in Keys : k = th[Starter].key
  BY StarterKnows DEF MarkedPcs
<1>2. boot.pc = "deleting" /\ DeletingInv /\ row[k] = "deleting" /\ th[Starter].todo \in SUBSET Keys
  BY <1>1, StarterKnows DEF MarkedPcs, IInv, TypeInv, CallTypes, Calls
<1>3. \A j \in Keys : row'[j] = row[j]
  BY <1>1, <1>2 DEF Elsewhere
<1>4. DeletingInv'
  BY <1>1, <1>2, <1>3 DEF DeletingInv, Deleter, MarkedPcs
<1>5. QED BY <1>1, <1>2, <1>4, StarterStep DEF MarkedPcs

\* The Starter is done with a workspace.
LEMMA StarterDone ==
    ASSUME IInv, th[Starter].pc \in {"mark"} \cup MarkedPcs, NEW d \in BOOLEAN, EndDelete(Starter, d),
           NEW k \in Keys, k = th[Starter].key, Elsewhere(k), boot'.pc = boot.pc,
           row'[k] = "none" => tree'[k] \cap Remnants = {},
           boot'.clean => /\ boot.clean /\ row'[k] # "deleting" /\ \A r \in cleanup' : ~r.known,
           TypeInv'
    PROVE  BootInv'
<1>1. boot.pc = "deleting" /\ DeletingInv /\ row[k] = "deleting" /\ Starter \in Threads
  BY StarterKnows
<1>2. /\ Moves(Starter) /\ th'[Starter].pc = "delete" /\ th'[Starter].todo = th[Starter].todo
      /\ active' = active \ {k} /\ UNCHANGED loop
  BY <1>1, EndDeleteEffect DEF IInv
<1>3. active' = {}
  BY <1>1, <1>2 DEF DeletingInv, Deleter
<1>4. th[Starter].pc # "delete" /\ th[Starter].pc # "idle"
  BY DEF MarkedPcs
<1>5. ASSUME NEW j \in th'[Starter].todo
      PROVE  row'[j] = "deleting" /\ \A r \in cleanup' : r.key # j
  <2>1. j \in Keys /\ j \in th[Starter].todo
    BY <1>1, <1>2, <1>5 DEF IInv, TypeInv, CallTypes, Calls
  <2>2. row[j] = "deleting" /\ (\A r \in cleanup : r.key # j) /\ j # k
    BY <1>1, <1>4, <2>1 DEF DeletingInv, Deleter
  <2>3. \A r \in cleanup' : r.key = j => r \in cleanup
    BY <2>2 DEF Elsewhere, TypeInv, StoredTypes
  <2>4. QED BY <2>1, <2>2, <2>3 DEF Elsewhere
<1>6. ASSUME boot'.clean, NEW j \in Keys, row'[j] = "deleting" PROVE j \in th'[Starter].todo
  <2>1. j # k /\ row[j] = "deleting" /\ boot.clean
    BY <1>6 DEF Elsewhere
  <2>2. QED BY <1>1, <1>2, <1>4, <2>1 DEF DeletingInv, Deleter
<1>7. DeletingInv'
  BY <1>2, <1>3, <1>5, <1>6 DEF DeletingInv, Deleter, MarkedPcs
<1>8. QED BY <1>1, <1>2, <1>4, <1>7, StarterStep

LEMMA EndTyped ==
    ASSUME IInv, NEW t \in Threads, NEW d \in BOOLEAN, EndDelete(t, d)
    PROVE  MemoryTypes'
BY DEF IInv, TypeInv, MemoryTypes, EndDelete

\* A deletion that ends with nothing changed but that the start is spoiled.
LEMMA DeleterGivesUp ==
    ASSUME IInv, NEW t \in Threads, th[t].pc \in {"mark"} \cup MarkedPcs, NEW d \in BOOLEAN,
           EndDelete(t, d), UNCHANGED stored, boot' \in Boots, boot'.pc = boot.pc,
           t = Starter => ~boot'.clean
    PROVE  IInv'
<1>1. PICK k \in Keys : k = th[t].key
  BY DEF IInv, TypeInv, CallTypes, KeyPcs
<1>2. MemoryTypes' /\ Moves(t) /\ th'[t].pc \in {"idle", "delete"} /\ UNCHANGED loop
      /\ th[t].pc # "idle"
  BY EndTyped, EndDeleteEffect DEF IInv, MarkedPcs
<1>3. TypeInv'
  BY <1>2, CallMoves
<1>4. ASSUME t = Starter PROVE BootInv'
  <2>1. Elsewhere(k) /\ row'[k] = "deleting"
    BY <1>1, <1>4, StarterKnows DEF Elsewhere, stored
  <2>2. QED BY <1>1, <1>3, <1>4, <2>1, StarterDone
<1>5. QED BY <1>2, <1>4, DeleterMoves

LEMMA DeletedAllStep ==
    ASSUME IInv, NEW t \in Threads, DeletedAll(t)
    PROVE  IInv'
<1>1. /\ th[t].pc = "delete" /\ th[t].todo = {} /\ UNCHANGED stored /\ UNCHANGED memory
      /\ UNCHANGED boot /\ Become(t, Idle)
  BY DEF DeletedAll, At
<1>2. Moves(t) /\ th'[t] = Idle
  BY <1>1, BecomeEffect, IdleTyped DEF IInv, KeyPcs, CreatePcs, MarkedPcs
<1>3. ASSUME t = Starter PROVE BootInv'
  <2>1. /\ boot.pc = "deleting" /\ loop.pc = "wait" /\ \A u \in Callers : th[u].pc = "idle"
        /\ DeletingInv
    BY <1>1, <1>3, DeleterWho DEF IInv, BootInv
  <2>2. active = {} /\ (boot.clean => (\A k \in Keys : row[k] # "deleting") /\ \A r \in cleanup : ~r.known)
    BY <1>1, <1>3, <2>1 DEF DeletingInv, Deleter, MarkedPcs
  <2>3. DeletingInv'
    BY <1>1, <1>2, <1>3, <2>2, IdleTyped DEF DeletingInv, Deleter, MarkedPcs, stored, memory
  <2>4. QuietInv'
    BY <1>1, <1>2, <1>3, <2>1, IdleTyped, WorkspaceServiceAssumption DEF QuietInv, Moves, memory, Threads
  <2>5. FoundInv'
    BY <1>1 DEF IInv, BootInv, FoundInv, stored
  <2>6. CleanInv' /\ DoneInv'
    BY <1>1, <2>1 DEF CleanInv, DoneInv
  <2>7. QED BY <2>3, <2>4, <2>5, <2>6 DEF BootInv
<1>4. MemoryTypes' /\ boot' \in Boots
  BY <1>1 DEF IInv, TypeInv, MemoryTypes, memory
<1>5. QED BY <1>1, <1>2, <1>3, <1>4, IdleTyped, DeleterMoves DEF memory

LEMMA BeginDeleteStep ==
    ASSUME IInv, NEW t \in Threads, BeginDelete(t)
    PROVE  IInv'
<1> DEFINE k == CHOOSE k \in th[t].todo : TRUE
<1>1. /\ th[t].pc = "delete" /\ th[t].todo # {} /\ UNCHANGED stored /\ UNCHANGED <<queue, loop, boot>>
  BY DEF BeginDelete, At
<1>2. th[t] \in Calls /\ th[t].todo \in SUBSET Keys /\ boot \in Boots
  BY DEF IInv, TypeInv, CallTypes, Calls
<1>3. k \in th[t].todo /\ k \in Keys
  BY <1>1, <1>2
<1>4. \/ /\ k \in active /\ ~Released(k)
         /\ Become(t, IF t = Starter THEN [th[t] EXCEPT !.todo = @ \ {k}] ELSE Idle)
         /\ UNCHANGED <<active, activeJob>>
      \/ /\ Become(t, [pc |-> "mark", key |-> k, todo |-> th[t].todo \ {k}])
         /\ active' = active \cup {k}
         /\ activeJob' = IF Released(k) THEN [activeJob EXCEPT ![k] = 0] ELSE activeJob
  BY DEF BeginDelete
<1> HIDE DEF k
<1>5. t = Starter => /\ boot.pc = "deleting" /\ loop.pc = "wait" /\ active = {} /\ DeletingInv
                     /\ \A u \in Callers : th[u].pc = "idle"
  <2>1. t = Starter => /\ boot.pc = "deleting" /\ loop.pc = "wait" /\ DeletingInv
                       /\ \A u \in Callers : th[u].pc = "idle"
    BY <1>1, DeleterWho DEF IInv, BootInv
  <2>2. QED BY <1>1, <2>1 DEF DeletingInv, Deleter, MarkedPcs
<1>6. CASE /\ Become(t, IF t = Starter THEN [th[t] EXCEPT !.todo = @ \ {k}] ELSE Idle)
           /\ k \in active /\ UNCHANGED <<active, activeJob>>
  <2>1. t # Starter
    BY <1>5, <1>6
  <2>2. Moves(t) /\ th'[t].pc = "idle"
    BY <1>6, <2>1, BecomeEffect, IdleTyped DEF IInv, KeyPcs, CreatePcs, MarkedPcs
  <2>3. MemoryTypes'
    BY <1>1, <1>6 DEF IInv, TypeInv, MemoryTypes
  <2>4. QED BY <1>1, <1>2, <2>1, <2>2, <2>3, DeleterMoves
<1>7. CASE /\ Become(t, [pc |-> "mark", key |-> k, todo |-> th[t].todo \ {k}])
           /\ active' = active \cup {k}
           /\ activeJob' = IF Released(k) THEN [activeJob EXCEPT ![k] = 0] ELSE activeJob
  <2>1. [pc |-> "mark", key |-> k, todo |-> th[t].todo \ {k}] \in Calls
    BY <1>2, <1>3 DEF Calls, Pcs
  <2>2. /\ Moves(t) /\ th'[t].pc = "mark" /\ th'[t].key = k /\ th'[t].todo = th[t].todo \ {k}
    BY <1>3, <1>7, <2>1, BecomeEffect DEF IInv
  <2>3. MemoryTypes'
    BY <1>1, <1>3, <1>7 DEF IInv, TypeInv, MemoryTypes
  <2>4. ASSUME t = Starter PROVE BootInv'
    <3>1. row[k] = "deleting" /\ \A r \in cleanup : r.key # k
      BY <1>1, <1>3, <1>5, <2>4 DEF DeletingInv, Deleter
    <3>2. Elsewhere(k) /\ row' = row /\ cleanup' = cleanup /\ tree' = tree
      BY <1>1 DEF Elsewhere, stored
    <3>3. DeletingInv'
      BY <1>1, <1>5, <1>7, <2>2, <2>4, <3>1, <3>2 DEF DeletingInv, Deleter, MarkedPcs
    <3>4. QED BY <1>1, <1>3, <2>2, <2>4, <3>1, <3>2, <3>3, StarterStep
  <2>5. QED BY <1>1, <1>2, <2>2, <2>3, <2>4, DeleterMoves
<1>8. QED BY <1>4, <1>6, <1>7

LEMMA MarkDeletingStep ==
    ASSUME IInv, NEW t \in Threads, MarkDeleting(t)
    PROVE  IInv'
<1>1. /\ th[t].pc = "mark" /\ UNCHANGED <<request, job, runs, evidence, tree, cleanup, boot>>
  BY DEF MarkDeleting, At
<1>2. PICK k \in Keys : k = th[t].key
  BY <1>1 DEF IInv, TypeInv, CallTypes, KeyPcs
<1>3. RowOK(k) /\ TreeOK(k) /\ RecordsOK(k) /\ boot \in Boots
  BY DEF IInv, RowInv, TreeInv, RecordInv, RecordsOK, TypeInv
<1>4. CASE Deletable(k) /\ row' = [row EXCEPT ![k] = "deleting"] /\ Goto(t, "runs") /\ UNCHANGED memory
  <2>1. row[k] # "none" /\ job[k].status \notin Unfinished /\ runs[k] # "active"
    BY <1>4 DEF Deletable
  <2>2. /\ Moves(t) /\ th'[t].pc = "runs" /\ th'[t].key = k /\ th'[t].todo = th[t].todo
    BY <1>2, <1>4, GotoEffect DEF IInv, Pcs, MarkedPcs
  <2>3. row' \in [Keys -> RowStates] /\ row'[k] = "deleting" /\ \A j \in Keys \ {k} : row'[j] = row[j]
    BY <1>4 DEF IInv, TypeInv, StoredTypes, RowStates
  <2>4. StoredTypes' /\ Elsewhere(k) /\ MemoryTypes'
    BY <1>1, <1>4, <2>3 DEF IInv, TypeInv, StoredTypes, Elsewhere, MemoryTypes, memory
  <2>5. request[k].state = "completed"
    BY <1>3, <2>1 DEF RowOK
  <2>6. RowOK(k)'
    BY <1>1, <2>1, <2>3, <2>5 DEF RowOK
  <2>7. TreeOK(k)'
    <3>1. row[k] \in {"ready"} \cup Blocked
      BY <2>1 DEF IInv, TypeInv, StoredTypes, RowStates, Blocked
    <3>2. QED BY <1>1, <1>3, <2>1, <2>3, <3>1 DEF TreeOK, Recorded, Recoverable
  <2>8. RecordsOK(k)'
    BY <1>1, <1>3, <2>1, <2>3 DEF RecordsOK, RecordOK
  <2>9. DeleteOK(th[t])'
    BY <1>1, <2>2, <2>3, <2>5 DEF DeleteOK
  <2>10. GivenUp(k)
    BY <1>1, <2>1, <2>3 DEF GivenUp, Recorded
  <2>11. ASSUME t = Starter PROVE BootInv'
    BY <1>1, <1>2, <1>4, <2>2, <2>3, <2>4, <2>11, StarterGoes DEF memory
  <2>12. QED
    BY <1>1, <1>2, <1>3, <1>4, <2>2, <2>4, <2>5, <2>6, <2>7, <2>8, <2>9, <2>10, <2>11, DeleterStep
       DEF CreatePcs, memory
<1>5. CASE ~Deletable(k) /\ EndDelete(t, FALSE) /\ UNCHANGED row
  <2>1. UNCHANGED stored
    BY <1>1, <1>5 DEF stored
  <2>2. t # Starter
    <3>1. ASSUME t = Starter PROVE row[k] = "deleting"
      BY <1>1, <1>2, <3>1, StarterKnows
    <3>2. QED BY <1>3, <1>5, <3>1 DEF RowOK, Deletable
  <2>3. QED BY <1>1, <1>3, <1>5, <2>1, <2>2, DeleterGivesUp
<1>6. QED BY <1>2, <1>4, <1>5 DEF MarkDeleting

LEMMA DeleteRunsStep ==
    ASSUME IInv, NEW t \in Threads, DeleteRuns(t)
    PROVE  IInv'
<1>1. /\ th[t].pc = "runs" /\ th[t].pc \in MarkedPcs
      /\ UNCHANGED <<request, row, job, evidence, tree, cleanup, boot>>
  BY DEF DeleteRuns, At, MarkedPcs
<1>2. PICK k \in Keys : k = th[t].key
  BY <1>1, Marked
<1>3. /\ RowOK(k) /\ TreeOK(k) /\ RecordsOK(k) /\ boot \in Boots /\ request[k].state = "completed"
      /\ row[k] # "ready" /\ runs[k] # "active"
  BY <1>1, <1>2, Marked DEF IInv, TypeInv
<1>4. CASE /\ Goto(t, "evidence") /\ UNCHANGED memory
           /\ runs' = [runs EXCEPT ![k] = IF @ = "settled" THEN "none" ELSE @]
  <2>1. /\ Moves(t) /\ th'[t].pc = "evidence" /\ th'[t].key = k /\ th'[t].todo = th[t].todo
    BY <1>2, <1>4, GotoEffect DEF IInv, Pcs, MarkedPcs
  <2>2. /\ runs' \in [Keys -> {"none", "active", "settled"}] /\ runs'[k] = "none"
        /\ \A j \in Keys \ {k} : runs'[j] = runs[j]
    BY <1>3, <1>4 DEF IInv, TypeInv, StoredTypes
  <2>3. StoredTypes' /\ Elsewhere(k) /\ MemoryTypes'
    BY <1>1, <1>4, <2>2 DEF IInv, TypeInv, StoredTypes, Elsewhere, MemoryTypes, memory
  <2>4. RowOK(k)' /\ TreeOK(k)' /\ RecordsOK(k)'
    BY <1>1, <1>3, <2>2 DEF RowOK, TreeOK, RecordsOK, RecordOK, Recorded
  <2>5. DeleteOK(th[t])'
    BY <1>1, <1>3, <2>1, <2>2 DEF DeleteOK
  <2>6. GivenUp(k)
    BY <1>1, <1>3, <2>2 DEF GivenUp, Recorded
  <2>7. ASSUME t = Starter PROVE BootInv'
    BY <1>1, <1>2, <1>4, <2>1, <2>3, <2>7, StarterGoes, StarterKnows DEF memory
  <2>8. QED
    BY <1>1, <1>2, <1>3, <1>4, <2>1, <2>3, <2>4, <2>5, <2>6, <2>7, DeleterStep DEF CreatePcs, memory
<1>5. CASE t \in Callers /\ EndDelete(t, FALSE) /\ UNCHANGED runs
  BY <1>1, <1>3, <1>5, DeleterGivesUp, WorkspaceServiceAssumption DEF stored
<1>6. QED BY <1>2, <1>4, <1>5 DEF DeleteRuns

LEMMA SpoiledBoot ==
    ASSUME IInv, NEW t \in Threads, Spoiled(t)
    PROVE  boot' \in Boots /\ boot'.pc = boot.pc /\ boot'.todo = boot.todo
           /\ (t = Starter => ~boot'.clean)
<1>1. boot \in Boots
  BY DEF IInv, TypeInv
<1>2. QED BY <1>1 DEF Spoiled, Boots

LEMMA DeleteEvidenceStep ==
    ASSUME IInv, NEW t \in Threads, DeleteEvidence(t)
    PROVE  IInv'
<1>1. /\ th[t].pc = "evidence" /\ th[t].pc \in MarkedPcs
      /\ UNCHANGED <<request, row, job, runs, tree, cleanup>>
  BY DEF DeleteEvidence, At, MarkedPcs
<1>2. PICK k \in Keys : k = th[t].key
  BY <1>1, Marked
<1>3. /\ RowOK(k) /\ TreeOK(k) /\ RecordsOK(k) /\ boot \in Boots /\ request[k].state = "completed"
      /\ row[k] # "ready" /\ DeleteOK(th[t])
  BY <1>1, <1>2, Marked DEF IInv, TypeInv
<1>4. CASE /\ evidence' = [evidence EXCEPT ![k] = FALSE]
           /\ Goto(t, IF request[k].kind = "folder" THEN "rows" ELSE "identity")
           /\ UNCHANGED <<memory, boot>>
  <2>1. /\ Moves(t) /\ th'[t].pc = (IF request[k].kind = "folder" THEN "rows" ELSE "identity")
        /\ th'[t].key = k /\ th'[t].todo = th[t].todo
    BY <1>2, <1>4, GotoEffect DEF IInv, Pcs, MarkedPcs
  <2>2. /\ evidence' \in [Keys -> BOOLEAN] /\ ~evidence'[k]
        /\ \A j \in Keys \ {k} : evidence'[j] = evidence[j]
    BY <1>4 DEF IInv, TypeInv, StoredTypes
  <2>3. StoredTypes' /\ Elsewhere(k) /\ MemoryTypes'
    BY <1>1, <1>4, <2>2 DEF IInv, TypeInv, StoredTypes, Elsewhere, MemoryTypes, memory
  <2>4. RowOK(k)' /\ TreeOK(k)' /\ RecordsOK(k)'
    BY <1>1, <1>3, <2>2 DEF RowOK, TreeOK, RecordsOK, RecordOK, Recorded
  <2>5. runs[k] = "none" /\ request[k].kind \in {"folder", "browser"}
    BY <1>1, <1>2, <1>3 DEF DeleteOK, MarkedPcs, IInv, TypeInv, StoredTypes, Requests, Kinds
  <2>6. DeleteOK(th[t])'
    BY <1>1, <1>3, <2>1, <2>2, <2>5 DEF DeleteOK
  <2>7. GivenUp(k)
    BY <1>1, <1>3, <2>2 DEF GivenUp, Recorded
  <2>8. ASSUME t = Starter PROVE BootInv'
    BY <1>1, <1>2, <1>4, <2>1, <2>3, <2>8, StarterGoes, StarterKnows DEF memory
  <2>9. QED
    BY <1>1, <1>2, <1>3, <1>4, <2>1, <2>3, <2>4, <2>6, <2>7, <2>8, DeleterStep DEF CreatePcs, memory
<1>5. CASE Spoiled(t) /\ EndDelete(t, FALSE) /\ UNCHANGED evidence
  BY <1>1, <1>5, SpoiledBoot, DeleterGivesUp DEF stored
<1>6. QED BY <1>2, <1>4, <1>5 DEF DeleteEvidence

LEMMA OwnedRootIdentityStep ==
    ASSUME IInv, NEW t \in Threads, OwnedRootIdentity(t)
    PROVE  IInv'
<1>1. th[t].pc = "identity" /\ th[t].pc \in MarkedPcs /\ UNCHANGED stored /\ UNCHANGED boot
  BY DEF OwnedRootIdentity, At, MarkedPcs
<1>2. PICK k \in Keys : k = th[t].key
  BY <1>1, Marked
<1>3. /\ RowOK(k) /\ TreeOK(k) /\ RecordsOK(k) /\ boot \in Boots /\ request[k].state = "completed"
      /\ row[k] # "ready" /\ DeleteOK(th[t])
  BY <1>1, <1>2, Marked DEF IInv, TypeInv
<1>4. CASE Goto(t, "queue") /\ UNCHANGED memory
  <2>1. Moves(t) /\ th'[t].pc = "queue" /\ th'[t].key = k /\ th'[t].todo = th[t].todo
    BY <1>2, <1>4, GotoEffect DEF IInv, Pcs, MarkedPcs
  <2>2. StoredTypes' /\ Elsewhere(k) /\ MemoryTypes'
    BY <1>1, <1>4 DEF IInv, TypeInv, StoredTypes, Elsewhere, MemoryTypes, stored, memory
  <2>3. RowOK(k)' /\ TreeOK(k)' /\ RecordsOK(k)'
    BY <1>1, <1>3 DEF RowOK, TreeOK, RecordsOK, RecordOK, Recorded, stored
  <2>4. DeleteOK(th[t])'
    BY <1>1, <1>2, <1>3, <2>1 DEF DeleteOK, MarkedPcs, stored
  <2>5. GivenUp(k)
    BY <1>1, <1>3 DEF GivenUp, Recorded, stored
  <2>6. ASSUME t = Starter PROVE BootInv'
    BY <1>1, <1>2, <1>4, <2>1, <2>2, <2>6, StarterGoes, StarterKnows DEF memory, stored
  <2>7. job' = job /\ UNCHANGED loop
    BY <1>1, <1>4 DEF stored, memory
  <2>8. QED
    BY <1>1, <1>2, <1>3, <2>1, <2>2, <2>3, <2>4, <2>5, <2>6, <2>7, DeleterStep DEF CreatePcs
<1>5. CASE row[k] = "none" /\ EndDelete(t, FALSE)
  <2>1. t # Starter
    BY <1>1, <1>2, <1>5, StarterKnows
  <2>2. QED BY <1>1, <1>3, <1>5, <2>1, DeleterGivesUp
<1>6. QED BY <1>2, <1>4, <1>5 DEF OwnedRootIdentity

LEMMA WithoutRowEffect ==
    ASSUME IInv, NEW k \in Keys, WithoutRow(k)
    PROVE  /\ row' \in [Keys -> RowStates] /\ row'[k] = "none" /\ \A j \in Keys \ {k} : row'[j] = row[j]
           /\ job' \in [Keys -> [id : Nat, status : Statuses]] /\ job'[k].status = "none"
           /\ \A j \in Keys \ {k} : job'[j] = job[j]
<1>1. job[k] \in [id : Nat, status : Statuses]
  BY DEF IInv, TypeInv, StoredTypes
<1>2. QED BY <1>1 DEF WithoutRow, IInv, TypeInv, StoredTypes, RowStates, Statuses

LEMMA DeleteRowsStep ==
    ASSUME IInv, NEW t \in Threads, DeleteRows(t)
    PROVE  IInv'
<1>1. /\ th[t].pc = "rows" /\ th[t].pc \in MarkedPcs
      /\ UNCHANGED <<request, runs, evidence, tree, cleanup, boot>>
  BY DEF DeleteRows, At, MarkedPcs
<1>2. PICK k \in Keys : k = th[t].key
  BY <1>1, Marked
<1>3. /\ RowOK(k) /\ TreeOK(k) /\ RecordsOK(k) /\ boot \in Boots /\ request[k].state = "completed"
      /\ row[k] # "ready" /\ DeleteOK(th[t]) /\ job[k].status \notin Unfinished
  BY <1>1, <1>2, Marked DEF IInv, TypeInv
<1>4. runs[k] = "none" /\ ~evidence[k] /\ tree[k] = {}
  BY <1>1, <1>2, <1>3 DEF DeleteOK, MarkedPcs, TreeOK
<1>5. CASE WithoutRow(k) /\ EndDelete(t, TRUE)
  <2>1. Moves(t) /\ th'[t].pc = "delete" /\ UNCHANGED loop /\ MemoryTypes'
    BY <1>5, EndDeleteEffect, EndTyped DEF IInv
  <2>2. StoredTypes' /\ Elsewhere(k) /\ row'[k] = "none" /\ job'[k].status = "none"
    BY <1>1, <1>5, WithoutRowEffect DEF IInv, TypeInv, StoredTypes, Elsewhere
  <2>3. RowOK(k)' /\ TreeOK(k)'
    BY <1>1, <1>4, <2>2 DEF RowOK, TreeOK, Blocked, Unfinished
  <2>4. RecordsOK(k)'
    BY <1>1, <1>3, <1>4, <2>2 DEF RecordsOK, RecordOK
  <2>5. DeleteOK(th[t])'
    BY <2>1 DEF DeleteOK, MarkedPcs
  <2>6. GivenUp(k)
    BY <1>1, <2>2 DEF GivenUp, Recorded
  <2>7. ASSUME t = Starter PROVE BootInv'
    <3>1. DeletingInv /\ boot.pc = "deleting"
      BY <1>1, <2>7, StarterKnows
    <3>2. boot.clean => \A r \in cleanup : ~r.known
      BY <1>1, <2>7, <3>1 DEF DeletingInv, Deleter
    <3>3. TypeInv'
      BY <1>1, <1>3, <2>1, <2>2, TypeStep DEF IInv
    <3>4. QED BY <1>1, <1>2, <1>4, <1>5, <2>2, <2>7, <3>2, <3>3, StarterDone
  <2>8. QED
    BY <1>1, <1>2, <1>3, <2>1, <2>2, <2>3, <2>4, <2>5, <2>6, <2>7, DeleterStep DEF CreatePcs, MarkedPcs
<1>6. CASE row[k] # "deleting" /\ EndDelete(t, FALSE) /\ UNCHANGED <<row, job>>
  <2>1. t # Starter
    BY <1>1, <1>2, <1>6, StarterKnows
  <2>2. QED BY <1>1, <1>3, <1>6, <2>1, DeleterGivesUp DEF stored
<1>7. QED BY <1>2, <1>3, <1>5, <1>6 DEF DeleteRows

LEMMA QueueCleanupStep ==
    ASSUME IInv, NEW t \in Threads, QueueCleanup(t)
    PROVE  IInv'
<1>1. /\ th[t].pc = "queue" /\ th[t].pc \in MarkedPcs
      /\ UNCHANGED <<request, row, job, runs, evidence, tree>> /\ UNCHANGED memory /\ UNCHANGED boot
      /\ Goto(t, "remove")
  BY DEF QueueCleanup, At, MarkedPcs
<1>2. PICK k \in Keys : k = th[t].key
  BY <1>1, Marked
<1>3. /\ RowOK(k) /\ TreeOK(k) /\ RecordsOK(k) /\ boot \in Boots /\ request[k].state = "completed"
      /\ row[k] # "ready" /\ DeleteOK(th[t])
  BY <1>1, <1>2, Marked DEF IInv, TypeInv
<1>4. runs[k] = "none" /\ ~evidence[k] /\ request[k].kind = "browser"
  BY <1>1, <1>2, <1>3 DEF DeleteOK, MarkedPcs
<1>5. \/ UNCHANGED cleanup /\ Recorded(k)
      \/ /\ ~Recorded(k)
         /\ cleanup' = cleanup \cup {[key |-> k, path |-> "root", known |-> TRUE]}
  BY <1>2 DEF QueueCleanup, Queued, Recorded
<1>6. Recorded(k)' /\ cleanup' \in SUBSET Records
  <2> DEFINE n == [key |-> k, path |-> "root", known |-> TRUE]
  <2>1. n \in Records /\ n.key = k /\ n.path = "root"
    BY DEF Records, Paths
  <2>2. (UNCHANGED cleanup /\ Recorded(k)) \/ cleanup' = cleanup \cup {n}
    BY <1>5
  <2> HIDE DEF n
  <2>3. QED BY <2>1, <2>2 DEF IInv, TypeInv, StoredTypes, Recorded
<1>7. Moves(t) /\ th'[t].pc = "remove" /\ th'[t].key = k /\ th'[t].todo = th[t].todo
  BY <1>1, <1>2, GotoEffect DEF IInv, Pcs, MarkedPcs
<1>8. StoredTypes' /\ Elsewhere(k) /\ MemoryTypes'
  BY <1>1, <1>5, <1>6 DEF IInv, TypeInv, StoredTypes, Elsewhere, MemoryTypes, memory
<1>9. RowOK(k)' /\ TreeOK(k)'
  BY <1>1, <1>3, <1>6 DEF RowOK, TreeOK
<1>10. RecordsOK(k)'
  <2> DEFINE n == [key |-> k, path |-> "root", known |-> TRUE]
  <2>1. n.key = k /\ n.path = "root"
    OBVIOUS
  <2>2. UNCHANGED cleanup \/ (~Recorded(k) /\ cleanup' = cleanup \cup {n})
    BY <1>5
  <2> HIDE DEF n
  <2>3. RecordOK(n)'
    BY <1>1, <1>3, <1>4, <2>1 DEF RecordOK
  <2>4. \A r \in cleanup : r.key = k => RecordOK(r)'
    BY <1>1, <1>3 DEF RecordsOK, RecordOK
  <2>5. QED BY <1>3, <2>1, <2>2, <2>3, <2>4 DEF RecordsOK, Recorded
<1>11. DeleteOK(th[t])'
  BY <1>1, <1>3, <1>4, <1>6, <1>7 DEF DeleteOK
<1>12. GivenUp(k)
  BY <1>1, <1>3, <1>6 DEF GivenUp
<1>13. ASSUME t = Starter PROVE BootInv'
  <2>1. DeletingInv /\ boot.pc = "deleting" /\ row[k] = "deleting" /\ Starter \in Threads
    BY <1>1, <1>2, <1>13, StarterKnows
  <2>2. \A r \in cleanup : r.key # k
    BY <1>1, <1>2, <1>13, <2>1 DEF DeletingInv, Deleter, MarkedPcs
  <2>3. "root" \in tree[k]
    BY <1>3, <1>4, <2>1, <2>2 DEF TreeOK, Blocked, Recorded
  <2>4. cleanup' = cleanup \cup {[key |-> k, path |-> "root", known |-> TRUE]}
    BY <1>5, <2>2 DEF Recorded
  <2>5. th'[Starter].todo \in SUBSET Keys /\ k \notin th[Starter].todo
    BY <1>1, <1>2, <1>7, <1>13, <2>1 DEF IInv, TypeInv, CallTypes, Calls, DeletingInv, Deleter
  <2>6. DeletingInv'
    BY <1>1, <1>2, <1>7, <1>13, <2>1, <2>2, <2>3, <2>4, <2>5 DEF DeletingInv, Deleter, MarkedPcs, memory
  <2>7. QED BY <1>1, <1>2, <1>7, <1>8, <1>13, <2>1, <2>6, StarterStep DEF MarkedPcs, memory
<1>14. QED
  BY <1>1, <1>2, <1>3, <1>7, <1>8, <1>9, <1>10, <1>11, <1>12, <1>13, DeleterStep
     DEF CreatePcs, MarkedPcs, memory

LEMMA RemoveOwnedTreeStep ==
    ASSUME IInv, NEW t \in Threads, RemoveOwnedTree(t)
    PROVE  IInv'
<1>1. /\ th[t].pc = "remove" /\ th[t].pc \in MarkedPcs
      /\ UNCHANGED <<request, row, job, runs, evidence, cleanup>> /\ UNCHANGED memory
  BY DEF RemoveOwnedTree, At, MarkedPcs
<1>2. PICK k \in Keys : k = th[t].key
  BY <1>1, Marked
<1>3. /\ RowOK(k) /\ TreeOK(k) /\ RecordsOK(k) /\ boot \in Boots /\ request[k].state = "completed"
      /\ row[k] # "ready" /\ DeleteOK(th[t]) /\ tree[k] \in SUBSET Paths
  BY <1>1, <1>2, Marked DEF IInv, TypeInv, StoredTypes
<1>4. PICK S \in SUBSET tree[k], pc \in {"complete", "failed"} :
        /\ tree' = [tree EXCEPT ![k] = S] /\ Goto(t, pc)
        /\ S # {} => "root" \in S
        /\ pc = "complete" => S = {} /\ boot' = boot
        /\ pc = "failed" => ("root" \in tree[k] => Spoiled(t)) /\ ("root" \notin tree[k] => boot' = boot)
  <2>1. CASE "root" \in tree[k] /\ RemovedAll(k, "root") /\ Goto(t, "complete") /\ UNCHANGED boot
    <3>1. tree[k] \ Below("root") = {}
      BY <1>3 DEF Below
    <3>2. tree' = [tree EXCEPT ![k] = {}]
      BY <2>1, <3>1 DEF RemovedAll
    <3>3. QED BY <2>1, <3>2
  <2>2. CASE "root" \in tree[k] /\ RemovedSome(k, "root") /\ Goto(t, "failed") /\ Spoiled(t)
    <3>1. PICK some \in SUBSET (Below("root") \ {"root"}) : tree' = [tree EXCEPT ![k] = @ \ some]
      BY <2>2 DEF RemovedSome
    <3>2. tree' = [tree EXCEPT ![k] = tree[k] \ some] /\ "root" \in tree[k] \ some
      BY <2>2, <3>1
    <3>3. QED BY <2>2, <3>2
  <2>3. CASE "root" \notin tree[k] /\ UNCHANGED <<tree, boot>> /\ Goto(t, "failed")
    <3>1. tree' = [tree EXCEPT ![k] = tree[k]]
      BY <2>3 DEF IInv, TypeInv, StoredTypes
    <3>2. QED BY <1>3, <2>3, <3>1 DEF TreeOK
  <2>4. QED BY <1>2, <2>1, <2>2, <2>3 DEF RemoveOwnedTree
<1>5. boot' \in Boots /\ boot'.pc = boot.pc /\ (boot'.clean => boot.clean)
      /\ (pc = "failed" /\ "root" \in tree[k] /\ t = Starter => ~boot'.clean)
  BY <1>3, <1>4 DEF Spoiled, Boots
<1>6. Moves(t) /\ th'[t].pc = pc /\ th'[t].key = k /\ th'[t].todo = th[t].todo
  BY <1>2, <1>4, GotoEffect DEF IInv, Pcs, MarkedPcs
<1>7. tree' \in [Keys -> SUBSET Paths] /\ tree'[k] = S /\ \A j \in Keys \ {k} : tree'[j] = tree[j]
  BY <1>3, <1>4 DEF IInv, TypeInv, StoredTypes
<1>8. StoredTypes' /\ Elsewhere(k) /\ MemoryTypes'
  BY <1>1, <1>7 DEF IInv, TypeInv, StoredTypes, Elsewhere, MemoryTypes, memory
<1>9. Recorded(k) \/ row[k] = "none"
  BY <1>1, <1>2, <1>3 DEF DeleteOK
<1>10. RowOK(k)'
  BY <1>1, <1>3 DEF RowOK, Recorded
<1>11. TreeOK(k)'
  BY <1>1, <1>3, <1>4, <1>7, <1>9 DEF TreeOK, Blocked, Recorded
<1>12. RecordsOK(k)'
  BY <1>1, <1>3 DEF RecordsOK, RecordOK
<1>13. DeleteOK(th[t])'
  BY <1>1, <1>2, <1>3, <1>4, <1>6, <1>7, <1>9 DEF DeleteOK, MarkedPcs, Recorded
<1>14. GivenUp(k)
  BY <1>1, <1>3, <1>7 DEF GivenUp, Recorded
<1>15. ASSUME t = Starter PROVE BootInv'
  <2>1. DeletingInv /\ boot.pc = "deleting" /\ row[k] = "deleting" /\ Starter \in Threads
    BY <1>1, <1>2, <1>15, StarterKnows
  <2>2. "root" \in tree[k] /\ k \notin th[Starter].todo
    BY <1>1, <1>2, <1>15, <2>1 DEF DeletingInv, Deleter
  <2>3. th'[Starter].todo \in SUBSET Keys
    BY <1>6, <1>15, <2>1 DEF IInv, TypeInv, CallTypes, Calls
  <2>4. DeletingInv'
    BY <1>1, <1>2, <1>4, <1>5, <1>6, <1>15, <2>1, <2>2, <2>3 DEF DeletingInv, Deleter, MarkedPcs, memory
  <2>5. QED BY <1>1, <1>2, <1>5, <1>6, <1>8, <1>15, <2>1, <2>4, StarterStep DEF MarkedPcs, memory
<1>16. QED
  BY <1>1, <1>2, <1>3, <1>5, <1>6, <1>8, <1>10, <1>11, <1>12, <1>13, <1>14, <1>15, DeleterStep
     DEF CreatePcs, MarkedPcs, memory

LEMMA CompleteCleanupStep ==
    ASSUME IInv, NEW t \in Threads, CompleteCleanup(t)
    PROVE  IInv'
<1>1. /\ th[t].pc = "complete" /\ th[t].pc \in MarkedPcs
      /\ UNCHANGED <<request, runs, evidence, tree>> /\ UNCHANGED boot
  BY DEF CompleteCleanup, At, MarkedPcs
<1>2. PICK k \in Keys : k = th[t].key
  BY <1>1, Marked
<1>3. /\ RowOK(k) /\ TreeOK(k) /\ RecordsOK(k) /\ boot \in Boots /\ request[k].state = "completed"
      /\ row[k] # "ready" /\ DeleteOK(th[t]) /\ job[k].status \notin Unfinished
  BY <1>1, <1>2, Marked DEF IInv, TypeInv
<1>4. runs[k] = "none" /\ ~evidence[k] /\ tree[k] = {} /\ (Recorded(k) \/ row[k] = "none")
  BY <1>1, <1>2, <1>3 DEF DeleteOK, MarkedPcs
<1>5. Completable(k)
  BY <1>3 DEF Completable, Blocked, IInv, TypeInv, StoredTypes, RowStates
<1>6. CASE \E r \in RootRecords(k) : Completed(r) /\ EndDelete(t, TRUE)
  <2>1. PICK r \in cleanup : /\ r.key = k /\ r.path = "root" /\ Completed(r) /\ EndDelete(t, TRUE)
    BY <1>6 DEF RootRecords
  <2>2. Moves(t) /\ th'[t].pc = "delete" /\ UNCHANGED loop /\ MemoryTypes'
    BY <2>1, EndDeleteEffect, EndTyped DEF IInv
  <2>3. cleanup' = cleanup \ {r} /\ WithoutRow(k)
    BY <2>1 DEF Completed
  <2>4. StoredTypes' /\ Elsewhere(k) /\ row'[k] = "none" /\ job'[k].status = "none"
    BY <1>1, <2>1, <2>3, WithoutRowEffect DEF IInv, TypeInv, StoredTypes, Elsewhere
  <2>5. RowOK(k)' /\ TreeOK(k)'
    BY <1>1, <1>4, <2>4 DEF RowOK, TreeOK, Blocked, Unfinished
  <2>6. RecordsOK(k)'
    BY <1>1, <1>3, <2>3, <2>4 DEF RecordsOK, RecordOK
  <2>7. DeleteOK(th[t])'
    BY <2>2 DEF DeleteOK, MarkedPcs
  <2>8. GivenUp(k)
    BY <1>1, <2>4 DEF GivenUp
  <2>9. ASSUME t = Starter PROVE BootInv'
    <3>1. DeletingInv /\ boot.pc = "deleting"
      BY <1>1, <2>9, StarterKnows
    <3>2. boot.clean => \A s \in cleanup : s.known => s.key = k
      BY <1>2, <2>9, <3>1 DEF DeletingInv, Deleter
    <3>3. \A s \in cleanup : s.key = k => s = r
      <4>1. \A s \in cleanup : s.key = k => s.path = "root"
        BY <1>3 DEF RecordsOK, RecordOK, Recoverable
      <4>2. QED BY <1>3, <2>1, <4>1 DEF RecordsOK
    <3>4. boot.clean => \A s \in cleanup' : ~s.known
      BY <2>3, <3>2, <3>3
    <3>5. TypeInv'
      BY <1>1, <1>3, <2>2, <2>4, TypeStep DEF IInv
    <3>6. QED BY <1>1, <1>2, <1>4, <2>1, <2>4, <2>9, <3>4, <3>5, StarterDone
  <2>10. QED
    BY <1>1, <1>2, <1>3, <2>2, <2>4, <2>5, <2>6, <2>7, <2>8, <2>9, DeleterStep DEF CreatePcs, MarkedPcs
<1>7. CASE RootRecords(k) = {} /\ UNCHANGED <<cleanup, row, job>> /\ EndDelete(t, TRUE)
  <2>1. t # Starter
    BY <1>1, <1>2, <1>4, <1>7, StarterKnows DEF RootRecords, Recorded
  <2>2. QED BY <1>1, <1>3, <1>7, <2>1, DeleterGivesUp DEF stored
<1>8. QED BY <1>2, <1>5, <1>6, <1>7 DEF CompleteCleanup

\* A cleanup that failed, of a workspace whose runs and evidence are gone.
LEMMA FailedEffect ==
    ASSUME IInv, NEW r \in cleanup, NEW k \in Keys, r.key = k, r.path = "root" \/ row[k] = "none",
           Failed(r), UNCHANGED <<request, runs, evidence>>,
           runs[k] = "none", ~evidence[k],
           tree' \in [Keys -> SUBSET Paths], tree'[k] \subseteq tree[k], tree'[k] # {} => "root" \in tree'[k],
           \A j \in Keys \ {k} : tree'[j] = tree[j]
    PROVE  /\ StoredTypes' /\ Elsewhere(k) /\ RowOK(k)' /\ TreeOK(k)' /\ RecordsOK(k)' /\ GivenUp(k)
           /\ UNCHANGED <<cleanup, job>>
           /\ row'[k] = IF row[k] = "none" THEN "none" ELSE "cleanup_pending"
<1>1. RowOK(k) /\ TreeOK(k) /\ RecordsOK(k) /\ RecordOK(r)
  BY DEF IInv, RowInv, TreeInv, RecordInv, RecordsOK
<1>2. /\ row' \in [Keys -> RowStates] /\ \A j \in Keys \ {k} : row'[j] = row[j]
      /\ row'[k] = IF row[k] = "none" THEN "none" ELSE "cleanup_pending"
      /\ UNCHANGED <<cleanup, job>>
  BY DEF Failed, IInv, TypeInv, StoredTypes, RowStates
<1>3. StoredTypes' /\ Elsewhere(k)
  BY <1>2 DEF IInv, TypeInv, StoredTypes, Elsewhere
<1>4. RowOK(k)'
  BY <1>1, <1>2 DEF RowOK, RecordOK, Recorded
<1>5. TreeOK(k)'
  BY <1>1, <1>2 DEF TreeOK, RecordOK, Recorded, Blocked
<1>6. RecordsOK(k)'
  BY <1>1, <1>2 DEF RecordsOK, RecordOK
<1>7. GivenUp(k)
  BY <1>2 DEF GivenUp, Recorded
<1>8. QED BY <1>2, <1>3, <1>4, <1>5, <1>6, <1>7

LEMMA FailCleanupStep ==
    ASSUME IInv, NEW t \in Threads, FailCleanup(t)
    PROVE  IInv'
<1>1. /\ th[t].pc = "failed" /\ th[t].pc \in MarkedPcs
      /\ UNCHANGED <<request, runs, evidence, tree>> /\ UNCHANGED boot /\ EndDelete(t, FALSE)
  BY DEF FailCleanup, At, MarkedPcs
<1>2. PICK k \in Keys : k = th[t].key
  BY <1>1, Marked
<1>3. /\ TreeOK(k) /\ boot \in Boots /\ request[k].state = "completed"
      /\ row[k] # "ready" /\ DeleteOK(th[t])
  BY <1>1, <1>2, Marked DEF IInv, TypeInv
<1>4. runs[k] = "none" /\ ~evidence[k]
  BY <1>1, <1>2, <1>3 DEF DeleteOK, MarkedPcs
<1>5. t = Starter => DeletingInv /\ boot.pc = "deleting" /\ row[k] = "deleting" /\ ~boot.clean
  <2>1. t = Starter => DeletingInv /\ boot.pc = "deleting" /\ row[k] = "deleting"
    BY <1>1, <1>2, StarterKnows
  <2>2. QED BY <1>1, <2>1 DEF DeletingInv, Deleter
<1>6. CASE RootRecords(k) = {} /\ UNCHANGED <<cleanup, row, job>>
  BY <1>1, <1>3, <1>5, <1>6, DeleterGivesUp DEF stored
<1>7. CASE \E r \in RootRecords(k) : Failed(r)
  <2>1. PICK r \in cleanup : r.key = k /\ r.path = "root" /\ Failed(r)
    BY <1>7 DEF RootRecords
  <2>2. /\ StoredTypes' /\ Elsewhere(k) /\ RowOK(k)' /\ TreeOK(k)' /\ RecordsOK(k)' /\ GivenUp(k)
        /\ UNCHANGED <<cleanup, job>>
        /\ row'[k] = IF row[k] = "none" THEN "none" ELSE "cleanup_pending"
    <3>1. tree' \in [Keys -> SUBSET Paths]
      BY <1>1 DEF IInv, TypeInv, StoredTypes
    <3>2. tree'[k] \subseteq tree[k] /\ (tree'[k] # {} => "root" \in tree'[k])
      BY <1>1, <1>3 DEF TreeOK
    <3>3. QED BY <1>1, <1>4, <2>1, <3>1, <3>2, FailedEffect
  <2>3. Moves(t) /\ th'[t].pc \in {"idle", "delete"} /\ UNCHANGED loop /\ MemoryTypes'
    BY <1>1, EndDeleteEffect, EndTyped DEF IInv
  <2>4. DeleteOK(th[t])'
    BY <2>3 DEF DeleteOK, MarkedPcs
  <2>5. ASSUME t = Starter PROVE BootInv'
    <3>1. TypeInv'
      BY <1>1, <1>3, <2>2, <2>3, TypeStep DEF IInv
    <3>2. QED BY <1>1, <1>2, <1>5, <2>2, <2>5, <3>1, StarterDone
  <2>6. QED
    BY <1>1, <1>2, <1>3, <2>2, <2>3, <2>4, <2>5, DeleterStep DEF CreatePcs, MarkedPcs
<1>8. QED BY <1>2, <1>6, <1>7 DEF FailCleanup

-----------------------------------------------------------------------------
(***************************************************************************)
(* The start of a Worker.                                                  *)
(***************************************************************************)
\* Nothing else runs while the Worker starts.
LEMMA BootAlone ==
    ASSUME IInv, boot.pc \in {"discover", "interrupt", "cleanup", "requeue"}
           \/ (boot.pc = "deleting" /\ th[Starter].pc = "idle")
    PROVE  loop.pc = "wait" /\ \A t \in Threads : th[t].pc = "idle"
BY DEF IInv, BootInv, QuietInv, Threads

LEMMA BootStep ==
    ASSUME IInv, UNCHANGED <<th, loop>>, StoredTypes', MemoryTypes', boot' \in Boots,
           boot.pc \in {"discover", "interrupt", "cleanup", "requeue"}
           \/ (boot.pc = "deleting" /\ th[Starter].pc = "idle"),
           boot'.pc \in {"discover", "interrupt", "cleanup"} => active' = {},
           boot'.pc # "deleting"
    PROVE  TypeInv' /\ JobInv' /\ CreateInv' /\ DeleteInv' /\ QuietInv' /\ DeletingInv'
<1>1. loop.pc = "wait" /\ \A t \in Threads : th[t].pc = "idle"
  BY BootAlone
<1>2. TypeInv'
  BY DEF IInv, TypeInv, CallTypes
<1>3. JobInv'
  BY <1>1 DEF JobInv
<1>4. CreateInv' /\ DeleteInv'
  BY <1>1 DEF CreateInv, CreateOK, DeleteInv, DeleteOK, CreatePcs, MarkedPcs
<1>5. QuietInv' /\ DeletingInv'
  BY <1>1 DEF QuietInv, DeletingInv, Threads
<1>6. QED BY <1>2, <1>3, <1>4, <1>5

\* An orphan is what a creation left that may be begun again.
LEMMA OrphansRecoverable ==
    ASSUME IInv, NEW o \in Orphans
    PROVE  /\ o[1] \in Keys /\ o[2] \in Remnants /\ row[o[1]] = "none"
           /\ request[o[1]].state \in Recoverable
<1>1. o[1] \in Keys /\ o[2] \in Remnants /\ o[2] \in tree[o[1]]
      /\ (o[2] = "orphan" \/ request[o[1]].state \in Recoverable)
  BY DEF Orphans
<1>2. RowOK(o[1]) /\ TreeOK(o[1])
  BY <1>1 DEF IInv, RowInv, TreeInv
<1>3. CASE o[2] = "orphan"
  BY <1>1, <1>2, <1>3 DEF RowOK, TreeOK
<1>4. CASE request[o[1]].state \in Recoverable
  BY <1>1, <1>2, <1>4 DEF RowOK, Recoverable
<1>5. QED BY <1>1, <1>3, <1>4

LEMMA DiscoverOrphansStep ==
    ASSUME IInv, DiscoverOrphans
    PROVE  IInv'
<1>1. /\ boot.pc = "discover" /\ boot' = [boot EXCEPT !.pc = "interrupt"]
      /\ UNCHANGED <<request, row, job, runs, evidence, tree, th>> /\ UNCHANGED memory
      /\ boot \in Boots
  BY DEF DiscoverOrphans, IInv, TypeInv
<1>2. PICK unknown \in SUBSET Orphans : cleanup' = cleanup \cup NewRecords(unknown)
  BY DEF DiscoverOrphans
<1>3. boot' \in Boots /\ boot'.pc = "interrupt" /\ active = {}
  BY <1>1 DEF Boots, IInv, BootInv, QuietInv
<1>4. ASSUME NEW r \in NewRecords(unknown)
      PROVE  /\ r \in Records /\ r.path \in Remnants /\ row[r.key] = "none"
             /\ request[r.key].state \in Recoverable
             /\ ~\E s \in cleanup : s.key = r.key /\ s.path = r.path
             /\ r.known = (request[r.key].state \in Recoverable /\ <<r.key, r.path>> \notin unknown)
  <2>1. PICK o \in Orphans :
          /\ ~\E s \in cleanup : s.key = o[1] /\ s.path = o[2]
          /\ r = [key |-> o[1], path |-> o[2],
                  known |-> request[o[1]].state \in Recoverable /\ o \notin unknown]
    BY DEF NewRecords
  <2>2. o = <<o[1], o[2]>> /\ o[1] \in Keys /\ o[2] \in Remnants
    BY DEF Orphans
  <2>3. r.key = o[1] /\ r.path = o[2] /\ <<r.key, r.path>> = o
    BY <2>1, <2>2
  <2>4. r \in Records
    BY <2>1, <2>2 DEF Records, Paths
  <2>5. r.known = (request[o[1]].state \in Recoverable /\ o \notin unknown)
    BY <2>1
  <2>6. QED BY <2>1, <2>2, <2>3, <2>4, <2>5, OrphansRecoverable
<1>5. cleanup' \in SUBSET Records
  BY <1>2, <1>4 DEF IInv, TypeInv, StoredTypes
<1>6. StoredTypes' /\ MemoryTypes'
  BY <1>1, <1>5 DEF IInv, TypeInv, StoredTypes, MemoryTypes, memory
<1>7. TypeInv' /\ JobInv' /\ CreateInv' /\ DeleteInv' /\ QuietInv' /\ DeletingInv'
  BY <1>1, <1>3, <1>6, BootStep DEF memory
<1>8. RowInv' /\ TreeInv'
  BY <1>1, <1>2 DEF IInv, RowInv, RowOK, TreeInv, TreeOK, Recorded
<1>9. RecordInv'
  <2>1. ASSUME NEW r \in cleanup' PROVE RecordOK(r)'
    BY <1>1, <1>2, <1>4, <2>1 DEF IInv, RecordInv, RecordOK, Recoverable
  <2>2. ASSUME NEW r \in NewRecords(unknown), NEW s \in NewRecords(unknown), r.key = s.key, r.path = s.path
        PROVE  r = s
    <3>1. r.known = s.known /\ r \in Records /\ s \in Records
      BY <1>4, <2>2
    <3>2. QED BY <2>2, <3>1 DEF Records
  <2>3. QED BY ZenonT(60), <1>2, <1>4, <2>1, <2>2 DEF IInv, RecordInv
<1>10. FoundInv'
  <2>1. ASSUME NEW k \in Keys, NEW p \in Remnants, row[k] = "none", p \in tree[k]
        PROVE  \E r \in cleanup' : r.key = k /\ r.path = p
    <3>1. TreeOK(k) /\ request[k].kind \in Kinds
      BY DEF IInv, TreeInv, TypeInv, StoredTypes, Requests
    <3>2. request[k].state \in Recoverable /\ request[k].kind = "browser"
      BY <2>1, <3>1 DEF TreeOK, Kinds
    <3>3. <<k, p>> \in Orphans
      BY <2>1, <3>2 DEF Orphans
    <3>4. CASE \E r \in cleanup : r.key = k /\ r.path = p
      BY <1>2, <3>4
    <3>5. CASE ~\E r \in cleanup : r.key = k /\ r.path = p
      <4> DEFINE o == <<k, p>>
                 n == [key |-> o[1], path |-> o[2],
                       known |-> request[o[1]].state \in Recoverable /\ o \notin unknown]
      <4>1. o \in {q \in Orphans : ~\E r \in cleanup : r.key = q[1] /\ r.path = q[2]}
        BY <3>3, <3>5
      <4>2. n \in NewRecords(unknown)
        BY <4>1 DEF NewRecords
      <4>3. n.key = k /\ n.path = p
        OBVIOUS
      <4>4. QED BY <1>2, <4>2, <4>3
    <3>6. QED BY <3>4, <3>5
  <2>2. QED BY <1>1, <2>1 DEF FoundInv
<1>11. CleanInv' /\ DoneInv'
  BY <1>3 DEF CleanInv, DoneInv
<1>12. QED BY <1>7, <1>8, <1>9, <1>10, <1>11 DEF IInv, BootInv

LEMMA InterruptCreationsStep ==
    ASSUME IInv, InterruptCreations
    PROVE  IInv'
<1>1. /\ boot.pc = "interrupt" /\ boot' = [boot EXCEPT !.pc = "cleanup", !.todo = cleanup]
      /\ UNCHANGED <<row, job, runs, evidence, tree, cleanup, th>> /\ UNCHANGED memory
      /\ boot \in Boots /\ cleanup \in SUBSET Records
  BY DEF InterruptCreations, IInv, TypeInv, StoredTypes
<1>2. boot' \in Boots /\ boot'.pc = "cleanup" /\ boot'.todo = cleanup /\ active = {}
  BY <1>1 DEF Boots, IInv, BootInv, QuietInv
<1>3. ASSUME NEW k \in Keys
      PROVE  /\ request'[k] \in Requests /\ request'[k].kind = request[k].kind
             /\ request'[k].state = IF request[k].state = "claimed" THEN "interrupted" ELSE request[k].state
  <2>1. request[k] \in Requests
    BY DEF IInv, TypeInv, StoredTypes
  <2>2. request'[k] = [request[k] EXCEPT !.state = IF @ = "claimed" THEN "interrupted" ELSE @]
    BY DEF InterruptCreations
  <2>3. QED BY <2>1, <2>2 DEF Requests, RequestStates
<1>4. request' = [k \in Keys |-> request'[k]]
  BY DEF InterruptCreations
<1>5. StoredTypes' /\ MemoryTypes'
  BY <1>1, <1>3, <1>4 DEF IInv, TypeInv, StoredTypes, MemoryTypes, memory
<1>6. TypeInv' /\ JobInv' /\ CreateInv' /\ DeleteInv' /\ QuietInv' /\ DeletingInv'
  BY <1>1, <1>2, <1>5, BootStep DEF memory
<1>7. RowInv'
  BY <1>1, <1>3 DEF IInv, RowInv, RowOK, Recorded
<1>8. ASSUME NEW k \in Keys
      PROVE  /\ request'[k].state \in Recoverable <=> request[k].state \in Recoverable
             /\ request'[k].state = "none" <=> request[k].state = "none"
  BY <1>3 DEF Recoverable
<1>9. TreeInv'
  BY <1>1, <1>3, <1>8 DEF IInv, TreeInv, TreeOK, Recorded
<1>10. RecordInv'
  BY <1>1, <1>8 DEF IInv, RecordInv, RecordOK, Records
<1>11. FoundInv'
  BY <1>1 DEF IInv, BootInv, FoundInv, Started
<1>12. CleanInv' /\ DoneInv'
  BY <1>1, <1>2 DEF CleanInv, DoneInv
<1>13. QED BY <1>6, <1>7, <1>9, <1>10, <1>11, <1>12 DEF IInv, BootInv

\* One record of k is worked on.
LEMMA RecoverStep ==
    ASSUME IInv, boot.pc = "cleanup", NEW k \in Keys, Elsewhere(k), StoredTypes',
           RowOK(k)', TreeOK(k)', RecordsOK(k)', UNCHANGED memory, UNCHANGED th,
           boot' \in Boots, boot'.pc = "cleanup", CleanInv',
           \A p \in Remnants : row'[k] = "none" /\ p \in tree'[k] =>
               \E r \in cleanup' : r.key = k /\ r.path = p
    PROVE  IInv'
<1>1. MemoryTypes' /\ active = {}
  BY DEF IInv, TypeInv, MemoryTypes, memory, BootInv, QuietInv
<1>2. TypeInv' /\ JobInv' /\ CreateInv' /\ DeleteInv' /\ QuietInv' /\ DeletingInv'
  BY <1>1, BootStep DEF memory
<1>3. RowInv' /\ TreeInv' /\ RecordInv'
  BY <1>2, StoreStep
<1>4. ASSUME NEW j \in Keys, NEW p \in Remnants, row'[j] = "none", p \in tree'[j]
      PROVE  \E r \in cleanup' : r.key = j /\ r.path = p
  <2>1. CASE j = k
    BY <1>4, <2>1
  <2>2. CASE j # k
    <3>1. row[j] = "none" /\ p \in tree[j]
      BY <1>4, <2>2 DEF Elsewhere
    <3>2. PICK r \in cleanup : r.key = j /\ r.path = p
      BY <3>1 DEF IInv, BootInv, FoundInv, Started
    <3>3. r \in cleanup'
      BY <2>2, <3>2 DEF Elsewhere, IInv, TypeInv, StoredTypes
    <3>4. QED BY <3>2, <3>3
  <2>3. QED BY <2>1, <2>2
<1>5. FoundInv' /\ DoneInv'
  BY <1>4 DEF FoundInv, DoneInv
<1>6. QED BY <1>2, <1>3, <1>5 DEF IInv, BootInv

\* What the queue says of a record that is worked on.
LEMMA RecordKnown ==
    ASSUME IInv, boot.pc = "cleanup", NEW r \in boot.todo
    PROVE  /\ r \in cleanup /\ r \in Records /\ r.key \in Keys /\ r.path \in Paths /\ r.known \in BOOLEAN
           /\ RowOK(r.key) /\ TreeOK(r.key) /\ RecordsOK(r.key) /\ RecordOK(r)
           /\ runs[r.key] = "none" /\ ~evidence[r.key] /\ Completable(r.key)
           /\ r.path = "root" \/ row[r.key] = "none"
<1>1. r \in cleanup
  BY DEF IInv, BootInv, CleanInv
<1>2. r \in Records /\ r.key \in Keys /\ r.path \in Paths /\ r.known \in BOOLEAN
  BY <1>1 DEF IInv, TypeInv, StoredTypes, Records
<1>3. RowOK(r.key) /\ TreeOK(r.key) /\ RecordsOK(r.key) /\ RecordOK(r)
  BY <1>1, <1>2 DEF IInv, RowInv, TreeInv, RecordInv, RecordsOK
<1>4. runs[r.key] = "none" /\ ~evidence[r.key]
  BY <1>3 DEF RowOK, RecordOK
<1>5. Completable(r.key)
  BY <1>2, <1>3 DEF Completable, RowOK, RecordOK, IInv, TypeInv, StoredTypes, RowStates, Blocked
<1>6. r.path = "root" \/ row[r.key] = "none"
  BY <1>3 DEF RowOK, RecordOK, Recoverable
<1>7. QED BY <1>1, <1>2, <1>3, <1>4, <1>5, <1>6

LEMMA TriedBoot ==
    ASSUME IInv, boot.pc = "cleanup", NEW r \in boot.todo, NEW c \in BOOLEAN,
           boot' = [boot EXCEPT !.todo = @ \ {r}, !.clean = c]
    PROVE  boot' \in Boots /\ boot'.pc = "cleanup" /\ boot'.todo = boot.todo \ {r} /\ boot'.clean = c
BY DEF IInv, TypeInv, Boots

\* A record is put off: it failed, or it cannot be identified.
LEMMA PutOff ==
    ASSUME IInv, boot.pc = "cleanup", NEW r \in boot.todo, NEW c \in BOOLEAN,
           boot' = [boot EXCEPT !.todo = @ \ {r}, !.clean = c],
           Failed(r), UNCHANGED <<request, runs, evidence>>, UNCHANGED memory, UNCHANGED th,
           tree' \in [Keys -> SUBSET Paths], tree'[r.key] \subseteq tree[r.key],
           tree'[r.key] # {} => "root" \in tree'[r.key],
           \A j \in Keys \ {r.key} : tree'[j] = tree[j],
           c => boot.clean /\ ~r.known
    PROVE  IInv'
<1>1. PICK k \in Keys : k = r.key
  BY RecordKnown
<1>2. /\ r \in cleanup /\ runs[k] = "none" /\ ~evidence[k] /\ (r.path = "root" \/ row[k] = "none")
  BY <1>1, RecordKnown
<1>3. /\ StoredTypes' /\ Elsewhere(k) /\ RowOK(k)' /\ TreeOK(k)' /\ RecordsOK(k)'
      /\ UNCHANGED <<cleanup, job>>
      /\ row'[k] = IF row[k] = "none" THEN "none" ELSE "cleanup_pending"
  BY <1>1, <1>2, FailedEffect
<1>4. boot' \in Boots /\ boot'.pc = "cleanup" /\ boot'.todo = boot.todo \ {r} /\ boot'.clean = c
  BY TriedBoot
<1>5. CleanInv'
  <2>1. CleanInv /\ cleanup \in SUBSET Records
    BY DEF IInv, BootInv, TypeInv, StoredTypes
  <2>2. \A s \in cleanup : row'[s.key] = "deleting" => s.key # k /\ row[s.key] = "deleting"
    BY <1>3, <2>1 DEF Elsewhere, Records
  <2>3. QED BY <1>1, <1>3, <1>4, <2>1, <2>2 DEF CleanInv
<1>6. \A p \in Remnants : row'[k] = "none" /\ p \in tree'[k] => \E s \in cleanup' : s.key = k /\ s.path = p
  BY <1>1, <1>3 DEF IInv, BootInv, FoundInv, Started
<1>7. QED BY <1>3, <1>4, <1>5, <1>6, RecoverStep

LEMMA RecoverCleanupStep ==
    ASSUME IInv, RecoverCleanup
    PROVE  IInv'
<1>1. /\ boot.pc = "cleanup" /\ UNCHANGED <<request, runs, evidence, th>> /\ UNCHANGED memory
      /\ boot \in Boots
  BY DEF RecoverCleanup, IInv, TypeInv
<1>2. PICK r \in boot.todo :
        LET k == r.key
            unsettled == row[k] # "none" /\ runs[k] = "active"
            gone == r.path \notin tree[k]
        IN  \/ /\ unsettled \/ ~r.known \/ (gone /\ ~Completable(k))
               /\ Failed(r) /\ Tried(r) /\ UNCHANGED tree /\ NoFault
            \/ /\ ~unsettled /\ r.known /\ gone /\ Completable(k)
               /\ Completed(r) /\ Tried(r) /\ UNCHANGED tree /\ NoFault
            \/ /\ ~unsettled /\ r.known /\ ~gone
               /\ RemovedAll(k, r.path) /\ UNCHANGED <<cleanup, row, job, boot>> /\ NoFault
            \/ /\ ~unsettled /\ r.known /\ ~gone /\ Fault
               /\ RemovedSome(k, r.path) /\ Failed(r)
               /\ boot' = [boot EXCEPT !.todo = @ \ {r}, !.clean = FALSE]
  BY DEF RecoverCleanup
<1>3. PICK k \in Keys : k = r.key
  BY <1>1, RecordKnown
<1>4. /\ r \in cleanup /\ r \in Records /\ r.path \in Paths /\ RowOK(k) /\ TreeOK(k) /\ RecordsOK(k)
      /\ RecordOK(r) /\ runs[k] = "none" /\ ~evidence[k] /\ Completable(k)
      /\ (r.path = "root" \/ row[k] = "none") /\ tree[k] \in SUBSET Paths
      /\ tree \in [Keys -> SUBSET Paths]
  BY <1>1, <1>3, RecordKnown DEF IInv, TypeInv, StoredTypes
<1>5. Tried(r) => boot' = [boot EXCEPT !.todo = @ \ {r}, !.clean = boot.clean] /\ boot.clean \in BOOLEAN
  BY <1>1 DEF Tried, Boots
<1>6. CASE ~r.known /\ Failed(r) /\ Tried(r) /\ UNCHANGED tree
  <2>1. tree'[k] # {} => "root" \in tree'[k]
    BY <1>4, <1>6 DEF TreeOK
  <2>2. QED BY <1>1, <1>3, <1>4, <1>5, <1>6, <2>1, PutOff
<1>7. CASE r.path \notin tree[k] /\ Completed(r) /\ Tried(r) /\ UNCHANGED tree
  <2>1. cleanup' = cleanup \ {r} /\ WithoutRow(k)
    BY <1>3, <1>7 DEF Completed
  <2>2. StoredTypes' /\ Elsewhere(k) /\ row'[k] = "none" /\ job'[k].status = "none"
    BY <1>1, <1>3, <1>7, <2>1, WithoutRowEffect DEF IInv, TypeInv, StoredTypes, Elsewhere
  <2>3. row[k] # "none" => tree[k] = {}
    BY <1>4, <1>7 DEF TreeOK
  <2>4. RowOK(k)'
    BY <1>1, <1>4, <2>2 DEF RowOK, Unfinished
  <2>5. TreeOK(k)'
    BY <1>1, <1>4, <1>7, <2>2, <2>3 DEF TreeOK, Blocked
  <2>6. RecordsOK(k)'
    BY <1>1, <1>4, <2>1, <2>2 DEF RecordsOK, RecordOK
  <2>7. boot' \in Boots /\ boot'.pc = "cleanup" /\ boot'.todo = boot.todo \ {r} /\ boot'.clean = boot.clean
    BY <1>1, <1>5, <1>7, TriedBoot
  <2>8. CleanInv'
    <3>1. CleanInv /\ cleanup \in SUBSET Records
      BY DEF IInv, BootInv, TypeInv, StoredTypes
    <3>2. \A s \in cleanup : row'[s.key] = "deleting" => s.key # k /\ row[s.key] = "deleting"
      BY <2>2, <3>1 DEF Elsewhere, Records
    <3>3. QED BY <1>1, <2>1, <2>7, <3>1, <3>2 DEF CleanInv
  <2>9. \A p \in Remnants : p \in tree'[k] => \E s \in cleanup' : s.key = k /\ s.path = p
    <3>1. \A p \in Remnants : p \in tree[k] => \E s \in cleanup : s.key = k /\ s.path = p
      BY <1>1, <2>3 DEF IInv, BootInv, FoundInv, Started
    <3>2. QED BY <1>7, <2>1, <3>1
  <2>10. QED BY <1>1, <2>2, <2>4, <2>5, <2>6, <2>7, <2>8, <2>9, RecoverStep
<1>8. CASE RemovedAll(k, r.path) /\ UNCHANGED <<cleanup, row, job, boot>>
  <2>1. /\ tree' \in [Keys -> SUBSET Paths] /\ tree'[k] = tree[k] \ Below(r.path)
        /\ \A j \in Keys \ {k} : tree'[j] = tree[j]
    BY <1>4, <1>8 DEF RemovedAll
  <2>2. StoredTypes' /\ Elsewhere(k)
    BY <1>1, <1>8, <2>1 DEF IInv, TypeInv, StoredTypes, Elsewhere
  <2>3. RowOK(k)' /\ RecordsOK(k)'
    BY <1>1, <1>4, <1>8 DEF RowOK, RecordsOK, RecordOK, Recorded
  <2>4. TreeOK(k)'
    <3>1. CASE r.path = "root"
      <4>1. tree'[k] = {} /\ Recorded(k)
        BY <1>3, <1>4, <2>1, <3>1 DEF Below, Recorded
      <4>2. QED BY <1>1, <1>3, <1>4, <1>8, <4>1 DEF TreeOK, Recorded, RecordOK
    <3>2. CASE r.path # "root"
      <4>1. row[k] = "none" /\ tree'[k] = tree[k] \ {r.path}
        BY <1>4, <2>1, <3>2 DEF Below
      <4>2. QED BY <1>1, <1>4, <1>8, <3>2, <4>1 DEF TreeOK, Blocked
    <3>3. QED BY <3>1, <3>2
  <2>5. CleanInv'
    BY <1>8 DEF IInv, BootInv, CleanInv
  <2>6. \A p \in Remnants : row'[k] = "none" /\ p \in tree'[k] => \E s \in cleanup' : s.key = k /\ s.path = p
    BY <1>1, <1>8, <2>1 DEF IInv, BootInv, FoundInv, Started
  <2>7. QED BY <1>1, <1>8, <2>2, <2>3, <2>4, <2>5, <2>6, RecoverStep
<1>9. CASE /\ RemovedSome(k, r.path) /\ Failed(r)
           /\ boot' = [boot EXCEPT !.todo = @ \ {r}, !.clean = FALSE]
  <2>1. PICK some \in SUBSET (Below(r.path) \ {r.path}) : tree' = [tree EXCEPT ![k] = @ \ some]
    BY <1>9 DEF RemovedSome
  <2>2. /\ tree' \in [Keys -> SUBSET Paths] /\ tree'[k] = tree[k] \ some
        /\ \A j \in Keys \ {k} : tree'[j] = tree[j]
    BY <1>4, <2>1
  <2>3. "root" \notin some
    BY <2>1 DEF Below
  <2>4. tree'[k] # {} => "root" \in tree'[k]
    BY <1>4, <2>2, <2>3 DEF TreeOK
  <2>5. tree'[k] \subseteq tree[k]
    BY <2>2
  <2>6. QED BY <1>1, <1>3, <1>9, <2>2, <2>4, <2>5, PutOff
<1>10. ~(row[k] # "none" /\ runs[k] = "active")
  BY <1>4
<1>11. QED BY <1>2, <1>3, <1>4, <1>6, <1>7, <1>8, <1>9, <1>10

LEMMA RecoverDeletingStep ==
    ASSUME IInv, RecoverDeleting
    PROVE  IInv'
<1> DEFINE c == [pc |-> "delete", key |-> "none", todo |-> {k \in Keys : row[k] = "deleting"}]
<1>1. /\ boot.pc = "cleanup" /\ boot.todo = {} /\ boot' = [boot EXCEPT !.pc = "deleting"]
      /\ UNCHANGED stored /\ UNCHANGED memory /\ boot \in Boots /\ Starter \in Threads
  BY DEF RecoverDeleting, IInv, TypeInv, Threads
<1>2. c \in Calls /\ c.pc = "delete" /\ c.todo = {k \in Keys : row[k] = "deleting"}
  BY DEF Calls, Pcs
<1>3. Become(Starter, c)
  BY DEF RecoverDeleting
<1> HIDE DEF c
<1>4. Moves(Starter) /\ th'[Starter] = c
  BY <1>1, <1>2, <1>3, BecomeEffect DEF IInv, KeyPcs, CreatePcs, MarkedPcs
<1>5. boot' \in Boots /\ boot'.pc = "deleting" /\ boot'.clean = boot.clean
  BY <1>1 DEF Boots
<1>6. MemoryTypes' /\ active = {} /\ loop.pc = "wait" /\ \A t \in Threads : th[t].pc = "idle"
  BY <1>1, BootAlone DEF IInv, TypeInv, MemoryTypes, memory, BootInv, QuietInv
<1>7. TypeInv' /\ RowInv' /\ TreeInv' /\ RecordInv' /\ CreateInv' /\ DeleteInv'
  BY <1>1, <1>2, <1>4, <1>5, <1>6, CallMoves
<1>8. JobInv' /\ QuietInv'
  BY <1>1, <1>2, <1>4, <1>5, <1>6, WorkspaceServiceAssumption DEF JobInv, QuietInv, Moves, memory, Threads
<1>9. (\A r \in cleanup : row[r.key] # "deleting") /\ (boot.clean => \A r \in cleanup : ~r.known)
  BY <1>1 DEF IInv, BootInv, CleanInv
<1>10. DeletingInv'
  BY <1>1, <1>2, <1>4, <1>5, <1>6, <1>9 DEF DeletingInv, Deleter, MarkedPcs, stored, memory
<1>11. FoundInv'
  BY <1>1 DEF IInv, BootInv, FoundInv, Started, stored
<1>12. CleanInv' /\ DoneInv'
  BY <1>5 DEF CleanInv, DoneInv
<1>13. QED BY <1>7, <1>8, <1>10, <1>11, <1>12 DEF IInv, BootInv

LEMMA RecoverJobsStep ==
    ASSUME IInv, RecoverJobs
    PROVE  IInv'
<1>1. /\ boot.pc = "deleting" /\ th[Starter].pc = "idle"
      /\ job' = [k \in Keys |-> [job[k] EXCEPT !.status = RecoverRunning(@)]]
      /\ boot' = [boot EXCEPT !.pc = "requeue", !.todo = {k \in Keys : job'[k].status = "queued"}]
      /\ UNCHANGED <<request, row, runs, evidence, tree, cleanup, th>> /\ UNCHANGED memory
      /\ boot \in Boots
  BY DEF RecoverJobs, At, IInv, TypeInv
<1>2. boot' \in Boots /\ boot'.pc = "requeue" /\ boot'.clean = boot.clean /\ boot'.todo \subseteq Keys
  BY <1>1 DEF Boots
<1>3. ASSUME NEW k \in Keys
      PROVE  /\ job'[k] \in [id : Nat, status : Statuses]
             /\ job'[k].status \in Unfinished => job[k].status \in Unfinished
  <2>1. job[k] \in [id : Nat, status : Statuses]
    BY DEF IInv, TypeInv, StoredTypes
  <2>2. job'[k] = [job[k] EXCEPT !.status = RecoverRunning(@)]
    BY <1>1
  <2>3. QED BY <2>1, <2>2 DEF RecoverRunning, Statuses, Unfinished
<1>4. job' = [k \in Keys |-> job'[k]]
  BY <1>1
<1>5. StoredTypes' /\ MemoryTypes'
  BY <1>1, <1>3, <1>4 DEF IInv, TypeInv, StoredTypes, MemoryTypes, memory
<1>6. TypeInv' /\ JobInv' /\ CreateInv' /\ DeleteInv' /\ QuietInv' /\ DeletingInv'
  BY <1>1, <1>2, <1>5, BootStep DEF memory
<1>7. RowInv' /\ TreeInv' /\ RecordInv'
  BY <1>1, <1>3 DEF IInv, RowInv, RowOK, TreeInv, TreeOK, RecordInv, RecordOK, Recorded
<1>8. FoundInv' /\ CleanInv'
  BY <1>1, <1>2 DEF IInv, BootInv, FoundInv, Started, CleanInv
<1>9. boot.clean => (\A k \in Keys : row[k] # "deleting") /\ \A r \in cleanup : ~r.known
  BY <1>1 DEF IInv, BootInv, DeletingInv, Deleter
<1>10. DoneInv'
  BY <1>1, <1>2, <1>9 DEF DoneInv
<1>11. QED BY <1>6, <1>7, <1>8, <1>10 DEF IInv, BootInv

LEMMA RequeueStep ==
    ASSUME IInv, Requeue
    PROVE  IInv'
<1>1. /\ boot.pc = "requeue" /\ UNCHANGED stored /\ UNCHANGED <<loop, th>> /\ boot \in Boots
      /\ boot.todo \subseteq Keys
  BY DEF Requeue, IInv, TypeInv, BootInv, DoneInv
<1>2. StoredTypes' /\ RowInv' /\ TreeInv' /\ RecordInv'
  BY <1>1 DEF IInv, TypeInv, StoredTypes, RowInv, RowOK, TreeInv, TreeOK, RecordInv, RecordOK,
              Recorded, stored
<1>3. CASE boot' = Up /\ UNCHANGED <<active, activeJob, queue>>
  <2>1. boot' \in Boots /\ boot'.pc = "up" /\ MemoryTypes'
    BY <1>1, <1>3 DEF Boots, Up, IInv, TypeInv, MemoryTypes
  <2>2. TypeInv' /\ JobInv' /\ CreateInv' /\ DeleteInv' /\ QuietInv' /\ DeletingInv'
    BY <1>1, <1>2, <2>1, BootStep
  <2>3. FoundInv' /\ CleanInv' /\ DoneInv'
    BY <2>1 DEF FoundInv, Started, CleanInv, DoneInv
  <2>4. QED BY <1>2, <2>2, <2>3 DEF IInv, BootInv
<1>4. CASE \E k \in boot.todo :
              QueueExisting(k, job[k].id) /\ boot' = [boot EXCEPT !.todo = @ \ {k}]
  <2>1. PICK k \in boot.todo : QueueExisting(k, job[k].id) /\ boot' = [boot EXCEPT !.todo = @ \ {k}]
    BY <1>4
  <2>2. k \in Keys /\ job[k].id \in Nat
    BY <1>1 DEF IInv, TypeInv, StoredTypes
  <2>3. boot' \in Boots /\ boot'.pc = "requeue" /\ boot'.clean = boot.clean
        /\ boot'.todo \subseteq boot.todo
    BY <1>1, <2>1 DEF Boots
  <2>4. MemoryTypes'
    BY <1>1, <2>1, <2>2, QueueTyped
  <2>5. TypeInv' /\ JobInv' /\ CreateInv' /\ DeleteInv' /\ QuietInv' /\ DeletingInv'
    BY <1>1, <1>2, <2>3, <2>4, BootStep
  <2>6. FoundInv'
    BY <1>1 DEF IInv, BootInv, FoundInv, Started, stored
  <2>7. CleanInv' /\ DoneInv'
    BY <1>1, <2>3 DEF IInv, BootInv, CleanInv, DoneInv, stored
  <2>8. QED BY <1>2, <2>5, <2>6, <2>7 DEF IInv, BootInv
<1>5. QED BY <1>3, <1>4 DEF Requeue

(* The invariant holds at first and is kept by every step.                 *)
LEMMA InitInv == Init => IInv
<1> SUFFICES ASSUME Init PROVE IInv
  OBVIOUS
<1>1. StoredTypes
  BY DEF Init, StoredTypes, Requests, RequestStates, Kinds, RowStates, Statuses
<1>2. MemoryTypes
  BY EmptySeq DEF Init, MemoryTypes, Loops, Waiting
<1>3. CallTypes /\ boot \in Boots /\ boot.pc = "up" /\ loop.pc = "wait"
      /\ \A t \in Threads : th[t].pc = "idle"
  BY IdleTyped DEF Init, CallTypes, Boots, Up, KeyPcs, CreatePcs, MarkedPcs, Waiting
<1>4. RowInv /\ TreeInv /\ RecordInv
  BY DEF Init, RowInv, RowOK, TreeInv, TreeOK, RecordInv, Unfinished, Blocked
<1>5. JobInv /\ CreateInv /\ DeleteInv
  BY <1>3 DEF JobInv, CreateInv, CreateOK, DeleteInv, DeleteOK, CreatePcs, MarkedPcs
<1>6. BootInv
  BY <1>3 DEF BootInv, QuietInv, FoundInv, Started, CleanInv, DeletingInv, DoneInv, Threads
<1>7. QED BY <1>1, <1>2, <1>3, <1>4, <1>5, <1>6 DEF IInv, TypeInv

LEMMA SameInv ==
    ASSUME IInv, UNCHANGED vars
    PROVE  IInv'
<1>1. TypeInv' /\ RowInv' /\ TreeInv' /\ RecordInv' /\ JobInv'
  BY DEF vars, stored, memory, bounds, IInv, TypeInv, StoredTypes, MemoryTypes, CallTypes,
         RowInv, RowOK, TreeInv, TreeOK, RecordInv, RecordOK, Recorded, JobInv
<1>2. CreateInv' /\ DeleteInv'
  BY DEF vars, stored, memory, bounds, IInv, CreateInv, CreateOK, DeleteInv, DeleteOK, Recorded
<1>3. QuietInv' /\ FoundInv' /\ CleanInv' /\ DoneInv'
  BY DEF vars, stored, memory, bounds, IInv, BootInv, QuietInv, FoundInv, CleanInv, DoneInv
<1>4. DeletingInv'
  BY DEF vars, stored, memory, bounds, IInv, BootInv, DeletingInv, Deleter
<1>5. QED BY <1>1, <1>2, <1>3, <1>4 DEF IInv, BootInv

LEMMA NextStep ==
    ASSUME IInv, [Next]_vars
    PROVE  IInv'
<1>1. ASSUME NEW t \in Callers, Creating(t) PROVE IInv'
  BY <1>1, ClaimCreationStep, ChooseFolderStep, StartSessionStep, CreateSnapshotStep, ValidateRootStep,
     CreateWorkspaceStep, FailCreationStep, EscapeCreationStep, QueueInitialJobStep DEF Creating
<1>2. ASSUME NEW t \in Threads, Deleting(t) PROVE IInv'
  BY <1>2, BeginDeleteStep, DeletedAllStep, MarkDeletingStep, DeleteRunsStep, DeleteEvidenceStep,
     DeleteRowsStep, OwnedRootIdentityStep, QueueCleanupStep, RemoveOwnedTreeStep,
     CompleteCleanupStep, FailCleanupStep DEF Deleting
<1>3. ASSUME JobThread PROVE IInv'
  BY <1>3, StartJobStep, EndJobStep, FinishJobStep DEF JobThread
<1>4. ASSUME Starting PROVE IInv'
  BY <1>4, DiscoverOrphansStep, InterruptCreationsStep, RecoverCleanupStep, RecoverDeletingStep,
     RecoverJobsStep, RequeueStep DEF Starting
<1>5. ASSUME Rest PROVE IInv'
  BY <1>5, SameInv DEF Rest
<1>6. QED
  BY <1>1, <1>2, <1>3, <1>4, <1>5, SameInv, DeleteWorkspacesStep, RescanStep, SubmitRunStep,
     SettleRunStep, DieStep DEF Next

LEMMA InvSound == IInv => Sound
<1> SUFFICES ASSUME IInv PROVE Sound
  OBVIOUS
<1>1. Types
  BY DEF IInv, TypeInv, StoredTypes, MemoryTypes, Types, Requests
<1>2. OwnedKept
  BY DEF IInv, RowInv, RowOK, TreeInv, TreeOK, RecordInv, RecordOK, OwnedKept
<1>3. NothingLeft
  <2>1. ASSUME NEW k \in Keys
        PROVE  request[k].kind \in {"folder", "browser"} /\ RowOK(k) /\ TreeOK(k)
    BY DEF IInv, RowInv, TreeInv, TypeInv, StoredTypes, Requests, Kinds
  <2>2. ASSUME NEW k \in Keys, row[k] = "none"
        PROVE  /\ runs[k] = "none" /\ ~evidence[k]
               /\ tree[k] \cap Remnants # {} =>
                     request[k].kind = "browser" /\ request[k].state \in Recoverable
    BY <2>1, <2>2 DEF RowOK, TreeOK
  <2>3. ASSUME NEW k \in Keys, row[k] = "cleanup_pending"
        PROVE  RootRecords(k) # {} /\ runs[k] = "none" /\ ~evidence[k]
    BY <2>1, <2>3 DEF RowOK, Recorded, RootRecords
  <2>4. \A k \in Keys : row[k] # "none" => request[k].state = "completed"
    BY <2>1 DEF RowOK
  <2>5. QED BY <2>2, <2>3, <2>4 DEF NothingLeft
<1>4. BootCleans
  <2> SUFFICES ASSUME boot.pc = "requeue", boot.clean, NEW k \in Keys
               PROVE  \/ row[k] = "ready"
                      \/ row[k] = "none" /\ tree[k] \cap Remnants = {}
                      \/ \E r \in cleanup : r.key = k /\ ~r.known
    BY DEF BootCleans
  <2>1. row[k] # "deleting" /\ \A r \in cleanup : ~r.known
    BY DEF IInv, BootInv, DoneInv
  <2>2. CASE row[k] = "cleanup_pending"
    BY <2>1, <2>2 DEF IInv, RowInv, RowOK, Recorded
  <2>3. CASE row[k] = "none"
    BY <2>1, <2>3 DEF IInv, BootInv, FoundInv, Started
  <2>4. QED BY <2>1, <2>2, <2>3 DEF IInv, TypeInv, StoredTypes, RowStates
<1>5. QED BY <1>1, <1>2, <1>3, <1>4 DEF Sound

LEMMA InvHolds == Spec => []IInv
<1>1. IInv /\ [Next]_vars => IInv'
  BY NextStep
<1>2. QED BY InitInv, <1>1, PTL DEF Spec

(* Every variable keeps its type.                                          *)
THEOREM TypeCorrect == Spec => []Types
<1>1. IInv => Types
  BY InvSound DEF Sound
<1>2. QED BY InvHolds, <1>1, PTL

(* However calls, jobs, deletions and deaths of the Worker interleave, a   *)
(* workspace in use is whole, of any other there is nothing left but what  *)
(* the next start finds, and a start in which nothing fails cleans up      *)
(* (WorkspaceService, WorkspaceStore, BrowserIntakeWriter).                *)
THEOREM WorkspacesSound == Spec => []Sound
BY InvHolds, InvSound, PTL
=============================================================================
