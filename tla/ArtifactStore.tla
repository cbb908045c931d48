--------------------------- MODULE ArtifactStore ---------------------------
(* The evidence artifacts of one workspace: files below evidence/, and the *)
(* registry, an append-only log that is the authority on which file is     *)
(* ours.  A file is published through an intent, a temporary file and a    *)
(* journal; a workspace is deleted through a journal of its own.  Every    *)
(* call into the file system or the registry is a step, may fail before or *)
(* after its effect, and the Worker may die between any two.               *)
(*                                                                         *)
(* The names of temporaries, backups and quarantines are random in the     *)
(* code.  A workspace has one publication at a time, so one name of each   *)
(* kind is enough; NoLitter says that it is free when it is needed.        *)
EXTENDS Integers, FiniteSets

CONSTANTS Slots, Lasting, Contents, Tombstone, Nothing,
          MaxOps,      \* bound on the calls made
          MaxFaults,   \* bound on failing calls and deaths of the Worker
          MaxForeign   \* bound on files put there by somebody else

ASSUME ArtifactAssumption ==
    /\ Slots # {} /\ Lasting \subseteq Slots
    /\ Tombstone \in Contents
    /\ Nothing \notin Contents
    /\ MaxOps \in Nat /\ MaxFaults \in Nat /\ MaxForeign \in Nat

VARIABLES phase,      \* the workspace in the registry
          claims,     \* the artifacts in the registry
          pub,        \* the publication in the registry: intent, then journal
          items,      \* the delete journal in the registry
          files,      \* the files by name
          dir,        \* the evidence directory
          op,         \* the call in progress
          recovered,  \* a reservation found when the registry was opened
          asked, ops, faults, foreign

registry == <<phase, claims, pub, items>>
disk == <<files, dir>>
counters == <<ops, faults, foreign>>
vars == <<registry, disk, op, recovered, asked, counters>>

-----------------------------------------------------------------------------
(* A file or a claim is an identity with a content.  Identities are the    *)
(* numbers of the publications that created the files.                     *)

Partial == <<"partial">>
NoFile == [id |-> 0, content |-> Nothing]
Foreign == [id |-> MaxOps + 1, content |-> Nothing]
Artifact == [id : 1..MaxOps, content : Contents]
File == [id : 0..MaxOps + 1, content : Contents \union {Nothing, Partial}]

NameKinds == {"target", "temporary", "backup", "quarantine", "other"}
Names == NameKinds \X Slots
Target(s) == <<"target", s>>
Temporary(s) == <<"temporary", s>>
Backup(s) == <<"backup", s>>
Quarantine(s) == <<"quarantine", s>>

AnySlot == CHOOSE s \in Slots : TRUE
NoPub == [stage |-> "none", slot |-> AnySlot, id |-> 0, content |-> Nothing, old |-> NoFile]
NewClaim == [id |-> pub.id, content |-> pub.content]

NoOp == [kind |-> "none", slot |-> AnySlot, content |-> Nothing, id |-> 0,
         held |-> FALSE, pc |-> "idle"]

Pcs == {"idle", "ready", "mkdir", "finalize", "unreserve", "check", "reserve",
        "create", "claim", "write", "prepare", "backup", "advance", "install",
        "confirm", "commit", "clean", "clear", "discard", "undo",
        "layout", "items", "tree", "forget"}

Stages == {"none", "intent", "prepared", "backup", "installed", "committed"}

TypeOK ==
    /\ phase \in {"none", "reserved", "active", "deleting"}
    /\ claims \in [Slots -> Artifact \union {NoFile}]
    /\ pub \in [stage : Stages, slot : Slots, id : 0..MaxOps,
                content : Contents \union {Nothing}, old : Artifact \union {NoFile}]
    /\ items \in [Slots -> {"none", "planned", "named", "quarantined", "removed"}]
    /\ files \in [Names -> File]
    /\ dir \in {"absent", "present", "moved"}
    /\ op \in [kind : {"none", "publish", "read", "delete"}, slot : Slots,
               content : Contents \union {Nothing}, id : 0..MaxOps,
               held : BOOLEAN, pc : Pcs]
    /\ recovered \in BOOLEAN
    /\ asked \in [Slots -> SUBSET Contents]
    /\ ops \in 0..MaxOps /\ faults \in 0..MaxFaults /\ foreign \in 0..MaxForeign

Init ==
    /\ phase = "none"
    /\ claims = [s \in Slots |-> NoFile]
    /\ pub = NoPub
    /\ items = [s \in Slots |-> "none"]
    /\ files = [n \in Names |-> NoFile]
    /\ dir = "absent"
    /\ op = NoOp
    /\ recovered = FALSE
    /\ asked = [s \in Slots |-> {}]
    /\ ops = 0 /\ faults = 0 /\ foreign = 0

-----------------------------------------------------------------------------
(* Calls, their steps and their failures.                                  *)

At(pc) == op.pc = pc
Publishing == op.kind = "publish"
Clean == pub.stage = "none"

(* An exception while the tree is made retires the reservation; one after  *)
(* the intent was recorded closes the temporary file and recovers; any     *)
(* other one leaves the call.                                              *)
Raised ==
    CASE op.pc \in {"mkdir", "finalize"} -> [op EXCEPT !.pc = "unreserve"]
      [] op.pc \in {"create", "claim", "write", "prepare", "backup", "advance",
                    "install", "confirm", "commit", "clean", "clear"}
           -> [op EXCEPT !.pc = "discard"]
      [] op.pc = "discard" -> [op EXCEPT !.pc = "undo"]
      [] OTHER -> NoOp

Raise ==
    /\ op' = Raised
    /\ UNCHANGED <<registry, disk, recovered, asked, counters>>

(* The call has had its effect; it returns, or fails all the same.         *)
ThenOp(next) ==
    /\ \/ op' = next /\ UNCHANGED faults
       \/ faults < MaxFaults /\ faults' = faults + 1 /\ op' = Raised
    /\ UNCHANGED <<asked, ops, foreign>>

Then(pc) == ThenOp([op EXCEPT !.pc = pc])

(* The call fails without an effect.                                       *)
Fault ==
    /\ op.pc # "idle"
    /\ faults < MaxFaults
    /\ faults' = faults + 1
    /\ op' = Raised
    /\ UNCHANGED <<registry, disk, recovered, asked, ops, foreign>>

Return ==
    /\ op' = NoOp
    /\ UNCHANGED <<registry, disk, recovered, asked, counters>>

Goto(pc) ==
    /\ op' = [op EXCEPT !.pc = pc]
    /\ UNCHANGED <<registry, disk, recovered, asked, counters>>

(* The directory is the one the registry knows; a name is free for a       *)
(* rename that replaces nothing; the target is the file of the claim.      *)
Anchored == dir = "present"
Vacant(name) == files[name] = NoFile
Intact(s) == files[Target(s)] = claims[s]

Move(from, to) == files' = [files EXCEPT ![to] = files[from], ![from] = NoFile]
Delete(name) == files' = [files EXCEPT ![name] = NoFile]

-----------------------------------------------------------------------------
(* The start of a call: publish_part, publish_json, revoke_part and        *)
(* revoke_json publish a content, open_part and read_json read one.        *)

Ask(s, c) ==
    /\ At("idle") /\ ops < MaxOps
    /\ ops' = ops + 1
    /\ op' = [NoOp EXCEPT !.kind = "publish", !.slot = s, !.content = c, !.pc = "ready"]
    /\ asked' = [asked EXCEPT ![s] = @ \union {c}]
    /\ UNCHANGED <<registry, disk, recovered, faults, foreign>>

StartPublish(s) == \E c \in Contents \ {Tombstone} : Ask(s, c)
StartRevoke(s) == Ask(s, Tombstone)

StartOther(kind, s) ==
    /\ At("idle") /\ ops < MaxOps
    /\ ops' = ops + 1
    /\ op' = [NoOp EXCEPT !.kind = kind, !.slot = s, !.pc = "ready"]
    /\ UNCHANGED <<registry, disk, recovered, asked, faults, foreign>>

StartRead(s) == StartOther("read", s)
StartDelete == StartOther("delete", AnySlot)

-----------------------------------------------------------------------------
(* A reservation that an earlier Worker left is retired.  One of this      *)
(* Worker, whose own retirement failed, is not.                            *)
RetireRecovered ==
    /\ At("ready") /\ phase = "reserved"
    /\ IF recovered
       THEN /\ phase' = "none"
            /\ recovered' = FALSE
            /\ Then("ready")
            /\ UNCHANGED <<claims, pub, items, disk>>
       ELSE Raise

ReserveWorkspace ==
    /\ At("ready") /\ phase = "none" /\ Publishing
    /\ phase' = "reserved"
    /\ Then("mkdir")
    /\ UNCHANGED <<claims, pub, items, disk, recovered>>

(* An evidence directory that is not registered is never adopted, also not *)
(* the one that an unfinished bootstrap left.                              *)
NewTree ==
    /\ dir' = "present"
    /\ Then("finalize")
    /\ UNCHANGED <<registry, files, recovered>>

MakeTree ==
    /\ At("mkdir")
    /\ IF dir = "absent" THEN NewTree ELSE Raise

FinalizeWorkspace ==
    /\ At("finalize") /\ phase = "reserved"
    /\ phase' = "active"
    /\ recovered' = FALSE
    /\ Then("ready")
    /\ UNCHANGED <<claims, pub, items, disk>>

RetireReserved ==
    /\ At("unreserve")
    /\ phase' = IF phase = "reserved" THEN "none" ELSE phase
    /\ recovered' = FALSE
    /\ op' = NoOp
    /\ UNCHANGED <<claims, pub, items, disk, asked, counters>>

(* No workspace to read, a workspace that is being deleted, a directory    *)
(* that is gone.                                                           *)
Refuse ==
    /\ At("ready")
    /\ \/ phase = "none" /\ ~Publishing
       \/ phase = "deleting" /\ op.kind # "delete"
       \/ phase = "active" /\ dir # "present"
    /\ Return

-----------------------------------------------------------------------------
(* Recovery, at the start of every call and after a failed publication.    *)

RecoverAfterFailureOnly == At("undo") /\ phase = "active" /\ Anchored

Recovering ==
    /\ At("ready") \/ At("undo")
    /\ phase = "active" /\ Anchored

ClearIntent ==
    /\ pub' = NoPub
    /\ Then(op.pc)
    /\ UNCHANGED <<phase, claims, items, disk, recovered>>

ForgetIntent ==
    /\ Recovering /\ pub.stage = "intent"
    /\ ClearIntent

(* The temporary file of an intent is deleted by its identity, through the *)
(* backup name.  A file whose identity was not recorded yet is foreign.    *)
RecoverIntent ==
    LET temporary == files[Temporary(pub.slot)]
        backup == files[Backup(pub.slot)]
        Ours(f) == pub.id # 0 /\ f.id = pub.id
    IN
    /\ Recovering /\ pub.stage = "intent"
    /\ CASE (temporary # NoFile /\ ~Ours(temporary)) \/ (backup # NoFile /\ ~Ours(backup)) -> Raise
         [] Ours(temporary) /\ Ours(backup) -> Raise
         [] Ours(temporary) /\ backup = NoFile ->
              /\ Move(Temporary(pub.slot), Backup(pub.slot))
              /\ Then(op.pc)
              /\ UNCHANGED <<registry, dir, recovered>>
         [] temporary = NoFile /\ Ours(backup) ->
              /\ Delete(Backup(pub.slot))
              /\ Then(op.pc)
              /\ UNCHANGED <<registry, dir, recovered>>
         [] OTHER -> ClearIntent

AbortPublish ==
    /\ pub' = NoPub
    /\ Then(op.pc)
    /\ UNCHANGED <<phase, claims, items, disk, recovered>>

(* A publication that was not installed is taken back.                     *)
RollBack ==
    LET target == files[Target(pub.slot)]
        temporary == files[Temporary(pub.slot)]
        backup == files[Backup(pub.slot)]
        touch(change) == /\ change
                         /\ Then(op.pc)
                         /\ UNCHANGED <<registry, dir, recovered>>
    IN
    /\ Recovering /\ pub.stage \in {"prepared", "backup"}
    /\ IF \/ target \notin {NoFile, pub.old, NewClaim}
          \/ temporary \notin {NoFile, NewClaim}
          \/ backup \notin {NoFile, pub.old}
       THEN Raise
       ELSE CASE target = NewClaim -> touch(Delete(Target(pub.slot)))
              [] target # NewClaim /\ temporary = NewClaim -> touch(Delete(Temporary(pub.slot)))
              [] temporary = NoFile /\ target = pub.old /\ backup = NoFile -> AbortPublish
              [] temporary = NoFile /\ target = NoFile /\ pub.old # NoFile /\ backup = pub.old
                   -> touch(Move(Backup(pub.slot), Target(pub.slot)))
              [] OTHER -> Raise

(* A publication that was installed is finished.                           *)
RollForward ==
    LET target == files[Target(pub.slot)]
        temporary == files[Temporary(pub.slot)]
        backup == files[Backup(pub.slot)]
        touch(change) == /\ change
                         /\ Then(op.pc)
                         /\ UNCHANGED <<registry, dir, recovered>>
    IN
    /\ Recovering /\ pub.stage \in {"installed", "committed"}
    \* a temporary that is the installed file too would be a second link to it
    /\ CASE target # NewClaim \/ temporary # NoFile -> Raise
         [] pub.stage = "installed" /\ target = NewClaim /\ temporary = NoFile ->
              IF backup = pub.old
              THEN /\ claims' = [claims EXCEPT ![pub.slot] = NewClaim]
                   /\ pub' = [pub EXCEPT !.stage = "committed"]
                   /\ Then(op.pc)
                   /\ UNCHANGED <<phase, items, disk, recovered>>
              ELSE Raise
         [] pub.stage = "committed" /\ target = NewClaim /\ temporary = NoFile ->
              CASE backup = NoFile -> /\ pub' = NoPub
                                      /\ Then(op.pc)
                                      /\ UNCHANGED <<phase, claims, items, disk, recovered>>
                [] backup # NoFile /\ backup = pub.old -> touch(Delete(Backup(pub.slot)))
                [] OTHER -> Raise

(* Closing a temporary file that was not installed unlinks it.             *)
Discard ==
    /\ At("discard")
    /\ files' = IF op.held /\ files[Temporary(op.slot)].id = op.id
                THEN [files EXCEPT ![Temporary(op.slot)] = NoFile]
                ELSE files
    /\ op' = [op EXCEPT !.pc = "undo", !.held = FALSE]
    /\ UNCHANGED <<registry, dir, recovered, asked, counters>>

Undone ==
    /\ At("undo")
    /\ Clean \/ phase # "active" \/ dir # "present"
    /\ Return

-----------------------------------------------------------------------------
(* A publication or a read, once the workspace is ready.                   *)

Opened ==
    /\ At("ready") /\ op.kind # "delete"
    /\ phase = "active" /\ Anchored /\ Clean
    /\ Goto("check")

Check ==
    /\ At("check")
    /\ IF Publishing /\ Intact(op.slot)
       THEN Goto("reserve")
       ELSE Return

ReserveAnything ==
    /\ At("reserve")
    /\ IF ~Clean
       THEN Raise
       ELSE /\ pub' = [stage |-> "intent", slot |-> op.slot, id |-> 0,
                       content |-> op.content, old |-> claims[op.slot]]
            /\ Then("create")
            /\ UNCHANGED <<phase, claims, items, disk, recovered>>

ReservePublish ==
    /\ At("reserve")
    /\ IF \/ ~Clean
          \/ /\ op.slot \in Lasting
             /\ claims[op.slot].content = Tombstone
             /\ op.content # Tombstone
       THEN Raise
       ELSE /\ pub' = [stage |-> "intent", slot |-> op.slot, id |-> 0,
                       content |-> op.content, old |-> claims[op.slot]]
            /\ Then("create")
            /\ UNCHANGED <<phase, claims, items, disk, recovered>>

CreateTemporary ==
    /\ At("create")
    /\ IF Vacant(Temporary(op.slot))
       THEN /\ files' = [files EXCEPT ![Temporary(op.slot)] = [id |-> ops, content |-> Partial]]
            /\ ThenOp([op EXCEPT !.pc = "claim", !.id = ops, !.held = TRUE])
            /\ UNCHANGED <<registry, dir, recovered>>
       ELSE Raise

ClaimTemporary ==
    /\ At("claim")
    /\ pub' = [pub EXCEPT !.id = op.id]
    /\ Then("write")
    /\ UNCHANGED <<phase, claims, items, disk, recovered>>

WriteTemporary ==
    /\ At("write")
    /\ IF files[Temporary(op.slot)].id = op.id
       THEN /\ files' = [files EXCEPT ![Temporary(op.slot)].content = op.content]
            /\ Then("prepare")
            /\ UNCHANGED <<registry, dir, recovered>>
       ELSE Goto("prepare")    \* written through the descriptor, the name is another's

PreparePublish ==
    /\ At("prepare")
    /\ pub' = [pub EXCEPT !.stage = "prepared"]
    /\ Then("backup")
    /\ UNCHANGED <<phase, claims, items, disk, recovered>>

DeleteOld ==
    /\ At("backup")
    /\ Delete(Target(op.slot))
    /\ Then("advance")
    /\ UNCHANGED <<registry, dir, recovered>>

BackUp ==
    /\ At("backup")
    /\ CASE pub.old = NoFile -> Goto("advance")
         [] pub.old # NoFile /\ files[Target(op.slot)] = pub.old /\ Vacant(Backup(op.slot)) ->
              /\ Move(Target(op.slot), Backup(op.slot))
              /\ Then("advance")
              /\ UNCHANGED <<registry, dir, recovered>>
         [] OTHER -> Raise

AdvanceBackup ==
    /\ At("advance")
    /\ pub' = [pub EXCEPT !.stage = "backup"]
    /\ Then("install")
    /\ UNCHANGED <<phase, claims, items, disk, recovered>>

InstallOver ==
    /\ At("install")
    /\ IF files[Temporary(op.slot)] = NewClaim
       THEN /\ Move(Temporary(op.slot), Target(op.slot))
            /\ ThenOp([op EXCEPT !.pc = "confirm", !.held = FALSE])
            /\ UNCHANGED <<registry, dir, recovered>>
       ELSE Raise

(* The rename never replaces a file.  Once it is done the temporary file   *)
(* is released, unless flushing it fails.                                  *)
Install ==
    /\ At("install")
    /\ IF files[Temporary(op.slot)] = NewClaim /\ Vacant(Target(op.slot))
       THEN /\ Move(Temporary(op.slot), Target(op.slot))
            /\ ThenOp([op EXCEPT !.pc = "confirm", !.held = FALSE])
            /\ UNCHANGED <<registry, dir, recovered>>
       ELSE Raise

AdvanceInstalled ==
    /\ At("confirm")
    /\ IF files[Target(op.slot)] = NewClaim
       THEN /\ pub' = [pub EXCEPT !.stage = "installed"]
            /\ Then("commit")
            /\ UNCHANGED <<phase, claims, items, disk, recovered>>
       ELSE Raise

CommitPublish ==
    /\ At("commit")
    /\ claims' = [claims EXCEPT ![pub.slot] = NewClaim]
    /\ pub' = [pub EXCEPT !.stage = "committed"]
    /\ Then("clean")
    /\ UNCHANGED <<phase, items, disk, recovered>>

CleanBackup ==
    /\ At("clean")
    /\ CASE pub.old = NoFile -> Goto("clear")
         [] pub.old # NoFile /\ files[Backup(op.slot)] = pub.old ->
              /\ Delete(Backup(op.slot))
              /\ Then("clear")
              /\ UNCHANGED <<registry, dir, recovered>>
         [] OTHER -> Raise

ClearPublish ==
    /\ At("clear")
    /\ pub' = NoPub
    /\ ThenOp(NoOp)
    /\ UNCHANGED <<phase, claims, items, disk, recovered>>

-----------------------------------------------------------------------------
(* delete_workspace.                                                       *)

Deleting == op.kind = "delete"

Begun == [s \in Slots |-> IF claims[s] = NoFile THEN "none" ELSE "planned"]

BeginDeleteAnyway ==
    /\ At("ready") /\ Deleting /\ phase = "active" /\ dir = "present"
    /\ phase' = "deleting"
    /\ items' = Begun
    /\ Then("layout")
    /\ UNCHANGED <<claims, pub, disk, recovered>>

BeginDelete ==
    /\ At("ready") /\ Deleting /\ phase = "active" /\ Clean
    /\ dir = "present"
    /\ phase' = "deleting"
    /\ items' = Begun
    /\ Then("layout")
    /\ UNCHANGED <<claims, pub, disk, recovered>>

ResumeDelete ==
    /\ At("ready") /\ Deleting /\ phase = "deleting"
    /\ Goto("layout")

Unfinished == {s \in Slots : items[s] \notin {"none", "removed"}}

(* Every name is that of a file that is still to be removed, and holds it. *)
LayoutKnown ==
    /\ \A n \in Names : files[n] # NoFile =>
          \/ n[1] = "target" /\ items[n[2]] \in {"planned", "named"}
          \/ n[1] = "quarantine" /\ items[n[2]] \in {"named", "quarantined"}
    /\ \A s \in Slots :
          /\ items[s] \in {"planned", "named"} => files[Target(s)] \in {NoFile, claims[s]}
          /\ items[s] \in {"named", "quarantined"} => files[Quarantine(s)] \in {NoFile, claims[s]}

InspectLayout ==
    /\ At("layout")
    /\ CASE Unfinished = {} -> Goto("tree")
         [] Unfinished # {} /\ dir = "present" /\ LayoutKnown -> Goto("items")
         [] OTHER -> Return

Itemise(s, state) ==
    /\ items' = [items EXCEPT ![s] = state]
    /\ Then("items")
    /\ UNCHANGED <<phase, claims, pub, disk, recovered>>

(* One file after the other, each through a name of its own that is        *)
(* recorded before the file is moved to it.                                *)
PlanItem(s) ==
    /\ At("items") /\ items[s] = "planned"
    /\ Itemise(s, "named")

QuarantineItem(s) ==
    /\ At("items") /\ items[s] = "named"
    /\ CASE Intact(s) /\ Vacant(Quarantine(s)) ->
              /\ Move(Target(s), Quarantine(s))
              /\ Then("items")
              /\ UNCHANGED <<registry, dir, recovered>>
         [] files[Target(s)] = NoFile /\ files[Quarantine(s)] = claims[s] /\ LayoutKnown ->
              Itemise(s, "quarantined")
         [] OTHER -> Return

RemoveItem(s) ==
    /\ At("items") /\ items[s] = "quarantined"
    /\ CASE ~LayoutKnown \/ files[Target(s)] # NoFile -> Return
         [] LayoutKnown /\ files[Target(s)] = NoFile /\ files[Quarantine(s)] # NoFile ->
              /\ Delete(Quarantine(s))
              /\ Then("items")
              /\ UNCHANGED <<registry, dir, recovered>>
         [] OTHER -> Itemise(s, "removed")

ItemsRemoved ==
    /\ At("items") /\ Unfinished = {}
    /\ Goto("tree")

(* The empty directory is moved to a name bound to its identity and stays  *)
(* there.                                                                  *)
EmptyTree == \A n \in Names : Vacant(n)

MoveTree ==
    /\ dir' = "moved"
    /\ Then("forget")
    /\ UNCHANGED <<registry, files, recovered>>

QuarantineTree ==
    /\ At("tree")
    /\ CASE dir = "absent" \/ ~EmptyTree -> Return
         [] dir = "present" /\ EmptyTree -> MoveTree
         [] OTHER -> Goto("forget")

ClearDeleted ==
    /\ At("forget")
    /\ phase' = "none"
    /\ claims' = [s \in Slots |-> NoFile]
    /\ items' = [s \in Slots |-> "none"]
    /\ dir' = "absent"
    /\ ThenOp(NoOp)
    /\ UNCHANGED <<pub, files, recovered>>

-----------------------------------------------------------------------------
(* The Worker dies; the next one opens the registry.  Somebody else puts a *)
(* file into the directory, over one of ours or at a free name.            *)

Die ==
    /\ faults < MaxFaults
    /\ faults' = faults + 1
    /\ op' = NoOp
    /\ recovered' = (phase = "reserved")
    /\ UNCHANGED <<registry, disk, asked, ops, foreign>>

Meddle(n) ==
    /\ dir = "present" /\ foreign < MaxForeign
    /\ foreign' = foreign + 1
    /\ files' = [files EXCEPT ![n] = Foreign]
    /\ UNCHANGED <<registry, dir, op, recovered, asked, ops, faults>>

Steps ==
    \/ RetireRecovered \/ ReserveWorkspace \/ MakeTree \/ FinalizeWorkspace
    \/ RetireReserved \/ Refuse
    \/ RecoverIntent \/ RollBack \/ RollForward \/ Discard \/ Undone
    \/ Opened \/ Check \/ ReservePublish \/ CreateTemporary \/ ClaimTemporary
    \/ WriteTemporary \/ PreparePublish \/ BackUp \/ AdvanceBackup \/ Install
    \/ AdvanceInstalled \/ CommitPublish \/ CleanBackup \/ ClearPublish
    \/ BeginDelete \/ ResumeDelete \/ InspectLayout \/ ItemsRemoved
    \/ \E s \in Slots : PlanItem(s) \/ QuarantineItem(s) \/ RemoveItem(s)
    \/ QuarantineTree \/ ClearDeleted

Next ==
    \/ \E s \in Slots : StartPublish(s) \/ StartRevoke(s) \/ StartRead(s)
    \/ StartDelete
    \/ Steps
    \/ Fault \/ Die
    \/ \E n \in Names : Meddle(n)

(* A call that was begun goes on: it runs in one thread.                   *)
Spec == Init /\ [][Next]_vars /\ WF_vars(Steps)

-----------------------------------------------------------------------------
(* What _validate_state asks of a state before it is appended, and of every *)
(* record when the registry is opened: one record that fails makes the     *)
(* whole registry unreadable for good.                                     *)
AcceptedPublication ==
    /\ pub.stage \in {"intent", "prepared", "backup", "installed"} => claims[pub.slot] = pub.old
    /\ pub.stage = "committed" => claims[pub.slot] = NewClaim
    /\ pub.stage \notin {"none", "intent"} => pub.id # 0

Accepted ==
    LET claimed == {s \in Slots : claims[s] # NoFile}
        journal == {s \in Slots : items[s] # "none"}
    IN
    /\ phase \in {"none", "reserved"} => claimed = {} /\ journal = {} /\ Clean
    /\ phase = "active" => journal = {}
    /\ phase = "deleting" => Clean /\ journal = claimed
    /\ \A s \in claimed : claims[s].id # 0 /\ claims[s].content \in Contents
    /\ AcceptedPublication

(* Every state that the registry writes is one that it reads back.         *)
RegistryLoads == TypeOK /\ Accepted

(* What a reader finds once the publication in the journal is recovered.   *)
Value ==
    [s \in Slots |->
        CASE phase # "active" -> Nothing
          [] phase = "active" /\ pub.stage \in {"installed", "committed"} /\ pub.slot = s
               -> pub.content
          [] OTHER -> claims[s].content]

(* The store keeps the promise of ArtifactSlots: files, journal and        *)
(* recovery amount to slots that change in one step, only to what was      *)
(* asked for, and for good where a snapshot was revoked.                   *)
Promise == INSTANCE ArtifactSlots WITH value <- Value
KeepsPromise == Promise!SlotsSpec

(* No failure and no death of the Worker loses an artifact: while nobody   *)
(* else touches the directory, the file of every claim is under its name   *)
(* or under the backup name of the publication that is about to replace    *)
(* it, with its whole content.                                             *)
NothingLost ==
    foreign = 0 /\ phase = "active" =>
        \A s \in Slots : claims[s] # NoFile =>
            \/ files[Target(s)] = claims[s]
            \/ /\ pub.slot = s /\ pub.old = claims[s]
               /\ pub.stage \in {"prepared", "backup", "installed"}
               /\ files[Backup(s)] = claims[s]

(* Every file of ours is one the registry accounts for, so that recovery   *)
(* or deletion can find it: nothing is left under a temporary, backup or   *)
(* quarantine name, and nothing stays when the workspace is gone.          *)
NoLitter ==
    \A n \in Names : files[n] \notin {NoFile, Foreign} =>
        LET s == n[2] IN
        \/ n[1] = "target" /\ files[n] = claims[s]
        \/ n[1] \in {"target", "temporary", "backup"} /\ pub.stage # "none" /\ pub.slot = s
        \/ n[1] = "quarantine" /\ items[s] \in {"named", "quarantined"}

(* A file of somebody else is never removed, renamed or written over.      *)
ForeignKept ==
    [][\A n \in Names : files[n] = Foreign => files'[n] = Foreign]_vars

(* The two leftovers that recovery does not take up, because it cannot     *)
(* tell them from files of somebody else: a temporary file whose identity  *)
(* was not recorded, and an evidence directory that was not finalized.     *)
Uncertain ==
    \/ pub.stage = "intent" /\ pub.id = 0 /\ files[Temporary(pub.slot)] # NoFile
    \/ phase \in {"none", "reserved"} /\ dir = "present"
    \/ phase = "reserved" /\ ~recovered

(* Whatever failed before, and wherever the Worker died, a deletion that   *)
(* runs without failures and alone comes to its end, except after those      *)
(* leftovers.                                                              *)
DeletionEnds ==
    (/\ faults = MaxFaults /\ foreign = 0 /\ ~Uncertain
     /\ Deleting /\ At("ready"))
    ~> (foreign # 0 \/ (phase = "none" /\ \A n \in Names : files[n] = NoFile))
=============================================================================
