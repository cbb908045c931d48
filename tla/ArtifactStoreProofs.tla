-------------------------- MODULE ArtifactStoreProofs --------------------------
(***************************************************************************)
(* Theorems of ArtifactStore for any slots and contents, any number of     *)
(* calls, of failing calls and deaths of the Worker, and of foreign files. *)
(***************************************************************************)
EXTENDS ArtifactStore, TLAPS

(***************************************************************************)
(* The call in progress and the registry: what the position of a call says *)
(* of the phase and of the publication, and where a content comes from.    *)
(***************************************************************************)
Calls == [kind : {"none", "publish", "read", "delete"}, slot : Slots,
          content : Contents \union {Nothing}, id : 0..MaxOps,
          held : BOOLEAN, pc : Pcs]

Undoing == {"discard", "undo"}
BeforeClaim == {"create", "claim"}
Filling == {"write", "prepare"}
Replacing == {"backup", "advance"}
Installing == {"install", "confirm"}
Finishing == {"clean", "clear"}
Working == BeforeClaim \union Filling \union Replacing \union Installing
               \union Finishing \union {"commit"}

CallKind ==
    /\ op.pc = "idle" <=> op.kind = "none"
    /\ op.kind = "publish" => op.content \in asked[op.slot]
    /\ op.pc \in {"mkdir", "finalize", "unreserve", "reserve"} \union Undoing \union Working
          => op.kind = "publish"
    /\ op.pc # "idle" => ops # 0
    /\ op.pc \in {"claim"} \union Filling => op.id # 0

CallPhase ==
    /\ op.pc \in {"mkdir", "finalize"} => phase = "reserved"
    /\ op.pc \in {"check", "reserve"} => phase = "active" /\ Clean
    /\ op.pc \in Undoing \union Working => phase = "active"
    /\ op.pc \in {"layout", "items", "tree", "forget"} => phase = "deleting"

CallStage ==
    /\ op.pc \in Working => pub.slot = op.slot /\ pub.content = op.content
    /\ op.pc \in BeforeClaim => pub.stage = "intent" /\ pub.id = 0
    /\ op.pc \in Filling => pub.stage = "intent" /\ pub.id = op.id
    /\ op.pc \in Replacing => pub.stage = "prepared"
    /\ op.pc \in Installing => pub.stage = "backup"
    /\ op.pc = "commit" => pub.stage = "installed"
    /\ op.pc \in Finishing => pub.stage = "committed"

PublicationAsked ==
    pub.stage # "none" =>
        /\ pub.content \in asked[pub.slot]
        /\ pub.slot \in Lasting /\ pub.old.content = Tombstone => pub.content = Tombstone

RegInv ==
    /\ TypeOK /\ Accepted
    /\ CallKind /\ CallPhase /\ CallStage
    /\ PublicationAsked

(***************************************************************************)
(* The files.  The identity of a publication is new, and whatever is under *)
(* one of its names is its own, the replaced file, or somebody else's.     *)
(***************************************************************************)
NotOurs(n) == files[n] \in {NoFile, Foreign}

Fresh ==
    /\ \A s \in Slots : claims[s].id <= ops
    /\ pub.id <= ops
    /\ op.id <= ops
    /\ op.pc \in {"mkdir", "finalize", "ready", "check", "reserve", "create"} =>
          /\ \A s \in Slots : claims[s].id < ops
          /\ pub.stage # "none" => pub.id < ops
    /\ op.pc \in {"claim"} \union Filling => claims[op.slot].id # op.id
    /\ pub.stage \in {"intent", "prepared", "backup", "installed"} /\ pub.id # 0
          => claims[pub.slot].id # pub.id

NamesFit ==
    /\ pub.stage = "intent" => files[Target(pub.slot)] \in {NoFile, Foreign, claims[pub.slot]}
    /\ op.pc \in BeforeClaim \union Filling \union {"backup"} => NotOurs(Backup(op.slot))
    /\ op.pc \in {"advance", "install", "confirm", "commit", "clean"}
          => files[Backup(op.slot)] \in {NoFile, Foreign, pub.old}
    /\ op.pc = "clear" => NotOurs(Backup(op.slot))
    /\ op.pc \in {"confirm", "commit", "clean", "clear"} => NotOurs(Temporary(op.slot))
    /\ op.pc \in {"commit", "clean", "clear"} => files[Target(op.slot)] \in {NewClaim, Foreign}

TreeFits ==
    /\ dir # "present" => EmptyTree
    /\ dir = "moved" => phase = "deleting"
    /\ op.pc = "forget" => dir = "moved"
    /\ op.pc = "finalize" \/ phase = "active" => dir = "present"

ForeignCounted == foreign = 0 => \A n \in Names : files[n] # Foreign

FileInv ==
    /\ Fresh /\ NamesFit /\ TreeFits /\ ForeignCounted
    /\ NothingLost /\ NoLitter

(* How a call moves and the sets of its positions are expanded in every     *)
(* proof.                                                                  *)
USE DEF At, Then, ThenOp, Raise, Goto, Return, registry, disk, counters, Publishing, Clean,
        Anchored, Undoing, Working, BeforeClaim, Filling, Replacing, Installing, Finishing


LEMMA Basics ==
    /\ NoOp \in Calls /\ AnySlot \in Slots
    /\ NoFile \in File /\ Foreign \in File /\ NoFile # Foreign
    /\ NoPub \in [stage : Stages, slot : Slots, id : 0..MaxOps,
                  content : Contents \union {Nothing}, old : Artifact \union {NoFile}]
    /\ NoFile \notin Artifact /\ Foreign \notin Artifact \union {NoFile}
    /\ Artifact \subseteq File
BY ArtifactAssumption DEF NoOp, AnySlot, NoFile, Foreign, NoPub, Calls, File, Artifact, Stages, Pcs

LEMMA RaisedCall ==
    ASSUME TypeOK, CallKind
    PROVE  /\ Raised \in Calls
           /\ \/ Raised = NoOp
              \/ /\ op.pc \in {"mkdir", "finalize"}
                 /\ Raised = [op EXCEPT !.pc = "unreserve"]
              \/ /\ op.pc \in Working \union {"discard"}
                 /\ \E pc \in Undoing : Raised = [op EXCEPT !.pc = pc]
<1>1. op \in Calls
  BY DEF TypeOK, Calls
<1>2. CASE op.pc \in {"mkdir", "finalize"}
  BY <1>1, <1>2 DEF Raised, Calls, Pcs
<1>3. CASE op.pc \in Working
  BY <1>1, <1>3 DEF Raised, Calls, Pcs, Undoing, Working, BeforeClaim, Filling, Replacing,
     Installing, Finishing
<1>4. CASE op.pc = "discard"
  BY <1>1, <1>4 DEF Raised, Calls, Pcs, Undoing
<1>5. CASE op.pc \notin {"mkdir", "finalize", "discard"} \union Working
  <2>1. Raised = NoOp
    BY <1>5 DEF Raised, Working, BeforeClaim, Filling, Replacing, Installing, Finishing
  <2>2. QED BY <2>1, Basics
<1>6. QED BY <1>2, <1>3, <1>4, <1>5

LEMMA RaisedFits ==
    ASSUME RegInv, op' = Raised, UNCHANGED <<asked, ops>>,
           op.pc \in Working \union {"discard"} => phase' = phase
    PROVE  op' \in Calls /\ CallKind' /\ CallPhase' /\ CallStage'
<1>1. TypeOK /\ CallKind /\ CallPhase
  BY DEF RegInv
<1>2. CASE Raised = NoOp
  BY <1>1, <1>2, Basics DEF NoOp, CallKind, CallPhase, CallStage, Undoing, Working, BeforeClaim,
     Filling, Replacing, Installing, Finishing
<1>3. CASE op.pc \in {"mkdir", "finalize"} /\ Raised = [op EXCEPT !.pc = "unreserve"]
  BY <1>1, <1>3, RaisedCall DEF Calls, TypeOK, CallKind, CallPhase, CallStage
<1>4. ASSUME op.pc \in Working \union {"discard"},
             NEW pc \in Undoing, Raised = [op EXCEPT !.pc = pc]
      PROVE  CallKind' /\ CallPhase' /\ CallStage'
  BY <1>1, <1>4, RaisedCall DEF Calls, TypeOK, CallKind, CallPhase, CallStage
<1>5. QED BY <1>1, <1>2, <1>3, <1>4, RaisedCall

LEMMA RaisedPc ==
    ASSUME RegInv
    PROVE  /\ Raised.pc \in {"idle", "unreserve"} \union Undoing
           /\ Raised.id \in {0, op.id}
<1>1. TypeOK /\ CallKind
  BY DEF RegInv
<1>2. op \in Calls
  BY <1>1 DEF TypeOK, Calls
<1>3. QED BY <1>1, <1>2, RaisedCall DEF Calls, NoOp

LEMMA NamesDiffer ==
    \A s \in Slots :
        /\ Target(s) \in Names /\ Temporary(s) \in Names
        /\ Backup(s) \in Names /\ Quarantine(s) \in Names
        /\ \A t \in Slots :
              /\ Target(s) \notin {Temporary(t), Backup(t), Quarantine(t)}
              /\ Temporary(s) \notin {Backup(t), Quarantine(t)}
              /\ Backup(s) # Quarantine(t)
              /\ s # t => /\ Target(s) # Target(t) /\ Temporary(s) # Temporary(t)
                          /\ Backup(s) # Backup(t) /\ Quarantine(s) # Quarantine(t)
BY DEF Names, NameKinds, Target, Temporary, Backup, Quarantine

(***************************************************************************)
(* What the recovery of a publication amounts to.  An installed one is     *)
(* committed, a committed one loses its backup and is cleared.             *)
(***************************************************************************)
Commits ==
    /\ pub.stage = "installed" /\ files[Target(pub.slot)] = NewClaim
    /\ claims' = [claims EXCEPT ![pub.slot] = NewClaim]
    /\ pub' = [pub EXCEPT !.stage = "committed"]
    /\ files' = files

Clears ==
    /\ pub.stage = "committed" /\ files[Target(pub.slot)] = NewClaim
    /\ files[Temporary(pub.slot)] = NoFile /\ files[Backup(pub.slot)] = NoFile
    /\ pub' = NoPub
    /\ UNCHANGED <<claims, files>>

Cleans ==
    /\ pub.stage = "committed" /\ files[Backup(pub.slot)] = pub.old
    /\ files' = [files EXCEPT ![Backup(pub.slot)] = NoFile]
    /\ UNCHANGED <<claims, pub>>

LEMMA RecoverIntentEffect ==
    ASSUME RegInv, RecoverIntent
    PROVE  /\ pub.stage = "intent" /\ phase = "active" /\ pub.slot \in Slots
           /\ UNCHANGED <<phase, claims, items, dir, ops, foreign>>
           /\ op' = Raised \/ op' = op
           /\ \/ pub' = pub /\ files' = files
              \/ pub' = pub /\ files' = [files EXCEPT ![Backup(pub.slot)] = files[Temporary(pub.slot)],
                                         ![Temporary(pub.slot)] = NoFile]
              \/ pub' = pub /\ files' = [files EXCEPT ![Backup(pub.slot)] = NoFile]
              \/ pub' = NoPub /\ files' = files
                 /\ files[Temporary(pub.slot)] = NoFile /\ files[Backup(pub.slot)] = NoFile
<1>1. op \in Calls /\ pub.slot \in Slots
  BY DEF RegInv, TypeOK, Calls
<1>2. [op EXCEPT !.pc = op.pc] = op
  BY <1>1 DEF Calls
<1>3. QED BY <1>1, <1>2 DEF RecoverIntent, ClearIntent, Move, Delete, Recovering

LEMMA RollForwardEffect ==
    ASSUME RegInv, RollForward
    PROVE  /\ pub.stage \in {"installed", "committed"} /\ phase = "active" /\ pub.slot \in Slots
           /\ op.pc \in {"ready", "undo"} /\ pub.id \in 1..MaxOps /\ pub.content \in Contents
           /\ UNCHANGED <<phase, items, dir, recovered, asked, ops, foreign>>
           /\ op' = op \/ op' = Raised
           /\ faults' = faults \/ (faults < MaxFaults /\ faults' = faults + 1)
           /\ (op' = Raised /\ UNCHANGED <<claims, pub, files>>) \/ Commits \/ Clears \/ Cleans
<1>1. /\ pub.stage \in {"installed", "committed"} /\ phase = "active" /\ pub.slot \in Slots
      /\ op.pc \in {"ready", "undo"} /\ pub.id \in 1..MaxOps /\ pub.content \in Contents
  BY ArtifactAssumption DEF RollForward, Recovering, RegInv, TypeOK, Accepted, AcceptedPublication,
     PublicationAsked
<1>2. CASE Raise
  BY <1>1, <1>2
<1>3. CASE ~Raise
  <2>1. op \in Calls /\ [op EXCEPT !.pc = op.pc] = op
    BY DEF RegInv, TypeOK, Calls
  <2>2. files[Target(pub.slot)] = NewClaim /\ files[Temporary(pub.slot)] = NoFile
    BY <1>3 DEF RollForward
  <2>3. CASE pub.stage = "installed"
    BY <1>1, <1>3, <2>1, <2>2, <2>3 DEF RollForward, Commits
  <2>4. CASE pub.stage = "committed"
    BY <1>1, <1>3, <2>1, <2>2, <2>4 DEF RollForward, Delete, Clears, Cleans
  <2>5. QED BY <1>1, <2>3, <2>4
<1>4. QED BY <1>2, <1>3

(***************************************************************************)
(* The registry, one action after the other.                               *)
(***************************************************************************)

LEMMA SameRegistry ==
    ASSUME RegInv, UNCHANGED <<registry, asked>>
    PROVE  Accepted' /\ PublicationAsked'
BY DEF RegInv, Accepted, AcceptedPublication, NewClaim, PublicationAsked

LEMMA RegistryRetireRecovered ==
    ASSUME RegInv, RetireRecovered
    PROVE  RegInv'
<1>1. op' \in Calls /\ CallKind' /\ CallPhase' /\ CallStage'
  <2>1. CASE op' = Raised
    BY <2>1, RaisedFits DEF RetireRecovered
  <2>2. CASE op' # Raised
    BY <2>2 DEF RetireRecovered, RegInv, TypeOK, Calls, Pcs, CallKind, CallPhase, CallStage
  <2>3. QED BY <2>1, <2>2
<1>2. TypeOK'
  <2>1. phase' \in {"none", "reserved", "active", "deleting"}
    BY DEF RetireRecovered, RegInv, TypeOK
  <2>2. recovered' \in BOOLEAN
    BY DEF RetireRecovered, RegInv, TypeOK
  <2>3. faults' \in 0..MaxFaults
    BY ArtifactAssumption DEF RetireRecovered, RegInv, TypeOK
  <2>4. UNCHANGED <<claims, pub, items, files, dir, asked, ops, foreign>>
    BY DEF RetireRecovered
  <2>5. QED BY <1>1, <2>1, <2>2, <2>3, <2>4 DEF RegInv, TypeOK, Calls
<1>3. Accepted'
  BY DEF RetireRecovered, RegInv, Accepted, AcceptedPublication
<1>4. PublicationAsked'
  BY DEF RetireRecovered, RegInv, PublicationAsked
<1>5. QED BY <1>1, <1>2, <1>3, <1>4 DEF RegInv

LEMMA RegistryReserveWorkspace ==
    ASSUME RegInv, ReserveWorkspace
    PROVE  RegInv'
<1>1. op' \in Calls /\ CallKind' /\ CallPhase' /\ CallStage'
  <2>1. CASE op' = Raised
    BY <2>1, RaisedFits DEF ReserveWorkspace
  <2>2. CASE op' # Raised
    BY <2>2 DEF ReserveWorkspace, RegInv, TypeOK, Calls, Pcs, CallKind, CallPhase, CallStage
  <2>3. QED BY <2>1, <2>2
<1>2. TypeOK'
  BY <1>1, Basics, ArtifactAssumption DEF ReserveWorkspace, RegInv, TypeOK, Calls
<1>3. Accepted'
  BY DEF ReserveWorkspace, RegInv, Accepted, AcceptedPublication
<1>4. PublicationAsked'
  BY DEF ReserveWorkspace, RegInv, PublicationAsked
<1>5. QED BY <1>1, <1>2, <1>3, <1>4 DEF RegInv

LEMMA RegistryMakeTree ==
    ASSUME RegInv, MakeTree
    PROVE  RegInv'
<1>1. op' \in Calls /\ CallKind' /\ CallPhase' /\ CallStage'
  <2>1. CASE op' = Raised
    BY <2>1, RaisedFits DEF MakeTree, NewTree
  <2>2. CASE op' # Raised
    BY <2>2 DEF MakeTree, NewTree, RegInv, TypeOK, Calls, Pcs, CallKind, CallPhase,
       CallStage
  <2>3. QED BY <2>1, <2>2
<1>2. TypeOK'
  BY <1>1, Basics, ArtifactAssumption DEF MakeTree, NewTree, RegInv, TypeOK, Calls
<1>3. Accepted' /\ PublicationAsked'
  BY SameRegistry DEF MakeTree, NewTree
<1>4. QED BY <1>1, <1>2, <1>3 DEF RegInv

LEMMA RegistryFinalizeWorkspace ==
    ASSUME RegInv, FinalizeWorkspace
    PROVE  RegInv'
<1>1. op' \in Calls /\ CallKind' /\ CallPhase' /\ CallStage'
  <2>1. CASE op' = Raised
    BY <2>1, RaisedFits DEF FinalizeWorkspace
  <2>2. CASE op' # Raised
    BY <2>2 DEF FinalizeWorkspace, RegInv, TypeOK, Calls, Pcs, CallKind, CallPhase,
       CallStage
  <2>3. QED BY <2>1, <2>2
<1>2. TypeOK'
  <2>1. phase' \in {"none", "reserved", "active", "deleting"}
    BY DEF FinalizeWorkspace, RegInv, TypeOK
  <2>2. recovered' \in BOOLEAN
    BY DEF FinalizeWorkspace, RegInv, TypeOK
  <2>3. faults' \in 0..MaxFaults
    BY ArtifactAssumption DEF FinalizeWorkspace, RegInv, TypeOK
  <2>4. UNCHANGED <<claims, pub, items, files, dir, asked, ops, foreign>>
    BY DEF FinalizeWorkspace
  <2>5. QED BY <1>1, <2>1, <2>2, <2>3, <2>4 DEF RegInv, TypeOK, Calls
<1>3. Accepted'
  BY DEF FinalizeWorkspace, RegInv, Accepted, AcceptedPublication
<1>4. PublicationAsked'
  BY DEF FinalizeWorkspace, RegInv, PublicationAsked
<1>5. QED BY <1>1, <1>2, <1>3, <1>4 DEF RegInv

LEMMA RegistryRetireReserved ==
    ASSUME RegInv, RetireReserved
    PROVE  RegInv'
<1>1. op' \in Calls /\ CallKind' /\ CallPhase' /\ CallStage'
  <2>1. CASE op' = Raised
    BY <2>1, RaisedFits DEF RetireReserved
  <2>2. CASE op' # Raised
    BY <2>2, Basics, ArtifactAssumption DEF RetireReserved, RegInv, TypeOK, Calls, Pcs,
       NoOp, CallKind, CallPhase, CallStage
  <2>3. QED BY <2>1, <2>2
<1>2. TypeOK'
  BY <1>1 DEF RetireReserved, RegInv, TypeOK, Calls
<1>3. Accepted'
  BY Basics, ArtifactAssumption DEF RetireReserved, RegInv, TypeOK, Accepted,
     AcceptedPublication, CallKind, CallPhase, CallStage, NoPub, NewClaim, Artifact
<1>4. PublicationAsked'
  BY DEF RetireReserved, RegInv, PublicationAsked
<1>5. QED BY <1>1, <1>2, <1>3, <1>4 DEF RegInv

LEMMA RegistryRefuse ==
    ASSUME RegInv, Refuse
    PROVE  RegInv'
<1>1. op' \in Calls /\ CallKind' /\ CallPhase' /\ CallStage'
  <2>1. CASE op' = Raised
    BY <2>1, RaisedFits DEF Refuse
  <2>2. CASE op' # Raised
    BY <2>2, Basics, ArtifactAssumption DEF Refuse, RegInv, TypeOK, Calls, Pcs, NoOp,
       CallKind, CallPhase, CallStage
  <2>3. QED BY <2>1, <2>2
<1>2. TypeOK'
  BY <1>1 DEF Refuse, RegInv, TypeOK, Calls
<1>3. Accepted' /\ PublicationAsked'
  BY SameRegistry DEF Refuse
<1>4. QED BY <1>1, <1>2, <1>3 DEF RegInv

LEMMA RegistryRecoverIntent ==
    ASSUME RegInv, RecoverIntent
    PROVE  RegInv'
<1>1. op' \in Calls /\ CallKind' /\ CallPhase' /\ CallStage'
  <2>1. CASE op' = Raised
    BY <2>1, RaisedFits DEF RecoverIntent, ClearIntent, Move, Delete, Recovering
  <2>2. CASE op' # Raised
    BY <2>2 DEF RecoverIntent, ClearIntent, Move, Delete, Recovering, RegInv, TypeOK, Calls,
       Pcs, CallKind, CallPhase, CallStage
  <2>3. QED BY <2>1, <2>2
<1>2. TypeOK'
  <2>1. faults' \in 0..MaxFaults
    BY ArtifactAssumption DEF RecoverIntent, ClearIntent, RegInv, TypeOK
  <2>2. recovered' = recovered /\ asked' = asked /\ files' \in [Names -> File]
    BY RecoverIntentEffect, Basics, NamesDiffer DEF RecoverIntent, ClearIntent, RegInv, TypeOK
  <2>3. QED BY <1>1, <2>1, <2>2, RecoverIntentEffect, Basics DEF RegInv, TypeOK, Calls
<1>3. Accepted'
  BY Basics, ArtifactAssumption DEF RecoverIntent, ClearIntent, Move, Delete, Recovering,
     RegInv, TypeOK, Accepted, AcceptedPublication, CallKind, CallPhase, CallStage, NoPub,
     NewClaim, Artifact
<1>4. PublicationAsked'
  BY DEF RecoverIntent, ClearIntent, Move, Delete, Recovering, RegInv, TypeOK,
     PublicationAsked, CallStage, NoPub
<1>5. QED BY <1>1, <1>2, <1>3, <1>4 DEF RegInv

LEMMA RegistryRollBack ==
    ASSUME RegInv, RollBack
    PROVE  RegInv'
<1>1. op' \in Calls /\ CallKind' /\ CallPhase' /\ CallStage'
  <2>1. CASE op' = Raised
    BY <2>1, RaisedFits DEF RollBack, AbortPublish, Move, Delete, Recovering
  <2>2. CASE op' # Raised
    BY <2>2 DEF RollBack, AbortPublish, Move, Delete, Recovering, RegInv, TypeOK, Calls,
       Pcs, CallKind, CallPhase, CallStage
  <2>3. QED BY <2>1, <2>2
<1>2. TypeOK'
  BY <1>1, Basics, ArtifactAssumption DEF RollBack, AbortPublish, Move, Delete, Recovering,
     RegInv, TypeOK, Calls
<1>3. Accepted'
  BY Basics, ArtifactAssumption DEF RollBack, AbortPublish, Move, Delete, Recovering,
     RegInv, TypeOK, Accepted, AcceptedPublication, CallKind, CallPhase, CallStage, NoPub,
     NewClaim, Artifact
<1>4. PublicationAsked'
  BY DEF RollBack, AbortPublish, Move, Delete, Recovering, RegInv, TypeOK, PublicationAsked,
     CallStage, NoPub
<1>5. QED BY <1>1, <1>2, <1>3, <1>4 DEF RegInv

LEMMA RegistryRollForward ==
    ASSUME RegInv, RollForward
    PROVE  RegInv'
<1>1. op' \in Calls /\ CallKind' /\ CallPhase' /\ CallStage'
  <2>1. CASE op' = Raised
    BY <2>1, RaisedFits, RollForwardEffect
  <2>2. CASE op' = op
    BY <2>2, RollForwardEffect DEF RegInv, TypeOK, Calls, CallKind, CallPhase, CallStage
  <2>3. QED BY <2>1, <2>2, RollForwardEffect
<1>2. TypeOK'
  <2>1. faults' \in 0..MaxFaults
    BY <1>1, RollForwardEffect, ArtifactAssumption DEF RegInv, TypeOK
  <2>2. NewClaim \in Artifact
    BY RollForwardEffect, ArtifactAssumption DEF NewClaim, Artifact, RegInv, TypeOK
  <2>3. QED BY <1>1, <2>1, <2>2, RollForwardEffect, Basics, NamesDiffer
           DEF RegInv, TypeOK, Calls, Stages, Commits, Clears, Cleans
<1>3. Accepted' /\ PublicationAsked'
  BY RollForwardEffect, Basics
     DEF Commits, Clears, Cleans, RegInv, TypeOK, Accepted, AcceptedPublication, PublicationAsked, NewClaim, NoPub
<1>4. QED BY <1>1, <1>2, <1>3 DEF RegInv

LEMMA RegistryDiscard ==
    ASSUME RegInv, Discard
    PROVE  RegInv'
<1>1. op' \in Calls /\ CallKind' /\ CallPhase' /\ CallStage'
  <2>1. CASE op' = Raised
    BY <2>1, RaisedFits DEF Discard
  <2>2. CASE op' # Raised
    BY <2>2 DEF Discard, RegInv, TypeOK, Calls, Pcs, CallKind, CallPhase, CallStage
  <2>3. QED BY <2>1, <2>2
<1>2. TypeOK'
  BY <1>1, Basics, ArtifactAssumption DEF Discard, RegInv, TypeOK, Calls
<1>3. Accepted' /\ PublicationAsked'
  BY SameRegistry DEF Discard
<1>4. QED BY <1>1, <1>2, <1>3 DEF RegInv

LEMMA RegistryUndone ==
    ASSUME RegInv, Undone
    PROVE  RegInv'
<1>1. op' \in Calls /\ CallKind' /\ CallPhase' /\ CallStage'
  <2>1. CASE op' = Raised
    BY <2>1, RaisedFits DEF Undone
  <2>2. CASE op' # Raised
    BY <2>2, Basics, ArtifactAssumption DEF Undone, RegInv, TypeOK, Calls, Pcs, NoOp,
       CallKind, CallPhase, CallStage
  <2>3. QED BY <2>1, <2>2
<1>2. TypeOK'
  BY <1>1 DEF Undone, RegInv, TypeOK, Calls
<1>3. Accepted' /\ PublicationAsked'
  BY SameRegistry DEF Undone
<1>4. QED BY <1>1, <1>2, <1>3 DEF RegInv

LEMMA RegistryOpened ==
    ASSUME RegInv, Opened
    PROVE  RegInv'
<1>1. op' \in Calls /\ CallKind' /\ CallPhase' /\ CallStage'
  <2>1. CASE op' = Raised
    BY <2>1, RaisedFits DEF Opened
  <2>2. CASE op' # Raised
    BY <2>2 DEF Opened, RegInv, TypeOK, Calls, Pcs, CallKind, CallPhase, CallStage
  <2>3. QED BY <2>1, <2>2
<1>2. TypeOK'
  BY <1>1 DEF Opened, RegInv, TypeOK, Calls
<1>3. Accepted' /\ PublicationAsked'
  BY SameRegistry DEF Opened
<1>4. QED BY <1>1, <1>2, <1>3 DEF RegInv

LEMMA RegistryCheck ==
    ASSUME RegInv, Check
    PROVE  RegInv'
<1>1. op' \in Calls /\ CallKind' /\ CallPhase' /\ CallStage'
  <2>1. op' = Raised \/ op' = NoOp \/ op' = [op EXCEPT !.pc = "reserve"]
    BY DEF Check
  <2>2. CASE op' = Raised
    BY <2>2, RaisedFits DEF Check
  <2>3. CASE op' = NoOp /\ op' # Raised
    BY <2>3, Basics, ArtifactAssumption DEF Check, RegInv, TypeOK, Calls, Pcs, NoOp,
       CallKind, CallPhase, CallStage
  <2>4. CASE op' = [op EXCEPT !.pc = "reserve"] /\ op' # Raised
    BY <2>4, Basics, ArtifactAssumption DEF Check, RegInv, TypeOK, Calls, Pcs, NoOp,
       CallKind, CallPhase, CallStage
  <2>5. QED BY <2>1, <2>2, <2>3, <2>4
<1>2. TypeOK'
  BY <1>1 DEF Check, RegInv, TypeOK, Calls
<1>3. Accepted' /\ PublicationAsked'
  BY SameRegistry DEF Check
<1>4. QED BY <1>1, <1>2, <1>3 DEF RegInv

LEMMA RegistryReservePublish ==
    ASSUME RegInv, ReservePublish
    PROVE  RegInv'
<1>1. op' \in Calls /\ CallKind' /\ CallPhase' /\ CallStage'
  <2>1. CASE op' = Raised
    BY <2>1, RaisedFits DEF ReservePublish
  <2>2. CASE op' # Raised
    BY <2>2 DEF ReservePublish, RegInv, TypeOK, Calls, Pcs, CallKind, CallPhase, CallStage
  <2>3. QED BY <2>1, <2>2
<1>2. TypeOK'
  BY <1>1, Basics, ArtifactAssumption DEF ReservePublish, RegInv, TypeOK, Calls, Stages,
     Artifact, File
<1>3. Accepted'
  BY Basics DEF ReservePublish, RegInv, TypeOK, Accepted, AcceptedPublication, CallPhase,
     CallStage
<1>4. PublicationAsked'
  BY Basics, ArtifactAssumption DEF ReservePublish, RegInv, TypeOK, PublicationAsked,
     CallKind, CallPhase, CallStage, NoPub, NoFile
<1>5. QED BY <1>1, <1>2, <1>3, <1>4 DEF RegInv

LEMMA RegistryCreateTemporary ==
    ASSUME RegInv, CreateTemporary
    PROVE  RegInv'
<1>1. op' \in Calls /\ CallKind' /\ CallPhase' /\ CallStage'
  <2>1. op' = Raised \/ op' = [op EXCEPT !.pc = "claim", !.id = ops, !.held = TRUE]
    BY DEF CreateTemporary, Vacant
  <2>2. CASE op' = Raised
    BY <2>2, RaisedFits DEF CreateTemporary, Vacant
  <2>3. CASE op' = [op EXCEPT !.pc = "claim", !.id = ops, !.held = TRUE] /\ op' # Raised
    BY <2>3 DEF CreateTemporary, Vacant, RegInv, TypeOK, Calls, Pcs, CallKind, CallPhase,
       CallStage
  <2>4. QED BY <2>1, <2>2, <2>3
<1>2. TypeOK'
  BY <1>1, Basics, ArtifactAssumption DEF CreateTemporary, Vacant, RegInv, TypeOK, Calls,
     Stages, Artifact, File
<1>3. Accepted' /\ PublicationAsked'
  BY SameRegistry DEF CreateTemporary, Vacant
<1>4. QED BY <1>1, <1>2, <1>3 DEF RegInv

LEMMA RegistryClaimTemporary ==
    ASSUME RegInv, ClaimTemporary
    PROVE  RegInv'
<1>1. op' \in Calls /\ CallKind' /\ CallPhase' /\ CallStage'
  <2>1. CASE op' = Raised
    BY <2>1, RaisedFits DEF ClaimTemporary
  <2>2. CASE op' # Raised
    BY <2>2 DEF ClaimTemporary, RegInv, TypeOK, Calls, Pcs, CallKind, CallPhase, CallStage
  <2>3. QED BY <2>1, <2>2
<1>2. TypeOK'
  BY <1>1, Basics, ArtifactAssumption DEF ClaimTemporary, RegInv, TypeOK, Calls
<1>3. Accepted'
  BY Basics DEF ClaimTemporary, RegInv, TypeOK, Accepted, AcceptedPublication, CallPhase,
     CallStage
<1>4. PublicationAsked'
  BY DEF ClaimTemporary, RegInv, PublicationAsked
<1>5. QED BY <1>1, <1>2, <1>3, <1>4 DEF RegInv

LEMMA RegistryWriteTemporary ==
    ASSUME RegInv, WriteTemporary
    PROVE  RegInv'
<1>1. op' \in Calls /\ CallKind' /\ CallPhase' /\ CallStage'
  <2>1. CASE op' = Raised
    BY <2>1, RaisedFits DEF WriteTemporary
  <2>2. CASE op' # Raised
    BY <2>2 DEF WriteTemporary, RegInv, TypeOK, Calls, Pcs, CallKind, CallPhase, CallStage
  <2>3. QED BY <2>1, <2>2
<1>2. TypeOK'
  BY <1>1, Basics, ArtifactAssumption DEF WriteTemporary, RegInv, TypeOK, Calls, Stages,
     Artifact, File
<1>3. Accepted' /\ PublicationAsked'
  BY SameRegistry DEF WriteTemporary
<1>4. QED BY <1>1, <1>2, <1>3 DEF RegInv

LEMMA RegistryPreparePublish ==
    ASSUME RegInv, PreparePublish
    PROVE  RegInv'
<1>1. op' \in Calls /\ CallKind' /\ CallPhase' /\ CallStage'
  <2>1. CASE op' = Raised
    BY <2>1, RaisedFits DEF PreparePublish
  <2>2. CASE op' # Raised
    BY <2>2 DEF PreparePublish, RegInv, TypeOK, Calls, Pcs, CallKind, CallPhase, CallStage
  <2>3. QED BY <2>1, <2>2
<1>2. TypeOK'
  BY <1>1, Basics, ArtifactAssumption DEF PreparePublish, RegInv, TypeOK, Calls, Stages,
     Artifact, File
<1>3. Accepted'
  BY Basics, ArtifactAssumption DEF PreparePublish, RegInv, TypeOK, Accepted,
     AcceptedPublication, CallKind, CallPhase, CallStage, NoPub, NewClaim, Artifact
<1>4. PublicationAsked'
  BY DEF PreparePublish, RegInv, TypeOK, PublicationAsked, CallStage, NoPub
<1>5. QED BY <1>1, <1>2, <1>3, <1>4 DEF RegInv

LEMMA RegistryBackUp ==
    ASSUME RegInv, BackUp
    PROVE  RegInv'
<1>1. op' \in Calls /\ CallKind' /\ CallPhase' /\ CallStage'
  <2>1. CASE op' = Raised
    BY <2>1, RaisedFits DEF BackUp, Move, Vacant
  <2>2. CASE op' # Raised
    BY <2>2 DEF BackUp, Move, Vacant, RegInv, TypeOK, Calls, Pcs, CallKind, CallPhase,
       CallStage
  <2>3. QED BY <2>1, <2>2
<1>2. TypeOK'
  BY <1>1, Basics, ArtifactAssumption DEF BackUp, Move, Vacant, RegInv, TypeOK, Calls
<1>3. Accepted' /\ PublicationAsked'
  BY SameRegistry DEF BackUp, Move, Vacant
<1>4. QED BY <1>1, <1>2, <1>3 DEF RegInv

LEMMA RegistryAdvanceBackup ==
    ASSUME RegInv, AdvanceBackup
    PROVE  RegInv'
<1>1. op' \in Calls /\ CallKind' /\ CallPhase' /\ CallStage'
  <2>1. CASE op' = Raised
    BY <2>1, RaisedFits DEF AdvanceBackup
  <2>2. CASE op' # Raised
    BY <2>2 DEF AdvanceBackup, RegInv, TypeOK, Calls, Pcs, CallKind, CallPhase, CallStage
  <2>3. QED BY <2>1, <2>2
<1>2. TypeOK'
  BY <1>1, Basics, ArtifactAssumption DEF AdvanceBackup, RegInv, TypeOK, Calls, Stages,
     Artifact, File
<1>3. Accepted'
  BY Basics DEF AdvanceBackup, RegInv, TypeOK, Accepted, AcceptedPublication, CallPhase,
     CallStage
<1>4. PublicationAsked'
  BY DEF AdvanceBackup, RegInv, TypeOK, PublicationAsked, CallStage, NoPub
<1>5. QED BY <1>1, <1>2, <1>3, <1>4 DEF RegInv

LEMMA RegistryInstall ==
    ASSUME RegInv, Install
    PROVE  RegInv'
<1>1. op' \in Calls /\ CallKind' /\ CallPhase' /\ CallStage'
  <2>1. op' = Raised \/ op' = [op EXCEPT !.pc = "confirm", !.held = FALSE]
    BY DEF Install, Move, Vacant
  <2>2. CASE op' = Raised
    BY <2>2, RaisedFits DEF Install, Move, Vacant
  <2>3. CASE op' = [op EXCEPT !.pc = "confirm", !.held = FALSE] /\ op' # Raised
    BY <2>3 DEF Install, Move, Vacant, RegInv, TypeOK, Calls, Pcs, CallKind, CallPhase,
       CallStage
  <2>4. QED BY <2>1, <2>2, <2>3
<1>2. TypeOK'
  BY <1>1, Basics, ArtifactAssumption DEF Install, Move, Vacant, RegInv, TypeOK, Calls,
     Stages, Artifact, File, NewClaim, CallKind, CallStage, Accepted, AcceptedPublication
<1>3. Accepted' /\ PublicationAsked'
  BY SameRegistry DEF Install, Move, Vacant
<1>4. QED BY <1>1, <1>2, <1>3 DEF RegInv

LEMMA RegistryAdvanceInstalled ==
    ASSUME RegInv, AdvanceInstalled
    PROVE  RegInv'
<1>1. op' \in Calls /\ CallKind' /\ CallPhase' /\ CallStage'
  <2>1. CASE op' = Raised
    BY <2>1, RaisedFits DEF AdvanceInstalled
  <2>2. CASE op' # Raised
    BY <2>2 DEF AdvanceInstalled, RegInv, TypeOK, Calls, Pcs, CallKind, CallPhase, CallStage
  <2>3. QED BY <2>1, <2>2
<1>2. TypeOK'
  BY <1>1, Basics, ArtifactAssumption DEF AdvanceInstalled, RegInv, TypeOK, Calls, Stages,
     Artifact, File
<1>3. Accepted'
  BY Basics DEF AdvanceInstalled, RegInv, TypeOK, Accepted, AcceptedPublication, CallPhase,
     CallStage
<1>4. PublicationAsked'
  BY DEF AdvanceInstalled, RegInv, TypeOK, PublicationAsked, CallStage, NoPub
<1>5. QED BY <1>1, <1>2, <1>3, <1>4 DEF RegInv

LEMMA RegistryCommitPublish ==
    ASSUME RegInv, CommitPublish
    PROVE  RegInv'
<1>1. op' \in Calls /\ CallKind' /\ CallPhase' /\ CallStage'
  <2>1. CASE op' = Raised
    BY <2>1, RaisedFits DEF CommitPublish
  <2>2. CASE op' # Raised
    BY <2>2 DEF CommitPublish, RegInv, TypeOK, Calls, Pcs, CallKind, CallPhase, CallStage
  <2>3. QED BY <2>1, <2>2
<1>2. TypeOK'
  BY <1>1, Basics, ArtifactAssumption DEF CommitPublish, RegInv, TypeOK, Calls, Stages,
     Artifact, File, NewClaim, CallKind, CallStage, Accepted, AcceptedPublication
<1>3. Accepted'
  BY Basics, ArtifactAssumption DEF CommitPublish, RegInv, TypeOK, Accepted,
     AcceptedPublication, CallKind, CallPhase, CallStage, NoPub, NewClaim, Artifact
<1>4. PublicationAsked'
  BY DEF CommitPublish, RegInv, TypeOK, PublicationAsked, CallStage, NoPub
<1>5. QED BY <1>1, <1>2, <1>3, <1>4 DEF RegInv

LEMMA RegistryCleanBackup ==
    ASSUME RegInv, CleanBackup
    PROVE  RegInv'
<1>1. op' \in Calls /\ CallKind' /\ CallPhase' /\ CallStage'
  <2>1. CASE op' = Raised
    BY <2>1, RaisedFits DEF CleanBackup, Delete
  <2>2. CASE op' # Raised
    BY <2>2 DEF CleanBackup, Delete, RegInv, TypeOK, Calls, Pcs, CallKind, CallPhase,
       CallStage
  <2>3. QED BY <2>1, <2>2
<1>2. TypeOK'
  BY <1>1, Basics, ArtifactAssumption DEF CleanBackup, Delete, RegInv, TypeOK, Calls
<1>3. Accepted' /\ PublicationAsked'
  BY SameRegistry DEF CleanBackup, Delete
<1>4. QED BY <1>1, <1>2, <1>3 DEF RegInv

LEMMA RegistryClearPublish ==
    ASSUME RegInv, ClearPublish
    PROVE  RegInv'
<1>1. op' \in Calls /\ CallKind' /\ CallPhase' /\ CallStage'
  <2>1. CASE op' = Raised
    BY <2>1, RaisedFits DEF ClearPublish
  <2>2. CASE op' # Raised
    BY <2>2, Basics, ArtifactAssumption DEF ClearPublish, RegInv, TypeOK, Calls, Pcs, NoOp,
       CallKind, CallPhase, CallStage
  <2>3. QED BY <2>1, <2>2
<1>2. TypeOK'
  BY <1>1, Basics, ArtifactAssumption DEF ClearPublish, RegInv, TypeOK, Calls
<1>3. Accepted'
  BY Basics, ArtifactAssumption DEF ClearPublish, RegInv, TypeOK, Accepted,
     AcceptedPublication, CallKind, CallPhase, CallStage, NoPub, NewClaim, Artifact
<1>4. PublicationAsked'
  BY DEF ClearPublish, RegInv, TypeOK, PublicationAsked, CallStage, NoPub
<1>5. QED BY <1>1, <1>2, <1>3, <1>4 DEF RegInv

LEMMA RegistryBeginDelete ==
    ASSUME RegInv, BeginDelete
    PROVE  RegInv'
<1>1. op' \in Calls /\ CallKind' /\ CallPhase' /\ CallStage'
  <2>1. CASE op' = Raised
    BY <2>1, RaisedFits DEF BeginDelete, Begun, Deleting
  <2>2. CASE op' # Raised
    BY <2>2 DEF BeginDelete, Begun, Deleting, RegInv, TypeOK, Calls, Pcs, CallKind,
       CallPhase, CallStage
  <2>3. QED BY <2>1, <2>2
<1>2. TypeOK'
  BY <1>1, Basics, ArtifactAssumption DEF BeginDelete, Begun, Deleting, RegInv, TypeOK,
     Calls
<1>3. Accepted'
  BY DEF BeginDelete, Begun, Deleting, RegInv, Accepted, AcceptedPublication
<1>4. PublicationAsked'
  BY DEF BeginDelete, Begun, Deleting, RegInv, PublicationAsked
<1>5. QED BY <1>1, <1>2, <1>3, <1>4 DEF RegInv

LEMMA RegistryResumeDelete ==
    ASSUME RegInv, ResumeDelete
    PROVE  RegInv'
<1>1. op' \in Calls /\ CallKind' /\ CallPhase' /\ CallStage'
  <2>1. CASE op' = Raised
    BY <2>1, RaisedFits DEF ResumeDelete, Deleting
  <2>2. CASE op' # Raised
    BY <2>2 DEF ResumeDelete, Deleting, RegInv, TypeOK, Calls, Pcs, CallKind, CallPhase,
       CallStage
  <2>3. QED BY <2>1, <2>2
<1>2. TypeOK'
  BY <1>1 DEF ResumeDelete, Deleting, RegInv, TypeOK, Calls
<1>3. Accepted' /\ PublicationAsked'
  BY SameRegistry DEF ResumeDelete, Deleting
<1>4. QED BY <1>1, <1>2, <1>3 DEF RegInv

LEMMA RegistryInspectLayout ==
    ASSUME RegInv, InspectLayout
    PROVE  RegInv'
<1>1. op' \in Calls /\ CallKind' /\ CallPhase' /\ CallStage'
  <2>1. op' = Raised \/ op' = NoOp \/ op' = [op EXCEPT !.pc = "tree"] \/ op' = [op EXCEPT !.pc = "items"]
    BY DEF InspectLayout
  <2>2. CASE op' = Raised
    BY <2>2, RaisedFits DEF InspectLayout
  <2>3. CASE op' = NoOp /\ op' # Raised
    BY <2>3, Basics, ArtifactAssumption DEF InspectLayout, RegInv, TypeOK, Calls, Pcs, NoOp,
       CallKind, CallPhase, CallStage
  <2>4. CASE op' = [op EXCEPT !.pc = "tree"] /\ op' # Raised
    BY <2>4 DEF InspectLayout, RegInv, TypeOK, Calls, Pcs, CallKind, CallPhase, CallStage
  <2>5. CASE op' = [op EXCEPT !.pc = "items"] /\ op' # Raised
    BY <2>5 DEF InspectLayout, RegInv, TypeOK, Calls, Pcs, CallKind, CallPhase, CallStage
  <2>6. QED BY <2>1, <2>2, <2>3, <2>4, <2>5
<1>2. TypeOK'
  BY <1>1 DEF InspectLayout, RegInv, TypeOK, Calls
<1>3. Accepted' /\ PublicationAsked'
  BY SameRegistry DEF InspectLayout
<1>4. QED BY <1>1, <1>2, <1>3 DEF RegInv

LEMMA RegistryItemsRemoved ==
    ASSUME RegInv, ItemsRemoved
    PROVE  RegInv'
<1>1. op' \in Calls /\ CallKind' /\ CallPhase' /\ CallStage'
  <2>1. CASE op' = Raised
    BY <2>1, RaisedFits DEF ItemsRemoved
  <2>2. CASE op' # Raised
    BY <2>2 DEF ItemsRemoved, RegInv, TypeOK, Calls, Pcs, CallKind, CallPhase, CallStage
  <2>3. QED BY <2>1, <2>2
<1>2. TypeOK'
  BY <1>1 DEF ItemsRemoved, RegInv, TypeOK, Calls
<1>3. Accepted' /\ PublicationAsked'
  BY SameRegistry DEF ItemsRemoved
<1>4. QED BY <1>1, <1>2, <1>3 DEF RegInv

LEMMA RegistryPlanItem ==
    ASSUME RegInv, NEW s \in Slots, PlanItem(s)
    PROVE  RegInv'
<1>1. op' \in Calls /\ CallKind' /\ CallPhase' /\ CallStage'
  <2>1. CASE op' = Raised
    BY <2>1, RaisedFits DEF PlanItem, Itemise
  <2>2. CASE op' # Raised
    BY <2>2 DEF PlanItem, Itemise, RegInv, TypeOK, Calls, Pcs, CallKind, CallPhase,
       CallStage
  <2>3. QED BY <2>1, <2>2
<1>2. TypeOK'
  BY <1>1, Basics, ArtifactAssumption DEF PlanItem, Itemise, RegInv, TypeOK, Calls
<1>3. Accepted'
  BY Basics DEF PlanItem, Itemise, RegInv, TypeOK, Accepted, AcceptedPublication, CallPhase,
     CallStage
<1>4. PublicationAsked'
  BY DEF PlanItem, Itemise, RegInv, PublicationAsked
<1>5. QED BY <1>1, <1>2, <1>3, <1>4 DEF RegInv

LEMMA RegistryQuarantineItem ==
    ASSUME RegInv, NEW s \in Slots, QuarantineItem(s)
    PROVE  RegInv'
<1>1. op' \in Calls /\ CallKind' /\ CallPhase' /\ CallStage'
  <2>1. op' = Raised \/ op' = NoOp \/ op' = op
    BY DEF QuarantineItem, Itemise, Move, Vacant, Intact, RegInv, TypeOK
  <2>2. CASE op' = Raised
    BY <2>2, RaisedFits DEF QuarantineItem, Itemise, Move, Vacant, Intact
  <2>3. CASE op' = NoOp /\ op' # Raised
    BY <2>3, Basics, ArtifactAssumption DEF QuarantineItem, Itemise, Move, Vacant, Intact,
       RegInv, TypeOK, Calls, Pcs, NoOp, CallKind, CallPhase, CallStage
  <2>4. CASE op' = op /\ op' # Raised
    BY <2>4 DEF QuarantineItem, Itemise, Move, Vacant, Intact, RegInv, TypeOK, Calls, Pcs,
       CallKind, CallPhase, CallStage
  <2>5. QED BY <2>1, <2>2, <2>3, <2>4
<1>2. TypeOK'
  <2>1. files' \in [Names -> File]
    BY Basics, NamesDiffer DEF QuarantineItem, Itemise, Move, RegInv, TypeOK
  <2>2. QED BY <1>1, <2>1, ArtifactAssumption DEF QuarantineItem, Itemise, RegInv, TypeOK, Calls
<1>3. Accepted'
  BY Basics DEF QuarantineItem, Itemise, Move, Vacant, Intact, RegInv, TypeOK, Accepted,
     AcceptedPublication, CallPhase, CallStage
<1>4. PublicationAsked'
  BY DEF QuarantineItem, Itemise, Move, Vacant, Intact, RegInv, PublicationAsked
<1>5. QED BY <1>1, <1>2, <1>3, <1>4 DEF RegInv

LEMMA RegistryRemoveItem ==
    ASSUME RegInv, NEW s \in Slots, RemoveItem(s)
    PROVE  RegInv'
<1>1. op' \in Calls /\ CallKind' /\ CallPhase' /\ CallStage'
  <2>1. op' = Raised \/ op' = NoOp \/ op' = op
    BY DEF RemoveItem, Itemise, Delete, RegInv, TypeOK
  <2>2. CASE op' = Raised
    BY <2>2, RaisedFits DEF RemoveItem, Itemise, Delete
  <2>3. CASE op' = NoOp /\ op' # Raised
    BY <2>3, Basics, ArtifactAssumption DEF RemoveItem, Itemise, Delete, RegInv, TypeOK,
       Calls, Pcs, NoOp, CallKind, CallPhase, CallStage
  <2>4. CASE op' = op /\ op' # Raised
    BY <2>4 DEF RemoveItem, Itemise, Delete, RegInv, TypeOK, Calls, Pcs, CallKind,
       CallPhase, CallStage
  <2>5. QED BY <2>1, <2>2, <2>3, <2>4
<1>2. TypeOK'
  BY <1>1, Basics, ArtifactAssumption DEF RemoveItem, Itemise, Delete, RegInv, TypeOK, Calls
<1>3. Accepted'
  BY Basics DEF RemoveItem, Itemise, Delete, RegInv, TypeOK, Accepted, AcceptedPublication,
     CallPhase, CallStage
<1>4. PublicationAsked'
  BY DEF RemoveItem, Itemise, Delete, RegInv, PublicationAsked
<1>5. QED BY <1>1, <1>2, <1>3, <1>4 DEF RegInv

LEMMA RegistryQuarantineTree ==
    ASSUME RegInv, QuarantineTree
    PROVE  RegInv'
<1>1. op' \in Calls /\ CallKind' /\ CallPhase' /\ CallStage'
  <2>1. op' = Raised \/ op' = NoOp \/ op' = [op EXCEPT !.pc = "forget"]
    BY DEF QuarantineTree, MoveTree
  <2>2. CASE op' = Raised
    BY <2>2, RaisedFits DEF QuarantineTree, MoveTree
  <2>3. CASE op' = NoOp /\ op' # Raised
    BY <2>3, Basics, ArtifactAssumption DEF QuarantineTree, MoveTree, RegInv, TypeOK, Calls,
       Pcs, NoOp, CallKind, CallPhase, CallStage
  <2>4. CASE op' = [op EXCEPT !.pc = "forget"] /\ op' # Raised
    BY <2>4 DEF QuarantineTree, MoveTree, RegInv, TypeOK, Calls, Pcs, CallKind, CallPhase,
       CallStage
  <2>5. QED BY <2>1, <2>2, <2>3, <2>4
<1>2. TypeOK'
  BY <1>1, Basics, ArtifactAssumption DEF QuarantineTree, MoveTree, RegInv, TypeOK, Calls
<1>3. Accepted' /\ PublicationAsked'
  BY SameRegistry DEF QuarantineTree, MoveTree
<1>4. QED BY <1>1, <1>2, <1>3 DEF RegInv

LEMMA RegistryClearDeleted ==
    ASSUME RegInv, ClearDeleted
    PROVE  RegInv'
<1>1. op' \in Calls /\ CallKind' /\ CallPhase' /\ CallStage'
  <2>1. CASE op' = Raised
    BY <2>1, RaisedFits DEF ClearDeleted
  <2>2. CASE op' # Raised
    BY <2>2, Basics, ArtifactAssumption DEF ClearDeleted, RegInv, TypeOK, Calls, Pcs, NoOp,
       CallKind, CallPhase, CallStage
  <2>3. QED BY <2>1, <2>2
<1>2. TypeOK'
  BY <1>1, Basics, ArtifactAssumption DEF ClearDeleted, RegInv, TypeOK, Calls
<1>3. Accepted'
  BY Basics DEF ClearDeleted, RegInv, TypeOK, Accepted, AcceptedPublication, CallPhase,
     CallStage
<1>4. PublicationAsked'
  BY DEF ClearDeleted, RegInv, PublicationAsked
<1>5. QED BY <1>1, <1>2, <1>3, <1>4 DEF RegInv

LEMMA RegistryStartOther ==
    ASSUME RegInv, NEW kind \in {"read", "delete"}, NEW s \in Slots, StartOther(kind, s)
    PROVE  RegInv'
<1>1. op' \in Calls /\ CallKind' /\ CallPhase' /\ CallStage'
  <2>1. op' = [kind |-> kind, slot |-> s, content |-> Nothing, id |-> 0,
               held |-> FALSE, pc |-> "ready"]
    BY DEF StartOther, NoOp
  <2>2. op' \in Calls
    BY <2>1, ArtifactAssumption DEF Calls, Pcs
  <2>3. CallKind'
    BY <2>1, ArtifactAssumption DEF CallKind, StartOther, RegInv, TypeOK
  <2>4. QED BY <2>1, <2>2, <2>3 DEF CallPhase, CallStage
<1>2. TypeOK'
  BY <1>1, Basics, ArtifactAssumption DEF StartOther, RegInv, TypeOK, Calls
<1>3. Accepted' /\ PublicationAsked'
  BY SameRegistry DEF StartOther
<1>4. QED BY <1>1, <1>2, <1>3 DEF RegInv

LEMMA RegistryAsk ==
    ASSUME RegInv, NEW s \in Slots, NEW c \in Contents, Ask(s, c)
    PROVE  RegInv'
<1>1. op' \in Calls /\ CallKind' /\ CallPhase' /\ CallStage'
  <2>1. op' = [kind |-> "publish", slot |-> s, content |-> c, id |-> 0,
               held |-> FALSE, pc |-> "ready"]
    BY DEF Ask, NoOp
  <2>2. op' \in Calls
    BY <2>1, ArtifactAssumption DEF Calls, Pcs
  <2>3. CallKind'
    BY <2>1, ArtifactAssumption DEF CallKind, Ask, RegInv, TypeOK
  <2>4. QED BY <2>1, <2>2, <2>3 DEF CallPhase, CallStage
<1>2. TypeOK'
  BY <1>1, Basics, ArtifactAssumption DEF Ask, RegInv, TypeOK, Calls
<1>3. Accepted'
  BY Basics, ArtifactAssumption DEF Ask, RegInv, TypeOK, Accepted, AcceptedPublication,
     CallKind, CallPhase, CallStage, NoPub, NewClaim, Artifact
<1>4. PublicationAsked'
  BY DEF Ask, RegInv, PublicationAsked
<1>5. QED BY <1>1, <1>2, <1>3, <1>4 DEF RegInv

LEMMA RegistryFault ==
    ASSUME RegInv, Fault
    PROVE  RegInv'
<1>1. op' \in Calls /\ CallKind' /\ CallPhase' /\ CallStage'
  <2>1. CASE op' = Raised
    BY <2>1, RaisedFits DEF Fault
  <2>2. CASE op' # Raised
    BY <2>2 DEF Fault, RegInv, TypeOK, Calls, Pcs, CallKind, CallPhase, CallStage
  <2>3. QED BY <2>1, <2>2
<1>2. TypeOK'
  BY <1>1, Basics, ArtifactAssumption DEF Fault, RegInv, TypeOK, Calls
<1>3. Accepted' /\ PublicationAsked'
  BY SameRegistry DEF Fault
<1>4. QED BY <1>1, <1>2, <1>3 DEF RegInv

LEMMA RegistryDie ==
    ASSUME RegInv, Die
    PROVE  RegInv'
<1>1. op' \in Calls /\ CallKind' /\ CallPhase' /\ CallStage'
  <2>1. CASE op' = Raised
    BY <2>1, RaisedFits DEF Die
  <2>2. CASE op' # Raised
    BY <2>2, Basics, ArtifactAssumption DEF Die, RegInv, TypeOK, Calls, Pcs, NoOp, CallKind,
       CallPhase, CallStage
  <2>3. QED BY <2>1, <2>2
<1>2. TypeOK'
  BY <1>1, Basics, ArtifactAssumption DEF Die, RegInv, TypeOK, Calls
<1>3. Accepted' /\ PublicationAsked'
  BY SameRegistry DEF Die
<1>4. QED BY <1>1, <1>2, <1>3 DEF RegInv

LEMMA RegistryMeddle ==
    ASSUME RegInv, NEW n \in Names, Meddle(n)
    PROVE  RegInv'
<1>1. op' \in Calls /\ CallKind' /\ CallPhase' /\ CallStage'
  <2>1. CASE op' = Raised
    BY <2>1, RaisedFits DEF Meddle
  <2>2. CASE op' # Raised
    BY <2>2 DEF Meddle, RegInv, TypeOK, Calls, Pcs, CallKind, CallPhase, CallStage
  <2>3. QED BY <2>1, <2>2
<1>2. TypeOK'
  BY <1>1, Basics, ArtifactAssumption DEF Meddle, RegInv, TypeOK, Calls
<1>3. Accepted' /\ PublicationAsked'
  BY SameRegistry DEF Meddle
<1>4. QED BY <1>1, <1>2, <1>3 DEF RegInv

LEMMA RegistryInit == Init => RegInv
<1>1. Init => TypeOK
  <2> SUFFICES ASSUME Init PROVE TypeOK
    OBVIOUS
  <2>1. /\ op \in Calls /\ files \in [Names -> File] /\ claims \in [Slots -> Artifact \union {NoFile}]
        /\ items \in [Slots -> {"none", "planned", "named", "quarantined", "removed"}]
        /\ asked \in [Slots -> SUBSET Contents]
    BY Basics DEF Init
  <2>2. recovered \in BOOLEAN
    BY DEF Init
  <2>3. /\ ops \in 0..MaxOps /\ faults \in 0..MaxFaults /\ foreign \in 0..MaxForeign
        /\ phase \in {"none", "reserved", "active", "deleting"}
        /\ dir \in {"absent", "present", "moved"} /\ pub = NoPub
    BY ArtifactAssumption DEF Init
  <2>4. QED BY <2>1, <2>2, <2>3, Basics DEF TypeOK, Calls
<1>2. Init => Accepted
  BY Basics DEF Init, Accepted, AcceptedPublication, NoPub
<1>3. Init => CallKind /\ CallPhase /\ CallStage /\ PublicationAsked
  BY DEF Init, NoOp, NoPub, CallKind, CallPhase, CallStage, PublicationAsked
<1>4. QED BY <1>1, <1>2, <1>3 DEF RegInv

(* A step is a start, one of the steps of a call, a failure, a death or a  *)
(* foreign file.                                                           *)
LEMMA NextCases ==
    ASSUME Next
    PROVE  \/ \E s \in Slots, c \in Contents : Ask(s, c)
           \/ \E kind \in {"read", "delete"}, s \in Slots : StartOther(kind, s)
           \/ Steps \/ Fault \/ Die \/ \E n \in Names : Meddle(n)
<1>1. \A s \in Slots : StartPublish(s) \/ StartRevoke(s) => \E c \in Contents : Ask(s, c)
  BY ArtifactAssumption DEF StartPublish, StartRevoke
<1>2. StartDelete => \E kind \in {"read", "delete"}, s \in Slots : StartOther(kind, s)
  BY Basics DEF StartDelete
<1>3. \A s \in Slots : StartRead(s) =>
        \E kind \in {"read", "delete"}, t \in Slots : StartOther(kind, t)
  BY DEF StartRead
<1>4. QED BY <1>1, <1>2, <1>3 DEF Next

LEMMA RegistryStep == RegInv /\ [Next]_vars => RegInv'
<1> SUFFICES ASSUME RegInv, [Next]_vars PROVE RegInv'
  OBVIOUS
<1>1. CASE UNCHANGED vars
  BY <1>1 DEF vars, RegInv, TypeOK, Accepted, AcceptedPublication, NewClaim, CallKind, CallPhase,
     CallStage, PublicationAsked
<1>2. CASE Next
  <2>1. CASE \E s \in Slots, c \in Contents : Ask(s, c)
    BY <2>1, RegistryAsk
  <2>2. CASE \E kind \in {"read", "delete"}, s \in Slots : StartOther(kind, s)
    BY <2>2, RegistryStartOther
  <2>3. CASE Fault \/ Die
    BY <2>3, RegistryFault, RegistryDie
  <2>4. CASE \E n \in Names : Meddle(n)
    BY <2>4, RegistryMeddle
  <2>5. CASE Steps
    <3>1. CASE RetireRecovered \/ ReserveWorkspace \/ MakeTree \/ FinalizeWorkspace \/
              RetireReserved \/ Refuse \/ RecoverIntent \/ RollBack \/ RollForward \/ Discard \/
              Undone \/ Opened
      BY <3>1, RegistryRetireRecovered, RegistryReserveWorkspace, RegistryMakeTree,
         RegistryFinalizeWorkspace, RegistryRetireReserved, RegistryRefuse,
         RegistryRecoverIntent, RegistryRollBack, RegistryRollForward, RegistryDiscard,
         RegistryUndone, RegistryOpened 
    <3>2. CASE Check \/ ReservePublish \/ CreateTemporary \/ ClaimTemporary \/ WriteTemporary \/
              PreparePublish \/ BackUp \/ AdvanceBackup \/ Install \/ AdvanceInstalled \/
              CommitPublish \/ CleanBackup
      BY <3>2, RegistryCheck, RegistryReservePublish, RegistryCreateTemporary,
         RegistryClaimTemporary, RegistryWriteTemporary, RegistryPreparePublish,
         RegistryBackUp, RegistryAdvanceBackup, RegistryInstall, RegistryAdvanceInstalled,
         RegistryCommitPublish, RegistryCleanBackup 
    <3>3. CASE ClearPublish \/ BeginDelete \/ ResumeDelete \/ InspectLayout \/ ItemsRemoved \/
              QuarantineTree \/ ClearDeleted
      BY <3>3, RegistryClearPublish, RegistryBeginDelete, RegistryResumeDelete,
         RegistryInspectLayout, RegistryItemsRemoved, RegistryQuarantineTree,
         RegistryClearDeleted 
    <3>4. CASE \E s \in Slots : PlanItem(s) \/ QuarantineItem(s) \/ RemoveItem(s)
      BY <3>4, RegistryPlanItem, RegistryQuarantineItem, RegistryRemoveItem 
    <3>5. QED BY <2>5, <3>1, <3>2, <3>3, <3>4 DEF Steps
  <2>6. QED BY <1>2, <2>1, <2>2, <2>3, <2>4, <2>5, NextCases
<1>3. QED BY <1>1, <1>2

LEMMA RegistryHolds == Spec => []RegInv
BY RegistryInit, RegistryStep, PTL DEF Spec

(* Whatever call fails and wherever the Worker dies, the registry is in a  *)
(* state that _validate_state accepts, so that the next Worker reads it.   *)
THEOREM RegistryReadable == Spec => []RegistryLoads
<1>1. RegInv => RegistryLoads
  BY DEF RegInv, RegistryLoads
<1>2. QED BY <1>1, RegistryHolds, PTL

(***************************************************************************)
(* The refinement.  A reader sees a slot change in one step only: when the *)
(* publication is recorded as installed, or when the deletion begins.      *)
(***************************************************************************)
LEMMA ValueAt ==
    /\ \A s \in Slots : Value[s] =
          IF phase # "active" THEN Nothing
          ELSE IF pub.stage \in {"installed", "committed"} /\ pub.slot = s THEN pub.content
               ELSE claims[s].content
    /\ \A s \in Slots : Value'[s] =
          IF phase' # "active" THEN Nothing
          ELSE IF pub'.stage \in {"installed", "committed"} /\ pub'.slot = s THEN pub'.content
               ELSE claims'[s].content
BY DEF Value

LEMMA ValueStays ==
    ASSUME \A s \in Slots : Value'[s] = Value[s]
    PROVE  Value' = Value
<1>1. /\ Value = [s \in Slots |-> Value[s]]
      /\ Value' = [s \in Slots |-> Value'[s]]
  BY DEF Value
<1>2. QED BY <1>1

(* What a step leaves to the reader: most steps nothing new at all.        *)
LEMMA Unseen ==
    ASSUME RegInv, UNCHANGED <<phase, claims, pub, asked>>
    PROVE  UNCHANGED Promise!slotVars
<1>1. Value' = Value
  BY DEF Value
<1>2. QED BY <1>1 DEF Promise!slotVars

LEMMA PromiseRetireRecovered ==
    ASSUME RegInv, RetireRecovered
    PROVE  UNCHANGED Promise!slotVars
<1>1. UNCHANGED asked
  BY DEF RetireRecovered
<1>2. \A s \in Slots : Value'[s] = Value[s]
  BY ValueAt DEF RetireRecovered, RegInv, Accepted
<1>3. QED BY <1>1, <1>2, ValueStays DEF Promise!slotVars

LEMMA PromiseReserveWorkspace ==
    ASSUME RegInv, ReserveWorkspace
    PROVE  UNCHANGED Promise!slotVars
<1>1. UNCHANGED asked
  BY DEF ReserveWorkspace
<1>2. \A s \in Slots : Value'[s] = Value[s]
  BY ValueAt DEF ReserveWorkspace, RegInv, Accepted
<1>3. QED BY <1>1, <1>2, ValueStays DEF Promise!slotVars

LEMMA PromiseMakeTree ==
    ASSUME RegInv, MakeTree
    PROVE  UNCHANGED Promise!slotVars
BY Unseen DEF MakeTree, NewTree

LEMMA PromiseFinalizeWorkspace ==
    ASSUME RegInv, FinalizeWorkspace
    PROVE  UNCHANGED Promise!slotVars
<1>1. UNCHANGED asked
  BY DEF FinalizeWorkspace
<1>2. \A s \in Slots : Value'[s] = Value[s]
  BY ValueAt DEF FinalizeWorkspace, RegInv, TypeOK, Accepted, AcceptedPublication,
     CallStage, CallPhase, NoPub, NoFile, NewClaim, Artifact
<1>3. QED BY <1>1, <1>2, ValueStays DEF Promise!slotVars

LEMMA PromiseRetireReserved ==
    ASSUME RegInv, RetireReserved
    PROVE  UNCHANGED Promise!slotVars
<1>1. UNCHANGED asked
  BY DEF RetireReserved
<1>2. \A s \in Slots : Value'[s] = Value[s]
  BY ValueAt DEF RetireReserved, RegInv, Accepted
<1>3. QED BY <1>1, <1>2, ValueStays DEF Promise!slotVars

LEMMA PromiseRefuse ==
    ASSUME RegInv, Refuse
    PROVE  UNCHANGED Promise!slotVars
BY Unseen DEF Refuse

LEMMA PromiseRecoverIntent ==
    ASSUME RegInv, RecoverIntent
    PROVE  UNCHANGED Promise!slotVars
<1>1. UNCHANGED asked
  BY DEF RecoverIntent, ClearIntent, Move, Delete, Recovering
<1>2. \A s \in Slots : Value'[s] = Value[s]
  BY ValueAt DEF RecoverIntent, ClearIntent, Move, Delete, Recovering, RegInv, TypeOK,
     Accepted, AcceptedPublication, CallStage, NoPub, NewClaim
<1>3. QED BY <1>1, <1>2, ValueStays DEF Promise!slotVars

LEMMA PromiseRollBack ==
    ASSUME RegInv, RollBack
    PROVE  UNCHANGED Promise!slotVars
<1>1. UNCHANGED asked
  BY DEF RollBack, AbortPublish, Move, Delete, Recovering
<1>2. \A s \in Slots : Value'[s] = Value[s]
  BY ValueAt DEF RollBack, AbortPublish, Move, Delete, Recovering, RegInv, TypeOK, Accepted,
     AcceptedPublication, CallStage, NoPub, NewClaim
<1>3. QED BY <1>1, <1>2, ValueStays DEF Promise!slotVars

LEMMA PromiseRollForward ==
    ASSUME RegInv, RollForward
    PROVE  UNCHANGED Promise!slotVars
<1>1. UNCHANGED asked
  BY RollForwardEffect
<1>2. \A s \in Slots : Value'[s] = Value[s]
  BY RollForwardEffect, ValueAt
     DEF RegInv, TypeOK, Accepted, AcceptedPublication, NewClaim, NoPub, Commits, Clears, Cleans
<1>3. QED BY <1>1, <1>2, ValueStays DEF Promise!slotVars

LEMMA PromiseDiscard ==
    ASSUME RegInv, Discard
    PROVE  UNCHANGED Promise!slotVars
BY Unseen DEF Discard

LEMMA PromiseUndone ==
    ASSUME RegInv, Undone
    PROVE  UNCHANGED Promise!slotVars
BY Unseen DEF Undone

LEMMA PromiseOpened ==
    ASSUME RegInv, Opened
    PROVE  UNCHANGED Promise!slotVars
BY Unseen DEF Opened

LEMMA PromiseCheck ==
    ASSUME RegInv, Check
    PROVE  UNCHANGED Promise!slotVars
BY Unseen DEF Check

LEMMA PromiseReservePublish ==
    ASSUME RegInv, ReservePublish
    PROVE  UNCHANGED Promise!slotVars
<1>1. UNCHANGED asked
  BY DEF ReservePublish
<1>2. \A s \in Slots : Value'[s] = Value[s]
  BY ValueAt DEF ReservePublish, RegInv, Accepted
<1>3. QED BY <1>1, <1>2, ValueStays DEF Promise!slotVars

LEMMA PromiseCreateTemporary ==
    ASSUME RegInv, CreateTemporary
    PROVE  UNCHANGED Promise!slotVars
BY Unseen DEF CreateTemporary, Vacant

LEMMA PromiseClaimTemporary ==
    ASSUME RegInv, ClaimTemporary
    PROVE  UNCHANGED Promise!slotVars
<1>1. UNCHANGED asked
  BY DEF ClaimTemporary
<1>2. \A s \in Slots : Value'[s] = Value[s]
  BY ValueAt DEF ClaimTemporary, RegInv, Accepted
<1>3. QED BY <1>1, <1>2, ValueStays DEF Promise!slotVars

LEMMA PromiseWriteTemporary ==
    ASSUME RegInv, WriteTemporary
    PROVE  UNCHANGED Promise!slotVars
BY Unseen DEF WriteTemporary

LEMMA PromisePreparePublish ==
    ASSUME RegInv, PreparePublish
    PROVE  UNCHANGED Promise!slotVars
<1>1. UNCHANGED asked
  BY DEF PreparePublish
<1>2. \A s \in Slots : Value'[s] = Value[s]
  BY ValueAt DEF PreparePublish, RegInv, TypeOK, Accepted, AcceptedPublication, CallStage,
     NoPub, NewClaim
<1>3. QED BY <1>1, <1>2, ValueStays DEF Promise!slotVars

LEMMA PromiseBackUp ==
    ASSUME RegInv, BackUp
    PROVE  UNCHANGED Promise!slotVars
BY Unseen DEF BackUp, Move, Vacant

LEMMA PromiseAdvanceBackup ==
    ASSUME RegInv, AdvanceBackup
    PROVE  UNCHANGED Promise!slotVars
<1>1. UNCHANGED asked
  BY DEF AdvanceBackup
<1>2. \A s \in Slots : Value'[s] = Value[s]
  BY ValueAt DEF AdvanceBackup, RegInv, TypeOK, Accepted, AcceptedPublication, CallStage,
     NoPub, NewClaim
<1>3. QED BY <1>1, <1>2, ValueStays DEF Promise!slotVars

LEMMA PromiseInstall ==
    ASSUME RegInv, Install
    PROVE  UNCHANGED Promise!slotVars
BY Unseen DEF Install, Move, Vacant

LEMMA PromiseAdvanceInstalled ==
    ASSUME RegInv, AdvanceInstalled
    PROVE  [Promise!SlotsNext]_Promise!slotVars
<1>1. CASE Raise
  BY <1>1, Unseen
<1>2. CASE ~Raise
  <2>1. /\ phase = "active" /\ pub.stage = "backup" /\ pub.slot \in Slots
        /\ pub.content \in asked[pub.slot] /\ pub.content \in Contents
        /\ claims[pub.slot] = pub.old
        /\ pub.slot \in Lasting /\ pub.old.content = Tombstone => pub.content = Tombstone
        /\ pub' = [pub EXCEPT !.stage = "installed"] /\ UNCHANGED <<phase, claims, asked>>
    BY <1>2 DEF AdvanceInstalled, RegInv, TypeOK, CallPhase, CallStage, Accepted,
       AcceptedPublication, PublicationAsked
  <2>2. pub'.stage = "installed" /\ pub'.slot = pub.slot /\ pub'.content = pub.content
    BY <2>1 DEF RegInv, TypeOK
  <2>3. Value' = [Value EXCEPT ![pub.slot] = pub.content]
    <3>1. \A s \in Slots : Value'[s] = IF s = pub.slot THEN pub.content ELSE Value[s]
      BY <2>1, <2>2, ValueAt
    <3>2. Value \in [Slots -> {Value[s] : s \in Slots}] /\ Value' = [s \in Slots |-> Value'[s]]
      BY DEF Value
    <3>3. QED BY <3>1, <3>2
  <2>4. Promise!Replace(pub.slot, pub.content)
    BY <2>1, <2>3, ValueAt DEF Promise!Replace
  <2>5. QED BY <2>1, <2>4 DEF Promise!SlotsNext
<1>3. QED BY <1>1, <1>2

LEMMA PromiseCommitPublish ==
    ASSUME RegInv, CommitPublish
    PROVE  UNCHANGED Promise!slotVars
<1>1. UNCHANGED asked
  BY DEF CommitPublish
<1>2. \A s \in Slots : Value'[s] = Value[s]
  BY ValueAt DEF CommitPublish, RegInv, TypeOK, Accepted, AcceptedPublication, CallStage,
     NoPub, NewClaim
<1>3. QED BY <1>1, <1>2, ValueStays DEF Promise!slotVars

LEMMA PromiseCleanBackup ==
    ASSUME RegInv, CleanBackup
    PROVE  UNCHANGED Promise!slotVars
BY Unseen DEF CleanBackup, Delete

LEMMA PromiseClearPublish ==
    ASSUME RegInv, ClearPublish
    PROVE  UNCHANGED Promise!slotVars
<1>1. UNCHANGED asked
  BY DEF ClearPublish
<1>2. \A s \in Slots : Value'[s] = Value[s]
  BY ValueAt DEF ClearPublish, RegInv, TypeOK, Accepted, AcceptedPublication, CallStage,
     NoPub, NewClaim
<1>3. QED BY <1>1, <1>2, ValueStays DEF Promise!slotVars

LEMMA PromiseBeginDelete ==
    ASSUME RegInv, BeginDelete
    PROVE  Promise!SlotsNext
<1>1. Value' = [s \in Slots |-> Nothing] /\ UNCHANGED asked
  BY DEF BeginDelete, Value
<1>2. QED BY <1>1 DEF Promise!SlotsNext, Promise!Drop

LEMMA PromiseResumeDelete ==
    ASSUME RegInv, ResumeDelete
    PROVE  UNCHANGED Promise!slotVars
BY Unseen DEF ResumeDelete, Deleting

LEMMA PromiseInspectLayout ==
    ASSUME RegInv, InspectLayout
    PROVE  UNCHANGED Promise!slotVars
BY Unseen DEF InspectLayout

LEMMA PromiseItemsRemoved ==
    ASSUME RegInv, ItemsRemoved
    PROVE  UNCHANGED Promise!slotVars
BY Unseen DEF ItemsRemoved

LEMMA PromisePlanItem ==
    ASSUME RegInv, NEW s \in Slots, PlanItem(s)
    PROVE  UNCHANGED Promise!slotVars
BY Unseen DEF PlanItem, Itemise

LEMMA PromiseQuarantineItem ==
    ASSUME RegInv, NEW s \in Slots, QuarantineItem(s)
    PROVE  UNCHANGED Promise!slotVars
BY Unseen DEF QuarantineItem, Itemise, Move, Vacant, Intact

LEMMA PromiseRemoveItem ==
    ASSUME RegInv, NEW s \in Slots, RemoveItem(s)
    PROVE  UNCHANGED Promise!slotVars
BY Unseen DEF RemoveItem, Itemise, Delete

LEMMA PromiseQuarantineTree ==
    ASSUME RegInv, QuarantineTree
    PROVE  UNCHANGED Promise!slotVars
BY Unseen DEF QuarantineTree, MoveTree

LEMMA PromiseClearDeleted ==
    ASSUME RegInv, ClearDeleted
    PROVE  UNCHANGED Promise!slotVars
<1>1. UNCHANGED asked
  BY DEF ClearDeleted
<1>2. \A s \in Slots : Value'[s] = Value[s]
  BY ValueAt DEF ClearDeleted, RegInv, TypeOK, Accepted, AcceptedPublication, CallStage,
     CallPhase, NoPub, NoFile, NewClaim, Artifact
<1>3. QED BY <1>1, <1>2, ValueStays DEF Promise!slotVars

LEMMA PromiseStartOther ==
    ASSUME RegInv, NEW kind \in {"read", "delete"}, NEW s \in Slots, StartOther(kind, s)
    PROVE  UNCHANGED Promise!slotVars
BY Unseen DEF StartOther

LEMMA PromiseAsk ==
    ASSUME RegInv, NEW s \in Slots, NEW c \in Contents, Ask(s, c)
    PROVE  Promise!SlotsNext
<1>1. Value' = Value
  BY DEF Ask, Value
<1>2. Promise!Ask(s, c)
  BY <1>1 DEF Ask, Promise!Ask
<1>3. QED BY <1>2 DEF Promise!SlotsNext

LEMMA PromiseFault ==
    ASSUME RegInv, Fault
    PROVE  UNCHANGED Promise!slotVars
BY Unseen DEF Fault

LEMMA PromiseDie ==
    ASSUME RegInv, Die
    PROVE  UNCHANGED Promise!slotVars
BY Unseen DEF Die

LEMMA PromiseMeddle ==
    ASSUME RegInv, NEW n \in Names, Meddle(n)
    PROVE  UNCHANGED Promise!slotVars
BY Unseen DEF Meddle

LEMMA PromiseStep ==
    RegInv /\ [Next]_vars => [Promise!SlotsNext]_Promise!slotVars
<1> SUFFICES ASSUME RegInv, [Next]_vars PROVE [Promise!SlotsNext]_Promise!slotVars
  OBVIOUS
<1>1. CASE UNCHANGED vars
  BY <1>1, Unseen DEF vars
<1>2. CASE Next
  <2>1. CASE \E s \in Slots, c \in Contents : Ask(s, c)
    BY <2>1, PromiseAsk
  <2>2. CASE \E kind \in {"read", "delete"}, s \in Slots : StartOther(kind, s)
    BY <2>2, PromiseStartOther
  <2>3. CASE Fault \/ Die
    BY <2>3, PromiseFault, PromiseDie
  <2>4. CASE \E n \in Names : Meddle(n)
    BY <2>4, PromiseMeddle
  <2>5. CASE Steps
    <3>1. CASE RetireRecovered \/ ReserveWorkspace \/ MakeTree \/ FinalizeWorkspace \/
              RetireReserved \/ Refuse \/ RecoverIntent \/ RollBack \/ RollForward \/ Discard \/
              Undone \/ Opened
      BY <3>1, PromiseRetireRecovered, PromiseReserveWorkspace, PromiseMakeTree,
         PromiseFinalizeWorkspace, PromiseRetireReserved, PromiseRefuse,
         PromiseRecoverIntent, PromiseRollBack, PromiseRollForward, PromiseDiscard,
         PromiseUndone, PromiseOpened 
    <3>2. CASE Check \/ ReservePublish \/ CreateTemporary \/ ClaimTemporary \/ WriteTemporary \/
              PreparePublish \/ BackUp \/ AdvanceBackup \/ Install \/ AdvanceInstalled \/
              CommitPublish \/ CleanBackup
      BY <3>2, PromiseCheck, PromiseReservePublish, PromiseCreateTemporary,
         PromiseClaimTemporary, PromiseWriteTemporary, PromisePreparePublish, PromiseBackUp,
         PromiseAdvanceBackup, PromiseInstall, PromiseAdvanceInstalled,
         PromiseCommitPublish, PromiseCleanBackup 
    <3>3. CASE ClearPublish \/ BeginDelete \/ ResumeDelete \/ InspectLayout \/ ItemsRemoved \/
              QuarantineTree \/ ClearDeleted
      BY <3>3, PromiseClearPublish, PromiseBeginDelete, PromiseResumeDelete,
         PromiseInspectLayout, PromiseItemsRemoved, PromiseQuarantineTree,
         PromiseClearDeleted 
    <3>4. CASE \E s \in Slots : PlanItem(s) \/ QuarantineItem(s) \/ RemoveItem(s)
      BY <3>4, PromisePlanItem, PromiseQuarantineItem, PromiseRemoveItem 
    <3>5. QED BY <2>5, <3>1, <3>2, <3>3, <3>4 DEF Steps
  <2>6. QED BY <1>2, <2>1, <2>2, <2>3, <2>4, <2>5, NextCases
<1>3. QED BY <1>1, <1>2

LEMMA PromiseInit == Init => Promise!SlotsInit
<1>1. Init => Value = [s \in Slots |-> Nothing]
  BY DEF Init, Value
<1>2. QED BY <1>1 DEF Init, Promise!SlotsInit

(* Files, journal and recovery amount to slots that change in one step, to *)
(* a content that somebody asked for, and for good where a snapshot was    *)
(* revoked: what StudyMap builds on.                                       *)
THEOREM PromiseKept == Spec => KeepsPromise
BY RegistryHolds, PromiseInit, PromiseStep, PTL DEF Spec, KeepsPromise, Promise!SlotsSpec

(***************************************************************************)
(* The files of somebody else.                                             *)
(***************************************************************************)
KeepsForeign == \A n \in Names : files[n] = Foreign => files'[n] = Foreign

LEMMA KeptFiles == UNCHANGED files => KeepsForeign
BY DEF KeepsForeign

LEMMA ForeignRecoverIntent ==
    ASSUME RegInv, RecoverIntent
    PROVE  KeepsForeign
BY Basics, ArtifactAssumption, NamesDiffer DEF KeepsForeign, RecoverIntent, ClearIntent,
   Move, Delete, Recovering, RegInv, TypeOK, Foreign

LEMMA ForeignRollBack ==
    ASSUME RegInv, RollBack
    PROVE  KeepsForeign
BY Basics, ArtifactAssumption, NamesDiffer DEF KeepsForeign, RollBack, AbortPublish, Move,
   Delete, Recovering, RegInv, TypeOK, Foreign, NoFile, NewClaim, LayoutKnown, Artifact

LEMMA ForeignRollForward ==
    ASSUME RegInv, RollForward
    PROVE  KeepsForeign
<1>1. CASE UNCHANGED files
  BY <1>1, KeptFiles
<1>2. CASE Cleans
  <2>1. pub.old # Foreign /\ files \in [Names -> File]
    BY Basics DEF RegInv, TypeOK
  <2>2. QED BY <1>2, <2>1, RollForwardEffect, NamesDiffer DEF KeepsForeign, Cleans
<1>3. QED BY <1>1, <1>2, RollForwardEffect DEF Commits, Clears

LEMMA ForeignDiscard ==
    ASSUME RegInv, Discard
    PROVE  KeepsForeign
BY Basics, ArtifactAssumption, NamesDiffer DEF KeepsForeign, Discard, RegInv, TypeOK,
   Foreign

LEMMA ForeignCreateTemporary ==
    ASSUME RegInv, CreateTemporary
    PROVE  KeepsForeign
BY Basics, ArtifactAssumption, NamesDiffer DEF KeepsForeign, CreateTemporary, Vacant,
   RegInv, TypeOK, Foreign

LEMMA ForeignWriteTemporary ==
    ASSUME RegInv, WriteTemporary
    PROVE  KeepsForeign
BY Basics, ArtifactAssumption, NamesDiffer DEF KeepsForeign, WriteTemporary, RegInv, TypeOK,
   Foreign

LEMMA ForeignBackUp ==
    ASSUME RegInv, BackUp
    PROVE  KeepsForeign
BY Basics, ArtifactAssumption, NamesDiffer DEF KeepsForeign, BackUp, Move, Vacant, RegInv,
   TypeOK, Foreign

LEMMA ForeignInstall ==
    ASSUME RegInv, Install
    PROVE  KeepsForeign
BY Basics, ArtifactAssumption, NamesDiffer DEF KeepsForeign, Install, Move, Vacant, RegInv,
   TypeOK, Foreign, NoFile, NewClaim, LayoutKnown, Artifact

LEMMA ForeignCleanBackup ==
    ASSUME RegInv, CleanBackup
    PROVE  KeepsForeign
BY Basics, ArtifactAssumption, NamesDiffer DEF KeepsForeign, CleanBackup, Delete, RegInv,
   TypeOK, Foreign

LEMMA ForeignQuarantineItem ==
    ASSUME RegInv, NEW s \in Slots, QuarantineItem(s)
    PROVE  KeepsForeign
BY Basics, ArtifactAssumption, NamesDiffer DEF KeepsForeign, QuarantineItem, Itemise, Move,
   Vacant, Intact, RegInv, TypeOK, Foreign

LEMMA ForeignRemoveItem ==
    ASSUME RegInv, NEW s \in Slots, RemoveItem(s)
    PROVE  KeepsForeign
BY Basics, ArtifactAssumption, NamesDiffer DEF KeepsForeign, RemoveItem, Itemise, Delete,
   RegInv, TypeOK, Foreign, NoFile, NewClaim, LayoutKnown, Artifact

LEMMA ForeignMeddle ==
    ASSUME RegInv, NEW n \in Names, Meddle(n)
    PROVE  KeepsForeign
BY Basics, ArtifactAssumption, NamesDiffer DEF KeepsForeign, Meddle, RegInv, TypeOK, Foreign

LEMMA ForeignOthers ==
    ASSUME \/ RetireRecovered \/ ReserveWorkspace \/ MakeTree \/ FinalizeWorkspace \/
              RetireReserved \/ Refuse \/ Undone \/ Opened \/ Check \/ ReservePublish \/
              ClaimTemporary \/ PreparePublish \/ AdvanceBackup \/ AdvanceInstalled \/
              CommitPublish \/ ClearPublish \/ BeginDelete \/ ResumeDelete \/ InspectLayout \/
              ItemsRemoved \/ QuarantineTree \/ ClearDeleted \/ Fault \/ Die
           \/ \E s \in Slots : PlanItem(s) \/ (\E c \in Contents : Ask(s, c))
           \/ \E kind \in {"read", "delete"}, s \in Slots : StartOther(kind, s)
    PROVE  UNCHANGED files
BY DEF RetireRecovered, ReserveWorkspace, MakeTree, NewTree, FinalizeWorkspace,
   RetireReserved, Refuse, Undone, Opened, Check, ReservePublish, ClaimTemporary,
   PreparePublish, AdvanceBackup, AdvanceInstalled, CommitPublish, ClearPublish,
   BeginDelete, Begun, Deleting, ResumeDelete, InspectLayout, ItemsRemoved, PlanItem,
   Itemise, QuarantineTree, MoveTree, ClearDeleted, StartOther, Ask, Fault, Die

LEMMA ForeignStep == RegInv /\ [Next]_vars => KeepsForeign
<1> SUFFICES ASSUME RegInv, [Next]_vars PROVE KeepsForeign
  OBVIOUS
<1>1. CASE UNCHANGED vars
  BY <1>1, KeptFiles DEF vars
<1>2. CASE Next
  <2>1. CASE \E s \in Slots, c \in Contents : Ask(s, c)
    BY <2>1, ForeignOthers, KeptFiles
  <2>2. CASE \E kind \in {"read", "delete"}, s \in Slots : StartOther(kind, s)
    BY <2>2, ForeignOthers, KeptFiles
  <2>3. CASE Fault \/ Die
    BY <2>3, ForeignOthers, KeptFiles, ForeignOthers, KeptFiles
  <2>4. CASE \E n \in Names : Meddle(n)
    BY <2>4, ForeignMeddle
  <2>5. CASE Steps
    <3>1. CASE RetireRecovered \/ ReserveWorkspace \/ MakeTree \/ FinalizeWorkspace \/
              RetireReserved \/ Refuse \/ RecoverIntent \/ RollBack \/ RollForward \/ Discard \/
              Undone \/ Opened
      BY <3>1, ForeignOthers, KeptFiles, ForeignRecoverIntent, ForeignRollBack,
         ForeignRollForward, ForeignDiscard 
    <3>2. CASE Check \/ ReservePublish \/ CreateTemporary \/ ClaimTemporary \/ WriteTemporary \/
              PreparePublish \/ BackUp \/ AdvanceBackup \/ Install \/ AdvanceInstalled \/
              CommitPublish \/ CleanBackup
      BY <3>2, ForeignOthers, KeptFiles, ForeignCreateTemporary, ForeignWriteTemporary,
         ForeignBackUp, ForeignInstall, ForeignCleanBackup 
    <3>3. CASE ClearPublish \/ BeginDelete \/ ResumeDelete \/ InspectLayout \/ ItemsRemoved \/
              QuarantineTree \/ ClearDeleted
      BY <3>3, ForeignOthers, KeptFiles 
    <3>4. CASE \E s \in Slots : PlanItem(s) \/ QuarantineItem(s) \/ RemoveItem(s)
      BY <3>4, ForeignOthers, KeptFiles, ForeignQuarantineItem, ForeignRemoveItem 
    <3>5. QED BY <2>5, <3>1, <3>2, <3>3, <3>4 DEF Steps
  <2>6. QED BY <1>2, <2>1, <2>2, <2>3, <2>4, <2>5, NextCases
<1>3. QED BY <1>1, <1>2

(* No step of the store removes, renames or writes over a file that        *)
(* somebody else put into the evidence directory.                          *)
THEOREM OthersFilesKept == Spec => ForeignKept
<1>1. RegInv /\ [Next]_vars => [KeepsForeign]_vars
  BY ForeignStep
<1>2. QED BY <1>1, RegistryHolds, PTL DEF Spec, ForeignKept, KeepsForeign

(***************************************************************************)
(* The files of the store, one action after the other.                     *)
(***************************************************************************)
Placed(s) ==
    /\ NotOurs(<<"other", s>>)
    /\ NotOurs(Target(s)) \/ files[Target(s)] = claims[s] \/ (pub.stage # "none" /\ pub.slot = s)
    /\ NotOurs(Temporary(s)) \/ (pub.stage # "none" /\ pub.slot = s)
    /\ NotOurs(Backup(s)) \/ (pub.stage # "none" /\ pub.slot = s)
    /\ NotOurs(Quarantine(s)) \/ items[s] \in {"named", "quarantined"}

LEMMA AllPlaced ==
    /\ NoLitter => \A s \in Slots : Placed(s)
    /\ (\A s \in Slots : Placed(s)') => NoLitter'
<1>1. NoLitter => \A s \in Slots : Placed(s)
  BY DEF NoLitter, Placed, NotOurs, Names, NameKinds, Target, Temporary, Backup, Quarantine
<1>2. ASSUME \A s \in Slots : Placed(s)', NEW n \in Names, files'[n] \notin {NoFile, Foreign}
      PROVE  \/ n[1] = "target" /\ files'[n] = claims'[n[2]]
             \/ n[1] \in {"target", "temporary", "backup"} /\ pub'.stage # "none" /\ pub'.slot = n[2]
             \/ n[1] = "quarantine" /\ items'[n[2]] \in {"named", "quarantined"}
  <2>1. PICK k \in NameKinds, s \in Slots : n = <<k, s>>
    BY DEF Names
  <2>2. QED BY <1>2, <2>1 DEF Placed, NotOurs, Target, Temporary, Backup, Quarantine, NameKinds
<1>3. QED BY <1>1, <1>2 DEF NoLitter

LEMMA QuietCall ==
    ASSUME RegInv, FileInv, UNCHANGED <<registry, disk, ops, foreign>>,
           op'.pc \in {"idle", "unreserve"} \union Undoing, op'.id \in {0, op.id}
    PROVE  FileInv'
<1>1. Fresh'
  BY Basics, ArtifactAssumption DEF FileInv, RegInv, TypeOK, Fresh
<1>2. NamesFit'
  BY DEF FileInv, NamesFit, NotOurs
<1>3. TreeFits' /\ ForeignCounted'
  BY DEF FileInv, TreeFits, EmptyTree, Vacant, ForeignCounted
<1>4. NothingLost'
  BY DEF FileInv, NothingLost
<1>5. NoLitter'
  BY DEF FileInv, NoLitter
<1>6. QED BY <1>1, <1>2, <1>3, <1>4, <1>5 DEF FileInv

LEMMA RaiseFiles ==
    ASSUME RegInv, FileInv, Raise
    PROVE  FileInv'
BY QuietCall, RaisedPc DEF Raise

LEMMA PublicationPlaced ==
    ASSUME RegInv, FileInv, pub.stage # "none", pub'.stage # "none", pub'.slot = pub.slot,
           UNCHANGED items, \A s \in Slots \ {pub.slot} : claims'[s] = claims[s],
           \A n \in Names : files'[n] # files[n] =>
               n \in {Target(pub.slot), Temporary(pub.slot), Backup(pub.slot)}
    PROVE  NoLitter'
<1>1. ASSUME NEW s \in Slots PROVE Placed(s)'
  <2>1. Placed(s) /\ pub.slot \in Slots
    BY AllPlaced DEF FileInv, RegInv, TypeOK
  <2>2. <<"other", s>> \in Names \ {Target(pub.slot), Temporary(pub.slot), Backup(pub.slot)}
    BY DEF Names, NameKinds, Target, Temporary, Backup
  <2>3. QED BY <2>1, <2>2, NamesDiffer DEF Placed, NotOurs
<1>2. QED BY <1>1, AllPlaced

LEMMA PubRetired ==
    ASSUME RegInv, FileInv, pub.stage # "none", pub' = NoPub, UNCHANGED <<claims, items, files>>,
           NotOurs(Temporary(pub.slot)), NotOurs(Backup(pub.slot)),
           files[Target(pub.slot)] \in {NoFile, Foreign, claims[pub.slot]}
    PROVE  NoLitter'
<1>1. ASSUME NEW s \in Slots PROVE Placed(s)'
  BY AllPlaced DEF FileInv, Placed, NotOurs
<1>2. QED BY <1>1, AllPlaced

LEMMA FilesRetireRecovered ==
    ASSUME RegInv, FileInv, RetireRecovered
    PROVE  FileInv'
<1>1. Fresh'
  BY RaisedPc DEF RetireRecovered, RegInv, FileInv, TypeOK, Fresh, NoOp
<1>2. NamesFit'
  BY RaisedPc DEF RetireRecovered, RegInv, FileInv, TypeOK, NamesFit, NotOurs, NoOp
<1>3. TreeFits'
  BY RaisedPc DEF RetireRecovered, RegInv, FileInv, TypeOK, TreeFits, EmptyTree, Vacant,
     NoOp
<1>4. ForeignCounted'
  BY DEF RetireRecovered, FileInv, ForeignCounted
<1>5. NothingLost'
  BY DEF RetireRecovered, FileInv, NothingLost
<1>6. NoLitter'
  BY DEF RetireRecovered, FileInv, NoLitter
<1>7. QED BY <1>1, <1>2, <1>3, <1>4, <1>5, <1>6 DEF FileInv

LEMMA FilesReserveWorkspace ==
    ASSUME RegInv, FileInv, ReserveWorkspace
    PROVE  FileInv'
<1>1. Fresh'
  BY RaisedPc DEF ReserveWorkspace, RegInv, FileInv, TypeOK, Fresh, NoOp
<1>2. NamesFit'
  BY RaisedPc DEF ReserveWorkspace, RegInv, FileInv, TypeOK, NamesFit, NotOurs, NoOp
<1>3. TreeFits'
  BY RaisedPc DEF ReserveWorkspace, RegInv, FileInv, TypeOK, TreeFits, EmptyTree, Vacant,
     NoOp
<1>4. ForeignCounted'
  BY DEF ReserveWorkspace, FileInv, ForeignCounted
<1>5. NothingLost'
  BY DEF ReserveWorkspace, FileInv, NothingLost
<1>6. NoLitter'
  BY DEF ReserveWorkspace, FileInv, NoLitter
<1>7. QED BY <1>1, <1>2, <1>3, <1>4, <1>5, <1>6 DEF FileInv

LEMMA FilesMakeTree ==
    ASSUME RegInv, FileInv, MakeTree
    PROVE  FileInv'
<1>1. Fresh'
  BY RaisedPc DEF MakeTree, NewTree, RegInv, FileInv, TypeOK, Fresh, NoOp
<1>2. NamesFit'
  BY RaisedPc DEF MakeTree, NewTree, RegInv, FileInv, TypeOK, NamesFit, NotOurs, NoOp
<1>3. TreeFits'
  BY RaisedPc DEF MakeTree, NewTree, RegInv, FileInv, TypeOK, TreeFits, EmptyTree, Vacant,
     NoOp
<1>4. ForeignCounted'
  BY DEF MakeTree, NewTree, FileInv, ForeignCounted
<1>5. NothingLost'
  BY DEF MakeTree, NewTree, FileInv, NothingLost
<1>6. NoLitter'
  BY DEF MakeTree, NewTree, FileInv, NoLitter
<1>7. QED BY <1>1, <1>2, <1>3, <1>4, <1>5, <1>6 DEF FileInv

LEMMA FilesFinalizeWorkspace ==
    ASSUME RegInv, FileInv, FinalizeWorkspace
    PROVE  FileInv'
<1>1. Fresh'
  BY RaisedPc DEF FinalizeWorkspace, RegInv, FileInv, TypeOK, Fresh, NoOp
<1>2. NamesFit'
  BY RaisedPc DEF FinalizeWorkspace, RegInv, FileInv, TypeOK, NamesFit, NotOurs, NoOp
<1>3. TreeFits'
  BY RaisedPc DEF FinalizeWorkspace, RegInv, FileInv, TypeOK, TreeFits, EmptyTree, Vacant,
     NoOp
<1>4. ForeignCounted'
  BY DEF FinalizeWorkspace, FileInv, ForeignCounted
<1>5. NothingLost'
  BY Basics, NamesDiffer DEF FinalizeWorkspace, RegInv, FileInv, TypeOK, NothingLost,
     CallStage, CallPhase, NoPub, Accepted, AcceptedPublication
<1>6. NoLitter'
  BY DEF FinalizeWorkspace, FileInv, NoLitter
<1>7. QED BY <1>1, <1>2, <1>3, <1>4, <1>5, <1>6 DEF FileInv

LEMMA FilesRetireReserved ==
    ASSUME RegInv, FileInv, RetireReserved
    PROVE  FileInv'
<1>1. Fresh'
  BY RaisedPc DEF RetireReserved, RegInv, FileInv, TypeOK, Fresh, NoOp
<1>2. NamesFit'
  BY RaisedPc DEF RetireReserved, RegInv, FileInv, TypeOK, NamesFit, NotOurs, NoOp
<1>3. TreeFits'
  BY RaisedPc DEF RetireReserved, FileInv, TreeFits, EmptyTree, Vacant, NoOp
<1>4. ForeignCounted'
  BY DEF RetireReserved, FileInv, ForeignCounted
<1>5. NothingLost'
  BY DEF RetireReserved, FileInv, NothingLost
<1>6. NoLitter'
  BY DEF RetireReserved, FileInv, NoLitter
<1>7. QED BY <1>1, <1>2, <1>3, <1>4, <1>5, <1>6 DEF FileInv

LEMMA FilesRefuse ==
    ASSUME RegInv, FileInv, Refuse
    PROVE  FileInv'
BY QuietCall DEF Refuse, NoOp

LEMMA LitterRecoverIntent ==
    ASSUME RegInv, FileInv, RecoverIntent
    PROVE  NoLitter'
<1>1. CASE pub' = pub
  BY <1>1, RecoverIntentEffect, PublicationPlaced, NamesDiffer DEF RegInv, TypeOK
<1>2. CASE pub' = NoPub /\ files' = files /\ files[Temporary(pub.slot)] = NoFile
           /\ files[Backup(pub.slot)] = NoFile
  BY <1>2, RecoverIntentEffect, PubRetired DEF FileInv, NamesFit, NotOurs
<1>3. QED BY <1>1, <1>2, RecoverIntentEffect

LEMMA FilesRecoverIntent ==
    ASSUME RegInv, FileInv, RecoverIntent
    PROVE  FileInv'
<1>1. Fresh'
  BY RaisedPc, Basics, ArtifactAssumption DEF RecoverIntent, ClearIntent, Move, Delete,
     Recovering, RegInv, FileInv, TypeOK, Fresh, CallPhase, CallStage, NoPub, NoOp
<1>2. NamesFit'
  BY RaisedPc, NamesDiffer DEF RecoverIntent, ClearIntent, Move, Delete, Recovering, RegInv,
     FileInv, TypeOK, NamesFit, NotOurs, CallStage, NoPub, NoOp
<1>3. TreeFits'
  BY RaisedPc DEF RecoverIntent, ClearIntent, Move, Delete, Recovering, RegInv, FileInv,
     TypeOK, TreeFits, EmptyTree, Vacant, NoOp
<1>4. ForeignCounted'
  BY Basics, NamesDiffer, ArtifactAssumption DEF RecoverIntent, ClearIntent, Move, Delete,
     Recovering, RegInv, FileInv, TypeOK, ForeignCounted, Foreign, NoFile
<1>5. NothingLost'
  BY Basics, NamesDiffer DEF RecoverIntent, ClearIntent, Move, Delete, Recovering, RegInv,
     FileInv, TypeOK, NothingLost, CallStage, CallPhase, NoPub, Accepted,
     AcceptedPublication
<1>6. NoLitter'
  BY LitterRecoverIntent
<1>7. QED BY <1>1, <1>2, <1>3, <1>4, <1>5, <1>6 DEF FileInv

LEMMA LitterRollBack ==
    ASSUME RegInv, FileInv, RollBack
    PROVE  NoLitter'
<1>1. /\ pub.stage \in {"prepared", "backup"} /\ pub.slot \in Slots /\ claims[pub.slot] = pub.old
      /\ files \in [Names -> File]
      /\ UNCHANGED <<claims, items>>
  BY DEF RollBack, AbortPublish, Delete, Move, RegInv, TypeOK, Accepted, AcceptedPublication
<1>2. \/ pub' = pub
         /\ \/ files' = files
            \/ files' = [files EXCEPT ![Target(pub.slot)] = NoFile]
            \/ files' = [files EXCEPT ![Temporary(pub.slot)] = NoFile]
            \/ files' = [files EXCEPT ![Target(pub.slot)] = files[Backup(pub.slot)],
                                      ![Backup(pub.slot)] = NoFile]
      \/ /\ pub' = NoPub /\ files' = files /\ files[Temporary(pub.slot)] = NoFile
         /\ files[Backup(pub.slot)] = NoFile /\ files[Target(pub.slot)] = pub.old
  BY DEF RollBack, AbortPublish, Delete, Move
<1>3. CASE pub' = pub
  BY <1>1, <1>2, <1>3, PublicationPlaced, NamesDiffer
<1>4. CASE pub' # pub
  BY <1>1, <1>2, <1>4, PubRetired DEF NotOurs
<1>5. QED BY <1>3, <1>4

LEMMA FilesRollBack ==
    ASSUME RegInv, FileInv, RollBack
    PROVE  FileInv'
<1>1. Fresh'
  BY RaisedPc, Basics, ArtifactAssumption DEF RollBack, AbortPublish, Move, Delete,
     Recovering, RegInv, FileInv, TypeOK, Fresh, CallPhase, CallStage, NoPub, NoOp
<1>2. NamesFit'
  BY RaisedPc, NamesDiffer DEF RollBack, AbortPublish, Move, Delete, Recovering, RegInv,
     FileInv, TypeOK, NamesFit, NotOurs, CallStage, NoPub, NoOp
<1>3. TreeFits'
  BY RaisedPc DEF RollBack, AbortPublish, Move, Delete, Recovering, RegInv, FileInv, TypeOK,
     TreeFits, EmptyTree, Vacant, NoOp
<1>4. ForeignCounted'
  BY Basics, NamesDiffer, ArtifactAssumption DEF RollBack, AbortPublish, Move, Delete,
     Recovering, RegInv, FileInv, TypeOK, ForeignCounted, Foreign, NoFile
<1>5. NothingLost'
  BY Basics, NamesDiffer, ArtifactAssumption DEF RollBack, AbortPublish, Move, Delete,
     Recovering, RegInv, FileInv, TypeOK, NothingLost, NamesFit, ForeignCounted, CallStage,
     CallPhase, Fresh, NoPub, NoFile, NewClaim, Accepted, AcceptedPublication
<1>6. NoLitter'
  BY LitterRollBack
<1>7. QED BY <1>1, <1>2, <1>3, <1>4, <1>5, <1>6 DEF FileInv

LEMMA FilesRollForward ==
    ASSUME RegInv, FileInv, RollForward
    PROVE  FileInv'
<1>1. /\ files \in [Names -> File] /\ claims \in [Slots -> Artifact \union {NoFile}]
      /\ pub.slot \in Slots
      /\ Commits => pub'.stage = "committed" /\ pub'.slot = pub.slot
      /\ claims[pub.slot] = NewClaim \/ pub.stage = "installed"
  BY RollForwardEffect DEF RegInv, TypeOK, Accepted, AcceptedPublication, Commits
<1>2. \/ op' = op
      \/ op'.pc \in {"idle", "unreserve"} \union Undoing /\ op'.id \in {0, op.id}
  BY RollForwardEffect, RaisedPc
<1>3. CASE op' = Raised /\ UNCHANGED <<claims, pub, files>>
  BY <1>3, RollForwardEffect, RaisedPc, QuietCall
<1>4. CASE Commits \/ Clears \/ Cleans
  <2>1. Fresh'
    BY <1>1, <1>2, <1>4, RollForwardEffect, Basics, ArtifactAssumption
       DEF Fresh, FileInv, RegInv, TypeOK, NewClaim, NoPub, NoFile, Artifact, Commits, Clears, Cleans
  <2>2. NamesFit'
    <3>1. pub'.stage # "intent"
      BY <1>1, <1>4 DEF NoPub, Clears, Cleans
    <3>2. QED BY <1>2, <3>1, RollForwardEffect DEF NamesFit
  <2>3. TreeFits'
    BY <1>1, <1>2, <1>4, RollForwardEffect DEF TreeFits, FileInv
  <2>4. ForeignCounted'
    BY <1>1, <1>4, RollForwardEffect, NamesDiffer, Basics
       DEF ForeignCounted, FileInv, Commits, Clears, Cleans
  <2>5. NothingLost'
    BY <1>1, <1>4, RollForwardEffect, NamesDiffer
       DEF NothingLost, FileInv, NoPub, NewClaim, Commits, Clears, Cleans
  <2>6. NoLitter'
    <3>1. CASE Clears
      BY <3>1, <1>1, RollForwardEffect, PubRetired DEF NotOurs, Clears
    <3>2. CASE Commits \/ Cleans
      BY <3>2, <1>1, RollForwardEffect, PublicationPlaced, NamesDiffer DEF Commits, Cleans
    <3>3. QED BY <1>4, <3>1, <3>2
  <2>7. QED BY <2>1, <2>2, <2>3, <2>4, <2>5, <2>6 DEF FileInv
<1>5. QED BY <1>3, <1>4, RollForwardEffect

LEMMA FilesDiscard ==
    ASSUME RegInv, FileInv, Discard
    PROVE  FileInv'
<1>1. Fresh'
  BY RaisedPc DEF Discard, RegInv, FileInv, TypeOK, Fresh, NoOp
<1>2. NamesFit'
  BY RaisedPc DEF Discard, RegInv, FileInv, TypeOK, NamesFit, NotOurs, NoOp
<1>3. TreeFits'
  BY RaisedPc DEF Discard, FileInv, TreeFits, EmptyTree, Vacant, NoOp
<1>4. ForeignCounted'
  BY Basics, NamesDiffer, ArtifactAssumption DEF Discard, RegInv, FileInv, TypeOK,
     ForeignCounted, Foreign, NoFile
<1>5. NothingLost'
  BY Basics, NamesDiffer DEF Discard, RegInv, FileInv, TypeOK, NothingLost, CallStage,
     CallPhase, NoPub, Accepted, AcceptedPublication
<1>6. NoLitter'
  BY DEF Discard, FileInv, NoLitter
<1>7. QED BY <1>1, <1>2, <1>3, <1>4, <1>5, <1>6 DEF FileInv

LEMMA FilesUndone ==
    ASSUME RegInv, FileInv, Undone
    PROVE  FileInv'
BY QuietCall DEF Undone, NoOp

LEMMA FilesOpened ==
    ASSUME RegInv, FileInv, Opened
    PROVE  FileInv'
<1>1. Fresh'
  BY RaisedPc DEF Opened, RegInv, FileInv, TypeOK, Fresh, NoOp
<1>2. NamesFit'
  BY RaisedPc DEF Opened, RegInv, FileInv, TypeOK, NamesFit, NotOurs, NoOp
<1>3. TreeFits'
  BY RaisedPc DEF Opened, FileInv, TreeFits, EmptyTree, Vacant, NoOp
<1>4. ForeignCounted'
  BY DEF Opened, FileInv, ForeignCounted
<1>5. NothingLost'
  BY DEF Opened, FileInv, NothingLost
<1>6. NoLitter'
  BY DEF Opened, FileInv, NoLitter
<1>7. QED BY <1>1, <1>2, <1>3, <1>4, <1>5, <1>6 DEF FileInv

LEMMA FilesCheck ==
    ASSUME RegInv, FileInv, Check
    PROVE  FileInv'
<1>1. Fresh'
  BY RaisedPc DEF Check, RegInv, FileInv, TypeOK, Fresh, NoOp
<1>2. NamesFit'
  BY RaisedPc DEF Check, RegInv, FileInv, TypeOK, NamesFit, NotOurs, NoOp
<1>3. TreeFits'
  BY RaisedPc DEF Check, RegInv, FileInv, TypeOK, TreeFits, EmptyTree, Vacant, NoOp
<1>4. ForeignCounted'
  BY DEF Check, FileInv, ForeignCounted
<1>5. NothingLost'
  BY DEF Check, FileInv, NothingLost
<1>6. NoLitter'
  BY DEF Check, FileInv, NoLitter
<1>7. QED BY <1>1, <1>2, <1>3, <1>4, <1>5, <1>6 DEF FileInv

LEMMA NamesReservePublish ==
    ASSUME RegInv, FileInv, ReservePublish
    PROVE  NamesFit'
<1>1. CASE Raise
  BY <1>1, RaiseFiles DEF FileInv
<1>2. CASE ~Raise
  <2>1. /\ op.slot \in Slots /\ pub.stage = "none" /\ Placed(op.slot)
        /\ pub' = [stage |-> "intent", slot |-> op.slot, id |-> 0,
                   content |-> op.content, old |-> claims[op.slot]]
        /\ UNCHANGED <<claims, files>>
    BY <1>2, AllPlaced DEF ReservePublish, RegInv, TypeOK, FileInv
  <2>2. \/ op'.pc = "create" /\ op'.slot = op.slot
        \/ op'.pc \in {"idle", "unreserve"} \union Undoing
    BY <1>2, RaisedPc DEF ReservePublish, RegInv, TypeOK
  <2>3. QED BY <2>1, <2>2 DEF NamesFit, Placed, NotOurs
<1>3. QED BY <1>1, <1>2

LEMMA FilesReservePublish ==
    ASSUME RegInv, FileInv, ReservePublish
    PROVE  FileInv'
<1>1. Fresh'
  BY RaisedPc, Basics, ArtifactAssumption DEF ReservePublish, RegInv, FileInv, TypeOK,
     Fresh, CallStage, Artifact, NoPub, NoFile, NoOp, NewClaim, CallPhase, Accepted,
     AcceptedPublication
<1>2. NamesFit'
  BY NamesReservePublish
<1>3. TreeFits'
  BY RaisedPc DEF ReservePublish, RegInv, FileInv, TypeOK, TreeFits, EmptyTree, Vacant, NoOp
<1>4. ForeignCounted'
  BY DEF ReservePublish, FileInv, ForeignCounted
<1>5. NothingLost'
  BY DEF ReservePublish, FileInv, NothingLost
<1>6. NoLitter'
  BY DEF ReservePublish, FileInv, NoLitter
<1>7. QED BY <1>1, <1>2, <1>3, <1>4, <1>5, <1>6 DEF FileInv

LEMMA FilesCreateTemporary ==
    ASSUME RegInv, FileInv, CreateTemporary
    PROVE  FileInv'
<1>1. CASE ~Vacant(Temporary(op.slot))
  BY <1>1, RaiseFiles DEF CreateTemporary
<1>2. CASE Vacant(Temporary(op.slot))
  <2>1. /\ files' = [files EXCEPT ![Temporary(op.slot)] = [id |-> ops, content |-> Partial]]
        /\ UNCHANGED <<registry, dir, ops, foreign>>
    BY <1>2 DEF CreateTemporary
  <2>2. \/ op'.pc = "claim" /\ op'.slot = op.slot /\ op'.id = ops
        \/ op'.pc \in {"idle", "unreserve"} \union Undoing /\ op'.id \in {0, op.id}
    BY <1>2, RaisedPc DEF CreateTemporary, RegInv, TypeOK
  <2>3. /\ pub.stage = "intent" /\ pub.slot = op.slot /\ pub.id = 0 /\ phase = "active"
        /\ op.pc = "create" /\ op.slot \in Slots /\ files \in [Names -> File]
    BY DEF CreateTemporary, RegInv, TypeOK, CallStage, CallPhase
  <2>4. Fresh'
    BY <2>1, <2>2, <2>3, Basics, ArtifactAssumption DEF Fresh, FileInv, RegInv, TypeOK, Artifact, NoFile
  <2>5. NamesFit'
    BY <2>1, <2>2, <2>3, NamesDiffer DEF NamesFit, FileInv, NotOurs
  <2>6. TreeFits'
    BY <2>1, <2>2, <2>3 DEF TreeFits, FileInv
  <2>7. ForeignCounted'
    BY <2>1, <2>3, NamesDiffer, ArtifactAssumption DEF ForeignCounted, Foreign, FileInv, RegInv, TypeOK
  <2>8. NothingLost'
    BY <2>1, <2>3, NamesDiffer DEF NothingLost, FileInv
  <2>9. NoLitter'
    BY <2>1, <2>3, PublicationPlaced
  <2>10. QED BY <2>4, <2>5, <2>6, <2>7, <2>8, <2>9 DEF FileInv
<1>3. QED BY <1>1, <1>2

LEMMA FilesClaimTemporary ==
    ASSUME RegInv, FileInv, ClaimTemporary
    PROVE  FileInv'
<1>1. Fresh'
  BY RaisedPc, Basics, ArtifactAssumption DEF ClaimTemporary, RegInv, FileInv, TypeOK,
     Fresh, CallPhase, CallStage, NoPub, NoOp
<1>2. NamesFit'
  BY RaisedPc DEF ClaimTemporary, RegInv, FileInv, TypeOK, NamesFit, NotOurs, NoOp
<1>3. TreeFits'
  BY RaisedPc DEF ClaimTemporary, RegInv, FileInv, TypeOK, TreeFits, EmptyTree, Vacant, NoOp
<1>4. ForeignCounted'
  BY DEF ClaimTemporary, FileInv, ForeignCounted
<1>5. NothingLost'
  BY DEF ClaimTemporary, FileInv, NothingLost
<1>6. NoLitter'
  BY DEF ClaimTemporary, FileInv, NoLitter
<1>7. QED BY <1>1, <1>2, <1>3, <1>4, <1>5, <1>6 DEF FileInv

LEMMA FilesWriteTemporary ==
    ASSUME RegInv, FileInv, WriteTemporary
    PROVE  FileInv'
<1>1. /\ \/ files' = files
         \/ files' = [files EXCEPT ![Temporary(op.slot)].content = op.content]
      /\ UNCHANGED <<registry, dir, ops, foreign>>
      /\ files'[Temporary(op.slot)] # files[Temporary(op.slot)]
            => files[Temporary(op.slot)].id = op.id
  BY DEF WriteTemporary
<1>2. \/ op'.pc = "prepare" /\ op'.slot = op.slot /\ op'.id = op.id
      \/ op'.pc \in {"idle", "unreserve"} \union Undoing /\ op'.id \in {0, op.id}
  BY RaisedPc DEF WriteTemporary, RegInv, TypeOK
<1>3. /\ pub.stage = "intent" /\ pub.slot = op.slot /\ pub.id = op.id /\ phase = "active"
      /\ op.pc = "write" /\ op.slot \in Slots /\ files \in [Names -> File] /\ op.id \in 0..MaxOps
  BY DEF WriteTemporary, RegInv, TypeOK, CallStage, CallPhase
<1>4. Fresh'
  BY <1>1, <1>2, <1>3, ArtifactAssumption DEF Fresh, FileInv, RegInv, TypeOK
<1>5. NamesFit'
  BY <1>1, <1>2, <1>3, NamesDiffer DEF NamesFit, FileInv, NotOurs
<1>6. TreeFits'
  BY <1>1, <1>2, <1>3 DEF TreeFits, FileInv
<1>7. ForeignCounted'
  <2>1. files[Temporary(op.slot)] \in File
    BY <1>3, NamesDiffer
  <2>2. [files[Temporary(op.slot)] EXCEPT !.content = op.content].id = files[Temporary(op.slot)].id
    BY <2>1 DEF File
  <2>3. files'[Temporary(op.slot)] # files[Temporary(op.slot)] => files'[Temporary(op.slot)].id = op.id
    BY <1>1, <1>3, <2>2, NamesDiffer
  <2>4. op.id # Foreign.id
    BY <1>3, ArtifactAssumption DEF Foreign
  <2>5. QED BY <1>1, <1>3, <2>3, <2>4 DEF ForeignCounted, FileInv
<1>8. NothingLost'
  BY <1>1, <1>3, NamesDiffer DEF NothingLost, FileInv
<1>9. NoLitter'
  BY <1>1, <1>3, PublicationPlaced
<1>10. QED BY <1>4, <1>5, <1>6, <1>7, <1>8, <1>9 DEF FileInv

LEMMA FilesPreparePublish ==
    ASSUME RegInv, FileInv, PreparePublish
    PROVE  FileInv'
<1>1. Fresh'
  BY RaisedPc, Basics, ArtifactAssumption DEF PreparePublish, RegInv, FileInv, TypeOK,
     Fresh, CallPhase, CallStage, NoPub, NoOp
<1>2. NamesFit'
  BY RaisedPc DEF PreparePublish, RegInv, FileInv, TypeOK, NamesFit, NotOurs, NoOp
<1>3. TreeFits'
  BY RaisedPc DEF PreparePublish, RegInv, FileInv, TypeOK, TreeFits, EmptyTree, Vacant, NoOp
<1>4. ForeignCounted'
  BY DEF PreparePublish, FileInv, ForeignCounted
<1>5. NothingLost'
  BY DEF PreparePublish, FileInv, NothingLost
<1>6. NoLitter'
  BY DEF PreparePublish, FileInv, NoLitter
<1>7. QED BY <1>1, <1>2, <1>3, <1>4, <1>5, <1>6 DEF FileInv

LEMMA LitterBackUp ==
    ASSUME RegInv, FileInv, BackUp
    PROVE  NoLitter'
<1>1. /\ \/ files' = files
         \/ files' = [files EXCEPT ![Backup(op.slot)] = files[Target(op.slot)],
                                   ![Target(op.slot)] = NoFile]
      /\ UNCHANGED registry
  BY DEF BackUp, Move
<1>2. pub.stage = "prepared" /\ pub.slot = op.slot
  BY DEF BackUp, RegInv, CallStage
<1>3. QED BY <1>1, <1>2, PublicationPlaced, NamesDiffer DEF RegInv, TypeOK

LEMMA FilesBackUp ==
    ASSUME RegInv, FileInv, BackUp
    PROVE  FileInv'
<1>1. Fresh'
  BY RaisedPc DEF BackUp, Move, Vacant, RegInv, FileInv, TypeOK, Fresh, NoOp
<1>2. NamesFit'
  BY RaisedPc, NamesDiffer DEF BackUp, Move, Vacant, RegInv, FileInv, TypeOK, NamesFit,
     NotOurs, CallStage, NoPub, NoOp
<1>3. TreeFits'
  BY RaisedPc, Basics, NamesDiffer DEF BackUp, Move, Vacant, RegInv, FileInv, TypeOK,
     CallPhase, TreeFits, EmptyTree, NoOp
<1>4. ForeignCounted'
  BY Basics, NamesDiffer, ArtifactAssumption DEF BackUp, Move, Vacant, RegInv, FileInv,
     TypeOK, ForeignCounted, Foreign, NoFile
<1>5. NothingLost'
  BY Basics, NamesDiffer DEF BackUp, Move, Vacant, RegInv, FileInv, TypeOK, NothingLost,
     CallStage, CallPhase, NoPub, Accepted, AcceptedPublication
<1>6. NoLitter'
  BY LitterBackUp
<1>7. QED BY <1>1, <1>2, <1>3, <1>4, <1>5, <1>6 DEF FileInv

LEMMA FilesAdvanceBackup ==
    ASSUME RegInv, FileInv, AdvanceBackup
    PROVE  FileInv'
<1>1. Fresh'
  BY RaisedPc, Basics, ArtifactAssumption DEF AdvanceBackup, RegInv, FileInv, TypeOK, Fresh,
     CallPhase, CallStage, NoPub, NoOp
<1>2. NamesFit'
  BY RaisedPc DEF AdvanceBackup, RegInv, FileInv, TypeOK, NamesFit, NotOurs, NoOp
<1>3. TreeFits'
  BY RaisedPc DEF AdvanceBackup, RegInv, FileInv, TypeOK, TreeFits, EmptyTree, Vacant, NoOp
<1>4. ForeignCounted'
  BY DEF AdvanceBackup, FileInv, ForeignCounted
<1>5. NothingLost'
  BY DEF AdvanceBackup, FileInv, NothingLost
<1>6. NoLitter'
  BY DEF AdvanceBackup, FileInv, NoLitter
<1>7. QED BY <1>1, <1>2, <1>3, <1>4, <1>5, <1>6 DEF FileInv

LEMMA FilesInstall ==
    ASSUME RegInv, FileInv, Install
    PROVE  FileInv'
<1>1. CASE ~(files[Temporary(op.slot)] = NewClaim /\ Vacant(Target(op.slot)))
  BY <1>1, RaiseFiles DEF Install
<1>2. CASE files[Temporary(op.slot)] = NewClaim /\ Vacant(Target(op.slot))
  <2>1. /\ files' = [files EXCEPT ![Target(op.slot)] = NewClaim, ![Temporary(op.slot)] = NoFile]
        /\ UNCHANGED <<registry, dir, ops, foreign>>
    BY <1>2 DEF Install, Move
  <2>2. \/ op'.pc = "confirm" /\ op'.slot = op.slot /\ op'.id = op.id
        \/ op'.pc \in {"idle", "unreserve"} \union Undoing /\ op'.id \in {0, op.id}
    BY <1>2, RaisedPc DEF Install, RegInv, TypeOK
  <2>3. /\ pub.stage = "backup" /\ pub.slot = op.slot /\ phase = "active" /\ pub.id \in 0..MaxOps
        /\ op.pc = "install" /\ op.slot \in Slots /\ files \in [Names -> File]
        /\ claims[op.slot] = pub.old
    BY DEF Install, RegInv, TypeOK, CallStage, CallPhase, Accepted, AcceptedPublication
  <2>4. Fresh'
    BY <2>1, <2>2, <2>3, ArtifactAssumption DEF Fresh, FileInv, RegInv, TypeOK
  <2>5. NamesFit'
    BY <2>1, <2>2, <2>3, NamesDiffer DEF NamesFit, FileInv, NotOurs
  <2>6. TreeFits'
    BY <2>1, <2>2, <2>3 DEF TreeFits, FileInv
  <2>7. ForeignCounted'
    BY <2>1, <2>3, NamesDiffer, Basics, ArtifactAssumption DEF ForeignCounted, Foreign, NewClaim, FileInv, RegInv, TypeOK
  <2>8. NothingLost'
    BY <1>2, <2>1, <2>3, NamesDiffer DEF NothingLost, FileInv, Vacant
  <2>9. NoLitter'
    BY <2>1, <2>3, PublicationPlaced
  <2>10. QED BY <2>4, <2>5, <2>6, <2>7, <2>8, <2>9 DEF FileInv
<1>3. QED BY <1>1, <1>2

LEMMA FilesAdvanceInstalled ==
    ASSUME RegInv, FileInv, AdvanceInstalled
    PROVE  FileInv'
<1>1. Fresh'
  BY RaisedPc, Basics, ArtifactAssumption DEF AdvanceInstalled, RegInv, FileInv, TypeOK,
     Fresh, CallPhase, CallStage, NoPub, NoOp
<1>2. NamesFit'
  BY RaisedPc, Basics, NamesDiffer, ArtifactAssumption DEF AdvanceInstalled, RegInv,
     FileInv, TypeOK, NamesFit, NotOurs, Fresh, CallStage, NoPub, NoOp, NewClaim
<1>3. TreeFits'
  BY RaisedPc DEF AdvanceInstalled, RegInv, FileInv, TypeOK, TreeFits, EmptyTree, Vacant,
     NoOp
<1>4. ForeignCounted'
  BY DEF AdvanceInstalled, FileInv, ForeignCounted
<1>5. NothingLost'
  BY Basics, NamesDiffer DEF AdvanceInstalled, RegInv, FileInv, TypeOK, NothingLost,
     CallStage, CallPhase, NoPub, Accepted, AcceptedPublication
<1>6. NoLitter'
  <2>1. ASSUME NEW t \in Slots PROVE Placed(t)'
    BY AllPlaced, NamesDiffer DEF AdvanceInstalled, RegInv, FileInv, TypeOK, Placed, NotOurs
  <2>2. QED BY <2>1, AllPlaced
<1>7. QED BY <1>1, <1>2, <1>3, <1>4, <1>5, <1>6 DEF FileInv

LEMMA FilesCommitPublish ==
    ASSUME RegInv, FileInv, CommitPublish
    PROVE  FileInv'
<1>1. Fresh'
  BY RaisedPc, Basics, ArtifactAssumption DEF CommitPublish, RegInv, FileInv, TypeOK, Fresh,
     CallStage, Artifact, NoPub, NoFile, NoOp, NewClaim, CallPhase, Accepted,
     AcceptedPublication
<1>2. NamesFit'
  BY RaisedPc, Basics, NamesDiffer, ArtifactAssumption DEF CommitPublish, RegInv, FileInv,
     TypeOK, NamesFit, NotOurs, Fresh, CallStage, NoPub, NoOp, NewClaim
<1>3. TreeFits'
  BY RaisedPc DEF CommitPublish, RegInv, FileInv, TypeOK, TreeFits, EmptyTree, Vacant, NoOp
<1>4. ForeignCounted'
  BY DEF CommitPublish, FileInv, ForeignCounted
<1>5. NothingLost'
  BY Basics, NamesDiffer, ArtifactAssumption DEF CommitPublish, RegInv, FileInv, TypeOK,
     NothingLost, NamesFit, ForeignCounted, CallStage, CallPhase, Fresh, NoPub, NoFile,
     NewClaim, Accepted, AcceptedPublication
<1>6. NoLitter'
  BY DEF CommitPublish, FileInv, NoLitter
<1>7. QED BY <1>1, <1>2, <1>3, <1>4, <1>5, <1>6 DEF FileInv

LEMMA FilesCleanBackup ==
    ASSUME RegInv, FileInv, CleanBackup
    PROVE  FileInv'
<1>1. /\ pub.stage = "committed" /\ pub.slot = op.slot /\ op.slot \in Slots /\ phase = "active"
      /\ op.pc = "clean" /\ files \in [Names -> File] /\ claims[pub.slot] = NewClaim
  BY DEF CleanBackup, RegInv, TypeOK, CallStage, CallPhase, Accepted, AcceptedPublication
<1>2. CASE Raise
  BY <1>2, RaiseFiles
<1>3. CASE ~Raise
  <2>1. /\ UNCHANGED <<registry, dir, ops, foreign>>
        /\ \/ pub.old = NoFile /\ files' = files
           \/ files' = [files EXCEPT ![Backup(op.slot)] = NoFile]
    BY <1>3 DEF CleanBackup, Delete
  <2>2. \/ op'.pc = "clear" /\ op'.slot = op.slot /\ op'.id = op.id
        \/ op'.pc \in {"idle", "unreserve"} \union Undoing /\ op'.id \in {0, op.id}
    BY <1>3, RaisedPc DEF CleanBackup, RegInv, TypeOK
  <2>3. Fresh'
    BY <1>1, <2>1, <2>2, ArtifactAssumption DEF Fresh, FileInv, RegInv, TypeOK
  <2>4. NamesFit'
    BY <1>1, <2>1, <2>2, NamesDiffer DEF NamesFit, FileInv, NotOurs, NewClaim
  <2>5. TreeFits' /\ ForeignCounted'
    BY <1>1, <2>1, <2>2, NamesDiffer, Basics DEF TreeFits, ForeignCounted, FileInv
  <2>6. NothingLost'
    BY <1>1, <2>1, NamesDiffer DEF NothingLost, FileInv
  <2>7. NoLitter'
    BY <1>1, <2>1, PublicationPlaced
  <2>8. QED BY <2>3, <2>4, <2>5, <2>6, <2>7 DEF FileInv
<1>4. QED BY <1>2, <1>3

LEMMA FilesClearPublish ==
    ASSUME RegInv, FileInv, ClearPublish
    PROVE  FileInv'
<1>1. Fresh'
  BY RaisedPc, Basics, ArtifactAssumption DEF ClearPublish, RegInv, FileInv, TypeOK, Fresh,
     CallPhase, CallStage, NoPub, NoOp
<1>2. NamesFit'
  BY RaisedPc, NamesDiffer DEF ClearPublish, RegInv, FileInv, TypeOK, NamesFit, NotOurs,
     CallStage, NoPub, NoOp
<1>3. TreeFits'
  BY RaisedPc DEF ClearPublish, FileInv, TreeFits, EmptyTree, Vacant, NoOp
<1>4. ForeignCounted'
  BY DEF ClearPublish, FileInv, ForeignCounted
<1>5. NothingLost'
  BY Basics, NamesDiffer DEF ClearPublish, RegInv, FileInv, TypeOK, NothingLost, CallStage,
     CallPhase, NoPub, Accepted, AcceptedPublication
<1>6. NoLitter'
  <2>1. ASSUME NEW t \in Slots PROVE Placed(t)'
    BY Basics, AllPlaced, NamesDiffer, ArtifactAssumption DEF ClearPublish, RegInv, FileInv,
       TypeOK, Placed, NamesFit, NotOurs, CallStage, CallPhase, NoPub, NewClaim, Accepted,
       AcceptedPublication
  <2>2. QED BY <2>1, AllPlaced
<1>7. QED BY <1>1, <1>2, <1>3, <1>4, <1>5, <1>6 DEF FileInv

LEMMA FilesBeginDelete ==
    ASSUME RegInv, FileInv, BeginDelete
    PROVE  FileInv'
<1>1. Fresh'
  BY RaisedPc DEF BeginDelete, Begun, Deleting, RegInv, FileInv, TypeOK, Fresh, NoOp
<1>2. NamesFit'
  BY RaisedPc DEF BeginDelete, Begun, Deleting, RegInv, FileInv, TypeOK, NamesFit, NotOurs,
     NoOp
<1>3. TreeFits'
  BY RaisedPc DEF BeginDelete, Begun, Deleting, RegInv, FileInv, TypeOK, TreeFits,
     EmptyTree, Vacant, NoOp
<1>4. ForeignCounted'
  BY DEF BeginDelete, Begun, Deleting, FileInv, ForeignCounted
<1>5. NothingLost'
  BY DEF BeginDelete, Begun, Deleting, FileInv, NothingLost
<1>6. NoLitter'
  <2>1. ASSUME NEW t \in Slots PROVE Placed(t)'
    BY Basics, AllPlaced, NamesDiffer DEF BeginDelete, Begun, Deleting, RegInv, FileInv,
       TypeOK, Placed, NamesFit, NotOurs, CallStage, NoPub, Accepted
  <2>2. QED BY <2>1, AllPlaced
<1>7. QED BY <1>1, <1>2, <1>3, <1>4, <1>5, <1>6 DEF FileInv

LEMMA FilesResumeDelete ==
    ASSUME RegInv, FileInv, ResumeDelete
    PROVE  FileInv'
<1>1. Fresh'
  BY RaisedPc DEF ResumeDelete, Deleting, RegInv, FileInv, TypeOK, Fresh, NoOp
<1>2. NamesFit'
  BY RaisedPc DEF ResumeDelete, Deleting, RegInv, FileInv, TypeOK, NamesFit, NotOurs, NoOp
<1>3. TreeFits'
  BY RaisedPc DEF ResumeDelete, Deleting, FileInv, TreeFits, EmptyTree, Vacant, NoOp
<1>4. ForeignCounted'
  BY DEF ResumeDelete, Deleting, FileInv, ForeignCounted
<1>5. NothingLost'
  BY DEF ResumeDelete, Deleting, FileInv, NothingLost
<1>6. NoLitter'
  BY DEF ResumeDelete, Deleting, FileInv, NoLitter
<1>7. QED BY <1>1, <1>2, <1>3, <1>4, <1>5, <1>6 DEF FileInv

LEMMA FilesInspectLayout ==
    ASSUME RegInv, FileInv, InspectLayout
    PROVE  FileInv'
<1>1. Fresh'
  BY RaisedPc DEF InspectLayout, RegInv, FileInv, TypeOK, Fresh, NoOp
<1>2. NamesFit'
  BY RaisedPc DEF InspectLayout, RegInv, FileInv, TypeOK, NamesFit, NotOurs, NoOp
<1>3. TreeFits'
  BY RaisedPc DEF InspectLayout, RegInv, FileInv, TypeOK, TreeFits, EmptyTree, Vacant, NoOp
<1>4. ForeignCounted'
  BY DEF InspectLayout, FileInv, ForeignCounted
<1>5. NothingLost'
  BY DEF InspectLayout, FileInv, NothingLost
<1>6. NoLitter'
  BY DEF InspectLayout, FileInv, NoLitter
<1>7. QED BY <1>1, <1>2, <1>3, <1>4, <1>5, <1>6 DEF FileInv

LEMMA FilesItemsRemoved ==
    ASSUME RegInv, FileInv, ItemsRemoved
    PROVE  FileInv'
<1>1. Fresh'
  BY RaisedPc DEF ItemsRemoved, RegInv, FileInv, TypeOK, Fresh, NoOp
<1>2. NamesFit'
  BY RaisedPc DEF ItemsRemoved, RegInv, FileInv, TypeOK, NamesFit, NotOurs, NoOp
<1>3. TreeFits'
  BY RaisedPc DEF ItemsRemoved, FileInv, TreeFits, EmptyTree, Vacant, NoOp
<1>4. ForeignCounted'
  BY DEF ItemsRemoved, FileInv, ForeignCounted
<1>5. NothingLost'
  BY DEF ItemsRemoved, FileInv, NothingLost
<1>6. NoLitter'
  BY DEF ItemsRemoved, FileInv, NoLitter
<1>7. QED BY <1>1, <1>2, <1>3, <1>4, <1>5, <1>6 DEF FileInv

LEMMA FilesPlanItem ==
    ASSUME RegInv, FileInv, NEW s \in Slots, PlanItem(s)
    PROVE  FileInv'
<1>1. Fresh'
  BY RaisedPc DEF PlanItem, Itemise, RegInv, FileInv, TypeOK, Fresh, NoOp
<1>2. NamesFit'
  BY RaisedPc DEF PlanItem, Itemise, RegInv, FileInv, TypeOK, NamesFit, NotOurs, NoOp
<1>3. TreeFits'
  BY RaisedPc DEF PlanItem, Itemise, RegInv, FileInv, TypeOK, TreeFits, EmptyTree, Vacant,
     NoOp
<1>4. ForeignCounted'
  BY DEF PlanItem, Itemise, FileInv, ForeignCounted
<1>5. NothingLost'
  BY DEF PlanItem, Itemise, FileInv, NothingLost
<1>6. NoLitter'
  BY DEF PlanItem, Itemise, FileInv, NoLitter
<1>7. QED BY <1>1, <1>2, <1>3, <1>4, <1>5, <1>6 DEF FileInv

LEMMA LitterQuarantineItem ==
    ASSUME RegInv, FileInv, NEW s \in Slots, QuarantineItem(s)
    PROVE  NoLitter'
<1>1. /\ items[s] = "named" /\ items \in [Slots -> {"none", "planned", "named", "quarantined", "removed"}]
      /\ files \in [Names -> File]
      /\ \/ UNCHANGED <<files, items>>
         \/ items' = [items EXCEPT ![s] = "quarantined"] /\ files' = files
         \/ /\ files' = [files EXCEPT ![Quarantine(s)] = files[Target(s)], ![Target(s)] = NoFile]
            /\ items' = items
      /\ UNCHANGED <<pub, claims>>
  BY DEF QuarantineItem, Itemise, Move, RegInv, TypeOK
<1>2. ASSUME NEW t \in Slots PROVE Placed(t)'
  <2>1. Placed(t) /\ <<"other", t>> \in Names \ {Quarantine(s), Target(s)}
    BY AllPlaced DEF FileInv, Names, NameKinds, Quarantine, Target
  <2>2. QED BY <1>1, <2>1, NamesDiffer DEF Placed, NotOurs
<1>3. QED BY <1>2, AllPlaced

LEMMA FilesQuarantineItem ==
    ASSUME RegInv, FileInv, NEW s \in Slots, QuarantineItem(s)
    PROVE  FileInv'
<1>1. Fresh'
  BY RaisedPc DEF QuarantineItem, Itemise, Move, Vacant, Intact, RegInv, FileInv, TypeOK,
     Fresh, NoOp
<1>2. NamesFit'
  BY RaisedPc, NamesDiffer DEF QuarantineItem, Itemise, Move, Vacant, Intact, RegInv,
     FileInv, TypeOK, NamesFit, NotOurs, CallStage, NoPub, NoOp
<1>3. TreeFits'
  BY RaisedPc, Basics, NamesDiffer DEF QuarantineItem, Itemise, Move, Vacant, Intact,
     RegInv, FileInv, TypeOK, CallPhase, TreeFits, EmptyTree, NoOp
<1>4. ForeignCounted'
  BY Basics, NamesDiffer, ArtifactAssumption DEF QuarantineItem, Itemise, Move, Vacant,
     Intact, RegInv, FileInv, TypeOK, ForeignCounted, Foreign, NoFile
<1>5. NothingLost'
  BY Basics, NamesDiffer DEF QuarantineItem, Itemise, Move, Vacant, Intact, RegInv, FileInv,
     TypeOK, NothingLost, CallStage, CallPhase, NoPub, Accepted, AcceptedPublication
<1>6. NoLitter'
  BY LitterQuarantineItem
<1>7. QED BY <1>1, <1>2, <1>3, <1>4, <1>5, <1>6 DEF FileInv

LEMMA LitterRemoveItem ==
    ASSUME RegInv, FileInv, NEW s \in Slots, RemoveItem(s)
    PROVE  NoLitter'
<1>1. /\ items[s] = "quarantined" /\ items \in [Slots -> {"none", "planned", "named", "quarantined", "removed"}]
      /\ files \in [Names -> File]
      /\ \/ UNCHANGED <<files, items>>
         \/ /\ files[Quarantine(s)] = NoFile
            /\ items' = [items EXCEPT ![s] = "removed"] /\ files' = files
         \/ files' = [files EXCEPT ![Quarantine(s)] = NoFile] /\ items' = items
      /\ UNCHANGED <<pub, claims>>
  BY DEF RemoveItem, Itemise, Delete, RegInv, TypeOK
<1>2. ASSUME NEW t \in Slots PROVE Placed(t)'
  <2>1. Placed(t) /\ <<"other", t>> \in Names \ {Quarantine(s)}
    BY AllPlaced DEF FileInv, Names, NameKinds, Quarantine
  <2>2. QED BY <1>1, <2>1, NamesDiffer DEF Placed, NotOurs
<1>3. QED BY <1>2, AllPlaced

LEMMA FilesRemoveItem ==
    ASSUME RegInv, FileInv, NEW s \in Slots, RemoveItem(s)
    PROVE  FileInv'
<1>1. Fresh'
  BY RaisedPc DEF RemoveItem, Itemise, Delete, RegInv, FileInv, TypeOK, Fresh, NoOp
<1>2. NamesFit'
  BY RaisedPc, NamesDiffer DEF RemoveItem, Itemise, Delete, RegInv, FileInv, TypeOK,
     NamesFit, NotOurs, CallStage, NoPub, NoOp
<1>3. TreeFits'
  BY RaisedPc DEF RemoveItem, Itemise, Delete, RegInv, FileInv, TypeOK, TreeFits, EmptyTree,
     Vacant, NoOp
<1>4. ForeignCounted'
  BY Basics, NamesDiffer, ArtifactAssumption DEF RemoveItem, Itemise, Delete, RegInv,
     FileInv, TypeOK, ForeignCounted, Foreign, NoFile
<1>5. NothingLost'
  BY Basics, NamesDiffer DEF RemoveItem, Itemise, Delete, RegInv, FileInv, TypeOK,
     NothingLost, CallStage, CallPhase, NoPub, Accepted, AcceptedPublication
<1>6. NoLitter'
  BY LitterRemoveItem
<1>7. QED BY <1>1, <1>2, <1>3, <1>4, <1>5, <1>6 DEF FileInv

LEMMA TreeQuarantineTree ==
    ASSUME RegInv, FileInv, QuarantineTree
    PROVE  TreeFits'
<1>1. phase = "deleting" /\ UNCHANGED <<phase, files>>
  BY DEF QuarantineTree, MoveTree, RegInv, CallPhase
<1>2. \/ dir' = dir /\ op'.pc \in {"idle", "unreserve"} \union Undoing
      \/ dir' = dir /\ dir = "moved" /\ op'.pc = "forget"
      \/ dir' = "moved" /\ EmptyTree /\ op'.pc \in {"forget", "idle", "unreserve"} \union Undoing
  BY RaisedPc DEF QuarantineTree, MoveTree, RegInv, TypeOK, NoOp
<1>3. QED BY <1>1, <1>2 DEF TreeFits, FileInv, EmptyTree, Vacant

LEMMA FilesQuarantineTree ==
    ASSUME RegInv, FileInv, QuarantineTree
    PROVE  FileInv'
<1>1. Fresh'
  BY RaisedPc DEF QuarantineTree, MoveTree, RegInv, FileInv, TypeOK, Fresh, NoOp
<1>2. NamesFit'
  BY RaisedPc DEF QuarantineTree, MoveTree, RegInv, FileInv, TypeOK, NamesFit, NotOurs, NoOp
<1>3. TreeFits'
  BY TreeQuarantineTree
<1>4. ForeignCounted'
  BY DEF QuarantineTree, MoveTree, FileInv, ForeignCounted
<1>5. NothingLost'
  BY DEF QuarantineTree, MoveTree, FileInv, NothingLost
<1>6. NoLitter'
  BY DEF QuarantineTree, MoveTree, FileInv, NoLitter
<1>7. QED BY <1>1, <1>2, <1>3, <1>4, <1>5, <1>6 DEF FileInv

LEMMA FilesClearDeleted ==
    ASSUME RegInv, FileInv, ClearDeleted
    PROVE  FileInv'
<1>1. /\ phase' = "none" /\ claims' = [t \in Slots |-> NoFile] /\ dir' = "absent"
      /\ items' = [t \in Slots |-> "none"]
      /\ UNCHANGED <<pub, files, ops, foreign>>
      /\ pub.stage = "none" /\ \A n \in Names : files[n] = NoFile
  BY DEF ClearDeleted, FileInv, TreeFits, EmptyTree, Vacant, RegInv, CallPhase, Accepted
<1>2. op'.pc \in {"idle", "unreserve"} \union Undoing /\ op'.id \in {0, op.id}
  BY RaisedPc DEF ClearDeleted, NoOp
<1>3. Fresh'
  BY <1>1, <1>2, ArtifactAssumption DEF Fresh, FileInv, RegInv, TypeOK, NoFile
<1>4. NamesFit'
  BY <1>1, <1>2 DEF NamesFit
<1>5. TreeFits'
  BY <1>1, <1>2 DEF TreeFits, EmptyTree, Vacant
<1>6. ForeignCounted'
  BY <1>1, Basics DEF ForeignCounted
<1>7. NothingLost' /\ NoLitter'
  BY <1>1 DEF NothingLost, NoLitter
<1>8. QED BY <1>3, <1>4, <1>5, <1>6, <1>7 DEF FileInv

LEMMA FilesStartOther ==
    ASSUME RegInv, FileInv, NEW kind \in {"read", "delete"}, NEW s \in Slots, StartOther(kind, s)
    PROVE  FileInv'
<1>1. Fresh'
  BY RaisedPc, Basics, ArtifactAssumption DEF StartOther, RegInv, FileInv, TypeOK, Fresh,
     CallStage, Artifact, NoPub, NoFile, NoOp, NewClaim, CallPhase, Accepted,
     AcceptedPublication
<1>2. NamesFit'
  BY RaisedPc DEF StartOther, RegInv, FileInv, TypeOK, NamesFit, NotOurs, NoOp
<1>3. TreeFits'
  BY RaisedPc DEF StartOther, FileInv, TreeFits, EmptyTree, Vacant, NoOp
<1>4. ForeignCounted'
  BY DEF StartOther, FileInv, ForeignCounted
<1>5. NothingLost'
  BY DEF StartOther, FileInv, NothingLost
<1>6. NoLitter'
  BY DEF StartOther, FileInv, NoLitter
<1>7. QED BY <1>1, <1>2, <1>3, <1>4, <1>5, <1>6 DEF FileInv

LEMMA FilesAsk ==
    ASSUME RegInv, FileInv, NEW s \in Slots, NEW c \in Contents, Ask(s, c)
    PROVE  FileInv'
<1>1. Fresh'
  BY RaisedPc, Basics, ArtifactAssumption DEF Ask, RegInv, FileInv, TypeOK, Fresh,
     CallStage, Artifact, NoPub, NoFile, NoOp, NewClaim, CallPhase, Accepted,
     AcceptedPublication
<1>2. NamesFit'
  BY RaisedPc DEF Ask, RegInv, FileInv, TypeOK, NamesFit, NotOurs, NoOp
<1>3. TreeFits'
  BY RaisedPc DEF Ask, FileInv, TreeFits, EmptyTree, Vacant, NoOp
<1>4. ForeignCounted'
  BY DEF Ask, FileInv, ForeignCounted
<1>5. NothingLost'
  BY DEF Ask, FileInv, NothingLost
<1>6. NoLitter'
  BY DEF Ask, FileInv, NoLitter
<1>7. QED BY <1>1, <1>2, <1>3, <1>4, <1>5, <1>6 DEF FileInv

LEMMA FilesFault ==
    ASSUME RegInv, FileInv, Fault
    PROVE  FileInv'
BY QuietCall, RaisedPc DEF Fault, NoOp

LEMMA FilesDie ==
    ASSUME RegInv, FileInv, Die
    PROVE  FileInv'
BY QuietCall DEF Die, NoOp

LEMMA FilesMeddle ==
    ASSUME RegInv, FileInv, NEW n \in Names, Meddle(n)
    PROVE  FileInv'
<1>1. Fresh'
  BY RaisedPc DEF Meddle, RegInv, FileInv, TypeOK, Fresh, NoOp
<1>2. NamesFit'
  BY RaisedPc, Basics, NamesDiffer, ArtifactAssumption DEF Meddle, RegInv, FileInv, TypeOK,
     NamesFit, NotOurs, Fresh, CallStage, NoPub, NoOp, NewClaim
<1>3. TreeFits'
  BY RaisedPc DEF Meddle, FileInv, TreeFits, EmptyTree, Vacant, NoOp
<1>4. ForeignCounted'
  BY Basics, NamesDiffer, ArtifactAssumption DEF Meddle, RegInv, FileInv, TypeOK,
     ForeignCounted, Foreign, NoFile
<1>5. NothingLost'
  BY Basics, NamesDiffer DEF Meddle, RegInv, FileInv, TypeOK, NothingLost, CallStage,
     CallPhase, NoPub, Accepted, AcceptedPublication
<1>6. NoLitter'
  BY DEF Meddle, FileInv, NoLitter
<1>7. QED BY <1>1, <1>2, <1>3, <1>4, <1>5, <1>6 DEF FileInv

LEMMA FilesInit == Init => FileInv
<1> SUFFICES ASSUME Init PROVE FileInv
  OBVIOUS
<1>1. Fresh
  BY ArtifactAssumption DEF Init, Fresh, NoOp, NoPub, NoFile
<1>2. NamesFit /\ TreeFits
  BY DEF Init, NamesFit, TreeFits, NoOp, NoPub, EmptyTree, Vacant
<1>3. ForeignCounted /\ NothingLost /\ NoLitter
  BY Basics DEF Init, ForeignCounted, NothingLost, NoLitter
<1>4. QED BY <1>1, <1>2, <1>3 DEF FileInv

LEMMA FilesStep == RegInv /\ FileInv /\ [Next]_vars => FileInv'
<1> SUFFICES ASSUME RegInv, FileInv, [Next]_vars PROVE FileInv'
  OBVIOUS
<1>1. CASE UNCHANGED vars
  <2>1. Fresh' /\ NamesFit'
    BY <1>1 DEF vars, FileInv, Fresh, NamesFit, NotOurs, NewClaim
  <2>2. TreeFits' /\ ForeignCounted' /\ NothingLost' /\ NoLitter'
    BY <1>1 DEF vars, FileInv, TreeFits, EmptyTree, Vacant, ForeignCounted, NothingLost, NoLitter
  <2>3. QED BY <2>1, <2>2 DEF FileInv
<1>2. CASE Next
  <2>1. CASE \E s \in Slots, c \in Contents : Ask(s, c)
    BY <2>1, FilesAsk
  <2>2. CASE \E kind \in {"read", "delete"}, s \in Slots : StartOther(kind, s)
    BY <2>2, FilesStartOther
  <2>3. CASE Fault \/ Die
    BY <2>3, FilesFault, FilesDie
  <2>4. CASE \E n \in Names : Meddle(n)
    BY <2>4, FilesMeddle
  <2>5. CASE Steps
    <3>1. CASE RetireRecovered \/ ReserveWorkspace \/ MakeTree \/ FinalizeWorkspace \/
              RetireReserved \/ Refuse \/ RecoverIntent \/ RollBack \/ RollForward \/ Discard \/
              Undone \/ Opened
      BY <3>1, FilesRetireRecovered, FilesReserveWorkspace, FilesMakeTree,
         FilesFinalizeWorkspace, FilesRetireReserved, FilesRefuse, FilesRecoverIntent,
         FilesRollBack, FilesRollForward, FilesDiscard, FilesUndone, FilesOpened 
    <3>2. CASE Check \/ ReservePublish \/ CreateTemporary \/ ClaimTemporary \/ WriteTemporary \/
              PreparePublish \/ BackUp \/ AdvanceBackup \/ Install \/ AdvanceInstalled \/
              CommitPublish \/ CleanBackup
      BY <3>2, FilesCheck, FilesReservePublish, FilesCreateTemporary, FilesClaimTemporary,
         FilesWriteTemporary, FilesPreparePublish, FilesBackUp, FilesAdvanceBackup,
         FilesInstall, FilesAdvanceInstalled, FilesCommitPublish, FilesCleanBackup 
    <3>3. CASE ClearPublish \/ BeginDelete \/ ResumeDelete \/ InspectLayout \/ ItemsRemoved \/
              QuarantineTree \/ ClearDeleted
      BY <3>3, FilesClearPublish, FilesBeginDelete, FilesResumeDelete, FilesInspectLayout,
         FilesItemsRemoved, FilesQuarantineTree, FilesClearDeleted 
    <3>4. CASE \E s \in Slots : PlanItem(s) \/ QuarantineItem(s) \/ RemoveItem(s)
      BY <3>4, FilesPlanItem, FilesQuarantineItem, FilesRemoveItem 
    <3>5. QED BY <2>5, <3>1, <3>2, <3>3, <3>4 DEF Steps
  <2>6. QED BY <1>2, <2>1, <2>2, <2>3, <2>4, <2>5, NextCases
<1>3. QED BY <1>1, <1>2

LEMMA FilesHold == Spec => []FileInv
BY RegistryHolds, FilesInit, FilesStep, PTL DEF Spec

(* No failure and no death of the Worker loses a published artifact while  *)
(* nobody else touches the directory: it is under its name, or under the   *)
(* backup name of the publication that is about to replace it.             *)
THEOREM NothingIsLost == Spec => []NothingLost
<1>1. FileInv => NothingLost
  BY DEF FileInv
<1>2. QED BY <1>1, FilesHold, PTL

(* Every file of ours is accounted for by the registry, so that recovery   *)
(* or deletion finds it, however the publication or deletion ended.        *)
THEOREM NothingIsLittered == Spec => []NoLitter
<1>1. FileInv => NoLitter
  BY DEF FileInv
<1>2. QED BY <1>1, FilesHold, PTL
=============================================================================
