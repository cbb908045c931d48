--------------------------- MODULE ArtifactSlots ---------------------------
(* What the store of evidence artifacts promises to those who publish into *)
(* it, without files, registry or journal: a slot changes in one step, to  *)
(* a content somebody asked for, and a revoked snapshot never returns.     *)
(* The StudyMap is built on this promise, ArtifactStore keeps it.          *)

CONSTANTS Slots,      \* the artifacts of one workspace
          Lasting,    \* the slots whose revocation is final: the snapshots
          Contents,   \* what may be published, the tombstone among it
          Tombstone,
          Nothing     \* not published

VARIABLES value,      \* what a reader of the slot finds
          asked       \* what was ever asked to be published there

slotVars == <<value, asked>>

SlotsType ==
    /\ value \in [Slots -> Contents \union {Nothing}]
    /\ asked \in [Slots -> SUBSET Contents]

SlotsInit ==
    /\ value = [s \in Slots |-> Nothing]
    /\ asked = [s \in Slots |-> {}]

Ask(s, c) ==
    /\ asked' = [asked EXCEPT ![s] = @ \union {c}]
    /\ UNCHANGED value

Replace(s, c) ==
    /\ c \in asked[s]
    /\ s \in Lasting /\ value[s] = Tombstone => c = Tombstone
    /\ value' = [value EXCEPT ![s] = c]
    /\ UNCHANGED asked

(* The workspace is deleted with all of its artifacts.                     *)
Drop ==
    /\ value' = [s \in Slots |-> Nothing]
    /\ UNCHANGED asked

SlotsNext ==
    \/ \E s \in Slots, c \in Contents : Ask(s, c) \/ Replace(s, c)
    \/ Drop

SlotsSpec == SlotsInit /\ [][SlotsNext]_slotVars
=============================================================================
