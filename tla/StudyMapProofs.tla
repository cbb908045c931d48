--------------------------- MODULE StudyMapProofs ---------------------------
(***************************************************************************)
(* Theorems of StudyMap for any parts, nodes and threads, any number of    *)
(* revisions, policies, calls and maps, of failures and of deaths of the   *)
(* Worker.                                                                 *)
(***************************************************************************)
EXTENDS StudyMap, TLAPS, FiniteSetTheorems, WellFoundedInduction

(***************************************************************************)
(* What a call knows at its place.                                         *)
(***************************************************************************)
Fits(id, n) == id \in Seq(Contents) /\ Len(id) \in 1..n

Resting == {"idle", "files", "rows"}
Drafting == {"draft", "synthesize", "parse"}
Publishing == {"publish", "save", "load", "check", "write", "recheck", "undo", "drop",
               "withdraw", "forget"}
Answering == {"authority", "answer", "compose"}

(* A call has the revision that was approved when it started, and a call    *)
(* that answers saw evidence of it.                                         *)
PhaseOK(c) ==
    /\ c.pc \notin Resting => c.rev \in Revs /\ c.rev <= approved /\ approved # Gone
    /\ c.pc \in {"files", "rows"} => deletion
    /\ c.pc = "rows" => docs = {} /\ tombs = {}
    /\ c.pc = "parse" => maps < MaxMaps
    /\ c.pc \in Answering => c.rev <= rev
    /\ c.pc = "compose" => approved = c.rev

(* The map that a call works on is of its revision.                         *)
TargetOK(c) ==
    /\ c.pc \in Drafting => Fits(c.target, maps + 1)
    /\ c.pc \in Publishing => Fits(c.target, maps)
    /\ c.pc \in Drafting \cup Publishing \cup Answering => c.target[1].rev = c.rev
    /\ c.pc \in {"save", "load"} \/ c.stamp # 0 => c.stamp \in 1..maps

(* A revocation under way has its tombstone before it is completed; a map   *)
(* whose artifact is being written is not revoked as long as it has a row.  *)
RevokeOK(c) ==
    /\ c.ids \subseteq revoked
    /\ c.pc \in Resting => c.ids = {}
    /\ c.pc = "completed" => c.target \in tombs
    /\ c.pc \in {"write", "recheck"} => Row(c.target) = {} \/ c.target \notin revoked
    /\ c.pc = "recheck" => Row(c.target) = {} \/ c.target \in docs

CallOK(c) == PhaseOK(c) /\ TargetOK(c) /\ RevokeOK(c)
CallInv == \A t \in Threads : CallOK(th[t])

(***************************************************************************)
(* The stores.                                                             *)
(***************************************************************************)
CoreInv ==
    /\ approved \in 0..Gone /\ rev \in 0..MaxRev /\ policy \in 1..MaxPolicy
    /\ source \in [Revs -> [Parts -> Revs]]
    /\ part \in [Revs -> [Parts -> Parted]] /\ deletion \in BOOLEAN
    /\ ops \in 0..MaxOps /\ maps \in 0..MaxMaps /\ faults \in 0..MaxFaults
    /\ rev <= approved /\ (deletion => approved = Gone)

LockInv ==
    /\ th \in [Threads -> Call]
    /\ guard \in Threads \cup {NoOne} /\ lock \in Threads \cup {NoOne}
    /\ \A t \in Threads : (guard = t <=> th[t].pc \in Guarded) /\ (lock = t <=> th[t].pc = "write")
    /\ \A t, u \in Threads : th[t].pc \in {"files", "rows"} /\ u # t => th[u].pc = "idle"

MapInv ==
    /\ \A row \in rows : Fits(row.id, maps) /\ row.stamp \in 1..maps
    /\ \A row, other \in rows : row.id = other.id => row = other

IdInv == \A id \in revoked \cup docs \cup tombs : Fits(id, maps)

CitedInv == \A row \in rows : Valid(row.id)

RevocationInv ==
    /\ pending \subseteq revoked /\ docs \cap tombs = {}
    /\ deletion \/ revoked \ pending \subseteq tombs
    /\ approved = Gone /\ ~deletion => rows \cup docs \cup tombs \cup revoked = {}

WithdrawnInv ==
    faults > 0 \/ \A id \in revoked : Row(id) = {} \/ \E t \in Threads : TakesBack(t, id)

IInv == /\ CoreInv /\ LockInv /\ MapInv /\ IdInv /\ CitedInv /\ RevocationInv /\ WithdrawnInv
        /\ CallInv

(***************************************************************************)
(* Facts about the operators of the model.                                 *)
(***************************************************************************)
USE StudyMapAssumption DEF Revs, Gone

(* The rest of the state keeps the sense of maps and of units.             *)
LEMMA FitsMore ==
  ASSUME NEW id, NEW n \in Nat, NEW m \in Nat, n <= m, Fits(id, n)
  PROVE  Fits(id, m)
BY DEF Fits

LEMMA FitsFirst ==
  ASSUME NEW id, NEW n \in Nat, Fits(id, n)
  PROVE  id # <<>> /\ id[1] \in Contents /\ id[1].rev \in Revs /\ id[1].cites \subseteq Units
<1>1. id # <<>> /\ id[1] \in Contents
  BY DEF Fits
<1> QED BY <1>1 DEF Contents

LEMMA IdleCall == Idle \in Call /\ [Idle EXCEPT !.kind = "delete", !.pc = "files"] \in Call
<1>1. Idle \in Call
  BY DEF Idle, Call, Kinds, Pcs, Guarded, NoMap
<1>2. \A c \in Call : [c EXCEPT !.kind = "delete", !.pc = "files"] \in Call
  BY ZenonT(60) DEF Call, Kinds, Pcs
<1> QED BY <1>1, <1>2

(* Of bounded numbers one is the greatest: the newest map is one of them.   *)
LEMMA NewestIsOne ==
  ASSUME NEW set, set # {}, NEW n \in Nat, \A row \in set : row.stamp \in 1..n
  PROVE  Newest(set) \in set
<1> DEFINE Above(row) == {k \in 1..n : k > row.stamp}
<1> DEFINE T == {Above(row) : row \in set}
<1>1. IsFiniteSet(1..n)
  BY FS_Interval
<1>2. IsWellFoundedOn(StrictSubsetOrdering(1..n), SUBSET (1..n))
  BY <1>1, FS_StrictSubsetOrderingWellFounded, FS_FiniteSubsetsOfFinite
<1>3. T \subseteq SUBSET (1..n) /\ T # {}
  OBVIOUS
<1>4. PICK x \in T : \A y \in T : ~(<<y, x>> \in StrictSubsetOrdering(1..n))
  <2> HIDE DEF T
  <2> QED BY <1>2, <1>3, WFMin
<1>5. PICK row \in set : x = Above(row)
  OBVIOUS
<1>6. \A other \in set : other.stamp <= row.stamp
  <2> SUFFICES ASSUME NEW other \in set, ~(other.stamp <= row.stamp)
               PROVE  FALSE
    OBVIOUS
  <2>1. other.stamp \in 1..n /\ row.stamp \in 1..n /\ row.stamp < other.stamp
    OBVIOUS
  <2>2. Above(other) \subseteq Above(row) /\ other.stamp \in Above(row) \ Above(other)
    BY <2>1
  <2>3. <<Above(other), x>> \in StrictSubsetOrdering(1..n)
    BY <2>2, <1>5 DEF StrictSubsetOrdering
  <2> QED BY <2>3, <1>4
<1> QED BY <1>6 DEF Newest

LEMMA CurrentIsOne ==
  ASSUME CoreInv, MapInv, NEW r, Current(r) # NoMap
  PROVE  Fits(Current(r), maps) /\ Current(r)[1].rev = r
<1>1. RowsOf(r) # {}
  BY DEF Current
<1>2. RowsOf(r) \subseteq rows /\ \A row \in RowsOf(r) : row.id[1].rev = r
  BY DEF RowsOf
<1>3. maps \in Nat /\ \A row \in RowsOf(r) : row.stamp \in 1..maps
  BY <1>2 DEF CoreInv, MapInv
<1>4. Newest(RowsOf(r)) \in RowsOf(r)
  <2> HIDE DEF Newest
  <2> QED BY <1>1, <1>3, NewestIsOne
<1> QED BY <1>1, <1>2, <1>4 DEF Current, MapInv

(***************************************************************************)
(* A thread that takes its next step: what its new place asks for.         *)
(***************************************************************************)
Deleters == {"files", "rows"}
Undoing == {"check", "undo", "drop"}

MayTake(t, next) ==
    /\ next.pc \in Guarded => guard \in {NoOne, t}
    /\ next.pc = "write" => lock \in {NoOne, t}
    /\ next.pc \in Deleters => \A u \in Threads \ {t} : th[u].pc = "idle"
    /\ \/ next.pc = "idle" \/ th[t].pc # "idle"
       \/ \A u \in Threads \ {t} : th[u].pc \notin Deleters

(* A row that is to be taken back is still to be taken back after the step, *)
(* or needs not be.                                                         *)
Keeps(t, next) ==
    th[t].inserted /\ th[t].pc \in Undoing =>
       \/ next.inserted /\ next.target = th[t].target /\ next.pc \in Undoing
       \/ Row(th[t].target) = {} \/ th[t].target \notin revoked

LEMMA BecomeStep ==
  ASSUME LockInv, NEW t \in Threads, NEW next \in Call, Become(t, next), MayTake(t, next)
  PROVE  LockInv' /\ th'[t] = next /\ \A u \in Threads \ {t} : th'[u] = th[u]
<1>1. /\ th'[t] = next /\ \A u \in Threads \ {t} : th'[u] = th[u]
      /\ th' \in [Threads -> Call]
  BY DEF Become, LockInv
<1>2. "write" \in Guarded /\ NoOne \notin Threads
  BY DEF Guarded
<1>3. guard' \in Threads \cup {NoOne} /\ lock' \in Threads \cup {NoOne}
  BY DEF Become, LockInv
<1>4. \A u \in Threads : (guard' = u <=> th'[u].pc \in Guarded) /\ (lock' = u <=> th'[u].pc = "write")
  <2>1. \A u \in Threads \ {t} :
           (guard' = u <=> th[u].pc \in Guarded) /\ (lock' = u <=> th[u].pc = "write")
    BY <1>2 DEF Become, LockInv, MayTake
  <2>2. (guard' = t <=> next.pc \in Guarded) /\ (lock' = t <=> next.pc = "write")
    BY <1>2 DEF Become, LockInv, MayTake
  <2> QED BY <1>1, <2>1, <2>2
<1>5. \A v, u \in Threads : th'[v].pc \in {"files", "rows"} /\ u # v => th'[u].pc = "idle"
  BY <1>1 DEF LockInv, MayTake, Deleters
<1> QED BY <1>1, <1>3, <1>4, <1>5 DEF LockInv

(* The fields of a call whose place alone changes.                         *)
LEMMA Moved ==
  ASSUME NEW c \in Call, NEW x \in Pcs
  PROVE  LET d == [c EXCEPT !.pc = x]
         IN  /\ d \in Call /\ d.pc = x /\ d.rev = c.rev /\ d.target = c.target
             /\ d.ids = c.ids /\ d.stamp = c.stamp /\ d.inserted = c.inserted
             /\ d.kind = c.kind
BY DEF Call

LEMMA IdleOK ==
  CoreInv => /\ CallOK(Idle) /\ CallOK([Idle EXCEPT !.kind = "delete"])
             /\ Idle.pc = "idle" /\ ~Idle.inserted /\ Idle.ids = {} /\ Idle.stamp = 0
<1>1. /\ Idle.pc = "idle" /\ ~Idle.inserted /\ Idle.ids = {} /\ Idle.stamp = 0
  BY DEF Idle
<1>2. \A c : c.pc = "idle" /\ c.ids = {} /\ c.stamp = 0 => CallOK(c)
  BY DEF CallOK, PhaseOK, TargetOK, RevokeOK, Resting, Drafting, Publishing, Answering
<1>3. [Idle EXCEPT !.kind = "delete"].pc = "idle" /\ [Idle EXCEPT !.kind = "delete"].ids = {}
      /\ [Idle EXCEPT !.kind = "delete"].stamp = 0
  <2>1. \A c \in Call : LET d == [c EXCEPT !.kind = "delete"]
                        IN  d.pc = c.pc /\ d.ids = c.ids /\ d.stamp = c.stamp
    BY DEF Call
  <2> QED BY <2>1, <1>1, IdleCall
<1> QED BY <1>1, <1>2, <1>3

(***************************************************************************)
(* A step that leaves the stores alone.                                    *)
(***************************************************************************)
StoresSame == UNCHANGED <<workspace, store, artifacts, maps>>

LEMMA LocalStep ==
  ASSUME IInv, NEW t \in Threads, NEW next \in Call, Become(t, next), MayTake(t, next),
         StoresSame, ops' \in 0..MaxOps, faults' \in 0..MaxFaults, faults' >= faults,
         CallOK(next), faults' > 0 \/ Keeps(t, next)
  PROVE  IInv'
<1> USE DEF StoresSame, workspace, store, artifacts
<1>1. LockInv' /\ th'[t] = next /\ \A u \in Threads \ {t} : th'[u] = th[u]
  BY BecomeStep DEF IInv
<1>2. CoreInv'
  BY DEF IInv, CoreInv
<1>3. MapInv' /\ IdInv'
  BY DEF IInv, MapInv, IdInv, Fits
<1>4. CitedInv'
  BY DEF IInv, CitedInv, Valid, UnitsOf, UnitOf, In
<1>5. RevocationInv'
  BY DEF IInv, RevocationInv
<1>6. WithdrawnInv'
  <2> SUFFICES ASSUME ~(faults' > 0), NEW id \in revoked, Row(id) # {}
               PROVE  \E u \in Threads : TakesBack(u, id)'
    BY DEF WithdrawnInv, Row
  <2>1. ~(faults > 0) /\ Keeps(t, next)
    BY DEF IInv, CoreInv
  <2>2. PICK u \in Threads : TakesBack(u, id)
    BY <2>1 DEF IInv, WithdrawnInv
  <2> QED BY <1>1, <2>1, <2>2 DEF TakesBack, Keeps, Undoing
<1>7. CallInv'
  <2>1. \A u \in Threads : CallOK(th'[u])
    BY <1>1 DEF IInv, CallInv
  <2> QED BY <2>1 DEF CallInv, CallOK, PhaseOK, TargetOK, RevokeOK, Fits, Row
<1> QED BY <1>1, <1>2, <1>3, <1>4, <1>5, <1>6, <1>7 DEF IInv

(* What a thread knows at its place.                                       *)
LEMMA Known ==
  ASSUME IInv, NEW t \in Threads
  PROVE  /\ th[t] \in Call /\ CallOK(th[t]) /\ guard \in Threads \cup {NoOne}
         /\ th[t].pc \in Guarded => guard = t
         /\ th[t].pc = "write" => lock = t
         /\ NoOne \notin Threads
         /\ th[t].pc \in Deleters => \A u \in Threads \ {t} : th[u].pc = "idle"
         /\ th[t].pc # "idle" => \A u \in Threads \ {t} : th[u].pc \notin Deleters
         /\ ops \in 0..MaxOps /\ faults \in 0..MaxFaults
BY DEF IInv, LockInv, CallInv, CoreInv, Deleters

(* Where an exception leads.                                               *)
LEMMA RaisedOK ==
  ASSUME IInv, NEW t \in Threads, th[t].pc # "idle"
  PROVE  /\ Raised(t) \in Call /\ MayTake(t, Raised(t)) /\ CallOK(Raised(t))
         /\ th[t].pc # "drop" => Keeps(t, Raised(t))
         /\ Raised(t).pc \in {"idle", "undo", "drop"}
<1> USE Known
<1>1. CASE (th[t].pc \in {"check", "write"} /\ th[t].inserted) \/ th[t].pc = "undo"
  <2>1. PICK x \in {"undo", "drop"} : Raised(t) = [th[t] EXCEPT !.pc = x]
    BY <1>1 DEF Raised
  <2> DEFINE d == Raised(t)
  <2>2. /\ d \in Call /\ d.pc = x /\ d.rev = th[t].rev /\ d.target = th[t].target
        /\ d.ids = th[t].ids /\ d.stamp = th[t].stamp /\ d.inserted = th[t].inserted
    <3>1. x \in Pcs
      BY DEF Pcs, Guarded
    <3> QED BY <2>1, <3>1, Moved
  <2>3. guard = t
    BY <1>1 DEF Guarded
  <2> HIDE DEF d
  <2>4. CallOK(d)
    BY <1>1, <2>2 DEF CallOK, PhaseOK, TargetOK, RevokeOK, Resting, Drafting, Publishing, Answering
  <2>5. MayTake(t, d)
    BY <2>2, <2>3 DEF MayTake, Deleters
  <2>6. Keeps(t, d)
    BY <2>2 DEF Keeps, Undoing
  <2> QED BY <2>2, <2>4, <2>5, <2>6 DEF d
<1>2. CASE ~((th[t].pc \in {"check", "write"} /\ th[t].inserted) \/ th[t].pc = "undo")
  <2>1. Raised(t) = Idle
    BY <1>2 DEF Raised
  <2>2. Idle \in Call /\ CallOK(Idle) /\ Idle.pc = "idle"
    BY IdleCall, IdleOK DEF IInv
  <2>3. MayTake(t, Idle)
    BY <2>2 DEF MayTake, Guarded, Deleters
  <2>4. th[t].pc # "drop" => Keeps(t, Idle)
    BY <1>2 DEF Keeps, Undoing
  <2> QED BY <2>1, <2>2, <2>3, <2>4
<1> QED BY <1>1, <1>2

LEMMA RaiseStep ==
  ASSUME IInv, NEW t \in Threads, th[t].pc # "idle", Raise(t), StoresSame, ops' = ops,
         \/ faults' = faults /\ th[t].pc # "drop"
         \/ faults < MaxFaults /\ faults' = faults + 1
  PROVE  IInv'
<1>1. /\ Raised(t) \in Call /\ MayTake(t, Raised(t)) /\ CallOK(Raised(t))
      /\ th[t].pc # "drop" => Keeps(t, Raised(t))
  BY RaisedOK
<1>2. /\ ops' \in 0..MaxOps /\ faults' \in 0..MaxFaults /\ faults' >= faults
      /\ faults' > 0 \/ th[t].pc # "drop"
  BY DEF IInv, CoreInv
<1>3. Become(t, Raised(t))
  BY DEF Raise
<1> QED BY <1>1, <1>2, <1>3, LocalStep

LEMMA FailStep ==
  ASSUME IInv, NEW t \in Threads, Fail(t)
  PROVE  IInv'
<1>1. /\ th[t].pc # "idle" /\ Raise(t) /\ StoresSame /\ ops' = ops
      /\ faults < MaxFaults /\ faults' = faults + 1
  BY DEF Fail, Fault, At, StoresSame
<1> QED BY <1>1, RaiseStep

LEMMA IdleStep ==
  ASSUME IInv, NEW t \in Threads, Become(t, Idle), StoresSame, ops' = ops, faults' = faults,
         th[t].pc \notin Undoing
  PROVE  IInv'
<1>1. Idle \in Call /\ CallOK(Idle) /\ Idle.pc = "idle"
  BY IdleCall, IdleOK DEF IInv
<1>2. MayTake(t, Idle)
  BY <1>1 DEF MayTake, Guarded, Deleters
<1>3. Keeps(t, Idle)
  BY DEF Keeps
<1>4. ops' \in 0..MaxOps /\ faults' \in 0..MaxFaults /\ faults' >= faults
  BY DEF IInv, CoreInv
<1> QED BY <1>1, <1>2, <1>3, <1>4, LocalStep

(***************************************************************************)
(* The calls that only read: one lemma per action.                         *)
(***************************************************************************)
Plain == {"begin", "revoke", "decide", "context", "previous", "changed", "retry", "stale", "plan"}

LEMMA PlainOK ==
  ASSUME NEW c, CallOK(c), c.pc \notin Resting, NEW d, d.pc \in Plain, d.rev = c.rev,
         d.stamp \in {0, c.stamp}, d.ids \subseteq revoked
  PROVE  CallOK(d)
BY DEF CallOK, PhaseOK, TargetOK, RevokeOK, Plain, Resting, Drafting, Publishing, Answering

LEMMA MoveStep ==
  ASSUME IInv, NEW t \in Threads, th[t].pc \notin Undoing \cup {"idle"},
         NEW next \in Call, Become(t, next), CallOK(next), StoresSame,
         ops' = ops, faults' = faults, next.pc \notin Deleters \cup {"write"},
         next.pc \in Guarded => guard \in {NoOne, t}
  PROVE  IInv'
<1>1. MayTake(t, next)
  BY DEF MayTake
<1>2. Keeps(t, next)
  BY DEF Keeps
<1>3. ops' \in 0..MaxOps /\ faults' \in 0..MaxFaults /\ faults' >= faults
  BY DEF IInv, CoreInv
<1> QED BY <1>1, <1>2, <1>3, LocalStep

LEMMA PlainStep ==
  ASSUME IInv, NEW t \in Threads, th[t].pc \notin Undoing \cup Resting,
         NEW next \in Call, Become(t, next), next.pc \in Plain, next.rev = th[t].rev,
         next.stamp \in {0, th[t].stamp}, next.ids \subseteq revoked,
         StoresSame, ops' = ops, faults' = faults
  PROVE  IInv'
<1>1. CallOK(next)
  BY Known, PlainOK
<1>2. next.pc \notin Deleters \cup {"write"} /\ next.pc \notin Guarded /\ th[t].pc # "idle"
  BY DEF Plain, Deleters, Guarded, Resting
<1> QED BY <1>1, <1>2, MoveStep

(* A publication that returns: perhaps the complete map is next.           *)
LEMMA PublishedOK ==
  ASSUME IInv, NEW t \in Threads, th[t].pc \notin Resting, Published(t)
  PROVE  \E next \in Call : /\ Become(t, next) /\ CallOK(next)
                            /\ next.pc \in {"begin", "idle"} /\ next.pc \notin Guarded
<1> DEFINE again == [Idle EXCEPT !.kind = "build", !.pc = "begin", !.rev = th[t].rev,
                                 !.status = "complete"]
<1>1. Idle \in Call /\ CallOK(Idle) /\ Idle.pc = "idle" /\ Idle.ids = {} /\ Idle.stamp = 0
  BY IdleCall, IdleOK DEF IInv
<1>2. th[t] \in Call /\ CallOK(th[t])
  BY Known
<1>3. \A c, d \in Call : LET a == [c EXCEPT !.kind = "build", !.pc = "begin", !.rev = d.rev,
                                            !.status = "complete"]
                         IN  /\ a \in Call /\ a.pc = "begin" /\ a.rev = d.rev
                             /\ a.ids = c.ids /\ a.stamp = c.stamp
  <2>1. "build" \in Kinds /\ "begin" \in Pcs
    BY DEF Kinds, Pcs
  <2> QED BY <2>1 DEF Call
<1>4. again \in Call /\ again.pc = "begin" /\ again.rev = th[t].rev /\ again.ids = {} /\ again.stamp = 0
  BY <1>1, <1>2, <1>3
<1>5. Become(t, again) \/ Become(t, Idle)
  BY DEF Published
<1>6. CallOK(again)
  <2> HIDE DEF again
  <2> QED BY <1>2, <1>4, PlainOK DEF Plain
<1> QED BY <1>1, <1>4, <1>5, <1>6 DEF Guarded

LEMMA PublishedStep ==
  ASSUME IInv, NEW t \in Threads, th[t].pc \notin Resting \cup Undoing, Published(t),
         StoresSame, ops' = ops, faults' = faults
  PROVE  IInv'
<1>1. PICK next \in Call : /\ Become(t, next) /\ CallOK(next)
                           /\ next.pc \in {"begin", "idle"} /\ next.pc \notin Guarded
  BY PublishedOK
<1> QED BY <1>1, MoveStep DEF Resting, Deleters

LEMMA RecoverCall ==
  ASSUME IInv, NEW c \in Call
  PROVE  LET d == Recover(c)
         IN  /\ d \in Call /\ d.pc = "revoke" /\ d.ids = revoked /\ d.rev = c.rev
             /\ d.stamp = c.stamp /\ d.inserted = c.inserted
<1>1. revoked \in SUBSET Seq(Contents)
  BY DEF IInv, IdInv, Fits
<1> QED BY <1>1 DEF Recover, Call, Pcs

LEMMA LocalSame ==
  Local => StoresSame /\ ops' = ops /\ faults' = faults
BY DEF Local, StoresSame

LEMMA RecoveredStep ==
  ASSUME IInv, NEW t \in Threads, Recovered(t)
  PROVE  IInv'
<1>1. PICK x \in {"decide", "stale", "changed"} : Goto(t, x)
  BY DEF Recovered
<1>2. StoresSame /\ ops' = ops /\ faults' = faults /\ th[t].pc = "revoke"
  BY LocalSame DEF Recovered, At
<1> DEFINE d == [th[t] EXCEPT !.pc = x]
<1>3. /\ d \in Call /\ d.pc = x /\ d.rev = th[t].rev /\ d.ids = th[t].ids /\ d.stamp = th[t].stamp
  <2>1. x \in Pcs
    BY DEF Pcs
  <2> QED BY <2>1, Known, Moved
<1>4. Become(t, d)
  BY <1>1 DEF Goto
<1>5. th[t].ids \subseteq revoked
  BY Known DEF CallOK, RevokeOK
<1> HIDE DEF d
<1> QED BY <1>2, <1>3, <1>4, <1>5, PlainStep DEF Plain, Resting, Undoing

LEMMA BeginStep ==
  ASSUME IInv, NEW t \in Threads, Begin(t)
  PROVE  IInv'
<1>1. StoresSame /\ ops' = ops /\ faults' = faults /\ th[t].pc = "begin"
  BY LocalSame DEF Begin, At
<1>2. CASE Become(t, Recover(th[t]))
  BY <1>1, <1>2, Known, RecoverCall, PlainStep DEF Plain, Resting, Undoing
<1>3. CASE Published(t)
  BY <1>1, <1>3, PublishedStep DEF Resting, Undoing
<1> QED BY <1>2, <1>3 DEF Begin

(* A map that is taken up, or drafted on top of the one it supersedes.     *)
LEMMA ExistingStep ==
  ASSUME IInv, NEW t \in Threads, th[t].pc = "decide", Current(th[t].rev) # NoMap,
         Become(t, Existing(t, Current(th[t].rev))), StoresSame, ops' = ops, faults' = faults
  PROVE  IInv'
<1> DEFINE id == Current(th[t].rev)
           d == Existing(t, id)
<1>1. Fits(id, maps) /\ id[1].rev = th[t].rev
  BY CurrentIsOne DEF IInv
<1>2. th[t] \in Call /\ CallOK(th[t])
  BY Known
<1>3. \A m \in Seq(Contents) :
         LET e == [th[t] EXCEPT !.pc = "publish", !.target = m]
         IN  /\ e \in Call /\ e.pc = "publish" /\ e.rev = th[t].rev /\ e.target = m
             /\ e.ids = th[t].ids /\ e.stamp = th[t].stamp
  BY <1>2 DEF Call, Pcs
<1>4. id \in Seq(Contents)
  BY <1>1 DEF Fits
<1>5. /\ d \in Call /\ d.pc = "publish" /\ d.rev = th[t].rev /\ d.target = id
      /\ d.ids = th[t].ids /\ d.stamp = th[t].stamp
  <2> HIDE DEF id
  <2> QED BY <1>3, <1>4 DEF Existing
<1> HIDE DEF id
<1>6. CallOK(d)
  <2> HIDE DEF d
  <2> QED BY <1>1, <1>2, <1>5
    DEF CallOK, PhaseOK, TargetOK, RevokeOK, Resting, Drafting, Publishing, Answering
<1>7. Become(t, d)
  BY DEF id
<1> HIDE DEF d
<1> QED BY <1>5, <1>6, <1>7, MoveStep DEF Undoing, Deleters, Guarded

LEMMA UnitsTyped ==
  ASSUME CoreInv, NEW r \in Revs
  PROVE  UnitsOf(r) \subseteq Units /\ Coverage(r) \subseteq [part : Parts, time : 1..MaxTime]
<1>1. \A p \in Parts : part[r][p].policy \in 1..MaxPolicy /\ part[r][p].time \in 1..MaxTime
  BY DEF CoreInv, Parted
<1>2. In(r, {"processed"}) \subseteq Parts
  BY DEF In
<1>3. UnitsOf(r) \subseteq Units
  BY <1>1, <1>2 DEF UnitsOf, UnitOf, Units
<1>4. Coverage(r) \subseteq [part : Parts, time : 1..MaxTime]
  BY <1>1, <1>2 DEF Coverage
<1> QED BY <1>3, <1>4

LEMMA DraftStep ==
  ASSUME IInv, NEW t \in Threads, th[t].pc = "decide",
         NEW superseded, superseded = NoMap \/ Fits(superseded, maps),
         Become(t, Draft(t, th[t].rev, superseded)), StoresSame, ops' = ops, faults' = faults
  PROVE  IInv'
<1> DEFINE new == [rev |-> th[t].rev, status |-> th[t].status, cites |-> UnitsOf(th[t].rev),
                   processed |-> Coverage(th[t].rev)]
           id == <<new>> \o superseded
           d == Draft(t, th[t].rev, superseded)
<1>1. th[t] \in Call /\ CallOK(th[t])
  BY Known
<1>2. th[t].rev \in Revs /\ th[t].status \in {"initial", "complete"} /\ maps \in Nat
  BY <1>1 DEF CallOK, PhaseOK, Resting, Call, IInv, CoreInv
<1>3. new \in Contents /\ new.rev = th[t].rev
  BY <1>2, UnitsTyped DEF IInv, Contents
<1>4. Fits(id, maps + 1) /\ id[1] = new
  <2> HIDE DEF new
  <2>1. superseded \in Seq(Contents) /\ Len(superseded) \in 0..maps
    <3>1. CASE superseded = NoMap
      BY <1>2, <3>1 DEF NoMap
    <3>2. CASE Fits(superseded, maps)
      BY <1>2, <3>2 DEF Fits
    <3> QED BY <3>1, <3>2
  <2>2. <<new>> \in Seq(Contents) /\ Len(<<new>>) = 1 /\ <<new>>[1] = new
    BY <1>3
  <2>3. id \in Seq(Contents) /\ Len(id) = 1 + Len(superseded) /\ id[1] = new
    BY <2>1, <2>2
  <2> QED BY <2>1, <2>3, <1>2 DEF Fits
<1>5. \A m \in Seq(Contents) :
         LET e == [th[t] EXCEPT !.pc = "draft", !.target = m]
         IN  /\ e \in Call /\ e.pc = "draft" /\ e.rev = th[t].rev /\ e.target = m
             /\ e.ids = th[t].ids /\ e.stamp = th[t].stamp
  BY <1>1 DEF Call, Pcs
<1>6. id \in Seq(Contents)
  BY <1>4 DEF Fits
<1>7. d = [th[t] EXCEPT !.pc = "draft", !.target = id]
  BY DEF Draft
<1> HIDE DEF id, d
<1>8. /\ d \in Call /\ d.pc = "draft" /\ d.rev = th[t].rev /\ d.target = id
      /\ d.ids = th[t].ids /\ d.stamp = th[t].stamp
  BY <1>5, <1>6, <1>7
<1>9. id[1].rev = th[t].rev
  BY <1>3, <1>4
<1>10. CallOK(d)
  BY <1>1, <1>4, <1>8, <1>9
    DEF CallOK, PhaseOK, TargetOK, RevokeOK, Resting, Drafting, Publishing, Answering
<1>11. Become(t, d)
  BY DEF d
<1> QED BY <1>8, <1>10, <1>11, MoveStep DEF Undoing, Deleters, Guarded

LEMMA DecideInitialStep ==
  ASSUME IInv, NEW t \in Threads, DecideInitial(t)
  PROVE  IInv'
<1>1. StoresSame /\ ops' = ops /\ faults' = faults /\ th[t].pc = "decide"
  BY LocalSame DEF DecideInitial, At
<1>2. \/ Current(th[t].rev) # NoMap /\ Become(t, Existing(t, Current(th[t].rev)))
      \/ Become(t, Draft(t, th[t].rev, NoMap))
      \/ Published(t)
  BY DEF DecideInitial
<1>3. th[t].pc \notin Resting \cup Undoing
  BY <1>1 DEF Resting, Undoing
<1> QED BY <1>1, <1>2, <1>3, ExistingStep, DraftStep, PublishedStep

LEMMA DecideCompleteStep ==
  ASSUME IInv, NEW t \in Threads, DecideComplete(t)
  PROVE  IInv'
<1>1. StoresSame /\ ops' = ops /\ faults' = faults /\ th[t].pc = "decide"
  BY LocalSame DEF DecideComplete, At
<1>2. \/ Current(th[t].rev) # NoMap /\ Become(t, Existing(t, Current(th[t].rev)))
      \/ Become(t, Draft(t, th[t].rev, Current(th[t].rev)))
      \/ Become(t, Idle)
  BY DEF DecideComplete
<1>3. Current(th[t].rev) = NoMap \/ Fits(Current(th[t].rev), maps)
  BY CurrentIsOne DEF IInv
<1>4. th[t].pc \notin Undoing
  BY <1>1 DEF Undoing
<1> QED BY <1>1, <1>2, <1>3, <1>4, ExistingStep, DraftStep, IdleStep

LEMMA GotoStep ==
  ASSUME IInv, NEW t \in Threads, th[t].pc \notin Undoing \cup {"idle"},
         NEW x \in Pcs, Goto(t, x), x \notin Deleters \cup {"write"},
         x \in Guarded => guard \in {NoOne, t},
         StoresSame, ops' = ops, faults' = faults,
         \A d \in Call : /\ d.pc = x /\ d.rev = th[t].rev /\ d.target = th[t].target
                         /\ d.ids = th[t].ids /\ d.stamp = th[t].stamp
                         => CallOK(d)
  PROVE  IInv'
<1> DEFINE d == [th[t] EXCEPT !.pc = x]
<1>1. /\ d \in Call /\ d.pc = x /\ d.rev = th[t].rev /\ d.target = th[t].target
      /\ d.ids = th[t].ids /\ d.stamp = th[t].stamp
  BY Known, Moved
<1>2. Become(t, d)
  BY DEF Goto
<1> HIDE DEF d
<1> QED BY <1>1, <1>2, MoveStep

LEMMA HoldToSynthesizeStep ==
  ASSUME IInv, NEW t \in Threads, HoldToSynthesize(t)
  PROVE  IInv'
<1>1. StoresSame /\ ops' = ops /\ faults' = faults /\ th[t].pc = "draft" /\ guard = NoOne
  BY LocalSame DEF HoldToSynthesize, At
<1>2. CASE Goto(t, "synthesize")
  <2>1. \A d \in Call : /\ d.pc = "synthesize" /\ d.rev = th[t].rev /\ d.target = th[t].target
                        /\ d.ids = th[t].ids /\ d.stamp = th[t].stamp
                        => CallOK(d)
    BY <1>1, Known
      DEF CallOK, PhaseOK, TargetOK, RevokeOK, Resting, Drafting, Publishing, Answering
  <2> QED BY <1>1, <1>2, <2>1, GotoStep DEF Undoing, Deleters, Pcs, Guarded
<1>3. CASE Raise(t)
  BY <1>1, <1>3, RaiseStep
<1> QED BY <1>2, <1>3 DEF HoldToSynthesize

LEMMA SynthesizeStep ==
  ASSUME IInv, NEW t \in Threads, Synthesize(t)
  PROVE  IInv'
<1>1. StoresSame /\ ops' = ops /\ faults' = faults /\ th[t].pc = "synthesize" /\ guard = t
  BY LocalSame, Known DEF Synthesize, At, Guarded
<1>2. CASE Goto(t, "parse") /\ maps < MaxMaps
  <2>1. \A d \in Call : /\ d.pc = "parse" /\ d.rev = th[t].rev /\ d.target = th[t].target
                        /\ d.ids = th[t].ids /\ d.stamp = th[t].stamp
                        => CallOK(d)
    BY <1>1, <1>2, Known
      DEF CallOK, PhaseOK, TargetOK, RevokeOK, Resting, Drafting, Publishing, Answering
  <2> QED BY <1>1, <1>2, <2>1, GotoStep DEF Undoing, Deleters, Pcs, Guarded
<1>3. CASE Raise(t)
  BY <1>1, <1>3, RaiseStep
<1> QED BY <1>2, <1>3 DEF Synthesize

LEMMA HoldToPublishStep ==
  ASSUME IInv, NEW t \in Threads, HoldToPublish(t)
  PROVE  IInv'
<1>1. StoresSame /\ ops' = ops /\ faults' = faults /\ th[t].pc = "publish" /\ guard = NoOne
  BY LocalSame DEF HoldToPublish, At
<1>2. ASSUME NEW x \in {"save", "check"}, Goto(t, x), x = "save" => th[t].stamp # 0
      PROVE  IInv'
  <2>1. \A d \in Call : /\ d.pc = x /\ d.rev = th[t].rev /\ d.target = th[t].target
                        /\ d.ids = th[t].ids /\ d.stamp = th[t].stamp
                        => CallOK(d)
    BY <1>1, <1>2, Known
      DEF CallOK, PhaseOK, TargetOK, RevokeOK, Resting, Drafting, Publishing, Answering
  <2> QED BY <1>1, <1>2, <2>1, GotoStep DEF Undoing, Deleters, Pcs, Guarded
<1>3. CASE Raise(t)
  BY <1>1, <1>3, RaiseStep
<1> QED BY <1>2, <1>3 DEF HoldToPublish

LEMMA LoadSnapshotStep ==
  ASSUME IInv, NEW t \in Threads, LoadSnapshot(t)
  PROVE  IInv'
<1>1. StoresSame /\ ops' = ops /\ faults' = faults /\ th[t].pc = "load" /\ guard = t
  BY LocalSame, Known DEF LoadSnapshot, At, Guarded
<1>2. CASE Goto(t, "check")
  <2>1. \A d \in Call : /\ d.pc = "check" /\ d.rev = th[t].rev /\ d.target = th[t].target
                        /\ d.ids = th[t].ids /\ d.stamp = th[t].stamp
                        => CallOK(d)
    BY <1>1, Known
      DEF CallOK, PhaseOK, TargetOK, RevokeOK, Resting, Drafting, Publishing, Answering
  <2> QED BY <1>1, <1>2, <2>1, GotoStep DEF Undoing, Deleters, Pcs, Guarded
<1>3. CASE Raise(t)
  BY <1>1, <1>3, RaiseStep
<1> QED BY <1>2, <1>3 DEF LoadSnapshot

LEMMA CheckRevokedStep ==
  ASSUME IInv, NEW t \in Threads, CheckRevoked(t)
  PROVE  IInv'
<1>1. /\ StoresSame /\ ops' = ops /\ faults' = faults /\ th[t].pc = "check"
      /\ guard = t /\ lock = NoOne
  BY LocalSame, Known DEF CheckRevoked, At, Guarded
<1>2. CASE th[t].target \notin revoked /\ Goto(t, "write")
  <2> DEFINE d == [th[t] EXCEPT !.pc = "write"]
  <2>1. /\ d \in Call /\ d.pc = "write" /\ d.rev = th[t].rev /\ d.target = th[t].target
        /\ d.ids = th[t].ids /\ d.stamp = th[t].stamp
    <3>1. "write" \in Pcs
      BY DEF Pcs, Guarded
    <3> QED BY <3>1, Known, Moved
  <2>2. Become(t, d)
    BY <1>2 DEF Goto
  <2> HIDE DEF d
  <2>3. CallOK(d)
    BY <1>1, <1>2, <2>1, Known
      DEF CallOK, PhaseOK, TargetOK, RevokeOK, Resting, Drafting, Publishing, Answering
  <2>4. MayTake(t, d)
    BY <1>1, <2>1 DEF MayTake, Deleters
  <2>5. Keeps(t, d)
    BY <1>2 DEF Keeps
  <2>6. ops' \in 0..MaxOps /\ faults' \in 0..MaxFaults /\ faults' >= faults
    BY <1>1, Known
  <2> QED BY <1>1, <2>1, <2>2, <2>3, <2>4, <2>5, <2>6, LocalStep
<1>3. CASE Raise(t)
  BY <1>1, <1>3, RaiseStep
<1> QED BY <1>2, <1>3 DEF CheckRevoked

LEMMA RecheckStep ==
  ASSUME IInv, NEW t \in Threads, Recheck(t)
  PROVE  IInv'
<1>1. StoresSame /\ ops' = ops /\ faults' = faults /\ th[t].pc = "recheck" /\ guard = t
  BY LocalSame, Known DEF Recheck, At, Guarded
<1>2. CASE Goto(t, "withdraw")
  <2>1. \A d \in Call : /\ d.pc = "withdraw" /\ d.rev = th[t].rev /\ d.target = th[t].target
                        /\ d.ids = th[t].ids /\ d.stamp = th[t].stamp
                        => CallOK(d)
    BY <1>1, Known
      DEF CallOK, PhaseOK, TargetOK, RevokeOK, Resting, Drafting, Publishing, Answering
  <2> QED BY <1>1, <1>2, <2>1, GotoStep DEF Undoing, Deleters, Pcs, Guarded
<1>3. CASE Published(t)
  BY <1>1, <1>3, PublishedStep DEF Resting, Undoing
<1> QED BY <1>2, <1>3 DEF Recheck

LEMMA ReadContextStep ==
  ASSUME IInv, NEW t \in Threads, ReadContext(t)
  PROVE  IInv'
<1>1. StoresSame /\ ops' = ops /\ faults' = faults /\ th[t].pc = "context"
  BY LocalSame DEF ReadContext, At
<1> DEFINE id == Current(th[t].rev)
           d == [th[t] EXCEPT !.pc = "authority", !.target = id]
<1>2. CASE Become(t, Idle)
  BY <1>1, <1>2, IdleStep DEF Undoing
<1>3. CASE Become(t, d) /\ rev = th[t].rev /\ id # NoMap
  <2>1. Fits(id, maps) /\ id[1].rev = th[t].rev
    BY <1>3, CurrentIsOne DEF IInv
  <2>2. th[t] \in Call /\ CallOK(th[t])
    BY Known
  <2>3. \A m \in Seq(Contents) :
           LET e == [th[t] EXCEPT !.pc = "authority", !.target = m]
           IN  /\ e \in Call /\ e.pc = "authority" /\ e.rev = th[t].rev /\ e.target = m
               /\ e.ids = th[t].ids /\ e.stamp = th[t].stamp
    BY <2>2 DEF Call, Pcs
  <2>4. id \in Seq(Contents)
    BY <2>1 DEF Fits
  <2> HIDE DEF id
  <2>5. /\ d \in Call /\ d.pc = "authority" /\ d.rev = th[t].rev /\ d.target = id
        /\ d.ids = th[t].ids /\ d.stamp = th[t].stamp
    BY <2>3, <2>4
  <2> HIDE DEF d
  <2>6. rev <= rev
    BY DEF IInv, CoreInv
  <2>7. CallOK(d)
    BY <1>1, <1>3, <2>1, <2>2, <2>5, <2>6
      DEF CallOK, PhaseOK, TargetOK, RevokeOK, Resting, Drafting, Publishing, Answering
  <2> QED BY <1>1, <1>3, <2>5, <2>7, MoveStep DEF Undoing, Deleters, Guarded
<1> QED BY <1>2, <1>3 DEF ReadContext

LEMMA MatchAuthorityStep ==
  ASSUME IInv, NEW t \in Threads, MatchAuthority(t)
  PROVE  IInv'
<1>1. StoresSame /\ ops' = ops /\ faults' = faults /\ th[t].pc = "authority"
  BY LocalSame DEF MatchAuthority, At
<1>2. CASE Goto(t, "answer")
  <2>1. \A d \in Call : /\ d.pc = "answer" /\ d.rev = th[t].rev /\ d.target = th[t].target
                        /\ d.ids = th[t].ids /\ d.stamp = th[t].stamp
                        => CallOK(d)
    BY <1>1, Known
      DEF CallOK, PhaseOK, TargetOK, RevokeOK, Resting, Drafting, Publishing, Answering
  <2> QED BY <1>1, <1>2, <2>1, GotoStep DEF Undoing, Deleters, Pcs, Guarded
<1>3. CASE Become(t, Idle)
  BY <1>1, <1>3, IdleStep DEF Undoing
<1> QED BY <1>2, <1>3 DEF MatchAuthority

LEMMA HoldToAnswerStep ==
  ASSUME IInv, NEW t \in Threads, HoldToAnswer(t)
  PROVE  IInv'
<1>1. StoresSame /\ ops' = ops /\ faults' = faults /\ th[t].pc = "answer" /\ guard = NoOne
  BY LocalSame DEF HoldToAnswer, At
<1>2. CASE Goto(t, "compose") /\ Authorized(t)
  <2>1. \A d \in Call : /\ d.pc = "compose" /\ d.rev = th[t].rev /\ d.target = th[t].target
                        /\ d.ids = th[t].ids /\ d.stamp = th[t].stamp
                        => CallOK(d)
    BY <1>1, <1>2, Known
      DEF CallOK, PhaseOK, TargetOK, RevokeOK, Resting, Drafting, Publishing, Answering, Authorized
  <2> QED BY <1>1, <1>2, <2>1, GotoStep DEF Undoing, Deleters, Pcs, Guarded
<1>3. CASE Become(t, Idle)
  BY <1>1, <1>3, IdleStep DEF Undoing
<1> QED BY <1>2, <1>3 DEF HoldToAnswer

LEMMA ReturnStep ==
  ASSUME IInv, NEW t \in Threads, Compose(t) \/ Prepared(t)
  PROVE  IInv'
<1>1. /\ StoresSame /\ ops' = ops /\ faults' = faults /\ th[t].pc \in {"compose", "plan"}
      /\ Become(t, Idle)
  BY LocalSame DEF Compose, Prepared, At
<1> QED BY <1>1, IdleStep DEF Undoing

(* A preparation reads what it is to invalidate or to plan.                *)
LEMMA EntriesStep ==
  ASSUME IInv, NEW t \in Threads, th[t].pc \notin Undoing \cup Resting,
         NEW x \in Plain, NEW of \in 0..MaxRev, NEW entries \in SUBSET Parts,
         Become(t, [th[t] EXCEPT !.pc = x, !.of = of, !.entries = entries]),
         StoresSame, ops' = ops, faults' = faults
  PROVE  IInv'
<1> DEFINE d == [th[t] EXCEPT !.pc = x, !.of = of, !.entries = entries]
<1>1. x \in Pcs /\ th[t] \in Call /\ th[t].ids \subseteq revoked
  BY Known DEF Plain, Pcs, CallOK, RevokeOK
<1>2. /\ d \in Call /\ d.pc = x /\ d.rev = th[t].rev /\ d.ids = th[t].ids /\ d.stamp = th[t].stamp
  BY <1>1 DEF Call
<1>3. Become(t, d)
  OBVIOUS
<1> HIDE DEF d
<1> QED BY <1>1, <1>2, <1>3, PlainStep

LEMMA ReadPreviousStep ==
  ASSUME IInv, NEW t \in Threads, ReadPrevious(t)
  PROVE  IInv'
<1>1. StoresSame /\ ops' = ops /\ faults' = faults /\ th[t].pc = "previous"
  BY LocalSame DEF ReadPrevious, At
<1>2. CASE Raise(t)
  BY <1>1, <1>2, RaiseStep
<1>3. CASE Goto(t, "retry")
  <2>1. \A d \in Call : /\ d.pc = "retry" /\ d.rev = th[t].rev /\ d.target = th[t].target
                        /\ d.ids = th[t].ids /\ d.stamp = th[t].stamp
                        => CallOK(d)
    BY <1>1, Known, PlainOK DEF CallOK, RevokeOK, Plain, Resting
  <2> QED BY <1>1, <1>3, <2>1, GotoStep DEF Undoing, Deleters, Pcs, Guarded
<1> DEFINE changed == {p \in Planned(rev) : source[rev][p] # source[th[t].rev][p]}
<1>4. CASE Become(t, [th[t] EXCEPT !.pc = "changed", !.of = rev, !.entries = changed])
  <2>1. changed \in SUBSET Parts /\ rev \in 0..MaxRev
    BY DEF Planned, IInv, CoreInv
  <2> HIDE DEF changed
  <2> QED BY <1>1, <1>4, <2>1, EntriesStep DEF Undoing, Resting, Plain
<1> QED BY <1>2, <1>3, <1>4 DEF ReadPrevious

LEMMA AllInvalidatedStep ==
  ASSUME IInv, NEW t \in Threads, AllInvalidated(t)
  PROVE  IInv'
<1>1. /\ StoresSame /\ ops' = ops /\ faults' = faults /\ th[t].pc = "changed"
      /\ Become(t, [th[t] EXCEPT !.pc = "retry", !.of = 0])
  BY LocalSame DEF AllInvalidated, At
<1> DEFINE d == [th[t] EXCEPT !.pc = "retry", !.of = 0]
<1>2. th[t] \in Call /\ th[t].ids \subseteq revoked
  BY Known DEF CallOK, RevokeOK
<1>3. /\ d \in Call /\ d.pc = "retry" /\ d.rev = th[t].rev /\ d.ids = th[t].ids /\ d.stamp = th[t].stamp
  <2>1. "retry" \in Pcs /\ 0 \in 0..MaxRev
    BY DEF Pcs
  <2> QED BY <1>2, <2>1 DEF Call
<1> HIDE DEF d
<1>4. Become(t, d)
  BY <1>1 DEF d
<1> QED BY <1>1, <1>2, <1>3, <1>4, PlainStep DEF Plain, Resting, Undoing

LEMMA ReadPreparedStep ==
  ASSUME IInv, NEW t \in Threads, ReadPrepared(t)
  PROVE  IInv'
<1> DEFINE missing == In(th[t].rev, {"absent", "invalidated"})
           d == [th[t] EXCEPT !.pc = "plan", !.entries = missing]
<1>1. /\ StoresSame /\ ops' = ops /\ faults' = faults /\ th[t].pc = "stale" /\ Become(t, d)
  BY LocalSame DEF ReadPrepared, At
<1>2. th[t] \in Call /\ th[t].ids \subseteq revoked /\ missing \in SUBSET Parts
  BY Known DEF CallOK, RevokeOK, In
<1> HIDE DEF missing
<1>3. /\ d \in Call /\ d.pc = "plan" /\ d.rev = th[t].rev /\ d.ids = th[t].ids /\ d.stamp = th[t].stamp
  BY <1>2 DEF Call, Pcs
<1> HIDE DEF d
<1> QED BY <1>1, <1>2, <1>3, PlainStep DEF Plain, Resting, Undoing

(* A call starts with the revision that is approved.                       *)
LEMMA StartStep ==
  ASSUME IInv, NEW t \in Threads, NEW kind \in Kinds, NEW pc \in {"begin", "context", "previous"},
         Start(t, kind, pc)
  PROVE  IInv'
<1> DEFINE d == [Idle EXCEPT !.kind = kind, !.pc = pc, !.rev = approved]
<1>1. /\ th[t].pc = "idle" /\ ops < MaxOps /\ approved \in Revs /\ ~deletion /\ ops' = ops + 1
      /\ Become(t, d) /\ StoresSame /\ faults' = faults
  BY DEF Start, At, StoresSame
<1>2. Idle \in Call /\ Idle.ids = {} /\ Idle.stamp = 0 /\ approved \in 0..MaxRev /\ pc \in Pcs
  BY <1>1, IdleCall, IdleOK DEF IInv, Pcs
<1>3. \A c \in Call : LET e == [c EXCEPT !.kind = kind, !.pc = pc, !.rev = approved]
                      IN  /\ e \in Call /\ e.pc = pc /\ e.rev = approved /\ e.ids = c.ids
                          /\ e.stamp = c.stamp
  BY <1>2 DEF Call
<1>4. d \in Call /\ d.pc = pc /\ d.rev = approved /\ d.ids = {} /\ d.stamp = 0
  BY <1>2, <1>3
<1> HIDE DEF d
<1>5. CallOK(d)
  BY <1>1, <1>4 DEF CallOK, PhaseOK, TargetOK, RevokeOK, Resting, Drafting, Publishing, Answering
<1>6. \A u \in Threads : th[u].pc \notin Deleters
  BY <1>1, Known DEF CallOK, PhaseOK, Deleters
<1>7. MayTake(t, d)
  BY <1>4, <1>6 DEF MayTake, Deleters, Guarded
<1>8. Keeps(t, d)
  BY <1>1 DEF Keeps, Undoing
<1>9. ops' \in 0..MaxOps /\ faults' \in 0..MaxFaults /\ faults' >= faults
  BY <1>1, Known
<1> QED BY <1>1, <1>4, <1>5, <1>7, <1>8, <1>9, LocalStep

(***************************************************************************)
(* The calls that change the stores.                                       *)
(***************************************************************************)
LEMMA WithdrawnKept ==
  ASSUME IInv, NEW t \in Threads, \A u \in Threads \ {t} : th'[u] = th[u],
         faults \in Nat, faults' \in Nat, faults' >= faults,
         \A id \in revoked' : Row(id)' # {} =>
            \/ id \in revoked /\ Row(id) # {} /\ (TakesBack(t, id) => faults' > 0 \/ TakesBack(t, id)')
            \/ TakesBack(t, id)'
  PROVE  WithdrawnInv'
<1> SUFFICES ASSUME ~(faults' > 0), NEW id \in revoked', Row(id)' # {}
             PROVE  \E u \in Threads : TakesBack(u, id)'
  BY DEF WithdrawnInv, Row
<1>1. CASE TakesBack(t, id)'
  BY <1>1
<1>2. CASE ~TakesBack(t, id)'
  <2>1. id \in revoked /\ Row(id) # {} /\ ~TakesBack(t, id) /\ ~(faults > 0)
    BY <1>2
  <2>2. PICK u \in Threads : TakesBack(u, id)
    BY <2>1 DEF IInv, WithdrawnInv
  <2>3. th'[u] = th[u]
    BY <2>1, <2>2
  <2> QED BY <2>2, <2>3 DEF TakesBack
<1> QED BY <1>1, <1>2

LEMMA ThenFacts ==
  ASSUME IInv, NEW t \in Threads, NEW next \in Call, Then(t, next), th[t].pc # "idle",
         MayTake(t, next)
  PROVE  \E d \in Call : /\ Become(t, d) /\ MayTake(t, d)
                         /\ faults' \in 0..MaxFaults /\ faults' >= faults
                         /\ \/ d = next /\ faults' = faults
                            \/ d = Raised(t) /\ faults' > 0 /\ CallOK(Raised(t))
                               /\ Raised(t).pc \in {"idle", "undo", "drop"}
<1>1. CASE Become(t, next) /\ faults' = faults
  BY <1>1 DEF IInv, CoreInv
<1>2. CASE Fault(t)
  BY <1>2, RaisedOK DEF Fault, Raise, IInv, CoreInv
<1> QED BY <1>1, <1>2 DEF Then

(* An artifact gets its tombstone, or is written.                          *)
LEMMA ArtifactStep ==
  ASSUME IInv, NEW t \in Threads, th[t].pc \notin Resting, NEW next \in Call,
         Become(t, next), MayTake(t, next), UNCHANGED <<workspace, store, ops, maps>>,
         faults' \in 0..MaxFaults, faults' >= faults, NEW id, Fits(id, maps),
         \/ tombs' = tombs \cup {id} /\ docs' = docs \ {id} /\ (id \in revoked \/ guard = t)
         \/ docs' = docs \cup {id} /\ tombs' = tombs /\ id \notin tombs /\ guard = t,
         CallOK(th[t])', faults' > 0 \/ Keeps(t, next)
  PROVE  IInv'
<1> USE DEF workspace, store
<1>1. LockInv' /\ th'[t] = next /\ \A u \in Threads \ {t} : th'[u] = th[u]
  BY BecomeStep DEF IInv
<1>2. CoreInv' /\ MapInv' /\ IdInv' /\ CitedInv'
  <2>1. CoreInv'
    BY DEF IInv, CoreInv
  <2>2. MapInv' /\ IdInv'
    BY DEF IInv, MapInv, IdInv, Fits
  <2>3. CitedInv'
    BY DEF IInv, CitedInv, Valid, UnitsOf, UnitOf, In
  <2> QED BY <2>1, <2>2, <2>3
<1>3. RevocationInv'
  <2>1. approved # Gone
    BY Known DEF CallOK, PhaseOK
  <2> QED BY <2>1 DEF IInv, RevocationInv
<1>4. WithdrawnInv'
  <2>1. \A m \in revoked' : Row(m)' # {} =>
           m \in revoked /\ Row(m) # {} /\ (TakesBack(t, m) => faults' > 0 \/ TakesBack(t, m)')
    BY <1>1 DEF Row, TakesBack, Keeps, Undoing
  <2>2. faults \in Nat /\ faults' \in Nat
    BY DEF IInv, CoreInv
  <2> QED BY <1>1, <2>1, <2>2, WithdrawnKept
<1>5. ASSUME NEW u \in Threads \ {t}
      PROVE  CallOK(th[u])'
  <2>1. CallOK(th[u]) /\ th'[u] = th[u] /\ th[u].pc # "rows"
    BY <1>1, Known DEF Resting, Deleters
  <2>2. th[u].pc = "recheck" => guard # t
    BY Known DEF Guarded
  <2> QED BY <2>1, <2>2 DEF CallOK, PhaseOK, TargetOK, RevokeOK, Fits, Row, Resting
<1>6. CallInv'
  BY <1>5 DEF CallInv
<1> QED BY <1>1, <1>2, <1>3, <1>4, <1>6 DEF IInv

LEMMA RevokeArtifactStep ==
  ASSUME IInv, NEW t \in Threads, RevokeArtifact(t)
  PROVE  IInv'
<1>1. PICK id \in th[t].ids :
         /\ tombs' = tombs \cup {id} /\ docs' = docs \ {id}
         /\ Then(t, [th[t] EXCEPT !.pc = "completed", !.target = id])
  BY DEF RevokeArtifact
<1>2. th[t].pc = "revoke" /\ UNCHANGED <<workspace, store, ops, maps>> /\ th[t] \in Call /\ CallOK(th[t])
  BY Known DEF RevokeArtifact, At
<1>3. id \in revoked /\ Fits(id, maps)
  BY <1>1, <1>2 DEF CallOK, RevokeOK, IInv, IdInv
<1>4. PICK e \in Call : /\ e = [th[t] EXCEPT !.pc = "completed", !.target = id]
                        /\ e.pc = "completed" /\ e.target = id /\ e.rev = th[t].rev
                        /\ e.ids = th[t].ids /\ e.stamp = th[t].stamp
  <2>1. id \in Seq(Contents)
    BY <1>3 DEF Fits
  <2> DEFINE f == [th[t] EXCEPT !.pc = "completed", !.target = id]
  <2>2. /\ f \in Call /\ f.pc = "completed" /\ f.target = id /\ f.rev = th[t].rev
        /\ f.ids = th[t].ids /\ f.stamp = th[t].stamp
    BY <1>2, <2>1 DEF Call, Pcs
  <2>3. f = [th[t] EXCEPT !.pc = "completed", !.target = id]
    OBVIOUS
  <2> HIDE DEF f
  <2> QED BY <2>2, <2>3
<1>5. MayTake(t, e)
  BY <1>2, <1>4 DEF MayTake, Guarded, Deleters
<1>6. PICK d \in Call : /\ Become(t, d) /\ MayTake(t, d)
                        /\ faults' \in 0..MaxFaults /\ faults' >= faults
                        /\ \/ d = e /\ faults' = faults
                           \/ d = Raised(t) /\ faults' > 0 /\ CallOK(Raised(t))
                              /\ Raised(t).pc \in {"idle", "undo", "drop"}
  <2>1. Then(t, e)
    BY <1>1, <1>4
  <2> QED BY <1>2, <1>5, <2>1, ThenFacts
<1>7. th'[t] = d
  BY <1>6, BecomeStep DEF IInv
<1>8. CallOK(th[t])'
  <2>1. CASE d = e
    BY <1>1, <1>2, <1>3, <1>4, <1>7, <2>1 DEF workspace, store,
       CallOK, PhaseOK, TargetOK, RevokeOK, Resting, Drafting, Publishing, Answering, Fits
  <2>2. CASE d = Raised(t) /\ CallOK(Raised(t)) /\ Raised(t).pc \in {"idle", "undo", "drop"}
    <3> HIDE DEF Raised
    <3> QED BY <1>2, <1>7, <2>2 DEF workspace, store,
       CallOK, PhaseOK, TargetOK, RevokeOK, Resting, Drafting, Publishing, Answering, Fits
  <2> QED BY <1>6, <2>1, <2>2
<1>9. Keeps(t, d)
  BY <1>2 DEF Keeps, Undoing
<1> QED BY <1>1, <1>2, <1>3, <1>6, <1>8, <1>9, ArtifactStep DEF Resting

LEMMA RevokeOwnStep ==
  ASSUME IInv, NEW t \in Threads, RevokeOwn(t)
  PROVE  IInv'
<1> DEFINE id == th[t].target
           x == IF At(t, "undo") THEN "drop" ELSE "forget"
<1>1. /\ th[t].pc \in {"undo", "withdraw"} /\ UNCHANGED <<workspace, store, ops, maps>>
      /\ tombs' = tombs \cup {id} /\ docs' = docs \ {id}
      /\ Then(t, [th[t] EXCEPT !.pc = x])
  BY DEF RevokeOwn, To
<1>2. th[t] \in Call /\ CallOK(th[t]) /\ guard = t /\ Fits(id, maps)
  BY <1>1, Known DEF CallOK, TargetOK, Publishing, Guarded
<1>3. x = (IF th[t].pc = "undo" THEN "drop" ELSE "forget") /\ x \in Pcs
  BY DEF At, Pcs, Guarded
<1> HIDE DEF x
<1>4. PICK e \in Call : /\ e = [th[t] EXCEPT !.pc = x]
                        /\ e.pc = x /\ e.target = id /\ e.rev = th[t].rev
                        /\ e.ids = th[t].ids /\ e.stamp = th[t].stamp /\ e.inserted = th[t].inserted
  <2> DEFINE f == [th[t] EXCEPT !.pc = x]
  <2>1. /\ f \in Call /\ f.pc = x /\ f.target = id /\ f.rev = th[t].rev
        /\ f.ids = th[t].ids /\ f.stamp = th[t].stamp /\ f.inserted = th[t].inserted
    BY <1>2, <1>3, Moved
  <2>2. f = [th[t] EXCEPT !.pc = x]
    OBVIOUS
  <2> HIDE DEF f
  <2> QED BY <2>1, <2>2
<1>5. MayTake(t, e)
  BY <1>1, <1>2, <1>3, <1>4 DEF MayTake, Deleters
<1>6. PICK d \in Call : /\ Become(t, d) /\ MayTake(t, d)
                        /\ faults' \in 0..MaxFaults /\ faults' >= faults
                        /\ \/ d = e /\ faults' = faults
                           \/ d = Raised(t) /\ faults' > 0 /\ CallOK(Raised(t))
                              /\ Raised(t).pc \in {"idle", "undo", "drop"}
  <2>1. Then(t, e)
    BY <1>1, <1>4
  <2> QED BY <1>1, <1>5, <2>1, ThenFacts
<1>7. th'[t] = d
  BY <1>6, BecomeStep DEF IInv
<1>8. CallOK(th[t])'
  <2>1. CASE d = e
    BY <1>1, <1>2, <1>3, <1>4, <1>7, <2>1 DEF workspace, store,
       CallOK, PhaseOK, TargetOK, RevokeOK, Resting, Drafting, Publishing, Answering, Fits
  <2>2. CASE d = Raised(t) /\ CallOK(Raised(t)) /\ Raised(t).pc \in {"idle", "undo", "drop"}
    <3> HIDE DEF Raised
    <3> QED BY <1>1, <1>7, <2>2 DEF workspace, store,
       CallOK, PhaseOK, TargetOK, RevokeOK, Resting, Drafting, Publishing, Answering, Fits
  <2> QED BY <1>6, <2>1, <2>2
<1>9. faults' > 0 \/ Keeps(t, d)
  BY <1>1, <1>3, <1>4, <1>6 DEF Keeps, Undoing
<1> QED BY <1>1, <1>2, <1>6, <1>8, <1>9, ArtifactStep DEF Resting

LEMMA WriteArtifactStep ==
  ASSUME IInv, NEW t \in Threads, WriteArtifact(t)
  PROVE  IInv'
<1> DEFINE id == th[t].target
<1>1. th[t].pc = "write" /\ UNCHANGED <<workspace, store, tombs, ops, maps>>
  BY DEF WriteArtifact, At
<1>2. /\ th[t] \in Call /\ CallOK(th[t]) /\ guard = t /\ Fits(id, maps)
      /\ faults \in 0..MaxFaults /\ th[t].pc \notin Resting
  BY <1>1, Known DEF CallOK, TargetOK, Publishing, Guarded, Resting
<1>3. CASE id \in tombs
  <2>1. Raise(t) /\ StoresSame /\ ops' = ops /\ faults' = faults
    BY <1>1, <1>3 DEF WriteArtifact, StoresSame, artifacts
  <2> QED BY <1>1, <2>1, RaiseStep
<1>4. ASSUME id \notin tombs, NEW d \in Call, Become(t, d), MayTake(t, d),
             docs' = docs \cup {id}, faults' \in 0..MaxFaults, faults' >= faults, CallOK(th[t])'
      PROVE  IInv'
  <2>1. Keeps(t, d)
    BY <1>1 DEF Keeps, Undoing
  <2> HIDE DEF id
  <2> QED BY <1>1, <1>2, <1>4, <2>1, ArtifactStep
<1>5. CASE id \notin tombs /\ docs' = docs \cup {id} /\ faults' = faults /\ Goto(t, "recheck")
  <2> DEFINE d == [th[t] EXCEPT !.pc = "recheck"]
  <2>1. /\ d \in Call /\ d.pc = "recheck" /\ d.rev = th[t].rev /\ d.target = id
        /\ d.ids = th[t].ids /\ d.stamp = th[t].stamp
    <3>1. "recheck" \in Pcs
      BY DEF Pcs, Guarded
    <3> QED BY <1>2, <3>1, Moved
  <2>2. Become(t, d)
    BY <1>5 DEF Goto
  <2> HIDE DEF d
  <2>3. MayTake(t, d)
    BY <1>1, <1>2, <2>1 DEF MayTake, Deleters
  <2>4. th'[t] = d
    BY <2>1, <2>2, <2>3, BecomeStep DEF IInv
  <2>5. CallOK(th[t])'
    BY <1>1, <1>2, <1>5, <2>1, <2>4 DEF workspace, store, Row,
       CallOK, PhaseOK, TargetOK, RevokeOK, Resting, Drafting, Publishing, Answering, Fits
  <2>6. faults' \in 0..MaxFaults /\ faults' >= faults
    BY <1>2, <1>5
  <2> QED BY <1>4, <1>5, <2>1, <2>2, <2>3, <2>5, <2>6
<1>6. CASE id \notin tombs /\ docs' = docs \cup {id} /\ faults' = faults /\ Published(t)
  <2>1. PICK d \in Call : /\ Become(t, d) /\ CallOK(d)
                          /\ d.pc \in {"begin", "idle"} /\ d.pc \notin Guarded
    BY <1>2, <1>6, PublishedOK
  <2>2. MayTake(t, d)
    BY <1>1, <2>1 DEF MayTake, Deleters
  <2>3. th'[t] = d
    BY <2>1, <2>2, BecomeStep DEF IInv
  <2>4. CallOK(th[t])'
    BY <1>1, <2>1, <2>3 DEF workspace, store,
       CallOK, PhaseOK, TargetOK, RevokeOK, Resting, Drafting, Publishing, Answering, Fits
  <2>5. faults' \in 0..MaxFaults /\ faults' >= faults
    BY <1>2, <1>6
  <2> QED BY <1>4, <1>6, <2>1, <2>2, <2>4, <2>5
<1>7. CASE id \notin tombs /\ docs' = docs \cup {id} /\ Fault(t)
  <2>1. /\ Raised(t) \in Call /\ MayTake(t, Raised(t)) /\ CallOK(Raised(t))
        /\ Raised(t).pc \in {"idle", "undo", "drop"}
    BY <1>1, RaisedOK
  <2>2. Become(t, Raised(t)) /\ faults' \in 0..MaxFaults /\ faults' >= faults
    BY <1>2, <1>7 DEF Fault, Raise
  <2>3. th'[t] = Raised(t)
    BY <2>1, <2>2, BecomeStep DEF IInv
  <2>4. CallOK(th[t])'
    <3> HIDE DEF Raised
    <3> QED BY <1>1, <2>1, <2>3 DEF workspace, store,
       CallOK, PhaseOK, TargetOK, RevokeOK, Resting, Drafting, Publishing, Answering, Fits
  <2> QED BY <1>4, <1>7, <2>1, <2>2, <2>4
<1> QED BY <1>3, <1>5, <1>6, <1>7 DEF WriteArtifact

LEMMA CompleteRevocationStep ==
  ASSUME IInv, NEW t \in Threads, CompleteRevocation(t)
  PROVE  IInv'
<1> DEFINE d == [th[t] EXCEPT !.pc = "revoke", !.target = NoMap, !.ids = @ \ {th[t].target}]
<1>1. /\ th[t].pc = "completed" /\ pending' = pending \ {th[t].target} /\ Become(t, d)
      /\ UNCHANGED <<workspace, artifacts, rev, part, rows, revoked, deletion, ops, maps, faults>>
  BY DEF CompleteRevocation, At
<1>2. th[t] \in Call /\ CallOK(th[t]) /\ th[t].target \in tombs /\ th[t].ids \subseteq revoked
  BY <1>1, Known DEF CallOK, RevokeOK
<1>3. /\ d \in Call /\ d.pc = "revoke" /\ d.rev = th[t].rev /\ d.stamp = th[t].stamp
      /\ d.ids \subseteq revoked
  <2>1. "revoke" \in Pcs /\ NoMap \in Seq(Contents)
    BY DEF Pcs, NoMap
  <2> QED BY <1>2, <2>1 DEF Call
<1> HIDE DEF d
<1>4. MayTake(t, d)
  BY <1>1, <1>3 DEF MayTake, Guarded, Deleters
<1>5. LockInv' /\ th'[t] = d /\ \A u \in Threads \ {t} : th'[u] = th[u]
  BY <1>1, <1>3, <1>4, BecomeStep DEF IInv
<1> USE DEF workspace, artifacts
<1>6. CoreInv'
  BY <1>1 DEF IInv, CoreInv
<1>7. MapInv' /\ IdInv'
  BY <1>1 DEF IInv, MapInv, IdInv, Fits
<1>8. CitedInv'
  BY <1>1 DEF IInv, CitedInv, Valid, UnitsOf, UnitOf, In
<1>9. RevocationInv'
  BY <1>1, <1>2 DEF IInv, RevocationInv
<1>10. WithdrawnInv'
  <2>1. \A m \in revoked' : Row(m)' # {} => m \in revoked /\ Row(m) # {} /\ ~TakesBack(t, m)
    BY <1>1 DEF Row, TakesBack
  <2>2. faults \in Nat /\ faults' \in Nat /\ faults' >= faults
    BY <1>1 DEF IInv, CoreInv
  <2> QED BY <1>5, <2>1, <2>2, WithdrawnKept
<1>11. CallInv'
  <2>1. CallOK(d)
    BY <1>1, <1>2, <1>3, PlainOK DEF Resting, Plain
  <2>2. \A u \in Threads : CallOK(th'[u])
    BY <1>5, <2>1 DEF IInv, CallInv
  <2> QED BY <1>1, <2>2 DEF CallInv, CallOK, PhaseOK, TargetOK, RevokeOK, Fits, Row
<1> QED BY <1>5, <1>6, <1>7, <1>8, <1>9, <1>10, <1>11 DEF IInv

(* The rows: one more, which is the map of a publication, or less.         *)
LEMMA SaveSnapshotStep ==
  ASSUME IInv, NEW t \in Threads, SaveSnapshot(t)
  PROVE  IInv'
<1> DEFINE id == th[t].target
           new == [id |-> id, stamp |-> th[t].stamp]
           d == [th[t] EXCEPT !.pc = "check", !.inserted = TRUE]
<1>1. /\ th[t].pc = "save"
      /\ UNCHANGED <<workspace, artifacts, rev, part, revoked, pending, deletion, ops, maps, faults>>
  BY DEF SaveSnapshot, At
<1>2. /\ th[t] \in Call /\ CallOK(th[t]) /\ guard = t /\ Fits(id, maps) /\ th[t].stamp \in 1..maps
      /\ approved # Gone
  BY <1>1, Known DEF CallOK, TargetOK, Publishing, Guarded, PhaseOK, Resting
<1>3. CASE Raise(t) /\ rows' = rows
  BY <1>1, <1>3, RaiseStep DEF StoresSame, store
<1>4. CASE Goto(t, "load") /\ rows' = rows
  <2>1. \A e \in Call : /\ e.pc = "load" /\ e.rev = th[t].rev /\ e.target = th[t].target
                        /\ e.ids = th[t].ids /\ e.stamp = th[t].stamp
                        => CallOK(e)
    BY <1>1, <1>2
      DEF CallOK, PhaseOK, TargetOK, RevokeOK, Resting, Drafting, Publishing, Answering
  <2>2. StoresSame /\ ops' = ops /\ faults' = faults
    BY <1>1, <1>4 DEF StoresSame, store
  <2> QED BY <1>1, <1>2, <1>4, <2>1, <2>2, GotoStep DEF Undoing, Deleters, Pcs, Guarded
<1>5. CASE Valid(id) /\ Row(id) = {} /\ rows' = rows \cup {new} /\ Become(t, d)
  <2>1. /\ d \in Call /\ d.pc = "check" /\ d.rev = th[t].rev /\ d.target = id
        /\ d.ids = th[t].ids /\ d.stamp = th[t].stamp /\ d.inserted
    <3>1. "check" \in Pcs
      BY DEF Pcs, Guarded
    <3> QED BY <1>2, <3>1 DEF Call
  <2> HIDE DEF d
  <2>2. MayTake(t, d)
    BY <1>1, <1>2, <2>1 DEF MayTake, Deleters
  <2>3. LockInv' /\ th'[t] = d /\ \A u \in Threads \ {t} : th'[u] = th[u]
    BY <1>5, <2>1, <2>2, BecomeStep DEF IInv
  <2> USE DEF workspace, artifacts
  <2>4. CoreInv'
    BY <1>1 DEF IInv, CoreInv
  <2>5. MapInv' /\ IdInv'
    <3> USE <1>1 DEF Fits
    <3>1. \A row \in rows' : Fits(row.id, maps) /\ row.stamp \in 1..maps
      BY <1>2, <1>5 DEF IInv, MapInv
    <3>2. \A row, other \in rows' : row.id = other.id => row = other
      BY <1>5 DEF IInv, MapInv, Row
    <3>3. IdInv'
      BY DEF IInv, IdInv
    <3> QED BY <3>1, <3>2, <3>3 DEF MapInv
  <2>6. CitedInv'
    <3>1. \A row \in rows' : Valid(row.id)
      BY <1>5 DEF IInv, CitedInv
    <3> QED BY <1>1, <3>1 DEF CitedInv, Valid, UnitsOf, UnitOf, In
  <2>7. RevocationInv'
    BY <1>1, <1>2 DEF IInv, RevocationInv
  <2>8. WithdrawnInv'
    <3>1. \A m \in revoked' : Row(m)' # {} =>
             \/ m \in revoked /\ Row(m) # {} /\ ~TakesBack(t, m)
             \/ TakesBack(t, m)'
      BY <1>1, <1>5, <2>1, <2>3 DEF Row, TakesBack
    <3>2. faults \in Nat /\ faults' \in Nat /\ faults' >= faults
      BY <1>1 DEF IInv, CoreInv
    <3> QED BY <2>3, <3>1, <3>2, WithdrawnKept
  <2>9. CallInv'
    <3>1. CallOK(th[t])'
      BY <1>1, <1>2, <2>1, <2>3
        DEF CallOK, PhaseOK, TargetOK, RevokeOK, Resting, Drafting, Publishing, Answering, Fits
    <3>2. ASSUME NEW u \in Threads \ {t}
          PROVE  CallOK(th[u])'
      <4>1. CallOK(th[u]) /\ th'[u] = th[u] /\ th[u].pc \notin {"write", "recheck"}
        BY <1>2, <2>3, Known DEF Guarded
      <4> QED BY <1>1, <4>1 DEF CallOK, PhaseOK, TargetOK, RevokeOK, Fits
    <3> QED BY <3>1, <3>2 DEF CallInv
  <2> QED BY <2>3, <2>4, <2>5, <2>6, <2>7, <2>8, <2>9 DEF IInv
<1> QED BY <1>1, <1>3, <1>4, <1>5 DEF SaveSnapshot

LEMMA DeleteSnapshotStep ==
  ASSUME IInv, NEW t \in Threads, DeleteSnapshot(t)
  PROVE  IInv'
<1>1. /\ th[t].pc \in {"drop", "forget"} /\ rows' = rows \ Row(th[t].target) /\ Become(t, Idle)
      /\ UNCHANGED <<workspace, artifacts, rev, part, revoked, pending, deletion, ops, maps, faults>>
  BY DEF DeleteSnapshot
<1>2. Idle \in Call /\ CallOK(Idle) /\ Idle.pc = "idle" /\ ~Idle.inserted /\ Idle.ids = {} /\ Idle.stamp = 0
  BY IdleCall, IdleOK DEF IInv
<1>3. MayTake(t, Idle)
  BY <1>2 DEF MayTake, Guarded, Deleters
<1>4. LockInv' /\ th'[t] = Idle /\ \A u \in Threads \ {t} : th'[u] = th[u]
  BY <1>1, <1>2, <1>3, BecomeStep DEF IInv
<1> USE DEF workspace, artifacts
<1>5. CoreInv'
  BY <1>1 DEF IInv, CoreInv
<1>6. MapInv' /\ IdInv'
  BY <1>1 DEF IInv, MapInv, IdInv, Fits
<1>7. CitedInv'
  BY <1>1 DEF IInv, CitedInv, Valid, UnitsOf, UnitOf, In
<1>8. RevocationInv'
  BY <1>1 DEF IInv, RevocationInv
<1>9. WithdrawnInv'
  <2>1. \A m \in revoked' : Row(m)' # {} => m \in revoked /\ Row(m) # {} /\ ~TakesBack(t, m)
    BY <1>1 DEF Row, TakesBack
  <2>2. faults \in Nat /\ faults' \in Nat /\ faults' >= faults
    BY <1>1 DEF IInv, CoreInv
  <2> QED BY <1>4, <2>1, <2>2, WithdrawnKept
<1>10. CallInv'
  <2>1. CallOK(th[t])'
    BY <1>1, <1>2, <1>4
      DEF CallOK, PhaseOK, TargetOK, RevokeOK, Resting, Drafting, Publishing, Answering
  <2>2. ASSUME NEW u \in Threads \ {t}
        PROVE  CallOK(th[u])'
    <3>1. CallOK(th[u]) /\ th'[u] = th[u]
      BY <1>4, Known
    <3>2. \A m : Row(m) = {} => Row(m)' = {}
      BY <1>1 DEF Row
    <3> QED BY <1>1, <3>1, <3>2 DEF CallOK, PhaseOK, TargetOK, RevokeOK, Fits
  <2> QED BY <2>1, <2>2 DEF CallInv
<1> QED BY <1>4, <1>5, <1>6, <1>7, <1>8, <1>9, <1>10 DEF IInv

(***************************************************************************)
(* The parts: what maps cite stays.                                        *)
(***************************************************************************)
LEMMA CitedKept ==
  ASSUME IInv, rows' \subseteq rows,
         \A row \in rows', p \in Parts :
            LET r == row.id[1].rev
            IN  part[r][p].state = "processed" /\ UnitOf(r, p) \in row.id[1].cites
                => part'[r][p] = part[r][p]
  PROVE  CitedInv'
<1> SUFFICES ASSUME NEW row \in rows' PROVE Valid(row.id)'
  BY DEF CitedInv
<1> DEFINE r == row.id[1].rev
<1>1. Valid(row.id)
  BY DEF IInv, CitedInv
<1> SUFFICES ASSUME NEW u \in row.id[1].cites PROVE u \in UnitsOf(r)'
  BY DEF Valid
<1>2. PICK p \in In(r, {"processed"}) : u = UnitOf(r, p)
  BY <1>1 DEF Valid, UnitsOf
<1>3. p \in Parts /\ part[r][p].state = "processed"
  BY <1>2 DEF In
<1>4. part'[r][p] = part[r][p]
  BY <1>2, <1>3
<1> QED BY <1>2, <1>3, <1>4 DEF UnitsOf, UnitOf, In

LEMMA PartStep ==
  ASSUME IInv, NEW t \in Threads, th[t].pc \notin Undoing \cup {"idle"},
         NEW next \in Call, Become(t, next), MayTake(t, next),
         next.pc \in Plain \cup {"idle"}, CallOK(next),
         UNCHANGED <<workspace, artifacts, rows, revoked, pending, deletion, ops, maps, faults>>,
         rev' \in {rev, approved}, rev' # rev => approved \in Revs,
         part' \in [Revs -> [Parts -> Parted]],
         \A q \in Revs, p \in Parts : part[q][p].state = "processed" => part'[q][p] = part[q][p]
  PROVE  IInv'
<1> USE DEF workspace, artifacts
<1>1. LockInv' /\ th'[t] = next /\ \A u \in Threads \ {t} : th'[u] = th[u]
  BY BecomeStep DEF IInv
<1>2. CoreInv'
  BY DEF IInv, CoreInv
<1>3. MapInv' /\ IdInv' /\ RevocationInv'
  BY DEF IInv, MapInv, IdInv, Fits, RevocationInv
<1>4. CitedInv'
  <2>1. \A row \in rows : row.id[1].rev \in Revs
    BY FitsFirst DEF IInv, MapInv, CoreInv
  <2> QED BY <2>1, CitedKept
<1>5. WithdrawnInv'
  <2>1. \A m \in revoked' : Row(m)' # {} => m \in revoked /\ Row(m) # {} /\ ~TakesBack(t, m)
    BY DEF Row, TakesBack, Undoing
  <2>2. faults \in Nat /\ faults' \in Nat /\ faults' >= faults
    BY DEF IInv, CoreInv
  <2> QED BY <1>1, <2>1, <2>2, WithdrawnKept
<1>6. CallInv'
  <2>1. CallOK(th[t])'
    BY <1>1 DEF CallOK, PhaseOK, TargetOK, RevokeOK,
       Plain, Resting, Drafting, Publishing, Answering, Fits, Row
  <2>2. ASSUME NEW u \in Threads \ {t}
        PROVE  CallOK(th[u])'
    <3>1. CallOK(th[u]) /\ th'[u] = th[u] /\ th[u] \in Call
      BY <1>1, Known
    <3>2. th[u].rev \in Nat
      BY <3>1 DEF Call
    <3>3. rev \in Nat /\ approved \in Nat /\ rev <= approved
      BY StudyMapAssumption DEF IInv, CoreInv, Gone
    <3>4. rev' \in Nat /\ rev <= rev'
      BY <3>3
    <3> QED BY <3>1, <3>2, <3>3, <3>4 DEF CallOK, PhaseOK, TargetOK, RevokeOK, Fits, Row
  <2> QED BY <2>1, <2>2 DEF CallInv
<1> QED BY <1>1, <1>2, <1>3, <1>4, <1>5, <1>6 DEF IInv

LEMMA RetryFailedStep ==
  ASSUME IInv, NEW t \in Threads, RetryFailed(t)
  PROVE  IInv'
<1> DEFINE r == th[t].rev
           d == [th[t] EXCEPT !.pc = "stale", !.of = r, !.entries = Parts]
           Retried(p) == CASE rev = r /\ p.state = "failed" -> [p EXCEPT !.state = "pending"]
                           [] rev = r /\ p.state = "unprepared" -> [p EXCEPT !.state = "absent"]
                           [] OTHER -> p
<1>1. /\ th[t].pc = "retry" /\ Become(t, d)
      /\ part' = [part EXCEPT ![r] = [p \in Parts |-> Retried(@[p])]]
      /\ UNCHANGED <<workspace, artifacts, rev, rows, revoked, pending, deletion, ops, maps, faults>>
  BY DEF RetryFailed, At
<1>2. th[t] \in Call /\ CallOK(th[t]) /\ th[t].ids \subseteq revoked
  BY Known DEF CallOK, RevokeOK
<1>3. /\ d \in Call /\ d.pc = "stale" /\ d.rev = th[t].rev /\ d.stamp = th[t].stamp
      /\ d.ids = th[t].ids
  BY <1>2 DEF Call, Pcs
<1> HIDE DEF d
<1>4. CallOK(d) /\ MayTake(t, d)
  BY <1>1, <1>2, <1>3, PlainOK DEF Resting, Plain, MayTake, Guarded, Deleters
<1>5. \A p \in Parted : Retried(p) \in Parted /\ (p.state = "processed" => Retried(p) = p)
  BY DEF Parted, States
<1>6. part \in [Revs -> [Parts -> Parted]]
  BY DEF IInv, CoreInv
<1> HIDE DEF Retried
<1>7. part' \in [Revs -> [Parts -> Parted]]
  BY <1>1, <1>5, <1>6
<1>8. \A q \in Revs, p \in Parts : part[q][p].state = "processed" => part'[q][p] = part[q][p]
  BY <1>1, <1>5, <1>6
<1>9. /\ th[t].pc = "retry" /\ Become(t, d) /\ rev' = rev
      /\ UNCHANGED <<workspace, artifacts, rows, revoked, pending, deletion, ops, maps, faults>>
  BY <1>1
<1> QED BY <1>3, <1>4, <1>7, <1>8, <1>9, PartStep DEF Undoing, Plain

LEMMA PlanEntryStep ==
  ASSUME IInv, NEW t \in Threads, PlanEntry(t)
  PROVE  IInv'
<1>1. PICK p \in th[t].entries, state \in {"pending", "unprepared"} :
         IF ~Authorized(t) THEN Raise(t) /\ UNCHANGED <<rev, part>>
         ELSE /\ rev' = th[t].rev
              /\ part' = [part EXCEPT ![rev'][p] =
                             IF @.state = "absent" THEN [@ EXCEPT !.state = state, !.policy = policy]
                             ELSE @]
              /\ Become(t, [th[t] EXCEPT !.entries = @ \ {p}])
  BY DEF PlanEntry
<1>2. /\ th[t].pc = "plan"
      /\ UNCHANGED <<workspace, artifacts, rows, revoked, pending, deletion, ops, maps, faults>>
  BY DEF PlanEntry, At
<1>3. CASE ~Authorized(t)
  <2>1. Raise(t) /\ StoresSame /\ ops' = ops /\ faults' = faults
    BY <1>1, <1>2, <1>3 DEF StoresSame, store
  <2> QED BY <1>2, <2>1, RaiseStep
<1>4. CASE Authorized(t)
  <2> DEFINE r == th[t].rev
             d == [th[t] EXCEPT !.entries = @ \ {p}]
             Planning(q) == IF q.state = "absent" THEN [q EXCEPT !.state = state, !.policy = policy]
                            ELSE q
  <2>1. /\ th[t] \in Call /\ CallOK(th[t]) /\ th[t].ids \subseteq revoked /\ r \in Revs /\ approved = r
    BY <1>2, <1>4, Known DEF CallOK, RevokeOK, PhaseOK, Resting, Authorized
  <2>2. /\ d \in Call /\ d.pc = "plan" /\ d.rev = th[t].rev /\ d.stamp = th[t].stamp
        /\ d.ids = th[t].ids
    BY <1>2, <2>1 DEF Call
  <2>3. rev' = r /\ Become(t, d) /\ part' = [part EXCEPT ![r][p] = Planning(@)]
    BY <1>1, <1>4
  <2> HIDE DEF d
  <2>4. CallOK(d) /\ MayTake(t, d)
    BY <1>2, <2>1, <2>2, PlainOK DEF Resting, Plain, MayTake, Guarded, Deleters
  <2>5. \A q \in Parted : Planning(q) \in Parted /\ (q.state = "processed" => Planning(q) = q)
    BY DEF Parted, States, IInv, CoreInv
  <2>6. part \in [Revs -> [Parts -> Parted]] /\ p \in Parts
    BY <2>1 DEF IInv, CoreInv, Call
  <2> HIDE DEF Planning
  <2>7. part' \in [Revs -> [Parts -> Parted]]
    BY <2>1, <2>3, <2>5, <2>6
  <2>8. \A q \in Revs, s \in Parts : part[q][s].state = "processed" => part'[q][s] = part[q][s]
    BY <2>1, <2>3, <2>5, <2>6
  <2> QED BY <1>2, <2>1, <2>2, <2>3, <2>4, <2>7, <2>8, PartStep DEF Undoing, Plain
<1> QED BY <1>3, <1>4

(* A part is invalidated: the maps that cite it go, and are revoked.       *)
LEMMA InvalidateEntryStep ==
  ASSUME IInv, NEW t \in Threads, th[t].pc \in {"changed", "stale"},
         NEW p \in Parts, NEW next \in Call, InvalidateEntry(t, p, next),
         next.rev = th[t].rev, next.stamp = th[t].stamp
  PROVE  IInv'
<1> DEFINE r == th[t].of
           gone == {row \in RowsOf(r) : \E u \in row.id[1].cites : u.part = p}
           ids == {row.id : row \in gone}
           d == [Recover(next) EXCEPT !.ids = revoked \cup ids]
<1>1. /\ rows' = rows \ gone /\ revoked' = revoked \cup ids /\ pending' = pending \cup (ids \ revoked)
      /\ part' = [part EXCEPT ![r][p] = Invalidated(@)] /\ Become(t, d)
      /\ UNCHANGED <<workspace, artifacts, rev, deletion, ops, maps, faults>>
  BY DEF InvalidateEntry
<1>2. /\ th[t] \in Call /\ CallOK(th[t]) /\ approved # Gone /\ th[t].pc \notin Resting
  BY Known DEF CallOK, PhaseOK, Resting
<1>3. gone \subseteq rows /\ \A row \in rows : row.id \in ids => row \in gone
  BY DEF RowsOf, IInv, MapInv
<1>4. \A id \in ids : Fits(id, maps)
  BY <1>3 DEF IInv, MapInv
<1>5. \A id \in ids : Row(id)' = {}
  BY <1>1, <1>3 DEF Row
<1>6. \A row \in rows', s \in Parts :
         LET q == row.id[1].rev
         IN  part[q][s].state = "processed" /\ UnitOf(q, s) \in row.id[1].cites
             => part'[q][s] = part[q][s]
  <2> SUFFICES ASSUME NEW row \in rows', NEW s \in Parts,
                      UnitOf(row.id[1].rev, s) \in row.id[1].cites
               PROVE  part'[row.id[1].rev][s] = part[row.id[1].rev][s]
    OBVIOUS
  <2>1. row \in rows /\ row \notin gone
    BY <1>1
  <2>2. row.id[1].rev # r \/ s # p
    BY <2>1 DEF RowsOf, UnitOf
  <2>3. part \in [Revs -> [Parts -> Parted]] /\ row.id[1].rev \in Revs
    BY <2>1, FitsFirst DEF IInv, CoreInv, MapInv
  <2> HIDE DEF gone, ids, d, r
  <2> QED BY <1>1, <2>2, <2>3
<1>7. /\ d \in Call /\ d.pc = "revoke" /\ d.rev = th[t].rev /\ d.ids = revoked \cup ids
      /\ d.stamp = th[t].stamp
  <2>1. revoked \cup ids \in SUBSET Seq(Contents)
    BY <1>4 DEF IInv, IdInv, Fits
  <2>2. Recover(next) \in Call /\ Recover(next).pc = "revoke" /\ Recover(next).rev = th[t].rev
        /\ Recover(next).stamp = th[t].stamp
    BY RecoverCall
  <2> HIDE DEF ids
  <2> QED BY <2>1, <2>2 DEF Call
<1>8. Become(t, d) /\ revoked' = revoked \cup ids
  BY <1>1
<1> HIDE DEF gone, ids, d, r
<1>9. MayTake(t, d)
  BY <1>2, <1>7 DEF MayTake, Guarded, Deleters, Resting
<1>10. LockInv' /\ th'[t] = d /\ \A u \in Threads \ {t} : th'[u] = th[u]
  BY <1>7, <1>8, <1>9, BecomeStep DEF IInv
<1> USE DEF workspace, artifacts
<1>11. CoreInv'
  <2>1. \A q \in Parted : Invalidated(q) \in Parted
    <3> SUFFICES ASSUME NEW q \in Parted PROVE Invalidated(q) \in Parted
      OBVIOUS
    <3>1. q.time \in 1..MaxTime /\ "invalidated" \in States
      BY DEF Parted, States
    <3>2. (IF q.state = "processed" /\ q.time < MaxTime THEN q.time + 1 ELSE q.time) \in 1..MaxTime
      BY <3>1
    <3>3. \A n \in 1..MaxTime : [q EXCEPT !.state = "invalidated", !.time = n] \in Parted
      BY <3>1 DEF Parted
    <3> QED BY <3>2, <3>3 DEF Invalidated
  <2>2. part \in [Revs -> [Parts -> Parted]]
    BY DEF IInv, CoreInv
  <2> HIDE DEF Invalidated
  <2>3. part' \in [Revs -> [Parts -> Parted]]
    BY <1>1, <2>1, <2>2
  <2> QED BY <1>1, <2>3 DEF IInv, CoreInv
<1>12. MapInv' /\ IdInv'
  BY <1>1, <1>4 DEF IInv, MapInv, IdInv, Fits
<1>13. CitedInv'
  BY <1>1, <1>6, CitedKept
<1>14. RevocationInv'
  BY <1>1, <1>2, <1>3 DEF IInv, RevocationInv
<1>15. WithdrawnInv'
  <2>1. \A m \in revoked' : Row(m)' # {} => m \in revoked /\ Row(m) # {} /\ ~TakesBack(t, m)
    BY <1>1, <1>5 DEF Row, TakesBack
  <2>2. faults \in Nat /\ faults' \in Nat /\ faults' >= faults
    BY <1>1 DEF IInv, CoreInv
  <2> QED BY <1>10, <2>1, <2>2, WithdrawnKept
<1>16. CallInv'
  <2>1. CallOK(th[t])'
    BY <1>1, <1>2, <1>7, <1>10
      DEF CallOK, PhaseOK, TargetOK, RevokeOK, Resting, Drafting, Publishing, Answering, Fits, Row
  <2>2. ASSUME NEW u \in Threads \ {t}
        PROVE  CallOK(th[u])'
    <3>1. CallOK(th[u]) /\ th'[u] = th[u]
      BY <1>10, Known
    <3>2. \A m : Row(m) = {} => Row(m)' = {}
      BY <1>1 DEF Row
    <3>3. \A m : m \notin revoked => Row(m)' = {} \/ m \notin revoked'
      BY <1>1, <1>5
    <3> QED BY <1>1, <3>1, <3>2, <3>3 DEF CallOK, PhaseOK, TargetOK, RevokeOK, Fits
  <2> QED BY <2>1, <2>2 DEF CallInv
<1> QED BY <1>10, <1>11, <1>12, <1>13, <1>14, <1>15, <1>16 DEF IInv

LEMMA InvalidateChangedStep ==
  ASSUME IInv, NEW t \in Threads, InvalidateChanged(t)
  PROVE  IInv'
<1>1. PICK p \in th[t].entries : InvalidateEntry(t, p, [th[t] EXCEPT !.entries = @ \ {p}])
  BY DEF InvalidateChanged
<1> DEFINE next == [th[t] EXCEPT !.entries = @ \ {p}]
<1>2. th[t].pc = "changed" /\ th[t] \in Call
  BY Known DEF InvalidateChanged, At
<1>3. p \in Parts /\ next \in Call /\ next.rev = th[t].rev /\ next.stamp = th[t].stamp
  BY <1>2 DEF Call
<1>4. InvalidateEntry(t, p, next)
  BY <1>1
<1> HIDE DEF next
<1> QED BY <1>2, <1>3, <1>4, InvalidateEntryStep

LEMMA DropStaleStep ==
  ASSUME IInv, NEW t \in Threads, DropStale(t)
  PROVE  IInv'
<1> DEFINE r == th[t].of
<1>1. th[t].pc = "stale" /\ th[t] \in Call /\ CallOK(th[t]) /\ th[t].ids \subseteq revoked
  BY Known DEF DropStale, At, CallOK, RevokeOK
<1>2. PICK p \in th[t].entries :
         \/ InvalidateEntry(t, p, th[t])
         \/ /\ part[r][p].state = "invalidated"
            /\ part' = [part EXCEPT ![r][p].state = "absent"]
            /\ Become(t, [th[t] EXCEPT !.entries = @ \ {p}])
            /\ UNCHANGED <<workspace, artifacts, rev, rows, revoked, pending, deletion,
                           ops, maps, faults>>
         \/ Become(t, [th[t] EXCEPT !.entries = @ \ {p}]) /\ Local
  BY DEF DropStale
<1> DEFINE d == [th[t] EXCEPT !.entries = @ \ {p}]
<1>3. p \in Parts
  BY <1>1 DEF Call
<1>4. /\ d \in Call /\ d.pc = "stale" /\ d.rev = th[t].rev /\ d.stamp = th[t].stamp
      /\ d.ids = th[t].ids
  BY <1>1 DEF Call
<1>5. CASE InvalidateEntry(t, p, th[t])
  BY <1>1, <1>3, <1>5, InvalidateEntryStep
<1>6. CASE Become(t, d) /\ Local
  <2> HIDE DEF d
  <2> QED BY <1>1, <1>4, <1>6, LocalSame, PlainStep DEF Undoing, Resting, Plain
<1>7. CASE /\ part[r][p].state = "invalidated"
           /\ part' = [part EXCEPT ![r][p].state = "absent"]
           /\ Become(t, d)
           /\ UNCHANGED <<workspace, artifacts, rev, rows, revoked, pending, deletion,
                          ops, maps, faults>>
  <2> HIDE DEF d
  <2>1. CallOK(d) /\ MayTake(t, d)
    BY <1>1, <1>4, PlainOK DEF Resting, Plain, MayTake, Guarded, Deleters
  <2>2. part \in [Revs -> [Parts -> Parted]]
    BY DEF IInv, CoreInv
  <2>3. \A q \in Parted : [q EXCEPT !.state = "absent"] \in Parted
    BY DEF Parted, States
  <2>4. part' \in [Revs -> [Parts -> Parted]]
    BY <1>7, <2>2, <2>3
  <2>5. \A q \in Revs, s \in Parts : part[q][s].state = "processed" => part'[q][s] = part[q][s]
    BY <1>7, <2>2
  <2>6. /\ Become(t, d) /\ rev' = rev
        /\ UNCHANGED <<workspace, artifacts, rows, revoked, pending, deletion, ops, maps, faults>>
    BY <1>7
  <2> QED BY <1>1, <1>4, <2>1, <2>4, <2>5, <2>6, PartStep DEF Undoing, Plain
<1> QED BY <1>2, <1>5, <1>6, <1>7

(* Of the map a synthesizer proposes the citations are a part of those the  *)
(* draft has.                                                              *)
LEMMA ParseStep ==
  ASSUME IInv, NEW t \in Threads, Parse(t)
  PROVE  IInv'
<1>1. /\ th[t].pc = "parse" /\ UNCHANGED <<workspace, store, artifacts, ops, faults>>
      /\ th[t] \in Call /\ CallOK(th[t]) /\ guard = t /\ maps < MaxMaps /\ maps \in Nat
      /\ approved # Gone /\ Fits(th[t].target, maps + 1)
  <2>1. th[t].pc = "parse" /\ UNCHANGED <<workspace, store, artifacts, ops, faults>>
    BY DEF Parse, At
  <2>2. th[t] \in Call /\ CallOK(th[t]) /\ guard = t
    BY <2>1, Known DEF Guarded
  <2>3. maps < MaxMaps /\ approved # Gone /\ Fits(th[t].target, maps + 1)
    BY <2>1, <2>2 DEF CallOK, PhaseOK, TargetOK, Resting, Drafting
  <2>4. maps \in Nat
    BY DEF IInv, CoreInv
  <2> QED BY <2>1, <2>2, <2>3, <2>4
<1>2. CASE Raise(t) /\ UNCHANGED maps
  BY <1>1, <1>2, RaiseStep DEF StoresSame
<1>3. ASSUME NEW cites \in SUBSET th[t].target[1].cites, maps' = maps + 1,
             Become(t, [th[t] EXCEPT !.pc = "publish", !.stamp = maps + 1,
                                     !.target[1].cites = cites])
      PROVE  IInv'
  <2> DEFINE id == [th[t].target EXCEPT ![1].cites = cites]
             d == [th[t] EXCEPT !.pc = "publish", !.stamp = maps + 1, !.target = id]
  <2>1. Become(t, d)
    BY <1>3
  <2>2. Fits(id, maps + 1) /\ id[1].rev = th[t].target[1].rev
    <3>1. /\ th[t].target \in Seq(Contents) /\ Len(th[t].target) \in 1..(maps + 1)
          /\ 1 \in 1..Len(th[t].target)
      BY <1>1 DEF Fits
    <3>2. th[t].target[1] \in Contents
      BY <3>1
    <3>3. PICK new \in Contents : new = [th[t].target[1] EXCEPT !.cites = cites]
                                  /\ new.rev = th[t].target[1].rev
      <4> DEFINE new == [th[t].target[1] EXCEPT !.cites = cites]
      <4>1. cites \in SUBSET Units
        BY <3>2 DEF Contents
      <4>2. new \in Contents /\ new.rev = th[t].target[1].rev
        BY <3>2, <4>1 DEF Contents
      <4> QED BY <4>2
    <3>4. id = [th[t].target EXCEPT ![1] = new]
      BY <3>3
    <3> HIDE DEF id
    <3>5. id \in Seq(Contents) /\ Len(id) = Len(th[t].target) /\ id[1] = new
      BY <3>1, <3>4
    <3> QED BY <3>1, <3>3, <3>5 DEF Fits
  <2> HIDE DEF id
  <2>3. /\ d \in Call /\ d.pc = "publish" /\ d.rev = th[t].rev /\ d.target = id
        /\ d.stamp = maps + 1 /\ d.ids = th[t].ids
    <3>1. "publish" \in Pcs /\ maps + 1 \in 0..MaxMaps /\ id \in Seq(Contents)
      BY <1>1, <2>2 DEF Pcs, Fits
    <3> QED BY <1>1, <3>1 DEF Call
  <2> HIDE DEF d
  <2>4. MayTake(t, d)
    BY <1>1, <2>3 DEF MayTake, Guarded, Deleters
  <2>5. LockInv' /\ th'[t] = d /\ \A u \in Threads \ {t} : th'[u] = th[u]
    BY <2>1, <2>3, <2>4, BecomeStep DEF IInv
  <2> USE DEF workspace, store, artifacts
  <2>6. CoreInv'
    BY <1>1, <1>3 DEF IInv, CoreInv
  <2>7. MapInv' /\ IdInv'
    <3>1. \A i : Fits(i, maps) => Fits(i, maps')
      BY <1>1, <1>3, FitsMore
    <3>2. \A row \in rows' : Fits(row.id, maps') /\ row.stamp \in 1..maps'
      BY <1>1, <1>3, <3>1 DEF IInv, MapInv
    <3>3. \A i \in (revoked \cup docs \cup tombs)' : Fits(i, maps')
      BY <1>1, <3>1 DEF IInv, IdInv
    <3> QED BY <1>1, <3>2, <3>3 DEF IInv, MapInv, IdInv, Fits
  <2>8. CitedInv'
    BY <1>1 DEF IInv, CitedInv, Valid, UnitsOf, UnitOf, In
  <2>9. RevocationInv'
    BY <1>1 DEF IInv, RevocationInv
  <2>10. WithdrawnInv'
    <3>1. \A m \in revoked' : Row(m)' # {} => m \in revoked /\ Row(m) # {} /\ ~TakesBack(t, m)
      BY <1>1 DEF Row, TakesBack
    <3>2. faults \in Nat /\ faults' \in Nat /\ faults' >= faults
      BY <1>1 DEF IInv, CoreInv
    <3> QED BY <2>5, <3>1, <3>2, WithdrawnKept
  <2>11. CallInv'
    <3>1. CallOK(th[t])'
      <4>1. PhaseOK(th[t])' /\ RevokeOK(th[t])'
        BY <1>1, <2>3, <2>5 DEF CallOK, PhaseOK, RevokeOK, Resting, Answering
      <4>2. Fits(id, maps') /\ id[1].rev = th[t].rev
        BY <1>1, <1>3, <2>2 DEF CallOK, TargetOK, Drafting
      <4>3. TargetOK(th[t])'
        BY SMTT(30), <1>1, <1>3, <2>3, <2>5, <4>2 DEF TargetOK, Drafting, Publishing, Answering, Fits
      <4> QED BY <4>1, <4>3 DEF CallOK
    <3>2. ASSUME NEW u \in Threads \ {t}
          PROVE  CallOK(th[u])'
      <4>1. CallOK(th[u]) /\ th'[u] = th[u] /\ th[u].pc # "parse"
        BY <1>1, <2>5, Known DEF Guarded
      <4>2. /\ Fits(th[u].target, maps) => Fits(th[u].target, maps')
            /\ Fits(th[u].target, maps + 1) => Fits(th[u].target, maps' + 1)
        BY <1>1, <1>3 DEF Fits
      <4>3. PhaseOK(th[u])' /\ RevokeOK(th[u])'
        BY <1>1, <4>1 DEF CallOK, PhaseOK, RevokeOK, Row
      <4>4. TargetOK(th[u])'
        <5>1. (th[u].pc \in {"save", "load"} \/ th[u].stamp # 0) => th[u].stamp \in 1..maps'
          BY <1>1, <1>3, <4>1 DEF CallOK, TargetOK
        <5> QED BY <4>1, <4>2, <5>1 DEF CallOK, TargetOK, Fits
      <4> QED BY <4>3, <4>4 DEF CallOK
    <3> QED BY <3>1, <3>2 DEF CallInv
  <2> QED BY <2>5, <2>6, <2>7, <2>8, <2>9, <2>10, <2>11 DEF IInv
<1> QED BY <1>2, <1>3 DEF Parse

(***************************************************************************)
(* A deletion, whose thread is alone, and the rest of the system.          *)
(***************************************************************************)
LEMMA DeleteCall ==
  LET d == [Idle EXCEPT !.kind = "delete", !.pc = "files"]
  IN  d \in Call /\ d.pc = "files" /\ d.ids = {} /\ d.stamp = 0 /\ ~d.inserted
<1>1. \A c \in Call : LET d == [c EXCEPT !.kind = "delete", !.pc = "files"]
                      IN  d.pc = "files" /\ d.ids = c.ids /\ d.stamp = c.stamp
                          /\ d.inserted = c.inserted
  BY DEF Call
<1>2. Idle \in Call /\ Idle.ids = {} /\ Idle.stamp = 0 /\ ~Idle.inserted
  BY IdleCall DEF Idle
<1> QED BY <1>1, <1>2, IdleCall

(* A call that rests knows little.                                         *)
LEMMA RestingOK ==
  ASSUME NEW c, c.pc \in {"idle", "files"}, c.ids = {}, c.stamp = 0, c.pc = "files" => deletion
  PROVE  CallOK(c)
BY DEF CallOK, PhaseOK, TargetOK, RevokeOK, Resting, Drafting, Publishing, Answering

LEMMA DeleteWorkspaceEvidenceStep ==
  ASSUME IInv, NEW t \in Threads, DeleteWorkspaceEvidence(t)
  PROVE  IInv'
<1>1. /\ \A u \in Threads : th[u].pc = "idle"
      /\ ops < MaxOps /\ ops' = ops + 1 /\ approved' = Gone /\ deletion' = TRUE
      /\ UNCHANGED <<source, policy, artifacts, rev, part, rows, revoked, pending, maps, faults>>
  BY DEF DeleteWorkspaceEvidence, At
<1>2. PICK d \in Call : /\ Become(t, d) /\ d.pc = "files" /\ d.ids = {} /\ d.stamp = 0
  BY DeleteCall DEF DeleteWorkspaceEvidence
<1>3. MayTake(t, d)
  BY <1>1, <1>2 DEF MayTake, Guarded, Deleters
<1>4. LockInv' /\ th'[t] = d /\ \A u \in Threads \ {t} : th'[u] = th[u]
  BY <1>2, <1>3, BecomeStep DEF IInv
<1> USE DEF artifacts
<1>5. CoreInv'
  BY <1>1 DEF IInv, CoreInv
<1>6. MapInv' /\ IdInv'
  BY <1>1 DEF IInv, MapInv, IdInv, Fits
<1>7. CitedInv'
  BY <1>1 DEF IInv, CitedInv, Valid, UnitsOf, UnitOf, In
<1>8. RevocationInv'
  BY <1>1 DEF IInv, RevocationInv
<1>9. WithdrawnInv'
  <2>1. \A m \in revoked' : Row(m)' # {} => m \in revoked /\ Row(m) # {} /\ ~TakesBack(t, m)
    BY <1>1 DEF Row, TakesBack
  <2>2. faults \in Nat /\ faults' \in Nat /\ faults' >= faults
    BY <1>1 DEF IInv, CoreInv
  <2> QED BY <1>4, <2>1, <2>2, WithdrawnKept
<1>10. CallInv'
  <2>1. CallOK(th[t])'
    BY <1>1, <1>2, <1>4
      DEF CallOK, PhaseOK, TargetOK, RevokeOK, Resting, Drafting, Publishing, Answering
  <2>2. ASSUME NEW u \in Threads \ {t}
        PROVE  CallOK(th[u])'
    <3>1. CallOK(th[u]) /\ th'[u] = th[u] /\ th[u].pc = "idle"
      BY <1>1, <1>4, Known
    <3> QED BY <1>1, <3>1
      DEF CallOK, PhaseOK, TargetOK, RevokeOK, Resting, Drafting, Publishing, Answering
  <2> QED BY <2>1, <2>2 DEF CallInv
<1> QED BY <1>4, <1>5, <1>6, <1>7, <1>8, <1>9, <1>10 DEF IInv

LEMMA DeleteArtifactsStep ==
  ASSUME IInv, NEW t \in Threads, DeleteArtifacts(t)
  PROVE  IInv'
<1>1. /\ th[t].pc = "files" /\ docs' = {} /\ tombs' = {}
      /\ Then(t, [th[t] EXCEPT !.pc = "rows"]) /\ UNCHANGED <<workspace, store, ops, maps>>
  BY DEF DeleteArtifacts, At, To
<1>2. /\ th[t] \in Call /\ CallOK(th[t]) /\ deletion
      /\ \A u \in Threads \ {t} : th[u].pc = "idle"
  BY <1>1, Known DEF CallOK, PhaseOK, Deleters
<1>3. PICK e \in Call : /\ e = [th[t] EXCEPT !.pc = "rows"]
                        /\ e.pc = "rows" /\ e.ids = th[t].ids /\ e.stamp = th[t].stamp
  <2> DEFINE f == [th[t] EXCEPT !.pc = "rows"]
  <2>1. f \in Call /\ f.pc = "rows" /\ f.ids = th[t].ids /\ f.stamp = th[t].stamp
    <3>1. "rows" \in Pcs
      BY DEF Pcs
    <3> QED BY <1>2, <3>1, Moved
  <2>2. f = [th[t] EXCEPT !.pc = "rows"]
    OBVIOUS
  <2> HIDE DEF f
  <2> QED BY <2>1, <2>2
<1>4. MayTake(t, e)
  BY <1>1, <1>2, <1>3 DEF MayTake, Guarded, Deleters
<1>5. PICK d \in Call : /\ Become(t, d) /\ MayTake(t, d)
                        /\ faults' \in 0..MaxFaults /\ faults' >= faults
                        /\ d.pc \in {"rows", "idle"} /\ d.ids = {} /\ (d.stamp # 0 => d.stamp \in 1..maps)
  <2>1. Then(t, e)
    BY <1>1, <1>3
  <2>2. Raised(t) = Idle
    BY <1>1 DEF Raised
  <2>3. th[t].ids = {} /\ (th[t].stamp # 0 => th[t].stamp \in 1..maps)
    BY <1>1, <1>2 DEF CallOK, RevokeOK, TargetOK, Resting
  <2>4. Idle.pc = "idle" /\ Idle.ids = {} /\ Idle.stamp = 0
    BY DEF Idle
  <2> QED BY ZenonT(60), <1>1, <1>3, <1>4, <2>1, <2>2, <2>3, <2>4, ThenFacts
<1>6. LockInv' /\ th'[t] = d /\ \A u \in Threads \ {t} : th'[u] = th[u]
  BY <1>5, BecomeStep DEF IInv
<1> USE DEF workspace, store
<1>7. CoreInv'
  BY <1>1, <1>5 DEF IInv, CoreInv
<1>8. MapInv' /\ IdInv'
  BY <1>1 DEF IInv, MapInv, IdInv, Fits
<1>9. CitedInv'
  BY <1>1 DEF IInv, CitedInv, Valid, UnitsOf, UnitOf, In
<1>10. RevocationInv'
  BY <1>1, <1>2 DEF IInv, RevocationInv
<1>11. WithdrawnInv'
  <2>1. \A m \in revoked' : Row(m)' # {} => m \in revoked /\ Row(m) # {} /\ ~TakesBack(t, m)
    BY <1>1 DEF Row, TakesBack
  <2>2. faults \in Nat /\ faults' \in Nat
    BY <1>5 DEF IInv, CoreInv
  <2> QED BY <1>5, <1>6, <2>1, <2>2, WithdrawnKept
<1>12. CallInv'
  <2>1. CallOK(th[t])'
    BY <1>1, <1>2, <1>5, <1>6
      DEF CallOK, PhaseOK, TargetOK, RevokeOK, Resting, Drafting, Publishing, Answering
  <2>2. ASSUME NEW u \in Threads \ {t}
        PROVE  CallOK(th[u])'
    <3>1. CallOK(th[u]) /\ th'[u] = th[u] /\ th[u].pc = "idle"
      BY <1>2, <1>6, Known
    <3> QED BY <1>1, <3>1
      DEF CallOK, PhaseOK, TargetOK, RevokeOK, Resting, Drafting, Publishing, Answering
  <2> QED BY <2>1, <2>2 DEF CallInv
<1> QED BY <1>6, <1>7, <1>8, <1>9, <1>10, <1>11, <1>12 DEF IInv

LEMMA CompleteDeletionStep ==
  ASSUME IInv, NEW t \in Threads, CompleteDeletion(t)
  PROVE  IInv'
<1>1. /\ th[t].pc = "rows" /\ rows' = {} /\ revoked' = {} /\ pending' = {} /\ deletion' = FALSE
      /\ rev' = 0 /\ part' = [r \in Revs |-> [p \in Parts |->
                                 [state |-> "absent", policy |-> 1, time |-> 1]]]
      /\ Become(t, Idle) /\ UNCHANGED <<workspace, artifacts, ops, maps, faults>>
  BY DEF CompleteDeletion, At
<1>2. /\ CallOK(th[t]) /\ docs = {} /\ tombs = {} /\ \A u \in Threads \ {t} : th[u].pc = "idle"
  BY <1>1, Known DEF CallOK, PhaseOK, Deleters
<1>3. Idle \in Call /\ Idle.pc = "idle" /\ Idle.ids = {} /\ Idle.stamp = 0
  BY IdleCall, IdleOK DEF IInv
<1>4. MayTake(t, Idle)
  BY <1>3 DEF MayTake, Guarded, Deleters
<1>5. LockInv' /\ th'[t] = Idle /\ \A u \in Threads \ {t} : th'[u] = th[u]
  BY <1>1, <1>3, <1>4, BecomeStep DEF IInv
<1> USE DEF workspace, artifacts
<1>6. CoreInv'
  <2>1. [state |-> "absent", policy |-> 1, time |-> 1] \in Parted
    BY DEF Parted, States
  <2>2. part' \in [Revs -> [Parts -> Parted]]
    BY <1>1, <2>1
  <2>3. rev' = 0 /\ deletion' = FALSE /\ approved' = approved /\ source' = source
        /\ policy' = policy /\ ops' = ops /\ maps' = maps /\ faults' = faults
    BY <1>1
  <2>4. approved \in 0..Gone /\ 0 \in 0..MaxRev /\ 0 <= approved
    BY StudyMapAssumption DEF IInv, CoreInv, Gone
  <2> QED BY <2>2, <2>3, <2>4 DEF IInv, CoreInv
<1>7. MapInv' /\ IdInv' /\ CitedInv' /\ RevocationInv' /\ WithdrawnInv'
  BY <1>1, <1>2 DEF MapInv, IdInv, CitedInv, RevocationInv, WithdrawnInv
<1>8. CallInv'
  <2>1. CallOK(th[t])'
    BY <1>3, <1>5
      DEF CallOK, PhaseOK, TargetOK, RevokeOK, Resting, Drafting, Publishing, Answering
  <2>2. ASSUME NEW u \in Threads \ {t}
        PROVE  CallOK(th[u])'
    <3>1. CallOK(th[u]) /\ th'[u] = th[u] /\ th[u].pc = "idle"
      BY <1>2, <1>5, Known
    <3> QED BY <1>1, <3>1
      DEF CallOK, PhaseOK, TargetOK, RevokeOK, Resting, Drafting, Publishing, Answering
  <2> QED BY <2>1, <2>2 DEF CallInv
<1> QED BY <1>5, <1>6, <1>7, <1>8 DEF IInv

LEMMA ApproveStep ==
  ASSUME IInv, Approve
  PROVE  IInv'
<1>1. /\ approved < MaxRev /\ guard = NoOne /\ approved' = approved + 1
      /\ UNCHANGED <<policy, store, artifacts, locks, th, ops, maps, faults>>
  BY DEF Approve
<1> USE DEF store, artifacts, locks
<1>2. CoreInv'
  <2>1. approved \in 0..Gone /\ approved' \in Revs /\ source \in [Revs -> [Parts -> Revs]]
    BY <1>1 DEF IInv, CoreInv
  <2>2. source' \in [Revs -> [Parts -> Revs]]
    <3>1. PICK changed \in SUBSET Parts :
             source' = [r \in Revs |-> [p \in Parts |->
                          IF r > approved /\ p \in changed THEN approved + 1 ELSE source[r][p]]]
      BY DEF Approve
    <3> QED BY <1>1, <2>1, <3>1
  <2> QED BY <1>1, <2>1, <2>2 DEF IInv, CoreInv
<1>3. LockInv'
  BY <1>1 DEF IInv, LockInv
<1>4. MapInv' /\ IdInv'
  BY <1>1 DEF IInv, MapInv, IdInv, Fits
<1>5. CitedInv'
  BY <1>1 DEF IInv, CitedInv, Valid, UnitsOf, UnitOf, In
<1>6. RevocationInv'
  BY <1>1 DEF IInv, RevocationInv, CoreInv
<1>7. WithdrawnInv'
  BY <1>1 DEF IInv, WithdrawnInv, Row, TakesBack
<1>8. CallInv'
  <2> SUFFICES ASSUME NEW u \in Threads PROVE CallOK(th[u])'
    BY DEF CallInv
  <2>1. CallOK(th[u]) /\ th[u] \in Call /\ th[u].pc # "compose" /\ approved \in Nat
    BY <1>1, Known DEF Guarded, IInv, CoreInv
  <2>2. PhaseOK(th[u])'
    <3>1. th[u].rev \in Nat
      BY <2>1 DEF Call
    <3> QED BY <1>1, <2>1, <3>1 DEF CallOK, PhaseOK
  <2>3. TargetOK(th[u])' /\ RevokeOK(th[u])'
    BY <1>1, <2>1 DEF CallOK, TargetOK, RevokeOK, Fits, Row
  <2> QED BY <2>2, <2>3 DEF CallOK
<1> QED BY <1>2, <1>3, <1>4, <1>5, <1>6, <1>7, <1>8 DEF IInv

LEMMA AnalyseStep ==
  ASSUME IInv, Analyse
  PROVE  IInv'
<1>1. PICK p \in In(rev, {"pending"}), state \in {"processed", "failed"} :
         part' = [part EXCEPT ![rev][p].state = state]
  BY DEF Analyse
<1>2. /\ rev # 0
      /\ UNCHANGED <<workspace, rev, rows, revoked, pending, deletion, artifacts, locks, th,
                     ops, maps, faults>>
  BY DEF Analyse
<1> USE DEF workspace, artifacts, locks
<1>3. part \in [Revs -> [Parts -> Parted]] /\ rev \in Revs /\ p \in Parts /\ part[rev][p].state = "pending"
  BY <1>1, <1>2 DEF IInv, CoreInv, In
<1>4. CoreInv'
  <2>1. \A q \in Parted : [q EXCEPT !.state = state] \in Parted
    BY DEF Parted, States
  <2>2. part' \in [Revs -> [Parts -> Parted]]
    BY <1>1, <1>3, <2>1
  <2> QED BY <1>2, <2>2 DEF IInv, CoreInv
<1>5. LockInv'
  BY <1>2 DEF IInv, LockInv
<1>6. MapInv' /\ IdInv'
  BY <1>2 DEF IInv, MapInv, IdInv, Fits
<1>7. CitedInv'
  <2>1. \A row \in rows : row.id[1].rev \in Revs
    BY FitsFirst DEF IInv, MapInv, CoreInv
  <2>2. \A q \in Revs, s \in Parts : part[q][s].state = "processed" => part'[q][s] = part[q][s]
    BY <1>1, <1>3
  <2>3. rows' \subseteq rows
    BY <1>2
  <2> QED BY <2>1, <2>2, <2>3, CitedKept
<1>8. RevocationInv'
  BY <1>2 DEF IInv, RevocationInv
<1>9. WithdrawnInv'
  BY <1>2 DEF IInv, WithdrawnInv, Row, TakesBack
<1>10. CallInv'
  BY <1>2 DEF IInv, CallInv, CallOK, PhaseOK, TargetOK, RevokeOK, Fits, Row
<1> QED BY <1>4, <1>5, <1>6, <1>7, <1>8, <1>9, <1>10 DEF IInv

LEMMA DieStep ==
  ASSUME IInv, Die
  PROVE  IInv'
<1> DEFINE del == [Idle EXCEPT !.kind = "delete", !.pc = "files"]
<1>1. PICK t \in Threads, next \in {Idle, del} :
         /\ next # Idle => deletion
         /\ th' = [u \in Threads |-> IF u = t THEN next ELSE Idle]
  BY DEF Die
<1>2. /\ faults < MaxFaults /\ faults' = faults + 1 /\ guard' = NoOne /\ lock' = NoOne
      /\ policy' \in 1..MaxPolicy \/ policy' = policy
      /\ UNCHANGED <<approved, source, store, artifacts, ops, maps>>
  BY DEF Die
<1>3. /\ Idle \in Call /\ Idle.pc = "idle" /\ Idle.ids = {} /\ Idle.stamp = 0
      /\ del \in Call /\ del.pc = "files" /\ del.ids = {} /\ del.stamp = 0
  BY IdleCall, IdleOK, DeleteCall DEF IInv
<1> HIDE DEF del
<1>4. \A u \in Threads : /\ th'[u] \in Call /\ th'[u].pc \in {"idle", "files"} /\ th'[u].ids = {}
                         /\ th'[u].stamp = 0 /\ (th'[u].pc = "files" => deletion /\ u = t)
  BY <1>1, <1>3
<1> USE DEF store, artifacts
<1>5. CoreInv'
  BY <1>2 DEF IInv, CoreInv
<1>6. LockInv'
  <2>1. th' \in [Threads -> Call]
    BY <1>1, <1>3
  <2>2. \A u \in Threads : th'[u].pc \notin Guarded /\ th'[u].pc # "write" /\ NoOne # u
    BY <1>4 DEF Guarded
  <2>3. \A v, u \in Threads : th'[v].pc \in {"files", "rows"} /\ u # v => th'[u].pc = "idle"
    BY <1>4
  <2> QED BY <1>2, <2>1, <2>2, <2>3 DEF LockInv
<1>7. MapInv' /\ IdInv'
  BY <1>2 DEF IInv, MapInv, IdInv, Fits
<1>8. CitedInv'
  BY <1>2 DEF IInv, CitedInv, Valid, UnitsOf, UnitOf, In
<1>9. RevocationInv'
  BY <1>2 DEF IInv, RevocationInv
<1>10. WithdrawnInv'
  BY <1>2 DEF IInv, CoreInv, WithdrawnInv
<1>11. CallInv'
  <2> SUFFICES ASSUME NEW u \in Threads PROVE CallOK(th[u])'
    BY DEF CallInv
  <2> QED BY <1>2, <1>4
    DEF CallOK, PhaseOK, TargetOK, RevokeOK, Resting, Drafting, Publishing, Answering
<1> QED BY <1>5, <1>6, <1>7, <1>8, <1>9, <1>10, <1>11 DEF IInv

LEMMA SameInv ==
  ASSUME IInv, UNCHANGED vars
  PROVE  IInv'
<1> USE DEF vars, workspace, store, artifacts, locks
<1>1. CoreInv' /\ LockInv'
  BY DEF IInv, CoreInv, LockInv
<1>2. MapInv' /\ IdInv'
  BY DEF IInv, MapInv, IdInv, Fits
<1>3. CitedInv' /\ RevocationInv'
  BY DEF IInv, CitedInv, RevocationInv, Valid, UnitsOf, UnitOf, In
<1>4. WithdrawnInv'
  BY DEF IInv, WithdrawnInv, Row, TakesBack
<1>5. CallInv'
  BY DEF IInv, CallInv, CallOK, PhaseOK, TargetOK, RevokeOK, Fits, Row
<1> QED BY <1>1, <1>2, <1>3, <1>4, <1>5 DEF IInv

LEMMA InitInv == Init => IInv
<1> SUFFICES ASSUME Init PROVE IInv
  OBVIOUS
<1>1. Idle \in Call /\ Idle.pc = "idle" /\ Idle.ids = {} /\ Idle.stamp = 0
  BY IdleCall DEF Idle
<1>2. CoreInv
  <2>1. part \in [Revs -> [Parts -> Parted]]
    BY DEF Init, Parted, States
  <2>2. 1 \in Revs /\ 1 \in 1..MaxPolicy /\ 0 \in 0..MaxOps /\ 0 \in 0..MaxMaps
        /\ 0 \in 0..MaxFaults /\ 1 \in 0..Gone /\ {0, 1} \subseteq 0..MaxRev
    BY StudyMapAssumption DEF Revs, Gone
  <2>3. approved = 1 /\ policy = 1 /\ deletion = FALSE /\ rev \in {0, 1}
        /\ ops = 0 /\ maps = 0 /\ faults = 0
    BY DEF Init
  <2>4. source \in [Revs -> [Parts -> Revs]]
    BY <2>2 DEF Init
  <2>5. approved \in 0..Gone /\ rev \in 0..MaxRev /\ policy \in 1..MaxPolicy
    BY <2>2, <2>3
  <2>6. ops \in 0..MaxOps /\ maps \in 0..MaxMaps /\ faults \in 0..MaxFaults
    BY <2>2, <2>3
  <2>7. deletion \in BOOLEAN /\ (deletion => approved = Gone)
    BY <2>3
  <2>8. rev <= approved
    BY <2>3
  <2> QED BY <2>1, <2>4, <2>5, <2>6, <2>7, <2>8 DEF CoreInv
<1>3. LockInv
  BY <1>1 DEF Init, LockInv, Guarded
<1>4. MapInv /\ IdInv /\ CitedInv /\ RevocationInv /\ WithdrawnInv
  BY DEF Init, MapInv, IdInv, CitedInv, RevocationInv, WithdrawnInv
<1>5. CallInv
  BY <1>1, RestingOK DEF Init, CallInv
<1> QED BY <1>2, <1>3, <1>4, <1>5 DEF IInv

LEMMA NextInv ==
  ASSUME IInv, [Next]_vars
  PROVE  IInv'
<1>1. ASSUME NEW t \in Threads, PublishFrontier(t) \/ AnswerFromEvidence(t) \/ PrepareCurrent(t)
      PROVE  IInv'
  BY <1>1, StartStep DEF PublishFrontier, AnswerFromEvidence, PrepareCurrent, Kinds
<1>2. ASSUME NEW t \in Threads, Steps(t)
      PROVE  IInv'
  BY <1>2, RecoveredStep, RevokeArtifactStep, CompleteRevocationStep, BeginStep,
     DecideInitialStep, DecideCompleteStep, HoldToSynthesizeStep, SynthesizeStep, ParseStep,
     HoldToPublishStep, SaveSnapshotStep, LoadSnapshotStep, CheckRevokedStep,
     WriteArtifactStep, RecheckStep, RevokeOwnStep, DeleteSnapshotStep, ReadContextStep,
     MatchAuthorityStep, HoldToAnswerStep, ReturnStep, ReadPreviousStep,
     InvalidateChangedStep, AllInvalidatedStep, RetryFailedStep, DropStaleStep,
     ReadPreparedStep, PlanEntryStep, DeleteArtifactsStep, CompleteDeletionStep DEF Steps
<1>3. ASSUME NEW t \in Threads, DeleteWorkspaceEvidence(t) \/ Fail(t)
      PROVE  IInv'
  BY <1>3, DeleteWorkspaceEvidenceStep, FailStep
<1>4. CASE UNCHANGED vars
  BY <1>4, SameInv
<1> QED BY <1>1, <1>2, <1>3, <1>4, ApproveStep, AnalyseStep, DieStep DEF Next, Rest

LEMMA InvHolds == Spec => []IInv
<1>1. IInv /\ [Next]_vars => IInv'
  BY NextInv
<1> QED BY InitInv, <1>1, PTL DEF Spec

LEMMA InvTyped == IInv => TypeOK
<1> SUFFICES ASSUME IInv PROVE TypeOK
  OBVIOUS
<1>1. maps \in 0..MaxMaps
  BY DEF IInv, CoreInv
<1>2. \A id : Fits(id, maps) => IsMap(id)
  BY <1>1 DEF Fits, IsMap
<1>3. \A row \in rows : IsMap(row.id) /\ row.stamp \in 1..MaxMaps
  BY <1>1, <1>2 DEF IInv, MapInv
<1>4. \A id \in revoked \cup docs \cup tombs : IsMap(id)
  BY <1>2 DEF IInv, IdInv
<1> QED BY <1>3, <1>4 DEF IInv, CoreInv, LockInv, RevocationInv, TypeOK

LEMMA InvSound == IInv => MapsSound
<1> SUFFICES ASSUME IInv PROVE MapsSound
  OBVIOUS
<1>1. ASSUME NEW row \in rows
      PROVE  Valid(row.id) /\ Cardinality(Row(row.id)) = 1
  <2>1. Row(row.id) = {row}
    BY DEF Row, IInv, MapInv
  <2>2. Cardinality({row}) = 1
    BY FS_Singleton
  <2> QED BY <2>1, <2>2 DEF IInv, CitedInv
<1>2. faults > 0 \/ \A id \in revoked : Row(id) = {} \/ \E t \in Threads : TakesBack(t, id)
  BY DEF IInv, WithdrawnInv
<1> QED BY <1>1, <1>2, InvTyped DEF IInv, RevocationInv, MapsSound

(***************************************************************************)
(* The theorems.                                                           *)
(***************************************************************************)
(* Every variable keeps its type, and the two locks are held by the calls   *)
(* that are at a place under them.                                         *)
THEOREM TypeCorrect == Spec => []TypeOK
BY InvHolds, InvTyped, PTL

(* However calls, approvals, failures and deaths interleave: a map in the   *)
(* store cites evidence that is in it and is the only one of its id; a      *)
(* completed revocation has its tombstone; a revoked map is in the store    *)
(* only to be taken back, or after a failure; and of a deleted workspace    *)
(* nothing is left (StudyMapBuilder, EvidenceService, EvidenceStore).       *)
THEOREM MapsAreSound == Spec => []MapsSound
BY InvHolds, InvSound, PTL

(* Evidence goes to the composer only from the revision approved at that    *)
(* moment (EvidenceService.answer_from_evidence).                           *)
THEOREM AnswersAreCurrent == Spec => AnswerCurrent
<1>1. ASSUME IInv, [Next]_vars, NEW t \in Threads, Compose(t)
      PROVE  th[t].target[1].rev = approved /\ rev = approved
  <2>1. th[t] \in Call /\ CallOK(th[t]) /\ th[t].pc = "compose"
    BY <1>1, Known DEF Compose, At
  <2>2. /\ approved # Gone /\ approved = th[t].rev /\ th[t].rev <= rev
        /\ th[t].target[1].rev = th[t].rev
    BY <2>1 DEF CallOK, PhaseOK, TargetOK, Resting, Answering
  <2>3. rev \in Nat /\ approved \in Nat /\ rev <= approved
    BY <1>1 DEF IInv, CoreInv
  <2> QED BY <2>2, <2>3
<1>2. IInv /\ [Next]_vars
         => [\A t \in Threads : Compose(t) =>
                th[t].target[1].rev = approved /\ rev = approved]_vars
  BY <1>1
<1> QED BY InvHolds, <1>2, PTL DEF AnswerCurrent, Spec

(***************************************************************************)
(* What becomes of a map that is returned.  A map whose publication was     *)
(* begun has its row, or the loss of the row is on record, or two failures  *)
(* have met: that of its insertion and that of taking it back.              *)
(***************************************************************************)
Preparing == {"previous", "changed", "retry", "stale", "plan"}
Building(c) ==
    \/ c.pc \in {"decide"} \cup Drafting \cup Publishing
    \/ c.kind = "build" /\ c.pc \in {"revoke", "completed"}
Lost(id, n) == id \in revoked \cup tombs \/ faults >= n

ReturnOK(c) ==
    /\ c.pc \in Guarded => c.rev = approved
    /\ c.kind = "build" => c.pc \notin Preparing
    /\ Building(c) => c.rev <= rev
    /\ c.pc \in {"publish", "check", "write"} /\ c.stamp = 0 =>
          Row(c.target) # {} \/ Lost(c.target, 2)
    /\ c.pc = "undo" => Lost(c.target, 1)
    /\ c.pc \in {"drop", "forget"} => Lost(c.target, 2)
ReturnInv == \A t \in Threads : ReturnOK(th[t])

(* A step after which every map has its row still, or its loss on record.   *)
Grows ==
    /\ approved' = approved /\ rev <= rev' /\ faults <= faults'
    /\ revoked \cup tombs \subseteq revoked' \cup tombs'
    /\ \A id : Row(id) # {} => Row(id)' # {} \/ id \in revoked' \cup tombs' \/ faults' >= 2

LEMMA Numbers ==
  ASSUME IInv
  PROVE  /\ rev \in Nat /\ approved \in Nat /\ faults \in Nat
         /\ \A t \in Threads : th[t] \in Call /\ th[t].rev \in Nat
<1>1. \A c \in Call : c.rev \in Nat
  BY DEF Call
<1> QED BY <1>1 DEF IInv, CoreInv, LockInv

LEMMA ReturnsKept ==
  ASSUME IInv, IInv', ReturnInv, NEW t \in Threads, NEW next, Become(t, next), Grows,
         ReturnOK(th[t])'
  PROVE  ReturnInv'
<1>1. \A u \in Threads \ {t} : th'[u] = th[u]
  BY DEF Become, IInv, LockInv
<1>2. /\ rev \in Nat /\ rev' \in Nat /\ faults \in Nat /\ faults' \in Nat
      /\ \A u \in Threads : th[u].rev \in Nat
  <2>1. rev' \in Nat /\ faults' \in Nat
    BY DEF IInv, CoreInv
  <2> QED BY <2>1, Numbers
<1>3. ASSUME NEW u \in Threads \ {t}
      PROVE  ReturnOK(th[u])'
  <2>1. ReturnOK(th[u]) /\ th'[u] = th[u]
    BY <1>1 DEF ReturnInv
  <2> HIDE DEF Row
  <2> QED BY <1>2, <2>1 DEF ReturnOK, Building, Lost, Grows
<1> QED BY <1>3 DEF ReturnInv

LEMMA LocalGrows ==
  ASSUME IInv, StoresSame, faults' = faults \/ faults' = faults + 1
  PROVE  Grows
BY Numbers DEF Grows, StoresSame, workspace, store, artifacts, Row

LEMMA Taken ==
  ASSUME IInv, NEW t \in Threads, NEW next, Become(t, next)
  PROVE  th'[t] = next
BY DEF Become, IInv, LockInv

(* A call that goes where nothing is asked of it.                           *)
LEMMA QuietStep ==
  ASSUME IInv, IInv', ReturnInv, NEW t \in Threads, NEW d, Become(t, d), Grows,
         d.pc \notin Guarded \cup {"decide", "draft", "publish", "revoke", "completed"},
         d.pc \in Preparing => d.kind # "build"
  PROVE  ReturnInv'
<1>1. th'[t] = d
  BY Taken
<1>2. ReturnOK(th[t])'
  BY <1>1 DEF ReturnOK, Building, Drafting, Publishing, Guarded
<1> QED BY <1>2, ReturnsKept

LEMMA EndStep ==
  ASSUME IInv, IInv', ReturnInv, NEW t \in Threads, Grows, Become(t, Idle) \/ Published(t),
         th[t].pc \notin Resting
  PROVE  ReturnInv'
<1>1. PICK d : Become(t, d) /\ d.pc \in {"begin", "idle"}
  BY PublishedOK, IdleOK DEF IInv
<1> QED BY <1>1, QuietStep DEF Guarded, Preparing

(* A call that goes on at another place, and finds there what it asks for.  *)
LEMMA GoneOn ==
  ASSUME IInv, IInv', ReturnInv, NEW t \in Threads, NEW x \in Pcs, Goto(t, x), Grows,
         UNCHANGED <<rev, faults, revoked, tombs, rows>>,
         \A d \in Call : /\ d.pc = x /\ d.rev = th[t].rev /\ d.target = th[t].target
                         /\ d.stamp = th[t].stamp /\ d.kind = th[t].kind
                         => ReturnOK(d)
  PROVE  ReturnInv'
<1>1. PICK d : d = [th[t] EXCEPT !.pc = x]
  OBVIOUS
<1>2. /\ d \in Call /\ d.pc = x /\ d.rev = th[t].rev /\ d.target = th[t].target
      /\ d.stamp = th[t].stamp /\ d.kind = th[t].kind
  BY <1>1, Moved, Numbers
<1>3. Become(t, d) /\ th'[t] = d
  BY <1>1, Taken DEF Goto
<1>4. ReturnOK(d)
  BY <1>2
<1>5. ReturnOK(th[t])'
  BY <1>3, <1>4 DEF ReturnOK, Building, Lost, Row, Grows
<1> QED BY <1>3, <1>5, ReturnsKept

LEMMA GoneOnLocal ==
  ASSUME IInv, IInv', ReturnInv, NEW t \in Threads, NEW x \in Pcs, Goto(t, x), Local,
         \A d \in Call : /\ d.pc = x /\ d.rev = th[t].rev /\ d.target = th[t].target
                         /\ d.stamp = th[t].stamp /\ d.kind = th[t].kind
                         => ReturnOK(d)
  PROVE  ReturnInv'
<1>1. Grows /\ UNCHANGED <<rev, faults, revoked, tombs, rows>>
  BY LocalSame, LocalGrows DEF Local, store, artifacts
<1> QED BY <1>1, GoneOn

(* An exception: a publication that takes back its row has failed, or its   *)
(* map was revoked.                                                         *)
LEMMA RaisedStep ==
  ASSUME IInv, IInv', ReturnInv, NEW t \in Threads, Raise(t), Grows, th[t].pc # "idle",
         \/ faults' = faults + 1
         \/ th[t].pc \notin {"check", "write", "undo"}
         \/ th[t].target \in revoked \cup tombs
  PROVE  ReturnInv'
<1>1. Become(t, Raised(t))
  BY DEF Raise
<1>2. CASE (th[t].pc \in {"check", "write"} /\ th[t].inserted) \/ th[t].pc = "undo"
  <2>1. PICK x \in {"undo", "drop"} : /\ Raised(t) = [th[t] EXCEPT !.pc = x]
                                      /\ x = "drop" <=> th[t].pc = "undo"
    BY <1>2 DEF Raised
  <2>2. PICK d : d = [th[t] EXCEPT !.pc = x]
    OBVIOUS
  <2>3. /\ d.pc = x /\ d.rev = th[t].rev /\ d.target = th[t].target /\ d.kind = th[t].kind
    <3>1. x \in Pcs
      BY DEF Pcs, Guarded
    <3> QED BY <2>2, <3>1, Moved, Numbers
  <2>4. Become(t, d) /\ th'[t] = d
    BY <1>1, <2>1, <2>2, Taken
  <2>5. ReturnOK(th[t]) /\ rev \in Nat /\ rev' \in Nat /\ faults \in Nat /\ th[t].rev \in Nat
    <3>1. rev' \in Nat
      BY DEF IInv, CoreInv
    <3> QED BY <3>1, Numbers DEF ReturnInv
  <2>6. th[t].rev = approved /\ th[t].rev <= rev /\ (th[t].pc = "undo" => Lost(th[t].target, 1))
    BY <1>2, <2>5 DEF ReturnOK, Building, Publishing, Guarded
  <2>7. Lost(th[t].target, IF x = "drop" THEN 2 ELSE 1)'
    <3>1. x = "drop" => Lost(th[t].target, 1)
      BY <2>1, <2>6
    <3> QED BY <1>2, <2>4, <2>5, <2>3, <3>1 DEF Lost, Grows
  <2>8. ReturnOK(th[t])'
    BY <2>3, <2>4, <2>5, <2>6, <2>7 DEF ReturnOK, Building, Drafting, Publishing, Guarded,
       Preparing, Grows
  <2> QED BY <2>4, <2>8, ReturnsKept
<1>3. CASE ~((th[t].pc \in {"check", "write"} /\ th[t].inserted) \/ th[t].pc = "undo")
  <2>1. Become(t, Idle) /\ Idle.pc = "idle"
    BY <1>1, <1>3, IdleOK DEF Raised, IInv
  <2> QED BY <2>1, QuietStep DEF Guarded, Preparing
<1> QED BY <1>2, <1>3

LEMMA RaisedLocal ==
  ASSUME IInv, IInv', ReturnInv, NEW t \in Threads, Raise(t), Local, th[t].pc # "idle",
         \/ th[t].pc \notin {"check", "write", "undo"}
         \/ th[t].target \in revoked \cup tombs
  PROVE  ReturnInv'
BY LocalSame, LocalGrows, RaisedStep

LEMMA FaultStep ==
  ASSUME IInv, IInv', ReturnInv, NEW t \in Threads, Fault(t), Grows, th[t].pc # "idle"
  PROVE  ReturnInv'
BY RaisedStep DEF Fault

(* One lemma per group of actions.                                          *)
LEMMA RecoveredTo ==
  ASSUME NEW t \in Threads, Recovered(t)
  PROVE  \E x \in {"decide", "stale", "changed"} :
            Goto(t, x) /\ (x = "decide" <=> th[t].kind = "build")
<1>1. CASE th[t].kind = "build"
  <2>1. Goto(t, "decide")
    BY <1>1 DEF Recovered
  <2> QED BY <1>1, <2>1
<1>2. CASE th[t].kind # "build"
  <2>1. Goto(t, "stale") \/ Goto(t, "changed")
    BY <1>2 DEF Recovered
  <2> QED BY <1>2, <2>1
<1> QED BY <1>1, <1>2

LEMMA PreparingTo ==
  ASSUME NEW t \in Threads, th[t] \in Call,
         (ReadPrevious(t) /\ ~Raise(t)) \/ AllInvalidated(t) \/ ReadPrepared(t)
  PROVE  \E d : Become(t, d) /\ d.pc \in Preparing /\ d.kind = th[t].kind
<1>1. {"retry", "changed", "plan"} \subseteq Preparing
  BY DEF Preparing
<1>2. CASE Goto(t, "retry")
  <2>1. PICK d : d = [th[t] EXCEPT !.pc = "retry"]
    OBVIOUS
  <2>2. Become(t, d)
    BY <1>2, <2>1 DEF Goto
  <2>3. d.pc = "retry" /\ d.kind = th[t].kind
    BY <2>1 DEF Call
  <2> QED BY <1>1, <2>2, <2>3
<1>3. CASE ReadPrevious(t) /\ ~Raise(t) /\ ~Goto(t, "retry")
  <2>1. PICK set : set = {p \in Planned(rev) : source[rev][p] # source[th[t].rev][p]}
    OBVIOUS
  <2>2. PICK d : d = [th[t] EXCEPT !.pc = "changed", !.of = rev, !.entries = set]
    OBVIOUS
  <2>3. Become(t, d)
    BY <1>3, <2>1, <2>2 DEF ReadPrevious
  <2>4. d.pc = "changed" /\ d.kind = th[t].kind
    BY <2>2 DEF Call
  <2> QED BY <1>1, <2>3, <2>4
<1>4. CASE AllInvalidated(t)
  <2>1. PICK d : d = [th[t] EXCEPT !.pc = "retry", !.of = 0]
    OBVIOUS
  <2>2. Become(t, d)
    BY <1>4, <2>1 DEF AllInvalidated
  <2>3. d.pc = "retry" /\ d.kind = th[t].kind
    BY <2>1 DEF Call
  <2> QED BY <1>1, <2>2, <2>3
<1>5. CASE ReadPrepared(t)
  <2>1. PICK set : set = In(th[t].rev, {"absent", "invalidated"})
    OBVIOUS
  <2>2. PICK d : d = [th[t] EXCEPT !.pc = "plan", !.entries = set]
    OBVIOUS
  <2>3. Become(t, d)
    BY <1>5, <2>1, <2>2 DEF ReadPrepared
  <2>4. d.pc = "plan" /\ d.kind = th[t].kind
    BY <2>2 DEF Call
  <2> QED BY <1>1, <2>3, <2>4
<1> QED BY <1>2, <1>3, <1>4, <1>5

LEMMA LocalReturns ==
  ASSUME IInv, IInv', ReturnInv, NEW t \in Threads,
         \/ Begin(t) \/ Recovered(t) \/ ReadContext(t) \/ MatchAuthority(t) \/ Compose(t)
         \/ ReadPrevious(t) \/ AllInvalidated(t) \/ ReadPrepared(t) \/ Prepared(t)
  PROVE  ReturnInv'
<1>1. Local /\ th[t].pc \notin Resting /\ th[t].pc \notin {"check", "write", "undo"}
  BY DEF Begin, Recovered, ReadContext, MatchAuthority, Compose, ReadPrevious, AllInvalidated,
         ReadPrepared, Prepared, At, Resting
<1>2. Grows /\ UNCHANGED <<rev, faults, revoked, tombs, rows>>
  BY <1>1, LocalSame, LocalGrows DEF Local, store, artifacts
<1>3. th[t] \in Call /\ ReturnOK(th[t]) /\ revoked \in SUBSET Seq(Contents)
  BY Numbers DEF ReturnInv, IInv, IdInv, Fits
<1>4. CASE Become(t, Idle) \/ Published(t)
  BY <1>1, <1>2, <1>4, EndStep
<1>5. CASE Raise(t)
  BY <1>1, <1>5, RaisedLocal DEF Resting
<1>6. CASE Recovered(t)
  <2>1. PICK x \in {"decide", "stale", "changed"} :
           Goto(t, x) /\ (x = "decide" <=> th[t].kind = "build")
    BY <1>6, RecoveredTo
  <2>2. x \in Pcs /\ th[t].pc = "revoke"
    BY <1>6 DEF Pcs, Recovered, At
  <2>3. \A d \in Call : d.pc = x /\ d.rev = th[t].rev /\ d.kind = th[t].kind => ReturnOK(d)
    BY <1>3, <2>1, <2>2 DEF ReturnOK, Building, Drafting, Publishing, Guarded, Preparing
  <2> QED BY <1>1, <2>1, <2>2, <2>3, GoneOnLocal
<1>7. CASE Begin(t) /\ Become(t, Recover(th[t])) /\ rev = th[t].rev
  <2>1. PICK d : d = Recover(th[t])
    OBVIOUS
  <2>2. d.pc = "revoke" /\ d.rev = th[t].rev
    BY <1>3, <2>1 DEF Recover, Call, Pcs
  <2>3. th'[t] = d /\ rev' = rev /\ rev <= rev
    BY <1>2, <1>7, <2>1, Taken, Numbers
  <2>4. ReturnOK(th[t])'
    BY <1>7, <2>2, <2>3 DEF ReturnOK, Building, Drafting, Publishing, Guarded, Preparing
  <2> QED BY <1>2, <1>7, <2>4, ReturnsKept
<1>8. CASE ReadContext(t) /\ ~Become(t, Idle)
  <2>1. PICK m, d : d = [th[t] EXCEPT !.pc = "authority", !.target = m] /\ Become(t, d)
    BY <1>8 DEF ReadContext
  <2>2. d.pc = "authority"
    BY <1>3, <2>1 DEF Call
  <2> QED BY <1>2, <2>1, <2>2, QuietStep DEF Guarded, Preparing
<1>9. CASE MatchAuthority(t) /\ Goto(t, "answer")
  <2>1. \A d \in Call : d.pc = "answer" => ReturnOK(d)
    BY DEF ReturnOK, Building, Drafting, Publishing, Guarded, Preparing
  <2>2. "answer" \in Pcs
    BY DEF Pcs
  <2> QED BY <1>1, <1>9, <2>1, <2>2, GoneOnLocal
<1>10. ASSUME NEW d, Become(t, d), d.pc \in Preparing, d.kind = th[t].kind, th[t].pc \in Preparing
       PROVE  ReturnInv'
  BY <1>2, <1>3, <1>10, QuietStep DEF ReturnOK, Preparing, Guarded
<1>11. CASE \/ ReadPrevious(t) /\ ~Raise(t)
            \/ AllInvalidated(t) \/ ReadPrepared(t)
  <2>1. th[t].pc \in Preparing
    BY <1>11 DEF ReadPrevious, AllInvalidated, ReadPrepared, At, Preparing
  <2> QED BY <1>3, <1>10, <1>11, <2>1, PreparingTo
<1> QED BY <1>4, <1>5, <1>6, <1>7, <1>8, <1>9, <1>11
    DEF Begin, ReadContext, MatchAuthority, Compose, Prepared

LEMMA DecideReturns ==
  ASSUME IInv, IInv', ReturnInv, NEW t \in Threads, DecideInitial(t) \/ DecideComplete(t)
  PROVE  ReturnInv'
<1> DEFINE id == Current(th[t].rev)
<1>1. Local /\ th[t].pc = "decide" /\ th[t].pc \notin Resting
  BY DEF DecideInitial, DecideComplete, At, Resting
<1>2. Grows /\ UNCHANGED <<rev, faults, revoked, tombs, rows, approved>>
  BY <1>1, LocalSame, LocalGrows DEF Local, store, artifacts, workspace
<1>3. th[t] \in Call /\ th[t].rev <= rev /\ (th[t].kind = "build" => th[t].pc \notin Preparing)
  BY <1>1, Numbers DEF ReturnInv, ReturnOK, Building
<1>4. CASE Become(t, Existing(t, id)) /\ id # NoMap
  <2>1. Row(id) # {}
    <3>1. RowsOf(th[t].rev) # {} /\ id = Newest(RowsOf(th[t].rev)).id
      BY <1>4 DEF Current
    <3>2. \A row \in RowsOf(th[t].rev) : row.stamp \in 1..maps
      BY DEF RowsOf, IInv, MapInv
    <3>3. Newest(RowsOf(th[t].rev)) \in RowsOf(th[t].rev)
      <4>1. maps \in Nat
        BY DEF IInv, CoreInv
      <4> QED BY <3>1, <3>2, <4>1, NewestIsOne
    <3> QED BY <3>1, <3>3 DEF RowsOf, Row
  <2>2. PICK d, m : d = [th[t] EXCEPT !.pc = "publish", !.target = m] /\ m = id /\ Become(t, d)
    BY <1>4 DEF Existing
  <2>3. d.pc = "publish" /\ d.rev = th[t].rev /\ d.target = m
    BY <1>3, <2>2 DEF Call
  <2>4. th'[t] = d
    BY <2>2, Taken
  <2>5. Row(m)' # {}
    BY <1>2, <2>1, <2>2 DEF Row
  <2>6. ReturnOK(th[t])'
    BY <1>2, <1>3, <2>3, <2>4, <2>5 DEF ReturnOK, Building, Guarded, Preparing
  <2> QED BY <1>2, <2>2, <2>6, ReturnsKept
<1>5. ASSUME NEW r, NEW old, Become(t, Draft(t, r, old))
      PROVE  ReturnInv'
  <2>1. PICK d, m : d = [th[t] EXCEPT !.pc = "draft", !.target = m] /\ Become(t, d)
    BY <1>5 DEF Draft
  <2>2. d.pc = "draft" /\ d.rev = th[t].rev
    BY <1>3, <2>1 DEF Call
  <2>3. th'[t] = d
    BY <2>1, Taken
  <2>4. ReturnOK(th[t])'
    BY <1>2, <1>3, <2>2, <2>3 DEF ReturnOK, Building, Guarded, Preparing
  <2> QED BY <1>2, <2>1, <2>4, ReturnsKept
<1>6. CASE Become(t, Idle) \/ Published(t)
  BY <1>1, <1>2, <1>6, EndStep
<1> QED BY <1>4, <1>5, <1>6 DEF DecideInitial, DecideComplete

(* The places under the workspace's authority.                              *)
LEMMA HeldReturns ==
  ASSUME IInv, IInv', ReturnInv, NEW t \in Threads,
         \/ HoldToSynthesize(t) \/ Synthesize(t) \/ HoldToPublish(t) \/ LoadSnapshot(t)
         \/ CheckRevoked(t) \/ Recheck(t) \/ HoldToAnswer(t)
  PROVE  ReturnInv'
<1>1. Local /\ th[t].pc \notin Resting \cup {"write", "undo"}
  BY DEF HoldToSynthesize, Synthesize, HoldToPublish, LoadSnapshot, CheckRevoked, Recheck,
         HoldToAnswer, At, Resting
<1>2. th[t] \in Call /\ CallOK(th[t]) /\ ReturnOK(th[t]) /\ Grows
  BY <1>1, Known, LocalSame, LocalGrows DEF ReturnInv
<1>3. CASE Become(t, Idle) \/ Published(t)
  BY <1>1, <1>2, <1>3, EndStep
<1>4. CASE Raise(t)
  <2>1. th[t].pc = "check" => th[t].target \in revoked
    <3> SUFFICES ASSUME th[t].pc = "check", th[t].target \notin revoked
                 PROVE  FALSE
      OBVIOUS
    <3>1. Goto(t, "write")
      BY DEF CheckRevoked, HoldToSynthesize, Synthesize, HoldToPublish, LoadSnapshot, Recheck,
             HoldToAnswer, At
    <3>2. th'[t] = [th[t] EXCEPT !.pc = "write"] /\ th'[t] = Raised(t)
      BY <1>4, <3>1, Taken DEF Goto, Raise
    <3>3. "write" \in Pcs
      BY DEF Pcs, Guarded
    <3>4. th'[t].pc = "write"
      BY <1>2, <3>2, <3>3, Moved
    <3>5. Raised(t).pc \in {"idle", "undo", "drop"}
      BY <1>1, RaisedOK DEF Resting
    <3> QED BY <3>2, <3>4, <3>5
  <2> QED BY <1>1, <1>4, <2>1, RaisedLocal DEF Resting
<1>5. ASSUME NEW x \in {"synthesize", "parse", "save", "check", "write", "withdraw", "compose"},
             Goto(t, x),
             th[t].rev = approved,
             x # "compose" => th[t].pc \in Drafting \cup Publishing,
             x \in {"check", "write"} => th[t].pc \in {"publish", "check"} \/ th[t].stamp # 0
      PROVE  ReturnInv'
  <2>1. x \in Pcs
    BY DEF Pcs, Guarded
  <2>2. \A d \in Call : /\ d.pc = x /\ d.rev = th[t].rev /\ d.target = th[t].target
                        /\ d.stamp = th[t].stamp /\ d.kind = th[t].kind
                        => ReturnOK(d)
    BY <1>2, <1>5 DEF ReturnOK, Building, Drafting, Publishing, Guarded, Preparing
  <2> QED BY <1>1, <1>5, <2>1, <2>2, GoneOnLocal
<1>6. th[t].pc \in Guarded => th[t].rev = approved
  BY <1>2 DEF ReturnOK
<1>7. CASE HoldToSynthesize(t) /\ ~Raise(t)
  <2>1. Goto(t, "synthesize") /\ th[t].rev = approved /\ th[t].pc = "draft"
    BY <1>7 DEF HoldToSynthesize, Authorized, At
  <2> QED BY <1>5, <2>1 DEF Drafting
<1>8. CASE Synthesize(t) /\ ~Raise(t)
  <2>1. Goto(t, "parse") /\ th[t].pc = "synthesize"
    BY <1>8 DEF Synthesize, At
  <2> QED BY <1>5, <1>6, <2>1 DEF Drafting, Guarded
<1>9. CASE HoldToPublish(t) /\ ~Raise(t)
  <2>1. (Goto(t, "save") \/ Goto(t, "check")) /\ th[t].rev = approved /\ th[t].pc = "publish"
    BY <1>9 DEF HoldToPublish, Authorized, At
  <2> QED BY <1>5, <2>1 DEF Publishing
<1>10. CASE LoadSnapshot(t) /\ ~Raise(t)
  <2>1. Goto(t, "check") /\ th[t].pc = "load"
    BY <1>10 DEF LoadSnapshot, At
  <2>2. th[t].stamp # 0
    <3>1. th[t].stamp \in 1..maps /\ maps \in Nat
      BY <1>2, <2>1 DEF CallOK, TargetOK, IInv, CoreInv
    <3> QED BY <3>1
  <2> QED BY <1>5, <1>6, <2>1, <2>2 DEF Publishing, Guarded
<1>11. CASE CheckRevoked(t) /\ ~Raise(t)
  <2>1. Goto(t, "write") /\ th[t].pc = "check"
    BY <1>11 DEF CheckRevoked, At
  <2> QED BY <1>5, <1>6, <2>1 DEF Publishing, Guarded
<1>12. CASE Recheck(t) /\ ~Published(t)
  <2>1. Goto(t, "withdraw") /\ th[t].pc = "recheck"
    BY <1>12 DEF Recheck, At
  <2> QED BY <1>5, <1>6, <2>1 DEF Publishing, Guarded
<1>13. CASE HoldToAnswer(t) /\ ~Become(t, Idle)
  <2>1. Goto(t, "compose") /\ th[t].rev = approved
    BY <1>13 DEF HoldToAnswer, Authorized
  <2> QED BY <1>5, <2>1
<1> QED BY <1>3, <1>4, <1>7, <1>8, <1>9, <1>10, <1>11, <1>12, <1>13

LEMMA RevocationReturns ==
  ASSUME IInv, IInv', ReturnInv, NEW t \in Threads, RevokeArtifact(t) \/ CompleteRevocation(t)
  PROVE  ReturnInv'
<1>1. th[t] \in Call /\ ReturnOK(th[t]) /\ rev \in Nat /\ faults \in Nat
  BY Numbers DEF ReturnInv
<1>2. ASSUME NEW d, Become(t, d), Grows, rev' = rev, d.pc \in {"revoke", "completed"},
             d.kind = th[t].kind, d.rev = th[t].rev, th[t].pc \in {"revoke", "completed"}
      PROVE  ReturnInv'
  <2>1. th'[t] = d
    BY <1>2, Taken
  <2>2. ReturnOK(th[t])'
    BY <1>1, <1>2, <2>1 DEF ReturnOK, Building, Drafting, Publishing, Guarded, Preparing
  <2> QED BY <1>2, <2>2, ReturnsKept
<1>3. CASE RevokeArtifact(t)
  <2>1. PICK id \in th[t].ids :
           /\ tombs' = tombs \cup {id}
           /\ Then(t, [th[t] EXCEPT !.pc = "completed", !.target = id])
    BY <1>3 DEF RevokeArtifact
  <2>2. th[t].pc = "revoke" /\ UNCHANGED <<workspace, store>>
    BY <1>3 DEF RevokeArtifact, At
  <2>3. PICK d : d = [th[t] EXCEPT !.pc = "completed", !.target = id]
    OBVIOUS
  <2>4. d.pc = "completed" /\ d.kind = th[t].kind /\ d.rev = th[t].rev
    BY <1>1, <2>3 DEF Call
  <2>5. ASSUME faults' = faults \/ faults' = faults + 1
        PROVE  Grows
    BY <1>1, <2>1, <2>2, <2>5, Numbers DEF Grows, Row, workspace, store
  <2>6. CASE Become(t, d) /\ faults' = faults
    BY <1>2, <2>2, <2>4, <2>5, <2>6 DEF store
  <2>7. CASE Fault(t)
    BY <2>2, <2>5, <2>7, FaultStep DEF Fault
  <2> QED BY <2>1, <2>3, <2>6, <2>7 DEF Then
<1>4. CASE CompleteRevocation(t)
  <2>1. PICK d, ids : /\ d = [th[t] EXCEPT !.pc = "revoke", !.target = NoMap, !.ids = ids]
                      /\ ids = th[t].ids \ {th[t].target}
    OBVIOUS
  <2>2. Become(t, d)
    BY <1>4, <2>1 DEF CompleteRevocation
  <2>3. d.pc = "revoke" /\ d.kind = th[t].kind /\ d.rev = th[t].rev
    BY <1>1, <2>1 DEF Call
  <2>4. Grows /\ rev' = rev /\ th[t].pc = "completed"
    BY <1>1, <1>4, Numbers DEF CompleteRevocation, At, Grows, Row, workspace, artifacts
  <2> QED BY <1>2, <2>2, <2>3, <2>4
<1> QED BY <1>3, <1>4

LEMMA NewMapReturns ==
  ASSUME IInv, IInv', ReturnInv, NEW t \in Threads, Parse(t) \/ SaveSnapshot(t)
  PROVE  ReturnInv'
<1>1. /\ th[t] \in Call /\ CallOK(th[t]) /\ ReturnOK(th[t]) /\ maps \in Nat
      /\ th[t].pc \in {"parse", "save"}
  <2>1. th[t].pc \in {"parse", "save"}
    BY DEF Parse, SaveSnapshot, At
  <2>2. maps \in Nat
    BY DEF IInv, CoreInv
  <2> QED BY <2>1, <2>2, Known DEF ReturnInv
<1>2. Grows /\ UNCHANGED <<rev, faults, approved>>
  <2>1. /\ UNCHANGED <<rev, faults, approved, revoked, tombs>>
        /\ rows' = rows \/ \E row : rows' = rows \cup {row}
    <3>1. CASE Parse(t)
      BY <3>1 DEF Parse, workspace, store, artifacts
    <3>2. CASE SaveSnapshot(t)
      BY <3>2 DEF SaveSnapshot, workspace, artifacts
    <3> QED BY <3>1, <3>2
  <2>2. rows \subseteq rows'
    BY <2>1
  <2> QED BY <2>1, <2>2, Numbers DEF Grows, Row
<1>3. th[t].rev = approved /\ th[t].rev <= rev
  BY <1>1 DEF ReturnOK, Building, Drafting, Publishing, Guarded
<1>4. CASE Raise(t)
  BY <1>1, <1>2, <1>4, RaisedStep
<1>5. ASSUME NEW d, Become(t, d), d.pc \in {"publish", "load", "check"}, d.stamp # 0,
             d.rev = th[t].rev
      PROVE  ReturnInv'
  <2>1. th'[t] = d
    BY <1>5, Taken
  <2>2. ReturnOK(th[t])'
    BY <1>2, <1>3, <1>5, <2>1 DEF ReturnOK, Building, Drafting, Publishing, Guarded, Preparing
  <2> QED BY <1>2, <1>5, <2>2, ReturnsKept
<1>6. CASE Parse(t) /\ ~Raise(t)
  <2>1. ASSUME NEW cites, Become(t, [th[t] EXCEPT !.pc = "publish", !.stamp = maps + 1,
                                                  !.target[1].cites = cites])
        PROVE  ReturnInv'
    <3>1. PICK id : id = [th[t].target EXCEPT ![1].cites = cites]
      OBVIOUS
    <3>2. PICK d : d = [th[t] EXCEPT !.pc = "publish", !.stamp = maps + 1, !.target = id]
      OBVIOUS
    <3>3. d.pc = "publish" /\ d.stamp = maps + 1 /\ d.rev = th[t].rev
      BY <1>1, <3>2 DEF Call
    <3>4. Become(t, d)
      BY <2>1, <3>1, <3>2
    <3> QED BY <1>1, <1>5, <3>3, <3>4
  <2> QED BY <1>6, <2>1 DEF Parse
<1>7. CASE SaveSnapshot(t) /\ ~Raise(t)
  <2>1. th[t].stamp # 0
    <3>1. th[t].stamp \in 1..maps
      BY <1>1, <1>7 DEF CallOK, TargetOK, SaveSnapshot, At
    <3> QED BY <1>1, <3>1
  <2>2. CASE Goto(t, "load")
    <3>1. PICK d : d = [th[t] EXCEPT !.pc = "load"]
      OBVIOUS
    <3>2. d.pc = "load" /\ d.stamp = th[t].stamp /\ d.rev = th[t].rev
      BY <1>1, <3>1 DEF Call
    <3> QED BY <1>5, <2>1, <2>2, <3>1, <3>2 DEF Goto
  <2>3. CASE Become(t, [th[t] EXCEPT !.pc = "check", !.inserted = TRUE])
    <3>1. PICK d : d = [th[t] EXCEPT !.pc = "check", !.inserted = TRUE]
      OBVIOUS
    <3>2. d.pc = "check" /\ d.stamp = th[t].stamp /\ d.rev = th[t].rev
      BY <1>1, <3>1 DEF Call
    <3> QED BY <1>5, <2>1, <2>3, <3>1, <3>2
  <2> QED BY <1>7, <2>2, <2>3 DEF SaveSnapshot
<1> QED BY <1>4, <1>6, <1>7

LEMMA ArtifactReturns ==
  ASSUME IInv, IInv', ReturnInv, NEW t \in Threads, WriteArtifact(t) \/ RevokeOwn(t)
  PROVE  ReturnInv'
<1>1. /\ th[t] \in Call /\ ReturnOK(th[t]) /\ th[t].pc \in {"write", "undo", "withdraw"}
      /\ UNCHANGED <<workspace, store>> /\ tombs \subseteq tombs'
  BY Numbers DEF ReturnInv, WriteArtifact, RevokeOwn, At
<1>2. th[t].rev = approved /\ th[t].rev <= rev /\ rev' = rev /\ approved' = approved
  BY <1>1 DEF ReturnOK, Building, Publishing, Guarded, workspace, store
<1>3. ASSUME faults' = faults \/ faults' = faults + 1
      PROVE  Grows
  BY <1>1, <1>3, Numbers DEF Grows, Row, workspace, store
<1>4. CASE Fault(t)
  BY <1>1, <1>3, <1>4, FaultStep DEF Fault
<1>5. ASSUME NEW x \in {"recheck", "drop", "forget"}, Goto(t, x), faults' = faults,
             x # "recheck" => th[t].target \in tombs'
      PROVE  ReturnInv'
  <2>1. PICK d : d = [th[t] EXCEPT !.pc = x]
    OBVIOUS
  <2>2. d.pc = x /\ d.rev = th[t].rev /\ d.target = th[t].target
    BY <1>1, <2>1 DEF Call
  <2>3. Become(t, d) /\ th'[t] = d
    BY <1>5, <2>1, Taken DEF Goto
  <2>4. ReturnOK(th[t])'
    BY <1>2, <1>5, <2>2, <2>3 DEF ReturnOK, Building, Lost, Guarded, Preparing
  <2> QED BY <1>3, <1>5, <2>3, <2>4, ReturnsKept
<1>6. CASE WriteArtifact(t)
  <2>1. CASE th[t].target \in tombs /\ Raise(t) /\ faults' = faults
    BY <1>1, <1>3, <2>1, RaisedStep
  <2>2. CASE faults' = faults /\ Goto(t, "recheck")
    BY <1>5, <2>2
  <2>3. CASE faults' = faults /\ Published(t)
    BY <1>1, <1>3, <2>3, EndStep DEF Resting
  <2> QED BY <1>4, <1>6, <2>1, <2>2, <2>3 DEF WriteArtifact
<1>7. CASE RevokeOwn(t)
  <2>1. th[t].target \in tombs' /\ To(t, IF At(t, "undo") THEN "drop" ELSE "forget")
    BY <1>7 DEF RevokeOwn
  <2>2. Fault(t) \/ \E x \in {"drop", "forget"} : Goto(t, x) /\ faults' = faults
    BY <2>1 DEF To, Then, Goto
  <2> QED BY <1>4, <1>5, <2>1, <2>2
<1> QED BY <1>6, <1>7

LEMMA DropReturns ==
  ASSUME IInv, IInv', ReturnInv, NEW t \in Threads, DeleteSnapshot(t)
  PROVE  ReturnInv'
<1>1. /\ th[t].pc \in {"drop", "forget"} /\ rows' = rows \ Row(th[t].target) /\ Become(t, Idle)
      /\ UNCHANGED <<approved, rev, faults, revoked, tombs>>
  BY DEF DeleteSnapshot, workspace, artifacts
<1>2. Lost(th[t].target, 2)
  BY <1>1 DEF ReturnInv, ReturnOK
<1>3. \A id : Row(id) # {} => Row(id)' # {} \/ id = th[t].target
  BY <1>1 DEF Row
<1>4. Grows
  <2>1. \A id : Row(id) # {} => Row(id)' # {} \/ id \in revoked' \cup tombs' \/ faults' >= 2
    BY <1>1, <1>2, <1>3 DEF Lost
  <2> QED BY <1>1, <2>1, Numbers DEF Grows
<1> QED BY <1>1, <1>4, EndStep DEF Resting

LEMMA InvalidateReturns ==
  ASSUME IInv, IInv', ReturnInv, NEW t \in Threads, th[t].pc \in {"changed", "stale"},
         NEW p, NEW next, InvalidateEntry(t, p, next), next \in Call, next.kind = th[t].kind
  PROVE  ReturnInv'
<1> DEFINE r == th[t].of
           gone == {row \in RowsOf(r) : \E u \in row.id[1].cites : u.part = p}
           ids == {row.id : row \in gone}
<1>1. PICK e, set : e = Recover(next) /\ set = revoked \cup ids
  OBVIOUS
<1>2. PICK d : d = [e EXCEPT !.ids = set]
  OBVIOUS
<1>3. /\ rows' = rows \ gone /\ revoked' = set /\ Become(t, d)
      /\ UNCHANGED <<workspace, artifacts, rev, faults>>
  BY <1>1, <1>2 DEF InvalidateEntry
<1>4. e \in Call /\ e.pc = "revoke" /\ e.kind = th[t].kind
  <2>1. revoked \in SUBSET Seq(Contents)
    BY DEF IInv, IdInv, Fits
  <2> QED BY <1>1, <2>1 DEF Recover, Call, Pcs
<1>5. d.pc = "revoke" /\ d.kind # "build"
  <2>1. d.pc = "revoke" /\ d.kind = th[t].kind
    BY <1>2, <1>4 DEF Call
  <2> QED BY <2>1 DEF ReturnInv, ReturnOK, Preparing
<1>6. \A id : Row(id) # {} => Row(id)' # {} \/ id \in revoked'
  <2>1. \A id : Row(id) # {} => Row(id)' # {} \/ id \in ids
    BY <1>3 DEF Row
  <2> HIDE DEF ids
  <2> QED BY <1>1, <1>3, <2>1
<1> HIDE DEF gone, ids
<1>7. Grows
  BY <1>1, <1>3, <1>6, Numbers DEF Grows, workspace, artifacts
<1>8. th'[t] = d
  BY <1>3, Taken
<1>9. ReturnOK(th[t])'
  BY <1>5, <1>8 DEF ReturnOK, Building, Drafting, Publishing, Guarded
<1> QED BY <1>3, <1>7, <1>9, ReturnsKept

LEMMA PrepareReturns ==
  ASSUME IInv, IInv', ReturnInv, NEW t \in Threads,
         InvalidateChanged(t) \/ RetryFailed(t) \/ DropStale(t) \/ PlanEntry(t)
  PROVE  ReturnInv'
<1>1. /\ th[t] \in Call /\ th[t].pc \in {"changed", "retry", "stale", "plan"}
      /\ th[t].kind # "build"
  BY Numbers DEF InvalidateChanged, RetryFailed, DropStale, PlanEntry, At, ReturnInv, ReturnOK,
     Preparing
<1>2. \A set : LET d == [th[t] EXCEPT !.entries = set]
               IN  d \in Call <=> set \in SUBSET Parts
  BY <1>1 DEF Call
<1>3. ASSUME NEW d, Become(t, d), Grows, d.pc \in Preparing, d.kind = th[t].kind
      PROVE  ReturnInv'
  BY <1>1, <1>3, QuietStep DEF Preparing, Guarded
<1>4. CASE InvalidateChanged(t)
  <2>1. PICK p \in th[t].entries : InvalidateEntry(t, p, [th[t] EXCEPT !.entries = @ \ {p}])
    BY <1>4 DEF InvalidateChanged
  <2>2. PICK d : d = [th[t] EXCEPT !.entries = @ \ {p}]
    OBVIOUS
  <2>3. d \in Call /\ d.kind = th[t].kind
    BY <1>1, <2>2 DEF Call
  <2>4. InvalidateEntry(t, p, d) /\ th[t].pc = "changed"
    BY <1>4, <2>1, <2>2 DEF InvalidateChanged, At
  <2> QED BY <2>3, <2>4, InvalidateReturns
<1>5. CASE RetryFailed(t)
  <2>1. Become(t, [th[t] EXCEPT !.pc = "stale", !.of = th[t].rev, !.entries = Parts])
    BY <1>5 DEF RetryFailed
  <2>2. PICK d, n, set : /\ d = [th[t] EXCEPT !.pc = "stale", !.of = n, !.entries = set]
                         /\ n = th[t].rev /\ set = Parts
    OBVIOUS
  <2>3. d.pc = "stale" /\ d.kind = th[t].kind
    BY <1>1, <2>2 DEF Call
  <2>4. Grows
    BY <1>5, Numbers DEF RetryFailed, Grows, Row, workspace, artifacts
  <2>5. Become(t, d)
    BY <2>1, <2>2
  <2> QED BY <1>3, <2>3, <2>4, <2>5 DEF Preparing
<1>6. CASE DropStale(t)
  <2>1. PICK p \in th[t].entries :
           \/ InvalidateEntry(t, p, th[t])
           \/ /\ Become(t, [th[t] EXCEPT !.entries = @ \ {p}])
              /\ UNCHANGED <<workspace, artifacts, rev, rows, revoked, pending, deletion,
                             ops, maps, faults>>
    BY <1>6 DEF DropStale, Local, store
  <2>2. th[t].pc = "stale"
    BY <1>6 DEF DropStale, At
  <2>3. CASE InvalidateEntry(t, p, th[t])
    BY <1>1, <2>2, <2>3, InvalidateReturns
  <2>4. CASE /\ Become(t, [th[t] EXCEPT !.entries = @ \ {p}])
             /\ UNCHANGED <<workspace, artifacts, rev, rows, revoked, pending, deletion,
                            ops, maps, faults>>
    <3>1. PICK d : d = [th[t] EXCEPT !.entries = @ \ {p}]
      OBVIOUS
    <3>2. d.pc = "stale" /\ d.kind = th[t].kind
      BY <1>1, <2>2, <3>1 DEF Call
    <3>3. Grows
      BY <2>4, Numbers DEF Grows, Row, workspace, artifacts
    <3> QED BY <1>3, <2>4, <3>1, <3>2, <3>3 DEF Preparing
  <2> QED BY <2>1, <2>3, <2>4
<1>7. CASE PlanEntry(t)
  <2>1. PICK p \in th[t].entries :
           \/ Raise(t) /\ rev' = rev
           \/ Authorized(t) /\ rev' = th[t].rev /\ Become(t, [th[t] EXCEPT !.entries = @ \ {p}])
    BY <1>7 DEF PlanEntry
  <2>2. th[t].pc = "plan" /\ UNCHANGED <<workspace, artifacts, rows, revoked, faults>>
    BY <1>7 DEF PlanEntry, At
  <2>3. rev <= approved /\ rev \in Nat /\ approved \in Nat
    BY DEF IInv, CoreInv
  <2>4. Grows
    BY <2>1, <2>2, <2>3, Numbers DEF Grows, Row, workspace, artifacts, Authorized
  <2>5. CASE Raise(t)
    BY <2>2, <2>4, <2>5, RaisedStep
  <2>6. CASE Become(t, [th[t] EXCEPT !.entries = @ \ {p}])
    <3>1. PICK d : d = [th[t] EXCEPT !.entries = @ \ {p}]
      OBVIOUS
    <3>2. d.pc = "plan" /\ d.kind = th[t].kind
      BY <1>1, <2>2, <3>1 DEF Call
    <3> QED BY <1>3, <2>4, <2>6, <3>1, <3>2 DEF Preparing
  <2> QED BY <2>1, <2>5, <2>6
<1> QED BY <1>4, <1>5, <1>6, <1>7

LEMMA RestingReturns == \A c : c.pc \in Resting \cup {"begin", "context"} => ReturnOK(c)
BY DEF Resting, ReturnOK, Building, Drafting, Publishing, Guarded, Preparing

(* A deletion, when no other call is under way, and a death of the Worker.  *)
LEMMA AloneReturns ==
  ASSUME IInv, IInv', ReturnInv,
         \/ Die
         \/ \E t \in Threads : \/ DeleteWorkspaceEvidence(t) \/ DeleteArtifacts(t)
                               \/ CompleteDeletion(t)
  PROVE  ReturnInv'
<1> DEFINE first == [Idle EXCEPT !.kind = "delete", !.pc = "files"]
<1>1. Idle.pc = "idle" /\ first.pc = "files" /\ {"idle", "files", "rows"} \subseteq Resting
  BY DeleteCall DEF Idle, Resting
<1> HIDE DEF first
<1>2. SUFFICES \A u \in Threads : th'[u].pc \in Resting
  BY RestingReturns DEF ReturnInv, ReturnOK, Building, Drafting, Publishing, Guarded, Preparing,
     Resting
<1>3. CASE Die
  <2>1. PICK t \in Threads, next \in {Idle, first} : th' = [u \in Threads |-> IF u = t THEN next ELSE Idle]
    BY <1>3 DEF Die, first
  <2> QED BY <1>1, <2>1
<1>4. ASSUME NEW t \in Threads,
             DeleteWorkspaceEvidence(t) \/ DeleteArtifacts(t) \/ CompleteDeletion(t)
      PROVE  \A u \in Threads : th'[u].pc \in Resting
  <2>1. \A u \in Threads \ {t} : th[u].pc = "idle"
    BY <1>4, Known DEF DeleteWorkspaceEvidence, DeleteArtifacts, CompleteDeletion, At, Deleters
  <2>2. PICK d : Become(t, d) /\ d.pc \in Resting
    <3>1. CASE DeleteWorkspaceEvidence(t)
      BY <1>1, <3>1 DEF DeleteWorkspaceEvidence, first
    <3>2. CASE CompleteDeletion(t)
      BY <1>1, <3>2 DEF CompleteDeletion
    <3>3. CASE DeleteArtifacts(t)
      <4>1. th[t].pc = "files" /\ th[t] \in Call /\ To(t, "rows")
        BY <3>3, Known DEF DeleteArtifacts, At
      <4>2. PICK d : d = [th[t] EXCEPT !.pc = "rows"]
        OBVIOUS
      <4>3. d.pc = "rows"
        BY <4>1, <4>2 DEF Call
      <4>4. Raised(t) = Idle
        BY <4>1 DEF Raised
      <4>5. Become(t, d) \/ Become(t, Idle)
        BY <4>1, <4>2, <4>4 DEF To, Then, Fault, Raise
      <4> QED BY <1>1, <4>3, <4>5
    <3> QED BY <1>4, <3>1, <3>2, <3>3
  <2>3. th'[t] = d /\ \A u \in Threads \ {t} : th'[u] = th[u]
    BY <2>2 DEF Become, IInv, LockInv
  <2> QED BY <1>1, <2>1, <2>2, <2>3
<1> QED BY <1>3, <1>4

LEMMA RestReturns ==
  ASSUME IInv, IInv', ReturnInv, Approve \/ Analyse \/ UNCHANGED vars
  PROVE  ReturnInv'
<1> SUFFICES ASSUME NEW u \in Threads
             PROVE  ReturnOK(th[u])'
  BY DEF ReturnInv
<1>1. /\ ReturnOK(th[u]) /\ UNCHANGED <<rev, rows, revoked, tombs, faults, th>>
      /\ approved' = approved \/ guard = NoOne
  BY DEF ReturnInv, Approve, Analyse, vars, workspace, store, artifacts, locks
<1>2. guard = NoOne => th[u].pc \notin Guarded
  BY Known
<1> QED BY <1>1, <1>2 DEF ReturnOK, Building, Lost, Row

LEMMA NextReturns ==
  ASSUME IInv, IInv', ReturnInv, [Next]_vars
  PROVE  ReturnInv'
<1>1. ASSUME NEW t \in Threads, PublishFrontier(t) \/ AnswerFromEvidence(t) \/ PrepareCurrent(t)
      PROVE  ReturnInv'
  <2>1. PICK kind \in Kinds, pc \in {"begin", "context", "previous"} :
           Start(t, kind, pc) /\ (pc = "previous" => kind = "prepare")
    BY <1>1 DEF PublishFrontier, AnswerFromEvidence, PrepareCurrent, Kinds
  <2>2. PICK n : n = approved
    OBVIOUS
  <2>3. PICK d : d = [Idle EXCEPT !.kind = kind, !.pc = pc, !.rev = n]
    OBVIOUS
  <2>4. d.pc = pc /\ d.kind = kind
    BY <2>3, IdleCall DEF Call
  <2>5. Become(t, d) /\ StoresSame /\ faults' = faults
    BY <2>1, <2>2, <2>3 DEF Start, StoresSame
  <2> QED BY <2>1, <2>4, <2>5, LocalGrows, QuietStep DEF Guarded, Preparing
<1>2. ASSUME NEW t \in Threads, Fail(t)
      PROVE  ReturnInv'
  <2>1. Fault(t) /\ th[t].pc # "idle" /\ StoresSame /\ faults' = faults + 1
    BY <1>2 DEF Fail, At, StoresSame, Fault
  <2> QED BY <2>1, LocalGrows, FaultStep
<1>3. ASSUME NEW t \in Threads, Steps(t)
      PROVE  ReturnInv'
  BY <1>3, LocalReturns, DecideReturns, HeldReturns, RevocationReturns, NewMapReturns,
     ArtifactReturns, DropReturns, PrepareReturns, AloneReturns DEF Steps
<1> QED BY <1>1, <1>2, <1>3, AloneReturns, RestReturns DEF Next, Rest

LEMMA ReturnHolds == Spec => [](IInv /\ ReturnInv)
<1>1. Init => ReturnInv
  <2>1. Idle.pc \in Resting
    BY DEF Idle, Resting
  <2> QED BY <2>1, RestingReturns DEF Init, ReturnInv
<1>2. IInv /\ ReturnInv /\ [Next]_vars => IInv' /\ ReturnInv'
  BY NextInv, NextReturns
<1> QED BY InitInv, <1>1, <1>2, PTL DEF Spec

(* A publication that returns a map, a new one or one that existed, leaves  *)
(* it readable, of the approved and current revision, and in the store; if  *)
(* one that existed lost its row on the way, then its revocation is still   *)
(* on record, or both its insertion and the taking back of it had failed    *)
(* (StudyMapBuilder._publish, publish_initial, publish_complete).           *)
THEOREM PublicationsAreReadable == Spec => PublicationReadable
<1>1. ASSUME IInv, ReturnInv, NEW t \in Threads, Returns(t)
      PROVE  LET id == th[t].target
             IN  /\ id \in docs' /\ id[1].rev = rev /\ rev = approved
                 /\ \/ Row(id) # {}
                    \/ th[t].stamp = 0 /\ (id \in pending \/ faults > 1)
  <2> DEFINE id == th[t].target
  <2>1. th[t] \in Call /\ CallOK(th[t]) /\ ReturnOK(th[t]) /\ th[t].pc \in {"write", "recheck"}
    BY <1>1, Known DEF Returns, Recheck, WriteArtifact, At, ReturnInv
  <2>2. rev = approved /\ id[1].rev = rev /\ ~deletion /\ faults \in Nat
    <3>1. th[t].rev = approved /\ th[t].rev <= rev /\ id[1].rev = th[t].rev /\ approved # Gone
      BY <2>1 DEF CallOK, PhaseOK, TargetOK, ReturnOK, Building, Publishing, Guarded, Resting
    <3>2. rev \in Nat /\ approved \in Nat /\ rev <= approved /\ (deletion => approved = Gone)
          /\ faults \in Nat
      BY <1>1 DEF IInv, CoreInv
    <3> QED BY <3>1, <3>2
  <2>3. CASE Recheck(t) /\ th'[t].pc # "withdraw"
    <3>1. rev = th[t].rev /\ Row(id) # {}
      <4> SUFFICES ASSUME Goto(t, "withdraw") PROVE FALSE
        BY <2>3 DEF Recheck
      <4>1. "withdraw" \in Pcs
        BY DEF Pcs, Guarded
      <4>2. th'[t].pc = "withdraw"
        <5>1. [th[t] EXCEPT !.pc = "withdraw"].pc = "withdraw"
          BY <2>1, <4>1, Moved
        <5>2. th'[t] = [th[t] EXCEPT !.pc = "withdraw"]
          BY <1>1 DEF Goto, Become, IInv, LockInv
        <5> QED BY <5>1, <5>2
      <4> QED BY <2>3, <4>2
    <3>2. docs' = docs /\ th[t].pc = "recheck"
      BY <2>3 DEF Recheck, Local, artifacts, At
    <3> QED BY <2>1, <2>2, <3>1, <3>2 DEF CallOK, RevokeOK
  <2>4. CASE WriteArtifact(t) /\ th[t].stamp = 0 /\ id \in docs' /\ faults' = faults
    <3>1. id \notin tombs
      BY <1>1, <2>4 DEF WriteArtifact, IInv, RevocationInv
    <3>2. Row(id) # {} \/ id \in revoked \/ faults >= 2
      BY <2>1, <2>4, <3>1 DEF ReturnOK, Lost, WriteArtifact, At
    <3>3. id \in revoked => id \in pending
      BY <1>1, <2>2, <3>1 DEF IInv, RevocationInv
    <3> QED BY <2>2, <2>4, <3>2, <3>3
  <2> QED BY <1>1, <2>3, <2>4 DEF Returns
<1>2. IInv /\ ReturnInv /\ [Next]_vars
         => [\A t \in Threads : Returns(t) =>
                LET id == th[t].target
                IN  /\ id \in docs' /\ id[1].rev = rev /\ rev = approved
                    /\ \/ Row(id) # {}
                       \/ th[t].stamp = 0 /\ (id \in pending \/ faults > 1)]_vars
  BY <1>1
<1> QED BY ReturnHolds, <1>2, PTL DEF PublicationReadable, Spec

(***************************************************************************)
(* The search for cycles.  Its recursions have solutions, since the path   *)
(* grows with each and is of finitely many nodes, and every solution does  *)
(* what one wants of it, by the least path left that would not.            *)
(***************************************************************************)
LEMMA LeastOf ==
  ASSUME NEW S \in SUBSET Nat, S # {}
  PROVE  \E m \in S : \A k \in S : m <= k
<1>1. PICK m \in S : \A k \in S : ~(<<k, m>> \in OpToRel(<, Nat))
  BY NatLessThanWellFounded, WFMin
<1>2. \A k \in S : m <= k
  <2> SUFFICES ASSUME NEW k \in S, ~(m <= k) PROVE FALSE
    OBVIOUS
  <2>1. k \in Nat /\ m \in Nat /\ k < m
    OBVIOUS
  <2>2. <<k, m>> \in OpToRel(<, Nat)
    BY <2>1 DEF OpToRel
  <2> QED BY <1>1, <2>2
<1> QED BY <1>2

Rows == [Nodes -> [SeenSets -> SeenSets]]
FoldOf(f, base, S) == FoldSet(LAMBDA d, done : f[d][done], base, S)

\* The recursion of a fold over some of the nodes.
FoldStep(f, base, g, s) == IF s = {} THEN base
                           ELSE LET x == CHOOSE y \in s : TRUE IN f[x][g[s \ {x}]]
FoldsTo(f, base, S, g) == g = [s \in SUBSET S |-> FoldStep(f, base, g, s)]

LEMMA FoldIs ==
  ASSUME NEW f, NEW base, NEW S
  PROVE  FoldOf(f, base, S) = (CHOOSE g : FoldsTo(f, base, S, g))[S]
BY DEF FoldOf, FoldSet, MapThenFoldSet, FoldsTo, FoldStep

LEMMA FoldStepTyped ==
  ASSUME NEW f \in Rows, NEW base \in SeenSets, NEW S \in SUBSET Nodes,
         NEW g \in [SUBSET S -> SeenSets], NEW s \in SUBSET S
  PROVE  FoldStep(f, base, g, s) \in SeenSets
<1>1. CASE s = {}
  BY <1>1 DEF FoldStep
<1>2. CASE s # {}
  <2> DEFINE x == CHOOSE y \in s : TRUE
  <2>1. x \in s
    BY <1>2
  <2> HIDE DEF x
  <2>2. f[x] \in [SeenSets -> SeenSets] /\ g[s \ {x}] \in SeenSets
    BY <2>1 DEF Rows
  <2>3. FoldStep(f, base, g, s) = f[x][g[s \ {x}]]
    BY <1>2 DEF FoldStep, x
  <2> QED BY <2>2, <2>3
<1> QED BY <1>1, <1>2

LEMMA FoldExists ==
  ASSUME NEW f \in Rows, NEW base \in SeenSets, NEW S \in SUBSET Nodes
  PROVE  \E g \in [SUBSET S -> SeenSets] : FoldsTo(f, base, S, g)
<1>1. IsFiniteSet(S) /\ \A s \in SUBSET S : IsFiniteSet(s) /\ Cardinality(s) \in Nat
  BY StudyMapAssumption, FS_Subset, FS_CardinalityType
<1> DEFINE Some(k) == \E g \in [SUBSET S -> SeenSets] : \A s \in SUBSET S :
                         Cardinality(s) <= k => g[s] = FoldStep(f, base, g, s)
           Bad == {k \in Nat : ~Some(k)}
<1>2. Some(0)
  <2> DEFINE g == [s \in SUBSET S |-> base]
  <2>1. ASSUME NEW s \in SUBSET S, Cardinality(s) <= 0 PROVE g[s] = FoldStep(f, base, g, s)
    <3>1. s = {}
      BY <1>1, <2>1, FS_EmptySet
    <3> QED BY <3>1 DEF FoldStep
  <2>2. g \in [SUBSET S -> SeenSets]
    OBVIOUS
  <2> HIDE DEF g
  <2> QED BY <2>1, <2>2
<1>3. ASSUME NEW k \in Nat, Some(k) PROVE Some(k + 1)
  <2>1. PICK g \in [SUBSET S -> SeenSets] : \A s \in SUBSET S :
               Cardinality(s) <= k => g[s] = FoldStep(f, base, g, s)
    BY <1>3
  <2> DEFINE h == [s \in SUBSET S |-> FoldStep(f, base, g, s)]
  <2>2. h \in [SUBSET S -> SeenSets]
    BY FoldStepTyped
  <2>3. ASSUME NEW s \in SUBSET S, Cardinality(s) <= k + 1 PROVE h[s] = FoldStep(f, base, h, s)
    <3>1. CASE s = {}
      BY <3>1 DEF FoldStep
    <3>2. CASE s # {}
      <4> DEFINE x == CHOOSE y \in s : TRUE
      <4>1. x \in s
        BY <3>2
      <4> HIDE DEF x
      <4>2. s \ {x} \in SUBSET S /\ Cardinality(s \ {x}) <= k
        <5>1. IsFiniteSet(s) /\ Cardinality(s) \in Nat
          BY <1>1
        <5>2. Cardinality(s \ {x}) = Cardinality(s) - 1
          BY <4>1, <5>1, FS_RemoveElement
        <5> QED BY <2>3, <5>1, <5>2
      <4>3. g[s \ {x}] = FoldStep(f, base, g, s \ {x}) /\ h[s \ {x}] = FoldStep(f, base, g, s \ {x})
        BY <2>1, <4>2
      <4>4. h[s] = FoldStep(f, base, g, s)
        OBVIOUS
      <4> HIDE DEF h
      <4> QED BY <3>2, <4>3, <4>4 DEF FoldStep, x
    <3> QED BY <3>1, <3>2
  <2> HIDE DEF h
  <2> QED BY <2>2, <2>3
<1> HIDE DEF Some
<1>4. Bad = {}
  <2> SUFFICES ASSUME Bad # {} PROVE FALSE
    OBVIOUS
  <2>1. PICK k \in Bad : \A j \in Bad : k <= j
    BY LeastOf
  <2>2. k \in Nat /\ k # 0 /\ ~Some(k)
    BY <1>2
  <2>3. k - 1 \in Nat /\ k - 1 \notin Bad
    BY <2>1, <2>2
  <2>4. Some((k - 1) + 1)
    BY <1>3, <2>3
  <2> QED BY <2>2, <2>4
<1>5. PICK g \in [SUBSET S -> SeenSets] : \A s \in SUBSET S :
             Cardinality(s) <= Cardinality(S) => g[s] = FoldStep(f, base, g, s)
  <2>1. Some(Cardinality(S))
    BY <1>1, <1>4
  <2> QED BY <2>1 DEF Some
<1>6. \A s \in SUBSET S : g[s] = FoldStep(f, base, g, s)
  BY <1>1, <1>5, FS_Subset
<1>7. g = [s \in SUBSET S |-> FoldStep(f, base, g, s)]
  BY <1>6
<1> QED BY <1>7 DEF FoldsTo

\* What a fold computes, one node after the other.
OneByOne(f, base, S, g) ==
    /\ g \in [SUBSET S -> SeenSets] /\ g[{}] = base
    /\ \A s \in (SUBSET S) \ {{}} : \E x \in s : g[s] = f[x][g[s \ {x}]]

LEMMA FoldSolves ==
  ASSUME NEW f \in Rows, NEW base \in SeenSets, NEW S \in SUBSET Nodes
  PROVE  \E g : OneByOne(f, base, S, g) /\ FoldOf(f, base, S) = g[S]
<1> DEFINE g == CHOOSE g : FoldsTo(f, base, S, g)
<1>1. FoldsTo(f, base, S, g)
  BY FoldExists
<1>2. FoldOf(f, base, S) = g[S]
  BY FoldIs
<1> HIDE DEF g
<1>3. g = [s \in SUBSET S |-> FoldStep(f, base, g, s)]
  BY <1>1 DEF FoldsTo
<1>4. \A s \in SUBSET S : g[s] = FoldStep(f, base, g, s)
  BY <1>3
<1>5. g[{}] = base
  BY <1>4 DEF FoldStep
<1>6. \A s \in (SUBSET S) \ {{}} : \E x \in s : g[s] = f[x][g[s \ {x}]]
  <2> SUFFICES ASSUME NEW s \in (SUBSET S) \ {{}} PROVE \E x \in s : g[s] = f[x][g[s \ {x}]]
    OBVIOUS
  <2> DEFINE x == CHOOSE y \in s : TRUE
  <2>1. x \in s
    OBVIOUS
  <2>2. g[s] = f[x][g[s \ {x}]]
    BY <1>4 DEF FoldStep
  <2> HIDE DEF x
  <2> QED BY <2>1, <2>2
<1>7. \A s \in SUBSET S : g[s] \in SeenSets
  <2> DEFINE Bad == {s \in SUBSET S : g[s] \notin SeenSets}
  <2>1. IsWellFoundedOn(StrictSubsetOrdering(S), SUBSET S)
    <3>1. IsFiniteSet(S)
      BY StudyMapAssumption, FS_Subset
    <3> QED BY <3>1, FS_StrictSubsetOrderingWellFounded, FS_FiniteSubsetsOfFinite
  <2>2. ASSUME Bad # {} PROVE FALSE
    <3>1. PICK s \in Bad : \A t \in Bad : ~(<<t, s>> \in StrictSubsetOrdering(S))
      <4>1. Bad \subseteq SUBSET S
        OBVIOUS
      <4> HIDE DEF Bad
      <4> QED BY <2>1, <2>2, <4>1, WFMin
    <3>2. s # {}
      BY <1>5
    <3>3. PICK x \in s : g[s] = f[x][g[s \ {x}]]
      BY <1>6, <3>2
    <3>4. s \ {x} \notin Bad
      <4>1. <<s \ {x}, s>> \in StrictSubsetOrdering(S)
        BY DEF StrictSubsetOrdering
      <4> HIDE DEF Bad
      <4> QED BY <3>1, <4>1
    <3>5. g[s \ {x}] \in SeenSets /\ f[x] \in [SeenSets -> SeenSets]
      BY <3>4 DEF Rows
    <3> QED BY <3>3, <3>5
  <2> QED BY <2>2
<1>8. g \in [SUBSET S -> SeenSets]
  BY <1>3, <1>7
<1>9. OneByOne(f, base, S, g)
  BY <1>5, <1>6, <1>8 DEF OneByOne
<1> QED BY <1>2, <1>9

LEMMA FoldTyped ==
  ASSUME NEW f \in Rows, NEW base \in SeenSets, NEW S \in SUBSET Nodes
  PROVE  FoldOf(f, base, S) \in SeenSets
<1>1. PICK g : OneByOne(f, base, S, g) /\ FoldOf(f, base, S) = g[S]
  BY FoldSolves
<1> QED BY <1>1 DEF OneByOne

(***************************************************************************)
(* The recursion over paths.                                               *)
(***************************************************************************)
VisitRow(graph, v, path, n) == [seen \in SeenSets |->
    IF n \in path THEN seen \cup {NoOne}
    ELSE IF n \in seen \/ NoOne \in seen THEN seen
    ELSE {n} \cup FoldOf(v[path \cup {n}], seen, graph[n])]
VisitStep(graph, v, path) == [n \in Nodes |-> VisitRow(graph, v, path, n)]
Visits(graph, v) == v = [path \in SUBSET Nodes |-> VisitStep(graph, v, path)]

LEMMA RejectsIs ==
  ASSUME NEW graph
  PROVE  RejectsCycle(graph) <=>
           NoOne \in FoldOf((CHOOSE v : Visits(graph, v))[{}], {}, Nodes)
BY DEF RejectsCycle, Visits, VisitStep, VisitRow, FoldOf

LEMMA VisitStepTyped ==
  ASSUME NEW graph \in Graphs, NEW v, NEW path \in SUBSET Nodes,
         \A n \in Nodes \ path : v[path \cup {n}] \in Rows
  PROVE  VisitStep(graph, v, path) \in Rows
<1>1. ASSUME NEW n \in Nodes \ path, NEW seen \in SeenSets
      PROVE  {n} \cup FoldOf(v[path \cup {n}], seen, graph[n]) \in SeenSets
  <2>1. v[path \cup {n}] \in Rows /\ graph[n] \in SUBSET Nodes
    BY DEF Graphs
  <2>2. FoldOf(v[path \cup {n}], seen, graph[n]) \in SeenSets
    BY <2>1, FoldTyped
  <2> QED BY <2>2 DEF SeenSets
<1>2. \A seen \in SeenSets : seen \cup {NoOne} \in SeenSets
  BY DEF SeenSets
<1>3. ASSUME NEW n \in Nodes, NEW seen \in SeenSets
      PROVE  (IF n \in path THEN seen \cup {NoOne}
              ELSE IF n \in seen \/ NoOne \in seen THEN seen
              ELSE {n} \cup FoldOf(v[path \cup {n}], seen, graph[n])) \in SeenSets
  BY <1>1, <1>2
<1> QED BY <1>3 DEF VisitStep, VisitRow, Rows

\* What is left of the nodes when one more is on the path.
LEMMA LessLeft ==
  ASSUME NEW path \in SUBSET Nodes, NEW n \in Nodes, n \notin path
  PROVE  /\ Cardinality(Nodes \ path) \in Nat /\ Cardinality(Nodes \ (path \cup {n})) \in Nat
         /\ Cardinality(Nodes \ (path \cup {n})) = Cardinality(Nodes \ path) - 1
<1>1. IsFiniteSet(Nodes \ path) /\ n \in Nodes \ path
  BY StudyMapAssumption, FS_Subset
<1>2. Nodes \ (path \cup {n}) = (Nodes \ path) \ {n}
  OBVIOUS
<1>3. /\ IsFiniteSet((Nodes \ path) \ {n})
      /\ Cardinality((Nodes \ path) \ {n}) = Cardinality(Nodes \ path) - 1
  BY <1>1, FS_RemoveElement
<1> QED BY <1>1, <1>2, <1>3, FS_CardinalityType

LEMMA VisitExists ==
  ASSUME NEW graph \in Graphs
  PROVE  \E v \in [SUBSET Nodes -> Rows] : Visits(graph, v)
<1> DEFINE Left(path) == Cardinality(Nodes \ path)
           Some(k) == \E v \in [SUBSET Nodes -> Rows] : \A path \in SUBSET Nodes :
                         Left(path) <= k => v[path] = VisitStep(graph, v, path)
           Bad == {k \in Nat : ~Some(k)}
<1>1. \A path \in SUBSET Nodes : Left(path) \in Nat /\ IsFiniteSet(Nodes \ path)
  BY StudyMapAssumption, FS_Subset, FS_CardinalityType
<1>2. \A path \in SUBSET Nodes : Left(path) <= Cardinality(Nodes)
  BY StudyMapAssumption, FS_Subset
<1>3. Some(0)
  <2> DEFINE row == [n \in Nodes |-> [seen \in SeenSets |-> seen \cup {NoOne}]]
             v == [path \in SUBSET Nodes |-> row]
  <2>1. row \in Rows
    BY DEF Rows, SeenSets
  <2>2. v \in [SUBSET Nodes -> Rows]
    <3> HIDE DEF row
    <3> QED BY <2>1
  <2>3. ASSUME NEW path \in SUBSET Nodes, Left(path) <= 0 PROVE v[path] = VisitStep(graph, v, path)
    <3>1. Nodes \ path = {}
      BY <1>1, <2>3, FS_EmptySet
    <3>2. \A n \in Nodes : n \in path
      BY <3>1
    <3>3. VisitStep(graph, v, path) = row
      <4> HIDE DEF v
      <4> QED BY <3>2, SMTT(30) DEF VisitStep, VisitRow
    <3> QED BY <3>3
  <2> HIDE DEF v
  <2> QED BY <2>2, <2>3
<1>4. ASSUME NEW k \in Nat, Some(k) PROVE Some(k + 1)
  <2>1. PICK v \in [SUBSET Nodes -> Rows] : \A path \in SUBSET Nodes :
               Left(path) <= k => v[path] = VisitStep(graph, v, path)
    BY <1>4
  <2> DEFINE w == [path \in SUBSET Nodes |-> VisitStep(graph, v, path)]
  <2>2. w \in [SUBSET Nodes -> Rows]
    BY VisitStepTyped
  <2>3. ASSUME NEW path \in SUBSET Nodes, Left(path) <= k + 1
        PROVE  w[path] = VisitStep(graph, w, path)
    <3>1. ASSUME NEW n \in Nodes, n \notin path PROVE w[path \cup {n}] = v[path \cup {n}]
      <4>1. path \cup {n} \in SUBSET Nodes /\ Left(path \cup {n}) <= k
        BY <1>1, <2>3, <3>1, LessLeft
      <4> QED BY <2>1, <4>1
    <3>2. w[path] = VisitStep(graph, v, path)
      OBVIOUS
    <3> HIDE DEF w
    <3>3. ASSUME NEW n \in Nodes PROVE VisitRow(graph, v, path, n) = VisitRow(graph, w, path, n)
      <4>1. CASE n \in path
        BY <4>1 DEF VisitRow
      <4>2. CASE n \notin path
        <5>1. w[path \cup {n}] = v[path \cup {n}]
          BY <3>1, <4>2
        <5> QED BY <5>1 DEF VisitRow
      <4> QED BY <4>1, <4>2
    <3>4. VisitStep(graph, v, path) = VisitStep(graph, w, path)
      BY <3>3 DEF VisitStep
    <3> QED BY <3>2, <3>4
  <2> HIDE DEF w
  <2> QED BY <2>2, <2>3
<1> HIDE DEF Some
<1>5. Bad = {}
  <2> SUFFICES ASSUME Bad # {} PROVE FALSE
    OBVIOUS
  <2>1. PICK k \in Bad : \A j \in Bad : k <= j
    BY LeastOf
  <2>2. k \in Nat /\ k # 0 /\ ~Some(k)
    BY <1>3
  <2>3. k - 1 \in Nat /\ k - 1 \notin Bad
    BY <2>1, <2>2
  <2>4. Some((k - 1) + 1)
    BY <1>4, <2>3
  <2> QED BY <2>2, <2>4
<1>6. PICK v \in [SUBSET Nodes -> Rows] : \A path \in SUBSET Nodes :
             Left(path) <= Cardinality(Nodes) => v[path] = VisitStep(graph, v, path)
  <2>1. Some(Cardinality(Nodes))
    BY <1>5, StudyMapAssumption, FS_CardinalityType
  <2> QED BY <2>1 DEF Some
<1>7. v = [path \in SUBSET Nodes |-> VisitStep(graph, v, path)]
  BY <1>2, <1>6
<1> QED BY <1>7 DEF Visits

(***************************************************************************)
(* What a visit finds.  Visited nodes are closed under dependency, and no  *)
(* set of them depends on itself in a circle; the nodes on the path have a *)
(* successor each that is on the path too, or is the node to be visited.   *)
(***************************************************************************)
Settled(graph, X) == /\ X \subseteq Nodes /\ \A m \in X : graph[m] \subseteq X
                     /\ \A S \in (SUBSET X) \ {{}} : \E m \in S : graph[m] \cap S = {}
Chain(graph, path, n) == \A m \in path : graph[m] \cap (path \cup {n}) # {}

Finds(graph, seen, found, result) ==
    /\ seen \subseteq result
    /\ NoOne \notin result /\ Settled(graph, seen) => Settled(graph, result) /\ found \subseteq result
    /\ NoOne \in result => NoOne \in seen \/ ~Acyclic(graph)

LEMMA FoldFinds ==
  ASSUME NEW graph \in Graphs, NEW f \in Rows, NEW base \in SeenSets, NEW S \in SUBSET Nodes,
         \A d \in S : \A seen \in SeenSets : Finds(graph, seen, {d}, f[d][seen])
  PROVE  Finds(graph, base, S, FoldOf(f, base, S))
<1>1. PICK g : OneByOne(f, base, S, g) /\ FoldOf(f, base, S) = g[S]
  BY FoldSolves
<1>a. /\ g \in [SUBSET S -> SeenSets] /\ g[{}] = base
      /\ \A s \in (SUBSET S) \ {{}} : \E x \in s : g[s] = f[x][g[s \ {x}]]
  BY <1>1 DEF OneByOne
<1> DEFINE Bad == {s \in SUBSET S : ~Finds(graph, base, s, g[s])}
<1>2. IsWellFoundedOn(StrictSubsetOrdering(S), SUBSET S)
  <2>1. IsFiniteSet(S)
    BY StudyMapAssumption, FS_Subset
  <2> QED BY <2>1, FS_StrictSubsetOrderingWellFounded, FS_FiniteSubsetsOfFinite
<1>3. ASSUME Bad # {} PROVE FALSE
  <2>1. PICK s \in Bad : \A t \in Bad : ~(<<t, s>> \in StrictSubsetOrdering(S))
    <3>1. Bad \subseteq SUBSET S
      OBVIOUS
    <3> HIDE DEF Bad
    <3> QED BY <1>2, <1>3, <3>1, WFMin
  <2>2. s \in SUBSET S /\ ~Finds(graph, base, s, g[s])
    OBVIOUS
  <2>3. s # {}
    BY <1>a, <2>2 DEF Finds
  <2>4. PICK x \in s : g[s] = f[x][g[s \ {x}]]
    BY <1>a, <2>2, <2>3
  <2>5. Finds(graph, base, s \ {x}, g[s \ {x}])
    <3>1. <<s \ {x}, s>> \in StrictSubsetOrdering(S)
      BY <2>2 DEF StrictSubsetOrdering
    <3>2. s \ {x} \notin Bad /\ s \ {x} \in SUBSET S
      <4> HIDE DEF Bad
      <4> QED BY <2>1, <2>2, <3>1
    <3> QED BY <3>2
  <2>6. Finds(graph, g[s \ {x}], {x}, g[s])
    <3>1. x \in S /\ g[s \ {x}] \in SeenSets
      BY <1>a, <2>2
    <3> QED BY <2>4, <3>1
  <2>7. Finds(graph, base, s, g[s])
    <3> HIDE DEF Bad
    <3>1. base \subseteq g[s \ {x}] /\ g[s \ {x}] \subseteq g[s]
      BY <2>5, <2>6 DEF Finds
    <3>2. ASSUME NoOne \notin g[s], Settled(graph, base)
          PROVE  Settled(graph, g[s]) /\ s \subseteq g[s]
      <4>1. Settled(graph, g[s \ {x}]) /\ s \ {x} \subseteq g[s \ {x}]
        BY <2>5, <3>1, <3>2 DEF Finds
      <4>2. Settled(graph, g[s]) /\ {x} \subseteq g[s]
        BY <2>6, <3>2, <4>1 DEF Finds
      <4> QED BY <3>1, <4>1, <4>2
    <3>3. NoOne \in g[s] => NoOne \in base \/ ~Acyclic(graph)
      BY <2>5, <2>6 DEF Finds
    <3> QED BY <3>1, <3>2, <3>3 DEF Finds
  <2> QED BY <2>2, <2>7
<1>4. S \notin Bad /\ S \in SUBSET S
  BY <1>3
<1> QED BY <1>1, <1>4

\* A node whose successors are settled, and which is none of them, settles too.
LEMMA OneMoreSettled ==
  ASSUME NEW graph \in Graphs, NEW X, Settled(graph, X), NEW n \in Nodes, graph[n] \subseteq X
  PROVE  Settled(graph, {n} \cup X)
<1>1. {n} \cup X \subseteq Nodes /\ \A m \in {n} \cup X : graph[m] \subseteq {n} \cup X
  BY DEF Settled
<1>2. ASSUME NEW S \in (SUBSET ({n} \cup X)) \ {{}} PROVE \E m \in S : graph[m] \cap S = {}
  <2>1. CASE S \cap X # {}
    <3>1. S \cap X \in (SUBSET X) \ {{}}
      BY <2>1
    <3>2. PICK m \in S \cap X : graph[m] \cap (S \cap X) = {}
      BY <3>1 DEF Settled
    <3>3. graph[m] \subseteq X
      BY <3>2 DEF Settled
    <3> QED BY <3>2, <3>3
  <2>2. CASE S \cap X = {}
    <3>1. n \in S /\ graph[n] \cap S = {}
      BY <2>2
    <3> QED BY <3>1
  <2> QED BY <2>1, <2>2
<1> QED BY <1>1, <1>2 DEF Settled

PathFinds(graph, v, path) ==
    \A n \in Nodes : \A seen \in SeenSets :
        Chain(graph, path, n) => Finds(graph, seen, {n}, v[path][n][seen])

LEMMA VisitFinds ==
  ASSUME NEW graph \in Graphs, NEW v \in [SUBSET Nodes -> Rows], Visits(graph, v),
         NEW path \in SUBSET Nodes,
         \A n \in Nodes \ path : PathFinds(graph, v, path \cup {n})
  PROVE  PathFinds(graph, v, path)
<1> SUFFICES ASSUME NEW n \in Nodes, NEW seen \in SeenSets, Chain(graph, path, n)
             PROVE  Finds(graph, seen, {n}, v[path][n][seen])
  BY DEF PathFinds
<1> DEFINE r == v[path][n][seen]
           q == path \cup {n}
           done == FoldOf(v[q], seen, graph[n])
<1>1. r = IF n \in path THEN seen \cup {NoOne}
          ELSE IF n \in seen \/ NoOne \in seen THEN seen ELSE {n} \cup done
  <2>1. v[path] = VisitStep(graph, v, path)
    BY DEF Visits
  <2> QED BY <2>1 DEF VisitStep, VisitRow
<1> HIDE DEF r
<1>2. CASE n \in path
  <2>1. ~Acyclic(graph)
    <3>1. path \in (SUBSET Nodes) \ {{}} /\ path \cup {n} = path
      BY <1>2
    <3>2. \A m \in path : graph[m] \cap path # {}
      BY <3>1 DEF Chain
    <3> QED BY <3>1, <3>2 DEF Acyclic
  <2> QED BY <1>1, <1>2, <2>1 DEF Finds, r
<1>3. CASE n \notin path /\ (n \in seen \/ NoOne \in seen)
  BY <1>1, <1>3 DEF Finds, r
<1>4. CASE n \notin path /\ ~(n \in seen \/ NoOne \in seen)
  <2>1. q \in SUBSET Nodes /\ v[q] \in Rows /\ graph[n] \in SUBSET Nodes
    BY DEF Graphs
  <2>2. ASSUME NEW d \in graph[n], NEW s \in SeenSets PROVE Finds(graph, s, {d}, v[q][d][s])
    <3>1. Chain(graph, q, d)
      BY DEF Chain
    <3>2. PathFinds(graph, v, q) /\ d \in Nodes
      BY <1>4, <2>1
    <3> HIDE DEF q
    <3> QED BY <3>1, <3>2 DEF PathFinds
  <2>3. Finds(graph, seen, graph[n], done)
    <3> HIDE DEF q
    <3> QED BY <2>1, <2>2, FoldFinds
  <2> HIDE DEF done
  <2>4. r = {n} \cup done /\ n # NoOne
    BY <1>1, <1>4, StudyMapAssumption
  <2>5. ASSUME NoOne \notin r, Settled(graph, seen) PROVE Settled(graph, r) /\ {n} \subseteq r
    <3>1. Settled(graph, done) /\ graph[n] \subseteq done
      BY <2>3, <2>4, <2>5 DEF Finds
    <3> QED BY <2>4, <3>1, OneMoreSettled
  <2> QED BY <2>3, <2>4, <2>5 DEF Finds, r
<1> QED BY <1>2, <1>3, <1>4

LEMMA AllFind ==
  ASSUME NEW graph \in Graphs, NEW v \in [SUBSET Nodes -> Rows], Visits(graph, v)
  PROVE  PathFinds(graph, v, {})
<1> DEFINE Left(path) == Cardinality(Nodes \ path)
           Wrong == {path \in SUBSET Nodes : ~PathFinds(graph, v, path)}
           Bad == {Left(path) : path \in Wrong}
<1>1. ASSUME Wrong # {} PROVE FALSE
  <2>1. Bad \in SUBSET Nat /\ Bad # {}
    <3>1. \A path \in SUBSET Nodes : Left(path) \in Nat
      BY StudyMapAssumption, FS_Subset, FS_CardinalityType
    <3> HIDE DEF Left
    <3> QED BY <1>1, <3>1
  <2>2. PICK k \in Bad : \A j \in Bad : k <= j
    <3> HIDE DEF Bad
    <3> QED BY <2>1, LeastOf
  <2>3. PICK path \in Wrong : k = Left(path)
    OBVIOUS
  <2>4. \A n \in Nodes \ path : PathFinds(graph, v, path \cup {n})
    <3> SUFFICES ASSUME NEW n \in Nodes \ path, ~PathFinds(graph, v, path \cup {n}) PROVE FALSE
      OBVIOUS
    <3>1. Left(path \cup {n}) \in Bad
      OBVIOUS
    <3>2. Left(path) <= Left(path \cup {n})
      BY <2>2, <2>3, <3>1
    <3>3. Left(path) \in Nat /\ Left(path \cup {n}) = Left(path) - 1
      BY LessLeft
    <3> QED BY <3>2, <3>3
  <2> QED BY <2>4, VisitFinds
<1>2. {} \in SUBSET Nodes
  OBVIOUS
<1> QED BY <1>1, <1>2

\* Every solution has the types that the search needs.
LEMMA VisitsTyped ==
  ASSUME NEW graph \in Graphs, NEW v, Visits(graph, v)
  PROVE  v \in [SUBSET Nodes -> Rows]
<1> DEFINE Left(path) == Cardinality(Nodes \ path)
           Wrong == {path \in SUBSET Nodes : v[path] \notin Rows}
           Bad == {Left(path) : path \in Wrong}
<1>1. ASSUME Wrong # {} PROVE FALSE
  <2>1. Bad \in SUBSET Nat /\ Bad # {}
    <3>1. \A path \in SUBSET Nodes : Left(path) \in Nat
      BY StudyMapAssumption, FS_Subset, FS_CardinalityType
    <3> HIDE DEF Left
    <3> QED BY <1>1, <3>1
  <2>2. PICK k \in Bad : \A j \in Bad : k <= j
    <3> HIDE DEF Bad
    <3> QED BY <2>1, LeastOf
  <2>3. PICK path \in Wrong : k = Left(path)
    OBVIOUS
  <2>4. \A n \in Nodes \ path : v[path \cup {n}] \in Rows
    <3> SUFFICES ASSUME NEW n \in Nodes \ path, v[path \cup {n}] \notin Rows PROVE FALSE
      OBVIOUS
    <3>1. Left(path \cup {n}) \in Bad
      OBVIOUS
    <3>2. Left(path) <= Left(path \cup {n})
      BY <2>2, <2>3, <3>1
    <3>3. Left(path) \in Nat /\ Left(path \cup {n}) = Left(path) - 1
      BY LessLeft
    <3> QED BY <3>2, <3>3
  <2>5. v[path] = VisitStep(graph, v, path)
    BY DEF Visits
  <2> QED BY <2>4, <2>5, VisitStepTyped
<1>2. v = [path \in SUBSET Nodes |-> VisitStep(graph, v, path)]
  BY DEF Visits
<1> QED BY <1>1, <1>2

LEMMA RejectsExactly ==
  ASSUME NEW graph \in Graphs
  PROVE  RejectsCycle(graph) <=> ~Acyclic(graph)
<1> DEFINE v == CHOOSE v : Visits(graph, v)
           r == FoldOf(v[{}], {}, Nodes)
<1>1. Visits(graph, v)
  BY VisitExists
<1>2. RejectsCycle(graph) <=> NoOne \in r
  BY RejectsIs
<1> HIDE DEF v
<1>3. v \in [SUBSET Nodes -> Rows]
  BY <1>1, VisitsTyped
<1>4. Finds(graph, {}, Nodes, r)
  <2>1. \A d \in Nodes : Chain(graph, {}, d)
    BY DEF Chain
  <2>2. PathFinds(graph, v, {})
    BY <1>1, <1>3, AllFind
  <2>3. \A d \in Nodes : \A seen \in SeenSets : Finds(graph, seen, {d}, v[{}][d][seen])
    BY <2>1, <2>2 DEF PathFinds
  <2>4. v[{}] \in Rows /\ {} \in SeenSets
    BY <1>3 DEF SeenSets
  <2> QED BY <2>3, <2>4, FoldFinds
<1> HIDE DEF r
<1>5. CASE NoOne \in r
  BY <1>2, <1>4, <1>5 DEF Finds
<1>6. CASE NoOne \notin r
  <2>1. Settled(graph, {})
    BY DEF Settled
  <2>2. Settled(graph, r) /\ Nodes \subseteq r
    BY <1>4, <1>6, <2>1 DEF Finds
  <2>3. r = Nodes
    BY <2>2 DEF Settled
  <2>4. Acyclic(graph)
    BY <2>2, <2>3 DEF Settled, Acyclic
  <2> QED BY <1>2, <1>6, <2>4
<1> QED BY <1>5, <1>6

(* A study map is refused for a cycle exactly when some of its nodes do     *)
(* depend on each other in a circle, whatever its nodes and dependencies    *)
(* (_reject_graph_cycle).                                     *)
THEOREM CyclesAreRefused == Spec => []CyclesRefused
<1>1. CyclesRefused
  BY RejectsExactly DEF CyclesRefused
<1> QED BY <1>1, PTL
=============================================================================
