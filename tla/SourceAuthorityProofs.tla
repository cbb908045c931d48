----------------------- MODULE SourceAuthorityProofs -----------------------
(***************************************************************************)
(* Theorems of SourceAuthority for any files, contents and callers and any *)
(* number of calls, of changes of the folder and of failures; and that the *)
(* parts of a source make it up, for any source and any bounds on parts.   *)
(***************************************************************************)
EXTENDS SourceAuthority, TLAPS, FiniteSetTheorems, SequenceTheorems, WellFoundedInduction

(***************************************************************************)
(* The inductive invariant.  The types first, with an unbounded number of  *)
(* revisions and approvals.                                                *)
(***************************************************************************)
EntryType == [state : SourceStates, included : BOOLEAN, user : BOOLEAN,
              hash : Contents \cup {Unknown}, stamp : Stamps]
Drafts == [id : Nat, entries : Manifest]
Loops  == [pc : {"wait", "begin", "scan", "finish"}, previous : Manifest,
           todo : SUBSET Entries, scanned : Manifest]
PartLists == {Refused} \cup {Prepared(d) : d \in Contents \cup {Unknown}}
Calls  == [pc : {"idle", "include", "validate", "sender", "authorize", "open", "prepare", "planned"},
           rev : Nat, entries : Manifest, todo : SUBSET Entries, bad : SUBSET Entries,
           read : SUBSET (Entries \X (Contents \cup {Unknown})), choice : BOOLEAN,
           approval : Nat, bytes : Contents \cup {Unknown}, parts : PartLists]

TypeInv ==
    /\ file \in [Entries -> Files] /\ sameRoot \in BOOLEAN /\ state \in WorkspaceStates
    /\ draft \in Drafts /\ approved \in Drafts /\ approved.id <= draft.id
    /\ approval.id \in Nat
    /\ job \in [id : Nat, status : Statuses] /\ queued \in BOOLEAN /\ active \in BOOLEAN
    /\ activeJob \in {0, job.id} /\ holder \in Threads \cup {NoOne}
    /\ loop \in Loops /\ th \in [Threads -> Calls] /\ writes \in 0 .. MaxWrites

\* In a manifest, what counts as approved was read with its content.  A scan
\* copies it from the draft it began with to the one it commits.
Trusted(m) == \A e \in Entries :
    m[e].state = "approved" => m[e].hash # Unknown /\ <<e, m[e].hash>> \in seen

TrustInv ==
    /\ Trusted(draft.entries) /\ Trusted(approved.entries)
    /\ Trusted(loop.previous) /\ Trusted(loop.scanned)

ApprovalInv ==
    state = "approved" =>
        /\ draft = approved /\ DOMAIN approval.hashes = Included(approved.entries)
        /\ \A e \in Included(approved.entries) :
              approved.entries[e].state = "approved" /\ approved.entries[e].hash = approval.hashes[e]

JobInv == job.status = "running" <=> loop.pc \in {"begin", "scan"}

\* The authority lock is held from the check of the approval to the end.
Granted == {"authorize", "open", "prepare", "planned"}
HolderInv == \A t \in Threads : holder = t <=> th[t].pc \in Granted

\* A call that edits the draft knows it as it was; if no other was written
\* since, hashes and inclusion still agree, though a rescan may have begun.  An
\* approval has read, or doubted, what it is done with.
EditOK(c) ==
    /\ c.pc \in {"include", "validate"} =>
          /\ c.rev <= draft.id
          /\ c.rev = draft.id => \A e \in Entries :
                /\ c.entries[e].hash = draft.entries[e].hash
                /\ c.entries[e].included = draft.entries[e].included
    /\ c.pc = "validate" /\ c.choice =>
          \A e \in Included(c.entries) :
             e \in c.todo \cup c.bad \/ <<e, c.entries[e].hash>> \in c.read

\* A call that sends a source: the approval it asked about is the one in force
\* when it holds the lock, and stays so; what it has read is what was approved.
GrantOK(c) ==
    /\ c.pc = "sender" =>
          /\ c.approval <= approval.id
          /\ \E e \in Entries : c.todo = {e}
          /\ c.approval = approval.id => c.todo \subseteq DOMAIN approval.hashes
    /\ c.pc \in Granted =>
          /\ state = "approved" /\ draft.id = c.rev /\ approved.id = c.rev /\ approval.id = c.approval
          /\ \E e \in Included(approved.entries) : c.todo = {e}
    /\ c.pc \in {"prepare", "planned"} =>
          /\ \A e \in c.todo : c.bytes = approval.hashes[e]
          /\ c.bytes # Unknown
    /\ c.pc = "planned" => c.parts = Prepared(c.bytes)

EditInv  == \A t \in Threads : EditOK(th[t])
GrantInv == \A t \in Threads : GrantOK(th[t])

IInv == TypeInv /\ TrustInv /\ ApprovalInv /\ JobInv /\ HolderInv /\ EditInv /\ GrantInv

(***************************************************************************)
(* Every step preserves it.                                                *)
(***************************************************************************)
LEMMA EntriesTyped ==
    /\ NoEntry \in EntryType /\ Manifest = [Entries -> EntryType]
    /\ NoRevision \in Drafts /\ Waiting \in Loops /\ Idle \in Calls
<1>1. NoEntry \in EntryType
  BY SourceAuthorityAssumption DEF NoEntry, EntryType, Stamps, SourceStates
<1>2. Manifest = [Entries -> EntryType]
  BY DEF Manifest, EntryType
<1>3. [e \in Entries |-> NoEntry] \in Manifest
  BY <1>1, <1>2
<1>4. NoRevision \in Drafts /\ NoRevision.entries \in Manifest
  BY <1>3 DEF NoRevision, Drafts
<1> HIDE DEF Manifest
<1>5. Waiting \in Loops /\ Idle \in Calls
  BY <1>4 DEF Waiting, Loops, Idle, Calls, PartLists
<1>6. QED BY <1>1, <1>2, <1>4, <1>5

LEMMA BecomeEffect ==
    ASSUME TypeInv, NEW t \in Threads, NEW n \in Calls, Become(t, n)
    PROVE  /\ th' \in [Threads -> Calls] /\ th'[t] = n
           /\ \A u \in Threads : u # t => th'[u] = th[u]
BY DEF TypeInv, Become

LEMMA InitInv == Init => IInv
<1> SUFFICES ASSUME Init PROVE IInv
  OBVIOUS
<1>1. /\ draft = NoRevision /\ approved = NoRevision /\ loop = Waiting /\ th = [t \in Threads |-> Idle]
      /\ state = "created" /\ holder = NoOne
  BY DEF Init
<1>2. TypeInv
  <2>1. file \in [Entries -> Files]
    BY SourceAuthorityAssumption DEF Init, Files, Stamps
  <2>2. NoRevision.id = 0
    BY DEF NoRevision
  <2>3. approval.id = 0 /\ job \in [id : Nat, status : Statuses] /\ activeJob \in {0, job.id}
    BY DEF Init, Statuses
  <2>4. QED BY <1>1, <2>1, <2>2, <2>3, EntriesTyped, SourceAuthorityAssumption DEF Init, TypeInv, WorkspaceStates
<1>3. TrustInv
  BY <1>1 DEF TrustInv, Trusted, NoRevision, NoEntry, Waiting
<1>4. \A t \in Threads : th[t].pc = "idle"
  BY <1>1 DEF Idle
<1>5. ApprovalInv /\ JobInv /\ HolderInv /\ EditInv /\ GrantInv
  BY <1>1, <1>4, SourceAuthorityAssumption
     DEF ApprovalInv, JobInv, HolderInv, EditInv, EditOK, GrantInv, GrantOK, Granted, Init, Waiting
<1>6. QED BY <1>2, <1>3, <1>5 DEF IInv

\* What the steps of a call have in common: it gets to n, and the workspace stays.
LEMMA CallStep ==
    ASSUME IInv, NEW t \in Threads, NEW n \in Calls, Become(t, n),
           UNCHANGED <<disk, manifest, job, loop, writes>>,
           queued' = queued, active' \in BOOLEAN, activeJob' \in {0, job.id},
           holder' \in {holder, t, NoOne}, holder' = holder \/ holder \in {t, NoOne},
           holder' = t <=> n.pc \in Granted, EditOK(n), GrantOK(n)
    PROVE  IInv'
<1>1. /\ th' \in [Threads -> Calls] /\ th'[t] = n
      /\ \A u \in Threads : u # t => th'[u] = th[u]
  BY BecomeEffect DEF IInv
<1>2. /\ file' = file /\ sameRoot' = sameRoot /\ state' = state /\ draft' = draft
      /\ approved' = approved /\ approval' = approval /\ seen' = seen /\ job' = job
      /\ loop' = loop /\ writes' = writes
  BY DEF disk, manifest
<1>3. TypeInv'
  BY <1>1, <1>2 DEF IInv, TypeInv
<1>4. TrustInv' /\ ApprovalInv' /\ JobInv'
  BY <1>2 DEF IInv, TrustInv, Trusted, ApprovalInv, JobInv
<1>5. HolderInv'
  BY <1>1, SourceAuthorityAssumption DEF IInv, HolderInv
<1>6. EditInv' /\ GrantInv'
  BY <1>1, <1>2 DEF IInv, EditInv, EditOK, GrantInv, GrantOK
<1>7. QED BY <1>3, <1>4, <1>5, <1>6 DEF IInv

\* A new draft, under the authority lock or when nobody holds it, of which what
\* counts as approved was read.
LEMMA DraftStep ==
    ASSUME IInv, NEW m \in Manifest, Trusted(m),
           NEW next \in {"approval_required", "needs_attention"}, NewDraft(m, next),
           UNCHANGED <<disk, approved, approval, seen, writes>>,
           job' \in [id : Nat, status : Statuses], job'.id = job.id,
           queued' = queued, active' \in BOOLEAN, activeJob' = activeJob,
           loop' \in Loops, loop' = loop \/ loop' = [Waiting EXCEPT !.pc = "finish"], JobInv',
           holder' = NoOne, th' \in [Threads -> Calls],
           \A u \in Threads : th'[u] = Idle \/ (th'[u] = th[u] /\ holder # u)
    PROVE  IInv'
<1>1. /\ draft' \in Drafts /\ draft'.id = draft.id + 1 /\ draft'.entries = m /\ state' = next
      /\ file' = file /\ sameRoot' = sameRoot /\ approved' = approved /\ approval' = approval
      /\ seen' = seen
  BY DEF IInv, TypeInv, NewDraft, Drafts, disk
<1>2. TypeInv'
  BY <1>1 DEF IInv, TypeInv, WorkspaceStates, Drafts
<1>3. TrustInv' /\ ApprovalInv'
  BY <1>1 DEF IInv, TrustInv, Trusted, ApprovalInv, Waiting, NoRevision, NoEntry
<1>4. \A u \in Threads : th'[u].pc \notin Granted
  BY DEF IInv, HolderInv, Granted, Idle
<1>5. HolderInv'
  BY <1>4, SourceAuthorityAssumption DEF HolderInv
<1>6. EditInv'
  <2>1. ASSUME NEW u \in Threads, th'[u].pc \in {"include", "validate"}
        PROVE  th'[u] = th[u] /\ th[u].rev <= draft.id /\ th[u].rev \in Nat /\ draft.id \in Nat
    BY <2>1 DEF IInv, EditInv, EditOK, Idle, TypeInv, Calls, Drafts
  <2>2. QED BY <1>1, <2>1 DEF IInv, EditInv, EditOK
<1>7. GrantInv'
  <2>1. ASSUME NEW u \in Threads PROVE GrantOK(th[u]) /\ (th'[u] = th[u] \/ th'[u].pc = "idle")
    BY DEF IInv, GrantInv, Idle
  <2>2. QED BY <1>1, <1>4, <2>1 DEF GrantInv, GrantOK, Granted
<1>8. QED BY <1>2, <1>3, <1>5, <1>6, <1>7 DEF IInv

\* Steps of the job thread and of the folder that leave the workspace's draft.
LEMMA BesideStep ==
    ASSUME IInv, UNCHANGED <<draft, approved, approval, seen, th, holder>>,
           file' \in [Entries -> Files], sameRoot' \in BOOLEAN, writes' \in 0 .. MaxWrites,
           state' = state \/ (holder = NoOne /\ state' \in {"scanning", "needs_attention"}),
           job' \in [id : Nat, status : Statuses], queued' \in BOOLEAN, active' \in BOOLEAN,
           activeJob' \in {0, job'.id}, loop' \in Loops, JobInv',
           Trusted(loop'.previous), Trusted(loop'.scanned)
    PROVE  IInv'
<1>1. TypeInv'
  BY DEF IInv, TypeInv, WorkspaceStates
<1>2. TrustInv' /\ ApprovalInv'
  BY DEF IInv, TrustInv, Trusted, ApprovalInv
<1>3. HolderInv' /\ EditInv'
  BY DEF IInv, HolderInv, EditInv, EditOK
<1>4. GrantInv'
  <2>1. ASSUME NEW u \in Threads, th[u].pc \in Granted PROVE state' = state
    BY <2>1, SourceAuthorityAssumption DEF IInv, HolderInv
  <2>2. QED BY <2>1 DEF IInv, GrantInv, GrantOK, Granted
<1>5. QED BY <1>1, <1>2, <1>3, <1>4 DEF IInv

LEMMA CallFields ==
    ASSUME TypeInv, NEW t \in Threads
    PROVE  /\ th[t] \in Calls /\ draft.entries \in Manifest /\ draft.id \in Nat
           /\ approved.entries \in Manifest /\ approved.id \in Nat
BY DEF TypeInv, Drafts

\* The number and the entries of the draft that a mutation starts from.
LEMMA MutationStep ==
    ASSUME IInv, NEW t \in Threads, NEW n \in Calls, WorkspaceMutation(t, n),
           n.pc \in {"include", "validate"},
           n.pc = "validate" /\ n.choice => Included(draft.entries) \subseteq n.todo \cup n.bad
    PROVE  IInv'
<1> DEFINE c == [n EXCEPT !.rev = draft.id, !.entries = draft.entries]
<1>1. draft.entries \in Manifest /\ draft.id \in Nat /\ th[t].pc = "idle"
  BY CallFields DEF IInv, WorkspaceMutation, Call, At
<1>2. /\ c \in Calls /\ c.pc = n.pc /\ c.rev = draft.id /\ c.entries = draft.entries
      /\ c.todo = n.todo /\ c.bad = n.bad /\ c.choice = n.choice
  BY <1>1 DEF Calls
<1>3. /\ Become(t, c) /\ active' \in BOOLEAN /\ activeJob' \in {0, job.id} /\ holder' = holder
      /\ UNCHANGED <<disk, manifest, job, queued, loop, writes>>
  BY DEF WorkspaceMutation, IInv, TypeInv
<1> HIDE DEF c
<1>4. EditOK(c) /\ GrantOK(c)
  BY <1>1, <1>2 DEF EditOK, GrantOK, Granted
<1>5. holder' = t <=> c.pc \in Granted
  BY <1>1, <1>2, <1>3 DEF IInv, HolderInv, Granted
<1>6. QED BY <1>2, <1>3, <1>4, <1>5, CallStep

LEMMA BeginInclusionStep == ASSUME IInv, NEW t \in Threads, BeginInclusion(t) PROVE IInv'
<1>1. PICK ids \in {{e} : e \in Known(draft.entries)} \cup {Entries}, included \in BOOLEAN :
        LET set == IF ids # Entries THEN ids
                   ELSE {e \in Entries : CanSetInclusion(draft.entries[e], included)}
        IN  WorkspaceMutation(t, [Idle EXCEPT !.pc = "include", !.todo = set, !.choice = included])
  BY DEF BeginInclusion
<1> DEFINE set == IF ids # Entries THEN ids
                  ELSE {e \in Entries : CanSetInclusion(draft.entries[e], included)}
           n == [Idle EXCEPT !.pc = "include", !.todo = set, !.choice = included]
<1>2. set \subseteq Entries
  BY <1>1 DEF Known
<1> HIDE DEF set
<1>3. n \in Calls /\ n.pc = "include"
  BY <1>2, EntriesTyped DEF Calls
<1>4. WorkspaceMutation(t, n)
  BY <1>1 DEF set
<1> HIDE DEF n
<1>5. QED BY <1>3, <1>4, MutationStep

LEMMA BeginApprovalStep == ASSUME IInv, NEW t \in Threads, BeginApproval(t) PROVE IInv'
<1> DEFINE todo == IF sameRoot THEN Included(draft.entries) ELSE {}
           bad  == IF sameRoot THEN {} ELSE Included(draft.entries)
           n    == [Idle EXCEPT !.pc = "validate", !.choice = sameRoot, !.todo = todo, !.bad = bad]
<1>1. WorkspaceMutation(t, n)
  BY DEF BeginApproval
<1>2. todo \subseteq Entries /\ bad \subseteq Entries /\ Included(draft.entries) \subseteq todo \cup bad
  BY DEF Included
<1> HIDE DEF todo, bad
<1>3. n \in Calls /\ n.pc = "validate" /\ n.todo = todo /\ n.bad = bad
  BY <1>2, EntriesTyped DEF Calls, IInv, TypeInv
<1> HIDE DEF n
<1>4. QED BY <1>1, <1>2, <1>3, MutationStep

LEMMA ReadFile ==
    ASSUME TypeInv, NEW e \in Entries, NEW f \in Files, Reads(e, f)
    PROVE  f.content \in Contents \cup {Unknown}
BY DEF Files

LEMMA RevalidateStep == ASSUME IInv, NEW t \in Threads, Revalidate(t) PROVE IInv'
<1> DEFINE e == CHOOSE x \in th[t].todo : TRUE
<1>1. e \in th[t].todo /\ th[t] \in Calls /\ th[t].pc = "validate"
  BY CallFields DEF IInv, Revalidate, At
<1>2. PICK f \in Files :
        Become(t, [th[t] EXCEPT !.todo = @ \ {e}, !.read = @ \cup {<<e, f.content>>},
                       !.bad = IF EntryMatches(th[t].entries[e], f) THEN @ ELSE @ \cup {e}])
  BY DEF Revalidate
<1>3. UNCHANGED <<disk, manifest, job, queued, active, activeJob, loop, holder, writes>>
  BY DEF Revalidate, service
<1> HIDE DEF e
<1> DEFINE bad == IF EntryMatches(th[t].entries[e], f) THEN th[t].bad ELSE th[t].bad \cup {e}
           todo == th[t].todo \ {e}
           read == th[t].read \cup {<<e, f.content>>}
           c == [th[t] EXCEPT !.todo = todo, !.read = read, !.bad = bad]
<1>4. Become(t, c)
  BY <1>2
<1>5. bad \subseteq Entries /\ e \in Entries /\ f.content \in Contents \cup {Unknown}
  <2>1. e \in Entries /\ th[t].bad \subseteq Entries
    BY <1>1 DEF Calls
  <2>2. QED BY <1>2, <2>1 DEF Files
<1>6. e \in bad \/ f.content = th[t].entries[e].hash
  BY DEF EntryMatches
<1>7. th[t].bad \subseteq bad
  OBVIOUS
<1> HIDE DEF bad
<1>8. /\ c \in Calls /\ c.pc = "validate" /\ c.rev = th[t].rev /\ c.entries = th[t].entries
      /\ c.todo = todo /\ c.read = read
      /\ c.bad = bad /\ c.choice = th[t].choice
  <2>1. todo \subseteq Entries /\ read \subseteq Entries \X (Contents \cup {Unknown})
    BY <1>1, <1>5 DEF Calls
  <2> HIDE DEF read, todo
  <2>2. QED BY <1>1, <1>5, <2>1 DEF Calls
<1> HIDE DEF c
<1>9. EditOK(c)
  BY <1>1, <1>6, <1>7, <1>8 DEF IInv, EditInv, EditOK
<1>10. GrantOK(c) /\ (holder' = t <=> c.pc \in Granted)
  BY <1>1, <1>3, <1>8 DEF IInv, HolderInv, GrantOK, Granted
<1>11. active' \in BOOLEAN /\ activeJob' \in {0, job.id}
  BY <1>3 DEF IInv, TypeInv
<1>12. QED BY <1>3, <1>4, <1>8, <1>9, <1>10, <1>11, CallStep

LEMMA IdleStep ==
    ASSUME IInv, NEW t \in Threads, Become(t, Idle), UNCHANGED <<disk, manifest, job, loop, writes, queued>>,
           active' \in BOOLEAN, activeJob' \in {0, job.id},
           (holder' = holder /\ holder # t) \/ (holder = t /\ holder' = NoOne)
    PROVE  IInv'
<1>1. Idle \in Calls /\ Idle.pc = "idle"
  BY EntriesTyped DEF Idle
<1>2. EditOK(Idle) /\ GrantOK(Idle)
  BY <1>1 DEF EditOK, GrantOK, Granted
<1>3. holder' = t <=> Idle.pc \in Granted
  BY <1>1, SourceAuthorityAssumption DEF Granted
<1>4. QED BY <1>1, <1>2, <1>3, CallStep

LEMMA SnapshotStep == ASSUME IInv, NEW t \in Threads, SnapshotAuthority(t) PROVE IInv'
<1>1. PICK e \in DOMAIN approval.hashes :
        Become(t, [Idle EXCEPT !.pc = "sender", !.rev = approved.id, !.approval = approval.id,
                               !.todo = {e}])
  BY DEF SnapshotAuthority
<1>2. /\ state = "approved" /\ th[t].pc = "idle" /\ holder' = holder
      /\ UNCHANGED <<disk, manifest, job, queued, active, activeJob, loop, writes>>
  BY DEF SnapshotAuthority, service, Call, At
<1>3. e \in Entries
  BY <1>1, <1>2 DEF IInv, ApprovalInv, Included
<1> DEFINE c == [Idle EXCEPT !.pc = "sender", !.rev = approved.id, !.approval = approval.id,
                             !.todo = {e}]
<1>4. c \in Calls /\ c.pc = "sender" /\ c.approval = approval.id /\ c.todo = {e}
  BY <1>3, EntriesTyped, CallFields DEF Calls, IInv, TypeInv
<1>5. Become(t, c)
  BY <1>1
<1> HIDE DEF c
<1>6. EditOK(c) /\ GrantOK(c)
  BY <1>1, <1>3, <1>4 DEF EditOK, GrantOK, Granted, IInv, TypeInv
<1>7. holder' = t <=> c.pc \in Granted
  BY <1>2, <1>4 DEF IInv, HolderInv, Granted
<1>8. active' \in BOOLEAN /\ activeJob' \in {0, job.id}
  BY <1>2 DEF IInv, TypeInv
<1>9. QED BY <1>2, <1>4, <1>5, <1>6, <1>7, <1>8, CallStep

LEMMA HoldStep == ASSUME IInv, NEW t \in Threads, HoldAuthority(t) PROVE IInv'
<1>1. /\ th[t].pc = "sender" /\ holder = NoOne /\ th[t] \in Calls
      /\ UNCHANGED <<disk, manifest, job, queued, active, activeJob, loop, writes>>
      /\ active' \in BOOLEAN /\ activeJob' \in {0, job.id}
  BY CallFields DEF HoldAuthority, At, Unheld, service, IInv, TypeInv
<1>2. CASE AuthorityMatches(t)
  <2> DEFINE c == [th[t] EXCEPT !.pc = "authorize"]
  <2>1. holder' = t /\ Become(t, c)
    BY <1>2 DEF HoldAuthority
  <2>2. /\ c \in Calls /\ c.pc = "authorize" /\ c.rev = th[t].rev /\ c.approval = th[t].approval
        /\ c.todo = th[t].todo
    BY <1>1 DEF Calls
  <2> HIDE DEF c
  <2>3. \E e \in Included(approved.entries) : th[t].todo = {e}
    BY <1>1, <1>2 DEF IInv, GrantInv, GrantOK, AuthorityMatches, ApprovalInv
  <2>4. EditOK(c) /\ GrantOK(c)
    BY <1>2, <2>2, <2>3 DEF EditOK, GrantOK, Granted, AuthorityMatches
  <2>5. QED BY <1>1, <2>1, <2>2, <2>4, CallStep DEF Granted
<1>3. CASE ~AuthorityMatches(t)
  <2>1. holder' = holder /\ Become(t, Idle)
    BY <1>3 DEF HoldAuthority
  <2>2. QED BY <1>1, <2>1, IdleStep, SourceAuthorityAssumption
<1>4. QED BY <1>2, <1>3

LEMMA ReleaseStep == ASSUME IInv, NEW t \in Threads, UpsertPlans(t) \/ ExpireGrant(t) PROVE IInv'
<1>1. /\ th[t].pc \in Granted /\ Become(t, Idle) /\ holder' = NoOne
      /\ UNCHANGED <<disk, manifest, job, queued, active, activeJob, loop, writes>>
      /\ active' \in BOOLEAN /\ activeJob' \in {0, job.id}
  BY DEF UpsertPlans, ExpireGrant, Release, At, Granted, service, IInv, TypeInv
<1>2. holder = t
  BY <1>1 DEF IInv, HolderInv
<1>3. QED BY <1>1, <1>2, IdleStep

LEMMA PrepareStep == ASSUME IInv, NEW t \in Threads, PrepareParts(t) PROVE IInv'
<1> DEFINE c == [th[t] EXCEPT !.pc = "planned", !.parts = Prepared(th[t].bytes)]
<1>1. /\ th[t].pc = "prepare" /\ th[t] \in Calls /\ Become(t, c) /\ holder' = holder
      /\ UNCHANGED <<disk, manifest, job, queued, active, activeJob, loop, writes>>
      /\ active' \in BOOLEAN /\ activeJob' \in {0, job.id}
  BY CallFields DEF PrepareParts, At, service, IInv, TypeInv
<1>2. Prepared(th[t].bytes) \in PartLists
  BY <1>1 DEF PartLists, Calls
<1>3. /\ c \in Calls /\ c.pc = "planned" /\ c.rev = th[t].rev /\ c.approval = th[t].approval
      /\ c.todo = th[t].todo /\ c.bytes = th[t].bytes /\ c.parts = Prepared(th[t].bytes)
  BY <1>1, <1>2 DEF Calls
<1> HIDE DEF c
<1>4. EditOK(c) /\ GrantOK(c)
  BY <1>1, <1>3 DEF IInv, GrantInv, EditOK, GrantOK, Granted
<1>5. holder' = t <=> c.pc \in Granted
  BY <1>1, <1>3 DEF IInv, HolderInv, Granted
<1>6. QED BY <1>1, <1>3, <1>4, <1>5, CallStep

LEMMA UpdateEffect ==
    ASSUME NEW x \in EntryType, NEW included \in BOOLEAN
    PROVE  /\ UpdateInclusion(x, included) \in EntryType
           /\ UpdateInclusion(x, included).hash = x.hash
           /\ UpdateInclusion(x, included).state = "approved" => x.state = "approved"
<1>1. CASE ~included /\ x.state \in {"pending", "approved", "changed"}
  BY <1>1 DEF UpdateInclusion, EntryType, SourceStates
<1>2. CASE included /\ (x.user \/ x.state = "changed")
  BY <1>2 DEF UpdateInclusion, EntryType, SourceStates
<1>3. CASE /\ ~(~included /\ x.state \in {"pending", "approved", "changed"})
           /\ ~(included /\ (x.user \/ x.state = "changed"))
  BY <1>3 DEF UpdateInclusion, EntryType, SourceStates
<1>4. QED BY <1>1, <1>2, <1>3

LEMMA SetInclusionStep == ASSUME IInv, NEW t \in Threads, SetInclusion(t) PROVE IInv'
<1>1. /\ th[t].pc = "include" /\ holder = NoOne /\ holder' = holder /\ th[t] \in Calls
      /\ th' = [th EXCEPT ![t] = Idle] /\ active' = FALSE
      /\ UNCHANGED <<disk, approved, approval, seen, job, queued, activeJob, loop, writes>>
      /\ th[t].choice \in BOOLEAN /\ draft.entries \in Manifest
  BY CallFields DEF SetInclusion, EndMutation, Become, At, Unheld, IInv, Calls
<1>2. /\ active' \in BOOLEAN /\ activeJob' \in {0, job.id} /\ job \in [id : Nat, status : Statuses]
      /\ job' = job /\ loop' = loop /\ loop' \in Loops
  BY <1>1 DEF IInv, TypeInv
<1>3. CASE UNCHANGED <<draft, state>>
  BY <1>1, <1>2, <1>3, IdleStep, SourceAuthorityAssumption DEF manifest, Become
<1>4. CASE draft.id = th[t].rev
  <2> DEFINE F(e) == IF e \in th[t].todo THEN UpdateInclusion(draft.entries[e], th[t].choice)
                     ELSE draft.entries[e]
             m == [e \in Entries |-> F(e)]
  <2>1. NewDraft(m, "approval_required")
    BY <1>4 DEF SetInclusion
  <2>2. ASSUME NEW e \in Entries
        PROVE  /\ F(e) \in EntryType
               /\ F(e).state = "approved" => F(e).hash # Unknown /\ <<e, F(e).hash>> \in seen
    <3>1. draft.entries[e] \in EntryType
      BY <1>1, EntriesTyped
    <3>2. draft.entries[e].state = "approved" =>
             draft.entries[e].hash # Unknown /\ <<e, draft.entries[e].hash>> \in seen
      BY DEF IInv, TrustInv, Trusted
    <3>3. QED BY <1>1, <3>1, <3>2, UpdateEffect
  <2> HIDE DEF F
  <2>3. m \in Manifest /\ Trusted(m)
    BY <2>2, EntriesTyped DEF Trusted
  <2>4. JobInv'
    BY <1>2 DEF IInv, JobInv
  <2>5. th' \in [Threads -> Calls] /\ \A u \in Threads : th'[u] = Idle \/ (th'[u] = th[u] /\ holder # u)
    BY <1>1, EntriesTyped, SourceAuthorityAssumption DEF IInv, TypeInv
  <2> HIDE DEF m
  <2>6. QED BY <1>1, <1>2, <2>1, <2>3, <2>4, <2>5, DraftStep
<1>5. QED BY <1>3, <1>4 DEF SetInclusion

\* A source that is not what was approved takes the approval away.
LEMMA AttentionStep ==
    ASSUME IInv, NEW t \in Threads, NEW ids, MarkAttention(ids), th' = [th EXCEPT ![t] = Idle],
           UNCHANGED <<disk, job, queued, activeJob, loop, writes>>, active' \in BOOLEAN,
           holder' = NoOne, holder \in {t, NoOne}
    PROVE  IInv'
<1> DEFINE m == MarkedChanged(draft.entries, ids)
<1>1. NewDraft(m, "needs_attention") /\ UNCHANGED <<approved, approval, seen>>
  BY DEF MarkAttention
<1>2. draft.entries \in [Entries -> EntryType]
  BY CallFields, EntriesTyped DEF IInv
<1>3. ASSUME NEW e \in Entries
      PROVE  /\ m[e] \in EntryType
             /\ m[e].state = "approved" => m[e].hash # Unknown /\ <<e, m[e].hash>> \in seen
  <2>1. CASE e \in ids
    BY <1>2, <2>1 DEF MarkedChanged, EntryType, SourceStates
  <2>2. CASE e \notin ids
    BY <1>2, <2>2 DEF MarkedChanged, IInv, TrustInv, Trusted
  <2>3. QED BY <2>1, <2>2
<1>4. m \in Manifest /\ Trusted(m)
  <2>1. m = [e \in Entries |-> m[e]]
    BY DEF MarkedChanged
  <2> HIDE DEF m
  <2>2. QED BY <1>3, <2>1, EntriesTyped DEF Trusted
<1>5. JobInv' /\ loop' \in Loops /\ job' \in [id : Nat, status : Statuses]
  BY DEF IInv, JobInv, TypeInv
<1>6. th' \in [Threads -> Calls] /\ \A u \in Threads : th'[u] = Idle \/ (th'[u] = th[u] /\ holder # u)
  BY EntriesTyped, SourceAuthorityAssumption DEF IInv, TypeInv
<1> HIDE DEF m
<1>7. QED BY <1>1, <1>4, <1>5, <1>6, DraftStep

LEMMA ReadApprovedStep ==
    ASSUME IInv, NEW t \in Threads, Authorize(t) \/ OpenApproved(t)
    PROVE  IInv'
<1> DEFINE pc == IF th[t].pc = "authorize" THEN "open" ELSE "prepare"
<1>1. th[t].pc \in {"authorize", "open"} /\ th[t] \in Calls /\ ReadApproved(t, [th[t] EXCEPT !.pc = pc])
  BY CallFields DEF Authorize, OpenApproved, At, IInv
<1>2. /\ UNCHANGED <<disk, job, queued, active, activeJob, loop, writes>>
      /\ active' \in BOOLEAN /\ activeJob' \in {0, job.id} /\ holder = t
  BY <1>1 DEF Authorize, OpenApproved, service, IInv, TypeInv, HolderInv, Granted
<1>3. PICK e \in Included(approved.entries) : th[t].todo = {e}
  BY <1>1 DEF IInv, GrantInv, GrantOK, Granted
<1>4. Source(t) = e /\ e \in Entries
  BY <1>3 DEF Source, Included
<1>5. PICK f \in Files :
        \/ /\ SourceMatches(approved.entries[e], f, approval.hashes[e])
           /\ Become(t, [th[t] EXCEPT !.pc = pc, !.bytes = f.content])
           /\ UNCHANGED <<manifest, holder>>
        \/ MarkAttention({e}) /\ Release(t)
  <2> DEFINE q == [th[t] EXCEPT !.pc = pc]
  <2>1. PICK f \in Files :
          \/ /\ SourceMatches(approved.entries[e], f, approval.hashes[e])
             /\ Become(t, [q EXCEPT !.bytes = f.content])
             /\ UNCHANGED <<manifest, holder>>
          \/ MarkAttention({e}) /\ Release(t)
    BY <1>1, <1>4 DEF ReadApproved
  <2>2. [q EXCEPT !.bytes = f.content] = [th[t] EXCEPT !.pc = pc, !.bytes = f.content]
    BY <1>1 DEF Calls
  <2>3. QED BY <2>1, <2>2
<1>6. CASE MarkAttention({e}) /\ Release(t)
  BY <1>2, <1>6, AttentionStep DEF Release, Become
<1>7. CASE /\ SourceMatches(approved.entries[e], f, approval.hashes[e])
           /\ Become(t, [th[t] EXCEPT !.pc = pc, !.bytes = f.content])
           /\ UNCHANGED <<manifest, holder>>
  <2>1. f.content \in Contents \cup {Unknown} /\ f.content # Unknown /\ f.content = approval.hashes[e]
    BY <1>7 DEF SourceMatches, Files
  <2> DEFINE c == [th[t] EXCEPT !.pc = pc, !.bytes = f.content]
  <2>2. pc \in {"open", "prepare"}
    OBVIOUS
  <2> HIDE DEF pc
  <2>3. /\ c \in Calls /\ c.pc = pc /\ c.bytes = f.content /\ c.rev = th[t].rev
        /\ c.approval = th[t].approval /\ c.todo = th[t].todo
    BY <1>1, <2>1, <2>2 DEF Calls
  <2>4. Become(t, c)
    BY <1>7
  <2> HIDE DEF c
  <2>5. EditOK(c) /\ GrantOK(c)
    BY <1>1, <1>3, <2>1, <2>2, <2>3 DEF IInv, GrantInv, EditOK, GrantOK, Granted
  <2>6. holder' = t <=> c.pc \in Granted
    BY <1>2, <1>7, <2>2, <2>3 DEF Granted
  <2>7. QED BY <1>2, <1>7, <2>3, <2>4, <2>5, <2>6, CallStep
<1>8. QED BY <1>5, <1>6, <1>7

LEMMA ApproveStep == ASSUME IInv, NEW t \in Threads, Approve(t) PROVE IInv'
<1>1. /\ th[t].pc = "validate" /\ th[t].todo = {} /\ holder = NoOne /\ holder' = holder
      /\ th' = [th EXCEPT ![t] = Idle] /\ active' \in BOOLEAN /\ th[t] \in Calls
      /\ UNCHANGED <<disk, job, queued, activeJob, loop, writes>>
      /\ activeJob' \in {0, job.id} /\ draft.entries \in Manifest /\ draft \in Drafts
  BY CallFields DEF Approve, EndMutation, Become, At, Unheld, IInv, TypeInv
<1>2. CASE UNCHANGED manifest
  BY <1>1, <1>2, IdleStep, SourceAuthorityAssumption DEF Become
<1>3. CASE MarkAttention(th[t].bad)
  BY <1>1, <1>3, AttentionStep
<1> DEFINE m == ApproveEntries(draft.entries)
<1>4. CASE /\ draft.id = th[t].rev /\ th[t].choice /\ th[t].bad = {} /\ Eligible(draft.entries)
           /\ state' = "approved"
           /\ draft' = [draft EXCEPT !.entries = m] /\ approved' = draft'
           /\ approval' = [id |-> approval.id + 1,
                           hashes |-> [e \in Included(draft.entries) |-> draft.entries[e].hash]]
           /\ seen' = seen \cup th[t].read
  <2>1. ASSUME NEW e \in Entries
        PROVE  /\ m[e] \in EntryType /\ m[e].hash = draft.entries[e].hash
               /\ m[e].included = draft.entries[e].included
               /\ m[e].included => m[e].state = "approved"
               /\ ~m[e].included => m[e].state = draft.entries[e].state
    <3>1. draft.entries[e] \in EntryType
      BY <1>1, EntriesTyped
    <3>2. QED BY <3>1 DEF ApproveEntries, EntryType, SourceStates
  <2>2. m \in Manifest
    <3>1. m = [e \in Entries |-> m[e]]
      BY DEF ApproveEntries
    <3> HIDE DEF m
    <3>2. QED BY <2>1, <3>1, EntriesTyped
  <2> HIDE DEF m
  <2>3. draft' \in Drafts /\ draft'.id = draft.id /\ draft'.entries = m /\ approved' = draft'
    BY <1>1, <1>4, <2>2 DEF Drafts
  <2>4. Included(m) = Included(draft.entries)
    BY <2>1 DEF Included
  <2>5. ASSUME NEW e \in Included(draft.entries)
        PROVE  draft.entries[e].hash # Unknown /\ <<e, draft.entries[e].hash>> \in th[t].read
    <3>1. e \in Included(th[t].entries) /\ th[t].entries[e].hash = draft.entries[e].hash
      BY <1>1, <1>4, <2>5 DEF IInv, EditInv, EditOK, Included
    <3>2. <<e, th[t].entries[e].hash>> \in th[t].read
      BY <1>1, <1>4, <3>1 DEF IInv, EditInv, EditOK
    <3>3. QED BY <1>4, <2>5, <3>1, <3>2 DEF Eligible
  <2>6. approval'.id = approval.id + 1 /\ approval'.id \in Nat /\ approval.id \in Nat
    BY <1>4 DEF IInv, TypeInv
  <2>7. th' \in [Threads -> Calls] /\ \A u \in Threads : th'[u] = Idle \/ (th'[u] = th[u])
    BY <1>1, EntriesTyped DEF IInv, TypeInv
  <2>8. TypeInv'
    <3>1. approved'.id <= draft'.id
      BY <2>3 DEF Drafts
    <3>2. QED BY <1>1, <1>4, <2>3, <2>6, <2>7, <3>1 DEF IInv, TypeInv, WorkspaceStates, disk
  <2>9. TrustInv'
    <3>1. seen \subseteq seen'
      BY <1>4
    <3>2. ASSUME NEW e \in Entries, m[e].state = "approved"
          PROVE  m[e].hash # Unknown /\ <<e, m[e].hash>> \in seen'
      <4>1. CASE m[e].included
        BY <1>4, <2>1, <2>4, <2>5, <4>1 DEF Included
      <4>2. CASE ~m[e].included
        BY <2>1, <3>1, <3>2, <4>2 DEF IInv, TrustInv, Trusted
      <4>3. QED BY <4>1, <4>2
    <3>3. QED BY <1>1, <2>3, <3>1, <3>2 DEF IInv, TrustInv, Trusted
  <2>10. ApprovalInv'
    <3>1. DOMAIN approval'.hashes = Included(draft.entries)
      BY <1>4
    <3>2. \A e \in Included(draft.entries) : approval'.hashes[e] = draft.entries[e].hash
      BY <1>4
    <3>3. \A e \in Included(m) : e \in Entries /\ m[e].included
      BY DEF Included
    <3>4. QED BY <2>1, <2>3, <2>4, <3>1, <3>2, <3>3 DEF ApprovalInv
  <2>11. JobInv'
    BY <1>1 DEF IInv, JobInv
  <2>12. \A u \in Threads : th[u].pc \notin Granted /\ th'[u].pc \notin Granted
    BY <1>1, <2>7, SourceAuthorityAssumption DEF IInv, HolderInv, Idle, Granted
  <2>13. HolderInv'
    BY <1>1, <2>12, SourceAuthorityAssumption DEF HolderInv
  <2>14. EditInv'
    <3>1. ASSUME NEW u \in Threads PROVE EditOK(th[u])'
      <4>1. CASE th'[u] = Idle
        BY <4>1 DEF EditOK, Idle
      <4>2. CASE th'[u] = th[u]
        BY <2>1, <2>3, <4>2 DEF IInv, EditInv, EditOK
      <4>3. QED BY <2>7, <4>1, <4>2
    <3>2. QED BY <3>1 DEF EditInv
  <2>15. GrantInv'
    <3>1. ASSUME NEW u \in Threads PROVE GrantOK(th[u])'
      <4>1. CASE th'[u] = Idle
        BY <4>1 DEF GrantOK, Idle, Granted
      <4>2. CASE th'[u] = th[u]
        <5>1. th[u].approval \in Nat
          BY CallFields DEF IInv, Calls
        <5>2. th[u].pc = "sender" => th[u].approval <= approval.id /\ \E e \in Entries : th[u].todo = {e}
          BY DEF IInv, GrantInv, GrantOK
        <5>3. QED BY <2>6, <2>12, <4>2, <5>1, <5>2 DEF GrantOK, Granted
      <4>3. QED BY <2>7, <4>1, <4>2
    <3>2. QED BY <3>1 DEF GrantInv
  <2>16. QED BY <2>8, <2>9, <2>10, <2>11, <2>13, <2>14, <2>15 DEF IInv
<1>5. th[t].choice \in BOOLEAN
  BY <1>1 DEF Calls
<1>6. QED BY <1>1, <1>2, <1>3, <1>4, <1>5 DEF Approve

(***************************************************************************)
(* The job thread, the folder and the death of the Worker.                 *)
(***************************************************************************)
\* What is known of the manifests, and of the ones that nobody has filled.
LEMMA Trust ==
    ASSUME IInv
    PROVE  /\ Trusted(loop.previous) /\ Trusted(loop.scanned) /\ Trusted(draft.entries)
           /\ Trusted(Waiting.previous) /\ Trusted(Waiting.scanned)
BY DEF IInv, TrustInv, Trusted, Waiting, NoRevision, NoEntry

LEMMA RescanStep == ASSUME IInv, NEW t \in Threads, Rescan(t) PROVE IInv'
<1>1. /\ UNCHANGED <<disk, manifest, loop, holder, th, writes>>
      /\ job.status \in {"succeeded", "failed"} /\ job.id \in Nat
      /\ job' = [id |-> job.id + 1, status |-> "queued"] /\ queued' = TRUE
      /\ active' = TRUE /\ activeJob' = job.id + 1
  BY DEF Rescan, Terminal, IInv, TypeInv
<1>2. job' \in [id : Nat, status : Statuses] /\ activeJob' \in {0, job'.id} /\ JobInv'
  BY <1>1 DEF IInv, JobInv, Statuses
<1>3. QED BY <1>1, <1>2, BesideStep, Trust DEF IInv, TypeInv, disk, manifest

LEMMA StartJobStep == ASSUME IInv, StartJob PROVE IInv'
<1>1. /\ UNCHANGED <<disk, draft, approved, approval, seen, active, activeJob, holder, th, writes>>
      /\ holder = NoOne /\ state' = "scanning" /\ queued' = FALSE
      /\ job' = [job EXCEPT !.status = "running"] /\ loop' = [Waiting EXCEPT !.pc = "begin"]
  BY DEF StartJob, Unheld
<1>2. /\ job' \in [id : Nat, status : Statuses] /\ job'.id = job.id /\ job'.status = "running"
      /\ loop' \in Loops /\ loop'.pc = "begin"
      /\ loop'.previous = Waiting.previous /\ loop'.scanned = Waiting.scanned
  BY <1>1, EntriesTyped DEF IInv, TypeInv, Statuses, Loops
<1>3. JobInv'
  BY <1>2 DEF JobInv
<1>4. QED BY <1>1, <1>2, <1>3, BesideStep, Trust DEF IInv, TypeInv, disk

LEMMA ScanStep == ASSUME IInv, ScanAnchored PROVE IInv'
<1>1. /\ UNCHANGED <<disk, manifest, job, queued, active, activeJob, holder, th, writes>>
      /\ loop.pc = "begin"
  BY DEF ScanAnchored
<1>2. PICK found \in SUBSET Entries :
        loop' = [pc |-> "scan", previous |-> draft.entries, scanned |-> Removed(draft.entries),
                 todo |-> found]
  BY DEF ScanAnchored
<1>3. draft.entries \in [Entries -> EntryType]
  BY EntriesTyped DEF IInv, TypeInv, Drafts
<1> DEFINE m == Removed(draft.entries)
<1>4. ASSUME NEW e \in Entries PROVE m[e] \in EntryType /\ m[e].state # "approved"
  BY <1>3, EntriesTyped DEF Removed, EntryType, SourceStates, NoEntry
<1>5. m \in Manifest
  <2>1. m = [e \in Entries |-> m[e]]
    BY DEF Removed
  <2> HIDE DEF m
  <2>2. QED BY <1>4, <2>1, EntriesTyped
<1>6. Trusted(m)
  BY <1>4 DEF Trusted
<1> HIDE DEF m
<1>7. /\ loop' \in Loops /\ loop'.pc = "scan" /\ loop'.previous = draft.entries
      /\ loop'.scanned = m
  <2>1. draft.entries \in Manifest
    BY DEF IInv, TypeInv, Drafts
  <2>2. loop' = [pc |-> "scan", previous |-> draft.entries, scanned |-> m, todo |-> found]
    BY <1>2 DEF m
  <2>3. QED BY <1>5, <2>1, <2>2 DEF Loops
<1>8. JobInv'
  BY <1>1, <1>7 DEF IInv, JobInv
<1>9. QED BY <1>1, <1>6, <1>7, <1>8, BesideStep, Trust DEF IInv, TypeInv, disk, manifest

\* A scan does not approve: it keeps as approved what was, with that content.
LEMMA CandidateEffect ==
    ASSUME NEW x \in EntryType, NEW f \in Files
    PROVE  /\ ScanCandidate(x, f) \in EntryType
           /\ ScanCandidate(x, f).state = "approved" =>
                 x.state = "approved" /\ ScanCandidate(x, f).hash = x.hash
<1>1. f.content \in Contents \cup {Unknown} /\ f.stamp \in Stamps
  BY DEF Files
<1>2. \A s \in SourceStates, i, u \in BOOLEAN :
        Entry(s, i, u, f) \in EntryType /\ Entry(s, i, u, f).state = s
        /\ Entry(s, i, u, f).hash = f.content
  BY <1>1 DEF Entry, EntryType
<1>3. {"pending", "approved", "changed", "excluded", "failed"} \subseteq SourceStates
  BY DEF SourceStates
<1>4. CASE f.content = Unknown
  <2>1. ScanCandidate(x, f) = Entry("failed", FALSE, FALSE, f)
    BY <1>4 DEF ScanCandidate
  <2>2. QED BY <1>2, <1>3, <2>1
<1>5. CASE f.content # Unknown /\ Reusable(x, f)
  <2>1. x.state = "pending"
    BY <1>5 DEF Reusable
  <2>2. ScanCandidate(x, f) = x
    BY <1>5, <2>1 DEF ScanCandidate
  <2>3. QED BY <2>2
<1> DEFINE kept == x.state = "approved" /\ x.hash = f.content
<1>6. CASE f.content # Unknown /\ ~Reusable(x, f) /\ kept
  <2>1. ScanCandidate(x, f) = Entry("approved", TRUE, FALSE, f)
    BY <1>6 DEF ScanCandidate
  <2>2. /\ Entry("approved", TRUE, FALSE, f) \in EntryType
        /\ Entry("approved", TRUE, FALSE, f).hash = f.content
    BY <1>2, <1>3
  <2>3. QED BY <1>6, <2>1, <2>2
<1>7. CASE f.content # Unknown /\ ~Reusable(x, f) /\ ~kept
  <2>1. \E s \in {"changed", "excluded", "pending"}, i, u \in BOOLEAN : ScanCandidate(x, f) = Entry(s, i, u, f)
    BY <1>7 DEF ScanCandidate
  <2>2. QED BY <1>2, <1>3, <2>1
<1>8. QED BY <1>4, <1>5, <1>6, <1>7

LEMMA CandidateStep == ASSUME IInv, ReadCandidate PROVE IInv'
<1>1. /\ UNCHANGED <<disk, manifest, job, queued, active, activeJob, holder, th, writes>>
      /\ loop.pc = "scan" /\ loop.todo # {} /\ loop \in Loops
  BY DEF ReadCandidate, IInv, TypeInv
<1> DEFINE e == CHOOSE x \in loop.todo : TRUE
<1>2. e \in Entries
  BY <1>1 DEF Loops
<1>3. PICK f \in Files : loop' = [loop EXCEPT !.todo = @ \ {e},
                                     !.scanned[e] = ScanCandidate(loop.previous[e], f)]
  BY DEF ReadCandidate
<1> HIDE DEF e
<1> DEFINE x == ScanCandidate(loop.previous[e], f)
           m == [loop.scanned EXCEPT ![e] = x]
           todo == loop.todo \ {e}
<1>4. x \in EntryType /\ (x.state = "approved" => x.hash # Unknown /\ <<e, x.hash>> \in seen)
  <2>1. loop.previous[e] \in EntryType
    BY <1>1, <1>2, EntriesTyped DEF Loops
  <2>2. QED BY <1>2, <2>1, CandidateEffect, Trust DEF Trusted
<1>5. loop' = [loop EXCEPT !.todo = todo, !.scanned = m]
  <2>1. loop.scanned = [y \in Entries |-> loop.scanned[y]]
    BY <1>1, EntriesTyped DEF Loops
  <2>2. QED BY <1>1, <1>3 DEF Loops
<1> HIDE DEF x
<1>6. m \in Manifest /\ Trusted(m)
  <2>1. loop.scanned \in [Entries -> EntryType] /\ Trusted(loop.scanned)
    BY <1>1, EntriesTyped, Trust DEF Loops
  <2>2. QED BY <1>2, <1>4, <2>1, EntriesTyped DEF Trusted
<1>7. todo \subseteq Entries
  BY <1>1 DEF Loops
<1> HIDE DEF m, todo
<1>8. loop' \in Loops /\ loop'.pc = "scan" /\ loop'.previous = loop.previous /\ loop'.scanned = m
  BY <1>1, <1>5, <1>6, <1>7 DEF Loops
<1>9. JobInv'
  BY <1>1, <1>8 DEF IInv, JobInv
<1>10. QED BY <1>1, <1>6, <1>8, <1>9, BesideStep, Trust DEF IInv, TypeInv, disk, manifest

LEMMA CommitStep == ASSUME IInv, CommitScan PROVE IInv'
<1>1. /\ NewDraft(loop.scanned, "approval_required") /\ holder = NoOne
      /\ job' = [job EXCEPT !.status = "succeeded"] /\ loop' = [Waiting EXCEPT !.pc = "finish"]
      /\ UNCHANGED <<disk, approved, approval, seen, queued, active, activeJob, holder, th, writes>>
      /\ loop \in Loops /\ loop.scanned \in Manifest
  BY DEF CommitScan, Unheld, IInv, TypeInv, Loops
<1>2. /\ job' \in [id : Nat, status : Statuses] /\ job'.id = job.id /\ job'.status = "succeeded"
      /\ loop' \in Loops /\ loop'.pc = "finish"
  BY <1>1, EntriesTyped DEF IInv, TypeInv, Statuses, Loops
<1>3. JobInv'
  BY <1>2 DEF JobInv
<1>4. /\ th' \in [Threads -> Calls] /\ active' \in BOOLEAN
      /\ \A u \in Threads : th'[u] = th[u] /\ holder # u
  BY <1>1, SourceAuthorityAssumption DEF IInv, TypeInv
<1>5. QED BY <1>1, <1>2, <1>3, <1>4, DraftStep, Trust

LEMMA FailJobStep == ASSUME IInv, FailJob PROVE IInv'
<1>1. /\ UNCHANGED <<disk, draft, approved, approval, seen, active, activeJob, holder, th, writes, queued>>
      /\ holder = NoOne /\ state' = "needs_attention"
      /\ job' = [job EXCEPT !.status = "failed"] /\ loop' = [Waiting EXCEPT !.pc = "finish"]
  BY DEF FailJob, Unheld
<1>2. /\ job' \in [id : Nat, status : Statuses] /\ job'.id = job.id /\ job'.status = "failed"
      /\ loop' \in Loops /\ loop'.pc = "finish"
      /\ loop'.previous = Waiting.previous /\ loop'.scanned = Waiting.scanned
  BY <1>1, EntriesTyped DEF IInv, TypeInv, Statuses, Loops
<1>3. JobInv'
  BY <1>2 DEF JobInv
<1>4. QED BY <1>1, <1>2, <1>3, BesideStep, Trust DEF IInv, TypeInv, disk

LEMMA FinishStep == ASSUME IInv, FinishJob PROVE IInv'
<1>1. /\ UNCHANGED <<disk, manifest, job, queued, holder, th, writes>>
      /\ loop.pc = "finish" /\ loop' = Waiting
      /\ active' \in BOOLEAN /\ activeJob' \in {0, job.id}
  BY DEF FinishJob, IInv, TypeInv
<1>2. JobInv'
  BY <1>1 DEF IInv, JobInv, Waiting
<1>3. QED BY <1>1, <1>2, BesideStep, Trust, EntriesTyped DEF IInv, TypeInv, disk, manifest

LEMMA FolderStep == ASSUME IInv, ChangeFolder PROVE IInv'
<1>1. /\ UNCHANGED <<manifest, service, holder, th>> /\ writes < MaxWrites /\ writes' = writes + 1
      /\ writes \in Nat /\ file \in [Entries -> Files] /\ sameRoot \in BOOLEAN
  BY DEF ChangeFolder, IInv, TypeInv
<1>2. writes' \in 0 .. MaxWrites /\ writes + 1 \in Stamps
  BY <1>1, SourceAuthorityAssumption DEF Stamps
<1>3. file' \in [Entries -> Files] /\ sameRoot' \in BOOLEAN
  <2>1. ASSUME NEW e \in Entries, NEW c \in Contents, NEW s \in Stamps,
               s \in {file[e].stamp, writes + 1}, Edit(e, [content |-> c, stamp |-> s])
        PROVE  file' \in [Entries -> Files] /\ sameRoot' \in BOOLEAN
    BY <1>1, <2>1 DEF Edit, Files
  <2>2. ASSUME NEW e \in Entries, Edit(e, [file[e] EXCEPT !.content = Unknown])
        PROVE  file' \in [Entries -> Files] /\ sameRoot' \in BOOLEAN
    <3>1. [file[e] EXCEPT !.content = Unknown] \in Files
      BY <1>1 DEF Files
    <3>2. QED BY <1>1, <2>2, <3>1 DEF Edit
  <2>3. QED BY <1>1, <2>1, <2>2 DEF ChangeFolder
<1>4. JobInv'
  BY <1>1 DEF IInv, JobInv, service
<1>5. QED BY <1>1, <1>2, <1>3, <1>4, BesideStep, Trust DEF IInv, TypeInv, manifest, service

LEMMA DieStep == ASSUME IInv, Die PROVE IInv'
<1>1. /\ th' = [t \in Threads |-> Idle] /\ holder' = NoOne /\ loop' = Waiting
      /\ UNCHANGED <<disk, manifest, writes>>
  BY DEF Die
<1>2. /\ job' \in [id : Nat, status : Statuses] /\ job'.id = job.id /\ job'.status # "running"
      /\ queued' \in BOOLEAN /\ active' \in BOOLEAN /\ activeJob' \in {0, job'.id}
  BY DEF Die, Terminal, IInv, TypeInv, Statuses
<1>3. \A t \in Threads : th'[t] = Idle /\ Idle.pc = "idle"
  BY <1>1 DEF Idle
<1>4. TypeInv'
  BY <1>1, <1>2, EntriesTyped DEF IInv, TypeInv, disk, manifest
<1>5. TrustInv' /\ ApprovalInv'
  BY <1>1, Trust DEF IInv, TrustInv, Trusted, ApprovalInv, manifest
<1>6. JobInv'
  BY <1>1, <1>2 DEF JobInv, Waiting
<1>7. HolderInv' /\ EditInv' /\ GrantInv'
  BY <1>1, <1>3, SourceAuthorityAssumption
     DEF HolderInv, EditInv, EditOK, GrantInv, GrantOK, Granted
<1>8. QED BY <1>4, <1>5, <1>6, <1>7 DEF IInv

LEMMA StutterStep == ASSUME IInv, UNCHANGED vars PROVE IInv'
<1>1. JobInv'
  BY DEF IInv, JobInv, vars, service
<1>2. QED BY <1>1, BesideStep, Trust DEF IInv, TypeInv, vars, disk, manifest, service

LEMMA NextStep == IInv /\ [Next]_vars => IInv'
<1> SUFFICES ASSUME IInv, [Next]_vars PROVE IInv'
  OBVIOUS
<1>1. CASE JobThread
  BY <1>1, StartJobStep, ScanStep, CandidateStep, CommitStep, FailJobStep, FinishStep DEF JobThread
<1>2. ASSUME NEW t \in Threads, Thread(t) PROVE IInv'
  <2>1. CASE Rescan(t) \/ BeginInclusion(t) \/ SetInclusion(t) \/ BeginApproval(t) \/ Revalidate(t)
    BY <2>1, RescanStep, BeginInclusionStep, SetInclusionStep, BeginApprovalStep, RevalidateStep
  <2>2. CASE Approve(t) \/ SnapshotAuthority(t) \/ HoldAuthority(t)
    BY <2>2, ApproveStep, SnapshotStep, HoldStep
  <2>3. CASE Authorize(t) \/ OpenApproved(t)
    BY <2>3, ReadApprovedStep
  <2>4. CASE ExpireGrant(t) \/ PrepareParts(t) \/ UpsertPlans(t)
    BY <2>4, ReleaseStep, PrepareStep
  <2>5. QED BY <1>2, <2>1, <2>2, <2>3, <2>4 DEF Thread
<1>3. CASE ChangeFolder
  BY <1>3, FolderStep
<1>4. CASE Die
  BY <1>4, DieStep
<1>5. CASE Rest \/ UNCHANGED vars
  BY <1>5, StutterStep DEF Rest
<1>6. QED BY <1>1, <1>2, <1>3, <1>4, <1>5 DEF Next

(***************************************************************************)
(* What follows from it.                                                   *)
(***************************************************************************)
LEMMA InvariantHolds == Spec => []IInv
BY InitInv, NextStep, PTL DEF Spec

(* Every variable keeps its type, whatever the user, the folder, the scans *)
(* and the Workers do.                                                     *)
THEOREM TypeCorrect == Spec => []Types
<1>1. IInv => Types
  BY DEF IInv, TypeInv, Types, Drafts, Loops, Calls
<1>2. QED BY <1>1, InvariantHolds, PTL

(* An approval stands for what its user saw (approve, commit_scan,         *)
(* set_inclusion, mark_revision_attention): what counts as approved was    *)
(* read by an approval with that content, an approved workspace is the one *)
(* whose current draft was approved, hash by hash, and the authority lock  *)
(* is held by the call that reads or divides an approved source.           *)
THEOREM ApprovedIsSound == Spec => []ApprovedSound
<1>1. IInv => ApprovedSound
  <2> SUFFICES ASSUME IInv PROVE ApprovedSound
    OBVIOUS
  <2>1. Types
    BY DEF IInv, TypeInv, Types, Drafts, Loops, Calls
  <2>2. QED BY <2>1 DEF IInv, TrustInv, Trusted, ApprovalInv, JobInv, HolderInv, Granted, ApprovedSound
<1>2. QED BY <1>1, InvariantHolds, PTL

\* The bytes that are divided and planned, and what they are divided into.
SentBytes ==
    \A t \in Threads : th[t].pc \in {"prepare", "planned"} =>
        /\ AuthorityMatches(t) /\ Source(t) \in Included(approved.entries)
        /\ th[t].bytes = approval.hashes[Source(t)] /\ th[t].bytes \in Contents
        /\ th[t].pc = "planned" => th[t].parts = Prepared(th[t].bytes)

LEMMA SentFromInv == IInv => SentBytes
<1> SUFFICES ASSUME IInv, NEW t \in Threads, th[t].pc \in {"prepare", "planned"}
             PROVE  /\ AuthorityMatches(t) /\ Source(t) \in Included(approved.entries)
                    /\ th[t].bytes = approval.hashes[Source(t)] /\ th[t].bytes \in Contents
                    /\ th[t].pc = "planned" => th[t].parts = Prepared(th[t].bytes)
  BY DEF SentBytes
<1>1. GrantOK(th[t]) /\ th[t] \in Calls
  BY DEF IInv, GrantInv, TypeInv
<1>2. PICK e \in Included(approved.entries) : th[t].todo = {e}
  BY <1>1 DEF GrantOK, Granted
<1>3. Source(t) = e
  BY <1>2 DEF Source
<1>4. th[t].bytes = approval.hashes[e] /\ th[t].bytes \in Contents
  BY <1>1, <1>2 DEF GrantOK, Calls
<1>5. AuthorityMatches(t) /\ (th[t].pc = "planned" => th[t].parts = Prepared(th[t].bytes))
  BY <1>1 DEF GrantOK, Granted, AuthorityMatches
<1>6. QED BY <1>2, <1>3, <1>4, <1>5

(* While the bytes of a source are divided and planned they are those the  *)
(* user approved, under the approval in force, however the folder changes  *)
(* meanwhile (authorize, open_approved, prepare), and the plan is made of  *)
(* those bytes.                                                            *)
THEOREM OnlyApprovedBytes == Spec => []SentBytes
<1>1. QED BY SentFromInv, InvariantHolds, PTL

(***************************************************************************)
(* Induction over any measure, and recursion along one.                    *)
(***************************************************************************)
LEMMA Least ==
  ASSUME NEW S \in SUBSET Nat, S # {}
  PROVE  \E m \in S : \A k \in S : m <= k
<1>1. PICK m \in S : \A k \in S : ~(<<k, m>> \in OpToRel(<, Nat))
  BY NatLessThanWellFounded, WFMin
<1>2. \A k \in S : m <= k
  <2> SUFFICES ASSUME NEW k \in S, ~(m <= k) PROVE FALSE
    OBVIOUS
  <2>1. k \in Nat /\ m \in Nat /\ k < m
    OBVIOUS
  <2>2. <<k, m>> \in OpToRel(<, Nat)
    BY <2>1 DEF OpToRel
  <2> QED BY <1>1, <2>2
<1> QED BY <1>2

Closed(D, measure, B) ==
    \A e \in D : (\A d \in D : measure[d] < measure[e] => d \in B) => e \in B

LEMMA Induction ==
  ASSUME NEW D, NEW measure \in [D -> Nat], NEW B \in SUBSET D, Closed(D, measure, B)
  PROVE  B = D
<1> DEFINE Bad == {measure[e] : e \in D \ B}
<1>1. ASSUME D \ B # {} PROVE FALSE
  <2>1. Bad \in SUBSET Nat /\ Bad # {}
    BY <1>1
  <2>2. PICK m \in Bad : \A k \in Bad : m <= k
    <3> HIDE DEF Bad
    <3> QED BY <2>1, Least
  <2>3. PICK e \in D \ B : m = measure[e]
    OBVIOUS
  <2>4. \A d \in D : measure[d] < measure[e] => d \in B
    <3> SUFFICES ASSUME NEW d \in D \ B, measure[d] < measure[e] PROVE FALSE
      OBVIOUS
    <3>1. measure[d] \in Bad
      OBVIOUS
    <3>2. measure[e] <= measure[d] /\ measure[d] \in Nat /\ measure[e] \in Nat
      BY <2>2, <2>3, <3>1
    <3> QED BY <3>2
  <2> QED BY <2>4 DEF Closed
<1> QED BY <1>1

\* The same for the numbers up to n, one after the other.
LEMMA Upto ==
  ASSUME NEW n \in Nat, NEW B \in SUBSET (0..n), 0 \in B,
         \A i \in 1..n : i - 1 \in B => i \in B
  PROVE  B = 0..n
<1> DEFINE measure == [i \in 0..n |-> i]
<1>1. \A e \in 0..n : (\A d \in 0..n : measure[d] < measure[e] => d \in B) => e \in B
  <2> SUFFICES ASSUME NEW e \in 0..n, \A d \in 0..n : measure[d] < measure[e] => d \in B
               PROVE  e \in B
    OBVIOUS
  <2>1. CASE e = 0
    BY <2>1
  <2>2. CASE e # 0
    <3>1. e - 1 \in 0..n /\ measure[e - 1] < measure[e] /\ e \in 1..n
      BY <2>2
    <3> QED BY <3>1
  <2> QED BY <2>1, <2>2
<1>2. measure \in [0..n -> Nat]
  OBVIOUS
<1> HIDE DEF measure
<1>3. Closed(0..n, measure, B)
  BY <1>1 DEF Closed
<1> QED BY <1>2, <1>3, Induction

\* A recursion whose measure falls has a solution, stage by stage.
Solves(f, D, base, value, step, back) ==
    \A e \in D : f[e] = IF e \in base THEN value[e] ELSE step[e][f[back[e]]]

LEMMA Recursion ==
  ASSUME NEW D, NEW X, NEW measure \in [D -> Nat], NEW base \in SUBSET D,
         NEW value \in [D -> X], NEW step \in [D -> [X -> X]], NEW back \in [D -> D],
         \A e \in D \ base : measure[back[e]] < measure[e]
  PROVE  \E f \in [D -> X] : Solves(f, D, base, value, step, back)
<1> DEFINE Below(k) == {e \in D : measure[e] < k}
           Stage(k) == \E f \in [D -> X] : Solves(f, Below(k), base, value, step, back)
           Good == {k \in Nat : Stage(k)}
<1>1. Stage(0)
  <2>1. Below(0) = {}
    OBVIOUS
  <2> HIDE DEF Below
  <2>2. Solves(value, Below(0), base, value, step, back)
    BY <2>1 DEF Solves
  <2> QED BY <2>2
<1>2. ASSUME NEW k \in Nat, Stage(k) PROVE Stage(k + 1)
  <2>1. PICK f \in [D -> X] : Solves(f, Below(k), base, value, step, back)
    BY <1>2
  <2> DEFINE Next1(e) == IF e \in base THEN value[e] ELSE step[e][f[back[e]]]
             g == [e \in D |-> Next1(e)]
  <2>2. \A e \in D : Next1(e) \in X
    OBVIOUS
  <2>3. g \in [D -> X]
    <3> HIDE DEF Next1
    <3> QED BY <2>2
  <2>4. \A e \in Below(k) : g[e] = f[e]
    BY <2>1 DEF Solves
  <2>5. ASSUME NEW e \in Below(k + 1)
        PROVE  g[e] = IF e \in base THEN value[e] ELSE step[e][g[back[e]]]
    <3>1. e \in D /\ measure[e] < k + 1
      OBVIOUS
    <3>2. g[e] = Next1(e)
      BY <3>1
    <3>3. CASE e \in base
      BY <3>2, <3>3
    <3>4. CASE e \notin base
      <4>1. back[e] \in Below(k)
        <5>1. back[e] \in D /\ measure[back[e]] \in Nat /\ measure[e] \in Nat
          BY <3>1
        <5>2. measure[back[e]] < measure[e]
          BY <3>1, <3>4
        <5> QED BY <3>1, <5>1, <5>2
      <4>2. g[back[e]] = f[back[e]]
        BY <2>4, <4>1
      <4> QED BY <3>2, <3>4, <4>2
    <3> QED BY <3>3, <3>4
  <2> HIDE DEF g, Below
  <2>6. Solves(g, Below(k + 1), base, value, step, back)
    BY <2>5 DEF Solves
  <2> QED BY <2>3, <2>6
<1>3. \A k \in Nat : Stage(k)
  <2> HIDE DEF Stage
  <2>1. ASSUME NEW k \in Nat PROVE Stage(k)
    <3> DEFINE B == {i \in 0..k : Stage(i)}
    <3>1. 0 \in B /\ \A i \in 1..k : i - 1 \in B => i \in B
      <4>1. ASSUME NEW i \in 1..k, Stage(i - 1) PROVE Stage(i)
        <5>1. Stage((i - 1) + 1)
          BY <1>2, <4>1
        <5>2. (i - 1) + 1 = i
          OBVIOUS
        <5> QED BY <5>1, <5>2
      <4> QED BY <1>1, <4>1
    <3>2. B = 0..k
      <4>1. B \in SUBSET (0..k)
        OBVIOUS
      <4> HIDE DEF B
      <4> QED BY <3>1, <4>1, Upto
    <3> QED BY <3>2
  <2> QED BY <2>1
<1> DEFINE Sol(k) == CHOOSE f : f \in [D -> X] /\ Solves(f, Below(k), base, value, step, back)
           h == [e \in D |-> Sol(measure[e] + 1)[e]]
<1>4. \A k \in Nat : Sol(k) \in [D -> X] /\ Solves(Sol(k), Below(k), base, value, step, back)
  BY <1>3
<1> HIDE DEF Sol
<1>5. \A e \in D : \A j, k \in Nat : measure[e] < j /\ measure[e] < k => Sol(j)[e] = Sol(k)[e]
  <2> DEFINE Same(e) == \A j, k \in Nat : measure[e] < j /\ measure[e] < k => Sol(j)[e] = Sol(k)[e]
             B == {e \in D : Same(e)}
  <2>1. ASSUME NEW e \in D, \A d \in D : measure[d] < measure[e] => d \in B,
               NEW j \in Nat, NEW k \in Nat, measure[e] < j, measure[e] < k
        PROVE  Sol(j)[e] = Sol(k)[e]
    <3>1. e \in Below(j) /\ e \in Below(k)
      BY <2>1
    <3> HIDE DEF Below
    <3>2. /\ Sol(j)[e] = IF e \in base THEN value[e] ELSE step[e][Sol(j)[back[e]]]
          /\ Sol(k)[e] = IF e \in base THEN value[e] ELSE step[e][Sol(k)[back[e]]]
      BY <1>4, <3>1 DEF Solves
    <3>3. CASE e \in base
      BY <3>2, <3>3
    <3>4. CASE e \notin base
      <4>1. back[e] \in D /\ measure[back[e]] < measure[e] /\ measure[back[e]] \in Nat
            /\ measure[e] \in Nat
        BY <3>4
      <4>2. Same(back[e])
        BY <2>1, <4>1
      <4>3. measure[back[e]] < j /\ measure[back[e]] < k
        BY <2>1, <4>1
      <4>4. Sol(j)[back[e]] = Sol(k)[back[e]]
        BY <4>2, <4>3
      <4> QED BY <3>2, <3>4, <4>4
    <3> QED BY <3>3, <3>4
  <2>2. \A e \in D : (\A d \in D : measure[d] < measure[e] => d \in B) => e \in B
    BY <2>1
  <2>3. B = D
    <3>1. B \in SUBSET D
      OBVIOUS
    <3> HIDE DEF B
    <3>2. Closed(D, measure, B)
      BY <2>2 DEF Closed
    <3> QED BY <3>1, <3>2, Induction
  <2> QED BY <2>3
<1>6. \A e \in D : Sol(measure[e] + 1)[e] \in X
  <2> SUFFICES ASSUME NEW e \in D PROVE Sol(measure[e] + 1)[e] \in X
    OBVIOUS
  <2>1. measure[e] + 1 \in Nat
    OBVIOUS
  <2> QED BY <1>4, <2>1
<1>7. h \in [D -> X]
  BY <1>6
<1>8. ASSUME NEW e \in D
      PROVE  h[e] = IF e \in base THEN value[e] ELSE step[e][h[back[e]]]
  <2> DEFINE k == measure[e] + 1
  <2>1. k \in Nat /\ measure[e] \in Nat /\ measure[e] < k
    OBVIOUS
  <2>2. e \in Below(k)
    BY <2>1
  <2> HIDE DEF Below
  <2>3. Sol(k)[e] = IF e \in base THEN value[e] ELSE step[e][Sol(k)[back[e]]]
    BY <1>4, <2>1, <2>2 DEF Solves
  <2>4. h[e] = Sol(k)[e]
    OBVIOUS
  <2>5. CASE e \in base
    BY <2>3, <2>4, <2>5
  <2>6. CASE e \notin base
    <3>1. back[e] \in D /\ measure[back[e]] \in Nat /\ measure[back[e]] < measure[e]
      BY <2>6
    <3>2. Sol(measure[back[e]] + 1)[back[e]] = Sol(k)[back[e]]
      <4>1. measure[back[e]] + 1 \in Nat /\ measure[back[e]] < measure[back[e]] + 1
            /\ measure[back[e]] < k
        BY <2>1, <3>1
      <4> QED BY <1>5, <2>1, <3>1, <4>1
    <3>3. h[back[e]] = Sol(k)[back[e]]
      BY <3>1, <3>2
    <3> QED BY <2>3, <2>4, <2>6, <3>3
  <2> QED BY <2>5, <2>6
<1> HIDE DEF h
<1>9. Solves(h, D, base, value, step, back)
  BY <1>8 DEF Solves
<1> QED BY <1>7, <1>9

\* A recursion that counts up from 0.
Counts(f, n, first, step) == f[0] = first /\ \A i \in 1..n : f[i] = step[i][f[i-1]]

LEMMA Counting ==
  ASSUME NEW n \in Nat, NEW X, NEW first \in X, NEW step \in [1..n -> [X -> X]]
  PROVE  \E f \in [0..n -> X] : Counts(f, n, first, step)
<1> DEFINE measure == [i \in 0..n |-> i]
           value == [i \in 0..n |-> first]
           steps == [i \in 0..n |-> IF i = 0 THEN [x \in X |-> x] ELSE step[i]]
           back == [i \in 0..n |-> IF i = 0 THEN 0 ELSE i - 1]
<1>1. /\ measure \in [0..n -> Nat] /\ value \in [0..n -> X] /\ back \in [0..n -> 0..n]
      /\ {0} \in SUBSET (0..n)
  OBVIOUS
<1>2. steps \in [0..n -> [X -> X]]
  OBVIOUS
<1>3. \A e \in (0..n) \ {0} : measure[back[e]] < measure[e]
  OBVIOUS
<1>4. /\ \A i \in 1..n : steps[i] = step[i] /\ back[i] = i - 1 /\ i \in 0..n
      /\ value[0] = first /\ 0 \in 0..n
  OBVIOUS
<1> HIDE DEF measure, value, steps, back
<1>5. PICK f \in [0..n -> X] : Solves(f, 0..n, {0}, value, steps, back)
  BY <1>1, <1>2, <1>3, Recursion
<1>6. Counts(f, n, first, step)
  <2>0. \A e \in 0..n : f[e] = IF e \in {0} THEN value[e] ELSE steps[e][f[back[e]]]
    BY <1>5 DEF Solves
  <2>1. f[0] = first
    BY <1>4, <2>0
  <2>2. \A i \in 1..n : f[i] = step[i][f[i-1]]
    <3>1. \A i \in 1..n : i \notin {0}
      OBVIOUS
    <3> QED BY <1>4, <2>0, <3>1
  <2> QED BY <2>1, <2>2 DEF Counts
<1> QED BY <1>6
(***************************************************************************)
(* Sums, which are folds in an order that is not known.                    *)
(***************************************************************************)
Sum(f, S) == FoldFunctionOnSet(LAMBDA s, sum : s + sum, 0, f, S)
SumStep(f, it, s) == IF s = {} THEN 0 ELSE LET x == CHOOSE y \in s : TRUE IN f[x] + it[s \ {x}]
SumsTo(it, f, S) == it = [s \in SUBSET S |-> SumStep(f, it, s)]

LEMMA SumIs ==
  ASSUME NEW f, NEW S
  PROVE  Sum(f, S) = (CHOOSE it : SumsTo(it, f, S))[S]
BY DEF Sum, FoldFunctionOnSet, MapThenFoldSet, SumsTo, SumStep

\* The elements may be added in any order.
Adds(it, f, S) ==
    /\ it \in [SUBSET S -> Nat] /\ it[{}] = 0
    /\ \A s \in SUBSET S : \A x \in s : it[s] = f[x] + it[s \ {x}]

LEMMA SizeMeasure ==
  ASSUME NEW S, IsFiniteSet(S)
  PROVE  /\ [s \in SUBSET S |-> Cardinality(s)] \in [SUBSET S -> Nat]
         /\ \A s \in SUBSET S : IsFiniteSet(s) /\ Cardinality(s) \in Nat
         /\ \A s \in SUBSET S : \A x \in s : Cardinality(s \ {x}) < Cardinality(s)
<1>1. \A s \in SUBSET S : IsFiniteSet(s) /\ Cardinality(s) \in Nat
  BY FS_Subset, FS_CardinalityType
<1>2. ASSUME NEW s \in SUBSET S, NEW x \in s PROVE Cardinality(s \ {x}) < Cardinality(s)
  <2>1. Cardinality(s \ {x}) = Cardinality(s) - 1
    BY <1>1, FS_RemoveElement
  <2> QED BY <1>1, <2>1
<1> QED BY <1>1, <1>2

LEMMA SumExists ==
  ASSUME NEW S, IsFiniteSet(S), NEW f, \A x \in S : f[x] \in Nat
  PROVE  \E it \in [SUBSET S -> Nat] : SumsTo(it, f, S)
<1> DEFINE measure == [s \in SUBSET S |-> Cardinality(s)]
           x(s) == CHOOSE y \in s : TRUE
           value == [s \in SUBSET S |-> 0]
           step == [s \in SUBSET S |-> IF s = {} THEN [k \in Nat |-> k]
                                      ELSE [k \in Nat |-> f[x(s)] + k]]
           back == [s \in SUBSET S |-> s \ {x(s)}]
<1>1. \A s \in SUBSET S : s # {} => x(s) \in s
  OBVIOUS
<1> HIDE DEF x
<1>2. measure \in [SUBSET S -> Nat] /\ value \in [SUBSET S -> Nat] /\ {{}} \in SUBSET SUBSET S
  BY SizeMeasure
<1>3. step \in [SUBSET S -> [Nat -> Nat]]
  <2>1. \A s \in SUBSET S : s # {} => [k \in Nat |-> f[x(s)] + k] \in [Nat -> Nat]
    BY <1>1
  <2>2. [k \in Nat |-> k] \in [Nat -> Nat]
    OBVIOUS
  <2> QED BY <2>1, <2>2
<1>4. back \in [SUBSET S -> SUBSET S]
  OBVIOUS
<1>5. \A s \in (SUBSET S) \ {{}} : measure[back[s]] < measure[s]
  BY <1>1, SizeMeasure
<1>6. \A s \in SUBSET S : s # {} => \A k \in Nat : step[s][k] = f[x(s)] + k
  OBVIOUS
<1>7. \A s \in SUBSET S : back[s] = s \ {x(s)} /\ value[s] = 0
  OBVIOUS
<1> HIDE DEF measure, step, back, value
<1>8. PICK it \in [SUBSET S -> Nat] : Solves(it, SUBSET S, {{}}, value, step, back)
  BY <1>2, <1>3, <1>4, <1>5, Recursion
<1>9. ASSUME NEW s \in SUBSET S PROVE it[s] = SumStep(f, it, s)
  <2>1. it[s] = IF s \in {{}} THEN value[s] ELSE step[s][it[back[s]]]
    BY <1>8 DEF Solves
  <2>2. CASE s = {}
    BY <1>7, <2>1, <2>2 DEF SumStep
  <2>3. CASE s # {}
    <3>1. it[s] = f[x(s)] + it[s \ {x(s)}]
      <4>1. back[s] \in SUBSET S /\ it[back[s]] \in Nat
        BY <1>4
      <4>2. step[s][it[back[s]]] = f[x(s)] + it[back[s]]
        BY <1>6, <2>3, <4>1
      <4> QED BY <1>7, <2>1, <2>3, <4>2
    <3> QED BY <2>3, <3>1 DEF SumStep, x
  <2> QED BY <2>2, <2>3
<1>10. SumsTo(it, f, S)
  BY <1>8, <1>9 DEF SumsTo
<1> QED BY <1>10

LEMMA SumAdds ==
  ASSUME NEW S, IsFiniteSet(S), NEW f, \A x \in S : f[x] \in Nat
  PROVE  \E it : Adds(it, f, S) /\ it[S] = Sum(f, S)
<1> DEFINE it == CHOOSE it : SumsTo(it, f, S)
<1>1. SumsTo(it, f, S)
  BY SumExists
<1>2. Sum(f, S) = it[S]
  BY SumIs
<1> HIDE DEF it
<1>3. it = [s \in SUBSET S |-> SumStep(f, it, s)]
  BY <1>1 DEF SumsTo
<1>4. \A s \in SUBSET S : it[s] = SumStep(f, it, s)
  BY <1>3
<1>5. it[{}] = 0
  BY <1>4 DEF SumStep
<1>6. ASSUME NEW s \in SUBSET S, s # {} PROVE \E y \in s : it[s] = f[y] + it[s \ {y}]
  <2> DEFINE y == CHOOSE y \in s : TRUE
  <2>1. y \in s
    BY <1>6
  <2>2. it[s] = f[y] + it[s \ {y}]
    BY <1>4, <1>6 DEF SumStep
  <2> HIDE DEF y
  <2> QED BY <2>1, <2>2
<1> DEFINE measure == [s \in SUBSET S |-> Cardinality(s)]
           Exact(s) == it[s] \in Nat /\ \A x \in s : it[s] = f[x] + it[s \ {x}]
           B == {s \in SUBSET S : Exact(s)}
<1>7. ASSUME NEW s \in SUBSET S, \A t \in SUBSET S : measure[t] < measure[s] => t \in B
      PROVE  Exact(s)
  <2>1. CASE s = {}
    BY <1>5, <2>1
  <2>2. CASE s # {}
    <3>1. PICK y \in s : it[s] = f[y] + it[s \ {y}]
      BY <1>6, <2>2
    <3>2. ASSUME NEW z \in s PROVE Exact(s \ {z})
      <4>1. s \ {z} \in SUBSET S /\ measure[s \ {z}] < measure[s]
        BY SizeMeasure
      <4> QED BY <1>7, <4>1
    <3>3. it[s] \in Nat
      BY <3>1, <3>2
    <3>4. ASSUME NEW z \in s, z # y PROVE it[s] = f[z] + it[s \ {z}]
      <4> DEFINE rest == s \ {y, z}
      <4>1. (s \ {y}) \ {z} = rest /\ (s \ {z}) \ {y} = rest /\ z \in s \ {y} /\ y \in s \ {z}
        BY <3>4
      <4>2. it[s \ {y}] = f[z] + it[rest] /\ it[s \ {z}] = f[y] + it[rest]
        BY <3>2, <4>1
      <4>3. it[rest] \in Nat
        <5>1. rest \in SUBSET S /\ measure[rest] < measure[s]
          <6>1. measure[rest] < measure[s \ {y}] /\ measure[s \ {y}] < measure[s]
            BY <4>1, SizeMeasure
          <6>2. measure[rest] \in Nat /\ measure[s \ {y}] \in Nat /\ measure[s] \in Nat
            BY SizeMeasure
          <6> HIDE DEF measure
          <6> QED BY <6>1, <6>2
        <5> QED BY <1>7, <5>1
      <4>4. f[y] \in Nat /\ f[z] \in Nat
        OBVIOUS
      <4> HIDE DEF rest
      <4> QED BY <3>1, <4>2, <4>3, <4>4
    <3> QED BY <3>1, <3>3, <3>4
  <2> QED BY <2>1, <2>2
<1>8. B = SUBSET S
  <2>1. Closed(SUBSET S, measure, B)
    BY <1>7 DEF Closed
  <2>2. measure \in [SUBSET S -> Nat] /\ B \in SUBSET SUBSET S
    BY SizeMeasure
  <2> HIDE DEF B, measure
  <2> QED BY <2>1, <2>2, Induction
<1>9. Adds(it, f, S)
  <2>1. it \in [SUBSET S -> Nat]
    BY <1>3, <1>8
  <2> QED BY <1>5, <1>8, <2>1 DEF Adds
<1> QED BY <1>2, <1>9

LEMMA AddsOnce ==
  ASSUME NEW S, IsFiniteSet(S), NEW f, NEW g, \A x \in S : f[x] = g[x],
         NEW it, NEW jt, Adds(it, f, S), Adds(jt, g, S)
  PROVE  it[S] = jt[S]
<1> DEFINE measure == [s \in SUBSET S |-> Cardinality(s)]
           B == {s \in SUBSET S : it[s] = jt[s]}
<1>1. ASSUME NEW s \in SUBSET S, \A t \in SUBSET S : measure[t] < measure[s] => t \in B
      PROVE  it[s] = jt[s]
  <2>1. CASE s = {}
    BY <2>1 DEF Adds
  <2>2. CASE s # {}
    <3>1. PICK x \in s : TRUE
      BY <2>2
    <3>2. s \ {x} \in SUBSET S /\ measure[s \ {x}] < measure[s]
      BY SizeMeasure
    <3>3. it[s \ {x}] = jt[s \ {x}]
      BY <1>1, <3>2
    <3>4. it[s] = f[x] + it[s \ {x}] /\ jt[s] = g[x] + jt[s \ {x}]
      BY DEF Adds
    <3> QED BY <3>3, <3>4
  <2> QED BY <2>1, <2>2
<1>2. B = SUBSET S
  <2>1. Closed(SUBSET S, measure, B)
    BY <1>1 DEF Closed
  <2>2. measure \in [SUBSET S -> Nat] /\ B \in SUBSET SUBSET S
    BY SizeMeasure
  <2> HIDE DEF B, measure
  <2> QED BY <2>1, <2>2, Induction
<1> QED BY <1>2

LEMMA SumFacts ==
  ASSUME NEW S, IsFiniteSet(S), NEW f, \A x \in S : f[x] \in Nat
  PROVE  /\ Sum(f, S) \in Nat /\ (S = {} => Sum(f, S) = 0)
         /\ \A x \in S : Sum(f, S) = f[x] + Sum(f, S \ {x})
         /\ \A g : (\A x \in S : f[x] = g[x]) => Sum(g, S) = Sum(f, S)
<1>1. PICK it : Adds(it, f, S) /\ it[S] = Sum(f, S)
  BY SumAdds
<1>2. Sum(f, S) \in Nat /\ (S = {} => Sum(f, S) = 0)
  BY <1>1 DEF Adds
<1>3. ASSUME NEW x \in S PROVE Sum(f, S) = f[x] + Sum(f, S \ {x})
  <2> DEFINE T == S \ {x}
             jt == [s \in SUBSET T |-> it[s]]
  <2>1. IsFiniteSet(T) /\ \A y \in T : f[y] \in Nat
    BY FS_Subset
  <2>2. PICK kt : Adds(kt, f, T) /\ kt[T] = Sum(f, T)
    BY <2>1, SumAdds
  <2>3. Adds(jt, f, T)
    <3>1. /\ \A s \in SUBSET T : s \in SUBSET S
          /\ \A s \in SUBSET T : \A y \in s : s \ {y} \in SUBSET T
      OBVIOUS
    <3>2. jt \in [SUBSET T -> Nat] /\ jt[{}] = 0
      BY <1>1, <3>1 DEF Adds
    <3>3. \A s \in SUBSET T : \A y \in s : jt[s] = f[y] + jt[s \ {y}]
      BY <1>1, <3>1 DEF Adds
    <3> QED BY <3>2, <3>3 DEF Adds
  <2>4. jt[T] = kt[T]
    <3> HIDE DEF jt, T
    <3> QED BY <2>1, <2>2, <2>3, AddsOnce
  <2>5. it[S] = f[x] + it[T]
    BY <1>1 DEF Adds
  <2> QED BY <1>1, <2>2, <2>4, <2>5
<1>4. ASSUME NEW g, \A x \in S : f[x] = g[x] PROVE Sum(g, S) = Sum(f, S)
  <2>1. \A x \in S : g[x] \in Nat
    BY <1>4
  <2>2. PICK jt : Adds(jt, g, S) /\ jt[S] = Sum(g, S)
    BY <2>1, SumAdds
  <2> QED BY <1>1, <1>4, <2>2, AddsOnce
<1> QED BY <1>2, <1>3, <1>4
(***************************************************************************)
(* The size of consecutive units.                                          *)
(***************************************************************************)
LEMMA SizeFacts ==
  ASSUME NEW f, NEW i \in Int, NEW j \in Int, \A k \in i..j : f[k] \in Nat
  PROVE  /\ Size(f, i, j) \in Nat /\ (j < i => Size(f, i, j) = 0)
         /\ i <= j => Size(f, i, j) = Size(f, i, j - 1) + f[j]
         /\ i <= j => Size(f, i, j) = f[i] + Size(f, i + 1, j)
         /\ \A g : (\A k \in i..j : f[k] = g[k]) => Size(g, i, j) = Size(f, i, j)
<1>1. \A g, a, b : Size(g, a, b) = Sum(g, a..b)
  BY DEF Size, Sum
<1>2. IsFiniteSet(i..j)
  BY FS_Interval
<1>3. Size(f, i, j) \in Nat /\ (j < i => Size(f, i, j) = 0)
  <2>1. j < i => i..j = {}
    OBVIOUS
  <2> QED BY <1>1, <1>2, <2>1, SumFacts
<1>4. ASSUME i <= j
      PROVE  Size(f, i, j) = Size(f, i, j - 1) + f[j] /\ Size(f, i, j) = f[i] + Size(f, i + 1, j)
  <2>1. j \in i..j /\ i \in i..j /\ (i..j) \ {j} = i..(j - 1) /\ (i..j) \ {i} = (i + 1)..j
    BY <1>4
  <2>2. \A x \in i..j : Sum(f, i..j) = f[x] + Sum(f, (i..j) \ {x})
    BY <1>2, SumFacts
  <2>3. IsFiniteSet(i..(j - 1)) /\ \A k \in i..(j - 1) : f[k] \in Nat
    BY FS_Interval
  <2>4. Sum(f, i..(j - 1)) \in Nat /\ f[j] \in Nat
    BY <2>1, <2>3, SumFacts
  <2>5. Size(f, i, j) = f[j] + Size(f, i, j - 1)
    <3>1. Sum(f, i..j) = f[j] + Sum(f, (i..j) \ {j})
      BY <2>1, <2>2
    <3> QED BY <1>1, <2>1, <3>1
  <2>6. Size(f, i, j) = f[i] + Size(f, i + 1, j)
    <3>1. Sum(f, i..j) = f[i] + Sum(f, (i..j) \ {i})
      BY <2>1, <2>2
    <3> QED BY <1>1, <2>1, <3>1
  <2>7. Size(f, i, j - 1) \in Nat
    BY <1>1, <2>4
  <2> QED BY <2>4, <2>5, <2>6, <2>7
<1>5. \A g : (\A k \in i..j : f[k] = g[k]) => Size(g, i, j) = Size(f, i, j)
  BY <1>1, <1>2, SumFacts
<1> QED BY <1>3, <1>4, <1>5

LEMMA SizeSplit ==
  ASSUME NEW f, NEW i \in Int, NEW j \in Int, \A k \in i..j : f[k] \in Nat,
         NEW m \in Int, i <= m + 1, m <= j
  PROVE  /\ Size(f, i, j) = Size(f, i, m) + Size(f, m + 1, j)
         /\ Size(f, i, j) \in Nat /\ Size(f, i, m) \in Nat /\ Size(f, m + 1, j) \in Nat
<1> DEFINE Splits(k) == Size(f, i, m + k) = Size(f, i, m) + Size(f, m + 1, m + k)
           B == {k \in 0..(j - m) : Splits(k)}
<1>0. j - m \in Nat /\ \A k \in 0..(j - m) : m + k \in Int /\ m + k <= j
  OBVIOUS
<1>1. \A b \in Int : b <= j => /\ \A k \in i..b : f[k] \in Nat
                              /\ \A k \in (m + 1)..b : f[k] \in Nat
  OBVIOUS
<1>2. \A b \in Int : b <= j => Size(f, i, b) \in Nat /\ Size(f, m + 1, b) \in Nat
  BY <1>1, SizeFacts
<1>3. 0 \in B
  <2>1. Size(f, m + 1, m) = 0
    BY <1>1, SizeFacts
  <2> QED BY <1>0, <1>2, <2>1
<1>4. ASSUME NEW k \in 1..(j - m), Splits(k - 1) PROVE Splits(k)
  <2> DEFINE b == m + k
  <2>1. b \in Int /\ b <= j /\ i <= b /\ m + 1 <= b /\ b - 1 = m + (k - 1) /\ b - 1 <= j
    OBVIOUS
  <2> HIDE DEF b
  <2>2. Size(f, i, b) = Size(f, i, b - 1) + f[b] /\ Size(f, m + 1, b) = Size(f, m + 1, b - 1) + f[b]
    BY <1>1, <2>1, SizeFacts
  <2>3. f[b] \in Nat /\ Size(f, i, b - 1) \in Nat /\ Size(f, m + 1, b - 1) \in Nat /\ Size(f, i, m) \in Nat
    BY <1>1, <1>2, <2>1
  <2>4. Size(f, i, b - 1) = Size(f, i, m) + Size(f, m + 1, b - 1)
    BY <1>4, <2>1
  <2>5. Size(f, i, b) = Size(f, i, m) + Size(f, m + 1, b)
    BY <2>2, <2>3, <2>4
  <2> QED BY <2>5 DEF b
<1>5. B = 0..(j - m)
  <2>1. B \in SUBSET (0..(j - m)) /\ \A k \in 1..(j - m) : k - 1 \in B => k \in B
    BY <1>4
  <2> HIDE DEF B
  <2> QED BY <1>0, <1>3, <2>1, Upto
<1>6. Splits(j - m)
  BY <1>0, <1>5
<1>7. m + (j - m) = j
  OBVIOUS
<1> QED BY <1>2, <1>6, <1>7

LEMMA SizeGrows ==
  ASSUME NEW f, NEW i \in Int, NEW j \in Int, \A k \in i..j : f[k] \in Nat,
         NEW a \in i..j, NEW b \in a..j
  PROVE  Size(f, a, b) <= Size(f, i, j) /\ Size(f, a, b) \in Nat /\ Size(f, i, j) \in Nat
         /\ f[a] <= Size(f, a, b)
<1>1. \A k \in a..j : f[k] \in Nat
  OBVIOUS
<1>2. /\ Size(f, i, j) = Size(f, i, a - 1) + Size(f, (a - 1) + 1, j)
      /\ Size(f, i, j) \in Nat /\ Size(f, i, a - 1) \in Nat
  <2> DEFINE m == a - 1
  <2>1. m \in Int /\ i <= m + 1 /\ m <= j
    OBVIOUS
  <2> HIDE DEF m
  <2>2. Size(f, i, j) = Size(f, i, m) + Size(f, m + 1, j)
        /\ Size(f, i, j) \in Nat /\ Size(f, i, m) \in Nat
    BY <2>1, SizeSplit
  <2> QED BY <2>2 DEF m
<1>3. Size(f, a, j) = Size(f, a, b) + Size(f, b + 1, j)
      /\ Size(f, a, j) \in Nat /\ Size(f, a, b) \in Nat /\ Size(f, b + 1, j) \in Nat
  BY <1>1, SizeSplit
<1>4. f[a] <= Size(f, a, b)
  <2>1. \A k \in a..b : f[k] \in Nat
    OBVIOUS
  <2>2. Size(f, a, b) = f[a] + Size(f, a + 1, b) /\ f[a] \in Nat
    BY <2>1, SizeFacts
  <2>3. Size(f, a + 1, b) \in Nat
    <3>1. \A k \in (a + 1)..b : f[k] \in Nat
      OBVIOUS
    <3> QED BY <3>1, SizeFacts
  <2> QED BY <2>2, <2>3
<1>5. (a - 1) + 1 = a
  OBVIOUS
<1> QED BY <1>2, <1>3, <1>4, <1>5

LEMMA SizePositive ==
  ASSUME NEW f, NEW i \in Int, NEW j \in Int, i <= j, \A k \in i..j : f[k] \in Positive
  PROVE  Size(f, i, j) \in Positive
<1>1. \A k \in i..j : f[k] \in Nat
  BY DEF Positive
<1>2. f[i] <= Size(f, i, j) /\ Size(f, i, j) \in Nat /\ f[i] \in Positive
  BY <1>1, SizeGrows
<1> QED BY <1>2 DEF Positive
(***************************************************************************)
(* Lines and rows.  What has been packed so far, with the part that is not *)
(* full yet, covers what has been read so far.                             *)
(***************************************************************************)
TextPart == [of : {0}, kind : {"units"}, first : Nat, last : Nat, overlap : Nat]
PackState == [parts : Seq(TextPart), first : Positive, size : Nat, overlap : Nat]

PackStep(sizes, most, pack, i) ==
    IF i = 0 THEN Packing(<<>>, 1, 0, 0) ELSE AddUnit(sizes, pack[i-1], i, most)
Packs(pack, sizes, most) == pack = [i \in 0..Len(sizes) |-> PackStep(sizes, most, pack, i)]

LEMMA PackedIs ==
  ASSUME NEW sizes, NEW most
  PROVE  Packed(sizes, most) =
           IF sizes = <<>> \/ \E i \in DOMAIN sizes : sizes[i] > MaxPart THEN Refused
           ELSE Staged((CHOOSE pack : Packs(pack, sizes, most))[Len(sizes)], Len(sizes) + 1)
BY DEF Packed, Packs, PackStep

LEMMA KeptFacts ==
  ASSUME NEW sizes \in Seq(Positive), NEW most \in 0..2, NEW i \in 1..Len(sizes),
         NEW first \in 1..i
  PROVE  LET kept == Kept(sizes, i, first, most)
         IN  /\ kept \in 0..most /\ kept <= i - first
             /\ KeptSize(sizes, i, kept) = Size(sizes, i - kept, i - 1)
             /\ KeptSize(sizes, i, kept) \in Nat
             /\ kept > 0 => KeptSize(sizes, i, kept) + sizes[i] <= MaxPart
<1> DEFINE kept == Kept(sizes, i, first, most)
<1>1. \A k \in 1..i : sizes[k] \in Nat
  BY DEF Positive
<1>2. kept \in 0..most /\ kept <= i - first /\ kept \in {0, 1, 2}
  BY DEF Kept
<1>3. CASE kept = 0
  <2>1. KeptSize(sizes, i, kept) = 0
    BY <1>3 DEF KeptSize
  <2>2. Size(sizes, i - 0, i - 1) = 0
    <3>1. \A k \in i..(i - 1) : sizes[k] \in Nat
      OBVIOUS
    <3> QED BY <3>1, SizeFacts
  <2> HIDE DEF kept
  <2> QED BY <1>2, <1>3, <2>1, <2>2 DEF kept
<1>4. CASE kept = 1
  <2>1. i - 1 \in 1..i /\ sizes[i-1] + sizes[i] <= MaxPart
    BY <1>2, <1>4 DEF Kept
  <2>2. KeptSize(sizes, i, kept) = sizes[i-1]
    BY <1>4 DEF KeptSize
  <2>3. Size(sizes, i - 1, i - 1) = sizes[i-1]
    <3>1. \A k \in (i - 1)..(i - 1) : sizes[k] \in Nat
      BY <1>1, <2>1
    <3>2. Size(sizes, i - 1, i - 1) = sizes[i-1] + Size(sizes, (i - 1) + 1, i - 1) /\ sizes[i-1] \in Nat
      BY <2>1, <3>1, SizeFacts
    <3>3. Size(sizes, (i - 1) + 1, i - 1) = 0
      <4>1. \A k \in ((i - 1) + 1)..(i - 1) : sizes[k] \in Nat
        OBVIOUS
      <4> QED BY <4>1, SizeFacts
    <3> QED BY <3>2, <3>3
  <2> HIDE DEF kept
  <2> QED BY <1>1, <1>2, <1>4, <2>1, <2>2, <2>3 DEF kept
<1>5. CASE kept = 2
  <2>1. i - 2 \in 1..i /\ i - 1 \in 1..i /\ sizes[i-2] + sizes[i-1] + sizes[i] <= MaxPart
    BY <1>2, <1>5 DEF Kept
  <2>2. KeptSize(sizes, i, kept) = sizes[i-2] + sizes[i-1]
    BY <1>5 DEF KeptSize
  <2>3. Size(sizes, i - 2, i - 1) = sizes[i-2] + sizes[i-1]
    <3>1. \A k \in (i - 2)..(i - 1) : sizes[k] \in Nat
      BY <1>1, <2>1
    <3>2. Size(sizes, i - 2, i - 1) = sizes[i-2] + Size(sizes, (i - 2) + 1, i - 1)
      BY <2>1, <3>1, SizeFacts
    <3>3. Size(sizes, i - 1, i - 1) = sizes[i-1] + Size(sizes, (i - 1) + 1, i - 1) /\ sizes[i-1] \in Nat
      <4>1. \A k \in (i - 1)..(i - 1) : sizes[k] \in Nat
        BY <1>1, <2>1
      <4> QED BY <2>1, <4>1, SizeFacts
    <3>4. Size(sizes, (i - 1) + 1, i - 1) = 0
      <4>1. \A k \in ((i - 1) + 1)..(i - 1) : sizes[k] \in Nat
        OBVIOUS
      <4> QED BY <4>1, SizeFacts
    <3>5. (i - 2) + 1 = i - 1 /\ sizes[i-1] \in Nat /\ sizes[i-2] \in Nat
      BY <1>1, <2>1
    <3> QED BY <3>2, <3>3, <3>4, <3>5
  <2>4. sizes[i-1] \in Nat /\ sizes[i-2] \in Nat /\ sizes[i] \in Nat
    BY <1>1, <2>1
  <2> HIDE DEF kept
  <2> QED BY <1>2, <1>5, <2>1, <2>2, <2>3, <2>4 DEF kept
<1> QED BY <1>2, <1>3, <1>4, <1>5

LEMMA AddUnitTyped ==
  ASSUME NEW sizes \in Seq(Positive), NEW most \in 0..2, NEW i \in 1..Len(sizes),
         NEW acc \in PackState
  PROVE  AddUnit(sizes, acc, i, most) \in PackState
<1>1. sizes[i] \in Nat
  BY DEF Positive
<1>2. CASE acc.first < i /\ acc.size + sizes[i] > MaxPart
  <2> DEFINE kept == Kept(sizes, i, acc.first, most)
  <2>1. acc.first \in 1..i
    BY <1>2 DEF PackState, Positive
  <2>2. kept \in 0..most /\ kept <= i - acc.first /\ KeptSize(sizes, i, kept) \in Nat
    BY <2>1, KeptFacts
  <2> HIDE DEF kept
  <2>3. i - kept \in Positive /\ KeptSize(sizes, i, kept) + sizes[i] \in Nat /\ kept \in Nat
    BY <1>1, <2>1, <2>2 DEF Positive
  <2>4. Staged(acc, i) \in Seq(TextPart)
    <3>1. Units(acc.first, i - 1, acc.overlap) \in TextPart /\ acc.parts \in Seq(TextPart)
      BY DEF Units, TextPart, PackState, Positive
    <3> QED BY <3>1 DEF Staged
  <2>5. AddUnit(sizes, acc, i, most) =
          Packing(Staged(acc, i), i - kept, KeptSize(sizes, i, kept) + sizes[i], kept)
    BY <1>2 DEF AddUnit, kept
  <2> QED BY <2>3, <2>4, <2>5 DEF Packing, PackState
<1>3. CASE ~(acc.first < i /\ acc.size + sizes[i] > MaxPart)
  <2>1. AddUnit(sizes, acc, i, most) = Packing(acc.parts, acc.first, acc.size + sizes[i], acc.overlap)
    BY <1>3 DEF AddUnit
  <2> QED BY <1>1, <2>1 DEF Packing, PackState
<1> QED BY <1>2, <1>3

LEMMA PackExists ==
  ASSUME NEW sizes \in Seq(Positive), NEW most \in 0..2
  PROVE  \E pack : Packs(pack, sizes, most)
<1> DEFINE n == Len(sizes)
           step == [i \in 1..n |-> [acc \in PackState |-> AddUnit(sizes, acc, i, most)]]
           start == Packing(<<>>, 1, 0, 0)
<1>1. n \in Nat /\ start \in PackState
  BY DEF Packing, PackState, Positive
<1>2. step \in [1..n -> [PackState -> PackState]]
  BY AddUnitTyped
<1>3. \A i \in 1..n : \A acc \in PackState : step[i][acc] = AddUnit(sizes, acc, i, most)
  OBVIOUS
<1> HIDE DEF step, n, start
<1>4. PICK pack \in [0..n -> PackState] : Counts(pack, n, start, step)
  BY <1>1, <1>2, Counting
<1>5. ASSUME NEW i \in 0..n PROVE pack[i] = PackStep(sizes, most, pack, i)
  <2>1. CASE i = 0
    BY <1>4, <2>1 DEF Counts, PackStep, start
  <2>2. CASE i # 0
    <3>1. i \in 1..n /\ pack[i-1] \in PackState
      BY <1>1, <1>4, <2>2
    <3> QED BY <1>3, <1>4, <2>2, <3>1 DEF Counts, PackStep
  <2> QED BY <2>1, <2>2
<1>6. Packs(pack, sizes, most)
  BY <1>4, <1>5 DEF Packs, n
<1> QED BY <1>6
\* A part that is not too large, and what makes it the one after another.
Fits(sizes, p, most) ==
    /\ Size(sizes, p.first, p.last) <= MaxPart
    /\ p.overlap \in 0..most /\ p.overlap < UnitsOfPart(p)
Linked(sizes, p, q) ==
    /\ q.first + q.overlap = p.last + 1 /\ q.first >= p.first
    /\ Size(sizes, p.first, p.last + 1) > MaxPart
Chain(sizes, parts, n, most) ==
    /\ parts \in Seq(TextPart) /\ parts # <<>>
    /\ parts[1].first = 1 /\ parts[1].overlap = 0 /\ parts[Len(parts)].last = n
    /\ \A k \in 1..Len(parts) : Fits(sizes, parts[k], most)
    /\ \A k \in 2..Len(parts) : Linked(sizes, parts[k-1], parts[k])

LEMMA ChainCovers ==
  ASSUME NEW sizes \in Seq(Positive), sizes # <<>>, \A i \in DOMAIN sizes : sizes[i] <= MaxPart,
         NEW most \in 0..2, NEW parts, Chain(sizes, parts, Len(sizes), most)
  PROVE  Covers(sizes, parts, most)
<1>1. \A i \in DOMAIN sizes : ~(sizes[i] > MaxPart)
  BY SourcePartsAssumption DEF Positive
<1>2. DOMAIN parts = 1..Len(parts) /\ Len(parts) \in Nat
  BY DEF Chain
<1>3. \A k \in DOMAIN parts : Fits(sizes, parts[k], most)
                             /\ (k > 1 => Linked(sizes, parts[k-1], parts[k]))
  <2> SUFFICES ASSUME NEW k \in 1..Len(parts)
               PROVE  Fits(sizes, parts[k], most) /\ (k > 1 => Linked(sizes, parts[k-1], parts[k]))
    BY <1>2
  <2>1. k > 1 => k \in 2..Len(parts)
    BY <1>2
  <2> QED BY <2>1 DEF Chain
<1> QED BY <1>1, <1>3 DEF Covers, Chain, Fits, Linked

LEMMA ChainAppend ==
  ASSUME NEW sizes, NEW most, NEW parts, NEW m, NEW q \in TextPart,
         \/ parts = <<>> /\ q.first = 1 /\ q.overlap = 0
         \/ Chain(sizes, parts, m, most) /\ Linked(sizes, parts[Len(parts)], q),
         Fits(sizes, q, most)
  PROVE  Chain(sizes, Append(parts, q), q.last, most)
<1> DEFINE all == Append(parts, q)
<1>1. parts \in Seq(TextPart) /\ Len(parts) \in Nat
  <2>1. CASE parts = <<>>
    BY <2>1
  <2>2. CASE parts # <<>>
    BY <2>2 DEF Chain
  <2> QED BY <2>1, <2>2
<1>2. /\ all \in Seq(TextPart) /\ all # <<>> /\ Len(all) = Len(parts) + 1
      /\ all[Len(all)] = q /\ \A k \in 1..Len(parts) : all[k] = parts[k]
  <2>1. all \in Seq(TextPart) /\ Len(all) = Len(parts) + 1
    BY <1>1, AppendProperties
  <2>2. \A k \in 1..(Len(parts) + 1) : all[k] = IF k <= Len(parts) THEN parts[k] ELSE q
    BY <1>1, AppendProperties
  <2> HIDE DEF all
  <2>3. all # <<>>
    BY <1>1, <2>1
  <2> QED BY <1>1, <2>1, <2>2, <2>3
<1> HIDE DEF all
<1>3. all[1].first = 1 /\ all[1].overlap = 0
  <2>1. CASE parts = <<>>
    <3>1. Len(all) = 1
      BY <1>2, <2>1
    <3> QED BY <1>2, <2>1, <3>1 DEF Chain
  <2>2. CASE parts # <<>>
    <3>1. 1 \in 1..Len(parts)
      BY <1>1, <2>2
    <3> QED BY <1>2, <2>2, <3>1 DEF Chain
  <2> QED BY <2>1, <2>2
<1>4. ASSUME NEW k \in 1..Len(all) PROVE Fits(sizes, all[k], most)
  <2>1. k = Len(all) \/ (k \in 1..Len(parts) /\ parts # <<>>)
    <3>1. k <= Len(parts) => k \in 1..Len(parts) /\ parts # <<>>
      BY <1>1, <1>2
    <3>2. k > Len(parts) => k = Len(all)
      BY <1>1, <1>2
    <3> QED BY <1>1, <3>1, <3>2
  <2> QED BY <1>2, <2>1 DEF Chain
<1>5. ASSUME NEW k \in 2..Len(all) PROVE Linked(sizes, all[k-1], all[k])
  <2>1. /\ k - 1 \in 1..Len(parts) /\ parts # <<>>
        /\ \/ k = Len(all) /\ k - 1 = Len(parts)
           \/ k \in 2..Len(parts) /\ k \in 1..Len(parts)
    BY <1>1, <1>2
  <2>2. CASE k = Len(all) /\ k - 1 = Len(parts)
    BY <1>2, <2>1, <2>2
  <2>3. CASE k \in 2..Len(parts) /\ k \in 1..Len(parts)
    BY <1>2, <2>1, <2>3 DEF Chain
  <2> QED BY <2>1, <2>2, <2>3
<1>6. all[Len(all)].last = q.last
  BY <1>2
<1>7. Chain(sizes, all, q.last, most)
  BY <1>2, <1>3, <1>4, <1>5, <1>6 DEF Chain
<1> QED BY <1>7 DEF all

PackedTo(sizes, acc, i, most) ==
    /\ acc \in PackState /\ acc.first \in 1..i
    /\ acc.size = Size(sizes, acc.first, i) /\ acc.size <= MaxPart
    /\ acc.overlap \in 0..most /\ acc.overlap < i - acc.first + 1
    /\ \/ acc.parts = <<>> /\ acc.first = 1 /\ acc.overlap = 0
       \/ \E m : Chain(sizes, acc.parts, m, most) /\ Linked(sizes, acc.parts[Len(acc.parts)], acc)

LEMMA StagedChain ==
  ASSUME NEW sizes \in Seq(Positive), NEW most \in 0..2, NEW i \in 1..Len(sizes),
         NEW acc, PackedTo(sizes, acc, i, most)
  PROVE  Chain(sizes, Staged(acc, i + 1), i, most)
<1> DEFINE q == Units(acc.first, i, acc.overlap)
<1>1. /\ q.first = acc.first /\ q.overlap = acc.overlap /\ q.last = i /\ q \in TextPart
      /\ UnitsOfPart(q) = i - acc.first + 1
  BY DEF Units, TextPart, PackedTo, PackState, Positive, UnitsOfPart
<1>2. Staged(acc, i + 1) = Append(acc.parts, q)
  <2>1. (i + 1) - 1 = i
    OBVIOUS
  <2> QED BY <2>1 DEF Staged
<1> HIDE DEF q
<1>3. Fits(sizes, q, most)
  BY <1>1 DEF Fits, PackedTo
<1>4. \/ acc.parts = <<>> /\ q.first = 1 /\ q.overlap = 0
      \/ \E m : Chain(sizes, acc.parts, m, most) /\ Linked(sizes, acc.parts[Len(acc.parts)], q)
  BY <1>1 DEF PackedTo, Linked
<1>5. Chain(sizes, Append(acc.parts, q), q.last, most)
  BY <1>1, <1>3, <1>4, ChainAppend
<1> QED BY <1>1, <1>2, <1>5

LEMMA PackingStep ==
  ASSUME NEW sizes \in Seq(Positive), NEW most \in 0..2, NEW i \in 2..Len(sizes),
         \A k \in DOMAIN sizes : sizes[k] <= MaxPart,
         NEW acc, PackedTo(sizes, acc, i - 1, most)
  PROVE  PackedTo(sizes, AddUnit(sizes, acc, i, most), i, most)
<1>1. /\ i \in 1..Len(sizes) /\ i - 1 \in 1..Len(sizes) /\ acc \in PackState /\ acc.first \in 1..i
      /\ acc.first < i /\ sizes[i] \in Nat /\ sizes[i] <= MaxPart /\ acc.size \in Nat /\ MaxPart \in Nat
      /\ \A k \in 1..i : sizes[k] \in Nat
  <2>1. i \in 1..Len(sizes) /\ i - 1 \in 1..Len(sizes) /\ Len(sizes) \in Nat
    OBVIOUS
  <2>2. acc \in PackState /\ acc.first \in 1..(i - 1)
    BY DEF PackedTo
  <2>3. acc.size \in Nat
    BY <2>2 DEF PackState
  <2>4. MaxPart \in Nat
    BY SourcePartsAssumption DEF Positive
  <2>5. \A k \in 1..i : sizes[k] \in Nat
    BY <2>1 DEF Positive
  <2>6. sizes[i] <= MaxPart
    BY <2>1
  <2> QED BY <2>1, <2>2, <2>3, <2>4, <2>5, <2>6
<1>2. ASSUME NEW a \in 1..i PROVE Size(sizes, a, i) = Size(sizes, a, i - 1) + sizes[i]
  <2>1. \A k \in a..i : sizes[k] \in Nat
    BY <1>1
  <2> QED BY <2>1, SizeFacts
<1> DEFINE next == AddUnit(sizes, acc, i, most)
<1>3. next \in PackState
  BY <1>1, AddUnitTyped
<1>4. CASE acc.size + sizes[i] > MaxPart
  <2> DEFINE kept == Kept(sizes, i, acc.first, most)
  <2>1. /\ kept \in 0..most /\ kept <= i - acc.first
        /\ KeptSize(sizes, i, kept) = Size(sizes, i - kept, i - 1)
        /\ KeptSize(sizes, i, kept) \in Nat
        /\ kept > 0 => KeptSize(sizes, i, kept) + sizes[i] <= MaxPart
    BY <1>1, KeptFacts
  <2>2. next = Packing(Staged(acc, i), i - kept, KeptSize(sizes, i, kept) + sizes[i], kept)
    BY <1>1, <1>4 DEF AddUnit
  <2> HIDE DEF kept
  <2>3. /\ next.first = i - kept /\ next.overlap = kept /\ next.parts = Staged(acc, i)
        /\ next.size = KeptSize(sizes, i, kept) + sizes[i]
    BY <2>2 DEF Packing
  <2>4. i - kept \in 1..i /\ kept < i - (i - kept) + 1
    BY <1>1, <2>1
  <2>5. next.size = Size(sizes, next.first, i)
    BY <1>2, <2>1, <2>3, <2>4
  <2>6. next.size <= MaxPart
    <3>1. CASE kept > 0
      BY <2>1, <2>3, <3>1
    <3>2. CASE kept = 0
      <4>1. Size(sizes, i - 0, i - 1) = 0
        <5>1. \A k \in i..(i - 1) : sizes[k] \in Nat
          OBVIOUS
        <5> QED BY <5>1, SizeFacts
      <4> QED BY <1>1, <2>1, <2>3, <3>2, <4>1
    <3> QED BY <2>1, <3>1, <3>2
  <2>7. Chain(sizes, Staged(acc, i), i - 1, most)
    <3>1. Chain(sizes, Staged(acc, (i - 1) + 1), i - 1, most)
      BY <1>1, StagedChain
    <3>2. (i - 1) + 1 = i
      OBVIOUS
    <3> QED BY <3>1, <3>2
  <2>8. LET s == Staged(acc, i) IN s[Len(s)] = Units(acc.first, i - 1, acc.overlap)
    BY <1>1 DEF Staged, PackState
  <2>9. Linked(sizes, next.parts[Len(next.parts)], next)
    <3>1. LET u == Units(acc.first, i - 1, acc.overlap)
          IN  u.first = acc.first /\ u.last = i - 1
      BY DEF Units
    <3>2. Size(sizes, acc.first, (i - 1) + 1) > MaxPart
      <4>1. (i - 1) + 1 = i /\ acc.size = Size(sizes, acc.first, i - 1)
        BY DEF PackedTo
      <4> QED BY <1>1, <1>2, <1>4, <4>1
    <3>3. next.first + next.overlap = (i - 1) + 1 /\ next.first >= acc.first
      BY <1>1, <2>1, <2>3
    <3> QED BY <2>3, <2>8, <3>1, <3>2, <3>3 DEF Linked
  <2> QED BY <1>3, <2>1, <2>3, <2>4, <2>5, <2>6, <2>7, <2>9 DEF PackedTo
<1>5. CASE ~(acc.size + sizes[i] > MaxPart)
  <2>1. next = Packing(acc.parts, acc.first, acc.size + sizes[i], acc.overlap)
    BY <1>1, <1>5 DEF AddUnit
  <2>2. /\ next.first = acc.first /\ next.overlap = acc.overlap /\ next.parts = acc.parts
        /\ next.size = acc.size + sizes[i]
    BY <2>1 DEF Packing
  <2>3. next.size = Size(sizes, next.first, i) /\ next.size <= MaxPart
    BY <1>1, <1>2, <1>5, <2>2 DEF PackedTo
  <2>4. next.overlap \in 0..most /\ next.overlap < i - next.first + 1
    <3> DEFINE o == acc.overlap
               f == acc.first
    <3>1. o \in 0..most /\ o < (i - 1) - f + 1 /\ f \in Nat /\ next.overlap = o /\ next.first = f
      BY <1>1, <2>2 DEF PackedTo
    <3> HIDE DEF o, f, next
    <3> QED BY <3>1
  <2>5. \/ next.parts = <<>> /\ next.first = 1 /\ next.overlap = 0
        \/ \E m : Chain(sizes, next.parts, m, most) /\ Linked(sizes, next.parts[Len(next.parts)], next)
    BY <2>2 DEF PackedTo, Linked
  <2> HIDE DEF next
  <2> QED BY <1>1, <1>3, <2>2, <2>3, <2>4, <2>5 DEF PackedTo, next
<1> QED BY <1>4, <1>5

(* Lines and rows (_prepare_text_once, _prepare_tabular_once,            *)
(* _chunk_sheet): whatever their sizes, the parts they are packed into   *)
(* take in every one, in order, apart from the overlap with the part     *)
(* before; no part is too large, and none could have taken in the next   *)
(* one too.                                                              *)
THEOREM PackedCovers ==
  ASSUME NEW sizes \in Seq(Positive), NEW most \in 0..2
  PROVE  Covers(sizes, Packed(sizes, most), most) /\ Packed(sizes, most) \in Seq(TextPart)
<1>1. CASE sizes = <<>> \/ \E i \in DOMAIN sizes : sizes[i] > MaxPart
  <2>1. Packed(sizes, most) = Refused
    BY <1>1 DEF Packed
  <2> QED BY <1>1, <2>1 DEF Covers, Refused
<1>2. CASE ~(sizes = <<>> \/ \E i \in DOMAIN sizes : sizes[i] > MaxPart)
  <2> DEFINE pack == CHOOSE p : Packs(p, sizes, most)
             n == Len(sizes)
             B == {i \in 0..n : i = 0 \/ PackedTo(sizes, pack[i], i, most)}
  <2>1. Packed(sizes, most) = Staged(pack[n], n + 1)
    BY <1>2, PackedIs
  <2>2. Packs(pack, sizes, most)
    BY PackExists
  <2>3. n \in Nat /\ n >= 1 /\ \A k \in DOMAIN sizes : sizes[k] <= MaxPart /\ sizes[k] \in Nat
    BY <1>2, SourcePartsAssumption DEF Positive
  <2> HIDE DEF pack
  <2>4. pack[0] = Packing(<<>>, 1, 0, 0) /\ \A i \in 1..n : pack[i] = AddUnit(sizes, pack[i-1], i, most)
    BY <2>2, <2>3 DEF Packs, PackStep
  <2>5. ASSUME NEW i \in 1..n, i - 1 \in B PROVE PackedTo(sizes, pack[i], i, most)
    <3>1. CASE i = 1
      <4> DEFINE start == Packing(<<>>, 1, 0, 0)
      <4>0. start.first = 1 /\ start.size = 0 /\ start.parts = <<>> /\ start.overlap = 0
            /\ start \in PackState
        BY DEF Packing, PackState, Positive
      <4>1. pack[1] = AddUnit(sizes, start, 1, most) /\ 1 \in 1..Len(sizes)
        BY <2>3, <2>4, <3>1
      <4> HIDE DEF start
      <4>2. pack[1] = Packing(<<>>, 1, 0 + sizes[1], 0)
        BY <4>0, <4>1 DEF AddUnit
      <4>3. /\ pack[1].first = 1 /\ pack[1].size = 0 + sizes[1] /\ pack[1].parts = <<>>
            /\ pack[1].overlap = 0
        BY <4>2 DEF Packing
      <4>4. Size(sizes, 1, 1) = sizes[1]
        <5>1. \A k \in 1..1 : sizes[k] \in Nat
          BY <2>3
        <5>2. \A k \in (1 + 1)..1 : sizes[k] \in Nat
          OBVIOUS
        <5>3. Size(sizes, 1, 1) = sizes[1] + Size(sizes, 1 + 1, 1) /\ Size(sizes, 1 + 1, 1) = 0
          BY <5>1, <5>2, SizeFacts
        <5>4. sizes[1] \in Nat
          BY <5>1
        <5> QED BY <5>3, <5>4
      <4>5. pack[1] \in PackState
        BY <4>0, <4>1, AddUnitTyped
      <4>6. sizes[1] \in Nat /\ sizes[1] <= MaxPart
        BY <2>3
      <4> QED BY <3>1, <4>3, <4>4, <4>5, <4>6 DEF PackedTo
    <3>2. CASE i # 1
      <4>1. i \in 2..n /\ PackedTo(sizes, pack[i-1], i - 1, most)
        BY <2>3, <2>5, <3>2
      <4>2. PackedTo(sizes, AddUnit(sizes, pack[i-1], i, most), i, most)
        BY <2>3, <4>1, PackingStep
      <4> QED BY <2>4, <4>2
    <3> QED BY <3>1, <3>2
  <2>6. B = 0..n
    <3>1. B \in SUBSET (0..n) /\ 0 \in B /\ \A i \in 1..n : i - 1 \in B => i \in B
      BY <2>3, <2>5
    <3> HIDE DEF B
    <3> QED BY <2>3, <3>1, Upto
  <2>7. PackedTo(sizes, pack[n], n, most)
    BY <2>3, <2>6
  <2>8. Chain(sizes, Staged(pack[n], n + 1), n, most)
    <3>1. n \in 1..Len(sizes)
      BY <2>3
    <3> QED BY <2>7, <3>1, StagedChain
  <2> QED BY <1>2, <2>1, <2>3, <2>8, ChainCovers DEF Chain
<1> QED BY <1>1, <1>2
(***************************************************************************)
(* Ranks and frames.                                                       *)
(***************************************************************************)
LEMMA Halves ==
  ASSUME NEW n \in Nat
  PROVE  /\ n \div 2 \in Nat /\ 2 * (n \div 2) <= n /\ n <= 2 * (n \div 2) + 1
         /\ n > 2 => 0 < n \div 2 /\ n \div 2 < n - 1
OBVIOUS

Ordinals(order, n) ==
    /\ order \in [1..n -> 0..n - 1] /\ Len(order) = n
    /\ \A x \in 0..n - 1 : \E i \in 1..n : order[i] = x
    /\ n <= 2 => \A i \in 1..n : order[i] = i - 1
    /\ n > 2 => order[1] = 0 /\ order[2] = n \div 2 /\ order[3] = n - 1

LEMMA OrdinalsFacts ==
  ASSUME NEW n \in Nat
  PROVE  Ordinals(RepresentativeOrdinals(n), n)
<1> DEFINE order == RepresentativeOrdinals(n)
<1>1. CASE n <= 2
  <2>1. order = [i \in 1..n |-> i - 1]
    BY <1>1 DEF RepresentativeOrdinals
  <2> HIDE DEF order
  <2>2. order \in [1..n -> 0..n - 1] /\ Len(order) = n
    BY <2>1
  <2>3. \A x \in 0..n - 1 : x + 1 \in 1..n /\ order[x + 1] = x
    BY <2>1
  <2>4. \A x \in 0..n - 1 : \E i \in 1..n : order[i] = x
    BY <2>3
  <2> QED BY <1>1, <2>1, <2>2, <2>4 DEF Ordinals, order
<1>2. CASE n > 2
  <2> DEFINE mid == n \div 2
             rest == [i \in 1..n - 3 |-> IF i < mid THEN i ELSE i + 1]
             three == <<0, mid, n - 1>>
  <2>1. order = three \o rest
    BY <1>2 DEF RepresentativeOrdinals
  <2>2. mid \in Nat /\ 0 < mid /\ mid < n - 1 /\ n - 3 \in Nat
    BY <1>2, Halves
  <2> HIDE DEF mid, order
  <2>3. three \in Seq(Nat) /\ Len(three) = 3 /\ three[1] = 0 /\ three[2] = mid /\ three[3] = n - 1
    BY <2>2
  <2>4. rest \in Seq(Nat) /\ Len(rest) = n - 3
        /\ \A i \in 1..n - 3 : rest[i] = IF i < mid THEN i ELSE i + 1
    BY <2>2
  <2> HIDE DEF three, rest
  <2>5. order \in Seq(Nat) /\ Len(order) = n
        /\ \A i \in 1..n : order[i] = IF i <= 3 THEN three[i] ELSE rest[i - 3]
    <3>1. /\ order \in Seq(Nat) /\ Len(order) = Len(three) + Len(rest)
          /\ \A i \in 1..(Len(three) + Len(rest)) :
                order[i] = IF i <= Len(three) THEN three[i] ELSE rest[i - Len(three)]
      BY <2>1, <2>3, <2>4, ConcatProperties
    <3>2. Len(three) + Len(rest) = n
      BY <2>3, <2>4
    <3> QED BY <2>3, <3>1, <3>2
  <2>6. order[1] = 0 /\ order[2] = mid /\ order[3] = n - 1
    <3>1. 1 \in 1..n /\ 2 \in 1..n /\ 3 \in 1..n
      BY <1>2
    <3> QED BY <2>3, <2>5, <3>1
  <2>7. \A i \in 4..n : i \in 1..n /\ order[i] = IF i - 3 < mid THEN i - 3 ELSE i - 2
    <3> SUFFICES ASSUME NEW i \in 4..n
                 PROVE  i \in 1..n /\ order[i] = IF i - 3 < mid THEN i - 3 ELSE i - 2
      OBVIOUS
    <3>1. i \in 1..n /\ i - 3 \in 1..n - 3 /\ ~(i <= 3) /\ (i - 3) + 1 = i - 2
      OBVIOUS
    <3> QED BY <2>4, <2>5, <3>1
  <2>8. ASSUME NEW i \in 1..n PROVE order[i] \in 0..n - 1
    <3>1. i \in {1, 2, 3} \/ i \in 4..n
      OBVIOUS
    <3>2. CASE i \in {1, 2, 3}
      BY <2>2, <2>6, <3>2
    <3>3. CASE i \in 4..n
      BY <2>2, <2>7, <3>3
    <3> QED BY <3>1, <3>2, <3>3
  <2>9. ASSUME NEW x \in 0..n - 1 PROVE \E i \in 1..n : order[i] = x
    <3>1. CASE x \in {0, mid, n - 1}
      <4>1. 1 \in 1..n /\ 2 \in 1..n /\ 3 \in 1..n
        BY <1>2
      <4> QED BY <2>6, <3>1, <4>1
    <3>2. CASE x \in 1..mid - 1
      <4>1. x + 3 \in 4..n /\ (x + 3) - 3 = x
        BY <2>2, <3>2
      <4>2. order[x + 3] = x
        BY <2>2, <2>7, <3>2, <4>1
      <4> QED BY <2>7, <4>1, <4>2
    <3>3. CASE x \in mid + 1..n - 2
      <4>1. x + 2 \in 4..n /\ (x + 2) - 2 = x /\ ~((x + 2) - 3 < mid)
        BY <2>2, <3>3
      <4>2. order[x + 2] = x
        BY <2>2, <2>7, <3>3, <4>1
      <4> QED BY <2>7, <4>1, <4>2
    <3> QED BY <2>2, <3>1, <3>2, <3>3
  <2>10. order \in [1..n -> 0..n - 1]
    BY <2>5, <2>8
  <2>11. ~(n <= 2)
    BY <1>2
  <2>12. Ordinals(order, n)
    BY <2>5, <2>6, <2>9, <2>10, <2>11 DEF Ordinals, mid
  <2> QED BY <2>12 DEF order
<1>3. n <= 2 \/ n > 2
  OBVIOUS
<1> QED BY <1>1, <1>2, <1>3

(* The ranks of the parts (representative_ordinals): every part has one,   *)
(* no two have the same, and the middle and the last part come right after *)
(* the first.                                                              *)
LEMMA RankedPrepared ==
  ASSUME NEW d, NEW S, PartsOf(d) \in Seq(S)
  PROVE  Ranked(PartsOf(d), Prepared(d)) /\ DOMAIN Prepared(d) = 1..Len(PartsOf(d))
<1> DEFINE parts == PartsOf(d)
           n == Len(parts)
           order == RepresentativeOrdinals(n)
           ranked == Prepared(d)
<1>1. ranked = [rank \in DOMAIN order |-> [ordinal |-> order[rank], part |-> parts[order[rank] + 1]]]
  BY DEF Prepared
<1>2. n \in Nat
  OBVIOUS
<1> HIDE DEF parts, n, ranked, order
<1>3. /\ order \in [1..n -> 0..n - 1] /\ \A x \in 0..n - 1 : \E i \in 1..n : order[i] = x
      /\ n > 2 => order[2] = n \div 2 /\ order[3] = n - 1
  BY <1>2, OrdinalsFacts DEF order, Ordinals
<1>4. /\ DOMAIN ranked = 1..n
      /\ \A i \in 1..n : ranked[i].ordinal = order[i] /\ ranked[i].part = parts[order[i] + 1]
  BY <1>1, <1>3
<1>5. Len(ranked) = n
  BY <1>1, <1>2, <1>3
<1>6. {r.ordinal : r \in ToSet(ranked)} = 0..n - 1
  BY <1>3, <1>4 DEF ToSet
<1>7. \A r \in ToSet(ranked) : r.part = parts[r.ordinal + 1]
  BY <1>4 DEF ToSet
<1>8. n > 2 => ranked[2].ordinal = n \div 2 /\ ranked[3].ordinal = n - 1
  <2>1. n > 2 => 2 \in 1..n /\ 3 \in 1..n
    BY <1>2
  <2> QED BY <1>3, <1>4, <2>1
<1> QED BY <1>4, <1>5, <1>6, <1>7, <1>8 DEF Ranked, n, ranked, parts

ImagePart == [of : Nat, kind : {"image"}, first : Nat, last : Nat, overlap : Nat]

(* Images (_prepare_image): of an animation the first, the middle and the  *)
(* last frame are shown, each once.                                        *)
THEOREM ImageChosen ==
  ASSUME NEW animated \in BOOLEAN, NEW frames \in Positive
  PROVE  /\ FramesChosen(animated, frames, ImageParts(animated, frames))
         /\ ImageParts(animated, frames) \in Seq(ImagePart)
<1> DEFINE parts == ImageParts(animated, frames)
           shown == {parts[i].first : i \in DOMAIN parts}
<1>0. frames \in Nat /\ frames >= 1 /\ MaxFrames \in Nat
  BY SourcePartsAssumption DEF Positive
<1>1. CASE frames > MaxFrames
  <2>1. parts = Refused
    BY <1>1 DEF ImageParts
  <2> QED BY <1>1, <2>1 DEF FramesChosen, Refused
<1>2. CASE ~(frames > MaxFrames) /\ (~animated \/ frames = 1)
  <2>1. parts = <<Picture(1)>>
    BY <1>2 DEF ImageParts
  <2>2. Picture(1) \in ImagePart /\ Picture(1).first = 1
    BY DEF Picture, ImagePart
  <2>3. parts \in Seq(ImagePart) /\ Len(parts) = 1 /\ DOMAIN parts = {1} /\ parts[1] = Picture(1)
    BY <2>1, <2>2
  <2> HIDE DEF parts
  <2>4. shown = {1} /\ Cardinality({1}) = 1
    <3>1. shown = {parts[1].first}
      BY <2>3
    <3>2. parts[1].first = 1
      BY <2>2, <2>3
    <3> QED BY <3>1, <3>2, FS_Singleton
  <2>5. animated => frames = 1 /\ 1 \div 2 + 1 = 1
    BY <1>2
  <2> QED BY <1>2, <2>3, <2>4, <2>5 DEF FramesChosen, parts
<1>3. CASE ~(frames > MaxFrames) /\ animated /\ frames = 2
  <2> DEFINE order == RepresentativeOrdinals(frames)
  <2>1. order \in [1..2 -> 0..1] /\ Len(order) = 2 /\ order[1] = 0 /\ order[2] = 1
    <3>1. Ordinals(order, 2)
      <4>1. order = RepresentativeOrdinals(2) /\ 2 \in Nat
        BY <1>3
      <4> HIDE DEF order
      <4> QED BY <4>1, OrdinalsFacts
    <3>2. 1 \in 1..2 /\ 2 \in 1..2 /\ 2 - 1 = 1 /\ 1 - 1 = 0
      OBVIOUS
    <3> HIDE DEF order
    <3> QED BY <3>1, <3>2 DEF Ordinals
  <2>2. parts = [i \in 1..(IF Len(order) < Selected THEN Len(order) ELSE Selected) |-> Picture(order[i] + 1)]
    BY <1>3 DEF ImageParts
  <2> HIDE DEF order
  <2>3. parts = [i \in 1..2 |-> Picture(order[i] + 1)]
    BY <2>1, <2>2 DEF Selected
  <2>4. Picture(1) \in ImagePart /\ Picture(1).first = 1 /\ Picture(2) \in ImagePart /\ Picture(2).first = 2
    BY DEF Picture, ImagePart
  <2>5. \A i \in 1..2 : Picture(order[i] + 1) \in ImagePart
    BY <2>1, <2>4
  <2> HIDE DEF parts
  <2>6. parts \in Seq(ImagePart) /\ Len(parts) = 2 /\ DOMAIN parts = 1..2
        /\ parts[1].first = 1 /\ parts[2].first = 2
    BY <2>1, <2>3, <2>4, <2>5
  <2>7. shown = {1, 2}
    BY <2>6
  <2>8. Cardinality({1, 2}) = 2
    <3>1. IsFiniteSet({1}) /\ Cardinality({1}) = 1
      BY FS_Singleton
    <3>2. Cardinality({1} \cup {2}) = 2
      BY <3>1, FS_AddElement
    <3>3. {1, 2} = {1} \cup {2}
      OBVIOUS
    <3> QED BY <3>2, <3>3
  <2>9. {1, 2 \div 2 + 1, 2} = {1, 2}
    OBVIOUS
  <2> QED BY <1>0, <1>3, <2>6, <2>7, <2>8, <2>9 DEF FramesChosen, parts
<1>4. CASE ~(frames > MaxFrames) /\ animated /\ frames > 2
  <2> DEFINE order == RepresentativeOrdinals(frames)
             mid == frames \div 2
  <2>1. /\ order \in [1..frames -> 0..frames - 1] /\ Len(order) = frames
        /\ order[1] = 0 /\ order[2] = mid /\ order[3] = frames - 1
    BY <1>0, <1>4, OrdinalsFacts DEF Ordinals
  <2>2. parts = [i \in 1..(IF Len(order) < Selected THEN Len(order) ELSE Selected) |-> Picture(order[i] + 1)]
    BY <1>4 DEF ImageParts
  <2>0. mid \in Nat /\ 0 < mid /\ mid < frames - 1
    BY <1>0, <1>4, Halves
  <2> HIDE DEF order, mid
  <2>3. parts = [i \in 1..3 |-> Picture(order[i] + 1)]
    <3>1. (IF Len(order) < Selected THEN Len(order) ELSE Selected) = 3
      BY <1>0, <1>4, <2>1 DEF Selected
    <3> QED BY <2>2, <3>1
  <2>4. \A k \in Nat : Picture(k) \in ImagePart /\ Picture(k).first = k
    BY DEF Picture, ImagePart
  <2>5. \A i \in 1..3 : order[i] + 1 \in Nat
    BY <1>0, <1>4, <2>1
  <2> HIDE DEF parts
  <2>6. parts \in Seq(ImagePart) /\ Len(parts) = 3 /\ DOMAIN parts = 1..3
        /\ \A i \in 1..3 : parts[i].first = order[i] + 1
    BY <2>3, <2>4, <2>5
  <2>7. shown = {1, mid + 1, frames}
    <3>1. 1..3 = {1, 2, 3}
      OBVIOUS
    <3>2. parts[1].first = 1 /\ parts[2].first = mid + 1 /\ parts[3].first = frames
      BY <1>0, <2>0, <2>1, <2>6
    <3> QED BY <2>6, <3>1, <3>2
  <2>8. Cardinality({1, mid + 1, frames}) = 3
    <3>1. 1 # mid + 1 /\ 1 # frames /\ mid + 1 # frames
      BY <1>0, <2>0
    <3>2. IsFiniteSet({1}) /\ Cardinality({1}) = 1
      BY FS_Singleton
    <3>3. IsFiniteSet({1} \cup {mid + 1}) /\ Cardinality({1} \cup {mid + 1}) = 2
      BY <3>1, <3>2, FS_AddElement
    <3>4. Cardinality(({1} \cup {mid + 1}) \cup {frames}) = 3
      BY <3>1, <3>3, FS_AddElement
    <3>5. {1, mid + 1, frames} = ({1} \cup {mid + 1}) \cup {frames}
      OBVIOUS
    <3> QED BY <3>4, <3>5
  <2> QED BY <1>4, <2>6, <2>7, <2>8 DEF FramesChosen, parts, mid
<1> QED BY <1>0, <1>1, <1>2, <1>3, <1>4
(***************************************************************************)
(* Pages.  A range is halved until it fits or only one page is left of it. *)
(***************************************************************************)
HalfStep(pages, start, fit, e) ==
    IF e = start \/ Size(pages, start + 1, e) <= MaxPart THEN e
    ELSE IF e - start = 1 THEN start
    ELSE fit[start + (e - start) \div 2]
Halving(fit, pages, start, end) == fit = [e \in start..end |-> HalfStep(pages, start, fit, e)]

LEMMA HalvedIs ==
  ASSUME NEW pages, NEW start, NEW end
  PROVE  Halved(pages, start, end) = (CHOOSE fit : Halving(fit, pages, start, end))[end]
BY DEF Halved, Halving, HalfStep

LEMMA HalfwayBetween ==
  ASSUME NEW start \in Nat, NEW e \in Nat, e > start + 1
  PROVE  start + (e - start) \div 2 \in start + 1..e - 1
<1>1. e - start \in Nat /\ e - start >= 2
  OBVIOUS
<1> DEFINE d == e - start
<1>2. d \div 2 \in Nat /\ 2 * (d \div 2) <= d /\ d <= 2 * (d \div 2) + 1
  BY <1>1, Halves
<1>3. e = start + d /\ d \in Nat /\ d >= 2
  BY <1>1
<1> HIDE DEF d
<1>4. start + d \div 2 \in start + 1..e - 1
  BY <1>2, <1>3
<1> QED BY <1>4 DEF d

LEMMA HalvingExists ==
  ASSUME NEW pages, NEW start \in Nat, NEW end \in Nat
  PROVE  \E fit : Halving(fit, pages, start, end)
<1> DEFINE D == start..end
           Done(e) == e = start \/ Size(pages, start + 1, e) <= MaxPart \/ e - start = 1
           base == {e \in D : Done(e)}
           measure == [e \in D |-> e]
           value == [e \in D |-> IF e = start \/ Size(pages, start + 1, e) <= MaxPart THEN e ELSE start]
           step == [e \in D |-> [x \in Nat |-> x]]
           back == [e \in D |-> IF e \in base THEN start ELSE start + (e - start) \div 2]
<1>1. measure \in [D -> Nat] /\ base \in SUBSET D /\ value \in [D -> Nat] /\ step \in [D -> [Nat -> Nat]]
  OBVIOUS
<1>2. ASSUME NEW e \in D PROVE back[e] \in D /\ (e \notin base => measure[back[e]] < measure[e])
  <2>1. CASE e \in base
    BY <2>1
  <2>2. CASE e \notin base
    <3>1. e > start + 1 /\ e \in Nat
      BY <2>2
    <3>2. start + (e - start) \div 2 \in start + 1..e - 1
      BY <3>1, HalfwayBetween
    <3>3. back[e] = start + (e - start) \div 2
      BY <2>2
    <3> DEFINE h == back[e]
    <3>4. h \in start + 1..e - 1
      BY <3>2, <3>3
    <3> HIDE DEF h, back, base
    <3>5. h \in D /\ h < e
      BY <3>4
    <3> QED BY <3>5 DEF h
  <2> QED BY <2>1, <2>2
<1>3. back \in [D -> D]
  <2> DEFINE b(e) == IF e \in base THEN start ELSE start + (e - start) \div 2
  <2>1. back = [e \in D |-> b(e)]
    OBVIOUS
  <2>2. \A e \in D : b(e) \in D
    BY <1>2
  <2> HIDE DEF b, back
  <2> QED BY <2>1, <2>2
<1>4. \A e \in D \ base : measure[back[e]] < measure[e]
  BY <1>2
<1>5. \A e \in D : \A x \in Nat : step[e][x] = x
  OBVIOUS
<1> HIDE DEF measure, value, step, back
<1>6. PICK fit \in [D -> Nat] : Solves(fit, D, base, value, step, back)
  <2> HIDE DEF D, base
  <2> QED BY <1>1, <1>3, <1>4, Recursion
<1>7. ASSUME NEW e \in D PROVE fit[e] = HalfStep(pages, start, fit, e)
  <2>1. CASE e \in base
    <3>1. fit[e] = value[e]
      BY <1>6, <2>1 DEF Solves
    <3>2. value[e] = IF e = start \/ Size(pages, start + 1, e) <= MaxPart THEN e ELSE start
      BY DEF value
    <3> QED BY <2>1, <3>1, <3>2 DEF HalfStep
  <2>2. CASE e \notin base
    <3>1. fit[e] = step[e][fit[back[e]]] /\ back[e] \in D
      BY <1>3, <1>6, <2>2 DEF Solves
    <3>2. fit[e] = fit[back[e]]
      BY <1>5, <1>6, <3>1
    <3>3. back[e] = start + (e - start) \div 2
      BY <2>2 DEF back
    <3>4. ~Done(e)
      BY <2>2
    <3> QED BY <3>2, <3>3, <3>4 DEF HalfStep
  <2> QED BY <2>1, <2>2
<1>8. Halving(fit, pages, start, end)
  BY <1>6, <1>7 DEF Halving
<1> QED BY <1>8

Halvable(pages, start, e, h) ==
    /\ h \in start..e /\ (h # start => Size(pages, start + 1, h) <= MaxPart)
    /\ h = start => e = start \/ pages[start + 1] > MaxPart

LEMMA HalvedFacts ==
  ASSUME NEW pages \in Seq(Positive), NEW end \in 0..Len(pages), NEW start \in 0..end
  PROVE  Halvable(pages, start, end, Halved(pages, start, end))
<1> DEFINE fit == CHOOSE f : Halving(f, pages, start, end)
           D == start..end
           measure == [e \in D |-> e]
           B == {e \in D : Halvable(pages, start, e, fit[e])}
<1>0. start \in Nat /\ end \in Nat /\ Len(pages) \in Nat /\ end <= Len(pages) /\ start <= end /\ MaxPart \in Nat
  BY SourcePartsAssumption DEF Positive
<1>1. Halving(fit, pages, start, end)
  BY <1>0, HalvingExists
<1> HIDE DEF fit
<1>2. \A e \in D : fit[e] = HalfStep(pages, start, fit, e)
  BY <1>1 DEF Halving
<1>3. ASSUME NEW e \in D, \A d \in D : measure[d] < measure[e] => d \in B PROVE e \in B
  <2>0. e \in Nat /\ e >= start /\ fit[e] = HalfStep(pages, start, fit, e)
    BY <1>0, <1>2
  <2>1. CASE e = start
    <3>1. fit[e] = e
      BY <2>0, <2>1 DEF HalfStep
    <3> QED BY <1>0, <2>1, <3>1 DEF Halvable
  <2>2. CASE e # start /\ Size(pages, start + 1, e) <= MaxPart
    <3>1. fit[e] = e
      BY <2>0, <2>2 DEF HalfStep
    <3> QED BY <1>0, <2>0, <2>2, <3>1 DEF Halvable
  <2>3. CASE e # start /\ ~(Size(pages, start + 1, e) <= MaxPart) /\ e - start = 1
    <3>1. fit[e] = start
      BY <2>0, <2>3 DEF HalfStep
    <3>2. e = start + 1 /\ \A k \in (start + 1)..(start + 1) : pages[k] \in Nat
      BY <1>0, <2>0, <2>3 DEF Positive
    <3>3. \A k \in ((start + 1) + 1)..(start + 1) : pages[k] \in Nat
      BY <1>0
    <3>4. Size(pages, start + 1, start + 1) = pages[start + 1] + Size(pages, (start + 1) + 1, start + 1)
      BY <1>0, <3>2, SizeFacts
    <3>5. Size(pages, (start + 1) + 1, start + 1) = 0
      BY <1>0, <3>3, SizeFacts
    <3>6. pages[start + 1] \in Nat
      BY <1>0, <3>2
    <3>7. pages[start + 1] > MaxPart
      BY <1>0, <2>3, <3>2, <3>4, <3>5, <3>6
    <3> QED BY <1>0, <2>0, <3>1, <3>7 DEF Halvable
  <2>4. CASE e # start /\ ~(Size(pages, start + 1, e) <= MaxPart) /\ e - start # 1
    <3> DEFINE h == start + (e - start) \div 2
    <3>1. e > start + 1
      BY <1>0, <2>0, <2>4
    <3>2. h \in start + 1..e - 1
      BY <1>0, <2>0, <3>1, HalfwayBetween
    <3>3. fit[e] = fit[h]
      BY <2>0, <2>4 DEF HalfStep
    <3> HIDE DEF h
    <3>4. h \in D /\ measure[h] < measure[e] /\ h # start
      BY <1>0, <2>0, <3>2
    <3>5. Halvable(pages, start, h, fit[h])
      BY <1>3, <3>4
    <3>6. h \in Nat /\ h < e
      BY <1>0, <2>0, <3>2
    <3> QED BY <1>0, <2>0, <3>3, <3>4, <3>5, <3>6 DEF Halvable
  <2> QED BY <2>1, <2>2, <2>3, <2>4
<1>4. B = D
  <2>1. measure \in [D -> Nat] /\ B \in SUBSET D
    BY <1>0
  <2>2. \A e \in D : (\A d \in D : measure[d] < measure[e] => d \in B) => e \in B
    BY <1>3
  <2> HIDE DEF D, measure, B
  <2>3. Closed(D, measure, B)
    BY <2>2 DEF Closed
  <2> QED BY <2>1, <2>3, Induction
<1>5. end \in D
  BY <1>0
<1>6. Halvable(pages, start, end, fit[end])
  BY <1>4, <1>5
<1> QED BY <1>6, HalvedIs DEF fit

\* The pages from one on: as far as a part can take them in, and the rest.
FromStep(pages, from, start) ==
    LET end == PageRange(pages, start)
    IN  <<Units(start + 1, end, 0)>> \o (IF end \in {start, Len(pages)} THEN <<>> ELSE from[end])
Froms(from, pages) == from = [start \in 0..Len(pages) |-> FromStep(pages, from, start)]
FromStart(pages) == (CHOOSE from : Froms(from, pages))[0]

LEMMA PdfPartsIs ==
  ASSUME NEW pages
  PROVE  PdfParts(pages) =
           IF \E i \in DOMAIN FromStart(pages) :
                 FromStart(pages)[i].last < FromStart(pages)[i].first
           THEN Refused ELSE FromStart(pages)
BY DEF PdfParts, FromStart, Froms, FromStep

LEMMA PageRangeFacts ==
  ASSUME NEW pages \in Seq(Positive), NEW start \in 0..Len(pages)
  PROVE  LET end == PageRange(pages, start)
         IN  /\ end \in start..Len(pages) /\ end <= start + PagesPerPart
             /\ end # start => Size(pages, start + 1, end) <= MaxPart
             /\ end = start => start = Len(pages) \/ pages[start + 1] > MaxPart
<1> DEFINE e == IF start + PagesPerPart < Len(pages) THEN start + PagesPerPart ELSE Len(pages)
           end == PageRange(pages, start)
<1>1. PagesPerPart \in Nat /\ PagesPerPart >= 1 /\ Len(pages) \in Nat
  BY SourcePartsAssumption DEF Positive
<1>2. e \in 0..Len(pages) /\ start \in 0..e /\ e <= start + PagesPerPart /\ (e = start => start = Len(pages))
  BY <1>1
<1>3. end = Halved(pages, start, e)
  BY DEF PageRange
<1> HIDE DEF e, end
<1>4. Halvable(pages, start, e, end)
  BY <1>2, <1>3, HalvedFacts
<1>5. end \in start..Len(pages) /\ end <= start + PagesPerPart
  BY <1>1, <1>2, <1>4 DEF Halvable
<1>6. end # start => Size(pages, start + 1, end) <= MaxPart
  BY <1>4 DEF Halvable
<1>7. end = start => start = Len(pages) \/ pages[start + 1] > MaxPart
  BY <1>2, <1>4 DEF Halvable
<1> QED BY <1>5, <1>6, <1>7 DEF end

LEMMA Prepended ==
  ASSUME NEW S, NEW p \in S, NEW rest \in Seq(S)
  PROVE  LET all == <<p>> \o rest
         IN  /\ all \in Seq(S) /\ Len(all) = Len(rest) + 1 /\ all[1] = p /\ all # <<>>
             /\ \A k \in 2..Len(rest) + 1 : all[k] = rest[k-1]
<1> DEFINE all == <<p>> \o rest
           one == <<p>>
<1>0. one \in Seq(S) /\ Len(one) = 1 /\ one[1] = p /\ Len(rest) \in Nat
  OBVIOUS
<1>1. all = one \o rest
  OBVIOUS
<1> HIDE DEF all, one
<1>2. /\ all \in Seq(S) /\ Len(all) = Len(one) + Len(rest)
      /\ \A i \in 1..(Len(one) + Len(rest)) :
            all[i] = IF i <= Len(one) THEN one[i] ELSE rest[i - Len(one)]
  BY <1>0, <1>1, ConcatProperties
<1>3. Len(all) = Len(rest) + 1
  BY <1>0, <1>2
<1>4. all[1] = p
  <2>1. 1 \in 1..(Len(one) + Len(rest)) /\ 1 <= Len(one)
    BY <1>0
  <2> QED BY <1>0, <1>2, <2>1
<1>5. ASSUME NEW k \in 2..Len(rest) + 1 PROVE all[k] = rest[k-1]
  <2>1. k \in 1..(Len(one) + Len(rest)) /\ ~(k <= Len(one)) /\ k - Len(one) = k - 1
    BY <1>0
  <2> QED BY <1>2, <2>1
<1>6. all # <<>>
  BY <1>0, <1>3
<1> QED BY <1>2, <1>3, <1>4, <1>5, <1>6 DEF all, one
LEMMA FromExists ==
  ASSUME NEW pages \in Seq(Positive)
  PROVE  \E from \in [0..Len(pages) -> Seq(TextPart)] : Froms(from, pages)
<1> DEFINE n == Len(pages)
           D == 0..n
           end(e) == PageRange(pages, e)
           one(e) == <<Units(e + 1, end(e), 0)>>
           base == {e \in D : end(e) \in {e, n}}
           measure == [e \in D |-> n - e]
           value == [e \in D |-> one(e)]
           step == [e \in D |-> [x \in Seq(TextPart) |-> one(e) \o x]]
           back == [e \in D |-> end(e)]
<1>1. n \in Nat
  OBVIOUS
<1>2. ASSUME NEW e \in D
      PROVE  end(e) \in e..n /\ Units(e + 1, end(e), 0) \in TextPart
  <2>1. end(e) \in e..n
    BY PageRangeFacts
  <2> HIDE DEF end
  <2>2. e + 1 \in Nat /\ end(e) \in Nat
    BY <1>1, <2>1
  <2> QED BY <2>1, <2>2 DEF Units, TextPart
<1>3. \A e \in D : one(e) \in Seq(TextPart) /\ one(e) \o <<>> = one(e)
                  /\ \A x \in Seq(TextPart) : one(e) \o x \in Seq(TextPart)
  <2> SUFFICES ASSUME NEW e \in D
               PROVE  one(e) \in Seq(TextPart) /\ one(e) \o <<>> = one(e)
                      /\ \A x \in Seq(TextPart) : one(e) \o x \in Seq(TextPart)
    OBVIOUS
  <2>1. one(e) \in Seq(TextPart)
    BY <1>2
  <2> HIDE DEF one
  <2>2. one(e) \o <<>> = one(e)
    BY <2>1
  <2>3. \A x \in Seq(TextPart) : one(e) \o x \in Seq(TextPart)
    BY <2>1, ConcatProperties
  <2> QED BY <2>1, <2>2, <2>3
<1>4. /\ measure \in [D -> Nat] /\ base \in SUBSET D /\ value \in [D -> Seq(TextPart)]
      /\ step \in [D -> [Seq(TextPart) -> Seq(TextPart)]] /\ back \in [D -> D]
  <2>1. measure \in [D -> Nat] /\ base \in SUBSET D
    BY <1>1
  <2>2. \A e \in D : end(e) \in D
    BY <1>2
  <2> HIDE DEF one, end
  <2>3. value \in [D -> Seq(TextPart)] /\ step \in [D -> [Seq(TextPart) -> Seq(TextPart)]]
    BY <1>3
  <2>4. back \in [D -> D]
    BY <2>2
  <2> QED BY <2>1, <2>3, <2>4
<1>5. ASSUME NEW e \in D \ base PROVE measure[back[e]] < measure[e]
  <2>1. end(e) \in e..n /\ end(e) # e
    BY <1>2
  <2>2. back[e] = end(e)
    OBVIOUS
  <2> HIDE DEF end
  <2>3. end(e) \in D /\ n - end(e) < n - e
    BY <1>1, <2>1
  <2>4. measure[end(e)] = n - end(e) /\ measure[e] = n - e
    BY <2>3
  <2> HIDE DEF measure, back
  <2> QED BY <2>2, <2>3, <2>4
<1>6. \A e \in D : value[e] = one(e) /\ back[e] = end(e) /\ \A x \in Seq(TextPart) : step[e][x] = one(e) \o x
  OBVIOUS
<1>7. \A e \in D : e \in base <=> end(e) \in {e, n}
  OBVIOUS
<1> HIDE DEF measure, value, step, back, base
<1>8. PICK from \in [D -> Seq(TextPart)] : Solves(from, D, base, value, step, back)
  <2> HIDE DEF D
  <2> QED BY <1>4, <1>5, Recursion
<1>9. ASSUME NEW e \in D PROVE from[e] = FromStep(pages, from, e)
  <2>0. FromStep(pages, from, e) = one(e) \o (IF end(e) \in {e, n} THEN <<>> ELSE from[end(e)])
    BY DEF FromStep
  <2>1. CASE e \in base
    <3>1. from[e] = one(e)
      BY <1>6, <1>8, <2>1 DEF Solves
    <3> HIDE DEF one, end
    <3>2. FromStep(pages, from, e) = one(e) \o <<>>
      BY <1>7, <2>0, <2>1
    <3> QED BY <1>3, <3>1, <3>2
  <2>2. CASE e \notin base
    <3>1. from[e] = step[e][from[back[e]]] /\ from[back[e]] \in Seq(TextPart)
      BY <1>4, <1>8, <2>2 DEF Solves
    <3> HIDE DEF one, end
    <3>2. from[e] = one(e) \o from[end(e)]
      BY <1>6, <3>1
    <3> QED BY <1>7, <2>0, <2>2, <3>2
  <2> QED BY <2>1, <2>2
<1>10. Froms(from, pages)
  <2>1. from = [e \in D |-> from[e]]
    BY <1>8
  <2>2. from = [e \in D |-> FromStep(pages, from, e)]
    BY <1>9, <2>1
  <2> QED BY <2>2 DEF Froms
<1> QED BY <1>8, <1>10

\* The parts of the pages after a page, if no page among them is too large.
PageFits(pages, p) ==
    UnitsOfPart(p) \in 1..PagesPerPart /\ Size(pages, p.first, p.last) <= MaxPart
PagesFrom(pages, parts, start) ==
    /\ parts[Len(parts)].last = Len(pages)
    /\ \A k \in 1..Len(parts) : PageFits(pages, parts[k])
    /\ \A k \in 2..Len(parts) : parts[k].first = parts[k-1].last + 1
    /\ start < Len(pages) /\ \A i \in start + 1..Len(pages) : pages[i] <= MaxPart
PagesFail(pages, parts, start) ==
    /\ \E k \in 1..Len(parts) : parts[k].last < parts[k].first
    /\ start = Len(pages) \/ \E i \in start + 1..Len(pages) : pages[i] > MaxPart
Divided(pages, parts, start) ==
    /\ parts \in Seq(TextPart) /\ parts # <<>> /\ parts[1].first = start + 1
    /\ PagesFrom(pages, parts, start) \/ PagesFail(pages, parts, start)

LEMMA DividedStep ==
  ASSUME NEW pages \in Seq(Positive), NEW start \in 0..Len(pages),
         NEW end, end = PageRange(pages, start), NEW rest,
         end \in {start, Len(pages)} => rest = <<>>,
         end \notin {start, Len(pages)} => Divided(pages, rest, end)
  PROVE  Divided(pages, <<Units(start + 1, end, 0)>> \o rest, start)
<1> DEFINE n == Len(pages)
           p == Units(start + 1, end, 0)
           all == <<p>> \o rest
<1>0. n \in Nat /\ start \in Nat /\ start <= n /\ MaxPart \in Nat /\ PagesPerPart \in Nat /\ PagesPerPart >= 1
  BY SourcePartsAssumption DEF Positive
<1>1. /\ end \in start..n /\ end <= start + PagesPerPart
      /\ end # start => Size(pages, start + 1, end) <= MaxPart
      /\ end = start => start = n \/ pages[start + 1] > MaxPart
  BY PageRangeFacts
<1>2. p \in TextPart /\ p.first = start + 1 /\ p.last = end
  BY <1>0, <1>1 DEF Units, TextPart
<1>3. rest \in Seq(TextPart)
  <2>1. CASE end \in {start, n}
    <3>1. rest = <<>>
      BY <2>1
    <3> QED BY <3>1
  <2>2. CASE end \notin {start, n}
    BY <2>2 DEF Divided
  <2> QED BY <2>1, <2>2
<1> HIDE DEF p
<1>4. /\ all \in Seq(TextPart) /\ Len(all) = Len(rest) + 1 /\ all[1] = p /\ all # <<>>
      /\ \A k \in 2..Len(rest) + 1 : all[k] = rest[k-1]
  BY <1>2, <1>3, Prepended
<1> HIDE DEF all
<1>5. Len(rest) \in Nat /\ all[1].first = start + 1 /\ 1 \in 1..Len(all)
  BY <1>2, <1>3, <1>4
<1>6. CASE end = start
  <2>1. all[1].last < all[1].first
    BY <1>0, <1>2, <1>4, <1>6
  <2>2. start = n \/ \E i \in start + 1..n : pages[i] > MaxPart
    <3>1. start # n => start + 1 \in start + 1..n
      BY <1>0
    <3> QED BY <1>1, <1>6, <3>1
  <2>3. PagesFail(pages, all, start)
    BY <1>5, <2>1, <2>2 DEF PagesFail
  <2> QED BY <1>4, <1>5, <2>3 DEF Divided, all, p
<1>7. CASE end # start
  <2>1. PageFits(pages, p)
    <3>1. UnitsOfPart(p) = end - start
      BY <1>0, <1>1, <1>2 DEF UnitsOfPart
    <3> QED BY <1>0, <1>1, <1>2, <1>7, <3>1 DEF PageFits
  <2>2. start < n
    BY <1>0, <1>1, <1>7
  <2>3. \A i \in start + 1..end : pages[i] <= MaxPart
    <3> SUFFICES ASSUME NEW i \in start + 1..end PROVE pages[i] <= MaxPart
      OBVIOUS
    <3>1. \A k \in start + 1..end : pages[k] \in Nat
      BY <1>0, <1>1 DEF Positive
    <3>2. start + 1 \in Int /\ end \in Int /\ i \in i..end
      BY <1>0, <1>1
    <3>3. Size(pages, i, end) <= Size(pages, start + 1, end) /\ Size(pages, i, end) \in Nat
          /\ Size(pages, start + 1, end) \in Nat /\ pages[i] <= Size(pages, i, end)
      <4> DEFINE a == start + 1
      <4>0. a \in Int /\ i \in a..end /\ end \in i..end /\ \A k \in a..end : pages[k] \in Nat
        BY <1>0, <1>1, <3>1
      <4> HIDE DEF a
      <4>1. Size(pages, i, end) <= Size(pages, a, end) /\ Size(pages, i, end) \in Nat
            /\ Size(pages, a, end) \in Nat /\ pages[i] <= Size(pages, i, end)
        BY <3>2, <4>0, SizeGrows
      <4> QED BY <4>1 DEF a
    <3> QED BY <1>0, <1>1, <1>7, <3>1, <3>3
  <2>4. CASE end = n
    <3>1. rest = <<>> /\ Len(all) = 1
      BY <1>4, <2>4
    <3>2. all[Len(all)].last = n /\ \A k \in 1..Len(all) : k = 1
      BY <1>2, <1>4, <2>4, <3>1
    <3>3. PagesFrom(pages, all, start)
      BY <1>4, <2>1, <2>2, <2>3, <2>4, <3>1, <3>2 DEF PagesFrom
    <3> QED BY <1>4, <1>5, <3>3 DEF Divided, all, p
  <2>5. CASE end # n
    <3>1. Divided(pages, rest, end)
      BY <1>7, <2>5
    <3>2. rest # <<>> /\ rest[1].first = end + 1 /\ Len(rest) >= 1 /\ 1 \in 1..Len(rest)
      BY <1>3, <3>1 DEF Divided
    <3>3. \A k \in 1..Len(all) : k = 1 \/ (k \in 2..Len(rest) + 1 /\ k - 1 \in 1..Len(rest))
      BY <1>4, <1>5
    <3>4. CASE PagesFrom(pages, rest, end)
      <4>1. all[Len(all)].last = n
        <5>1. Len(all) \in 2..Len(rest) + 1 /\ Len(all) - 1 = Len(rest)
          BY <1>4, <1>5, <3>2
        <5> QED BY <1>4, <3>4, <5>1 DEF PagesFrom
      <4>2. \A k \in 1..Len(all) : PageFits(pages, all[k])
        BY <1>4, <2>1, <3>3, <3>4 DEF PagesFrom
      <4>3. ASSUME NEW k \in 2..Len(all) PROVE all[k].first = all[k-1].last + 1
        <5>1. all[k] = rest[k-1]
          BY <1>4, <1>5
        <5>2. CASE k = 2
          <6>1. all[k-1] = p /\ rest[k-1] = rest[1]
            BY <1>4, <5>2
          <6> QED BY <1>2, <3>2, <5>1, <6>1
        <5>3. CASE k # 2
          <6>1. k - 1 \in 2..Len(rest) /\ k - 1 \in 2..Len(rest) + 1
            BY <1>4, <1>5, <5>3
          <6>2. all[k-1] = rest[(k-1)-1]
            BY <1>4, <6>1
          <6> QED BY <3>4, <5>1, <6>1, <6>2 DEF PagesFrom
        <5> QED BY <5>2, <5>3
      <4>4. ASSUME NEW i \in start + 1..n PROVE pages[i] <= MaxPart
        <5>1. i \in start + 1..end \/ i \in end + 1..n
          BY <1>0, <1>1
        <5> QED BY <2>3, <3>4, <5>1 DEF PagesFrom
      <4>5. PagesFrom(pages, all, start)
        BY <2>2, <4>1, <4>2, <4>3, <4>4 DEF PagesFrom
      <4> QED BY <1>4, <1>5, <4>5 DEF Divided, all, p
    <3>5. CASE PagesFail(pages, rest, end)
      <4>1. \E k \in 1..Len(all) : all[k].last < all[k].first
        <5>1. PICK k \in 1..Len(rest) : rest[k].last < rest[k].first
          BY <3>5 DEF PagesFail
        <5>2. k + 1 \in 1..Len(all) /\ k + 1 \in 2..Len(rest) + 1 /\ (k + 1) - 1 = k
          BY <1>4, <1>5
        <5>3. all[k + 1] = rest[k]
          BY <1>4, <5>2
        <5> QED BY <5>1, <5>2, <5>3
      <4>2. \E i \in start + 1..n : pages[i] > MaxPart
        <5>1. PICK i \in end + 1..n : pages[i] > MaxPart
          BY <2>5, <3>5 DEF PagesFail
        <5>2. i \in start + 1..n
          BY <1>0, <1>1
        <5> QED BY <5>1, <5>2
      <4>3. PagesFail(pages, all, start)
        BY <4>1, <4>2 DEF PagesFail
      <4> QED BY <1>4, <1>5, <4>3 DEF Divided, all, p
    <3> QED BY <3>1, <3>4, <3>5 DEF Divided
  <2> QED BY <2>4, <2>5
<1> QED BY <1>6, <1>7

(* PDF files (_prepare_pdf, _write_pdf_range): halving a range until it  *)
(* fits leaves no page out and takes none twice, every part has at least *)
(* a page, and it fails only for a page that is too large by itself.     *)
THEOREM PdfCovered ==
  ASSUME NEW pages \in Seq(Positive)
  PROVE  PagesCovered(pages, PdfParts(pages)) /\ PdfParts(pages) \in Seq(TextPart)
<1> DEFINE n == Len(pages)
           D == 0..n
           from == CHOOSE f : Froms(f, pages)
           measure == [e \in D |-> n - e]
           B == {e \in D : Divided(pages, from[e], e)}
<1>0. n \in Nat /\ 0 \in D
  OBVIOUS
<1>1. Froms(from, pages)
  BY FromExists
<1> HIDE DEF from
<1>2. \A e \in D : from[e] = FromStep(pages, from, e)
  BY <1>1 DEF Froms
<1>3. ASSUME NEW e \in D, \A d \in D : measure[d] < measure[e] => d \in B PROVE e \in B
  <2> DEFINE end == PageRange(pages, e)
             rest == IF end \in {e, n} THEN <<>> ELSE from[end]
  <2>1. from[e] = <<Units(e + 1, end, 0)>> \o rest
    BY <1>2 DEF FromStep
  <2>2. end \in e..n
    BY PageRangeFacts
  <2>3. end \notin {e, n} => Divided(pages, from[end], end)
    <3>0. HAVE end \notin {e, n}
    <3> HIDE DEF end
    <3>1. end \in D /\ n - end < n - e
      BY <1>0, <2>2, <3>0
    <3>2. measure[end] < measure[e]
      BY <3>1
    <3> QED BY <1>3, <3>1, <3>2
  <2>4. (end \in {e, n} => rest = <<>>) /\ (end \notin {e, n} => Divided(pages, rest, end))
    BY <2>3
  <2>5. end = PageRange(pages, e)
    OBVIOUS
  <2> HIDE DEF end, rest
  <2>6. Divided(pages, <<Units(e + 1, end, 0)>> \o rest, e)
    BY <2>4, <2>5, DividedStep
  <2> QED BY <2>1, <2>6
<1>4. B = D
  <2>1. measure \in [D -> Nat] /\ B \in SUBSET D
    BY <1>0
  <2>2. \A e \in D : (\A d \in D : measure[d] < measure[e] => d \in B) => e \in B
    BY <1>3
  <2> HIDE DEF D, measure, B
  <2>3. Closed(D, measure, B)
    BY <2>2 DEF Closed
  <2> QED BY <2>1, <2>3, Induction
<1> DEFINE parts == from[0]
<1>5. Divided(pages, parts, 0)
  BY <1>0, <1>4
<1>6. PdfParts(pages) = IF \E i \in DOMAIN parts : parts[i].last < parts[i].first THEN Refused ELSE parts
  BY PdfPartsIs DEF FromStart, from
<1> HIDE DEF parts
<1>7. parts \in Seq(TextPart) /\ parts # <<>> /\ parts[1].first = 1 /\ DOMAIN parts = 1..Len(parts)
  BY <1>5 DEF Divided
<1>8. CASE PagesFail(pages, parts, 0)
  <2>1. PdfParts(pages) = Refused
    BY <1>6, <1>7, <1>8 DEF PagesFail
  <2>2. pages = <<>> \/ \E i \in DOMAIN pages : pages[i] > MaxPart
    BY <1>0, <1>8 DEF PagesFail
  <2> QED BY <2>1, <2>2 DEF PagesCovered, Refused
<1>9. CASE PagesFrom(pages, parts, 0)
  <2>1. \A k \in DOMAIN parts : parts[k].first \in Nat /\ parts[k].last \in Nat
    <3>1. \A k \in DOMAIN parts : parts[k] \in TextPart
      BY <1>7
    <3> QED BY <3>1 DEF TextPart
  <2>2. \A k \in DOMAIN parts : PageFits(pages, parts[k])
    BY <1>7, <1>9 DEF PagesFrom
  <2>3. ~(\E i \in DOMAIN parts : parts[i].last < parts[i].first)
    BY <2>1, <2>2 DEF PageFits, UnitsOfPart
  <2>4. PdfParts(pages) = parts
    BY <1>6, <2>3
  <2>5. pages # <<>> /\ ~(\E i \in DOMAIN pages : pages[i] > MaxPart)
    <3>1. \A i \in 1..n : pages[i] <= MaxPart /\ pages[i] \in Nat /\ MaxPart \in Nat
      BY <1>9, SourcePartsAssumption DEF PagesFrom, Positive
    <3>2. 0 < n
      BY <1>9 DEF PagesFrom
    <3> QED BY <3>1, <3>2
  <2>6. \A k \in DOMAIN parts : k > 1 => parts[k].first = parts[k-1].last + 1
    BY <1>7, <1>9 DEF PagesFrom
  <2>7. parts[Len(parts)].last = n
    BY <1>9 DEF PagesFrom
  <2> QED BY <1>7, <2>2, <2>4, <2>5, <2>6, <2>7 DEF PagesCovered, PageFits
<1> QED BY <1>5, <1>8, <1>9 DEF Divided
(***************************************************************************)
(* How many positions there are up to one.                                 *)
(***************************************************************************)
CountTo(S, i) == Cardinality({f \in S : f <= i})

LEMMA CountStep ==
  ASSUME NEW n \in Nat, NEW S \in SUBSET (1..n)
  PROVE  /\ IsFiniteSet(S) /\ CountTo(S, 0) = 0 /\ CountTo(S, n) = Cardinality(S)
         /\ \A i \in 0..n : CountTo(S, i) \in Nat
         /\ \A i \in 1..n : CountTo(S, i) = CountTo(S, i - 1) + (IF i \in S THEN 1 ELSE 0)
<1>0. \A f \in S : f \in 1..n /\ f \in Nat
  OBVIOUS
<1>1. IsFiniteSet(S)
  <2>1. IsFiniteSet(1..n)
    BY FS_Interval
  <2> QED BY <2>1, FS_Subset
<1>2. CountTo(S, 0) = 0 /\ CountTo(S, n) = Cardinality(S)
  <2>1. {f \in S : f <= 0} = {} /\ {f \in S : f <= n} = S
    <3>1. \A f \in S : ~(f <= 0) /\ f <= n
      BY <1>0
    <3> QED BY <3>1
  <2> QED BY <2>1, FS_EmptySet DEF CountTo
<1>3. \A i \in 0..n : CountTo(S, i) \in Nat /\ IsFiniteSet({f \in S : f <= i})
  <2> SUFFICES ASSUME NEW i \in 0..n PROVE CountTo(S, i) \in Nat /\ IsFiniteSet({f \in S : f <= i})
    OBVIOUS
  <2>1. IsFiniteSet({f \in S : f <= i})
    BY <1>1, FS_Subset
  <2> QED BY <2>1, FS_CardinalityType DEF CountTo
<1>4. ASSUME NEW i \in 1..n
      PROVE  CountTo(S, i) = CountTo(S, i - 1) + (IF i \in S THEN 1 ELSE 0)
  <2> DEFINE before == {f \in S : f <= i - 1}
             upto == {f \in S : f <= i}
  <2>1. i - 1 \in 0..n
    OBVIOUS
  <2>2. IsFiniteSet(before) /\ Cardinality(before) \in Nat
    BY <1>3, <2>1 DEF CountTo
  <2>3. i \notin before
    OBVIOUS
  <2>4. CASE i \in S
    <3>1. upto = before \cup {i}
      <4>1. \A f \in S : f <= i <=> f <= i - 1 \/ f = i
        BY <1>0
      <4> QED BY <2>4, <4>1
    <3> HIDE DEF before, upto
    <3>2. Cardinality(upto) = Cardinality(before) + 1
      BY <2>2, <2>3, <3>1, FS_AddElement
    <3> QED BY <2>4, <3>2 DEF CountTo, before, upto
  <2>5. CASE i \notin S
    <3>1. upto = before
      <4>1. \A f \in S : f <= i <=> f <= i - 1 \/ f = i
        BY <1>0
      <4> QED BY <2>5, <4>1
    <3> HIDE DEF before, upto
    <3>2. Cardinality(upto) = Cardinality(before) + 0
      BY <2>2, <3>1
    <3> QED BY <2>5, <3>2 DEF CountTo, before, upto
  <2> QED BY <2>4, <2>5
<1> QED BY <1>1, <1>2, <1>3, <1>4

LEMMA CountGrows ==
  ASSUME NEW n \in Nat, NEW S \in SUBSET (1..n)
  PROVE  /\ \A j \in 0..n : \A i \in 0..j : CountTo(S, i) <= CountTo(S, j)
         /\ \A j \in S : \A i \in 0..j - 1 : CountTo(S, i) < CountTo(S, j)
         /\ \A j \in 0..n : CountTo(S, j) <= Cardinality(S)
<1> DEFINE c(i) == CountTo(S, i)
           Below(j) == \A i \in 0..j : c(i) <= c(j)
           B == {j \in 0..n : Below(j)}
<1>1. /\ \A i \in 0..n : c(i) \in Nat
      /\ \A i \in 1..n : c(i) = c(i - 1) + (IF i \in S THEN 1 ELSE 0)
      /\ c(n) = Cardinality(S)
  BY CountStep
<1> HIDE DEF c
<1>2. Below(0)
  BY <1>1
<1>3. ASSUME NEW j \in 1..n, Below(j - 1) PROVE Below(j)
  <2> SUFFICES ASSUME NEW i \in 0..j PROVE c(i) <= c(j)
    OBVIOUS
  <2>0. j - 1 \in 0..n /\ c(j) \in Nat /\ c(j - 1) \in Nat
    BY <1>1
  <2>1. c(j - 1) <= c(j)
    <3>1. c(j) = c(j - 1) + (IF j \in S THEN 1 ELSE 0)
      BY <1>1
    <3> QED BY <2>0, <3>1
  <2>2. CASE i = j
    BY <2>0, <2>2
  <2>3. CASE i # j
    <3>1. i \in 0..j - 1 /\ i \in 0..n
      BY <2>3
    <3>2. c(i) <= c(j - 1) /\ c(i) \in Nat
      BY <1>1, <1>3, <3>1
    <3> QED BY <2>0, <2>1, <3>2
  <2> QED BY <2>2, <2>3
<1>4. B = 0..n
  <2>1. B \in SUBSET (0..n) /\ 0 \in B /\ \A j \in 1..n : j - 1 \in B => j \in B
    BY <1>2, <1>3
  <2> HIDE DEF B
  <2> QED BY <2>1, Upto
<1>5. \A j \in 0..n : Below(j)
  BY <1>4
<1>6. ASSUME NEW j \in S, NEW i \in 0..j - 1 PROVE c(i) < c(j)
  <2>1. j \in 1..n /\ j - 1 \in 0..n /\ i \in 0..n
    OBVIOUS
  <2>2. c(i) <= c(j - 1) /\ c(j) = c(j - 1) + 1
    BY <1>1, <1>5, <2>1
  <2> QED BY <1>1, <2>1, <2>2
<1>7. \A j \in 0..n : c(j) <= c(n)
  BY <1>5
<1> QED BY <1>1, <1>5, <1>6, <1>7 DEF c

LEMMA CountReaches ==
  ASSUME NEW n \in Nat, NEW S \in SUBSET (1..n), NEW r \in 1..Cardinality(S)
  PROVE  \E e \in S : CountTo(S, e) = r
<1> DEFINE c(i) == CountTo(S, i)
           Reached(j) == c(j) >= r => \E e \in S : c(e) = r
           B == {j \in 0..n : Reached(j)}
<1>1. /\ \A i \in 0..n : c(i) \in Nat
      /\ \A i \in 1..n : c(i) = c(i - 1) + (IF i \in S THEN 1 ELSE 0)
      /\ c(n) = Cardinality(S) /\ c(0) = 0
  BY CountStep
<1>0. r \in Nat /\ r >= 1 /\ n \in 0..n
  <2>1. Cardinality(S) \in Nat
    BY <1>1
  <2> QED BY <2>1
<1> HIDE DEF c
<1>2. Reached(0)
  BY <1>0, <1>1
<1>3. ASSUME NEW j \in 1..n, Reached(j - 1) PROVE Reached(j)
  <2>1. c(j - 1) \in Nat /\ c(j) \in Nat /\ c(j) = c(j - 1) + (IF j \in S THEN 1 ELSE 0)
    BY <1>1
  <2>2. CASE c(j - 1) >= r
    BY <1>3, <2>2
  <2>3. CASE ~(c(j - 1) >= r) /\ c(j) >= r
    <3>1. j \in S /\ c(j) = r
      BY <1>0, <2>1, <2>3
    <3> QED BY <3>1
  <2> QED BY <2>2, <2>3
<1>4. B = 0..n
  <2>1. B \in SUBSET (0..n) /\ 0 \in B /\ \A j \in 1..n : j - 1 \in B => j \in B
    BY <1>2, <1>3
  <2> HIDE DEF B
  <2> QED BY <2>1, Upto
<1>5. Reached(n)
  BY <1>0, <1>4
<1>6. c(n) >= r
  BY <1>1
<1> QED BY <1>5, <1>6 DEF c
(***************************************************************************)
(* Tables.  A mode says whether what has been read is quoted, and what the *)
(* field has so far.                                                       *)
(***************************************************************************)
ModeNames == {"start", "field", "quoted", "escape", "closed", "malformed"}
ModeStep(tokens, mode, i) == IF i = 0 THEN "start" ELSE NextMode(tokens, i, mode[i-1])
Moded(mode, tokens) == mode = [i \in 0..Len(tokens) |-> ModeStep(tokens, mode, i)]

LEMMA ModesAre ==
  ASSUME NEW tokens
  PROVE  Modes(tokens) = CHOOSE mode : Moded(mode, tokens)
BY DEF Modes, Moded, ModeStep

LEMMA ModesFacts ==
  ASSUME NEW tokens \in Seq(Tokens)
  PROVE  LET mode == Modes(tokens)
         IN  /\ mode \in [0..Len(tokens) -> ModeNames] /\ mode[0] = "start"
             /\ \A i \in 1..Len(tokens) : mode[i] = NextMode(tokens, i, mode[i-1])
<1> DEFINE n == Len(tokens)
           step == [i \in 1..n |-> [x \in ModeNames |-> NextMode(tokens, i, x)]]
<1>1. n \in Nat /\ "start" \in ModeNames
  BY DEF ModeNames
<1>2. \A i \in 1..n : \A x \in ModeNames : NextMode(tokens, i, x) \in ModeNames
  BY DEF ModeNames, NextMode
<1>3. step \in [1..n -> [ModeNames -> ModeNames]]
  BY <1>2
<1>4. \A i \in 1..n : \A x \in ModeNames : step[i][x] = NextMode(tokens, i, x)
  OBVIOUS
<1> HIDE DEF step
<1>5. PICK f \in [0..n -> ModeNames] : Counts(f, n, "start", step)
  <2> HIDE DEF n
  <2> QED BY <1>1, <1>3, Counting
<1>6. ASSUME NEW i \in 0..n PROVE f[i] = ModeStep(tokens, f, i)
  <2>1. CASE i = 0
    BY <1>5, <2>1 DEF Counts, ModeStep
  <2>2. CASE i # 0
    <3>1. i \in 1..n /\ f[i-1] \in ModeNames
      BY <1>1, <1>5, <2>2
    <3> QED BY <1>4, <1>5, <2>2, <3>1 DEF Counts, ModeStep
  <2> QED BY <2>1, <2>2
<1>7. Moded(f, tokens)
  BY <1>5, <1>6 DEF Moded
<1> DEFINE mode == Modes(tokens)
<1>8. Moded(mode, tokens)
  BY <1>7, ModesAre
<1> HIDE DEF mode
<1>9. mode[0] = "start" /\ \A i \in 1..n : mode[i] = NextMode(tokens, i, mode[i-1])
  BY <1>1, <1>8 DEF Moded, ModeStep
<1>10. \A i \in 0..n : mode[i] \in ModeNames
  <2> DEFINE B == {i \in 0..n : mode[i] \in ModeNames}
  <2>1. 0 \in B /\ \A i \in 1..n : i - 1 \in B => i \in B
    BY <1>1, <1>2, <1>9
  <2>2. B = 0..n
    <3>1. B \in SUBSET (0..n)
      OBVIOUS
    <3> HIDE DEF B
    <3> QED BY <1>1, <2>1, <3>1, Upto
  <2> QED BY <2>2
<1>11. mode \in [0..n -> ModeNames]
  BY <1>8, <1>10 DEF Moded
<1> QED BY <1>9, <1>11 DEF mode

\* Whether there is an odd number of quotes up to a token.
Odd(tokens, i) == ~Even(Quotes(tokens, 1, i))

LEMMA OddFacts ==
  ASSUME NEW tokens \in Seq(Tokens)
  PROVE  /\ ~Odd(tokens, 0)
         /\ \A i \in 1..Len(tokens) : tokens[i] = "quote" => (Odd(tokens, i) <=> ~Odd(tokens, i - 1))
         /\ \A i \in 1..Len(tokens) : tokens[i] # "quote" => (Odd(tokens, i) <=> Odd(tokens, i - 1))
<1> DEFINE n == Len(tokens)
           S == {j \in 1..n : tokens[j] = "quote"}
<1>1. n \in Nat /\ S \in SUBSET (1..n)
  OBVIOUS
<1>2. \A i \in 0..n : Quotes(tokens, 1, i) = CountTo(S, i)
  <2> SUFFICES ASSUME NEW i \in 0..n PROVE Quotes(tokens, 1, i) = CountTo(S, i)
    OBVIOUS
  <2>1. {k \in 1..i : tokens[k] = "quote"} = {f \in S : f <= i}
    OBVIOUS
  <2> QED BY <2>1 DEF Quotes, CountTo
<1>3. /\ CountTo(S, 0) = 0 /\ \A i \in 0..n : CountTo(S, i) \in Nat
      /\ \A i \in 1..n : CountTo(S, i) = CountTo(S, i - 1) + (IF i \in S THEN 1 ELSE 0)
  <2> HIDE DEF S, n
  <2> QED BY <1>1, CountStep
<1>4. \A k \in Nat : Even(k + 1) <=> ~Even(k)
  BY DEF Even
<1>5. ~Odd(tokens, 0)
  BY <1>1, <1>2, <1>3 DEF Odd, Even
<1>6. ASSUME NEW i \in 1..n
      PROVE  /\ tokens[i] = "quote" => (Odd(tokens, i) <=> ~Odd(tokens, i - 1))
             /\ tokens[i] # "quote" => (Odd(tokens, i) <=> Odd(tokens, i - 1))
  <2>1. i - 1 \in 0..n /\ i \in 0..n
    OBVIOUS
  <2>2. /\ Quotes(tokens, 1, i) = CountTo(S, i) /\ Quotes(tokens, 1, i - 1) = CountTo(S, i - 1)
        /\ CountTo(S, i - 1) \in Nat
    BY <1>2, <1>3, <2>1
  <2>3. tokens[i] = "quote" => CountTo(S, i) = CountTo(S, i - 1) + 1
    BY <1>3
  <2>4. tokens[i] # "quote" => CountTo(S, i) = CountTo(S, i - 1)
    BY <1>3, <2>2
  <2> HIDE DEF S
  <2> QED BY <1>4, <2>2, <2>3, <2>4 DEF Odd
<1> QED BY <1>5, <1>6

\* No quoted field has text outside of its quotes, as far as has been read.
EndsAt(tokens) == Ends(tokens, {"delimiter", "line"})
Parted(tokens, a, b) == \E e \in EndsAt(tokens) : a <= e /\ e <= b
Clash(tokens, i, k) ==
    /\ tokens[i] = "quote" /\ tokens[k] # "quote" /\ SameField(tokens, i, k) /\ ~Odd(tokens, k)
ReadTo(tokens, mode, i) ==
    /\ mode[i] = "quoted" <=> Odd(tokens, i)
    /\ mode[i] = "start" /\ i > 0 => i \in EndsAt(tokens)
    /\ mode[i] = "field" => i > 0 /\ tokens[i] = "text"
    /\ mode[i] = "escape" => i > 0 /\ i < Len(tokens) /\ tokens[i+1] = "quote"
    /\ mode[i] = "closed" => i > 0 /\ tokens[i] = "quote" /\ (i < Len(tokens) => tokens[i+1] # "quote")
    /\ \A k \in 1..i : /\ tokens[k] = "text" /\ ~Odd(tokens, k) => mode[i] = "field" \/ Parted(tokens, k, i)
                       /\ tokens[k] = "quote" => mode[i] \in {"quoted", "escape", "closed"} \/ Parted(tokens, k, i)
WellReadTo(tokens, mode, i) == \A k \in 0..i : mode[k] # "malformed" /\ ReadTo(tokens, mode, k)
Read(tokens, mode, i) ==
    IF mode[i] = "malformed" THEN \E j, k \in 1..i : Clash(tokens, j, k)
    ELSE WellReadTo(tokens, mode, i)
LEMMA EndsFacts ==
  ASSUME NEW tokens \in Seq(Tokens)
  PROVE  /\ EndsAt(tokens) \subseteq 1..Len(tokens)
         /\ \A e \in 1..Len(tokens) :
               e \in EndsAt(tokens) <=> tokens[e] \in {"delimiter", "line"} /\ ~Odd(tokens, e)
BY DEF EndsAt, Ends, Odd

LEMMA Adjacent ==
  ASSUME NEW tokens \in Seq(Tokens), NEW i \in 2..Len(tokens),
         tokens[i-1] \in {"quote", "text"}, tokens[i] \in {"quote", "text"}
  PROVE  SameField(tokens, i - 1, i) /\ SameField(tokens, i, i - 1)
<1>1. ASSUME NEW e \in EndsAt(tokens), i - 1 <= e, e <= i PROVE FALSE
  <2>1. e \in 1..Len(tokens) /\ tokens[e] \in {"delimiter", "line"}
    BY EndsFacts
  <2>2. e = i - 1 \/ e = i
    BY <1>1, <2>1
  <2> QED BY <2>1, <2>2
<1>2. ASSUME NEW e \in EndsAt(tokens), i <= e, e <= i - 1 PROVE FALSE
  <2>1. e \in 1..Len(tokens)
    BY EndsFacts
  <2> QED BY <1>2, <2>1
<1> QED BY <1>1, <1>2 DEF SameField, EndsAt

LEMMA PartedGrows ==
  ASSUME NEW tokens \in Seq(Tokens), NEW i \in 1..Len(tokens), NEW k \in 1..i
  PROVE  /\ Parted(tokens, k, i - 1) => Parted(tokens, k, i)
         /\ i \in EndsAt(tokens) => Parted(tokens, k, i)
<1>1. \A e \in EndsAt(tokens) : e \in 1..Len(tokens)
  BY EndsFacts
<1>2. \A e \in EndsAt(tokens) : e <= i - 1 => e <= i
  BY <1>1
<1> QED BY <1>2 DEF Parted

LEMMA ReadStep ==
  ASSUME NEW tokens \in Seq(Tokens), NEW mode, NEW i \in 1..Len(tokens),
         mode[i-1] \in ModeNames \ {"malformed"}, ReadTo(tokens, mode, i - 1),
         mode[i] = NextMode(tokens, i, mode[i-1])
  PROVE  IF mode[i] = "malformed" THEN \E j, k \in 1..i : Clash(tokens, j, k)
         ELSE ReadTo(tokens, mode, i)
<1> DEFINE n == Len(tokens)
           t == tokens[i]
           Quoting == {"quoted", "escape", "closed"}
<1>0. n \in Nat /\ t \in Tokens /\ i - 1 \in 0..n /\ (i < n => tokens[i+1] \in Tokens)
      /\ (i - 1 > 0 => i - 1 \in 1..n /\ i \in 2..n) /\ i > 0 /\ i - 1 < n /\ (i - 1) + 1 = i
  OBVIOUS
<1>1. /\ t = "quote" => (Odd(tokens, i) <=> ~Odd(tokens, i - 1))
      /\ t # "quote" => (Odd(tokens, i) <=> Odd(tokens, i - 1))
  BY OddFacts
<1>2. i \in EndsAt(tokens) <=> t \in {"delimiter", "line"} /\ ~Odd(tokens, i)
  BY EndsFacts
<1>3. /\ mode[i-1] = "quoted" <=> Odd(tokens, i - 1)
      /\ mode[i-1] = "field" => i - 1 > 0 /\ tokens[i-1] = "text"
      /\ mode[i-1] = "escape" => t = "quote"
      /\ mode[i-1] = "closed" => i - 1 > 0 /\ tokens[i-1] = "quote" /\ t # "quote"
  BY <1>0 DEF ReadTo
<1>4. ASSUME NEW k \in 1..i - 1
      PROVE  /\ tokens[k] = "text" /\ ~Odd(tokens, k) => mode[i-1] = "field" \/ Parted(tokens, k, i)
             /\ tokens[k] = "quote" => mode[i-1] \in Quoting \/ Parted(tokens, k, i)
  <2>1. Parted(tokens, k, i - 1) => Parted(tokens, k, i)
    BY PartedGrows
  <2> QED BY <2>1 DEF ReadTo
<1>5. \A k \in 1..i : i \in EndsAt(tokens) => Parted(tokens, k, i)
  BY PartedGrows
<1>6. \A k \in 1..i : k = i \/ k \in 1..i - 1
  OBVIOUS
<1>7. t \in {"text", "quote", "delimiter", "line"}
  BY <1>0 DEF Tokens
<1>8. CASE mode[i-1] = "start"
  <2>1. /\ t \in {"delimiter", "line"} => mode[i] = "start"
        /\ t = "quote" => mode[i] = "quoted"
        /\ t = "text" => mode[i] = "field"
    BY <1>8 DEF NextMode
  <2>2. mode[i] \in {"start", "quoted", "field"}
    BY <1>7, <2>1
  <2>3. \A k \in 1..i - 1 : /\ tokens[k] = "text" /\ ~Odd(tokens, k) => Parted(tokens, k, i)
                            /\ tokens[k] = "quote" => Parted(tokens, k, i)
    BY <1>4, <1>8
  <2> QED BY <1>0, <1>1, <1>2, <1>3, <1>5, <1>6, <1>7, <1>8, <2>1, <2>2, <2>3 DEF ReadTo
<1>9. CASE mode[i-1] = "field"
  <2>1. /\ t \in {"delimiter", "line"} => mode[i] = "start"
        /\ t = "quote" => mode[i] = "malformed"
        /\ t = "text" => mode[i] = "field"
    BY <1>9 DEF NextMode
  <2>2. CASE t = "quote"
    <3>1. SameField(tokens, i, i - 1)
      BY <1>0, <1>3, <1>9, <2>2, Adjacent
    <3>2. Clash(tokens, i, i - 1) /\ i \in 1..i /\ i - 1 \in 1..i
      BY <1>0, <1>3, <1>9, <2>2, <3>1 DEF Clash
    <3> QED BY <2>1, <2>2, <3>2
  <2>3. CASE t # "quote"
    <3>1. mode[i] \in {"start", "field"}
      BY <1>7, <2>1, <2>3
    <3>2. \A k \in 1..i - 1 : tokens[k] = "quote" => Parted(tokens, k, i)
      BY <1>4, <1>9
    <3> QED BY <1>0, <1>1, <1>2, <1>3, <1>5, <1>6, <1>7, <1>9, <2>1, <2>3, <3>1, <3>2 DEF ReadTo
  <2> QED BY <2>2, <2>3
<1>10. CASE mode[i-1] = "quoted"
  <2>1. /\ t # "quote" => mode[i] = "quoted"
        /\ t = "quote" /\ i < n /\ tokens[i+1] = "quote" => mode[i] = "escape"
        /\ t = "quote" /\ ~(i < n /\ tokens[i+1] = "quote") => mode[i] = "closed"
    BY <1>10 DEF NextMode
  <2>2. mode[i] \in Quoting
    BY <2>1
  <2>3. \A k \in 1..i - 1 : tokens[k] = "text" /\ ~Odd(tokens, k) => Parted(tokens, k, i)
    BY <1>4, <1>10
  <2>4. t = "text" => Odd(tokens, i)
    BY <1>1, <1>3, <1>10
  <2>5. \A k \in 1..i : /\ tokens[k] = "text" /\ ~Odd(tokens, k) => mode[i] = "field" \/ Parted(tokens, k, i)
                        /\ tokens[k] = "quote" => mode[i] \in Quoting \/ Parted(tokens, k, i)
    BY <1>6, <2>2, <2>3, <2>4
  <2>6. mode[i] = "quoted" <=> Odd(tokens, i)
    BY <1>1, <1>3, <1>10, <2>1
  <2>7. /\ mode[i] = "escape" => i < n /\ tokens[i+1] = "quote"
        /\ mode[i] = "closed" => t = "quote" /\ (i < n => tokens[i+1] # "quote")
    BY <2>1
  <2> QED BY <1>0, <2>2, <2>5, <2>6, <2>7 DEF ReadTo
<1>11. CASE mode[i-1] = "escape"
  <2>1. mode[i] = "quoted"
    BY <1>11 DEF NextMode
  <2>2. \A k \in 1..i - 1 : tokens[k] = "text" /\ ~Odd(tokens, k) => Parted(tokens, k, i)
    BY <1>4, <1>11
  <2> QED BY <1>0, <1>1, <1>3, <1>6, <1>11, <2>1, <2>2 DEF ReadTo
<1>12. CASE mode[i-1] = "closed"
  <2>1. /\ t \in {"delimiter", "line"} => mode[i] = "start"
        /\ t = "text" => mode[i] = "malformed"
    BY <1>12 DEF NextMode
  <2>2. CASE t = "text"
    <3>1. SameField(tokens, i - 1, i)
      BY <1>0, <1>3, <1>12, <2>2, Adjacent
    <3>2. ~Odd(tokens, i)
      BY <1>1, <1>3, <1>12, <2>2
    <3>3. Clash(tokens, i - 1, i) /\ i \in 1..i /\ i - 1 \in 1..i
      BY <1>0, <1>3, <1>12, <2>2, <3>1, <3>2 DEF Clash
    <3> QED BY <2>1, <2>2, <3>3
  <2>3. CASE t \in {"delimiter", "line"}
    <3>1. i \in EndsAt(tokens) /\ mode[i] = "start" /\ ~Odd(tokens, i)
      BY <1>1, <1>2, <1>3, <1>12, <2>1, <2>3
    <3>2. \A k \in 1..i : Parted(tokens, k, i)
      BY <1>5, <3>1
    <3> QED BY <3>1, <3>2 DEF ReadTo
  <2> QED BY <1>3, <1>7, <1>12, <2>2, <2>3
<1> QED BY <1>8, <1>9, <1>10, <1>11, <1>12 DEF ModeNames

LEMMA ReadAll ==
  ASSUME NEW tokens \in Seq(Tokens)
  PROVE  Read(tokens, Modes(tokens), Len(tokens))
<1> DEFINE n == Len(tokens)
           mode == Modes(tokens)
           B == {i \in 0..n : Read(tokens, mode, i)}
<1>1. /\ n \in Nat /\ mode \in [0..n -> ModeNames] /\ mode[0] = "start"
      /\ \A i \in 1..n : mode[i] = NextMode(tokens, i, mode[i-1])
  BY ModesFacts
<1> HIDE DEF mode
<1>2. Read(tokens, mode, 0)
  <2>1. ReadTo(tokens, mode, 0)
    BY <1>1, OddFacts DEF ReadTo
  <2> QED BY <1>1, <2>1 DEF Read, WellReadTo
<1>3. ASSUME NEW i \in 1..n, Read(tokens, mode, i - 1) PROVE Read(tokens, mode, i)
  <2>0. mode[i] = NextMode(tokens, i, mode[i-1]) /\ mode[i-1] \in ModeNames
    <3>1. i - 1 \in 0..n
      OBVIOUS
    <3> QED BY <1>1, <3>1
  <2>1. CASE mode[i-1] = "malformed"
    <3>1. mode[i] = "malformed"
      BY <2>0, <2>1 DEF NextMode
    <3>2. PICK j, k \in 1..i - 1 : Clash(tokens, j, k)
      BY <1>3, <2>1 DEF Read
    <3>3. j \in 1..i /\ k \in 1..i
      OBVIOUS
    <3> QED BY <3>1, <3>2, <3>3 DEF Read
  <2>2. CASE mode[i-1] # "malformed"
    <3>1. WellReadTo(tokens, mode, i - 1) /\ i - 1 \in 0..i - 1
      BY <1>3, <2>2 DEF Read
    <3>2. ReadTo(tokens, mode, i - 1)
      BY <3>1 DEF WellReadTo
    <3>3. IF mode[i] = "malformed" THEN \E j, k \in 1..i : Clash(tokens, j, k)
          ELSE ReadTo(tokens, mode, i)
      BY <2>0, <2>2, <3>2, ReadStep
    <3>4. \A k \in 0..i : k = i \/ k \in 0..i - 1
      OBVIOUS
    <3> QED BY <3>1, <3>3, <3>4 DEF Read, WellReadTo
  <2> QED BY <2>1, <2>2
<1>4. B = 0..n
  <2>1. B \in SUBSET (0..n) /\ 0 \in B /\ \A i \in 1..n : i - 1 \in B => i \in B
    BY <1>1, <1>2, <1>3
  <2> HIDE DEF B
  <2> QED BY <1>1, <2>1, Upto
<1>5. Read(tokens, mode, n)
  BY <1>1, <1>4
<1> QED BY <1>5 DEF mode

LEMMA MalformedIff ==
  ASSUME NEW tokens \in Seq(Tokens)
  PROVE  Malformed(tokens) <=> ~WellQuoted(tokens)
<1> DEFINE n == Len(tokens)
           mode == Modes(tokens)
<1>1. n \in Nat /\ n \in 0..n /\ DOMAIN tokens = 1..n
  OBVIOUS
<1>2. Read(tokens, mode, n)
  BY ReadAll
<1>3. Malformed(tokens) <=> mode[n] \in {"malformed", "quoted"}
  BY DEF Malformed
<1> HIDE DEF mode
<1>4. WellQuoted(tokens) <=> ~Odd(tokens, n) /\ \A i, k \in 1..n : ~Clash(tokens, i, k)
  BY <1>1 DEF WellQuoted, Odd, Clash
<1>5. CASE mode[n] = "malformed"
  BY <1>2, <1>3, <1>4, <1>5 DEF Read
<1>6. CASE mode[n] # "malformed"
  <2>1. WellReadTo(tokens, mode, n)
    BY <1>2, <1>6 DEF Read
  <2>2. \A m \in 0..n : ReadTo(tokens, mode, m)
    BY <2>1 DEF WellReadTo
  <2>3. mode[n] = "quoted" <=> Odd(tokens, n)
    BY <1>1, <2>2 DEF ReadTo
  <2>4. ASSUME NEW i \in 1..n, NEW k \in 1..n, Clash(tokens, i, k) PROVE FALSE
    <3> DEFINE m == IF i <= k THEN k ELSE i
    <3>1. m \in 0..n /\ i \in 1..m /\ k \in 1..m /\ (m = i \/ m = k)
      OBVIOUS
    <3>2. tokens[i] = "quote" /\ ~Odd(tokens, k) /\ tokens[k] # "quote" /\ tokens[k] \in Tokens
      BY <2>4 DEF Clash
    <3>3. \A e \in EndsAt(tokens) : ~(i <= e /\ e <= k) /\ ~(k <= e /\ e <= i)
      BY <2>4 DEF Clash, SameField, EndsAt
    <3>4. k \notin EndsAt(tokens)
      <4>1. SUFFICES ASSUME k \in EndsAt(tokens) PROVE FALSE
        OBVIOUS
      <4>2. ~(i <= k /\ k <= k) /\ ~(k <= k /\ k <= i)
        BY <3>3, <4>1
      <4> QED BY <4>2
    <3>5. tokens[k] = "text"
      BY <3>2, <3>4, EndsFacts DEF Tokens
    <3>6. ~Parted(tokens, k, m)
      <4>1. ASSUME NEW e \in EndsAt(tokens), k <= e, e <= m PROVE FALSE
        <5>1. CASE m = i
          BY <3>3, <4>1, <5>1
        <5>2. CASE m = k
          <6>1. e \in 1..n /\ e = k
            BY <4>1, <5>2, EndsFacts
          <6> QED BY <3>4, <6>1
        <5> QED BY <3>1, <5>1, <5>2
      <4> QED BY <4>1 DEF Parted
    <3>7. ~Parted(tokens, i, m)
      <4>1. ASSUME NEW e \in EndsAt(tokens), i <= e, e <= m PROVE FALSE
        <5>1. CASE m = k
          BY <3>3, <4>1, <5>1
        <5>2. CASE m = i
          <6>1. e \in 1..n /\ e = i /\ tokens[e] \in {"delimiter", "line"}
            BY <4>1, <5>2, EndsFacts
          <6> QED BY <3>2, <6>1
        <5> QED BY <3>1, <5>1, <5>2
      <4> QED BY <4>1 DEF Parted
    <3> HIDE DEF m
    <3>8. mode[m] = "field" /\ mode[m] \in {"quoted", "escape", "closed"}
      <4>1. ReadTo(tokens, mode, m)
        BY <2>2, <3>1
      <4> QED BY <3>1, <3>2, <3>5, <3>6, <3>7, <4>1 DEF ReadTo
    <3> QED BY <3>8
  <2> QED BY <1>3, <1>4, <1>6, <2>3, <2>4
<1> QED BY <1>5, <1>6
(***************************************************************************)
(* The sizes of the rows are the distances of their ends.                  *)
(***************************************************************************)
ReadState == [rows : Seq(Positive), size : Nat]
RowStep(tokens, read, i) ==
    IF i = 0 THEN Reading(<<>>, 0)
    ELSE IF i \in RowEnds(tokens)
    THEN Reading(Append(read[i-1].rows, read[i-1].size + 1), 0)
    ELSE Reading(read[i-1].rows, read[i-1].size + 1)
RowReads(read, tokens) == read = [i \in 0..Len(tokens) |-> RowStep(tokens, read, i)]

LEMMA RowSizesAre ==
  ASSUME NEW tokens
  PROVE  RowSizes(tokens) = (CHOOSE read : RowReads(read, tokens))[Len(tokens)].rows
BY DEF RowSizes, RowReads, RowStep

NextRow(ends, i, x) ==
    IF i \in ends THEN Reading(Append(x.rows, x.size + 1), 0) ELSE Reading(x.rows, x.size + 1)

LEMMA RowsRead ==
  ASSUME NEW tokens \in Seq(Tokens)
  PROVE  \E read \in [0..Len(tokens) -> ReadState] : RowReads(read, tokens)
<1> DEFINE n == Len(tokens)
           step == [i \in 1..n |-> [x \in ReadState |-> NextRow(RowEnds(tokens), i, x)]]
           first == Reading(<<>>, 0)
<1>1. n \in Nat /\ first \in ReadState
  BY DEF Reading, ReadState
<1>2. \A i \in 1..n : \A x \in ReadState : NextRow(RowEnds(tokens), i, x) \in ReadState
  <2> SUFFICES ASSUME NEW i \in 1..n, NEW x \in ReadState
               PROVE  NextRow(RowEnds(tokens), i, x) \in ReadState
    OBVIOUS
  <2>1. x.rows \in Seq(Positive) /\ x.size \in Nat /\ x.size + 1 \in Positive /\ x.size + 1 \in Nat
    BY DEF ReadState, Positive
  <2>2. Append(x.rows, x.size + 1) \in Seq(Positive)
    BY <2>1
  <2> QED BY <2>1, <2>2 DEF NextRow, Reading, ReadState
<1>3. step \in [1..n -> [ReadState -> ReadState]]
  BY <1>2
<1>4. \A i \in 1..n : \A x \in ReadState : step[i][x] = NextRow(RowEnds(tokens), i, x)
  OBVIOUS
<1> HIDE DEF step, first
<1>5. PICK read \in [0..n -> ReadState] : Counts(read, n, first, step)
  <2> HIDE DEF n
  <2> QED BY <1>1, <1>3, Counting
<1>6. ASSUME NEW i \in 0..n PROVE read[i] = RowStep(tokens, read, i)
  <2>1. CASE i = 0
    BY <1>5, <2>1 DEF Counts, RowStep, first
  <2>2. CASE i # 0
    <3>1. i \in 1..n /\ read[i-1] \in ReadState
      BY <1>1, <1>5, <2>2
    <3> QED BY <1>4, <1>5, <2>2, <3>1 DEF Counts, RowStep, NextRow
  <2> QED BY <2>1, <2>2
<1>7. RowReads(read, tokens)
  BY <1>5, <1>6 DEF RowReads
<1> QED BY <1>7, <1>5

\* The r-th of some positions, and the distances between them.
Nth(ends, r) == CHOOSE e \in ends : Cardinality({f \in ends : f <= e}) = r
Distance(ends, r) == IF r = 1 THEN Nth(ends, 1) ELSE Nth(ends, r) - Nth(ends, r-1)

LEMMA NthFacts ==
  ASSUME NEW n \in Nat, NEW ends \in SUBSET (1..n)
  PROVE  /\ \A e \in ends : Nth(ends, CountTo(ends, e)) = e
         /\ \A r \in 1..Cardinality(ends) : Nth(ends, r) \in ends /\ CountTo(ends, Nth(ends, r)) = r
<1>1. ASSUME NEW e \in ends, NEW f \in ends, CountTo(ends, e) = CountTo(ends, f) PROVE e = f
  <2>1. e \in 1..n /\ f \in 1..n
    OBVIOUS
  <2>2. CountTo(ends, e) \in Nat
    BY <2>1, CountStep
  <2>3. CASE e < f
    <3>1. e \in 0..f - 1
      BY <2>1, <2>3
    <3>2. CountTo(ends, e) < CountTo(ends, f)
      BY <3>1, CountGrows
    <3> QED BY <1>1, <2>2, <3>2
  <2>4. CASE f < e
    <3>1. f \in 0..e - 1
      BY <2>1, <2>4
    <3>2. CountTo(ends, f) < CountTo(ends, e)
      BY <3>1, CountGrows
    <3> QED BY <1>1, <2>2, <3>2
  <2> QED BY <2>1, <2>3, <2>4
<1>2. \A r : Nth(ends, r) = CHOOSE e \in ends : CountTo(ends, e) = r
  BY DEF Nth, CountTo
<1>3. \A e \in ends : Nth(ends, CountTo(ends, e)) = e
  BY <1>1, <1>2
<1>4. ASSUME NEW r \in 1..Cardinality(ends)
      PROVE  Nth(ends, r) \in ends /\ CountTo(ends, Nth(ends, r)) = r
  <2>1. \E e \in ends : CountTo(ends, e) = r
    BY CountReaches
  <2> QED BY <1>2, <2>1
<1> QED BY <1>3, <1>4

RowsTo(read, ends, i) ==
    LET r == CountTo(ends, i)
    IN  /\ read[i].rows \in Seq(Positive) /\ Len(read[i].rows) = r
        /\ read[i].size \in Nat
        /\ read[i].size = i - (IF r = 0 THEN 0 ELSE Nth(ends, r))
        /\ \A k \in 1..r : read[i].rows[k] = Distance(ends, k)

LEMMA RowSizesFacts ==
  ASSUME NEW tokens \in Seq(Tokens)
  PROVE  LET ends == RowEnds(tokens)
         IN  /\ RowSizes(tokens) \in Seq(Positive)
             /\ RowSizes(tokens) = [r \in 1..Cardinality(ends) |-> Distance(ends, r)]
<1> DEFINE n == Len(tokens)
           ends == RowEnds(tokens)
           read == CHOOSE r : RowReads(r, tokens)
           B == {i \in 0..n : RowsTo(read, ends, i)}
           c(i) == CountTo(ends, i)
<1>0. n \in Nat /\ n \in 0..n /\ ends \in SUBSET (1..n)
  BY DEF RowEnds
<1>1. RowReads(read, tokens)
  BY RowsRead
<1>2. RowSizes(tokens) = read[n].rows
  BY RowSizesAre
<1> HIDE DEF read
<1>3. read[0] = Reading(<<>>, 0) /\ \A i \in 1..n : read[i] = NextRow(ends, i, read[i-1])
  <2>1. \A i \in 0..n : read[i] = RowStep(tokens, read, i)
    BY <1>1 DEF RowReads
  <2> QED BY <1>0, <2>1 DEF RowStep, NextRow
<1> HIDE DEF ends
<1>4. /\ c(0) = 0 /\ c(n) = Cardinality(ends) /\ \A i \in 0..n : c(i) \in Nat
      /\ \A i \in 1..n : c(i) = c(i - 1) + (IF i \in ends THEN 1 ELSE 0)
  BY <1>0, CountStep
<1>5. \A e \in ends : Nth(ends, c(e)) = e
  BY <1>0, NthFacts
<1>6. RowsTo(read, ends, 0)
  <2>1. read[0].rows = <<>> /\ read[0].size = 0
    BY <1>3 DEF Reading
  <2> HIDE DEF c
  <2>2. c(0) = 0
    BY <1>4
  <2> QED BY <2>1, <2>2 DEF RowsTo, c
<1>7. ASSUME NEW i \in 1..n, RowsTo(read, ends, i - 1) PROVE RowsTo(read, ends, i)
  <2> DEFINE rows == read[i-1].rows
             size == read[i-1].size
             r == c(i - 1)
  <2>1. /\ rows \in Seq(Positive) /\ Len(rows) = r /\ size \in Nat
        /\ size = (i - 1) - (IF r = 0 THEN 0 ELSE Nth(ends, r))
        /\ \A k \in 1..r : rows[k] = Distance(ends, k)
    BY <1>7 DEF RowsTo
  <2>2. read[i] = NextRow(ends, i, read[i-1]) /\ r \in Nat /\ c(i) \in Nat
        /\ c(i) = r + (IF i \in ends THEN 1 ELSE 0)
    <3>1. i - 1 \in 0..n /\ i \in 0..n
      BY <1>0
    <3> QED BY <1>3, <1>4, <3>1
  <2>3. r = 0 \/ Nth(ends, r) \in 1..n
    <3>1. r # 0 => r \in 1..Cardinality(ends)
      <4>1. i - 1 \in 0..n
        BY <1>0
      <4>2. r <= Cardinality(ends) /\ Cardinality(ends) \in Nat
        BY <1>0, <1>4, <4>1, CountGrows
      <4> QED BY <2>2, <4>2
    <3>2. r # 0 => Nth(ends, r) \in ends
      BY <1>0, <3>1, NthFacts
    <3> QED BY <1>0, <3>2
  <2>4. CASE i \in ends
    <3>1. c(i) = r + 1 /\ Nth(ends, r + 1) = i
      BY <1>5, <2>2, <2>4
    <3>2. read[i].rows = Append(rows, size + 1) /\ read[i].size = 0
      BY <2>2, <2>4 DEF NextRow, Reading
    <3> HIDE DEF rows, size, r, c
    <3>3. size + 1 \in Positive
      BY <2>1 DEF Positive
    <3>4. Append(rows, size + 1) \in Seq(Positive) /\ Len(Append(rows, size + 1)) = r + 1
          /\ \A k \in 1..r + 1 : Append(rows, size + 1)[k] = IF k <= r THEN rows[k] ELSE size + 1
      BY <2>1, <3>3, AppendProperties
    <3>5. size + 1 = Distance(ends, r + 1)
      <4>1. CASE r = 0
        <5>1. r + 1 = 1 /\ size + 1 = i
          BY <2>1, <4>1
        <5> QED BY <3>1, <5>1 DEF Distance
      <4>2. CASE r # 0
        <5>1. r + 1 # 1 /\ (r + 1) - 1 = r /\ size = (i - 1) - Nth(ends, r)
          BY <2>1, <2>2, <4>2
        <5>2. Nth(ends, r) \in Int
          BY <2>3, <4>2
        <5>3. size + 1 = i - Nth(ends, r)
          BY <5>1, <5>2
        <5> QED BY <3>1, <5>1, <5>3 DEF Distance
      <4> QED BY <4>1, <4>2
    <3>6. \A k \in 1..r + 1 : Append(rows, size + 1)[k] = Distance(ends, k)
      <4> SUFFICES ASSUME NEW k \in 1..r + 1 PROVE Append(rows, size + 1)[k] = Distance(ends, k)
        OBVIOUS
      <4>1. k \in 1..r \/ (k = r + 1 /\ ~(k <= r))
        BY <2>2
      <4>2. k \in 1..r => k <= r
        OBVIOUS
      <4> QED BY <2>1, <3>4, <3>5, <4>1, <4>2
    <3>7. 0 = i - (IF r + 1 = 0 THEN 0 ELSE Nth(ends, r + 1))
      BY <2>2, <3>1
    <3>8. c(i) = CountTo(ends, i)
      BY DEF c
    <3> QED BY <3>1, <3>2, <3>4, <3>6, <3>7, <3>8 DEF RowsTo
  <2>5. CASE i \notin ends
    <3>1. c(i) = r
      BY <2>2, <2>5
    <3>2. read[i].rows = rows /\ read[i].size = size + 1
      BY <2>2, <2>5 DEF NextRow, Reading
    <3> HIDE DEF rows, size, r, c
    <3>3. size + 1 = i - (IF r = 0 THEN 0 ELSE Nth(ends, r)) /\ size + 1 \in Nat
      BY <2>1, <2>3
    <3>4. c(i) = CountTo(ends, i)
      BY DEF c
    <3> QED BY <2>1, <3>1, <3>2, <3>3, <3>4 DEF RowsTo
  <2> QED BY <2>4, <2>5
<1>8. B = 0..n
  <2>1. B \in SUBSET (0..n) /\ 0 \in B /\ \A i \in 1..n : i - 1 \in B => i \in B
    BY <1>0, <1>6, <1>7
  <2> HIDE DEF B
  <2> QED BY <1>0, <2>1, Upto
<1>9. RowsTo(read, ends, n)
  BY <1>0, <1>8
<1>10. /\ RowSizes(tokens) \in Seq(Positive) /\ Len(RowSizes(tokens)) = Cardinality(ends)
       /\ \A k \in 1..Cardinality(ends) : RowSizes(tokens)[k] = Distance(ends, k)
  BY <1>2, <1>4, <1>9 DEF RowsTo
<1>11. RowSizes(tokens) = [r \in 1..Cardinality(ends) |-> Distance(ends, r)]
  <2> DEFINE rows == RowSizes(tokens)
  <2>0. rows \in Seq(Positive) /\ Len(rows) = Cardinality(ends)
        /\ \A k \in 1..Cardinality(ends) : rows[k] = Distance(ends, k)
    BY <1>10
  <2> HIDE DEF rows
  <2>1. rows = [k \in 1..Len(rows) |-> rows[k]]
    BY <2>0
  <2>2. rows = [k \in 1..Cardinality(ends) |-> Distance(ends, k)]
    BY <2>0, <2>1
  <2> QED BY <2>2 DEF rows
<1> QED BY <1>10, <1>11 DEF ends

(* Tables (_iter_tabular_rows): the rows the reader finds are those that *)
(* end at a line end outside of quotes, which is after an even number of *)
(* them, and it refuses exactly the tables whose quoting is malformed.   *)
THEOREM TabularCovered ==
  ASSUME NEW tokens \in Seq(Tokens)
  PROVE  TableCovered(tokens, TabularParts(tokens)) /\ TabularParts(tokens) \in Seq(TextPart)
<1> DEFINE n == Len(tokens)
           mode == Modes(tokens)
           ends == Ends(tokens, {"line"}) \cup (DOMAIN tokens \cap {Len(tokens)})
           sizes == [r \in 1..Cardinality(ends) |-> Distance(ends, r)]
<1>1. TableCovered(tokens, TabularParts(tokens)) =
        IF WellQuoted(tokens) THEN Covers(sizes, TabularParts(tokens), 0) ELSE TabularParts(tokens) = Refused
  BY DEF TableCovered, Distance, Nth
<1>2. CASE ~WellQuoted(tokens)
  <2>1. TabularParts(tokens) = Refused
    BY <1>2, MalformedIff DEF TabularParts
  <2>2. Refused \in Seq(TextPart)
    BY DEF Refused
  <2>3. TableCovered(tokens, TabularParts(tokens))
    BY <1>1, <1>2, <2>1
  <2> QED BY <2>1, <2>2, <2>3
<1>3. CASE WellQuoted(tokens)
  <2>1. ~Malformed(tokens) /\ TabularParts(tokens) = Packed(RowSizes(tokens), 0)
    BY <1>3, MalformedIff DEF TabularParts
  <2>2. mode[n] # "malformed"
    BY <2>1 DEF Malformed
  <2>3. \A k \in 0..n : mode[k] # "malformed" /\ ReadTo(tokens, mode, k)
    BY <2>2, ReadAll DEF Read, WellReadTo
  <2> HIDE DEF mode
  <2>4. ASSUME NEW i \in 1..n, tokens[i] = "line"
        PROVE  mode[i-1] \notin {"quoted", "escape"} <=> ~Odd(tokens, i)
    <3>1. i - 1 \in 0..n /\ (i - 1) + 1 = i
      OBVIOUS
    <3>2. ReadTo(tokens, mode, i - 1)
      BY <2>3, <3>1
    <3>3. mode[i-1] # "escape"
      BY <2>4, <3>1, <3>2 DEF ReadTo
    <3>4. mode[i-1] = "quoted" <=> Odd(tokens, i - 1)
      BY <3>2 DEF ReadTo
    <3>5. Odd(tokens, i) <=> Odd(tokens, i - 1)
      BY <2>4, OddFacts
    <3> QED BY <3>3, <3>4, <3>5
  <2>5. DOMAIN tokens = 1..n
    OBVIOUS
  <2>6. RowEnds(tokens) = {i \in 1..n : i = n \/ (tokens[i] = "line" /\ mode[i-1] \notin {"quoted", "escape"})}
    BY <2>5 DEF RowEnds, mode
  <2>7. ends = {i \in 1..n : i = n \/ (tokens[i] = "line" /\ ~Odd(tokens, i))}
    BY <2>5 DEF Ends, Odd
  <2>8. RowEnds(tokens) = ends
    BY <2>4, <2>6, <2>7
  <2>9. RowSizes(tokens) = sizes /\ RowSizes(tokens) \in Seq(Positive)
    BY <2>8, RowSizesFacts
  <2> HIDE DEF sizes
  <2>10. Covers(sizes, Packed(sizes, 0), 0) /\ Packed(sizes, 0) \in Seq(TextPart)
    BY <2>9, PackedCovers
  <2> QED BY <1>1, <1>3, <2>1, <2>9, <2>10 DEF sizes
<1> QED BY <1>2, <1>3
(***************************************************************************)
(* The elements at some positions, and a sequence of sequences.            *)
(***************************************************************************)
PickStep(s, positions, picked, i) ==
    IF i = 0 THEN <<>>
    ELSE IF i \in positions THEN Append(picked[i-1], s[i]) ELSE picked[i-1]
Picks(picked, s, positions) == picked = [i \in 0..Len(s) |-> PickStep(s, positions, picked, i)]

LEMMA PickedAre ==
  ASSUME NEW s, NEW positions
  PROVE  Picked(s, positions) = (CHOOSE picked : Picks(picked, s, positions))[Len(s)]
BY DEF Picked, Picks, PickStep

NextPick(s, positions, i, x) == IF i \in positions THEN Append(x, s[i]) ELSE x

LEMMA PicksExist ==
  ASSUME NEW S, NEW s \in Seq(S), NEW positions
  PROVE  \E picked \in [0..Len(s) -> Seq(S)] : Picks(picked, s, positions)
<1> DEFINE n == Len(s)
           step == [i \in 1..n |-> [x \in Seq(S) |-> NextPick(s, positions, i, x)]]
<1>1. n \in Nat /\ <<>> \in Seq(S)
  OBVIOUS
<1>2. \A i \in 1..n : \A x \in Seq(S) : NextPick(s, positions, i, x) \in Seq(S)
  BY DEF NextPick
<1>3. step \in [1..n -> [Seq(S) -> Seq(S)]]
  BY <1>2
<1>4. \A i \in 1..n : \A x \in Seq(S) : step[i][x] = NextPick(s, positions, i, x)
  OBVIOUS
<1> HIDE DEF step
<1>5. PICK picked \in [0..n -> Seq(S)] : Counts(picked, n, <<>>, step)
  <2> HIDE DEF n
  <2> QED BY <1>1, <1>3, Counting
<1>6. ASSUME NEW i \in 0..n PROVE picked[i] = PickStep(s, positions, picked, i)
  <2>1. CASE i = 0
    BY <1>5, <2>1 DEF Counts, PickStep
  <2>2. CASE i # 0
    <3>1. i \in 1..n /\ picked[i-1] \in Seq(S)
      BY <1>1, <1>5, <2>2
    <3> QED BY <1>4, <1>5, <2>2, <3>1 DEF Counts, PickStep, NextPick
  <2> QED BY <2>1, <2>2
<1>7. Picks(picked, s, positions)
  BY <1>5, <1>6 DEF Picks
<1> QED BY <1>5, <1>7

PlacesIn(s, positions) == positions \cap (1..Len(s))

PickedTo(s, at, S, x, i) ==
    /\ x \in Seq(S) /\ Len(x) = CountTo(at, i)
    /\ \A r \in 1..CountTo(at, i) : x[r] = s[Nth(at, r)]

LEMMA PickedFacts ==
  ASSUME NEW S, NEW s \in Seq(S), NEW positions
  PROVE  LET at == PlacesIn(s, positions)
         IN  /\ Picked(s, positions) \in Seq(S) /\ Len(Picked(s, positions)) = Cardinality(at)
             /\ \A r \in 1..Cardinality(at) : Picked(s, positions)[r] = s[Nth(at, r)]
<1> DEFINE n == Len(s)
           at == PlacesIn(s, positions)
           picked == CHOOSE p : Picks(p, s, positions)
           B == {i \in 0..n : PickedTo(s, at, S, picked[i], i)}
           c(i) == CountTo(at, i)
<1>0. n \in Nat /\ n \in 0..n /\ at \in SUBSET (1..n)
  BY DEF PlacesIn
<1>1. Picks(picked, s, positions)
  BY PicksExist
<1>2. Picked(s, positions) = picked[n]
  BY PickedAre
<1> HIDE DEF picked
<1>3. picked[0] = <<>> /\ \A i \in 1..n : picked[i] = NextPick(s, at, i, picked[i-1])
  <2>1. \A i \in 0..n : picked[i] = PickStep(s, positions, picked, i)
    BY <1>1 DEF Picks
  <2>2. \A i \in 1..n : i \in 0..n /\ i # 0 /\ (i \in positions <=> i \in at)
    BY DEF PlacesIn
  <2> QED BY <1>0, <2>1, <2>2 DEF PickStep, NextPick
<1> HIDE DEF at
<1>4. /\ c(0) = 0 /\ c(n) = Cardinality(at) /\ \A i \in 0..n : c(i) \in Nat
      /\ \A i \in 1..n : c(i) = c(i - 1) + (IF i \in at THEN 1 ELSE 0)
  BY <1>0, CountStep
<1>5. \A e \in at : Nth(at, c(e)) = e
  BY <1>0, NthFacts
<1>6. PickedTo(s, at, S, picked[0], 0)
  <2> HIDE DEF c
  <2>1. c(0) = 0
    BY <1>4
  <2>2. picked[0] \in Seq(S) /\ Len(picked[0]) = 0
    BY <1>3
  <2>3. CountTo(at, 0) = 0
    BY <2>1 DEF c
  <2>4. \A r \in 1..0 : picked[0][r] = s[Nth(at, r)]
    OBVIOUS
  <2> QED BY <2>2, <2>3, <2>4 DEF PickedTo
<1>7. ASSUME NEW i \in 1..n, PickedTo(s, at, S, picked[i-1], i - 1) PROVE PickedTo(s, at, S, picked[i], i)
  <2> DEFINE x == picked[i-1]
             r == c(i - 1)
  <2>1. x \in Seq(S) /\ Len(x) = r /\ \A k \in 1..r : x[k] = s[Nth(at, k)]
    BY <1>7 DEF PickedTo
  <2>2. picked[i] = NextPick(s, at, i, x) /\ r \in Nat /\ c(i) \in Nat
        /\ c(i) = r + (IF i \in at THEN 1 ELSE 0) /\ c(i) = CountTo(at, i)
    <3>1. i - 1 \in 0..n /\ i \in 0..n
      BY <1>0
    <3> QED BY <1>3, <1>4, <3>1
  <2>3. s[i] \in S
    OBVIOUS
  <2>4. CASE i \in at
    <3>1. c(i) = r + 1 /\ Nth(at, r + 1) = i /\ picked[i] = Append(x, s[i])
      BY <1>5, <2>2, <2>4 DEF NextPick
    <3> HIDE DEF x, r, c
    <3>2. Append(x, s[i]) \in Seq(S) /\ Len(Append(x, s[i])) = r + 1
          /\ \A k \in 1..r + 1 : Append(x, s[i])[k] = IF k <= r THEN x[k] ELSE s[i]
      BY <2>1, <2>3, AppendProperties
    <3>3. \A k \in 1..r + 1 : Append(x, s[i])[k] = s[Nth(at, k)]
      <4> SUFFICES ASSUME NEW k \in 1..r + 1 PROVE Append(x, s[i])[k] = s[Nth(at, k)]
        OBVIOUS
      <4>1. (k \in 1..r /\ k <= r) \/ (k = r + 1 /\ ~(k <= r))
        BY <2>2
      <4> QED BY <2>1, <3>1, <3>2, <4>1
    <3> QED BY <2>2, <3>1, <3>2, <3>3 DEF PickedTo
  <2>5. CASE i \notin at
    <3>1. c(i) = r /\ picked[i] = x
      BY <2>2, <2>5 DEF NextPick
    <3> HIDE DEF x, r, c
    <3> QED BY <2>1, <2>2, <3>1 DEF PickedTo
  <2> QED BY <2>4, <2>5
<1>8. B = 0..n
  <2>1. B \in SUBSET (0..n) /\ 0 \in B
    BY <1>0, <1>6
  <2>2. ASSUME NEW i \in 1..n, i - 1 \in B PROVE i \in B
    <3>1. PickedTo(s, at, S, picked[i], i)
      BY <1>7, <2>2
    <3> QED BY <3>1
  <2> HIDE DEF B
  <2> QED BY <1>0, <2>1, <2>2, Upto
<1>9. PickedTo(s, at, S, picked[n], n)
  BY <1>0, <1>8
<1> QED BY <1>2, <1>4, <1>9 DEF PickedTo, at

LEMMA PickedSet ==
  ASSUME NEW S, NEW s \in Seq(S), NEW positions
  PROVE  /\ ToSet(Picked(s, positions)) = {s[i] : i \in positions \cap DOMAIN s}
         /\ IsInjective(s) => IsInjective(Picked(s, positions))
<1> DEFINE n == Len(s)
           at == PlacesIn(s, positions)
           p == Picked(s, positions)
<1>0. n \in Nat /\ at \in SUBSET (1..n) /\ DOMAIN s = 1..n /\ at = positions \cap DOMAIN s
  BY DEF PlacesIn
<1>1. p \in Seq(S) /\ Len(p) = Cardinality(at) /\ \A r \in 1..Cardinality(at) : p[r] = s[Nth(at, r)]
  BY PickedFacts
<1>2. DOMAIN p = 1..Cardinality(at)
  BY <1>1
<1> HIDE DEF at, p, n
<1>3. /\ \A e \in at : Nth(at, CountTo(at, e)) = e
      /\ \A r \in 1..Cardinality(at) : Nth(at, r) \in at /\ CountTo(at, Nth(at, r)) = r
  BY <1>0, NthFacts
<1>4. \A e \in at : CountTo(at, e) \in 1..Cardinality(at)
  <2> SUFFICES ASSUME NEW e \in at PROVE CountTo(at, e) \in 1..Cardinality(at)
    OBVIOUS
  <2>1. e \in 1..n /\ e \in 0..n /\ 0 \in 0..e - 1
    BY <1>0
  <2>2. CountTo(at, 0) = 0 /\ CountTo(at, e) \in Nat /\ CountTo(at, n) = Cardinality(at)
        /\ CountTo(at, n) \in Nat
    <3>1. n \in 0..n
      BY <1>0
    <3> QED BY <1>0, <2>1, <3>1, CountStep
  <2>3. CountTo(at, 0) < CountTo(at, e) /\ CountTo(at, e) <= Cardinality(at)
    BY <1>0, <2>1, CountGrows
  <2> QED BY <2>2, <2>3
<1>5. ToSet(p) = {s[i] : i \in at}
  <2>1. \A r \in DOMAIN p : p[r] \in {s[i] : i \in at}
    BY <1>1, <1>2, <1>3
  <2>2. \A i \in at : \E r \in DOMAIN p : p[r] = s[i]
    BY <1>1, <1>2, <1>3, <1>4
  <2> QED BY <2>1, <2>2 DEF ToSet
<1>6. ASSUME IsInjective(s), NEW a \in DOMAIN p, NEW b \in DOMAIN p, p[a] = p[b] PROVE a = b
  <2>1. s[Nth(at, a)] = s[Nth(at, b)] /\ Nth(at, a) \in DOMAIN s /\ Nth(at, b) \in DOMAIN s
    BY <1>0, <1>1, <1>2, <1>3, <1>6
  <2>2. Nth(at, a) = Nth(at, b)
    BY <1>6, <2>1 DEF IsInjective
  <2> QED BY <1>2, <1>3, <2>2
<1> QED BY <1>0, <1>5, <1>6 DEF IsInjective, p

\* Positions that a rising sequence enumerates.
Those(e, m) == {e[k] : k \in 1..m}
Rising(e, m, n) == e \in [1..m -> 1..n] /\ \A j, k \in 1..m : j < k => e[j] < e[k]

LEMMA RisingCounts ==
  ASSUME NEW m \in Nat, NEW n \in Nat, NEW e, Rising(e, m, n)
  PROVE  Cardinality(Those(e, m)) = m /\ \A k \in 1..m : Nth(Those(e, m), k) = e[k]
<1> DEFINE at == Those(e, m)
           First(k) == {e[j] : j \in 1..k}
           Is(k) == IsFiniteSet(First(k)) /\ Cardinality(First(k)) = k
           B == {k \in 0..m : Is(k)}
<1>0. \A k \in 1..m : e[k] \in 1..n
  BY DEF Rising
<1>1. Is(0)
  <2>1. First(0) = {}
    OBVIOUS
  <2> HIDE DEF First
  <2> QED BY <2>1, FS_EmptySet
<1>2. ASSUME NEW k \in 1..m, Is(k - 1) PROVE Is(k)
  <2>1. First(k) = First(k - 1) \cup {e[k]}
    <3>1. \A j \in 1..k : j \in 1..k - 1 \/ j = k
      OBVIOUS
    <3>2. \A j \in 1..k - 1 : j \in 1..k
      OBVIOUS
    <3>3. k \in 1..k
      OBVIOUS
    <3> QED BY <3>1, <3>2, <3>3
  <2>2. e[k] \notin First(k - 1)
    <3>1. ASSUME NEW j \in 1..k - 1, e[j] = e[k] PROVE FALSE
      <4>1. j \in 1..m /\ j < k
        OBVIOUS
      <4>2. e[j] < e[k] /\ e[j] \in 1..n /\ e[k] \in 1..n
        BY <1>0, <4>1 DEF Rising
      <4> QED BY <3>1, <4>2
    <3> QED BY <3>1
  <2> HIDE DEF First
  <2>3. IsFiniteSet(First(k)) /\ Cardinality(First(k)) = (k - 1) + 1
    BY <1>2, <2>1, <2>2, FS_AddElement
  <2> QED BY <2>3
<1>3. B = 0..m
  <2> HIDE DEF Is
  <2>1. B \in SUBSET (0..m) /\ 0 \in B
    BY <1>1
  <2>2. ASSUME NEW k \in 1..m, k - 1 \in B PROVE k \in B
    BY <1>2, <2>2
  <2> HIDE DEF B
  <2> QED BY <2>1, <2>2, Upto
<1>4. \A k \in 0..m : Is(k)
  BY <1>3
<1>5. Cardinality(at) = m
  <2>1. at = First(m) /\ m \in 0..m
    BY DEF Those
  <2> QED BY <1>4, <2>1
<1>6. ASSUME NEW k \in 1..m PROVE Nth(at, k) = e[k]
  <2>1. {f \in at : f <= e[k]} = First(k)
    <3>1. \A j \in 1..m : e[j] <= e[k] <=> j <= k
      <4> SUFFICES ASSUME NEW j \in 1..m PROVE e[j] <= e[k] <=> j <= k
        OBVIOUS
      <4>1. j < k => e[j] < e[k]
        BY DEF Rising
      <4>2. k < j => e[k] < e[j]
        BY DEF Rising
      <4>3. e[j] \in Nat /\ e[k] \in Nat
        BY <1>0
      <4> QED BY <4>1, <4>2, <4>3
    <3>2. {f \in at : f <= e[k]} = {e[j] : j \in {x \in 1..m : e[x] <= e[k]}}
      BY DEF Those
    <3>3. {x \in 1..m : e[x] <= e[k]} = 1..k
      BY <3>1
    <3> QED BY <3>2, <3>3
  <2>2. CountTo(at, e[k]) = k
    <3>1. k \in 0..m
      OBVIOUS
    <3> QED BY <1>4, <2>1, <3>1 DEF CountTo
  <2>3. e[k] \in at /\ at \in SUBSET (1..n)
    BY <1>0 DEF Those
  <2> HIDE DEF at
  <2>4. Nth(at, CountTo(at, e[k])) = e[k]
    BY <2>3, NthFacts
  <2> QED BY <2>2, <2>4
<1> QED BY <1>5, <1>6

LEMMA PickedIs ==
  ASSUME NEW S, NEW s \in Seq(S), NEW positions, NEW m \in Nat, NEW e, Rising(e, m, Len(s)),
         PlacesIn(s, positions) = Those(e, m)
  PROVE  Picked(s, positions) = [k \in 1..m |-> s[e[k]]]
<1> DEFINE at == PlacesIn(s, positions)
           p == Picked(s, positions)
           n == Len(s)
<1>0. n \in Nat /\ Rising(e, m, n)
  OBVIOUS
<1>1. Cardinality(at) = m /\ \A k \in 1..m : Nth(at, k) = e[k]
  <2> HIDE DEF n
  <2> QED BY <1>0, RisingCounts
<1>2. p \in Seq(S) /\ Len(p) = Cardinality(at) /\ \A r \in 1..Cardinality(at) : p[r] = s[Nth(at, r)]
  BY PickedFacts
<1> HIDE DEF at, p
<1>3. p = [k \in 1..m |-> p[k]]
  BY <1>1, <1>2
<1>4. \A k \in 1..m : p[k] = s[e[k]]
  BY <1>1, <1>2
<1>5. p = [k \in 1..m |-> s[e[k]]]
  BY <1>3, <1>4
<1> QED BY <1>5 DEF p
FlatStep(seqs, flat, i) == IF i = 1 THEN seqs[i] ELSE flat[i-1] \o seqs[i]
Flats(flat, seqs) == flat = [i \in 1..Len(seqs) |-> FlatStep(seqs, flat, i)]

LEMMA FlattenIs ==
  ASSUME NEW seqs
  PROVE  FlattenSeq(seqs) = IF Len(seqs) = 0 THEN seqs
                            ELSE (CHOOSE flat : Flats(flat, seqs))[Len(seqs)]
BY DEF FlattenSeq, Flats, FlatStep

\* How many elements the first sequences have.
Lengths(seqs) == [s \in DOMAIN seqs |-> Len(seqs[s])]
Offset(seqs, s) == Size(Lengths(seqs), 1, s)

LEMMA OffsetFacts ==
  ASSUME NEW S, NEW seqs \in Seq(Seq(S))
  PROVE  /\ Offset(seqs, 0) = 0
         /\ \A s \in 0..Len(seqs) : Offset(seqs, s) \in Nat
         /\ \A s \in 1..Len(seqs) : Offset(seqs, s) = Offset(seqs, s - 1) + Len(seqs[s])
         /\ \A t \in 0..Len(seqs) : \A s \in 0..t : Offset(seqs, s) <= Offset(seqs, t)
<1> DEFINE n == Len(seqs)
           L == Lengths(seqs)
           off(s) == Offset(seqs, s)
           Below(t) == \A s \in 0..t : off(s) <= off(t)
           B == {t \in 0..n : Below(t)}
<1>0. n \in Nat /\ \A s \in 1..n : L[s] = Len(seqs[s]) /\ L[s] \in Nat
  BY DEF Lengths
<1> HIDE DEF L
<1>1. ASSUME NEW s \in 0..n PROVE off(s) \in Nat
  <2>1. \A k \in 1..s : L[k] \in Nat
    BY <1>0
  <2> QED BY <2>1, SizeFacts DEF Offset, L
<1>2. off(0) = 0
  <2>1. \A k \in 1..0 : L[k] \in Nat
    OBVIOUS
  <2> QED BY <2>1, SizeFacts DEF Offset, L
<1>3. ASSUME NEW s \in 1..n PROVE off(s) = off(s - 1) + Len(seqs[s])
  <2>1. \A k \in 1..s : L[k] \in Nat
    BY <1>0
  <2>2. Size(L, 1, s) = Size(L, 1, s - 1) + L[s]
    BY <2>1, SizeFacts
  <2> QED BY <1>0, <2>2 DEF Offset, L
<1> HIDE DEF off
<1>4. Below(0)
  BY <1>1
<1>5. ASSUME NEW t \in 1..n, Below(t - 1) PROVE Below(t)
  <2> SUFFICES ASSUME NEW s \in 0..t PROVE off(s) <= off(t)
    OBVIOUS
  <2>1. t - 1 \in 0..n /\ t \in 0..n /\ s \in 0..n
    OBVIOUS
  <2>2. off(t - 1) <= off(t)
    <3>1. off(t) = off(t - 1) + Len(seqs[t]) /\ Len(seqs[t]) \in Nat
      BY <1>0, <1>3
    <3>2. off(t - 1) \in Nat
      BY <1>1, <2>1
    <3> QED BY <3>1, <3>2
  <2>3. CASE s = t
    BY <1>1, <2>1, <2>3
  <2>4. CASE s # t
    <3>1. s \in 0..t - 1
      BY <2>4
    <3>2. off(s) <= off(t - 1)
      BY <1>5, <3>1
    <3>3. off(s) \in Nat /\ off(t - 1) \in Nat /\ off(t) \in Nat
      BY <1>1, <2>1
    <3> QED BY <2>2, <3>2, <3>3
  <2> QED BY <2>3, <2>4
<1>6. B = 0..n
  <2> HIDE DEF Below
  <2>1. B \in SUBSET (0..n) /\ 0 \in B
    BY <1>0, <1>4
  <2>2. ASSUME NEW t \in 1..n, t - 1 \in B PROVE t \in B
    BY <1>5, <2>2
  <2> HIDE DEF B
  <2> QED BY <1>0, <2>1, <2>2, Upto
<1>7. \A t \in 0..n : Below(t)
  BY <1>6
<1> QED BY <1>1, <1>2, <1>3, <1>7 DEF off

LEMMA OffsetReaches ==
  ASSUME NEW S, NEW seqs \in Seq(Seq(S)), NEW i \in 1..Offset(seqs, Len(seqs))
  PROVE  \E s \in 1..Len(seqs) : \E k \in 1..Len(seqs[s]) : i = Offset(seqs, s - 1) + k
<1> DEFINE n == Len(seqs)
           off(s) == Offset(seqs, s)
           Is(s) == \E k \in 1..Len(seqs[s]) : i = off(s - 1) + k
           Reached(t) == i <= off(t) => \E s \in 1..t : Is(s)
           B == {t \in 0..n : Reached(t)}
<1>0. /\ n \in Nat /\ n \in 0..n /\ off(0) = 0 /\ \A s \in 0..n : off(s) \in Nat
      /\ \A s \in 1..n : off(s) = off(s - 1) + Len(seqs[s]) /\ Len(seqs[s]) \in Nat
  BY OffsetFacts
<1>00. i \in Nat /\ i >= 1 /\ i <= off(n)
  BY <1>0
<1> HIDE DEF off
<1>1. Reached(0)
  BY <1>0, <1>00
<1>2. ASSUME NEW t \in 1..n, Reached(t - 1) PROVE Reached(t)
  <2>1. t - 1 \in 0..n /\ t \in 0..n /\ t \in 1..t /\ \A s \in 1..t - 1 : s \in 1..t
    OBVIOUS
  <2>2. CASE i <= off(t - 1)
    BY <1>2, <2>1, <2>2
  <2>3. CASE ~(i <= off(t - 1)) /\ i <= off(t)
    <3> DEFINE k == i - off(t - 1)
    <3>1. k \in 1..Len(seqs[t]) /\ i = off(t - 1) + k
      <4>1. off(t) = off(t - 1) + Len(seqs[t]) /\ Len(seqs[t]) \in Nat /\ off(t - 1) \in Nat
        BY <1>0, <2>1
      <4> QED BY <1>00, <2>3, <4>1
    <3> HIDE DEF k
    <3> QED BY <2>1, <3>1
  <2> QED BY <2>2, <2>3
<1>3. B = 0..n
  <2> HIDE DEF Reached
  <2>1. B \in SUBSET (0..n) /\ 0 \in B
    BY <1>0, <1>1
  <2>2. ASSUME NEW t \in 1..n, t - 1 \in B PROVE t \in B
    BY <1>2, <2>2
  <2> HIDE DEF B
  <2> QED BY <1>0, <2>1, <2>2, Upto
<1>4. Reached(n)
  BY <1>0, <1>3
<1> QED BY <1>00, <1>4 DEF off

FlatTo(S, seqs, x, t) ==
    /\ x \in Seq(S) /\ Len(x) = Offset(seqs, t)
    /\ \A s \in 1..t : \A k \in 1..Len(seqs[s]) : x[Offset(seqs, s - 1) + k] = seqs[s][k]

LEMMA FlatAppend ==
  ASSUME NEW S, NEW seqs \in Seq(Seq(S)), NEW t \in 1..Len(seqs), NEW x, FlatTo(S, seqs, x, t - 1)
  PROVE  FlatTo(S, seqs, x \o seqs[t], t)
<1> DEFINE y == x \o seqs[t]
           off(s) == Offset(seqs, s)
           n == Len(seqs)
<1>0. /\ n \in Nat /\ \A s \in 0..n : off(s) \in Nat
      /\ \A s \in 1..n : off(s) = off(s - 1) + Len(seqs[s]) /\ Len(seqs[s]) \in Nat
      /\ \A u \in 0..n : \A s \in 0..u : off(s) <= off(u)
  BY OffsetFacts
<1>1. x \in Seq(S) /\ seqs[t] \in Seq(S) /\ Len(x) = off(t - 1)
  BY DEF FlatTo
<1>2. /\ y \in Seq(S) /\ Len(y) = Len(x) + Len(seqs[t])
      /\ \A i \in 1..(Len(x) + Len(seqs[t])) : y[i] = IF i <= Len(x) THEN x[i] ELSE seqs[t][i - Len(x)]
  BY <1>1, ConcatProperties
<1> HIDE DEF y
<1>3. ASSUME NEW s \in 1..t, NEW k \in 1..Len(seqs[s]) PROVE y[off(s - 1) + k] = seqs[s][k]
  <2>0. \A u \in 1..t - 1 : \A j \in 1..Len(seqs[u]) : x[off(u - 1) + j] = seqs[u][j]
    BY DEF FlatTo
  <2> HIDE DEF off
  <2>1. s \in 1..n /\ s - 1 \in 0..n /\ t - 1 \in 0..n /\ s \in 0..n /\ t \in 1..n
    OBVIOUS
  <2>2. off(s - 1) \in Nat /\ off(t - 1) \in Nat /\ Len(seqs[t]) \in Nat /\ Len(seqs[s]) \in Nat
    BY <1>0, <2>1
  <2>3. CASE s = t
    <3>1. off(s - 1) + k \in 1..(Len(x) + Len(seqs[t])) /\ ~(off(s - 1) + k <= Len(x))
          /\ (off(s - 1) + k) - Len(x) = k
      BY <1>1, <2>2, <2>3
    <3> QED BY <1>2, <2>3, <3>1
  <2>4. CASE s # t
    <3>1. s \in 1..t - 1 /\ s \in 0..t - 1
      BY <2>4
    <3>2. off(s) <= off(t - 1) /\ off(s) = off(s - 1) + Len(seqs[s])
      BY <1>0, <2>1, <3>1
    <3>3. off(s - 1) + k \in 1..(Len(x) + Len(seqs[t])) /\ off(s - 1) + k <= Len(x)
      <4>1. Len(x) = off(t - 1)
        BY <1>1 DEF off
      <4>2. k \in Nat /\ k >= 1 /\ k <= Len(seqs[s])
        BY <2>2
      <4>3. \A a, b, c, d, e \in Nat :
              b <= c /\ b = a + d /\ k <= d => a + k \in 1..(c + e) /\ a + k <= c
        BY <4>2
      <4>4. off(s) \in Nat
        BY <1>0, <2>1
      <4> QED BY <2>2, <3>2, <4>1, <4>2, <4>3, <4>4
    <3> QED BY <1>2, <2>0, <3>1, <3>3
  <2> QED BY <2>3, <2>4
<1>4. Len(y) = off(t)
  BY <1>0, <1>1, <1>2
<1> QED BY <1>2, <1>3, <1>4 DEF FlatTo, y

LEMMA FlattenFacts ==
  ASSUME NEW S, NEW seqs \in Seq(Seq(S))
  PROVE  FlatTo(S, seqs, FlattenSeq(seqs), Len(seqs))
<1> DEFINE n == Len(seqs)
<1>0. n \in Nat /\ Offset(seqs, 0) = 0
  BY OffsetFacts
<1>1. CASE n = 0
  <2>1. FlattenSeq(seqs) = seqs /\ seqs = <<>>
    BY <1>1, FlattenIs
  <2>2. <<>> \in Seq(S) /\ Len(<<>>) = 0
    OBVIOUS
  <2> QED BY <1>0, <1>1, <2>1, <2>2 DEF FlatTo
<1>2. CASE n # 0
  <2> DEFINE step == [i \in 1..n |-> [x \in Seq(S) |-> x \o seqs[i]]]
             flat == CHOOSE f : Flats(f, seqs)
  <2>1. <<>> \in Seq(S) /\ \A i \in 1..n : seqs[i] \in Seq(S)
    OBVIOUS
  <2>2. step \in [1..n -> [Seq(S) -> Seq(S)]] /\ \A i \in 1..n : \A x \in Seq(S) : step[i][x] = x \o seqs[i]
    BY <2>1, ConcatProperties
  <2> HIDE DEF step
  <2>3. PICK f \in [0..n -> Seq(S)] : Counts(f, n, <<>>, step)
    <3> HIDE DEF n
    <3> QED BY <1>0, <2>1, <2>2, Counting
  <2>4. \A i \in 1..n : f[i] = f[i-1] \o seqs[i] /\ f[0] = <<>>
    <3> SUFFICES ASSUME NEW i \in 1..n PROVE f[i] = f[i-1] \o seqs[i] /\ f[0] = <<>>
      OBVIOUS
    <3>1. i - 1 \in 0..n
      OBVIOUS
    <3> QED BY <2>2, <2>3, <3>1 DEF Counts
  <2> DEFINE g == [i \in 1..n |-> f[i]]
  <2>5. ASSUME NEW i \in 1..n PROVE g[i] = FlatStep(seqs, g, i)
    <3>1. CASE i = 1
      <4>1. f[1] = <<>> \o seqs[1] /\ seqs[1] \in Seq(S)
        <5>0. 1 \in 1..n
          BY <3>1
        <5>1. f[1] = <<>> \o seqs[1]
          <6>1. f[i] = f[i-1] \o seqs[i] /\ f[0] = <<>>
            BY <2>4
          <6>2. i = 1 /\ i - 1 = 0
            BY <3>1
          <6> QED BY <6>1, <6>2
        <5>2. seqs[1] \in Seq(S)
          BY <2>1, <3>1
        <5> QED BY <5>1, <5>2
      <4> QED BY <3>1, <4>1 DEF FlatStep
    <3>2. CASE i # 1
      <4>1. i - 1 \in 1..n
        BY <3>2
      <4> QED BY <2>4, <3>2, <4>1 DEF FlatStep
    <3> QED BY <3>1, <3>2
  <2>6. Flats(g, seqs)
    <3>1. g = [i \in 1..n |-> g[i]]
      OBVIOUS
    <3> HIDE DEF g
    <3> QED BY <2>5, <3>1 DEF Flats
  <2>7. Flats(flat, seqs)
    BY <2>6
  <2>8. FlattenSeq(seqs) = flat[n]
    BY <1>2, FlattenIs
  <2> HIDE DEF flat
  <2>9. \A i \in 1..n : flat[i] = FlatStep(seqs, flat, i)
    BY <2>7 DEF Flats
  <2> DEFINE B == {t \in 0..n : t = 0 \/ FlatTo(S, seqs, flat[t], t)}
  <2>10. ASSUME NEW t \in 1..n, t - 1 \in B PROVE FlatTo(S, seqs, flat[t], t)
    <3>1. CASE t = 1
      <4>1. FlatTo(S, seqs, <<>>, 0)
        BY <1>0 DEF FlatTo
      <4>2. t - 1 = 0 /\ flat[t] = seqs[t] /\ <<>> \o seqs[t] = seqs[t]
        BY <2>1, <2>9, <3>1 DEF FlatStep
      <4>3. FlatTo(S, seqs, <<>> \o seqs[t], t)
        BY <4>1, <4>2, FlatAppend
      <4> QED BY <4>2, <4>3
    <3>2. CASE t # 1
      <4>1. flat[t] = flat[t-1] \o seqs[t] /\ FlatTo(S, seqs, flat[t-1], t - 1)
        <5>1. flat[t] = flat[t-1] \o seqs[t]
          BY <2>9, <3>2 DEF FlatStep
        <5>2. t - 1 # 0
          BY <3>2
        <5>3. FlatTo(S, seqs, flat[t-1], t - 1)
          BY <2>10, <5>2
        <5> QED BY <5>1, <5>3
      <4> QED BY <4>1, FlatAppend
    <3> QED BY <3>1, <3>2
  <2>11. B = 0..n
    <3>1. B \in SUBSET (0..n) /\ 0 \in B
      BY <1>0
    <3>2. ASSUME NEW t \in 1..n, t - 1 \in B PROVE t \in B
      BY <2>10, <3>2
    <3> HIDE DEF B
    <3> QED BY <1>0, <3>1, <3>2, Upto
  <2>12. n \in 0..n
    BY <1>0
  <2> QED BY <1>2, <2>8, <2>11, <2>12
<1> QED BY <1>1, <1>2
(***************************************************************************)
(* Slides, sheets and sections.  The parts of a section are its text and   *)
(* then the images that no section before it has shown.                    *)
(***************************************************************************)
AnyPart == [of : Nat, kind : {"units", "image"}, first : Nat, last : Nat, overlap : Nat]
SectionSet == [rows : Seq(Positive), images : Distinct(Names)]
TextOf(sheets, sections, s) == SectionText(sheets, sections[s].rows)
NewImages(sections, s) == {n \in DOMAIN sections[s].images : sections[s].images[n] \notin Shown(sections, s)}

LEMMA WithinFacts ==
  ASSUME NEW of \in Nat, NEW parts \in Seq(AnyPart)
  PROVE  /\ Within(of, parts) \in Seq(AnyPart) /\ Len(Within(of, parts)) = Len(parts)
         /\ \A i \in 1..Len(parts) : /\ Within(of, parts)[i] = [parts[i] EXCEPT !.of = of]
                                     /\ Within(of, parts)[i].of = of
                                     /\ Within(of, parts)[i].kind = parts[i].kind
                                     /\ Within(of, parts)[i].first = parts[i].first
                                     /\ Within(of, parts)[i].last = parts[i].last
<1> DEFINE w == Within(of, parts)
<1>1. w = [i \in 1..Len(parts) |-> [parts[i] EXCEPT !.of = of]] /\ Len(parts) \in Nat
  BY DEF Within
<1>2. \A i \in 1..Len(parts) : parts[i] \in AnyPart
  OBVIOUS
<1>3. \A i \in 1..Len(parts) : [parts[i] EXCEPT !.of = of] \in AnyPart
  BY <1>2 DEF AnyPart
<1> HIDE DEF w
<1>4. w \in Seq(AnyPart) /\ Len(w) = Len(parts)
  BY <1>1, <1>3
<1>5. ASSUME NEW i \in 1..Len(parts)
      PROVE  /\ w[i] = [parts[i] EXCEPT !.of = of] /\ w[i].of = of /\ w[i].kind = parts[i].kind
             /\ w[i].first = parts[i].first /\ w[i].last = parts[i].last
  <2>1. w[i] = [parts[i] EXCEPT !.of = of] /\ parts[i] \in AnyPart
    BY <1>1, <1>2
  <2> QED BY <2>1 DEF AnyPart
<1> QED BY <1>4, <1>5 DEF w

\* Nothing changes for parts of no section.
LEMMA WithinNone ==
  ASSUME NEW parts \in Seq(TextPart), NEW of \in Nat
  PROVE  Within(0, Within(of, parts)) = parts /\ Within(0, parts) = parts
<1>1. \A i \in 1..Len(parts) : parts[i] \in TextPart
  OBVIOUS
<1>2. \A p \in TextPart : [[p EXCEPT !.of = of] EXCEPT !.of = 0] = p /\ [p EXCEPT !.of = 0] = p
  BY DEF TextPart
<1>3. parts = [i \in 1..Len(parts) |-> parts[i]] /\ DOMAIN parts = 1..Len(parts)
  OBVIOUS
<1>4. Within(of, parts) = [i \in 1..Len(parts) |-> [parts[i] EXCEPT !.of = of]]
  BY <1>3 DEF Within
<1> DEFINE w == Within(of, parts)
<1>5. DOMAIN w = 1..Len(parts) /\ \A i \in 1..Len(parts) : w[i] = [parts[i] EXCEPT !.of = of]
  BY <1>4
<1> HIDE DEF w
<1>6. Within(0, w) = [i \in 1..Len(parts) |-> [[parts[i] EXCEPT !.of = of] EXCEPT !.of = 0]]
  BY <1>5 DEF Within
<1>7. Within(0, w) = parts
  BY <1>1, <1>2, <1>3, <1>6
<1>8. Within(0, parts) = [i \in 1..Len(parts) |-> [parts[i] EXCEPT !.of = 0]]
  BY <1>3 DEF Within
<1>9. Within(0, parts) = parts
  BY <1>1, <1>2, <1>3, <1>8
<1> QED BY <1>7, <1>9 DEF w

LEMMA TextTyped ==
  ASSUME NEW sheets \in BOOLEAN, NEW rows \in Seq(Positive)
  PROVE  SectionText(sheets, rows) \in Seq(TextPart)
<1>1. CASE sheets
  BY <1>1, PackedCovers DEF SectionText, SheetText
<1>2. CASE ~sheets /\ SlideText(rows) = Refused
  BY <1>2 DEF SectionText, Refused
<1>3. CASE ~sheets /\ SlideText(rows) = <<Units(1, Len(rows), 0)>>
  <2>1. Units(1, Len(rows), 0) \in TextPart
    BY DEF Units, TextPart
  <2> QED BY <1>3, <2>1 DEF SectionText
<1> QED BY <1>1, <1>2, <1>3 DEF SlideText

LEMMA TextIsAny == Seq(TextPart) \subseteq Seq(AnyPart) /\ Seq(ImagePart) \subseteq Seq(AnyPart)
<1>1. TextPart \subseteq AnyPart /\ ImagePart \subseteq AnyPart
  BY DEF TextPart, AnyPart, ImagePart
<1> QED BY <1>1

LEMMA ImagesPicked ==
  ASSUME NEW sections \in Seq(SectionSet), NEW s \in DOMAIN sections
  PROVE  LET shown == SectionImages(sections, s)
         IN  /\ shown \in Seq(ImagePart) /\ IsInjective(shown)
             /\ ToSet(shown) = {Picture(n) : n \in NewImages(sections, s)}
<1> DEFINE images == sections[s].images
           pics == [n \in DOMAIN images |-> Picture(n)]
           new == NewImages(sections, s)
<1>1. images \in Seq(Names) /\ DOMAIN images = 1..Len(images) /\ Len(images) \in Nat
  <2>1. sections[s] \in SectionSet
    OBVIOUS
  <2> QED BY <2>1 DEF SectionSet, Distinct
<1>2. SectionImages(sections, s) = Picked(pics, new)
  BY DEF SectionImages, NewImages
<1> HIDE DEF images
<1>3. \A n \in DOMAIN images : Picture(n) \in ImagePart /\ Picture(n).first = n
  BY <1>1 DEF Picture, ImagePart
<1>4. pics \in Seq(ImagePart) /\ DOMAIN pics = DOMAIN images
  BY <1>1, <1>3
<1>5. IsInjective(pics)
  BY <1>3 DEF IsInjective
<1>6. new \subseteq DOMAIN images
  BY DEF NewImages, images
<1>7. \A n \in new : pics[n] = Picture(n)
  BY <1>6
<1> HIDE DEF pics, new
<1>8. /\ Picked(pics, new) \in Seq(ImagePart) /\ IsInjective(Picked(pics, new))
      /\ ToSet(Picked(pics, new)) = {pics[i] : i \in new \cap DOMAIN pics}
  BY <1>4, <1>5, PickedFacts, PickedSet
<1>9. {pics[i] : i \in new \cap DOMAIN pics} = {Picture(n) : n \in new}
  BY <1>4, <1>6, <1>7
<1> QED BY <1>2, <1>8, <1>9 DEF new

\* What the parts of a section are.
TextLen(sheets, sections, s) == Len(TextOf(sheets, sections, s))
SectionIs(sheets, sections, s, p) ==
    /\ p \in Seq(AnyPart) /\ TextLen(sheets, sections, s) \in 0..Len(p)
    /\ \A k \in 1..Len(p) : p[k].of = s
    /\ \A k \in 1..TextLen(sheets, sections, s) :
          p[k].kind = "units" /\ p[k] = [TextOf(sheets, sections, s)[k] EXCEPT !.of = s]
    /\ \A k \in TextLen(sheets, sections, s) + 1..Len(p) :
          p[k].kind = "image" /\ p[k].first \in NewImages(sections, s)
    /\ \A n \in NewImages(sections, s) :
          \E k \in TextLen(sheets, sections, s) + 1..Len(p) : p[k].first = n
    /\ \A j, k \in TextLen(sheets, sections, s) + 1..Len(p) : p[j].first = p[k].first => j = k

LEMMA SectionFacts ==
  ASSUME NEW sheets \in BOOLEAN, NEW sections \in Seq(SectionSet), NEW s \in DOMAIN sections
  PROVE  SectionIs(sheets, sections, s, SectionParts(sheets, sections, s))
<1> DEFINE text == TextOf(sheets, sections, s)
           shown == SectionImages(sections, s)
           both == text \o shown
           p == SectionParts(sheets, sections, s)
           m == Len(text)
           new == NewImages(sections, s)
<1>1. s \in Nat /\ sections[s].rows \in Seq(Positive)
  <2>1. sections[s] \in SectionSet
    OBVIOUS
  <2> QED BY <2>1 DEF SectionSet
<1>2. text \in Seq(TextPart) /\ text \in Seq(AnyPart)
  BY <1>1, TextTyped, TextIsAny DEF TextOf
<1>3. /\ shown \in Seq(ImagePart) /\ shown \in Seq(AnyPart) /\ IsInjective(shown)
      /\ ToSet(shown) = {Picture(n) : n \in new}
  BY ImagesPicked, TextIsAny
<1>4. p = Within(s, both)
  BY DEF SectionParts, TextOf
<1> HIDE DEF text, shown
<1>5. /\ both \in Seq(AnyPart) /\ Len(both) = Len(text) + Len(shown)
      /\ \A i \in 1..(Len(text) + Len(shown)) : both[i] = IF i <= Len(text) THEN text[i] ELSE shown[i - Len(text)]
  BY <1>2, <1>3, ConcatProperties
<1> HIDE DEF both
<1>6. /\ p \in Seq(AnyPart) /\ Len(p) = Len(both)
      /\ \A i \in 1..Len(both) : /\ p[i] = [both[i] EXCEPT !.of = s] /\ p[i].of = s
                                 /\ p[i].kind = both[i].kind /\ p[i].first = both[i].first
  BY <1>1, <1>4, <1>5, WithinFacts
<1> HIDE DEF p
<1>7. m \in Nat /\ Len(shown) \in Nat /\ Len(p) = m + Len(shown) /\ m \in 0..Len(p)
  BY <1>2, <1>3, <1>5, <1>6
<1>8. ASSUME NEW k \in 1..m PROVE p[k].kind = "units" /\ p[k] = [text[k] EXCEPT !.of = s]
  <2>1. k \in 1..Len(both) /\ k <= Len(text) /\ k \in 1..(Len(text) + Len(shown))
    BY <1>5, <1>7
  <2>2. both[k] = text[k]
    BY <1>5, <2>1
  <2>3. text[k].kind = "units"
    <3>1. text[k] \in TextPart
      BY <1>2
    <3> QED BY <3>1 DEF TextPart
  <2> QED BY <1>6, <2>1, <2>2, <2>3
<1>9. ASSUME NEW k \in m + 1..Len(p)
      PROVE  /\ k - m \in 1..Len(shown) /\ p[k].kind = "image" /\ p[k].first = shown[k - m].first
             /\ p[k].first \in new /\ shown[k - m] = Picture(p[k].first)
  <2>1. k \in 1..Len(both) /\ ~(k <= Len(text)) /\ k \in 1..(Len(text) + Len(shown)) /\ k - m \in 1..Len(shown)
    BY <1>5, <1>7
  <2>2. both[k] = shown[k - m]
    BY <1>5, <2>1
  <2>3. shown[k - m] \in ToSet(shown)
    BY <1>3, <2>1 DEF ToSet
  <2>4. PICK n \in new : shown[k - m] = Picture(n)
    BY <1>3, <2>3
  <2>5. shown[k - m].first = n /\ shown[k - m].kind = "image"
    BY <2>4 DEF Picture
  <2> QED BY <1>6, <2>1, <2>2, <2>4, <2>5
<1>10. ASSUME NEW n \in new PROVE \E k \in m + 1..Len(p) : p[k].first = n
  <2>1. Picture(n) \in ToSet(shown)
    BY <1>3
  <2>2. PICK r \in 1..Len(shown) : shown[r] = Picture(n)
    BY <1>3, <2>1 DEF ToSet
  <2>3. m + r \in m + 1..Len(p) /\ (m + r) - m = r
    BY <1>7
  <2>4. p[m + r].first = shown[r].first
    BY <1>9, <2>3
  <2>5. shown[r].first = n
    BY <2>2 DEF Picture
  <2> QED BY <2>3, <2>4, <2>5
<1>11. ASSUME NEW j \in m + 1..Len(p), NEW k \in m + 1..Len(p), p[j].first = p[k].first PROVE j = k
  <2>1. shown[j - m] = shown[k - m] /\ j - m \in DOMAIN shown /\ k - m \in DOMAIN shown
    <3>1. DOMAIN shown = 1..Len(shown)
      BY <1>3
    <3> QED BY <1>9, <1>11, <3>1
  <2>2. j - m = k - m
    BY <1>3, <2>1 DEF IsInjective
  <2> QED BY <1>7, <2>2
<1>12. TextLen(sheets, sections, s) = m
  BY DEF TextLen, text
<1>13. \A k \in 1..Len(p) : p[k].of = s
  BY <1>6
<1> HIDE DEF m, new
<1>14. SectionIs(sheets, sections, s, p)
  BY <1>6, <1>7, <1>8, <1>9, <1>10, <1>11, <1>12, <1>13 DEF SectionIs, new, text
<1> QED BY <1>14 DEF p
\* Where an element of one of the sequences is in all of them together.
Place(seqs, s, k) == Offset(seqs, s - 1) + k
Laid(S, seqs, all) ==
    /\ all \in Seq(S)
    /\ \A s \in 1..Len(seqs) : \A k \in 1..Len(seqs[s]) :
          Place(seqs, s, k) \in 1..Len(all) /\ all[Place(seqs, s, k)] = seqs[s][k]
    /\ \A i \in 1..Len(all) : \E s \in 1..Len(seqs) : \E k \in 1..Len(seqs[s]) : i = Place(seqs, s, k)

LEMMA Offsets ==
  ASSUME NEW S, NEW seqs \in Seq(Seq(S))
  PROVE  /\ Len(seqs) \in Nat /\ \A u \in 0..Len(seqs) : Offset(seqs, u) \in Nat
         /\ \A u \in 1..Len(seqs) : /\ Offset(seqs, u) = Offset(seqs, u - 1) + Len(seqs[u])
                                    /\ Len(seqs[u]) \in Nat
         /\ \A v \in 0..Len(seqs) : \A u \in 0..v : Offset(seqs, u) <= Offset(seqs, v)
<1>1. \A u \in 1..Len(seqs) : Len(seqs[u]) \in Nat
  OBVIOUS
<1> QED BY <1>1, OffsetFacts

LEMMA PlaceOrder ==
  ASSUME NEW S, NEW seqs \in Seq(Seq(S)), NEW s \in 1..Len(seqs), NEW k \in 1..Len(seqs[s]),
         NEW t \in 1..Len(seqs), NEW l \in 1..Len(seqs[t])
  PROVE  /\ Place(seqs, s, k) <= Place(seqs, t, l) => s <= t
         /\ Place(seqs, s, k) = Place(seqs, t, l) => s = t /\ k = l
         /\ s = t /\ k < l => Place(seqs, s, k) < Place(seqs, t, l)
         /\ s < t => Place(seqs, s, k) < Place(seqs, t, l)
<1> DEFINE n == Len(seqs)
           off(u) == Offset(seqs, u)
           a == off(s - 1)
           b == off(t - 1)
<1>0. /\ n \in Nat /\ \A u \in 0..n : off(u) \in Nat
      /\ \A u \in 1..n : off(u) = off(u - 1) + Len(seqs[u]) /\ Len(seqs[u]) \in Nat
      /\ \A v \in 0..n : \A u \in 0..v : off(u) <= off(v)
  BY Offsets
<1>1. Place(seqs, s, k) = a + k /\ Place(seqs, t, l) = b + l
  BY DEF Place
<1> HIDE DEF off, n
<1>2. /\ s - 1 \in 0..n /\ t - 1 \in 0..n /\ s \in 0..n /\ t \in 0..n
      /\ Len(seqs[s]) \in Nat /\ Len(seqs[t]) \in Nat
  <2>1. s \in 1..n /\ t \in 1..n
    BY DEF n
  <2> QED BY <1>0, <2>1
<1>3. k \in Nat /\ l \in Nat /\ k >= 1 /\ l >= 1 /\ k <= Len(seqs[s]) /\ l <= Len(seqs[t])
  BY <1>2
<1>4. /\ a \in Nat /\ b \in Nat /\ off(s) \in Nat /\ off(t) \in Nat
      /\ off(s) = a + Len(seqs[s]) /\ off(t) = b + Len(seqs[t])
  BY <1>0, <1>2
<1>5. s < t => off(s) <= b
  <2>1. s < t => s \in 0..t - 1
    BY <1>2
  <2> QED BY <1>0, <1>2, <2>1
<1>6. t < s => off(t) <= a
  <2>1. t < s => t \in 0..s - 1
    BY <1>2
  <2> QED BY <1>0, <1>2, <2>1
<1>7. s = t => a = b
  OBVIOUS
<1> HIDE DEF a, b
<1>8. s < t => a + k < b + l
  BY <1>2, <1>3, <1>4, <1>5
<1>9. t < s => b + l < a + k
  BY <1>2, <1>3, <1>4, <1>6
<1>10. s = t => /\ a + k <= b + l <=> k <= l
                /\ b + l <= a + k <=> l <= k
  BY <1>3, <1>4, <1>7
<1>11. a + k \in Nat /\ b + l \in Nat
  BY <1>3, <1>4
<1>12. s \in Nat /\ t \in Nat
  BY <1>0, <1>2
<1> QED BY <1>1, <1>3, <1>8, <1>9, <1>10, <1>11, <1>12

LEMMA FlattenLaid ==
  ASSUME NEW S, NEW seqs \in Seq(Seq(S))
  PROVE  Laid(S, seqs, FlattenSeq(seqs))
<1> DEFINE n == Len(seqs)
           all == FlattenSeq(seqs)
           off(u) == Offset(seqs, u)
<1>0. /\ n \in Nat /\ \A u \in 0..n : off(u) \in Nat
      /\ \A u \in 1..n : off(u) = off(u - 1) + Len(seqs[u]) /\ Len(seqs[u]) \in Nat
      /\ \A v \in 0..n : \A u \in 0..v : off(u) <= off(v)
  BY Offsets
<1>1. /\ all \in Seq(S) /\ Len(all) = off(n)
      /\ \A s \in 1..n : \A k \in 1..Len(seqs[s]) : all[off(s - 1) + k] = seqs[s][k]
  BY FlattenFacts DEF FlatTo
<1>2. \A i \in 1..off(n) : \E s \in 1..n : \E k \in 1..Len(seqs[s]) : i = Place(seqs, s, k)
  BY OffsetReaches DEF Place
<1>3. \A s \in 1..n : \A k \in 1..Len(seqs[s]) : Place(seqs, s, k) = off(s - 1) + k
  BY DEF Place
<1> HIDE DEF all, off
<1>4. ASSUME NEW s \in 1..n, NEW k \in 1..Len(seqs[s])
      PROVE  off(s - 1) + k \in 1..off(n)
  <2>1. s - 1 \in 0..n /\ s \in 0..n /\ n \in 0..n
    BY <1>0
  <2>2. off(s - 1) \in Nat /\ off(s) = off(s - 1) + Len(seqs[s]) /\ off(s) <= off(n) /\ off(n) \in Nat
        /\ Len(seqs[s]) \in Nat
    BY <1>0, <2>1
  <2> QED BY <2>2
<1> QED BY <1>1, <1>2, <1>3, <1>4 DEF Laid, all

LEMMA LaidAt ==
  ASSUME NEW S, NEW seqs, NEW all, Laid(S, seqs, all), NEW s \in 1..Len(seqs), NEW k \in 1..Len(seqs[s])
  PROVE  Place(seqs, s, k) \in 1..Len(all) /\ all[Place(seqs, s, k)] = seqs[s][k]
BY DEF Laid

AllParts(sheets, sections) == [s \in DOMAIN sections |-> SectionParts(sheets, sections, s)]
Together(sheets, sections) == FlattenSeq(AllParts(sheets, sections))

LEMMA TogetherLaid ==
  ASSUME NEW sheets \in BOOLEAN, NEW sections \in Seq(SectionSet)
  PROVE  /\ AllParts(sheets, sections) \in Seq(Seq(AnyPart)) /\ Len(AllParts(sheets, sections)) = Len(sections)
         /\ \A s \in 1..Len(sections) : SectionIs(sheets, sections, s, AllParts(sheets, sections)[s])
         /\ Laid(AnyPart, AllParts(sheets, sections), Together(sheets, sections))
<1> DEFINE seqs == AllParts(sheets, sections)
<1>1. \A s \in 1..Len(sections) : SectionIs(sheets, sections, s, SectionParts(sheets, sections, s))
  BY SectionFacts
<1>2. \A s \in 1..Len(sections) : SectionParts(sheets, sections, s) \in Seq(AnyPart)
  BY <1>1 DEF SectionIs
<1>3. seqs = [s \in 1..Len(sections) |-> SectionParts(sheets, sections, s)]
  BY DEF AllParts
<1> HIDE DEF seqs
<1>4. seqs \in Seq(Seq(AnyPart)) /\ Len(seqs) = Len(sections)
  BY <1>2, <1>3
<1>5. Laid(AnyPart, seqs, FlattenSeq(seqs))
  BY <1>4, FlattenLaid
<1>6. \A s \in 1..Len(sections) : SectionIs(sheets, sections, s, seqs[s])
  BY <1>1, <1>3
<1> QED BY <1>4, <1>5, <1>6 DEF seqs, Together

\* The text of a section, among all the parts.
TextAt(all, s) == {i \in DOMAIN all : all[i].of = s /\ all[i].kind = "units"}

LEMMA TextPicked ==
  ASSUME NEW sheets \in BOOLEAN, NEW sections \in Seq(SectionSet), NEW s \in DOMAIN sections
  PROVE  Picked(Together(sheets, sections), TextAt(Together(sheets, sections), s))
            = Within(s, TextOf(sheets, sections, s))
<1> DEFINE seqs == AllParts(sheets, sections)
           all == Together(sheets, sections)
           text == TextOf(sheets, sections, s)
           m == TextLen(sheets, sections, s)
           e == [k \in 1..m |-> Place(seqs, s, k)]
<1>1. /\ seqs \in Seq(Seq(AnyPart)) /\ Len(seqs) = Len(sections)
      /\ \A t \in 1..Len(sections) : SectionIs(sheets, sections, t, seqs[t])
      /\ Laid(AnyPart, seqs, all)
  BY TogetherLaid
<1>2. text \in Seq(TextPart) /\ m = Len(text) /\ m \in Nat
  <2>1. sections[s] \in SectionSet
    OBVIOUS
  <2>2. text \in Seq(TextPart)
    BY <2>1, TextTyped DEF SectionSet, TextOf
  <2> QED BY <2>2 DEF TextLen
<1>3. s \in 1..Len(seqs) /\ s \in 1..Len(sections)
  BY <1>1
<1> HIDE DEF seqs, all, text, m
<1>4. /\ m \in 0..Len(seqs[s])
      /\ \A k \in 1..m : seqs[s][k].of = s /\ seqs[s][k].kind = "units" /\ seqs[s][k] = [text[k] EXCEPT !.of = s]
      /\ \A k \in m + 1..Len(seqs[s]) : seqs[s][k].kind = "image"
  <2>1. SectionIs(sheets, sections, s, seqs[s])
    BY <1>1, <1>3
  <2>2. \A k \in 1..m : k \in 1..Len(seqs[s])
    BY <2>1 DEF SectionIs, m
  <2> QED BY <2>1, <2>2 DEF SectionIs, m, text
<1>5. Len(seqs[s]) \in Nat /\ \A k \in 1..m : k \in 1..Len(seqs[s])
  BY <1>2, <1>4
<1>6. Rising(e, m, Len(all))
  <2>1. \A k \in 1..m : Place(seqs, s, k) \in 1..Len(all)
    BY <1>1, <1>3, <1>5 DEF Laid
  <2>2. \A j, k \in 1..m : j < k => Place(seqs, s, j) < Place(seqs, s, k)
    BY <1>1, <1>3, <1>5, PlaceOrder
  <2> QED BY <2>1, <2>2 DEF Rising
<1>7. PlacesIn(all, TextAt(all, s)) = Those(e, m)
  <2>0. all \in Seq(AnyPart) /\ DOMAIN all = 1..Len(all)
    BY <1>1 DEF Laid
  <2>1. ASSUME NEW i \in 1..Len(all), all[i].of = s, all[i].kind = "units"
        PROVE  \E k \in 1..m : i = e[k]
    <3>0. PICK t \in 1..Len(seqs) : \E k \in 1..Len(seqs[t]) : i = Place(seqs, t, k)
      BY <1>1 DEF Laid
    <3>1. PICK k \in 1..Len(seqs[t]) : i = Place(seqs, t, k)
      BY <3>0
    <3>2. all[i] = seqs[t][k]
      BY <1>1, <3>1 DEF Laid
    <3>3. t = s
      <4>1. SectionIs(sheets, sections, t, seqs[t])
        BY <1>1
      <4>2. seqs[t][k].of = t
        BY <4>1 DEF SectionIs
      <4> QED BY <2>1, <3>2, <4>2
    <3>4. k \in 1..m
      <4>1. k \notin m + 1..Len(seqs[s])
        BY <1>4, <2>1, <3>2, <3>3
      <4>2. k \in 1..Len(seqs[s])
        BY <3>3
      <4> QED BY <1>2, <1>5, <4>1, <4>2
    <3> QED BY <3>1, <3>3, <3>4
  <2>2. ASSUME NEW k \in 1..m
        PROVE  e[k] \in 1..Len(all) /\ all[e[k]].of = s /\ all[e[k]].kind = "units"
    <3>1. all[Place(seqs, s, k)] = seqs[s][k] /\ Place(seqs, s, k) \in 1..Len(all)
      BY <1>1, <1>3, <1>5 DEF Laid
    <3> QED BY <1>4, <3>1
  <2> HIDE DEF e
  <2>3. PlacesIn(all, TextAt(all, s)) = {i \in 1..Len(all) : all[i].of = s /\ all[i].kind = "units"}
    BY <2>0 DEF PlacesIn, TextAt
  <2>4. {i \in 1..Len(all) : all[i].of = s /\ all[i].kind = "units"} = {e[k] : k \in 1..m}
    BY <2>1, <2>2
  <2> QED BY <2>3, <2>4 DEF Those
<1>8. Picked(all, TextAt(all, s)) = [k \in 1..m |-> all[e[k]]]
  <2>1. all \in Seq(AnyPart)
    BY <1>1 DEF Laid
  <2> HIDE DEF e
  <2> QED BY <1>2, <1>6, <1>7, <2>1, PickedIs
<1>9. \A k \in 1..m : all[e[k]] = [text[k] EXCEPT !.of = s]
  <2> SUFFICES ASSUME NEW k \in 1..m PROVE all[e[k]] = [text[k] EXCEPT !.of = s]
    OBVIOUS
  <2>1. all[Place(seqs, s, k)] = seqs[s][k]
    BY <1>1, <1>3, <1>5 DEF Laid
  <2> QED BY <1>4, <2>1
<1> HIDE DEF e
<1>10. Picked(all, TextAt(all, s)) = [k \in 1..m |-> [text[k] EXCEPT !.of = s]]
  BY <1>8, <1>9
<1>11. Within(s, text) = [k \in 1..m |-> [text[k] EXCEPT !.of = s]]
  BY <1>2 DEF Within
<1> QED BY <1>10, <1>11 DEF all, text
\* What a part of the whole is: the section it is of, and what it is there.
TogetherIs(sheets, sections, all, i, s, k) ==
    /\ i = Place(AllParts(sheets, sections), s, k) /\ all[i] = AllParts(sheets, sections)[s][k]
    /\ all[i].of = s
    /\ k <= TextLen(sheets, sections, s) => all[i].kind = "units"
    /\ k > TextLen(sheets, sections, s) => all[i].kind = "image" /\ all[i].first \in NewImages(sections, s)

LEMMA TogetherAt ==
  ASSUME NEW sheets \in BOOLEAN, NEW sections \in Seq(SectionSet),
         NEW i \in 1..Len(Together(sheets, sections))
  PROVE  \E s \in 1..Len(sections) : \E k \in 1..Len(AllParts(sheets, sections)[s]) :
            TogetherIs(sheets, sections, Together(sheets, sections), i, s, k)
<1> DEFINE seqs == AllParts(sheets, sections)
           all == Together(sheets, sections)
<1>1. /\ seqs \in Seq(Seq(AnyPart)) /\ Len(seqs) = Len(sections)
      /\ \A t \in 1..Len(sections) : SectionIs(sheets, sections, t, seqs[t])
      /\ Laid(AnyPart, seqs, all)
  BY TogetherLaid
<1> HIDE DEF seqs, all
<1>2. PICK s \in 1..Len(sections) : \E k \in 1..Len(seqs[s]) : i = Place(seqs, s, k)
  BY <1>1 DEF Laid, all
<1>3. PICK k \in 1..Len(seqs[s]) : i = Place(seqs, s, k)
  BY <1>2
<1>4. all[i] = seqs[s][k] /\ s \in 1..Len(seqs) /\ Len(seqs[s]) \in Nat
  <2>1. s \in 1..Len(seqs)
    BY <1>1
  <2>2. seqs[s] \in Seq(AnyPart)
    BY <1>1, <2>1
  <2>3. all[Place(seqs, s, k)] = seqs[s][k]
    BY <1>1, <2>1 DEF Laid
  <2> QED BY <1>3, <2>1, <2>2, <2>3
<1>5. SectionIs(sheets, sections, s, seqs[s])
  BY <1>1
<1> DEFINE m == TextLen(sheets, sections, s)
<1>6. m \in 0..Len(seqs[s])
  BY <1>5 DEF SectionIs
<1>7. /\ seqs[s][k].of = s
      /\ k \in 1..m => seqs[s][k].kind = "units"
      /\ k \in m + 1..Len(seqs[s]) => seqs[s][k].kind = "image" /\ seqs[s][k].first \in NewImages(sections, s)
  BY <1>5 DEF SectionIs
<1> HIDE DEF m
<1>8. (k <= m => k \in 1..m) /\ (k > m => k \in m + 1..Len(seqs[s]))
  BY <1>4, <1>6
<1>9. TogetherIs(sheets, sections, all, i, s, k)
  BY <1>3, <1>4, <1>7, <1>8 DEF TogetherIs, m, seqs
<1> QED BY <1>9 DEF seqs, all

LEMMA TogetherInOrder ==
  ASSUME NEW sheets \in BOOLEAN, NEW sections \in Seq(SectionSet),
         NEW i \in 1..Len(Together(sheets, sections)), NEW j \in 1..Len(Together(sheets, sections)), i < j
  PROVE  Together(sheets, sections)[i].of <= Together(sheets, sections)[j].of
<1> DEFINE seqs == AllParts(sheets, sections)
           all == Together(sheets, sections)
<1>1. seqs \in Seq(Seq(AnyPart)) /\ Len(seqs) = Len(sections)
  BY TogetherLaid
<1>2. PICK s \in 1..Len(sections) : \E k \in 1..Len(seqs[s]) : TogetherIs(sheets, sections, all, i, s, k)
  BY TogetherAt
<1>3. PICK k \in 1..Len(seqs[s]) : TogetherIs(sheets, sections, all, i, s, k)
  BY <1>2
<1>4. PICK t \in 1..Len(sections) : \E l \in 1..Len(seqs[t]) : TogetherIs(sheets, sections, all, j, t, l)
  BY TogetherAt
<1>5. PICK l \in 1..Len(seqs[t]) : TogetherIs(sheets, sections, all, j, t, l)
  BY <1>4
<1>6. i = Place(seqs, s, k) /\ all[i].of = s /\ j = Place(seqs, t, l) /\ all[j].of = t
  BY <1>3, <1>5 DEF TogetherIs
<1> HIDE DEF seqs, all
<1>7. Place(seqs, s, k) <= Place(seqs, t, l)
  BY <1>6
<1>8. s \in 1..Len(seqs) /\ t \in 1..Len(seqs)
  BY <1>1
<1>9. s <= t
  BY <1>1, <1>7, <1>8, PlaceOrder
<1> QED BY <1>6, <1>9 DEF all

Media(sections, p) == sections[p.of].images[p.first]

LEMMA MediaShown ==
  ASSUME NEW sheets \in BOOLEAN, NEW sections \in Seq(SectionSet), NEW s \in DOMAIN sections,
         NEW m \in ToSet(sections[s].images)
  PROVE  LET all == Together(sheets, sections)
         IN  \E i \in DOMAIN all : /\ all[i].kind = "image" /\ Media(sections, all[i]) = m
                                   /\ all[i].of <= s
<1> DEFINE seqs == AllParts(sheets, sections)
           all == Together(sheets, sections)
           S == {t \in DOMAIN sections : m \in ToSet(sections[t].images)}
<1>0. S \in SUBSET Nat /\ S # {} /\ DOMAIN sections = 1..Len(sections) /\ Len(sections) \in Nat
  OBVIOUS
<1>1. PICK t \in S : \A u \in S : t <= u
  <2> HIDE DEF S
  <2> QED BY <1>0, Least
<1>2. t \in DOMAIN sections /\ t <= s /\ m \in ToSet(sections[t].images)
  BY <1>1
<1>3. m \notin Shown(sections, t)
  <2>1. ASSUME NEW u \in 1..t - 1, m \in ToSet(sections[u].images) PROVE FALSE
    <3>1. u \in DOMAIN sections
      BY <1>0, <1>2
    <3>2. u \in S
      BY <2>1, <3>1
    <3> QED BY <1>1, <3>2
  <2> QED BY <2>1 DEF Shown
<1>4. PICK n \in DOMAIN sections[t].images : sections[t].images[n] = m
  BY <1>2 DEF ToSet
<1>5. n \in NewImages(sections, t)
  BY <1>3, <1>4 DEF NewImages
<1>6. /\ seqs \in Seq(Seq(AnyPart)) /\ Len(seqs) = Len(sections)
      /\ SectionIs(sheets, sections, t, seqs[t]) /\ Laid(AnyPart, seqs, all)
  BY <1>0, <1>2, TogetherLaid
<1> HIDE DEF seqs, all
<1> DEFINE x == TextLen(sheets, sections, t)
<1>7. PICK k \in x + 1..Len(seqs[t]) : seqs[t][k].first = n
  BY <1>5, <1>6 DEF SectionIs
<1>8. x \in Nat /\ seqs[t][k].kind = "image" /\ k \in 1..Len(seqs[t]) /\ seqs[t][k].of = t
  <2>1. x \in 0..Len(seqs[t]) /\ seqs[t] \in Seq(AnyPart)
    BY <1>6 DEF SectionIs
  <2>2. k \in 1..Len(seqs[t])
    <3> HIDE DEF x
    <3> QED BY <2>1
  <2> QED BY <1>6, <2>1, <2>2 DEF SectionIs
<1>9. t \in 1..Len(seqs)
  BY <1>0, <1>2, <1>6
<1>10. Place(seqs, t, k) \in 1..Len(all) /\ all[Place(seqs, t, k)] = seqs[t][k] /\ DOMAIN all = 1..Len(all)
  <2>1. Place(seqs, t, k) \in 1..Len(all) /\ all[Place(seqs, t, k)] = seqs[t][k]
    BY <1>6, <1>8, <1>9, LaidAt
  <2>2. all \in Seq(AnyPart)
    BY <1>6 DEF Laid
  <2> QED BY <2>1, <2>2
<1>11. Media(sections, seqs[t][k]) = m
  BY <1>4, <1>7, <1>8 DEF Media
<1> QED BY <1>2, <1>8, <1>10, <1>11 DEF all

LEMMA MediaOnce ==
  ASSUME NEW sheets \in BOOLEAN, NEW sections \in Seq(SectionSet),
         NEW i \in 1..Len(Together(sheets, sections)), NEW j \in 1..Len(Together(sheets, sections)),
         Together(sheets, sections)[i].kind = "image", Together(sheets, sections)[j].kind = "image",
         Media(sections, Together(sheets, sections)[i]) = Media(sections, Together(sheets, sections)[j])
  PROVE  i = j
<1> DEFINE seqs == AllParts(sheets, sections)
           all == Together(sheets, sections)
           x(s) == TextLen(sheets, sections, s)
<1>1. /\ seqs \in Seq(Seq(AnyPart)) /\ Len(seqs) = Len(sections)
      /\ \A t \in 1..Len(sections) : SectionIs(sheets, sections, t, seqs[t])
  BY TogetherLaid
<1>2. PICK s \in 1..Len(sections) : \E k \in 1..Len(seqs[s]) : TogetherIs(sheets, sections, all, i, s, k)
  BY TogetherAt
<1>3. PICK k \in 1..Len(seqs[s]) : TogetherIs(sheets, sections, all, i, s, k)
  BY <1>2
<1>4. PICK t \in 1..Len(sections) : \E l \in 1..Len(seqs[t]) : TogetherIs(sheets, sections, all, j, t, l)
  BY TogetherAt
<1>5. PICK l \in 1..Len(seqs[t]) : TogetherIs(sheets, sections, all, j, t, l)
  BY <1>4
<1>6. x(s) \in 0..Len(seqs[s]) /\ x(t) \in 0..Len(seqs[t])
  BY <1>1 DEF SectionIs
<1> DEFINE a == all[i].first
           b == all[j].first
<1>7. /\ i = Place(seqs, s, k) /\ all[i].of = s /\ all[i] = seqs[s][k] /\ a \in NewImages(sections, s)
      /\ k \in x(s) + 1..Len(seqs[s])
  <2>1. ~(k <= x(s))
    BY <1>3 DEF TogetherIs
  <2>2. k \in x(s) + 1..Len(seqs[s]) /\ k > x(s)
    <3> DEFINE y == x(s)
               n == Len(seqs[s])
    <3>1. s \in 1..Len(seqs)
      BY <1>1
    <3>2. seqs[s] \in Seq(AnyPart)
      BY <1>1, <3>1
    <3>3. n \in Nat /\ k \in 1..n /\ y \in 0..n /\ ~(k <= y)
      BY <1>6, <2>1, <3>2
    <3> HIDE DEF n, y
    <3>4. k \in y + 1..n /\ k > y
      BY <3>3
    <3> QED BY <3>4 DEF n, y
  <2> QED BY <1>3, <2>2 DEF TogetherIs
<1>8. /\ j = Place(seqs, t, l) /\ all[j].of = t /\ all[j] = seqs[t][l] /\ b \in NewImages(sections, t)
      /\ l \in x(t) + 1..Len(seqs[t])
  <2>1. ~(l <= x(t))
    BY <1>5 DEF TogetherIs
  <2>2. l \in x(t) + 1..Len(seqs[t]) /\ l > x(t)
    <3> DEFINE y == x(t)
               n == Len(seqs[t])
    <3>1. t \in 1..Len(seqs)
      BY <1>1
    <3>2. seqs[t] \in Seq(AnyPart)
      BY <1>1, <3>1
    <3>3. n \in Nat /\ l \in 1..n /\ y \in 0..n /\ ~(l <= y)
      BY <1>6, <2>1, <3>2
    <3> HIDE DEF n, y
    <3>4. l \in y + 1..n /\ l > y
      BY <3>3
    <3> QED BY <3>4 DEF n, y
  <2> QED BY <1>5, <2>2 DEF TogetherIs
<1>9. sections[s].images[a] = sections[t].images[b]
  BY <1>7, <1>8 DEF Media
<1>10. /\ a \in DOMAIN sections[s].images /\ sections[s].images[a] \notin Shown(sections, s)
       /\ b \in DOMAIN sections[t].images /\ sections[t].images[b] \notin Shown(sections, t)
  BY <1>7, <1>8 DEF NewImages
<1>11. s = t
  <2>1. CASE s < t
    <3>1. s \in 1..t - 1 /\ sections[s].images[a] \in ToSet(sections[s].images)
      BY <1>10, <2>1 DEF ToSet
    <3>2. sections[s].images[a] \in Shown(sections, t)
      BY <3>1 DEF Shown
    <3> QED BY <1>9, <1>10, <3>2
  <2>2. CASE t < s
    <3>1. t \in 1..s - 1 /\ sections[t].images[b] \in ToSet(sections[t].images)
      BY <1>10, <2>2 DEF ToSet
    <3>2. sections[t].images[b] \in Shown(sections, s)
      BY <3>1 DEF Shown
    <3> QED BY <1>9, <1>10, <3>2
  <2> QED BY <2>1, <2>2
<1>12. a = b
  <2>1. IsInjective(sections[s].images)
    <3>1. sections[s] \in SectionSet
      OBVIOUS
    <3> QED BY <3>1 DEF SectionSet, Distinct
  <2> QED BY <1>9, <1>10, <1>11, <2>1 DEF IsInjective
<1> HIDE DEF seqs, all, x
<1>13. k = l
  <2>1. SectionIs(sheets, sections, s, seqs[s])
    BY <1>1
  <2>2. seqs[s][k].first = seqs[s][l].first /\ k \in x(s) + 1..Len(seqs[s]) /\ l \in x(s) + 1..Len(seqs[s])
    BY <1>7, <1>8, <1>11, <1>12
  <2> QED BY <2>1, <2>2 DEF SectionIs, x
<1> QED BY <1>7, <1>8, <1>11, <1>13

(* Slides, sheets and sections (prepare_ooxml, claim_media): the text of *)
(* every section in order, and every image exactly once, in the section  *)
(* that shows it first.                                                  *)
THEOREM OfficeCovers ==
  ASSUME NEW sheets \in BOOLEAN, NEW sections \in Seq(SectionSet)
  PROVE  /\ OfficeCovered(sheets, sections, OfficeParts(sheets, sections))
         /\ OfficeParts(sheets, sections) \in Seq(AnyPart)
<1> DEFINE all == Together(sheets, sections)
           Large == \E s \in DOMAIN sections : TooLarge(sheets, sections[s].rows)
<1>1. OfficeParts(sheets, sections) = IF Large \/ Len(all) > MaxOutput THEN Refused ELSE all
  BY DEF OfficeParts, Together, AllParts
<1>2. all \in Seq(AnyPart) /\ DOMAIN all = 1..Len(all) /\ Len(all) \in Nat /\ MaxOutput \in Nat
  BY TogetherLaid, SourcePartsAssumption DEF Laid, Positive
<1>3. CASE Large \/ Len(all) > MaxOutput
  <2>1. OfficeParts(sheets, sections) = Refused
    BY <1>1, <1>3
  <2> QED BY <2>1 DEF OfficeCovered, Refused
<1>4. CASE ~(Large \/ Len(all) > MaxOutput)
  <2>1. OfficeParts(sheets, sections) = all /\ Len(all) <= MaxOutput
    BY <1>1, <1>2, <1>4
  <2> HIDE DEF all
  <2>2. \A i, j \in DOMAIN all : i < j => all[i].of <= all[j].of
    BY <1>2, TogetherInOrder DEF all
  <2>3. ASSUME NEW s \in DOMAIN sections, sections[s].rows # <<>>
        PROVE  LET Text == Picked(all, TextAt(all, s))
               IN  IF sheets THEN Covers(sections[s].rows, Within(0, Text), 0)
                   ELSE Text = <<[Units(1, Len(sections[s].rows), 0) EXCEPT !.of = s]>>
    <3> DEFINE rows == sections[s].rows
               text == TextOf(sheets, sections, s)
    <3>0. rows \in Seq(Positive) /\ text \in Seq(TextPart) /\ s \in Nat
      <4>1. sections[s] \in SectionSet
        OBVIOUS
      <4>2. rows \in Seq(Positive)
        BY <4>1 DEF SectionSet
      <4> QED BY <4>2, TextTyped DEF TextOf
    <3>1. Picked(all, TextAt(all, s)) = Within(s, text)
      BY TextPicked DEF all
    <3>2. text # Refused /\ text = SectionText(sheets, rows)
      BY <1>4, <2>3 DEF TooLarge, TextOf
    <3> HIDE DEF text, rows
    <3>3. CASE sheets
      <4>1. text = Packed(rows, 0)
        BY <3>2, <3>3 DEF SectionText, SheetText
      <4>2. Covers(rows, text, 0)
        BY <3>0, <4>1, PackedCovers
      <4>3. Within(0, Within(s, text)) = text
        BY <3>0, WithinNone
      <4> QED BY <3>1, <3>3, <4>2, <4>3 DEF rows
    <3>4. CASE ~sheets
      <4>1. text = <<Units(1, Len(rows), 0)>>
        BY <3>2, <3>4 DEF SectionText, SlideText
      <4>2. Within(s, text) = <<[Units(1, Len(rows), 0) EXCEPT !.of = s]>>
        BY <4>1 DEF Within
      <4> QED BY <3>1, <3>4, <4>2 DEF rows
    <3> QED BY <3>3, <3>4
  <2>4. \A s \in DOMAIN sections : \A m \in ToSet(sections[s].images) :
           \E i \in DOMAIN all : all[i].kind = "image" /\ Media(sections, all[i]) = m /\ all[i].of <= s
    BY MediaShown DEF all
  <2>5. \A i, j \in DOMAIN all :
           all[i].kind = "image" /\ all[j].kind = "image" /\ Media(sections, all[i]) = Media(sections, all[j])
              => i = j
    BY <1>2, MediaOnce DEF all
  <2> DEFINE images == {i \in DOMAIN all : all[i].kind = "image"}
  <2>6. \A s \in DOMAIN sections : \A m \in ToSet(sections[s].images) :
           \E i \in images : Media(sections, all[i]) = m /\ all[i].of <= s
    BY <2>4
  <2>7. \A i, j \in images : Media(sections, all[i]) = Media(sections, all[j]) => i = j
    BY <2>5
  <2>8. OfficeCovered(sheets, sections, all)
    BY <2>1, <2>2, <2>3, <2>6, <2>7 DEF OfficeCovered, TextAt, Media
  <2> QED BY <1>2, <2>1, <2>8
<1> QED BY <1>3, <1>4
(***************************************************************************)
(* Archives.                                                               *)
(***************************************************************************)
MemberSet == [path : Names, unsafe : BOOLEAN, size : Nat, lines : Seq(Positive)]

\* An archive of which no inspected member fails has been inspected whole.
LEMMA WholeInspected ==
  ASSUME NEW members \in Seq(MemberSet), ~ArchiveUnsafe(members)
  PROVE  /\ Len(members) <= MaxMembers
         /\ \A i, j \in DOMAIN members : i # j => members[i].path # members[j].path
         /\ \A i \in DOMAIN members : ~members[i].unsafe
         /\ Size([i \in DOMAIN members |-> members[i].size], 1, Len(members)) <= MaxExpanded
<1> DEFINE n == Len(members)
           sizes == [i \in DOMAIN members |-> members[i].size]
           Small(i) == \A j \in 1..i : Expanded(members, j) <= MaxExpanded
           B == {i \in 0..n : Small(i)}
<1>1. n \in Nat /\ DOMAIN members = 1..n /\ MaxMembers \in Nat /\ MaxExpanded \in Nat
  BY SourcePartsAssumption DEF Positive
<1>2. members # <<>> /\ n <= MaxMembers /\ \A i \in Inspected(members) : ~MemberFails(members, i)
  BY <1>1 DEF ArchiveUnsafe
<1>3. \A i \in 1..n : sizes[i] \in Nat
  <2> SUFFICES ASSUME NEW i \in 1..n PROVE sizes[i] \in Nat
    OBVIOUS
  <2>1. members[i] \in MemberSet
    OBVIOUS
  <2> QED BY <1>1, <2>1 DEF MemberSet
<1>4. \A i \in 1..n : Expanded(members, i) = Size(sizes, 1, i) /\ Expanded(members, i) \in Nat
  <2> SUFFICES ASSUME NEW i \in 1..n
               PROVE  Expanded(members, i) = Size(sizes, 1, i) /\ Expanded(members, i) \in Nat
    OBVIOUS
  <2>1. Expanded(members, i) = Size(sizes, 1, i)
    BY DEF Expanded
  <2>2. \A k \in 1..i : sizes[k] \in Nat
    BY <1>1, <1>3
  <2> HIDE DEF sizes
  <2> QED BY <2>1, <2>2, SizeFacts
<1>5. \A i \in 1..n : Small(i - 1) => i \in Inspected(members)
  BY <1>1 DEF Inspected
<1>6. B \in SUBSET (0..n)
  OBVIOUS
<1>7. 0 \in B
  BY <1>1
<1>8. ASSUME NEW i \in 1..n, i - 1 \in B PROVE i \in B
  <2>1. Small(i - 1)
    BY <1>8
  <2>2. ~(Expanded(members, i) > MaxExpanded)
    BY <1>2, <1>5, <2>1 DEF MemberFails
  <2> DEFINE x == Expanded(members, i)
  <2>5. x \in Nat /\ ~(x > MaxExpanded)
    BY <1>4, <2>2
  <2>3. x <= MaxExpanded
    <3> HIDE DEF x
    <3> QED BY <1>1, <2>5
  <2>4. \A j \in 1..i : j = i \/ j \in 1..i - 1
    BY <1>1
  <2> QED BY <1>1, <2>1, <2>3, <2>4
<1> HIDE DEF B
<1>9. B = 0..n
  BY <1>1, <1>6, <1>7, <1>8, Upto
<1>10. \A i \in 0..n : Small(i)
  BY <1>9 DEF B
<1>11. \A i \in 1..n : i - 1 \in 0..n
  BY <1>1
<1>12. \A i \in 1..n : ~MemberFails(members, i)
  BY <1>2, <1>5, <1>10, <1>11
<1>13. ASSUME NEW i \in 1..n, NEW j \in 1..n, i # j PROVE members[i].path # members[j].path
  <2>1. i \in 1..j - 1 \/ j \in 1..i - 1
    BY <1>1, <1>13
  <2> QED BY <1>12, <2>1 DEF MemberFails
<1>14. \A i \in 1..n : ~members[i].unsafe
  BY <1>12 DEF MemberFails
<1>15. n \in 1..n /\ n \in 0..n
  BY <1>1, <1>2
<1>16. Size(sizes, 1, n) <= MaxExpanded
  BY <1>4, <1>10, <1>15
<1> QED BY <1>1, <1>2, <1>13, <1>14, <1>16

MembersApart(members, previews) == [n \in DOMAIN previews |-> MemberParts(members, previews[n])]
PartsFrom(all, i) == {k \in DOMAIN all : all[k].of = i}

\* The parts of an approved member, among all the parts.
LEMMA MembersLaid ==
  ASSUME NEW members \in Seq(MemberSet), NEW previews \in Distinct(Positive),
         ToSet(previews) \subseteq DOMAIN members
  PROVE  LET seqs == MembersApart(members, previews)
         IN  /\ seqs \in Seq(Seq(AnyPart)) /\ Len(seqs) = Len(previews)
             /\ \A t \in 1..Len(previews) :
                   /\ seqs[t] = Within(previews[t], TextParts(members[previews[t]].lines))
                   /\ TextParts(members[previews[t]].lines) \in Seq(TextPart)
                   /\ Len(seqs[t]) = Len(TextParts(members[previews[t]].lines))
                   /\ \A k \in 1..Len(seqs[t]) : seqs[t][k].of = previews[t]
             /\ Laid(AnyPart, seqs, FlattenSeq(seqs))
<1> DEFINE seqs == MembersApart(members, previews)
           n == Len(previews)
           text(t) == TextParts(members[previews[t]].lines)
<1>1. previews \in Seq(Positive) /\ n \in Nat /\ DOMAIN previews = 1..n
  BY DEF Distinct
<1>2. ASSUME NEW t \in 1..n
      PROVE  /\ text(t) \in Seq(TextPart) /\ text(t) \in Seq(AnyPart) /\ previews[t] \in Nat
             /\ MemberParts(members, previews[t]) = Within(previews[t], text(t))
  <2>1. previews[t] \in ToSet(previews) /\ previews[t] \in Nat
    BY <1>1 DEF ToSet, Positive
  <2>2. members[previews[t]] \in MemberSet
    BY <2>1
  <2>3. members[previews[t]].lines \in Seq(Positive) /\ Overlap \in 0..2
    BY <2>2 DEF MemberSet, Overlap
  <2>4. text(t) \in Seq(TextPart)
    BY <2>3, PackedCovers DEF TextParts
  <2> QED BY <2>1, <2>4, TextIsAny DEF MemberParts
<1>3. seqs = [t \in 1..n |-> MemberParts(members, previews[t])]
  BY <1>1 DEF MembersApart
<1> HIDE DEF seqs, text, n
<1>4. ASSUME NEW t \in 1..n
      PROVE  /\ seqs[t] = Within(previews[t], text(t)) /\ seqs[t] \in Seq(AnyPart)
             /\ Len(seqs[t]) = Len(text(t))
             /\ \A k \in 1..Len(seqs[t]) : seqs[t][k].of = previews[t]
  <2>1. seqs[t] = Within(previews[t], text(t))
    BY <1>2, <1>3
  <2> DEFINE x == text(t)
             o == previews[t]
             w == Within(o, x)
  <2>2. x \in Seq(AnyPart) /\ o \in Nat
    BY <1>2
  <2> HIDE DEF x, o
  <2>3. w \in Seq(AnyPart) /\ Len(w) = Len(x) /\ \A k \in 1..Len(x) : w[k].of = o
    BY <2>2, WithinFacts
  <2> HIDE DEF w
  <2>4. seqs[t] = w /\ seqs[t] \in Seq(AnyPart) /\ Len(seqs[t]) = Len(x) /\ \A k \in 1..Len(seqs[t]) : seqs[t][k].of = o
    BY <2>1, <2>3 DEF w, x, o
  <2> QED BY <2>1, <2>4 DEF x, o
<1>5. seqs \in Seq(Seq(AnyPart)) /\ Len(seqs) = n
  <2>1. seqs \in [1..n -> Seq(AnyPart)]
    BY <1>3, <1>4
  <2> QED BY <1>1, <2>1
<1>6. Laid(AnyPart, seqs, FlattenSeq(seqs))
  BY <1>5, FlattenLaid
<1> QED BY <1>2, <1>4, <1>5, <1>6 DEF seqs, text, n

LEMMA MemberPicked ==
  ASSUME NEW members \in Seq(MemberSet), NEW previews \in Distinct(Positive),
         ToSet(previews) \subseteq DOMAIN members, NEW s \in DOMAIN previews
  PROVE  LET all == FlattenSeq(MembersApart(members, previews))
         IN  Picked(all, PartsFrom(all, previews[s])) = MembersApart(members, previews)[s]
<1> DEFINE seqs == MembersApart(members, previews)
           all == FlattenSeq(seqs)
           m == Len(seqs[s])
           e == [k \in 1..m |-> Place(seqs, s, k)]
<1>1. /\ seqs \in Seq(Seq(AnyPart)) /\ Len(seqs) = Len(previews)
      /\ \A t \in 1..Len(previews) : \A k \in 1..Len(seqs[t]) : seqs[t][k].of = previews[t]
      /\ Laid(AnyPart, seqs, all)
  BY MembersLaid
<1>2. /\ previews \in Seq(Positive) /\ IsInjective(previews) /\ DOMAIN previews = 1..Len(previews)
      /\ \A i, j \in 1..Len(previews) : previews[i] = previews[j] => i = j
  BY DEF Distinct, IsInjective
<1> HIDE DEF seqs, all
<1>3. s \in 1..Len(seqs) /\ m \in Nat /\ seqs[s] \in Seq(AnyPart) /\ DOMAIN seqs[s] = 1..m
  BY <1>1, <1>2
<1>4. all \in Seq(AnyPart) /\ DOMAIN all = 1..Len(all)
  BY <1>1 DEF Laid
<1>5. Rising(e, m, Len(all))
  <2>1. \A k \in 1..m : Place(seqs, s, k) \in 1..Len(all)
    BY <1>1, <1>3 DEF Laid
  <2>2. \A j, k \in 1..m : j < k => Place(seqs, s, j) < Place(seqs, s, k)
    BY <1>1, <1>3, PlaceOrder
  <2> QED BY <2>1, <2>2 DEF Rising
<1>6. \A k \in 1..m : e[k] \in 1..Len(all) /\ all[e[k]] = seqs[s][k] /\ all[e[k]].of = previews[s]
  BY <1>1, <1>3 DEF Laid
<1>7. ASSUME NEW i \in 1..Len(all), all[i].of = previews[s] PROVE \E k \in 1..m : i = e[k]
  <2>1. PICK t \in 1..Len(seqs) : \E k \in 1..Len(seqs[t]) : i = Place(seqs, t, k)
    BY <1>1 DEF Laid
  <2>2. PICK k \in 1..Len(seqs[t]) : i = Place(seqs, t, k)
    BY <2>1
  <2>3. all[i] = seqs[t][k]
    BY <1>1, <2>2 DEF Laid
  <2>4. previews[t] = previews[s]
    BY <1>1, <1>7, <2>3
  <2>5. t = s
    BY <1>1, <1>2, <1>3, <2>4
  <2> QED BY <2>2, <2>5
<1> HIDE DEF e
<1>8. PlacesIn(all, PartsFrom(all, previews[s])) = Those(e, m)
  BY <1>4, <1>6, <1>7 DEF PlacesIn, PartsFrom, Those
<1> HIDE DEF m
<1>9. Picked(all, PartsFrom(all, previews[s])) = [k \in 1..m |-> all[e[k]]]
  BY <1>3, <1>4, <1>5, <1>8, PickedIs
<1>10. Picked(all, PartsFrom(all, previews[s])) = [k \in 1..m |-> seqs[s][k]]
  BY <1>6, <1>9
<1>11. seqs[s] = [k \in 1..m |-> seqs[s][k]]
  BY <1>3
<1> QED BY <1>10, <1>11 DEF all, seqs

(* Archives (_prepare_archive, ArchiveInspector.inspect): parts of all   *)
(* approved members and of no other, and only if every member, the ones  *)
(* that are not approved too, has a path of its own, is safe and within  *)
(* the limits.                                                           *)
THEOREM ArchiveCovers ==
  ASSUME NEW members \in Seq(MemberSet), NEW previews \in Distinct(Positive),
         ToSet(previews) \subseteq DOMAIN members
  PROVE  /\ MembersCovered(members, previews, ArchiveParts(members, previews))
         /\ ArchiveParts(members, previews) \in Seq(AnyPart)
<1> DEFINE seqs == MembersApart(members, previews)
           all == FlattenSeq(seqs)
           Bad == \/ previews = <<>> \/ ArchiveUnsafe(members)
                  \/ \E n \in DOMAIN previews : MemberParts(members, previews[n]) = Refused
<1>1. ArchiveParts(members, previews) = IF Bad \/ Len(all) > MaxOutput THEN Refused ELSE all
  BY DEF ArchiveParts, MembersApart
<1>2. /\ seqs \in Seq(Seq(AnyPart)) /\ Len(seqs) = Len(previews)
      /\ \A t \in 1..Len(previews) :
            /\ seqs[t] = Within(previews[t], TextParts(members[previews[t]].lines))
            /\ TextParts(members[previews[t]].lines) \in Seq(TextPart)
            /\ \A k \in 1..Len(seqs[t]) : seqs[t][k].of = previews[t]
      /\ Laid(AnyPart, seqs, all)
  BY MembersLaid
<1>3. all \in Seq(AnyPart) /\ DOMAIN all = 1..Len(all) /\ Len(all) \in Nat /\ MaxOutput \in Nat
  BY <1>2, SourcePartsAssumption DEF Laid, Positive
<1>4. CASE Bad \/ Len(all) > MaxOutput
  <2>1. ArchiveParts(members, previews) = Refused
    BY <1>1, <1>4
  <2> QED BY <2>1 DEF MembersCovered, Refused
<1>5. CASE ~(Bad \/ Len(all) > MaxOutput)
  <2>1. ArchiveParts(members, previews) = all /\ Len(all) <= MaxOutput
    BY <1>1, <1>3, <1>5
  <2>2. ~ArchiveUnsafe(members) /\ \A n \in DOMAIN previews : seqs[n] # Refused
    BY <1>5 DEF MembersApart
  <2>3. previews \in Seq(Positive) /\ DOMAIN previews = 1..Len(previews)
    BY DEF Distinct
  <2> HIDE DEF all, seqs
  <2>4. ASSUME NEW i \in ToSet(previews)
        PROVE  Covers(members[i].lines, Within(0, Picked(all, PartsFrom(all, i))), Overlap)
    <3>1. PICK s \in DOMAIN previews : previews[s] = i
      BY DEF ToSet
    <3>2. Picked(all, PartsFrom(all, i)) = seqs[s]
      BY <3>1, MemberPicked DEF all, seqs
    <3>3. i \in Nat /\ members[i] \in MemberSet
      <4>1. i \in DOMAIN members
        OBVIOUS
      <4> QED BY <2>3, <3>1, <4>1 DEF Positive
    <3>4. members[i].lines \in Seq(Positive) /\ Overlap \in 0..2
      BY <3>3 DEF MemberSet, Overlap
    <3>5. Covers(members[i].lines, TextParts(members[i].lines), Overlap)
      BY <3>4, PackedCovers DEF TextParts
    <3>6. s \in 1..Len(previews)
      BY <2>3
    <3>7. seqs[s] = Within(i, TextParts(members[i].lines)) /\ TextParts(members[i].lines) \in Seq(TextPart)
      BY <1>2, <3>1, <3>6
    <3>8. Within(0, seqs[s]) = TextParts(members[i].lines)
      BY <3>3, <3>7, WithinNone
    <3> QED BY <3>2, <3>5, <3>8
  <2>5. {p.of : p \in ToSet(all)} = ToSet(previews)
    <3>1. ASSUME NEW p \in ToSet(all) PROVE p.of \in ToSet(previews)
      <4>1. PICK i \in 1..Len(all) : all[i] = p
        BY <1>3, <3>1 DEF ToSet
      <4>2. PICK t \in 1..Len(seqs) : \E k \in 1..Len(seqs[t]) : i = Place(seqs, t, k)
        BY <1>2 DEF Laid
      <4>3. PICK k \in 1..Len(seqs[t]) : i = Place(seqs, t, k)
        BY <4>2
      <4>4. p = seqs[t][k]
        BY <1>2, <4>1, <4>3 DEF Laid
      <4>5. t \in DOMAIN previews /\ p.of = previews[t]
        BY <1>2, <2>3, <4>4
      <4> QED BY <4>5 DEF ToSet
    <3>2. ASSUME NEW i \in ToSet(previews) PROVE \E p \in ToSet(all) : p.of = i
      <4>1. PICK s \in DOMAIN previews : previews[s] = i
        BY DEF ToSet
      <4>2. s \in 1..Len(seqs) /\ s \in 1..Len(previews) /\ seqs[s] \in Seq(AnyPart) /\ seqs[s] # <<>>
        BY <1>2, <2>2, <2>3 DEF Refused
      <4>3. 1 \in 1..Len(seqs[s])
        BY <4>2
      <4>4. Place(seqs, s, 1) \in DOMAIN all /\ all[Place(seqs, s, 1)] = seqs[s][1]
        BY <1>2, <1>3, <4>2, <4>3 DEF Laid
      <4>5. seqs[s][1].of = i
        BY <1>2, <4>1, <4>2, <4>3
      <4>6. all[Place(seqs, s, 1)] \in ToSet(all)
        BY <4>4 DEF ToSet
      <4> QED BY <4>4, <4>5, <4>6
    <3> QED BY <3>1, <3>2
  <2>6. /\ Len(members) <= MaxMembers
        /\ \A i, j \in DOMAIN members : i # j => members[i].path # members[j].path
        /\ \A i \in DOMAIN members : ~members[i].unsafe
        /\ Size([i \in DOMAIN members |-> members[i].size], 1, Len(members)) <= MaxExpanded
    BY <2>2, WholeInspected
  <2>7. MembersCovered(members, previews, all)
    BY <2>1, <2>4, <2>5, <2>6 DEF MembersCovered, PartsFrom
  <2> QED BY <1>3, <2>1, <2>7
<1> QED BY <1>4, <1>5
(***************************************************************************)
(* Documents.  What is known of the sections after some paragraphs: h of   *)
(* them were headings and t had text, pre says whether something came      *)
(* before the first heading, and media are the pictures so far.            *)
(***************************************************************************)
ParagraphSet == [heading : BOOLEAN, text : Nat, images : Distinct(Names)]
DocState == [sections : Seq(SectionSet), rows : Seq(Positive), images : Distinct(Names), titled : BOOLEAN]

RowCounts(sections) == [k \in DOMAIN sections |-> Len(sections[k].rows)]
RowTotal(sections) == Size(RowCounts(sections), 1, Len(sections))
MediaIn(sections) == UNION {ToSet(sections[k].images) : k \in DOMAIN sections}
One(pre) == IF pre THEN 1 ELSE 0
Filled(sections) == sections \in Seq(SectionSet) /\ \A k \in 1..Len(sections) : sections[k].rows # <<>>

SectionsAre(sections, h, t, pre, media) ==
    /\ Filled(sections) /\ MediaIn(sections) = media
    /\ Len(sections) = h + One(pre) /\ RowTotal(sections) = t + One(pre)

DocIs(acc, h, t, pre, media) ==
    /\ acc \in DocState /\ acc.rows # <<>> /\ Filled(acc.sections)
    /\ MediaIn(acc.sections) \cup ToSet(acc.images) = media
    /\ acc.titled => /\ h > 0 /\ Len(acc.sections) + 1 = h + One(pre)
                     /\ RowTotal(acc.sections) + Len(acc.rows) = t + One(pre)
    /\ ~acc.titled => /\ acc.sections = <<>> /\ acc.rows[1] = Untitled /\ h = 0 /\ Len(acc.rows) = t + 1
                      /\ pre <=> Len(acc.rows) > 1 \/ acc.images # <<>>

LEMMA RowTotals ==
  ASSUME NEW sections \in Seq(SectionSet), NEW s \in SectionSet
  PROVE  /\ RowTotal(sections) \in Nat /\ RowTotal(<<>>) = 0
         /\ RowTotal(Append(sections, s)) = RowTotal(sections) + Len(s.rows)
         /\ MediaIn(<<>>) = {} /\ MediaIn(Append(sections, s)) = MediaIn(sections) \cup ToSet(s.images)
         /\ Append(sections, s) \in Seq(SectionSet) /\ Len(Append(sections, s)) = Len(sections) + 1
<1> DEFINE n == Len(sections)
           more == Append(sections, s)
           f == RowCounts(sections)
           g == RowCounts(more)
<1>1. /\ more \in Seq(SectionSet) /\ Len(more) = n + 1 /\ n \in Nat /\ more[n + 1] = s
      /\ \A k \in 1..n : more[k] = sections[k]
      /\ DOMAIN more = 1..n + 1 /\ DOMAIN sections = 1..n
  OBVIOUS
<1> HIDE DEF more
<1>2. ASSUME NEW k \in 1..n PROVE f[k] \in Nat
  <2>1. sections[k] \in SectionSet
    OBVIOUS
  <2> QED BY <1>1, <2>1 DEF RowCounts, SectionSet
<1>3. \A k \in 1..n : g[k] = f[k]
  <2>1. \A k \in 1..n : k \in 1..n + 1
    BY <1>1
  <2> QED BY <1>1, <2>1 DEF RowCounts
<1>4. g[n + 1] = Len(s.rows) /\ g[n + 1] \in Nat
  <2>1. n + 1 \in DOMAIN more
    BY <1>1
  <2>2. g[n + 1] = Len(s.rows)
    BY <1>1, <2>1 DEF RowCounts
  <2> QED BY <2>2 DEF SectionSet
<1>5. \A k \in 1..n + 1 : g[k] \in Nat
  <2>1. \A k \in 1..n + 1 : k = n + 1 \/ k \in 1..n
    BY <1>1
  <2> QED BY <1>2, <1>3, <1>4, <2>1
<1>6. Size(f, 1, n) \in Nat /\ Size(g, 1, n) = Size(f, 1, n)
  <2> HIDE DEF f, g, n
  <2> QED BY <1>1, <1>2, <1>3, SizeFacts
<1>7. Size(g, 1, n + 1) = Size(g, 1, n) + g[n + 1]
  <2> HIDE DEF f, g, n
  <2>1. n + 1 \in Int /\ 1 <= n + 1 /\ (n + 1) - 1 = n
    BY <1>1
  <2>2. Size(g, 1, n + 1) = Size(g, 1, (n + 1) - 1) + g[n + 1]
    BY <1>5, <2>1, SizeFacts
  <2> QED BY <2>1, <2>2
<1>8. RowTotal(<<>>) = 0
  <2>1. \A h : Size(h, 1, 0) = 0
    <3> SUFFICES ASSUME NEW h PROVE Size(h, 1, 0) = 0
      OBVIOUS
    <3>1. \A k \in 1..0 : h[k] \in Nat
      OBVIOUS
    <3> QED BY <3>1, SizeFacts
  <2> QED BY <2>1 DEF RowTotal
<1>9. MediaIn(more) = MediaIn(sections) \cup ToSet(s.images)
  <2>1. ASSUME NEW m \in MediaIn(more) PROVE m \in MediaIn(sections) \cup ToSet(s.images)
    <3>1. PICK k \in 1..n + 1 : m \in ToSet(more[k].images)
      BY <1>1 DEF MediaIn
    <3>2. k = n + 1 \/ k \in 1..n
      BY <1>1
    <3> QED BY <1>1, <3>1, <3>2 DEF MediaIn
  <2>2. ASSUME NEW m \in MediaIn(sections) PROVE m \in MediaIn(more)
    <3>1. PICK k \in 1..n : m \in ToSet(sections[k].images)
      BY <1>1, <2>2 DEF MediaIn
    <3>2. k \in 1..n + 1
      BY <1>1
    <3> QED BY <1>1, <3>1, <3>2 DEF MediaIn
  <2>3. ToSet(s.images) \subseteq MediaIn(more)
    <3>1. n + 1 \in 1..n + 1
      BY <1>1
    <3> QED BY <1>1, <3>1 DEF MediaIn
  <2> QED BY <2>1, <2>2, <2>3
<1>10. MediaIn(<<>>) = {}
  BY DEF MediaIn
<1>11. RowTotal(more) = RowTotal(sections) + Len(s.rows) /\ RowTotal(sections) \in Nat
  BY <1>1, <1>4, <1>6, <1>7 DEF RowTotal
<1> QED BY <1>1, <1>8, <1>9, <1>10, <1>11 DEF more

LEMMA FinishedIs ==
  ASSUME NEW h \in Nat, NEW t \in Nat, NEW pre \in BOOLEAN, NEW media,
         NEW acc, DocIs(acc, h, t, pre, media)
  PROVE  SectionsAre(Finished(acc), h, t, pre, media)
<1> DEFINE s == [rows |-> acc.rows, images |-> acc.images]
           more == Append(acc.sections, s)
<1>1. /\ acc.sections \in Seq(SectionSet) /\ acc.rows \in Seq(Positive) /\ acc.images \in Distinct(Names)
      /\ acc.titled \in BOOLEAN /\ acc.rows # <<>> /\ Filled(acc.sections)
      /\ MediaIn(acc.sections) \cup ToSet(acc.images) = media
  BY DEF DocIs, DocState
<1>2. s \in SectionSet /\ s.rows = acc.rows /\ s.images = acc.images
  BY <1>1 DEF SectionSet
<1> HIDE DEF s
<1>3. /\ RowTotal(acc.sections) \in Nat /\ RowTotal(<<>>) = 0 /\ MediaIn(<<>>) = {}
      /\ RowTotal(more) = RowTotal(acc.sections) + Len(acc.rows) /\ MediaIn(more) = media
      /\ more \in Seq(SectionSet) /\ Len(more) = Len(acc.sections) + 1
  BY <1>1, <1>2, RowTotals
<1>4. Filled(more)
  <2>1. \A k \in 1..Len(acc.sections) : more[k] = acc.sections[k]
    BY <1>1
  <2>2. more[Len(acc.sections) + 1] = s /\ Len(acc.sections) \in Nat
    BY <1>1
  <2> HIDE DEF more
  <2>3. \A k \in 1..Len(more) : k \in 1..Len(acc.sections) \/ k = Len(acc.sections) + 1
    BY <1>3, <2>2
  <2> QED BY <1>1, <1>2, <1>3, <2>1, <2>2, <2>3 DEF Filled
<1>5. Len(acc.rows) \in Nat /\ Len(acc.rows) >= 1 /\ Len(acc.sections) \in Nat
  BY <1>1
<1>6. One(pre) \in {0, 1} /\ (pre => One(pre) = 1) /\ (~pre => One(pre) = 0)
  BY DEF One
<1>7. CASE acc.titled
  <2>1. Finished(acc) = more
    BY <1>7 DEF Finished, s
  <2>2. Len(acc.sections) + 1 = h + One(pre) /\ RowTotal(acc.sections) + Len(acc.rows) = t + One(pre)
    BY <1>7 DEF DocIs
  <2> HIDE DEF more
  <2> QED BY <1>3, <1>4, <2>1, <2>2 DEF SectionsAre
<1>8. CASE ~acc.titled
  <2>1. /\ acc.sections = <<>> /\ acc.rows[1] = Untitled /\ h = 0 /\ Len(acc.rows) = t + 1
        /\ pre <=> Len(acc.rows) > 1 \/ acc.images # <<>>
    BY <1>8 DEF DocIs
  <2>2. acc.rows = <<Untitled>> <=> Len(acc.rows) = 1
    <3> DEFINE rows == acc.rows
    <3>1. rows \in Seq(Positive) /\ rows[1] = Untitled
      BY <1>1, <2>1
    <3> HIDE DEF rows
    <3>2. rows = <<Untitled>> <=> Len(rows) = 1
      BY <3>1
    <3> QED BY <3>2 DEF rows
  <2>3. Finished(acc) = IF acc.rows # <<Untitled>> \/ acc.images # <<>> THEN more ELSE acc.sections
    BY <1>8 DEF Finished, s
  <2>4. CASE pre
    <3>1. acc.rows # <<Untitled>> \/ acc.images # <<>>
      BY <1>5, <2>1, <2>2, <2>4
    <3>2. Finished(acc) = more
      BY <2>3, <3>1
    <3>3. Len(acc.sections) = 0 /\ RowTotal(acc.sections) = 0
      BY <1>3, <2>1
    <3> HIDE DEF more
    <3>4. Len(more) = h + One(pre) /\ RowTotal(more) = t + One(pre)
      <4>1. Len(more) = 0 + 1 /\ h = 0 /\ One(pre) = 1
        BY <1>3, <1>6, <2>1, <2>4, <3>3
      <4>2. RowTotal(more) = 0 + Len(acc.rows) /\ Len(acc.rows) = t + 1
        BY <1>3, <2>1, <3>3
      <4> QED BY <4>1, <4>2
    <3> QED BY <1>3, <1>4, <3>2, <3>4 DEF SectionsAre
  <2>5. CASE ~pre
    <3>1. acc.rows = <<Untitled>> /\ acc.images = <<>> /\ t = 0
      BY <1>5, <2>1, <2>2, <2>5
    <3>2. Finished(acc) = <<>>
      BY <2>1, <2>3, <3>1
    <3>3. media = {}
      BY <1>1, <1>3, <2>1, <3>1 DEF ToSet
    <3>4. Filled(<<>>) /\ Len(<<>>) = 0
      BY DEF Filled
    <3> QED BY <1>3, <1>6, <2>1, <2>5, <3>1, <3>2, <3>3, <3>4 DEF SectionsAre
  <2> QED BY <2>4, <2>5
<1> QED BY <1>1, <1>7, <1>8

\* A heading, a paragraph with text, and the pictures of either.
LEMMA TitledIs ==
  ASSUME NEW h \in Nat, NEW t \in Nat, NEW pre \in BOOLEAN, NEW media,
         NEW sections, SectionsAre(sections, h, t, pre, media), NEW text \in Positive
  PROVE  DocIs(Section(sections, <<text>>, <<>>, TRUE), h + 1, t + 1, pre, media)
<1> DEFINE acc == Section(sections, <<text>>, <<>>, TRUE)
<1>1. /\ acc.sections = sections /\ acc.rows = <<text>> /\ acc.images = <<>> /\ acc.titled = TRUE
      /\ acc = [sections |-> sections, rows |-> <<text>>, images |-> <<>>, titled |-> TRUE]
  BY DEF Section
<1> HIDE DEF acc
<1>2. Filled(sections) /\ sections \in Seq(SectionSet) /\ MediaIn(sections) = media
  BY DEF SectionsAre, Filled
<1>3. <<text>> \in Seq(Positive) /\ <<text>> # <<>> /\ Len(<<text>>) = 1
  OBVIOUS
<1>4. <<>> \in Distinct(Names) /\ ToSet(<<>>) = {}
  BY DEF Distinct, IsInjective, ToSet
<1>5. acc \in DocState
  BY <1>1, <1>2, <1>3, <1>4 DEF DocState
<1>6. One(pre) \in Nat
  BY DEF One
<1>7. /\ h + 1 > 0 /\ Len(sections) + 1 = h + 1 + One(pre)
      /\ RowTotal(sections) + Len(acc.rows) = t + 1 + One(pre)
  BY <1>1, <1>3, <1>6 DEF SectionsAre
<1>8. MediaIn(sections) \cup ToSet(acc.images) = media
  BY <1>1, <1>2, <1>4
<1> QED BY <1>1, <1>2, <1>3, <1>5, <1>7, <1>8 DEF DocIs, acc
LEMMA TextAdded ==
  ASSUME NEW h \in Nat, NEW t \in Nat, NEW pre \in BOOLEAN, NEW media,
         NEW acc, DocIs(acc, h, t, pre, media), NEW text \in Positive
  PROVE  DocIs([acc EXCEPT !.rows = Append(@, text)], h, t + 1, pre \/ ~acc.titled, media)
<1> DEFINE next == [acc EXCEPT !.rows = Append(@, text)]
           q == pre \/ ~acc.titled
           rows == acc.rows
           more == Append(rows, text)
<1>1. acc \in DocState /\ rows \in Seq(Positive) /\ rows # <<>>
  BY DEF DocIs, DocState
<1>2. /\ more \in Seq(Positive) /\ more # <<>> /\ Len(more) = Len(rows) + 1 /\ Len(rows) \in Nat
      /\ Len(rows) >= 1 /\ more[1] = rows[1]
  BY <1>1
<1>3. /\ next.rows = more /\ next.sections = acc.sections /\ next.images = acc.images
      /\ next.titled = acc.titled /\ next \in DocState
  <2> HIDE DEF more
  <2>1. next = [acc EXCEPT !.rows = more]
    BY DEF more
  <2> QED BY <1>1, <1>2, <2>1 DEF DocState
<1> HIDE DEF next, more
<1>4. Filled(next.sections) /\ MediaIn(next.sections) \cup ToSet(next.images) = media
  BY <1>3 DEF DocIs
<1>5. CASE acc.titled
  <2>1. /\ h > 0 /\ Len(acc.sections) + 1 = h + One(pre)
        /\ RowTotal(acc.sections) + Len(rows) = t + One(pre) /\ RowTotal(acc.sections) \in Nat
    <3>1. acc.sections \in Seq(SectionSet)
      BY <1>1 DEF DocState
    <3>2. \A s \in SectionSet : RowTotal(acc.sections) \in Nat
      BY <3>1, RowTotals
    <3>3. [rows |-> acc.rows, images |-> acc.images] \in SectionSet
      BY <1>1 DEF DocState, SectionSet
    <3> QED BY <1>5, <3>2, <3>3 DEF DocIs
  <2>2. q = pre /\ One(pre) \in Nat
    BY <1>5 DEF One
  <2>3. RowTotal(next.sections) + Len(next.rows) = t + 1 + One(q)
    <3> DEFINE a == RowTotal(acc.sections)
               b == Len(rows)
               c == One(pre)
    <3>1. a \in Nat /\ b \in Nat /\ c \in Nat /\ a + b = t + c
      BY <1>2, <2>1, <2>2
    <3>2. RowTotal(next.sections) = a /\ Len(next.rows) = b + 1 /\ One(q) = c
      BY <1>2, <1>3, <2>2
    <3> HIDE DEF a, b, c
    <3>3. a + (b + 1) = t + 1 + c
      BY <3>1
    <3> QED BY <3>2, <3>3
  <2> QED BY <1>2, <1>3, <1>4, <1>5, <2>1, <2>2, <2>3 DEF DocIs, next
<1>6. CASE ~acc.titled
  <2>1. acc.sections = <<>> /\ rows[1] = Untitled /\ h = 0 /\ Len(rows) = t + 1
    BY <1>6 DEF DocIs
  <2>2. q = TRUE
    BY <1>6
  <2>3. Len(next.rows) = (t + 1) + 1 /\ Len(next.rows) > 1 /\ next.rows[1] = Untitled
    BY <1>2, <1>3, <2>1
  <2>4. q <=> Len(next.rows) > 1 \/ next.images # <<>>
    BY <2>2, <2>3
  <2> HIDE DEF q
  <2> QED BY <1>2, <1>3, <1>4, <1>6, <2>1, <2>3, <2>4 DEF DocIs, next, q
<1> QED BY <1>1, <1>5, <1>6

NewPictures(acc, images) == {i \in DOMAIN images : images[i] \notin ToSet(acc.images)}
ImagesTo(acc, images) == [acc EXCEPT !.images = @ \o Picked(images, NewPictures(acc, images))]

LEMMA ImagesJoined ==
  ASSUME NEW acc, acc.images \in Distinct(Names), NEW images \in Distinct(Names)
  PROVE  LET joined == acc.images \o Picked(images, NewPictures(acc, images))
         IN  /\ joined \in Distinct(Names) /\ ToSet(joined) = ToSet(acc.images) \cup ToSet(images)
             /\ joined # <<>> <=> acc.images # <<>> \/ images # <<>>
<1> DEFINE old == acc.images
           new == NewPictures(acc, images)
           p == Picked(images, new)
           joined == old \o p
<1>1. old \in Seq(Names) /\ IsInjective(old) /\ images \in Seq(Names) /\ IsInjective(images)
  BY DEF Distinct
<1>2. new = {i \in DOMAIN images : images[i] \notin ToSet(old)}
  BY DEF NewPictures
<1> HIDE DEF old, new
<1>3. /\ p \in Seq(Names) /\ IsInjective(p)
      /\ ToSet(p) = {images[i] : i \in new \cap DOMAIN images}
  BY <1>1, PickedFacts, PickedSet
<1> HIDE DEF p
<1>4. /\ joined \in Seq(Names) /\ Len(joined) = Len(old) + Len(p)
      /\ \A i \in 1..(Len(old) + Len(p)) : joined[i] = IF i <= Len(old) THEN old[i] ELSE p[i - Len(old)]
      /\ Len(old) \in Nat /\ Len(p) \in Nat
  BY <1>1, <1>3, ConcatProperties
<1>5. DOMAIN old = 1..Len(old) /\ DOMAIN p = 1..Len(p) /\ DOMAIN images = 1..Len(images)
  BY <1>1, <1>3
<1> HIDE DEF joined
<1>6. DOMAIN joined = 1..Len(joined)
  BY <1>4
<1>7. ToSet(joined) = ToSet(old) \cup ToSet(p)
  <2>1. ASSUME NEW m \in ToSet(joined) PROVE m \in ToSet(old) \cup ToSet(p)
    <3>1. PICK i \in 1..(Len(old) + Len(p)) : joined[i] = m
      BY <1>4, <1>6, <2>1 DEF ToSet
    <3>2. CASE i <= Len(old)
      <4>1. i \in DOMAIN old /\ m = old[i]
        BY <1>4, <1>5, <3>1, <3>2
      <4> QED BY <4>1 DEF ToSet
    <3>3. CASE ~(i <= Len(old))
      <4>1. i - Len(old) \in DOMAIN p /\ m = p[i - Len(old)]
        BY <1>4, <1>5, <3>1, <3>3
      <4> QED BY <4>1 DEF ToSet
    <3> QED BY <3>2, <3>3
  <2>2. ASSUME NEW m \in ToSet(old) PROVE m \in ToSet(joined)
    <3>1. PICK i \in 1..Len(old) : old[i] = m
      BY <1>5, <2>2 DEF ToSet
    <3>2. i \in DOMAIN joined /\ joined[i] = m
      BY <1>4, <1>6, <3>1
    <3> QED BY <3>2 DEF ToSet
  <2>3. ASSUME NEW m \in ToSet(p) PROVE m \in ToSet(joined)
    <3>1. PICK i \in 1..Len(p) : p[i] = m
      BY <1>5, <2>3 DEF ToSet
    <3>2. /\ Len(old) + i \in 1..(Len(old) + Len(p)) /\ ~(Len(old) + i <= Len(old))
          /\ (Len(old) + i) - Len(old) = i
      BY <1>4, <3>1
    <3>3. Len(old) + i \in DOMAIN joined /\ joined[Len(old) + i] = m
      BY <1>4, <1>6, <3>1, <3>2
    <3> QED BY <3>3 DEF ToSet
  <2> QED BY <2>1, <2>2, <2>3
<1>8. ToSet(p) = ToSet(images) \ ToSet(old)
  BY <1>2, <1>3 DEF ToSet
<1>9. ASSUME NEW i \in 1..Len(joined), NEW j \in 1..Len(joined), joined[i] = joined[j] PROVE i = j
  <2>1. \A k \in 1..Len(joined) :
           /\ k <= Len(old) => k \in DOMAIN old /\ joined[k] = old[k] /\ joined[k] \in ToSet(old)
           /\ ~(k <= Len(old)) => /\ k - Len(old) \in DOMAIN p /\ joined[k] = p[k - Len(old)]
                                  /\ joined[k] \notin ToSet(old)
    <3> SUFFICES ASSUME NEW k \in 1..Len(joined)
                 PROVE  /\ k <= Len(old) => k \in DOMAIN old /\ joined[k] = old[k] /\ joined[k] \in ToSet(old)
                        /\ ~(k <= Len(old)) => /\ k - Len(old) \in DOMAIN p /\ joined[k] = p[k - Len(old)]
                                               /\ joined[k] \notin ToSet(old)
      OBVIOUS
    <3>1. CASE k <= Len(old)
      <4>1. k \in DOMAIN old /\ joined[k] = old[k]
        BY <1>4, <1>5, <3>1
      <4> QED BY <3>1, <4>1 DEF ToSet
    <3>2. CASE ~(k <= Len(old))
      <4>1. k - Len(old) \in DOMAIN p /\ joined[k] = p[k - Len(old)]
        BY <1>4, <1>5, <3>2
      <4>2. p[k - Len(old)] \in ToSet(p)
        BY <4>1 DEF ToSet
      <4> QED BY <1>8, <3>2, <4>1, <4>2
    <3> QED BY <3>1, <3>2
  <2>2. CASE i <= Len(old) /\ j <= Len(old)
    BY <1>1, <1>9, <2>1, <2>2 DEF IsInjective
  <2>3. CASE ~(i <= Len(old)) /\ ~(j <= Len(old))
    <3>1. i - Len(old) = j - Len(old)
      BY <1>3, <1>9, <2>1, <2>3 DEF IsInjective
    <3> QED BY <1>4, <3>1
  <2>4. CASE i <= Len(old) /\ ~(j <= Len(old))
    BY <1>9, <2>1, <2>4
  <2>5. CASE ~(i <= Len(old)) /\ j <= Len(old)
    BY <1>9, <2>1, <2>5
  <2> QED BY <2>2, <2>3, <2>4, <2>5
<1>10. IsInjective(joined)
  BY <1>6, <1>9 DEF IsInjective
<1>11. \A S : \A q \in Seq(S) : q # <<>> <=> ToSet(q) # {}
  BY DEF ToSet
<1>12. joined # <<>> <=> old # <<>> \/ images # <<>>
  <2>1. joined # <<>> <=> ToSet(joined) # {}
    BY <1>4, <1>11
  <2>2. (old # <<>> <=> ToSet(old) # {}) /\ (images # <<>> <=> ToSet(images) # {})
    BY <1>1, <1>11
  <2> QED BY <1>7, <1>8, <2>1, <2>2
<1> QED BY <1>4, <1>7, <1>8, <1>10, <1>12 DEF joined, old, p, new, Distinct

LEMMA ImagesAdded ==
  ASSUME NEW h \in Nat, NEW t \in Nat, NEW pre \in BOOLEAN, NEW media,
         NEW acc, DocIs(acc, h, t, pre, media), NEW images \in Distinct(Names)
  PROVE  DocIs(ImagesTo(acc, images), h, t, pre \/ (~acc.titled /\ images # <<>>), media \cup ToSet(images))
<1> DEFINE next == ImagesTo(acc, images)
           joined == acc.images \o Picked(images, NewPictures(acc, images))
           q == pre \/ (~acc.titled /\ images # <<>>)
<1>1. acc \in DocState /\ acc.images \in Distinct(Names)
  BY DEF DocIs, DocState
<1>2. /\ joined \in Distinct(Names) /\ ToSet(joined) = ToSet(acc.images) \cup ToSet(images)
      /\ joined # <<>> <=> acc.images # <<>> \/ images # <<>>
  BY <1>1, ImagesJoined
<1>3. /\ next.rows = acc.rows /\ next.sections = acc.sections /\ next.images = joined
      /\ next.titled = acc.titled /\ next \in DocState
  <2>1. next = [acc EXCEPT !.images = joined]
    BY DEF ImagesTo
  <2> HIDE DEF next, joined
  <2> QED BY <1>1, <1>2, <2>1 DEF DocState
<1> HIDE DEF next, joined
<1>4. MediaIn(next.sections) \cup ToSet(next.images) = media \cup ToSet(images)
  <2>1. MediaIn(acc.sections) \cup ToSet(acc.images) = media
    BY DEF DocIs
  <2> QED BY <1>2, <1>3, <2>1
<1>5. Filled(next.sections) /\ next.rows # <<>>
  BY <1>3 DEF DocIs
<1>6. CASE acc.titled
  <2>1. q = pre
    BY <1>6
  <2>2. /\ h > 0 /\ Len(acc.sections) + 1 = h + One(pre)
        /\ RowTotal(acc.sections) + Len(acc.rows) = t + One(pre)
    BY <1>6 DEF DocIs
  <2> QED BY <1>3, <1>4, <1>5, <1>6, <2>1, <2>2 DEF DocIs, next
<1>7. CASE ~acc.titled
  <2>1. /\ acc.sections = <<>> /\ acc.rows[1] = Untitled /\ h = 0 /\ Len(acc.rows) = t + 1
        /\ pre <=> Len(acc.rows) > 1 \/ acc.images # <<>>
    BY <1>7 DEF DocIs
  <2>2. q <=> Len(next.rows) > 1 \/ next.images # <<>>
    BY <1>2, <1>3, <1>7, <2>1
  <2> HIDE DEF q
  <2> QED BY <1>3, <1>4, <1>5, <1>7, <2>1, <2>2 DEF DocIs, next, q
<1> QED BY <1>1, <1>6, <1>7
BeginsAt(paragraphs, i) == paragraphs[i].heading /\ paragraphs[i].text # 0
HeadingsOf(paragraphs) == {i \in DOMAIN paragraphs : BeginsAt(paragraphs, i)}
TextsOf(paragraphs) == {i \in DOMAIN paragraphs : paragraphs[i].text # 0}
Shows(p) == p.text # 0 \/ p.images # <<>>
PrefaceTo(paragraphs, i) ==
    \E k \in 1..i : (\A j \in 1..k : ~BeginsAt(paragraphs, j)) /\ Shows(paragraphs[k])
MediaTo(paragraphs, i) == UNION {ToSet(paragraphs[k].images) : k \in 1..i}
DocTo(paragraphs, acc, i) ==
    DocIs(acc, CountTo(HeadingsOf(paragraphs), i), CountTo(TextsOf(paragraphs), i),
          PrefaceTo(paragraphs, i), MediaTo(paragraphs, i))

LEMMA CountNone ==
  ASSUME NEW n \in Nat, NEW S \in SUBSET (1..n), NEW i \in 0..n
  PROVE  CountTo(S, i) = 0 <=> \A j \in 1..i : j \notin S
<1>1. ASSUME \A j \in 1..i : j \notin S PROVE CountTo(S, i) = 0
  <2>1. {f \in S : f <= i} = {}
    <3>1. ASSUME NEW f \in S, f <= i PROVE FALSE
      <4>1. f \in 1..n
        OBVIOUS
      <4>2. f \in 1..i
        BY <3>1, <4>1
      <4> QED BY <1>1, <4>2
    <3> QED BY <3>1
  <2> QED BY <2>1, FS_EmptySet DEF CountTo
<1>2. ASSUME NEW j \in 1..i, j \in S PROVE CountTo(S, i) # 0
  <2>1. 0 \in 0..j - 1 /\ j \in 0..i /\ j \in 0..n
    OBVIOUS
  <2>2. CountTo(S, 0) < CountTo(S, j) /\ CountTo(S, j) <= CountTo(S, i)
    BY <1>2, <2>1, CountGrows
  <2>3. CountTo(S, 0) = 0 /\ CountTo(S, j) \in Nat /\ CountTo(S, i) \in Nat
    BY <2>1, CountStep
  <2> QED BY <2>2, <2>3
<1> QED BY <1>1, <1>2

\* What one more paragraph adds to the counts.
LEMMA DocCounts ==
  ASSUME NEW paragraphs \in Seq(ParagraphSet), NEW i \in 1..Len(paragraphs)
  PROVE  LET h(k) == CountTo(HeadingsOf(paragraphs), k)
             t(k) == CountTo(TextsOf(paragraphs), k)
             p == paragraphs[i]
         IN  /\ h(i - 1) \in Nat /\ t(i - 1) \in Nat
             /\ h(i) = h(i - 1) + One(BeginsAt(paragraphs, i)) /\ t(i) = t(i - 1) + One(p.text # 0)
             /\ PrefaceTo(paragraphs, i) <=> PrefaceTo(paragraphs, i - 1) \/ (h(i) = 0 /\ Shows(p))
             /\ MediaTo(paragraphs, i) = MediaTo(paragraphs, i - 1) \cup ToSet(p.images)
<1> DEFINE n == Len(paragraphs)
           H == HeadingsOf(paragraphs)
           T == TextsOf(paragraphs)
<1>1. n \in Nat /\ DOMAIN paragraphs = 1..n
  OBVIOUS
<1>2. /\ H \in SUBSET (1..n) /\ T \in SUBSET (1..n)
      /\ (i \in H <=> BeginsAt(paragraphs, i)) /\ (i \in T <=> paragraphs[i].text # 0)
      /\ \A j \in 1..n : j \in H <=> BeginsAt(paragraphs, j)
  BY <1>1 DEF HeadingsOf, TextsOf
<1> HIDE DEF H, T, n
<1>3. /\ i \in 1..n /\ i \in 0..n /\ i - 1 \in 0..n /\ i \in Nat
      /\ \A k \in 1..i : k \in 1..i - 1 \/ k = i
      /\ 1..i - 1 \subseteq 1..i /\ \A k \in 1..i : k \in 1..n /\ 1..k \subseteq 1..i
  BY <1>1 DEF n
<1>4. /\ CountTo(H, i - 1) \in Nat /\ CountTo(T, i - 1) \in Nat
      /\ CountTo(H, i) = CountTo(H, i - 1) + (IF i \in H THEN 1 ELSE 0)
      /\ CountTo(T, i) = CountTo(T, i - 1) + (IF i \in T THEN 1 ELSE 0)
  BY <1>1, <1>2, <1>3, CountStep
<1>5. CountTo(H, i) = 0 <=> \A j \in 1..i : ~BeginsAt(paragraphs, j)
  BY <1>1, <1>2, <1>3, CountNone
<1>6. PrefaceTo(paragraphs, i) <=> PrefaceTo(paragraphs, i - 1) \/ (CountTo(H, i) = 0 /\ Shows(paragraphs[i]))
  <2>1. ASSUME PrefaceTo(paragraphs, i)
        PROVE  PrefaceTo(paragraphs, i - 1) \/ (CountTo(H, i) = 0 /\ Shows(paragraphs[i]))
    <3>1. PICK k \in 1..i : (\A j \in 1..k : ~BeginsAt(paragraphs, j)) /\ Shows(paragraphs[k])
      BY <2>1 DEF PrefaceTo
    <3>2. CASE k = i
      BY <1>5, <3>1, <3>2
    <3>3. CASE k \in 1..i - 1
      BY <3>1, <3>3 DEF PrefaceTo
    <3> QED BY <1>3, <3>2, <3>3
  <2>2. ASSUME PrefaceTo(paragraphs, i - 1) PROVE PrefaceTo(paragraphs, i)
    BY <1>3, <2>2 DEF PrefaceTo
  <2>3. ASSUME CountTo(H, i) = 0, Shows(paragraphs[i]) PROVE PrefaceTo(paragraphs, i)
    <3>1. i \in 1..i
      BY <1>3
    <3> QED BY <1>5, <2>3, <3>1 DEF PrefaceTo
  <2> QED BY <2>1, <2>2, <2>3
<1>7. MediaTo(paragraphs, i) = MediaTo(paragraphs, i - 1) \cup ToSet(paragraphs[i].images)
  <2>1. i \in 1..i
    BY <1>3
  <2>2. 1..i = (1..i - 1) \cup {i}
    BY <1>3, <2>1
  <2> QED BY <2>2 DEF MediaTo
<1> QED BY <1>2, <1>4, <1>6, <1>7 DEF H, T, One

Begun(acc, p) ==
    IF p.heading /\ p.text # 0 THEN Section(Finished(acc), <<p.text>>, <<>>, TRUE)
    ELSE IF p.text # 0 THEN [acc EXCEPT !.rows = Append(@, p.text)] ELSE acc

LEMMA AddsParagraph ==
  ASSUME NEW acc, NEW p
  PROVE  AddParagraph(acc, p) = ImagesTo(Begun(acc, p), p.images)
BY DEF AddParagraph, ImagesTo, NewPictures, Begun

LEMMA AddTyped ==
  ASSUME NEW acc \in DocState, NEW p \in ParagraphSet
  PROVE  AddParagraph(acc, p) \in DocState
<1> DEFINE b == Begun(acc, p)
           joined == b.images \o Picked(p.images, NewPictures(b, p.images))
<1>1. /\ acc.sections \in Seq(SectionSet) /\ acc.rows \in Seq(Positive) /\ acc.images \in Distinct(Names)
      /\ acc.titled \in BOOLEAN
      /\ acc = [sections |-> acc.sections, rows |-> acc.rows, images |-> acc.images, titled |-> acc.titled]
  BY DEF DocState
<1>2. p.text \in Nat /\ p.images \in Distinct(Names) /\ (p.text # 0 => p.text \in Positive)
  BY DEF ParagraphSet, Positive
<1>3. Finished(acc) \in Seq(SectionSet)
  <2>1. [rows |-> acc.rows, images |-> acc.images] \in SectionSet
    BY <1>1 DEF SectionSet
  <2>2. Append(acc.sections, [rows |-> acc.rows, images |-> acc.images]) \in Seq(SectionSet)
    BY <1>1, <2>1
  <2> QED BY <1>1, <2>2 DEF Finished
<1>4. b \in DocState
  <2>1. CASE p.heading /\ p.text # 0
    <3>1. <<p.text>> \in Seq(Positive)
      BY <1>2, <2>1
    <3>2. <<>> \in Distinct(Names)
      BY DEF Distinct, IsInjective
    <3> QED BY <1>3, <2>1, <3>1, <3>2 DEF Begun, Section, DocState
  <2>2. CASE ~(p.heading /\ p.text # 0) /\ p.text # 0
    <3> DEFINE more == Append(acc.rows, p.text)
    <3>1. more \in Seq(Positive)
      BY <1>1, <1>2, <2>2
    <3>2. b = [acc EXCEPT !.rows = more]
      BY <2>2 DEF Begun
    <3> HIDE DEF more, b
    <3> QED BY <1>1, <3>1, <3>2 DEF DocState
  <2>3. CASE p.text = 0
    BY <2>3 DEF Begun
  <2> QED BY <2>1, <2>2, <2>3
<1> HIDE DEF b
<1>5. b.images \in Distinct(Names)
  BY <1>4 DEF DocState
<1>6. joined \in Distinct(Names)
  BY <1>2, <1>5, ImagesJoined
<1>7. AddParagraph(acc, p) = [b EXCEPT !.images = joined]
  BY AddsParagraph DEF b, ImagesTo
<1> HIDE DEF joined
<1> QED BY <1>4, <1>6, <1>7 DEF DocState

LEMMA ParagraphStep ==
  ASSUME NEW paragraphs \in Seq(ParagraphSet), NEW i \in 1..Len(paragraphs),
         NEW acc, DocTo(paragraphs, acc, i - 1)
  PROVE  DocTo(paragraphs, AddParagraph(acc, paragraphs[i]), i)
<1> DEFINE p == paragraphs[i]
           h == CountTo(HeadingsOf(paragraphs), i - 1)
           t == CountTo(TextsOf(paragraphs), i - 1)
           pre == PrefaceTo(paragraphs, i - 1)
           media == MediaTo(paragraphs, i - 1)
           b == Begun(acc, p)
           begins == p.heading /\ p.text # 0
<1>1. p \in ParagraphSet
  OBVIOUS
<1>2. p.text \in Nat /\ p.images \in Distinct(Names) /\ p.heading \in BOOLEAN /\ (p.text # 0 => p.text \in Positive)
  BY <1>1 DEF ParagraphSet, Positive
<1>3. /\ h \in Nat /\ t \in Nat
      /\ CountTo(HeadingsOf(paragraphs), i) = h + One(begins)
      /\ CountTo(TextsOf(paragraphs), i) = t + One(p.text # 0)
      /\ PrefaceTo(paragraphs, i) <=> pre \/ (h + One(begins) = 0 /\ Shows(p))
      /\ MediaTo(paragraphs, i) = media \cup ToSet(p.images)
  BY DocCounts DEF BeginsAt
<1>4. pre \in BOOLEAN /\ PrefaceTo(paragraphs, i) \in BOOLEAN
  BY DEF PrefaceTo
<1>5. DocIs(acc, h, t, pre, media) /\ acc.titled \in BOOLEAN
  BY DEF DocTo, DocIs, DocState
<1>6. (acc.titled => h > 0) /\ (~acc.titled => h = 0)
  BY <1>5 DEF DocIs
<1>7. AddParagraph(acc, p) = ImagesTo(b, p.images)
  BY AddsParagraph
<1> HIDE DEF p, h, t, pre, media, b
<1> DEFINE final == ImagesTo(b, p.images)
           after == PrefaceTo(paragraphs, i)
           all == media \cup ToSet(p.images)
<1> HIDE DEF final
<1>8. DocIs(final, h + One(begins), t + One(p.text # 0), after, all)
  <2>1. CASE begins
    <3>1. SectionsAre(Finished(acc), h, t, pre, media)
      BY <1>3, <1>4, <1>5, FinishedIs
    <3>2. DocIs(Section(Finished(acc), <<p.text>>, <<>>, TRUE), h + 1, t + 1, pre, media)
      BY <1>2, <1>3, <1>4, <2>1, <3>1, TitledIs
    <3>3. b = Section(Finished(acc), <<p.text>>, <<>>, TRUE) /\ b.titled = TRUE
      BY <2>1 DEF b, Begun, Section
    <3>4. h + 1 \in Nat /\ t + 1 \in Nat /\ h + 1 # 0
      BY <1>3
    <3>8. DocIs(b, h + 1, t + 1, pre, media)
      BY <3>2, <3>3
    <3>5. DocIs(final, h + 1, t + 1, pre \/ (~b.titled /\ p.images # <<>>), all)
      <4> DEFINE i1 == p.images
                 h1 == h + 1
                 t1 == t + 1
      <4>1. i1 \in Distinct(Names) /\ h1 \in Nat /\ t1 \in Nat /\ DocIs(b, h1, t1, pre, media)
        BY <1>2, <3>4, <3>8
      <4> HIDE DEF i1, h1, t1
      <4>2. DocIs(ImagesTo(b, i1), h1, t1, pre \/ (~b.titled /\ i1 # <<>>), media \cup ToSet(i1))
        BY <1>4, <4>1, ImagesAdded
      <4> QED BY <4>2 DEF final, i1, h1, t1
    <3>6. One(begins) = 1 /\ One(p.text # 0) = 1
      BY <2>1 DEF One
    <3>7. after = pre /\ (pre \/ (~b.titled /\ p.images # <<>>)) = pre
      BY <1>3, <1>4, <3>3, <3>4, <3>6
    <3> HIDE DEF after
    <3> QED BY <3>5, <3>6, <3>7
  <2>2. CASE ~begins /\ p.text # 0
    <3>1. b = [acc EXCEPT !.rows = Append(@, p.text)]
      BY <2>2 DEF b, Begun
    <3>2. DocIs(b, h, t + 1, pre \/ ~acc.titled, media)
      BY <1>2, <1>3, <1>4, <1>5, <2>2, <3>1, TextAdded
    <3>3. t + 1 \in Nat /\ (pre \/ ~acc.titled) \in BOOLEAN
      BY <1>3
    <3>4. b.titled = acc.titled
      BY <1>5, <3>1 DEF DocIs, DocState
    <3>5. DocIs(final, h, t + 1, (pre \/ ~acc.titled) \/ (~b.titled /\ p.images # <<>>), all)
      BY <1>2, <1>3, <3>2, <3>3, ImagesAdded DEF final
    <3>6. One(begins) = 0 /\ One(p.text # 0) = 1 /\ h + 0 = h
      BY <1>3, <2>2 DEF One
    <3>7. after = ((pre \/ ~acc.titled) \/ (~b.titled /\ p.images # <<>>))
      BY <1>3, <1>4, <1>5, <1>6, <2>2, <3>4, <3>6 DEF Shows
    <3> HIDE DEF after
    <3> QED BY <3>5, <3>6, <3>7
  <2>3. CASE p.text = 0
    <3>1. b = acc
      BY <2>3 DEF b, Begun
    <3>2. DocIs(final, h, t, pre \/ (~acc.titled /\ p.images # <<>>), all)
      BY <1>2, <1>3, <1>4, <1>5, <3>1, ImagesAdded DEF final
    <3>3. One(begins) = 0 /\ One(p.text # 0) = 0 /\ h + 0 = h /\ t + 0 = t
      BY <1>3, <2>3 DEF One
    <3>4. after = (pre \/ (~acc.titled /\ p.images # <<>>))
      BY <1>3, <1>4, <1>5, <1>6, <2>3, <3>3 DEF Shows
    <3> HIDE DEF after
    <3> QED BY <3>2, <3>3, <3>4
  <2> QED BY <2>1, <2>2, <2>3
<1>9. DocTo(paragraphs, final, i)
  BY <1>3, <1>8 DEF DocTo
<1> QED BY <1>7, <1>9 DEF final, p
DocStart == Section(<<>>, <<Untitled>>, <<>>, FALSE)
DocStep(paragraphs, read, i) == IF i = 0 THEN DocStart ELSE AddParagraph(read[i-1], paragraphs[i])
DocReads(read, paragraphs) == read = [i \in 0..Len(paragraphs) |-> DocStep(paragraphs, read, i)]

LEMMA DocumentIs ==
  ASSUME NEW paragraphs
  PROVE  DocumentSections(paragraphs)
            = Finished((CHOOSE read : DocReads(read, paragraphs))[Len(paragraphs)])
BY DEF DocumentSections, DocReads, DocStep, DocStart

LEMMA DocStarts ==
  ASSUME NEW paragraphs \in Seq(ParagraphSet)
  PROVE  DocStart \in DocState /\ DocTo(paragraphs, DocStart, 0)
<1>1. /\ DocStart.sections = <<>> /\ DocStart.rows = <<Untitled>> /\ DocStart.images = <<>>
      /\ DocStart.titled = FALSE
      /\ DocStart = [sections |-> <<>>, rows |-> <<Untitled>>, images |-> <<>>, titled |-> FALSE]
  BY DEF DocStart, Section
<1>2. /\ <<Untitled>> \in Seq(Positive) /\ <<Untitled>> # <<>> /\ Len(<<Untitled>>) = 1
      /\ <<Untitled>>[1] = Untitled
  BY DEF Untitled, Positive
<1>3. <<>> \in Distinct(Names) /\ ToSet(<<>>) = {} /\ MediaIn(<<>>) = {} /\ Filled(<<>>)
  BY DEF Distinct, IsInjective, ToSet, MediaIn, Filled
<1>4. DocStart \in DocState
  BY <1>1, <1>2, <1>3 DEF DocState
<1>5. CountTo(HeadingsOf(paragraphs), 0) = 0 /\ CountTo(TextsOf(paragraphs), 0) = 0
  <2> DEFINE n == Len(paragraphs)
             H == HeadingsOf(paragraphs)
             T == TextsOf(paragraphs)
  <2>1. n \in Nat /\ H \in SUBSET (1..n) /\ T \in SUBSET (1..n)
    BY DEF HeadingsOf, TextsOf
  <2> HIDE DEF n, H, T
  <2>2. CountTo(H, 0) = 0 /\ CountTo(T, 0) = 0
    BY <2>1, CountStep
  <2> QED BY <2>2 DEF H, T
<1>6. MediaTo(paragraphs, 0) = {} /\ PrefaceTo(paragraphs, 0) = FALSE
  BY DEF MediaTo, PrefaceTo
<1>7. Len(DocStart.rows) = 0 + 1 /\ ~(Len(DocStart.rows) > 1)
  BY <1>1, <1>2
<1>8. DocIs(DocStart, 0, 0, FALSE, {})
  BY <1>1, <1>2, <1>3, <1>4, <1>7 DEF DocIs
<1> QED BY <1>4, <1>5, <1>6, <1>8 DEF DocTo

LEMMA DocReadsExist ==
  ASSUME NEW paragraphs \in Seq(ParagraphSet)
  PROVE  \E read \in [0..Len(paragraphs) -> DocState] : DocReads(read, paragraphs)
<1> DEFINE n == Len(paragraphs)
           step == [i \in 1..n |-> [x \in DocState |-> AddParagraph(x, paragraphs[i])]]
<1>1. n \in Nat /\ DocStart \in DocState
  BY DocStarts
<1>2. \A i \in 1..n : \A x \in DocState : AddParagraph(x, paragraphs[i]) \in DocState
  <2> SUFFICES ASSUME NEW i \in 1..n, NEW x \in DocState PROVE AddParagraph(x, paragraphs[i]) \in DocState
    OBVIOUS
  <2>1. paragraphs[i] \in ParagraphSet
    OBVIOUS
  <2> QED BY <2>1, AddTyped
<1>3. step \in [1..n -> [DocState -> DocState]]
  BY <1>2
<1>4. \A i \in 1..n : \A x \in DocState : step[i][x] = AddParagraph(x, paragraphs[i])
  OBVIOUS
<1> HIDE DEF step
<1>5. PICK read \in [0..n -> DocState] : Counts(read, n, DocStart, step)
  <2> HIDE DEF n
  <2> QED BY <1>1, <1>3, Counting
<1>6. ASSUME NEW i \in 0..n PROVE read[i] = DocStep(paragraphs, read, i)
  <2>1. CASE i = 0
    BY <1>5, <2>1 DEF Counts, DocStep
  <2>2. CASE i # 0
    <3>1. i \in 1..n /\ read[i-1] \in DocState
      BY <1>1, <1>5, <2>2
    <3> QED BY <1>4, <1>5, <2>2, <3>1 DEF Counts, DocStep
  <2> QED BY <2>1, <2>2
<1>7. DocReads(read, paragraphs)
  BY <1>5, <1>6 DEF DocReads
<1> QED BY <1>5, <1>7

\* The sections of a document.
Preface(paragraphs) == PrefaceTo(paragraphs, Len(paragraphs))
LEMMA DocumentFacts ==
  ASSUME NEW paragraphs \in Seq(ParagraphSet)
  PROVE  SectionsAre(DocumentSections(paragraphs), Cardinality(HeadingsOf(paragraphs)),
                     Cardinality(TextsOf(paragraphs)), Preface(paragraphs), MediaTo(paragraphs, Len(paragraphs)))
<1> DEFINE n == Len(paragraphs)
           read == CHOOSE r : DocReads(r, paragraphs)
           B == {i \in 0..n : DocTo(paragraphs, read[i], i)}
           H == HeadingsOf(paragraphs)
           T == TextsOf(paragraphs)
<1>1. DocReads(read, paragraphs)
  BY DocReadsExist
<1> HIDE DEF read
<1>2. n \in Nat /\ \A i \in 0..n : read[i] = DocStep(paragraphs, read, i)
  BY <1>1 DEF DocReads
<1>3. B \in SUBSET (0..n)
  OBVIOUS
<1>4. 0 \in B
  <2>1. read[0] = DocStart /\ 0 \in 0..n
    BY <1>2 DEF DocStep
  <2> QED BY <2>1, DocStarts
<1>5. ASSUME NEW i \in 1..n, i - 1 \in B PROVE i \in B
  <2>1. DocTo(paragraphs, read[i-1], i - 1) /\ i \in 0..n /\ i # 0
    BY <1>5
  <2>2. read[i] = AddParagraph(read[i-1], paragraphs[i])
    BY <1>2, <2>1 DEF DocStep
  <2>3. DocTo(paragraphs, AddParagraph(read[i-1], paragraphs[i]), i)
    BY <2>1, ParagraphStep
  <2> QED BY <2>1, <2>2, <2>3
<1> HIDE DEF B, n
<1>6. B = 0..n
  BY <1>2, <1>3, <1>4, <1>5, Upto
<1>7. n \in 0..n
  BY <1>2
<1>8. DocTo(paragraphs, read[n], n)
  BY <1>6, <1>7 DEF B
<1>9. H \in SUBSET (1..n) /\ T \in SUBSET (1..n)
  BY DEF HeadingsOf, TextsOf, n
<1> HIDE DEF H, T
<1>10. /\ CountTo(H, n) = Cardinality(H) /\ CountTo(T, n) = Cardinality(T)
       /\ CountTo(H, n) \in Nat /\ CountTo(T, n) \in Nat
  BY <1>2, <1>7, <1>9, CountStep
<1>11. DocIs(read[n], Cardinality(H), Cardinality(T), PrefaceTo(paragraphs, n), MediaTo(paragraphs, n))
  BY <1>8, <1>10 DEF DocTo, H, T
<1>12. PrefaceTo(paragraphs, n) \in BOOLEAN /\ Cardinality(H) \in Nat /\ Cardinality(T) \in Nat
  BY <1>10 DEF PrefaceTo
<1>13. SectionsAre(Finished(read[n]), Cardinality(H), Cardinality(T), PrefaceTo(paragraphs, n), MediaTo(paragraphs, n))
  BY <1>11, <1>12, FinishedIs
<1>14. DocumentSections(paragraphs) = Finished(read[n])
  BY DocumentIs DEF n, read
<1> QED BY <1>13, <1>14 DEF H, T, n, Preface
\* Every section of a document is one part of text, and its images.
NoneLarge(sections) == \A s \in DOMAIN sections : ~TooLarge(FALSE, sections[s].rows)
UnitsIn(all) == {i \in DOMAIN all : all[i].kind = "units"}
ImagesIn(all) == {i \in DOMAIN all : all[i].kind = "image"}

LEMMA OneText ==
  ASSUME NEW sheets \in BOOLEAN, ~sheets, NEW sections, Filled(sections), NoneLarge(sections), NEW s \in 1..Len(sections)
  PROVE  /\ TextOf(sheets, sections, s) = <<Units(1, Len(sections[s].rows), 0)>>
         /\ TextLen(sheets, sections, s) = 1
<1>1. sections[s].rows # <<>> /\ ~TooLarge(FALSE, sections[s].rows)
  <2>1. s \in DOMAIN sections
    BY DEF Filled
  <2> QED BY <2>1 DEF Filled, NoneLarge
<1>2. SlideText(sections[s].rows) # Refused
  BY <1>1 DEF TooLarge, SectionText
<1>3. SlideText(sections[s].rows) = <<Units(1, Len(sections[s].rows), 0)>>
  BY <1>2 DEF SlideText
<1>4. TextOf(sheets, sections, s) = <<Units(1, Len(sections[s].rows), 0)>>
  BY <1>3 DEF TextOf, SectionText
<1> QED BY <1>4 DEF TextLen

LEMMA TextsTogether ==
  ASSUME NEW sheets \in BOOLEAN, ~sheets, NEW sections, Filled(sections), NoneLarge(sections)
  PROVE  LET all == Together(sheets, sections)
             text == Picked(all, UnitsIn(all))
         IN  /\ text \in Seq(AnyPart) /\ Len(text) = Len(sections)
             /\ \A s \in 1..Len(sections) : text[s] = [Units(1, Len(sections[s].rows), 0) EXCEPT !.of = s]
             /\ Cardinality(UnitsIn(all)) = Len(sections)
<1> DEFINE all == Together(sheets, sections)
           seqs == AllParts(sheets, sections)
           m == Len(sections)
           e == [s \in 1..m |-> Place(seqs, s, 1)]
           text == Picked(all, UnitsIn(all))
<1>0. sections \in Seq(SectionSet) /\ m \in Nat
  BY DEF Filled
<1>1. /\ seqs \in Seq(Seq(AnyPart)) /\ Len(seqs) = m
      /\ \A t \in 1..m : SectionIs(sheets, sections, t, seqs[t])
      /\ Laid(AnyPart, seqs, all)
  BY <1>0, TogetherLaid
<1>2. \A t \in 1..m : TextOf(sheets, sections, t) = <<Units(1, Len(sections[t].rows), 0)>>
                      /\ TextLen(sheets, sections, t) = 1
  BY OneText
<1> HIDE DEF seqs, all, m
<1>3. ASSUME NEW t \in 1..m
      PROVE  /\ 1 \in 1..Len(seqs[t]) /\ Len(seqs[t]) \in Nat
             /\ seqs[t][1] = [Units(1, Len(sections[t].rows), 0) EXCEPT !.of = t]
             /\ seqs[t][1].kind = "units"
             /\ \A k \in 2..Len(seqs[t]) : seqs[t][k].kind = "image"
  <2>0. TextOf(sheets, sections, t) = <<Units(1, Len(sections[t].rows), 0)>>
    BY <1>2
  <2>1. /\ SectionIs(sheets, sections, t, seqs[t]) /\ TextLen(sheets, sections, t) = 1
        /\ TextOf(sheets, sections, t)[1] = Units(1, Len(sections[t].rows), 0)
    BY <1>1, <1>2, <2>0
  <2>2. 1 \in 0..Len(seqs[t]) /\ Len(seqs[t]) \in Nat
    <3>1. TextLen(sheets, sections, t) \in 0..Len(seqs[t]) /\ seqs[t] \in Seq(AnyPart)
      BY <2>1 DEF SectionIs
    <3> QED BY <2>1, <3>1
  <2>3. 1 \in 1..1 /\ 1 + 1 = 2
    OBVIOUS
  <2>4. seqs[t][1].kind = "units" /\ seqs[t][1] = [TextOf(sheets, sections, t)[1] EXCEPT !.of = t]
    BY <2>1, <2>3 DEF SectionIs
  <2>5. \A k \in 2..Len(seqs[t]) : seqs[t][k].kind = "image"
    BY <2>1, <2>3 DEF SectionIs
  <2>6. 1 \in 1..Len(seqs[t])
    BY <2>2
  <2> QED BY <2>1, <2>2, <2>4, <2>5, <2>6
<1>4. all \in Seq(AnyPart) /\ DOMAIN all = 1..Len(all) /\ Len(all) \in Nat
  BY <1>1 DEF Laid
<1>5. ASSUME NEW t \in 1..m
      PROVE  e[t] \in 1..Len(all) /\ all[e[t]] = seqs[t][1] /\ all[e[t]].kind = "units"
  <2>0. t \in 1..Len(seqs) /\ 1 \in 1..Len(seqs[t])
    BY <1>1, <1>3
  <2>1. Place(seqs, t, 1) \in 1..Len(all) /\ all[Place(seqs, t, 1)] = seqs[t][1]
    BY <1>1, <2>0, LaidAt
  <2> QED BY <1>3, <2>1
<1>6. Rising(e, m, Len(all))
  <2>1. ASSUME NEW j \in 1..m, NEW k \in 1..m, j < k PROVE e[j] < e[k]
    BY <1>1, <1>3, <2>1, PlaceOrder
  <2>2. e \in [1..m -> 1..Len(all)]
    BY <1>5
  <2> QED BY <2>1, <2>2 DEF Rising
<1>7. ASSUME NEW i \in 1..Len(all), all[i].kind = "units" PROVE \E t \in 1..m : i = e[t]
  <2>1. PICK t \in 1..m : \E k \in 1..Len(seqs[t]) : i = Place(seqs, t, k)
    BY <1>1 DEF Laid
  <2>2. PICK k \in 1..Len(seqs[t]) : i = Place(seqs, t, k)
    BY <2>1
  <2>3. all[i] = seqs[t][k]
    BY <1>1, <2>2 DEF Laid
  <2>4. k \notin 2..Len(seqs[t])
    BY <1>3, <1>7, <2>3
  <2>5. k = 1
    BY <1>3, <2>4
  <2> QED BY <2>2, <2>5
<1> HIDE DEF e
<1>8. PlacesIn(all, UnitsIn(all)) = Those(e, m) /\ UnitsIn(all) = PlacesIn(all, UnitsIn(all))
  BY <1>4, <1>5, <1>7 DEF PlacesIn, UnitsIn, Those
<1>9. text = [t \in 1..m |-> all[e[t]]]
  BY <1>0, <1>4, <1>6, <1>8, PickedIs DEF m
<1>10. text \in Seq(AnyPart) /\ Len(text) = m
  <2>1. \A t \in 1..m : all[e[t]] \in AnyPart
    BY <1>4, <1>5
  <2> HIDE DEF text
  <2>2. m \in Nat
    BY <1>0 DEF m
  <2> QED BY <1>9, <2>1, <2>2
<1>11. \A t \in 1..m : text[t] = [Units(1, Len(sections[t].rows), 0) EXCEPT !.of = t]
  BY <1>3, <1>5, <1>9
<1>12. Cardinality(UnitsIn(all)) = m
  <2>1. Len(text) = Cardinality(PlacesIn(all, UnitsIn(all)))
    BY <1>4, PickedFacts
  <2> QED BY <1>8, <1>10, <2>1
<1> QED BY <1>10, <1>11, <1>12 DEF all, m, text

LEMMA ImagesCounted ==
  ASSUME NEW sheets \in BOOLEAN, NEW sections \in Seq(SectionSet)
  PROVE  LET all == Together(sheets, sections)
         IN  /\ Cardinality(ImagesIn(all)) = Cardinality(MediaIn(sections))
             /\ Len(all) = Cardinality(UnitsIn(all)) + Cardinality(ImagesIn(all))
             /\ Cardinality(UnitsIn(all)) \in Nat /\ Cardinality(ImagesIn(all)) \in Nat
<1> DEFINE all == Together(sheets, sections)
           n == Len(all)
           I == ImagesIn(all)
           U == UnitsIn(all)
           M == MediaIn(sections)
           shows == [i \in I |-> Media(sections, all[i])]
<1>1. all \in Seq(AnyPart) /\ DOMAIN all = 1..n /\ n \in Nat
  <2>1. Laid(AnyPart, AllParts(sheets, sections), all)
    BY TogetherLaid
  <2> HIDE DEF all
  <2> QED BY <2>1 DEF Laid
<1>2. I \cup U = 1..n /\ I \cap U = {} /\ I \subseteq 1..n /\ U \subseteq 1..n
  <2>1. \A i \in 1..n : all[i].kind \in {"units", "image"}
    <3> SUFFICES ASSUME NEW i \in 1..n PROVE all[i].kind \in {"units", "image"}
      OBVIOUS
    <3> HIDE DEF all
    <3>1. all[i] \in AnyPart
      BY <1>1
    <3> QED BY <3>1 DEF AnyPart
  <2> HIDE DEF all, n
  <2> QED BY <1>1, <2>1 DEF ImagesIn, UnitsIn
<1>3. IsFiniteSet(1..n) /\ Cardinality(1..n) = n
  <2> HIDE DEF n
  <2>1. 0 \in Int /\ 1 \in Int /\ n \in Int /\ (1 > n => n = 0)
    BY <1>1
  <2> QED BY <2>1, FS_Interval
<1>4. IsFiniteSet(I) /\ IsFiniteSet(U)
  <2> HIDE DEF I, U, n
  <2> QED BY <1>2, <1>3, FS_Subset
<1>5. /\ n = Cardinality(U) + Cardinality(I) /\ Cardinality(I) \in Nat /\ Cardinality(U) \in Nat
  <2> HIDE DEF I, U, n
  <2>1. Cardinality(I) \in Nat /\ Cardinality(U) \in Nat
    BY <1>4, FS_CardinalityType
  <2>2. Cardinality({}) = 0
    BY FS_EmptySet
  <2>3. Cardinality(I \cup U) = Cardinality(I) + Cardinality(U) - Cardinality(I \cap U)
    BY <1>4, FS_Union
  <2>4. n = Cardinality(I) + Cardinality(U) - 0
    BY <1>2, <1>3, <2>2, <2>3
  <2> QED BY <2>1, <2>4
<1>6. \A i \in I : shows[i] \in M
  <2> SUFFICES ASSUME NEW i \in I PROVE Media(sections, all[i]) \in M
    OBVIOUS
  <2>0. i \in 1..n /\ all[i].kind = "image"
    BY <1>1 DEF ImagesIn
  <2>1. PICK s \in 1..Len(sections) : \E k \in 1..Len(AllParts(sheets, sections)[s]) :
                                         TogetherIs(sheets, sections, all, i, s, k)
    BY <2>0, TogetherAt
  <2>2. PICK k \in 1..Len(AllParts(sheets, sections)[s]) : TogetherIs(sheets, sections, all, i, s, k)
    BY <2>1
  <2> HIDE DEF all
  <2>3. TextLen(sheets, sections, s) \in Nat /\ k \in Nat
    <3> DEFINE p == AllParts(sheets, sections)[s]
               x == TextLen(sheets, sections, s)
    <3>1. SectionIs(sheets, sections, s, p)
      BY TogetherLaid
    <3>2. k \in 1..Len(p)
      OBVIOUS
    <3> HIDE DEF p
    <3>3. x \in 0..Len(p) /\ p \in Seq(AnyPart)
      BY <3>1 DEF SectionIs
    <3> HIDE DEF x
    <3>4. x \in Nat /\ k \in Nat
      BY <3>2, <3>3
    <3> QED BY <3>4 DEF x
  <2>4. k > TextLen(sheets, sections, s)
    <3>1. ~(k <= TextLen(sheets, sections, s))
      BY <2>0, <2>2 DEF TogetherIs
    <3> QED BY <2>3, <3>1
  <2>5. all[i].of = s /\ all[i].first \in NewImages(sections, s)
    BY <2>2, <2>4 DEF TogetherIs
  <2>6. all[i].first \in DOMAIN sections[s].images /\ s \in DOMAIN sections
    BY <2>5 DEF NewImages
  <2>7. Media(sections, all[i]) \in ToSet(sections[s].images)
    BY <2>5, <2>6 DEF Media, ToSet
  <2> QED BY <2>6, <2>7 DEF MediaIn
<1>7. \A m \in M : \E i \in I : shows[i] = m
  <2> SUFFICES ASSUME NEW m \in M PROVE \E i \in I : shows[i] = m
    OBVIOUS
  <2>1. PICK s \in DOMAIN sections : m \in ToSet(sections[s].images)
    BY DEF MediaIn
  <2>0. \E i \in DOMAIN all : all[i].kind = "image" /\ Media(sections, all[i]) = m /\ all[i].of <= s
    BY <2>1, MediaShown
  <2>2. PICK i \in DOMAIN all : all[i].kind = "image" /\ Media(sections, all[i]) = m
    <3> HIDE DEF all
    <3> QED BY <2>0
  <2>3. i \in I
    BY <2>2 DEF ImagesIn
  <2> QED BY <2>2, <2>3
<1>8. \A i, j \in I : shows[i] = shows[j] => i = j
  <2> SUFFICES ASSUME NEW i \in I, NEW j \in I, Media(sections, all[i]) = Media(sections, all[j]) PROVE i = j
    OBVIOUS
  <2>1. i \in 1..n /\ all[i].kind = "image" /\ j \in 1..n /\ all[j].kind = "image"
    BY <1>1 DEF ImagesIn
  <2> QED BY <2>1, MediaOnce
<1> HIDE DEF I, M, shows
<1>9. DOMAIN shows = I
  BY DEF shows
<1>10. shows \in [I -> M]
  BY <1>6 DEF shows
<1>11. shows \in Bijection(I, M)
  BY <1>7, <1>8, <1>9, <1>10 DEF Bijection, Injection, Surjection, IsInjective
<1>12. Cardinality(M) = Cardinality(I)
  BY <1>4, <1>11, FS_Bijection DEF ExistsBijection
<1> QED BY <1>5, <1>12 DEF I, M
LEMMA PrefaceMeans ==
  ASSUME NEW paragraphs \in Seq(ParagraphSet)
  PROVE  LET before == {i \in DOMAIN paragraphs : \A h \in HeadingsOf(paragraphs) : i < h}
         IN  Preface(paragraphs) <=> \E i \in before : paragraphs[i].text # 0 \/ paragraphs[i].images # <<>>
<1> DEFINE n == Len(paragraphs)
           H == HeadingsOf(paragraphs)
           before == {i \in DOMAIN paragraphs : \A h \in H : i < h}
<1>1. n \in Nat /\ DOMAIN paragraphs = 1..n
  OBVIOUS
<1>2. \A j \in 1..n : j \in H <=> BeginsAt(paragraphs, j)
  BY DEF HeadingsOf
<1>3. H \subseteq 1..n
  BY DEF HeadingsOf
<1> HIDE DEF n, H
<1>4. ASSUME NEW k \in 1..n
      PROVE  k \in before <=> \A j \in 1..k : ~BeginsAt(paragraphs, j)
  <2>1. ASSUME k \in before, NEW j \in 1..k, BeginsAt(paragraphs, j) PROVE FALSE
    <3>1. j \in 1..n
      BY <1>1
    <3>2. k < j
      BY <1>2, <2>1, <3>1
    <3> QED BY <1>1, <3>2
  <2>2. ASSUME \A j \in 1..k : ~BeginsAt(paragraphs, j), NEW h \in H PROVE k < h
    <3>1. h \in 1..n /\ BeginsAt(paragraphs, h)
      BY <1>2, <1>3
    <3>2. h \notin 1..k
      BY <2>2, <3>1
    <3> QED BY <1>1, <3>1, <3>2
  <2> QED BY <1>1, <2>1, <2>2
<1>5. before \subseteq 1..n
  BY <1>1
<1> HIDE DEF before
<1>6. Preface(paragraphs) <=> \E k \in 1..n : (\A j \in 1..k : ~BeginsAt(paragraphs, j)) /\ Shows(paragraphs[k])
  BY DEF Preface, PrefaceTo, n
<1>7. Preface(paragraphs) <=> \E k \in before : Shows(paragraphs[k])
  BY <1>4, <1>5, <1>6
<1> QED BY <1>7 DEF Shows, before, H

LEMMA DocumentText ==
  ASSUME NEW sections, Filled(sections), NEW text \in Seq(AnyPart), Len(text) = Len(sections),
         \A s \in 1..Len(sections) : text[s] = [Units(1, Len(sections[s].rows), 0) EXCEPT !.of = s]
  PROVE  Size([k \in DOMAIN text |-> UnitsOfPart(text[k])], 1, Len(text)) = RowTotal(sections)
<1> DEFINE f == RowCounts(sections)
           g == [k \in DOMAIN text |-> UnitsOfPart(text[k])]
           m == Len(sections)
<1>1. sections \in Seq(SectionSet) /\ m \in Nat /\ DOMAIN sections = 1..m /\ DOMAIN text = 1..m
  BY DEF Filled
<1>2. ASSUME NEW k \in 1..m PROVE f[k] \in Nat /\ f[k] = g[k]
  <2>1. sections[k] \in SectionSet
    BY <1>1
  <2>2. f[k] = Len(sections[k].rows) /\ f[k] \in Nat
    BY <1>1, <2>1 DEF RowCounts, SectionSet
  <2>3. text[k].first = 1 /\ text[k].last = Len(sections[k].rows)
    BY DEF Units
  <2>4. g[k] = Len(sections[k].rows) - 1 + 1
    BY <1>1, <2>3 DEF UnitsOfPart
  <2> QED BY <2>2, <2>4
<1>4. 1 \in Int /\ m \in Int
  BY <1>1
<1> HIDE DEF f, g, m
<1>3. Size(g, 1, m) = Size(f, 1, m)
  <2>1. \A k \in 1..m : f[k] \in Nat
    BY <1>2
  <2>2. \A k \in 1..m : f[k] = g[k]
    BY <1>2
  <2>3. \A w : (\A k \in 1..m : f[k] = w[k]) => Size(w, 1, m) = Size(f, 1, m)
    BY <1>4, <2>1, SizeFacts
  <2> QED BY <2>2, <2>3
<1> QED BY <1>3 DEF f, g, m, RowTotal

(* Documents (_prepare_docx): as many texts as there are headings, and   *)
(* one for what comes before the first, with every paragraph in one of   *)
(* them and every picture once.                                          *)
THEOREM DocumentCovers ==
  ASSUME NEW sheets \in BOOLEAN, ~sheets, NEW paragraphs \in Seq(ParagraphSet)
  PROVE  LET parts == OfficeParts(sheets, DocumentSections(paragraphs))
         IN  DocumentCovered(paragraphs, parts) /\ parts \in Seq(AnyPart)
<1> DEFINE sections == DocumentSections(paragraphs)
           parts == OfficeParts(sheets, sections)
           all == Together(sheets, sections)
           n == Len(paragraphs)
           h == Cardinality(HeadingsOf(paragraphs))
           t == Cardinality(TextsOf(paragraphs))
           media == MediaTo(paragraphs, n)
           u == One(Preface(paragraphs))
           text == Picked(all, UnitsIn(all))
<1>1. /\ Filled(sections) /\ MediaIn(sections) = media
      /\ Len(sections) = h + u /\ RowTotal(sections) = t + u
  BY DocumentFacts DEF SectionsAre
<1> HIDE DEF sections
<1>2. sections \in Seq(SectionSet)
  BY <1>1 DEF Filled
<1>3. parts \in Seq(AnyPart)
  BY <1>2, OfficeCovers
<1>4. parts # Refused => parts = all /\ Len(all) <= MaxOutput /\ NoneLarge(sections)
  <2>1. parts = IF (\E s \in DOMAIN sections : TooLarge(sheets, sections[s].rows)) \/ Len(all) > MaxOutput
                THEN Refused ELSE all
    BY DEF OfficeParts, Together, AllParts
  <2>2. Len(all) \in Nat /\ MaxOutput \in Nat
    <3>1. Laid(AnyPart, AllParts(sheets, sections), all)
      BY <1>2, TogetherLaid
    <3> HIDE DEF all
    <3> QED BY <3>1, SourcePartsAssumption DEF Laid, Positive
  <2>3. \A rows : TooLarge(FALSE, rows) = TooLarge(sheets, rows)
    BY DEF TooLarge, SectionText
  <2> HIDE DEF parts, all
  <2>4. ASSUME parts # Refused PROVE parts = all /\ Len(all) <= MaxOutput /\ NoneLarge(sections)
    <3>1. ~(Len(all) > MaxOutput) /\ parts = all
          /\ \A s \in DOMAIN sections : ~TooLarge(sheets, sections[s].rows)
      BY <2>1, <2>4
    <3>2. Len(all) <= MaxOutput
      BY <2>2, <3>1
    <3>3. \A s \in DOMAIN sections : ~TooLarge(FALSE, sections[s].rows)
      BY <2>3, <3>1
    <3> QED BY <3>1, <3>2, <3>3 DEF NoneLarge
  <2> QED BY <2>4
<1> HIDE DEF parts, all
<1>5. ASSUME parts # Refused PROVE DocumentCovered(paragraphs, all)
  <2>1. NoneLarge(sections) /\ Len(all) <= MaxOutput
    BY <1>4, <1>5
  <2>2. /\ text \in Seq(AnyPart) /\ Len(text) = Len(sections)
        /\ \A s \in 1..Len(sections) : text[s] = [Units(1, Len(sections[s].rows), 0) EXCEPT !.of = s]
        /\ Cardinality(UnitsIn(all)) = Len(sections)
    BY <1>1, <2>1, TextsTogether DEF all
  <2>3. /\ Cardinality(ImagesIn(all)) = Cardinality(MediaIn(sections))
        /\ Len(all) = Cardinality(UnitsIn(all)) + Cardinality(ImagesIn(all))
        /\ Cardinality(UnitsIn(all)) \in Nat /\ Cardinality(ImagesIn(all)) \in Nat
    BY <1>2, ImagesCounted DEF all
  <2> HIDE DEF text, h, t, u, media, n
  <2>4. Size([k \in DOMAIN text |-> UnitsOfPart(text[k])], 1, Len(text)) = t + u
    BY <1>1, <2>2, DocumentText
  <2>5. Len(text) = h + u /\ Len(all) - Len(text) = Cardinality(media)
    <3> DEFINE a == Cardinality(UnitsIn(all))
               b == Cardinality(ImagesIn(all))
    <3>1. a \in Nat /\ b \in Nat /\ Len(all) = a + b /\ Len(text) = a /\ b = Cardinality(media) /\ a = h + u
      BY <1>1, <2>2, <2>3
    <3> HIDE DEF a, b
    <3>2. (a + b) - a = b
      BY <3>1
    <3> QED BY <3>1, <3>2
  <2> DEFINE H == {i \in DOMAIN paragraphs : paragraphs[i].heading /\ paragraphs[i].text # 0}
             before == {i \in DOMAIN paragraphs : \A g \in H : i < g}
             preface == \E i \in before : paragraphs[i].text # 0 \/ paragraphs[i].images # <<>>
  <2>6. H = HeadingsOf(paragraphs)
    BY DEF HeadingsOf, BeginsAt
  <2>7. preface <=> Preface(paragraphs)
    BY <2>6, PrefaceMeans
  <2>8. u = IF preface THEN 1 ELSE 0
    <3> HIDE DEF preface
    <3> QED BY <2>7 DEF u, One
  <2>9. media = UNION {ToSet(paragraphs[i].images) : i \in DOMAIN paragraphs}
    <3>1. DOMAIN paragraphs = 1..n
      BY DEF n
    <3> QED BY <3>1 DEF media, MediaTo
  <2>10. t = Cardinality({i \in DOMAIN paragraphs : paragraphs[i].text # 0}) /\ h = Cardinality(H)
    BY <2>6 DEF t, h, TextsOf
  <2> DEFINE Text == Picked(all, {i \in DOMAIN all : all[i].kind = "units"})
  <2>11. text = Text
    BY DEF text, UnitsIn
  <2>12. /\ Len(all) <= MaxOutput /\ Len(Text) = Cardinality(H) + (IF preface THEN 1 ELSE 0)
         /\ Len(all) - Len(Text) = Cardinality(UNION {ToSet(paragraphs[i].images) : i \in DOMAIN paragraphs})
         /\ Size([k \in DOMAIN Text |-> UnitsOfPart(Text[k])], 1, Len(Text))
               = Cardinality({i \in DOMAIN paragraphs : paragraphs[i].text # 0}) + (IF preface THEN 1 ELSE 0)
    BY <2>1, <2>4, <2>5, <2>8, <2>9, <2>10, <2>11
  <2> QED BY <2>12 DEF DocumentCovered
<1>6. parts = Refused => DocumentCovered(paragraphs, parts)
  BY DEF DocumentCovered
<1> QED BY <1>3, <1>4, <1>5, <1>6 DEF parts, sections
(***************************************************************************)
(* The parts of any source make it up.                                     *)
(***************************************************************************)
Whole(d) == Rejoins(d, PartsOf(d)) /\ PartsOf(d) \in Seq(AnyPart)

LEMMA SetsNamed == Sections = Seq(SectionSet) /\ Paragraphs = Seq(ParagraphSet) /\ Members = Seq(MemberSet)
BY DEF Sections, SectionSet, Paragraphs, ParagraphSet, Members, MemberSet

LEMMA RefusedTyped == Refused \in Seq(AnyPart) /\ Refused \in Seq(TextPart)
BY DEF Refused

LEMMA OverlapSmall == Overlap \in 0..2 /\ 0 \in 0..2
BY DEF Overlap

LEMMA WholeText ==
  ASSUME NEW d \in [format : {"text"}, lines : Seq(Positive)]
  PROVE  Whole(d)
<1>1. d.format = "text" /\ d.lines \in Seq(Positive)
  OBVIOUS
<1>2. PartsOf(d) = Packed(d.lines, Overlap)
  BY <1>1 DEF PartsOf, TextParts
<1>3. Covers(d.lines, Packed(d.lines, Overlap), Overlap) /\ Packed(d.lines, Overlap) \in Seq(TextPart)
  BY <1>1, PackedCovers, OverlapSmall
<1>4. Rejoins(d, PartsOf(d)) = Covers(d.lines, PartsOf(d), Overlap)
  BY <1>1 DEF Rejoins
<1> QED BY <1>2, <1>3, <1>4, TextIsAny DEF Whole

LEMMA WholeStructured ==
  ASSUME NEW d \in [format : {"structured"}, parses : BOOLEAN, lines : Seq(Positive)]
  PROVE  Whole(d)
<1> DEFINE Readable == d.parses /\ Size(d.lines, 1, Len(d.lines)) <= 4 * MaxPart
<1>1. d.format = "structured" /\ d.lines \in Seq(Positive)
  OBVIOUS
<1>2. PartsOf(d) = IF Readable THEN Packed(d.lines, Overlap) ELSE Refused
  BY <1>1 DEF PartsOf, StructuredParts, TextParts
<1>3. Covers(d.lines, Packed(d.lines, Overlap), Overlap) /\ Packed(d.lines, Overlap) \in Seq(TextPart)
  BY <1>1, PackedCovers, OverlapSmall
<1>4. Rejoins(d, PartsOf(d)) = IF Readable THEN Covers(d.lines, PartsOf(d), Overlap) ELSE PartsOf(d) = Refused
  BY <1>1 DEF Rejoins
<1> HIDE DEF Readable
<1> QED BY <1>2, <1>3, <1>4, TextIsAny, RefusedTyped DEF Whole

LEMMA WholeTabular ==
  ASSUME NEW d \in [format : {"tabular"}, tokens : Seq(Tokens)]
  PROVE  Whole(d)
<1>1. d.format = "tabular" /\ d.tokens \in Seq(Tokens)
  OBVIOUS
<1>2. PartsOf(d) = TabularParts(d.tokens)
  BY <1>1 DEF PartsOf
<1>3. TableCovered(d.tokens, TabularParts(d.tokens)) /\ TabularParts(d.tokens) \in Seq(TextPart)
  BY <1>1, TabularCovered
<1>4. Rejoins(d, PartsOf(d)) = TableCovered(d.tokens, PartsOf(d))
  BY <1>1 DEF Rejoins
<1> QED BY <1>2, <1>3, <1>4, TextIsAny DEF Whole

LEMMA WholePdf ==
  ASSUME NEW d \in [format : {"pdf"}, pages : Seq(Positive)]
  PROVE  Whole(d)
<1>1. d.format = "pdf" /\ d.pages \in Seq(Positive)
  OBVIOUS
<1>2. PartsOf(d) = PdfParts(d.pages)
  BY <1>1 DEF PartsOf
<1>3. PagesCovered(d.pages, PdfParts(d.pages)) /\ PdfParts(d.pages) \in Seq(TextPart)
  BY <1>1, PdfCovered
<1>4. Rejoins(d, PartsOf(d)) = PagesCovered(d.pages, PartsOf(d))
  BY <1>1 DEF Rejoins
<1> QED BY <1>2, <1>3, <1>4, TextIsAny DEF Whole

LEMMA WholeImage ==
  ASSUME NEW d \in [format : {"image"}, animated : BOOLEAN, frames : Positive]
  PROVE  Whole(d)
<1>1. d.format = "image" /\ d.animated \in BOOLEAN /\ d.frames \in Positive
  OBVIOUS
<1>2. PartsOf(d) = ImageParts(d.animated, d.frames)
  BY <1>1 DEF PartsOf
<1>3. /\ FramesChosen(d.animated, d.frames, ImageParts(d.animated, d.frames))
      /\ ImageParts(d.animated, d.frames) \in Seq(ImagePart)
  BY <1>1, ImageChosen
<1>4. Rejoins(d, PartsOf(d)) = FramesChosen(d.animated, d.frames, PartsOf(d))
  BY <1>1 DEF Rejoins
<1> QED BY <1>2, <1>3, <1>4, TextIsAny DEF Whole

LEMMA WholeSlides ==
  ASSUME NEW d \in [format : {"slides", "sheets"}, sections : Sections]
  PROVE  Whole(d)
<1> DEFINE sheets == d.format = "sheets"
<1>1. d.format \in {"slides", "sheets"} /\ d.sections \in Seq(SectionSet) /\ sheets \in BOOLEAN
  BY SetsNamed
<1>2. PartsOf(d) = OfficeParts(sheets, d.sections)
  <2>1. CASE d.format = "slides"
    BY <2>1 DEF PartsOf
  <2>2. CASE d.format = "sheets"
    BY <2>2 DEF PartsOf
  <2> QED BY <1>1, <2>1, <2>2
<1>3. Rejoins(d, PartsOf(d)) = OfficeCovered(sheets, d.sections, PartsOf(d))
  <2>1. CASE d.format = "slides"
    BY <2>1 DEF Rejoins
  <2>2. CASE d.format = "sheets"
    BY <2>2 DEF Rejoins
  <2> QED BY <1>1, <2>1, <2>2
<1> HIDE DEF sheets
<1>4. /\ OfficeCovered(sheets, d.sections, OfficeParts(sheets, d.sections))
      /\ OfficeParts(sheets, d.sections) \in Seq(AnyPart)
  BY <1>1, OfficeCovers
<1> QED BY <1>2, <1>3, <1>4 DEF Whole

LEMMA WholeDocument ==
  ASSUME NEW d \in [format : {"document"}, paragraphs : Paragraphs]
  PROVE  Whole(d)
<1>1. d.format = "document" /\ d.paragraphs \in Seq(ParagraphSet)
  BY SetsNamed
<1> DEFINE parts(sheets) == OfficeParts(sheets, DocumentSections(d.paragraphs))
<1>2. PartsOf(d) = parts(FALSE)
  BY <1>1 DEF PartsOf
<1>3. \A sheets \in BOOLEAN :
         ~sheets => DocumentCovered(d.paragraphs, parts(sheets)) /\ parts(sheets) \in Seq(AnyPart)
  BY <1>1, DocumentCovers
<1> HIDE DEF parts
<1>4. DocumentCovered(d.paragraphs, parts(FALSE)) /\ parts(FALSE) \in Seq(AnyPart)
  BY <1>3
<1>5. Rejoins(d, PartsOf(d)) = DocumentCovered(d.paragraphs, PartsOf(d))
  BY <1>1 DEF Rejoins
<1> QED BY <1>2, <1>4, <1>5 DEF Whole

LEMMA WholeLegacy ==
  ASSUME NEW d \in [format : {"legacy"}, converted : BOOLEAN, sections : Sections]
  PROVE  Whole(d)
<1>1. d.format = "legacy" /\ d.sections \in Seq(SectionSet) /\ d.converted \in BOOLEAN
  BY SetsNamed
<1>2. PartsOf(d) = IF d.converted THEN OfficeParts(FALSE, d.sections) ELSE Refused
  BY <1>1 DEF PartsOf, LegacyParts
<1>3. /\ OfficeCovered(FALSE, d.sections, OfficeParts(FALSE, d.sections))
      /\ OfficeParts(FALSE, d.sections) \in Seq(AnyPart)
  BY <1>1, OfficeCovers
<1>4. Rejoins(d, PartsOf(d))
         = ((~d.converted /\ PartsOf(d) = Refused) \/ OfficeCovered(FALSE, d.sections, PartsOf(d)))
  BY <1>1 DEF Rejoins
<1> QED BY <1>2, <1>3, <1>4, RefusedTyped DEF Whole

LEMMA WholeArchive ==
  ASSUME NEW d \in [format : {"archive"}, members : Members, previews : Distinct(Positive)],
         ToSet(d.previews) \subseteq DOMAIN d.members
  PROVE  Whole(d)
<1>1. d.format = "archive" /\ d.members \in Seq(MemberSet) /\ d.previews \in Distinct(Positive)
  BY SetsNamed
<1>2. PartsOf(d) = ArchiveParts(d.members, d.previews)
  BY <1>1 DEF PartsOf
<1>3. /\ MembersCovered(d.members, d.previews, ArchiveParts(d.members, d.previews))
      /\ ArchiveParts(d.members, d.previews) \in Seq(AnyPart)
  BY <1>1, ArchiveCovers
<1>4. Rejoins(d, PartsOf(d)) = MembersCovered(d.members, d.previews, PartsOf(d))
  BY <1>1 DEF Rejoins
<1> QED BY <1>2, <1>3, <1>4 DEF Whole

(* Any source, of any format and size, with any bounds on the parts.       *)
LEMMA SourceParted ==
  ASSUME NEW d \in Sources
  PROVE  Rejoins(d, PartsOf(d)) /\ Ranked(PartsOf(d), Prepared(d)) /\ PartsOf(d) \in Seq(AnyPart)
<1>1. Whole(d)
  BY WholeText, WholeStructured, WholeTabular, WholePdf, WholeImage, WholeSlides, WholeDocument,
     WholeLegacy, WholeArchive DEF Sources
<1>2. Ranked(PartsOf(d), Prepared(d))
  BY <1>1, RankedPrepared DEF Whole
<1> QED BY <1>1, <1>2 DEF Whole

\* What a plan of d has in the order of the source is all of d.
Rejoined(d) ==
    LET parts == Prepared(d)
        whole == [i \in DOMAIN parts |-> (CHOOSE p \in ToSet(parts) : p.ordinal = i - 1).part]
    IN  Rejoins(d, whole)

LEMMA PlanRejoined ==
  ASSUME NEW d \in Sources
  PROVE  Rejoined(d)
<1> DEFINE parts == PartsOf(d)
           ranked == Prepared(d)
           n == Len(parts)
           of(i) == CHOOSE p \in ToSet(ranked) : p.ordinal = i - 1
           whole == [i \in DOMAIN ranked |-> of(i).part]
<1>1. Rejoins(d, parts) /\ Ranked(parts, ranked) /\ parts \in Seq(AnyPart) /\ DOMAIN ranked = 1..n
  BY SourceParted, RankedPrepared
<1> HIDE DEF parts, ranked, n
<1>2. {r.ordinal : r \in ToSet(ranked)} = 0..n - 1 /\ n \in Nat /\ parts = [i \in 1..n |-> parts[i]]
  BY <1>1 DEF Ranked, n
<1>3. ASSUME NEW i \in 1..n PROVE of(i).part = parts[i]
  <2>1. i - 1 \in 0..n - 1 /\ (i - 1) + 1 = i
    BY <1>2
  <2>2. \E p \in ToSet(ranked) : p.ordinal = i - 1
    BY <1>2, <2>1
  <2>3. of(i) \in ToSet(ranked) /\ of(i).ordinal = i - 1
    BY <2>2
  <2> HIDE DEF of
  <2>4. of(i).part = parts[of(i).ordinal + 1]
    BY <1>1, <2>3 DEF Ranked
  <2> QED BY <2>1, <2>3, <2>4
<1> HIDE DEF of
<1>4. whole = parts
  BY <1>1, <1>2, <1>3
<1>5. Rejoins(d, whole)
  BY <1>1, <1>4
<1> QED BY <1>5 DEF Rejoined, ranked, of

(* The parts of any source make it up, whatever its format and its size    *)
(* and however small a part has to be (SourcePartPreparer.prepare): the    *)
(* references of SourceParts, which say so without the algorithms, hold of *)
(* what the algorithms make of it, and every part has a rank of its own.   *)
THEOREM PartsMakeUpSource == Spec => []PartsRejoin
<1>1. PartsRejoin
  BY SourceParted, SourcePartsAssumption DEF PartsRejoin
<1>2. QED BY <1>1, PTL

(* What is sent of a source is all of what the user approved of it, and  *)
(* nothing else: the bytes are those of the approval in force, however   *)
(* the folder changes meanwhile (authorize, open_approved, prepare), and *)
(* the parts of the plan make them up.                                   *)
THEOREM OnlyApprovedSent == Spec => []SentApproved
<1>1. SentBytes => SentApproved
  <2> SUFFICES ASSUME SentBytes, NEW t \in Threads, th[t].pc \in {"prepare", "planned"}
               PROVE  LET approvedBytes == approval.hashes[Source(t)]
                      IN  /\ AuthorityMatches(t) /\ Source(t) \in Included(approved.entries)
                          /\ th[t].bytes = approvedBytes
                          /\ th[t].pc = "planned" =>
                               LET whole == [i \in DOMAIN th[t].parts |->
                                   (CHOOSE p \in ToSet(th[t].parts) : p.ordinal = i - 1).part]
                               IN  Rejoins(approvedBytes, whole)
    BY DEF SentApproved
  <2>1. th[t].bytes \in Sources
    BY SourceAuthorityAssumption, SourcePartsAssumption DEF SentBytes
  <2>2. Rejoined(th[t].bytes)
    BY <2>1, PlanRejoined
  <2>3. QED BY <2>2 DEF SentBytes, Rejoined
<1>2. QED BY <1>1, SentFromInv, InvariantHolds, PTL
=============================================================================
