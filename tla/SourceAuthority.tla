---------------------------- MODULE SourceAuthority ----------------------------
(* What of a course folder may be read and sent.  A scan drafts a revision  *)
(* of the manifest; the user edits the draft and approves it; the Worker    *)
(* then reads an approved file, at most once per grant, and divides the     *)
(* bytes it read into parts.  The folder is the user's: its files change at *)
(* any moment, and may do so without a trace in their size, time and inode. *)
(*                                                                          *)
(* One workspace, several callers and the Worker's one job thread.  A store *)
(* transaction is one step, and so is the reading of one file: the content  *)
(* is the document that was read, and stands for its hash.                  *)
EXTENDS SourceParts

CONSTANTS Entries,     \* the files of the folder
          Contents,    \* the documents they may contain
          Found,       \* what they contain when the folder is chosen
          Unknown,     \* no content: of a file that is missing or not read
          Threads, NoOne,
          MaxOps,      \* bound on calls
          MaxWrites,   \* bound on changes of the folder
          MaxFaults    \* bound on unreadable files, lost grants, dead Workers

ASSUME SourceAuthorityAssumption ==
    /\ Contents \subseteq Documents
    /\ Found \subseteq [Entries -> Contents] /\ Unknown \notin Contents /\ NoOne \notin Threads
    /\ MaxOps \in Nat /\ MaxWrites \in Nat /\ MaxFaults \in Nat

VARIABLES file,      \* the files on disk
          sameRoot,  \* the folder is the one that was chosen
          state,     \* the state of the workspace
          draft,     \* the current draft, a revision
          approved,  \* the revision that was approved last
          approval,  \* the approval of it: its number and what it approved
          job,       \* the last scan that was asked for; those before have ended
          queued,    \* it is on its way to the job thread
          active,    \* _active_workspaces has the workspace
          activeJob, \* its entry in _active_jobs, or 0
          loop,      \* the job thread
          holder,    \* the holder of the workspace's authority lock
          th,        \* the calls under way, by thread
          seen,      \* what approvals have read from the folder, a history
          ops, writes, faults

disk == <<file, sameRoot>>
manifest == <<state, draft, approved, approval, seen>>
service == <<job, queued, active, activeJob, loop>>
vars == <<disk, manifest, service, holder, th, ops, writes, faults>>

-----------------------------------------------------------------------------
(* The stamp of a file is its size, modification time and inode.  Entries   *)
(* that are excluded for what they are, and members of archives, which only *)
(* preview the archive, are left out.                                       *)

Stamps == 0..MaxWrites
Files == [content : Contents \cup {Unknown}, stamp : Stamps]
SourceStates == {"none", "pending", "approved", "changed", "excluded", "failed", "removed"}
Manifest == [Entries -> [state : SourceStates, included : BOOLEAN, user : BOOLEAN,
                         hash : Contents \cup {Unknown}, stamp : Stamps]]
WorkspaceStates == {"created", "scanning", "approval_required", "approved", "needs_attention"}
Statuses == {"queued", "running", "succeeded", "failed"}
MaxRevisions == MaxOps + 1
Revisions == [id : 0..MaxRevisions, entries : Manifest]

NoEntry == [state |-> "none", included |-> FALSE, user |-> FALSE, hash |-> Unknown, stamp |-> 0]
NoRevision == [id |-> 0, entries |-> [e \in Entries |-> NoEntry]]
Known(m) == {e \in Entries : m[e].state # "none"}
Included(m) == {e \in Entries : m[e].included}

Waiting == [pc |-> "wait", previous |-> NoRevision.entries, todo |-> {},
            scanned |-> NoRevision.entries]
Idle == [pc |-> "idle", rev |-> 0, entries |-> NoRevision.entries, todo |-> {}, bad |-> {},
         read |-> {}, choice |-> FALSE, approval |-> 0, bytes |-> Unknown, parts |-> Refused]

(* The workspace has just been created, with its first scan.                *)
Init ==
    /\ \E found \in Found : file = [e \in Entries |-> [content |-> found[e], stamp |-> 0]]
    /\ sameRoot = TRUE
    /\ state = "created" /\ draft = NoRevision /\ approved = NoRevision
    /\ approval = [id |-> 0, hashes |-> <<>>]
    /\ job = [id |-> 1, status |-> "queued"] /\ queued = TRUE /\ active = TRUE /\ activeJob = 1
    /\ loop = Waiting /\ holder = NoOne /\ th = [t \in Threads |-> Idle] /\ seen = {}
    /\ ops = 0 /\ writes = 0 /\ faults = 0

Unheld == holder = NoOne
At(t, pc) == th[t].pc = pc
Become(t, next) == th' = [th EXCEPT ![t] = next]
Call(t) == At(t, "idle") /\ ops < MaxOps /\ ops' = ops + 1

(* What is read of a file: its content, or nothing when it is missing, can  *)
(* not be opened, is a link, or changes while it is read.                   *)
Reads(e, f) ==
    \/ f = file[e] /\ UNCHANGED faults
    \/ f = [file[e] EXCEPT !.content = Unknown] /\ faults < MaxFaults /\ faults' = faults + 1

EntryMatches(entry, f) == f.content # Unknown /\ f.content = entry.hash /\ f.stamp = entry.stamp

-----------------------------------------------------------------------------
(* The store: a new draft, in which some entries are changed.               *)

NewDraft(entries, next) ==
    /\ draft' = [id |-> draft.id + 1, entries |-> entries]
    /\ state' = next

MarkedChanged(entries, ids) ==
    [e \in Entries |-> IF e \in ids THEN [entries[e] EXCEPT !.state = "changed", !.included = FALSE,
                                                            !.user = FALSE] ELSE entries[e]]

MarkAttention(ids) ==
    /\ NewDraft(MarkedChanged(draft.entries, ids), "needs_attention")
    /\ UNCHANGED <<approved, approval, seen>>

UpdateInclusion(entry, included) ==
    CASE ~included /\ entry.state \in {"pending", "approved", "changed"} ->
           [entry EXCEPT !.state = "excluded", !.included = FALSE, !.user = TRUE]
      [] included /\ (entry.user \/ entry.state = "changed") ->
           [entry EXCEPT !.state = "pending", !.included = TRUE, !.user = FALSE]
      [] OTHER -> [entry EXCEPT !.included = included]

CanSetInclusion(entry, included) ==
    /\ entry.state \in {"pending", "approved", "changed"} \/ (entry.state = "excluded" /\ entry.user)
    /\ included => entry.hash # Unknown

-----------------------------------------------------------------------------
(* The service: one mutation of the workspace at a time, none during a scan.*)
(* A mutation that ends takes the workspace out of the active ones.  A call *)
(* that is refused at once changes nothing and is left out.                 *)

Terminal == job.status \in {"succeeded", "failed"}
Released == activeJob # 0 /\ Terminal

WorkspaceMutation(t, next) ==
    /\ Call(t) /\ (Released \/ ~active) /\ draft.id # 0
    /\ Become(t, [next EXCEPT !.rev = draft.id, !.entries = draft.entries])
    /\ active' = TRUE /\ activeJob' = IF Released THEN 0 ELSE activeJob
    /\ UNCHANGED <<disk, manifest, job, queued, loop, holder, writes, faults>>

EndMutation(t) ==
    /\ Become(t, Idle) /\ active' = FALSE
    /\ UNCHANGED <<disk, job, queued, activeJob, loop, holder, ops, writes>>

(* A scan is refused while another is queued or running; _enqueue does not  *)
(* ask for a mutation.                                                      *)
Rescan(t) ==
    /\ Call(t) /\ Terminal
    /\ job' = [id |-> job.id + 1, status |-> "queued"] /\ queued' = TRUE
    /\ active' = TRUE /\ activeJob' = job.id + 1
    /\ UNCHANGED <<disk, manifest, loop, holder, th, writes, faults>>

(* One entry, or all of the folder that can be set.  When it comes to the   *)
(* store, the draft it was read from may no longer be the current one.      *)
BeginInclusion(t) ==
    \E ids \in {{e} : e \in Known(draft.entries)} \cup {Entries}, included \in BOOLEAN :
        LET set == IF ids # Entries THEN ids
                   ELSE {e \in Entries : CanSetInclusion(draft.entries[e], included)}
        IN  WorkspaceMutation(t, [Idle EXCEPT !.pc = "include", !.todo = set, !.choice = included])

SetInclusion(t) ==
    /\ At(t, "include") /\ Unheld
    /\ IF draft.id # th[t].rev THEN UNCHANGED <<draft, state>>
       ELSE NewDraft([e \in Entries |-> IF e \in th[t].todo
                                        THEN UpdateInclusion(draft.entries[e], th[t].choice)
                                        ELSE draft.entries[e]], "approval_required")
    /\ EndMutation(t)
    /\ UNCHANGED <<approved, approval, seen, faults>>

(* approve reads every included file again; a folder that is not the one    *)
(* that was chosen makes all of them questionable.                          *)
BeginApproval(t) ==
    WorkspaceMutation(t, [Idle EXCEPT !.pc = "validate",
                                      !.choice = sameRoot,
                                      !.todo = IF sameRoot THEN Included(draft.entries) ELSE {},
                                      !.bad = IF sameRoot THEN {} ELSE Included(draft.entries)])

Revalidate(t) ==
    /\ At(t, "validate") /\ th[t].todo # {}
    /\ LET e == CHOOSE e \in th[t].todo : TRUE
       IN  \E f \in Files : Reads(e, f) /\
              Become(t, [th[t] EXCEPT !.todo = @ \ {e}, !.read = @ \cup {<<e, f.content>>},
                             !.bad = IF EntryMatches(th[t].entries[e], f) THEN @ ELSE @ \cup {e}])
    /\ UNCHANGED <<disk, manifest, service, holder, ops, writes>>

Eligible(m) == \A e \in Included(m) : m[e].hash # Unknown /\ m[e].state \in {"pending", "approved"}

ApproveEntries(m) == [e \in Entries |-> IF m[e].included THEN [m[e] EXCEPT !.state = "approved"] ELSE m[e]]

Approve(t) ==
    /\ At(t, "validate") /\ th[t].todo = {} /\ Unheld
    /\ LET attention == ~th[t].choice \/ th[t].bad # {}
       IN  IF draft.id # th[t].rev \/ (~attention /\ ~Eligible(draft.entries)) THEN UNCHANGED manifest
       ELSE IF attention THEN MarkAttention(th[t].bad)
       ELSE /\ state' = "approved"
            /\ draft' = [draft EXCEPT !.entries = ApproveEntries(@)] /\ approved' = draft'
            /\ approval' = [id |-> approval.id + 1,
                            hashes |-> [e \in Included(draft.entries) |-> draft.entries[e].hash]]
            /\ seen' = seen \cup th[t].read
    /\ EndMutation(t)
    /\ UNCHANGED faults

-----------------------------------------------------------------------------
(* The job thread takes a scan, remembers the draft there is, finds the     *)
(* files, reads them one by one and commits what it found as a new draft.   *)
(* It holds the folder open, which the path may no longer lead to.          *)

StartJob ==
    /\ loop.pc = "wait" /\ queued /\ Unheld
    /\ queued' = FALSE /\ job' = [job EXCEPT !.status = "running"] /\ state' = "scanning"
    /\ loop' = [Waiting EXCEPT !.pc = "begin"]
    /\ UNCHANGED <<disk, draft, approved, approval, seen, active, activeJob, holder, th,
                   ops, writes, faults>>

(* What is found in the folder; a file in a subfolder that cannot be opened *)
(* is not.                                                                  *)
Enumerated(found) ==
    LET there == {e \in Entries : file[e].content # Unknown}
    IN  \/ found = there /\ UNCHANGED faults
        \/ found \in SUBSET there /\ faults < MaxFaults /\ faults' = faults + 1

(* What was there before and is not found any more is removed.              *)
Removed(previous) == [e \in Entries |->
    IF previous[e].state = "none" THEN NoEntry
    ELSE [previous[e] EXCEPT !.state = "removed", !.included = FALSE, !.user = FALSE]]

ScanAnchored ==
    /\ loop.pc = "begin" /\ sameRoot
    /\ \E found \in SUBSET Entries : Enumerated(found) /\
          loop' = [pc |-> "scan", previous |-> draft.entries, scanned |-> Removed(draft.entries),
                   todo |-> found]
    /\ UNCHANGED <<disk, manifest, job, queued, active, activeJob, holder, th, ops, writes>>

Entry(next, included, user, f) ==
    [state |-> next, included |-> included, user |-> user, hash |-> f.content, stamp |-> f.stamp]

Reusable(previous, f) ==
    previous.state = "pending" /\ previous.hash # Unknown /\ previous.stamp = f.stamp

(* Mutant: what was approved stays approved when it can be read.            *)
ScanCandidateApproved(previous, f) ==
    IF f.content = Unknown THEN Entry("failed", FALSE, FALSE, f)
    ELSE IF previous.state = "approved" THEN Entry("approved", TRUE, FALSE, f)
    ELSE Entry("pending", TRUE, FALSE, f)

ScanCandidate(previous, f) ==
    LET kept    == previous.state = "approved" /\ previous.hash = f.content
        changed == previous.state \in {"approved", "changed"} /\ ~kept
    IN  IF f.content = Unknown THEN Entry("failed", FALSE, FALSE, f)
        ELSE CASE Reusable(previous, f) -> previous
               [] kept -> Entry("approved", TRUE, FALSE, f)
               [] changed -> Entry("changed", TRUE, FALSE, f)
               [] previous.state = "excluded" /\ previous.user -> Entry("excluded", FALSE, TRUE, f)
               [] OTHER -> Entry("pending", TRUE, FALSE, f)

(* A file over one of the limits of a scan is one that is not read.         *)
ReadCandidate ==
    /\ loop.pc = "scan" /\ loop.todo # {}
    /\ LET e == CHOOSE e \in loop.todo : TRUE
       IN  \E f \in Files : Reads(e, f) /\
              loop' = [loop EXCEPT !.todo = @ \ {e},
                                   !.scanned[e] = ScanCandidate(loop.previous[e], f)]
    /\ UNCHANGED <<disk, manifest, job, queued, active, activeJob, holder, th, ops, writes>>

CommitScan ==
    /\ loop.pc = "scan" /\ loop.todo = {} /\ Unheld
    /\ NewDraft(loop.scanned, "approval_required")
    /\ job' = [job EXCEPT !.status = "succeeded"]
    /\ loop' = [Waiting EXCEPT !.pc = "finish"]
    /\ UNCHANGED <<disk, approved, approval, seen, queued, active, activeJob, holder, th,
                   ops, writes, faults>>

(* The folder cannot be opened or is another one, or the store fails.       *)
FailJob ==
    /\ loop.pc \in {"begin", "scan"} /\ Unheld
    /\ \/ loop.pc = "begin" /\ ~sameRoot /\ UNCHANGED faults
       \/ faults < MaxFaults /\ faults' = faults + 1
    /\ job' = [job EXCEPT !.status = "failed"] /\ state' = "needs_attention"
    /\ loop' = [Waiting EXCEPT !.pc = "finish"]
    /\ UNCHANGED <<disk, draft, approved, approval, seen, queued, active, activeJob, holder, th,
                   ops, writes>>

FinishJob ==
    /\ loop.pc = "finish" /\ loop' = Waiting
    /\ IF activeJob = job.id /\ Terminal THEN active' = FALSE /\ activeJob' = 0
       ELSE UNCHANGED <<active, activeJob>>
    /\ UNCHANGED <<disk, manifest, job, queued, holder, th, ops, writes, faults>>

-----------------------------------------------------------------------------
(* The Worker prepares the sources of the approval it was asked about.  For *)
(* one of them it takes the authority lock of the workspace, under which it *)
(* checks the approval again, checks the file and gives itself a grant, and *)
(* then copies the file, checks the copy, and divides it into parts.        *)

Release(t) == Become(t, Idle) /\ holder' = NoOne

SnapshotAuthority(t) ==
    /\ Call(t) /\ state = "approved"
    /\ \E e \in DOMAIN approval.hashes :
          Become(t, [Idle EXCEPT !.pc = "sender", !.rev = approved.id, !.approval = approval.id,
                                 !.todo = {e}])
    /\ UNCHANGED <<disk, manifest, service, holder, writes, faults>>

AuthorityMatches(t) ==
    state = "approved" /\ draft.id = th[t].rev /\ approved.id = th[t].rev /\ approval.id = th[t].approval

HoldAuthority(t) ==
    /\ At(t, "sender") /\ Unheld
    /\ IF AuthorityMatches(t)
       THEN holder' = t /\ Become(t, [th[t] EXCEPT !.pc = "authorize"])
       ELSE holder' = holder /\ Become(t, Idle)
    /\ UNCHANGED <<disk, manifest, service, ops, writes, faults>>

Source(t) == CHOOSE e \in th[t].todo : TRUE

(* Mutant: neither hash is compared.                                        *)
SourceMatchesStamp(entry, f, approvedHash) == f.content # Unknown /\ f.stamp = entry.stamp

SourceMatches(entry, f, approvedHash) ==
    f.content # Unknown /\ f.stamp = entry.stamp /\ f.content = entry.hash /\ f.content = approvedHash

(* What was read is the source that was approved, or it is marked changed   *)
(* and the user has to approve again.                                       *)
ReadApproved(t, matching) ==
    LET e == Source(t)
    IN  \E f \in Files :
          /\ Reads(e, f)
          /\ IF sameRoot /\ SourceMatches(approved.entries[e], f, approval.hashes[e])
             THEN Become(t, [matching EXCEPT !.bytes = f.content])
                  /\ UNCHANGED <<manifest, holder>>
             ELSE MarkAttention({e}) /\ Release(t)

Authorize(t) ==
    /\ At(t, "authorize") /\ ReadApproved(t, [th[t] EXCEPT !.pc = "open"])
    /\ UNCHANGED <<disk, service, ops, writes>>

OpenApproved(t) ==
    /\ At(t, "open") /\ ReadApproved(t, [th[t] EXCEPT !.pc = "prepare"])
    /\ UNCHANGED <<disk, service, ops, writes>>

(* The grant is only good for a minute.                                     *)
ExpireGrant(t) ==
    /\ At(t, "open") /\ faults < MaxFaults /\ faults' = faults + 1
    /\ Release(t)
    /\ UNCHANGED <<disk, manifest, service, ops, writes>>

PrepareParts(t) ==
    /\ At(t, "prepare")
    /\ Become(t, [th[t] EXCEPT !.pc = "planned", !.parts = Prepared(th[t].bytes)])
    /\ UNCHANGED <<disk, manifest, service, holder, ops, writes, faults>>

UpsertPlans(t) ==
    /\ At(t, "planned") /\ Release(t)
    /\ UNCHANGED <<disk, manifest, service, ops, writes, faults>>

-----------------------------------------------------------------------------
(* The user's folder, and the death of the Worker.                          *)

Edit(e, f) == file' = [file EXCEPT ![e] = f] /\ UNCHANGED sameRoot

(* A file is written, perhaps so that its stamp does not tell; it is        *)
(* removed; or another folder is put in the place of this one.              *)
ChangeFolder ==
    /\ writes < MaxWrites /\ writes' = writes + 1
    /\ \/ \E e \in Entries, c \in Contents, s \in Stamps :
             s \in {file[e].stamp, writes + 1} /\ Edit(e, [content |-> c, stamp |-> s])
       \/ \E e \in Entries : Edit(e, [file[e] EXCEPT !.content = Unknown])
       \/ sameRoot' = ~sameRoot /\ UNCHANGED file
    /\ UNCHANGED <<manifest, service, holder, th, ops, faults>>

(* The next Worker takes up the scan that was not finished.                 *)
Die ==
    /\ faults < MaxFaults /\ faults' = faults + 1
    /\ th' = [t \in Threads |-> Idle] /\ holder' = NoOne /\ loop' = Waiting
    /\ LET unfinished == ~Terminal
       IN  /\ job' = IF unfinished THEN [job EXCEPT !.status = "queued"] ELSE job
           /\ queued' = unfinished /\ active' = unfinished
           /\ activeJob' = IF unfinished THEN job.id ELSE 0
    /\ UNCHANGED <<disk, manifest, ops, writes>>

(* Nothing is left to do.                                                   *)
Rest ==
    /\ ops = MaxOps /\ \A t \in Threads : At(t, "idle")
    /\ loop.pc = "wait" /\ ~queued
    /\ UNCHANGED vars

Thread(t) ==
    \/ Rescan(t) \/ BeginInclusion(t) \/ SetInclusion(t)
    \/ BeginApproval(t) \/ Revalidate(t) \/ Approve(t)
    \/ SnapshotAuthority(t) \/ HoldAuthority(t) \/ Authorize(t) \/ OpenApproved(t)
    \/ ExpireGrant(t) \/ PrepareParts(t) \/ UpsertPlans(t)

JobThread == StartJob \/ ScanAnchored \/ ReadCandidate \/ CommitScan \/ FailJob \/ FinishJob

Next == JobThread \/ (\E t \in Threads : Thread(t)) \/ ChangeFolder \/ Die \/ Rest

Spec == Init /\ [][Next]_vars

-----------------------------------------------------------------------------
Types ==
    /\ file \in [Entries -> Files] /\ sameRoot \in BOOLEAN
    /\ state \in WorkspaceStates /\ draft.entries \in Manifest /\ approved.entries \in Manifest
    /\ approved.id <= draft.id
    /\ job.status \in Statuses /\ queued \in BOOLEAN /\ active \in BOOLEAN
    /\ activeJob \in {0, job.id} /\ holder \in Threads \cup {NoOne}
    /\ loop.pc \in {"wait", "begin", "scan", "finish"}
    /\ \A t \in Threads :
          th[t].pc \in {"idle", "include", "validate", "sender", "authorize", "open", "prepare", "planned"}

(* What an approval stands for, whatever the user, the folder and the scans *)
(* do meanwhile: an included source counts as approved only with a content  *)
(* that an approval has read from the folder, in every revision there is;   *)
(* an approved workspace is one whose current draft is the approved         *)
(* revision, of which exactly the included sources were approved, by their  *)
(* hashes; and a scan is running exactly while the job thread is at it.     *)
ApprovedSound ==
    /\ Types
    /\ \A m \in {draft.entries, approved.entries} : \A e \in Entries :
          m[e].state = "approved" => m[e].hash # Unknown /\ <<e, m[e].hash>> \in seen
    /\ state = "approved" =>
          /\ draft = approved /\ DOMAIN approval.hashes = Included(approved.entries)
          /\ \A e \in Included(approved.entries) :
                approved.entries[e].state = "approved" /\ approved.entries[e].hash = approval.hashes[e]
    /\ job.status = "running" <=> loop.pc \in {"begin", "scan"}
    /\ \A t \in Threads : holder = t <=> th[t].pc \in {"authorize", "open", "prepare", "planned"}

(* While the bytes of a source are divided and planned, they are the bytes  *)
(* the user approved under the approval that is in force and that the call  *)
(* started from, though the file may be changed at any moment; and the      *)
(* parts make up that source.                                               *)
SentApproved ==
    \A t \in Threads : th[t].pc \in {"prepare", "planned"} =>
        LET approvedBytes == approval.hashes[Source(t)]
        IN  /\ AuthorityMatches(t) /\ Source(t) \in Included(approved.entries)
            /\ th[t].bytes = approvedBytes
            /\ th[t].pc = "planned" =>
                 LET whole == [i \in DOMAIN th[t].parts |->
                                  (CHOOSE p \in ToSet(th[t].parts) : p.ordinal = i - 1).part]
                 IN  Rejoins(approvedBytes, whole)

(* The parts of a source make it up, whatever it is: its lines, rows, pages *)
(* or sections are covered in order, without a gap and with no more overlap *)
(* than is meant, no part is larger than a part may be or smaller than it   *)
(* has to be, quoted line ends do not end a row, an image is shown once,    *)
(* every part has one rank; a source that cannot be divided like this is    *)
(* refused as a whole (SourcePartPreparer.prepare).  This is of no state in *)
(* particular and asked of a workspace that has just been created.          *)
PartsRejoin == state = "created" =>
    \A d \in Documents :
        LET parts == PartsOf(d) IN Rejoins(d, parts) /\ Ranked(parts, Prepared(d))

(* "One workspace has at most one active scan or approval mutation"         *)
(* (docs/superpowers/specs/2026-07-21-secure-course-workspace-design.md,    *)
(* line 317).  WorkspaceService._enqueue does not ask whether a mutation is *)
(* under way.                                                               *)
OneOperation ==
    ~ /\ job.status = "running"
      /\ \E t \in Threads : th[t].pc \in {"include", "validate"}
=============================================================================
