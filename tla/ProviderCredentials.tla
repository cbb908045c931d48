------------------------- MODULE ProviderCredentials -------------------------
(***************************************************************************)
(* How a provider credential is connected, kept, restored and forgotten:   *)
(* runtime/coordinator.py over three stores that cannot be written         *)
(* together.                                                               *)
(*    row      the saved profile in the runtime store, durable, no secret  *)
(*    vault    the secret in the credential vault of the operating system  *)
(*    session  the provider object in the memory of the Worker             *)
(* Each call runs under the coordinator's lock, as one step per store it   *)
(* writes; any of these may fail, and the Worker may die between two.      *)
(*                                                                         *)
(* A request to connect stands for the endpoint and the key that the user  *)
(* gave together, so a profile and a secret belong together exactly when   *)
(* they come from the same request.  A call that is refused because a run  *)
(* uses the profile (see RunLifecycle), or whose provider cannot be        *)
(* created, changes nothing and is not shown.                              *)
(***************************************************************************)
EXTENDS Naturals

CONSTANTS Profiles,       \* provider profile ids
          MaxRequests,    \* bound: requests to connect
          VaultVaries     \* whether a start may find no credential vault at all

ASSUME RequestsAssumption == MaxRequests \in Nat
ASSUME VaultAssumption    == VaultVaries \in BOOLEAN

Requests == 1 .. MaxRequests
None     == 0

NoRow      == [request |-> None, expected |-> FALSE, reconnect |-> FALSE]
Rows       == [request : Requests, expected : BOOLEAN, reconnect : BOOLEAN]
NoSession  == [request |-> None, secret |-> None, saved |-> FALSE]
Sessions   == [request : Requests, secret : Requests, saved : BOOLEAN]

VARIABLES
    row,        \* saved_provider_profiles, by profile
    vault,      \* the secret of each profile
    session,    \* the provider and its descriptor
    hasVault,   \* this Worker has a credential vault
    op,         \* the call that holds the lock: its step, profile and request
    restoring,  \* profiles that a start has still to look at
    last,       \* the last request to connect
    forgotten,  \* history: profiles forgotten with success and not connected since
    deleted     \* history: those of them that a Worker with a vault forgot

vars == <<row, vault, session, hasVault, op, restoring, last, forgotten, deleted>>

Down  == [step |-> "down",  profile |-> None, request |-> None]
Boot  == [step |-> "boot",  profile |-> None, request |-> None]
Idle  == [step |-> "idle",  profile |-> None, request |-> None]
Calls == [step : {"guard", "vault", "finalize", "compensate", "delete", "mark"},
          profile : Profiles, request : 0 .. MaxRequests]

At(step)      == op.step = step
Goto(step)    == op' = [op EXCEPT !.step = step]
Finish        == op' = Idle
Disconnect(p) == session' = [session EXCEPT ![p] = NoSession]
-------------------------------------------------------------------------------
Init == /\ row       = [p \in Profiles |-> NoRow]
        /\ vault     = [p \in Profiles |-> None]
        /\ session   = [p \in Profiles |-> NoSession]
        /\ hasVault  \in {TRUE, ~VaultVaries}
        /\ op        = Idle
        /\ restoring = {}
        /\ last      = 0
        /\ forgotten = {}
        /\ deleted   = {}
-------------------------------------------------------------------------------
(* connect_provider *)

Connect(p) ==
    /\ At("idle") /\ last < MaxRequests
    /\ last'      = last + 1
    /\ session'   = [session EXCEPT ![p] = [request |-> last + 1, secret |-> last + 1,
                                            saved |-> FALSE]]
    /\ op'        = [step |-> "guard", profile |-> p, request |-> last + 1]
    /\ forgotten' = forgotten \ {p}
    /\ deleted'   = deleted \ {p}
    /\ UNCHANGED <<row, vault, hasVault, restoring>>

\* The row is blocked before the secret changes, so that no later start pairs the
\* new one with the old profile or the other way round.
Trusted(n)  == [request |-> n, expected |-> TRUE, reconnect |-> FALSE]
Blocked(n)  == [request |-> n, expected |-> FALSE, reconnect |-> TRUE]
Unguarded(r, n) == r
Guarded(r, n)   == Blocked(n)

Guard ==
    /\ At("guard")
    /\ LET p == op.profile IN
       \/ /\ row' = [row EXCEPT ![p] = Guarded(row[p], op.request)]
          /\ Goto("vault") /\ UNCHANGED session
       \/ Disconnect(p) /\ Finish /\ UNCHANGED row
    /\ UNCHANGED <<vault, hasVault, restoring, last, forgotten, deleted>>

\* A failing vault may or may not have stored the secret.
SaveSecret ==
    /\ At("vault")
    /\ LET p == op.profile
           stored == [vault EXCEPT ![p] = op.request] IN
       \/ hasVault /\ vault' = stored /\ Goto("finalize")
       \/ hasVault /\ vault' \in {vault, stored} /\ Finish
       \/ ~hasVault /\ Finish /\ UNCHANGED vault
    /\ UNCHANGED <<row, session, hasVault, restoring, last, forgotten, deleted>>

Finalize ==
    /\ At("finalize")
    /\ LET p == op.profile IN
       \/ /\ row' = [row EXCEPT ![p] = Trusted(op.request)]
          /\ session' = [session EXCEPT ![p].saved = TRUE]
          /\ Finish
       \/ Goto("compensate") /\ UNCHANGED <<row, session>>
    /\ UNCHANGED <<vault, hasVault, restoring, last, forgotten, deleted>>

Compensate ==
    /\ At("compensate")
    /\ LET p == op.profile
           erased == [vault EXCEPT ![p] = None] IN
       \/ vault' = erased /\ UNCHANGED session
       \/ vault' \in {vault, erased} /\ Disconnect(p)
    /\ Finish
    /\ UNCHANGED <<row, hasVault, restoring, last, forgotten, deleted>>
-------------------------------------------------------------------------------
(* forget_provider_credential *)

Forget(p) ==
    /\ At("idle")
    /\ Disconnect(p)
    /\ op' = [step |-> IF hasVault THEN "delete" ELSE "mark", profile |-> p, request |-> None]
    /\ UNCHANGED <<row, vault, hasVault, restoring, last, forgotten, deleted>>

DeleteSecret ==
    /\ At("delete")
    /\ LET erased == [vault EXCEPT ![op.profile] = None] IN
       \/ vault' = erased /\ Goto("mark")
       \/ vault' \in {vault, erased} /\ Finish
    /\ UNCHANGED <<row, session, hasVault, restoring, last, forgotten, deleted>>

\* mark_provider_reconnect_required; a profile that was never saved is an error.
Marked(r)    == [r EXCEPT !.expected = FALSE, !.reconnect = TRUE]
AnyRow(p)    == TRUE
Saved(p)     == row[p] # NoRow
MarkRow(p)   == Saved(p) /\ row' = [row EXCEPT ![p] = Marked(@)]

Mark ==
    /\ At("mark")
    /\ \/ /\ MarkRow(op.profile)
          /\ forgotten' = forgotten \cup {op.profile}
          /\ deleted' = IF hasVault THEN deleted \cup {op.profile} ELSE deleted
       \/ UNCHANGED <<row, forgotten, deleted>>
    /\ Finish
    /\ UNCHANGED <<vault, session, hasVault, restoring, last>>
-------------------------------------------------------------------------------
(* The Worker dies, or its start fails, and it starts again:               *)
(* _restore_saved_profiles.                                                *)

Crash ==
    /\ ~At("down")
    /\ op' = Down /\ restoring' = {}
    /\ session' = [p \in Profiles |-> NoSession]
    /\ UNCHANGED <<row, vault, hasVault, last, forgotten, deleted>>

Start ==
    /\ At("down")
    /\ op' = Boot /\ restoring' = Profiles
    /\ hasVault' \in {TRUE, ~VaultVaries}
    /\ UNCHANGED <<row, vault, session, last, forgotten, deleted>>

Restorable(p) == row[p].expected /\ ~row[p].reconnect

Restore(p) ==
    /\ At("boot") /\ p \in restoring
    /\ restoring' = restoring \ {p}
    /\ \/ ~Restorable(p) /\ UNCHANGED <<row, session>>
       \/ /\ Restorable(p) /\ hasVault /\ vault[p] # None
          /\ session' = [session EXCEPT ![p] = [request |-> row[p].request, secret |-> vault[p],
                                                saved |-> TRUE]]
          /\ UNCHANGED row
       \/ \* nothing can be loaded, or the provider refuses it
          Restorable(p) /\ MarkRow(p) /\ UNCHANGED session
    /\ UNCHANGED <<vault, hasVault, op, last, forgotten, deleted>>

Ready == /\ At("boot") /\ restoring = {}
         /\ Finish
         /\ UNCHANGED <<row, vault, session, hasVault, restoring, last, forgotten, deleted>>
-------------------------------------------------------------------------------
Next == \/ \E p \in Profiles : Connect(p) \/ Forget(p) \/ Restore(p)
        \/ Guard \/ SaveSecret \/ Finalize \/ Compensate
        \/ DeleteSecret \/ Mark
        \/ Crash \/ Start \/ Ready

Spec == Init /\ [][Next]_vars
-------------------------------------------------------------------------------
(* Properties.                                                             *)

(* Types of every variable. *)
TypeOK == /\ row \in [Profiles -> Rows \cup {NoRow}]
          /\ vault \in [Profiles -> 0 .. MaxRequests]
          /\ session \in [Profiles -> Sessions \cup {NoSession}]
          /\ hasVault \in BOOLEAN
          /\ op \in Calls \cup {Down, Boot, Idle}
          /\ restoring \in SUBSET Profiles
          /\ last \in 0 .. MaxRequests
          /\ forgotten \in SUBSET Profiles
          /\ deleted \in SUBSET forgotten

\* The secret that the next start would use for a profile.
Kept(p) == IF Restorable(p) THEN vault[p] ELSE None

(* A provider is only ever created with the key that was given for its     *)
(* endpoint, whatever failed and whenever the Worker died while one was    *)
(* being replaced by another.                                              *)
Paired == \A p \in Profiles : session[p].secret = session[p].request

(* After a Forget that succeeded the profile is neither connected nor      *)
(* restorable until the user connects it again; and if the Worker had a    *)
(* vault to delete from, no call that failed or was cut short leaves or    *)
(* puts back the secret in it.                                             *)
Forgotten == /\ \A p \in forgotten : Kept(p) = None /\ session[p] = NoSession
             /\ \A p \in deleted : vault[p] = None

(* What the user is told of a connected credential is what the next start  *)
(* does: one that is said to be saved can be restored, one that is said    *)
(* not to be saved will not be, nor will an older one in its place; and    *)
(* one that is said to be forgotten is.                                    *)
Told == /\ At("idle") => \A p \in Profiles : session[p] # NoSession =>
              Kept(p) = IF session[p].saved THEN session[p].secret ELSE None
        /\ Forgotten

(* A secret becomes restorable in no other way than by the step that tells *)
(* the user so: no failed call or restart brings an old one back.          *)
NeverRevived == [][ \A p \in Profiles :
    Kept(p)' \notin {None, Kept(p)} => session'[p].saved /\ session'[p].secret = Kept(p)' ]_vars
===============================================================================
