---------------------- MODULE ProviderCredentialsProofs ----------------------
(***************************************************************************)
(* Proofs about ProviderCredentials for every set of profiles and every    *)
(* number of requests.  The argument: a row is trusted only while the      *)
(* vault has the secret of its request or none, because Guard blocks the   *)
(* row before SaveSecret changes the secret and only Finalize trusts it    *)
(* again.  The rest of the invariant says what each step of a call can     *)
(* rely on, which the lock keeps true between the steps.                   *)
(***************************************************************************)
EXTENDS ProviderCredentials, TLAPS

Resting       == {"down", "boot", "idle"}
Connecting    == {"guard", "vault", "finalize", "compensate"}
Busy(p)       == op.step \notin Resting /\ op.profile = p
NewSession(n) == [request |-> n, secret |-> n, saved |-> FALSE]

\* A trusted row goes with the secret of its own request.
Matched == \A p \in Profiles : Restorable(p) => vault[p] \in {None, row[p].request}

\* Outside a call on the profile, what the user was told is so.
ToldInv == \A p \in Profiles : session[p] # NoSession /\ ~Busy(p) =>
              IF session[p].saved THEN Restorable(p) /\ vault[p] = session[p].secret
                                  ELSE ~Restorable(p)

\* What the steps of a call rely on.
CallInv ==
    /\ op.step \in Connecting => /\ op.request \in Requests
                                 /\ op.profile \notin forgotten
                                 /\ session[op.profile] = NewSession(op.request)
    /\ op.step \in Connecting \ {"guard"} => row[op.profile] = Blocked(op.request)
    /\ op.step = "finalize" => vault[op.profile] = op.request
    /\ op.step \in {"delete", "mark"} => session[op.profile] = NoSession
    /\ op.step = "mark" /\ hasVault => vault[op.profile] = None

RestInv == /\ op.step = "down" => \A p \in Profiles : session[p] = NoSession
           /\ \A p \in restoring : session[p] = NoSession
           /\ op.step # "boot" => restoring = {}

ForgetInv == /\ \A p \in forgotten : ~Restorable(p) /\ session[p] = NoSession
             /\ \A p \in deleted : vault[p] = None

Inv == TypeOK /\ Paired /\ Matched /\ ToldInv /\ CallInv /\ RestInv /\ ForgetInv

LEMMA MarkedRow == ASSUME NEW r \in Rows
                   PROVE  Marked(r) \in Rows /\ ~Marked(r).expected /\ Marked(r).reconnect
BY DEF Rows, Marked

LEMMA SavedSession == ASSUME NEW n \in Requests
                      PROVE  LET s == [NewSession(n) EXCEPT !.saved = TRUE] IN
                             s \in Sessions /\ s.secret = s.request
BY DEF NewSession, Sessions

LEMMA InitInv == Init => Inv
<1> SUFFICES ASSUME Init PROVE Inv
  OBVIOUS
<1> USE RequestsAssumption, VaultAssumption DEF Init, None
<1>1. TypeOK
  <2>1. hasVault \in BOOLEAN
    OBVIOUS
  <2> QED BY <2>1 DEF TypeOK
<1>2. Paired /\ Matched /\ ForgetInv
  BY DEF Paired, Matched, ForgetInv, Restorable, NoRow, NoSession
<1>3. ToldInv /\ CallInv /\ RestInv
  BY DEF ToldInv, CallInv, RestInv, Connecting, Idle
<1> QED BY <1>1, <1>2, <1>3 DEF Inv

LEMMA StepInv == Inv /\ [Next]_vars => Inv'
<1> SUFFICES ASSUME Inv, [Next]_vars PROVE Inv'
  OBVIOUS
<1> USE RequestsAssumption DEF Inv, TypeOK, Requests, None, At, Goto, Finish
<1>1. ASSUME NEW p \in Profiles, Connect(p) PROVE Inv'
  <2> USE <1>1 DEF Connect
  <2>1. TypeOK'
    BY DEF Calls, Sessions
  <2>2. Paired'
    BY DEF Paired
  <2>3. Matched' /\ RestInv'
    BY DEF Matched, Restorable, RestInv
  <2>4. ToldInv'
    BY DEF ToldInv, Restorable, Busy, Resting
  <2>5. CallInv'
    BY DEF CallInv, Connecting, NewSession
  <2>6. ForgetInv'
    BY DEF ForgetInv, Restorable
  <2> QED BY <2>1, <2>2, <2>3, <2>4, <2>5, <2>6
<1>2. ASSUME NEW p \in Profiles, Forget(p) PROVE Inv'
  <2> USE <1>2 DEF Forget, Disconnect
  <2>1. TypeOK'
    BY DEF Calls
  <2>2. Paired'
    BY DEF Paired, NoSession
  <2>3. Matched' /\ RestInv'
    BY DEF Matched, Restorable, RestInv
  <2>4. ToldInv'
    BY DEF ToldInv, Restorable, Busy, Resting
  <2>5. CallInv'
    BY DEF CallInv, Connecting
  <2>6. ForgetInv'
    BY DEF ForgetInv, Restorable
  <2> QED BY <2>1, <2>2, <2>3, <2>4, <2>5, <2>6
<1>3. ASSUME NEW p \in Profiles, Restore(p) PROVE Inv'
  <2> USE <1>3, MarkedRow DEF Restore, MarkRow, Saved
  <2>1. TypeOK'
    <3>1. row' \in [Profiles -> Rows \cup {NoRow}]
      OBVIOUS
    <3>2. Restorable(p) => row[p].request \in Requests
      BY DEF Restorable, Rows, NoRow
    <3>3. Restorable(p) /\ vault[p] # None =>
             [request |-> row[p].request, secret |-> vault[p], saved |-> TRUE] \in Sessions
      BY <3>2 DEF Sessions
    <3>4. session' \in [Profiles -> Sessions \cup {NoSession}]
      BY <3>3
    <3> QED BY <3>1, <3>4
  <2>2. Paired'
    BY DEF Paired, Matched, Restorable, Rows, NoRow
  <2>3. Matched'
    BY DEF Matched, Restorable, Rows, NoRow
  <2>4. ToldInv'
    BY DEF ToldInv, Restorable, Busy, Resting, RestInv, Rows, NoRow
  <2>5. CallInv' /\ RestInv'
    BY DEF CallInv, Connecting, RestInv
  <2>6. ForgetInv'
    BY DEF ForgetInv, Restorable, Rows, NoRow
  <2> QED BY <2>1, <2>2, <2>3, <2>4, <2>5, <2>6
<1>4. ASSUME Guard PROVE Inv'
  <2> USE <1>4 DEF Guard, Guarded, Blocked, Disconnect
  <2>0. op \in Calls
    BY DEF Calls, Down, Boot, Idle
  <2>1. TypeOK'
    <3>1. op.request \in Requests
      BY DEF CallInv, Connecting
    <3>2. row' \in [Profiles -> Rows \cup {NoRow}]
      <4>1. Blocked(op.request) \in Rows
        BY <3>1 DEF Rows
      <4> HIDE DEF Blocked
      <4> QED BY <4>1
    <3>3. op' \in Calls \cup {Down, Boot, Idle}
      BY <2>0 DEF Calls
    <3> QED BY <3>2, <3>3
  <2>2. Paired'
    BY DEF Paired, NoSession
  <2>3. Matched' /\ RestInv'
    BY <2>0 DEF Matched, Restorable, RestInv, Rows, NoRow, Calls, Idle
  <2>4. ToldInv'
    BY <2>0 DEF ToldInv, Restorable, Busy, Resting, Calls, Idle
  <2>5. CallInv'
    <3>1. CASE op' = Idle
      BY <3>1 DEF CallInv, Connecting, Idle
    <3>2. CASE /\ row' = [row EXCEPT ![op.profile] = Blocked(op.request)]
               /\ op' = [op EXCEPT !.step = "vault"] /\ UNCHANGED session
      <4>1. op'.step = "vault" /\ op'.profile = op.profile /\ op'.request = op.request
        BY <2>0, <3>2 DEF Calls
      <4>2. op.profile \in Profiles
        BY <2>0 DEF Calls
      <4>3. row'[op.profile] = Blocked(op.request)
        BY <3>2, <4>2
      <4> HIDE DEF Blocked
      <4> QED BY <3>2, <4>1, <4>3 DEF CallInv, Connecting
    <3> QED BY <3>1, <3>2
  <2>6. ForgetInv'
    BY <2>0 DEF ForgetInv, Restorable, CallInv, Connecting, Calls
  <2> QED BY <2>1, <2>2, <2>3, <2>4, <2>5, <2>6
<1>5. ASSUME SaveSecret PROVE Inv'
  <2> USE <1>5 DEF SaveSecret
  <2>0. op \in Calls
    BY DEF Calls, Down, Boot, Idle
  <2>1. row[op.profile] = Blocked(op.request) /\ op.request \in Requests
        /\ session[op.profile] = NewSession(op.request)
    BY DEF CallInv, Connecting
  <2>2. TypeOK'
    BY <2>0, <2>1 DEF Calls
  <2>3. Paired' /\ RestInv'
    BY <2>0 DEF Paired, RestInv, Idle, Calls
  <2>4. Matched'
    BY <2>0, <2>1 DEF Matched, Restorable, Blocked, Calls
  <2>5. ToldInv'
    BY <2>0, <2>1 DEF ToldInv, Restorable, Busy, Resting, Blocked, NewSession, Calls, Idle
  <2>6. CallInv'
    BY <2>0, <2>1 DEF CallInv, Connecting, Idle, Calls
  <2>7. ForgetInv'
    <3>1. op.profile \notin deleted
      BY DEF CallInv, Connecting
    <3> QED BY <2>0, <3>1 DEF ForgetInv, Restorable, Calls
  <2> QED BY <2>2, <2>3, <2>4, <2>5, <2>6, <2>7
<1>6. ASSUME Finalize PROVE Inv'
  <2> USE <1>6 DEF Finalize, Trusted
  <2>0. op \in Calls
    BY DEF Calls, Down, Boot, Idle
  <2>1. /\ op.request \in Requests /\ op.profile \notin forgotten
        /\ session[op.profile] = NewSession(op.request)
        /\ vault[op.profile] = op.request
        /\ row[op.profile] = Blocked(op.request)
    BY DEF CallInv, Connecting
  <2>2. TypeOK'
    <3>1. row' \in [Profiles -> Rows \cup {NoRow}]
      <4>1. Trusted(op.request) \in Rows
        BY <2>1 DEF Rows
      <4> HIDE DEF Trusted
      <4> QED BY <4>1
    <3>2. session' \in [Profiles -> Sessions \cup {NoSession}]
      <4>1. [session[op.profile] EXCEPT !.saved = TRUE] \in Sessions
        BY <2>1, SavedSession
      <4> QED BY <4>1
    <3>3. op' \in Calls \cup {Down, Boot, Idle}
      BY <2>0 DEF Calls
    <3> QED BY <3>1, <3>2, <3>3
  <2>3. Paired' /\ RestInv'
    <3>1. RestInv'
      BY <2>0, <2>1 DEF RestInv, Idle, Calls
    <3>2. [session[op.profile] EXCEPT !.saved = TRUE].secret
             = [session[op.profile] EXCEPT !.saved = TRUE].request
      BY <2>1, SavedSession
    <3>3. Paired'
      BY <2>0, <3>2 DEF Paired, Calls
    <3> QED BY <3>1, <3>3
  <2>4. Matched'
    BY <2>0, <2>1 DEF Matched, Restorable, Calls
  <2>5. ToldInv'
    BY <2>0, <2>1 DEF ToldInv, Restorable, Busy, Resting, NewSession, Calls, Idle
  <2>6. CallInv'
    BY <2>0, <2>1 DEF CallInv, Connecting, Idle, Calls
  <2>7. ForgetInv'
    BY <2>0, <2>1 DEF ForgetInv, Restorable, Calls
  <2> QED BY <2>2, <2>3, <2>4, <2>5, <2>6, <2>7
<1>7. ASSUME Compensate PROVE Inv'
  <2> USE <1>7 DEF Compensate, Disconnect
  <2>0. op \in Calls
    BY DEF Calls, Down, Boot, Idle
  <2>1. row[op.profile] = Blocked(op.request) /\ session[op.profile] = NewSession(op.request)
    BY DEF CallInv, Connecting
  <2>2. TypeOK'
    BY <2>0 DEF Calls
  <2>3. Paired' /\ RestInv'
    BY DEF Paired, RestInv, Idle, NoSession
  <2>4. Matched'
    BY <2>0, <2>1 DEF Matched, Restorable, Blocked, Calls
  <2>5. ToldInv'
    BY <2>0, <2>1 DEF ToldInv, Restorable, Busy, Resting, Blocked, NewSession, Calls, Idle
  <2>6. CallInv'
    BY DEF CallInv, Connecting, Idle
  <2>7. ForgetInv'
    BY DEF ForgetInv, Restorable
  <2> QED BY <2>2, <2>3, <2>4, <2>5, <2>6, <2>7
<1>8. ASSUME DeleteSecret PROVE Inv'
  <2> USE <1>8 DEF DeleteSecret
  <2>0. op \in Calls /\ session[op.profile] = NoSession
    BY DEF Calls, Down, Boot, Idle, CallInv
  <2>1. TypeOK'
    BY <2>0 DEF Calls
  <2>2. Paired' /\ RestInv'
    BY <2>0 DEF Paired, RestInv, Idle, Calls
  <2>3. Matched'
    BY <2>0 DEF Matched, Restorable, Calls
  <2>4. ToldInv'
    BY <2>0 DEF ToldInv, Restorable, Busy, Resting, Calls, Idle
  <2>5. CallInv'
    BY <2>0 DEF CallInv, Connecting, Idle, Calls
  <2>6. ForgetInv'
    BY DEF ForgetInv, Restorable
  <2> QED BY <2>1, <2>2, <2>3, <2>4, <2>5, <2>6
<1>9. ASSUME Mark PROVE Inv'
  <2> USE <1>9, MarkedRow DEF Mark, MarkRow, Saved
  <2>0. op \in Calls /\ session[op.profile] = NoSession
    BY DEF Calls, Down, Boot, Idle, CallInv
  <2>1. TypeOK'
    BY <2>0 DEF Calls
  <2>2. Paired' /\ RestInv'
    BY DEF Paired, RestInv, Idle
  <2>3. Matched'
    BY <2>0 DEF Matched, Restorable, Calls
  <2>4. ToldInv'
    BY <2>0 DEF ToldInv, Restorable, Busy, Resting, Calls, Idle, Rows, NoRow
  <2>5. CallInv'
    BY DEF CallInv, Connecting, Idle
  <2>6. ForgetInv'
    <3>1. hasVault => vault[op.profile] = None
      BY DEF CallInv
    <3>2. \A p \in deleted' : vault'[p] = None
      BY <3>1 DEF ForgetInv
    <3> QED BY <2>0, <3>2 DEF ForgetInv, Restorable, Rows, NoRow, Calls
  <2> QED BY <2>1, <2>2, <2>3, <2>4, <2>5, <2>6
<1>10. ASSUME Crash PROVE Inv'
  BY <1>10 DEF Crash, Paired, Matched, ToldInv, CallInv, RestInv, ForgetInv, Restorable, Busy,
     Resting, Connecting, Down, NoSession
<1>11. ASSUME Start PROVE Inv'
  BY <1>11, VaultAssumption DEF Start, Paired, Matched, ToldInv, CallInv, RestInv, ForgetInv,
     Restorable, Busy, Resting, Connecting, Boot
<1>12. ASSUME Ready PROVE Inv'
  BY <1>12 DEF Ready, Paired, Matched, ToldInv, CallInv, RestInv, ForgetInv, Restorable, Busy,
     Resting, Connecting, Idle
<1>13. ASSUME UNCHANGED vars PROVE Inv'
  BY <1>13 DEF vars, Paired, Matched, ToldInv, CallInv, RestInv, ForgetInv, Restorable, Busy
<1> QED BY <1>1, <1>2, <1>3, <1>4, <1>5, <1>6, <1>7, <1>8, <1>9, <1>10, <1>11, <1>12, <1>13
        DEF Next

\* The inductive invariant holds in every reachable state.
THEOREM Invariance == Spec => []Inv
<1>1. Init => Inv BY InitInv
<1>2. Inv /\ [Next]_vars => Inv' BY StepInv
<1> QED BY <1>1, <1>2, PTL DEF Spec

(* Every variable of the credential stores keeps its type. *)
THEOREM TypeCorrect == Spec => []TypeOK
<1>1. Inv => TypeOK BY DEF Inv
<1> QED BY <1>1, Invariance, PTL

(* No provider is ever created with a key given for another endpoint, for  *)
(* any number of profiles and of interrupted or failed replacements.       *)
THEOREM NeverCrossed == Spec => []Paired
<1>1. Inv => Paired BY DEF Inv
<1> QED BY <1>1, Invariance, PTL

(* A Forget that succeeded is final until the next request to connect: no  *)
(* session, nothing a start could restore, and no secret left in the vault *)
(* that the Worker had.                                                    *)
THEOREM StaysForgotten == Spec => []Forgotten
<1>1. Inv => Forgotten
  BY DEF Inv, TypeOK, Forgotten, ForgetInv, Kept
<1> QED BY <1>1, Invariance, PTL

(* What connect_provider and the restore at start tell the user of a       *)
(* credential is what the next start will find.                            *)
THEOREM ToldTheTruth == Spec => []Told
<1>1. Inv => Forgotten
  BY DEF Inv, TypeOK, Forgotten, ForgetInv, Kept
<1>2. Inv => Told
  BY <1>1 DEF Inv, Told, ToldInv, At, Busy, Resting, Kept, None
<1> QED BY <1>2, Invariance, PTL

(* No step but the one that tells the user a credential is saved makes one *)
(* restorable.                                                             *)
THEOREM NothingRevived == Spec => NeverRevived
<1>1. ASSUME Inv, [Next]_vars, NEW p \in Profiles, Kept(p)' \notin {None, Kept(p)}
      PROVE  session'[p].saved /\ session'[p].secret = Kept(p)'
  <2> USE <1>1 DEF Inv, TypeOK, Kept, Restorable, None, At
  <2>1. CASE \E q \in Profiles : Connect(q) \/ Forget(q)
    BY <2>1 DEF Connect, Forget
  <2>2. CASE \E q \in Profiles : Restore(q)
    <3>1. PICK q \in Profiles : Restore(q)
      BY <2>2
    <3>2. \A r \in Rows \cup {NoRow} : ~Marked(r).expected
      BY MarkedRow DEF Marked, NoRow
    <3> QED BY <3>1, <3>2 DEF Restore, MarkRow
  <2>3. CASE Guard
    BY <2>3 DEF Guard, Guarded, Blocked
  <2>4. CASE SaveSecret
    <3>1. row[op.profile] = Blocked(op.request)
      BY <2>4 DEF SaveSecret, CallInv, Connecting
    <3> QED BY <2>4, <3>1 DEF SaveSecret, Blocked
  <2>5. CASE Finalize
    <3>1. vault[op.profile] = op.request /\ session[op.profile] = NewSession(op.request)
      BY <2>5 DEF Finalize, CallInv, Connecting
    <3>2. p = op.profile /\ session' = [session EXCEPT ![p].saved = TRUE] /\ UNCHANGED vault
      BY <2>5 DEF Finalize
    <3>3. session'[p] = [NewSession(op.request) EXCEPT !.saved = TRUE]
      BY <3>1, <3>2
    <3>4. session'[p].saved /\ session'[p].secret = op.request
      BY <3>3 DEF NewSession
    <3> QED BY <3>1, <3>2, <3>4
  <2>6. CASE Compensate \/ DeleteSecret
    BY <2>6 DEF Compensate, DeleteSecret
  <2>7. CASE Mark
    <3>1. \A r \in Rows \cup {NoRow} : ~Marked(r).expected
      BY MarkedRow DEF Marked, NoRow
    <3> QED BY <2>7, <3>1 DEF Mark, MarkRow
  <2>8. CASE Crash \/ Start \/ Ready \/ UNCHANGED vars
    BY <2>8 DEF Crash, Start, Ready, vars
  <2> QED BY <2>1, <2>2, <2>3, <2>4, <2>5, <2>6, <2>7, <2>8 DEF Next
<1>2. Inv /\ [Next]_vars => \A p \in Profiles :
         Kept(p)' \notin {None, Kept(p)} => session'[p].saved /\ session'[p].secret = Kept(p)'
  BY <1>1
<1> QED BY <1>2, Invariance, PTL DEF Spec, NeverRevived
===============================================================================
