-------------------------- MODULE EventReadersProofs --------------------------
(***************************************************************************)
(* Theorems about EventReaders, for logs of any length and any number of   *)
(* streams: a stream ends by itself only on a run that rests, and the view *)
(* shows what the log says, however the two are cut into requests.         *)
(***************************************************************************)
EXTENDS EventReaders, TLAPS, FiniteSetTheorems, WellFoundedInduction

(***************************************************************************)
(* The greatest of some numbers, and the newest event of some types.       *)
(***************************************************************************)
LEMMA MaxIs ==
    ASSUME NEW n \in Nat, NEW S \in SUBSET (1..n), S # {}
    PROVE  Max(S) \in S /\ \A y \in S : y <= Max(S)
<1> DEFINE Above(x) == {k \in 1..n : k > x}
<1> DEFINE T == {Above(x) : x \in S}
<1>1. IsWellFoundedOn(StrictSubsetOrdering(1..n), SUBSET (1..n))
  <2>1. IsFiniteSet(1..n)
    BY FS_Interval
  <2> QED BY <2>1, FS_StrictSubsetOrderingWellFounded, FS_FiniteSubsetsOfFinite
<1>2. T \subseteq SUBSET (1..n) /\ T # {}
  OBVIOUS
<1>3. PICK least \in T : \A t \in T : ~(<<t, least>> \in StrictSubsetOrdering(1..n))
  <2> HIDE DEF T
  <2> QED BY <1>1, <1>2, WFMin
<1>4. PICK x \in S : least = Above(x)
  OBVIOUS
<1>5. \A y \in S : x >= y
  <2> SUFFICES ASSUME NEW y \in S, ~(x >= y) PROVE FALSE
    OBVIOUS
  <2>1. x \in 1..n /\ y \in 1..n /\ x < y
    OBVIOUS
  <2>2. Above(y) \subseteq Above(x) /\ y \in Above(x) \ Above(y)
    BY <2>1
  <2>3. <<Above(y), least>> \in StrictSubsetOrdering(1..n)
    BY <2>2, <1>4 DEF StrictSubsetOrdering
  <2> QED BY <2>3, <1>3
<1>6. Max(S) \in S /\ \A y \in S : Max(S) >= y
  BY <1>5 DEF Max
<1> QED BY <1>6

LEMMA MaxUnique ==
    ASSUME NEW n \in Nat, NEW S \in SUBSET (1..n), NEW x \in S, \A y \in S : y <= x
    PROVE  Max(S) = x
<1> DEFINE m == Max(S)
<1>1. m \in S /\ \A y \in S : y <= m
  BY MaxIs
<1> HIDE DEF m
<1>2. x <= m /\ m <= x /\ x \in Nat /\ m \in Nat
  BY <1>1
<1> QED BY <1>2 DEF m

LEMMA NewestIs ==
    ASSUME NEW l \in Seq(Events), NEW types
    PROVE  /\ Newest(types, l) \in 0..Len(l)
           /\ Newest(types, l) # 0 => l[Newest(types, l)] \in types
           /\ \A i \in 1..Len(l) : l[i] \in types => i <= Newest(types, l)
<1> DEFINE I == {i \in 1..Len(l) : l[i] \in types}
<1>1. Newest(types, l) = IF I # {} THEN Max(I) ELSE 0
  BY DEF Newest, SelectLastInSeq
<1>2. Len(l) \in Nat /\ I \in SUBSET (1..Len(l))
  OBVIOUS
<1>3. CASE I # {}
  <2>1. Max(I) \in I /\ \A y \in I : y <= Max(I)
    <3> HIDE DEF I
    <3> QED BY <1>2, <1>3, MaxIs
  <2> QED BY <1>1, <1>3, <2>1
<1>4. CASE I = {}
  BY <1>1, <1>2, <1>4
<1> QED BY <1>3, <1>4

LEMMA NewestUnique ==
    ASSUME NEW l \in Seq(Events), NEW types, NEW n \in 0..Len(l), n # 0 => l[n] \in types,
           \A i \in 1..Len(l) : l[i] \in types => i <= n
    PROVE  Newest(types, l) = n
<1> DEFINE k == Newest(types, l)
<1>1. /\ k \in 0..Len(l) /\ (k # 0 => l[k] \in types)
      /\ \A i \in 1..Len(l) : l[i] \in types => i <= k
  BY NewestIs
<1> HIDE DEF k
<1>2. Len(l) \in Nat
  OBVIOUS
<1>3. n <= k
  BY <1>1, <1>2
<1>4. k <= n
  BY <1>1, <1>2
<1> QED BY <1>1, <1>2, <1>3, <1>4 DEF k

LEMMA NewestOfMore ==
    ASSUME NEW l \in Seq(Events), NEW e \in Events, NEW types
    PROVE  Newest(types, Append(l, e)) = IF e \in types THEN Len(l) + 1 ELSE Newest(types, l)
<1> DEFINE m == Append(l, e)
<1>1. /\ m \in Seq(Events) /\ Len(m) = Len(l) + 1 /\ Len(l) \in Nat /\ m[Len(l) + 1] = e
      /\ \A i \in 1..Len(l) : m[i] = l[i]
  OBVIOUS
<1>2. /\ Newest(types, l) \in 0..Len(l)
      /\ Newest(types, l) # 0 => l[Newest(types, l)] \in types
      /\ \A i \in 1..Len(l) : l[i] \in types => i <= Newest(types, l)
  BY NewestIs
<1> DEFINE n == IF e \in types THEN Len(l) + 1 ELSE Newest(types, l)
<1>3. n \in 0..Len(m) /\ (n # 0 => m[n] \in types)
  <2> HIDE DEF m
  <2> QED BY <1>1, <1>2
<1>4. ASSUME NEW i \in 1..Len(m), m[i] \in types PROVE i <= n
  <2> HIDE DEF m
  <2>1. CASE i = Len(l) + 1
    BY <1>1, <2>1, <1>4
  <2>2. CASE i # Len(l) + 1
    <3>1. i \in 1..Len(l) /\ l[i] \in types
      BY <1>1, <1>4, <2>2
    <3> QED BY <1>1, <1>2, <3>1
  <2> QED BY <2>1, <2>2
<1> HIDE DEF m, n
<1>5. Newest(types, m) = n
  BY <1>1, <1>3, <1>4, NewestUnique
<1> QED BY <1>5 DEF m, n

(***************************************************************************)
(* The log.  A run that rests has nothing left to do, and its log says so. *)
(***************************************************************************)
RunRests(l) == Newest(Lifecycle, l) = Newest(Settling, l)

LogInv ==
    /\ LogTypeOK
    /\ Len(log) <= MaxLog + 1
    /\ Len(log) > MaxLog => status \in Settling
    /\ status \in Settling => owed = "nothing" /\ exec = "none" /\ RunRests(log)

Grows == log' = log \/ \E e \in Events : log' = Append(log, e)

LEMMA SettlingRests ==
    ASSUME NEW l \in Seq(Events), NEW e \in Settling
    PROVE  RunRests(Append(l, e)) /\ e \in Events
BY NewestOfMore DEF RunRests, Settling, Lifecycle, Events

LEMMA PausedRests ==
    ASSUME NEW l \in Seq(Events), Newest({"paused"}, l) # 0,
           Newest({"paused"}, l) = Newest(Lifecycle, l)
    PROVE  RunRests(l)
<1> DEFINE p == Newest({"paused"}, l)
           s == Newest(Settling, l)
           c == Newest(Lifecycle, l)
<1>1. Len(l) \in Nat /\ p \in 0..Len(l) /\ (p # 0 => l[p] \in {"paused"})
  BY NewestIs
<1>2. s \in 0..Len(l) /\ (s # 0 => l[s] \in Settling)
      /\ \A i \in 1..Len(l) : l[i] \in Settling => i <= s
  BY NewestIs
<1>3. c \in 0..Len(l) /\ \A i \in 1..Len(l) : l[i] \in Lifecycle => i <= c
  BY NewestIs
<1>4. p # 0 /\ p = c
  OBVIOUS
<1> HIDE DEF p, s, c
<1>5. p <= s
  BY <1>1, <1>2, <1>4 DEF Settling
<1>6. s <= c
  BY <1>1, <1>2, <1>3 DEF Lifecycle
<1>7. c = s
  BY <1>1, <1>2, <1>3, <1>4, <1>5, <1>6
<1> QED BY <1>7 DEF c, s, RunRests

LEMMA Appended ==
    ASSUME LogTypeOK, NEW e \in Events, log' = Append(log, e)
    PROVE  log' \in Seq(Events) /\ Len(log') = Len(log) + 1 /\ Len(log) \in Nat /\ Grows
BY DEF LogTypeOK, Grows

LEMMA LogStep == LogInv /\ (Writer \/ Recover \/ UNCHANGED written) => LogInv' /\ Grows
<1> SUFFICES ASSUME LogInv, Writer \/ Recover \/ UNCHANGED written PROVE LogInv' /\ Grows
  OBVIOUS
<1> USE LogAssumption
<1>1. /\ LogTypeOK /\ log \in Seq(Events) /\ Len(log) \in Nat
      /\ status \in Statuses /\ exec \in Executions
      /\ owed \in {"nothing", "queued", "started", "stopping"}
  BY DEF LogInv, LogTypeOK
<1>2. CASE Complete
  <2>1. status \notin Settling /\ Len(log) <= MaxLog /\ owed' = "nothing"
    BY <1>1, <1>2 DEF Complete, LogInv
  <2>2. CASE /\ owed \in {"queued", "started"} /\ Room /\ log' = Append(log, owed)
             /\ exec' = IF owed = "started" THEN "running" ELSE exec
             /\ UNCHANGED status
    <3>1. owed \in Events
      BY <2>2 DEF Events, Lifecycle
    <3>2. log' \in Seq(Events) /\ Len(log') = Len(log) + 1 /\ Grows
      BY <1>1, <2>2, <3>1, Appended
    <3> QED BY <1>1, <2>1, <2>2, <3>2 DEF LogInv, LogTypeOK, Room, Executions
  <2>3. CASE owed = "stopping" /\ status' = "stopping" /\ UNCHANGED <<log, exec>>
    BY <1>1, <2>1, <2>3 DEF LogInv, LogTypeOK, Grows, Statuses, Settling
  <2> QED BY <1>2, <2>2, <2>3 DEF Complete
<1>3. CASE StartNext
  BY <1>1, <1>3 DEF StartNext, LogInv, LogTypeOK, Grows, Statuses, Settling
<1>4. CASE Stop
  <2>1. log' \in Seq(Events) /\ Len(log') = Len(log) + 1 /\ Grows
    BY <1>1, <1>4, Appended DEF Stop, Events, Lifecycle
  <2> QED BY <1>1, <1>4, <2>1 DEF Stop, Room, LogInv, LogTypeOK, Settling
<1>5. CASE Resume
  BY <1>1, <1>5 DEF Resume, Room, LogInv, LogTypeOK, Grows, Statuses, Executions, Settling
<1>6. CASE Emit
  <2>1. PICK e \in {"resumed", "progress", "message"} : log' = Append(log, e)
    BY <1>6 DEF Emit
  <2>2. log' \in Seq(Events) /\ Len(log') = Len(log) + 1 /\ Grows
    BY <1>1, <2>1, Appended DEF Events, Lifecycle
  <2>3. exec' = "running" /\ UNCHANGED <<status, owed>> /\ Room /\ status \notin Settling
    BY <1>6 DEF Emit, LogInv
  <2> QED BY <1>1, <2>2, <2>3 DEF Room, LogInv, LogTypeOK, Executions
<1>7. CASE Settle
  <2>1. PICK s \in Settling : status' = s /\ log' = Append(log, s)
    BY <1>7 DEF Settle
  <2>2. exec' = "none" /\ owed = "nothing" /\ owed' = owed /\ status \notin Settling
    BY <1>7 DEF Settle, LogInv
  <2>3. s \in Events /\ RunRests(log')
    BY <1>1, <2>1, SettlingRests
  <2>4. log' \in Seq(Events) /\ Len(log') = Len(log) + 1 /\ Grows
    BY <1>1, <2>1, <2>3, Appended
  <2> QED BY <1>1, <2>1, <2>2, <2>3, <2>4 DEF LogInv, LogTypeOK, Statuses, Executions
<1>8. CASE Recover
  <2>1. exec' = "none" /\ owed' = "nothing"
    BY <1>8 DEF Recover
  <2>2. CASE status \in {"running", "stopping"}
    <3>1. status' = "paused" /\ status \notin Settling
      BY <1>8, <2>2 DEF Recover, Settling
    <3>2. CASE /\ log' = log /\ Newest({"paused"}, log) # 0
               /\ Newest({"paused"}, log) = Newest(Lifecycle, log)
      <4>1. RunRests(log')
        BY <1>1, <3>2, PausedRests
      <4> QED BY <1>1, <2>1, <3>1, <3>2, <4>1
          DEF LogInv, LogTypeOK, Grows, Statuses, Executions, Settling
    <3>3. CASE log' = Append(log, "paused")
      <4>1. "paused" \in Events /\ RunRests(log')
        BY <1>1, <3>3, SettlingRests DEF Settling
      <4>2. log' \in Seq(Events) /\ Len(log') = Len(log) + 1 /\ Grows
        BY <1>1, <3>3, <4>1, Appended
      <4> QED BY <1>1, <2>1, <3>1, <4>1, <4>2
          DEF LogInv, LogTypeOK, Statuses, Executions, Settling
    <3> QED BY <1>8, <2>2, <3>2, <3>3 DEF Recover
  <2>3. CASE status \notin {"running", "stopping"}
    BY <1>1, <1>8, <2>1, <2>3 DEF Recover, LogInv, LogTypeOK, Grows, Executions
  <2> QED BY <2>2, <2>3
<1>9. CASE UNCHANGED written
  BY <1>9 DEF written, LogInv, LogTypeOK, Grows
<1> QED BY <1>2, <1>3, <1>4, <1>5, <1>6, <1>7, <1>8, <1>9 DEF Writer

LEMMA Least ==
    ASSUME NEW n \in Nat, NEW S \in SUBSET (0..n), S # {}
    PROVE  \E m \in S : \A k \in S : m <= k
<1> DEFINE T == {n + 1 - k : k \in S}
<1>1. n + 1 \in Nat /\ T \in SUBSET (1..n + 1) /\ T # {}
  <2>1. \A k \in S : n + 1 - k \in 1..n + 1
    OBVIOUS
  <2>2. T \subseteq 1..n + 1
    BY <2>1
  <2>3. T # {}
    OBVIOUS
  <2> HIDE DEF T
  <2> QED BY <2>2, <2>3
<1>2. Max(T) \in T /\ \A y \in T : y <= Max(T)
  <2> HIDE DEF T
  <2> QED BY <1>1, MaxIs
<1>3. PICK m \in S : Max(T) = n + 1 - m
  BY <1>2
<1>4. \A k \in S : n + 1 - k <= n + 1 - m
  BY <1>2, <1>3
<1>5. \A k \in S : m <= k
  BY <1>4
<1> QED BY <1>5

(***************************************************************************)
(* The stream.  What it has read of the status is still so when nothing    *)
(* has been written since, because a log only grows.                       *)
(***************************************************************************)
StreamInv ==
    /\ stream \in Streams /\ opens \in 0..MaxOpens /\ stream.cursor <= Len(log)
    /\ stream.pc = "last" /\ stream.over => stream.status \in Settling
    /\ stream.pc \in {"history", "last"} /\ stream.status \in Settling
         /\ Len(log) = stream.cursor => RunRests(log)

LEMMA StreamOfGrown ==
    ASSUME LogInv, StreamInv, Grows, opens' = opens,
           stream' = stream \/ stream' = [stream EXCEPT !.pc = "closed"]
    PROVE  StreamInv'
<1>1. stream \in Streams /\ stream.cursor \in Nat /\ Len(log) \in Nat /\ log \in Seq(Events)
  BY DEF StreamInv, Streams, Sequence, LogInv, LogTypeOK
<1>2. /\ stream' \in Streams /\ stream'.cursor = stream.cursor
      /\ stream'.pc = "closed" \/ stream' = stream
  BY <1>1 DEF Streams
<1>3. CASE log' = log
  BY <1>2, <1>3 DEF StreamInv
<1>4. CASE \E e \in Events : log' = Append(log, e)
  <2>1. Len(log') = Len(log) + 1
    BY <1>1, <1>4
  <2>2. stream'.cursor <= Len(log') /\ Len(log') # stream'.cursor
    BY <1>1, <1>2, <2>1 DEF StreamInv
  <2> QED BY <1>2, <2>2 DEF StreamInv
<1> QED BY <1>3, <1>4 DEF Grows

LEMMA StreamStep ==
    ASSUME LogInv, StreamInv, Open \/ Leave \/ Read
    PROVE  StreamInv' /\ UNCHANGED <<written, view>>
<1>1. /\ stream \in Streams /\ stream.cursor \in Nat /\ Len(log) \in Nat
      /\ Len(log) \in Sequence /\ status \in Statuses
      /\ (status \in Settling => RunRests(log))
  BY LogAssumption DEF StreamInv, Streams, Sequence, LogInv, LogTypeOK
<1>2. UNCHANGED <<written, view>>
  BY DEF Open, Leave, Read, List, ReadStatus, ReadHistory, End
<1>3. log' = log
  BY <1>2 DEF written
<1> SUFFICES StreamInv'
  BY <1>2
<1>4. CASE Open
  <2>1. PICK after \in {0, stream.cursor} :
          stream' = [Closed EXCEPT !.pc = "list", !.cursor = after]
    BY <1>4 DEF Open
  <2>2. Closed \in Streams /\ after \in Sequence /\ after <= Len(log)
    BY <1>1, LogAssumption DEF Closed, Streams, Statuses, Sequence, StreamInv
  <2>3. stream' \in Streams /\ stream'.pc = "list" /\ stream'.cursor = after
    BY <2>1, <2>2 DEF Streams
  <2>4. opens' \in 0..MaxOpens
    BY <1>4, OpensAssumption DEF Open, StreamInv
  <2> QED BY <1>3, <2>2, <2>3, <2>4 DEF StreamInv
<1>5. CASE Leave
  <2>1. stream' = [stream EXCEPT !.pc = "closed"] /\ opens' = opens
    BY <1>5 DEF Leave
  <2> QED BY <1>3, <2>1, StreamOfGrown DEF Grows
<1>6. CASE List
  <2>1. stream' = [stream EXCEPT !.pc = "status", !.cursor = Reached(log, @)] /\ opens' = opens
    BY <1>6 DEF List
  <2>2. Reached(log, stream.cursor) \in Sequence /\ Reached(log, stream.cursor) <= Len(log)
    BY <1>1 DEF Reached, StreamInv, Streams
  <2>3. stream' \in Streams /\ stream'.pc = "status" /\ stream'.cursor <= Len(log)
    BY <1>1, <2>1, <2>2 DEF Streams
  <2> QED BY <1>3, <2>1, <2>3 DEF StreamInv
<1>7. CASE ReadStatus
  <2>1. stream' = [stream EXCEPT !.pc = "history", !.status = status] /\ opens' = opens
    BY <1>7 DEF ReadStatus
  <2>2. /\ stream' \in Streams /\ stream'.pc = "history" /\ stream'.cursor = stream.cursor
        /\ stream'.status = status
    BY <1>1, <2>1 DEF Streams
  <2> QED BY <1>1, <1>3, <2>1, <2>2 DEF StreamInv
<1>8. CASE ReadHistory
  <2>1. PICK over \in BOOLEAN : /\ stream' = [stream EXCEPT !.pc = "last", !.over = over]
                                /\ over => stream.status \in Settling
    BY <1>8 DEF ReadHistory, HasType
  <2>2. /\ stream' \in Streams /\ stream'.pc = "last" /\ stream'.cursor = stream.cursor
        /\ stream'.status = stream.status /\ stream'.over = over
    BY <1>1, <2>1 DEF Streams
  <2>3. stream.pc = "history" /\ opens' = opens
    BY <1>8 DEF ReadHistory
  <2> QED BY <1>3, <2>1, <2>2, <2>3 DEF StreamInv
<1>9. CASE End
  <2>1. PICK pc \in {"closed", "list"} : stream' = [stream EXCEPT !.pc = pc]
    BY <1>9 DEF End
  <2>2. stream' \in Streams /\ stream'.pc = pc /\ stream'.cursor = stream.cursor
    BY <1>1, <2>1 DEF Streams
  <2>3. opens' = opens
    BY <1>9 DEF End
  <2> QED BY <1>3, <2>2, <2>3 DEF StreamInv
<1> QED BY <1>4, <1>5, <1>6, <1>7, <1>8, <1>9 DEF Read

(***************************************************************************)
(* The view.  Up to what it has folded, it shows what the log says.        *)
(***************************************************************************)
Marks == Settling \cup {"started", "resumed"}

Upto(types, k) == Newest(types, SubSeq(log, 1, k))
Verdict(i)     == IF i > view.reset /\ log[i] \in Settling THEN log[i] ELSE "none"

ViewInv ==
    /\ view \in Views
    /\ view.reset <= view.last /\ view.last <= view.fetched /\ view.fetched <= Len(log)
    /\ view.answer = view.shown
    /\ view.shown = Upto({"message"}, view.last)
    /\ view.verdict = Verdict(Upto(Marks, view.last))

LEMMA UptoIs ==
    ASSUME log \in Seq(Events), NEW k \in 0..Len(log), NEW types
    PROVE  /\ Upto(types, k) \in 0..k
           /\ Upto(types, k) # 0 => log[Upto(types, k)] \in types
           /\ \A i \in 1..k : log[i] \in types => i <= Upto(types, k)
<1> DEFINE l == SubSeq(log, 1, k)
           n == Newest(types, l)
<1>1. l \in Seq(Events) /\ Len(l) = k /\ k \in Nat /\ \A i \in 1..k : l[i] = log[i]
  OBVIOUS
<1>2. n \in 0..Len(l) /\ (n # 0 => l[n] \in types) /\ \A i \in 1..Len(l) : l[i] \in types => i <= n
  <2> HIDE DEF l
  <2> QED BY <1>1, NewestIs
<1>3. Upto(types, k) = n
  BY DEF Upto
<1> HIDE DEF l, n
<1> QED BY <1>1, <1>2, <1>3

LEMMA UptoUnique ==
    ASSUME log \in Seq(Events), NEW k \in 0..Len(log), NEW types,
           NEW n \in 0..k, n # 0 => log[n] \in types,
           \A i \in 1..k : log[i] \in types => i <= n
    PROVE  Upto(types, k) = n
<1> DEFINE m == Upto(types, k)
<1>1. m \in 0..k /\ (m # 0 => log[m] \in types) /\ \A i \in 1..k : log[i] \in types => i <= m
  BY UptoIs
<1> HIDE DEF m
<1>2. k \in Nat
  OBVIOUS
<1>3. m <= n /\ n <= m
  BY <1>1, <1>2
<1> QED BY <1>1, <1>2, <1>3 DEF m

LEMMA UptoOfGrown ==
    ASSUME log \in Seq(Events), Grows, NEW k \in 0..Len(log), NEW types
    PROVE  /\ Upto(types, k)' = Upto(types, k)
           /\ \A i \in 1..k : log'[i] = log[i]
<1>1. SubSeq(log', 1, k) = SubSeq(log, 1, k) /\ \A i \in 1..k : log'[i] = log[i]
  <2>1. CASE log' = log
    BY <2>1
  <2>2. ASSUME NEW e \in Events, log' = Append(log, e)
        PROVE  SubSeq(log', 1, k) = SubSeq(log, 1, k) /\ \A i \in 1..k : log'[i] = log[i]
    BY <2>2
  <2> QED BY <2>1, <2>2 DEF Grows
<1> QED BY <1>1 DEF Upto

LEMMA ViewOfGrown ==
    ASSUME LogInv, ViewInv, Grows, view' = view
    PROVE  ViewInv'
<1>1. /\ log \in Seq(Events) /\ Len(log) \in Nat /\ Len(log') \in Nat /\ Len(log) <= Len(log')
      /\ view.last \in 0..Len(log) /\ view.reset \in Nat /\ view.fetched \in Nat
  BY DEF LogInv, LogTypeOK, ViewInv, Views, Sequence, Grows
<1>2. \A types : Upto(types, view.last)' = Upto(types, view.last)
  BY <1>1, UptoOfGrown
<1>3. \A i \in 1..view.last : log'[i] = log[i]
  BY <1>1, UptoOfGrown
<1>4. Upto(Marks, view.last) \in 0..view.last
  BY <1>1, UptoIs
<1>5. Verdict(Upto(Marks, view.last))' = Verdict(Upto(Marks, view.last))
  BY <1>1, <1>2, <1>3, <1>4 DEF Verdict
<1> QED BY <1>1, <1>2, <1>5 DEF ViewInv

(***************************************************************************)
(* The fold.  What reduce_agent_events makes of some of the new events has *)
(* a closed form: it is the recursion's only solution, since of the        *)
(* numbers of events where another differs one would be the least.         *)
(***************************************************************************)
Hits(s, types)     == {i \in s : log[view.last + i] \in types}
LastHit(s, types)  == view.last + Max(Hits(s, types))
Mark(e)            == IF e \in Settling THEN e ELSE "none"
With(l, a, d)      == [view EXCEPT !.last = l, !.answer = a, !.verdict = d]

LastOf(s)    == IF s = {} THEN view.last ELSE view.last + Max(s)
AnswerOf(s)  == IF Hits(s, {"message"}) = {} THEN view.answer ELSE LastHit(s, {"message"})
VerdictOf(s) == IF Hits(s, Marks) = {} THEN view.verdict ELSE Mark(log[LastHit(s, Marks)])
Folding(s)   == With(LastOf(s), AnswerOf(s), VerdictOf(s))

LEMMA WithReduced ==
    ASSUME view \in Views, NEW l, NEW a, NEW d, NEW i
    PROVE  Reduced(With(l, a, d), i) =
             With(i, IF log[i] = "message" THEN i ELSE a,
                     IF log[i] \in Marks THEN Mark(log[i]) ELSE d)
<1> DEFINE R(x, y, z) == [pc |-> view.pc, last |-> x, fetched |-> view.fetched, verdict |-> z,
                          answer |-> y, shown |-> view.shown, reset |-> view.reset]
<1> DEFINE E(v, x, y, z) == [v EXCEPT !.last = x, !.answer = y, !.verdict = z]
<1>1. view = R(view.last, view.answer, view.verdict)
  BY DEF Views
<1>2. ASSUME NEW k, NEW g, NEW c, NEW x, NEW y, NEW z PROVE E(R(k, g, c), x, y, z) = R(x, y, z)
  <2>1. [R(k, g, c) EXCEPT !.last = x] = R(x, g, c)
    OBVIOUS
  <2>2. [R(x, g, c) EXCEPT !.answer = y] = R(x, y, c)
    OBVIOUS
  <2>3. [R(x, y, c) EXCEPT !.verdict = z] = R(x, y, z)
    OBVIOUS
  <2> HIDE DEF R
  <2> QED BY <2>1, <2>2, <2>3
<1>3. ASSUME NEW k, NEW g, NEW c PROVE R(k, g, c).answer = g /\ R(k, g, c).verdict = c
  OBVIOUS
<1> HIDE DEF R
<1>4. ASSUME NEW x, NEW y, NEW z PROVE With(x, y, z) = R(x, y, z)
  <2>1. With(x, y, z) = E(view, x, y, z)
    BY DEF With
  <2> HIDE DEF E
  <2> QED BY <1>1, <1>2, <2>1
<1> DEFINE w    == With(l, a, d)
           b(y) == IF log[i] = "message" THEN i ELSE y
           e(z) == IF log[i] \in Settling THEN log[i] ELSE IF SetsOff(log[i]) THEN "none" ELSE z
<1>5. Reduced(w, i) = E(w, i, b(w.answer), e(w.verdict))
  BY DEF Reduced
<1>6. w = R(l, a, d) /\ w.answer = a /\ w.verdict = d
  BY <1>3, <1>4
<1> HIDE DEF w, b, e, E
<1>7. Reduced(w, i) = R(i, b(a), e(d))
  BY <1>2, <1>5, <1>6
<1>8. log[i] \in Marks <=> log[i] \in Settling \/ SetsOff(log[i])
  BY DEF Marks, SetsOff
<1>9. e(d) = IF log[i] \in Marks THEN Mark(log[i]) ELSE d
  BY <1>8 DEF e, Mark
<1> QED BY <1>4, <1>7, <1>9 DEF w, b

LEMMA HitsStep ==
    ASSUME NEW n \in Nat, NEW s \in SUBSET (1..n), s # {}, NEW types
    PROVE  /\ Max(s) \in s
           /\ log[view.last + Max(s)] \in types =>
                 Hits(s, types) # {} /\ Max(Hits(s, types)) = Max(s)
           /\ log[view.last + Max(s)] \notin types => Hits(s, types) = Hits(s \ {Max(s)}, types)
<1> DEFINE x == Max(s)
           h == Hits(s, types)
<1>1. x \in s /\ \A y \in s : y <= x
  BY MaxIs
<1>2. h \in SUBSET (1..n) /\ \A y \in h : y \in s
  BY DEF Hits
<1> HIDE DEF x
<1>3. ASSUME log[view.last + x] \in types PROVE h # {} /\ Max(h) = x
  <2>1. x \in h
    BY <1>1, <1>3 DEF Hits
  <2>2. \A y \in h : y <= x
    BY <1>1, <1>2
  <2> HIDE DEF h
  <2> QED BY <1>2, <2>1, <2>2, MaxUnique
<1>4. ASSUME log[view.last + x] \notin types PROVE h = Hits(s \ {x}, types)
  BY <1>4 DEF Hits
<1> QED BY <1>1, <1>3, <1>4 DEF x

\* The closed form does what one step of the recursion does.
LEMMA FoldingStep ==
    ASSUME view \in Views, NEW n \in Nat, NEW s \in SUBSET (1..n), s # {}
    PROVE  Folding(s) = Reduced(Folding(s \ {Max(s)}), view.last + Max(s))
<1> DEFINE x == Max(s)
           t == s \ {Max(s)}
           i == view.last + Max(s)
           M == {"message"}
<1>1. Reduced(Folding(t), i) =
         With(i, IF log[i] = "message" THEN i ELSE AnswerOf(t),
                 IF log[i] \in Marks THEN Mark(log[i]) ELSE VerdictOf(t))
  BY WithReduced DEF Folding
<1>2. LastOf(s) = i
  BY DEF LastOf
<1>3. AnswerOf(s) = IF log[i] = "message" THEN i ELSE AnswerOf(t)
  <2>1. /\ log[i] \in M => Hits(s, M) # {} /\ Max(Hits(s, M)) = x
        /\ log[i] \notin M => Hits(s, M) = Hits(t, M)
    BY HitsStep
  <2> HIDE DEF t, x
  <2> QED BY <2>1 DEF AnswerOf, LastHit, x
<1>4. VerdictOf(s) = IF log[i] \in Marks THEN Mark(log[i]) ELSE VerdictOf(t)
  <2>1. /\ log[i] \in Marks => Hits(s, Marks) # {} /\ Max(Hits(s, Marks)) = x
        /\ log[i] \notin Marks => Hits(s, Marks) = Hits(t, Marks)
    BY HitsStep
  <2> HIDE DEF t, x
  <2> QED BY <2>1 DEF VerdictOf, LastHit, x
<1> QED BY <1>1, <1>2, <1>3, <1>4 DEF Folding

\* FoldLeft's recursion over the events numbered in a set.
Folds(g) == g = [s \in SUBSET (DOMAIN New) |->
                   IF s = {} THEN view ELSE Reduced(g[s \ {Max(s)}], New[Max(s)])]

LEMMA FoldingIs ==
    ASSUME view \in Views, view.last <= view.fetched
    PROVE  FoldLeft(Reduced, view, New) = Folding(1..view.fetched - view.last)
<1> DEFINE n == view.fetched - view.last
           g == CHOOSE h : Folds(h)
           h == [s \in SUBSET (DOMAIN New) |-> Folding(s)]
<1>1. n \in Nat /\ DOMAIN New = 1..n /\ \A i \in 1..n : New[i] = view.last + i
  BY DEF Views, Sequence, New
<1>2. FoldLeft(Reduced, view, New) = g[DOMAIN New]
  <2> HIDE DEF New
  <2> QED BY DEF FoldLeft, MapThenFoldSet, Folds
<1>3. Folding({}) = view
  BY DEF Folding, With, LastOf, AnswerOf, VerdictOf, Hits, Views
<1> HIDE DEF n
<1>4. Folds(h)
  <2>1. ASSUME NEW s \in SUBSET (1..n), s # {}
        PROVE  Folding(s) = Reduced(h[s \ {Max(s)}], New[Max(s)])
    <3>1. Max(s) \in 1..n
      BY <1>1, <2>1, MaxIs
    <3>2. s \ {Max(s)} \in SUBSET (DOMAIN New)
      BY <1>1
    <3>3. h[s \ {Max(s)}] = Folding(s \ {Max(s)}) /\ New[Max(s)] = view.last + Max(s)
      BY <1>1, <3>1, <3>2
    <3> HIDE DEF h
    <3> QED BY <1>1, <2>1, <3>3, FoldingStep
  <2>2. \A s \in SUBSET (DOMAIN New) :
           h[s] = IF s = {} THEN view ELSE Reduced(h[s \ {Max(s)}], New[Max(s)])
    BY <1>1, <1>3, <2>1
  <2>3. h = [s \in SUBSET (DOMAIN New) |-> h[s]]
    OBVIOUS
  <2> HIDE DEF h
  <2> QED BY <2>2, <2>3 DEF Folds
<1>5. Folds(g)
  <2> HIDE DEF Folds, h
  <2> QED BY <1>4
<1>6. \A s \in SUBSET (1..n) : g[s] = IF s = {} THEN view ELSE Reduced(g[s \ {Max(s)}], New[Max(s)])
  <2> HIDE DEF g
  <2> QED BY <1>1, <1>5 DEF Folds
<1> HIDE DEF g, h
<1> DEFINE Other == {k \in 0..n : g[1..k] # Folding(1..k)}
<1>7. ASSUME Other # {} PROVE FALSE
  <2>1. Other \in SUBSET (0..n)
    OBVIOUS
  <2>2. PICK k \in Other : \A j \in Other : k <= j
    <3> HIDE DEF Other
    <3> QED BY <1>1, <1>7, <2>1, Least
  <2>3. k \in 0..n /\ g[1..k] # Folding(1..k) /\ 1..0 = {}
    BY <2>2
  <2>4. k # 0
    BY <1>3, <1>6, <2>3
  <2>5. k \in 1..n /\ k - 1 \in 0..n /\ 1..k \in SUBSET (1..n) /\ 1..k # {} /\ k - 1 \notin Other
    <3>1. k \in Nat /\ n \in Nat /\ 1 <= k /\ k <= n
      BY <1>1, <2>3, <2>4
    <3>2. k - 1 \notin Other
      <4> HIDE DEF Other
      <4> QED BY <2>2, <3>1
    <3>3. k \in 1..n /\ k - 1 \in 0..n /\ k \in 1..k
      BY <3>1
    <3>4. 1..k \in SUBSET (1..n) /\ 1..k # {}
      <4>1. \A j \in 1..k : j \in 1..n
        BY <3>1
      <4> QED BY <3>3, <4>1
    <3> HIDE DEF Other
    <3> QED BY <3>2, <3>3, <3>4
  <2>6. g[1..k - 1] = Folding(1..k - 1)
    BY <2>5
  <2>7. Max(1..k) = k
    <3>1. k \in 1..k /\ 1..k \in SUBSET (1..k) /\ k \in Nat /\ \A y \in 1..k : y <= k
      BY <2>5
    <3> QED BY <3>1, MaxUnique
  <2>8. (1..k) \ {k} = 1..k - 1
    BY <2>5
  <2>9. g[1..k] = Reduced(Folding(1..k - 1), New[k])
    BY <1>6, <2>5, <2>6, <2>7, <2>8
  <2>10. Folding(1..k) = Reduced(Folding(1..k - 1), view.last + k)
    BY <1>1, <2>5, <2>7, <2>8, FoldingStep
  <2> QED BY <1>1, <2>3, <2>5, <2>9, <2>10
<1>8. g[1..n] = Folding(1..n)
  <2>1. n \in 0..n
    BY <1>1
  <2> QED BY <1>7, <2>1
<1> QED BY <1>1, <1>2, <1>8 DEF n

\* The newest event of some types, after the new ones are read.
LEMMA UptoFetched ==
    ASSUME LogInv, ViewInv, NEW types
    PROVE  LET s == 1..view.fetched - view.last IN
           /\ Upto(types, view.fetched) = IF Hits(s, types) = {} THEN Upto(types, view.last)
                                          ELSE LastHit(s, types)
           /\ Hits(s, types) # {} => /\ LastHit(s, types) \in view.last + 1..view.fetched
                                     /\ log[LastHit(s, types)] \in types
<1> DEFINE n == view.fetched - view.last
           h == Hits(1..n, types)
           u == Upto(types, view.last)
           i == IF h = {} THEN u ELSE view.last + Max(h)
<1>1. /\ log \in Seq(Events) /\ Len(log) \in Nat /\ view.last \in Nat /\ view.fetched \in Nat
      /\ n \in Nat /\ view.last \in 0..Len(log) /\ view.fetched \in 0..Len(log)
      /\ view.last <= view.fetched /\ view.fetched = view.last + n
  BY DEF LogInv, LogTypeOK, ViewInv, Views, Sequence
<1>2. /\ u \in 0..view.last /\ (u # 0 => log[u] \in types)
      /\ \A j \in 1..view.last : log[j] \in types => j <= u
  BY <1>1, UptoIs
<1>3. h \in SUBSET (1..n) /\ \A j \in 1..n : j \in h <=> log[view.last + j] \in types
  BY DEF Hits
<1> HIDE DEF n, h, u
<1> DEFINE m == Max(h)
<1>4. h # {} => /\ m \in 1..n /\ log[view.last + m] \in types /\ \A j \in h : j <= m
                /\ view.last + m \in view.last + 1..view.fetched
  <2>1. h # {} => m \in h /\ \A j \in h : j <= m
    BY <1>1, <1>3, MaxIs
  <2> HIDE DEF m
  <2>2. h # {} => m \in 1..n
    BY <1>3, <2>1
  <2>3. h # {} => log[view.last + m] \in types
    BY <1>3, <2>1, <2>2
  <2> QED BY <1>1, <2>1, <2>2, <2>3
<1> HIDE DEF m
<1>5. i \in 0..view.fetched /\ (i # 0 => log[i] \in types)
  <2>1. CASE h = {}
    BY <1>1, <1>2, <2>1
  <2>2. CASE h # {}
    <3>1. i = view.last + m
      BY <2>2 DEF m
    <3> HIDE DEF i
    <3> QED BY <1>1, <1>4, <2>2, <3>1
  <2> QED BY <2>1, <2>2
<1>6. ASSUME NEW j \in 1..view.fetched, log[j] \in types PROVE j <= i
  <2>1. i = IF h = {} THEN u ELSE view.last + m
    BY DEF m
  <2> HIDE DEF i
  <2>2. CASE j <= view.last
    <3>1. j <= u /\ u <= view.last
      BY <1>1, <1>2, <1>6, <2>2
    <3> QED BY <1>1, <1>2, <1>4, <2>1, <3>1
  <2>3. CASE ~(j <= view.last)
    <3>1. j - view.last \in 1..n /\ view.last + (j - view.last) = j
      BY <1>1, <2>3
    <3>2. j - view.last \in h
      BY <1>3, <1>6, <3>1
    <3>3. j - view.last <= m /\ m \in 1..n
      BY <1>4, <3>2
    <3> QED BY <1>1, <2>1, <3>2, <3>3
  <2> QED BY <2>2, <2>3
<1>7. Upto(types, view.fetched) = i
  <2> HIDE DEF i
  <2> QED BY <1>1, <1>5, <1>6, UptoUnique
<1> QED BY <1>4, <1>7 DEF LastHit, m, n, h, u

LEMMA ShowStep ==
    ASSUME LogInv, ViewInv, Show
    PROVE  ViewInv'
<1> DEFINE s == 1..view.fetched - view.last
           v == Folding(s)
           i == Upto(Marks, view.last)
           j == Upto(Marks, view.fetched)
<1>1. /\ view \in Views /\ log \in Seq(Events) /\ log' = log /\ Len(log) \in Nat
      /\ Len(log) \in Sequence /\ view.reset \in Nat /\ view.last \in Nat /\ view.fetched \in Nat
      /\ view.reset <= view.last /\ view.last <= view.fetched /\ view.fetched <= Len(log)
      /\ view.answer \in Sequence /\ Len(log) <= MaxLog + 1
  BY LogAssumption DEF LogInv, LogTypeOK, ViewInv, Views, Sequence, Show, written
<1>2. PICK pc \in {"left", "idle"} : view' = [v EXCEPT !.pc = pc, !.shown = v.answer]
  BY <1>1, FoldingIs DEF Show
<1>3. LastOf(s) = view.fetched
  <2>1. CASE view.fetched = view.last
    BY <1>1, <2>1 DEF LastOf
  <2>2. CASE view.fetched # view.last
    <3> DEFINE n == view.fetched - view.last
    <3>1. n \in Nat /\ n \in 1..n /\ \A y \in 1..n : y <= n
      BY <1>1, <2>2
    <3>2. Max(1..n) = n
      <4> HIDE DEF n
      <4> QED BY <3>1, MaxUnique
    <3> QED BY <1>1, <3>1, <3>2 DEF LastOf
  <2> QED BY <2>1, <2>2
<1>4. AnswerOf(s) = Upto({"message"}, view.fetched)
  BY UptoFetched DEF AnswerOf, ViewInv
<1>5. VerdictOf(s) = Verdict(j)
  <2>1. j = IF Hits(s, Marks) = {} THEN i ELSE LastHit(s, Marks)
    BY UptoFetched
  <2>2. CASE Hits(s, Marks) = {}
    BY <2>1, <2>2 DEF VerdictOf, ViewInv
  <2>3. CASE Hits(s, Marks) # {}
    <3>1. j = LastHit(s, Marks) /\ j \in view.last + 1..view.fetched
      BY <2>1, <2>3, UptoFetched
    <3>2. j > view.reset
      BY <1>1, <3>1
    <3> HIDE DEF j, s
    <3> QED BY <2>3, <3>1, <3>2 DEF VerdictOf, Verdict, Mark
  <2> QED BY <2>2, <2>3
<1>6. AnswerOf(s) \in Sequence /\ view.fetched \in Sequence
  <2>1. Upto({"message"}, view.fetched) \in 0..view.fetched
    BY <1>1, UptoIs
  <2>2. 0..view.fetched \subseteq Sequence
    BY <1>1, LogAssumption DEF Sequence
  <2> QED BY <1>1, <1>4, <2>1, <2>2
<1>7. VerdictOf(s) \in Settling \cup {"none"}
  BY <1>5 DEF Verdict
<1> HIDE DEF s
<1>8. /\ v \in Views /\ v.last = view.fetched /\ v.answer = AnswerOf(s)
      /\ v.verdict = VerdictOf(s) /\ v.fetched = view.fetched /\ v.reset = view.reset
  BY <1>1, <1>3, <1>6, <1>7 DEF Folding, With, Views
<1> HIDE DEF v
<1>9. /\ view' \in Views /\ view'.last = view.fetched /\ view'.answer = AnswerOf(s)
      /\ view'.shown = AnswerOf(s) /\ view'.verdict = VerdictOf(s)
      /\ view'.fetched = view.fetched /\ view'.reset = view.reset
  BY <1>2, <1>6, <1>8 DEF Views
<1>10. Upto({"message"}, view.last)' = AnswerOf(s) /\ Upto(Marks, view.last)' = j
  BY <1>1, <1>4, <1>9 DEF Upto
<1>11. Verdict(Upto(Marks, view.last))' = VerdictOf(s)
  BY <1>1, <1>5, <1>9, <1>10 DEF Verdict
<1> QED BY <1>1, <1>9, <1>10, <1>11 DEF ViewInv

LEMMA ViewStep ==
    ASSUME LogInv, ViewInv, Poll \/ Show \/ SelectResume
    PROVE  ViewInv'
<1>1. /\ view \in Views /\ log \in Seq(Events) /\ log' = log /\ Len(log) \in Nat
      /\ Len(log) \in Sequence /\ view.last \in Nat /\ view.last \in 0..Len(log)
      /\ view.fetched \in Nat
      /\ view.reset <= view.last /\ view.last <= view.fetched /\ view.fetched <= Len(log)
  BY LogAssumption
  DEF LogInv, LogTypeOK, ViewInv, Views, Sequence, Poll, Show, SelectResume, Resume, written
<1>2. CASE Poll
  <2>1. view' = [view EXCEPT !.pc = "status", !.fetched = Len(log)]
    BY <1>2 DEF Poll
  <2>2. /\ view' \in Views /\ view'.fetched = Len(log) /\ view'.last = view.last
        /\ view'.reset = view.reset /\ view'.answer = view.answer /\ view'.shown = view.shown
        /\ view'.verdict = view.verdict
    BY <1>1, <2>1 DEF Views
  <2> QED BY <1>1, <2>2 DEF ViewInv, Upto, Verdict
<1>3. CASE SelectResume
  <2>1. view' = [view EXCEPT !.verdict = "none", !.reset = view.last]
    BY <1>3 DEF SelectResume
  <2>2. /\ view' \in Views /\ view'.fetched = view.fetched /\ view'.last = view.last
        /\ view'.reset = view.last /\ view'.answer = view.answer /\ view'.shown = view.shown
        /\ view'.verdict = "none"
    BY <1>1, <2>1 DEF Views
  <2>3. Upto(Marks, view.last)' \in 0..view.last
    BY <1>1, <2>2, UptoIs DEF Upto
  <2>4. ~(Upto(Marks, view.last)' > view'.reset)
    BY <1>1, <2>2, <2>3
  <2>5. Verdict(Upto(Marks, view.last))' = "none"
    BY <2>4 DEF Verdict
  <2> QED BY <1>1, <2>2, <2>5 DEF ViewInv, Upto
<1> QED BY <1>2, <1>3, ShowStep

(***************************************************************************)
(* Together.                                                               *)
(***************************************************************************)
IInv == LogInv /\ StreamInv /\ ViewInv

LEMMA InitHolds == Init => IInv
<1> SUFFICES ASSUME Init PROVE IInv
  OBVIOUS
<1> USE LogAssumption, OpensAssumption
<1>1. log = <<>> /\ log \in Seq(Events) /\ Len(log) = 0 /\ 0 \in Sequence
  BY DEF Init, LogInit, Sequence
<1>2. LogInv
  BY <1>1 DEF Init, LogInit, LogInv, LogTypeOK, Statuses, Executions, Settling
<1>3. StreamInv
  BY <1>1 DEF Init, Closed, StreamInv, Streams, Statuses
<1>4. ViewInv
  <2>1. view \in Views
    BY <1>1 DEF Init, Unread, Views
  <2>2. \A types : Upto(types, 0) = 0
    BY <1>1, UptoIs
  <2> QED BY <1>1, <2>1, <2>2 DEF Init, Unread, ViewInv, Verdict
<1> QED BY <1>2, <1>3, <1>4 DEF IInv

LEMMA InvStep == IInv /\ [Next]_vars => IInv'
<1> SUFFICES ASSUME IInv, [Next]_vars PROVE IInv'
  OBVIOUS
<1> USE DEF IInv
<1>1. CASE Write \/ Restart \/ UNCHANGED vars
  <2>1. /\ Writer \/ Recover \/ UNCHANGED written
        /\ opens' = opens /\ view' = view
        /\ stream' = stream \/ stream' = [stream EXCEPT !.pc = "closed"]
    BY <1>1 DEF Write, Restart, vars
  <2>2. LogInv' /\ Grows
    BY <2>1, LogStep
  <2> QED BY <2>1, <2>2, StreamOfGrown, ViewOfGrown
<1>2. CASE Open \/ Leave \/ Read
  <2>1. StreamInv' /\ UNCHANGED <<written, view>>
    BY <1>2, StreamStep
  <2>2. LogInv' /\ Grows
    BY <2>1, LogStep
  <2> QED BY <2>1, <2>2, ViewOfGrown
<1>3. CASE Poll \/ Show \/ SelectResume
  <2>1. ViewInv'
    BY <1>3, ViewStep
  <2>2. /\ Writer \/ UNCHANGED written
        /\ opens' = opens /\ stream' = stream
    BY <1>3 DEF Poll, Show, SelectResume, Writer
  <2>3. LogInv' /\ Grows
    BY <2>2, LogStep
  <2> QED BY <2>1, <2>2, <2>3, StreamOfGrown
<1> QED BY <1>1, <1>2, <1>3 DEF Next

LEMMA InvHolds == Spec => []IInv
BY InitHolds, InvStep, PTL DEF Spec
-------------------------------------------------------------------------------
(* The theorems.                                                           *)

(* However the log is cut into polls, and whatever is written or resumed   *)
(* between them, the view shows the newest answer of what it has read and  *)
(* the verdict of the epoch that it has read into (reduce_agent_events).   *)
THEOREM ViewFolds == Spec => []Folded
<1>1. IInv => Folded
  BY LogAssumption
  DEF IInv, LogInv, StreamInv, ViewInv, Folded, TypeOK, Upto, Marks, Verdict
<1> QED BY <1>1, InvHolds, PTL

(* A stream ends by itself only when it has delivered the whole log and    *)
(* the log says that the run rests, whatever was written between its reads *)
(* of the events, the status and the history (generate).                   *)
THEOREM StreamsEndSettled == Spec => EndsSettled
<1>1. ASSUME IInv, stream.pc = "last", stream'.pc = "closed", End
      PROVE  stream.cursor = Len(log) /\ Newest(Lifecycle, log) = Newest(Settling, log)
  <2>1. stream.over /\ NothingNew(log, stream.cursor)
    BY <1>1 DEF End, IInv, StreamInv, Streams
  <2> QED BY <1>1, <2>1 DEF NothingNew, IInv, StreamInv, RunRests
<1> QED BY <1>1, InvHolds, PTL DEF EndsSettled
===============================================================================
