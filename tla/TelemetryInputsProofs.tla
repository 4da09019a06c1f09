----------------------- MODULE TelemetryInputsProofs -----------------------
(***************************************************************************)
(* Proofs about inputs set over HTTP, for any number of fields, clients,   *)
(* layouts, writes and sessions.                                           *)
(***************************************************************************)
EXTENDS TelemetryInputs, SequenceTheorems, TLAPS

(* The last of the first k entries of l that is s, as in InputLog.          *)
Last(l, s, k, n) ==
  n \in 0 .. k /\ (n > 0 => l[n] = s) /\ \A j \in (n + 1) .. k : l[j] # s

LEMMA LogLast ==
  ASSUME NEW s, NEW k, NEW n
  PROVE  Log!IsLast(s, k, n) <=> Last(log, s, k, n)
BY DEF Log!IsLast, Last

(* A longer log has the same entries where the shorter one has any.         *)
LEMMA AppendLast ==
  ASSUME NEW l \in Seq(Slots), NEW t \in Slots, NEW s \in Slots,
         NEW k \in 0 .. Len(l), NEW n
  PROVE  /\ Last(l, s, k, n) => Last(Append(l, t), s, k, n)
         /\ Last(Append(l, t), t, Len(l) + 1, Len(l) + 1)
         /\ s # t /\ Last(l, s, Len(l), n) => Last(Append(l, t), s, Len(l) + 1, n)
<1> DEFINE m == Append(l, t)
<1>1. /\ m \in Seq(Slots) /\ Len(m) = Len(l) + 1
      /\ \A i \in 1 .. Len(l) : m[i] = l[i]
      /\ m[Len(l) + 1] = t
  BY AppendProperties
<1>2. Len(l) \in Nat
  OBVIOUS
<1> HIDE DEF m
<1>3. Last(l, s, k, n) => Last(m, s, k, n)
  BY <1>1, <1>2 DEF Last
<1>4. Last(m, t, Len(l) + 1, Len(l) + 1)
  BY <1>1, <1>2 DEF Last
<1>5. ASSUME s # t, Last(l, s, Len(l), n)  PROVE Last(m, s, Len(l) + 1, n)
  BY <1>1, <1>2, <1>5 DEF Last
<1> QED BY <1>3, <1>4, <1>5 DEF m

LEMMA InitInv == Init => IInv
<1> SUFFICES ASSUME Init PROVE IInv
  OBVIOUS
<1>1. Len(log) = 0 /\ log \in Seq(Slots)
  BY DEF Init
<1>2. TypeOK
  <2>1. slot \in [Slots -> [pending : BOOLEAN, write : Nat, seq : Nat]]
    BY DEF Init, NothingStaged
  <2>2. known \in [Clients -> [session : Nat, layout : Layouts \cup {<<>>}]]
    BY DEF Init, NoLayout
  <2>3. posts \in Seq([seq : Nat, auto : BOOLEAN, meant : SUBSET Fields]) /\ Len(posts) = 0
    BY DEF Init
  <2>4. cursor \in 1 .. (SlotCount + 1) /\ session \in Sessions /\ counter \in 0 .. 0
        /\ covered \in 0 .. 0 /\ seen \in 0 .. 0
    BY InputsAssumption DEF Init, Sessions
  <2>5. /\ phase \in Phases /\ locked \in BOOLEAN /\ layout \in Layouts
        /\ answer \in [Clients -> Answers]
        /\ input \in [Slots -> Nat] /\ shown \in [Slots -> Nat]
    BY DEF Init, Phases, Answers
  <2> QED BY <1>1, <2>1, <2>2, <2>3, <2>4, <2>5 DEF TypeOK
<1>3. PrefixOK
  BY <1>1 DEF Init, PrefixOK, SlotOK, Passed, Log!IsLast, NothingStaged
<1>4. KnownOK
  BY DEF Init, KnownOK, SameSession, NoLayout
<1>5. SeqsOK /\ WritesReachTheFieldMeant /\ ServerSeqsIncrease
  BY <1>1 DEF SeqsOK, WritesReachTheFieldMeant, ServerSeqsIncrease
<1> QED BY <1>2, <1>3, <1>4, <1>5 DEF IInv

-----------------------------------------------------------------------------
(* What does not touch the log keeps what is said of it alone.              *)
LEMMA LogFrame ==
  ASSUME IInv, UNCHANGED <<counter, log, posts, sessionVars, clientVars>>
  PROVE  KnownOK' /\ SeqsOK' /\ WritesReachTheFieldMeant' /\ ServerSeqsIncrease'
<1>1. KnownOK'
  BY DEF IInv, KnownOK, SameSession, sessionVars, clientVars
<1>2. SeqsOK' /\ WritesReachTheFieldMeant' /\ ServerSeqsIncrease'
  BY DEF IInv, SeqsOK, WritesReachTheFieldMeant, ServerSeqsIncrease, sessionVars
<1> QED BY <1>1, <1>2

LEMMA StartStep == IInv /\ Start => IInv'
<1> SUFFICES ASSUME IInv, Start PROVE IInv'
  OBVIOUS
<1> USE DEF Start, engineVars, stagedVars
<1>1. TypeOK'
  BY DEF IInv, TypeOK, Phases, sessionVars, clientVars
<1>2. PrefixOK'
  BY DEF IInv, PrefixOK, SlotOK, Passed, Log!IsLast
<1> QED BY <1>1, <1>2, LogFrame DEF IInv

LEMMA StopSteps == IInv /\ (BeginStop \/ Stop) => IInv'
<1> SUFFICES ASSUME IInv, BeginStop \/ Stop PROVE IInv'
  OBVIOUS
<1> USE DEF BeginStop, Stop, engineVars, stagedVars
<1>1. TypeOK'
  BY DEF IInv, TypeOK, Phases, sessionVars, clientVars
<1>2. PrefixOK'
  BY DEF IInv, PrefixOK, SlotOK, Passed, Log!IsLast
<1> QED BY <1>1, <1>2, LogFrame DEF IInv

LEMMA BeginApplyStep == IInv /\ BeginApply => IInv'
<1> SUFFICES ASSUME IInv, BeginApply PROVE IInv'
  OBVIOUS
<1> USE DEF BeginApply, stagedVars
<1>1. TypeOK'
  BY InputsAssumption DEF IInv, TypeOK, Phases, sessionVars, clientVars
<1>2. \A s \in Slots : ~Passed(s) /\ ~Passed(s)'
  BY DEF Passed, Slots
<1>3. PrefixOK'
  BY <1>2 DEF IInv, PrefixOK, SlotOK, Log!IsLast
<1> QED BY <1>1, <1>3, LogFrame DEF IInv

LEMMA ApplyOneStep == IInv /\ ApplyOne => IInv'
<1> SUFFICES ASSUME IInv, ApplyOne PROVE IInv'
  OBVIOUS
<1> DEFINE c == cursor
<1>1. c \in Slots /\ cursor' = c + 1 /\ ~Passed(c) /\ phase' = "applying"
  BY InputsAssumption DEF IInv, TypeOK, ApplyOne, Passed, Slots
<1>2. TypeOK'
  <2>1. slot \in [Slots -> [pending : BOOLEAN, write : Nat, seq : Nat]] /\ input \in [Slots -> Nat]
    BY DEF IInv, TypeOK
  <2>2. slot' \in [Slots -> [pending : BOOLEAN, write : Nat, seq : Nat]]
    <3>1. slot' = [slot EXCEPT ![c].pending = FALSE]
      BY DEF ApplyOne
    <3> QED BY <1>1, <2>1, <3>1
  <2>3. input' \in [Slots -> Nat]
    BY <1>1, <2>1 DEF ApplyOne
  <2>4. cursor' \in 1 .. (SlotCount + 1)
    BY <1>1, InputsAssumption DEF Slots
  <2> QED BY <2>2, <2>3, <2>4 DEF IInv, TypeOK, ApplyOne, sessionVars, clientVars
<1>3. \A s \in Slots : s # c => (Passed(s)' <=> Passed(s))
  BY DEF IInv, TypeOK, ApplyOne, Passed, Slots
<1>4. ASSUME NEW s \in Slots  PROVE SlotOK(s)'
  <2>1. SlotOK(s)
    BY DEF IInv, PrefixOK
  <2>2. CASE s = c
    <3>1. ~slot'[s].pending
      BY <1>1, <2>2 DEF ApplyOne, IInv, TypeOK
    <3>2. input'[s] = IF slot[s].pending THEN slot[s].write ELSE input[s]
      BY <1>1, <2>2 DEF ApplyOne, IInv, TypeOK
    <3>3. Log!IsLast(s, Len(log), input'[s])
      <4>1. CASE slot[s].pending
        BY <2>1, <3>2, <4>1 DEF SlotOK
      <4>2. CASE ~slot[s].pending
        BY <2>1, <3>2, <4>2 DEF SlotOK
      <4> QED BY <4>1, <4>2
    <3>4. Log!IsLast(s, Len(log), input[s])'
      BY <3>3 DEF Log!IsLast, ApplyOne
    <3>5. Passed(s)'
      BY <1>1, <2>2 DEF Passed, Slots
    <3> QED BY <3>1, <3>4, <3>5 DEF SlotOK
  <2>3. CASE s # c
    <3>1. slot'[s] = slot[s] /\ input'[s] = input[s]
      BY <1>1, <2>3 DEF ApplyOne, IInv, TypeOK
    <3> QED BY <1>3, <2>1, <2>3, <3>1 DEF SlotOK, ApplyOne, Log!IsLast
  <2> QED BY <2>2, <2>3
<1>5. PrefixOK'
  BY <1>4 DEF IInv, PrefixOK, ApplyOne, Log!IsLast
<1> QED BY <1>2, <1>5, LogFrame DEF IInv, ApplyOne

LEMMA EndApplyStep == IInv /\ EndApply => IInv'
<1> SUFFICES ASSUME IInv, EndApply PROVE IInv'
  OBVIOUS
<1> USE DEF EndApply, stagedVars
<1>1. TypeOK'
  <2>1. covered' \in 0 .. Len(log)
    BY DEF IInv, TypeOK
  <2> QED BY <2>1 DEF IInv, TypeOK, Phases, sessionVars, clientVars
<1>2. ASSUME NEW s \in Slots  PROVE SlotOK(s)'
  <2>1. Passed(s) /\ ~Passed(s)'
    BY InputsAssumption DEF IInv, TypeOK, Passed, Slots
  <2>2. SlotOK(s) /\ ~slot[s].pending /\ Log!IsLast(s, Len(log), input[s])
    BY <2>1 DEF IInv, PrefixOK, SlotOK
  <2> QED BY <2>1, <2>2 DEF SlotOK, Log!IsLast
<1>3. seen' <= covered'
  BY DEF IInv, TypeOK
<1>4. PrefixOK'
  BY <1>2, <1>3 DEF IInv, PrefixOK, Log!IsLast
<1> QED BY <1>1, <1>4, LogFrame DEF IInv

LEMMA TickStep == IInv /\ TickWorkloads => IInv'
<1> SUFFICES ASSUME IInv, TickWorkloads PROVE IInv'
  OBVIOUS
<1> USE DEF TickWorkloads, stagedVars
<1>1. TypeOK'
  BY DEF IInv, TypeOK, Phases, sessionVars, clientVars
<1>2. \A s \in Slots : ~Passed(s) /\ ~Passed(s)'
  BY DEF Passed
<1>3. \A s \in Slots : SlotOK(s)' /\ Log!IsLast(s, seen, shown[s])'
  BY <1>2 DEF IInv, PrefixOK, SlotOK, Log!IsLast
<1>4. PrefixOK'
  BY <1>3 DEF IInv, TypeOK, PrefixOK
<1> QED BY <1>1, <1>4, LogFrame DEF IInv

LEMMA RestartStep == IInv /\ Restart => IInv'
<1> SUFFICES ASSUME IInv, Restart PROVE IInv'
  OBVIOUS
<1> USE DEF Restart, Fresh
<1>1. Len(log') = 0 /\ log' \in Seq(Slots)
  OBVIOUS
<1>2. TypeOK'
  <2>1. slot' \in [Slots -> [pending : BOOLEAN, write : Nat, seq : Nat]]
    BY DEF NothingStaged
  <2>2. posts' \in Seq([seq : Nat, auto : BOOLEAN, meant : SUBSET Fields]) /\ Len(posts') = 0
    OBVIOUS
  <2>3. cursor' \in 1 .. (SlotCount + 1) /\ session' \in Sessions /\ counter' \in 0 .. 0
        /\ covered' \in 0 .. 0 /\ seen' \in 0 .. 0
    BY InputsAssumption DEF IInv, TypeOK, Sessions
  <2>4. /\ phase' \in Phases /\ locked' \in BOOLEAN /\ layout' \in Layouts
        /\ input' \in [Slots -> Nat] /\ shown' \in [Slots -> Nat]
    BY DEF Phases
  <2>5. UNCHANGED <<known, answer>>
    BY DEF clientVars
  <2> QED BY <1>1, <2>1, <2>2, <2>3, <2>4, <2>5 DEF IInv, TypeOK
<1>3. PrefixOK'
  BY <1>1 DEF PrefixOK, SlotOK, Passed, Log!IsLast, NothingStaged
<1>4. KnownOK'
  BY DEF IInv, TypeOK, Sessions, KnownOK, SameSession, clientVars
<1>5. SeqsOK' /\ WritesReachTheFieldMeant' /\ ServerSeqsIncrease'
  BY <1>1 DEF SeqsOK, WritesReachTheFieldMeant, ServerSeqsIncrease
<1> QED BY <1>2, <1>3, <1>4, <1>5 DEF IInv

LEMMA FetchStep ==
  ASSUME IInv, NEW cl \in Clients, FetchLayout(cl)
  PROVE  IInv'
<1> USE DEF FetchLayout, engineVars, stagedVars, sessionVars
<1>1. TypeOK'
  BY DEF IInv, TypeOK, Sessions
<1>2. PrefixOK'
  BY DEF IInv, PrefixOK, SlotOK, Passed, Log!IsLast
<1>3. KnownOK'
  BY DEF IInv, TypeOK, Sessions, KnownOK, SameSession
<1>4. SeqsOK' /\ WritesReachTheFieldMeant' /\ ServerSeqsIncrease'
  BY DEF IInv, SeqsOK, WritesReachTheFieldMeant, ServerSeqsIncrease
<1> QED BY <1>1, <1>2, <1>3, <1>4 DEF IInv

(* A POST that is refused changes only the answer.                          *)
LEMMA RefusalStep ==
  ASSUME IInv, NEW cl \in Clients, NEW a \in Answers, Answer(cl, a),
         UNCHANGED <<phase, engineVars, stagedVars, sessionVars, known>>
  PROVE  IInv'
<1> USE DEF Answer, engineVars, stagedVars, sessionVars
<1>1. TypeOK'
  BY DEF IInv, TypeOK
<1>2. PrefixOK'
  BY DEF IInv, PrefixOK, SlotOK, Passed, Log!IsLast
<1>3. KnownOK'
  BY DEF IInv, KnownOK, SameSession
<1>4. SeqsOK' /\ WritesReachTheFieldMeant' /\ ServerSeqsIncrease'
  BY DEF IInv, SeqsOK, WritesReachTheFieldMeant, ServerSeqsIncrease
<1> QED BY <1>1, <1>2, <1>3, <1>4 DEF IInv

(* Staging: the new entry is the last of its slot, and no other slot's.     *)
LEMMA StageStep ==
  ASSUME IInv, NEW cl \in Clients, NEW t \in Slots, NEW seq \in Nat,
         Stage(cl, t, {layout[t]}, seq),
         UNCHANGED <<phase, engineVars, sessionVars, known>>
  PROVE  IInv'
<1> DEFINE n == Len(log)
<1> DEFINE number == IF seq = 0 THEN counter + 1 ELSE seq
<1> DEFINE post == [seq |-> number, auto |-> seq = 0, meant |-> {layout[t]}]
<1>1. log \in Seq(Slots) /\ n \in Nat /\ counter \in 0 .. n /\ number \in Nat
  BY DEF IInv, TypeOK
<1>2. log' = Append(log, t) /\ log' \in Seq(Slots) /\ Len(log') = n + 1
      /\ (\A i \in 1 .. n : log'[i] = log[i]) /\ log'[n + 1] = t
  BY <1>1, AppendProperties DEF Stage
<1>3. post \in [seq : Nat, auto : BOOLEAN, meant : SUBSET Fields]
  BY <1>1, InputsAssumption DEF IInv, TypeOK
<1>4. posts' = Append(posts, post) /\ posts \in Seq([seq : Nat, auto : BOOLEAN, meant : SUBSET Fields])
      /\ Len(posts) = n
  BY DEF Stage, IInv, TypeOK
<1>5. posts' \in Seq([seq : Nat, auto : BOOLEAN, meant : SUBSET Fields]) /\ Len(posts') = n + 1
      /\ (\A i \in 1 .. n : posts'[i] = posts[i]) /\ posts'[n + 1] = post
  BY <1>3, <1>4, AppendProperties
<1>6. counter' = IF seq = 0 THEN counter + 1 ELSE counter
  BY DEF Stage
<1>7. slot' = [slot EXCEPT ![t] = [pending |-> TRUE, write |-> n + 1, seq |-> number]]
  BY DEF Stage
<1>8. ~locked /\ answer' = [answer EXCEPT ![cl] = "accepted"]
  BY DEF Stage, Answer
<1>9. covered \in 0 .. n /\ seen \in 0 .. n
  BY DEF IInv, TypeOK
<1> HIDE DEF n, number, post
<1>10. TypeOK'
  <2>1. slot' \in [Slots -> [pending : BOOLEAN, write : Nat, seq : Nat]]
    BY <1>1, <1>7 DEF IInv, TypeOK
  <2>2. counter' \in 0 .. (n + 1)
    BY <1>1, <1>6
  <2>3. answer' \in [Clients -> Answers]
    BY <1>8 DEF IInv, TypeOK, Answers
  <2>4. covered' \in 0 .. (n + 1) /\ seen' \in 0 .. (n + 1)
    BY <1>1, <1>9 DEF engineVars
  <2> QED BY <1>2, <1>5, <2>1, <2>2, <2>3, <2>4 DEF IInv, TypeOK, engineVars, sessionVars
<1>11. ASSUME NEW s \in Slots  PROVE SlotOK(s)'
  <2>1. ~Passed(s) /\ ~Passed(s)'
    BY <1>8 DEF IInv, PrefixOK, Passed
  <2>2. Last(log, s, covered, input[s])
    BY <2>1, LogLast DEF IInv, PrefixOK, SlotOK
  <2>3. Log!IsLast(s, covered, input[s])'
    BY <1>1, <1>2, <1>9, <2>2, AppendLast DEF Log!IsLast, Last, engineVars
  <2>4. CASE s = t
    <3>1. slot'[s].pending /\ slot'[s].write = n + 1
      BY <1>7, <2>4 DEF IInv, TypeOK
    <3>2. Last(log', t, n + 1, n + 1)
      BY <1>1, <1>2, AppendLast DEF n
    <3>3. Log!IsLast(s, Len(log), slot[s].write)'
      BY <1>2, <2>4, <3>1, <3>2 DEF Log!IsLast, Last
    <3>4. slot'[s].write > covered'
      BY <1>1, <1>9, <3>1 DEF engineVars
    <3> QED BY <2>1, <2>3, <3>1, <3>3, <3>4 DEF SlotOK
  <2>5. CASE s # t
    <3>1. slot'[s] = slot[s] /\ input' = input /\ covered' = covered
      BY <1>7, <2>5 DEF IInv, TypeOK, engineVars
    <3>2. \A w : Last(log, s, n, w) => Last(log', s, n + 1, w)
      BY <1>1, <1>2, <2>5, AppendLast DEF n
    <3>3. \A w : Log!IsLast(s, Len(log), w) => Last(log', s, n + 1, w)
      BY <3>2, LogLast DEF n
    <3>4. SlotOK(s)
      BY DEF IInv, PrefixOK
    <3>5. CASE slot[s].pending
      <4>1. slot'[s].write > covered' /\ Last(log', s, n + 1, slot'[s].write)
        BY <3>1, <3>3, <3>4, <3>5 DEF SlotOK
      <4>2. Log!IsLast(s, Len(log), slot[s].write)'
        BY <1>2, <4>1 DEF Log!IsLast, Last
      <4> QED BY <2>1, <2>3, <3>1, <3>5, <4>1, <4>2 DEF SlotOK
    <3>6. CASE ~slot[s].pending
      <4>1. Last(log', s, n + 1, input'[s])
        BY <3>1, <3>3, <3>4, <3>6 DEF SlotOK
      <4>2. Log!IsLast(s, Len(log), input[s])'
        BY <1>2, <4>1 DEF Log!IsLast, Last
      <4> QED BY <2>1, <2>3, <3>1, <3>6, <4>2 DEF SlotOK
    <3> QED BY <3>5, <3>6
  <2> QED BY <2>4, <2>5
<1>12. ASSUME NEW s \in Slots  PROVE Log!IsLast(s, seen, shown[s])'
  <2>1. Last(log, s, seen, shown[s])
    BY LogLast DEF IInv, PrefixOK
  <2> QED BY <1>1, <1>2, <1>9, <2>1, AppendLast DEF Log!IsLast, Last, engineVars
<1>13. PrefixOK'
  BY <1>11, <1>12 DEF IInv, PrefixOK, engineVars
<1>14. KnownOK'
  BY DEF IInv, KnownOK, SameSession, sessionVars
<1>15. SeqsOK'
  <2>1. ASSUME NEW k \in 1 .. (n + 1), posts'[k].auto  PROVE posts'[k].seq <= counter'
    <3>1. CASE k = n + 1
      BY <1>1, <1>5, <1>6, <2>1, <3>1 DEF post, number
    <3>2. CASE k \in 1 .. n
      <4>1. posts'[k] = posts[k] /\ posts[k].seq <= counter
        BY <1>5, <2>1, <3>2 DEF IInv, SeqsOK, n
      <4>2. posts[k] \in [seq : Nat, auto : BOOLEAN, meant : SUBSET Fields]
        BY <1>4, <3>2, ElementOfSeq
      <4> QED BY <1>1, <1>6, <4>1, <4>2
    <3> QED BY <1>1, <3>1, <3>2
  <2> QED BY <1>2, <2>1 DEF SeqsOK
<1>16. WritesReachTheFieldMeant'
  <2>1. ASSUME NEW k \in 1 .. (n + 1)  PROVE posts'[k].meant = {layout'[log'[k]]}
    <3>1. CASE k = n + 1
      BY <1>2, <1>5, <3>1 DEF post, sessionVars
    <3>2. CASE k \in 1 .. n
      BY <1>2, <1>5, <3>2 DEF IInv, WritesReachTheFieldMeant, sessionVars, n
    <3> QED BY <1>1, <3>1, <3>2
  <2> QED BY <1>2, <2>1 DEF WritesReachTheFieldMeant
<1>17. ServerSeqsIncrease'
  <2>1. ASSUME NEW j \in 1 .. (n + 1), NEW k \in 1 .. (n + 1), j < k,
               posts'[j].auto, posts'[k].auto
        PROVE  posts'[j].seq < posts'[k].seq
    <3>1. j \in 1 .. n /\ posts'[j] = posts[j]
      BY <1>1, <1>5, <2>1
    <3>2. CASE k = n + 1
      <4>1. seq = 0 /\ posts'[k].seq = counter + 1
        BY <1>5, <2>1, <3>2 DEF post, number
      <4>2. posts[j].seq <= counter
        BY <2>1, <3>1 DEF IInv, SeqsOK, n
      <4>3. posts[j] \in [seq : Nat, auto : BOOLEAN, meant : SUBSET Fields]
        BY <1>4, <3>1, ElementOfSeq
      <4> QED BY <1>1, <3>1, <4>1, <4>2, <4>3
    <3>3. CASE k \in 1 .. n
      BY <1>5, <2>1, <3>1, <3>3 DEF IInv, ServerSeqsIncrease, n
    <3> QED BY <1>1, <3>2, <3>3
  <2> QED BY <1>2, <2>1 DEF ServerSeqsIncrease
<1> QED BY <1>10, <1>13, <1>14, <1>15, <1>16, <1>17 DEF IInv

-----------------------------------------------------------------------------
(* A request that is accepted names one field only.                         *)
LEMMA NamedField ==
  ASSUME IInv, NEW cl \in Clients, SameSession(cl), NEW h, NEW path, NEW s \in Slots,
         Target(h, path, s)
  PROVE  Named(cl, h, path) = {layout[s]}
<1>1. known[cl].layout = layout /\ 0 \notin Slots
  BY DEF IInv, KnownOK, Slots
<1>2. {f \in {path} : Writable(f)} = {f \in {layout[s]} : f = path /\ Writable(path)}
  BY DEF Target, ByPath, Writable
<1>3. Writable(layout[s])
  BY DEF Writable
<1>4. CASE h = 0
  BY <1>1, <1>3, <1>4 DEF Named, Target, ByPath
<1>5. CASE h = s
  <2>1. {known[cl].layout[r] : r \in Slots \cap {h}} = {layout[s]}
    BY <1>1, <1>5
  <2> QED BY <1>2, <2>1 DEF Named
<1> QED BY <1>4, <1>5 DEF Target

LEMMA PostStep ==
  ASSUME IInv, NEW cl \in Clients, NEW h \in Slots \cup {0}, NEW path \in Fields,
         NEW seq \in ClientSeqs, Post(cl, h, path, seq)
  PROVE  IInv'
<1>1. seq \in Nat
  BY InputsAssumption
<1>2. ASSUME NEW s \in Slots, SameSession(cl), Target(h, path, s),
             Stage(cl, s, Named(cl, h, path), seq)
      PROVE  IInv'
  <2>1. Stage(cl, s, {layout[s]}, seq)
    BY <1>2, NamedField
  <2> QED BY <1>1, <2>1, StageStep DEF Post
<1>3. ASSUME NEW a \in Answers, Refuse(cl, a)  PROVE IInv'
  BY <1>3, RefusalStep DEF Post, Refuse
<1> QED BY <1>2, <1>3 DEF Post, Answers

LEMMA StutterStep == IInv /\ UNCHANGED vars => IInv'
<1> SUFFICES ASSUME IInv, UNCHANGED vars PROVE IInv'
  OBVIOUS
<1> USE DEF vars, engineVars, stagedVars
<1>1. TypeOK'
  BY DEF IInv, TypeOK, sessionVars, clientVars
<1>2. PrefixOK'
  BY DEF IInv, PrefixOK, SlotOK, Passed, Log!IsLast
<1> QED BY <1>1, <1>2, LogFrame DEF IInv

LEMMA NextInv == IInv /\ [Next]_vars => IInv'
<1> SUFFICES ASSUME IInv, Next PROVE IInv'
  BY StutterStep
<1>1. CASE EngineStep
  BY <1>1, StartStep, BeginApplyStep, ApplyOneStep, EndApplyStep, TickStep, StopSteps
     DEF EngineStep
<1>2. CASE ClientStep
  BY <1>2, FetchStep, PostStep DEF ClientStep
<1>3. CASE Restart
  BY <1>3, RestartStep
<1> QED BY <1>1, <1>2, <1>3 DEF Next

(* TelemetryServer.cpp:277-306,488-622: what is in memory, what waits in    *)
(* the slots and what the workloads saw always is what the accepted writes, *)
(* in their order, say.                                                     *)
THEOREM InputsInvariant == Spec => []IInv
<1>1. Init => IInv
  BY InitInv
<1>2. IInv /\ [Next]_vars => IInv'
  BY NextInv
<1> QED BY <1>1, <1>2, PTL DEF Spec

(* No value ever reaches another field than the one its sender meant.       *)
THEOREM MeaningTheorem == Spec => []WritesReachTheFieldMeant
<1>1. IInv => WritesReachTheFieldMeant
  BY DEF IInv
<1> QED BY <1>1, InputsInvariant, PTL

(* The server's own numbers increase in the order of acceptance.            *)
THEOREM SeqTheorem == Spec => []ServerSeqsIncrease
<1>1. IInv => ServerSeqsIncrease
  BY DEF IInv
<1> QED BY <1>1, InputsInvariant, PTL

-----------------------------------------------------------------------------
(* Refinement.                                                              *)

LEMMA InitRefines == Init => Log!Init
BY DEF Init, Log!Init

LEMMA TickRefines == IInv /\ TickWorkloads => Log!Tick
<1> SUFFICES ASSUME IInv, TickWorkloads PROVE Log!Tick
  OBVIOUS
<1>1. log' = log /\ shown' = input /\ seen' = covered
  BY DEF TickWorkloads, stagedVars
<1>2. covered \in seen .. Len(log)
  BY DEF IInv, TypeOK, PrefixOK
<1>3. \A s \in Slots : Log!IsLast(s, covered, input[s])
  BY DEF IInv, PrefixOK, SlotOK, Passed, TickWorkloads
<1>4. \A s \in Slots : input[s] \in 0 .. covered
  BY <1>3 DEF Log!IsLast
<1>5. input \in [Slots -> 0 .. covered]
  BY <1>4 DEF IInv, TypeOK
<1> QED BY <1>1, <1>2, <1>3, <1>5 DEF Log!Tick

LEMMA StepRefines == IInv /\ [Next]_vars => [Log!Next]_Log!vars
<1> SUFFICES ASSUME IInv, [Next]_vars PROVE Log!Next \/ UNCHANGED Log!vars
  OBVIOUS
<1> USE DEF Log!vars
<1>1. ASSUME NEW cl \in Clients, NEW t \in Slots, NEW meant, NEW seq,
             Stage(cl, t, meant, seq), UNCHANGED engineVars
      PROVE  Log!Accept
  BY <1>1 DEF Stage, Log!Accept, engineVars
<1>2. CASE EngineStep
  <2>1. CASE TickWorkloads
    BY <2>1, TickRefines DEF Log!Next
  <2>2. CASE Start \/ BeginApply \/ ApplyOne \/ EndApply \/ BeginStop \/ Stop
    BY <2>2 DEF Start, BeginApply, ApplyOne, EndApply, BeginStop, Stop, stagedVars, engineVars
  <2> QED BY <1>2, <2>1, <2>2 DEF EngineStep
<1>3. CASE ClientStep
  <2>1. ASSUME NEW cl \in Clients, FetchLayout(cl)  PROVE UNCHANGED Log!vars
    BY <2>1 DEF FetchLayout, stagedVars, engineVars
  <2>2. ASSUME NEW cl \in Clients, NEW h, NEW path, NEW seq, Post(cl, h, path, seq)
        PROVE  Log!Accept \/ UNCHANGED Log!vars
    BY <1>1, <2>2 DEF Post, Refuse, stagedVars, engineVars
  <2> QED BY <1>3, <2>1, <2>2 DEF ClientStep, Log!Next
<1>4. CASE Restart
  BY <1>4 DEF Restart, Fresh, Log!Restart, Log!Next
<1>5. CASE UNCHANGED vars
  BY <1>5 DEF vars, stagedVars, engineVars
<1> QED BY <1>2, <1>3, <1>4, <1>5 DEF Next

(* The tick thread, the mutex and the slots implement the log of InputLog:  *)
(* a tick sees a prefix of the accepted writes.                             *)
THEOREM InputsImplementLog == Spec => ImplementsLog
<1>1. Init => Log!Init
  BY InitRefines
<1>2. IInv /\ [Next]_vars => [Log!Next]_Log!vars
  BY StepRefines
<1> QED BY <1>1, <1>2, InputsInvariant, PTL DEF Spec, ImplementsLog, Log!Spec
=============================================================================
