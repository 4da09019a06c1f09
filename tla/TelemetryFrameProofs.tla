------------------------ MODULE TelemetryFrameProofs ------------------------
(***************************************************************************)
(* Proofs about the telemetry frame sequence, for every buffer size, every *)
(* set of clients, every number of frames and every even counter span.     *)
(***************************************************************************)
EXTENDS TelemetryFrame, SequenceTheorems, TLAPS

(* Division with remainder, which the provers know only term by term.       *)
LEMMA DivMod ==
  ASSUME NEW x \in Nat, NEW S \in Nat, S > 0
  PROVE  /\ x = S * (x \div S) + (x % S)
         /\ x % S \in 0 .. (S - 1) /\ x \div S \in Nat
OBVIOUS

LEMMA ModUnique ==
  ASSUME NEW S \in Nat, NEW q \in Int, NEW r \in 0 .. (S - 1),
         NEW u \in Int, NEW v \in 0 .. (S - 1), S * q + r = S * u + v
  PROVE  r = v
<1>1. CASE q >= u + 1
  <2>1. S * (q - u) >= S
    BY <1>1
  <2> QED BY <1>1, <2>1
<1>2. CASE u >= q + 1
  <2>1. S * (u - q) >= S
    BY <1>2
  <2> QED BY <1>2, <2>1
<1>3. CASE u = q
  BY <1>3
<1> QED BY <1>1, <1>2, <1>3

(* Two counts less than a span apart have the same residue only if equal.   *)
LEMMA ModEqual ==
  ASSUME NEW a \in Nat, NEW b \in Nat, NEW S \in Nat, S > 0,
         a >= b, a - b < S, a % S = b % S
  PROVE  a = b
<1> DEFINE q == a \div S
<1> DEFINE u == b \div S
<1> DEFINE r == a % S
<1>1. q \in Nat /\ u \in Nat /\ r \in 0 .. (S - 1) /\ a = S * q + r /\ b = S * u + r
  BY DivMod
<1> HIDE DEF q, u, r
<1>2. S * (q - u) < S /\ S * (q - u) >= 0
  BY <1>1
<1>3. q - u < 1 /\ q - u >= 0
  BY <1>1, <1>2
<1> QED BY <1>1, <1>3

LEMMA ModSuccessor ==
  ASSUME NEW x \in Nat, NEW S \in Nat, S > 0
  PROVE  ((x % S) + 1) % S = (x + 1) % S
<1> DEFINE q == x \div S
<1> DEFINE r == x % S
<1> DEFINE y == x + 1
<1>1. x = S * q + r /\ q \in Nat /\ r \in 0 .. (S - 1)
  BY DivMod
<1>2. y = S * (y \div S) + (y % S) /\ y % S \in 0 .. (S - 1) /\ y \div S \in Nat
  BY DivMod
<1> HIDE DEF q, r
<1>3. CASE r + 1 < S
  <2>1. (r + 1) % S = r + 1
    BY <1>1, <1>3
  <2>2. y = S * q + (r + 1)
    BY <1>1
  <2>3. y % S = r + 1
    BY <1>1, <1>2, <1>3, <2>2, ModUnique
  <2> QED BY <2>1, <2>3 DEF r
<1>4. CASE r + 1 = S
  <2>1. (r + 1) % S = 0
    BY <1>1, <1>4
  <2>2. y = S * (q + 1) + 0
    BY <1>1, <1>4
  <2>3. y % S = 0
    BY <1>1, <1>2, <1>4, <2>2, ModUnique
  <2> QED BY <2>1, <2>3 DEF r
<1> QED BY <1>1, <1>3, <1>4

(* An even span keeps the parity of a count that wraps.                     *)
LEMMA ModParity ==
  ASSUME NEW x \in Nat, NEW S \in Nat, S > 0, S % 2 = 0
  PROVE  (x % S) % 2 = x % 2
<1> DEFINE q == x \div S
<1> DEFINE r == x % S
<1> DEFINE h == S \div 2
<1>1. x = S * q + r /\ q \in Nat /\ r \in Nat
  BY DivMod
<1>2. S = 2 * h /\ h \in Nat
  OBVIOUS
<1> DEFINE m == h * q
<1> HIDE DEF q, r, h
<1>3. x = 2 * m + r /\ m \in Nat
  BY <1>1, <1>2
<1> HIDE DEF m
<1>4. x % 2 = r % 2
  BY <1>1, <1>3
<1> QED BY <1>4 DEF r

-----------------------------------------------------------------------------
(* The parity of the sequence is that of the window edges.                  *)
LEMMA SeqParity ==
  ASSUME IInv
  PROVE  /\ seq \in 0 .. (SeqSpan - 1) /\ frame \in Nat
         /\ Even(seq) <=> phase # "writing"
<1>1. /\ seq = Ticket % SeqSpan /\ frame \in Nat /\ (phase = "writing" => frame > 0)
      /\ seq \in 0 .. (SeqSpan - 1)
  BY DEF IInv, TypeOK, SeqCountsEdges
<1>2. Ticket \in Nat /\ (Ticket % 2 = 0 <=> phase # "writing")
  BY <1>1 DEF Ticket
<1>3. seq % 2 = Ticket % 2
  BY <1>1, <1>2, ModParity, TelemetryAssumption
<1> QED BY <1>1, <1>2, <1>3 DEF Even

LEMMA InitIInv == Init => IInv
<1> SUFFICES ASSUME Init PROVE IInv
  OBVIOUS
<1>1. TypeOK
  <2>1. NoResponse \in [seq : Nat, body : Seq(Nat), open : BOOLEAN, frame : Nat,
                        stable : [Cells -> Nat] \cup {<<>>}]
    BY EmptySeq DEF NoResponse
  <2> QED BY <2>1, TelemetryAssumption DEF Init, TypeOK
<1>2. SeqCountsEdges
  BY TelemetryAssumption DEF Init, SeqCountsEdges, Ticket
<1>3. ASSUME NEW cl \in Clients PROVE ResponseOK(resp[cl])
  <2>1. /\ resp[cl].frame = 0 /\ resp[cl].body = <<>> /\ resp[cl].seq = 1
    BY DEF Init, NoResponse
  <2>2. Len(resp[cl].body) = 0
    BY <2>1, EmptySeq
  <2> QED BY <2>1, <2>2, TelemetryAssumption DEF Init, ResponseOK, Even
<1> QED BY <1>1, <1>2, <1>3 DEF IInv

LEMMA BeginFrameIInv == IInv /\ BeginFrame => IInv'
<1> SUFFICES ASSUME IInv, BeginFrame PROVE IInv'
  OBVIOUS
<1>1. /\ phase = "sleeping" /\ phase' = "writing" /\ frame \in Nat /\ frame' = frame + 1
      /\ seq = (2 * frame) % SeqSpan /\ UNCHANGED <<mem, stable, resp>>
  BY DEF IInv, TypeOK, SeqCountsEdges, Ticket, BeginFrame
<1>2. seq' = (seq + 1) % SeqSpan
  BY SeqParity, <1>1 DEF BeginFrame, Advanced, Even
<1>3. seq' = Ticket' % SeqSpan
  <2>1. seq' = (2 * frame + 1) % SeqSpan
    <3> DEFINE x == 2 * frame
    <3>1. x \in Nat /\ seq = x % SeqSpan
      BY <1>1
    <3> HIDE DEF x
    <3>2. seq' = (x + 1) % SeqSpan
      BY <1>2, <3>1, ModSuccessor, TelemetryAssumption
    <3> QED BY <3>2 DEF x
  <2>2. Ticket' = 2 * frame + 1
    BY <1>1 DEF Ticket
  <2> QED BY <2>1, <2>2
<1>4. TypeOK'
  <2>1. seq' \in 0 .. (SeqSpan - 1)
    BY <1>1, <1>3, DivMod, TelemetryAssumption DEF Ticket
  <2> QED BY <1>1, <2>1 DEF IInv, TypeOK
<1>5. SeqCountsEdges'
  BY <1>1, <1>3 DEF SeqCountsEdges
<1>6. ASSUME NEW cl \in Clients PROVE ResponseOK(resp[cl])'
  <2>1. resp[cl].frame \in Nat /\ ResponseOK(resp[cl])
    BY DEF IInv, TypeOK
  <2>2. resp[cl].frame < frame'
    BY <1>1, <2>1 DEF ResponseOK
  <2> QED BY <1>1, <2>1, <2>2 DEF ResponseOK
<1> QED BY <1>4, <1>5, <1>6 DEF IInv

LEMMA EndFrameIInv == IInv /\ EndFrame => IInv'
<1> SUFFICES ASSUME IInv, EndFrame PROVE IInv'
  OBVIOUS
<1>1. /\ phase = "writing" /\ phase' = "sleeping" /\ frame \in Nat /\ frame > 0
      /\ seq = (2 * frame - 1) % SeqSpan /\ stable' = mem /\ UNCHANGED <<mem, frame, resp>>
  BY DEF IInv, TypeOK, SeqCountsEdges, Ticket, EndFrame
<1>2. seq' = (seq + 1) % SeqSpan
  <2>1. seq % 2 = 1
    BY SeqParity, <1>1 DEF Even
  <2> QED BY <2>1 DEF EndFrame, Advanced
<1>3. seq' = (2 * frame) % SeqSpan
  <2>1. 2 * frame - 1 \in Nat /\ (2 * frame - 1) + 1 = 2 * frame
    BY <1>1
  <2> QED BY <1>1, <1>2, <2>1, ModSuccessor, TelemetryAssumption
<1>4. TypeOK'
  <2>1. seq' \in 0 .. (SeqSpan - 1)
    BY <1>1, <1>3, DivMod, TelemetryAssumption
  <2> QED BY <1>1, <2>1 DEF IInv, TypeOK
<1>5. SeqCountsEdges'
  BY <1>1, <1>3 DEF SeqCountsEdges, Ticket
<1>6. ASSUME NEW cl \in Clients PROVE ResponseOK(resp[cl])'
  <2>1. ResponseOK(resp[cl])
    BY DEF IInv
  <2> QED BY <1>1, <2>1 DEF ResponseOK
<1> QED BY <1>4, <1>5, <1>6 DEF IInv

(* Steps of the engine that move no window edge.                            *)
LEMMA OtherEngineIInv ==
  ASSUME IInv,
         \/ \E c \in Cells : Write(c) \/ StopWrite(c)
         \/ BeginStop \/ StopTelemetry
  PROVE  IInv'
<1>1. /\ UNCHANGED <<seq, frame, stable, resp>>
      /\ frame \in Nat
      /\ phase' \in {"writing", "stopping", "stopped"}
      /\ phase' = "writing" <=> phase = "writing"
  BY DEF IInv, TypeOK, Write, StopWrite, BeginStop, StopTelemetry
<1>2. mem' \in [Cells -> Nat]
  BY <1>1 DEF IInv, TypeOK, Write, StopWrite, BeginStop, StopTelemetry
<1>3. TypeOK'
  BY <1>1, <1>2 DEF IInv, TypeOK
<1>4. SeqCountsEdges'
  BY <1>1 DEF IInv, SeqCountsEdges, Ticket
<1>5. ASSUME NEW cl \in Clients PROVE ResponseOK(resp[cl])'
  <2>1. ResponseOK(resp[cl])
    BY DEF IInv
  <2> QED BY <1>1, <2>1 DEF ResponseOK
<1> QED BY <1>3, <1>4, <1>5 DEF IInv

LEMMA RequestIInv == ASSUME IInv, NEW cl \in Clients, Request(cl) PROVE IInv'
<1> DEFINE r == [seq |-> seq, body |-> <<>>, open |-> TRUE, frame |-> frame, stable |-> stable]
<1>1. UNCHANGED <<phase, seq, mem, frame, stable>> /\ resp' = [resp EXCEPT ![cl] = r]
  BY DEF Request
<1>2. /\ r.seq = seq /\ r.body = <<>> /\ r.frame = frame /\ r.stable = stable
      /\ Len(r.body) = 0
  BY EmptySeq
<1>3. TypeOK'
  <2>1. r \in [seq : Nat, body : Seq(Nat), open : BOOLEAN, frame : Nat,
               stable : [Cells -> Nat] \cup {<<>>}]
    BY SeqParity, EmptySeq DEF IInv, TypeOK
  <2> HIDE DEF r
  <2> QED BY <1>1, <2>1 DEF IInv, TypeOK
<1> HIDE DEF r
<1>4. SeqCountsEdges'
  BY <1>1 DEF IInv, SeqCountsEdges, Ticket
<1>5. ASSUME NEW d \in Clients PROVE ResponseOK(resp[d])'
  <2>1. CASE d # cl
    <3>1. resp'[d] = resp[d] /\ ResponseOK(resp[d])
      BY <1>1, <2>1 DEF IInv, TypeOK
    <3> QED BY <1>1, <3>1 DEF ResponseOK
  <2>2. CASE d = cl
    <3>1. resp'[d] = r
      BY <1>1, <2>2 DEF IInv, TypeOK
    <3>2. Even(seq) => seq = (2 * frame) % SeqSpan
      BY SeqParity DEF IInv, SeqCountsEdges, Ticket
    <3>3. phase = "writing" => ~Even(seq)
      BY SeqParity
    <3>4. frame \in Nat /\ CellCount \in Nat
      BY SeqParity, TelemetryAssumption
    <3> QED BY <1>1, <1>2, <3>1, <3>2, <3>3, <3>4 DEF ResponseOK
  <2> QED BY <2>1, <2>2
<1> QED BY <1>3, <1>4, <1>5 DEF IInv

LEMMA CopyCellIInv == ASSUME IInv, NEW cl \in Clients, CopyCell(cl) PROVE IInv'
<1> DEFINE b == resp[cl].body
<1> DEFINE r == [resp[cl] EXCEPT !.body = Append(b, mem[Len(b) + 1])]
<1>1. /\ UNCHANGED <<phase, seq, mem, frame, stable>> /\ Len(b) < CellCount
      /\ resp' = [resp EXCEPT ![cl] = r]
  BY DEF CopyCell
<1>2. b \in Seq(Nat) /\ Len(b) \in Nat /\ mem \in [Cells -> Nat] /\ ResponseOK(resp[cl])
  BY DEF IInv, TypeOK
<1>3. Len(b) + 1 \in Cells /\ mem[Len(b) + 1] \in Nat
  <2>1. Len(b) + 1 \in Cells
    BY <1>1, <1>2, TelemetryAssumption DEF Cells
  <2> QED BY <1>2, <2>1
<1>4. /\ r.seq = resp[cl].seq /\ r.frame = resp[cl].frame /\ r.stable = resp[cl].stable
      /\ r.body = Append(b, mem[Len(b) + 1])
      /\ r \in [seq : Nat, body : Seq(Nat), open : BOOLEAN, frame : Nat,
                stable : [Cells -> Nat] \cup {<<>>}]
  <2>1. Append(b, mem[Len(b) + 1]) \in Seq(Nat)
    BY <1>2, <1>3, AppendProperties
  <2> QED BY <2>1 DEF IInv, TypeOK
<1>5. /\ Len(r.body) = Len(b) + 1
      /\ \A i \in 1 .. Len(b) : r.body[i] = b[i]
      /\ r.body[Len(b) + 1] = mem[Len(b) + 1]
  BY <1>2, <1>3, <1>4, AppendProperties
<1> HIDE DEF r
<1>6. TypeOK'
  BY <1>1, <1>4 DEF IInv, TypeOK
<1>7. SeqCountsEdges'
  BY <1>1 DEF IInv, SeqCountsEdges, Ticket
<1>8. ASSUME NEW d \in Clients PROVE ResponseOK(resp[d])'
  <2>1. CASE d # cl
    <3>1. resp'[d] = resp[d] /\ ResponseOK(resp[d])
      BY <1>1, <2>1 DEF IInv, TypeOK
    <3> QED BY <1>1, <3>1 DEF ResponseOK
  <2>2. CASE d = cl
    <3>1. resp'[d] = r
      BY <1>1, <2>2 DEF IInv, TypeOK
    <3>2. Len(r.body) <= CellCount
      BY <1>1, <1>2, <1>5, TelemetryAssumption
    <3>3. ASSUME phase = "sleeping", r.frame = frame, Even(r.seq), NEW i \in 1 .. Len(r.body)
          PROVE  r.stable = stable /\ r.body[i] = stable[i]
      <4>1. r.stable = stable /\ \A j \in 1 .. Len(b) : b[j] = stable[j]
        BY <1>2, <1>4, <3>3 DEF ResponseOK
      <4>2. mem = stable
        BY <3>3 DEF IInv, SeqCountsEdges
      <4>3. i \in 1 .. Len(b) \/ i = Len(b) + 1
        BY <1>2, <1>5
      <4> HIDE DEF b
      <4> QED BY <1>5, <4>1, <4>2, <4>3
    <3>4. \A i \in 1 .. Len(r.body) :
            phase = "sleeping" /\ r.frame = frame /\ Even(r.seq) => r.body[i] = stable[i]
      BY <3>3
    <3>5. phase = "sleeping" /\ r.frame = frame /\ Even(r.seq) => r.stable = stable
      BY <1>2, <1>4 DEF ResponseOK
    <3> QED BY <1>1, <1>2, <1>4, <3>1, <3>2, <3>4, <3>5 DEF ResponseOK
  <2> QED BY <2>1, <2>2
<1> QED BY <1>6, <1>7, <1>8 DEF IInv

LEMMA RespondIInv == ASSUME IInv, NEW cl \in Clients, Respond(cl) PROVE IInv'
<1> DEFINE r == [resp[cl] EXCEPT !.open = FALSE]
<1>1. UNCHANGED <<phase, seq, mem, frame, stable>> /\ resp' = [resp EXCEPT ![cl] = r]
  BY DEF Respond
<1>2. /\ r.seq = resp[cl].seq /\ r.frame = resp[cl].frame /\ r.stable = resp[cl].stable
      /\ r.body = resp[cl].body
      /\ r \in [seq : Nat, body : Seq(Nat), open : BOOLEAN, frame : Nat,
                stable : [Cells -> Nat] \cup {<<>>}]
  BY DEF IInv, TypeOK
<1> HIDE DEF r
<1>3. TypeOK' /\ SeqCountsEdges'
  BY <1>1, <1>2 DEF IInv, TypeOK, SeqCountsEdges, Ticket
<1>4. ASSUME NEW d \in Clients PROVE ResponseOK(resp[d])'
  <2>1. CASE d # cl
    <3>1. resp'[d] = resp[d] /\ ResponseOK(resp[d])
      BY <1>1, <2>1 DEF IInv, TypeOK
    <3> QED BY <1>1, <3>1 DEF ResponseOK
  <2>2. CASE d = cl
    <3>1. resp'[d] = r /\ ResponseOK(resp[cl])
      BY <1>1, <2>2 DEF IInv, TypeOK
    <3> QED BY <1>1, <1>2, <3>1 DEF ResponseOK
  <2> QED BY <2>1, <2>2
<1> QED BY <1>3, <1>4 DEF IInv

(* The inductive invariant holds in every reachable state.                  *)
THEOREM FrameInvariant == Spec => []IInv
<1>1. IInv /\ [Next]_vars => IInv'
  <2> SUFFICES ASSUME IInv, [Next]_vars PROVE IInv'
    OBVIOUS
  <2>1. CASE EngineStep
    BY <2>1, BeginFrameIInv, EndFrameIInv, OtherEngineIInv DEF EngineStep
  <2>2. CASE ClientStep
    BY <2>2, RequestIInv, CopyCellIInv, RespondIInv DEF ClientStep
  <2>3. CASE UNCHANGED vars
    BY <2>3 DEF vars, IInv, TypeOK, SeqCountsEdges, Ticket, ResponseOK
  <2> QED BY <2>1, <2>2, <2>3 DEF Next
<1> QED BY InitIInv, <1>1, PTL DEF Spec

(* The types of all variables: in particular the sequence keeps its width.  *)
THEOREM TypesHold == Spec => []TypeOK
<1>1. IInv => TypeOK
  BY DEF IInv
<1> QED BY FrameInvariant, <1>1, PTL

(* While run() loops, the parity of the sequence says whether a tick is     *)
(* writing, and an even one that the memory is the last finished tick's.    *)
THEOREM ParityTheorem == Spec => []ParityTellsWriting
<1>1. IInv => ParityTellsWriting
  BY SeqParity DEF IInv, SeqCountsEdges, ParityTellsWriting
<1> QED BY FrameInvariant, <1>1, PTL

(* Two equal even headers less than half a span apart vouch for the first   *)
(* body.                                                                    *)
THEOREM RepeatedSeqTheorem == Spec => []RepeatedSeqIsStable
<1>1. IInv => RepeatedSeqIsStable
  <2> SUFFICES ASSUME IInv, NEW cl \in Clients, Complete(resp[cl]), resp[cl].seq = seq, Even(seq),
                      frame - resp[cl].frame < SeqSpan \div 2, phase = "sleeping"
               PROVE  resp[cl].body = resp[cl].stable
    BY DEF RepeatedSeqIsStable
  <2> DEFINE r == resp[cl]
  <2>1. /\ r.frame \in Nat /\ frame \in Nat /\ r.body \in Seq(Nat) /\ ResponseOK(r)
        /\ stable \in [Cells -> Nat] /\ seq = (2 * frame) % SeqSpan
    BY DEF IInv, TypeOK, SeqCountsEdges, Ticket
  <2>2. r.frame <= frame /\ r.seq = seq /\ r.seq = (2 * r.frame) % SeqSpan
    BY <2>1 DEF ResponseOK
  <2>3. 2 * frame - 2 * r.frame < SeqSpan
    <3>1. 2 * (SeqSpan \div 2) = SeqSpan
      BY TelemetryAssumption
    <3>2. frame - r.frame < SeqSpan \div 2 /\ SeqSpan \div 2 \in Int
      BY TelemetryAssumption
    <3> QED BY <2>1, <3>1, <3>2
  <2> HIDE DEF r
  <2>4. 2 * frame = 2 * r.frame
    <3> DEFINE a == 2 * frame
    <3> DEFINE b == 2 * r.frame
    <3>1. a \in Nat /\ b \in Nat /\ a >= b /\ a - b < SeqSpan /\ a % SeqSpan = b % SeqSpan
      BY <2>1, <2>2, <2>3
    <3> HIDE DEF a, b
    <3>2. a = b
      BY <3>1, ModEqual, TelemetryAssumption
    <3> QED BY <3>2 DEF a, b
  <2>5. r.frame = frame
    BY <2>1, <2>4
  <2>6. r.stable = stable /\ \A i \in 1 .. Len(r.body) : r.body[i] = stable[i]
    BY <2>1, <2>2, <2>5 DEF ResponseOK
  <2>7. Len(r.body) = CellCount
    BY DEF Complete, r
  <2>8. stable \in Seq(Nat) /\ Len(stable) = CellCount
    BY <2>1, TelemetryAssumption DEF Cells
  <2>9. r.body = stable
    BY <2>1, <2>6, <2>7, <2>8, SeqEqual
  <2> QED BY <2>6, <2>9 DEF r
<1> QED BY FrameInvariant, <1>1, PTL

=============================================================================
