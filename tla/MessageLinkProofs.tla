------------------------- MODULE MessageLinkProofs -------------------------
(***************************************************************************)
(* Proofs that MessageLink keeps its framing and implements MessageFifo,   *)
(* for every header, chunk, payload and buffer size.                       *)
(***************************************************************************)
EXTENDS MessageLink, SequenceTheorems, TLAPS

(* What one tick() makes of the message being sent.                         *)
LEMMA SendAdvances ==
  ASSUME TypeOK, SlotsOK, out.stage = "Sending",
         NEW h \in 0 .. HeaderSize, NEW p \in 0 .. ChunkSize, CanSend(out, h, p)
  PROVE  LET m == AfterSend(out, h, p) IN
         /\ m \in Slot
         /\ m.tag = sent /\ m.size = PayloadSize(sent)
         /\ m.stage \in {"Sending", "Completed"}
         /\ Position(m) = Position(out) + h + p
         /\ m.stage = "Sending" => Position(m) < Total(sent)
         /\ m.stage = "Completed" => Position(m) = Total(sent)
         /\ m.hdr < HeaderSize => m.done = 0 /\ m.chunk = 0
         /\ m.done + m.chunk <= m.size
<1> DEFINE m == AfterSend(out, h, p)
<1> USE FrameAssumption, LinkAssumption
<1>1. /\ out \in Slot /\ sent \in 1 .. MaxMessages
      /\ out.tag = sent /\ out.size = PayloadSize(sent) /\ PayloadSize(sent) \in Nat
  BY DEF TypeOK, SlotsOK, IsVacant
<1>2. /\ out.hdr \in 0 .. HeaderSize /\ out.done \in Nat /\ out.chunk \in 0 .. ChunkSize
      /\ out.size \in Nat /\ out.tag \in Nat
  BY <1>1 DEF Slot
<1>3. ChunkToSend(out) \in 0 .. ChunkSize /\ out.done + ChunkToSend(out) <= out.size
  BY <1>1, <1>2 DEF SlotsOK, ChunkToSend, MinOf
<1>4. /\ m.stage = IF out.hdr + h = HeaderSize /\ out.done + p = out.size
                   THEN "Completed" ELSE out.stage
      /\ m.tag = out.tag /\ m.size = out.size
      /\ m.hdr = out.hdr + h /\ m.done = out.done + p
      /\ m.chunk = IF out.hdr + h = HeaderSize THEN ChunkToSend(out) - p ELSE 0
  BY <1>1 DEF AfterSend, Slot
<1>5. h \in 0 .. (HeaderSize - out.hdr) /\ p \in 0 .. ChunkToSend(out)
      /\ (out.hdr + h < HeaderSize => p = 0)
  BY DEF CanSend
<1>6. m.hdr \in 0 .. HeaderSize /\ m.done \in Nat /\ m.chunk \in 0 .. ChunkSize
  BY <1>2, <1>3, <1>4, <1>5
<1>7. m \in Slot
  BY <1>1, <1>4, <1>6 DEF AfterSend, Slot, Stages
<1>8. m.done + m.chunk <= m.size
  BY <1>2, <1>3, <1>4, <1>5, <1>1 DEF SlotsOK
<1>9. m.hdr < HeaderSize => m.done = 0 /\ m.chunk = 0
  BY <1>2, <1>4, <1>5 DEF SlotsOK
<1>10. Position(m) = Position(out) + h + p
  BY <1>2, <1>4, <1>5, <1>3 DEF Position
<1>11. m.stage = "Completed" => Position(m) = Total(sent)
  BY <1>1, <1>2, <1>4 DEF Position, Total
<1>12. m.stage = "Sending" => Position(m) < Total(sent)
  BY <1>1, <1>2, <1>3, <1>4, <1>5, <1>6, <1>8 DEF Position, Total
<1> QED
  BY <1>1, <1>4, <1>7, <1>8, <1>9, <1>10, <1>11, <1>12

(* What one tick() makes of the message being received: its header, once    *)
(* complete, is the header of the message the receiver is waiting for.      *)
LEMMA ReceiveAdvances ==
  ASSUME IInv, in.stage = "Receiving",
         NEW h \in 0 .. HeaderSize, NEW p \in 0 .. ChunkSize, CanReceive(in, wire, h, p)
  PROVE  LET m == AfterReceive(in, wire, h, p) IN
         /\ m \in Slot
         /\ m.stage \in {"Receiving", "Completed"}
         /\ Position(m) = Position(in) + h + p
         /\ h + p <= Len(wire)
         /\ m.hdr = HeaderSize => m.tag = rcvd + 1 /\ m.size = PayloadSize(rcvd + 1)
         /\ m.hdr < HeaderSize => m.done = 0 /\ m.stage = "Receiving"
         /\ m.stage = "Receiving" => Position(m) < Total(rcvd + 1)
         /\ m.stage = "Completed" => Position(m) = Total(rcvd + 1)
         /\ m.hdr > 0 => rcvd < sent
<1> DEFINE m == AfterReceive(in, wire, h, p)
<1> DEFINE r == HeaderIn(in, wire, h)
<1> USE FrameAssumption
<1>1. /\ in \in Slot /\ rcvd \in 0 .. MaxMessages /\ sent \in 0 .. MaxMessages
      /\ wire \in Seq(Byte) /\ Len(wire) \in Nat /\ PayloadSize(rcvd + 1) \in Nat
  BY LinkAssumption DEF IInv, TypeOK
<1>2. /\ in.hdr \in 0 .. HeaderSize /\ in.done \in Nat /\ in.size \in Nat /\ in.tag \in Nat
      /\ in.chunk \in 0 .. ChunkSize
  BY <1>1 DEF Slot
<1>3. /\ h \in Nat /\ p \in Nat /\ in.hdr + h <= HeaderSize
      /\ in.hdr + h < HeaderSize => p = 0
  <2> HIDE DEF r
  <2>1. /\ h \in 0 .. MinOf(HeaderSize - in.hdr, Len(wire))
        /\ p \in 0 .. (Len(wire) - h)
        /\ IF in.hdr + h = HeaderSize THEN p <= MinOf(ChunkSize, r.size - in.done) ELSE p = 0
    BY DEF CanReceive, r
  <2>2. h <= HeaderSize - in.hdr /\ h \in Nat
    BY <2>1, <1>1, <1>2 DEF MinOf
  <2>3. in.hdr + h < HeaderSize => p = 0
    BY <2>1, <1>2
  <2> QED BY <2>2, <2>3, <1>2
<1>3b. h <= Len(wire) /\ h + p <= Len(wire)
  <2>1. h \in 0 .. MinOf(HeaderSize - in.hdr, Len(wire)) /\ p \in 0 .. (Len(wire) - h)
    BY DEF CanReceive
  <2>2. h <= Len(wire)
    BY <2>1, <1>1, <1>2 DEF MinOf
  <2> QED BY <2>1, <2>2, <1>1
<1>3a. in.hdr + h = HeaderSize => p <= MinOf(ChunkSize, r.size - in.done)
  BY DEF CanReceive
<1>3c. PayloadSize(rcvd + 1) \in Nat
  BY <1>1
<1>4. ASSUME h > 0 PROVE /\ wire[1].tag = rcvd + 1 /\ wire[1].pos = in.hdr + 1
                         /\ in.hdr < HeaderSize /\ in.done = 0 /\ rcvd < sent
                         /\ wire[h].tag = rcvd + 1 /\ wire[h].size = PayloadSize(rcvd + 1)
                         /\ wire[h] \in Byte
  <2>1. in.hdr < HeaderSize /\ in.done = 0
    BY <1>2, <1>3, <1>4 DEF IInv, SlotsOK
  <2>2. wire # <<>> /\ 1 \in 1 .. Len(wire) /\ h \in 1 .. Len(wire)
    BY <1>1, <1>3, <1>3b, <1>4
  <2>3. NextRead = <<rcvd + 1, in.hdr + 1>>
    BY <1>2, <2>1 DEF NextRead, IsCompleted, Position
  <2>4. wire[1].tag = rcvd + 1 /\ wire[1].pos = in.hdr + 1
    BY <2>2, <2>3 DEF IInv, StreamOK, HeadOK
  <2>5. wire[1].tag \in 1 .. sent
    BY <2>2 DEF IInv, StreamOK, BytesOK
  <2>6. wire[1].pos + (h - 1) <= Total(wire[1].tag)
    <3>1. Total(wire[1].tag) = HeaderSize + PayloadSize(rcvd + 1)
      BY <2>4 DEF Total
    <3>2. wire[1].pos + (h - 1) = in.hdr + h
      BY <1>2, <1>3, <2>4
    <3>3. in.hdr + h <= HeaderSize
      BY <1>2, <1>3
    <3> QED BY <1>2, <1>3, <1>3c, <3>1, <3>2, <3>3
  <2>7. wire[h].tag = wire[1].tag
    BY <2>2, <2>6, <1>4, <1>3 DEF IInv, StreamOK, RunsOK
  <2>8. wire[h].size = PayloadSize(wire[h].tag) /\ wire[h] \in Byte
    BY <2>2, <1>1 DEF IInv, StreamOK, BytesOK
  <2> QED BY <1>1, <2>1, <2>4, <2>5, <2>7, <2>8
<1>5. /\ r.hdr = in.hdr + h /\ r.done = in.done /\ r.stage = "Receiving"
      /\ r.chunk = in.chunk
      /\ r.hdr = HeaderSize => r.tag = rcvd + 1 /\ r.size = PayloadSize(rcvd + 1)
      /\ r.tag \in Nat /\ r.size \in Nat
      /\ r = [in EXCEPT !.hdr = in.hdr + h, !.tag = r.tag, !.size = r.size]
  <2>1. CASE h > 0 /\ in.hdr + h = HeaderSize
    <3>1. r = [in EXCEPT !.hdr = in.hdr + h, !.tag = wire[h].tag, !.size = wire[h].size]
      BY <2>1 DEF HeaderIn
    <3>2. wire[h].tag \in Nat /\ wire[h].size \in Nat
      BY <2>1, <1>4 DEF Byte
    <3>3. r.tag = wire[h].tag /\ r.size = wire[h].size /\ r.hdr = in.hdr + h
          /\ r.done = in.done /\ r.stage = in.stage /\ r.chunk = in.chunk
      BY <3>1, <1>1 DEF Slot
    <3> HIDE DEF r
    <3> QED BY <3>1, <3>2, <3>3, <2>1, <1>4
  <2>2. CASE ~(h > 0 /\ in.hdr + h = HeaderSize)
    <3>1. r = [in EXCEPT !.hdr = in.hdr + h]
      BY <2>2 DEF HeaderIn
    <3>2. in.hdr + h = HeaderSize => in.hdr = HeaderSize
      BY <2>2, <1>2, <1>3
    <3>3. in.hdr = HeaderSize => in.tag = rcvd + 1 /\ in.size = PayloadSize(rcvd + 1)
      BY DEF IInv, SlotsOK
    <3>4. r.tag = in.tag /\ r.size = in.size /\ r.hdr = in.hdr + h
          /\ r.done = in.done /\ r.stage = in.stage /\ r.chunk = in.chunk
      BY <3>1, <1>1 DEF Slot
    <3>5. r = [in EXCEPT !.hdr = in.hdr + h, !.tag = in.tag, !.size = in.size]
      BY <3>1, <1>1 DEF Slot
    <3> HIDE DEF r
    <3> QED BY <1>2, <1>3, <1>3c, <3>2, <3>3, <3>4, <3>5
  <2> QED BY <2>1, <2>2
<1>6. /\ m = [r EXCEPT !.done = r.done + p,
                       !.stage = IF r.hdr = HeaderSize /\ r.done + p = r.size
                                 THEN "Completed" ELSE r.stage]
      /\ m \in Slot
      /\ m.stage = IF r.hdr = HeaderSize /\ r.done + p = r.size
                   THEN "Completed" ELSE "Receiving"
      /\ m.tag = r.tag /\ m.size = r.size /\ m.hdr = in.hdr + h /\ m.done = in.done + p
  <2>1. m = [r EXCEPT !.done = r.done + p,
                      !.stage = IF r.hdr = HeaderSize /\ r.done + p = r.size
                                THEN "Completed" ELSE r.stage]
    BY DEF AfterReceive
  <2> HIDE DEF r, m
  <2>2. r \in Slot
    <3>1. in.hdr + h \in 0 .. HeaderSize
      BY <1>2, <1>3
    <3>2. in.stage \in Stages
      BY <1>1 DEF Slot
    <3> QED BY <1>1, <1>2, <1>5, <3>1 DEF Slot
  <2>3. r.done + p \in Nat
    BY <1>2, <1>3, <1>5
  <2>4. m \in Slot
    BY <2>1, <2>2, <2>3, <1>5 DEF Slot, Stages
  <2>5. /\ m.stage = IF r.hdr = HeaderSize /\ r.done + p = r.size
                     THEN "Completed" ELSE r.stage
        /\ m.tag = r.tag /\ m.size = r.size /\ m.hdr = r.hdr /\ m.done = r.done + p
    BY <2>1, <2>2 DEF Slot
  <2> QED BY <1>5, <2>1, <2>4, <2>5
<1> HIDE DEF r, m
<1>8. Position(m) = Position(in) + h + p
  BY <1>2, <1>3, <1>6 DEF Position
<1>9. m.hdr < HeaderSize => m.done = 0 /\ m.stage = "Receiving"
  <2>1. m.hdr < HeaderSize => in.hdr < HeaderSize /\ p = 0
    BY <1>2, <1>3, <1>6
  <2>2. in.hdr < HeaderSize => in.done = 0
    BY DEF IInv, SlotsOK
  <2> QED BY <2>1, <2>2, <1>2, <1>5, <1>6
<1>10. m.stage = "Completed" => Position(m) = Total(rcvd + 1)
  BY <1>1, <1>2, <1>5, <1>6 DEF Position, Total
<1>11. m.stage = "Receiving" => Position(m) < Total(rcvd + 1)
  <2>1. CASE m.hdr < HeaderSize
    <3>1. m.hdr \in Nat /\ m.done = 0 /\ Total(rcvd + 1) = HeaderSize + PayloadSize(rcvd + 1)
      BY <1>2, <1>3, <1>6, <1>9, <2>1 DEF Total
    <3> QED BY <1>1, <2>1, <3>1 DEF Position
  <2>2. CASE m.hdr = HeaderSize
    <3>1. r.hdr = HeaderSize /\ r.size = PayloadSize(rcvd + 1)
      BY <1>5, <1>6, <2>2
    <3>2. p <= PayloadSize(rcvd + 1) - in.done
      <4>1. p <= MinOf(ChunkSize, r.size - in.done)
        BY <1>3a, <1>6, <2>2
      <4>2. p <= MinOf(ChunkSize, PayloadSize(rcvd + 1) - in.done)
        BY <4>1, <3>1
      <4> QED BY <4>2, <1>1, <1>2, <1>3 DEF MinOf
    <3>3. m.stage = "Receiving" => in.done + p # PayloadSize(rcvd + 1)
      BY <1>5, <1>6, <3>1
    <3>4. m.stage = "Receiving" => in.done + p < PayloadSize(rcvd + 1)
      BY <1>2, <1>3, <1>3c, <3>2, <3>3
    <3>5. Position(m) = HeaderSize + (in.done + p)
      BY <1>6, <2>2 DEF Position
    <3>6. Total(rcvd + 1) = HeaderSize + PayloadSize(rcvd + 1)
      BY DEF Total
    <3> QED BY <1>2, <1>3, <1>3c, <3>4, <3>5, <3>6
  <2>3. m.hdr \in 0 .. HeaderSize
    BY <1>2, <1>3, <1>6
  <2> QED BY <2>1, <2>2, <2>3
<1>12. m.hdr > 0 => rcvd < sent
  <2>1. CASE h > 0 BY <2>1, <1>4
  <2>2. CASE h = 0 
    <3>1. m.hdr = in.hdr
      BY <2>2, <1>2, <1>6
    <3> QED BY <3>1 DEF IInv, SlotsOK
  <2> QED BY <2>1, <2>2, <1>3
<1>13. m.stage \in {"Receiving", "Completed"}
  BY <1>6
<1>14. h + p <= Len(wire)
  BY <1>3b
<1>15. m.hdr = HeaderSize => m.tag = rcvd + 1 /\ m.size = PayloadSize(rcvd + 1)
  BY <1>5, <1>6
<1> QED
  BY <1>6, <1>8, <1>9, <1>10, <1>11, <1>12, <1>13, <1>14, <1>15 DEF m


(* Steps that touch neither the stream nor what comes next at its ends.     *)
LEMMA StreamKept ==
  ASSUME IInv, wire' = wire, up' = up, sent' \in Nat, sent' >= sent,
         NextSent' = NextSent, NextRead' = NextRead
  PROVE  StreamOK' /\ StreamEndOK'
<1>1. BytesOK'
  <2> SUFFICES ASSUME NEW i \in 1 .. Len(wire)
               PROVE  /\ wire[i].tag \in 1 .. sent'
                      /\ wire[i].size = PayloadSize(wire[i].tag)
                      /\ wire[i].pos \in 1 .. Total(wire[i].tag)
    BY DEF BytesOK, Total
  <2>1. /\ wire[i].tag \in 1 .. sent
        /\ wire[i].size = PayloadSize(wire[i].tag)
        /\ wire[i].pos \in 1 .. Total(wire[i].tag)
    BY DEF IInv, StreamOK, BytesOK
  <2>2. sent \in Nat
    BY LinkAssumption DEF IInv, TypeOK
  <2>3. wire[i].tag \in 1 .. sent'
    BY <2>1, <2>2
  <2> QED BY <2>1, <2>3
<1>2. RunsOK' /\ JoinsOK'
  BY DEF IInv, StreamOK, RunsOK, JoinsOK, Total
<1>3. HeadOK' /\ EmptyEndOK' /\ CutEndOK' /\ WholeEndOK'
  BY DEF IInv, StreamOK, StreamEndOK, HeadOK, EmptyEndOK, CutEndOK, WholeEndOK, Total
<1> QED BY <1>1, <1>2, <1>3 DEF StreamOK, StreamEndOK

(* One send(), with the bytes it moves named.                               *)
SendMoves(h, p) ==
  /\ out.stage = "Sending" /\ CanSend(out, h, p)
  /\ out' = AfterSend(out, h, p)
  /\ wire' = wire \o NextBytes(out, h + p)
  /\ UNCHANGED <<in, up, sent, rcvd>>

(* Bytes appended by the sender continue the stream.                        *)
LEMMA StreamExtended ==
  ASSUME IInv, up, NEW h \in 0 .. HeaderSize, NEW p \in 0 .. ChunkSize, SendMoves(h, p)
  PROVE  StreamOK' /\ StreamEndOK'
<1> DEFINE n == Len(wire)
<1> DEFINE k == h + p
<1> DEFINE from == Position(out)
<1> DEFINE all == Total(sent)
<1>1. /\ sent \in 1 .. MaxMessages /\ out.tag = sent /\ out.size = PayloadSize(sent)
      /\ PayloadSize(sent) \in Nat /\ wire \in Seq(Byte) /\ out \in Slot
  BY LinkAssumption DEF IInv, TypeOK, SlotsOK, IsVacant, SendMoves
<1>2. /\ from \in Nat /\ k \in Nat /\ n \in Nat /\ all \in Nat /\ sent \in Nat /\ sent >= 1
      /\ from + 1 <= all
  <2>1. from \in Nat
    BY FrameAssumption, <1>1 DEF Slot, Position
  <2>2. k \in Nat
    BY FrameAssumption
  <2>3. all \in Nat
    BY FrameAssumption, <1>1 DEF Total
  <2>4. from < all
    BY DEF IInv, SlotsOK, SendMoves
  <2> HIDE DEF from, all, k
  <2> QED BY <1>1, <2>1, <2>2, <2>3, <2>4, LinkAssumption
<1>3. /\ from + k <= all
      /\ NextSent = <<sent, from + 1>>
      /\ from + k < all => NextSent' = <<sent, from + k + 1>>
      /\ from + k = all => NextSent' = <<sent + 1, 1>>
  <2> DEFINE m == AfterSend(out, h, p)
  <2>1. /\ m.stage \in {"Sending", "Completed"}
        /\ Position(m) = Position(out) + h + p
        /\ m.stage = "Sending" => Position(m) < Total(sent)
        /\ m.stage = "Completed" => Position(m) = Total(sent)
    BY SendAdvances DEF IInv, SendMoves
  <2> HIDE DEF m
  <2>2. Position(m) = from + k
    BY <2>1, <1>2, FrameAssumption
  <2>3. NextSent' = IF m.stage = "Sending" THEN <<sent, from + k + 1>> ELSE <<sent + 1, 1>>
    BY <2>2 DEF NextSent, m, SendMoves
  <2>4. NextSent = <<sent, from + 1>>
    BY DEF NextSent, SendMoves
  <2> HIDE DEF from, all, k
  <2>5. m.stage = "Sending" => from + k < all
    BY <2>1, <2>2 DEF all
  <2>6. m.stage = "Completed" => from + k = all
    BY <2>1, <2>2 DEF all
  <2> QED BY <2>1, <2>3, <2>4, <2>5, <2>6, <1>2
<1>4. /\ Len(wire') = n + k
      /\ \A i \in 1 .. n : wire'[i] = wire[i]
      /\ \A i \in (n + 1) .. (n + k) :
           /\ wire'[i].tag = sent /\ wire'[i].size = PayloadSize(sent)
           /\ wire'[i].pos = from + (i - n)
  <2> DEFINE B == NextBytes(out, k)
  <2>1. B \in Seq(Byte) /\ Len(B) = k
    BY <1>1, <1>2 DEF NextBytes, Slot, Byte
  <2>2. \A i \in 1 .. k : B[i].tag = sent /\ B[i].size = PayloadSize(sent) /\ B[i].pos = from + i
    BY <1>1, <1>2 DEF NextBytes
  <2> HIDE DEF B, from, k
  <2>3. wire' = wire \o B
    BY DEF B, k, SendMoves
  <2>3a. Len(wire') = n + k
        /\ \A i \in 1 .. (n + k) : wire'[i] = IF i <= n THEN wire[i] ELSE B[i - n]
    BY <1>1, <2>1, <2>3, ConcatProperties
  <2>4. Len(wire') = n + k /\ \A i \in 1 .. n : wire'[i] = wire[i]
    BY <1>2, <2>3a
  <2>5. \A i \in (n + 1) .. (n + k) : wire'[i] = B[i - n]
    BY <1>2, <2>3a
  <2> QED BY <2>2, <2>4, <2>5, <1>2
<1>5. NextRead' = NextRead /\ sent' = sent /\ up' = up
  BY DEF NextRead, IsCompleted, Position, SendMoves
<1>6. all = Total(sent) /\ \A t : Total(t)' = Total(t)
  BY DEF Total
<1> DEFINE W == wire'
<1>7. /\ \A i \in 1 .. n : /\ wire[i].tag \in 1 .. sent
                           /\ wire[i].size = PayloadSize(wire[i].tag)
                           /\ wire[i].pos \in 1 .. Total(wire[i].tag)
      /\ \A i \in 1 .. n : Total(wire[i].tag) \in Nat
  <2>1. \A i \in 1 .. n : /\ wire[i].tag \in 1 .. sent
                           /\ wire[i].size = PayloadSize(wire[i].tag)
                           /\ wire[i].pos \in 1 .. Total(wire[i].tag)
    BY DEF IInv, StreamOK, BytesOK
  <2>2. \A t \in 1 .. sent : Total(t) \in Nat
    BY <1>1, LinkAssumption, FrameAssumption DEF Total
  <2> QED BY <2>1, <2>2
<1> HIDE DEF n, k, from, all
(* the end of the old stream meets the first appended byte *)
<1>8. ASSUME NEW i \in 1 .. n, wire[i].pos + (n - i) < Total(wire[i].tag)
      PROVE  wire[i].tag = sent /\ wire[i].pos + (n - i) = from
  <2>1. NextSent = <<wire[i].tag, wire[i].pos + (n - i) + 1>>
    BY <1>8 DEF IInv, StreamEndOK, CutEndOK, n
  <2>2. wire[i].tag = sent /\ wire[i].pos + (n - i) + 1 = from + 1
    BY <2>1, <1>3
  <2> QED BY <2>2, <1>2, <1>7
<1>9. ASSUME n > 0, wire[n].pos = Total(wire[n].tag)
      PROVE  wire[n].tag + 1 = sent /\ from = 0
  <2>1. wire # <<>>
    BY <1>9, <1>1 DEF n
  <2>2. NextSent = <<wire[n].tag + 1, 1>>
    BY <1>9, <2>1 DEF IInv, StreamEndOK, WholeEndOK, n
  <2>3. wire[n].tag + 1 = sent /\ from + 1 = 1
    BY <2>2, <1>3
  <2> QED BY <2>3, <1>2
<1>10. BytesOK'
  <2> SUFFICES ASSUME NEW i \in 1 .. (n + k)
               PROVE  /\ wire'[i].tag \in 1 .. sent
                      /\ wire'[i].size = PayloadSize(wire'[i].tag)
                      /\ wire'[i].pos \in 1 .. Total(wire'[i].tag)
    BY <1>4, <1>5, <1>6 DEF BytesOK
  <2>1. CASE i \in 1 .. n
    BY <2>1, <1>4, <1>7
  <2>2. CASE i \in (n + 1) .. (n + k)
    <3>1. wire'[i].tag = sent /\ wire'[i].size = PayloadSize(sent) /\ wire'[i].pos = from + (i - n)
      BY <2>2, <1>4
    <3>2. from + (i - n) \in 1 .. all
      BY <2>2, <1>2, <1>3
    <3>3. sent \in 1 .. sent
      BY <1>2
    <3> QED BY <3>1, <3>2, <3>3, <1>6
  <2> QED BY <2>1, <2>2, <1>2
<1>11. RunsOK'
  <2> SUFFICES ASSUME NEW i \in 1 .. (n + k), NEW j \in 1 .. (n + k), i <= j,
                      wire'[i].pos + (j - i) <= Total(wire'[i].tag)
               PROVE  wire'[j].tag = wire'[i].tag /\ wire'[j].pos = wire'[i].pos + (j - i)
    BY <1>4, <1>5, <1>6 DEF RunsOK
  <2>1. CASE j \in 1 .. n
    <3>1. i \in 1 .. n
      BY <2>1, <1>2
    <3>2. wire'[i] = wire[i] /\ wire'[j] = wire[j]
      BY <2>1, <3>1, <1>4
    <3> QED BY <2>1, <3>1, <3>2 DEF IInv, StreamOK, RunsOK, n
  <2>2. CASE i \in 1 .. n /\ j \in (n + 1) .. (n + k)
    <3>1. wire'[i] = wire[i] /\ wire'[j].tag = sent /\ wire'[j].pos = from + (j - n)
      BY <2>2, <1>4
    <3>2. wire[i].pos \in Nat /\ Total(wire[i].tag) \in Nat
      BY <2>2, <1>7
    <3>3. wire[i].pos + (n - i) < Total(wire[i].tag)
      BY <2>2, <3>1, <3>2, <1>2
    <3>4. wire[i].tag = sent /\ wire[i].pos + (n - i) = from
      BY <2>2, <3>3, <1>8
    <3> QED BY <3>1, <3>2, <3>4, <1>2
  <2>3. CASE i \in (n + 1) .. (n + k)
    <3>1. j \in (n + 1) .. (n + k)
      BY <2>3, <1>2
    <3>2. /\ wire'[i].tag = sent /\ wire'[i].pos = from + (i - n)
          /\ wire'[j].tag = sent /\ wire'[j].pos = from + (j - n)
      BY <2>3, <3>1, <1>4
    <3> QED BY <3>2, <1>2
  <2> QED BY <2>1, <2>2, <2>3, <1>2
<1>12. JoinsOK'
  <2> SUFFICES ASSUME NEW i \in 1 .. (n + k) - 1, wire'[i].pos = Total(wire'[i].tag)
               PROVE  wire'[i + 1].tag = wire'[i].tag + 1 /\ wire'[i + 1].pos = 1
    BY <1>4, <1>5, <1>6 DEF JoinsOK
  <2>1. CASE i \in 1 .. (n - 1)
    <3>1. i \in 1 .. n /\ i + 1 \in 1 .. n
      BY <2>1, <1>2
    <3>2. wire'[i] = wire[i] /\ wire'[i + 1] = wire[i + 1]
      BY <3>1, <1>4
    <3> QED BY <2>1, <3>2 DEF IInv, StreamOK, JoinsOK, n
  <2>2. CASE i = n
    <3>1. n \in 1 .. n /\ n + 1 \in (n + 1) .. (n + k) /\ n > 0
      BY <2>2, <1>2
    <3>2. wire'[n] = wire[n] /\ wire'[n + 1].tag = sent /\ wire'[n + 1].pos = from + ((n + 1) - n)
      BY <3>1, <1>4
    <3>3. wire[n].tag + 1 = sent /\ from = 0
      BY <2>2, <3>1, <3>2, <1>9
    <3> QED BY <2>2, <3>2, <3>3, <1>2
  <2>3. CASE i \in (n + 1) .. (n + k)
    <3>1. wire'[i].tag = sent /\ wire'[i].pos = from + (i - n)
      BY <2>3, <1>4
    <3>2. from + (i - n) = all
      BY <3>1, <1>6
    <3> QED BY <3>2, <1>2, <1>3
  <2> QED BY <2>1, <2>2, <2>3, <1>2
<1>13. HeadOK' /\ EmptyEndOK'
  <2>1. CASE n > 0
    <3>1. 1 \in 1 .. n /\ wire # <<>>
      BY <2>1, <1>1, <1>2 DEF n
    <3>2. wire'[1] = wire[1]
      BY <3>1, <1>4
    <3>3. NextRead = <<wire[1].tag, wire[1].pos>>
      BY <3>1 DEF IInv, StreamOK, HeadOK
    <3>4. wire' # <<>>
      BY <2>1, <1>2, <1>4
    <3> QED BY <3>2, <3>3, <3>4, <1>5 DEF HeadOK, EmptyEndOK
  <2>2. CASE n = 0
    <3>1. NextRead = <<sent, from + 1>>
      <4>1. wire = <<>>
        BY <2>2, <1>1 DEF n
      <4> QED BY <4>1, <1>3 DEF IInv, StreamEndOK, EmptyEndOK
    <3>2. CASE k = 0
      <4>1. wire' = <<>>
        <5>1. NextBytes(out, 0) = <<>>
          BY DEF NextBytes
        <5> QED BY <2>2, <3>2, <1>1, <5>1 DEF n, k, SendMoves
      <4>2. NextSent' = <<sent, from + 1>>
        BY <3>2, <1>2, <1>3
      <4> QED BY <3>1, <4>1, <4>2, <1>5 DEF HeadOK, EmptyEndOK
    <3>3. CASE k > 0
      <4>1. 1 \in (n + 1) .. (n + k)
        BY <2>2, <3>3, <1>2
      <4>2. wire'[1].tag = sent /\ wire'[1].pos = from + (1 - n)
        BY <4>1, <1>4
      <4>3. wire'[1].pos = from + 1
        BY <4>2, <2>2, <1>2
      <4>4. wire' # <<>>
        BY <2>2, <3>3, <1>2, <1>4
      <4> QED BY <3>1, <4>2, <4>3, <4>4, <1>5 DEF HeadOK, EmptyEndOK
    <3> QED BY <3>2, <3>3, <1>2
  <2> QED BY <2>1, <2>2, <1>2
<1>14. CutEndOK'
  <2> SUFFICES ASSUME NEW i \in 1 .. (n + k),
                      wire'[i].pos + ((n + k) - i) < Total(wire'[i].tag)
               PROVE  NextSent' = <<wire'[i].tag, wire'[i].pos + ((n + k) - i) + 1>>
    BY <1>4, <1>5, <1>6 DEF CutEndOK
  <2>1. CASE i \in 1 .. n
    <3>1. wire'[i] = wire[i]
      BY <2>1, <1>4
    <3>2. wire[i].pos \in Nat /\ Total(wire[i].tag) \in Nat
      BY <2>1, <1>7
    <3>3. wire[i].pos + (n - i) < Total(wire[i].tag)
      BY <3>1, <3>2, <1>2
    <3>4. wire[i].tag = sent /\ wire[i].pos + (n - i) = from
      BY <2>1, <3>3, <1>8
    <3>5. wire[i].pos + ((n + k) - i) = from + k
      BY <3>2, <3>4, <1>2
    <3>6. from + k < all
      BY <3>1, <3>4, <3>5, <1>6
    <3> QED BY <3>1, <3>4, <3>5, <3>6, <1>3
  <2>2. CASE i \in (n + 1) .. (n + k)
    <3>1. wire'[i].tag = sent /\ wire'[i].pos = from + (i - n)
      BY <2>2, <1>4
    <3>2. wire'[i].pos + ((n + k) - i) = from + k
      BY <3>1, <1>2
    <3>3. from + k < all
      BY <3>1, <3>2, <1>6
    <3> QED BY <3>1, <3>2, <3>3, <1>3
  <2> QED BY <2>1, <2>2, <1>2
<1>15. WholeEndOK'
  <2> SUFFICES ASSUME wire' # <<>>, wire'[n + k].pos = Total(wire'[n + k].tag)
               PROVE  NextSent' = <<wire'[n + k].tag + 1, 1>>
    BY <1>4, <1>5, <1>6 DEF WholeEndOK
  <2>1. CASE k = 0
    <3>1. n > 0
      <4>1. NextBytes(out, 0) = <<>>
        BY DEF NextBytes
      <4> QED BY <2>1, <1>1, <1>2, <4>1 DEF n, k, SendMoves
    <3>2. n + k = n /\ n \in 1 .. n
      BY <2>1, <3>1, <1>2
    <3>3. wire'[n + k] = wire[n]
      BY <3>2, <1>4
    <3>4. wire[n].tag + 1 = sent /\ from = 0
      BY <3>1, <3>3, <1>9
    <3>5. NextSent' = <<sent, 1>>
      BY <2>1, <3>4, <1>2, <1>3
    <3> QED BY <3>3, <3>4, <3>5
  <2>2. CASE k > 0
    <3>1. n + k \in (n + 1) .. (n + k)
      BY <2>2, <1>2
    <3>2. wire'[n + k].tag = sent /\ wire'[n + k].pos = from + ((n + k) - n)
      BY <3>1, <1>4
    <3>3. from + k = all
      BY <3>2, <1>2, <1>6
    <3> QED BY <3>2, <3>3, <1>3
  <2> QED BY <2>1, <2>2, <1>2
<1> QED
  BY <1>10, <1>11, <1>12, <1>13, <1>14, <1>15 DEF StreamOK, StreamEndOK

(* One recv().                                                              *)
ReceiveMoves(h, p) ==
  /\ in.stage = "Receiving" /\ CanReceive(in, wire, h, p)
  /\ in' = AfterReceive(in, wire, h, p)
  /\ wire' = SubSeq(wire, h + p + 1, Len(wire))
  /\ UNCHANGED <<out, up, sent, rcvd>>

(* What the receiver leaves begins with the byte it will read next.         *)
LEMMA StreamConsumed ==
  ASSUME IInv, NEW h \in 0 .. HeaderSize, NEW p \in 0 .. ChunkSize, ReceiveMoves(h, p)
  PROVE  wire' \in Seq(Byte) /\ StreamOK' /\ StreamEndOK'
<1> DEFINE n == Len(wire)
<1> DEFINE k == h + p
<1> DEFINE from == Position(in)
<1> DEFINE all == Total(rcvd + 1)
<1>1. /\ sent \in 0 .. MaxMessages /\ rcvd \in 0 .. MaxMessages /\ wire \in Seq(Byte)
      /\ in \in Slot /\ PayloadSize(rcvd + 1) \in Nat
  BY LinkAssumption DEF IInv, TypeOK
<1>2. from \in Nat /\ k \in Nat /\ n \in Nat /\ all \in Nat /\ sent \in Nat /\ rcvd \in Nat
  <2>1. from \in Nat
    BY FrameAssumption, <1>1 DEF Slot, Position
  <2>2. k \in Nat
    BY FrameAssumption
  <2>3. all \in Nat
    BY FrameAssumption, <1>1 DEF Total
  <2> HIDE DEF from, all, k
  <2> QED BY <1>1, <2>1, <2>2, <2>3, LinkAssumption
<1>3. /\ k <= n /\ from + k <= all
      /\ NextRead = <<rcvd + 1, from + 1>>
      /\ from + k < all => NextRead' = <<rcvd + 1, from + k + 1>>
      /\ from + k = all => NextRead' = <<rcvd + 2, 1>> /\ k > 0
  <2> DEFINE m == AfterReceive(in, wire, h, p)
  <2>1. /\ m.stage \in {"Receiving", "Completed"}
        /\ Position(m) = Position(in) + h + p
        /\ h + p <= Len(wire)
        /\ m.stage = "Receiving" => Position(m) < Total(rcvd + 1)
        /\ m.stage = "Completed" => Position(m) = Total(rcvd + 1)
    BY ReceiveAdvances DEF ReceiveMoves
  <2> HIDE DEF m
  <2>2. Position(m) = from + k
    BY <2>1, <1>2, FrameAssumption
  <2>3. NextRead' = IF m.stage = "Completed" THEN <<rcvd + 2, 1>> ELSE <<rcvd + 1, from + k + 1>>
    BY <2>2 DEF NextRead, IsCompleted, m, ReceiveMoves
  <2>4. NextRead = <<rcvd + 1, from + 1>>
    BY DEF NextRead, IsCompleted, ReceiveMoves
  <2>5. from < all
    BY DEF IInv, SlotsOK, ReceiveMoves
  <2> HIDE DEF from, all
  <2>6. m.stage = "Receiving" => from + k < all
    BY <2>1, <2>2 DEF all
  <2>7. m.stage = "Completed" => from + k = all
    BY <2>1, <2>2 DEF all
  <2>8. k <= n
    BY <2>1
  <2> HIDE DEF k, n
  <2> QED BY <2>1, <2>3, <2>4, <2>5, <2>6, <2>7, <2>8, <1>2
<1>4. /\ wire' \in Seq(Byte) /\ Len(wire') = n - k
      /\ \A i \in 1 .. (n - k) : wire'[i] = wire[i + k]
      /\ wire' = <<>> <=> n = k
  <2>1. wire' = SubSeq(wire, k + 1, n)
    BY DEF ReceiveMoves
  <2>2. \A i \in (k + 1) .. n : wire[i] \in Byte
    <3> HIDE DEF k
    <3> QED BY <1>1, <1>2
  <2> HIDE DEF k, n
  <2>3. /\ wire' \in Seq(Byte)
        /\ Len(wire') = IF k + 1 <= n THEN n - (k + 1) + 1 ELSE 0
        /\ \A i \in 1 .. (n - (k + 1) + 1) : wire'[i] = wire[(k + 1) + i - 1]
    BY <2>1, <2>2, <1>2, SubSeqProperties
  <2>4. n - (k + 1) + 1 = n - k /\ \A i \in 1 .. (n - k) : (k + 1) + i - 1 = i + k
    BY <1>2
  <2>5. Len(wire') = n - k
    BY <2>3, <2>4, <1>2, <1>3
  <2>6. wire' = <<>> <=> n = k
    BY <2>3, <2>5, <1>2, EmptySeq
  <2> QED BY <2>3, <2>4, <2>5, <2>6
<1>5. NextSent' = NextSent /\ sent' = sent /\ up' = up
  BY DEF NextSent, Position, ReceiveMoves
<1>6. \A t : Total(t)' = Total(t)
  BY DEF Total
<1>7. n > 0 => wire[1].tag = rcvd + 1 /\ wire[1].pos = from + 1
  <2>1. n > 0 => wire # <<>>
    BY <1>1
  <2> HIDE DEF n, from
  <2> QED BY <2>1, <1>3 DEF IInv, StreamOK, HeadOK
<1> HIDE DEF n, k, from, all
<1>8. BytesOK'
  <2> SUFFICES ASSUME NEW i \in 1 .. (n - k)
               PROVE  /\ wire'[i].tag \in 1 .. sent
                      /\ wire'[i].size = PayloadSize(wire'[i].tag)
                      /\ wire'[i].pos \in 1 .. Total(wire'[i].tag)
    BY <1>4, <1>5, <1>6 DEF BytesOK
  <2>1. i + k \in 1 .. n
    BY <1>2, <1>3
  <2> QED BY <2>1, <1>4 DEF IInv, StreamOK, BytesOK, n
<1>9. RunsOK'
  <2> SUFFICES ASSUME NEW i \in 1 .. (n - k), NEW j \in 1 .. (n - k), i <= j,
                      wire'[i].pos + (j - i) <= Total(wire'[i].tag)
               PROVE  wire'[j].tag = wire'[i].tag /\ wire'[j].pos = wire'[i].pos + (j - i)
    BY <1>4, <1>5, <1>6 DEF RunsOK
  <2>1. i + k \in 1 .. n /\ j + k \in 1 .. n /\ i + k <= j + k /\ (j + k) - (i + k) = j - i
    BY <1>2, <1>3
  <2>2. wire'[i] = wire[i + k] /\ wire'[j] = wire[j + k]
    BY <1>4
  <2>3. /\ wire[j + k].tag = wire[i + k].tag
        /\ wire[j + k].pos = wire[i + k].pos + ((j + k) - (i + k))
    <3>1. wire[i + k].pos + ((j + k) - (i + k)) <= Total(wire[i + k].tag)
      BY <2>1, <2>2
    <3> QED BY <2>1, <3>1 DEF IInv, StreamOK, RunsOK, n
  <2> QED BY <2>1, <2>2, <2>3
<1>10. JoinsOK'
  <2> SUFFICES ASSUME NEW i \in 1 .. (n - k) - 1, wire'[i].pos = Total(wire'[i].tag)
               PROVE  wire'[i + 1].tag = wire'[i].tag + 1 /\ wire'[i + 1].pos = 1
    BY <1>4, <1>5, <1>6 DEF JoinsOK
  <2>1. /\ i + k \in 1 .. n - 1 /\ (i + 1) + k = (i + k) + 1
        /\ i \in 1 .. (n - k) /\ i + 1 \in 1 .. (n - k)
    BY <1>2, <1>3
  <2>2. wire'[i] = wire[i + k] /\ wire'[i + 1] = wire[(i + k) + 1]
    BY <2>1, <1>4
  <2> QED BY <2>1, <2>2 DEF IInv, StreamOK, JoinsOK, n
(* the last byte read, when it is the last of its message *)
<1>11. ASSUME from + k = all
       PROVE  k \in 1 .. n /\ wire[k].tag = rcvd + 1 /\ wire[k].pos = all
  <2>1. k \in 1 .. n /\ 1 \in 1 .. n /\ n > 0 /\ (from + 1) + (k - 1) = all
    BY <1>11, <1>2, <1>3
  <2>2. wire[1].pos + (k - 1) <= Total(wire[1].tag) /\ wire[1].tag = rcvd + 1
        /\ wire[1].pos + (k - 1) = all
    BY <2>1, <1>2, <1>7 DEF all
  <2>3. wire[k].tag = wire[1].tag /\ wire[k].pos = wire[1].pos + (k - 1)
    BY <2>1, <2>2 DEF IInv, StreamOK, RunsOK, n
  <2> QED BY <2>1, <2>2, <2>3
<1>12. HeadOK'
  <2> SUFFICES ASSUME n - k > 0
               PROVE  NextRead' = <<wire'[1].tag, wire'[1].pos>>
    BY <1>2, <1>3, <1>4 DEF HeadOK
  <2>1. wire'[1] = wire[k + 1] /\ k + 1 \in 1 .. n /\ 1 \in 1 .. n /\ n > 0
    BY <1>2, <1>3, <1>4
  <2>2. CASE from + k < all
    <3>1. (from + 1) + ((k + 1) - 1) <= all /\ (from + 1) + ((k + 1) - 1) = from + k + 1
          /\ 1 <= k + 1
      BY <2>2, <1>2
    <3>2. wire[1].pos + ((k + 1) - 1) <= Total(wire[1].tag)
      BY <2>1, <3>1, <1>7 DEF all
    <3>3. wire[k + 1].tag = wire[1].tag /\ wire[k + 1].pos = wire[1].pos + ((k + 1) - 1)
      BY <2>1, <3>1, <3>2 DEF IInv, StreamOK, RunsOK, n
    <3>4. wire[k + 1].tag = rcvd + 1 /\ wire[k + 1].pos = from + k + 1
      BY <2>1, <3>1, <3>3, <1>7
    <3> QED BY <2>1, <2>2, <3>4, <1>3
  <2>3. CASE from + k = all
    <3>1. k \in 1 .. n - 1
      BY <2>1, <2>3, <1>2, <1>3
    <3>2. wire[k].tag = rcvd + 1 /\ wire[k].pos = Total(wire[k].tag)
      BY <2>3, <1>11 DEF all
    <3>3. wire[k + 1].tag = (rcvd + 1) + 1 /\ wire[k + 1].pos = 1
      BY <3>1, <3>2 DEF IInv, StreamOK, JoinsOK, n
    <3>4. (rcvd + 1) + 1 = rcvd + 2
      BY <1>2
    <3> QED BY <2>1, <2>3, <3>3, <3>4, <1>3
  <2> QED BY <2>2, <2>3, <1>2, <1>3
<1>13. EmptyEndOK'
  <2> SUFFICES ASSUME up, n = k PROVE NextRead' = NextSent
    BY <1>4, <1>5 DEF EmptyEndOK
  <2>1. CASE n = 0
    <3>1. wire = <<>>
      BY <2>1, <1>1, EmptySeq DEF n
    <3>2. NextRead = NextSent
      BY <3>1 DEF IInv, StreamEndOK, EmptyEndOK
    <3>3. k = 0 /\ from + k < all
      BY <2>1, <1>2, <1>3
    <3>4. from + k + 1 = from + 1
      BY <3>3, <1>2
    <3> QED BY <3>2, <3>3, <3>4, <1>3
  <2>2. CASE n > 0
    <3>1. 1 \in 1 .. n /\ n \in 1 .. n /\ (from + 1) + (n - 1) = from + k
      BY <2>2, <1>2
    <3>2. CASE from + k < all
      <4>1. wire[1].pos + (n - 1) < Total(wire[1].tag)
        BY <2>2, <3>1, <3>2, <1>7 DEF all
      <4>2. NextSent = <<wire[1].tag, wire[1].pos + (n - 1) + 1>>
        BY <3>1, <4>1 DEF IInv, StreamEndOK, CutEndOK, n
      <4> QED BY <2>2, <3>1, <3>2, <4>2, <1>3, <1>7
    <3>3. CASE from + k = all
      <4>1. wire[n].tag = rcvd + 1 /\ wire[n].pos = Total(wire[n].tag)
        BY <3>3, <1>11 DEF all
      <4>2. wire # <<>>
        BY <2>2, <1>1, EmptySeq DEF n
      <4>3. NextSent = <<(rcvd + 1) + 1, 1>>
        BY <4>1, <4>2 DEF IInv, StreamEndOK, WholeEndOK, n
      <4>4. (rcvd + 1) + 1 = rcvd + 2
        BY <1>2
      <4> QED BY <3>3, <4>3, <4>4, <1>3
    <3> QED BY <3>2, <3>3, <1>2, <1>3
  <2> QED BY <2>1, <2>2, <1>2
<1>14. CutEndOK'
  <2> SUFFICES ASSUME up, NEW i \in 1 .. (n - k),
                      wire'[i].pos + ((n - k) - i) < Total(wire'[i].tag)
               PROVE  NextSent = <<wire'[i].tag, wire'[i].pos + ((n - k) - i) + 1>>
    BY <1>4, <1>5, <1>6 DEF CutEndOK
  <2>1. wire'[i] = wire[i + k] /\ i + k \in 1 .. n /\ (n - k) - i = n - (i + k)
    BY <1>2, <1>3, <1>4
  <2>2. wire[i + k].pos + (n - (i + k)) < Total(wire[i + k].tag)
    BY <2>1
  <2>3. NextSent = <<wire[i + k].tag, wire[i + k].pos + (n - (i + k)) + 1>>
    BY <2>1, <2>2 DEF IInv, StreamEndOK, CutEndOK, n
  <2> QED BY <2>1, <2>3
<1>15. WholeEndOK'
  <2> SUFFICES ASSUME up, n # k, wire'[n - k].pos = Total(wire'[n - k].tag)
               PROVE  NextSent = <<wire'[n - k].tag + 1, 1>>
    BY <1>4, <1>5, <1>6 DEF WholeEndOK
  <2>1. n - k \in 1 .. (n - k) /\ (n - k) + k = n
    BY <1>2, <1>3
  <2>2. wire'[n - k] = wire[n]
    BY <2>1, <1>4
  <2>3. wire # <<>>
    <3>1. n > 0
      BY <2>1, <1>2
    <3> QED BY <3>1, EmptySeq DEF n
  <2> QED BY <2>2, <2>3 DEF IInv, StreamEndOK, WholeEndOK, n
<1> QED
  BY <1>4, <1>8, <1>9, <1>10, <1>12, <1>13, <1>14, <1>15 DEF StreamOK, StreamEndOK

(* A break shortens the stream from its far end.                            *)
LEMMA StreamCut ==
  ASSUME IInv, ~up', NEW e \in 0 .. Len(wire), wire' = SubSeq(wire, 1, e),
         UNCHANGED <<out, in, sent, rcvd>>
  PROVE  wire' \in Seq(Byte) /\ StreamOK' /\ StreamEndOK'
<1>1. wire \in Seq(Byte) /\ Len(wire) \in Nat /\ e \in Nat /\ e <= Len(wire)
  BY DEF IInv, TypeOK
<1>2. /\ wire' \in Seq(Byte) /\ Len(wire') = e
      /\ \A i \in 1 .. e : wire'[i] = wire[i]
  <2>1. \A i \in 1 .. e : wire[i] \in Byte
    BY <1>1
  <2>2. /\ wire' \in Seq(Byte)
        /\ Len(wire') = IF 1 <= e THEN e - 1 + 1 ELSE 0
        /\ \A i \in 1 .. (e - 1 + 1) : wire'[i] = wire[1 + i - 1]
    BY <1>1, <2>1, SubSeqProperties
  <2>3. Len(wire') = e
    BY <1>1, <2>2
  <2>4. \A i \in 1 .. e : i \in 1 .. (e - 1 + 1) /\ 1 + i - 1 = i
    BY <1>1
  <2> QED BY <2>2, <2>3, <2>4
<1>3. \A i \in 1 .. e : i \in 1 .. Len(wire)
  BY <1>1
<1>4. sent' = sent /\ NextRead' = NextRead /\ \A t : Total(t)' = Total(t)
  BY DEF NextRead, Total, Position
<1>5. BytesOK'
  BY <1>2, <1>3, <1>4 DEF IInv, StreamOK, BytesOK
<1>6. RunsOK'
  <2> SUFFICES ASSUME NEW i \in 1 .. e, NEW j \in 1 .. e, i <= j,
                      wire[i].pos + (j - i) <= Total(wire[i].tag)
               PROVE  wire[j].tag = wire[i].tag /\ wire[j].pos = wire[i].pos + (j - i)
    BY <1>2, <1>4 DEF RunsOK
  <2> QED BY <1>3 DEF IInv, StreamOK, RunsOK
<1>7. JoinsOK'
  <2> SUFFICES ASSUME NEW i \in 1 .. e - 1, wire'[i].pos = Total(wire'[i].tag)
               PROVE  wire'[i + 1].tag = wire'[i].tag + 1 /\ wire'[i + 1].pos = 1
    BY <1>2, <1>4 DEF JoinsOK
  <2>1. i \in 1 .. e /\ i + 1 \in 1 .. e /\ i \in 1 .. Len(wire) - 1
    BY <1>1
  <2> QED BY <2>1, <1>2 DEF IInv, StreamOK, JoinsOK
<1>8. HeadOK'
  <2> SUFFICES ASSUME wire' # <<>>
               PROVE  NextRead = <<wire'[1].tag, wire'[1].pos>>
    BY <1>4 DEF HeadOK
  <2>1. 1 \in 1 .. e
    BY <1>1, <1>2, EmptySeq
  <2>2. wire # <<>>
    BY <2>1, <1>1, EmptySeq
  <2> QED BY <2>1, <2>2, <1>2 DEF IInv, StreamOK, HeadOK
<1> QED
  BY <1>2, <1>5, <1>6, <1>7, <1>8 DEF StreamOK, StreamEndOK, EmptyEndOK, CutEndOK, WholeEndOK

(* A new connection has an empty stream and both ends at a message's start. *)
LEMMA StreamEmpty ==
  ASSUME wire' = <<>>, NextRead' = NextSent'
  PROVE  wire' \in Seq(Byte) /\ StreamOK' /\ StreamEndOK'
<1>1. Len(wire') = 0
  BY EmptySeq
<1> QED
  BY <1>1, EmptySeq
  DEF StreamOK, StreamEndOK, BytesOK, RunsOK, JoinsOK, HeadOK, EmptyEndOK, CutEndOK, WholeEndOK

-----------------------------------------------------------------------------
LEMMA EmptySlot ==
  /\ Empty \in Slot /\ IsVacant(Empty) /\ Empty.stage = "Vacant"
  /\ Empty.hdr = 0 /\ Empty.done = 0 /\ Empty.chunk = 0 /\ Empty.size = 0
  /\ Position(Empty) = 0 /\ ~IsCompleted(Empty)
BY FrameAssumption
DEF Empty, VacantMessage, Slot, Stages, IsVacant, IsCompleted, Position

LEMMA InitIInv == Init => IInv
<1> SUFFICES ASSUME Init PROVE IInv
  OBVIOUS
<1>1. TypeOK
  BY EmptySlot, EmptySeq, LinkAssumption DEF Init, TypeOK
<1>2. SlotsOK
  BY EmptySlot, FrameAssumption DEF Init, SlotsOK
<1>3. NextRead = NextSent
  BY EmptySlot DEF Init, NextRead, NextSent
<1>4. StreamOK /\ StreamEndOK
  BY <1>3, EmptySeq DEF Init, StreamOK, StreamEndOK, BytesOK, RunsOK, JoinsOK, HeadOK,
                        EmptyEndOK, CutEndOK, WholeEndOK
<1> QED BY <1>1, <1>2, <1>4 DEF IInv

LEMMA SendBeginIInv == IInv /\ SendBegin => IInv'
<1> SUFFICES ASSUME IInv, SendBegin PROVE IInv'
  OBVIOUS
<1>1. /\ sent \in Nat /\ sent' = sent + 1 /\ sent' \in 0 .. MaxMessages /\ sent' \in 1 .. MaxMessages
      /\ PayloadSize(sent') \in Nat
  BY LinkAssumption DEF SendBegin, IInv, TypeOK
<1>2. /\ out'.stage = "Sending" /\ out'.tag = sent' /\ out'.size = PayloadSize(sent')
      /\ out'.hdr = 0 /\ out'.done = 0 /\ out'.chunk = 0 /\ out' \in Slot
      /\ Position(out') = 0
  BY <1>1, FrameAssumption DEF SendBegin, BeginSend, Slot, Stages, Position
<1>3. TypeOK'
  BY <1>1, <1>2 DEF SendBegin, IInv, TypeOK
<1>4. SlotsOK'
  <2>1. Position(out') < Total(sent')
    BY <1>1, <1>2, FrameAssumption DEF Total
  <2>2. out'.done + out'.chunk <= out'.size
    BY <1>1, <1>2
  <2>3. /\ in.hdr > 0 => rcvd < sent'
        /\ rcvd <= sent'
    BY <1>1, LinkAssumption DEF IInv, TypeOK, SlotsOK
  <2>4. in' = in /\ rcvd' = rcvd /\ \A t : Total(t)' = Total(t)
    BY DEF SendBegin, Total
  <2> QED BY <1>1, <1>2, <2>1, <2>2, <2>3, <2>4 DEF IInv, SlotsOK, IsVacant, IsCompleted,
             Position, Total
<1>5. NextSent' = NextSent /\ NextRead' = NextRead
  <2>1. NextSent = <<sent + 1, 1>>
    BY DEF SendBegin, NextSent, IsVacant
  <2>2. NextSent' = <<sent', Position(out') + 1>>
    BY <1>2 DEF NextSent
  <2> QED BY <1>1, <1>2, <2>1, <2>2 DEF SendBegin, NextRead, IsCompleted, Position
<1>6. StreamOK' /\ StreamEndOK'
  BY <1>1, <1>5, StreamKept DEF SendBegin
<1> QED BY <1>3, <1>4, <1>6 DEF IInv

LEMMA SendTickIInv == IInv /\ SendTick => IInv'
<1> SUFFICES ASSUME IInv, SendTick PROVE IInv'
  OBVIOUS
<1>1. PICK h \in 0 .. HeaderSize, p \in 0 .. ChunkSize : SendMoves(h, p)
  BY DEF SendTick, SendMoves
<1>2. StreamOK' /\ StreamEndOK'
  BY <1>1, StreamExtended DEF SendTick
<1>3. /\ out' \in Slot
      /\ out'.tag = sent /\ out'.size = PayloadSize(sent)
      /\ out'.stage \in {"Sending", "Completed"}
      /\ out'.stage = "Sending" => Position(out') < Total(sent)
      /\ out'.hdr < HeaderSize => out'.done = 0 /\ out'.chunk = 0
      /\ out'.done + out'.chunk <= out'.size
  BY <1>1, SendAdvances DEF IInv, SendMoves
<1>4. NextBytes(out, h + p) \in Seq(Byte)
  <2>1. out \in Slot
    BY DEF IInv, TypeOK
  <2>2. h + p \in Nat /\ Position(out) \in Nat /\ out.tag \in Nat /\ out.size \in Nat
    BY <2>1, FrameAssumption DEF Slot, Position
  <2> QED BY <2>2 DEF NextBytes, Byte
<1>5. TypeOK'
  <2>1. wire \in Seq(Byte)
    BY DEF IInv, TypeOK
  <2>2. wire' \in Seq(Byte)
    BY <1>1, <1>4, <2>1, ConcatProperties DEF SendMoves
  <2> QED BY <1>3, <2>2 DEF SendTick, IInv, TypeOK
<1>6. SlotsOK'
  <2>1. sent > 0
    BY DEF SendTick, IInv, SlotsOK, IsVacant
  <2>2. in' = in /\ rcvd' = rcvd /\ sent' = sent
    BY DEF SendTick
  <2> QED BY <1>3, <2>1, <2>2 DEF IInv, SlotsOK, IsVacant, IsCompleted, Position, Total
<1> QED BY <1>2, <1>5, <1>6 DEF IInv

LEMMA SendDoneIInv == IInv /\ SendDone => IInv'
<1> SUFFICES ASSUME IInv, SendDone PROVE IInv'
  OBVIOUS
<1>1. TypeOK' /\ SlotsOK'
  BY EmptySlot, FrameAssumption
  DEF SendDone, IInv, TypeOK, SlotsOK, IsVacant, IsCompleted, Position, Total
<1>2. NextSent' = NextSent /\ NextRead' = NextRead
  BY EmptySlot DEF SendDone, NextSent, NextRead, IsCompleted, Position
<1>3. sent' = sent /\ sent \in Nat
  BY LinkAssumption DEF SendDone, IInv, TypeOK
<1>4. StreamOK' /\ StreamEndOK'
  BY <1>2, <1>3, StreamKept DEF SendDone
<1> QED BY <1>1, <1>4 DEF IInv

LEMMA ReceiveBeginIInv == IInv /\ ReceiveBegin => IInv'
<1> SUFFICES ASSUME IInv, ReceiveBegin PROVE IInv'
  OBVIOUS
<1>1. /\ in'.stage = "Receiving" /\ in'.hdr = 0 /\ in'.done = 0 /\ in' \in Slot
      /\ Position(in') = 0
  BY FrameAssumption DEF ReceiveBegin, BeginReceive, Slot, Stages, Position
<1>2. TypeOK'
  BY <1>1 DEF ReceiveBegin, IInv, TypeOK
<1>3. SlotsOK'
  <2>1. Position(in') < Total(rcvd + 1)
    <3>1. rcvd \in 0 .. MaxMessages
      BY DEF IInv, TypeOK
    <3>2. PayloadSize(rcvd + 1) \in Nat
      BY <3>1, LinkAssumption
    <3> QED BY <1>1, <3>2, FrameAssumption DEF Total
  <2>2. out' = out /\ rcvd' = rcvd /\ sent' = sent
    BY DEF ReceiveBegin
  <2> QED BY <1>1, <2>1, <2>2, FrameAssumption
          DEF IInv, SlotsOK, IsVacant, IsCompleted, Position, Total
<1>4. NextSent' = NextSent /\ NextRead' = NextRead
  <2>1. Position(in) = 0 /\ ~IsCompleted(in)
    BY EmptySlot DEF ReceiveBegin, IInv, SlotsOK
  <2>2. ~IsCompleted(in')
    BY <1>1 DEF IsCompleted
  <2>3. NextRead = <<rcvd + 1, 0 + 1>>
    BY <2>1 DEF NextRead
  <2>4. NextRead' = <<rcvd + 1, 0 + 1>>
    BY <1>1, <2>2 DEF ReceiveBegin, NextRead
  <2> QED BY <2>3, <2>4 DEF ReceiveBegin, NextSent, Position
<1>5. sent' = sent /\ sent \in Nat
  BY LinkAssumption DEF ReceiveBegin, IInv, TypeOK
<1>6. StreamOK' /\ StreamEndOK'
  BY <1>4, <1>5, StreamKept DEF ReceiveBegin
<1> QED BY <1>2, <1>3, <1>6 DEF IInv

LEMMA ReceiveTickIInv == IInv /\ ReceiveTick => IInv'
<1> SUFFICES ASSUME IInv, ReceiveTick PROVE IInv'
  OBVIOUS
<1>1. PICK h \in 0 .. HeaderSize, p \in 0 .. ChunkSize : ReceiveMoves(h, p)
  BY DEF ReceiveTick, ReceiveMoves
<1>2. wire' \in Seq(Byte) /\ StreamOK' /\ StreamEndOK'
  BY <1>1, StreamConsumed
<1>3. /\ in' \in Slot
      /\ in'.stage \in {"Receiving", "Completed"}
      /\ in'.hdr = HeaderSize => in'.tag = rcvd + 1 /\ in'.size = PayloadSize(rcvd + 1)
      /\ in'.hdr < HeaderSize => in'.done = 0 /\ in'.stage = "Receiving"
      /\ in'.stage = "Receiving" => Position(in') < Total(rcvd + 1)
      /\ in'.stage = "Completed" => Position(in') = Total(rcvd + 1)
      /\ in'.hdr > 0 => rcvd < sent
  BY <1>1, ReceiveAdvances DEF ReceiveMoves
<1>4. TypeOK'
  BY <1>2, <1>3 DEF ReceiveTick, IInv, TypeOK
<1>5. SlotsOK'
  <2>1. out' = out /\ rcvd' = rcvd /\ sent' = sent
    BY DEF ReceiveTick
  <2> QED BY <1>3, <2>1 DEF IInv, SlotsOK, IsVacant, IsCompleted, Position, Total
<1> QED BY <1>2, <1>4, <1>5 DEF IInv

LEMMA ReceiveDoneIInv == IInv /\ ReceiveDone => IInv'
<1> SUFFICES ASSUME IInv, ReceiveDone PROVE IInv'
  OBVIOUS
<1>1. /\ sent \in Nat /\ rcvd \in Nat /\ rcvd' = rcvd + 1 /\ sent' = sent
      /\ in \in Slot /\ IsCompleted(in) /\ in' = Empty
  BY LinkAssumption DEF ReceiveDone, IInv, TypeOK
<1>2. in.hdr = HeaderSize /\ rcvd < sent
  <2>1. in.hdr \in 0 .. HeaderSize
    BY <1>1 DEF Slot
  <2>2. in.hdr = HeaderSize
    BY <1>1, <2>1, FrameAssumption DEF IInv, SlotsOK
  <2> QED BY <2>2, FrameAssumption DEF IInv, SlotsOK
<1>3. TypeOK'
  <2>1. rcvd' \in 0 .. MaxMessages
    BY <1>1, <1>2, LinkAssumption DEF IInv, TypeOK
  <2>2. got' \in Nat
    BY <1>1 DEF ReceiveDone, Slot
  <2> QED BY <1>1, <2>1, <2>2, EmptySlot DEF ReceiveDone, IInv, TypeOK
<1>4. SlotsOK'
  <2>1. rcvd' <= sent' /\ out' = out
    BY <1>1, <1>2 DEF ReceiveDone
  <2> QED BY <1>1, <2>1, EmptySlot, FrameAssumption
          DEF IInv, SlotsOK, IsVacant, IsCompleted, Position, Total
<1>5. NextSent' = NextSent /\ NextRead' = NextRead
  <2>1. NextRead = <<rcvd + 2, 1>>
    BY <1>1 DEF NextRead
  <2>2. NextRead' = <<(rcvd + 1) + 1, 0 + 1>>
    BY <1>1, EmptySlot DEF NextRead
  <2> QED BY <1>1, <2>1, <2>2 DEF ReceiveDone, NextSent, Position
<1>6. StreamOK' /\ StreamEndOK'
  BY <1>1, <1>5, StreamKept DEF ReceiveDone
<1> QED BY <1>3, <1>4, <1>6 DEF IInv

LEMMA BreakIInv == IInv /\ Break => IInv'
<1> SUFFICES ASSUME IInv, Break PROVE IInv'
  OBVIOUS
<1>1. PICK e \in 0 .. Len(wire) : wire' = SubSeq(wire, 1, e)
  BY DEF Break
<1>2. wire' \in Seq(Byte) /\ StreamOK' /\ StreamEndOK'
  BY <1>1, StreamCut DEF Break
<1>3. TypeOK'
  BY <1>2 DEF Break, IInv, TypeOK
<1>4. SlotsOK'
  BY DEF Break, IInv, SlotsOK, IsVacant, IsCompleted, Position, Total
<1> QED BY <1>2, <1>3, <1>4 DEF IInv

LEMMA ReconnectIInv == IInv /\ Reconnect => IInv'
<1> SUFFICES ASSUME IInv, Reconnect PROVE IInv'
  OBVIOUS
<1>1. NextRead' = NextSent'
  BY EmptySlot DEF Reconnect, NextRead, NextSent
<1>2. wire' \in Seq(Byte) /\ StreamOK' /\ StreamEndOK'
  BY <1>1, StreamEmpty DEF Reconnect
<1>3. sent \in Nat
  BY LinkAssumption DEF IInv, TypeOK
<1>4. TypeOK' /\ SlotsOK'
  BY <1>2, <1>3, EmptySlot, FrameAssumption
  DEF Reconnect, IInv, TypeOK, SlotsOK, IsVacant, IsCompleted, Position, Total
<1> QED BY <1>2, <1>4 DEF IInv

LEMMA StutterIInv == IInv /\ UNCHANGED vars => IInv'
<1> SUFFICES ASSUME IInv, UNCHANGED vars PROVE IInv'
  OBVIOUS
<1>1. /\ out' = out /\ in' = in /\ wire' = wire /\ up' = up
      /\ sent' = sent /\ rcvd' = rcvd /\ got' = got
  BY DEF vars
<1>2. TypeOK' /\ SlotsOK'
  BY <1>1 DEF IInv, TypeOK, SlotsOK, IsVacant, IsCompleted, Position, Total
<1>3. NextSent' = NextSent /\ NextRead' = NextRead /\ sent \in Nat
  BY <1>1, LinkAssumption DEF NextSent, NextRead, IsCompleted, Position, IInv, TypeOK
<1>4. StreamOK' /\ StreamEndOK'
  BY <1>1, <1>3, StreamKept
<1> QED BY <1>2, <1>4 DEF IInv

(* The framing invariant: slots and stream always fit together.             *)
THEOREM FramingInvariant == Spec => []IInv
<1>1. IInv /\ [Next]_vars => IInv'
  BY SendBeginIInv, SendTickIInv, SendDoneIInv, ReceiveBeginIInv, ReceiveTickIInv,
     ReceiveDoneIInv, BreakIInv, ReconnectIInv, StutterIInv DEF Next
<1> QED BY InitIInv, <1>1, PTL DEF Spec

(* No message is completed out of order, in part or with bytes of another.  *)
THEOREM CompletionOrder == Spec => []CompletedInOrder
<1>1. IInv => CompletedInOrder
  <2> SUFFICES ASSUME IInv, IsCompleted(in) PROVE CompletedInOrder
    BY DEF CompletedInOrder
  <2>1. in.hdr \in 0 .. HeaderSize /\ in.done \in Nat /\ rcvd \in Nat /\ sent \in Nat
    BY LinkAssumption DEF IInv, TypeOK, Slot
  <2>2. in.hdr = HeaderSize /\ in.tag = rcvd + 1 /\ Position(in) = Total(rcvd + 1)
    BY <2>1, FrameAssumption DEF IInv, SlotsOK
  <2>3. rcvd < sent
    BY <2>2, FrameAssumption DEF IInv, SlotsOK
  <2>4. PayloadSize(in.tag) \in Nat
    <3>1. rcvd + 1 \in 0 .. MaxMessages + 1
      BY <2>1, LinkAssumption DEF IInv, TypeOK
    <3> QED BY <2>2, <3>1, LinkAssumption
  <2>5. HeaderSize + in.done = HeaderSize + PayloadSize(in.tag)
    BY <2>2 DEF Position, Total
  <2>6. in.done = PayloadSize(in.tag)
    BY <2>1, <2>4, <2>5, FrameAssumption
  <2> QED BY <2>1, <2>2, <2>3, <2>6 DEF CompletedInOrder
<1> QED BY FramingInvariant, <1>1, PTL

(* The queue that the two counters stand for.                               *)
LEMMA QueueProperties ==
  ASSUME NEW s \in Nat, NEW r \in Nat, r <= s
  PROVE  LET q == [i \in 1 .. (s - r) |-> r + i] IN
         /\ q \in Seq(Nat) /\ Len(q) = s - r
         /\ Append(q, s + 1) = [i \in 1 .. (s + 1 - r) |-> r + i]
         /\ r < s => /\ q # <<>> /\ Head(q) = r + 1
                     /\ Tail(q) = [i \in 1 .. (s - (r + 1)) |-> (r + 1) + i]
<1> DEFINE q == [i \in 1 .. (s - r) |-> r + i]
<1>1. s - r \in Nat
  OBVIOUS
<1>2. q \in Seq(Nat) /\ Len(q) = s - r
  <2>1. \A i \in 1 .. (s - r) : r + i \in Nat
    OBVIOUS
  <2> QED BY <1>1, <2>1
<1>3. Append(q, s + 1) = [i \in 1 .. (s + 1 - r) |-> r + i]
  <2> DEFINE q2 == [i \in 1 .. (s + 1 - r) |-> r + i]
  <2>1. q2 \in Seq(Nat) /\ Len(q2) = s + 1 - r
    <3>1. \A i \in 1 .. (s + 1 - r) : r + i \in Nat
      OBVIOUS
    <3>2. s + 1 - r \in Nat
      OBVIOUS
    <3> QED BY <3>1, <3>2
  <2>2. /\ Append(q, s + 1) \in Seq(Nat)
        /\ Len(Append(q, s + 1)) = Len(q) + 1
        /\ \A i \in 1 .. Len(q) : Append(q, s + 1)[i] = q[i]
        /\ Append(q, s + 1)[Len(q) + 1] = s + 1
    BY <1>2, AppendProperties
  <2>3. \A i \in 1 .. (s + 1 - r) : q2[i] = r + i
    OBVIOUS
  <2>4. \A i \in 1 .. (s - r) : q[i] = r + i
    OBVIOUS
  <2> HIDE DEF q, q2
  <2>5. ASSUME NEW i \in 1 .. (s + 1 - r) PROVE Append(q, s + 1)[i] = q2[i]
    <3>1. CASE i \in 1 .. (s - r)
      BY <3>1, <1>2, <2>2, <2>3, <2>4
    <3>2. CASE i = s + 1 - r
      BY <3>2, <1>2, <2>2, <2>3
    <3>3. i \in 1 .. (s - r) \/ i = s + 1 - r
      OBVIOUS
    <3> QED BY <3>1, <3>2, <3>3
  <2>6. Len(Append(q, s + 1)) = Len(q2)
    BY <1>2, <2>1, <2>2
  <2>7. Append(q, s + 1) = q2
    BY <2>1, <2>2, <2>5, <2>6, SeqEqual
  <2> QED BY <2>7 DEF q2
<1>4. ASSUME r < s
      PROVE  /\ q # <<>> /\ Head(q) = r + 1
             /\ Tail(q) = [i \in 1 .. (s - (r + 1)) |-> (r + 1) + i]
  <2> DEFINE q3 == [i \in 1 .. (s - (r + 1)) |-> (r + 1) + i]
  <2>1. q # <<>>
    BY <1>2, <1>4, EmptySeq
  <2>2. Head(q) = r + 1
    BY <1>2, <1>4, <2>1
  <2>3. q3 \in Seq(Nat) /\ Len(q3) = s - (r + 1)
    <3>1. \A i \in 1 .. (s - (r + 1)) : (r + 1) + i \in Nat
      OBVIOUS
    <3>2. s - (r + 1) \in Nat
      BY <1>4
    <3> QED BY <3>1, <3>2
  <2>4. /\ Tail(q) \in Seq(Nat) /\ Len(Tail(q)) = Len(q) - 1
        /\ \A i \in 1 .. Len(Tail(q)) : Tail(q)[i] = q[i + 1]
    BY <1>2, <2>1, HeadTailProperties
  <2>5. \A i \in 1 .. (s - (r + 1)) : q3[i] = (r + 1) + i
    OBVIOUS
  <2>6. \A i \in 1 .. (s - r) : q[i] = r + i
    OBVIOUS
  <2> HIDE DEF q, q3
  <2>7. ASSUME NEW i \in 1 .. (s - (r + 1)) PROVE Tail(q)[i] = q3[i]
    <3>1. i + 1 \in 1 .. (s - r) /\ i \in 1 .. (s - r) - 1
      OBVIOUS
    <3> QED BY <3>1, <1>2, <2>4, <2>5, <2>6
  <2>8. Len(Tail(q)) = Len(q3)
    BY <1>2, <2>3, <2>4
  <2>9. Tail(q) = q3
    BY <2>3, <2>4, <2>7, <2>8, SeqEqual
  <2> QED BY <2>1, <2>2, <2>9 DEF q3
<1> QED BY <1>2, <1>3, <1>4

(* SendBegin is Put, ReceiveDone is Get, Reconnect is Lose, and every other *)
(* step leaves the queue alone.                                             *)
THEOREM LinkImplementsFifo == Spec => ImplementsFifo
<1> DEFINE queue == [i \in 1 .. (sent - rcvd) |-> rcvd + i]
<1>1. Init => Fifo!Init
  <2> SUFFICES ASSUME Init PROVE Fifo!Init
    OBVIOUS
  <2>1. sent = 0 /\ rcvd = 0 /\ got = 0
    BY DEF Init
  <2>2. queue = <<>>
    BY <2>1
  <2> QED BY <2>1, <2>2 DEF Fifo!Init
<1>2. IInv /\ [Next]_vars => [Fifo!Next]_<<sent, queue, got>>
  <2> SUFFICES ASSUME IInv, [Next]_vars PROVE [Fifo!Next]_<<sent, queue, got>>
    OBVIOUS
  <2>1. sent \in Nat /\ rcvd \in Nat /\ rcvd <= sent
    BY LinkAssumption DEF IInv, TypeOK, SlotsOK
  <2>2. CASE SendBegin
    <3>1. sent' = sent + 1 /\ rcvd' = rcvd /\ got' = got
      BY <2>2 DEF SendBegin
    <3>2. queue' = Append(queue, sent + 1)
      BY <2>1, <3>1, QueueProperties
    <3> HIDE DEF queue
    <3> QED BY <3>1, <3>2 DEF Fifo!Next, Fifo!Put, queue
  <2>3. CASE ReceiveDone
    <3>1. IsCompleted(in) /\ sent' = sent /\ rcvd' = rcvd + 1 /\ got' = in.tag
      BY <2>3 DEF ReceiveDone
    <3>2. in.tag = rcvd + 1 /\ rcvd < sent
      <4>1. in.hdr \in 0 .. HeaderSize
        BY DEF IInv, TypeOK, Slot
      <4>2. in.hdr = HeaderSize
        BY <3>1, <4>1, FrameAssumption DEF IInv, SlotsOK
      <4> QED BY <4>2, FrameAssumption DEF IInv, SlotsOK
    <3>3. queue # <<>> /\ Head(queue) = rcvd + 1 /\ queue' = Tail(queue)
      <4>1. /\ queue # <<>> /\ Head(queue) = rcvd + 1
            /\ Tail(queue) = [i \in 1 .. (sent - (rcvd + 1)) |-> (rcvd + 1) + i]
        BY <2>1, <3>2, QueueProperties
      <4>2. queue' = [i \in 1 .. (sent - (rcvd + 1)) |-> (rcvd + 1) + i]
        BY <3>1
      <4> HIDE DEF queue
      <4> QED BY <4>1, <4>2
    <3> HIDE DEF queue
    <3> QED BY <3>1, <3>2, <3>3 DEF Fifo!Next, Fifo!Get, queue
  <2>4. CASE Reconnect
    <3>1. sent' = sent /\ rcvd' = sent /\ got' = got
      BY <2>4 DEF Reconnect
    <3>2. queue' = <<>>
      BY <2>1, <3>1
    <3> QED BY <3>1, <3>2 DEF Fifo!Next, Fifo!Lose
  <2>5. CASE UNCHANGED <<sent, rcvd, got>>
    BY <2>5
  <2>6. \/ SendBegin \/ ReceiveDone \/ Reconnect \/ UNCHANGED <<sent, rcvd, got>>
    BY DEF Next, SendTick, SendDone, ReceiveBegin, ReceiveTick, Break, vars
  <2> QED BY <2>2, <2>3, <2>4, <2>5, <2>6
<1> QED BY FramingInvariant, <1>1, <1>2, PTL DEF Spec, Fifo!Spec, ImplementsFifo

=============================================================================
