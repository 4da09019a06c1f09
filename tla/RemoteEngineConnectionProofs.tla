-------------------- MODULE RemoteEngineConnectionProofs --------------------
(***************************************************************************)
(* Proofs of the safety of RemoteEngineConnection, for any sizes, rates,   *)
(* buffers and numbers of connections and faults: types, what disconnect() *)
(* leaves, how many Fields messages one request is answered with, framing, *)
(* the kinds of messages before each reader, and the tokens.               *)
(*                                                                         *)
(* Three invariants build on each other.  Grounded says what the slots, the*)
(* calls and the connections look like between two calls.  Framed says of  *)
(* each connection that its stream, its reader's slot and its writer's fit *)
(* together; it is stated for all connections at once, because an old one  *)
(* may still be half open when the next begins.  Spoken says of what kind  *)
(* the messages are.  For the last two the actions are first reduced to    *)
(* the few kinds of steps (SendCall, ReceiveCall, LetsGo, ...) that they   *)
(* tell apart.                                                             *)
(***************************************************************************)
EXTENDS RemoteEngineConnection, SequenceTheorems, TLAPS

-----------------------------------------------------------------------------
(* Messages: what a slot that sends or receives can look like, and what     *)
(* the bytes of whole messages in flight look like.                         *)

(* The bytes of the message that x, a slot or a byte in flight, belongs     *)
(* to.                                                                      *)
Whole(x) == HeaderSize + x.size

(* A slot for outgoing messages between two calls of its tick().            *)
SendSlot == {m \in Message :
  /\ m.stage \in {"Vacant", "Sending", "Completed"}
  /\ IsVacant(m) => m = Empty
  /\ m.stage = "Sending" => Position(m) < Whole(m)
  /\ IsCompleted(m) => Position(m) = Whole(m)
  /\ m.hdr < HeaderSize => m.done = 0 /\ m.chunk = 0
  /\ m.done + m.chunk <= m.size}

(* A slot for incoming messages.  A message whose payload is empty is       *)
(* never left waiting for it: the call that reads its header completes it.  *)
ReceiveSlot == {m \in Message :
  /\ m.stage \in {"Vacant", "Receiving", "Completed"}
  /\ IsVacant(m) => m = Empty
  /\ m.chunk = 0
  /\ m.hdr < HeaderSize => m.done = 0 /\ m.stage # "Completed"
  /\ m.hdr = HeaderSize /\ m.stage = "Receiving" => m.done < m.size
  /\ IsCompleted(m) => m.done = m.size}

SlotsOK == \A s \in Sides : out[s] \in SendSlot /\ in[s] \in ReceiveSlot

(* b is the last byte of its message, and b comes n bytes after a in the    *)
(* same one.                                                                *)
Ends(b) == b.pos = Whole(b)
Follows(a, b, n) == b.tag = a.tag /\ b.size = a.size /\ b.pos = a.pos + n

(* A stream of bytes: from each byte on, its message goes on to its end,    *)
(* and what comes after the end is the first byte of another.  The first    *)
(* message may have lost its beginning and the last one its end.            *)
Run(q) ==
  /\ \A i \in 1 .. Len(q) : q[i].pos \in 1 .. Whole(q[i])
  /\ \A i, j \in 1 .. Len(q) :
       i <= j /\ q[i].pos + (j - i) <= Whole(q[i]) => Follows(q[i], q[j], j - i)
  /\ \A i \in 1 .. Len(q) - 1 : Ends(q[i]) => q[i + 1].pos = 1

(* How far the message in slot m has gone out; the byte that its reader in  *)
(* slot m waits for; the last byte b on the wire in front of what slot m    *)
(* sends next; and a writer's slot and a reader's slot with nothing in      *)
(* between.                                                                 *)
Sent(m) == IF IsCompleted(m) THEN 0 ELSE Position(m)
Awaited(m, b) == b.pos = Position(m) + 1 /\ (m.hdr = HeaderSize => b.tag = m.tag /\ b.size = m.size)
LeftBy(b, m) == IF Sent(m) = 0 THEN Ends(b) ELSE b.tag = m.tag /\ b.size = m.size /\ b.pos = Sent(m)
Meet(m, o) == Position(m) = Sent(o) /\ (m.hdr = HeaderSize => m.tag = o.tag /\ m.size = o.size)

(* The smaller of two numbers.                                              *)
LEMMA MinProperties ==
  ASSUME NEW a \in Int, NEW b \in Int
  PROVE  /\ MinOf(a, b) \in Int /\ MinOf(a, b) <= a /\ MinOf(a, b) <= b
         /\ MinOf(a, b) = a \/ MinOf(a, b) = b
BY DEF MinOf

(* What one tick() makes of a message being sent: the slot stays a slot,    *)
(* and Position counts the bytes that went out.                             *)
LEMMA AfterSendOK ==
  ASSUME NEW m \in SendSlot, m.stage = "Sending", NEW room \in Nat,
         NEW h, h = MinOf(HeaderSize - m.hdr, room),
         NEW p, p = IF m.hdr + h = HeaderSize THEN MinOf(ChunkToSend(m), room - h) ELSE 0,
         NEW o, o = AfterSend(m, h, p)
  PROVE  /\ h + p \in 0 .. room
         /\ o \in SendSlot /\ o.stage \in {"Sending", "Completed"}
         /\ o.tag = m.tag /\ o.size = m.size /\ Position(o) = Position(m) + (h + p)
         /\ o.hdr > 0 \/ room = 0
<1> USE FrameAssumption
<1>1. /\ m \in Message /\ m.hdr \in 0 .. HeaderSize /\ m.done \in Nat /\ m.chunk \in 0 .. ChunkSize
      /\ m.size \in Nat /\ m.hdr + m.done < HeaderSize + m.size
      /\ m.hdr < HeaderSize => m.done = 0 /\ m.chunk = 0
      /\ m.done + m.chunk <= m.size
  BY DEF SendSlot, Message, Position, Whole
<1>2. h \in 0 .. HeaderSize - m.hdr /\ h <= room /\ (m.hdr + h = HeaderSize \/ h = room)
  <2>1. HeaderSize - m.hdr \in Int /\ room \in Int
    BY <1>1
  <2>2. /\ h \in Int /\ h <= HeaderSize - m.hdr /\ h <= room
        /\ h = HeaderSize - m.hdr \/ h = room
    BY <2>1, MinProperties
  <2>3. m.hdr \in Int /\ room \in Int /\ HeaderSize \in Int /\ room >= 0 /\ m.hdr <= HeaderSize
    BY <1>1
  <2> QED BY <2>2, <2>3
<1>3. ChunkToSend(m) \in 0 .. ChunkSize /\ m.done + ChunkToSend(m) <= m.size
  <2>1. m.size - m.done \in Int /\ ChunkSize \in Int
    BY <1>1
  <2> DEFINE k == MinOf(ChunkSize, m.size - m.done)
  <2>2. /\ k \in Int /\ k <= ChunkSize /\ k <= m.size - m.done
        /\ k = ChunkSize \/ k = m.size - m.done
    BY <2>1, MinProperties
  <2>3. ChunkToSend(m) = IF m.chunk > 0 THEN m.chunk ELSE k
    BY DEF ChunkToSend
  <2>4. m.done <= m.size
    BY <1>1
  <2> HIDE DEF k
  <2> QED BY <1>1, <2>2, <2>3, <2>4
<1>4. p \in 0 .. ChunkToSend(m) /\ p <= room - h /\ (m.hdr + h # HeaderSize => p = 0)
  BY <1>2, <1>3 DEF MinOf
<1>5. /\ o.hdr = m.hdr + h /\ o.done = m.done + p
      /\ o.chunk = IF m.hdr + h = HeaderSize THEN ChunkToSend(m) - p ELSE 0
      /\ o.stage = IF m.hdr + h = HeaderSize /\ m.done + p = m.size THEN "Completed" ELSE "Sending"
      /\ o.tag = m.tag /\ o.size = m.size
      /\ o = [stage |-> o.stage, tag |-> o.tag, size |-> o.size, hdr |-> o.hdr,
              done |-> o.done, chunk |-> o.chunk]
  BY <1>1 DEF AfterSend, Message
<1>6. o.hdr \in 0 .. HeaderSize /\ o.done \in Nat /\ o.chunk \in 0 .. ChunkSize
  <2>1. o.hdr \in 0 .. HeaderSize
    BY <1>1, <1>2, <1>5
  <2>2. o.done \in Nat
    BY <1>1, <1>3, <1>4, <1>5
  <2>3. o.chunk \in 0 .. ChunkSize
    BY <1>3, <1>4, <1>5
  <2> QED BY <2>1, <2>2, <2>3
<1>7. o \in Message
  <2>1. m.tag \in Tags /\ o.stage \in Stages
    BY <1>1, <1>5 DEF Message, Stages
  <2> QED BY <1>1, <1>5, <1>6, <2>1 DEF Message
<1>8. Position(o) = Position(m) + (h + p)
  BY <1>1, <1>2, <1>3, <1>4, <1>5 DEF Position
<1>9. o.stage = "Sending" => Position(o) < Whole(o)
  <2>1. CASE m.hdr + h = HeaderSize
    BY <2>1, <1>1, <1>3, <1>4, <1>5 DEF Position, Whole
  <2>2. CASE m.hdr + h # HeaderSize
    <3>1. m.hdr + h < HeaderSize /\ p = 0 /\ m.hdr < HeaderSize /\ m.done = 0
      BY <2>2, <1>1, <1>2, <1>4
    <3>2. Position(o) = m.hdr + h /\ Whole(o) = HeaderSize + m.size
      BY <3>1, <1>1, <1>2, <1>5 DEF Position, Whole
    <3> QED BY <1>1, <1>2, <3>1, <3>2
  <2> QED BY <2>1, <2>2
<1>10. o.stage = "Completed" => Position(o) = Whole(o)
  BY <1>1, <1>2, <1>4, <1>5 DEF Position, Whole
<1>11. (o.hdr < HeaderSize => o.done = 0 /\ o.chunk = 0) /\ o.done + o.chunk <= o.size
  BY <1>1, <1>2, <1>3, <1>4, <1>5
<1>12. o.hdr > 0 \/ room = 0
  BY <1>1, <1>2, <1>5 DEF MinOf
<1>13. o \in SendSlot
  BY <1>5, <1>7, <1>9, <1>10, <1>11 DEF SendSlot, IsVacant, IsCompleted
<1>14. h + p \in 0 .. room
  BY <1>1, <1>2, <1>3, <1>4
<1> QED
  BY <1>5, <1>8, <1>12, <1>13, <1>14

(* What one tick() makes of a message being received.                       *)
LEMMA AfterReceiveTyped ==
  ASSUME NEW m \in ReceiveSlot, m.stage = "Receiving", NEW q \in Seq(Byte),
         NEW h, h = MinOf(HeaderSize - m.hdr, Len(q)),
         NEW r, r = HeaderIn(m, q, h),
         NEW p, p = IF r.hdr = HeaderSize
                    THEN MinOf(MinOf(ChunkSize, r.size - m.done), Len(q) - h) ELSE 0,
         NEW o, o = AfterReceive(m, q, h, p)
  PROVE  /\ h \in Nat /\ p \in Nat /\ h + p \in 0 .. Len(q)
         /\ o \in ReceiveSlot /\ o.stage \in {"Receiving", "Completed"}
         /\ o.hdr = m.hdr + h /\ o.done = m.done + p
         /\ Position(o) = Position(m) + (h + p)
         /\ o.hdr = HeaderSize =>
              IF m.hdr = HeaderSize THEN o.tag = m.tag /\ o.size = m.size
              ELSE h \in 1 .. Len(q) /\ o.tag = q[h].tag /\ o.size = q[h].size
         /\ o.hdr < HeaderSize => p = 0
         /\ o.hdr = HeaderSize => o.done <= o.size
<1> USE FrameAssumption
<1>1. /\ m \in Message /\ m.hdr \in 0 .. HeaderSize /\ m.done \in Nat /\ m.chunk = 0
      /\ m.size \in Nat /\ m.tag \in Tags
      /\ m.hdr < HeaderSize => m.done = 0
      /\ m.hdr = HeaderSize => m.done < m.size
  BY DEF ReceiveSlot, Message
<1>2. /\ Len(q) \in Nat /\ h \in 0 .. HeaderSize - m.hdr /\ h <= Len(q)
      /\ h > 0 => h \in 1 .. Len(q) /\ q[h].tag \in Tags /\ q[h].size \in Nat
  <2>1. Len(q) \in Nat /\ h \in 0 .. HeaderSize - m.hdr /\ h <= Len(q)
    BY <1>1 DEF MinOf
  <2>2. h > 0 => h \in 1 .. Len(q)
    BY <2>1
  <2>3. h > 0 => q[h] \in Byte
    BY <2>2, ElementOfSeq
  <2> QED BY <2>1, <2>2, <2>3 DEF Byte
<1>3. /\ r.hdr = m.hdr + h /\ r.done = m.done /\ r.stage = "Receiving" /\ r.chunk = 0
      /\ r.tag = (IF h > 0 /\ m.hdr + h = HeaderSize THEN q[h].tag ELSE m.tag)
      /\ r.size = (IF h > 0 /\ m.hdr + h = HeaderSize THEN q[h].size ELSE m.size)
      /\ r = [stage |-> r.stage, tag |-> r.tag, size |-> r.size, hdr |-> r.hdr,
              done |-> r.done, chunk |-> r.chunk]
  BY <1>1 DEF HeaderIn, Message
<1>4. r.tag \in Tags /\ r.size \in Nat /\ r.hdr \in 0 .. HeaderSize
  BY <1>1, <1>2, <1>3
<1>5. /\ p \in Nat /\ p <= Len(q) - h /\ (r.hdr # HeaderSize => p = 0)
      /\ r.hdr = HeaderSize => m.done + p <= r.size
  <2>1. r.hdr = HeaderSize => m.done <= r.size
    BY <1>1, <1>2, <1>3
  <2>2. /\ ChunkSize \in Int /\ r.size - m.done \in Int /\ Len(q) - h \in Int
        /\ Len(q) - h >= 0
    BY <1>1, <1>2, <1>4
  <2>3. CASE r.hdr = HeaderSize
    <3> DEFINE a == MinOf(ChunkSize, r.size - m.done)
    <3>1. a \in Int /\ a <= r.size - m.done /\ (a = ChunkSize \/ a = r.size - m.done)
      BY <2>2, MinProperties
    <3>2. p = MinOf(a, Len(q) - h)
      BY <2>3
    <3> DEFINE b == Len(q) - h
    <3> HIDE DEF a
    <3>3. p \in Int /\ p <= b /\ p <= a /\ (p = a \/ p = b)
      <4>1. b \in Int /\ p = MinOf(a, b)
        BY <2>2, <3>2
      <4> HIDE DEF b
      <4> QED BY <3>1, <4>1, MinProperties
    <3>4. a >= 0
      BY <1>1, <1>4, <2>1, <2>3, <3>1
    <3>5. p \in Nat
      BY <2>2, <3>3, <3>4
    <3>6. m.done + p <= r.size
      BY <1>1, <1>4, <3>1, <3>3, <3>5
    <3> QED BY <2>3, <3>3, <3>5, <3>6
  <2>4. CASE r.hdr # HeaderSize
    BY <2>2, <2>4
  <2> QED BY <2>3, <2>4
<1>6. /\ o.hdr = m.hdr + h /\ o.done = m.done + p /\ o.chunk = 0
      /\ o.tag = r.tag /\ o.size = r.size
      /\ o.stage = IF r.hdr = HeaderSize /\ m.done + p = r.size THEN "Completed" ELSE "Receiving"
      /\ o = [stage |-> o.stage, tag |-> o.tag, size |-> o.size, hdr |-> o.hdr,
              done |-> o.done, chunk |-> o.chunk]
  BY <1>3 DEF AfterReceive
<1>7. o \in Message
  <2>1. o.stage \in Stages /\ o.chunk \in 0 .. ChunkSize /\ o.done \in Nat /\ o.hdr \in 0 .. HeaderSize
    BY <1>1, <1>3, <1>4, <1>5, <1>6 DEF Stages
  <2> QED BY <1>4, <1>6, <2>1 DEF Message
<1>8. /\ o.hdr < HeaderSize => o.done = 0 /\ o.stage # "Completed"
      /\ o.hdr = HeaderSize /\ o.stage = "Receiving" => o.done < o.size
      /\ o.stage = "Completed" => o.done = o.size
  <2>1. o.hdr < HeaderSize => r.hdr # HeaderSize /\ p = 0 /\ m.done = 0
    BY <1>1, <1>2, <1>3, <1>5, <1>6
  <2>2. o.hdr < HeaderSize => o.done = 0 /\ o.stage # "Completed"
    BY <2>1, <1>1, <1>6
  <2>3. o.hdr = HeaderSize => o.done <= o.size /\ o.done \in Nat /\ o.size \in Nat
    BY <1>1, <1>3, <1>4, <1>5, <1>6
  <2>4. o.hdr = HeaderSize /\ o.stage = "Receiving" => o.done # o.size
    BY <1>3, <1>6
  <2>5. o.hdr = HeaderSize /\ o.stage = "Receiving" => o.done < o.size
    BY <2>3, <2>4
  <2>6. o.stage = "Completed" => r.hdr = HeaderSize /\ m.done + p = r.size
    BY <1>6
  <2>7. o.stage = "Completed" => o.done = o.size
    BY <2>6, <1>6
  <2> QED BY <2>2, <2>5, <2>7
<1>9. o \in ReceiveSlot /\ o.stage \in {"Receiving", "Completed"}
  <2>1. o.stage \in {"Receiving", "Completed"}
    BY <1>6
  <2>2. o.chunk = 0
    BY <1>6
  <2> QED BY <1>7, <1>8, <2>1, <2>2 DEF ReceiveSlot, IsVacant, IsCompleted
<1>10. Position(o) = Position(m) + (h + p)
  BY <1>1, <1>2, <1>5, <1>6 DEF Position
<1>11. h + p \in 0 .. Len(q)
  BY <1>1, <1>2, <1>5
<1>12. o.hdr = HeaderSize =>
         IF m.hdr = HeaderSize THEN o.tag = m.tag /\ o.size = m.size
         ELSE h \in 1 .. Len(q) /\ o.tag = q[h].tag /\ o.size = q[h].size
  <2>1. m.hdr # HeaderSize /\ o.hdr = HeaderSize => h > 0
    BY <1>1, <1>2, <1>6
  <2>2. m.hdr = HeaderSize => h = 0
    BY <1>1, <1>2
  <2> QED BY <2>1, <2>2, <1>2, <1>3, <1>6
<1>13. (o.hdr < HeaderSize => p = 0) /\ (o.hdr = HeaderSize => o.done <= o.size)
  BY <1>3, <1>5, <1>6
<1> QED
  BY <1>2, <1>5, <1>6, <1>9, <1>10, <1>11, <1>12, <1>13

-----------------------------------------------------------------------------
(* Bytes appended to, and taken from, such a stream.                        *)

(* The bytes that a message sends next.                                     *)
LEMMA BytesOf ==
  ASSUME NEW m \in SendSlot, NEW n \in Nat
  PROVE  /\ NextBytes(m, n) \in Seq(Byte) /\ Len(NextBytes(m, n)) = n
         /\ Position(m) \in Nat
         /\ \A i \in 1 .. n : /\ NextBytes(m, n)[i].tag = m.tag
                              /\ NextBytes(m, n)[i].size = m.size
                              /\ NextBytes(m, n)[i].pos = Position(m) + i
<1>1. m.tag \in Tags /\ m.size \in Nat /\ Position(m) \in Nat
  BY FrameAssumption DEF SendSlot, Message, Position
<1>2. \A i \in 1 .. n : [tag |-> m.tag, size |-> m.size, pos |-> Position(m) + i] \in Byte
  BY <1>1 DEF Byte
<1> QED BY <1>1, <1>2 DEF NextBytes

(* t is the stream q with n more bytes of the message in slot m.            *)
Grown(q, m, n, t) ==
  /\ t \in Seq(Byte) /\ Run(t) /\ Len(t) = Len(q) + n
  /\ \A i \in 1 .. Len(q) : t[i] = q[i]
  /\ \A i \in Len(q) + 1 .. Len(q) + n :
       t[i].tag = m.tag /\ t[i].size = m.size /\ t[i].pos = Position(m) + (i - Len(q))

(* Bytes that carry on where the stream ends keep it a stream.              *)
LEMMA Extended ==
  ASSUME NEW q \in Seq(Byte), Run(q), NEW m \in SendSlot, m.stage = "Sending",
         q # <<>> => LeftBy(q[Len(q)], m),
         NEW n \in Nat, Position(m) + n <= Whole(m),
         NEW t, t = q \o NextBytes(m, n)
  PROVE  Grown(q, m, n, t)
<1> DEFINE a == Len(q)
<1> DEFINE b == NextBytes(m, n)
<1> DEFINE P == Position(m)
<1>1. a \in Nat /\ P \in Nat /\ m.size \in Nat /\ HeaderSize \in Nat \ {0} /\ P + n <= HeaderSize + m.size
      /\ m.stage # "Completed" /\ P < HeaderSize + m.size
  <2>1. m.size \in Nat /\ Position(m) < Whole(m) /\ m.stage # "Completed"
    BY DEF SendSlot, Message
  <2>2. HeaderSize \in Nat \ {0} /\ Position(m) \in Nat
    BY FrameAssumption, BytesOf
  <2>3. Whole(m) = HeaderSize + m.size
    BY DEF Whole
  <2> QED BY <2>1, <2>2, <2>3
<1>2. /\ t \in Seq(Byte) /\ Len(t) = a + n
      /\ \A i \in 1 .. a : t[i] = q[i]
      /\ \A i \in a + 1 .. a + n :
           t[i].tag = m.tag /\ t[i].size = m.size /\ t[i].pos = P + (i - a)
  <2>1. /\ b \in Seq(Byte) /\ Len(b) = n
        /\ \A i \in 1 .. n : b[i].tag = m.tag /\ b[i].size = m.size /\ b[i].pos = P + i
    BY BytesOf
  <2> HIDE DEF b, P
  <2>2. /\ q \o b \in Seq(Byte) /\ Len(q \o b) = Len(q) + Len(b)
        /\ \A i \in 1 .. Len(q) + Len(b) : (q \o b)[i] =
                     IF i <= Len(q) THEN q[i] ELSE b[i - Len(q)]
    BY <2>1, ConcatProperties
  <2>3. t = q \o b
    BY DEF b
  <2>4. \A i \in a + 1 .. a + n : i - a \in 1 .. n /\ i \in 1 .. Len(q) + Len(b) /\ ~(i <= Len(q))
    BY <1>1, <2>1
  <2>5. \A i \in 1 .. a : i \in 1 .. Len(q) + Len(b) /\ i <= Len(q)
    BY <1>1, <2>1
  <2>6. t \in Seq(Byte) /\ Len(t) = a + n
    BY <2>1, <2>2, <2>3
  <2>7. \A i \in 1 .. a : t[i] = q[i]
    BY <2>2, <2>3, <2>5
  <2>8. \A i \in a + 1 .. a + n : t[i] = b[i - a]
    BY <2>2, <2>3, <2>4
  <2>9. \A i \in a + 1 .. a + n :
          t[i].tag = m.tag /\ t[i].size = m.size /\ t[i].pos = P + (i - a)
    BY <2>1, <2>4, <2>8
  <2> QED BY <2>6, <2>7, <2>9
<1>3. \A i \in 1 .. Len(t) : t[i].pos \in 1 .. Whole(t[i])
  <2> TAKE i \in 1 .. Len(t)
  <2>1. CASE i <= a
    <3>1. i \in 1 .. a
      BY <1>1, <1>2, <2>1
    <3> QED BY <1>2, <3>1 DEF Run
  <2>2. CASE ~(i <= a)
    <3>1. i \in a + 1 .. a + n
      BY <1>1, <1>2, <2>2
    <3>2. t[i].pos = P + (i - a) /\ t[i].size = m.size
      BY <1>2, <3>1
    <3> HIDE DEF P
    <3>3. P + (i - a) \in 1 .. HeaderSize + m.size
      BY <1>1, <3>1
    <3> QED BY <3>2, <3>3 DEF Whole
  <2> QED BY <2>1, <2>2
<1>4. q # <<>> => a > 0 /\ a \in 1 .. a /\ q[a] \in Byte /\ q[a].pos \in 1 .. Whole(q[a])
        /\ IF P = 0 THEN Ends(q[a]) ELSE q[a].tag = m.tag /\ q[a].size = m.size /\ q[a].pos = P
  <2> SUFFICES ASSUME q # <<>> PROVE a > 0 /\ a \in 1 .. a /\ q[a] \in Byte /\ q[a].pos \in 1 .. Whole(q[a])
        /\ IF P = 0 THEN Ends(q[a]) ELSE q[a].tag = m.tag /\ q[a].size = m.size /\ q[a].pos = P
    OBVIOUS
  <2>1. a > 0 /\ a \in 1 .. a
    BY <1>1
  <2>2. q[a] \in Byte
    BY <2>1, ElementOfSeq
  <2>3. q[a].pos \in 1 .. Whole(q[a])
    BY <2>1 DEF Run
  <2> QED BY <1>1, <2>1, <2>2, <2>3 DEF LeftBy, Sent, IsCompleted
<1>5. \A i, j \in 1 .. Len(t) :
        i <= j /\ t[i].pos + (j - i) <= Whole(t[i]) => Follows(t[i], t[j], j - i)
  <2> SUFFICES ASSUME NEW i \in 1 .. Len(t), NEW j \in 1 .. Len(t),
                      i <= j, t[i].pos + (j - i) <= Whole(t[i])
               PROVE  Follows(t[i], t[j], j - i)
    OBVIOUS
  <2> HIDE DEF P
  <2>1. CASE j <= a
    <3>1. i \in 1 .. a /\ j \in 1 .. a
      BY <1>1, <1>2, <2>1
    <3> QED BY <1>2, <3>1 DEF Run
  <2>2. CASE i > a
    <3>1. i \in a + 1 .. a + n /\ j \in a + 1 .. a + n
      BY <1>1, <1>2, <2>2
    <3>2. /\ t[i].tag = m.tag /\ t[i].size = m.size /\ t[i].pos = P + (i - a)
          /\ t[j].tag = m.tag /\ t[j].size = m.size /\ t[j].pos = P + (j - a)
      BY <1>2, <3>1
    <3>3. P + (j - a) = P + (i - a) + (j - i)
      BY <1>1, <3>1
    <3> QED BY <3>2, <3>3 DEF Follows
  <2>3. CASE i <= a /\ j > a
    <3>1. i \in 1 .. a /\ j \in a + 1 .. a + n /\ a \in 1 .. a /\ q # <<>>
      BY <1>1, <1>2, <2>3
    <3>2. q[i] \in Byte
      BY <3>1, ElementOfSeq
    <3>3. q[i].pos \in Nat /\ q[i].size \in Nat /\ t[i] = q[i]
      BY <1>2, <3>1, <3>2 DEF Byte
    <3>4. /\ q[i].pos + (a - i) < Whole(q[i]) /\ q[i].pos + (a - i) <= Whole(q[i])
          /\ Whole(q[i]) \in Nat /\ i <= a
      <4>1. HeaderSize \in Nat /\ q[i].size \in Nat
        BY <1>1, <3>3
      <4>2. Whole(q[i]) = HeaderSize + q[i].size
        BY DEF Whole
      <4>3. q[i].pos + (j - i) <= Whole(q[i])
        BY <3>3
      <4> DEFINE w == Whole(q[i])
      <4> DEFINE x == q[i].pos
      <4>4. w \in Nat /\ x \in Nat /\ x + (j - i) <= w
        BY <4>1, <4>2, <4>3, <3>3
      <4> HIDE DEF w, x
      <4>5. x + (a - i) < w /\ x + (a - i) <= w /\ i <= a
        <5>1. a \in Nat /\ i \in Nat /\ j \in Nat /\ i <= a /\ a < j
          BY <1>1, <3>1
        <5>2. x \in Nat /\ w \in Nat /\ x + (j - i) <= w
          BY <4>4
        <5> QED BY <5>1, <5>2
      <4> QED BY <4>4, <4>5 DEF w, x
    <3>5. Follows(q[i], q[a], a - i)
      BY <3>1, <3>4 DEF Run
    <3>6. ~Ends(q[a])
      <4>1. q[a].pos = q[i].pos + (a - i) /\ Whole(q[a]) = Whole(q[i])
        BY <3>5 DEF Follows, Whole
      <4> QED BY <1>1, <3>1, <3>3, <3>4, <4>1 DEF Ends
    <3>7. q[a].tag = m.tag /\ q[a].size = m.size /\ q[a].pos = P
      BY <1>4, <3>1, <3>6
    <3>8. t[j].tag = m.tag /\ t[j].size = m.size /\ t[j].pos = P + (j - a)
      BY <1>2, <3>1
    <3>9. q[a].pos = q[i].pos + (a - i) /\ q[a].tag = q[i].tag /\ q[a].size = q[i].size
      BY <3>5 DEF Follows
    <3>10. P + (j - a) = q[i].pos + (j - i)
      <4> DEFINE x == q[i].pos
      <4>1. P = x + (a - i) /\ x \in Int /\ a \in Int /\ i \in Int /\ j \in Int
        BY <1>1, <3>1, <3>3, <3>7, <3>9
      <4> HIDE DEF x
      <4>2. P + (j - a) = x + (j - i)
        BY <4>1
      <4> QED BY <4>2 DEF x
    <3> QED BY <3>3, <3>7, <3>8, <3>9, <3>10 DEF Follows
  <2> QED BY <1>1, <2>1, <2>2, <2>3
<1>6. \A i \in 1 .. Len(t) - 1 : Ends(t[i]) => t[i + 1].pos = 1
  <2> SUFFICES ASSUME NEW i \in 1 .. Len(t) - 1, Ends(t[i]) PROVE t[i + 1].pos = 1
    OBVIOUS
  <2> HIDE DEF P
  <2>1. CASE i < a
    <3>1. i \in 1 .. a /\ i + 1 \in 1 .. a /\ i \in 1 .. Len(q) - 1
      BY <1>1, <1>2, <2>1
    <3> QED BY <1>2, <3>1 DEF Run
  <2>2. CASE i = a
    <3>1. i \in 1 .. a /\ i + 1 \in a + 1 .. a + n /\ q # <<>> /\ t[i] = q[a]
      BY <1>1, <1>2, <2>2
    <3>2. P = 0
      BY <1>1, <1>4, <3>1 DEF Ends, Whole
    <3>3. t[i + 1].pos = P + ((i + 1) - a)
      BY <1>2, <3>1
    <3> QED BY <1>1, <2>2, <3>2, <3>3
  <2>3. CASE i > a
    <3>1. i \in a + 1 .. a + n /\ i < a + n
      BY <1>1, <1>2, <2>3
    <3>2. t[i].pos = P + (i - a) /\ t[i].size = m.size
      BY <1>2, <3>1
    <3> QED BY <1>1, <3>1, <3>2 DEF Ends, Whole
  <2> QED BY <1>1, <2>1, <2>2, <2>3
<1> QED BY <1>2, <1>3, <1>5, <1>6 DEF Run, Grown

(* What is left of a stream whose first k bytes are read is a stream.       *)
LEMMA Consumed ==
  ASSUME NEW q \in Seq(Byte), Run(q), NEW k \in 0 .. Len(q),
         NEW t, t = SubSeq(q, k + 1, Len(q))
  PROVE  /\ t \in Seq(Byte) /\ Run(t) /\ Len(t) = Len(q) - k
         /\ \A i \in 1 .. Len(t) : t[i] = q[k + i] /\ k + i \in 1 .. Len(q)
<1> DEFINE a == Len(q)
<1>1. a \in Nat /\ k \in Nat /\ k <= a /\ k + 1 \in Int /\ a \in Int
  OBVIOUS
<1>2. \A j \in k + 1 .. a : q[j] \in Byte
  <2> TAKE j \in k + 1 .. a
  <2>1. j \in 1 .. Len(q)
    BY <1>1
  <2> QED BY <2>1, ElementOfSeq
<1>3. /\ t \in Seq(Byte) /\ Len(t) = IF k + 1 <= a THEN a - (k + 1) + 1 ELSE 0
      /\ \A i \in 1 .. a - (k + 1) + 1 : t[i] = q[(k + 1) + i - 1]
  BY <1>1, <1>2, SubSeqProperties
<1>4. Len(t) = a - k /\ \A i \in 1 .. a - k : t[i] = q[k + i] /\ k + i \in 1 .. a
  <2>1. a - (k + 1) + 1 = a - k /\ (k + 1 <= a \/ a - k = 0)
    BY <1>1
  <2>2. Len(t) = a - k
    BY <1>1, <1>3, <2>1
  <2> SUFFICES ASSUME NEW i \in 1 .. a - k PROVE t[i] = q[k + i] /\ k + i \in 1 .. a
    BY <2>2
  <2>3. t[i] = q[(k + 1) + i - 1]
    BY <1>3, <2>1
  <2>4. (k + 1) + i - 1 = k + i /\ k + i \in 1 .. a
    BY <1>1
  <2> HIDE DEF a
  <2> QED BY <2>3, <2>4
<1> HIDE DEF a
<1>5. \A i \in 1 .. Len(t) : t[i].pos \in 1 .. Whole(t[i])
  BY <1>4 DEF Run, a
<1>6. \A i, j \in 1 .. Len(t) :
        i <= j /\ t[i].pos + (j - i) <= Whole(t[i]) => Follows(t[i], t[j], j - i)
  <2> SUFFICES ASSUME NEW i \in 1 .. Len(t), NEW j \in 1 .. Len(t),
                      i <= j, t[i].pos + (j - i) <= Whole(t[i])
               PROVE  Follows(t[i], t[j], j - i)
    OBVIOUS
  <2>1. /\ t[i] = q[k + i] /\ t[j] = q[k + j] /\ k + i \in 1 .. Len(q) /\ k + j \in 1 .. Len(q)
        /\ (k + j) - (k + i) = j - i /\ k + i <= k + j
    BY <1>1, <1>4 DEF a
  <2> QED BY <2>1 DEF Run
<1>7. \A i \in 1 .. Len(t) - 1 : Ends(t[i]) => t[i + 1].pos = 1
  <2> TAKE i \in 1 .. Len(t) - 1
  <2>1. /\ t[i] = q[k + i] /\ t[i + 1] = q[(k + i) + 1] /\ k + i \in 1 .. Len(q) - 1
    BY <1>1, <1>4 DEF a
  <2> QED BY <2>1 DEF Run
<1> QED BY <1>3, <1>4, <1>5, <1>6, <1>7 DEF Run, a

(* What comes next on the wire, if anything, is what slot m waits for.      *)
Expects(m, q) == q # <<>> => Awaited(m, q[1])

(* One tick() takes h bytes of header and p of payload, k in all, off the   *)
(* stream q and turns the slot m into o.                                    *)
Advances(m, q, h, p, k, o) ==
  /\ h \in Nat /\ p \in Nat /\ k = h + p /\ k \in 0 .. Len(q)
  /\ m \in ReceiveSlot /\ m.stage = "Receiving"
  /\ o \in ReceiveSlot /\ o.stage \in {"Receiving", "Completed"}
  /\ o.hdr = m.hdr + h /\ o.done = m.done + p
  /\ Position(o) = Position(m) + k
  /\ o.hdr = HeaderSize =>
       IF m.hdr = HeaderSize THEN o.tag = m.tag /\ o.size = m.size
       ELSE h \in 1 .. Len(q) /\ o.tag = q[h].tag /\ o.size = q[h].size
  /\ o.hdr < HeaderSize => p = 0
  /\ o.hdr = HeaderSize => o.done <= o.size

(* A receiver that reads what it expects stays in step with the stream: it  *)
(* completes exactly at the last byte of a message, it holds the header of  *)
(* the bytes it has read, and what is left is what it expects next.         *)
LEMMA ReceiveFollows ==
  ASSUME NEW q \in Seq(Byte), Run(q), NEW m, Expects(m, q),
         NEW h, NEW p, NEW k, NEW o, Advances(m, q, h, p, k, o)
  PROVE  /\ k = 0 => ~IsCompleted(o) /\ Position(o) = Position(m) /\ o.hdr = m.hdr
                     /\ (o.hdr = HeaderSize => o.tag = m.tag /\ o.size = m.size)
         /\ k > 0 => /\ Position(o) = q[k].pos
                     /\ IsCompleted(o) <=> Ends(q[k])
                     /\ \A i \in 1 .. k : q[i].tag = q[1].tag /\ q[i].size = q[1].size
                     /\ o.hdr = HeaderSize => o.tag = q[1].tag /\ o.size = q[1].size
         /\ k < Len(q) => IF IsCompleted(o) THEN q[k + 1].pos = 1 ELSE Awaited(o, q[k + 1])
<1> DEFINE P == Position(m)
<1>1. /\ h \in Nat /\ p \in Nat /\ k = h + p /\ k \in 0 .. Len(q)
      /\ m \in ReceiveSlot /\ m.stage = "Receiving"
      /\ o \in ReceiveSlot /\ o.stage \in {"Receiving", "Completed"}
      /\ o.hdr = m.hdr + h /\ o.done = m.done + p
      /\ Position(o) = P + k
      /\ o.hdr = HeaderSize =>
              IF m.hdr = HeaderSize THEN o.tag = m.tag /\ o.size = m.size
              ELSE h \in 1 .. Len(q) /\ o.tag = q[h].tag /\ o.size = q[h].size
      /\ o.hdr < HeaderSize => p = 0
      /\ o.hdr = HeaderSize => o.done <= o.size
  BY DEF Advances, P
<1>2. /\ m.hdr \in 0 .. HeaderSize /\ m.done \in Nat /\ m.size \in Nat
      /\ m.hdr < HeaderSize => m.done = 0
      /\ o.hdr \in 0 .. HeaderSize /\ o.done \in Nat /\ o.size \in Nat
      /\ o.hdr < HeaderSize => o.done = 0 /\ o.stage # "Completed"
      /\ o.hdr = HeaderSize /\ o.stage = "Receiving" => o.done < o.size
      /\ o.stage = "Completed" => o.done = o.size
      /\ m.hdr = HeaderSize => m.done < m.size
      /\ HeaderSize \in Nat \ {0} /\ Len(q) \in Nat
  BY <1>1, FrameAssumption DEF ReceiveSlot, Message, IsCompleted
<1>3. P = m.hdr + m.done /\ P \in Nat /\ Position(o) = o.hdr + o.done
  BY <1>2 DEF Position
<1> HIDE DEF P
<1> DEFINE H == HeaderSize
<1> DEFINE N == Len(q)
<1> DEFINE mh == m.hdr
<1> DEFINE md == m.done
<1> DEFINE oh == o.hdr
<1> DEFINE od == o.done
<1> DEFINE os == o.size
<1>0. /\ P \in Int /\ H \in Int /\ N \in Int /\ mh \in Int /\ md \in Int
      /\ oh \in Int /\ od \in Int /\ os \in Int /\ h \in Int /\ p \in Int /\ k \in Int
      /\ P >= 0 /\ H > 0 /\ N >= 0 /\ mh >= 0 /\ mh <= H /\ md >= 0 /\ oh >= 0 /\ oh <= H
      /\ od >= 0 /\ os >= 0 /\ h >= 0 /\ p >= 0 /\ k >= 0 /\ k <= N
      /\ k = h + p /\ P = mh + md /\ oh = mh + h /\ od = md + p
      /\ (mh < H => md = 0) /\ (oh < H => p = 0 /\ od = 0) /\ (oh = H => od <= os)
  <2>1. /\ P \in Int /\ H \in Int /\ N \in Int /\ mh \in Int /\ md \in Int
        /\ oh \in Int /\ od \in Int /\ os \in Int /\ h \in Int /\ p \in Int /\ k \in Int
    <3>1. h \in Int /\ p \in Int /\ k \in Int
      BY <1>1
    <3>2. HeaderSize \in Int /\ Len(q) \in Int /\ m.hdr \in Int /\ m.done \in Int
      BY <1>2
    <3>3. o.hdr \in Int /\ o.done \in Int /\ o.size \in Int
      BY <1>2
    <3> QED BY <1>3, <3>1, <3>2, <3>3
  <2>2. /\ P >= 0 /\ H > 0 /\ N >= 0 /\ mh >= 0 /\ mh <= H /\ md >= 0 /\ oh >= 0 /\ oh <= H
        /\ od >= 0 /\ os >= 0 /\ h >= 0 /\ p >= 0 /\ k >= 0 /\ k <= N
    <3>1. h >= 0 /\ p >= 0 /\ k >= 0 /\ k <= Len(q)
      BY <1>1, <2>1
    <3>2. HeaderSize > 0 /\ Len(q) >= 0 /\ m.hdr >= 0 /\ m.hdr <= HeaderSize /\ m.done >= 0
      BY <1>2
    <3>3. o.hdr >= 0 /\ o.hdr <= HeaderSize /\ o.done >= 0 /\ o.size >= 0
      BY <1>2
    <3> QED BY <1>3, <3>1, <3>2, <3>3
  <2>3. /\ k = h + p /\ P = mh + md /\ oh = mh + h /\ od = md + p
        /\ (mh < H => md = 0) /\ (oh < H => p = 0 /\ od = 0) /\ (oh = H => od <= os)
    BY <1>1, <1>2, <1>3
  <2> QED BY <2>1, <2>2, <2>3
<1>6. IsCompleted(o) <=> oh = H /\ od = os
  <2>1. o.stage = "Completed" => oh = H /\ od = os
    BY <1>2
  <2>2. oh = H /\ od = os => ~(o.hdr = HeaderSize /\ o.stage = "Receiving")
    BY <1>2
  <2>3. o.stage = "Receiving" \/ o.stage = "Completed"
    BY <1>1
  <2> HIDE DEF H, oh, od, os
  <2> QED BY <2>1, <2>2, <2>3 DEF IsCompleted, H, oh
<1>7. P + k = oh + od
  <2> HIDE DEF H, N, mh, md, oh, od, os
  <2> QED BY <1>0
<1> HIDE DEF H, N, mh, md, oh, od, os
<1>4. CASE k = 0
  <2>1. h = 0 /\ p = 0
    BY <1>1, <1>4
  <2>2. ~IsCompleted(o)
    <3>1. m.hdr = HeaderSize => o.size = m.size /\ o.done = m.done
      BY <1>1, <1>2, <2>1
    <3> QED BY <1>2, <1>1, <2>1, <3>1 DEF IsCompleted
  <2>3. o.hdr = m.hdr /\ Position(o) = P /\ (o.hdr = HeaderSize => o.tag = m.tag /\ o.size = m.size)
    BY <1>1, <1>2, <1>3, <2>1
  <2>4. k < Len(q) => Awaited(o, q[k + 1])
    <3> SUFFICES ASSUME k < Len(q) PROVE Awaited(o, q[1])
      BY <1>4
    <3>1. Awaited(m, q[1])
      BY <1>4 DEF Expects
    <3> QED BY <2>3, <3>1 DEF Awaited, P
  <2> QED BY <1>4, <2>2, <2>3, <2>4 DEF P
<1>5. CASE k > 0
  <2>1. q # <<>> /\ 1 \in 1 .. Len(q) /\ k \in 1 .. Len(q)
    BY <1>1, <1>2, <1>5
  <2>2. q[1] \in Byte /\ q[k] \in Byte
    BY <2>1, ElementOfSeq
  <2>3. /\ q[1].pos = P + 1 /\ q[1].size \in Nat /\ Whole(q[1]) = HeaderSize + q[1].size
        /\ m.hdr = HeaderSize => q[1].tag = m.tag /\ q[1].size = m.size
    BY <2>1, <2>2 DEF Expects, Awaited, P, Byte, Whole
  <2> DEFINE w == Whole(q[1])
  <2> DEFINE u == q[1].size
  <2>4. w = HeaderSize + u /\ u \in Nat /\ w \in Nat
    BY <2>3, <1>2
  <2> HIDE DEF w, u
  <2>5. \A i \in 1 .. Len(q) : P + i <= w => Follows(q[1], q[i], i - 1)
    <3> TAKE i \in 1 .. Len(q)
    <3> HAVE P + i <= w
    <3>1. q[1].pos + (i - 1) <= Whole(q[1]) /\ 1 <= i
      BY <2>3, <1>3, <1>2 DEF w
    <3> QED BY <2>1, <3>1 DEF Run
  <2>6. o.hdr = HeaderSize => o.tag = q[1].tag /\ o.size = u
    <3> HAVE o.hdr = HeaderSize
    <3>1. CASE m.hdr = HeaderSize
      BY <1>1, <2>3, <3>1 DEF u
    <3>2. CASE m.hdr # HeaderSize
      <4>1. h \in 1 .. Len(q) /\ o.tag = q[h].tag /\ o.size = q[h].size
        BY <1>1, <3>2
      <4>2. P + h <= w
        <5>1. mh # H /\ oh = H
          BY <3>2 DEF mh, oh, H
        <5>2. w = H + u
          BY <2>4 DEF H
        <5> QED BY <1>0, <2>4, <5>1, <5>2
      <4>3. Follows(q[1], q[h], h - 1)
        BY <2>5, <4>1, <4>2
      <4> QED BY <4>1, <4>3 DEF Follows, u
    <3> QED BY <3>1, <3>2
  <2>16. w = H + u /\ (oh = H => os = u)
    BY <2>4, <2>6 DEF H, oh, os
  <2>7. P + k <= w
    BY <1>0, <1>7, <2>4, <2>16
  <2>8. \A i \in 1 .. k : Follows(q[1], q[i], i - 1)
    <3> TAKE i \in 1 .. k
    <3>1. i \in 1 .. N /\ P + i <= w
      BY <2>7, <1>0, <2>4
    <3> QED BY <2>5, <3>1 DEF N
  <2>9. q[k].tag = q[1].tag /\ q[k].size = u /\ q[k].pos = P + k
    <3>1. Follows(q[1], q[k], k - 1)
      BY <2>8, <2>1
    <3>2. q[k].pos = (P + 1) + (k - 1)
      BY <3>1, <2>3 DEF Follows
    <3> QED BY <3>1, <3>2, <1>1, <1>2, <1>3 DEF Follows, u
  <2>10. IsCompleted(o) <=> P + k = w
    <3>1. w \in Int /\ u \in Int
      BY <2>4
    <3>2. oh = H /\ od = os <=> oh + od = w
      BY <1>0, <2>16, <2>4, <3>1
    <3> QED BY <3>2, <1>6, <1>7
  <2>11. Whole(q[k]) = w
    BY <2>4, <2>9 DEF Whole
  <2>12. IsCompleted(o) <=> Ends(q[k])
    BY <2>9, <2>10, <2>11 DEF Ends
  <2>13. k < Len(q) => IF IsCompleted(o) THEN q[k + 1].pos = 1 ELSE Awaited(o, q[k + 1])
    <3> HAVE k < Len(q)
    <3>1. k \in 1 .. Len(q) - 1 /\ k + 1 \in 1 .. Len(q)
      <4>1. k < N /\ k > 0
        BY <1>5 DEF N
      <4>2. k \in 1 .. N - 1 /\ k + 1 \in 1 .. N
        BY <4>1, <1>0
      <4> QED BY <4>2 DEF N
    <3>2. CASE IsCompleted(o)
      BY <2>12, <3>1, <3>2 DEF Run
    <3>3. CASE ~IsCompleted(o)
      <4>1. P + (k + 1) <= w
        <5>1. P + k <= w /\ P + k # w
          BY <2>7, <2>10, <3>3
        <5> QED BY <5>1, <1>0, <2>4
      <4>2. Follows(q[1], q[k + 1], (k + 1) - 1)
        BY <2>5, <4>1, <3>1
      <4>3. q[k + 1].pos = Position(o) + 1
        <5>1. q[k + 1].pos = (P + 1) + ((k + 1) - 1)
          BY <4>2, <2>3 DEF Follows
        <5> QED BY <5>1, <1>1, <1>2, <1>3
      <4> QED BY <4>2, <4>3, <2>6, <3>3 DEF Follows, Awaited, u
    <3> QED BY <3>2, <3>3
  <2>14. \A i \in 1 .. k : q[i].tag = q[1].tag /\ q[i].size = q[1].size
    BY <2>8 DEF Follows
  <2>15. Position(o) = q[k].pos
    BY <2>9, <1>1
  <2> QED BY <1>5, <2>6, <2>12, <2>13, <2>14, <2>15 DEF u
<1> QED BY <1>1, <1>2, <1>4, <1>5

-----------------------------------------------------------------------------
(* One call of InProgressMessage::tick() on a socket.                       *)

Bounded == \A c \in Conns, s \in Sides : Len(wire[c][s]) <= Capacity

(* Slot m of side s sends n bytes and becomes o; slot m of side s receives  *)
(* k bytes and becomes o.                                                   *)
Sends(s, m, n, o) ==
  /\ Usable(s) /\ n \in Nat
  /\ o \in SendSlot /\ o.stage \in {"Sending", "Completed"}
  /\ o.tag = m.tag /\ o.size = m.size /\ Position(o) = Position(m) + n
  /\ wire' \in [Conns -> [Sides -> Seq(Byte)]]
  /\ \A c \in Conns, t \in Sides :
       wire'[c][t] = IF PeerOpen(s) /\ c = sock[s] /\ t = Peer(s)
                     THEN wire[c][t] \o NextBytes(m, n) ELSE wire[c][t]

Receives(s, m, k, o) ==
  /\ Usable(s)
  /\ \E h, p : Advances(m, wire[sock[s]][s], h, p, k, o)
  /\ PeerOpen(s) \/ k > 0
  /\ wire' \in [Conns -> [Sides -> Seq(Byte)]]
  /\ \A c \in Conns, t \in Sides :
       wire'[c][t] = IF c = sock[s] /\ t = s
                     THEN SubSeq(wire[c][t], k + 1, Len(wire[c][t])) ELSE wire[c][t]

(* A send that is not a lost connection appends the bytes it reports, if    *)
(* there is still somebody to read them, and never overfills the buffer.    *)
LEMMA SendStep ==
  ASSUME TypeOK, Bounded, NEW s \in Sides, NEW m \in SendSlot, m.stage = "Sending",
         NEW r \in SendResults(s, m), Transmit(s, r)
  PROVE  /\ Bounded'
         /\ wire' \in [Conns -> [Sides -> Seq(Byte)]]
         /\ \/ r.lost /\ r.msg = m /\ wire' = wire
            \/ ~r.lost /\ \E n : Sends(s, m, n, r.msg)
<1> DEFINE c == sock[s]
<1> DEFINE q == wire[c][Peer(s)]
<1> DEFINE room == IF PeerOpen(s) THEN Capacity - Len(q) ELSE HeaderSize + m.size
<1> DEFINE h == MinOf(HeaderSize - m.hdr, room)
<1> DEFINE p == IF m.hdr + h = HeaderSize THEN MinOf(ChunkToSend(m), room - h) ELSE 0
<1> DEFINE o == AfterSend(m, h, p)
<1> DEFINE b == IF PeerOpen(s) THEN NextBytes(m, h + p) ELSE <<>>
<1>0. Peer(s) \in Sides
  BY DEF Sides, Peer
<1>1. \/ r.lost /\ r.msg = m /\ r.bytes = <<>>
      \/ ~r.lost /\ Usable(s) /\ r.msg = o /\ r.bytes = b
  BY DEF SendResults
<1>2. CASE r.lost /\ r.msg = m /\ r.bytes = <<>>
  <2>1. wire' = wire
    BY <1>2 DEF Transmit
  <2> QED BY <1>2, <2>1 DEF TypeOK, Bounded
<1>3. CASE ~r.lost /\ Usable(s) /\ r.msg = o /\ r.bytes = b
  <2>1. c \in Conns /\ q \in Seq(Byte) /\ Len(q) \in Nat /\ Len(q) <= Capacity
    BY <1>0, <1>3 DEF TypeOK, Usable, Bounded
  <2>2. Capacity \in Nat /\ HeaderSize \in Nat /\ m.size \in Nat
    BY FrameAssumption, ConnectionAssumption DEF SendSlot, Message
  <2>3. room \in Nat
    BY <2>1, <2>2
  <2> DEFINE n == h + p
  <2>4. /\ n \in 0 .. room
        /\ o \in SendSlot /\ o.stage \in {"Sending", "Completed"}
        /\ o.tag = m.tag /\ o.size = m.size /\ Position(o) = Position(m) + n
    <3> HIDE DEF room
    <3> QED BY <2>3, AfterSendOK
  <2>5. n \in Nat /\ (PeerOpen(s) => n <= Capacity - Len(q))
    <3> HIDE DEF n
    <3> QED BY <2>1, <2>2, <2>3, <2>4
  <2>6. NextBytes(m, n) \in Seq(Byte) /\ Len(NextBytes(m, n)) = n
    <3> HIDE DEF n
    <3> QED BY <2>5, BytesOf
  <2> HIDE DEF n, o, q
  <2> DEFINE t == q \o NextBytes(m, n)
  <2>7. t \in Seq(Byte) /\ Len(t) = Len(q) + n
    BY <2>1, <2>6, ConcatProperties
  <2>8. PeerOpen(s) => Len(t) <= Capacity
    BY <2>1, <2>2, <2>5, <2>7
  <2>9. q \o <<>> = q
    BY <2>1
  <2>10. wire \in [Conns -> [Sides -> Seq(Byte)]]
    BY DEF TypeOK
  <2> HIDE DEF t
  <2>11. wire' = IF PeerOpen(s) /\ b # <<>> THEN [wire EXCEPT ![c][Peer(s)] = t] ELSE wire
    <3>1. b # <<>> => PeerOpen(s) /\ b = NextBytes(m, n)
      BY DEF n
    <3> QED BY <1>3, <3>1 DEF Transmit, t, q
  <2>12. PeerOpen(s) /\ b = <<>> => t = q
    BY <2>9 DEF t, n
  <2>13. /\ wire' \in [Conns -> [Sides -> Seq(Byte)]]
         /\ \A d \in Conns, u \in Sides :
              wire'[d][u] = IF PeerOpen(s) /\ d = c /\ u = Peer(s) THEN t ELSE wire[d][u]
    <3> HIDE DEF c, b
    <3>1. CASE PeerOpen(s) /\ b # <<>>
      BY <1>0, <2>1, <2>7, <2>10, <2>11, <3>1
    <3>2. CASE ~(PeerOpen(s) /\ b # <<>>)
      BY <2>10, <2>11, <2>12, <3>2 DEF q
    <3> QED BY <3>1, <3>2
  <2>14. \A d \in Conns, u \in Sides :
           wire'[d][u] = IF PeerOpen(s) /\ d = c /\ u = Peer(s)
                         THEN wire[d][u] \o NextBytes(m, n) ELSE wire[d][u]
    BY <2>13 DEF t, q
  <2>15. Bounded'
    <3> SUFFICES ASSUME NEW d \in Conns, NEW u \in Sides PROVE Len(wire'[d][u]) <= Capacity
      BY DEF Bounded
    <3> QED BY <2>8, <2>13 DEF Bounded
  <2>16. Sends(s, m, n, r.msg)
    BY <1>3, <2>4, <2>5, <2>13, <2>14 DEF Sends
  <2> QED BY <1>3, <2>13, <2>15, <2>16
<1> QED BY <1>1, <1>2, <1>3

(* A receive that is not a lost connection takes the bytes it reports.      *)
LEMMA ReceiveStep ==
  ASSUME TypeOK, Bounded, NEW s \in Sides, NEW m \in ReceiveSlot, m.stage = "Receiving",
         NEW r \in ReceiveResults(s, m), Take(s, r)
  PROVE  /\ Bounded'
         /\ wire' \in [Conns -> [Sides -> Seq(Byte)]]
         /\ \/ r.lost /\ r.msg = m /\ wire' = wire
            \/ ~r.lost /\ \E k : Receives(s, m, k, r.msg)
<1> DEFINE c == sock[s]
<1> DEFINE q == wire[c][s]
<1> DEFINE h == MinOf(HeaderSize - m.hdr, Len(q))
<1> DEFINE g == HeaderIn(m, q, h)
<1> DEFINE p == IF g.hdr = HeaderSize
                THEN MinOf(MinOf(ChunkSize, g.size - m.done), Len(q) - h) ELSE 0
<1> DEFINE o == AfterReceive(m, q, h, p)
<1> DEFINE eof == g.hdr < HeaderSize \/ (p = 0 /\ m.done < g.size)
<1>1. \/ r.lost /\ r.msg = m /\ r.taken = 0
      \/ ~r.lost /\ Usable(s) /\ (PeerOpen(s) \/ ~eof) /\ r.msg = o /\ r.taken = h + p
  BY DEF ReceiveResults
<1>2. CASE r.lost /\ r.msg = m /\ r.taken = 0
  <2>1. wire' = wire
    BY <1>2 DEF Take
  <2> QED BY <1>2, <2>1 DEF TypeOK, Bounded
<1>3. CASE ~r.lost /\ Usable(s) /\ (PeerOpen(s) \/ ~eof) /\ r.msg = o /\ r.taken = h + p
  <2>1. c \in Conns /\ q \in Seq(Byte) /\ Len(q) \in Nat /\ Len(q) <= Capacity
    BY <1>3 DEF TypeOK, Usable, Bounded
  <2> DEFINE k == h + p
  <2>2. Advances(m, q, h, p, k, o)
    <3> HIDE DEF q
    <3>1. /\ h \in Nat /\ p \in Nat /\ h + p \in 0 .. Len(q)
          /\ o \in ReceiveSlot /\ o.stage \in {"Receiving", "Completed"}
          /\ o.hdr = m.hdr + h /\ o.done = m.done + p
          /\ Position(o) = Position(m) + (h + p)
          /\ o.hdr = HeaderSize =>
               IF m.hdr = HeaderSize THEN o.tag = m.tag /\ o.size = m.size
               ELSE h \in 1 .. Len(q) /\ o.tag = q[h].tag /\ o.size = q[h].size
          /\ o.hdr < HeaderSize => p = 0
          /\ o.hdr = HeaderSize => o.done <= o.size
      BY <2>1, AfterReceiveTyped
    <3> HIDE DEF o, p, h
    <3>2. /\ k = h + p /\ k \in 0 .. Len(q)
          /\ Position(o) = Position(m) + k
      BY <3>1
    <3> HIDE DEF k
    <3> QED BY <3>1, <3>2 DEF Advances
  <2>3. PeerOpen(s) \/ k > 0
    <3>1. ASSUME k = 0, ~PeerOpen(s) PROVE FALSE
      <4>1. ~eof
        BY <1>3, <3>1
      <4>2. /\ h \in Nat /\ p \in Nat /\ m.hdr \in 0 .. HeaderSize /\ m.size \in Nat
            /\ m.done \in Nat /\ (m.hdr = HeaderSize => m.done < m.size)
        <5> HIDE DEF q, h, p, o
        <5>1. h \in Nat /\ p \in Nat
          BY <2>2 DEF Advances
        <5> QED BY <5>1 DEF ReceiveSlot, Message
      <4>3. h = 0 /\ p = 0
        <5> HIDE DEF h, p
        <5> QED BY <3>1, <4>2
      <4>4. g.hdr = m.hdr /\ g.size = m.size
        BY <4>2, <4>3, FrameAssumption DEF HeaderIn, ReceiveSlot, Message
      <4> HIDE DEF g, p, h
      <4> QED BY <4>1, <4>2, <4>3, <4>4, FrameAssumption
    <3>2. k \in Nat
      <4> HIDE DEF q, h, p, o, k
      <4> QED BY <2>2 DEF Advances
    <3> HIDE DEF k
    <3> QED BY <3>1, <3>2
  <2> HIDE DEF h, p, o
  <2>4. k \in 0 .. Len(q)
    BY <2>2 DEF Advances
  <2> DEFINE t == SubSeq(q, k + 1, Len(q))
  <2> HIDE DEF k, q
  <2>5. k = 0 => t = q
    BY <2>1
  <2>6. t \in Seq(Byte) /\ Len(t) <= Capacity
    <3>1. Len(t) <= Len(q) /\ t \in Seq(Byte)
      BY <2>1, <2>4
    <3>2. Len(t) \in Nat /\ Capacity \in Nat
      BY <3>1, ConnectionAssumption
    <3> QED BY <2>1, <3>1, <3>2
  <2> HIDE DEF t
  <2>7. wire' = IF k = 0 THEN wire ELSE [wire EXCEPT ![c][s] = t]
    BY <1>3 DEF Take, k, q, t
  <2>8. wire \in [Conns -> [Sides -> Seq(Byte)]]
    BY DEF TypeOK
  <2>9. /\ wire' \in [Conns -> [Sides -> Seq(Byte)]]
        /\ \A d \in Conns, u \in Sides :
              wire'[d][u] = IF d = c /\ u = s THEN t ELSE wire[d][u]
    <3>1. CASE k = 0
      BY <2>5, <2>7, <2>8, <3>1 DEF q
    <3>2. CASE k # 0
      BY <2>1, <2>6, <2>7, <2>8, <3>2
    <3> QED BY <3>1, <3>2
  <2>10. \A d \in Conns, u \in Sides :
           wire'[d][u] = IF d = c /\ u = s THEN SubSeq(wire[d][u], k + 1, Len(wire[d][u]))
                         ELSE wire[d][u]
    BY <2>9 DEF t, q
  <2>11. Bounded'
    <3> SUFFICES ASSUME NEW d \in Conns, NEW u \in Sides PROVE Len(wire'[d][u]) <= Capacity
      BY DEF Bounded
    <3> QED BY <2>6, <2>9 DEF Bounded
  <2>12. Receives(s, m, k, r.msg)
    <3>1. Advances(m, wire[sock[s]][s], h, p, k, r.msg)
      BY <1>3, <2>2 DEF q, o, k
    <3> QED BY <1>3, <2>3, <2>9, <2>10, <3>1 DEF Receives
  <2> QED BY <1>3, <2>9, <2>11, <2>12
<1> QED BY <1>1, <1>2, <1>3

-----------------------------------------------------------------------------
(* Where the calls of tick() and disconnect() leave a side.                 *)

(* Side s is inside disconnect().                                           *)
Leaving(s) == pc[s] \in {"drainIn", "drainOut", "close"}

(* The calls of each side's tick(), and where disconnect() returns to in    *)
(* it.                                                                      *)
CallsOf(s) == IF s = "Sender" THEN {"tick", "first", "request", "reply", "flush"}
              ELSE {"tick", "first", "consume", "request"}
ReturnsTo(s) == IF s = "Sender" THEN {"tick", "request", "flush"} ELSE {"tick", "request"}

(* What holds between two calls.  A socket that is a connection goes with   *)
(* a state other than Disconnected; outside disconnect() no message is      *)
(* left completed, and none is left at all while disconnected; the          *)
(* handshake is served by the head of tick() only.                          *)
CallOK(s) ==
    /\ pc[s] \in CallsOf(s) \cup {"drainIn", "drainOut", "close"}
    /\ back[s] \in ReturnsTo(s)
    /\ sock[s] \in Conns <=> state[s] # "Disconnected"
    /\ ~Leaving(s) => ~IsCompleted(in[s]) /\ ~IsCompleted(out[s])
    /\ state[s] = "Disconnected" /\ ~Leaving(s) => IsVacant(in[s]) /\ IsVacant(out[s])
    /\ pc[s] = "drainOut" => IsVacant(in[s])
    /\ pc[s] = "close" => IsVacant(in[s]) /\ IsVacant(out[s])
    /\ state[s] = "ReadyForHandshake" => pc[s] = "tick" \/ Leaving(s)
    /\ pc[s] \in {"first", "reply", "consume"} => state[s] = "ReadyForFields"
    /\ sock[s] = "listening" => s = "Receiver" /\ pc[s] = "tick"
CallsOK == \A s \in Sides : CallOK(s)

(* The fields are bound exactly while they are exchanged, and any_received  *)
(* does not outlive its tick().                                             *)
ReceiverOK ==
  /\ state["Receiver"] = "Disconnected" => payload = 0
  /\ state["Receiver"] = "ReadyForFields" => payload = FieldsSize
  /\ pc["Receiver"] \in {"tick", "first"} => ~anyReceived
  /\ back["Receiver"] = "tick" /\ Leaving("Receiver") => ~anyReceived

-----------------------------------------------------------------------------
(* Types, slots and control: one lemma per call.                            *)

(* All that does not speak of connections.                                  *)
Control == TypeOK /\ SlotsOK /\ Bounded /\ CallsOK /\ ReceiverOK

(* Slots that are empty, kept or just begun.                                *)
LEMMA SlotFacts ==
  /\ Empty \in SendSlot \cap ReceiveSlot /\ IsVacant(Empty) /\ ~IsCompleted(Empty)
  /\ \A m \in SendSlot \cup ReceiveSlot :
       m \in Message /\ Kept(m) \in Message /\ ~IsCompleted(Kept(m))
  /\ \A m \in SendSlot : Kept(m) \in SendSlot /\ (~IsVacant(m) /\ ~IsCompleted(m) => m.stage = "Sending")
  /\ \A m \in ReceiveSlot : Kept(m) \in ReceiveSlot /\ (~IsVacant(m) /\ ~IsCompleted(m) => m.stage = "Receiving")
  /\ \A tag \in Tags, size \in Nat : /\ BeginSend(tag, size) \in SendSlot
                                     /\ BeginSend(tag, size).stage = "Sending"
  /\ BeginReceive(NoTag) \in ReceiveSlot /\ BeginReceive(NoTag).stage = "Receiving"
<1> USE FrameAssumption
<1>1. NoTag \in Tags
  BY DEF NoTag, Tags
<1>2. Empty \in SendSlot /\ Empty \in ReceiveSlot /\ IsVacant(Empty) /\ ~IsCompleted(Empty)
  BY <1>1 DEF Empty, VacantMessage, SendSlot, ReceiveSlot, Message, Stages, IsVacant,
     IsCompleted, Position, Whole
<1>3. BeginReceive(NoTag) \in ReceiveSlot /\ BeginReceive(NoTag).stage = "Receiving"
  BY <1>1 DEF BeginReceive, ReceiveSlot, Message, Stages, IsVacant, IsCompleted
<1>4. \A tag \in Tags, size \in Nat : /\ BeginSend(tag, size) \in SendSlot
                                     /\ BeginSend(tag, size).stage = "Sending"
  BY DEF BeginSend, SendSlot, Message, Stages, IsVacant, IsCompleted, Position, Whole
<1>5. \A m \in SendSlot \cup ReceiveSlot : m \in Message
  BY DEF SendSlot, ReceiveSlot
<1>6. \A m \in SendSlot : Kept(m) \in SendSlot /\ (~IsVacant(m) /\ ~IsCompleted(m) => m.stage = "Sending")
  <2>1. \A m \in SendSlot : Kept(m) \in SendSlot
    BY <1>2 DEF Kept
  <2>2. \A m \in SendSlot : m.stage \in {"Vacant", "Sending", "Completed"}
    BY DEF SendSlot
  <2> QED BY <2>1, <2>2 DEF IsVacant, IsCompleted
<1>7. \A m \in ReceiveSlot : Kept(m) \in ReceiveSlot /\ (~IsVacant(m) /\ ~IsCompleted(m) => m.stage = "Receiving")
  <2>1. \A m \in ReceiveSlot : Kept(m) \in ReceiveSlot
    BY <1>2 DEF Kept
  <2>2. \A m \in ReceiveSlot : m.stage \in {"Vacant", "Receiving", "Completed"}
    BY DEF ReceiveSlot
  <2> QED BY <2>1, <2>2 DEF IsVacant, IsCompleted
<1>8. \A m \in SendSlot \cup ReceiveSlot : Kept(m) \in Message /\ ~IsCompleted(Kept(m))
  BY <1>2, <1>5, <1>6, <1>7 DEF Kept
<1> QED BY <1>2, <1>3, <1>4, <1>5, <1>6, <1>7, <1>8

(* A side whose variables do not change.                                    *)
LEMMA SameCall ==
  ASSUME NEW t, CallOK(t), pc'[t] = pc[t], back'[t] = back[t], state'[t] = state[t],
         sock'[t] = sock[t], in'[t] = in[t], out'[t] = out[t]
  PROVE  CallOK(t)'
BY DEF CallOK, Leaving

(* tick_sender_send_handshake().                                            *)
LEMMA SendSubscribeControl == Control /\ SendSubscribe => Control'
<1> SUFFICES ASSUME Control, SendSubscribe PROVE Control'
  OBVIOUS
<1> USE DEF Control
<1> DEFINE m == IF IsVacant(out["Sender"])
                THEN BeginSend([type |-> "Subscribe", rate |-> SenderRate], SubscribeSize)
                ELSE out["Sender"]
<1>1. m \in SendSlot /\ m.stage = "Sending"
  <2>1. CASE IsVacant(out["Sender"])
    <3>1. [type |-> "Subscribe", rate |-> SenderRate] \in Tags /\ SubscribeSize \in Nat
      BY ConnectionAssumption DEF Tags
    <3> QED BY <2>1, <3>1, SlotFacts
  <2>2. CASE ~IsVacant(out["Sender"])
    <3>1. out["Sender"] \in SendSlot /\ ~IsCompleted(out["Sender"])
      BY DEF SlotsOK, CallsOK, CallOK, Sides, SendSubscribe, Leaving
    <3> QED BY <2>2, <3>1, SlotFacts
  <2> QED BY <2>1, <2>2
<1> HIDE DEF m
<1>2. PICK r \in SendResults("Sender", m) :
          /\ Transmit("Sender", r)
          /\ mutual' = IF IsVacant(out["Sender"]) THEN [mutual EXCEPT !["Sender"] = SenderRate] ELSE mutual
          /\ out' = [out EXCEPT !["Sender"] = Kept(r.msg)]
          /\ \/ r.lost /\ Disconnecting("Sender", "tick") /\ UNCHANGED <<state, sinceRequest>>
             \/ /\ ~r.lost /\ IsCompleted(r.msg)
                /\ SetState("Sender", "ReadyForFields")
                /\ Goto("Sender", "first")
                /\ sinceRequest' = 0
             \/ ~r.lost /\ ~IsCompleted(r.msg) /\ UNCHANGED <<pc, back, state, sinceRequest>>
  BY DEF SendSubscribe, m
<1>3. /\ Bounded' /\ wire' \in [Conns -> [Sides -> Seq(Byte)]]
      /\ r.msg \in SendSlot
  BY <1>1, <1>2, SendStep DEF Sends, Sides
<1>4. TypeOK'
  <2>1. Kept(r.msg) \in Message
    BY <1>3, SlotFacts
  <2>2. out' \in [Sides -> Message] /\ mutual' \in [Sides -> Nat]
    BY <1>2, <2>1, ConnectionAssumption DEF TypeOK, Sides
  <2>3. pc' \in [Sides -> Calls] /\ back' \in [Sides -> {"tick", "request", "flush"}]
        /\ state' \in [Sides -> States] /\ sinceRequest' \in Nat
    BY <1>2 DEF TypeOK, Sides, Disconnecting, Goto, SetState, Calls, States
  <2> QED BY <1>3, <2>2, <2>3 DEF TypeOK, SendSubscribe
<1>5. SlotsOK'
  BY <1>2, <1>3, SlotFacts DEF SlotsOK, TypeOK, SendSubscribe, Sides
<1>6. CallsOK'
  <2>1. CallOK("Receiver")'
    <3>1. pc'["Receiver"] = pc["Receiver"] /\ back'["Receiver"] = back["Receiver"]
          /\ state'["Receiver"] = state["Receiver"] /\ out'["Receiver"] = out["Receiver"]
      BY <1>2 DEF TypeOK, Sides, Disconnecting, Goto, SetState
    <3> QED BY <3>1, SameCall DEF SendSubscribe, CallsOK, Sides
  <2>2. CallOK("Sender")'
    <3>1. ~IsCompleted(out'["Sender"])
      BY <1>2, <1>3, SlotFacts DEF TypeOK, Sides
    <3> QED BY <1>2, <3>1 DEF CallsOK, CallOK, Sides, Disconnecting, Goto, SetState, TypeOK,
               SendSubscribe, CallsOf, ReturnsTo, Leaving
  <2> QED BY <2>1, <2>2 DEF CallsOK, Sides
<1>7. ReceiverOK'
  BY <1>2 DEF ReceiverOK, TypeOK, Sides, Disconnecting, Goto, SetState, SendSubscribe, Leaving
<1> QED BY <1>3, <1>4, <1>5, <1>6, <1>7

(* Types of the network's variables.                                        *)
NetTyped == /\ wire \in [Conns -> [Sides -> Seq(Byte)]] /\ ends \in [Conns -> SUBSET Sides]
            /\ silent \in SUBSET Conns /\ backlog \in Seq(Conns)

(* tick_send_fields_as_message(), whichever call of tick() it is.           *)
LEMMA SendFieldsMoves ==
  ASSUME Control, NEW allow \in BOOLEAN, NEW l, SendFields(allow, l), ~Leaving("Sender"),
         allow => state["Sender"] # "Disconnected", UNCHANGED SendFieldsFrame
  PROVE  /\ Bounded' /\ wire' \in [Conns -> [Sides -> Seq(Byte)]]
         /\ sinceRequest' \in Nat
         /\ out' \in [Sides -> Message] /\ out'["Receiver"] = out["Receiver"]
         /\ out'["Sender"] \in SendSlot /\ ~IsCompleted(out'["Sender"])
         /\ \/ Disconnecting("Sender", l)
            \/ /\ Goto("Sender", l)
               /\ state["Sender"] = "Disconnected" => IsVacant(out'["Sender"])
<1> USE DEF Control
<1> DEFINE begins == allow /\ IsVacant(out["Sender"])
<1> DEFINE m == IF begins THEN BeginSend([type |-> "Fields", rate |-> 0], FieldsSize)
                ELSE out["Sender"]
<1> DEFINE nothing == [lost |-> FALSE, msg |-> m, bytes |-> <<>>]
<1>1. m \in SendSlot /\ (~IsVacant(m) => m.stage = "Sending") /\ ~IsCompleted(m)
  <2>1. CASE begins
    <3>1. [type |-> "Fields", rate |-> 0] \in Tags /\ FieldsSize \in Nat
      BY ConnectionAssumption DEF Tags
    <3> QED BY <2>1, <3>1, SlotFacts DEF IsCompleted
  <2>2. CASE ~begins
    <3>1. out["Sender"] \in SendSlot /\ ~IsCompleted(out["Sender"])
      BY DEF SlotsOK, CallsOK, CallOK, Sides
    <3> QED BY <2>2, <3>1, SlotFacts
  <2> QED BY <2>1, <2>2
<1>2. PICK r \in IF IsVacant(m) THEN {nothing} ELSE SendResults("Sender", m) :
        /\ Transmit("Sender", r)
        /\ out' = [out EXCEPT !["Sender"] = Kept(r.msg)]
        /\ IF r.lost THEN Disconnecting("Sender", l) ELSE Goto("Sender", l)
        /\ sinceRequest' = IF begins THEN sinceRequest + 1 ELSE sinceRequest
  BY DEF SendFields
<1>3. sinceRequest' \in Nat
  BY <1>2 DEF TypeOK
<1>4. /\ Bounded' /\ wire' \in [Conns -> [Sides -> Seq(Byte)]] /\ r.msg \in SendSlot
      /\ state["Sender"] = "Disconnected" => IsVacant(r.msg) \/ r.lost
  <2>1. CASE IsVacant(m)
    <3>1. r = nothing
      BY <1>2, <2>1
    <3>2. wire' = wire /\ r.msg = m
      BY <1>2, <3>1 DEF Transmit
    <3> HIDE DEF m
    <3> QED BY <1>1, <2>1, <3>2 DEF TypeOK, Bounded
  <2>2. CASE ~IsVacant(m)
    <3>1. r \in SendResults("Sender", m) /\ m.stage = "Sending"
      BY <1>1, <1>2, <2>2
    <3> HIDE DEF m
    <3>2. /\ Bounded' /\ wire' \in [Conns -> [Sides -> Seq(Byte)]]
          /\ \/ r.lost /\ r.msg = m /\ wire' = wire
             \/ ~r.lost /\ \E n : Sends("Sender", m, n, r.msg)
      BY <1>1, <1>2, <3>1, SendStep DEF Sides
    <3> QED BY <1>1, <3>2 DEF Sends, Usable, CallsOK, CallOK, Sides
  <2> QED BY <2>1, <2>2
<1>5. /\ out' \in [Sides -> Message] /\ out'["Receiver"] = out["Receiver"]
      /\ out'["Sender"] = Kept(r.msg) /\ Kept(r.msg) \in SendSlot /\ ~IsCompleted(Kept(r.msg))
      /\ IsVacant(r.msg) => IsVacant(Kept(r.msg))
  BY <1>2, <1>4, SlotFacts DEF TypeOK, Sides, Kept
<1> QED BY <1>2, <1>3, <1>4, <1>5

(* A step of the Sender that changes only its outgoing slot and its         *)
(* countdown.                                                               *)
LEMMA SenderControl ==
  ASSUME Control, UNCHANGED SendFieldsFrame, ticksUntil' \in Nat,
         Bounded', wire' \in [Conns -> [Sides -> Seq(Byte)]], sinceRequest' \in Nat,
         out' \in [Sides -> Message], out'["Receiver"] = out["Receiver"],
         out'["Sender"] \in SendSlot, ~IsCompleted(out'["Sender"]), ~Leaving("Sender"),
         NEW l \in {"tick", "request", "flush"},
         l # "tick" \/ state["Sender"] # "ReadyForHandshake",
         l = "request" \/ l = "flush" => state["Sender"] # "ReadyForHandshake",
         \/ Disconnecting("Sender", l)
         \/ /\ Goto("Sender", l)
            /\ state["Sender"] = "Disconnected" => IsVacant(out'["Sender"])
  PROVE  Control'
<1> USE DEF Control
<1>1. pc' \in [Sides -> Calls] /\ back' \in [Sides -> {"tick", "request", "flush"}]
  BY DEF TypeOK, Disconnecting, Goto, Sides, Calls
<1>2. TypeOK'
  BY <1>1 DEF TypeOK, SendFieldsFrame
<1>3. SlotsOK'
  BY DEF SlotsOK, SendFieldsFrame, Sides
<1>4. CallOK("Receiver")'
  BY SameCall DEF CallsOK, Sides, SendFieldsFrame, TypeOK, Disconnecting, Goto
<1>5. CallOK("Sender")'
  BY DEF CallsOK, CallOK, Sides, SendFieldsFrame, TypeOK, Disconnecting, Goto, CallsOf,
     ReturnsTo, Leaving
<1>6. ReceiverOK'
  BY DEF ReceiverOK, TypeOK, Sides, Disconnecting, Goto, SendFieldsFrame, Leaving
<1> QED BY <1>2, <1>3, <1>4, <1>5, <1>6 DEF CallsOK, Sides

(* The four calls that send fields.                                         *)
LEMMA SendFieldsControl ==
  Control /\ (FirstFields \/ PacedFields \/ ReplyFields \/ FlushFields) => Control'
<1> SUFFICES ASSUME Control, FirstFields \/ PacedFields \/ ReplyFields \/ FlushFields
             PROVE  Control'
  OBVIOUS
<1>0. CallOK("Sender") /\ ticksUntil \in Nat
  BY DEF Control, CallsOK, Sides, TypeOK
<1>1. CASE FirstFields
  <2>1. /\ pc["Sender"] = "first" /\ SendFields(TRUE, "tick") /\ UNCHANGED SendFieldsFrame
        /\ ticksUntil' = ticksUntil
    BY <1>1 DEF FirstFields
  <2>2. state["Sender"] = "ReadyForFields" /\ ~Leaving("Sender")
    BY <1>0, <2>1 DEF CallOK, Leaving
  <2> QED BY <1>0, <2>1, <2>2, SendFieldsMoves, SenderControl
<1>2. CASE ReplyFields
  <2>1. /\ pc["Sender"] = "reply" /\ SendFields(TRUE, "flush") /\ UNCHANGED SendFieldsFrame
        /\ ticksUntil' = ticksUntil
    BY <1>2 DEF ReplyFields
  <2>2. state["Sender"] = "ReadyForFields" /\ ~Leaving("Sender")
    BY <1>0, <2>1 DEF CallOK, Leaving
  <2> QED BY <1>0, <2>1, <2>2, SendFieldsMoves, SenderControl
<1>3. CASE FlushFields
  <2>1. /\ pc["Sender"] = "flush" /\ SendFields(FALSE, "tick") /\ UNCHANGED SendFieldsFrame
        /\ ticksUntil' = ticksUntil
    BY <1>3 DEF FlushFields
  <2>2. state["Sender"] # "ReadyForHandshake" /\ ~Leaving("Sender")
    BY <1>0, <2>1 DEF CallOK, Leaving
  <2> QED BY <1>0, <2>1, <2>2, SendFieldsMoves, SenderControl
<1>4. CASE PacedFields
  <2>0. ticksUntil' \in Nat
    BY <1>0, <1>4 DEF PacedFields
  <2>1. /\ pc["Sender"] = "tick" /\ state["Sender"] = "ReadyForFields"
        /\ UNCHANGED SendFieldsFrame /\ ticksUntil' \in Nat
        /\ \/ SendFields(TRUE, "request")
           \/ Goto("Sender", "request") /\ UNCHANGED <<out, wire, sinceRequest>>
    BY <2>0, <1>4 DEF PacedFields
  <2>2. ~Leaving("Sender")
    BY <2>1 DEF Leaving
  <2>3. CASE SendFields(TRUE, "request")
    BY <2>1, <2>2, <2>3, SendFieldsMoves, SenderControl
  <2>4. CASE Goto("Sender", "request") /\ UNCHANGED <<out, wire, sinceRequest>>
    <3>1. Bounded' /\ wire' \in [Conns -> [Sides -> Seq(Byte)]] /\ sinceRequest' \in Nat
      BY <2>4 DEF Control, TypeOK, Bounded
    <3>2. /\ out' \in [Sides -> Message] /\ out'["Receiver"] = out["Receiver"]
          /\ out'["Sender"] \in SendSlot /\ ~IsCompleted(out'["Sender"])
      BY <1>0, <2>2, <2>4 DEF Control, TypeOK, SlotsOK, CallOK, Sides
    <3> QED BY <2>1, <2>2, <2>4, <3>1, <3>2, SenderControl
  <2> QED BY <2>1, <2>3, <2>4
<1> QED BY <1>1, <1>2, <1>3, <1>4

(* tick_receive_fields_request().                                           *)
LEMMA ReceiveRequestControl == Control /\ ReceiveRequest => Control'
<1> SUFFICES ASSUME Control, ReceiveRequest PROVE Control'
  OBVIOUS
<1> USE DEF Control
<1> DEFINE m == IF IsVacant(in["Sender"]) THEN BeginReceive(NoTag) ELSE in["Sender"]
<1>1. m \in ReceiveSlot /\ m.stage = "Receiving"
  <2>1. in["Sender"] \in ReceiveSlot /\ ~IsCompleted(in["Sender"])
    BY DEF SlotsOK, CallsOK, CallOK, Sides, ReceiveRequest, Leaving
  <2> QED BY <2>1, SlotFacts
<1> HIDE DEF m
<1>2. PICK r \in ReceiveResults("Sender", m) :
          /\ Take("Sender", r)
          /\ in' = [in EXCEPT !["Sender"] = Kept(r.msg)]
          /\ \/ /\ r.lost /\ Disconnecting("Sender", "flush")
                /\ UNCHANGED <<mutual, ticksUntil, sinceRequest>>
             \/ /\ ~r.lost /\ IsCompleted(r.msg)
                /\ mutual' = IF r.msg.tag.rate > 0
                             THEN [mutual EXCEPT !["Sender"] = r.msg.tag.rate] ELSE mutual
                /\ ticksUntil' = TicksBetween(SenderRate, mutual'["Sender"])
                /\ Goto("Sender", "reply")
                /\ sinceRequest' = 0
             \/ /\ ~r.lost /\ ~IsCompleted(r.msg) /\ Goto("Sender", "flush")
                /\ UNCHANGED <<mutual, ticksUntil, sinceRequest>>
  BY DEF ReceiveRequest, m
<1>3. /\ Bounded' /\ wire' \in [Conns -> [Sides -> Seq(Byte)]]
      /\ r.msg \in ReceiveSlot
      /\ r.lost \/ Usable("Sender")
  BY <1>1, <1>2, ReceiveStep DEF Receives, Advances, Sides
<1>4. /\ in' \in [Sides -> Message] /\ in'["Receiver"] = in["Receiver"]
      /\ in'["Sender"] \in ReceiveSlot /\ ~IsCompleted(in'["Sender"])
  BY <1>2, <1>3, SlotFacts DEF TypeOK, Sides
<1>5. mutual' \in [Sides -> Nat] /\ ticksUntil' \in Nat /\ sinceRequest' \in Nat
  <2>1. r.msg.tag.rate \in Nat
    BY <1>3 DEF ReceiveSlot, Message, Tags
  <2>2. mutual' \in [Sides -> Nat]
    BY <1>2, <2>1 DEF TypeOK, Sides
  <2>3. mutual'["Sender"] \in Nat /\ SenderRate \in Nat \ {0}
    BY <2>2, ConnectionAssumption DEF Sides
  <2>4. TicksBetween(SenderRate, mutual'["Sender"]) \in Nat
    BY <2>3 DEF TicksBetween
  <2>5. ticksUntil' \in Nat
    <3> DEFINE n == TicksBetween(SenderRate, mutual'["Sender"])
    <3>1. n \in Nat /\ ticksUntil \in Nat
      BY <2>4 DEF TypeOK
    <3>2. ticksUntil' = n \/ ticksUntil' = ticksUntil
      BY <1>2
    <3> HIDE DEF n
    <3> QED BY <3>1, <3>2
  <2>6. sinceRequest' \in Nat
    BY <1>2 DEF TypeOK
  <2> QED BY <2>2, <2>5, <2>6
<1>6. pc' \in [Sides -> Calls] /\ back' \in [Sides -> {"tick", "request", "flush"}]
  BY <1>2 DEF TypeOK, Disconnecting, Goto, Sides, Calls
<1>7. TypeOK'
  BY <1>3, <1>4, <1>5, <1>6 DEF TypeOK, ReceiveRequest
<1>8. SlotsOK'
  BY <1>4 DEF SlotsOK, ReceiveRequest, Sides
<1>9. CallOK("Receiver")'
  BY <1>2, <1>4, SameCall DEF CallsOK, Sides, ReceiveRequest, TypeOK, Disconnecting, Goto
<1>10. CallOK("Sender")'
  <2>1. /\ pc["Sender"] = "request" /\ state'["Sender"] = state["Sender"]
        /\ sock'["Sender"] = sock["Sender"] /\ out'["Sender"] = out["Sender"]
        /\ CallOK("Sender") /\ sock["Sender"] # "listening"
    BY DEF ReceiveRequest, CallsOK, CallOK, Sides
  <2>2. r.lost \/ state["Sender"] = "ReadyForFields"
    <3>1. state["Sender"] \in States
      BY DEF TypeOK, Sides
    <3> QED BY <1>3, <2>1, <3>1 DEF CallOK, Usable, States, Leaving
  <2>3. \/ /\ r.lost
           /\ pc'["Sender"] = "drainIn" /\ back'["Sender"] = "flush"
        \/ /\ ~r.lost /\ state["Sender"] = "ReadyForFields"
           /\ pc'["Sender"] \in {"reply", "flush"} /\ back'["Sender"] = back["Sender"]
    BY <1>2, <2>2 DEF TypeOK, Sides, Disconnecting, Goto
  <2> QED BY <1>4, <2>1, <2>3 DEF CallOK, CallsOf, ReturnsTo, Leaving
<1>11. ReceiverOK'
  BY <1>2 DEF ReceiverOK, TypeOK, Sides, Disconnecting, Goto, ReceiveRequest, Leaving
<1> QED BY <1>3, <1>7, <1>8, <1>9, <1>10, <1>11 DEF CallsOK, Sides

(* tick_receiver_receive_handshake().                                       *)
LEMMA ReceiveSubscribeControl == Control /\ ReceiveSubscribe => Control'
<1> SUFFICES ASSUME Control, ReceiveSubscribe PROVE Control'
  OBVIOUS
<1> USE DEF Control
<1> DEFINE begins == IsVacant(in["Receiver"])
<1> DEFINE m == IF begins THEN BeginReceive(NoTag) ELSE in["Receiver"]
<1>1. m \in ReceiveSlot /\ m.stage = "Receiving"
  <2>1. in["Receiver"] \in ReceiveSlot /\ ~IsCompleted(in["Receiver"])
    BY DEF SlotsOK, CallsOK, CallOK, Sides, ReceiveSubscribe, Leaving
  <2> QED BY <2>1, SlotFacts
<1> HIDE DEF m
<1>2. PICK r \in ReceiveResults("Receiver", m) :
          /\ Take("Receiver", r)
          /\ in' = [in EXCEPT !["Receiver"] = Kept(r.msg)]
          /\ \/ /\ r.lost /\ Disconnecting("Receiver", "tick")
                /\ payload' = IF begins THEN 0 ELSE payload
                /\ UNCHANGED <<state, mutual>>
             \/ /\ ~r.lost /\ IsCompleted(r.msg)
                /\ mutual' = [mutual EXCEPT !["Receiver"] =
                                MinOf(r.msg.tag.rate, ReceiverRate)]
                /\ payload' = FieldsSize
                /\ SetState("Receiver", "ReadyForFields")
                /\ Goto("Receiver", "first")
             \/ /\ ~r.lost /\ ~IsCompleted(r.msg)
                /\ payload' = IF begins THEN 0 ELSE payload
                /\ UNCHANGED <<state, mutual, pc, back>>
  BY DEF ReceiveSubscribe, m
<1>3. /\ Bounded' /\ wire' \in [Conns -> [Sides -> Seq(Byte)]]
      /\ r.msg \in ReceiveSlot
  BY <1>1, <1>2, ReceiveStep DEF Receives, Advances, Sides
<1>4. /\ in' \in [Sides -> Message] /\ in'["Sender"] = in["Sender"]
      /\ in'["Receiver"] \in ReceiveSlot /\ ~IsCompleted(in'["Receiver"])
  BY <1>2, <1>3, SlotFacts DEF TypeOK, Sides
<1>5. mutual' \in [Sides -> Nat]
  <2>1. r.msg.tag.rate \in Nat /\ ReceiverRate \in Nat
    BY <1>3, ConnectionAssumption DEF ReceiveSlot, Message, Tags
  <2>2. MinOf(r.msg.tag.rate, ReceiverRate) \in Nat
    BY <2>1 DEF MinOf
  <2> QED BY <1>2, <2>2 DEF TypeOK, Sides
<1>6. /\ pc' \in [Sides -> Calls] /\ back' \in [Sides -> {"tick", "request", "flush"}]
      /\ state' \in [Sides -> States] /\ payload' \in {0, FieldsSize}
  BY <1>2 DEF TypeOK, Disconnecting, Goto, SetState, Sides, Calls, States
<1>7. TypeOK'
  BY <1>3, <1>4, <1>5, <1>6 DEF TypeOK, ReceiveSubscribe
<1>8. SlotsOK'
  BY <1>4 DEF SlotsOK, ReceiveSubscribe, Sides
<1>9. CallOK("Sender")'
  BY <1>2, <1>4, SameCall DEF CallsOK, Sides, ReceiveSubscribe, TypeOK, Disconnecting, Goto,
     SetState
<1>10. CallOK("Receiver")' /\ ReceiverOK'
  <2>1. /\ pc["Receiver"] = "tick" /\ state["Receiver"] = "ReadyForHandshake"
        /\ sock'["Receiver"] = sock["Receiver"] /\ out'["Receiver"] = out["Receiver"]
        /\ CallOK("Receiver") /\ sock["Receiver"] \in Conns /\ sock["Receiver"] # "listening"
        /\ anyReceived' = anyReceived /\ ~anyReceived
    BY ConnectionAssumption DEF ReceiveSubscribe, CallsOK, CallOK, Sides, ReceiverOK
  <2>2. \/ /\ pc'["Receiver"] = "drainIn" /\ back'["Receiver"] = "tick"
           /\ state'["Receiver"] = "ReadyForHandshake"
        \/ /\ pc'["Receiver"] = "first" /\ back'["Receiver"] = back["Receiver"]
           /\ state'["Receiver"] = "ReadyForFields" /\ payload' = FieldsSize
        \/ /\ pc'["Receiver"] = "tick" /\ back'["Receiver"] = back["Receiver"]
           /\ state'["Receiver"] = "ReadyForHandshake"
    BY <1>2, <2>1 DEF TypeOK, Sides, Disconnecting, Goto, SetState
  <2>3. CallOK("Receiver")'
    BY <1>4, <2>1, <2>2 DEF CallOK, CallsOf, ReturnsTo, Leaving
  <2>4. ReceiverOK'
    BY <2>1, <2>2 DEF ReceiverOK, Leaving
  <2> QED BY <2>3, <2>4
<1> QED BY <1>3, <1>7, <1>8, <1>9, <1>10 DEF CallsOK, Sides

(* tick_send_fields_request().                                              *)
LEMMA SendRequestControl ==
  ASSUME Control, NEW allow \in BOOLEAN, SendRequest(allow, "tick"),
         pc["Receiver"] \in {"first", "request"}, UNCHANGED SendRequestFrame,
         anyReceived' \in BOOLEAN, ~anyReceived'
  PROVE  Control'
<1> USE DEF Control
<1> DEFINE m == IF allow /\ IsVacant(out["Receiver"])
                THEN BeginSend([type |-> "FieldsRequest", rate |-> mutual["Receiver"]],
                               FieldsRequestSize)
                ELSE out["Receiver"]
<1> DEFINE nothing == [lost |-> FALSE, msg |-> m, bytes |-> <<>>]
<1>0. ~Leaving("Receiver") /\ CallOK("Receiver") /\ ReceiverOK
  BY DEF Leaving, CallsOK, Sides
<1>1. /\ m \in SendSlot /\ (~IsVacant(m) => m.stage = "Sending") /\ ~IsCompleted(m)
      /\ IsVacant(m) => m = out["Receiver"]
  <2>1. out["Receiver"] \in SendSlot /\ ~IsCompleted(out["Receiver"])
    BY <1>0 DEF SlotsOK, CallOK, Sides
  <2>2. mutual["Receiver"] \in Nat
    BY DEF TypeOK, Sides
  <2>3. [type |-> "FieldsRequest", rate |-> mutual["Receiver"]] \in Tags /\ FieldsRequestSize \in Nat
    BY <2>2 DEF Tags, FieldsRequestSize
  <2> QED BY <2>1, <2>3, SlotFacts DEF IsVacant, IsCompleted
<1>2. PICK r \in IF IsVacant(m) THEN {nothing} ELSE SendResults("Receiver", m) :
        /\ Transmit("Receiver", r)
        /\ out' = [out EXCEPT !["Receiver"] = Kept(r.msg)]
        /\ IF r.lost THEN Disconnecting("Receiver", "tick") ELSE Goto("Receiver", "tick")
        /\ IF IsCompleted(r.msg) THEN SetState("Receiver", "ReadyForFields")
           ELSE UNCHANGED state
  BY DEF SendRequest
<1>4. /\ Bounded' /\ wire' \in [Conns -> [Sides -> Seq(Byte)]] /\ r.msg \in SendSlot
      /\ \/ r.lost /\ ~IsCompleted(r.msg)
         \/ ~r.lost /\ IsVacant(r.msg) /\ r.msg = out["Receiver"]
         \/ ~r.lost /\ Usable("Receiver")
  <2>1. CASE IsVacant(m)
    <3>1. r = nothing
      BY <1>2, <2>1
    <3>2. wire' = wire /\ r.msg = m /\ ~r.lost
      BY <1>2, <3>1 DEF Transmit
    <3> HIDE DEF m
    <3> QED BY <1>1, <2>1, <3>2 DEF TypeOK, Bounded
  <2>2. CASE ~IsVacant(m)
    <3>1. r \in SendResults("Receiver", m) /\ m.stage = "Sending"
      BY <1>1, <1>2, <2>2
    <3> HIDE DEF m
    <3>2. /\ Bounded' /\ wire' \in [Conns -> [Sides -> Seq(Byte)]]
          /\ \/ r.lost /\ r.msg = m /\ wire' = wire
             \/ ~r.lost /\ \E n : Sends("Receiver", m, n, r.msg)
      BY <1>1, <1>2, <3>1, SendStep DEF Sides
    <3> QED BY <1>1, <3>2 DEF Sends
  <2> QED BY <2>1, <2>2
<1> HIDE DEF m
<1>5. /\ out' \in [Sides -> Message] /\ out'["Sender"] = out["Sender"]
      /\ out'["Receiver"] = Kept(r.msg) /\ Kept(r.msg) \in SendSlot /\ ~IsCompleted(Kept(r.msg))
  BY <1>2, <1>4, SlotFacts DEF TypeOK, Sides
<1>6. /\ pc' \in [Sides -> Calls] /\ back' \in [Sides -> {"tick", "request", "flush"}]
      /\ state' \in [Sides -> States]
  BY <1>2 DEF TypeOK, Disconnecting, Goto, SetState, Sides, Calls, States
<1>7. TypeOK'
  BY <1>4, <1>5, <1>6 DEF TypeOK, SendRequestFrame
<1>8. SlotsOK'
  BY <1>5 DEF SlotsOK, SendRequestFrame, Sides
<1>9. CallOK("Sender")'
  <2>1. /\ pc'["Sender"] = pc["Sender"] /\ back'["Sender"] = back["Sender"]
        /\ state'["Sender"] = state["Sender"]
    BY <1>2 DEF TypeOK, Sides, Disconnecting, Goto, SetState
  <2>2. /\ sock' = sock /\ in' = in /\ CallOK("Sender")
    BY DEF SendRequestFrame, CallsOK, Sides
  <2> QED BY <1>5, <2>1, <2>2, SameCall
<1>10. CallOK("Receiver")' /\ ReceiverOK'
  <2>1. /\ sock'["Receiver"] = sock["Receiver"] /\ in'["Receiver"] = in["Receiver"]
        /\ payload' = payload /\ sock["Receiver"] # "listening"
        /\ state["Receiver"] \in States /\ state["Receiver"] # "ReadyForHandshake"
        /\ Usable("Receiver") => state["Receiver"] = "ReadyForFields"
    <3>1. state["Receiver"] \in States
      BY DEF TypeOK, Sides
    <3> QED BY <1>0, <3>1 DEF CallOK, SendRequestFrame, Usable, Leaving, States
  <2>2. state'["Receiver"] = state["Receiver"]
    <3>1. IsCompleted(r.msg) => Usable("Receiver")
      BY <1>4 DEF IsCompleted, IsVacant
    <3> QED BY <1>2, <2>1, <3>1 DEF TypeOK, Sides, SetState
  <2>3. \/ /\ pc'["Receiver"] = "drainIn" /\ back'["Receiver"] = "tick"
        \/ /\ pc'["Receiver"] = "tick" /\ back'["Receiver"] = back["Receiver"]
           /\ state["Receiver"] = "Disconnected" => IsVacant(out'["Receiver"])
    <3>1. IsVacant(r.msg) => IsVacant(Kept(r.msg))
      BY DEF Kept, IsVacant, IsCompleted
    <3> QED BY <1>2, <1>4, <1>5, <2>1, <3>1 DEF TypeOK, Sides, Disconnecting, Goto, States
  <2>4. CallOK("Receiver")'
    BY <1>0, <1>5, <2>1, <2>2, <2>3 DEF CallOK, CallsOf, ReturnsTo, Leaving
  <2>5. ReceiverOK'
    BY <1>0, <2>1, <2>2, <2>3 DEF ReceiverOK, Leaving
  <2> QED BY <2>4, <2>5
<1> QED BY <1>4, <1>7, <1>8, <1>9, <1>10 DEF CallsOK, Sides

(* The two calls that send a request.                                       *)
LEMMA RequestsControl == Control /\ (FirstRequest \/ RequestMore) => Control'
<1> SUFFICES ASSUME Control, FirstRequest \/ RequestMore PROVE Control'
  OBVIOUS
<1>1. anyReceived \in BOOLEAN /\ (pc["Receiver"] = "first" => ~anyReceived)
  BY DEF Control, TypeOK, ReceiverOK
<1>2. CASE FirstRequest
  <2>1. /\ SendRequest(TRUE, "tick") /\ pc["Receiver"] = "first"
        /\ UNCHANGED SendRequestFrame /\ anyReceived' = anyReceived
    BY <1>2 DEF FirstRequest
  <2> QED BY <1>1, <2>1, SendRequestControl
<1>3. CASE RequestMore
  <2>1. /\ SendRequest(anyReceived, "tick") /\ pc["Receiver"] = "request"
        /\ UNCHANGED SendRequestFrame /\ anyReceived' = FALSE
    BY <1>3 DEF RequestMore
  <2> QED BY <1>1, <2>1, SendRequestControl
<1> QED BY <1>2, <1>3

(* tick_receive_fields_as_message().                                        *)
LEMMA ReceiveFieldsControl == Control /\ ReceiveFields => Control'
<1> SUFFICES ASSUME Control, ReceiveFields PROVE Control'
  OBVIOUS
<1> USE DEF Control
<1> DEFINE m == IF IsVacant(in["Receiver"]) THEN BeginReceive(NoTag) ELSE in["Receiver"]
<1> DEFINE before == pc["Receiver"] = "consume" /\ anyReceived
<1>0. /\ pc["Receiver"] \in {"tick", "consume"} /\ state["Receiver"] = "ReadyForFields"
      /\ CallOK("Receiver") /\ ~Leaving("Receiver") /\ ReceiverOK
      /\ UNCHANGED <<state, sock, out, timer, mutual, ticksUntil, payload, ends, silent, backlog,
                 faults, sinceRequest>>
  BY DEF ReceiveFields, CallsOK, CallOK, Leaving, Sides
<1>1. m \in ReceiveSlot /\ m.stage = "Receiving"
  <2>1. in["Receiver"] \in ReceiveSlot /\ ~IsCompleted(in["Receiver"])
    BY <1>0 DEF SlotsOK, CallOK, Sides
  <2> QED BY <2>1, SlotFacts
<1> HIDE DEF m
<1>2. PICK r \in ReceiveResults("Receiver", m) :
          /\ Take("Receiver", r)
          /\ in' = [in EXCEPT !["Receiver"] = Kept(r.msg)]
          /\ IF r.lost THEN Disconnecting("Receiver", "request")
             ELSE Goto("Receiver", IF IsCompleted(r.msg) THEN "consume" ELSE "request")
          /\ anyReceived' = (before \/ IsCompleted(r.msg))
  BY DEF ReceiveFields, m
<1>3. /\ Bounded' /\ wire' \in [Conns -> [Sides -> Seq(Byte)]]
      /\ r.msg \in ReceiveSlot
  BY <1>1, <1>2, ReceiveStep DEF Receives, Advances, Sides
<1>4. /\ in' \in [Sides -> Message] /\ in'["Sender"] = in["Sender"]
      /\ in'["Receiver"] \in ReceiveSlot /\ ~IsCompleted(in'["Receiver"])
  BY <1>2, <1>3, SlotFacts DEF TypeOK, Sides
<1>5. anyReceived' \in BOOLEAN
  <2>1. anyReceived \in BOOLEAN
    BY DEF TypeOK
  <2> QED BY <1>2, <2>1
<1>6. /\ pc' \in [Sides -> Calls] /\ back' \in [Sides -> {"tick", "request", "flush"}]
  BY <1>2 DEF TypeOK, Disconnecting, Goto, Sides, Calls
<1>7. TypeOK'
  BY <1>0, <1>3, <1>4, <1>5, <1>6 DEF TypeOK
<1>8. SlotsOK'
  BY <1>0, <1>4 DEF SlotsOK, Sides
<1>9. CallOK("Sender")'
  BY <1>0, <1>2, <1>4, SameCall DEF CallsOK, Sides, TypeOK, Disconnecting, Goto
<1>10. CallOK("Receiver")' /\ ReceiverOK'
  <2>1. \/ /\ pc'["Receiver"] = "drainIn" /\ back'["Receiver"] = "request"
        \/ /\ pc'["Receiver"] \in {"consume", "request"} /\ back'["Receiver"] = back["Receiver"]
    BY <1>2 DEF TypeOK, Sides, Disconnecting, Goto
  <2>2. CallOK("Receiver")'
    <3>1. /\ state'["Receiver"] = "ReadyForFields" /\ sock'["Receiver"] = sock["Receiver"]
          /\ out'["Receiver"] = out["Receiver"] /\ ~IsCompleted(out["Receiver"])
      BY <1>0 DEF CallOK
    <3>2. /\ back["Receiver"] \in ReturnsTo("Receiver") /\ sock["Receiver"] \in Conns
          /\ sock["Receiver"] # "listening"
      BY <1>0, ConnectionAssumption DEF CallOK
    <3> QED BY <1>4, <2>1, <3>1, <3>2 DEF CallOK, CallsOf, ReturnsTo, Leaving
  <2>3. ReceiverOK'
    BY <1>0, <2>1 DEF ReceiverOK, Leaving
  <2> QED BY <2>2, <2>3
<1> QED BY <1>3, <1>7, <1>8, <1>9, <1>10 DEF CallsOK, Sides

(* Waiting to reconnect.                                                    *)
LEMMA WaitControl ==
  ASSUME NEW s \in Sides, Control, WaitToReconnect(s) PROVE Control'
<1> USE DEF Control
<1>1. timer' \in [Sides -> Nat]
  BY DEF WaitToReconnect, TypeOK
<1>2. TypeOK'
  BY <1>1 DEF WaitToReconnect, TypeOK, netVars
<1>3. SlotsOK' /\ Bounded' /\ CallsOK' /\ ReceiverOK'
  BY DEF WaitToReconnect, netVars, SlotsOK, Bounded, CallsOK, CallOK, ReceiverOK, Leaving
<1> QED BY <1>2, <1>3

(* tick_disconnected_receiver() opening its port.                           *)
LEMMA ListenControl == Control /\ Listen => Control'
<1> SUFFICES ASSUME Control, Listen PROVE Control'
  OBVIOUS
<1> USE DEF Control
<1>1. timer' \in [Sides -> Nat] /\ sock' \in [Sides -> Conns \cup {"none", "listening"}]
  BY ConnectionAssumption DEF Listen, TypeOK, Sides
<1>2. TypeOK'
  BY <1>1 DEF Listen, TypeOK, netVars
<1>3. SlotsOK' /\ Bounded' /\ ReceiverOK' /\ CallOK("Sender")'
  BY DEF Listen, netVars, SlotsOK, Bounded, CallsOK, CallOK, ReceiverOK, Leaving, TypeOK, Sides
<1>4. CallOK("Receiver")'
  BY ConnectionAssumption DEF Listen, TriesToConnect, CallsOK, CallOK, Leaving, TypeOK, Sides
<1> QED BY <1>2, <1>3, <1>4 DEF CallsOK, Sides

(* disconnect() with the incoming message, then with the outgoing one.      *)
LEMMA DrainInControl ==
  ASSUME NEW s \in Sides, Control, DrainIn(s) PROVE Control'
<1> USE DEF Control
<1>0. UNCHANGED <<sideVars, out, ends, silent, backlog, faults, sinceRequest>> /\ pc[s] = "drainIn"
  BY DEF DrainIn
<1>1. /\ wire' \in [Conns -> [Sides -> Seq(Byte)]] /\ Bounded'
      /\ \E m \in ReceiveSlot :
           /\ in' = [in EXCEPT ![s] = m]
           /\ \/ pc' = pc
              \/ pc' = [pc EXCEPT ![s] = "drainOut"] /\ m = Empty
  <2>1. CASE /\ IsUnderWay(in[s])
             /\ \E r \in ReceiveResults(s, in[s]) :
                  ~r.lost /\ Take(s, r) /\ in' = [in EXCEPT ![s] = r.msg]
             /\ pc' = pc
    <3>1. in[s] \in ReceiveSlot /\ in[s].stage = "Receiving"
      BY <2>1 DEF SlotsOK, ReceiveSlot, IsUnderWay
    <3>2. PICK r \in ReceiveResults(s, in[s]) : ~r.lost /\ Take(s, r) /\ in' = [in EXCEPT ![s] = r.msg]
      BY <2>1
    <3>3. Bounded' /\ wire' \in [Conns -> [Sides -> Seq(Byte)]] /\ r.msg \in ReceiveSlot
      BY <3>1, <3>2, ReceiveStep DEF Receives, Advances
    <3> QED BY <2>1, <3>2, <3>3
  <2>2. CASE /\ in' = [in EXCEPT ![s] = Empty]
             /\ pc' = [pc EXCEPT ![s] = "drainOut"] /\ UNCHANGED wire
    BY <2>2, SlotFacts DEF TypeOK, Bounded
  <2> QED BY <2>1, <2>2 DEF DrainIn
<1>2. PICK m \in ReceiveSlot : /\ in' = [in EXCEPT ![s] = m]
           /\ \/ pc' = pc
              \/ pc' = [pc EXCEPT ![s] = "drainOut"] /\ m = Empty
  BY <1>1
<1>3. m \in Message
  BY SlotFacts
<1>8. pc \in [Sides -> Calls] /\ in \in [Sides -> Message] /\ out \in [Sides -> Message]
  BY DEF TypeOK
<1>4. TypeOK'
  <2>1. in' \in [Sides -> Message] /\ pc' \in [Sides -> Calls]
    BY <1>2, <1>3 DEF TypeOK, Calls
  <2> QED BY <1>0, <1>1, <2>1 DEF TypeOK, sideVars
<1>5. SlotsOK'
  BY <1>0, <1>2 DEF SlotsOK, TypeOK
<1>6. ASSUME NEW t \in Sides PROVE CallOK(t)'
  <2>1. CallOK(t) /\ UNCHANGED <<state, back, sock, out>>
    BY <1>0 DEF CallsOK, sideVars
  <2>2. CASE t # s
    BY <1>2, <2>1, <2>2, SameCall DEF TypeOK
  <2>3. CASE t = s
    <3>1. in'[s] = m /\ (pc'[s] = "drainIn" \/ (pc'[s] = "drainOut" /\ IsVacant(m)))
      <4>1. IsVacant(Empty)
        BY SlotFacts
      <4> QED BY <1>0, <1>2, <1>8, <4>1
    <3> QED BY <1>0, <2>1, <2>3, <3>1 DEF CallOK, Leaving
  <2> QED BY <2>2, <2>3
<1>7. ReceiverOK'
  <2>1. pc'["Receiver"] = pc["Receiver"] \/ (pc["Receiver"] = "drainIn" /\ pc'["Receiver"] = "drainOut")
    BY <1>0, <1>2, <1>8 DEF Sides
  <2> QED BY <1>0, <2>1 DEF ReceiverOK, Leaving, sideVars
<1> QED BY <1>1, <1>4, <1>5, <1>6, <1>7 DEF CallsOK

LEMMA DrainOutControl ==
  ASSUME NEW s \in Sides, Control, DrainOut(s) PROVE Control'
<1> USE DEF Control
<1>0. UNCHANGED <<sideVars, in, ends, silent, backlog, faults, sinceRequest>> /\ pc[s] = "drainOut"
  BY DEF DrainOut
<1>1. /\ wire' \in [Conns -> [Sides -> Seq(Byte)]] /\ Bounded'
      /\ \E m \in SendSlot :
           /\ out' = [out EXCEPT ![s] = m]
           /\ \/ pc' = pc
              \/ pc' = [pc EXCEPT ![s] = "close"] /\ m = Empty
  <2>1. CASE /\ IsUnderWay(out[s])
             /\ \E r \in SendResults(s, out[s]) :
                  ~r.lost /\ Transmit(s, r) /\ out' = [out EXCEPT ![s] = r.msg]
             /\ pc' = pc
    <3>1. out[s] \in SendSlot /\ out[s].stage = "Sending"
      BY <2>1 DEF SlotsOK, SendSlot, IsUnderWay
    <3>2. PICK r \in SendResults(s, out[s]) : ~r.lost /\ Transmit(s, r) /\ out' = [out EXCEPT ![s] = r.msg]
      BY <2>1
    <3>3. Bounded' /\ wire' \in [Conns -> [Sides -> Seq(Byte)]] /\ r.msg \in SendSlot
      BY <3>1, <3>2, SendStep DEF Sends
    <3> QED BY <2>1, <3>2, <3>3
  <2>2. CASE /\ out' = [out EXCEPT ![s] = Empty]
             /\ pc' = [pc EXCEPT ![s] = "close"] /\ UNCHANGED wire
    BY <2>2, SlotFacts DEF TypeOK, Bounded
  <2> QED BY <2>1, <2>2 DEF DrainOut
<1>2. PICK m \in SendSlot : /\ out' = [out EXCEPT ![s] = m]
           /\ \/ pc' = pc
              \/ pc' = [pc EXCEPT ![s] = "close"] /\ m = Empty
  BY <1>1
<1>3. m \in Message
  BY SlotFacts
<1>8. pc \in [Sides -> Calls] /\ in \in [Sides -> Message] /\ out \in [Sides -> Message]
  BY DEF TypeOK
<1>4. TypeOK'
  <2>1. out' \in [Sides -> Message] /\ pc' \in [Sides -> Calls]
    BY <1>2, <1>3 DEF TypeOK, Calls
  <2> QED BY <1>0, <1>1, <2>1 DEF TypeOK, sideVars
<1>5. SlotsOK'
  BY <1>0, <1>2 DEF SlotsOK, TypeOK
<1>6. ASSUME NEW t \in Sides PROVE CallOK(t)'
  <2>1. CallOK(t) /\ UNCHANGED <<state, back, sock, in>>
    BY <1>0 DEF CallsOK, sideVars
  <2>2. CASE t # s
    BY <1>2, <2>1, <2>2, SameCall DEF TypeOK
  <2>3. CASE t = s
    <3>1. out'[s] = m /\ (pc'[s] = "drainOut" \/ (pc'[s] = "close" /\ IsVacant(m)))
      <4>1. IsVacant(Empty)
        BY SlotFacts
      <4> QED BY <1>0, <1>2, <1>8, <4>1
    <3> QED BY <1>0, <2>1, <2>3, <3>1 DEF CallOK, Leaving
  <2> QED BY <2>2, <2>3
<1>7. ReceiverOK'
  <2>1. pc'["Receiver"] = pc["Receiver"] \/ (pc["Receiver"] = "drainOut" /\ pc'["Receiver"] = "close")
    BY <1>0, <1>2, <1>8 DEF Sides
  <2> QED BY <1>0, <2>1 DEF ReceiverOK, Leaving, sideVars
<1> QED BY <1>1, <1>4, <1>5, <1>6, <1>7 DEF CallsOK

-----------------------------------------------------------------------------
(* Connections: who holds which end.                                        *)

(* Connection c waits to be accepted.                                       *)
Waits(c) == backlog = <<c>>

(* An end of c that is usable belongs to the side whose socket c is, to     *)
(* the backlog, or to a host that vanished; nobody else holds c, and c is   *)
(* not called silent while both sides hold it.                              *)
Held(c) ==
  /\ Waits(c) => "Receiver" \in ends[c] \/ ends[c] = {}
  /\ "Sender" \in ends[c] => sock["Sender"] = c \/ c \in silent
  /\ "Receiver" \in ends[c] => sock["Receiver"] = c \/ Waits(c) \/ c \in silent
  /\ ends[c] # {} => sock["Sender"] = c \/ sock["Receiver"] = c \/ Waits(c)
  /\ c \in silent => /\ ends[c] = Sides
                     /\ ~(sock["Sender"] = c /\ (sock["Receiver"] = c \/ Waits(c)))

(* At most one connection waits, and only while somebody listens.           *)
Backlog ==
  /\ backlog = <<>> \/ \E c \in Conns : backlog = <<c>>
  /\ backlog # <<>> => sock["Receiver"] = "listening"
HeldOK == Backlog /\ \A c \in Conns : Held(c)

(* The connection that waits is the one that InBacklog() finds.             *)
LEMMA WaitingOnly ==
  ASSUME Backlog
  PROVE  \A c \in Conns : InBacklog(c) <=> Waits(c)
<1> TAKE c \in Conns
<1>1. CASE backlog = <<>>
  BY <1>1 DEF InBacklog, Waits
<1>2. CASE backlog # <<>>
  <2>1. PICK d \in Conns : backlog = <<d>>
    BY <1>2 DEF Backlog
  <2>2. Len(backlog) = 1 /\ backlog[1] = d
    BY <2>1
  <2> QED BY <2>1, <2>2 DEF InBacklog, Waits
<1> QED BY <1>1, <1>2

(* Steps that leave the sockets and the network alone.                      *)
LEMMA HeldSame ==
  ASSUME HeldOK, UNCHANGED <<sock, ends, silent, backlog>> PROVE HeldOK'
BY DEF HeldOK, Backlog, Held, Waits

LEMMA NetSame ==
  ASSUME TypeOK, Bounded, UNCHANGED netVars PROVE NetTyped' /\ Bounded'
BY DEF TypeOK, Bounded, NetTyped, netVars

(* Closing the listening socket resets what waits, apart from what is       *)
(* kept.                                                                    *)
LEMMA ResetBacklogHeld ==
  ASSUME TypeOK, Bounded, HeldOK, NEW keep \in SUBSET Conns, ResetBacklog(keep)
  PROVE  /\ NetTyped' /\ Bounded' /\ backlog' = <<>>
         /\ \A c \in Conns :
              /\ ends'[c] = IF Waits(c) /\ c \notin keep THEN {} ELSE ends[c]
              /\ c \in silent' <=> c \in silent /\ ~(Waits(c) /\ c \notin keep)
              /\ \A t \in Sides : wire'[c][t] = IF Waits(c) /\ c \notin keep THEN <<>> ELSE wire[c][t]
<1>1. \A c \in Conns : InBacklog(c) <=> Waits(c)
  BY WaitingOnly DEF HeldOK
<1>2. backlog' = <<>> /\ backlog' \in Seq(Conns)
  BY DEF ResetBacklog
<1>3. ends' \in [Conns -> SUBSET Sides] /\ silent' \in SUBSET Conns
  BY DEF ResetBacklog, TypeOK
<1>4. wire' = [c \in Conns |-> IF InBacklog(c) /\ c \notin keep
                              THEN [s \in Sides |-> <<>>] ELSE wire[c]]
  BY DEF ResetBacklog
<1>5. wire' \in [Conns -> [Sides -> Seq(Byte)]]
  <2>1. \A c \in Conns : wire[c] \in [Sides -> Seq(Byte)]
    BY DEF TypeOK
  <2>2. [s \in Sides |-> <<>>] \in [Sides -> Seq(Byte)]
    OBVIOUS
  <2> QED BY <1>4, <2>1, <2>2
<1>6. \A c \in Conns, t \in Sides :
        wire'[c][t] = IF Waits(c) /\ c \notin keep THEN <<>> ELSE wire[c][t]
  BY <1>1, <1>4
<1>7. Bounded'
  <2> SUFFICES ASSUME NEW c \in Conns, NEW t \in Sides PROVE Len(wire'[c][t]) <= Capacity
    BY DEF Bounded
  <2>1. Len(wire[c][t]) <= Capacity /\ Len(<<>>) <= Capacity
    BY ConnectionAssumption DEF Bounded
  <2> QED BY <1>6, <2>1
<1>8. \A c \in Conns :
         /\ ends'[c] = IF Waits(c) /\ c \notin keep THEN {} ELSE ends[c]
         /\ c \in silent' <=> c \in silent /\ ~(Waits(c) /\ c \notin keep)
  BY <1>1 DEF ResetBacklog
<1> QED BY <1>2, <1>3, <1>5, <1>6, <1>7, <1>8 DEF NetTyped

(* close() gives up the end of side s and nothing else.                     *)
LEMMA CloseHeld ==
  ASSUME Control, HeldOK, NEW s \in Sides, Close(s), sock' = [sock EXCEPT ![s] = "none"]
  PROVE  HeldOK' /\ NetTyped' /\ Bounded'
<1>0. /\ sock \in [Sides -> Conns \cup {"none", "listening"}] /\ Conns \cap {"none", "listening"} = {}
      /\ sock'[s] = "none" /\ (\A t \in Sides : t # s => sock'[t] = sock[t])
      /\ TypeOK /\ Bounded /\ Backlog /\ \A c \in Conns : Held(c)
  BY ConnectionAssumption DEF Control, TypeOK, HeldOK
<1>1. CASE sock[s] = "listening"
  <2>1. s = "Receiver"
    BY <1>1 DEF Control, CallsOK, CallOK
  <2>2. ResetBacklog({})
    BY <1>1 DEF Close
  <2>3. /\ NetTyped' /\ Bounded' /\ backlog' = <<>>
        /\ \A c \in Conns :
              /\ ends'[c] = IF Waits(c) /\ c \notin {} THEN {} ELSE ends[c]
              /\ c \in silent' <=> c \in silent /\ ~(Waits(c) /\ c \notin {})
    BY <1>0, <2>2, ResetBacklogHeld DEF HeldOK
  <2>4. ASSUME NEW c \in Conns PROVE Held(c)'
    <3>1. sock'["Sender"] = sock["Sender"] /\ sock'["Receiver"] # c /\ sock["Receiver"] # c
      BY <1>0, <1>1, <2>1 DEF Sides
    <3>2. ~Waits(c)'
      BY <2>3 DEF Waits
    <3>3. CASE Waits(c)
      BY <2>3, <3>2, <3>3 DEF Held
    <3>4. CASE ~Waits(c)
      BY <1>0, <2>3, <3>1, <3>2, <3>4 DEF Held
    <3> QED BY <3>3, <3>4
  <2>5. Backlog'
    BY <2>3 DEF Backlog
  <2> QED BY <2>3, <2>4, <2>5 DEF HeldOK
<1>2. CASE sock[s] = "none"
  <2>1. UNCHANGED netVars /\ sock' = sock
    BY <1>0, <1>2 DEF Close
  <2> QED BY <1>0, <2>1, NetSame, HeldSame DEF netVars, HeldOK
<1>3. CASE sock[s] \in Conns
  <2> DEFINE c == sock[s]
  <2>1. /\ ends' = [ends EXCEPT ![c] = IF c \in silent THEN {} ELSE @ \ {s}]
        /\ wire' = [wire EXCEPT ![c] =
                     [t \in Sides |-> IF t # s /\ t \in ends'[c] THEN @[t] ELSE <<>>]]
        /\ silent' = silent \ {c}
        /\ backlog' = backlog
    BY <1>0, <1>3 DEF Close
  <2>2. ends' \in [Conns -> SUBSET Sides] /\ silent' \in SUBSET Conns /\ backlog' \in Seq(Conns)
    BY <1>0, <1>3, <2>1 DEF TypeOK
  <2>3. wire' \in [Conns -> [Sides -> Seq(Byte)]]
    <3>1. wire \in [Conns -> [Sides -> Seq(Byte)]] /\ <<>> \in Seq(Byte)
      BY <1>0 DEF TypeOK
    <3>2. wire[c] \in [Sides -> Seq(Byte)]
      BY <1>3, <3>1
    <3> DEFINE w == [t \in Sides |-> IF t # s /\ t \in ends'[c] THEN wire[c][t] ELSE <<>>]
    <3>3. w \in [Sides -> Seq(Byte)]
      BY <3>1, <3>2
    <3>4. wire' = [wire EXCEPT ![c] = w]
      BY <2>1
    <3> HIDE DEF w
    <3> QED BY <3>1, <3>3, <3>4
  <2>4. Bounded'
    <3> SUFFICES ASSUME NEW d \in Conns, NEW t \in Sides PROVE Len(wire'[d][t]) <= Capacity
      BY DEF Bounded
    <3>1. Len(wire[d][t]) <= Capacity /\ Len(<<>>) <= Capacity
      BY <1>0, ConnectionAssumption DEF Bounded
    <3>2. wire'[d][t] = wire[d][t] \/ wire'[d][t] = <<>>
      BY <1>0, <1>3, <2>1 DEF TypeOK
    <3> QED BY <3>1, <3>2
  <2>5. Backlog'
    BY <1>0, <1>3, <2>1 DEF Backlog, Sides
  <2>6. ASSUME NEW d \in Conns PROVE Held(d)'
    <3>1. Waits(d)' <=> Waits(d)
      BY <2>1 DEF Waits
    <3>2. CASE d # c
      <4>1. ends'[d] = ends[d] /\ (d \in silent' <=> d \in silent)
            /\ sock[s] # d /\ sock'[s] # d
        BY <1>0, <2>1, <3>2
      <4> QED BY <1>0, <3>1, <4>1 DEF Held, Sides
    <3>3. CASE d = c
      <4>1. ends'[c] = (IF c \in silent THEN {} ELSE ends[c] \ {s}) /\ c \notin silent'
        BY <1>0, <1>3, <2>1 DEF TypeOK
      <4>2. s = "Receiver" => ~Waits(c)
        BY <1>0, <1>3 DEF Backlog, Waits
      <4>3. Held(c) /\ ends[c] \in SUBSET Sides
        BY <1>0, <1>3 DEF TypeOK
      <4>4. CASE c \in silent
        BY <3>3, <4>1, <4>2, <4>3, <4>4, <3>1 DEF Held, Sides
      <4>5. CASE c \notin silent /\ s = "Sender"
        <5>1. sock'["Receiver"] = sock["Receiver"]
          BY <1>0, <4>5 DEF Sides
        <5> QED BY <3>1, <3>3, <4>1, <4>3, <4>5, <5>1 DEF Held, Sides
      <4>6. CASE c \notin silent /\ s = "Receiver"
        <5>1. sock'["Sender"] = sock["Sender"]
          BY <1>0, <4>6 DEF Sides
        <5> QED BY <3>1, <3>3, <4>1, <4>2, <4>3, <4>6, <5>1 DEF Held, Sides
      <4> QED BY <4>4, <4>5, <4>6 DEF Sides
    <3> QED BY <3>2, <3>3
  <2> QED BY <2>2, <2>3, <2>4, <2>5, <2>6 DEF HeldOK, NetTyped
<1> QED BY <1>0, <1>1, <1>2, <1>3

(* A Sender without a connection finds an identity for its next one: the    *)
(* Receiver holds at most one, or one waits for it, and there are two.      *)
LEMMA FreeExists ==
  ASSUME Control, HeldOK, TriesToConnect("Sender")
  PROVE  LET c == CHOOSE d \in Conns : Free(d) IN c \in Conns /\ Free(c)
<1>1. sock["Sender"] \notin Conns
  BY DEF Control, CallsOK, CallOK, TriesToConnect, Sides
<1>2. \A c, d \in Conns : Free(c) \/ Free(d) \/ c = d
  <2> SUFFICES ASSUME NEW c \in Conns, NEW d \in Conns, ~Free(c), ~Free(d) PROVE c = d
    OBVIOUS
  <2>1. ASSUME NEW e \in Conns, ~Free(e) PROVE sock["Receiver"] = e \/ Waits(e)
    <3>1. InBacklog(e) <=> Waits(e)
      BY WaitingOnly DEF HeldOK
    <3>2. Held(e)
      BY DEF HeldOK
    <3> QED BY <1>1, <2>1, <3>1, <3>2 DEF Free, Held, Sides
  <2>2. sock["Receiver"] = c \/ Waits(c)
    BY <2>1
  <2>3. sock["Receiver"] = d \/ Waits(d)
    BY <2>1
  <2>4. Waits(c) \/ Waits(d) => sock["Receiver"] = "listening"
    BY DEF HeldOK, Backlog, Waits
  <2>5. c # "listening" /\ d # "listening"
    BY ConnectionAssumption
  <2> QED BY <2>2, <2>3, <2>4, <2>5 DEF Waits
<1>3. \E d \in Conns : Free(d)
  BY <1>2, ConnectionAssumption
<1> QED BY <1>3

(* connect(), accept(), close(), a reset and a side that starts again.      *)
LEMMA ConnectKeeps == Control /\ HeldOK /\ Connect => Control' /\ HeldOK'
<1> SUFFICES ASSUME Control, HeldOK, Connect PROVE Control' /\ HeldOK'
  OBVIOUS
<1> USE DEF Control
<1>0. /\ UNCHANGED <<pc, back, out, in, mutual, ticksUntil, anyReceived, payload, faults, sinceRequest>>
      /\ pc["Sender"] = "tick" /\ state["Sender"] = "Disconnected" /\ CallOK("Sender")
      /\ sock["Sender"] \notin Conns
  BY DEF Connect, TriesToConnect, CallsOK, CallOK, Sides
<1> DEFINE c == CHOOSE d \in Conns : Free(d)
<1>1. c \in Conns /\ Free(c)
  BY FreeExists DEF Connect
<1>2. \/ /\ sock["Receiver"] = "listening" /\ backlog = <<>>
         /\ sock' = [sock EXCEPT !["Sender"] = c]
         /\ ends' = [ends EXCEPT ![c] = Sides]
         /\ backlog' = <<c>>
         /\ SetState("Sender", "ReadyForHandshake")
         /\ UNCHANGED <<timer, wire, silent>>
      \/ /\ sock' = [sock EXCEPT !["Sender"] = c]
         /\ SetState("Sender", "ReadyForHandshake")
         /\ UNCHANGED timer
         /\ UNCHANGED netVars
      \/ /\ timer' = [timer EXCEPT !["Sender"] = ReconnectTicks]
         /\ UNCHANGED <<sock, state>>
         /\ UNCHANGED netVars
  BY DEF Connect
<1> HIDE DEF c
<1>3. ends[c] = {} /\ ~Waits(c) /\ \A s \in Sides : sock[s] # c
  <2>1. InBacklog(c) <=> Waits(c)
    BY <1>1, WaitingOnly DEF HeldOK
  <2> QED BY <1>1, <2>1 DEF Free
<1>4. /\ sock' \in [Sides -> Conns \cup {"none", "listening"}] /\ timer' \in [Sides -> Nat]
      /\ state' \in [Sides -> States]
  <2>1. /\ sock \in [Sides -> Conns \cup {"none", "listening"}] /\ timer \in [Sides -> Nat]
        /\ state \in [Sides -> States] /\ ReconnectTicks \in Nat
    BY ConnectionAssumption DEF TypeOK
  <2>2. \/ sock' = [sock EXCEPT !["Sender"] = c]
        \/ sock' = sock
    BY <1>2
  <2>3. timer' = timer \/ timer' = [timer EXCEPT !["Sender"] = ReconnectTicks]
    BY <1>2
  <2>4. state' = state \/ state' = [state EXCEPT !["Sender"] = "ReadyForHandshake"]
    BY <1>2 DEF SetState
  <2>5. sock' \in [Sides -> Conns \cup {"none", "listening"}]
    BY <1>1, <2>1, <2>2
  <2>6. timer' \in [Sides -> Nat] /\ state' \in [Sides -> States]
    BY <2>1, <2>3, <2>4 DEF States
  <2> QED BY <2>5, <2>6
<1>5. NetTyped' /\ Bounded'
  <2>1. CASE UNCHANGED netVars
    BY <2>1, NetSame
  <2>2. CASE ends' = [ends EXCEPT ![c] = Sides] /\ backlog' = <<c>> /\ UNCHANGED <<wire, silent>>
    BY <1>1, <2>2 DEF TypeOK, NetTyped, Bounded
  <2> QED BY <1>2, <2>1, <2>2
<1>6. TypeOK'
  BY <1>0, <1>4, <1>5 DEF TypeOK, NetTyped
<1>7. SlotsOK' /\ ReceiverOK'
  BY <1>0, <1>2 DEF SlotsOK, ReceiverOK, Leaving, SetState, TypeOK, Sides
<1>8. CallOK("Receiver")'
  <2>1. state'["Receiver"] = state["Receiver"] /\ sock'["Receiver"] = sock["Receiver"]
    BY <1>2 DEF SetState, TypeOK, Sides
  <2>2. CallOK("Receiver")
    BY DEF CallsOK, Sides
  <2> QED BY <1>0, <2>1, <2>2, SameCall
<1>9. CallOK("Sender")'
  <2>1. \/ sock'["Sender"] = c /\ state'["Sender"] = "ReadyForHandshake"
        \/ sock'["Sender"] = sock["Sender"] /\ state'["Sender"] = state["Sender"]
    BY <1>2 DEF SetState, TypeOK, Sides
  <2>2. c # "listening"
    BY <1>1, ConnectionAssumption
  <2> QED BY <1>0, <1>1, <2>1, <2>2 DEF CallOK, Leaving
<1>10. HeldOK'
  <2>1. CASE UNCHANGED <<sock, netVars>>
    BY <2>1, HeldSame DEF netVars
  <2>2. CASE sock' = [sock EXCEPT !["Sender"] = c] /\ UNCHANGED netVars
    <3>1. sock'["Receiver"] = sock["Receiver"] /\ sock'["Sender"] = c /\ UNCHANGED <<ends, silent, backlog>>
      BY <2>2 DEF TypeOK, Sides, netVars
    <3>2. ASSUME NEW d \in Conns PROVE Held(d)'
      BY <1>0, <1>3, <3>1 DEF HeldOK, Held, Waits, Sides
    <3> QED BY <3>1, <3>2 DEF HeldOK, Backlog
  <2>3. CASE /\ sock["Receiver"] = "listening" /\ backlog = <<>>
             /\ sock' = [sock EXCEPT !["Sender"] = c]
             /\ ends' = [ends EXCEPT ![c] = Sides]
             /\ backlog' = <<c>>
             /\ UNCHANGED silent
    <3>1. /\ sock'["Receiver"] = "listening" /\ sock'["Sender"] = c /\ silent' = silent
          /\ \A d \in Conns : ends'[d] = IF d = c THEN Sides ELSE ends[d]
          /\ \A d \in Conns : (Waits(d)' <=> d = c) /\ ~Waits(d)
      BY <2>3 DEF TypeOK, Sides, Waits
    <3>2. ASSUME NEW d \in Conns PROVE Held(d)'
      <4>1. Held(d)
        BY DEF HeldOK
      <4>2. CASE d = c
        <5>1. c \notin silent
          BY <1>1, <1>3, <4>1, <4>2 DEF Held, Sides
        <5> QED BY <3>1, <4>2, <5>1 DEF Held, Sides
      <4>3. CASE d # c
        <5>1. d # "listening"
          BY ConnectionAssumption
        <5> QED BY <1>0, <2>3, <3>1, <4>1, <4>3, <5>1 DEF Held
      <4> QED BY <4>2, <4>3
    <3>3. Backlog'
      BY <1>1, <2>3, <3>1 DEF Backlog
    <3> QED BY <3>2, <3>3 DEF HeldOK
  <2> QED BY <1>2, <2>1, <2>2, <2>3
<1> QED BY <1>5, <1>6, <1>7, <1>8, <1>9, <1>10 DEF CallsOK, Sides

LEMMA AcceptKeeps == Control /\ HeldOK /\ Accept => Control' /\ HeldOK'
<1> SUFFICES ASSUME Control, HeldOK, Accept PROVE Control' /\ HeldOK'
  OBVIOUS
<1> USE DEF Control
<1>0. /\ UNCHANGED <<pc, back, out, in, mutual, ticksUntil, anyReceived, payload, faults, sinceRequest>>
      /\ pc["Receiver"] = "tick" /\ state["Receiver"] = "Disconnected" /\ CallOK("Receiver")
      /\ sock["Receiver"] = "listening" /\ sock["Receiver"] \notin Conns /\ ReceiverOK
  BY ConnectionAssumption DEF Accept, TriesToConnect, CallsOK, CallOK, Sides
<1>1. CASE timer' = [timer EXCEPT !["Receiver"] = ReconnectTicks] /\ UNCHANGED <<sock, state, netVars>>
  <2>1. timer' \in [Sides -> Nat]
    BY <1>1, ConnectionAssumption DEF TypeOK
  <2>2. TypeOK'
    BY <1>0, <1>1, <2>1 DEF TypeOK, netVars
  <2>3. SlotsOK' /\ Bounded' /\ CallsOK' /\ ReceiverOK'
    BY <1>0, <1>1 DEF SlotsOK, Bounded, CallsOK, CallOK, ReceiverOK, Leaving, netVars
  <2>4. HeldOK'
    BY <1>1, HeldSame DEF netVars
  <2> QED BY <2>2, <2>3, <2>4
<1>2. CASE /\ backlog # <<>>
           /\ sock' = [sock EXCEPT !["Receiver"] = Head(backlog)]
           /\ SetState("Receiver", "ReadyForHandshake")
           /\ ResetBacklog({Head(backlog)})
           /\ UNCHANGED timer
  <2>1. PICK c \in Conns : backlog = <<c>>
    BY <1>2 DEF HeldOK, Backlog
  <2>2. Head(backlog) = c /\ Waits(c) /\ \A d \in Conns : Waits(d) => d = c
    BY <2>1 DEF Waits
  <2>3. /\ NetTyped' /\ Bounded' /\ backlog' = <<>>
         /\ \A d \in Conns :
              /\ ends'[d] = IF Waits(d) /\ d \notin {c} THEN {} ELSE ends[d]
              /\ d \in silent' <=> d \in silent /\ ~(Waits(d) /\ d \notin {c})
    <3>1. ResetBacklog({c}) /\ {c} \in SUBSET Conns
      BY <1>2, <2>2
    <3> QED BY <3>1, ResetBacklogHeld
  <2>4. /\ sock' \in [Sides -> Conns \cup {"none", "listening"}] /\ state' \in [Sides -> States]
        /\ sock'["Receiver"] = c /\ sock'["Sender"] = sock["Sender"]
        /\ state'["Receiver"] = "ReadyForHandshake" /\ state'["Sender"] = state["Sender"]
    BY <1>2, <2>2 DEF TypeOK, SetState, States, Sides
  <2>5. TypeOK'
    BY <1>0, <1>2, <2>3, <2>4 DEF TypeOK, NetTyped
  <2>6. SlotsOK' /\ ReceiverOK'
    BY <1>0, <2>4 DEF SlotsOK, ReceiverOK, Leaving
  <2>7. CallOK("Sender")'
    <3>1. CallOK("Sender")
      BY DEF CallsOK, Sides
    <3> QED BY <1>0, <2>4, <3>1, SameCall
  <2>8. CallOK("Receiver")'
    <3>1. c # "listening"
      BY ConnectionAssumption
    <3> QED BY <1>0, <2>4, <3>1 DEF CallOK, Leaving
  <2>9. HeldOK'
    <3>1. ASSUME NEW d \in Conns PROVE Held(d)'
      <4>1. /\ ends'[d] = ends[d] /\ (d \in silent' <=> d \in silent) /\ ~Waits(d)'
            /\ sock["Receiver"] # d /\ (Waits(d) <=> d = c) /\ Held(d)
        BY <1>0, <2>2, <2>3 DEF Waits, HeldOK
      <4> QED BY <2>4, <4>1 DEF Held
    <3> QED BY <2>3, <3>1 DEF HeldOK, Backlog
  <2> QED BY <2>3, <2>5, <2>6, <2>7, <2>8, <2>9 DEF CallsOK, Sides
<1> QED BY <1>1, <1>2 DEF Accept

LEMMA CloseKeeps ==
  ASSUME Control, HeldOK, NEW s \in Sides, CloseAndReset(s) PROVE Control' /\ HeldOK'
<1> USE DEF Control
<1>0. /\ UNCHANGED <<back, out, in, mutual, ticksUntil, anyReceived, faults, sinceRequest>>
      /\ pc[s] = "close" /\ Close(s) /\ sock' = [sock EXCEPT ![s] = "none"]
      /\ timer' = [timer EXCEPT ![s] = ReconnectTicks]
      /\ payload' = IF s = "Receiver" THEN 0 ELSE payload
      /\ state' = [state EXCEPT ![s] = "Disconnected"]
      /\ pc' = [pc EXCEPT ![s] = back[s]]
      /\ CallOK(s) /\ ReceiverOK
  BY DEF CloseAndReset, SetState, CallsOK
<1>1. HeldOK' /\ NetTyped' /\ Bounded'
  BY <1>0, CloseHeld
<1>2. /\ sock' \in [Sides -> Conns \cup {"none", "listening"}] /\ timer' \in [Sides -> Nat]
      /\ state' \in [Sides -> States] /\ payload' \in {0, FieldsSize}
  BY <1>0, ConnectionAssumption DEF TypeOK, States
<1>3. pc' \in [Sides -> Calls]
  BY <1>0 DEF TypeOK, Calls
<1>4. TypeOK'
  BY <1>0, <1>1, <1>2, <1>3 DEF TypeOK, NetTyped
<1>5. SlotsOK'
  BY <1>0 DEF SlotsOK
<1>6. /\ sock'[s] = "none" /\ state'[s] = "Disconnected" /\ pc'[s] = back[s]
      /\ \A t \in Sides : t # s => sock'[t] = sock[t] /\ state'[t] = state[t] /\ pc'[t] = pc[t]
  BY <1>0 DEF TypeOK
<1>7. ASSUME NEW t \in Sides PROVE CallOK(t)'
  <2>1. CASE t # s
    BY <1>0, <1>6, <2>1, SameCall DEF CallsOK
  <2>2. CASE t = s
    <3>1. /\ IsVacant(in'[s]) /\ IsVacant(out'[s]) /\ back'[s] = back[s]
          /\ back[s] \in {"tick", "request", "flush"} /\ back[s] \in ReturnsTo(s)
      BY <1>0 DEF CallOK, TypeOK
    <3>2. sock'[s] \notin Conns
      BY <1>6, ConnectionAssumption
    <3>3. ~IsCompleted(in'[s]) /\ ~IsCompleted(out'[s])
      BY <3>1 DEF IsVacant, IsCompleted
    <3> QED BY <1>6, <2>2, <3>1, <3>2, <3>3 DEF CallOK, CallsOf, ReturnsTo, Leaving
  <2> QED BY <2>1, <2>2
<1>8. ReceiverOK'
  <2>1. CASE s = "Sender"
    BY <1>0, <1>6, <2>1 DEF ReceiverOK, Leaving, Sides
  <2>2. CASE s = "Receiver"
    BY <1>0, <1>6, <2>2 DEF ReceiverOK, Leaving, Sides, CallOK, ReturnsTo
  <2> QED BY <2>1, <2>2 DEF Sides
<1> QED BY <1>1, <1>4, <1>5, <1>7, <1>8 DEF CallsOK

LEMMA ResetKeeps ==
  ASSUME Control, HeldOK, NEW c \in Conns, Reset(c) PROVE Control' /\ HeldOK'
<1> USE DEF Control
<1>1. ends' \in [Conns -> SUBSET Sides] /\ silent' \in SUBSET Conns /\ faults' \in Nat
      /\ backlog' = backlog
  BY DEF TypeOK, Reset
<1>2. wire' \in [Conns -> [Sides -> Seq(Byte)]]
  <2>1. [t \in Sides |-> <<>>] \in [Sides -> Seq(Byte)]
    OBVIOUS
  <2> QED BY <2>1 DEF TypeOK, Reset
<1>3. TypeOK'
  BY <1>1, <1>2 DEF TypeOK, Reset, sideVars
<1>4. Bounded'
  <2> SUFFICES ASSUME NEW d \in Conns, NEW t \in Sides PROVE Len(wire'[d][t]) <= Capacity
    BY DEF Bounded
  <2>1. Len(wire[d][t]) <= Capacity /\ Len(<<>>) <= Capacity
    BY ConnectionAssumption DEF Bounded
  <2>2. wire'[d][t] = wire[d][t] \/ wire'[d][t] = <<>>
    BY DEF TypeOK, Reset
  <2> QED BY <2>1, <2>2
<1>5. SlotsOK' /\ CallsOK' /\ ReceiverOK'
  BY DEF Reset, sideVars, SlotsOK, CallsOK, CallOK, ReceiverOK, Leaving
<1>6. HeldOK'
  <2>1. ASSUME NEW d \in Conns PROVE Held(d)'
    <3>1. /\ ends'[d] = IF d = c THEN {} ELSE ends[d]
          /\ d \in silent' <=> d \in silent /\ d # c
          /\ sock' = sock /\ (Waits(d)' <=> Waits(d)) /\ Held(d)
      BY DEF Reset, TypeOK, sideVars, Waits, HeldOK
    <3> QED BY <3>1 DEF Held
  <2>2. Backlog'
    BY DEF HeldOK, Backlog, Reset, sideVars
  <2> QED BY <2>1, <2>2 DEF HeldOK
<1> QED BY <1>3, <1>4, <1>5, <1>6

(* A fresh RemoteEngineConnection.                                          *)
LEMMA FreshControl ==
  ASSUME Control, NEW s \in Sides, FreshSide(s), NetTyped', Bounded' PROVE Control'
<1> USE DEF Control
<1>1. /\ state' = [state EXCEPT ![s] = "Disconnected"] /\ pc' = [pc EXCEPT ![s] = "tick"]
      /\ back' = [back EXCEPT ![s] = "tick"] /\ sock' = [sock EXCEPT ![s] = "none"]
      /\ out' = [out EXCEPT ![s] = Empty] /\ in' = [in EXCEPT ![s] = Empty]
      /\ timer' = [timer EXCEPT ![s] = 0] /\ mutual' = [mutual EXCEPT ![s] = 0]
      /\ faults' = faults + 1
  BY DEF FreshSide, SetState
<1>2. /\ ticksUntil' \in Nat /\ sinceRequest' \in Nat /\ anyReceived' \in BOOLEAN
      /\ payload' \in {0, FieldsSize}
      /\ IF s = "Sender" THEN UNCHANGED <<anyReceived, payload>>
         ELSE anyReceived' = FALSE /\ payload' = 0
  <2>1. ticksUntil \in Nat /\ sinceRequest \in Nat /\ anyReceived \in BOOLEAN /\ payload \in {0, FieldsSize}
    BY DEF TypeOK
  <2>2. IF s = "Sender"
        THEN ticksUntil' = 1 /\ sinceRequest' = 0 /\ anyReceived' = anyReceived /\ payload' = payload
        ELSE /\ anyReceived' = FALSE /\ payload' = 0
             /\ ticksUntil' = ticksUntil /\ sinceRequest' = sinceRequest
    BY DEF FreshSide
  <2>3. CASE s = "Sender"
    <3>1. ticksUntil' = 1 /\ sinceRequest' = 0 /\ anyReceived' = anyReceived /\ payload' = payload
      BY <2>2, <2>3
    <3>2. anyReceived' \in BOOLEAN
      BY <2>1, <3>1
    <3> QED BY <2>1, <2>3, <3>1, <3>2
  <2>4. CASE s # "Sender"
    <3>1. /\ anyReceived' = FALSE /\ payload' = 0
          /\ ticksUntil' = ticksUntil /\ sinceRequest' = sinceRequest
      BY <2>2, <2>4
    <3> QED BY <2>1, <2>4, <3>1
  <2> QED BY <2>3, <2>4
<1>3. Empty \in SendSlot /\ Empty \in ReceiveSlot /\ Empty \in Message
      /\ IsVacant(Empty) /\ ~IsCompleted(Empty)
  BY SlotFacts
<1>4. TypeOK'
  <2>1. /\ state' \in [Sides -> States] /\ pc' \in [Sides -> Calls]
        /\ back' \in [Sides -> {"tick", "request", "flush"}]
        /\ sock' \in [Sides -> Conns \cup {"none", "listening"}]
    BY <1>1 DEF TypeOK, States, Calls
  <2>2. /\ out' \in [Sides -> Message] /\ in' \in [Sides -> Message]
        /\ timer' \in [Sides -> Nat] /\ mutual' \in [Sides -> Nat] /\ faults' \in Nat
    BY <1>1, <1>3 DEF TypeOK
  <2> QED BY <1>2, <2>1, <2>2 DEF TypeOK, NetTyped
<1>5. SlotsOK'
  BY <1>1, <1>3 DEF SlotsOK, TypeOK
<1>6. /\ state'[s] = "Disconnected" /\ pc'[s] = "tick" /\ back'[s] = "tick" /\ sock'[s] = "none"
      /\ out'[s] = Empty /\ in'[s] = Empty
      /\ \A t \in Sides : t # s => /\ state'[t] = state[t] /\ pc'[t] = pc[t] /\ back'[t] = back[t]
                                   /\ sock'[t] = sock[t] /\ out'[t] = out[t] /\ in'[t] = in[t]
  BY <1>1 DEF TypeOK
<1>7. ASSUME NEW t \in Sides PROVE CallOK(t)'
  <2>1. CASE t # s
    BY <1>6, <2>1, SameCall DEF CallsOK
  <2>2. CASE t = s
    BY <1>3, <1>6, <2>2, ConnectionAssumption DEF CallOK, CallsOf, ReturnsTo, Leaving
  <2> QED BY <2>1, <2>2
<1>8. ReceiverOK'
  BY <1>2, <1>6 DEF ReceiverOK, Leaving, Sides
<1> QED BY <1>4, <1>5, <1>7, <1>8 DEF CallsOK

LEMMA RestartKeeps ==
  ASSUME Control, HeldOK, NEW s \in Sides, Restart(s) PROVE Control' /\ HeldOK'
<1>1. FreshSide(s) /\ Close(s) /\ sock' = [sock EXCEPT ![s] = "none"]
  BY DEF Restart, FreshSide
<1>2. HeldOK' /\ NetTyped' /\ Bounded'
  BY <1>1, CloseHeld
<1> QED BY <1>1, <1>2, FreshControl

LEMMA PowerLossKeeps ==
  ASSUME Control, HeldOK, NEW s \in Sides, PowerLoss(s) PROVE Control' /\ HeldOK'
<1> USE DEF Control
<1> DEFINE c == sock[s]
<1>1. /\ FreshSide(s) /\ sock' = [sock EXCEPT ![s] = "none"] /\ c \in Conns /\ s \in ends[c]
      /\ Peer(s) \in ends[c] /\ c \notin silent
      /\ silent' = silent \cup {c} /\ UNCHANGED <<wire, ends, backlog>>
  BY DEF PowerLoss, FreshSide, Usable, PeerOpen
<1>2. NetTyped' /\ Bounded'
  BY <1>1 DEF NetTyped, Bounded, TypeOK
<1>3. HeldOK'
  <2>1. /\ sock'[s] = "none" /\ (\A t \in Sides : t # s => sock'[t] = sock[t])
        /\ ends[c] = Sides /\ Backlog /\ c # "listening"
    BY <1>1, ConnectionAssumption DEF TypeOK, Sides, Peer, HeldOK
  <2>2. Backlog'
    BY <1>1, <2>1 DEF Backlog, Sides
  <2>3. ASSUME NEW d \in Conns PROVE Held(d)'
    <3>1. Held(d) /\ (Waits(d)' <=> Waits(d)) /\ d # "none"
      BY <1>1, ConnectionAssumption DEF HeldOK, Waits
    <3>2. CASE d # c
      <4>1. sock[s] # d /\ sock'[s] # d /\ ends'[d] = ends[d] /\ (d \in silent' <=> d \in silent)
        BY <1>1, <2>1, <3>1, <3>2
      <4> QED BY <2>1, <3>1, <4>1 DEF Held, Sides
    <3>3. CASE d = c
      <4>1. s = "Receiver" => ~Waits(c)
        <5>1. Waits(c) => backlog # <<>>
          BY DEF Waits
        <5> QED BY <2>1, <5>1 DEF Backlog
      <4>2. d \in silent' /\ ends'[d] = Sides /\ ends[d] = Sides /\ d \notin silent
        BY <1>1, <2>1, <3>3
      <4> QED BY <2>1, <3>1, <3>3, <4>1, <4>2 DEF Held, Sides
    <3> QED BY <3>2, <3>3
  <2> QED BY <2>2, <2>3 DEF HeldOK
<1> QED BY <1>1, <1>2, <1>3, FreshControl

-----------------------------------------------------------------------------
(* The invariant of the slots, the calls and the connections, and what      *)
(* follows from it.                                                         *)

(* The actions of Next.                                                     *)
LEMMA NextCases ==
  ASSUME Next
  PROVE  \/ \E s \in Sides : WaitToReconnect(s) \/ DrainIn(s) \/ DrainOut(s) \/ CloseAndReset(s)
         \/ Connect \/ SendSubscribe \/ FirstFields \/ PacedFields
         \/ ReceiveRequest \/ ReplyFields \/ FlushFields
         \/ Listen \/ Accept \/ ReceiveSubscribe \/ FirstRequest \/ ReceiveFields \/ RequestMore
         \/ \E c \in Conns : Reset(c)
         \/ \E s \in Sides : Restart(s) \/ PowerLoss(s)
BY DEF Next, SenderStep, ReceiverStep, Fault, Disconnect, Sides

(* The inductive invariant of everything but framing and protocol.          *)
Grounded == Control /\ HeldOK

LEMMA InitGrounded == Init => Grounded
<1> SUFFICES ASSUME Init PROVE Grounded
  OBVIOUS
<1>1. TypeOK
  <2>1. Empty \in Message /\ <<>> \in Seq(Byte) /\ <<>> \in Seq(Conns)
    BY SlotFacts
  <2>2. out \in [Sides -> Message] /\ in \in [Sides -> Message] /\ wire \in [Conns -> [Sides -> Seq(Byte)]]
    BY <2>1 DEF Init
  <2>3. /\ state \in [Sides -> States] /\ pc \in [Sides -> Calls]
        /\ back \in [Sides -> {"tick", "request", "flush"}]
        /\ sock \in [Sides -> Conns \cup {"none", "listening"}]
        /\ timer \in [Sides -> Nat] /\ mutual \in [Sides -> Nat]
    BY DEF Init, States, Calls
  <2> QED BY <2>1, <2>2, <2>3 DEF Init, TypeOK
<1>2. SlotsOK
  BY SlotFacts DEF Init, SlotsOK
<1>3. Bounded
  <2>1. Len(<<>>) = 0 /\ 0 <= Capacity
    BY ConnectionAssumption
  <2> QED BY <2>1 DEF Init, Bounded
<1>4. CallsOK
  <2>1. IsVacant(Empty) /\ ~IsCompleted(Empty)
    BY SlotFacts
  <2> QED BY <2>1, ConnectionAssumption DEF Init, CallsOK, CallOK, CallsOf, ReturnsTo, Leaving
<1>5. ReceiverOK
  BY DEF Init, ReceiverOK, Leaving, Sides
<1>6. HeldOK
  BY DEF Init, HeldOK, Held, Backlog, Waits
<1> QED BY <1>1, <1>2, <1>3, <1>4, <1>5, <1>6 DEF Grounded, Control

(* Every step keeps it.                                                     *)
LEMMA StepGrounded == Grounded /\ [Next]_vars => Grounded'
<1> SUFFICES ASSUME Grounded, [Next]_vars PROVE Grounded'
  OBVIOUS
<1> USE DEF Grounded
<1>1. ASSUME NEW s \in Sides, WaitToReconnect(s) PROVE Grounded'
  BY <1>1, WaitControl, HeldSame DEF WaitToReconnect, netVars
<1>2. ASSUME NEW s \in Sides, DrainIn(s) PROVE Grounded'
  BY <1>2, DrainInControl, HeldSame DEF DrainIn, sideVars
<1>3. ASSUME NEW s \in Sides, DrainOut(s) PROVE Grounded'
  BY <1>3, DrainOutControl, HeldSame DEF DrainOut, sideVars
<1>4. ASSUME NEW s \in Sides, CloseAndReset(s) PROVE Grounded'
  BY <1>4, CloseKeeps
<1>5. CASE Connect
  BY <1>5, ConnectKeeps
<1>6. CASE SendSubscribe
  BY <1>6, SendSubscribeControl, HeldSame DEF SendSubscribe
<1>7. CASE FirstFields \/ PacedFields \/ ReplyFields \/ FlushFields
  <2>1. UNCHANGED <<sock, ends, silent, backlog>>
    BY <1>7 DEF FirstFields, PacedFields, ReplyFields, FlushFields, SendFieldsFrame
  <2> QED BY <1>7, <2>1, SendFieldsControl, HeldSame
<1>8. CASE ReceiveRequest
  BY <1>8, ReceiveRequestControl, HeldSame DEF ReceiveRequest
<1>9. CASE Listen
  <2>1. HeldOK'
    <3>1. /\ backlog = <<>> /\ sock'["Receiver"] = "listening" /\ sock'["Sender"] = sock["Sender"]
          /\ UNCHANGED <<ends, silent, backlog>> /\ sock["Receiver"] = "none"
      BY <1>9 DEF Listen, HeldOK, Backlog, Control, TypeOK, Sides, netVars
    <3>2. ASSUME NEW c \in Conns PROVE Held(c)'
      <4>1. c # "none" /\ c # "listening" /\ Held(c)
        BY ConnectionAssumption DEF HeldOK
      <4> QED BY <3>1, <4>1 DEF Held, Waits
    <3> QED BY <3>1, <3>2 DEF HeldOK, Backlog
  <2> QED BY <1>9, <2>1, ListenControl
<1>10. CASE Accept
  BY <1>10, AcceptKeeps
<1>11. CASE ReceiveSubscribe
  BY <1>11, ReceiveSubscribeControl, HeldSame DEF ReceiveSubscribe
<1>12. CASE FirstRequest \/ RequestMore
  <2>1. UNCHANGED <<sock, ends, silent, backlog>>
    BY <1>12 DEF FirstRequest, RequestMore, SendRequestFrame
  <2> QED BY <1>12, <2>1, RequestsControl, HeldSame
<1>13. CASE ReceiveFields
  BY <1>13, ReceiveFieldsControl, HeldSame DEF ReceiveFields
<1>14. ASSUME NEW c \in Conns, Reset(c) PROVE Grounded'
  BY <1>14, ResetKeeps
<1>15. ASSUME NEW s \in Sides, Restart(s) PROVE Grounded'
  BY <1>15, RestartKeeps
<1>16. ASSUME NEW s \in Sides, PowerLoss(s) PROVE Grounded'
  BY <1>16, PowerLossKeeps
<1>17. CASE UNCHANGED vars
  <2> USE <1>17 DEF vars
  <2>1. TypeOK'
    BY DEF Control, TypeOK
  <2>2. SlotsOK' /\ Bounded' /\ CallsOK' /\ ReceiverOK'
    BY DEF Control, SlotsOK, Bounded, CallsOK, CallOK, ReceiverOK, Leaving
  <2> QED BY <2>1, <2>2, HeldSame DEF Control
<1>18. ASSUME Next PROVE Grounded'
  BY <1>1, <1>2, <1>3, <1>4, <1>5, <1>6, <1>7, <1>8, <1>9, <1>10, <1>11, <1>12, <1>13,
     <1>14, <1>15, <1>16, <1>18, NextCases
<1> QED BY <1>17, <1>18

(* Slots, calls and connections stay as described above.                    *)
THEOREM AlwaysGrounded == Spec => []Grounded
BY InitGrounded, StepGrounded, PTL DEF Spec

(* The variables keep their types (TypeOK): in particular no countdown      *)
(* runs below zero and no slot holds more than its message.                 *)
THEOREM TypesHold == Spec => []TypeOK
BY AlwaysGrounded, PTL DEF Grounded, Control

(* A side that is back at the head of tick() and disconnected holds no      *)
(* connection, no message under way and no bound field (disconnect(),       *)
(* RemoteEngineConnection.cpp:178).                                         *)
THEOREM NothingIsLeft == Spec => []DisconnectLeavesNothing
<1>1. Grounded => DisconnectLeavesNothing
  <2> SUFFICES ASSUME Grounded, NEW s \in Sides, pc[s] = "tick", state[s] = "Disconnected"
               PROVE  /\ sock[s] \notin Conns
                      /\ IsVacant(in[s]) /\ IsVacant(out[s])
                      /\ s = "Receiver" => payload = 0 /\ ~anyReceived
    BY DEF DisconnectLeavesNothing
  <2>1. CallOK(s) /\ ReceiverOK
    BY DEF Grounded, Control, CallsOK
  <2> QED BY <2>1 DEF CallOK, ReceiverOK, Leaving
<1> QED BY <1>1, AlwaysGrounded, PTL

(* How many Fields messages the Sender has begun since the last request:    *)
(* none when it is about to answer one, one at most while its countdown     *)
(* still runs, two at most in all.                                          *)
Budget ==
  sinceRequest + (IF ticksUntil > 0 THEN 1 ELSE 0)
    + (IF pc["Sender"] \in {"first", "reply"} THEN 1 ELSE 0) <= 2

(* Every step keeps within the budget: only a request, or a new handshake,  *)
(* re-arms the countdown.                                                   *)
LEMMA BudgetKept == Grounded /\ Budget /\ [Next]_vars => Budget'
<1> SUFFICES ASSUME Grounded, Budget, [Next]_vars PROVE Budget'
  OBVIOUS
<1>0. /\ sinceRequest \in Nat /\ ticksUntil \in Nat /\ pc \in [Sides -> Calls]
      /\ "Sender" \in Sides /\ "Receiver" \in Sides /\ back["Sender"] \in {"tick", "request", "flush"}
  BY DEF Grounded, Control, TypeOK, Sides
<1>1. ASSUME UNCHANGED <<sinceRequest, ticksUntil>>,
             pc'["Sender"] = pc["Sender"] \/ pc'["Sender"] \notin {"first", "reply"}
      PROVE  Budget'
  <2>1. CASE pc'["Sender"] = pc["Sender"]
    BY <1>1, <2>1 DEF Budget
  <2>2. CASE pc'["Sender"] \notin {"first", "reply"}
    BY <1>0, <1>1, <2>2 DEF Budget
  <2> QED BY <1>1, <2>1, <2>2
<1>2. ASSUME NEW l, SendFields(TRUE, l), ticksUntil' = ticksUntil, l \notin {"first", "reply"},
             pc["Sender"] \in {"first", "reply"}
      PROVE  Budget'
  <2>1. sinceRequest' \in {sinceRequest, sinceRequest + 1} /\ pc'["Sender"] \notin {"first", "reply"}
    BY <1>0, <1>2 DEF SendFields, Disconnecting, Goto
  <2> DEFINE n == IF ticksUntil > 0 THEN 1 ELSE 0
  <2>2. n \in Nat /\ sinceRequest + n + 1 <= 2
    BY <1>0, <1>2 DEF Budget
  <2>3. Budget' <=> sinceRequest' + n + 0 <= 2
    BY <1>2, <2>1 DEF Budget
  <2> HIDE DEF n
  <2>4. sinceRequest' \in Nat /\ sinceRequest' <= sinceRequest + 1
    BY <1>0, <2>1
  <2>5. sinceRequest' + n + 0 <= 2
    <3> DEFINE x == sinceRequest'
    <3>1. x \in Nat /\ sinceRequest \in Nat /\ x <= sinceRequest + 1
      BY <1>0, <2>4
    <3> HIDE DEF x
    <3>2. x + n + 0 <= 2
      BY <2>2, <3>1
    <3> QED BY <3>2 DEF x
  <2> QED BY <2>3, <2>5
<1>3. CASE FirstFields
  BY <1>2, <1>3 DEF FirstFields
<1>4. CASE ReplyFields
  BY <1>2, <1>4 DEF ReplyFields
<1>5. CASE FlushFields
  <2>1. sinceRequest' = sinceRequest /\ pc'["Sender"] \notin {"first", "reply"} /\ ticksUntil' = ticksUntil
    BY <1>0, <1>5 DEF FlushFields, SendFields, Disconnecting, Goto
  <2> QED BY <1>1, <2>1
<1>6. CASE PacedFields
  <2>1. CASE ticksUntil = 1
    <3>1. sinceRequest' \in {sinceRequest, sinceRequest + 1} /\ pc'["Sender"] \notin {"first", "reply"}
          /\ ticksUntil' = 0
      BY <1>0, <1>6, <2>1 DEF PacedFields, SendFields, Disconnecting, Goto
    <3>2. pc["Sender"] = "tick"
      BY <1>6 DEF PacedFields
    <3>3. sinceRequest + 1 <= 2
      BY <1>0, <2>1, <3>2 DEF Budget
    <3>4. Budget' <=> sinceRequest' + 0 + 0 <= 2
      BY <3>1 DEF Budget
    <3>5. sinceRequest' \in Nat /\ sinceRequest' <= sinceRequest + 1
      BY <1>0, <3>1
    <3>6. sinceRequest' + 0 + 0 <= 2
      <4> DEFINE x == sinceRequest'
      <4>1. x \in Nat /\ sinceRequest \in Nat /\ x <= sinceRequest + 1
        BY <1>0, <3>5
      <4> HIDE DEF x
      <4>2. x + 0 + 0 <= 2
        BY <3>3, <4>1
      <4> QED BY <4>2 DEF x
    <3> QED BY <3>4, <3>6
  <2>2. CASE ticksUntil # 1
    <3>1. sinceRequest' = sinceRequest /\ pc'["Sender"] = "request"
          /\ ticksUntil' = IF ticksUntil > 0 THEN ticksUntil - 1 ELSE 0
      BY <1>0, <1>6, <2>2 DEF PacedFields, Goto
    <3> QED BY <1>0, <2>2, <3>1 DEF Budget
  <2> QED BY <2>1, <2>2
<1>7. CASE SendSubscribe
  <2>1. /\ ticksUntil' = ticksUntil
        /\ \/ sinceRequest' = sinceRequest /\ pc'["Sender"] \in {"tick", "drainIn"}
           \/ sinceRequest' = 0
    BY <1>0, <1>7 DEF SendSubscribe, Disconnecting, Goto
  <2> QED BY <1>0, <1>1, <2>1 DEF Budget
<1>8. CASE ReceiveRequest
  <2>1. \/ /\ UNCHANGED <<sinceRequest, ticksUntil>>
           /\ pc'["Sender"] \in {"flush", "drainIn"}
        \/ sinceRequest' = 0
    BY <1>0, <1>8 DEF ReceiveRequest, Disconnecting, Goto
  <2> QED BY <1>1, <2>1 DEF Budget
<1>9. CASE Listen \/ Accept \/ ReceiveSubscribe \/ FirstRequest \/ ReceiveFields \/ RequestMore
  <2>1. UNCHANGED <<sinceRequest, ticksUntil>> /\ pc'["Sender"] = pc["Sender"]
    BY <1>0, <1>9 DEF Listen, Accept, ReceiveSubscribe, FirstRequest, ReceiveFields,
       RequestMore,
       SendRequest, SendRequestFrame, Disconnecting, Goto
  <2> QED BY <1>1, <2>1
<1>10. ASSUME NEW s \in Sides, WaitToReconnect(s) \/ DrainIn(s) \/ DrainOut(s) \/ CloseAndReset(s)
       PROVE  Budget'
  <2>1. UNCHANGED <<sinceRequest, ticksUntil>>
        /\ (pc'["Sender"] = pc["Sender"] \/ pc'["Sender"] \notin {"first", "reply"})
    BY <1>0, <1>10 DEF WaitToReconnect, DrainIn, DrainOut, CloseAndReset, sideVars, Sides
  <2> QED BY <1>1, <2>1
<1>11. CASE Connect
  BY <1>1, <1>11 DEF Connect
<1>12. ASSUME NEW c \in Conns, Reset(c) PROVE Budget'
  BY <1>1, <1>12 DEF Reset, sideVars
<1>13. ASSUME NEW s \in Sides, Restart(s) \/ PowerLoss(s) PROVE Budget'
  <2>1. FreshSide(s)
    BY <1>13 DEF Restart, PowerLoss
  <2>2. CASE s = "Sender"
    <3>1. ticksUntil' = 1 /\ sinceRequest' = 0
      BY <2>1, <2>2 DEF FreshSide
    <3> QED BY <3>1 DEF Budget
  <2>3. CASE s = "Receiver"
    BY <1>0, <1>1, <2>1, <2>3 DEF FreshSide
  <2> QED BY <2>2, <2>3 DEF Sides
<1>14. CASE UNCHANGED vars
  BY <1>14 DEF vars, Budget
<1>15. ASSUME Next PROVE Budget'
  BY <1>3, <1>4, <1>5, <1>6, <1>7, <1>8, <1>9, <1>10, <1>11, <1>12, <1>13, <1>15, NextCases
<1> QED BY <1>14, <1>15

(* The Sender begins at most two Fields messages for each request: its      *)
(* reply and one scheduled message.                                         *)
THEOREM NeverMoreThanTwo == Spec => []AtMostTwoFieldsPerRequest
<1>1. Init => Budget
  BY DEF Init, Budget, Sides
<1>2. Grounded /\ Budget => AtMostTwoFieldsPerRequest
  BY DEF Grounded, Control, TypeOK, Budget, AtMostTwoFieldsPerRequest
<1> QED BY <1>1, <1>2, BudgetKept, AlwaysGrounded, PTL DEF Spec

-----------------------------------------------------------------------------
(* Framing and protocol: what is on the wire of a connection is what its    *)
(* reader waits for and what its writer has begun.                          *)

(* Both ends of c are usable and known to each other.                       *)
Live(c) == ends[c] = Sides /\ c \notin silent

(* Nobody leaves a live connection: disconnect() is called for a lost one.  *)
LeavingOK == \A s \in Sides : Leaving(s) /\ sock[s] \in Conns => ~Live(sock[s])

(* Side s reads from c, or will: it accepts c and then reads.               *)
Reading(c, s) == (sock[s] = c /\ ~Abandoned(s)) \/ (s = "Receiver" /\ Waits(c))

(* The part of the message side s has read from c, and the part of the      *)
(* message it has written to c.                                             *)
Heard(c, s) == IF sock[s] = c THEN in[s] ELSE Empty
Said(c, s)  == IF sock[s] = c THEN out[s] ELSE Empty

(* What slot o sends next goes on where the stream, or the reader's slot,   *)
(* ends.                                                                    *)
Joins(q, m, o) == IF q = <<>> THEN Meet(m, o) ELSE LeftBy(q[Len(q)], o)

(* The stream of a connection is framed: it is a run of messages, the       *)
(* reader m expects its first byte, and as long as the connection is live   *)
(* the writer o carries it on.                                              *)
Stream(q, live, m, o) == Run(q) /\ Expects(m, q) /\ (live => Joins(q, m, o))
StreamOK(c, s) ==
  /\ s \notin ends[c] => wire[c][s] = <<>>
  /\ Reading(c, s) => Stream(wire[c][s], Live(c), Heard(c, s), Said(c, Peer(s)))

(* The inductive invariant of framing.                                      *)
Framed == LeavingOK /\ \A c \in Conns, s \in Sides : StreamOK(c, s)

(* What the three kinds of messages look like, in a slot or in flight.      *)
Request(x)   == x.tag.type = "FieldsRequest" /\ x.size = FieldsRequestSize
Subscribe(x) == x.tag.type = "Subscribe" /\ x.size = SubscribeSize
Fields(x)    == x.tag.type = "Fields" /\ x.size = FieldsSize

(* The kind of message that side s sends in its state.                      *)
KindOf(s, x) == IF s = "Receiver" THEN Request(x)
                ELSE IF state["Sender"] = "ReadyForHandshake" THEN Subscribe(x) ELSE Fields(x)
OutKindOK == \A s \in Sides :
  ~IsVacant(out[s]) /\ sock[s] \in Conns => KindOf(s, out[s])

(* All that a Sender reads from c are requests.                             *)
RequestsOK(c) ==
  Reading(c, "Sender") =>
    /\ \A i \in 1 .. Len(wire[c]["Sender"]) : Request(wire[c]["Sender"][i])
    /\ Heard(c, "Sender").hdr = HeaderSize => Request(Heard(c, "Sender"))

(* The Receiver has finished the handshake on c.                            *)
Subscribed(c) == sock["Receiver"] = c /\ state["Receiver"] = "ReadyForFields"

(* The first `left' bytes of q are of a Subscribe message and the rest of   *)
(* Fields.                                                                  *)
Answers(q, left) == \A i \in 1 .. Len(q) : IF i <= left THEN Subscribe(q[i]) ELSE Fields(q[i])
Left(m) == (HeaderSize + SubscribeSize) - Position(m)

(* What a Receiver reads from c: Fields once it has finished the            *)
(* handshake, and before that what is left of one Subscribe message,        *)
(* followed by Fields.  A Sender still in the handshake has not sent more   *)
(* of it than is on the wire or read; one that exchanges fields has sent    *)
(* it all.                                                                  *)
AnswersOK(c) ==
  Reading(c, "Receiver") =>
    LET q == wire[c]["Receiver"]
        m == Heard(c, "Receiver")
    IN
    IF Subscribed(c)
    THEN /\ Answers(q, 0)
         /\ m.hdr = HeaderSize => Fields(m)
         /\ Live(c) => state["Sender"] = "ReadyForFields"
    ELSE /\ Answers(q, Left(m))
         /\ m.hdr = HeaderSize => Subscribe(m)
         /\ Left(m) > 0
         /\ Live(c) => IF state["Sender"] = "ReadyForFields" THEN Len(q) >= Left(m)
                       ELSE Len(q) + Position(m) = Position(out["Sender"])

(* The inductive invariant of the protocol.                                 *)
Spoken == OutKindOK /\ \A c \in Conns : RequestsOK(c) /\ AnswersOK(c)

-----------------------------------------------------------------------------
(* The steps that framing and protocol tell apart, and every action as one  *)
(* of them.                                                                 *)

(* Side s has finished with its incoming message.                           *)
Beyond(s) == pc[s] \in {"drainOut", "close"}
OthersSame(s) ==
  \A t \in Sides : t # s => /\ out'[t] = out[t] /\ in'[t] = in[t]
                            /\ pc'[t] = pc[t] /\ state'[t] = state[t]

(* A step that reads and writes nothing.                                    *)
NoCall ==
  /\ UNCHANGED <<wire, in, out, ends, silent, backlog, state>>
  /\ \A t \in Sides : /\ \A c \in Conns : sock'[t] = c <=> sock[t] = c
                      /\ Leaving(t)' <=> Leaving(t)
                      /\ Beyond(t)' <=> Beyond(t)

(* A call that sends, or finds the connection lost: side s begins or        *)
(* carries on a message of the kind its state calls for.                    *)
SendCall(s) ==
  /\ UNCHANGED <<in, sock, ends, silent, backlog>> /\ OthersSame(s)
  /\ Beyond(s)' <=> Beyond(s)
  /\ Leaving(s)' => Leaving(s) \/ MayFail(s)
  /\ \E m \in SendSlot, o \in SendSlot :
       /\ m = out[s] \/ (IsVacant(out[s]) /\ Position(m) = 0)
       /\ m.stage = "Sending"
       /\ sock[s] \in Conns => KindOf(s, m)
       /\ (wire' = wire /\ o = m) \/ \E n : Sends(s, m, n, o)
       /\ out'[s] = Kept(o) \/ (out'[s] = o /\ Leaving(s))
       /\ state'[s] = IF /\ s = "Sender" /\ state[s] = "ReadyForHandshake"
                         /\ IsCompleted(o) /\ ~Leaving(s)
                      THEN "ReadyForFields" ELSE state[s]

(* A call that receives, or finds the connection lost.                      *)
ReceiveCall(s) ==
  /\ UNCHANGED <<out, sock, ends, silent, backlog>> /\ OthersSame(s)
  /\ ~Beyond(s) /\ ~Beyond(s)'
  /\ Leaving(s)' => Leaving(s) \/ MayFail(s)
  /\ \E m \in ReceiveSlot, o \in ReceiveSlot :
       /\ m = in[s] \/ (IsVacant(in[s]) /\ m = BeginReceive(NoTag))
       /\ m.stage = "Receiving"
       /\ (wire' = wire /\ o = m) \/ \E k : Receives(s, m, k, o)
       /\ in'[s] = IF Leaving(s) THEN o ELSE Kept(o)
       /\ state'[s] = IF /\ s = "Receiver" /\ state[s] = "ReadyForHandshake"
                         /\ IsCompleted(o) /\ ~Leaving(s)
                      THEN "ReadyForFields" ELSE state[s]

(* disconnect() gives up the incoming, and the outgoing, message.           *)
DropIn(s) ==
  /\ pc[s] = "drainIn" /\ pc' = [pc EXCEPT ![s] = "drainOut"] /\ in' = [in EXCEPT ![s] = Empty]
  /\ UNCHANGED <<wire, out, sock, ends, silent, backlog, state>>
DropOut(s) ==
  /\ pc[s] = "drainOut" /\ pc' = [pc EXCEPT ![s] = "close"] /\ out' = [out EXCEPT ![s] = Empty]
  /\ UNCHANGED <<wire, in, sock, ends, silent, backlog, state>>

(* A connection is found lost only where the kernel may report it.          *)
LEMMA LostMeans ==
  ASSUME NEW s, NEW m
  PROVE  /\ \A r \in SendResults(s, m) : r.lost => MayFail(s)
         /\ \A r \in ReceiveResults(s, m) : r.lost => MayFail(s)
BY DEF SendResults, ReceiveResults

(* Every call that uses the outgoing slot is a SendCall, or does nothing.   *)
LEMMA SendSubscribeCall == Grounded /\ OutKindOK /\ SendSubscribe => SendCall("Sender")
<1> SUFFICES ASSUME Grounded, OutKindOK, SendSubscribe PROVE SendCall("Sender")
  OBVIOUS
<1> USE DEF Grounded, Control
<1> DEFINE m == IF IsVacant(out["Sender"])
                THEN BeginSend([type |-> "Subscribe", rate |-> SenderRate], SubscribeSize)
                ELSE out["Sender"]
<1>0. /\ pc["Sender"] = "tick" /\ state["Sender"] = "ReadyForHandshake" /\ CallOK("Sender")
      /\ UNCHANGED <<in, sock, ends, silent, backlog>> /\ "Sender" \in Sides /\ "Receiver" \in Sides
      /\ pc \in [Sides -> Calls] /\ out \in [Sides -> Message] /\ state \in [Sides -> States]
      /\ sock["Sender"] \in Conns
  BY DEF SendSubscribe, CallsOK, CallOK, TypeOK, Sides
<1>1. m \in SendSlot /\ m.stage = "Sending" /\ KindOf("Sender", m)
      /\ (m = out["Sender"] \/ (IsVacant(out["Sender"]) /\ Position(m) = 0))
  <2>1. CASE IsVacant(out["Sender"])
    <3>1. [type |-> "Subscribe", rate |-> SenderRate] \in Tags /\ SubscribeSize \in Nat
      BY ConnectionAssumption DEF Tags
    <3> QED BY <1>0, <2>1, <3>1, SlotFacts DEF KindOf, Subscribe, BeginSend, Position
  <2>2. CASE ~IsVacant(out["Sender"])
    <3>1. out["Sender"] \in SendSlot /\ ~IsCompleted(out["Sender"])
      BY <1>0 DEF SlotsOK, CallOK, Leaving
    <3> QED BY <1>0, <2>2, <3>1, SlotFacts DEF OutKindOK
  <2> QED BY <2>1, <2>2
<1> HIDE DEF m
<1>2. PICK r \in SendResults("Sender", m) :
          /\ Transmit("Sender", r)
          /\ out' = [out EXCEPT !["Sender"] = Kept(r.msg)]
          /\ \/ r.lost /\ Disconnecting("Sender", "tick") /\ state' = state
             \/ /\ ~r.lost /\ IsCompleted(r.msg)
                /\ SetState("Sender", "ReadyForFields")
                /\ Goto("Sender", "first")
             \/ ~r.lost /\ ~IsCompleted(r.msg) /\ UNCHANGED <<pc, back, state>>
  BY DEF SendSubscribe, m
<1>3. /\ r.msg \in SendSlot
      /\ \/ wire' = wire /\ r.msg = m
         \/ \E n : Sends("Sender", m, n, r.msg)
      /\ r.lost => r.msg = m
  BY <1>0, <1>1, <1>2, SendStep DEF Sends
<1>4. /\ out'["Sender"] = Kept(r.msg) /\ out'["Receiver"] = out["Receiver"]
      /\ pc'["Receiver"] = pc["Receiver"] /\ state'["Receiver"] = state["Receiver"]
      /\ pc'["Sender"] \in {"tick", "first", "drainIn"} /\ (pc'["Sender"] = "drainIn" => r.lost)
      /\ state'["Sender"] = IF IsCompleted(r.msg) /\ ~r.lost THEN "ReadyForFields" ELSE "ReadyForHandshake"
  BY <1>0, <1>2 DEF Disconnecting, Goto, SetState
<1>5. r.lost => MayFail("Sender") /\ ~IsCompleted(r.msg)
  BY <1>1, <1>2, <1>3, LostMeans DEF IsCompleted
<1>6. ~Leaving("Sender") /\ ~Beyond("Sender") /\ ~Beyond("Sender")' /\ (Leaving("Sender")' => MayFail("Sender"))
  BY <1>0, <1>4, <1>5 DEF Leaving, Beyond
<1>7. OthersSame("Sender")
  BY <1>0, <1>4 DEF OthersSame, Sides
<1> QED BY <1>0, <1>1, <1>3, <1>4, <1>5, <1>6, <1>7 DEF SendCall

LEMMA SendFieldsCall ==
  ASSUME Grounded, OutKindOK, NEW allow \in BOOLEAN, NEW l \in {"tick", "request", "flush"},
         SendFields(allow, l), ~Leaving("Sender"), state["Sender"] # "ReadyForHandshake",
         UNCHANGED SendFieldsFrame
  PROVE  SendCall("Sender") \/ NoCall
<1> USE DEF Grounded, Control
<1> DEFINE begins == allow /\ IsVacant(out["Sender"])
<1> DEFINE m == IF begins THEN BeginSend([type |-> "Fields", rate |-> 0], FieldsSize)
                ELSE out["Sender"]
<1> DEFINE nothing == [lost |-> FALSE, msg |-> m, bytes |-> <<>>]
<1>0. /\ CallOK("Sender") /\ "Sender" \in Sides /\ "Receiver" \in Sides
      /\ UNCHANGED <<in, sock, ends, silent, backlog, state>>
      /\ pc \in [Sides -> Calls] /\ out \in [Sides -> Message] /\ state \in [Sides -> States]
      /\ pc["Sender"] \notin {"drainIn", "drainOut", "close"}
  BY DEF SendFieldsFrame, CallsOK, TypeOK, Sides, Leaving
<1>1. /\ m \in SendSlot /\ (~IsVacant(m) => m.stage = "Sending")
      /\ ~IsVacant(m) => /\ sock["Sender"] \in Conns => KindOf("Sender", m)
                         /\ (m = out["Sender"] \/ (IsVacant(out["Sender"]) /\ Position(m) = 0))
      /\ IsVacant(m) => m = out["Sender"]
  <2>1. CASE begins
    <3>1. [type |-> "Fields", rate |-> 0] \in Tags /\ FieldsSize \in Nat
      BY ConnectionAssumption DEF Tags
    <3>2. BeginSend([type |-> "Fields", rate |-> 0], FieldsSize).tag.type = "Fields"
          /\ BeginSend([type |-> "Fields", rate |-> 0], FieldsSize).size = FieldsSize
          /\ Position(BeginSend([type |-> "Fields", rate |-> 0], FieldsSize)) = 0
      BY DEF BeginSend, Position
    <3> QED BY <1>0, <2>1, <3>1, <3>2, SlotFacts DEF KindOf, Fields, IsVacant
  <2>2. CASE ~begins
    <3>1. out["Sender"] \in SendSlot /\ ~IsCompleted(out["Sender"])
      BY <1>0 DEF SlotsOK, CallOK
    <3> QED BY <1>0, <2>2, <3>1, SlotFacts DEF OutKindOK
  <2> QED BY <2>1, <2>2
<1>2. PICK r \in IF IsVacant(m) THEN {nothing} ELSE SendResults("Sender", m) :
        /\ Transmit("Sender", r)
        /\ out' = [out EXCEPT !["Sender"] = Kept(r.msg)]
        /\ IF r.lost THEN Disconnecting("Sender", l) ELSE Goto("Sender", l)
  BY DEF SendFields
<1>3. /\ out'["Sender"] = Kept(r.msg) /\ out'["Receiver"] = out["Receiver"]
      /\ pc'["Receiver"] = pc["Receiver"]
      /\ pc'["Sender"] = IF r.lost THEN "drainIn" ELSE l
  BY <1>0, <1>2 DEF Disconnecting, Goto
<1>4. CASE IsVacant(m)
  <2>1. r = nothing
    BY <1>2, <1>4
  <2>2. wire' = wire /\ r.msg = m /\ ~r.lost
    BY <1>2, <2>1 DEF Transmit
  <2>3. m = out["Sender"] /\ ~IsCompleted(m)
    BY <1>1, <1>4 DEF IsVacant, IsCompleted
  <2> HIDE DEF m
  <2>4. out' = out
    BY <1>0, <1>2, <2>2, <2>3 DEF Kept
  <2>5. \A t \in Sides : (Leaving(t)' <=> Leaving(t)) /\ (Beyond(t)' <=> Beyond(t))
    BY <1>0, <1>3, <2>2 DEF Leaving, Beyond, Sides
  <2> QED BY <1>0, <2>2, <2>4, <2>5 DEF NoCall
<1>5. CASE ~IsVacant(m)
  <2>1. r \in SendResults("Sender", m) /\ m.stage = "Sending"
    BY <1>1, <1>2, <1>5
  <2> HIDE DEF m
  <2>2. /\ r.msg \in SendSlot
        /\ \/ wire' = wire /\ r.msg = m
           \/ \E n : Sends("Sender", m, n, r.msg)
    BY <1>0, <1>1, <1>2, <2>1, SendStep DEF Sends
  <2>3. r.lost => MayFail("Sender")
    BY <2>1, LostMeans
  <2>4. ~Beyond("Sender") /\ ~Beyond("Sender")' /\ (Leaving("Sender")' => MayFail("Sender"))
    BY <1>0, <1>3, <2>3 DEF Leaving, Beyond
  <2>5. OthersSame("Sender")
    BY <1>0, <1>3 DEF OthersSame, Sides
  <2> QED BY <1>0, <1>1, <1>3, <1>5, <2>1, <2>2, <2>4, <2>5 DEF SendCall
<1> QED BY <1>4, <1>5

LEMMA FieldsCalls ==
  Grounded /\ OutKindOK /\ (FirstFields \/ PacedFields \/ ReplyFields \/ FlushFields)
    => SendCall("Sender") \/ NoCall
<1> SUFFICES ASSUME Grounded, OutKindOK, FirstFields \/ PacedFields \/ ReplyFields \/ FlushFields
             PROVE  SendCall("Sender") \/ NoCall
  OBVIOUS
<1>0. CallOK("Sender")
  BY DEF Grounded, Control, CallsOK, Sides
<1>1. CASE FirstFields
  BY <1>0, <1>1, SendFieldsCall DEF FirstFields, CallOK, Leaving
<1>2. CASE ReplyFields
  BY <1>0, <1>2, SendFieldsCall DEF ReplyFields, CallOK, Leaving
<1>3. CASE FlushFields
  BY <1>0, <1>3, SendFieldsCall DEF FlushFields, CallOK, Leaving
<1>4. CASE PacedFields
  <2>1. CASE ticksUntil = 1
    BY <1>0, <1>4, <2>1, SendFieldsCall DEF PacedFields, CallOK, Leaving
  <2>2. CASE ticksUntil # 1
    <3>1. /\ pc["Sender"] = "tick" /\ pc' = [pc EXCEPT !["Sender"] = "request"]
          /\ UNCHANGED <<wire, in, out, ends, silent, backlog, state, sock>>
          /\ pc \in [Sides -> Calls]
      BY <1>4, <2>2 DEF PacedFields, Goto, SendFieldsFrame, Grounded, Control, TypeOK
    <3> QED BY <3>1 DEF NoCall, Leaving, Beyond, Sides
  <2> QED BY <2>1, <2>2
<1> QED BY <1>1, <1>2, <1>3, <1>4

LEMMA SendRequestCall ==
  ASSUME Grounded, OutKindOK, NEW allow \in BOOLEAN, SendRequest(allow, "tick"),
         pc["Receiver"] \in {"first", "request"}, UNCHANGED SendRequestFrame
  PROVE  SendCall("Receiver") \/ NoCall
<1> USE DEF Grounded, Control
<1> DEFINE m == IF allow /\ IsVacant(out["Receiver"])
                THEN BeginSend([type |-> "FieldsRequest", rate |-> mutual["Receiver"]],
                               FieldsRequestSize)
                ELSE out["Receiver"]
<1> DEFINE nothing == [lost |-> FALSE, msg |-> m, bytes |-> <<>>]
<1>0. /\ CallOK("Receiver") /\ ~Leaving("Receiver") /\ "Sender" \in Sides /\ "Receiver" \in Sides
      /\ UNCHANGED <<in, sock, ends, silent, backlog>>
      /\ pc \in [Sides -> Calls] /\ out \in [Sides -> Message] /\ state \in [Sides -> States]
      /\ pc["Receiver"] \notin {"drainIn", "drainOut", "close"} /\ mutual["Receiver"] \in Nat
  BY DEF SendRequestFrame, CallsOK, TypeOK, Sides, Leaving
<1>1. /\ m \in SendSlot /\ (~IsVacant(m) => m.stage = "Sending") /\ ~IsCompleted(m)
      /\ ~IsVacant(m) => /\ sock["Receiver"] \in Conns => KindOf("Receiver", m)
                         /\ (m = out["Receiver"] \/ (IsVacant(out["Receiver"]) /\ Position(m) = 0))
      /\ IsVacant(m) => m = out["Receiver"]
  <2> DEFINE tag == [type |-> "FieldsRequest", rate |-> mutual["Receiver"]]
  <2>1. CASE allow /\ IsVacant(out["Receiver"])
    <3>1. tag \in Tags /\ FieldsRequestSize \in Nat
      BY <1>0 DEF Tags, FieldsRequestSize
    <3>2. BeginSend(tag, FieldsRequestSize).tag.type = "FieldsRequest"
          /\ BeginSend(tag, FieldsRequestSize).size = FieldsRequestSize
          /\ Position(BeginSend(tag, FieldsRequestSize)) = 0
          /\ BeginSend(tag, FieldsRequestSize).stage = "Sending"
      BY DEF BeginSend, Position
    <3>3. BeginSend(tag, FieldsRequestSize) \in SendSlot
      BY <3>1, SlotFacts
    <3> QED BY <1>0, <2>1, <3>2, <3>3 DEF KindOf, Request, IsVacant, IsCompleted
  <2>2. CASE ~(allow /\ IsVacant(out["Receiver"]))
    <3>1. out["Receiver"] \in SendSlot /\ ~IsCompleted(out["Receiver"])
      BY <1>0 DEF SlotsOK, CallOK
    <3> QED BY <1>0, <2>2, <3>1, SlotFacts DEF OutKindOK
  <2> QED BY <2>1, <2>2
<1>2. PICK r \in IF IsVacant(m) THEN {nothing} ELSE SendResults("Receiver", m) :
        /\ Transmit("Receiver", r)
        /\ out' = [out EXCEPT !["Receiver"] = Kept(r.msg)]
        /\ IF r.lost THEN Disconnecting("Receiver", "tick") ELSE Goto("Receiver", "tick")
        /\ IF IsCompleted(r.msg) THEN SetState("Receiver", "ReadyForFields")
           ELSE UNCHANGED state
  BY DEF SendRequest
<1>3. /\ out'["Receiver"] = Kept(r.msg) /\ out'["Sender"] = out["Sender"]
      /\ pc'["Sender"] = pc["Sender"]
      /\ pc'["Receiver"] = IF r.lost THEN "drainIn" ELSE "tick"
  BY <1>0, <1>2 DEF Disconnecting, Goto
<1>4. CASE IsVacant(m)
  <2>1. r = nothing
    BY <1>2, <1>4
  <2>2. wire' = wire /\ r.msg = m /\ ~r.lost
    BY <1>2, <2>1 DEF Transmit
  <2>3. m = out["Receiver"] /\ ~IsCompleted(m)
    BY <1>1, <1>4
  <2> HIDE DEF m
  <2>4. out' = out /\ state' = state
    BY <1>0, <1>2, <2>2, <2>3 DEF Kept
  <2>5. \A t \in Sides : (Leaving(t)' <=> Leaving(t)) /\ (Beyond(t)' <=> Beyond(t))
    BY <1>0, <1>3, <2>2 DEF Leaving, Beyond, Sides
  <2> QED BY <1>0, <2>2, <2>4, <2>5 DEF NoCall
<1>5. CASE ~IsVacant(m)
  <2>1. r \in SendResults("Receiver", m) /\ m.stage = "Sending"
    BY <1>1, <1>2, <1>5
  <2>6. ~IsCompleted(m)
    BY <1>1
  <2> HIDE DEF m
  <2>2. /\ r.msg \in SendSlot
        /\ \/ wire' = wire /\ r.msg = m
           \/ Usable("Receiver") /\ \E n : Sends("Receiver", m, n, r.msg)
    BY <1>0, <1>1, <1>2, <2>1, SendStep DEF Sends
  <2>3. r.lost => MayFail("Receiver")
    BY <2>1, LostMeans
  <2>4. ~Beyond("Receiver") /\ ~Beyond("Receiver")' /\ (Leaving("Receiver")' => MayFail("Receiver"))
    BY <1>0, <1>3, <2>3 DEF Leaving, Beyond
  <2>7. state' = state
    <3>1. IsCompleted(r.msg) => state["Receiver"] = "ReadyForFields"
      <4>1. IsCompleted(r.msg) => sock["Receiver"] \in Conns
        BY <2>2, <2>6 DEF Usable
      <4> QED BY <1>0, <4>1 DEF CallOK, States
    <3> QED BY <1>0, <1>2, <3>1 DEF SetState
  <2>5. OthersSame("Receiver")
    BY <1>0, <1>3, <2>7 DEF OthersSame, Sides
  <2> QED BY <1>0, <1>1, <1>3, <1>5, <2>1, <2>2, <2>4, <2>5, <2>7 DEF SendCall
<1> QED BY <1>4, <1>5

LEMMA RequestCalls ==
  Grounded /\ OutKindOK /\ (FirstRequest \/ RequestMore) => SendCall("Receiver") \/ NoCall
<1> SUFFICES ASSUME Grounded, OutKindOK, FirstRequest \/ RequestMore
             PROVE  SendCall("Receiver") \/ NoCall
  OBVIOUS
<1>1. anyReceived \in BOOLEAN
  BY DEF Grounded, Control, TypeOK
<1>2. CASE FirstRequest
  BY <1>2, SendRequestCall DEF FirstRequest
<1>3. CASE RequestMore
  BY <1>1, <1>3, SendRequestCall DEF RequestMore
<1> QED BY <1>2, <1>3

LEMMA DrainOutCall ==
  ASSUME Grounded, OutKindOK, NEW s \in Sides, DrainOut(s)
  PROVE  SendCall(s) \/ DropOut(s)
<1> USE DEF Grounded, Control
<1>0. /\ UNCHANGED <<sock, state, in, ends, silent, backlog>> /\ pc[s] = "drainOut"
      /\ Leaving(s) /\ Beyond(s) /\ out \in [Sides -> Message] /\ state \in [Sides -> States]
  BY DEF DrainOut, sideVars, Leaving, Beyond, TypeOK
<1>1. CASE /\ IsUnderWay(out[s])
           /\ \E r \in SendResults(s, out[s]) :
                  ~r.lost /\ Transmit(s, r) /\ out' = [out EXCEPT ![s] = r.msg]
           /\ pc' = pc
  <2>1. out[s] \in SendSlot /\ out[s].stage = "Sending" /\ ~IsVacant(out[s])
    BY <1>1 DEF SlotsOK, SendSlot, IsUnderWay, IsVacant
  <2>2. PICK r \in SendResults(s, out[s]) : ~r.lost /\ Transmit(s, r) /\ out' = [out EXCEPT ![s] = r.msg]
    BY <1>1
  <2>3. r.msg \in SendSlot /\ \E n : Sends(s, out[s], n, r.msg)
    BY <2>1, <2>2, SendStep DEF Sends
  <2>4. OthersSame(s) /\ out'[s] = r.msg /\ pc' = pc
    BY <1>0, <1>1, <2>2 DEF OthersSame
  <2>5. sock[s] \in Conns => KindOf(s, out[s])
    BY <2>1 DEF OutKindOK
  <2>6. Beyond(s)' /\ Leaving(s)'
    BY <1>0, <2>4 DEF Beyond, Leaving
  <2>7. SendCall(s)
    BY <1>0, <2>1, <2>3, <2>4, <2>5, <2>6 DEF SendCall
  <2> QED BY <2>7
<1>2. CASE /\ out' = [out EXCEPT ![s] = Empty]
           /\ pc' = [pc EXCEPT ![s] = "close"]
           /\ UNCHANGED wire
  BY <1>0, <1>2 DEF DropOut
<1> QED BY <1>1, <1>2 DEF DrainOut

(* Every call that uses the incoming slot is a ReceiveCall.                 *)
LEMMA ReceiveEffect ==
  ASSUME Grounded, NEW s \in Sides, NEW m \in ReceiveSlot, m.stage = "Receiving",
         NEW r \in ReceiveResults(s, m), Take(s, r)
  PROVE  /\ r.msg \in ReceiveSlot
         /\ r.lost => r.msg = m /\ wire' = wire
         /\ ~r.lost => \E k : Receives(s, m, k, r.msg)
<1>1. TypeOK /\ Bounded
  BY DEF Grounded, Control
<1>2. \/ r.lost /\ r.msg = m /\ wire' = wire
      \/ ~r.lost /\ \E k : Receives(s, m, k, r.msg)
  BY <1>1, ReceiveStep
<1>3. ASSUME NEW k, Receives(s, m, k, r.msg) PROVE r.msg \in ReceiveSlot
  BY <1>3 DEF Receives, Advances
<1> QED BY <1>2, <1>3

LEMMA ReceivedSlot ==
  ASSUME Grounded, NEW s \in Sides, ~Leaving(s),
         NEW m, m = IF IsVacant(in[s]) THEN BeginReceive(NoTag) ELSE in[s]
  PROVE  /\ m \in ReceiveSlot /\ m.stage = "Receiving"
         /\ m = in[s] \/ (IsVacant(in[s]) /\ m = BeginReceive(NoTag))
<1>1. in[s] \in ReceiveSlot /\ ~IsCompleted(in[s])
  BY DEF Grounded, Control, SlotsOK, CallsOK, CallOK
<1> QED BY <1>1, SlotFacts

LEMMA ReceiveRequestCall == Grounded /\ ReceiveRequest => ReceiveCall("Sender")
<1> SUFFICES ASSUME Grounded, ReceiveRequest PROVE ReceiveCall("Sender")
  OBVIOUS
<1> USE DEF Grounded, Control
<1> DEFINE m == IF IsVacant(in["Sender"]) THEN BeginReceive(NoTag) ELSE in["Sender"]
<1>0. /\ pc["Sender"] = "request" /\ ~Leaving("Sender") /\ ~Beyond("Sender")
      /\ UNCHANGED <<out, sock, ends, silent, backlog, state>> /\ "Sender" \in Sides /\ "Receiver" \in Sides
      /\ pc \in [Sides -> Calls] /\ in \in [Sides -> Message]
  BY DEF ReceiveRequest, TypeOK, Sides, Leaving, Beyond
<1>1. /\ m \in ReceiveSlot /\ m.stage = "Receiving"
      /\ m = in["Sender"] \/ (IsVacant(in["Sender"]) /\ m = BeginReceive(NoTag))
  BY <1>0, ReceivedSlot
<1> HIDE DEF m
<1>2. PICK r \in ReceiveResults("Sender", m) :
          /\ Take("Sender", r)
          /\ in' = [in EXCEPT !["Sender"] = Kept(r.msg)]
          /\ \/ r.lost /\ Disconnecting("Sender", "flush")
             \/ ~r.lost /\ (Goto("Sender", "reply") \/ Goto("Sender", "flush"))
  BY DEF ReceiveRequest, m
<1>3. /\ r.msg \in ReceiveSlot
      /\ \/ wire' = wire /\ r.msg = m
         \/ \E k : Receives("Sender", m, k, r.msg)
  BY <1>0, <1>1, <1>2, ReceiveEffect
<1>4. /\ in'["Sender"] = Kept(r.msg) /\ in'["Receiver"] = in["Receiver"]
      /\ pc'["Receiver"] = pc["Receiver"]
      /\ pc'["Sender"] \in {"reply", "flush", "drainIn"} /\ (pc'["Sender"] = "drainIn" => r.lost)
  BY <1>0, <1>2 DEF Disconnecting, Goto
<1>5. r.lost => MayFail("Sender")
  BY <1>2, LostMeans
<1>6. ~Beyond("Sender")' /\ (Leaving("Sender")' => MayFail("Sender"))
  BY <1>4, <1>5 DEF Leaving, Beyond
<1>7. OthersSame("Sender")
  BY <1>0, <1>4 DEF OthersSame, Sides
<1> QED BY <1>0, <1>1, <1>3, <1>4, <1>6, <1>7 DEF ReceiveCall

LEMMA ReceiveSubscribeCall == Grounded /\ ReceiveSubscribe => ReceiveCall("Receiver")
<1> SUFFICES ASSUME Grounded, ReceiveSubscribe PROVE ReceiveCall("Receiver")
  OBVIOUS
<1> USE DEF Grounded, Control
<1> DEFINE m == IF IsVacant(in["Receiver"]) THEN BeginReceive(NoTag) ELSE in["Receiver"]
<1>0. /\ pc["Receiver"] = "tick" /\ ~Leaving("Receiver") /\ ~Beyond("Receiver")
      /\ state["Receiver"] = "ReadyForHandshake" /\ "Sender" \in Sides /\ "Receiver" \in Sides
      /\ UNCHANGED <<out, sock, ends, silent, backlog>> /\ state \in [Sides -> States]
      /\ pc \in [Sides -> Calls] /\ in \in [Sides -> Message]
  BY DEF ReceiveSubscribe, TypeOK, Sides, Leaving, Beyond
<1>1. /\ m \in ReceiveSlot /\ m.stage = "Receiving" /\ ~IsCompleted(m)
      /\ m = in["Receiver"] \/ (IsVacant(in["Receiver"]) /\ m = BeginReceive(NoTag))
  <2>1. /\ m \in ReceiveSlot /\ m.stage = "Receiving"
        /\ m = in["Receiver"] \/ (IsVacant(in["Receiver"]) /\ m = BeginReceive(NoTag))
    BY <1>0, ReceivedSlot
  <2> HIDE DEF m
  <2> QED BY <2>1 DEF IsCompleted
<1> HIDE DEF m
<1>2. PICK r \in ReceiveResults("Receiver", m) :
          /\ Take("Receiver", r)
          /\ in' = [in EXCEPT !["Receiver"] = Kept(r.msg)]
          /\ \/ /\ r.lost /\ Disconnecting("Receiver", "tick") /\ UNCHANGED state
             \/ /\ ~r.lost /\ IsCompleted(r.msg)
                /\ SetState("Receiver", "ReadyForFields")
                /\ Goto("Receiver", "first")
             \/ /\ ~r.lost /\ ~IsCompleted(r.msg)
                /\ UNCHANGED <<state, pc>>
  BY DEF ReceiveSubscribe, m
<1>3. /\ r.msg \in ReceiveSlot /\ (r.lost => r.msg = m)
      /\ \/ wire' = wire /\ r.msg = m
         \/ \E k : Receives("Receiver", m, k, r.msg)
  BY <1>0, <1>1, <1>2, ReceiveEffect
<1>4. /\ in'["Receiver"] = Kept(r.msg) /\ in'["Sender"] = in["Sender"]
      /\ pc'["Sender"] = pc["Sender"] /\ state'["Sender"] = state["Sender"]
      /\ pc'["Receiver"] \in {"tick", "first", "drainIn"} /\ (pc'["Receiver"] = "drainIn" => r.lost)
      /\ state'["Receiver"] = IF IsCompleted(r.msg) /\ ~r.lost THEN "ReadyForFields" ELSE "ReadyForHandshake"
  BY <1>0, <1>2 DEF Disconnecting, Goto, SetState
<1>5. r.lost => MayFail("Receiver")
  BY <1>2, LostMeans
<1>6. ~Beyond("Receiver")' /\ (Leaving("Receiver")' => MayFail("Receiver"))
  BY <1>4, <1>5 DEF Leaving, Beyond
<1>7. OthersSame("Receiver")
  BY <1>0, <1>4 DEF OthersSame, Sides
<1>8. state'["Receiver"] = IF IsCompleted(r.msg) THEN "ReadyForFields" ELSE "ReadyForHandshake"
  BY <1>1, <1>3, <1>4
<1> QED BY <1>0, <1>1, <1>3, <1>4, <1>6, <1>7, <1>8 DEF ReceiveCall

LEMMA ReceiveFieldsCall == Grounded /\ ReceiveFields => ReceiveCall("Receiver")
<1> SUFFICES ASSUME Grounded, ReceiveFields PROVE ReceiveCall("Receiver")
  OBVIOUS
<1> USE DEF Grounded, Control
<1> DEFINE m == IF IsVacant(in["Receiver"]) THEN BeginReceive(NoTag) ELSE in["Receiver"]
<1>0. /\ pc["Receiver"] \in {"tick", "consume"} /\ ~Leaving("Receiver") /\ ~Beyond("Receiver")
      /\ state["Receiver"] = "ReadyForFields" /\ "Sender" \in Sides /\ "Receiver" \in Sides
      /\ UNCHANGED <<out, sock, ends, silent, backlog, state>>
      /\ pc \in [Sides -> Calls] /\ in \in [Sides -> Message]
  BY DEF ReceiveFields, TypeOK, Sides, Leaving, Beyond, CallsOK, CallOK
<1>1. /\ m \in ReceiveSlot /\ m.stage = "Receiving"
      /\ m = in["Receiver"] \/ (IsVacant(in["Receiver"]) /\ m = BeginReceive(NoTag))
  BY <1>0, ReceivedSlot
<1> HIDE DEF m
<1>2. PICK r \in ReceiveResults("Receiver", m) :
          /\ Take("Receiver", r)
          /\ in' = [in EXCEPT !["Receiver"] = Kept(r.msg)]
          /\ IF r.lost THEN Disconnecting("Receiver", "request")
             ELSE Goto("Receiver", IF IsCompleted(r.msg) THEN "consume" ELSE "request")
  BY DEF ReceiveFields, m
<1>3. /\ r.msg \in ReceiveSlot
      /\ \/ wire' = wire /\ r.msg = m
         \/ \E k : Receives("Receiver", m, k, r.msg)
  BY <1>0, <1>1, <1>2, ReceiveEffect
<1>4. /\ in'["Receiver"] = Kept(r.msg) /\ in'["Sender"] = in["Sender"]
      /\ pc'["Sender"] = pc["Sender"]
      /\ pc'["Receiver"] \in {"consume", "request", "drainIn"} /\ (pc'["Receiver"] = "drainIn" => r.lost)
  BY <1>0, <1>2 DEF Disconnecting, Goto
<1>5. r.lost => MayFail("Receiver")
  BY <1>2, LostMeans
<1>6. ~Beyond("Receiver")' /\ (Leaving("Receiver")' => MayFail("Receiver"))
  BY <1>4, <1>5 DEF Leaving, Beyond
<1>7. OthersSame("Receiver")
  BY <1>0, <1>4 DEF OthersSame, Sides
<1> QED BY <1>0, <1>1, <1>3, <1>4, <1>6, <1>7 DEF ReceiveCall

LEMMA DrainInCall ==
  ASSUME Grounded, NEW s \in Sides, DrainIn(s) PROVE ReceiveCall(s) \/ DropIn(s)
<1> USE DEF Grounded, Control
<1>0. /\ UNCHANGED <<sock, state, out, ends, silent, backlog>> /\ pc[s] = "drainIn"
      /\ Leaving(s) /\ ~Beyond(s) /\ in \in [Sides -> Message]
  BY DEF DrainIn, sideVars, Leaving, Beyond, TypeOK
<1>1. CASE /\ IsUnderWay(in[s])
           /\ \E r \in ReceiveResults(s, in[s]) :
                  ~r.lost /\ Take(s, r) /\ in' = [in EXCEPT ![s] = r.msg]
           /\ pc' = pc
  <2>1. in[s] \in ReceiveSlot /\ in[s].stage = "Receiving"
    BY <1>1 DEF SlotsOK, ReceiveSlot, IsUnderWay
  <2>2. PICK r \in ReceiveResults(s, in[s]) : ~r.lost /\ Take(s, r) /\ in' = [in EXCEPT ![s] = r.msg]
    BY <1>1
  <2>3. r.msg \in ReceiveSlot /\ \E k : Receives(s, in[s], k, r.msg)
    BY <2>1, <2>2, ReceiveEffect
  <2>4. OthersSame(s) /\ in'[s] = r.msg /\ pc' = pc
    BY <1>0, <1>1, <2>2 DEF OthersSame
  <2>5. ~Beyond(s)' /\ Leaving(s)'
    BY <1>0, <2>4 DEF Beyond, Leaving
  <2>6. ReceiveCall(s)
    BY <1>0, <2>1, <2>3, <2>4, <2>5 DEF ReceiveCall
  <2> QED BY <2>6
<1>2. CASE /\ in' = [in EXCEPT ![s] = Empty]
           /\ pc' = [pc EXCEPT ![s] = "drainOut"]
           /\ UNCHANGED wire
  BY <1>0, <1>2 DEF DropIn
<1> QED BY <1>1, <1>2 DEF DrainIn

(* The actions by these kinds.                                              *)
LEMMA Kinds ==
  ASSUME Grounded, OutKindOK, [Next]_vars
  PROVE  \/ NoCall
         \/ \E s \in Sides : SendCall(s) \/ ReceiveCall(s) \/ DropIn(s) \/ DropOut(s)
                             \/ CloseAndReset(s) \/ Restart(s) \/ PowerLoss(s)
         \/ Connect \/ Accept \/ \E c \in Conns : Reset(c)
<1>1. CASE UNCHANGED vars
  BY <1>1 DEF vars, NoCall, Leaving, Beyond
<1>2. ASSUME NEW s \in Sides, WaitToReconnect(s) PROVE NoCall
  BY <1>2 DEF WaitToReconnect, netVars, NoCall, Leaving, Beyond
<1>3. CASE Listen
  <2>1. /\ UNCHANGED <<wire, in, out, ends, silent, backlog, state, pc>>
        /\ sock["Receiver"] = "none" /\ sock' = [sock EXCEPT !["Receiver"] = "listening"]
        /\ sock \in [Sides -> Conns \cup {"none", "listening"}]
    BY <1>3 DEF Listen, netVars, Grounded, Control, TypeOK
  <2>2. \A t \in Sides, c \in Conns : sock'[t] = c <=> sock[t] = c
    BY <2>1, ConnectionAssumption DEF Sides
  <2> QED BY <2>1, <2>2 DEF NoCall, Leaving, Beyond
<1>4. "Sender" \in Sides /\ "Receiver" \in Sides
  BY DEF Sides
<1>5. CASE SendSubscribe \/ FirstFields \/ PacedFields \/ ReplyFields \/ FlushFields
           \/ FirstRequest \/ RequestMore
  BY <1>4, <1>5, SendSubscribeCall, FieldsCalls, RequestCalls
<1>6. CASE ReceiveRequest \/ ReceiveSubscribe \/ ReceiveFields
  BY <1>4, <1>6, ReceiveRequestCall, ReceiveSubscribeCall, ReceiveFieldsCall
<1>7. ASSUME NEW s \in Sides, DrainIn(s) \/ DrainOut(s)
      PROVE  SendCall(s) \/ ReceiveCall(s) \/ DropIn(s) \/ DropOut(s)
  BY <1>7, DrainInCall, DrainOutCall
<1> DEFINE Kind == \/ NoCall
                   \/ \E s \in Sides : SendCall(s) \/ ReceiveCall(s) \/ DropIn(s) \/ DropOut(s)
                                       \/ CloseAndReset(s) \/ Restart(s) \/ PowerLoss(s)
                   \/ Connect \/ Accept \/ \E c \in Conns : Reset(c)
<1>8. ASSUME NEW s \in Sides, WaitToReconnect(s) \/ DrainIn(s) \/ DrainOut(s) \/ CloseAndReset(s)
                              \/ Restart(s) \/ PowerLoss(s)
      PROVE  Kind
  BY <1>2, <1>7, <1>8
<1>9. ASSUME Connect \/ Accept \/ \E c \in Conns : Reset(c) PROVE Kind
  BY <1>9
<1>10. ASSUME SendSubscribe \/ FirstFields \/ PacedFields \/ ReplyFields \/ FlushFields
           \/ FirstRequest \/ RequestMore \/ ReceiveRequest \/ ReceiveSubscribe \/ ReceiveFields
      PROVE Kind
  BY <1>4, <1>5, <1>6, <1>10
<1>11. Listen => Kind
  BY <1>3
<1>12. UNCHANGED vars => Kind
  BY <1>1
<1> HIDE DEF Kind
<1>13. Next => Kind
  BY <1>8, <1>9, <1>10, <1>11, NextCases
<1> QED BY <1>12, <1>13 DEF Kind

-----------------------------------------------------------------------------
(* What a send and a receive make of a framed stream.                       *)

(* The numbers of a slot.                                                   *)
LEMMA SlotNumbers ==
  /\ \A m \in SendSlot \cup ReceiveSlot :
       /\ m.hdr \in Nat /\ m.done \in Nat /\ m.size \in Nat /\ m.hdr <= HeaderSize
       /\ Position(m) \in Nat /\ Position(m) = m.hdr + m.done
       /\ Whole(m) \in Nat /\ Whole(m) = HeaderSize + m.size
       /\ IsVacant(m) => m = Empty
  /\ \A m \in SendSlot : /\ m.stage = "Sending" => Position(m) < Whole(m)
                         /\ IsCompleted(m) => Position(m) = Whole(m)
  /\ HeaderSize \in Nat \ {0} /\ HeaderSize > 0
  /\ Position(Empty) = 0 /\ Empty.hdr = 0 /\ ~IsCompleted(Empty)
  /\ Position(BeginReceive(NoTag)) = 0 /\ BeginReceive(NoTag).hdr = 0
<1>1. HeaderSize \in Nat \ {0}
  BY FrameAssumption
<1>2. ASSUME NEW m \in SendSlot \cup ReceiveSlot
      PROVE  /\ m.hdr \in Nat /\ m.done \in Nat /\ m.size \in Nat /\ m.hdr <= HeaderSize
             /\ Position(m) \in Nat /\ Position(m) = m.hdr + m.done
             /\ Whole(m) \in Nat /\ Whole(m) = HeaderSize + m.size
             /\ IsVacant(m) => m = Empty
  <2>1. m \in Message /\ (IsVacant(m) => m = Empty)
    BY DEF SendSlot, ReceiveSlot
  <2> QED BY <1>1, <2>1 DEF Message, Position, Whole
<1>3. \A m \in SendSlot : /\ m.stage = "Sending" => Position(m) < Whole(m)
                          /\ IsCompleted(m) => Position(m) = Whole(m)
  BY DEF SendSlot
<1>4. Position(Empty) = 0 /\ Empty.hdr = 0 /\ ~IsCompleted(Empty)
  BY DEF Empty, VacantMessage, Position, IsCompleted
<1>5. Position(BeginReceive(NoTag)) = 0 /\ BeginReceive(NoTag).hdr = 0
  BY DEF BeginReceive, Position
<1> QED BY <1>1, <1>2, <1>3, <1>4, <1>5

(* A reader between two messages waits for the first byte of any.           *)
LEMMA AwaitsFirst ==
  ASSUME NEW m, NEW b, Position(m) = 0, m.hdr # HeaderSize, b.pos = 1 PROVE Awaited(m, b)
BY DEF Awaited

(* A message that is begun takes the place of a vacant slot.                *)
LEMMA Begun ==
  ASSUME NEW x \in SendSlot, NEW m \in SendSlot, m.stage = "Sending",
         m = x \/ (IsVacant(x) /\ Position(m) = 0),
         NEW q, NEW y \in ReceiveSlot, Joins(q, y, x)
  PROVE  Joins(q, y, m)
<1>1. CASE m = x
  BY <1>1
<1>2. CASE IsVacant(x) /\ Position(m) = 0
  <2>1. Sent(x) = 0 /\ Sent(m) = 0
    BY <1>2, SlotNumbers DEF Sent, IsCompleted
  <2>2. CASE q = <<>>
    <3>1. Position(y) = 0
      BY <2>1, <2>2 DEF Joins, Meet
    <3>2. y.hdr # HeaderSize
      BY <3>1, SlotNumbers
    <3> QED BY <2>1, <2>2, <3>1, <3>2 DEF Joins, Meet
  <2>3. CASE q # <<>>
    BY <2>1, <2>3 DEF Joins, LeftBy
  <2> QED BY <2>2, <2>3
<1> QED BY <1>1, <1>2

(* A send keeps the stream framed.                                          *)
LEMMA Appending ==
  ASSUME NEW q \in Seq(Byte), NEW y \in ReceiveSlot,
         NEW m \in SendSlot, m.stage = "Sending", Stream(q, TRUE, y, m),
         NEW n \in Nat, NEW o \in SendSlot, o.stage \in {"Sending", "Completed"},
         o.tag = m.tag, o.size = m.size, Position(o) = Position(m) + n,
         NEW t, t = q \o NextBytes(m, n), NEW x \in {o, Kept(o)}
  PROVE  Stream(t, TRUE, y, x)
<1> DEFINE P == Position(m)
<1> DEFINE R == Position(o)
<1> DEFINE W == Whole(m)
<1>1. /\ P \in Nat /\ R \in Nat /\ W \in Nat /\ P < W /\ R = P + n /\ R <= W
      /\ Whole(o) = W /\ (IsCompleted(o) <=> R = W)
      /\ Sent(m) = P /\ (~IsCompleted(o) => Sent(o) = R /\ x = o) /\ (IsCompleted(o) => Sent(x) = 0)
  <2>1. P \in Nat /\ R \in Nat /\ W \in Nat /\ P < W /\ R = P + n /\ Whole(o) = W
    BY SlotNumbers DEF Whole
  <2>2. o.stage = "Sending" => R < W
    BY <2>1, SlotNumbers
  <2>3. IsCompleted(o) => R = W
    BY <2>1, SlotNumbers
  <2>4. ~IsCompleted(o) => o.stage = "Sending"
    BY DEF IsCompleted
  <2>5. Sent(m) = P /\ (~IsCompleted(o) => Sent(o) = R /\ x = o)
    BY DEF Sent, IsCompleted, Kept
  <2>6. IsCompleted(o) => Sent(x) = 0
    BY SlotNumbers DEF Sent, Kept
  <2> HIDE DEF P, R, W
  <2> QED BY <2>1, <2>2, <2>3, <2>4, <2>5, <2>6
<1>2. /\ Run(q) /\ Expects(y, q)
      /\ q = <<>> => Meet(y, m)
      /\ q # <<>> => LeftBy(q[Len(q)], m)
  BY DEF Stream, Joins
<1>3. Position(m) + n <= Whole(m)
  BY <1>1
<1>4. /\ t \in Seq(Byte) /\ Run(t) /\ Len(t) = Len(q) + n
      /\ \A i \in 1 .. Len(q) : t[i] = q[i]
      /\ \A i \in Len(q) + 1 .. Len(q) + n :
           t[i].tag = m.tag /\ t[i].size = m.size /\ t[i].pos = P + (i - Len(q))
  <2>1. Run(q) /\ (q # <<>> => LeftBy(q[Len(q)], m))
    BY <1>2
  <2>2. Grown(q, m, n, t)
    <3> HIDE DEF P, R, W
    <3> QED BY <2>1, <1>3, Extended
  <2> QED BY <2>2 DEF Grown
<1> DEFINE a == Len(q)
<1> HIDE DEF P, R, W
<1>5. a \in Nat /\ (q = <<>> <=> a = 0) /\ Len(t) \in Nat /\ (t = <<>> <=> a + n = 0)
  BY <1>4
<1>6. Expects(y, t)
  <2> SUFFICES ASSUME t # <<>> PROVE Awaited(y, t[1])
    BY DEF Expects
  <2>1. CASE a > 0
    <3>1. 1 \in 1 .. Len(q) /\ q # <<>>
      BY <1>5, <2>1
    <3> QED BY <1>2, <1>4, <3>1 DEF Expects
  <2>2. CASE a = 0
    <3>1. 1 \in Len(q) + 1 .. Len(q) + n /\ 1 - Len(q) = 1
      BY <1>5, <2>2
    <3>2. t[1].tag = m.tag /\ t[1].size = m.size /\ t[1].pos = P + 1
      BY <1>4, <3>1
    <3>3. Meet(y, m)
      BY <1>2, <1>5, <2>2
    <3> QED BY <1>1, <3>2, <3>3 DEF Meet, Awaited
  <2> QED BY <1>5, <2>1, <2>2
<1>7. Joins(t, y, x)
  <2>1. CASE n = 0
    <3>1. ~IsCompleted(o) /\ x = o /\ Sent(o) = P
      BY <1>1, <2>1
    <3>2. CASE a = 0
      <4>1. t = <<>> /\ Meet(y, m)
        BY <1>2, <1>5, <2>1, <3>2
      <4> QED BY <1>1, <3>1, <4>1 DEF Joins, Meet
    <3>3. CASE a > 0
      <4>1. t # <<>> /\ Len(t) = Len(q) /\ Len(q) \in 1 .. Len(q) /\ q # <<>>
        BY <1>4, <1>5, <2>1, <3>3
      <4>2. t[Len(t)] = q[Len(q)] /\ LeftBy(q[Len(q)], m)
        BY <1>2, <1>4, <4>1
      <4> QED BY <1>1, <3>1, <4>1, <4>2 DEF Joins, LeftBy
    <3> QED BY <1>5, <3>2, <3>3
  <2>2. CASE n > 0
    <3>1. t # <<>> /\ Len(t) \in Len(q) + 1 .. Len(q) + n /\ Len(t) - Len(q) = n
      BY <1>4, <1>5, <2>2
    <3>2. t[Len(t)].tag = m.tag /\ t[Len(t)].size = m.size /\ t[Len(t)].pos = R
      BY <1>1, <1>4, <3>1
    <3>3. CASE IsCompleted(o)
      <4>1. Sent(x) = 0 /\ R = W
        BY <1>1, <3>3
      <4>2. Whole(t[Len(t)]) = W
        BY <3>2 DEF Whole, W
      <4> QED BY <3>1, <3>2, <4>1, <4>2 DEF Joins, LeftBy, Ends
    <3>4. CASE ~IsCompleted(o)
      <4>1. x = o /\ Sent(x) = R /\ R # 0
        BY <1>1, <2>2, <3>4
      <4> QED BY <3>1, <3>2, <4>1 DEF Joins, LeftBy
    <3> QED BY <3>3, <3>4
  <2> QED BY <2>1, <2>2
<1> QED BY <1>4, <1>6, <1>7 DEF Stream

(* A receive keeps the stream framed.                                       *)
LEMMA Consuming ==
  ASSUME NEW q \in Seq(Byte), NEW live \in BOOLEAN, NEW w \in SendSlot,
         NEW m, Stream(q, live, m, w),
         NEW h, NEW p, NEW k, NEW o, Advances(m, q, h, p, k, o),
         NEW t, t = SubSeq(q, k + 1, Len(q))
  PROVE  Stream(t, live, Kept(o), w)
<1>1. Run(q) /\ Expects(m, q) /\ (live => Joins(q, m, w))
  BY DEF Stream
<1>2. /\ k = 0 => ~IsCompleted(o) /\ Position(o) = Position(m) /\ o.hdr = m.hdr
                     /\ (o.hdr = HeaderSize => o.tag = m.tag /\ o.size = m.size)
      /\ k > 0 => /\ Position(o) = q[k].pos
                  /\ IsCompleted(o) <=> Ends(q[k])
                  /\ \A i \in 1 .. k : q[i].tag = q[1].tag /\ q[i].size = q[1].size
                  /\ o.hdr = HeaderSize => o.tag = q[1].tag /\ o.size = q[1].size
      /\ k < Len(q) => IF IsCompleted(o) THEN q[k + 1].pos = 1 ELSE Awaited(o, q[k + 1])
  BY <1>1, ReceiveFollows
<1>3. k \in 0 .. Len(q)
  BY DEF Advances
<1>4. /\ t \in Seq(Byte) /\ Run(t) /\ Len(t) = Len(q) - k
      /\ \A i \in 1 .. Len(t) : t[i] = q[k + i] /\ k + i \in 1 .. Len(q)
  BY <1>1, <1>3, Consumed
<1>5. k \in Nat /\ Len(q) \in Nat /\ k <= Len(q) /\ (t = <<>> <=> k = Len(q)) /\ (q = <<>> <=> Len(q) = 0)
  <2>1. k \in Nat /\ Len(q) \in Nat /\ k <= Len(q) /\ (q = <<>> <=> Len(q) = 0)
    BY <1>3
  <2>2. (t = <<>> <=> Len(t) = 0) /\ Len(t) \in Nat
    BY <1>4
  <2>3. Len(t) = 0 <=> k = Len(q)
    BY <1>4, <2>1
  <2> QED BY <2>1, <2>2, <2>3
<1>6. Expects(Kept(o), t)
  <2> SUFFICES ASSUME t # <<>> PROVE Awaited(Kept(o), t[1])
    BY DEF Expects
  <2>1. k < Len(q) /\ 1 \in 1 .. Len(t)
    BY <1>4, <1>5
  <2>2. t[1] = q[k + 1]
    BY <1>4, <2>1
  <2>3. CASE IsCompleted(o)
    <3>1. t[1].pos = 1 /\ Kept(o) = Empty
      BY <1>2, <2>1, <2>2, <2>3 DEF Kept
    <3>2. Position(Kept(o)) = 0 /\ Kept(o).hdr # HeaderSize
      BY <3>1, SlotNumbers
    <3> QED BY <3>1, <3>2, AwaitsFirst
  <2>4. CASE ~IsCompleted(o)
    BY <1>2, <2>1, <2>2, <2>4 DEF Kept
  <2> QED BY <2>3, <2>4
<1>7. ASSUME live PROVE Joins(t, Kept(o), w)
  <2>1. CASE t # <<>>
    <3>1. Len(t) \in 1 .. Len(t) /\ k + Len(t) = Len(q) /\ q # <<>>
      BY <1>4, <1>5, <2>1
    <3>2. t[Len(t)] = q[Len(q)]
      BY <1>4, <3>1
    <3> QED BY <1>1, <1>7, <2>1, <3>1, <3>2 DEF Joins
  <2>2. CASE t = <<>> /\ k = 0
    <3>1. q = <<>> /\ Meet(m, w)
      BY <1>1, <1>5, <1>7, <2>2 DEF Joins
    <3>2. Kept(o) = o
      BY <1>2, <2>2 DEF Kept
    <3> QED BY <1>2, <2>2, <3>1, <3>2 DEF Joins, Meet
  <2>3. CASE t = <<>> /\ k > 0
    <3>1. q # <<>> /\ k = Len(q) /\ LeftBy(q[k], w) /\ k \in 1 .. k
      BY <1>1, <1>5, <1>7, <2>3 DEF Joins
    <3>2. CASE Sent(w) = 0
      <4>1. IsCompleted(o)
        BY <1>2, <2>3, <3>1, <3>2 DEF LeftBy
      <4> QED BY <2>3, <3>2, <4>1, SlotNumbers DEF Kept, Joins, Meet
    <3>3. CASE Sent(w) # 0
      <4>1. q[k].tag = w.tag /\ q[k].size = w.size /\ q[k].pos = Sent(w)
        BY <3>1, <3>3 DEF LeftBy
      <4>2. ~IsCompleted(w) /\ Sent(w) = Position(w) /\ Position(w) # 0
        BY <3>3 DEF Sent
      <4>3. w.stage = "Sending"
        BY <4>2, SlotNumbers, SlotFacts
      <4>4. Position(w) < Whole(w) /\ Position(w) \in Nat /\ Whole(w) \in Nat
        BY <4>3, SlotNumbers
      <4>5. Whole(q[k]) = Whole(w)
        BY <4>1 DEF Whole
      <4>6. ~Ends(q[k])
        BY <4>1, <4>2, <4>4, <4>5 DEF Ends
      <4>7. ~IsCompleted(o) /\ Kept(o) = o
        BY <1>2, <2>3, <4>6 DEF Kept
      <4>8. Position(o) = Sent(w) /\ (o.hdr = HeaderSize => o.tag = w.tag /\ o.size = w.size)
        BY <1>2, <2>3, <3>1, <4>1
      <4> QED BY <2>3, <4>7, <4>8 DEF Joins, Meet
    <3> QED BY <3>2, <3>3
  <2> QED BY <1>5, <2>1, <2>2, <2>3
<1> QED BY <1>4, <1>6, <1>7 DEF Stream

-----------------------------------------------------------------------------
(* Framing is kept by a call that sends ...                                 *)

(* The two sides.                                                           *)
LEMMA PeerFacts ==
  ASSUME NEW s \in Sides
  PROVE  /\ Peer(s) \in Sides /\ Peer(s) # s /\ Peer(Peer(s)) = s
         /\ \A t \in Sides : t = s \/ t = Peer(s)
BY DEF Sides, Peer

(* A connection that may be found lost is not live; a live one is held by   *)
(* the Sender, and by the Receiver or its backlog; one that is held at      *)
(* both usable ends and read from is live.                                  *)
LEMMA FailsUnlive ==
  ASSUME NEW s \in Sides, sock[s] \in Conns, MayFail(s) PROVE ~Live(sock[s])
BY PeerFacts DEF MayFail, Usable, PeerOpen, Noticed, Live

LEMMA LiveHeld ==
  ASSUME HeldOK, NEW c \in Conns, Live(c)
  PROVE  sock["Sender"] = c /\ (sock["Receiver"] = c \/ Waits(c))
BY DEF HeldOK, Held, Live, Sides

LEMMA LiveWhenHeard ==
  ASSUME HeldOK, TypeOK, NEW s \in Sides, Usable(s), PeerOpen(s), Reading(sock[s], Peer(s))
  PROVE  Live(sock[s])
<1> DEFINE c == sock[s]
<1>1. c \in Conns /\ Held(c)
  BY DEF Usable, HeldOK
<1>2. ends[c] = Sides
  <2>1. ends[c] \in SUBSET Sides
    BY <1>1 DEF TypeOK
  <2> QED BY <2>1, PeerFacts DEF Usable, PeerOpen
<1>3. sock["Sender"] = c /\ (sock["Receiver"] = c \/ Waits(c))
  BY DEF Reading, Peer, Sides
<1> QED BY <1>1, <1>2, <1>3 DEF Held, Live

(* A stream that no step touches, that is discarded, or that begins.        *)
LEMMA StreamSame ==
  ASSUME NEW c \in Conns, NEW s \in Sides, StreamOK(c, s),
         wire'[c][s] = wire[c][s], s \in ends[c] => s \in ends'[c],
         Reading(c, s)' => Reading(c, s) /\ Heard(c, s)' = Heard(c, s),
         Live(c)' => Live(c) /\ Said(c, Peer(s))' = Said(c, Peer(s))
  PROVE  StreamOK(c, s)'
<1>1. s \notin ends'[c] => wire'[c][s] = <<>>
  BY DEF StreamOK
<1>2. ASSUME Reading(c, s)' PROVE Stream(wire'[c][s], Live(c)', Heard(c, s)', Said(c, Peer(s))')
  <2>1. Stream(wire[c][s], Live(c), Heard(c, s), Said(c, Peer(s)))
    BY <1>2 DEF StreamOK
  <2>2. Run(wire[c][s]) /\ Expects(Heard(c, s), wire[c][s])
        /\ (Live(c) => Joins(wire[c][s], Heard(c, s), Said(c, Peer(s))))
    BY <2>1 DEF Stream
  <2>3. Live(c)' => Joins(wire'[c][s], Heard(c, s)', Said(c, Peer(s))')
    BY <1>2, <2>2
  <2> QED BY <1>2, <2>2, <2>3 DEF Stream
<1> QED BY <1>1, <1>2 DEF StreamOK

LEMMA RunOfNone == Run(<<>>) /\ \A m : Expects(m, <<>>)
BY DEF Run, Expects

LEMMA StreamGone ==
  ASSUME NEW c \in Conns, NEW s \in Sides, wire'[c][s] = <<>>, ~Live(c)'
  PROVE  StreamOK(c, s)'
<1>1. Stream(wire'[c][s], Live(c)', Heard(c, s)', Said(c, Peer(s))')
  BY RunOfNone DEF Stream
<1> QED BY <1>1 DEF StreamOK

LEMMA StreamFresh ==
  ASSUME NEW c \in Conns, NEW s \in Sides, wire'[c][s] = <<>>,
         Heard(c, s)' = Empty, Said(c, Peer(s))' = Empty
  PROVE  StreamOK(c, s)'
<1>1. Position(Empty) = 0 /\ Sent(Empty) = 0 /\ Empty.hdr # HeaderSize
  BY SlotNumbers DEF Sent
<1>2. Joins(<<>>, Empty, Empty)
  BY <1>1 DEF Joins, Meet
<1>3. Stream(wire'[c][s], Live(c)', Heard(c, s)', Said(c, Peer(s))')
  BY <1>2, RunOfNone DEF Stream
<1> QED BY <1>3 DEF StreamOK

LEMMA InitFramed == Init => Framed
<1> SUFFICES ASSUME Init PROVE Framed
  OBVIOUS
<1>1. LeavingOK
  BY DEF Init, LeavingOK, Leaving
<1>2. ASSUME NEW c \in Conns, NEW s \in Sides PROVE StreamOK(c, s)
  <2>1. wire[c][s] = <<>> /\ ends[c] = {} /\ ~Live(c)
    BY DEF Init, Live, Sides
  <2>2. Stream(wire[c][s], Live(c), Heard(c, s), Said(c, Peer(s)))
    BY <2>1, RunOfNone DEF Stream
  <2> QED BY <2>1, <2>2 DEF StreamOK
<1> QED BY <1>1, <1>2 DEF Framed

(* A send changes neither who reads nor what has been read.                 *)
LEMMA SendReads ==
  ASSUME Grounded, NEW s \in Sides, SendCall(s), NEW d \in Conns
  PROVE  /\ Live(d)' <=> Live(d)
         /\ \A t \in Sides : (Reading(d, t)' <=> Reading(d, t)) /\ Heard(d, t)' = Heard(d, t)
<1>0. /\ UNCHANGED <<in, sock, ends, silent, backlog>> /\ OthersSame(s)
      /\ Beyond(s)' <=> Beyond(s)
  BY DEF SendCall
<1>1. Live(d)' <=> Live(d)
  BY <1>0 DEF Live
<1>2. ASSUME NEW t \in Sides PROVE (Reading(d, t)' <=> Reading(d, t)) /\ Heard(d, t)' = Heard(d, t)
  <2>1. Beyond(t)' <=> Beyond(t)
    BY <1>0 DEF OthersSame, Beyond
  <2> QED BY <1>0, <2>1 DEF Reading, Heard, Waits, Abandoned, Beyond
<1> QED BY <1>1, <1>2

(* A send keeps everything framed: on a live connection the stream goes     *)
(* on, and on one that is not live nobody reads what is sent.               *)
LEMMA SendFramed == ASSUME Grounded, Framed, NEW s \in Sides, SendCall(s) PROVE Framed'
<1> DEFINE c == sock[s]
<1> DEFINE u == Peer(s)
<1>0. /\ UNCHANGED <<in, sock, ends, silent, backlog>> /\ OthersSame(s)
      /\ u \in Sides /\ u # s /\ Peer(u) = s /\ \A t \in Sides : t = s \/ t = u
      /\ TypeOK /\ HeldOK /\ LeavingOK /\ (Beyond(s)' <=> Beyond(s))
  BY PeerFacts DEF SendCall, Grounded, Control, Framed
<1>1. \A d \in Conns : Live(d)' <=> Live(d)
  BY SendReads
<1>2. LeavingOK'
  <2> SUFFICES ASSUME NEW t \in Sides, Leaving(t)', sock'[t] \in Conns PROVE (~Live(sock[t]))'
    BY DEF LeavingOK
  <2>1. Leaving(t) \/ (t = s /\ MayFail(s))
    BY DEF SendCall, OthersSame, Leaving
  <2>2. ~Live(sock[t])
    BY <1>0, <2>1, FailsUnlive DEF LeavingOK
  <2> QED BY <1>0, <1>1, <2>2
<1>3. \A d \in Conns, t \in Sides : Reading(d, t)' <=> Reading(d, t)
  BY SendReads
<1>4. PICK m \in SendSlot, o \in SendSlot :
       /\ m = out[s] \/ (IsVacant(out[s]) /\ Position(m) = 0)
       /\ m.stage = "Sending"
       /\ (wire' = wire /\ o = m) \/ \E n : Sends(s, m, n, o)
       /\ out'[s] = Kept(o) \/ (out'[s] = o /\ Leaving(s))
  BY DEF SendCall
<1>5. \A d \in Conns, t \in Sides : Heard(d, t)' = Heard(d, t)
  BY SendReads
<1>6. \A d \in Conns : (d # c => Said(d, s)' = Said(d, s)) /\ Said(d, u)' = Said(d, u)
  BY <1>0 DEF Said, OthersSame
<1>7. ASSUME NEW d \in Conns, NEW t \in Sides, StreamOK(d, t), wire'[d][t] = wire[d][t],
             t = s \/ d # c \/ ~Live(d)
      PROVE  StreamOK(d, t)'
  <2>1. Live(d)' => Live(d) /\ Said(d, Peer(t))' = Said(d, Peer(t))
    BY <1>0, <1>1, <1>6, <1>7
  <2> QED BY <1>0, <1>3, <1>5, <1>7, <2>1, StreamSame
<1>8. ASSUME c \in Conns, Live(c), Reading(c, u)
      PROVE  Stream(wire[c][u], TRUE, Heard(c, u), m)
  <2>1. Stream(wire[c][u], Live(c), Heard(c, u), Said(c, s)) /\ Said(c, s) = out[s]
    BY <1>0, <1>8 DEF Framed, StreamOK, Said
  <2>2. Run(wire[c][u]) /\ Expects(Heard(c, u), wire[c][u]) /\ Joins(wire[c][u], Heard(c, u), out[s])
    BY <1>8, <2>1 DEF Stream
  <2>3. Heard(c, u) \in ReceiveSlot /\ out[s] \in SendSlot
    BY <1>0, SlotFacts DEF Heard, Grounded, Control, SlotsOK
  <2>4. Joins(wire[c][u], Heard(c, u), m)
    BY <1>4, <2>2, <2>3, Begun
  <2> QED BY <2>2, <2>4 DEF Stream
<1>9. Heard(c, u) \in ReceiveSlot
  BY <1>0, SlotFacts DEF Heard, Grounded, Control, SlotsOK
<1>10. CASE wire' = wire /\ o = m
  <2> SUFFICES ASSUME NEW d \in Conns, NEW t \in Sides PROVE StreamOK(d, t)'
    BY <1>2 DEF Framed
  <2>1. StreamOK(d, t)
    BY DEF Framed
  <2>2. CASE t = s \/ d # c \/ ~Live(d)
    BY <1>7, <1>10, <2>1, <2>2
  <2>3. CASE d = c /\ t = u /\ Live(d)
    <3>1. t \in ends'[d]
      BY <1>0, <2>3 DEF Live
    <3>2. ASSUME Reading(d, t)' PROVE Stream(wire'[d][t], Live(d)', Heard(d, t)', Said(d, Peer(t))')
      <4>1. Stream(wire[c][u], TRUE, Heard(c, u), m)
        BY <1>3, <1>8, <2>3, <3>2
      <4>2. out'[s] = m
        BY <1>4, <1>10 DEF Kept, IsCompleted
      <4>3. Said(d, Peer(t))' = m
        BY <1>0, <2>3, <4>2 DEF Said
      <4> QED BY <1>1, <1>5, <1>10, <2>3, <4>1, <4>3
    <3> QED BY <3>1, <3>2 DEF StreamOK
  <2> QED BY <1>0, <2>2, <2>3
<1>11. ASSUME NEW n, Sends(s, m, n, o) PROVE Framed'
  <2> SUFFICES ASSUME NEW d \in Conns, NEW t \in Sides PROVE StreamOK(d, t)'
    BY <1>2 DEF Framed
  <2>0. /\ Usable(s) /\ n \in Nat /\ c \in Conns
        /\ o.stage \in {"Sending", "Completed"}
        /\ o.tag = m.tag /\ o.size = m.size /\ Position(o) = Position(m) + n
        /\ wire'[d][t] = IF PeerOpen(s) /\ d = c /\ t = u
                         THEN wire[d][t] \o NextBytes(m, n) ELSE wire[d][t]
    BY <1>11 DEF Sends, Usable
  <2>1. StreamOK(d, t)
    BY DEF Framed
  <2>2. CASE t = s \/ d # c \/ ~PeerOpen(s)
    <3>1. ~PeerOpen(s) => ~Live(c)
      BY <2>0, FailsUnlive DEF MayFail
    <3> QED BY <1>0, <1>7, <2>0, <2>1, <2>2, <3>1
  <2>3. CASE d = c /\ t = u /\ PeerOpen(s)
    <3>1. t \in ends'[d]
      BY <1>0, <2>3 DEF PeerOpen
    <3>2. ASSUME Reading(d, t)' PROVE Stream(wire'[d][t], Live(d)', Heard(d, t)', Said(d, Peer(t))')
      <4>1. Live(c)
        BY <1>0, <1>3, <2>0, <2>3, <3>2, LiveWhenHeard
      <4>2. Stream(wire[c][u], TRUE, Heard(c, u), m)
        BY <1>3, <1>8, <2>0, <2>3, <3>2, <4>1
      <4>3. wire[c][u] \in Seq(Byte)
        BY <1>0, <2>0 DEF TypeOK
      <4>4. wire'[d][t] = wire[c][u] \o NextBytes(m, n)
        BY <2>0, <2>3
      <4>5. out'[s] \in {o, Kept(o)}
        BY <1>4
      <4>6. Stream(wire'[d][t], TRUE, Heard(c, u), out'[s])
        <5> DEFINE q == wire[c][u]
        <5> DEFINE y == Heard(c, u)
        <5> DEFINE x == out'[s]
        <5> DEFINE w == wire'[d][t]
        <5>1. q \in Seq(Byte) /\ y \in ReceiveSlot /\ Stream(q, TRUE, y, m) /\ w = q \o NextBytes(m, n)
              /\ x \in {o, Kept(o)}
          BY <1>9, <4>2, <4>3, <4>4, <4>5
        <5> HIDE DEF q, y, x, w
        <5>2. Stream(w, TRUE, y, x)
          BY <1>4, <2>0, <5>1, Appending
        <5> QED BY <5>2 DEF w, y, x
      <4>7. Said(d, Peer(t))' = out'[s]
        BY <1>0, <2>3 DEF Said
      <4>8. Live(d)' = TRUE
        BY <1>1, <2>3, <4>1 DEF Live
      <4> QED BY <1>5, <2>3, <4>6, <4>7, <4>8
    <3> QED BY <3>1, <3>2 DEF StreamOK
  <2> QED BY <1>0, <2>2, <2>3
<1> QED BY <1>4, <1>10, <1>11

-----------------------------------------------------------------------------
(* ... by a call that receives ...                                          *)

(* Who waits is not yet held by the Receiver.                               *)
LEMMA WaitsListening ==
  ASSUME HeldOK, NEW c \in Conns, Waits(c)
  PROVE  sock["Receiver"] = "listening" /\ sock["Receiver"] \notin Conns
<1>1. backlog # <<>>
  BY DEF Waits
<1> QED BY <1>1, ConnectionAssumption DEF HeldOK, Backlog

(* A receive changes only what its own side has read.                       *)
LEMMA ReceiveReads ==
  ASSUME Grounded, NEW s \in Sides, ReceiveCall(s), NEW d \in Conns
  PROVE  /\ Live(d)' <=> Live(d)
         /\ \A t \in Sides : /\ Reading(d, t)' => Reading(d, t)
                             /\ t # s \/ d # sock[s] => Heard(d, t)' = Heard(d, t)
                             /\ Said(d, t)' = Said(d, t)
<1>0. /\ UNCHANGED <<out, sock, ends, silent, backlog>> /\ OthersSame(s)
      /\ ~Beyond(s) /\ ~Beyond(s)'
  BY DEF ReceiveCall
<1>1. Live(d)' <=> Live(d)
  BY <1>0 DEF Live
<1>2. ~Abandoned(s)
  <2>1. PICK m \in ReceiveSlot : /\ m = in[s] \/ (IsVacant(in[s]) /\ m = BeginReceive(NoTag))
                                 /\ m.stage = "Receiving"
    BY DEF ReceiveCall
  <2> QED BY <1>0, <2>1 DEF Abandoned, Beyond, IsVacant, IsCompleted
<1>3. ASSUME NEW t \in Sides
      PROVE  /\ Reading(d, t)' => Reading(d, t)
             /\ t # s \/ d # sock[s] => Heard(d, t)' = Heard(d, t)
             /\ Said(d, t)' = Said(d, t)
  <2>1. CASE t = s
    BY <1>0, <1>2, <2>1 DEF Reading, Waits, Heard, Said
  <2>2. CASE t # s
    <3>1. (Abandoned(t)' <=> Abandoned(t)) /\ in'[t] = in[t]
      BY <1>0, <2>2 DEF OthersSame, Abandoned
    <3> QED BY <1>0, <3>1 DEF Reading, Waits, Heard, Said
  <2> QED BY <2>1, <2>2
<1> QED BY <1>1, <1>3

(* What a receive leaves of its slot when the side goes on reading.         *)
LEMMA ReceiveKeeps ==
  ASSUME Grounded, NEW s \in Sides, ReceiveCall(s), NEW d \in Conns, d = sock[s], Reading(d, s)',
         NEW o, in'[s] = IF Leaving(s) THEN o ELSE Kept(o)
  PROVE  /\ in'[s] = Kept(o) /\ Heard(d, s)' = Kept(o) /\ Heard(d, s) = in[s]
         /\ ~Leaving(s) \/ ~IsCompleted(o)
<1>0. UNCHANGED <<sock, backlog>> /\ HeldOK
  BY DEF ReceiveCall, Grounded
<1>1. ~Waits(d)' \/ s # "Receiver"
  <2>1. Waits(d)' => Waits(d)
    BY <1>0 DEF Waits
  <2> QED BY <1>0, <2>1, WaitsListening
<1>2. ~IsCompleted(in'[s])
  BY <1>1 DEF Reading, Abandoned
<1> QED BY <1>0, <1>2 DEF Kept, Heard

(* A receive keeps everything framed.                                       *)
LEMMA ReceiveFramed == ASSUME Grounded, Framed, NEW s \in Sides, ReceiveCall(s) PROVE Framed'
<1> DEFINE c == sock[s]
<1> DEFINE u == Peer(s)
<1>0. /\ UNCHANGED <<out, sock, ends, silent, backlog>> /\ OthersSame(s)
      /\ u \in Sides /\ u # s /\ Peer(u) = s /\ \A t \in Sides : t = s \/ t = u
      /\ TypeOK /\ HeldOK /\ LeavingOK /\ ~Beyond(s) /\ ~Beyond(s)'
  BY PeerFacts DEF ReceiveCall, Grounded, Control, Framed
<1>11. \A d \in Conns :
         /\ Live(d)' <=> Live(d)
         /\ \A t \in Sides : /\ Reading(d, t)' => Reading(d, t)
                             /\ t # s \/ d # sock[s] => Heard(d, t)' = Heard(d, t)
                             /\ Said(d, t)' = Said(d, t)
  BY ReceiveReads
<1>1. \A d \in Conns : Live(d)' <=> Live(d)
  BY <1>11
<1>2. LeavingOK'
  <2> SUFFICES ASSUME NEW t \in Sides, Leaving(t)', sock'[t] \in Conns PROVE (~Live(sock[t]))'
    BY DEF LeavingOK
  <2>1. Leaving(t) \/ (t = s /\ MayFail(s))
    BY DEF ReceiveCall, OthersSame, Leaving
  <2>2. ~Live(sock[t])
    BY <1>0, <2>1, FailsUnlive DEF LeavingOK
  <2> QED BY <1>0, <1>1, <2>2
<1>3. PICK m \in ReceiveSlot, o \in ReceiveSlot :
       /\ m = in[s] \/ (IsVacant(in[s]) /\ m = BeginReceive(NoTag))
       /\ m.stage = "Receiving"
       /\ (wire' = wire /\ o = m) \/ \E k : Receives(s, m, k, o)
       /\ in'[s] = IF Leaving(s) THEN o ELSE Kept(o)
  BY DEF ReceiveCall
<1>5. \A d \in Conns, t \in Sides : Reading(d, t)' => Reading(d, t)
  BY <1>11
<1>6. \A d \in Conns, t \in Sides : /\ t # s \/ d # c => Heard(d, t)' = Heard(d, t)
                                    /\ Said(d, t)' = Said(d, t)
  BY <1>11
<1>7. ASSUME NEW d \in Conns, NEW t \in Sides, t # s \/ d # c, wire'[d][t] = wire[d][t]
      PROVE  StreamOK(d, t)'
  BY <1>0, <1>1, <1>5, <1>6, <1>7, StreamSame DEF Framed
<1>8. ASSUME NEW d \in Conns, d = sock[s], Reading(d, s)'
      PROVE  /\ Stream(wire[d][s], Live(d), m, Said(d, u))
             /\ in'[s] = Kept(o) /\ Heard(d, s)' = Kept(o)
  <2>1. Stream(wire[d][s], Live(d), Heard(d, s), Said(d, u)) /\ Heard(d, s) = in[s]
    <3>1. Reading(d, s) /\ StreamOK(d, s)
      BY <1>5, <1>8 DEF Framed
    <3> QED BY <1>8, <3>1 DEF StreamOK, Heard
  <2>2. Stream(wire[d][s], Live(d), m, Said(d, u))
    <3>1. CASE m = in[s]
      BY <2>1, <3>1
    <3>2. CASE IsVacant(in[s]) /\ m = BeginReceive(NoTag)
      <4>1. in[s] = Empty
        BY <1>0, <3>2, SlotNumbers DEF Grounded, Control, SlotsOK
      <4>2. /\ Position(m) = 0 /\ m.hdr # HeaderSize /\ Position(in[s]) = 0 /\ in[s].hdr # HeaderSize
        BY <3>2, <4>1, SlotNumbers
      <4> QED BY <2>1, <4>2 DEF Stream, Expects, Awaited, Joins, Meet
    <3> QED BY <1>3, <3>1, <3>2
  <2>3. in'[s] = Kept(o) /\ Heard(d, s)' = Kept(o)
    BY <1>3, <1>8, ReceiveKeeps
  <2> QED BY <2>2, <2>3
<1>9. CASE wire' = wire /\ o = m
  <2> SUFFICES ASSUME NEW d \in Conns, NEW t \in Sides PROVE StreamOK(d, t)'
    BY <1>2 DEF Framed
  <2>1. CASE t # s \/ d # c
    BY <1>7, <1>9, <2>1
  <2>2. CASE d = c /\ t = s
    <3>1. s \notin ends'[d] => wire'[d][s] = <<>>
      BY <1>0, <1>9 DEF Framed, StreamOK
    <3>2. ASSUME Reading(d, s)' PROVE Stream(wire'[d][s], Live(d)', Heard(d, s)', Said(d, u)')
      <4>1. Kept(o) = m
        BY <1>3, <1>9 DEF Kept, IsCompleted
      <4>2. (Live(d)' <=> Live(d)) /\ Said(d, u)' = Said(d, u)
        BY <1>0, <1>1, <1>6
      <4>3. Stream(wire[d][s], Live(d), m, Said(d, u)) /\ Heard(d, s)' = m
        BY <1>8, <2>2, <3>2, <4>1
      <4> QED BY <1>9, <4>2, <4>3 DEF Stream
    <3> QED BY <1>0, <2>2, <3>1, <3>2 DEF StreamOK
  <2> QED BY <2>1, <2>2
<1>10. ASSUME NEW k, Receives(s, m, k, o) PROVE Framed'
  <2> SUFFICES ASSUME NEW d \in Conns, NEW t \in Sides PROVE StreamOK(d, t)'
    BY <1>2 DEF Framed
  <2>1. /\ Usable(s) /\ c \in Conns
        /\ wire'[d][t] = IF d = c /\ t = s
                         THEN SubSeq(wire[d][t], k + 1, Len(wire[d][t])) ELSE wire[d][t]
    BY <1>10 DEF Receives, Usable
  <2>2. CASE t # s \/ d # c
    BY <1>7, <2>1, <2>2
  <2>3. CASE d = c /\ t = s
    <3>1. s \in ends'[d]
      BY <1>0, <2>1, <2>3 DEF Usable
    <3>2. ASSUME Reading(d, s)' PROVE Stream(wire'[d][s], Live(d)', Heard(d, s)', Said(d, u)')
      <4>1. PICK h, p : Advances(m, wire[d][s], h, p, k, o)
        BY <1>10, <2>3 DEF Receives
      <4>2. (Live(d)' <=> Live(d)) /\ Said(d, u)' = Said(d, u)
        BY <1>0, <1>1, <1>6
      <4>3. Stream(wire[d][s], Live(d), m, Said(d, u)) /\ Heard(d, s)' = Kept(o)
        BY <1>8, <2>3, <3>2
      <4>4. wire[d][s] \in Seq(Byte) /\ Said(d, u) \in SendSlot /\ Live(d) \in BOOLEAN
        BY <1>0, SlotFacts DEF TypeOK, Said, Grounded, Control, SlotsOK, Live
      <4>5. wire'[d][s] = SubSeq(wire[d][s], k + 1, Len(wire[d][s]))
        BY <2>1, <2>3
      <4> DEFINE q == wire[d][s]
      <4> DEFINE live == Live(d)
      <4> DEFINE w == Said(d, u)
      <4> DEFINE v == wire'[d][s]
      <4>6. /\ q \in Seq(Byte) /\ live \in BOOLEAN /\ w \in SendSlot /\ Stream(q, live, m, w)
            /\ Advances(m, q, h, p, k, o) /\ v = SubSeq(q, k + 1, Len(q))
        BY <4>1, <4>3, <4>4, <4>5
      <4> HIDE DEF q, live, w, v
      <4>7. Stream(v, live, Kept(o), w)
        BY <4>6, Consuming
      <4> QED BY <4>2, <4>3, <4>7 DEF Stream, q, live, w, v
    <3> QED BY <1>0, <2>3, <3>1, <3>2 DEF StreamOK
  <2> QED BY <2>2, <2>3
<1> QED BY <1>3, <1>9, <1>10

-----------------------------------------------------------------------------
(* ... and by everything else: a connection is let go, opened, accepted or  *)
(* reset.                                                                   *)

(* Side s gives up its socket: what it held is no longer live, and nothing  *)
(* is added to any wire.                                                    *)
LetsGo(s) ==
  /\ sock'[s] = "none" /\ OthersSame(s)
  /\ \A t \in Sides : t # s => sock'[t] = sock[t]
  /\ ~Leaving(s)' /\ state'[s] = "Disconnected"
  /\ \A c \in Conns, t \in Sides :
       \/ wire'[c][t] = wire[c][t] /\ (t \in ends[c] => t \in ends'[c])
       \/ wire'[c][t] = <<>> /\ ~Live(c)'
  /\ \A c \in Conns : /\ Live(c)' => Live(c) /\ sock[s] # c
                      /\ Waits(c)' => Waits(c) /\ s = "Sender"

(* The Sender takes a connection that nobody holds.                         *)
Opens(c) ==
  /\ UNCHANGED <<pc, in, out, wire, silent>>
  /\ sock["Sender"] \notin Conns /\ in["Sender"] = Empty /\ out["Sender"] = Empty
  /\ ~Leaving("Sender")
  /\ ends[c] = {} /\ ~Waits(c) /\ \A t \in Sides : sock[t] # c
  /\ sock'["Receiver"] = sock["Receiver"] /\ state'["Receiver"] = state["Receiver"]
  /\ \/ /\ sock["Receiver"] = "listening" /\ backlog = <<>> /\ backlog' = <<c>>
        /\ sock'["Sender"] = c /\ state'["Sender"] = "ReadyForHandshake"
        /\ \A d \in Conns : ends'[d] = IF d = c THEN Sides ELSE ends[d]
     \/ UNCHANGED <<ends, backlog>> /\ (sock'["Sender"] = c \/ sock'["Sender"] = sock["Sender"])

(* The Receiver takes the connection that waits.                            *)
Accepts(c) ==
  /\ UNCHANGED <<pc, in, out>>
  /\ Waits(c) /\ sock["Receiver"] = "listening" /\ sock'["Receiver"] = c
  /\ in["Receiver"] = Empty /\ out["Receiver"] = Empty /\ ~Leaving("Receiver")
  /\ sock'["Sender"] = sock["Sender"] /\ state'["Sender"] = state["Sender"]
  /\ state'["Receiver"] = "ReadyForHandshake" /\ backlog' = <<>>
  /\ \A d \in Conns : /\ ends'[d] = ends[d] /\ (d \in silent' <=> d \in silent)
                      /\ \A t \in Sides : wire'[d][t] = wire[d][t]

(* Both ends of c are lost.                                                 *)
Resets(c) ==
  /\ UNCHANGED <<pc, in, out, sock, state, backlog>>
  /\ ends'[c] = {} /\ \A t \in Sides : wire'[c][t] = <<>>
  /\ \A d \in Conns : d # c => /\ ends'[d] = ends[d] /\ (d \in silent' <=> d \in silent)
                               /\ wire'[d] = wire[d]

(* close() lets go.                                                         *)
LEMMA CloseLets ==
  ASSUME Grounded, NEW s \in Sides, Close(s), sock' = [sock EXCEPT ![s] = "none"]
  PROVE  /\ sock'[s] = "none" /\ \A t \in Sides : t # s => sock'[t] = sock[t]
         /\ \A c \in Conns, t \in Sides :
              \/ wire'[c][t] = wire[c][t] /\ (t \in ends[c] => t \in ends'[c])
              \/ wire'[c][t] = <<>> /\ ~Live(c)'
         /\ \A c \in Conns : /\ Live(c)' => Live(c) /\ sock[s] # c
                             /\ Waits(c)' => Waits(c) /\ s = "Sender"
<1>0. /\ sock \in [Sides -> Conns \cup {"none", "listening"}] /\ Conns \cap {"none", "listening"} = {}
      /\ sock'[s] = "none" /\ (\A t \in Sides : t # s => sock'[t] = sock[t])
      /\ TypeOK /\ Bounded /\ HeldOK /\ Sides # {}
  BY ConnectionAssumption DEF Grounded, Control, TypeOK, Sides
<1>1. CASE sock[s] = "listening"
  <2>1. ResetBacklog({})
    BY <1>1 DEF Close
  <2>2. /\ backlog' = <<>>
        /\ \A c \in Conns :
              /\ ends'[c] = IF Waits(c) /\ c \notin {} THEN {} ELSE ends[c]
              /\ c \in silent' <=> c \in silent /\ ~(Waits(c) /\ c \notin {})
              /\ \A t \in Sides : wire'[c][t] = IF Waits(c) /\ c \notin {} THEN <<>> ELSE wire[c][t]
    BY <1>0, <2>1, ResetBacklogHeld
  <2>3. ASSUME NEW c \in Conns
        PROVE  /\ \A t \in Sides : \/ wire'[c][t] = wire[c][t] /\ (t \in ends[c] => t \in ends'[c])
                                   \/ wire'[c][t] = <<>> /\ ~Live(c)'
               /\ Live(c)' => Live(c) /\ sock[s] # c
               /\ ~Waits(c)'
    <3>1. sock[s] # c
      BY <1>0, <1>1
    <3>2. ~Waits(c)'
      BY <2>2 DEF Waits
    <3>3. CASE Waits(c)
      <4>1. ends'[c] = {} /\ \A t \in Sides : wire'[c][t] = <<>>
        BY <2>2, <3>3
      <4>2. ~Live(c)'
        BY <1>0, <4>1 DEF Live
      <4> QED BY <3>2, <4>1, <4>2
    <3>4. CASE ~Waits(c)
      <4>1. ends'[c] = ends[c] /\ (c \in silent' <=> c \in silent) /\ \A t \in Sides : wire'[c][t] = wire[c][t]
        BY <2>2, <3>4
      <4>2. Live(c)' => Live(c)
        BY <4>1 DEF Live
      <4> QED BY <3>1, <3>2, <4>1, <4>2
    <3> QED BY <3>3, <3>4
  <2> QED BY <1>0, <2>3
<1>2. CASE sock[s] = "none"
  <2>1. UNCHANGED <<wire, ends, silent, backlog>>
    BY <1>2 DEF Close, netVars
  <2>2. \A c \in Conns : Waits(c)' => Waits(c) /\ s = "Sender"
    <3> SUFFICES ASSUME NEW c \in Conns, Waits(c)' PROVE Waits(c) /\ s = "Sender"
      OBVIOUS
    <3>1. Waits(c)
      BY <2>1 DEF Waits
    <3> QED BY <1>0, <1>2, <3>1, WaitsListening DEF Sides
  <2>3. \A c \in Conns : Live(c)' => Live(c) /\ sock[s] # c
    BY <1>0, <1>2, <2>1 DEF Live
  <2> QED BY <1>0, <2>1, <2>2, <2>3
<1>3. CASE sock[s] \in Conns
  <2> DEFINE d == sock[s]
  <2>1. /\ ends' = [ends EXCEPT ![d] = IF d \in silent THEN {} ELSE @ \ {s}]
        /\ wire' = [wire EXCEPT ![d] =
                     [t \in Sides |-> IF t # s /\ t \in ends'[d] THEN @[t] ELSE <<>>]]
        /\ silent' = silent \ {d} /\ backlog' = backlog
    BY <1>0, <1>3 DEF Close
  <2>2. \A c \in Conns : Waits(c)' => Waits(c) /\ s = "Sender"
    <3> SUFFICES ASSUME NEW c \in Conns, Waits(c)' PROVE Waits(c) /\ s = "Sender"
      OBVIOUS
    <3>1. Waits(c)
      BY <2>1 DEF Waits
    <3> QED BY <1>0, <1>3, <3>1, WaitsListening DEF Sides
  <2>3. ASSUME NEW c \in Conns
        PROVE  /\ \A t \in Sides : \/ wire'[c][t] = wire[c][t] /\ (t \in ends[c] => t \in ends'[c])
                                   \/ wire'[c][t] = <<>> /\ ~Live(c)'
               /\ Live(c)' => Live(c) /\ sock[s] # c
    <3>1. CASE c # sock[s]
      <4>1. ends'[c] = ends[c] /\ wire'[c] = wire[c] /\ (c \in silent' <=> c \in silent)
        BY <1>0, <2>1, <3>1 DEF TypeOK
      <4> QED BY <3>1, <4>1 DEF Live
    <3>2. CASE c = sock[s]
      <4>1. ends'[c] = IF c \in silent THEN {} ELSE ends[c] \ {s}
        BY <1>0, <2>1, <3>2 DEF TypeOK
      <4>2. ~Live(c)'
        BY <4>1 DEF Live
      <4>3. \A t \in Sides : wire'[c][t] = IF t # s /\ t \in ends'[c] THEN wire[c][t] ELSE <<>>
        BY <1>0, <2>1, <3>2 DEF TypeOK
      <4> QED BY <4>2, <4>3
    <3> QED BY <3>1, <3>2
  <2> QED BY <1>0, <2>2, <2>3
<1> QED BY <1>0, <1>1, <1>2, <1>3

(* So do the end of disconnect(), a restart and a power loss.               *)
LEMMA LettingGo ==
  ASSUME Grounded, NEW s \in Sides, CloseAndReset(s) \/ Restart(s) \/ PowerLoss(s)
  PROVE  LetsGo(s)
<1>0. /\ pc \in [Sides -> Calls] /\ in \in [Sides -> Message] /\ out \in [Sides -> Message]
      /\ state \in [Sides -> States] /\ sock \in [Sides -> Conns \cup {"none", "listening"}]
      /\ back[s] \in {"tick", "request", "flush"} /\ HeldOK
  BY DEF Grounded, Control, TypeOK
<1>1. CASE CloseAndReset(s)
  <2>1. /\ Close(s) /\ sock' = [sock EXCEPT ![s] = "none"] /\ UNCHANGED <<in, out>>
        /\ state' = [state EXCEPT ![s] = "Disconnected"] /\ pc' = [pc EXCEPT ![s] = back[s]]
    BY <1>1 DEF CloseAndReset, SetState
  <2>2. OthersSame(s) /\ ~Leaving(s)' /\ state'[s] = "Disconnected"
    BY <1>0, <2>1 DEF OthersSame, Leaving
  <2> QED BY <2>1, <2>2, CloseLets DEF LetsGo
<1>2. ASSUME FreshSide(s)
      PROVE  /\ OthersSame(s) /\ ~Leaving(s)' /\ state'[s] = "Disconnected"
             /\ sock' = [sock EXCEPT ![s] = "none"]
  BY <1>0, <1>2 DEF FreshSide, SetState, OthersSame, Leaving
<1>3. CASE Restart(s)
  BY <1>2, <1>3, CloseLets DEF Restart, LetsGo
<1>4. CASE PowerLoss(s)
  <2>1. /\ FreshSide(s) /\ sock[s] \in Conns
        /\ silent' = silent \cup {sock[s]} /\ UNCHANGED <<wire, ends, backlog>>
    BY <1>4 DEF PowerLoss, Usable
  <2>2. \A c \in Conns : Waits(c)' => Waits(c) /\ s = "Sender"
    <3> SUFFICES ASSUME NEW c \in Conns, Waits(c)' PROVE Waits(c) /\ s = "Sender"
      OBVIOUS
    <3>1. Waits(c)
      BY <2>1 DEF Waits
    <3> QED BY <1>0, <2>1, <3>1, WaitsListening DEF Sides
  <2>3. \A c \in Conns : Live(c)' => Live(c) /\ sock[s] # c
    BY <2>1 DEF Live
  <2>4. sock'[s] = "none" /\ \A t \in Sides : t # s => sock'[t] = sock[t]
    BY <1>0, <1>2, <2>1
  <2> QED BY <1>2, <2>1, <2>2, <2>3, <2>4 DEF LetsGo
<1> QED BY <1>1, <1>3, <1>4

(* connect(), accept() and a reset.                                         *)
LEMMA Opening == Grounded /\ Connect => \E c \in Conns : Opens(c)
<1> SUFFICES ASSUME Grounded, Connect PROVE \E c \in Conns : Opens(c)
  OBVIOUS
<1> USE DEF Grounded, Control
<1>0. /\ UNCHANGED <<pc, in, out>>
      /\ pc["Sender"] = "tick" /\ state["Sender"] = "Disconnected" /\ CallOK("Sender")
      /\ sock["Sender"] \notin Conns /\ sock \in [Sides -> Conns \cup {"none", "listening"}]
      /\ state \in [Sides -> States] /\ "Sender" \in Sides /\ "Receiver" \in Sides
  BY DEF Connect, TriesToConnect, CallsOK, CallOK, Sides, TypeOK
<1>1. in["Sender"] = Empty /\ out["Sender"] = Empty /\ ~Leaving("Sender")
  BY <1>0, SlotNumbers DEF CallOK, Leaving, SlotsOK
<1> DEFINE c == CHOOSE d \in Conns : Free(d)
<1>2. c \in Conns /\ Free(c)
  BY FreeExists DEF Connect
<1>3. \/ /\ sock["Receiver"] = "listening" /\ backlog = <<>>
         /\ sock' = [sock EXCEPT !["Sender"] = c]
         /\ ends' = [ends EXCEPT ![c] = Sides]
         /\ backlog' = <<c>>
         /\ SetState("Sender", "ReadyForHandshake")
         /\ UNCHANGED <<wire, silent>>
      \/ /\ sock' = [sock EXCEPT !["Sender"] = c]
         /\ SetState("Sender", "ReadyForHandshake")
         /\ UNCHANGED netVars
      \/ UNCHANGED <<sock, state>> /\ UNCHANGED netVars
  BY DEF Connect
<1> HIDE DEF c
<1>4. ends[c] = {} /\ ~Waits(c) /\ \A s \in Sides : sock[s] # c
  <2>1. InBacklog(c) <=> Waits(c)
    BY <1>2, WaitingOnly DEF HeldOK
  <2> QED BY <1>2, <2>1 DEF Free
<1>5. /\ UNCHANGED <<wire, silent>>
      /\ sock'["Receiver"] = sock["Receiver"] /\ state'["Receiver"] = state["Receiver"]
  BY <1>0, <1>3 DEF SetState, netVars
<1>6. \/ /\ sock["Receiver"] = "listening" /\ backlog = <<>> /\ backlog' = <<c>>
         /\ sock'["Sender"] = c /\ state'["Sender"] = "ReadyForHandshake"
         /\ \A d \in Conns : ends'[d] = IF d = c THEN Sides ELSE ends[d]
      \/ UNCHANGED <<ends, backlog>> /\ (sock'["Sender"] = c \/ sock'["Sender"] = sock["Sender"])
  BY <1>0, <1>2, <1>3 DEF SetState, netVars, TypeOK
<1> QED BY <1>0, <1>1, <1>2, <1>4, <1>5, <1>6 DEF Opens

LEMMA Accepting == Grounded /\ Accept => NoCall \/ \E c \in Conns : Accepts(c)
<1> SUFFICES ASSUME Grounded, Accept PROVE NoCall \/ \E c \in Conns : Accepts(c)
  OBVIOUS
<1> USE DEF Grounded, Control
<1>0. /\ UNCHANGED <<pc, in, out>>
      /\ pc["Receiver"] = "tick" /\ state["Receiver"] = "Disconnected" /\ CallOK("Receiver")
      /\ sock["Receiver"] = "listening" /\ sock \in [Sides -> Conns \cup {"none", "listening"}]
      /\ state \in [Sides -> States] /\ "Sender" \in Sides /\ "Receiver" \in Sides
      /\ HeldOK /\ TypeOK /\ Bounded
  BY DEF Accept, TriesToConnect, CallsOK, CallOK, Sides, TypeOK
<1>1. in["Receiver"] = Empty /\ out["Receiver"] = Empty /\ ~Leaving("Receiver")
  BY <1>0, SlotNumbers, ConnectionAssumption DEF CallOK, Leaving, SlotsOK
<1>2. CASE backlog = <<>>
  <2>1. UNCHANGED <<sock, state, wire, ends, silent, backlog>>
    BY <1>2 DEF Accept, netVars
  <2> QED BY <1>0, <2>1 DEF NoCall, Leaving, Beyond
<1>3. CASE backlog # <<>>
  <2>1. PICK c \in Conns : backlog = <<c>>
    BY <1>0, <1>3 DEF HeldOK, Backlog
  <2>2. Head(backlog) = c /\ Waits(c) /\ \A d \in Conns : Waits(d) => d = c
    BY <2>1 DEF Waits
  <2>3. /\ sock' = [sock EXCEPT !["Receiver"] = c]
        /\ SetState("Receiver", "ReadyForHandshake")
        /\ ResetBacklog({c})
    BY <1>3, <2>2 DEF Accept
  <2>4. /\ backlog' = <<>>
        /\ \A d \in Conns :
              /\ ends'[d] = IF Waits(d) /\ d \notin {c} THEN {} ELSE ends[d]
              /\ d \in silent' <=> d \in silent /\ ~(Waits(d) /\ d \notin {c})
              /\ \A t \in Sides : wire'[d][t] = IF Waits(d) /\ d \notin {c} THEN <<>> ELSE wire[d][t]
    <3>1. {c} \in SUBSET Conns
      OBVIOUS
    <3> QED BY <1>0, <2>3, <3>1, ResetBacklogHeld
  <2>5. \A d \in Conns : /\ ends'[d] = ends[d] /\ (d \in silent' <=> d \in silent)
                         /\ \A t \in Sides : wire'[d][t] = wire[d][t]
    BY <2>2, <2>4
  <2>6. /\ sock'["Receiver"] = c /\ sock'["Sender"] = sock["Sender"]
        /\ state'["Receiver"] = "ReadyForHandshake" /\ state'["Sender"] = state["Sender"]
    BY <1>0, <2>3 DEF SetState
  <2>7. Accepts(c)
    BY <1>0, <1>1, <2>2, <2>4, <2>5, <2>6 DEF Accepts
  <2> QED BY <2>7
<1> QED BY <1>2, <1>3

LEMMA Resetting == ASSUME Grounded, NEW c \in Conns, Reset(c) PROVE Resets(c)
<1>1. /\ ends' = [ends EXCEPT ![c] = {}] /\ wire' = [wire EXCEPT ![c] = [s \in Sides |-> <<>>]]
      /\ silent' = silent \ {c} /\ UNCHANGED <<pc, in, out, sock, state, backlog>>
      /\ ends \in [Conns -> SUBSET Sides] /\ wire \in [Conns -> [Sides -> Seq(Byte)]]
  BY DEF Reset, sideVars, Grounded, Control, TypeOK
<1> QED BY <1>1 DEF Resets

(* Every step of the specification is one of these.                         *)
LEMMA Steps ==
  ASSUME Grounded, OutKindOK, [Next]_vars
  PROVE  \/ NoCall
         \/ \E s \in Sides : SendCall(s) \/ ReceiveCall(s) \/ DropIn(s) \/ DropOut(s) \/ LetsGo(s)
         \/ \E c \in Conns : Opens(c) \/ Accepts(c) \/ Resets(c)
<1>1. ASSUME NEW s \in Sides, CloseAndReset(s) \/ Restart(s) \/ PowerLoss(s) PROVE LetsGo(s)
  BY <1>1, LettingGo
<1>2. ASSUME NEW c \in Conns, Reset(c) PROVE Resets(c)
  BY <1>2, Resetting
<1> QED BY <1>1, <1>2, Kinds, Opening, Accepting

(* A step that adds nothing to c: what is on its wires stays or is          *)
(* discarded, readers may stop but none begins, and what stays live stays   *)
(* as it was.                                                               *)
Quiet(c) ==
  /\ \A t \in Sides :
       /\ Reading(c, t)' => Reading(c, t) /\ Heard(c, t)' = Heard(c, t)
       /\ Live(c)' => Said(c, t)' = Said(c, t)
       /\ \/ wire'[c][t] = wire[c][t] /\ (t \in ends[c] => t \in ends'[c])
          \/ wire'[c][t] = <<>> /\ ~Live(c)'
  /\ Live(c)' => Live(c) /\ state'["Sender"] = state["Sender"]
  /\ Reading(c, "Receiver")' => (Subscribed(c)' <=> Subscribed(c))

(* Such a step keeps the streams of c framed.                               *)
LEMMA QuietStream ==
  ASSUME NEW c \in Conns, Quiet(c), NEW t \in Sides, StreamOK(c, t) PROVE StreamOK(c, t)'
<1>1. Live(c)' => Live(c) /\ Said(c, Peer(t))' = Said(c, Peer(t))
  BY PeerFacts DEF Quiet
<1>2. CASE wire'[c][t] = wire[c][t] /\ (t \in ends[c] => t \in ends'[c])
  <2>1. Reading(c, t)' => Reading(c, t) /\ Heard(c, t)' = Heard(c, t)
    BY DEF Quiet
  <2> QED BY <1>1, <1>2, <2>1, StreamSame
<1>3. CASE wire'[c][t] = <<>> /\ ~Live(c)'
  BY <1>3, StreamGone
<1> QED BY <1>2, <1>3 DEF Quiet

(* The steps that are quiet on every connection, and, for the Sender's      *)
(* connect(), on every other one.                                           *)
LEMMA NoCallQuiet == ASSUME NoCall, NEW c \in Conns PROVE Quiet(c)
<1>1. Live(c)' <=> Live(c)
  BY DEF NoCall, Live
<1>2. ASSUME NEW t \in Sides
      PROVE /\ Reading(c, t)' => Reading(c, t) /\ Heard(c, t)' = Heard(c, t)
            /\ Said(c, t)' = Said(c, t)
            /\ wire'[c][t] = wire[c][t] /\ (t \in ends[c] => t \in ends'[c])
  <2>1. /\ sock'[t] = c <=> sock[t] = c
        /\ Beyond(t)' <=> Beyond(t)
        /\ UNCHANGED <<wire, in, out, ends, backlog>>
    BY DEF NoCall
  <2> QED BY <2>1 DEF Reading, Heard, Said, Abandoned, Beyond, Waits
<1>3. Subscribed(c)' <=> Subscribed(c)
  BY DEF NoCall, Subscribed, Sides
<1> QED BY <1>1, <1>2, <1>3 DEF Quiet, NoCall

LEMMA DropInQuiet ==
  ASSUME Grounded, NEW s \in Sides, DropIn(s), NEW c \in Conns PROVE Quiet(c)
<1>0. /\ pc' = [pc EXCEPT ![s] = "drainOut"] /\ in' = [in EXCEPT ![s] = Empty]
      /\ UNCHANGED <<wire, out, sock, ends, silent, backlog, state>>
      /\ in \in [Sides -> Message] /\ pc \in [Sides -> Calls] /\ HeldOK
  BY DEF DropIn, Grounded, Control, TypeOK
<1>1. Live(c)' <=> Live(c)
  BY <1>0 DEF Live
<1>2. ASSUME NEW t \in Sides
      PROVE /\ Reading(c, t)' => Reading(c, t) /\ Heard(c, t)' = Heard(c, t)
            /\ Said(c, t)' = Said(c, t)
  <2>1. Said(c, t)' = Said(c, t)
    BY <1>0 DEF Said
  <2>2. CASE t # s
    BY <1>0, <2>1, <2>2 DEF Reading, Heard, Abandoned, Waits
  <2>3. CASE t = s
    <3>1. Abandoned(t)'
      BY <1>0, <2>3 DEF Abandoned
    <3>2. Reading(c, t)' => Reading(c, t) /\ t = "Receiver" /\ Waits(c)
      BY <1>0, <3>1 DEF Reading, Waits
    <3>3. Reading(c, t)' => sock[t] # c
      BY <1>0, <3>2, WaitsListening
    <3> QED BY <1>0, <2>1, <3>2, <3>3 DEF Heard
  <2> QED BY <2>2, <2>3
<1> QED BY <1>0, <1>1, <1>2 DEF Quiet, Subscribed

LEMMA DropOutQuiet ==
  ASSUME Grounded, LeavingOK, NEW s \in Sides, DropOut(s), NEW c \in Conns PROVE Quiet(c)
<1>0. /\ pc[s] = "drainOut" /\ pc' = [pc EXCEPT ![s] = "close"] /\ out' = [out EXCEPT ![s] = Empty]
      /\ UNCHANGED <<wire, in, sock, ends, silent, backlog, state>>
      /\ out \in [Sides -> Message] /\ pc \in [Sides -> Calls]
  BY DEF DropOut, Grounded, Control, TypeOK
<1>1. Live(c)' <=> Live(c)
  BY <1>0 DEF Live
<1>2. Live(c) => sock[s] # c
  BY <1>0 DEF LeavingOK, Leaving
<1>3. ASSUME NEW t \in Sides
      PROVE /\ Reading(c, t)' => Reading(c, t) /\ Heard(c, t)' = Heard(c, t)
            /\ Live(c) => Said(c, t)' = Said(c, t)
  <2>1. Reading(c, t)' => Reading(c, t) /\ Heard(c, t)' = Heard(c, t)
    BY <1>0 DEF Reading, Abandoned, Waits, Heard
  <2>2. Live(c) => Said(c, t)' = Said(c, t)
    BY <1>0, <1>2 DEF Said
  <2> QED BY <2>1, <2>2
<1> QED BY <1>0, <1>1, <1>3 DEF Quiet, Subscribed

LEMMA LetsGoQuiet ==
  ASSUME Grounded, NEW s \in Sides, LetsGo(s), NEW c \in Conns PROVE Quiet(c)
<1>0. /\ sock'[s] = "none" /\ OthersSame(s) /\ c # "none" /\ HeldOK
      /\ \A t \in Sides : t # s => sock'[t] = sock[t]
      /\ Live(c)' => Live(c) /\ sock[s] # c
      /\ Waits(c)' => Waits(c) /\ s = "Sender"
  BY ConnectionAssumption DEF LetsGo, Grounded
<1>1. ASSUME NEW t \in Sides
      PROVE /\ Reading(c, t)' => Reading(c, t) /\ Heard(c, t)' = Heard(c, t) /\ t # s
            /\ Live(c)' => Said(c, t)' = Said(c, t)
  <2>1. CASE t = s
    <3>1. ~Reading(c, t)'
      BY <1>0, <2>1 DEF Reading, Sides
    <3>2. Live(c)' => Said(c, t) = Empty /\ Said(c, t)' = Empty
      BY <1>0, <2>1 DEF Said
    <3> QED BY <3>1, <3>2
  <2>2. CASE t # s
    <3>1. in'[t] = in[t] /\ out'[t] = out[t] /\ pc'[t] = pc[t] /\ sock'[t] = sock[t]
      BY <1>0, <2>2 DEF OthersSame
    <3> QED BY <1>0, <2>2, <3>1 DEF Reading, Heard, Said, Abandoned
  <2> QED BY <2>1, <2>2
<1>2. Live(c)' => s # "Sender"
  BY <1>0, LiveHeld
<1>3. Live(c)' => state'["Sender"] = state["Sender"]
  BY <1>0, <1>2 DEF OthersSame, Sides
<1>4. Reading(c, "Receiver")' => (Subscribed(c)' <=> Subscribed(c))
  BY <1>0, <1>1 DEF Subscribed, OthersSame, Sides
<1>5. \A t \in Sides : \/ wire'[c][t] = wire[c][t] /\ (t \in ends[c] => t \in ends'[c])
                       \/ wire'[c][t] = <<>> /\ ~Live(c)'
  BY DEF LetsGo
<1> QED BY <1>0, <1>1, <1>3, <1>4, <1>5 DEF Quiet

LEMMA OpensQuiet ==
  ASSUME NEW c \in Conns, Opens(c), NEW d \in Conns, d # c, HeldOK PROVE Quiet(d)
<1>0. /\ UNCHANGED <<pc, in, out, wire, silent>> /\ sock["Sender"] \notin Conns
      /\ \A t \in Sides : sock[t] # c
      /\ sock'["Receiver"] = sock["Receiver"] /\ state'["Receiver"] = state["Receiver"]
      /\ sock'["Sender"] = c \/ sock'["Sender"] = sock["Sender"]
  BY DEF Opens
<1>1. (Live(d)' => Live(d)) /\ (\A t \in Sides : t \in ends[d] <=> t \in ends'[d])
  BY <1>0 DEF Opens, Live
<1>2. ~Live(d)
  BY <1>0, LiveHeld
<1>3. Waits(d)' => Waits(d)
  <2>1. backlog' = <<c>> \/ backlog' = backlog
    BY DEF Opens
  <2>2. <<c>> # <<d>>
    OBVIOUS
  <2> QED BY <2>1, <2>2 DEF Waits
<1>4. ASSUME NEW t \in Sides
      PROVE Reading(d, t)' => Reading(d, t) /\ Heard(d, t)' = Heard(d, t)
  <2>1. sock'[t] = d <=> sock[t] = d
    BY <1>0 DEF Sides
  <2> QED BY <1>0, <1>3, <2>1 DEF Reading, Heard, Abandoned
<1>5. Subscribed(d)' <=> Subscribed(d)
  BY <1>0 DEF Subscribed
<1> QED BY <1>0, <1>1, <1>2, <1>4, <1>5 DEF Quiet

LEMMA AcceptsQuiet ==
  ASSUME NEW c \in Conns, Accepts(c), NEW d \in Conns PROVE Quiet(d)
<1>0. /\ UNCHANGED <<pc, in, out>>
      /\ Waits(c) /\ sock["Receiver"] = "listening" /\ sock'["Receiver"] = c
      /\ in["Receiver"] = Empty /\ out["Receiver"] = Empty /\ ~Leaving("Receiver")
      /\ sock'["Sender"] = sock["Sender"] /\ state'["Sender"] = state["Sender"]
      /\ state'["Receiver"] = "ReadyForHandshake"
      /\ ends'[d] = ends[d] /\ (d \in silent' <=> d \in silent)
      /\ \A t \in Sides : wire'[d][t] = wire[d][t]
      /\ ~Waits(d)' /\ d # "listening"
  BY ConnectionAssumption DEF Accepts, Waits
<1>1. Live(d)' <=> Live(d)
  BY <1>0 DEF Live
<1>2. ASSUME NEW t \in Sides
      PROVE /\ Reading(d, t)' => Reading(d, t)
            /\ Heard(d, t)' = Heard(d, t) /\ Said(d, t)' = Said(d, t)
  BY <1>0 DEF Reading, Abandoned, Heard, Said, Sides
<1>3. Subscribed(d)' <=> Subscribed(d)
  BY <1>0 DEF Subscribed
<1> QED BY <1>0, <1>1, <1>2, <1>3 DEF Quiet

LEMMA ResetsQuiet ==
  ASSUME NEW c \in Conns, Resets(c), NEW d \in Conns PROVE Quiet(d)
<1>0. /\ UNCHANGED <<pc, in, out, sock, state, backlog>>
      /\ d = c => ends'[d] = {} /\ \A t \in Sides : wire'[d][t] = <<>>
      /\ d # c => ends'[d] = ends[d] /\ (d \in silent' <=> d \in silent) /\ wire'[d] = wire[d]
  BY DEF Resets
<1>1. Live(d)' => Live(d) /\ d # c
  BY <1>0 DEF Live, Sides
<1>2. ASSUME NEW t \in Sides
      PROVE /\ Reading(d, t)' => Reading(d, t)
            /\ Heard(d, t)' = Heard(d, t) /\ Said(d, t)' = Said(d, t)
  BY <1>0 DEF Reading, Abandoned, Waits, Heard, Said
<1>3. Subscribed(d)' <=> Subscribed(d)
  BY <1>0 DEF Subscribed
<1> QED BY <1>0, <1>1, <1>2, <1>3 DEF Quiet

(* Who is leaving is leaving a connection that is not live.                 *)
LEMMA StepLeaving ==
  ASSUME LeavingOK, \A c \in Conns : Live(c)' => Live(c),
         \A t \in Sides : Leaving(t)' /\ sock'[t] \in Conns => Leaving(t) /\ sock'[t] = sock[t]
  PROVE  LeavingOK'
<1> SUFFICES ASSUME NEW t \in Sides, Leaving(t)', sock'[t] \in Conns PROVE (~Live(sock[t]))'
  BY DEF LeavingOK
<1>1. Leaving(t) /\ sock'[t] = sock[t]
  OBVIOUS
<1>2. ~Live(sock[t])
  BY <1>1 DEF LeavingOK
<1> QED BY <1>1, <1>2

(* All other steps keep everything framed.                                  *)
LEMMA OthersFramed ==
  ASSUME Grounded, Framed,
         \/ NoCall
         \/ \E s \in Sides : DropIn(s) \/ DropOut(s) \/ LetsGo(s)
         \/ \E c \in Conns : Accepts(c) \/ Resets(c)
  PROVE  /\ Framed'
         /\ \A c \in Conns : Quiet(c)
<1>1. LeavingOK /\ HeldOK /\ pc \in [Sides -> Calls]
  BY DEF Framed, Grounded, Control, TypeOK
<1>2. \A c \in Conns : Quiet(c)
  BY <1>1, NoCallQuiet, DropInQuiet, DropOutQuiet, LetsGoQuiet, AcceptsQuiet, ResetsQuiet
<1>3. \A t \in Sides : Leaving(t)' /\ sock'[t] \in Conns => Leaving(t) /\ sock'[t] = sock[t]
  <2> SUFFICES ASSUME NEW t \in Sides, Leaving(t)', sock'[t] \in Conns
               PROVE  Leaving(t) /\ sock'[t] = sock[t]
    OBVIOUS
  <2>1. CASE NoCall
    BY <2>1 DEF NoCall
  <2>2. ASSUME NEW s \in Sides, DropIn(s) \/ DropOut(s) PROVE Leaving(t) /\ sock'[t] = sock[t]
    BY <1>1, <2>2 DEF DropIn, DropOut, Leaving
  <2>3. ASSUME NEW s \in Sides, LetsGo(s) PROVE Leaving(t) /\ sock'[t] = sock[t]
    BY <2>3, ConnectionAssumption DEF LetsGo, OthersSame, Leaving
  <2>4. ASSUME NEW c \in Conns, Accepts(c) PROVE Leaving(t) /\ sock'[t] = sock[t]
    BY <2>4 DEF Accepts, Leaving, Sides
  <2>5. ASSUME NEW c \in Conns, Resets(c) PROVE Leaving(t) /\ sock'[t] = sock[t]
    BY <2>5 DEF Resets, Leaving
  <2> QED BY <2>1, <2>2, <2>3, <2>4, <2>5
<1>4. LeavingOK'
  BY <1>1, <1>2, <1>3, StepLeaving DEF Quiet
<1>5. \A c \in Conns, t \in Sides : StreamOK(c, t)'
  BY <1>2, QuietStream DEF Framed
<1> QED BY <1>2, <1>4, <1>5 DEF Framed

LEMMA OpensFramed == ASSUME Grounded, Framed, NEW c \in Conns, Opens(c) PROVE Framed'
<1>0. /\ UNCHANGED <<pc, in, out, wire, silent>>
      /\ sock["Sender"] \notin Conns /\ in["Sender"] = Empty /\ out["Sender"] = Empty
      /\ ~Leaving("Sender") /\ ends[c] = {} /\ \A t \in Sides : sock[t] # c
      /\ sock'["Receiver"] = sock["Receiver"] /\ HeldOK
      /\ "Sender" \in Sides /\ "Receiver" \in Sides
  BY DEF Opens, Sides, Grounded
<1>1. \A d \in Conns : d # c => Quiet(d)
  BY <1>0, OpensQuiet
<1>2. LeavingOK'
  <2> SUFFICES ASSUME NEW t \in Sides, Leaving(t)', sock'[t] \in Conns PROVE (~Live(sock[t]))'
    BY DEF LeavingOK
  <2>1. Leaving(t) /\ t = "Receiver" /\ sock'[t] = sock[t] /\ sock[t] # c
    BY <1>0 DEF Leaving, Sides
  <2>2. ~Live(sock[t])
    BY <2>1 DEF Framed, LeavingOK
  <2> QED BY <1>1, <2>1, <2>2 DEF Quiet
<1>3. \A d \in Conns, t \in Sides : d # c => StreamOK(d, t)'
  BY <1>1, QuietStream DEF Framed
<1>4. ASSUME NEW t \in Sides PROVE StreamOK(c, t)'
  <2>1. wire'[c][t] = <<>>
    BY <1>0 DEF Framed, StreamOK
  <2>2. Heard(c, t)' = Empty /\ Said(c, Peer(t))' = Empty
    BY <1>0 DEF Heard, Said, Peer, Sides
  <2> QED BY <2>1, <2>2, StreamFresh
<1> QED BY <1>2, <1>3, <1>4 DEF Framed

(* Every step keeps everything framed.                                      *)
LEMMA StepFramed == Grounded /\ OutKindOK /\ Framed /\ [Next]_vars => Framed'
<1> SUFFICES ASSUME Grounded, OutKindOK, Framed, [Next]_vars PROVE Framed'
  OBVIOUS
<1>1. ASSUME NEW s \in Sides, SendCall(s) \/ ReceiveCall(s) PROVE Framed'
  BY <1>1, SendFramed, ReceiveFramed
<1>2. ASSUME NEW c \in Conns, Opens(c) PROVE Framed'
  BY <1>2, OpensFramed
<1> QED BY <1>1, <1>2, Steps, OthersFramed

-----------------------------------------------------------------------------
(* The protocol: which kind of message each slot and each wire holds.       *)

(* t is q with n bytes of the message in slot m.                            *)
Adds(q, m, n, t) ==
  /\ Len(t) = Len(q) + n /\ Len(q) \in Nat
  /\ \A i \in 1 .. Len(t) : IF i <= Len(q) THEN i \in 1 .. Len(q) /\ t[i] = q[i]
                            ELSE t[i].tag = m.tag /\ t[i].size = m.size

LEMMA Appended ==
  ASSUME NEW q \in Seq(Byte), NEW m \in SendSlot, NEW n \in Nat, NEW t, t = q \o NextBytes(m, n)
  PROVE  Adds(q, m, n, t)
<1> SUFFICES /\ Len(t) = Len(q) + n /\ Len(q) \in Nat
             /\ \A i \in 1 .. Len(t) : IF i <= Len(q) THEN i \in 1 .. Len(q) /\ t[i] = q[i]
                                       ELSE t[i].tag = m.tag /\ t[i].size = m.size
  BY DEF Adds
<1> DEFINE b == NextBytes(m, n)
<1>1. /\ b \in Seq(Byte) /\ Len(b) = n
      /\ \A i \in 1 .. n : b[i].tag = m.tag /\ b[i].size = m.size
  BY BytesOf
<1> HIDE DEF b
<1>2. /\ q \o b \in Seq(Byte) /\ Len(q \o b) = Len(q) + Len(b)
      /\ \A i \in 1 .. Len(q) + Len(b) : (q \o b)[i] =
                     IF i <= Len(q) THEN q[i] ELSE b[i - Len(q)]
  BY <1>1, ConcatProperties
<1>3. t = q \o b
  BY DEF b
<1>6. Len(q) \in Nat
  OBVIOUS
<1>4. \A i \in 1 .. Len(q) + n : ~(i <= Len(q)) => i - Len(q) \in 1 .. n
  BY <1>6
<1>5. \A i \in 1 .. Len(q) + n : i <= Len(q) => i \in 1 .. Len(q)
  BY <1>6
<1> QED BY <1>1, <1>2, <1>3, <1>4, <1>5, <1>6

(* A send keeps the kind of its slot, unless it completes a message and     *)
(* vacates it; no other step changes a slot or the state it goes with.      *)
LEMMA KindsKept == ASSUME OutKindOK, Grounded, NEW s \in Sides, SendCall(s) PROVE OutKindOK'
<1> SUFFICES ASSUME NEW t \in Sides, ~IsVacant(out'[t]), sock'[t] \in Conns
             PROVE  KindOf(t, out[t])'
  BY DEF OutKindOK
<1>0. sock' = sock /\ OthersSame(s)
  BY DEF SendCall
<1>1. PICK m \in SendSlot, o \in SendSlot :
       /\ m.stage = "Sending"
       /\ sock[s] \in Conns => KindOf(s, m)
       /\ (wire' = wire /\ o = m) \/ \E n : Sends(s, m, n, o)
       /\ out'[s] = Kept(o) \/ (out'[s] = o /\ Leaving(s))
       /\ state'[s] = IF /\ s = "Sender" /\ state[s] = "ReadyForHandshake"
                         /\ IsCompleted(o) /\ ~Leaving(s)
                      THEN "ReadyForFields" ELSE state[s]
  BY DEF SendCall
<1>2. o.tag = m.tag /\ o.size = m.size
  BY <1>1 DEF Sends
<1>3. CASE t = s
  <2>1. KindOf(s, m)
    BY <1>0, <1>1, <1>3
  <2>2. out'[s] = o /\ (~IsCompleted(o) \/ Leaving(s))
    BY <1>1, <1>3, SlotFacts DEF Kept
  <2>3. state'[s] = state[s]
    BY <1>1, <2>2
  <2> QED BY <1>2, <1>3, <2>1, <2>2, <2>3 DEF KindOf, Request, Subscribe, Fields, Sides
<1>4. CASE t # s
  <2>1. out'[t] = out[t] /\ state'[t] = state[t] /\ KindOf(t, out[t])
    BY <1>0, <1>4 DEF OthersSame, OutKindOK
  <2> QED BY <1>4, <2>1 DEF KindOf, Request, Subscribe, Fields, Sides
<1> QED BY <1>3, <1>4

LEMMA OthersKinds ==
  ASSUME Grounded, OutKindOK,
         \/ NoCall
         \/ \E s \in Sides : ReceiveCall(s) \/ DropIn(s) \/ DropOut(s) \/ LetsGo(s)
         \/ \E c \in Conns : Opens(c) \/ Accepts(c) \/ Resets(c)
  PROVE  OutKindOK'
<1> SUFFICES ASSUME NEW t \in Sides, ~IsVacant(out'[t]), sock'[t] \in Conns
             PROVE  KindOf(t, out[t])'
  BY DEF OutKindOK
<1>0. IsVacant(Empty) /\ out \in [Sides -> Message] /\ "none" \notin Conns
  BY SlotFacts, ConnectionAssumption DEF Grounded, Control, TypeOK
<1>1. ASSUME sock[t] \in Conns, out'[t] = out[t], t = "Sender" => state'[t] = state[t]
      PROVE  KindOf(t, out[t])'
  <2>1. KindOf(t, out[t])
    BY <1>1 DEF OutKindOK
  <2> QED BY <1>1, <2>1 DEF KindOf, Request, Subscribe, Fields, Sides
<1>2. CASE NoCall
  BY <1>1, <1>2 DEF NoCall
<1>3. ASSUME NEW s \in Sides, ReceiveCall(s) PROVE KindOf(t, out[t])'
  <2>1. sock'[t] = sock[t] /\ out'[t] = out[t] /\ (t = "Sender" => state'[t] = state[t])
    BY <1>3 DEF ReceiveCall, OthersSame, Sides
  <2> QED BY <1>1, <2>1
<1>4. ASSUME NEW s \in Sides, DropIn(s) PROVE KindOf(t, out[t])'
  BY <1>1, <1>4 DEF DropIn
<1>5. ASSUME NEW s \in Sides, DropOut(s) PROVE KindOf(t, out[t])'
  <2>1. t # s /\ out'[t] = out[t] /\ sock' = sock /\ state' = state
    BY <1>0, <1>5 DEF DropOut
  <2> QED BY <1>1, <2>1
<1>6. ASSUME NEW s \in Sides, LetsGo(s) PROVE KindOf(t, out[t])'
  <2>1. t # s
    BY <1>0, <1>6 DEF LetsGo
  <2> QED BY <1>1, <1>6, <2>1 DEF LetsGo, OthersSame
<1>7. ASSUME NEW c \in Conns, Opens(c) PROVE KindOf(t, out[t])'
  <2>1. t = "Receiver"
    BY <1>0, <1>7 DEF Opens, Sides
  <2> QED BY <1>1, <1>7, <2>1 DEF Opens
<1>8. ASSUME NEW c \in Conns, Accepts(c) PROVE KindOf(t, out[t])'
  <2>1. t = "Sender"
    BY <1>0, <1>8 DEF Accepts, Sides
  <2> QED BY <1>1, <1>8, <2>1 DEF Accepts
<1>9. ASSUME NEW c \in Conns, Resets(c) PROVE KindOf(t, out[t])'
  BY <1>1, <1>9 DEF Resets
<1> QED BY <1>2, <1>3, <1>4, <1>5, <1>6, <1>7, <1>8, <1>9

(* Requests on a connection that a step leaves alone.                       *)
LEMMA QuietRequests == ASSUME NEW c \in Conns, Quiet(c), RequestsOK(c) PROVE RequestsOK(c)'
<1> SUFFICES ASSUME Reading(c, "Sender")'
             PROVE  /\ \A i \in 1 .. Len(wire'[c]["Sender"]) : Request(wire'[c]["Sender"][i])
                    /\ Heard(c, "Sender")'.hdr = HeaderSize => Request(Heard(c, "Sender")')
  BY DEF RequestsOK, Request
<1>1. /\ Reading(c, "Sender") /\ Heard(c, "Sender")' = Heard(c, "Sender")
      /\ wire'[c]["Sender"] = wire[c]["Sender"] \/ wire'[c]["Sender"] = <<>>
  BY DEF Quiet, Sides
<1>2. /\ \A i \in 1 .. Len(wire[c]["Sender"]) : Request(wire[c]["Sender"][i])
      /\ Heard(c, "Sender").hdr = HeaderSize => Request(Heard(c, "Sender"))
  BY <1>1 DEF RequestsOK
<1>3. \A i \in 1 .. Len(<<>>) : FALSE
  OBVIOUS
<1> QED BY <1>1, <1>2, <1>3

(* AnswersOK, of what a Receiver reads: the stream q, its slot m, whether   *)
(* it has finished the handshake, whether the connection is live, and the   *)
(* Sender's state and slot.                                                 *)
Agreed(q, m, subscribed, live, st, x) ==
  IF subscribed
  THEN /\ Answers(q, 0)
       /\ m.hdr = HeaderSize => Fields(m)
       /\ live => st = "ReadyForFields"
  ELSE /\ Answers(q, Left(m))
       /\ m.hdr = HeaderSize => Subscribe(m)
       /\ Left(m) > 0
       /\ live => IF st = "ReadyForFields" THEN Len(q) >= Left(m)
                  ELSE Len(q) + Position(m) = Position(x)

LEMMA AnswersMeans ==
  ASSUME NEW c \in Conns
  PROVE  AnswersOK(c) <=>
           (Reading(c, "Receiver") =>
              Agreed(wire[c]["Receiver"], Heard(c, "Receiver"), Subscribed(c), Live(c),
                     state["Sender"], out["Sender"]))
BY DEF AnswersOK, Agreed

LEMMA AnswersMean ==
  ASSUME NEW c \in Conns
  PROVE  AnswersOK(c)' <=>
           (Reading(c, "Receiver")' =>
              Agreed(wire'[c]["Receiver"], Heard(c, "Receiver")', Subscribed(c)', Live(c)',
                     state'["Sender"], out'["Sender"]))
BY DEF AnswersOK, Agreed, Left, Answers, Fields, Subscribe, Position

(* A connection that stays as it is, that loses its stream, ...             *)
LEMMA AgreedSame ==
  ASSUME NEW q, NEW m, NEW b, NEW live, NEW st, NEW x, Agreed(q, m, b, live, st, x),
         NEW live2, NEW st2, NEW x2, live2 => live /\ st2 = st /\ Position(x2) = Position(x)
  PROVE  Agreed(q, m, b, live2, st2, x2)
BY DEF Agreed

LEMMA AgreedNothing ==
  ASSUME NEW q, NEW m, NEW b, NEW live, NEW st, NEW x, Agreed(q, m, b, live, st, x),
         NEW st2, NEW x2, NEW live2, ~live2
  PROVE  Agreed(<<>>, m, b, live2, st2, x2)
<1>1. \A n : Answers(<<>>, n)
  BY DEF Answers
<1> QED BY <1>1 DEF Agreed

(* ... to which the Sender, in state st with slot x, sends n bytes of the   *)
(* message m it begins or carries on, ...                                   *)
Answering(q, y, x, m, st) ==
  /\ q \in Seq(Byte) /\ y \in ReceiveSlot /\ x \in SendSlot /\ m \in SendSlot
  /\ m.stage = "Sending"
  /\ m = x \/ (IsVacant(x) /\ Position(m) = 0)
  /\ st \in {"ReadyForHandshake", "ReadyForFields"}
  /\ IF st = "ReadyForFields" THEN Fields(m) ELSE Subscribe(m)

Answered(q, m, st, n, o, t, st2, x2) ==
  /\ n \in Nat /\ o \in SendSlot /\ o.size = m.size /\ Position(o) = Position(m) + n
  /\ t = q \o NextBytes(m, n)
  /\ st2 = IF st = "ReadyForHandshake" /\ IsCompleted(o) THEN "ReadyForFields" ELSE st
  /\ x2 = Kept(o)

LEMMA AgreedSend ==
  ASSUME NEW q, NEW y, NEW b, NEW st, NEW x, NEW m, Answering(q, y, x, m, st),
         Agreed(q, y, b, TRUE, st, x),
         NEW n, NEW o, NEW t, NEW st2, NEW x2, Answered(q, m, st, n, o, t, st2, x2)
  PROVE  Agreed(t, y, b, TRUE, st2, x2)
<1>0. /\ q \in Seq(Byte) /\ y \in ReceiveSlot /\ x \in SendSlot /\ m \in SendSlot
      /\ m.stage = "Sending"
      /\ m = x \/ (IsVacant(x) /\ Position(m) = 0)
      /\ st \in {"ReadyForHandshake", "ReadyForFields"}
      /\ IF st = "ReadyForFields" THEN Fields(m) ELSE Subscribe(m)
      /\ n \in Nat /\ o \in SendSlot /\ o.size = m.size /\ Position(o) = Position(m) + n
      /\ t = q \o NextBytes(m, n)
      /\ st2 = IF st = "ReadyForHandshake" /\ IsCompleted(o) THEN "ReadyForFields" ELSE st
      /\ x2 = Kept(o)
  BY DEF Answering, Answered
<1> DEFINE P == Position(m)
<1> DEFINE R == Position(o)
<1> DEFINE L == Left(y)
<1> DEFINE Y == Position(y)
<1> DEFINE a == Len(q)
<1> DEFINE W == HeaderSize + SubscribeSize
<1>1. /\ Len(t) = a + n /\ a \in Nat
      /\ \A i \in 1 .. Len(t) : IF i <= a THEN i \in 1 .. a /\ t[i] = q[i]
                                ELSE t[i].tag = m.tag /\ t[i].size = m.size
  <2>1. Adds(q, m, n, t)
    BY <1>0, Appended
  <2> QED BY <2>1 DEF Adds
<1>2. /\ P \in Nat /\ R \in Nat /\ Y \in Nat /\ W \in Nat /\ R = P + n /\ L = W - Y /\ n \in Nat
      /\ Position(x) = P
  BY <1>0, SlotNumbers, ConnectionAssumption DEF Left
<1>3. CASE st = "ReadyForFields"
  <2>1. Fields(m) /\ st2 = st
    BY <1>0, <1>3
  <2>2. ASSUME NEW left \in Int, Answers(q, left), left <= a PROVE Answers(t, left)
    <3> SUFFICES ASSUME NEW i \in 1 .. Len(t) PROVE IF i <= left THEN Subscribe(t[i]) ELSE Fields(t[i])
      BY DEF Answers
    <3>1. CASE i <= a
      BY <1>1, <2>2, <3>1 DEF Answers
    <3>2. CASE ~(i <= a)
      <4>1. ~(i <= left)
        <5> HIDE DEF a
        <5>1. i \in Int
          BY <1>1, <1>2
        <5> QED BY <1>1, <2>2, <3>2, <5>1
      <4>2. Fields(t[i])
        BY <1>1, <2>1, <3>2 DEF Fields
      <4> QED BY <4>1, <4>2
    <3> QED BY <3>1, <3>2
  <2>3. CASE b
    <3>1. Answers(q, 0) /\ (y.hdr = HeaderSize => Fields(y))
      BY <2>3 DEF Agreed
    <3>2. Answers(t, 0)
      BY <1>1, <2>2, <3>1
    <3> QED BY <1>3, <2>1, <2>3, <3>1, <3>2 DEF Agreed
  <2>4. CASE ~b
    <3>1. Answers(q, L) /\ (y.hdr = HeaderSize => Subscribe(y)) /\ L > 0 /\ a >= L
      BY <1>3, <2>4 DEF Agreed
    <3> HIDE DEF L, a
    <3>2. L \in Int /\ L <= a /\ a + n >= L
      BY <1>1, <1>2, <3>1
    <3>3. Answers(t, L)
      BY <2>2, <3>1, <3>2 DEF a
    <3> QED BY <1>1, <1>3, <2>1, <2>4, <3>1, <3>2, <3>3 DEF Agreed, L
  <2> QED BY <2>3, <2>4
<1>4. CASE st = "ReadyForHandshake"
  <2>1. Subscribe(m) /\ st # "ReadyForFields"
    BY <1>0, <1>4
  <2>2. ~b /\ Answers(q, L) /\ (y.hdr = HeaderSize => Subscribe(y)) /\ L > 0 /\ a + Y = P
    BY <1>0, <1>2, <2>1 DEF Agreed
  <2>3. Whole(m) = W /\ Whole(o) = W
    BY <1>0, <2>1 DEF Whole, Subscribe
  <2>4. P < W /\ R <= W /\ (IsCompleted(o) => R = W)
    <3>1. Position(m) < Whole(m)
      BY <1>0, SlotNumbers
    <3>2. IsCompleted(o) => R = W
      BY <1>0, <2>3, SlotNumbers
    <3>3. o.stage = "Sending" => R < W
      BY <1>0, <2>3, SlotNumbers
    <3>4. o.stage = "Vacant" => R = 0
      BY <1>0, SlotNumbers DEF IsVacant
    <3>5. o.stage \in {"Vacant", "Sending", "Completed"}
      BY <1>0 DEF SendSlot
    <3> HIDE DEF P, R, W
    <3> QED BY <1>2, <2>3, <3>1, <3>2, <3>3, <3>4, <3>5 DEF IsCompleted, P
  <2> DEFINE N == a + n
  <2>5. N <= L /\ N + Y = R /\ N \in Nat /\ L \in Int
    <3>1. a \in Nat /\ n \in Nat
      BY <1>1, <1>2
    <3> HIDE DEF P, R, W, L, Y, a
    <3> QED BY <1>2, <2>2, <2>4, <3>1
  <2>6. Answers(t, L)
    <3> SUFFICES ASSUME NEW i \in 1 .. Len(t) PROVE IF i <= L THEN Subscribe(t[i]) ELSE Fields(t[i])
      BY DEF Answers
    <3>1. CASE i <= a
      BY <1>1, <2>2, <3>1 DEF Answers
    <3>2. CASE ~(i <= a)
      <4>1. i <= L
        <5> HIDE DEF a, L
        <5>1. i \in 1 .. N
          BY <1>1
        <5> HIDE DEF N
        <5> QED BY <2>5, <5>1
      <4>2. Subscribe(t[i])
        BY <1>1, <2>1, <3>2 DEF Subscribe
      <4> QED BY <4>1, <4>2
    <3> QED BY <3>1, <3>2
  <2>7. CASE IsCompleted(o)
    <3>1. st2 = "ReadyForFields" /\ R = W
      BY <1>0, <1>4, <2>4, <2>7
    <3>2. N >= L
      <4> HIDE DEF P, R, W, L, Y, a, N
      <4> QED BY <1>2, <2>5, <3>1
    <3> QED BY <1>1, <2>2, <2>6, <3>1, <3>2 DEF Agreed
  <2>8. CASE ~IsCompleted(o)
    <3>1. st2 = st /\ x2 = o
      BY <1>0, <2>8 DEF Kept
    <3> QED BY <1>1, <2>1, <2>2, <2>5, <2>6, <3>1 DEF Agreed
  <2> QED BY <2>7, <2>8
<1> QED BY <1>0, <1>3, <1>4

(* ... or from which the Receiver takes k bytes, and with the last of the   *)
(* Subscribe message finishes the handshake.                                *)
Taking(q, m, k, o, t) ==
  /\ q \in Seq(Byte) /\ Run(q) /\ Expects(m, q)
  /\ \E h, p : Advances(m, q, h, p, k, o)
  /\ t = SubSeq(q, k + 1, Len(q))

LEMMA AgreedReceive ==
  ASSUME NEW q, NEW m, NEW k, NEW o, NEW t, Taking(q, m, k, o, t),
         NEW b \in BOOLEAN, NEW live \in BOOLEAN, NEW st, NEW x \in SendSlot,
         Agreed(q, m, b, live, st, x),
         live /\ st # "ReadyForFields" => Position(x) < HeaderSize + SubscribeSize,
         NEW b2 \in BOOLEAN, b2 <=> b \/ IsCompleted(o)
  PROVE  Agreed(t, Kept(o), b2, live, st, x)
<1>0. /\ q \in Seq(Byte) /\ Run(q) /\ Expects(m, q)
      /\ t = SubSeq(q, k + 1, Len(q))
  BY DEF Taking
<1> PICK h, p : Advances(m, q, h, p, k, o)
  BY DEF Taking
<1> DEFINE a == Len(q)
<1> DEFINE P == Position(m)
<1> DEFINE R == Position(o)
<1> DEFINE L == Left(m)
<1> DEFINE X == Position(x)
<1> DEFINE W == HeaderSize + SubscribeSize
<1>1. /\ k = 0 => ~IsCompleted(o) /\ R = P /\ o.hdr = m.hdr
                  /\ (o.hdr = HeaderSize => o.tag = m.tag /\ o.size = m.size)
      /\ k > 0 => (o.hdr = HeaderSize => o.tag = q[1].tag /\ o.size = q[1].size)
  BY <1>0, ReceiveFollows
<1>2. /\ k \in 0 .. a /\ m \in ReceiveSlot /\ o \in ReceiveSlot /\ R = P + k
      /\ o.stage \in {"Receiving", "Completed"}
  BY DEF Advances
<1>3. /\ t \in Seq(Byte) /\ Len(t) = a - k
      /\ \A i \in 1 .. Len(t) : t[i] = q[k + i] /\ k + i \in 1 .. a
  BY <1>0, <1>2, Consumed
<1>4. /\ P \in Nat /\ R \in Nat /\ X \in Nat /\ W \in Nat /\ a \in Nat /\ k \in Nat /\ k <= a
      /\ L \in Int /\ L = W - P /\ Left(o) = W - R /\ Left(Empty) = W /\ W > 0
  <2>1. P \in Nat /\ R \in Nat /\ X \in Nat /\ HeaderSize \in Nat /\ HeaderSize > 0 /\ Position(Empty) = 0
    BY <1>2, SlotNumbers
  <2>2. a \in Nat /\ SubscribeSize \in Nat
    BY <1>0, ConnectionAssumption
  <2>3. L = W - P /\ Left(o) = W - R /\ Left(Empty) = W - Position(Empty)
    <3> HIDE DEF P, R
    <3>1. L = W - P
      BY DEF Left, P
    <3>2. Left(o) = W - R
      BY DEF Left, R
    <3>3. Left(Empty) = W - Position(Empty)
      BY DEF Left
    <3> QED BY <3>1, <3>2, <3>3
  <2>4. k \in 0 .. a
    BY <1>2
  <2> HIDE DEF a, P, R, L, X
  <2>5. W \in Nat /\ W > 0
    BY <2>1, <2>2
  <2>6. k \in Nat /\ k <= a
    BY <2>2, <2>4
  <2> HIDE DEF W
  <2>7. L \in Int /\ Left(Empty) = W
    BY <2>1, <2>3, <2>5
  <2> QED BY <2>1, <2>2, <2>3, <2>5, <2>6, <2>7
<1>5. ASSUME NEW left \in Int, NEW rest \in Int, Answers(q, left), \A i \in Nat : i <= rest <=> k + i <= left
      PROVE  Answers(t, rest)
  <2> SUFFICES ASSUME NEW i \in 1 .. Len(t) PROVE IF i <= rest THEN Subscribe(t[i]) ELSE Fields(t[i])
    BY DEF Answers
  <2>1. t[i] = q[k + i] /\ k + i \in 1 .. Len(q) /\ i \in Nat
    BY <1>3
  <2>2. i <= rest <=> k + i <= left
    BY <1>5, <2>1
  <2>3. IF k + i <= left THEN Subscribe(q[k + i]) ELSE Fields(q[k + i])
    BY <1>5, <2>1 DEF Answers
  <2> QED BY <2>1, <2>2, <2>3
<1>6. k > 0 => 1 \in 1 .. Len(q)
  BY <1>4
<1>7. Empty.hdr # HeaderSize
  BY SlotNumbers
<1>8. CASE b
  <2>1. Answers(q, 0) /\ (m.hdr = HeaderSize => Fields(m)) /\ (live => st = "ReadyForFields")
    BY <1>8 DEF Agreed
  <2>2. Answers(t, 0)
    <3> SUFFICES ASSUME NEW i \in 1 .. Len(t) PROVE IF i <= 0 THEN Subscribe(t[i]) ELSE Fields(t[i])
      BY DEF Answers
    <3>0. ~(i <= 0)
      OBVIOUS
    <3>1. t[i] = q[k + i] /\ k + i \in 1 .. Len(q)
      BY <1>3
    <3>2. ~(k + i <= 0)
      BY <3>1
    <3> QED BY <2>1, <3>0, <3>1, <3>2 DEF Answers
  <2>3. o.hdr = HeaderSize => Fields(o)
    <3> HAVE o.hdr = HeaderSize
    <3>1. CASE k = 0
      BY <1>1, <2>1, <3>1 DEF Fields
    <3>2. CASE k > 0
      <4>1. Fields(q[1])
        BY <1>6, <2>1, <3>2 DEF Answers
      <4> QED BY <1>1, <3>2, <4>1 DEF Fields
    <3> QED BY <1>4, <3>1, <3>2
  <2>4. Kept(o).hdr = HeaderSize => Fields(Kept(o))
    BY <1>7, <2>3 DEF Kept
  <2> QED BY <1>8, <2>1, <2>2, <2>4 DEF Agreed
<1>9. CASE ~b
  <2>1. /\ Answers(q, L) /\ (m.hdr = HeaderSize => Subscribe(m)) /\ L > 0
        /\ live => IF st = "ReadyForFields" THEN a >= L ELSE a + P = X
    BY <1>9 DEF Agreed
  <2>2. o.hdr = HeaderSize => Subscribe(o)
    <3> HAVE o.hdr = HeaderSize
    <3>1. CASE k = 0
      BY <1>1, <2>1, <3>1 DEF Subscribe
    <3>2. CASE k > 0
      <4>1. 1 <= L
        <5> HIDE DEF L
        <5> QED BY <1>4, <2>1
      <4>2. Subscribe(q[1])
        BY <1>6, <2>1, <3>2, <4>1 DEF Answers
      <4> QED BY <1>1, <3>2, <4>2 DEF Subscribe
    <3> QED BY <1>4, <3>1, <3>2
  <2>3. CASE ~IsCompleted(o)
    <3>1. Kept(o) = o /\ o.stage = "Receiving"
      BY <1>2, <2>3 DEF Kept, IsCompleted
    <3>2. R < W
      <4>1. CASE o.hdr = HeaderSize
        <5>1. o.done < o.size /\ o.size = SubscribeSize
          BY <1>2, <2>2, <3>1, <4>1 DEF ReceiveSlot, Subscribe
        <5>2. R = o.hdr + o.done /\ o.done \in Nat /\ o.size \in Nat /\ HeaderSize \in Nat
          BY <1>2, SlotNumbers
        <5> QED BY <4>1, <5>1, <5>2
      <4>2. CASE o.hdr # HeaderSize
        <5>1. o.hdr \in Nat /\ o.hdr < HeaderSize /\ HeaderSize \in Nat /\ R = o.hdr + o.done
          BY <1>2, <4>2, SlotNumbers
        <5>2. o.done = 0
          BY <1>2, <5>1 DEF ReceiveSlot
        <5>3. SubscribeSize \in Nat
          BY ConnectionAssumption
        <5> QED BY <5>1, <5>2, <5>3
      <4> QED BY <4>1, <4>2
    <3> DEFINE Lo == Left(o)
    <3> HIDE DEF L, W, P, R, X, a, Lo
    <3>3. Lo \in Int /\ Lo = L - k /\ Lo > 0
      BY <1>2, <1>4, <3>2 DEF Lo
    <3>4. Answers(t, Lo)
      <4>1. \A i \in Nat : i <= Lo <=> k + i <= L
        BY <1>4, <3>3
      <4> QED BY <1>4, <1>5, <2>1, <3>3, <4>1
    <3>5. live => IF st = "ReadyForFields" THEN Len(t) >= Lo ELSE Len(t) + R = X
      <4>1. a >= L => a - k >= Lo
        BY <1>4, <3>3
      <4>2. a + P = X => (a - k) + R = X
        BY <1>2, <1>4
      <4> QED BY <1>3, <2>1, <4>1, <4>2
    <3> QED BY <1>9, <2>2, <2>3, <3>1, <3>3, <3>4, <3>5 DEF Agreed, Lo, R, X
  <2>4. CASE IsCompleted(o)
    <3>1. o.hdr = HeaderSize /\ o.done = o.size /\ Subscribe(o)
      <4>1. o.done = o.size /\ ~(o.hdr < HeaderSize)
        BY <1>2, <2>4 DEF ReceiveSlot, IsCompleted
      <4>2. o.hdr = HeaderSize
        BY <1>2, <4>1, SlotNumbers
      <4> QED BY <2>2, <4>1, <4>2
    <3>2. R = W
      <4>1. R = o.hdr + o.done
        BY <1>2, SlotNumbers
      <4> QED BY <3>1, <4>1 DEF Subscribe
    <3>3. Kept(o) = Empty
      BY <2>4 DEF Kept
    <3> HIDE DEF L, W, P, R, X, a
    <3>4. k = L
      BY <1>2, <1>4, <3>2
    <3>5. Answers(t, 0)
      <4>1. \A i \in Nat : i <= 0 <=> k + i <= L
        BY <1>4, <3>4
      <4>2. 0 \in Int /\ L \in Int
        BY <1>4
      <4> HIDE DEF Answers
      <4> QED BY <1>5, <2>1, <4>1, <4>2
    <3>6. live => st = "ReadyForFields"
      <4> SUFFICES ASSUME live, st # "ReadyForFields" PROVE FALSE
        OBVIOUS
      <4>1. a + P = X /\ X < W
        BY <2>1 DEF X, W
      <4> QED BY <1>2, <1>4, <3>2, <4>1
    <3> QED BY <1>7, <2>4, <3>3, <3>5, <3>6 DEF Agreed
  <2> QED BY <2>3, <2>4
<1> QED BY <1>8, <1>9

(* Answers on a connection that a step leaves alone.                        *)
LEMMA QuietAnswers ==
  ASSUME HeldOK, HeldOK', NEW c \in Conns, Quiet(c), AnswersOK(c) PROVE AnswersOK(c)'
<1> SUFFICES ASSUME Reading(c, "Receiver")'
             PROVE  Agreed(wire'[c]["Receiver"], Heard(c, "Receiver")', Subscribed(c)', Live(c)',
                           state'["Sender"], out'["Sender"])
  BY AnswersMean
<1>0. "Receiver" \in Sides /\ "Sender" \in Sides
  BY DEF Sides
<1>1. /\ Reading(c, "Receiver") /\ Heard(c, "Receiver")' = Heard(c, "Receiver")
      /\ Live(c)' => Live(c) /\ state'["Sender"] = state["Sender"] /\ Said(c, "Sender")' = Said(c, "Sender")
      /\ \/ wire'[c]["Receiver"] = wire[c]["Receiver"]
         \/ wire'[c]["Receiver"] = <<>> /\ ~Live(c)'
  BY <1>0 DEF Quiet
<1>2. Subscribed(c)' = Subscribed(c)
  <2>1. Subscribed(c)' <=> Subscribed(c)
    BY DEF Quiet
  <2> QED BY <2>1 DEF Subscribed
<1>3. Agreed(wire[c]["Receiver"], Heard(c, "Receiver"), Subscribed(c), Live(c),
             state["Sender"], out["Sender"])
  BY <1>1, AnswersMeans
<1>4. Live(c)' => out'["Sender"] = out["Sender"]
  <2> HAVE Live(c)'
  <2>1. sock["Sender"] = c
    BY <1>1, LiveHeld
  <2>2. sock'["Sender"] = c
    BY DEF HeldOK, Held, Live, Sides
  <2> QED BY <1>1, <2>1, <2>2 DEF Said
<1> DEFINE q == wire[c]["Receiver"]
<1> DEFINE y == Heard(c, "Receiver")
<1> DEFINE b == Subscribed(c)
<1> DEFINE live == Live(c)
<1> DEFINE live2 == Live(c)'
<1> DEFINE st == state["Sender"]
<1> DEFINE st2 == state'["Sender"]
<1> DEFINE x == out["Sender"]
<1> DEFINE x2 == out'["Sender"]
<1>5. /\ Agreed(q, y, b, live, st, x) /\ (live2 => live /\ st2 = st /\ Position(x2) = Position(x))
  BY <1>1, <1>3, <1>4
<1>6. Agreed(q, y, b, live2, st2, x2) /\ (~live2 => Agreed(<<>>, y, b, live2, st2, x2))
  <2> HIDE DEF q, y, b, live, live2, st, st2, x, x2
  <2> QED BY <1>5, AgreedSame, AgreedNothing
<1> QED BY <1>1, <1>2, <1>6

(* A send keeps to the protocol.                                            *)
LEMMA SendRequests ==
  ASSUME Grounded, NEW s \in Sides, SendCall(s), NEW c \in Conns, RequestsOK(c)
  PROVE  RequestsOK(c)'
<1> DEFINE q == wire[c]["Sender"]
<1> DEFINE t == wire'[c]["Sender"]
<1> SUFFICES ASSUME Reading(c, "Sender")'
             PROVE  /\ \A i \in 1 .. Len(t) : Request(t[i])
                    /\ Heard(c, "Sender")'.hdr = HeaderSize => Request(Heard(c, "Sender")')
  BY DEF RequestsOK, Request
<1>0. /\ "Sender" \in Sides /\ Peer("Sender") = "Receiver" /\ Peer("Receiver") = "Sender"
      /\ s = "Sender" \/ s = "Receiver"
  BY DEF Sides, Peer
<1>1. Reading(c, "Sender") /\ Heard(c, "Sender")' = Heard(c, "Sender")
  BY <1>0, SendReads
<1>2. /\ \A i \in 1 .. Len(q) : Request(q[i])
      /\ Heard(c, "Sender").hdr = HeaderSize => Request(Heard(c, "Sender"))
  BY <1>1 DEF RequestsOK
<1>3. PICK m \in SendSlot, o \in SendSlot :
       /\ sock[s] \in Conns => KindOf(s, m)
       /\ (wire' = wire /\ o = m) \/ \E n : Sends(s, m, n, o)
  BY DEF SendCall
<1>4. CASE t = q
  BY <1>1, <1>2, <1>4
<1>5. ASSUME NEW n, Sends(s, m, n, o), t # q PROVE \A i \in 1 .. Len(t) : Request(t[i])
  <2>1. s = "Receiver" /\ t = q \o NextBytes(m, n) /\ n \in Nat /\ sock[s] \in Conns
    BY <1>0, <1>5 DEF Sends, Usable
  <2>2. Request(m)
    BY <1>3, <2>1 DEF KindOf
  <2>3. q \in Seq(Byte)
    BY <1>0 DEF Grounded, Control, TypeOK
  <2>4. Adds(q, m, n, t)
    <3> HIDE DEF q, t
    <3> QED BY <2>1, <2>3, Appended
  <2> HIDE DEF q, t
  <2> SUFFICES ASSUME NEW i \in 1 .. Len(t) PROVE Request(t[i])
    OBVIOUS
  <2>5. IF i <= Len(q) THEN i \in 1 .. Len(q) /\ t[i] = q[i] ELSE t[i].tag = m.tag /\ t[i].size = m.size
    BY <2>4 DEF Adds
  <2> QED BY <1>2, <2>2, <2>5 DEF Request
<1> QED BY <1>1, <1>2, <1>3, <1>4, <1>5

LEMMA SendAnswers ==
  ASSUME Grounded, Framed, NEW s \in Sides, SendCall(s), NEW c \in Conns, AnswersOK(c)
  PROVE  AnswersOK(c)'
<1> DEFINE q == wire[c]["Receiver"]
<1> DEFINE t == wire'[c]["Receiver"]
<1> DEFINE y == Heard(c, "Receiver")
<1> DEFINE b == Subscribed(c)
<1> DEFINE live == Live(c)
<1> DEFINE st == state["Sender"]
<1> DEFINE st2 == state'["Sender"]
<1> DEFINE x == out["Sender"]
<1> DEFINE x2 == out'["Sender"]
<1> SUFFICES ASSUME Reading(c, "Receiver")'
             PROVE  Agreed(t, Heard(c, "Receiver")', Subscribed(c)', Live(c)', st2, x2)
  BY AnswersMean
<1>0. /\ "Sender" \in Sides /\ "Receiver" \in Sides /\ Peer("Sender") = "Receiver" /\ Peer("Receiver") = "Sender"
      /\ s = "Sender" \/ s = "Receiver"
      /\ TypeOK /\ HeldOK /\ LeavingOK /\ OthersSame(s) /\ sock' = sock
      /\ out["Sender"] \in SendSlot /\ CallOK("Sender")
  BY DEF Sides, Peer, Grounded, Control, Framed, SendCall, SlotsOK, CallsOK
<1>1. Reading(c, "Receiver") /\ Heard(c, "Receiver")' = y /\ (Live(c)' <=> live)
  BY <1>0, SendReads
<1>2. Agreed(q, y, b, live, st, x)
  BY <1>1, AnswersMeans
<1>3. PICK m \in SendSlot, o \in SendSlot :
       /\ m = out[s] \/ (IsVacant(out[s]) /\ Position(m) = 0)
       /\ m.stage = "Sending"
       /\ sock[s] \in Conns => KindOf(s, m)
       /\ (wire' = wire /\ o = m) \/ \E n : Sends(s, m, n, o)
       /\ out'[s] = Kept(o) \/ (out'[s] = o /\ Leaving(s))
       /\ state'[s] = IF /\ s = "Sender" /\ state[s] = "ReadyForHandshake"
                         /\ IsCompleted(o) /\ ~Leaving(s)
                      THEN "ReadyForFields" ELSE state[s]
  BY DEF SendCall
<1>4. Subscribed(c)' = b
  <2>1. state'["Receiver"] = state["Receiver"]
    BY <1>0, <1>3 DEF OthersSame
  <2> QED BY <1>0, <2>1 DEF Subscribed
<1>5. Live(c)' = live
  BY <1>1 DEF Live
<1>6. y \in ReceiveSlot /\ q \in Seq(Byte) /\ live \in BOOLEAN
  BY <1>0, SlotFacts DEF Heard, Grounded, Control, SlotsOK, TypeOK, Live
<1>7. SUFFICES Agreed(t, y, b, live, st2, x2)
  BY <1>1, <1>4, <1>5
<1>8. CASE s = "Receiver"
  <2>1. x2 = x /\ st2 = st
    BY <1>0, <1>8 DEF OthersSame
  <2>2. t = q
    BY <1>0, <1>3, <1>8 DEF Sends
  <2> QED BY <1>2, <2>1, <2>2
<1>9. CASE s = "Sender" /\ ~live
  <2>1. t = q
    <3>1. CASE wire' = wire
      BY <3>1
    <3>2. ASSUME NEW n, Sends(s, m, n, o), t # q PROVE FALSE
      <4>1. Usable(s) /\ PeerOpen(s) /\ c = sock[s]
        BY <1>0, <3>2 DEF Sends
      <4> QED BY <1>0, <1>1, <1>9, <4>1, LiveWhenHeard
    <3> QED BY <1>3, <3>1, <3>2
  <2> HIDE DEF q, t, y, b, live, st, st2, x, x2
  <2> QED BY <1>2, <1>9, <2>1, AgreedSame
<1>10. CASE s = "Sender" /\ live
  <2>1. sock["Sender"] = c /\ "Receiver" \in ends[c]
    BY <1>0, <1>10, LiveHeld DEF Live
  <2>2. ~Leaving("Sender")
    BY <1>0, <1>10, <2>1 DEF LeavingOK
  <2>3. st \in {"ReadyForHandshake", "ReadyForFields"}
    BY <1>0, <2>1 DEF CallOK, TypeOK, States
  <2>4. IF st = "ReadyForFields" THEN Fields(m) ELSE Subscribe(m)
    BY <1>3, <1>10, <2>1, <2>3 DEF KindOf
  <2>5. x2 = Kept(o) /\ st2 = IF st = "ReadyForHandshake" /\ IsCompleted(o) THEN "ReadyForFields" ELSE st
    BY <1>3, <1>10, <2>2
  <2>6. m = x \/ (IsVacant(x) /\ Position(m) = 0)
    BY <1>3, <1>10
  <2>7. CASE t = q /\ o = m
    <3>1. ~IsCompleted(o) /\ x2 = m /\ st2 = st
      BY <1>3, <2>5, <2>7 DEF IsCompleted, Kept
    <3>2. Position(x2) = Position(x)
      BY <1>0, <2>6, <3>1, SlotNumbers
    <3> HIDE DEF q, t, y, b, live, st, st2, x, x2
    <3> QED BY <1>2, <2>7, <3>1, <3>2, AgreedSame
  <2>8. ASSUME NEW n, Sends(s, m, n, o) PROVE Agreed(t, y, b, live, st2, x2)
    <3>1. /\ t = q \o NextBytes(m, n) /\ n \in Nat /\ o.size = m.size
          /\ Position(o) = Position(m) + n
      BY <1>0, <1>10, <2>1, <2>8 DEF Sends, PeerOpen
    <3>2. x \in SendSlot /\ live = TRUE
      BY <1>0, <1>6, <1>10
    <3>3. Agreed(q, y, b, TRUE, st, x)
      BY <1>2, <3>2
    <3> HIDE DEF q, t, y, b, live, st, st2, x, x2
    <3>5. m.stage = "Sending" /\ q \in Seq(Byte) /\ y \in ReceiveSlot
      BY <1>3, <1>6
    <3>6. Answering(q, y, x, m, st)
      BY <2>3, <2>4, <2>6, <3>2, <3>5 DEF Answering
    <3>7. Answered(q, m, st, n, o, t, st2, x2)
      BY <2>5, <3>1 DEF Answered
    <3>4. Agreed(t, y, b, TRUE, st2, x2)
      BY <3>3, <3>6, <3>7, AgreedSend
    <3> QED BY <3>2, <3>4
  <2> QED BY <1>3, <2>7, <2>8
<1> QED BY <1>0, <1>8, <1>9, <1>10

(* A message that is begun reads on where the vacant slot stood.            *)
LEMMA HeardFrom ==
  ASSUME NEW y \in ReceiveSlot, NEW m, m = y \/ (IsVacant(y) /\ m = BeginReceive(NoTag))
  PROVE  Position(m) = Position(y) /\ (m.hdr = HeaderSize => m = y) /\ (y.hdr = HeaderSize => m = y)
<1>1. CASE m = y
  BY <1>1
<1>2. CASE IsVacant(y) /\ m = BeginReceive(NoTag)
  <2>1. y = Empty
    BY <1>2, SlotNumbers
  <2>2. Position(m) = 0 /\ m.hdr = 0 /\ Position(y) = 0 /\ y.hdr = 0 /\ HeaderSize # 0
    BY <1>2, <2>1, SlotNumbers
  <2> QED BY <2>2
<1> QED BY <1>1, <1>2

(* What a side is about to read is framed.                                  *)
LEMMA ReceiveExpects ==
  ASSUME Grounded, Framed, NEW s \in Sides, NEW c \in Conns, c = sock[s], Reading(c, s),
         NEW m, m = in[s] \/ (IsVacant(in[s]) /\ m = BeginReceive(NoTag))
  PROVE  Run(wire[c][s]) /\ Expects(m, wire[c][s])
<1>1. in[s] \in ReceiveSlot
  BY DEF Grounded, Control, SlotsOK
<1>2. Run(wire[c][s]) /\ Expects(in[s], wire[c][s])
  BY DEF Framed, StreamOK, Stream, Heard
<1>3. Position(m) = Position(in[s]) /\ (m.hdr = HeaderSize => m = in[s])
  BY <1>1, HeardFrom
<1> QED BY <1>2, <1>3 DEF Expects, Awaited

(* A receive keeps to the protocol.                                         *)
LEMMA ReceiveRequests ==
  ASSUME Grounded, Framed, NEW s \in Sides, ReceiveCall(s), NEW c \in Conns, RequestsOK(c)
  PROVE  RequestsOK(c)'
<1> DEFINE q == wire[c]["Sender"]
<1> DEFINE t == wire'[c]["Sender"]
<1> SUFFICES ASSUME Reading(c, "Sender")'
             PROVE  /\ \A i \in 1 .. Len(t) : Request(t[i])
                    /\ Heard(c, "Sender")'.hdr = HeaderSize => Request(Heard(c, "Sender")')
  BY DEF RequestsOK, Request
<1>0. "Sender" \in Sides /\ sock' = sock
  BY DEF Sides, ReceiveCall
<1>1. /\ Reading(c, "Sender")
      /\ s # "Sender" \/ c # sock[s] => Heard(c, "Sender")' = Heard(c, "Sender")
  BY <1>0, ReceiveReads
<1>2. /\ \A i \in 1 .. Len(q) : Request(q[i])
      /\ Heard(c, "Sender").hdr = HeaderSize => Request(Heard(c, "Sender"))
  BY <1>1 DEF RequestsOK
<1>3. PICK m \in ReceiveSlot, o \in ReceiveSlot :
       /\ m = in[s] \/ (IsVacant(in[s]) /\ m = BeginReceive(NoTag))
       /\ m.stage = "Receiving"
       /\ (wire' = wire /\ o = m) \/ \E k : Receives(s, m, k, o)
       /\ in'[s] = IF Leaving(s) THEN o ELSE Kept(o)
  BY DEF ReceiveCall
<1>4. CASE s # "Sender" \/ c # sock[s]
  <2>1. t = q
    BY <1>0, <1>3, <1>4 DEF Receives
  <2> QED BY <1>1, <1>2, <1>4, <2>1
<1>5. CASE s = "Sender" /\ c = sock[s]
  <2>1. Heard(c, "Sender")' = Kept(o) /\ Heard(c, "Sender") = in[s]
    BY <1>3, <1>5, ReceiveKeeps
  <2>2. in[s] \in ReceiveSlot
    BY DEF Grounded, Control, SlotsOK
  <2>3. m.hdr = HeaderSize => Request(m)
    BY <1>2, <1>3, <2>1, <2>2, HeardFrom
  <2>4. SUFFICES /\ \A i \in 1 .. Len(t) : Request(t[i])
                 /\ o.hdr = HeaderSize => Request(o)
    <3>1. Empty.hdr # HeaderSize
      BY SlotNumbers
    <3> QED BY <2>1, <3>1 DEF Kept
  <2>5. CASE wire' = wire /\ o = m
    BY <1>2, <2>3, <2>5
  <2>6. ASSUME NEW k, Receives(s, m, k, o)
        PROVE  /\ \A i \in 1 .. Len(t) : Request(t[i])
               /\ o.hdr = HeaderSize => Request(o)
    <3>1. PICK h, p : Advances(m, q, h, p, k, o)
      BY <1>5, <2>6 DEF Receives
    <3>2. t = SubSeq(q, k + 1, Len(q))
      BY <1>0, <1>5, <2>6 DEF Receives
    <3>3. q \in Seq(Byte) /\ Run(q) /\ Expects(m, q)
      <4>1. q \in Seq(Byte)
        BY <1>0 DEF Grounded, Control, TypeOK
      <4> QED BY <1>1, <1>3, <1>5, <4>1, ReceiveExpects
    <3> HIDE DEF q, t
    <3>4. k \in 0 .. Len(q) /\ Len(q) \in Nat
      BY <3>1, <3>3 DEF Advances
    <3>5. \A i \in 1 .. Len(t) : t[i] = q[k + i] /\ k + i \in 1 .. Len(q)
      BY <3>2, <3>3, <3>4, Consumed
    <3>6. /\ k = 0 => o.hdr = m.hdr /\ (o.hdr = HeaderSize => o.tag = m.tag /\ o.size = m.size)
          /\ k > 0 => (o.hdr = HeaderSize => o.tag = q[1].tag /\ o.size = q[1].size)
      BY <3>1, <3>3, ReceiveFollows
    <3>7. k = 0 \/ (k > 0 /\ 1 \in 1 .. Len(q))
      BY <3>4
    <3>8. o.hdr = HeaderSize => Request(o)
      BY <1>2, <2>3, <3>6, <3>7 DEF Request
    <3> QED BY <1>2, <3>5, <3>8
  <2> QED BY <1>3, <2>5, <2>6
<1> QED BY <1>4, <1>5

(* A Sender that is still in the handshake has not sent all of it.          *)
LEMMA SubscribeUnderWay ==
  ASSUME Grounded, Framed, OutKindOK, NEW c \in Conns, Live(c), state["Sender"] # "ReadyForFields"
  PROVE  Position(out["Sender"]) < HeaderSize + SubscribeSize
<1> DEFINE x == out["Sender"]
<1>1. /\ "Sender" \in Sides /\ sock["Sender"] = c /\ CallOK("Sender") /\ x \in SendSlot
      /\ state["Sender"] \in States
  BY LiveHeld DEF Grounded, Control, CallsOK, SlotsOK, Sides, TypeOK
<1>2. ~Leaving("Sender") /\ state["Sender"] = "ReadyForHandshake"
  BY <1>1 DEF Framed, LeavingOK, CallOK, States
<1>3. SubscribeSize \in Nat \ {0} /\ HeaderSize \in Nat
  BY SlotNumbers, ConnectionAssumption
<1>4. CASE IsVacant(x)
  <2>1. Position(x) = 0
    BY <1>1, <1>4, SlotNumbers
  <2> QED BY <1>3, <2>1
<1>5. CASE ~IsVacant(x)
  <2>1. x.stage = "Sending" /\ Subscribe(x)
    BY <1>1, <1>2, <1>5, SlotFacts DEF CallOK, OutKindOK, KindOf
  <2>2. Position(x) < Whole(x) /\ Whole(x) = HeaderSize + SubscribeSize
    BY <1>1, <2>1, SlotNumbers DEF Subscribe
  <2> QED BY <2>2
<1> QED BY <1>4, <1>5

LEMMA ReceiveAnswers ==
  ASSUME Grounded, Framed, OutKindOK, NEW s \in Sides, ReceiveCall(s), NEW c \in Conns, AnswersOK(c)
  PROVE  AnswersOK(c)'
<1> DEFINE q == wire[c]["Receiver"]
<1> DEFINE t == wire'[c]["Receiver"]
<1> DEFINE y == Heard(c, "Receiver")
<1> DEFINE b == Subscribed(c)
<1> DEFINE live == Live(c)
<1> DEFINE st == state["Sender"]
<1> DEFINE x == out["Sender"]
<1> SUFFICES ASSUME Reading(c, "Receiver")'
             PROVE  Agreed(t, Heard(c, "Receiver")', Subscribed(c)', Live(c)',
                           state'["Sender"], out'["Sender"])
  BY AnswersMean
<1>0. /\ "Sender" \in Sides /\ "Receiver" \in Sides
      /\ s = "Sender" \/ s = "Receiver"
      /\ TypeOK /\ HeldOK /\ LeavingOK /\ OthersSame(s) /\ UNCHANGED <<sock, out>>
      /\ out["Sender"] \in SendSlot /\ CallOK("Receiver")
  BY DEF Sides, Grounded, Control, Framed, ReceiveCall, SlotsOK, CallsOK
<1>1. /\ Reading(c, "Receiver") /\ (Live(c)' <=> live)
      /\ s # "Receiver" \/ c # sock[s] => Heard(c, "Receiver")' = y
  BY <1>0, ReceiveReads
<1>2. Agreed(q, y, b, live, st, x)
  BY <1>1, AnswersMeans
<1>3. PICK m \in ReceiveSlot, o \in ReceiveSlot :
       /\ m = in[s] \/ (IsVacant(in[s]) /\ m = BeginReceive(NoTag))
       /\ m.stage = "Receiving"
       /\ (wire' = wire /\ o = m) \/ \E k : Receives(s, m, k, o)
       /\ in'[s] = IF Leaving(s) THEN o ELSE Kept(o)
       /\ state'[s] = IF /\ s = "Receiver" /\ state[s] = "ReadyForHandshake"
                         /\ IsCompleted(o) /\ ~Leaving(s)
                      THEN "ReadyForFields" ELSE state[s]
  BY DEF ReceiveCall
<1>4. Live(c)' = live /\ out'["Sender"] = x
  BY <1>0, <1>1 DEF Live
<1>5. state'["Sender"] = st
  BY <1>0, <1>3 DEF OthersSame
<1>6. CASE s # "Receiver" \/ c # sock[s]
  <2>1. t = q
    BY <1>0, <1>3, <1>6 DEF Receives
  <2>2. Subscribed(c)' = b
    BY <1>0, <1>6 DEF Subscribed, OthersSame
  <2> QED BY <1>1, <1>2, <1>4, <1>5, <1>6, <2>1, <2>2
<1>7. CASE s = "Receiver" /\ c = sock[s]
  <2>1. /\ Heard(c, "Receiver")' = Kept(o) /\ y = in[s]
        /\ ~Leaving(s) \/ ~IsCompleted(o)
    BY <1>3, <1>7, ReceiveKeeps
  <2>2. y \in ReceiveSlot /\ live \in BOOLEAN /\ b \in BOOLEAN /\ q \in Seq(Byte)
    BY <1>0, <1>7, <2>1 DEF Grounded, Control, SlotsOK, Live, Subscribed, TypeOK
  <2>3. Agreed(q, m, b, live, st, x)
    <3>1. Position(m) = Position(y) /\ (m.hdr = HeaderSize => m = y)
      BY <1>3, <2>1, <2>2, HeardFrom
    <3> HIDE DEF q, y, b, live, st, x
    <3> QED BY <1>2, <3>1 DEF Agreed, Left
  <2>4. Subscribed(c)' = (b \/ IsCompleted(o))
    <3>1. state["Receiver"] \in {"ReadyForHandshake", "ReadyForFields"}
      BY <1>0, <1>7 DEF CallOK, TypeOK, States
    <3> QED BY <1>0, <1>3, <1>7, <2>1, <3>1 DEF Subscribed
  <2>5. SUFFICES Agreed(t, Kept(o), b \/ IsCompleted(o), live, st, x)
    BY <1>4, <1>5, <2>1, <2>4
  <2>6. CASE wire' = wire /\ o = m
    <3>1. ~IsCompleted(o) /\ Kept(o) = m
      BY <1>3, <2>6 DEF IsCompleted, Kept
    <3>2. (b \/ IsCompleted(o)) = b
      BY <2>2, <3>1
    <3> QED BY <2>3, <2>6, <3>1, <3>2
  <2>7. ASSUME NEW k, Receives(s, m, k, o) PROVE Agreed(t, Kept(o), b \/ IsCompleted(o), live, st, x)
    <3>1. PICK h, p : Advances(m, q, h, p, k, o)
      BY <1>7, <2>7 DEF Receives
    <3>2. t = SubSeq(q, k + 1, Len(q))
      BY <1>0, <1>7, <2>7 DEF Receives
    <3>3. Run(q) /\ Expects(m, q)
      BY <1>1, <1>3, <1>7, ReceiveExpects
    <3>4. live /\ st # "ReadyForFields" => Position(x) < HeaderSize + SubscribeSize
      BY SubscribeUnderWay
    <3>5. x \in SendSlot
      BY <1>0
    <3> DEFINE b2 == b \/ IsCompleted(o)
    <3> HIDE DEF q, t, y, b, live, st, x
    <3>6. Taking(q, m, k, o, t)
      BY <2>2, <3>1, <3>2, <3>3 DEF Taking
    <3>7. b2 \in BOOLEAN /\ (b2 <=> b \/ IsCompleted(o))
      OBVIOUS
    <3> HIDE DEF b2
    <3>8. Agreed(t, Kept(o), b2, live, st, x)
      BY <2>2, <2>3, <3>4, <3>5, <3>6, <3>7, AgreedReceive
    <3> QED BY <3>8 DEF b2
  <2> QED BY <1>3, <2>6, <2>7
<1> QED BY <1>6, <1>7

(* Nothing is said on a new connection.                                     *)
LEMMA NothingSaid ==
  ASSUME NEW q, q = <<>>, NEW m, m = Empty, NEW b, ~b, NEW live, NEW st, NEW x,
         live => st # "ReadyForFields" /\ x = Empty
  PROVE  Agreed(q, m, b, live, st, x)
<1>1. SubscribeSize \in Nat \ {0} /\ HeaderSize \in Nat /\ Position(Empty) = 0 /\ Empty.hdr # HeaderSize
  BY SlotNumbers, ConnectionAssumption
<1>2. Left(m) > 0
  BY <1>1 DEF Left
<1>3. Len(q) = 0 /\ \A i \in 1 .. Len(q) : FALSE
  OBVIOUS
<1>4. Len(q) + Position(Empty) = Position(Empty)
  BY <1>1, <1>3
<1> HIDE DEF Left
<1> QED BY <1>1, <1>2, <1>3, <1>4 DEF Agreed, Answers

LEMMA InitSpoken == Init => Spoken
<1> SUFFICES ASSUME Init PROVE Spoken
  OBVIOUS
<1>0. /\ "Sender" \in Sides /\ "Receiver" \in Sides
      /\ \A s \in Sides : sock[s] \notin Conns /\ out[s] = Empty
      /\ \A c \in Conns, s \in Sides : wire[c][s] = <<>> /\ ends[c] = {} /\ sock[s] # c
  BY ConnectionAssumption DEF Init, Sides
<1>1. OutKindOK
  BY <1>0 DEF OutKindOK
<1>2. ASSUME NEW c \in Conns PROVE RequestsOK(c)
  <2>1. wire[c]["Sender"] = <<>> /\ Heard(c, "Sender") = Empty
    BY <1>0 DEF Heard
  <2>2. Empty.hdr # HeaderSize /\ \A i \in 1 .. Len(<<>>) : FALSE
    BY SlotNumbers
  <2> QED BY <2>1, <2>2 DEF RequestsOK
<1>3. ASSUME NEW c \in Conns PROVE AnswersOK(c)
  <2>1. wire[c]["Receiver"] = <<>> /\ Heard(c, "Receiver") = Empty /\ ~Subscribed(c) /\ ~Live(c)
    BY <1>0 DEF Heard, Subscribed, Live
  <2>2. Agreed(wire[c]["Receiver"], Heard(c, "Receiver"), Subscribed(c), Live(c),
               state["Sender"], out["Sender"])
    BY <2>1, NothingSaid
  <2> QED BY <2>2, AnswersMeans
<1> QED BY <1>1, <1>2, <1>3 DEF Spoken

LEMMA OpensSpoken ==
  ASSUME Grounded, Grounded', Framed, NEW c \in Conns, Opens(c),
         NEW d \in Conns, RequestsOK(d), AnswersOK(d)
  PROVE  RequestsOK(d)' /\ AnswersOK(d)'
<1>0. /\ UNCHANGED <<pc, in, out, wire, silent>>
      /\ in["Sender"] = Empty /\ out["Sender"] = Empty
      /\ ends[c] = {} /\ \A t \in Sides : sock[t] # c
      /\ sock'["Receiver"] = sock["Receiver"]
      /\ "Sender" \in Sides /\ "Receiver" \in Sides /\ HeldOK /\ HeldOK'
  BY DEF Opens, Sides, Grounded
<1>1. CASE d # c
  BY <1>0, <1>1, OpensQuiet, QuietRequests, QuietAnswers
<1>2. CASE d = c
  <2>1. \A t \in Sides : wire'[c][t] = <<>> /\ Heard(c, t)' = Empty
    <3> TAKE t \in Sides
    <3>1. wire'[c][t] = <<>>
      BY <1>0 DEF Framed, StreamOK
    <3>2. Heard(c, t)' = Empty
      BY <1>0 DEF Heard, Sides
    <3> QED BY <3>1, <3>2
  <2>2. RequestsOK(c)'
    <3>1. wire'[c]["Sender"] = <<>> /\ Heard(c, "Sender")' = Empty
      BY <1>0, <2>1
    <3>2. Empty.hdr # HeaderSize /\ \A i \in 1 .. Len(<<>>) : FALSE
      BY SlotNumbers
    <3> QED BY <3>1, <3>2 DEF RequestsOK
  <2>3. AnswersOK(c)'
    <3>1. wire'[c]["Receiver"] = <<>> /\ Heard(c, "Receiver")' = Empty /\ ~Subscribed(c)'
      BY <1>0, <2>1 DEF Subscribed
    <3>2. Live(c)' => state'["Sender"] # "ReadyForFields" /\ out'["Sender"] = Empty
      BY <1>0 DEF Opens, Live, Sides
    <3>3. Agreed(wire'[c]["Receiver"], Heard(c, "Receiver")', Subscribed(c)', Live(c)',
                 state'["Sender"], out'["Sender"])
      <4> DEFINE q == wire'[c]["Receiver"]
      <4> DEFINE m == Heard(c, "Receiver")'
      <4> DEFINE b == Subscribed(c)'
      <4> DEFINE live == Live(c)'
      <4> DEFINE st == state'["Sender"]
      <4> DEFINE x == out'["Sender"]
      <4>1. q = <<>> /\ m = Empty /\ ~b /\ (live => st # "ReadyForFields" /\ x = Empty)
        BY <3>1, <3>2
      <4> HIDE DEF q, m, b, live, st, x
      <4>2. Agreed(q, m, b, live, st, x)
        BY <4>1, NothingSaid
      <4> QED BY <4>2 DEF q, m, b, live, st, x
    <3> QED BY <3>3, AnswersMean
  <2> QED BY <1>2, <2>2, <2>3
<1> QED BY <1>1, <1>2

(* Every step keeps to the protocol.                                        *)
LEMMA StepSpoken == Grounded /\ Framed /\ Spoken /\ [Next]_vars => Spoken'
<1> SUFFICES ASSUME Grounded, Framed, Spoken, [Next]_vars PROVE Spoken'
  OBVIOUS
<1>0. /\ OutKindOK /\ \A c \in Conns : RequestsOK(c) /\ AnswersOK(c)
      /\ Grounded' /\ HeldOK /\ HeldOK'
  BY StepGrounded DEF Spoken, Grounded
<1>1. ASSUME NEW s \in Sides, SendCall(s) PROVE Spoken'
  BY <1>0, <1>1, KindsKept, SendRequests, SendAnswers DEF Spoken
<1>2. ASSUME NEW s \in Sides, ReceiveCall(s) PROVE Spoken'
  BY <1>0, <1>2, OthersKinds, ReceiveRequests, ReceiveAnswers DEF Spoken
<1>3. ASSUME NEW c \in Conns, Opens(c) PROVE Spoken'
  BY <1>0, <1>3, OthersKinds, OpensSpoken DEF Spoken
<1>4. ASSUME \/ NoCall
             \/ \E s \in Sides : DropIn(s) \/ DropOut(s) \/ LetsGo(s)
             \/ \E c \in Conns : Accepts(c) \/ Resets(c)
      PROVE  Spoken'
  <2>1. OutKindOK'
    BY <1>0, <1>4, OthersKinds
  <2>2. \A c \in Conns : Quiet(c)
    BY <1>4, OthersFramed
  <2> QED BY <1>0, <2>1, <2>2, QuietRequests, QuietAnswers DEF Spoken
<1> QED BY <1>0, <1>1, <1>2, <1>3, <1>4, Steps

(* The inductive invariant of all of it.                                    *)
Conversing == Grounded /\ Framed /\ Spoken

(* Framing and protocol hold in every state.                                *)
THEOREM AlwaysConversing == Spec => []Conversing
<1>1. Init => Conversing
  BY InitGrounded, InitFramed, InitSpoken DEF Conversing
<1>2. Conversing /\ [Next]_vars => Conversing'
  BY StepGrounded, StepFramed, StepSpoken DEF Conversing, Spoken
<1> QED BY <1>1, <1>2, PTL DEF Spec

(* The first element of a sequence.                                         *)
LEMMA HeadOf ==
  ASSUME NEW q \in Seq(Byte), q # <<>> PROVE Head(q) = q[1] /\ 1 \in 1 .. Len(q)
OBVIOUS

(* Whatever was cut short by full buffers, resets, drains and restarts,     *)
(* the next byte a side reads is the one its partly received message waits  *)
(* for (FramesStayWhole).                                                   *)
THEOREM FramingHolds == Spec => []FramesStayWhole
<1>1. Conversing => FramesStayWhole
  <2> SUFFICES ASSUME Conversing, NEW s \in Sides, sock[s] \in Conns, ~Abandoned(s),
                      wire[sock[s]][s] # <<>>
               PROVE  LET u == Head(wire[sock[s]][s]) IN
                      /\ u.pos = Position(in[s]) + 1
                      /\ in[s].hdr = HeaderSize => u.tag = in[s].tag /\ u.size = in[s].size
    BY DEF FramesStayWhole
  <2> DEFINE q == wire[sock[s]][s]
  <2>1. q \in Seq(Byte)
    BY DEF Conversing, Grounded, Control, TypeOK
  <2>2. Expects(in[s], q)
    <3>1. Reading(sock[s], s) /\ Heard(sock[s], s) = in[s]
      BY DEF Reading, Heard
    <3> QED BY <3>1 DEF Conversing, Framed, StreamOK, Stream
  <2> HIDE DEF q
  <2>3. q # <<>> => Head(q) = q[1]
    BY <2>1, HeadOf
  <2> QED BY <2>2, <2>3 DEF Expects, Awaited, q
<1> QED BY <1>1, AlwaysConversing, PTL

(* A reader that never looks at MessageHeader::type is only ever given      *)
(* messages of the kind and the size that it takes them for                 *)
(* (OnlyExpectedMessages).                                                  *)
THEOREM OnlyExpected == Spec => []OnlyExpectedMessages
<1>1. Conversing => OnlyExpectedMessages
  <2> SUFFICES ASSUME Conversing, NEW s \in Sides, sock[s] \in Conns, ~Abandoned(s)
               PROVE  /\ in[s].hdr = HeaderSize => Expected(s, in[s])
                      /\ (wire[sock[s]][s] # <<>> /\ IsVacant(in[s])) =>
                            Expected(s, Head(wire[sock[s]][s]))
    BY DEF OnlyExpectedMessages
  <2> DEFINE c == sock[s]
  <2> DEFINE q == wire[c][s]
  <2>1. /\ q \in Seq(Byte) /\ Reading(c, s) /\ Heard(c, s) = in[s] /\ in[s] \in ReceiveSlot
        /\ RequestsOK(c) /\ AnswersOK(c)
    BY DEF Conversing, Spoken, Grounded, Control, TypeOK, SlotsOK, Reading, Heard
  <2>2. q # <<>> => Head(q) = q[1] /\ 1 \in 1 .. Len(q)
    <3> HIDE DEF q
    <3> QED BY <2>1, HeadOf
  <2>3. CASE s = "Sender"
    <3>1. /\ \A i \in 1 .. Len(q) : Request(q[i])
          /\ in[s].hdr = HeaderSize => Request(in[s])
      BY <2>1, <2>3 DEF RequestsOK
    <3> QED BY <2>2, <2>3, <3>1 DEF Expected, Request
  <2>4. CASE s = "Receiver" /\ state[s] = "ReadyForFields"
    <3>1. Subscribed(c) /\ payload = FieldsSize
      BY <2>4 DEF Subscribed, Conversing, Grounded, Control, ReceiverOK
    <3>2. Answers(q, 0) /\ (in[s].hdr = HeaderSize => Fields(in[s]))
      BY <2>1, <2>4, <3>1 DEF AnswersOK
    <3>3. 1 \in 1 .. Len(q) => Fields(q[1])
      BY <3>2 DEF Answers
    <3> QED BY <2>2, <2>4, <3>1, <3>2, <3>3 DEF Expected, Fields
  <2>5. CASE s = "Receiver" /\ state[s] # "ReadyForFields"
    <3>1. ~Subscribed(c)
      BY <2>5 DEF Subscribed
    <3>2. Answers(q, Left(in[s])) /\ (in[s].hdr = HeaderSize => Subscribe(in[s])) /\ Left(in[s]) > 0
      BY <2>1, <2>5, <3>1 DEF AnswersOK
    <3>3. 1 <= Left(in[s])
      <4>1. Position(in[s]) \in Nat /\ HeaderSize \in Nat /\ SubscribeSize \in Nat
        BY <2>1, SlotNumbers, ConnectionAssumption
      <4> QED BY <3>2, <4>1 DEF Left
    <3>4. 1 \in 1 .. Len(q) => Subscribe(q[1])
      BY <3>2, <3>3 DEF Answers
    <3> QED BY <2>2, <2>5, <3>2, <3>4 DEF Expected, Subscribe
  <2> QED BY <2>3, <2>4, <2>5 DEF Sides
<1> QED BY <1>1, AlwaysConversing, PTL

-----------------------------------------------------------------------------
(* The tokens.                                                              *)

(* A call is coming that sends a token, or that ends the exchange; a token  *)
(* is on its way to side s, or partly read.                                 *)
Busy(s)   == pc[s] \in {"first", "reply", "drainIn", "drainOut", "close"}
Coming(s) == in[s].hdr > 0 \/ wire[sock[s]][s] # <<>>

(* What TokenNeverLost promises while both sides exchange fields.           *)
Token == \/ ticksUntil > 0
         \/ \E s \in Sides : ~IsVacant(out[s]) \/ Coming(s) \/ Busy(s)
         \/ anyReceived

(* A message that is sent on while both sides exchange fields stays in its  *)
(* slot or reaches the wire.                                                *)
LEMMA SentToken ==
  ASSUME Grounded, NEW s \in Sides, NEW m \in SendSlot, m.stage = "Sending",
         NEW r \in SendResults(s, m), Transmit(s, r), ~r.lost, out'[s] = Kept(r.msg),
         UNCHANGED <<sock, ends>>, Exchanging'
  PROVE  Token'
<1> DEFINE o == r.msg
<1> DEFINE c == sock[s]
<1> DEFINE u == Peer(s)
<1>0. u \in Sides /\ TypeOK /\ Bounded
  BY PeerFacts DEF Grounded, Control
<1>1. PICK n : Sends(s, m, n, o)
  BY <1>0, SendStep
<1>2. /\ n \in Nat /\ o \in SendSlot /\ o.stage \in {"Sending", "Completed"} /\ o.size = m.size
      /\ Position(o) = Position(m) + n
  BY <1>1 DEF Sends
<1>3. CASE o.stage = "Sending"
  <2>1. out'[s] = o /\ ~IsVacant(o)
    BY <1>3 DEF Kept, IsCompleted, IsVacant
  <2> QED BY <2>1 DEF Token
<1>4. CASE o.stage = "Completed"
  <2>1. n > 0
    <3>1. Position(m) < Whole(m) /\ Position(o) = Whole(o) /\ Whole(o) = Whole(m)
          /\ Position(m) \in Nat /\ Whole(m) \in Nat
      BY <1>2, <1>4, SlotNumbers DEF IsCompleted
    <3> HIDE DEF o
    <3> QED BY <1>2, <3>1
  <2>2. c \in Conns /\ sock[u] = c /\ u \in ends[c]
    <3>1. sock["Sender"] = sock["Receiver"] /\ \A t \in Sides : sock[t] \in Conns /\ t \in ends[sock[t]]
      BY DEF Exchanging, Usable
    <3> QED BY <1>0, <3>1 DEF Sides
  <2> DEFINE q == wire[c][u]
  <2> DEFINE t == wire'[c][u]
  <2>3. q \in Seq(Byte) /\ t = q \o NextBytes(m, n) /\ t \in Seq(Byte)
    BY <1>0, <1>1, <2>2 DEF Sends, PeerOpen, TypeOK
  <2>4. Len(t) = Len(q) + n /\ Len(q) \in Nat
    <3> HIDE DEF q, t
    <3>1. Adds(q, m, n, t)
      BY <1>2, <2>3, Appended
    <3> QED BY <3>1 DEF Adds
  <2>5. t # <<>>
    <3> HIDE DEF q, t
    <3>1. Len(t) > 0
      BY <1>2, <2>1, <2>4
    <3>2. Len(<<>>) = 0
      OBVIOUS
    <3> QED BY <3>1, <3>2
  <2>6. Coming(u)'
    BY <2>2, <2>5 DEF Coming
  <2> QED BY <1>0, <2>6 DEF Token
<1> QED BY <1>2, <1>3, <1>4

(* A call that may begin a Fields message leaves a token.                   *)
LEMMA FieldsToken ==
  ASSUME Grounded, NEW allow \in BOOLEAN, NEW l, SendFields(allow, l), ~Leaving("Sender"),
         UNCHANGED SendFieldsFrame, Exchanging', allow \/ ~IsVacant(out["Sender"])
  PROVE  Token'
<1> DEFINE begins == allow /\ IsVacant(out["Sender"])
<1> DEFINE m == IF begins THEN BeginSend([type |-> "Fields", rate |-> 0], FieldsSize)
                ELSE out["Sender"]
<1> DEFINE nothing == [lost |-> FALSE, msg |-> m, bytes |-> <<>>]
<1>0. /\ out \in [Sides -> Message] /\ pc \in [Sides -> Calls] /\ "Sender" \in Sides
      /\ out["Sender"] \in SendSlot /\ ~IsCompleted(out["Sender"])
      /\ UNCHANGED <<sock, ends>>
  BY DEF Grounded, Control, TypeOK, SlotsOK, CallsOK, CallOK, Sides, SendFieldsFrame
<1>1. m \in SendSlot /\ m.stage = "Sending" /\ ~IsVacant(m)
  <2>1. CASE begins
    <3>1. [type |-> "Fields", rate |-> 0] \in Tags /\ FieldsSize \in Nat
      BY ConnectionAssumption DEF Tags
    <3> QED BY <2>1, <3>1, SlotFacts DEF IsVacant
  <2>2. CASE ~begins
    BY <1>0, <2>2, SlotFacts
  <2> QED BY <2>1, <2>2
<1>2. PICK r \in SendResults("Sender", m) :
        /\ Transmit("Sender", r)
        /\ out' = [out EXCEPT !["Sender"] = Kept(r.msg)]
        /\ IF r.lost THEN Disconnecting("Sender", l) ELSE Goto("Sender", l)
  <2>1. PICK r \in IF IsVacant(m) THEN {nothing} ELSE SendResults("Sender", m) :
          /\ Transmit("Sender", r)
          /\ out' = [out EXCEPT !["Sender"] = Kept(r.msg)]
          /\ IF r.lost THEN Disconnecting("Sender", l) ELSE Goto("Sender", l)
    BY DEF SendFields
  <2> HIDE DEF m
  <2> QED BY <1>1, <2>1
<1> HIDE DEF m
<1>3. CASE r.lost
  <2>1. Busy("Sender")'
    BY <1>0, <1>2, <1>3 DEF Disconnecting, Busy
  <2> QED BY <1>0, <2>1 DEF Token
<1>4. CASE ~r.lost
  <2>1. out'["Sender"] = Kept(r.msg)
    BY <1>0, <1>2
  <2> QED BY <1>0, <1>1, <1>2, <1>4, <2>1, SentToken
<1> QED BY <1>3, <1>4

(* One that has nothing to send changes nothing.                            *)
LEMMA FieldsNone ==
  ASSUME Grounded, NEW l, SendFields(FALSE, l), IsVacant(out["Sender"])
  PROVE  out' = out /\ wire' = wire /\ Goto("Sender", l)
<1> DEFINE m == out["Sender"]
<1> DEFINE nothing == [lost |-> FALSE, msg |-> m, bytes |-> <<>>]
<1>1. PICK r \in {nothing} :
        /\ Transmit("Sender", r)
        /\ out' = [out EXCEPT !["Sender"] = Kept(r.msg)]
        /\ IF r.lost THEN Disconnecting("Sender", l) ELSE Goto("Sender", l)
  BY DEF SendFields
<1>2. Kept(m) = m
  BY DEF Kept, IsVacant, IsCompleted
<1>3. out \in [Sides -> Message]
  BY DEF Grounded, Control, TypeOK
<1> QED BY <1>1, <1>2, <1>3 DEF Transmit

(* The same of requests.                                                    *)
LEMMA RequestToken ==
  ASSUME Grounded, NEW allow \in BOOLEAN, SendRequest(allow, "tick"), ~Leaving("Receiver"),
         UNCHANGED SendRequestFrame, Exchanging', allow \/ ~IsVacant(out["Receiver"])
  PROVE  Token'
<1> DEFINE m == IF allow /\ IsVacant(out["Receiver"])
                THEN BeginSend([type |-> "FieldsRequest", rate |-> mutual["Receiver"]],
                               FieldsRequestSize)
                ELSE out["Receiver"]
<1> DEFINE nothing == [lost |-> FALSE, msg |-> m, bytes |-> <<>>]
<1>0. /\ out \in [Sides -> Message] /\ pc \in [Sides -> Calls] /\ "Receiver" \in Sides
      /\ out["Receiver"] \in SendSlot /\ ~IsCompleted(out["Receiver"]) /\ mutual["Receiver"] \in Nat
      /\ UNCHANGED <<sock, ends>>
  BY DEF Grounded, Control, TypeOK, SlotsOK, CallsOK, CallOK, Sides, SendRequestFrame
<1>1. m \in SendSlot /\ m.stage = "Sending" /\ ~IsVacant(m)
  <2>1. CASE allow /\ IsVacant(out["Receiver"])
    <3>1. [type |-> "FieldsRequest", rate |-> mutual["Receiver"]] \in Tags /\ FieldsRequestSize \in Nat
      BY <1>0 DEF Tags, FieldsRequestSize
    <3> QED BY <2>1, <3>1, SlotFacts DEF IsVacant
  <2>2. CASE ~(allow /\ IsVacant(out["Receiver"]))
    BY <1>0, <2>2, SlotFacts
  <2> QED BY <2>1, <2>2
<1>2. PICK r \in SendResults("Receiver", m) :
        /\ Transmit("Receiver", r)
        /\ out' = [out EXCEPT !["Receiver"] = Kept(r.msg)]
        /\ IF r.lost THEN Disconnecting("Receiver", "tick") ELSE Goto("Receiver", "tick")
  <2>1. PICK r \in IF IsVacant(m) THEN {nothing} ELSE SendResults("Receiver", m) :
          /\ Transmit("Receiver", r)
          /\ out' = [out EXCEPT !["Receiver"] = Kept(r.msg)]
          /\ IF r.lost THEN Disconnecting("Receiver", "tick") ELSE Goto("Receiver", "tick")
    BY DEF SendRequest
  <2> HIDE DEF m
  <2> QED BY <1>1, <2>1
<1> HIDE DEF m
<1>3. CASE r.lost
  <2>1. Busy("Receiver")'
    BY <1>0, <1>2, <1>3 DEF Disconnecting, Busy
  <2> QED BY <1>0, <2>1 DEF Token
<1>4. CASE ~r.lost
  <2>1. out'["Receiver"] = Kept(r.msg)
    BY <1>0, <1>2
  <2> QED BY <1>0, <1>1, <1>2, <1>4, <2>1, SentToken
<1> QED BY <1>3, <1>4

LEMMA RequestNone ==
  ASSUME Grounded, NEW allow \in BOOLEAN, ~allow, SendRequest(allow, "tick"), IsVacant(out["Receiver"])
  PROVE  out' = out /\ wire' = wire /\ state' = state /\ Goto("Receiver", "tick")
<1> DEFINE m == out["Receiver"]
<1> DEFINE nothing == [lost |-> FALSE, msg |-> m, bytes |-> <<>>]
<1>1. PICK r \in {nothing} :
        /\ Transmit("Receiver", r)
        /\ out' = [out EXCEPT !["Receiver"] = Kept(r.msg)]
        /\ IF r.lost THEN Disconnecting("Receiver", "tick") ELSE Goto("Receiver", "tick")
        /\ IF IsCompleted(r.msg) THEN SetState("Receiver", "ReadyForFields")
           ELSE UNCHANGED state
  BY DEF SendRequest
<1>2. Kept(m) = m /\ ~IsCompleted(m)
  BY DEF Kept, IsVacant, IsCompleted
<1>3. out \in [Sides -> Message]
  BY DEF Grounded, Control, TypeOK
<1> QED BY <1>1, <1>2, <1>3 DEF Transmit

(* A receive that completes nothing leaves what it has read in its slot.    *)
LEMMA ReceivedToken ==
  ASSUME Grounded, NEW s \in Sides, NEW m \in ReceiveSlot, m.stage = "Receiving",
         m = in[s] \/ (IsVacant(in[s]) /\ m = BeginReceive(NoTag)),
         NEW r \in ReceiveResults(s, m), Take(s, r), ~r.lost, ~IsCompleted(r.msg),
         in'[s] = Kept(r.msg), UNCHANGED sock
  PROVE  /\ Coming(s) => Coming(s)'
         /\ \A t \in Sides : t # s /\ sock[t] \in Conns => wire'[sock[t]][t] = wire[sock[t]][t]
<1> DEFINE o == r.msg
<1> DEFINE q == wire[sock[s]][s]
<1>0. TypeOK /\ Bounded /\ in[s] \in ReceiveSlot
  BY DEF Grounded, Control, SlotsOK
<1>1. PICK k : Receives(s, m, k, o)
  BY <1>0, ReceiveStep
<1>2. /\ sock[s] \in Conns
      /\ wire'[sock[s]][s] = SubSeq(q, k + 1, Len(q))
      /\ \A c \in Conns, t \in Sides : t # s => wire'[c][t] = wire[c][t]
  BY <1>1 DEF Receives, Usable
<1>3. PICK h, p : Advances(m, q, h, p, k, o)
  BY <1>1 DEF Receives
<1>4. /\ h \in Nat /\ p \in Nat /\ k = h + p /\ k \in 0 .. Len(q) /\ o.hdr = m.hdr + h
      /\ o.hdr < HeaderSize => p = 0
  BY <1>3 DEF Advances
<1>5. q \in Seq(Byte)
  BY <1>0, <1>2 DEF TypeOK
<1>6. m.hdr \in Nat /\ HeaderSize \in Nat \ {0} /\ (in[s].hdr > 0 => m.hdr > 0)
  <2>1. IsVacant(in[s]) => in[s].hdr = 0
    BY <1>0, SlotNumbers
  <2> QED BY <2>1, SlotNumbers
<1>7. in'[s] = o
  BY DEF Kept
<1>8. Coming(s) => Coming(s)'
  <2>1. CASE k = 0
    <3>1. o.hdr = m.hdr
      <4> HIDE DEF o
      <4> QED BY <1>4, <1>6, <2>1
    <3>2. SubSeq(q, k + 1, Len(q)) = q
      <4> HIDE DEF q
      <4> QED BY <1>5, <2>1
    <3> QED BY <1>2, <1>6, <1>7, <3>1, <3>2 DEF Coming
  <2>2. CASE k # 0
    <3>1. o.hdr > 0
      <4> HIDE DEF o
      <4> QED BY <1>4, <1>6, <2>2
    <3> QED BY <1>7, <3>1 DEF Coming
  <2> QED BY <2>1, <2>2
<1> QED BY <1>2, <1>8

(* The exchange goes on where neither states nor sockets nor ends change.   *)
LEMMA SameExchange ==
  ASSUME TokenNeverLost, Exchanging', UNCHANGED <<state, sock, ends>> PROVE Token /\ Exchanging
<1>1. Exchanging
  BY DEF Exchanging, Usable
<1> QED BY <1>1 DEF TokenNeverLost, Token, Coming, Busy

(* The handshake ends with a call that sends: the first fields, the first   *)
(* request.                                                                 *)
LEMMA SubscribeTokens ==
  ASSUME Grounded, Exchanging', SendSubscribe \/ ReceiveSubscribe PROVE Token'
<1>0. pc \in [Sides -> Calls] /\ state \in [Sides -> States] /\ "Sender" \in Sides /\ "Receiver" \in Sides
  BY DEF Grounded, Control, TypeOK, Sides
<1>1. CASE SendSubscribe
  <2>1. state["Sender"] = "ReadyForHandshake" /\ state'["Sender"] = "ReadyForFields"
    BY <1>0, <1>1 DEF SendSubscribe, Exchanging
  <2>2. Busy("Sender")'
    BY <1>0, <1>1, <2>1 DEF SendSubscribe, Busy, Disconnecting, Goto
  <2> QED BY <1>0, <2>2 DEF Token
<1>2. CASE ReceiveSubscribe
  <2>1. state["Receiver"] = "ReadyForHandshake" /\ state'["Receiver"] = "ReadyForFields"
    BY <1>0, <1>2 DEF ReceiveSubscribe, Exchanging
  <2>2. Busy("Receiver")'
    BY <1>0, <1>2, <2>1 DEF ReceiveSubscribe, Busy, Disconnecting, Goto
  <2> QED BY <1>0, <2>2 DEF Token
<1> QED BY <1>1, <1>2

(* The Sender's calls that send.                                            *)
LEMMA FieldsTokens ==
  ASSUME Grounded, TokenNeverLost, Exchanging',
         FirstFields \/ PacedFields \/ ReplyFields \/ FlushFields
  PROVE  Token'
<1>0. pc \in [Sides -> Calls] /\ ticksUntil \in Nat /\ "Sender" \in Sides
  BY DEF Grounded, Control, TypeOK, Sides
<1>1. CASE FirstFields \/ ReplyFields
  <2>1. PICK l : SendFields(TRUE, l)
    BY <1>1 DEF FirstFields, ReplyFields
  <2>2. UNCHANGED SendFieldsFrame /\ ~Leaving("Sender")
    BY <1>1 DEF FirstFields, ReplyFields, SendFieldsFrame, Leaving
  <2> QED BY <2>1, <2>2, FieldsToken
<1>2. CASE PacedFields
  <2>1. UNCHANGED SendFieldsFrame /\ ~Leaving("Sender") /\ pc["Sender"] = "tick"
        /\ ticksUntil' = IF ticksUntil > 0 THEN ticksUntil - 1 ELSE 0
    BY <1>2 DEF PacedFields, Leaving
  <2>2. CASE ticksUntil = 1
    <3>1. SendFields(TRUE, "request")
      BY <1>2, <2>2 DEF PacedFields
    <3> QED BY <2>1, <3>1, FieldsToken
  <2>3. CASE ticksUntil > 1
    <3>1. ticksUntil' > 0
      BY <1>0, <2>1, <2>3
    <3> QED BY <3>1 DEF Token
  <2>4. CASE ticksUntil = 0
    <3>1. Goto("Sender", "request") /\ UNCHANGED <<out, wire>>
      BY <1>2, <2>4 DEF PacedFields
    <3>2. UNCHANGED <<state, sock, ends, in, anyReceived>>
      BY <2>1 DEF SendFieldsFrame
    <3>3. Token
      BY <3>2, SameExchange
    <3>4. \A s \in Sides : Busy(s) => Busy(s)'
      BY <1>0, <2>1, <3>1 DEF Busy, Goto
    <3> QED BY <2>4, <3>1, <3>2, <3>3, <3>4 DEF Token, Coming
  <2> QED BY <1>0, <2>2, <2>3, <2>4
<1>3. CASE FlushFields
  <2>1. /\ SendFields(FALSE, "tick") /\ UNCHANGED SendFieldsFrame /\ ~Leaving("Sender")
        /\ pc["Sender"] = "flush" /\ ticksUntil' = ticksUntil
    BY <1>3 DEF FlushFields, SendFieldsFrame, Leaving
  <2>2. CASE ~IsVacant(out["Sender"])
    BY <2>1, <2>2, FieldsToken
  <2>3. CASE IsVacant(out["Sender"])
    <3>1. Goto("Sender", "tick") /\ UNCHANGED <<out, wire>>
      BY <2>1, <2>3, FieldsNone
    <3>2. UNCHANGED <<state, sock, ends, in, anyReceived>>
      BY <2>1 DEF SendFieldsFrame
    <3>3. Token
      BY <3>2, SameExchange
    <3>4. \A s \in Sides : Busy(s) => Busy(s)'
      BY <1>0, <2>1, <3>1 DEF Busy, Goto
    <3> QED BY <2>1, <3>1, <3>2, <3>3, <3>4 DEF Token, Coming
  <2> QED BY <2>2, <2>3
<1> QED BY <1>1, <1>2, <1>3

(* The Receiver's calls that send.                                          *)
LEMMA RequestTokens ==
  ASSUME Grounded, TokenNeverLost, Exchanging', FirstRequest \/ RequestMore PROVE Token'
<1>0. /\ pc \in [Sides -> Calls] /\ anyReceived \in BOOLEAN /\ "Receiver" \in Sides
  BY DEF Grounded, Control, TypeOK, Sides
<1>1. CASE FirstRequest
  BY <1>1, RequestToken DEF FirstRequest, Leaving, SendRequestFrame
<1>2. CASE RequestMore
  <2>1. /\ SendRequest(anyReceived, "tick") /\ UNCHANGED SendRequestFrame /\ ~Leaving("Receiver")
        /\ pc["Receiver"] = "request"
    BY <1>2 DEF RequestMore, SendRequestFrame, Leaving
  <2>2. CASE anyReceived \/ ~IsVacant(out["Receiver"])
    BY <1>0, <2>1, <2>2, RequestToken
  <2>3. CASE ~anyReceived /\ IsVacant(out["Receiver"])
    <3>1. Goto("Receiver", "tick") /\ UNCHANGED <<out, wire, state>>
      BY <1>0, <2>1, <2>3, RequestNone
    <3>2. UNCHANGED <<sock, ends, in, ticksUntil>>
      BY <2>1 DEF SendRequestFrame
    <3>3. Token
      BY <3>1, <3>2, SameExchange
    <3>4. \A s \in Sides : Busy(s) => Busy(s)'
      BY <1>0, <2>1, <3>1 DEF Busy, Goto
    <3> QED BY <2>3, <3>1, <3>2, <3>3, <3>4 DEF Token, Coming
  <2> QED BY <2>2, <2>3
<1> QED BY <1>1, <1>2

(* A request that is read is answered ...                                   *)
LEMMA ReceiveRequestToken ==
  ASSUME Grounded, TokenNeverLost, Exchanging', ReceiveRequest PROVE Token'
<1> DEFINE m == IF IsVacant(in["Sender"]) THEN BeginReceive(NoTag) ELSE in["Sender"]
<1>0. /\ pc \in [Sides -> Calls] /\ in \in [Sides -> Message] /\ "Sender" \in Sides
      /\ pc["Sender"] = "request" /\ UNCHANGED <<state, sock, out, anyReceived, ends>>
      /\ ~Leaving("Sender")
  BY DEF Grounded, Control, TypeOK, Sides, ReceiveRequest, Leaving
<1>1. m \in ReceiveSlot /\ m.stage = "Receiving"
      /\ (m = in["Sender"] \/ (IsVacant(in["Sender"]) /\ m = BeginReceive(NoTag)))
  BY <1>0, ReceivedSlot
<1>2. PICK r \in ReceiveResults("Sender", m) :
        /\ Take("Sender", r)
        /\ in' = [in EXCEPT !["Sender"] = Kept(r.msg)]
        /\ \/ r.lost /\ Disconnecting("Sender", "flush")
           \/ ~r.lost /\ IsCompleted(r.msg) /\ Goto("Sender", "reply")
           \/ /\ ~r.lost /\ ~IsCompleted(r.msg) /\ Goto("Sender", "flush")
              /\ UNCHANGED ticksUntil
  BY DEF ReceiveRequest
<1> HIDE DEF m
<1>3. CASE r.lost \/ IsCompleted(r.msg)
  <2>1. Busy("Sender")'
    BY <1>0, <1>2, <1>3 DEF Busy, Disconnecting, Goto
  <2> QED BY <1>0, <2>1 DEF Token
<1>4. CASE ~r.lost /\ ~IsCompleted(r.msg)
  <2>1. in'["Sender"] = Kept(r.msg) /\ Goto("Sender", "flush") /\ UNCHANGED ticksUntil
    BY <1>0, <1>2, <1>4
  <2>2. /\ Coming("Sender") => Coming("Sender")'
        /\ \A t \in Sides : t # "Sender" /\ sock[t] \in Conns => wire'[sock[t]][t] = wire[sock[t]][t]
    BY <1>0, <1>1, <1>2, <1>4, <2>1, ReceivedToken
  <2>3. Token /\ Exchanging
    BY <1>0, SameExchange
  <2>4. \A s \in Sides : Coming(s) => Coming(s)'
    BY <1>0, <1>2, <2>2, <2>3 DEF Coming, Exchanging, Usable
  <2>5. \A s \in Sides : Busy(s) => Busy(s)'
    BY <1>0, <2>1 DEF Busy, Goto
  <2> QED BY <1>0, <2>1, <2>3, <2>4, <2>5 DEF Token
<1> QED BY <1>3, <1>4

(* ... and Fields that are read set any_received.                           *)
LEMMA ReceiveFieldsToken ==
  ASSUME Grounded, TokenNeverLost, Exchanging', ReceiveFields PROVE Token'
<1> DEFINE m == IF IsVacant(in["Receiver"]) THEN BeginReceive(NoTag) ELSE in["Receiver"]
<1>0. /\ pc \in [Sides -> Calls] /\ in \in [Sides -> Message] /\ "Receiver" \in Sides
      /\ pc["Receiver"] \in {"tick", "consume"} /\ UNCHANGED <<state, sock, out, ticksUntil, ends>>
      /\ ~Leaving("Receiver") /\ (pc["Receiver"] = "tick" => ~anyReceived)
  BY DEF Grounded, Control, TypeOK, Sides, ReceiveFields, Leaving, ReceiverOK
<1>1. m \in ReceiveSlot /\ m.stage = "Receiving"
      /\ (m = in["Receiver"] \/ (IsVacant(in["Receiver"]) /\ m = BeginReceive(NoTag)))
  BY <1>0, ReceivedSlot
<1>2. PICK r \in ReceiveResults("Receiver", m) :
        /\ Take("Receiver", r)
        /\ in' = [in EXCEPT !["Receiver"] = Kept(r.msg)]
        /\ IF r.lost THEN Disconnecting("Receiver", "request")
           ELSE Goto("Receiver", IF IsCompleted(r.msg) THEN "consume" ELSE "request")
        /\ anyReceived' = ((pc["Receiver"] = "consume" /\ anyReceived) \/ IsCompleted(r.msg))
  BY DEF ReceiveFields
<1> HIDE DEF m
<1>3. CASE r.lost
  <2>1. Busy("Receiver")'
    BY <1>0, <1>2, <1>3 DEF Busy, Disconnecting
  <2> QED BY <1>0, <2>1 DEF Token
<1>4. CASE IsCompleted(r.msg)
  BY <1>2, <1>4 DEF Token
<1>5. CASE ~r.lost /\ ~IsCompleted(r.msg)
  <2>1. in'["Receiver"] = Kept(r.msg) /\ Goto("Receiver", "request") /\ (anyReceived => anyReceived')
    BY <1>0, <1>2, <1>5
  <2>2. /\ Coming("Receiver") => Coming("Receiver")'
        /\ \A t \in Sides : t # "Receiver" /\ sock[t] \in Conns => wire'[sock[t]][t] = wire[sock[t]][t]
    BY <1>0, <1>1, <1>2, <1>5, <2>1, ReceivedToken
  <2>3. Token /\ Exchanging
    BY <1>0, SameExchange
  <2>4. \A s \in Sides : Coming(s) => Coming(s)'
    BY <1>0, <1>2, <2>2, <2>3 DEF Coming, Exchanging, Usable
  <2>5. \A s \in Sides : Busy(s) => Busy(s)'
    BY <1>0, <2>1 DEF Busy, Goto
  <2> QED BY <1>0, <2>1, <2>3, <2>4, <2>5 DEF Token
<1> QED BY <1>3, <1>4, <1>5

(* Steps that end the exchange, or take place outside it.                   *)
LEMMA DisconnectToken ==
  ASSUME Grounded, Exchanging', NEW s \in Sides,
         WaitToReconnect(s) \/ DrainIn(s) \/ DrainOut(s) \/ CloseAndReset(s) \/ Restart(s) \/ PowerLoss(s)
  PROVE  Token'
<1>0. pc \in [Sides -> Calls] /\ state \in [Sides -> States]
  BY DEF Grounded, Control, TypeOK
<1>1. CASE WaitToReconnect(s)
  BY <1>1 DEF WaitToReconnect, Exchanging
<1>2. CASE CloseAndReset(s) \/ Restart(s) \/ PowerLoss(s)
  <2>1. state'[s] = "Disconnected"
    BY <1>0, <1>2 DEF CloseAndReset, Restart, PowerLoss, FreshSide, SetState
  <2> QED BY <2>1 DEF Exchanging
<1>3. CASE DrainIn(s)
  <2>1. pc'[s] \in {"drainIn", "drainOut"}
    BY <1>0, <1>3 DEF DrainIn
  <2> QED BY <2>1 DEF Token, Busy
<1>4. CASE DrainOut(s)
  <2>1. pc'[s] \in {"drainOut", "close"}
    BY <1>0, <1>4 DEF DrainOut
  <2> QED BY <2>1 DEF Token, Busy
<1> QED BY <1>1, <1>2, <1>3, <1>4

LEMMA OpenToken == ASSUME Grounded, Exchanging', Connect \/ Listen \/ Accept PROVE Token'
<1>0. state \in [Sides -> States] /\ "Sender" \in Sides /\ "Receiver" \in Sides
  BY DEF Grounded, Control, TypeOK, Sides
<1>1. CASE Connect
  <2>1. state'["Sender"] \in {"Disconnected", "ReadyForHandshake"}
    BY <1>0, <1>1 DEF Connect, TriesToConnect, SetState
  <2> QED BY <1>0, <2>1 DEF Exchanging
<1>2. CASE Listen \/ Accept
  <2>1. state'["Receiver"] \in {"Disconnected", "ReadyForHandshake"}
    BY <1>0, <1>2 DEF Listen, Accept, TriesToConnect, SetState
  <2> QED BY <1>0, <2>1 DEF Exchanging
<1> QED BY <1>1, <1>2

LEMMA ResetToken ==
  ASSUME Grounded, TokenNeverLost, Exchanging', NEW c \in Conns, Reset(c) PROVE Token'
<1>0. /\ UNCHANGED <<state, sock, pc, in, out, ticksUntil, anyReceived>>
      /\ ends' = [ends EXCEPT ![c] = {}] /\ wire' = [wire EXCEPT ![c] = [s \in Sides |-> <<>>]]
      /\ ends \in [Conns -> SUBSET Sides] /\ wire \in [Conns -> [Sides -> Seq(Byte)]]
  BY DEF Reset, sideVars, Grounded, Control, TypeOK
<1>1. \A s \in Sides : sock[s] \in Conns /\ s \in ends'[sock[s]] /\ state[s] = "ReadyForFields"
  BY <1>0 DEF Exchanging, Usable
<1>2. \A s \in Sides : sock[s] # c
  BY <1>0, <1>1
<1>3. \A s \in Sides : s \in ends[sock[s]] /\ wire'[sock[s]][s] = wire[sock[s]][s]
  BY <1>0, <1>1, <1>2
<1>4. Exchanging
  BY <1>0, <1>1, <1>3 DEF Exchanging, Usable
<1>5. Token
  BY <1>4 DEF TokenNeverLost, Token, Coming, Busy
<1>6. \A s \in Sides : (Coming(s) => Coming(s)') /\ (Busy(s) => Busy(s)')
  BY <1>0, <1>3 DEF Coming, Busy
<1> QED BY <1>0, <1>5, <1>6 DEF Token

(* Every step keeps a token.                                                *)
LEMMA StepToken == Grounded /\ TokenNeverLost /\ [Next]_vars => TokenNeverLost'
<1> SUFFICES ASSUME Grounded, TokenNeverLost, [Next]_vars, Exchanging' PROVE Token'
  BY DEF TokenNeverLost, Token, Coming, Busy
<1>1. CASE UNCHANGED vars
  <2>1. Token
    BY <1>1, SameExchange DEF vars
  <2> QED BY <1>1, <2>1 DEF vars, Token, Coming, Busy
<1>2. CASE Next
  BY <1>2, NextCases, SubscribeTokens, FieldsTokens, RequestTokens, ReceiveRequestToken,
     ReceiveFieldsToken, DisconnectToken, OpenToken, ResetToken
<1> QED BY <1>1, <1>2

(* While both sides exchange fields over one live connection some token is  *)
(* left, in flight, in a slot, about to be answered or scheduled            *)
(* (TokenNeverLost): the exchange never stalls on a healthy connection.     *)
THEOREM TokenHolds == Spec => []TokenNeverLost
<1>1. Init => TokenNeverLost
  BY DEF Init, TokenNeverLost, Exchanging, Sides
<1>2. Grounded /\ TokenNeverLost /\ [Next]_vars => TokenNeverLost'
  BY StepToken
<1> QED BY <1>1, <1>2, AlwaysGrounded, PTL DEF Spec

=============================================================================
