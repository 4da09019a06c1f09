---------------------------- MODULE MessageLink ----------------------------
(***************************************************************************)
(* One direction of a remote connection seen from InProgressMessage: the   *)
(* slot of the sending engine, the byte stream of the socket and the slot  *)
(* of the receiving engine.  A call of tick() moves as many header and     *)
(* payload bytes as the kernel pleases; the stream can break at any byte.  *)
(* It implements MessageFifo.                                              *)
(***************************************************************************)
EXTENDS InProgressMessage

CONSTANTS
  PayloadSize(_),   \* payload length of the n-th message
  Capacity,         \* bytes the sockets buffer
  MaxMessages       \* bound on the messages begun

ASSUME LinkAssumption ==
  /\ MaxMessages \in Nat
  /\ \A n \in 0 .. MaxMessages + 1 : PayloadSize(n) \in Nat
  /\ Capacity \in Nat

VARIABLES
  out,     \* in_progress_message_out of the sending engine
  in,      \* in_progress_message_in of the receiving engine
  wire,    \* bytes accepted by one kernel and not delivered by the other
  up,      \* FALSE once the connection is broken
  sent,    \* messages begun by the sender
  rcvd,    \* of these, those completed by the receiver or lost with a connection
  got      \* number of the last message the receiver completed

vars == <<out, in, wire, up, sent, rcvd, got>>

Empty == VacantMessage(0)

Init ==
  /\ out = Empty /\ in = Empty
  /\ wire = <<>> /\ up = TRUE
  /\ sent = 0 /\ rcvd = 0 /\ got = 0

(* begin_send(): the message's number stands for its payload.               *)
SendBegin ==
  /\ IsVacant(out) /\ sent < MaxMessages
  /\ sent' = sent + 1
  /\ out' = BeginSend(sent + 1, PayloadSize(sent + 1))
  /\ UNCHANGED <<in, wire, up, rcvd, got>>

(* tick() while Stage::Sending *)
SendTick ==
  /\ up /\ out.stage = "Sending"
  /\ \E h \in 0 .. HeaderSize, p \in 0 .. ChunkSize :
       /\ CanSend(out, h, p)
       /\ Len(wire) + h + p <= Capacity
       /\ out' = AfterSend(out, h, p)
       /\ wire' = wire \o NextBytes(out, h + p)
  /\ UNCHANGED <<in, up, sent, rcvd, got>>

(* vacate() after is_completed() *)
SendDone ==
  /\ IsCompleted(out)
  /\ out' = Empty
  /\ UNCHANGED <<in, wire, up, sent, rcvd, got>>

(* begin_receive() *)
ReceiveBegin ==
  /\ IsVacant(in)
  /\ in' = BeginReceive(0)
  /\ UNCHANGED <<out, wire, up, sent, rcvd, got>>

(* tick() while Stage::Receiving; after a break it can still deliver what   *)
(* had arrived.                                                             *)
ReceiveTick ==
  /\ in.stage = "Receiving"
  /\ \E h \in 0 .. HeaderSize, p \in 0 .. ChunkSize :
       /\ CanReceive(in, wire, h, p)
       /\ in' = AfterReceive(in, wire, h, p)
       /\ wire' = SubSeq(wire, h + p + 1, Len(wire))
  /\ UNCHANGED <<out, up, sent, rcvd, got>>

ReceiveDoneTwice ==                     \* slip: the slot is not vacated
  /\ IsCompleted(in)
  /\ got' = in.tag
  /\ rcvd' = rcvd + 1
  /\ UNCHANGED <<out, in, wire, up, sent>>
(* The owner finds is_completed(), uses the message and vacates the slot.   *)
ReceiveDone ==
  /\ IsCompleted(in)
  /\ got' = in.tag
  /\ rcvd' = rcvd + 1
  /\ in' = Empty
  /\ UNCHANGED <<out, wire, up, sent>>

(* The connection breaks; of the bytes on their way a suffix is lost.       *)
Break ==
  /\ up /\ up' = FALSE
  /\ \E n \in 0 .. Len(wire) : wire' = SubSeq(wire, 1, n)
  /\ UNCHANGED <<out, in, sent, rcvd, got>>

ReconnectHalfRead ==                    \* slip: the receiving slot is not vacated
  /\ ~up /\ up' = TRUE
  /\ out' = Empty /\ wire' = <<>>
  /\ rcvd' = sent
  /\ UNCHANGED <<in, sent, got>>
(* Both owners have seen ConnectionLost and vacated their slots; the next   *)
(* connection starts with an empty stream and a new message.                *)
Reconnect ==
  /\ ~up /\ up' = TRUE
  /\ out' = Empty /\ in' = Empty /\ wire' = <<>>
  /\ rcvd' = sent
  /\ UNCHANGED <<sent, got>>

Next ==
  \/ SendBegin \/ SendTick \/ SendDone
  \/ ReceiveBegin \/ ReceiveTick \/ ReceiveDone
  \/ Break \/ Reconnect

Spec == Init /\ [][Next]_vars

-----------------------------------------------------------------------------
Total(n) == HeaderSize + PayloadSize(n)

Slot == [stage : Stages, tag : Nat, size : Nat, hdr : 0 .. HeaderSize,
         done : Nat, chunk : 0 .. ChunkSize]
Byte == [tag : Nat, size : Nat, pos : Nat]

TypeOK ==
  /\ out \in Slot /\ in \in Slot
  /\ wire \in Seq(Byte)
  /\ up \in BOOLEAN
  /\ sent \in 0 .. MaxMessages /\ rcvd \in 0 .. MaxMessages /\ got \in Nat

(* What the two slots know of their own message.                            *)
SlotsOK ==
  /\ out.stage \in {"Vacant", "Sending", "Completed"}
  /\ IsVacant(out) => out = Empty
  /\ ~IsVacant(out) => sent > 0 /\ out.tag = sent /\ out.size = PayloadSize(sent)
  /\ out.stage = "Sending" => Position(out) < Total(sent)
  /\ out.hdr < HeaderSize => out.done = 0 /\ out.chunk = 0
  /\ out.done + out.chunk <= out.size
  /\ in.stage \in {"Vacant", "Receiving", "Completed"}
  /\ IsVacant(in) => in = Empty
  /\ in.hdr = HeaderSize => in.tag = rcvd + 1 /\ in.size = PayloadSize(rcvd + 1)
  /\ in.hdr < HeaderSize => in.done = 0 /\ ~IsCompleted(in)
  /\ in.stage = "Receiving" => Position(in) < Total(rcvd + 1)
  /\ IsCompleted(in) => Position(in) = Total(rcvd + 1)
  /\ in.hdr > 0 => rcvd < sent
  /\ rcvd <= sent

(* The byte the sender will write and the byte the receiver must read next, *)
(* as <<message, position>>.                                                *)
NextSent ==
  IF out.stage = "Sending" THEN <<sent, Position(out) + 1>> ELSE <<sent + 1, 1>>
NextRead ==
  IF IsCompleted(in) THEN <<rcvd + 2, 1>> ELSE <<rcvd + 1, Position(in) + 1>>

(* The stream is a run of whole messages cut only at its two ends: a byte   *)
(* is followed by the rest of its message, and a message by the next one.   *)
BytesOK ==
  \A i \in 1 .. Len(wire) :
    /\ wire[i].tag \in 1 .. sent
    /\ wire[i].size = PayloadSize(wire[i].tag)
    /\ wire[i].pos \in 1 .. Total(wire[i].tag)

RunsOK ==
  \A i, j \in 1 .. Len(wire) :
    (i <= j /\ wire[i].pos + (j - i) <= Total(wire[i].tag)) =>
      wire[j].tag = wire[i].tag /\ wire[j].pos = wire[i].pos + (j - i)

JoinsOK ==
  \A i \in 1 .. Len(wire) - 1 :
    wire[i].pos = Total(wire[i].tag) =>
      wire[i + 1].tag = wire[i].tag + 1 /\ wire[i + 1].pos = 1

HeadOK == wire # <<>> => NextRead = <<wire[1].tag, wire[1].pos>>

StreamOK == BytesOK /\ RunsOK /\ JoinsOK /\ HeadOK

(* While the connection is up the stream leads up to what the sender writes *)
(* next.                                                                    *)
EmptyEndOK == up /\ wire = <<>> => NextRead = NextSent

CutEndOK ==
  up => \A i \in 1 .. Len(wire) :
    wire[i].pos + (Len(wire) - i) < Total(wire[i].tag) =>
      NextSent = <<wire[i].tag, wire[i].pos + (Len(wire) - i) + 1>>

WholeEndOK ==
  up /\ wire # <<>> /\ wire[Len(wire)].pos = Total(wire[Len(wire)].tag) =>
    NextSent = <<wire[Len(wire)].tag + 1, 1>>

StreamEndOK == EmptyEndOK /\ CutEndOK /\ WholeEndOK

IInv == TypeOK /\ SlotsOK /\ StreamOK /\ StreamEndOK

(* InProgressMessage.cpp:104-261: however the kernel cuts the stream, a     *)
(* completed message is the next one the sender began, with all its bytes:  *)
(* the receiver never joins parts of two messages, skips one or takes a     *)
(* payload byte for a header.                                               *)
CompletedInOrder ==
  IsCompleted(in) =>
    /\ in.tag = rcvd + 1 /\ in.tag <= sent
    /\ in.hdr = HeaderSize /\ in.done = PayloadSize(in.tag)

(* The link implements the queue of whole messages.                         *)
Fifo == INSTANCE MessageFifo WITH
          last  <- sent,
          queue <- [i \in 1 .. (sent - rcvd) |-> rcvd + i],
          got   <- got
ImplementsFifo == Fifo!Spec
=============================================================================
