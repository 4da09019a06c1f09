------------------------- MODULE InProgressMessage -------------------------
(***************************************************************************)
(* data/InProgressMessage.cpp: one framed message being sent or received   *)
(* over a non-blocking TCP socket.  A message is a header of HeaderSize    *)
(* bytes followed by `size' payload bytes, which move at most ChunkSize at *)
(* a time because they pass through chunk_buffer.                          *)
(*                                                                         *)
(* The operators below are the two halves of tick(): what the message      *)
(* becomes when the kernel accepts (or delivers) h header bytes and p      *)
(* payload bytes during one call.  The modules that use them decide which  *)
(* h and p the socket allows, and when the connection is lost.             *)
(*                                                                         *)
(* A byte on the wire is a record: the message it belongs to (`tag'), the  *)
(* payload length its header announces (`size') and its position `pos',    *)
(* counted from 1 over header and payload.  The magic and version bytes    *)
(* are left out: both ends are built from the same source.                 *)
(***************************************************************************)
EXTENDS Integers, Sequences

CONSTANTS
  HeaderSize,   \* sizeof(MessageHeader)
  ChunkSize     \* sizeof(chunk_buffer)

ASSUME FrameAssumption ==
  /\ HeaderSize \in Nat \ {0}
  /\ ChunkSize  \in Nat \ {0}

MinOf(a, b) == IF a <= b THEN a ELSE b

Stages == {"Vacant", "Sending", "Receiving", "Completed"}

(* vacate(): the slot carries nothing. *)
VacantMessage(noTag) ==
  [stage |-> "Vacant", tag |-> noTag, size |-> 0, hdr |-> 0, done |-> 0, chunk |-> 0]

BeginSend(tag, size) ==
  [stage |-> "Sending", tag |-> tag, size |-> size, hdr |-> 0, done |-> 0, chunk |-> 0]

BeginReceive(noTag) ==
  [stage |-> "Receiving", tag |-> noTag, size |-> 0, hdr |-> 0, done |-> 0, chunk |-> 0]

IsVacant(m)    == m.stage = "Vacant"
IsCompleted(m) == m.stage = "Completed"

(* is_occupied() && !is_completed(): the guard of every pump loop. *)
IsUnderWay(m)  == m.stage \in {"Sending", "Receiving"}

(* Bytes of the message that already crossed the socket. *)
Position(m) == m.hdr + m.done

-----------------------------------------------------------------------------
(* The sending half of tick().  `chunk' counts the bytes the payload writer *)
(* has put in chunk_buffer and the socket has not accepted yet: the writer  *)
(* runs again only when that count is zero.                                 *)

ChunkToSend(m) ==
  IF m.chunk > 0 THEN m.chunk ELSE MinOf(ChunkSize, m.size - m.done)

CanSend(m, h, p) ==
  /\ h \in 0 .. (HeaderSize - m.hdr)
  /\ p \in 0 .. ChunkToSend(m)
  /\ m.hdr + h < HeaderSize => p = 0

AfterSend(m, h, p) ==
  LET headerSent == m.hdr + h = HeaderSize
  IN  [m EXCEPT !.hdr   = @ + h,
                !.done  = @ + p,
                !.chunk = IF headerSent THEN ChunkToSend(m) - p ELSE 0,
                !.stage = IF headerSent /\ m.done + p = m.size THEN "Completed" ELSE @]

(* The n bytes of m that follow those already sent. *)
NextBytes(m, n) ==
  [i \in 1 .. n |-> [tag |-> m.tag, size |-> m.size, pos |-> Position(m) + i]]

-----------------------------------------------------------------------------
(* The receiving half of tick(): `wire' is what the socket holds.  The      *)
(* header is decoded when its last byte is in, and only then is the payload *)
(* length known.                                                            *)

HeaderIn(m, wire, h) ==
  IF h > 0 /\ m.hdr + h = HeaderSize
  THEN [m EXCEPT !.hdr = @ + h, !.tag = wire[h].tag, !.size = wire[h].size]
  ELSE [m EXCEPT !.hdr = @ + h]

CanReceiveBeyond(m, wire, h, p) ==      \* slip: reads a full chunk past the payload
  /\ h \in 0 .. MinOf(HeaderSize - m.hdr, Len(wire))
  /\ p \in 0 .. (Len(wire) - h)
  /\ IF m.hdr + h = HeaderSize THEN p <= ChunkSize ELSE p = 0
CanReceive(m, wire, h, p) ==
  /\ h \in 0 .. MinOf(HeaderSize - m.hdr, Len(wire))
  /\ p \in 0 .. (Len(wire) - h)
  /\ IF m.hdr + h = HeaderSize
     THEN p <= MinOf(ChunkSize, HeaderIn(m, wire, h).size - m.done)
     ELSE p = 0

AfterReceive(m, wire, h, p) ==
  LET r == HeaderIn(m, wire, h)
  IN  [r EXCEPT !.done  = @ + p,
                !.stage = IF r.hdr = HeaderSize /\ r.done + p = r.size
                          THEN "Completed" ELSE @]

=============================================================================
