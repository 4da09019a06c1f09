----------------------- MODULE RemoteEngineConnection -----------------------
(***************************************************************************)
(* data/RemoteEngineConnection.cpp: the Sender and the Receiver of one     *)
(* remote data connection, each advanced only by its own engine's tick(),  *)
(* over a TCP connection that can be refused, reset or closed at any time. *)
(*                                                                         *)
(* One action is one call that touches the socket: tick() is cut where it  *)
(* calls a tick_* function, because between two system calls of one engine *)
(* the other engine may run any number of its own.  pc says which call is  *)
(* next; pc = "tick" means that tick() is about to dispatch on `state'.    *)
(* Each of those functions advances its InProgressMessage exactly once:    *)
(* the pump loops of the source leave on InProgress as well as when the    *)
(* message is completed or lost.                                           *)
(***************************************************************************)
EXTENDS InProgressMessage, FiniteSets

CONSTANTS
  Conns,           \* identities of TCP connections; reused once both ends are closed
  Capacity,        \* bytes one direction of a connection buffers before EAGAIN
  SubscribeSize,   \* handshake_payload_capacity
  FieldsSize,      \* field_payload_capacity of the Sender
  SenderRate,      \* tick_info.tick_rate_hz of the Sender's engine
  ReceiverRate,    \* tick_info.tick_rate_hz of the Receiver's engine
  ReconnectTicks,  \* RECONNECT_ATTEMPT_INTERVAL_SEC in ticks
  MaxFaults,       \* bound on connection resets, restarts and power losses
  PowerLosses      \* whether a host may vanish without closing its connections

ASSUME ConnectionAssumption ==
  /\ Capacity \in Nat \ {0}
  /\ SubscribeSize \in Nat \ {0}
  /\ FieldsSize \in Nat \ {0}
  /\ SenderRate \in Nat \ {0}
  /\ ReceiverRate \in Nat \ {0}
  /\ ReconnectTicks \in Nat
  /\ MaxFaults \in Nat
  /\ PowerLosses \in BOOLEAN
  /\ Conns \cap {"none", "listening"} = {}
  /\ \E c, d \in Conns : c # d      \* one may be half open when the next begins

Sides == {"Sender", "Receiver"}
Peer(s) == IF s = "Sender" THEN "Receiver" ELSE "Sender"

States == {"Disconnected", "ReadyForHandshake", "ReadyForFields"}

NoTag == [type |-> "None", rate |-> 0]
Tags  == [type : {"None", "Subscribe", "FieldsRequest", "Fields"}, rate : Nat]
FieldsRequestSize == 1          \* the four bytes of the mutual tick rate
Empty == VacantMessage(NoTag)

VARIABLES
  state,           \* Side -> State
  pc,              \* Side -> the call that tick() makes next
  back,            \* Side -> where disconnect() returns to
  sock,            \* Side -> socket_fd: "none", "listening" or a connection
  out, in,         \* Side -> in_progress_message_out, in_progress_message_in
  timer,           \* Side -> time_sec_to_reconnect, in ticks
  mutual,          \* Side -> mutual_tick_rate_hz
  ticksUntil,      \* ticks_until_next_send of the Sender
  anyReceived,     \* any_received of the Receiver's tick()
  payload,         \* field_payload_capacity of the Receiver (0: no field bound)
  wire,            \* Conns -> Side -> bytes on their way to that side
  ends,            \* Conns -> the sides whose end of the connection is usable
  silent,          \* connections whose far end vanished without a word
  backlog,         \* connections established by the kernel, not yet accepted
  faults,          \* faults so far
  sinceRequest     \* history: Fields messages begun since the last FieldsRequest

sideVars == <<state, back, sock, timer, mutual, ticksUntil, anyReceived, payload>>
netVars  == <<wire, ends, silent, backlog>>
vars == <<state, pc, back, sock, out, in, timer, mutual, ticksUntil, anyReceived,
          payload, wire, ends, silent, backlog, faults, sinceRequest>>

Init ==
  /\ state = [s \in Sides |-> "Disconnected"]
  /\ pc    = [s \in Sides |-> "tick"]
  /\ back  = [s \in Sides |-> "tick"]
  /\ sock  = [s \in Sides |-> "none"]
  /\ out   = [s \in Sides |-> Empty]
  /\ in    = [s \in Sides |-> Empty]
  /\ timer = [s \in Sides |-> 0]
  /\ mutual = [s \in Sides |-> 0]
  /\ ticksUntil = 1
  /\ anyReceived = FALSE
  /\ payload = 0
  /\ wire = [c \in Conns |-> [s \in Sides |-> <<>>]]
  /\ ends = [c \in Conns |-> {}]
  /\ silent = {}
  /\ backlog = <<>>
  /\ faults = 0
  /\ sinceRequest = 0

-----------------------------------------------------------------------------
(* The kernel's side of send() and recv() on the socket of side s.          *)

Usable(s)   == sock[s] \in Conns /\ s \in ends[sock[s]]
PeerOpen(s) == Peer(s) \in ends[sock[s]]

(* A peer that vanished is noticed, if ever, only by the retransmission of  *)
(* bytes it never acknowledged.                                             *)
Noticed(s) == sock[s] \in silent /\ wire[sock[s]][Peer(s)] # <<>>
MayFail(s) == ~Usable(s) \/ ~PeerOpen(s) \/ Noticed(s)

(* What one call of out[s].tick() may come to.  An end that was closed or   *)
(* reset fails; bytes for a peer that has closed are either refused or      *)
(* accepted and dropped.                                                    *)
SendResults(s, m) ==
  LET room == IF PeerOpen(s) THEN Capacity - Len(wire[sock[s]][Peer(s)])
                             ELSE HeaderSize + m.size
      h == MinOf(HeaderSize - m.hdr, room)
      p == IF m.hdr + h = HeaderSize THEN MinOf(ChunkToSend(m), room - h) ELSE 0
      accepted == [lost |-> FALSE, msg |-> AfterSend(m, h, p),
                   bytes |-> IF PeerOpen(s) THEN NextBytes(m, h + p) ELSE <<>>]
      refused  == [lost |-> TRUE, msg |-> m, bytes |-> <<>>]
  IN  (IF Usable(s) THEN {accepted} ELSE {})
        \cup (IF MayFail(s) THEN {refused} ELSE {})

Transmit(s, r) ==
  wire' = IF r.bytes = <<>> THEN wire
          ELSE [wire EXCEPT ![sock[s]][Peer(s)] = @ \o r.bytes]

(* What one call of in[s].tick() may come to.  From a peer that has closed  *)
(* the bytes still on the wire can be read, unless a reset discards them;   *)
(* after the last of them recv() returns 0, which is a lost connection.     *)
ReceiveResults(s, m) ==
  LET q == wire[sock[s]][s]
      h == MinOf(HeaderSize - m.hdr, Len(q))
      r == HeaderIn(m, q, h)
      p == IF r.hdr = HeaderSize
           THEN MinOf(MinOf(ChunkSize, r.size - m.done), Len(q) - h) ELSE 0
      got == [lost |-> FALSE, msg |-> AfterReceive(m, q, h, p), taken |-> h + p]
      eof == r.hdr < HeaderSize \/ (p = 0 /\ m.done < r.size)
  IN  (IF Usable(s) /\ (PeerOpen(s) \/ ~eof) THEN {got} ELSE {})
        \cup (IF MayFail(s) THEN {[lost |-> TRUE, msg |-> m, taken |-> 0]} ELSE {})

Take(s, r) ==
  wire' = IF r.taken = 0 THEN wire
          ELSE [wire EXCEPT ![sock[s]][s] = SubSeq(@, r.taken + 1, Len(@))]

(* close(socket_fd), or the kernel closing it for a process that died: the  *)
(* peer can still read what is on its way to it.  Closing the listening     *)
(* socket resets the connections that wait in its backlog.                  *)
InBacklog(c) == \E i \in 1 .. Len(backlog) : backlog[i] = c
ResetBacklog(keep) ==
  /\ ends' = [c \in Conns |-> IF InBacklog(c) /\ c \notin keep THEN {} ELSE ends[c]]
  /\ wire' = [c \in Conns |-> IF InBacklog(c) /\ c \notin keep
                              THEN [s \in Sides |-> <<>>] ELSE wire[c]]
  /\ backlog' = <<>>
  /\ silent' = {c \in silent : ~InBacklog(c) \/ c \in keep}

CloseForgotten(s) == UNCHANGED netVars      \* slip: the descriptor leaks

Close(s) ==
  IF sock[s] = "listening" THEN ResetBacklog({})
  ELSE IF sock[s] = "none" THEN UNCHANGED netVars
  ELSE LET c == sock[s] IN
       /\ ends' = [ends EXCEPT ![c] = IF c \in silent THEN {} ELSE @ \ {s}]
       /\ wire' = [wire EXCEPT ![c] =
                     [t \in Sides |-> IF t # s /\ t \in ends'[c] THEN @[t] ELSE <<>>]]
       /\ silent' = silent \ {c}
       /\ UNCHANGED backlog

-----------------------------------------------------------------------------
(* Pieces shared by the calls of both sides.                                *)

Goto(s, l) == pc' = [pc EXCEPT ![s] = l] /\ UNCHANGED back

(* disconnect() begins; tick() goes on at l when it returns.                *)
Disconnecting(s, l) ==
  /\ pc'   = [pc EXCEPT ![s] = "drainIn"]
  /\ back' = [back EXCEPT ![s] = l]

SetState(s, st) == state' = [state EXCEPT ![s] = st]

(* A completed message is vacated by the call that completed it.            *)
Kept(m) == IF IsCompleted(m) THEN Empty ELSE m

(* Disconnected with time_sec_to_reconnect > 0.                             *)
WaitToReconnect(s) ==
  /\ pc[s] = "tick" /\ state[s] = "Disconnected" /\ timer[s] > 0
  /\ timer' = [timer EXCEPT ![s] = @ - 1]
  /\ UNCHANGED <<state, pc, back, sock, out, in, mutual, ticksUntil, anyReceived,
                 payload, netVars, faults, sinceRequest>>

TriesToConnect(s) == pc[s] = "tick" /\ state[s] = "Disconnected" /\ timer[s] = 0

-----------------------------------------------------------------------------
(* The Sender's calls.                                                      *)

Free(c) == ends[c] = {} /\ ~InBacklog(c) /\ \A s \in Sides : sock[s] # c

(* tick_disconnected_sender(): a non-blocking connect().  It is established *)
(* by the Receiver's kernel, or refused: at once, or (EINPROGRESS) at the   *)
(* first send().  The backlog of one is listen(socket_fd, 1).               *)
Connect ==
  /\ TriesToConnect("Sender")
  /\ LET c == CHOOSE d \in Conns : Free(d) IN
     \/ /\ sock["Receiver"] = "listening" /\ backlog = <<>>
        /\ sock' = [sock EXCEPT !["Sender"] = c]
        /\ ends' = [ends EXCEPT ![c] = Sides]
        /\ backlog' = <<c>>
        /\ SetState("Sender", "ReadyForHandshake")
        /\ UNCHANGED <<timer, wire, silent>>
     \/ /\ ~(sock["Receiver"] = "listening" /\ backlog = <<>>)
        /\ \/ /\ sock' = [sock EXCEPT !["Sender"] = c]
              /\ SetState("Sender", "ReadyForHandshake")
              /\ UNCHANGED timer
           \/ /\ timer' = [timer EXCEPT !["Sender"] = ReconnectTicks]
              /\ UNCHANGED <<sock, state>>
        /\ UNCHANGED netVars
  /\ UNCHANGED <<pc, back, out, in, mutual, ticksUntil, anyReceived, payload,
                 faults, sinceRequest>>

(* tick_sender_send_handshake() *)
SendSubscribe ==
  /\ pc["Sender"] = "tick" /\ state["Sender"] = "ReadyForHandshake"
  /\ LET begins == IsVacant(out["Sender"])
         m == IF begins
              THEN BeginSend([type |-> "Subscribe", rate |-> SenderRate], SubscribeSize)
              ELSE out["Sender"]
     IN \E r \in SendResults("Sender", m) :
          /\ Transmit("Sender", r)
          /\ mutual' = IF begins THEN [mutual EXCEPT !["Sender"] = SenderRate] ELSE mutual
          /\ out' = [out EXCEPT !["Sender"] = Kept(r.msg)]
          /\ \/ r.lost /\ Disconnecting("Sender", "tick") /\ UNCHANGED <<state, sinceRequest>>
             \/ /\ ~r.lost /\ IsCompleted(r.msg)
                /\ SetState("Sender", "ReadyForFields")
                /\ Goto("Sender", "first")
                /\ sinceRequest' = 0
             \/ ~r.lost /\ ~IsCompleted(r.msg) /\ UNCHANGED <<pc, back, state, sinceRequest>>
  /\ UNCHANGED <<sock, in, timer, ticksUntil, anyReceived, payload, ends, silent, backlog, faults>>

(* tick_send_fields_as_message(allow_start_new), tick() going on at l.  A   *)
(* vacant message has nothing to send and its tick() reports Completed.     *)
SendFields(allow, l) ==
  LET begins == allow /\ IsVacant(out["Sender"])
      m == IF begins THEN BeginSend([type |-> "Fields", rate |-> 0], FieldsSize)
                     ELSE out["Sender"]
      nothing == [lost |-> FALSE, msg |-> m, bytes |-> <<>>]
  IN \E r \in IF IsVacant(m) THEN {nothing} ELSE SendResults("Sender", m) :
       /\ Transmit("Sender", r)
       /\ out' = [out EXCEPT !["Sender"] = Kept(r.msg)]
       /\ IF r.lost THEN Disconnecting("Sender", l) ELSE Goto("Sender", l)
       /\ sinceRequest' = IF begins THEN sinceRequest + 1 ELSE sinceRequest

SendFieldsFrame == <<state, sock, in, timer, mutual, anyReceived, payload, ends, silent, backlog, faults>>

FirstFields ==
  /\ pc["Sender"] = "first"
  /\ SendFields(TRUE, "tick")
  /\ UNCHANGED <<SendFieldsFrame, ticksUntil>>

(* Slips: the countdown runs below zero, or stays at one until it is reset. *)
PacedFieldsBelowZero ==
  /\ pc["Sender"] = "tick" /\ state["Sender"] = "ReadyForFields"
  /\ ticksUntil' = ticksUntil - 1
  /\ IF ticksUntil = 1 THEN SendFields(TRUE, "request")
     ELSE Goto("Sender", "request") /\ UNCHANGED <<out, wire, sinceRequest>>
  /\ UNCHANGED SendFieldsFrame
PacedFieldsRepeating ==
  /\ pc["Sender"] = "tick" /\ state["Sender"] = "ReadyForFields"
  /\ ticksUntil' = IF ticksUntil > 1 THEN ticksUntil - 1 ELSE ticksUntil
  /\ IF ticksUntil = 1 THEN SendFields(TRUE, "request")
     ELSE Goto("Sender", "request") /\ UNCHANGED <<out, wire, sinceRequest>>
  /\ UNCHANGED SendFieldsFrame

(* The countdown at the head of the Sender's ReadyForFields block.          *)
PacedFields ==
  /\ pc["Sender"] = "tick" /\ state["Sender"] = "ReadyForFields"
  /\ ticksUntil' = IF ticksUntil > 0 THEN ticksUntil - 1 ELSE 0
  /\ IF ticksUntil = 1 THEN SendFields(TRUE, "request")
     ELSE Goto("Sender", "request") /\ UNCHANGED <<out, wire, sinceRequest>>
  /\ UNCHANGED SendFieldsFrame

TicksBetween(rate, m) ==
  LET n == rate \div (IF m > 0 THEN m ELSE rate) IN IF n > 1 THEN n ELSE 1

(* tick_receive_fields_request(), and the re-arming of the countdown by the *)
(* branch of tick() that it selects.                                        *)
ReceiveRequest ==
  /\ pc["Sender"] = "request"
  /\ LET m == IF IsVacant(in["Sender"]) THEN BeginReceive(NoTag) ELSE in["Sender"]
     IN \E r \in ReceiveResults("Sender", m) :
          /\ Take("Sender", r)
          /\ in' = [in EXCEPT !["Sender"] = Kept(r.msg)]
          /\ \/ /\ r.lost /\ Disconnecting("Sender", "flush")
                /\ UNCHANGED <<mutual, ticksUntil, sinceRequest>>
             \/ /\ ~r.lost /\ IsCompleted(r.msg)
                /\ mutual' = IF r.msg.tag.rate > 0
                             THEN [mutual EXCEPT !["Sender"] = r.msg.tag.rate] ELSE mutual
                /\ ticksUntil' = TicksBetween(SenderRate, mutual'["Sender"])
                /\ Goto("Sender", "reply")
                /\ sinceRequest' = 0
             \/ /\ ~r.lost /\ ~IsCompleted(r.msg) /\ Goto("Sender", "flush")
                /\ UNCHANGED <<mutual, ticksUntil, sinceRequest>>
  /\ UNCHANGED <<state, sock, out, timer, anyReceived, payload, ends, silent, backlog, faults>>

ReplyFields ==
  /\ pc["Sender"] = "reply"
  /\ SendFields(TRUE, "flush")
  /\ UNCHANGED <<SendFieldsFrame, ticksUntil>>

FlushFields ==
  /\ pc["Sender"] = "flush"
  /\ SendFields(FALSE, "tick")
  /\ UNCHANGED <<SendFieldsFrame, ticksUntil>>

-----------------------------------------------------------------------------
(* The Receiver's calls.                                                    *)

(* tick_disconnected_receiver() without a socket: socket, bind and listen.  *)
(* The state stays Disconnected, so tick() waits before the first accept(). *)
Listen ==
  /\ TriesToConnect("Receiver") /\ sock["Receiver"] = "none"
  /\ sock'  = [sock  EXCEPT !["Receiver"] = "listening"]
  /\ timer' = [timer EXCEPT !["Receiver"] = ReconnectTicks]
  /\ UNCHANGED <<state, pc, back, out, in, mutual, ticksUntil, anyReceived, payload,
                 netVars, faults, sinceRequest>>

(* ... and with one: accept() takes the oldest connection and the listening *)
(* socket is closed, or there is none and tick() waits again.               *)
Accept ==
  /\ TriesToConnect("Receiver") /\ sock["Receiver"] = "listening"
  /\ IF backlog = <<>>
     THEN /\ timer' = [timer EXCEPT !["Receiver"] = ReconnectTicks]
          /\ UNCHANGED <<sock, state, netVars>>
     ELSE /\ sock' = [sock EXCEPT !["Receiver"] = Head(backlog)]
          /\ SetState("Receiver", "ReadyForHandshake")
          /\ ResetBacklog({Head(backlog)})
          /\ UNCHANGED timer
  /\ UNCHANGED <<pc, back, out, in, mutual, ticksUntil, anyReceived, payload,
                 faults, sinceRequest>>

(* tick_receiver_receive_handshake().  The binder accepts every path the    *)
(* Sender announces, and the bound fields have the Sender's sizes: anything *)
(* else ends the process.                                                   *)
ReceiveSubscribe ==
  /\ pc["Receiver"] = "tick" /\ state["Receiver"] = "ReadyForHandshake"
  /\ LET begins == IsVacant(in["Receiver"])
         m == IF begins THEN BeginReceive(NoTag) ELSE in["Receiver"]
     IN \E r \in ReceiveResults("Receiver", m) :
          /\ Take("Receiver", r)
          /\ in' = [in EXCEPT !["Receiver"] = Kept(r.msg)]
          /\ \/ /\ r.lost /\ Disconnecting("Receiver", "tick")
                /\ payload' = IF begins THEN 0 ELSE payload
                /\ UNCHANGED <<state, mutual>>
             \/ /\ ~r.lost /\ IsCompleted(r.msg)
                /\ mutual' = [mutual EXCEPT !["Receiver"] =
                                MinOf(r.msg.tag.rate, ReceiverRate)]
                /\ payload' = FieldsSize
                /\ SetState("Receiver", "ReadyForFields")
                /\ Goto("Receiver", "first")
             \/ /\ ~r.lost /\ ~IsCompleted(r.msg)
                /\ payload' = IF begins THEN 0 ELSE payload
                /\ UNCHANGED <<state, mutual, pc, back>>
  /\ UNCHANGED <<sock, out, timer, ticksUntil, anyReceived, ends, silent, backlog, faults,
                 sinceRequest>>

(* tick_send_fields_request(allow_start_new), tick() going on at l.         *)
SendRequest(allow, l) ==
  LET m == IF allow /\ IsVacant(out["Receiver"])
           THEN BeginSend([type |-> "FieldsRequest", rate |-> mutual["Receiver"]],
                          FieldsRequestSize)
           ELSE out["Receiver"]
      nothing == [lost |-> FALSE, msg |-> m, bytes |-> <<>>]
  IN \E r \in IF IsVacant(m) THEN {nothing} ELSE SendResults("Receiver", m) :
       /\ Transmit("Receiver", r)
       /\ out' = [out EXCEPT !["Receiver"] = Kept(r.msg)]
       /\ IF r.lost THEN Disconnecting("Receiver", l) ELSE Goto("Receiver", l)
       /\ IF IsCompleted(r.msg) THEN SetState("Receiver", "ReadyForFields")
          ELSE UNCHANGED state

SendRequestFrame == <<sock, in, timer, mutual, ticksUntil, payload, ends, silent, backlog,
                      faults, sinceRequest>>

FirstRequest ==
  /\ pc["Receiver"] = "first"
  /\ SendRequest(TRUE, "tick")
  /\ UNCHANGED <<SendRequestFrame, anyReceived>>

(* tick_receive_fields_as_message(), called until it returns false.         *)
ReceiveFields ==
  /\ \/ pc["Receiver"] = "tick" /\ state["Receiver"] = "ReadyForFields"
     \/ pc["Receiver"] = "consume"
  /\ LET m == IF IsVacant(in["Receiver"]) THEN BeginReceive(NoTag) ELSE in["Receiver"]
         before == pc["Receiver"] = "consume" /\ anyReceived
     IN \E r \in ReceiveResults("Receiver", m) :
          /\ Take("Receiver", r)
          /\ in' = [in EXCEPT !["Receiver"] = Kept(r.msg)]
          /\ IF r.lost THEN Disconnecting("Receiver", "request")
             ELSE Goto("Receiver", IF IsCompleted(r.msg) THEN "consume" ELSE "request")
          /\ anyReceived' = (before \/ IsCompleted(r.msg))
  /\ UNCHANGED <<state, sock, out, timer, mutual, ticksUntil, payload, ends, silent, backlog,
                 faults, sinceRequest>>

RequestMoreFlushing ==        \* slip: a READY is finished, a new one never begun
  /\ pc["Receiver"] = "request"
  /\ SendRequest(FALSE, "tick")
  /\ anyReceived' = FALSE
  /\ UNCHANGED SendRequestFrame

(* The end of the Receiver's tick().                                        *)
RequestMore ==
  /\ pc["Receiver"] = "request"
  /\ SendRequest(anyReceived, "tick")
  /\ anyReceived' = FALSE
  /\ UNCHANGED SendRequestFrame

-----------------------------------------------------------------------------
(* disconnect(), called from within tick().  Each message that is under way *)
(* is ticked every 10 ms until it completes, the connection is lost or      *)
(* 500 ms have passed; the model lets that time pass at any iteration.      *)

DrainInOnly(s) ==             \* slip: the incoming message is not vacated
  /\ pc[s] = "drainIn"
  /\ pc' = [pc EXCEPT ![s] = "drainOut"]
  /\ UNCHANGED <<sideVars, in, out, wire, ends, silent, backlog, faults, sinceRequest>>
DrainIn(s) ==
  /\ pc[s] = "drainIn"
  /\ \/ /\ IsUnderWay(in[s])
        /\ \E r \in ReceiveResults(s, in[s]) :
             ~r.lost /\ Take(s, r) /\ in' = [in EXCEPT ![s] = r.msg]
        /\ UNCHANGED pc
     \/ /\ in' = [in EXCEPT ![s] = Empty]
        /\ pc' = [pc EXCEPT ![s] = "drainOut"]
        /\ UNCHANGED wire
  /\ UNCHANGED <<sideVars, out, ends, silent, backlog, faults, sinceRequest>>

DrainOutOnly(s) ==            \* slip: the outgoing message is not vacated
  /\ pc[s] = "drainOut"
  /\ pc' = [pc EXCEPT ![s] = "close"]
  /\ UNCHANGED <<sideVars, in, out, wire, ends, silent, backlog, faults, sinceRequest>>
DrainOut(s) ==
  /\ pc[s] = "drainOut"
  /\ \/ /\ IsUnderWay(out[s])
        /\ \E r \in SendResults(s, out[s]) :
             ~r.lost /\ Transmit(s, r) /\ out' = [out EXCEPT ![s] = r.msg]
        /\ UNCHANGED pc
     \/ /\ out' = [out EXCEPT ![s] = Empty]
        /\ pc' = [pc EXCEPT ![s] = "close"]
        /\ UNCHANGED wire
  /\ UNCHANGED <<sideVars, in, ends, silent, backlog, faults, sinceRequest>>

CloseOnly(s) ==               \* slip: the bound fields stay bound
  /\ pc[s] = "close"
  /\ Close(s)
  /\ sock'  = [sock EXCEPT ![s] = "none"]
  /\ timer' = [timer EXCEPT ![s] = ReconnectTicks]
  /\ SetState(s, "Disconnected")
  /\ pc' = [pc EXCEPT ![s] = back[s]]
  /\ UNCHANGED <<back, out, in, mutual, ticksUntil, anyReceived, payload, faults, sinceRequest>>
CloseAndReset(s) ==
  /\ pc[s] = "close"
  /\ Close(s)
  /\ sock'  = [sock EXCEPT ![s] = "none"]
  /\ timer' = [timer EXCEPT ![s] = ReconnectTicks]
  /\ payload' = IF s = "Receiver" THEN 0 ELSE payload
  /\ SetState(s, "Disconnected")
  /\ pc' = [pc EXCEPT ![s] = back[s]]
  /\ UNCHANGED <<back, out, in, mutual, ticksUntil, anyReceived, faults, sinceRequest>>

-----------------------------------------------------------------------------
(* What the environment may do, MaxFaults times in all.                     *)

(* The connection is reset: both ends fail at their next system call.       *)
Reset(c) ==
  /\ faults < MaxFaults /\ ends[c] # {}
  /\ faults' = faults + 1
  /\ ends' = [ends EXCEPT ![c] = {}]
  /\ wire' = [wire EXCEPT ![c] = [s \in Sides |-> <<>>]]
  /\ silent' = silent \ {c}
  /\ UNCHANGED <<sideVars, pc, out, in, backlog, sinceRequest>>

(* Side s starts again with a fresh RemoteEngineConnection.  A restarted    *)
(* Receiver listens on a new port; the peer's is then set by discovery,     *)
(* which is outside this module: here the Sender knows the port already.    *)
FreshSide(s) ==
  /\ faults < MaxFaults
  /\ faults' = faults + 1
  /\ SetState(s, "Disconnected")
  /\ pc'     = [pc   EXCEPT ![s] = "tick"]
  /\ back'   = [back EXCEPT ![s] = "tick"]
  /\ sock'   = [sock EXCEPT ![s] = "none"]
  /\ out'    = [out  EXCEPT ![s] = Empty]
  /\ in'     = [in   EXCEPT ![s] = Empty]
  /\ timer'  = [timer EXCEPT ![s] = 0]
  /\ mutual' = [mutual EXCEPT ![s] = 0]
  /\ IF s = "Sender"
     THEN ticksUntil' = 1 /\ sinceRequest' = 0 /\ UNCHANGED <<anyReceived, payload>>
     ELSE anyReceived' = FALSE /\ payload' = 0 /\ UNCHANGED <<ticksUntil, sinceRequest>>

(* The process dies and its kernel closes the socket ...                    *)
Restart(s) == FreshSide(s) /\ Close(s)

(* ... or the host loses power: the peer is not told.                       *)
PowerLoss(s) ==
  /\ PowerLosses /\ FreshSide(s)
  /\ Usable(s) /\ PeerOpen(s) /\ sock[s] \notin silent
  /\ silent' = silent \cup {sock[s]}
  /\ UNCHANGED <<wire, ends, backlog>>

-----------------------------------------------------------------------------
Disconnect(s) == DrainIn(s) \/ DrainOut(s) \/ CloseAndReset(s)

SenderStep ==
  \/ WaitToReconnect("Sender") \/ Connect \/ SendSubscribe \/ FirstFields
  \/ PacedFields \/ ReceiveRequest \/ ReplyFields \/ FlushFields
  \/ Disconnect("Sender")

ReceiverStep ==
  \/ WaitToReconnect("Receiver") \/ Listen \/ Accept \/ ReceiveSubscribe
  \/ FirstRequest \/ ReceiveFields \/ RequestMore
  \/ Disconnect("Receiver")

Fault ==
  \/ \E c \in Conns : Reset(c)
  \/ \E s \in Sides : Restart(s) \/ PowerLoss(s)

Next == SenderStep \/ ReceiverStep \/ Fault

Spec == Init /\ [][Next]_vars

(* Each engine's loop keeps calling tick(), so each side keeps taking steps *)
(* of its own; nothing is assumed of the faults.                            *)
LiveSpec == Spec /\ WF_vars(SenderStep) /\ WF_vars(ReceiverStep)

-----------------------------------------------------------------------------
(* Properties.                                                              *)

Byte == [tag : Tags, size : Nat, pos : Nat \ {0}]
Message == [stage : Stages, tag : Tags, size : Nat, hdr : 0 .. HeaderSize,
            done : Nat, chunk : 0 .. ChunkSize]
Calls == {"tick", "first", "request", "reply", "flush", "consume",
          "drainIn", "drainOut", "close"}

(* Types of all variables, the stages a message can be in between two calls *)
(* (never Completed, except while disconnect() drains it) included.         *)
TypeOK ==
  /\ state \in [Sides -> States]
  /\ pc \in [Sides -> Calls]
  /\ back \in [Sides -> {"tick", "request", "flush"}]
  /\ sock \in [Sides -> Conns \cup {"none", "listening"}]
  /\ out \in [Sides -> Message] /\ in \in [Sides -> Message]
  /\ timer \in [Sides -> Nat]
  /\ mutual \in [Sides -> Nat]
  /\ ticksUntil \in Nat
  /\ anyReceived \in BOOLEAN
  /\ payload \in {0, FieldsSize}
  /\ wire \in [Conns -> [Sides -> Seq(Byte)]]
  /\ ends \in [Conns -> SUBSET Sides]
  /\ silent \in SUBSET Conns
  /\ backlog \in Seq(Conns)
  /\ faults \in Nat
  /\ sinceRequest \in Nat

(* disconnect() has finished with, or dropped, the incoming message: what   *)
(* is left on the wire will not be read.                                    *)
Abandoned(s) == pc[s] \in {"drainOut", "close"} \/ IsCompleted(in[s])

(* Framing (RemoteEngineConnection.cpp:1044-1045): the next byte a side     *)
(* will read is always the one its partly received message is waiting for,  *)
(* whatever was cut short by full buffers, resets, drains and restarts, on  *)
(* this connection or on an earlier one.                                    *)
FramesStayWhole ==
  \A s \in Sides : LET c == sock[s] IN
    (c \in Conns /\ ~Abandoned(s) /\ wire[c][s] # <<>>) =>
      LET u == Head(wire[c][s]) IN
      /\ u.pos = Position(in[s]) + 1
      /\ in[s].hdr = HeaderSize => u.tag = in[s].tag /\ u.size = in[s].size

(* No receive path looks at MessageHeader::type, so the protocol must never *)
(* put a message before a reader of another kind: a Receiver that has not   *)
(* finished the handshake gets Subscribe, afterwards Fields of exactly the  *)
(* bound size (anything else is ROBOTICK_FATAL_EXIT), and a Sender gets     *)
(* FieldsRequest.                                                           *)
Expected(s, m) ==
  IF s = "Sender" THEN m.tag.type = "FieldsRequest" /\ m.size = FieldsRequestSize
  ELSE IF state[s] = "ReadyForFields" THEN m.tag.type = "Fields" /\ m.size = payload
  ELSE m.tag.type = "Subscribe"

OnlyExpectedMessages ==
  \A s \in Sides : LET c == sock[s] IN
    (c \in Conns /\ ~Abandoned(s)) =>
      /\ in[s].hdr = HeaderSize => Expected(s, in[s])
      /\ (wire[c][s] # <<>> /\ IsVacant(in[s])) => Expected(s, Head(wire[c][s]))

(* Both sides exchange fields over one live connection.                     *)
Exchanging ==
  /\ \A s \in Sides : state[s] = "ReadyForFields" /\ Usable(s)
  /\ sock["Sender"] = sock["Receiver"]

(* READY and FIELDS are tokens that answer each other, and either is        *)
(* dropped when the slot that would carry it is still busy.  While both     *)
(* sides exchange fields some token is left: in flight, being sent, being   *)
(* received, about to be answered, or scheduled by the countdown.  Without  *)
(* one, both engines would poll a healthy connection for ever.              *)
TokenNeverLost ==
  Exchanging =>
    \/ ticksUntil > 0
    \/ \E s \in Sides : \/ ~IsVacant(out[s])
                        \/ in[s].hdr > 0
                        \/ wire[sock[s]][s] # <<>>
                        \/ pc[s] \in {"first", "reply", "drainIn", "drainOut", "close"}
    \/ anyReceived

(* RemoteEngineConnection.h says the Sender may answer a READY with one or  *)
(* more FIELDS and the white paper that it then pauses: the reply and one   *)
(* scheduled message, never more, also when READYs pile up or a Fields      *)
(* message is still blocked when the next READY arrives.                    *)
AtMostTwoFieldsPerRequest == sinceRequest <= 2

(* disconnect() returns into the middle of tick(), whose remaining calls    *)
(* begin messages on the closed socket.  When that tick() is over nothing   *)
(* of the old connection is left: no socket, no message under way, no bound *)
(* field.                                                                   *)
DisconnectLeavesNothing ==
  \A s \in Sides : (pc[s] = "tick" /\ state[s] = "Disconnected") =>
    /\ sock[s] \notin Conns
    /\ IsVacant(in[s]) /\ IsVacant(out[s])
    /\ s = "Receiver" => payload = 0 /\ ~anyReceived

(* After the last fault the two sides find each other again, whatever       *)
(* half-open connection either of them still holds.                         *)
ReconnectsAfterFaults == []<>Exchanging

(* ... and from then on the Receiver keeps completing Fields messages.      *)
FieldsKeepArriving == []<>anyReceived

(* RemoteEngineConnection.cpp:217-218: the state machine "guarantees both   *)
(* sender/receiver restart cleanly after network failures".  So a Receiver  *)
(* whose peer has vanished must at some time give up the dead connection,   *)
(* provided the kernel in the end reports bytes nobody acknowledges.        *)
NetworkFailureIsNoticed ==
  ([]<>~Noticed("Receiver")) =>
    (sock["Receiver"] \in silent ~> sock["Receiver"] \notin silent)

=============================================================================
