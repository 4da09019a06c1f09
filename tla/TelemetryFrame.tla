--------------------------- MODULE TelemetryFrame ---------------------------
(***************************************************************************)
(* The telemetry frame sequence: Engine::run() (Engine.cpp) brackets the   *)
(* memory writes of every tick with mark_frame_write_begin() and           *)
(* mark_frame_write_end() (WorkloadsBuffer.h), while the web server's      *)
(* threads answer GET .../workloads_buffer/raw (TelemetryServer.cpp): load *)
(* the sequence once for a header, then stream the live buffer.            *)
(*                                                                         *)
(* A cell is a piece of the buffer that one step of the sender copies; its *)
(* value is the frame that wrote it last.  Stores of the engine are seen   *)
(* in program order, as on x86-64.                                         *)
(*                                                                         *)
(* Ticks write inside their window only.  A child of a SyncedGroup may     *)
(* overrun it (tdd_composition_workloads.md:46-48) and write on while the  *)
(* sequence is even: nothing here is said of models with such children.    *)
(***************************************************************************)
EXTENDS Integers, Sequences

CONSTANTS
  CellCount,   \* pieces in which a response copies the buffer
  Clients,     \* concurrent telemetry clients
  SeqSpan,     \* number of values of telemetry_frame_seq: 2^32 in the code
  MaxFrames    \* bound on the frames written

ASSUME TelemetryAssumption ==
  /\ CellCount \in Nat
  /\ SeqSpan \in Nat /\ SeqSpan % 2 = 0 /\ SeqSpan > 0
  /\ MaxFrames \in Nat

Cells == 1 .. CellCount

VARIABLES
  phase,   \* where Engine::run() is: "sleeping", "writing", "stopping", "stopped"
  seq,     \* telemetry_frame_seq
  mem,     \* Cells -> frame that wrote it last
  frame,   \* history: frames begun
  stable,  \* history: mem when the last frame ended
  resp     \* Clients -> the client's latest response, [seq, body, open, frame, stable]

vars == <<phase, seq, mem, frame, stable, resp>>

Even(s) == s % 2 = 0

(* Before its first request a client has a response with no bytes.          *)
NoResponse == [seq |-> 1, body |-> <<>>, open |-> FALSE, frame |-> 0, stable |-> <<>>]

Init ==
  /\ phase = "sleeping"
  /\ seq = 0
  /\ mem = [c \in Cells |-> 0]
  /\ frame = 0
  /\ stable = mem
  /\ resp = [cl \in Clients |-> NoResponse]

-----------------------------------------------------------------------------
(* The engine.                                                              *)

AdvancedUnwrapped(s, onParity) ==       \* slip: the counter is wider than the header
  IF (s % 2) = onParity THEN s + 1 ELSE s + 2
Advanced(s, onParity) == IF (s % 2) = onParity THEN (s + 1) % SeqSpan ELSE (s + 2) % SeqSpan

(* mark_frame_write_begin() *)
BeginFrame ==
  /\ phase = "sleeping" /\ frame < MaxFrames
  /\ seq' = Advanced(seq, 0)
  /\ phase' = "writing"
  /\ frame' = frame + 1
  /\ UNCHANGED <<mem, stable, resp>>

WriteAfterWindow(c) ==                  \* slip: statistics recorded after the window
  /\ phase \in {"writing", "sleeping"}
  /\ mem' = [mem EXCEPT ![c] = frame]
  /\ UNCHANGED <<phase, seq, frame, stable, resp>>
(* Any write of the tick: remote fields, local connections, staged inputs,  *)
(* the workloads' own tick_fn, the statistics.                              *)
Write(c) ==
  /\ phase = "writing"
  /\ mem' = [mem EXCEPT ![c] = frame]
  /\ UNCHANGED <<phase, seq, frame, stable, resp>>

EndFrameAsBegin ==                      \* slip: the window is opened twice
  /\ phase = "writing"
  /\ seq' = Advanced(seq, 0)
  /\ phase' = "sleeping"
  /\ stable' = mem
  /\ UNCHANGED <<mem, frame, resp>>
(* mark_frame_write_end(), and the sleep that follows.                      *)
EndFrame ==
  /\ phase = "writing"
  /\ seq' = Advanced(seq, 1)
  /\ phase' = "sleeping"
  /\ stable' = mem
  /\ UNCHANGED <<mem, frame, resp>>

(* The loop ends; stop_fn of every workload runs with no window open, ...   *)
BeginStop ==
  /\ phase = "sleeping" /\ frame > 0
  /\ phase' = "stopping"
  /\ UNCHANGED <<seq, mem, frame, stable, resp>>

StopWrite(c) ==
  /\ phase = "stopping"
  /\ mem' = [mem EXCEPT ![c] = frame + 1]
  /\ UNCHANGED <<phase, seq, frame, stable, resp>>

(* ... and only then the web server is stopped, which waits for its threads.*)
StopTelemetry ==
  /\ phase = "stopping" /\ \A cl \in Clients : ~resp[cl].open
  /\ phase' = "stopped"
  /\ UNCHANGED <<seq, mem, frame, stable, resp>>

-----------------------------------------------------------------------------
(* handle_get_workloads_buffer_raw(): the headers, ...                      *)
Request(cl) ==
  /\ phase # "stopped" /\ ~resp[cl].open
  /\ resp' = [resp EXCEPT ![cl] = [seq |-> seq, body |-> <<>>, open |-> TRUE,
                                   frame |-> frame, stable |-> stable]]
  /\ UNCHANGED <<phase, seq, mem, frame, stable>>

(* ... the body, copied from the live buffer while the socket takes it, ... *)
CopyCell(cl) ==
  /\ resp[cl].open /\ Len(resp[cl].body) < CellCount
  /\ resp' = [resp EXCEPT ![cl].body = Append(@, mem[Len(@) + 1])]
  /\ UNCHANGED <<phase, seq, mem, frame, stable>>

(* ... and finish().                                                        *)
Respond(cl) ==
  /\ resp[cl].open /\ Len(resp[cl].body) = CellCount
  /\ resp' = [resp EXCEPT ![cl].open = FALSE]
  /\ UNCHANGED <<phase, seq, mem, frame, stable>>

EngineStep ==
  \/ BeginFrame \/ EndFrame \/ BeginStop \/ StopTelemetry
  \/ \E c \in Cells : Write(c) \/ StopWrite(c)

ClientStep == \E cl \in Clients : Request(cl) \/ CopyCell(cl) \/ Respond(cl)

Next == EngineStep \/ ClientStep

Spec == Init /\ [][Next]_vars

-----------------------------------------------------------------------------
TypeOK ==
  /\ phase \in {"sleeping", "writing", "stopping", "stopped"}
  /\ seq \in 0 .. (SeqSpan - 1)
  /\ mem \in [Cells -> Nat]
  /\ frame \in Nat
  /\ stable \in [Cells -> Nat]
  /\ resp \in [Clients -> [seq : Nat, body : Seq(Nat), open : BOOLEAN, frame : Nat,
                           stable : [Cells -> Nat] \cup {<<>>}]]

(* WorkloadsBuffer.h:115-116, for as long as the loop of run() lasts: a     *)
(* load of an even sequence means that the memory is exactly what the last  *)
(* finished tick left, a load of an odd one that a tick is at work, also    *)
(* after the counter has wrapped around.                                    *)
ParityTellsWriting ==
  phase \in {"sleeping", "writing"} =>
    IF Even(seq) THEN phase = "sleeping" /\ mem = stable ELSE phase = "writing"

Complete(r) == Len(r.body) = CellCount

(* One header value proves nothing of the body that follows it, but two     *)
(* equal and even values of consecutive requests prove that the first body  *)
(* is one frame, provided the loop is still running and that fewer than     *)
(* 2^31 ticks, after which the 32 bits repeat, lie between them.  It takes  *)
(* ticks that write inside their window only.                               *)
RepeatedSeqIsStable ==
  \A cl \in Clients :
    LET r == resp[cl] IN
    (/\ Complete(r) /\ r.seq = seq /\ Even(seq)
     /\ frame - r.frame < SeqSpan \div 2
     /\ phase = "sleeping") => r.body = r.stable

-----------------------------------------------------------------------------
(* The inductive invariant: the sequence counts the window edges of the     *)
(* frames modulo SeqSpan, and a response that began with an even sequence   *)
(* holds bytes of that frame's memory for as long as no later frame began.  *)
Ticket == IF phase = "writing" THEN 2 * frame - 1 ELSE 2 * frame

SeqCountsEdges ==
  /\ seq = Ticket % SeqSpan
  /\ phase = "writing" => frame > 0
  /\ phase = "sleeping" => mem = stable

ResponseOK(r) ==
  /\ r.frame <= frame
  /\ Len(r.body) <= CellCount
  /\ Even(r.seq) => r.seq = (2 * r.frame) % SeqSpan
  /\ phase = "writing" /\ r.frame = frame => ~Even(r.seq)
  /\ phase = "sleeping" /\ r.frame = frame /\ Even(r.seq) =>
       /\ r.stable = stable
       /\ \A i \in 1 .. Len(r.body) : r.body[i] = stable[i]

IInv == TypeOK /\ SeqCountsEdges /\ \A cl \in Clients : ResponseOK(resp[cl])

=============================================================================
