-------------------------- MODULE DiscoveryProofs --------------------------
(***************************************************************************)
(* Proofs about Discovery for any number of Senders, ports and receivers.  *)
(***************************************************************************)
EXTENDS Discovery, TLAPS

Connection == [state : {"Disconnected", "ReadyForHandshake", "ReadyForFields"},
               port : Ports \cup {0},
               link : {"none", "pending", "up", "broken"}]
Receiver == [state : {"none", "closed", "listening", "ReadyForHandshake", "ReadyForFields"},
             port : Ports \cup {0}, peer : Senders \cup {"none"}, up : BOOLEAN]

(* NoSocketLeaks is inductive once the variables have their types.          *)
IInv == TypeOK /\ NoSocketLeaks

-----------------------------------------------------------------------------
(* The Senders' ends: every change of one keeps its type and keeps the      *)
(* socket in step with the state.                                           *)
LEMMA SenderEnds ==
  ASSUME conn \in [Senders -> Connection], NoSocketLeaks,
         replies \subseteq [to : Senders, port : Ports \cup {0}], Next
  PROVE  conn' \in [Senders -> Connection] /\ NoSocketLeaks'
<1> USE DEF NoSocketLeaks, Connection
<1>1. ASSUME UNCHANGED conn PROVE conn' \in [Senders -> Connection] /\ NoSocketLeaks'
  BY <1>1
<1>2. ASSUME NEW s \in Senders, ReadReply(s)
      PROVE  conn' \in [Senders -> Connection] /\ NoSocketLeaks'
  <2>1. PICK r \in replies :
          conn' = [conn EXCEPT ![s].port = r.port, ![s].state = "Disconnected"]
    BY <1>2 DEF ReadReply
  <2>2. conn[s].state = "Disconnected" /\ r.port \in Ports \cup {0}
    BY <1>2 DEF ReadReply, HasBasicConnection
  <2> QED BY <2>1, <2>2
<1>3. ASSUME NEW s \in Senders, Connect(s)
      PROVE  conn' \in [Senders -> Connection] /\ NoSocketLeaks'
  BY <1>3 DEF Connect
<1>4. ASSUME NEW s \in Senders, Subscribe(s)
      PROVE  conn' \in [Senders -> Connection] /\ NoSocketLeaks'
  BY <1>4 DEF Subscribe
<1>5. ASSUME NEW s \in Senders, SenderDisconnects(s)
      PROVE  conn' \in [Senders -> Connection] /\ NoSocketLeaks'
  BY <1>5 DEF SenderDisconnects, Unconnected
<1>6. ASSUME NEW s \in Senders, Refuse(s)
      PROVE  conn' \in [Senders -> Connection] /\ NoSocketLeaks'
  BY <1>6 DEF Refuse
<1>7. ASSUME NEW i \in Slots, Accept(i)
      PROVE  conn' \in [Senders -> Connection] /\ NoSocketLeaks'
  <2>1. PICK s \in Senders : conn[s].link = "pending" /\ conn' = [conn EXCEPT ![s].link = "up"]
    BY <1>7 DEF Accept
  <2> QED BY <2>1
<1>8. ASSUME Fault PROVE conn' \in [Senders -> Connection] /\ NoSocketLeaks'
  <2>1. CASE RestartReceiver
    BY <2>1 DEF RestartReceiver
  <2>2. ASSUME NEW s \in Senders, Reset(s)
        PROVE  conn' \in [Senders -> Connection] /\ NoSocketLeaks'
    BY <2>2 DEF Reset
  <2>3. ASSUME NEW s \in Senders, RestartSender(s)
        PROVE  conn' \in [Senders -> Connection] /\ NoSocketLeaks'
    BY <2>3 DEF RestartSender, Unconnected
  <2> QED BY <1>8, <2>1, <2>2, <2>3 DEF Fault
<1> QED
  BY <1>1, <1>2, <1>3, <1>4, <1>5, <1>6, <1>7, <1>8
     DEF Next, SenderDiscovers, SenderTick, StayDisconnected, AnswerRequest, ReceiverTick,
         Listen, Subscribed, ReceiverDisconnects, LoseRequest

(* The receivers.                                                           *)
LEMMA ReceiverEnds ==
  ASSUME receivers \in [Slots -> Receiver], Next
  PROVE  receivers' \in [Slots -> Receiver]
<1> USE DEF Receiver
<1>1. ASSUME NEW p \in Ports, AddReceiver(p) PROVE receivers' \in [Slots -> Receiver]
  BY <1>1 DEF AddReceiver, NoReceiver
<1>2. ASSUME NEW i \in Slots, ReceiverTick(i) PROVE receivers' \in [Slots -> Receiver]
  <2>1. CASE Listen(i)
    BY <2>1 DEF Listen
  <2>2. CASE Accept(i)
    <3>1. PICK s \in Senders :
            receivers' = [receivers EXCEPT ![i].state = "ReadyForHandshake",
                                           ![i].peer = s, ![i].up = TRUE]
      BY <2>2 DEF Accept
    <3> QED BY <3>1
  <2>3. CASE Subscribed(i)
    BY <2>3 DEF Subscribed
  <2>4. CASE ReceiverDisconnects(i)
    BY <2>4 DEF ReceiverDisconnects
  <2> QED BY <1>2, <2>1, <2>2, <2>3, <2>4 DEF ReceiverTick
<1>3. ASSUME Fault PROVE receivers' \in [Slots -> Receiver]
  <2>1. RestartReceiver => receivers' \in [Slots -> Receiver]
    BY DEF RestartReceiver, NoReceiver
  <2>2. ASSUME NEW s \in Senders PROVE CutOff(s) \in [Slots -> Receiver]
    BY DEF CutOff
  <2> QED BY <1>3, <2>1, <2>2 DEF Fault, Reset, RestartSender
<1> QED
  BY <1>1, <1>2, <1>3
     DEF Next, SenderDiscovers, ReadReply, SenderTick, StayDisconnected, Connect, Subscribe,
         SenderDisconnects, Refuse, AnswerRequest, LoseRequest

(* The timers, the datagrams and the count of faults.                       *)
LEMMA Broadcasting ==
  ASSUME NEW s \in Senders, TypeOK, Broadcast(s)
  PROVE  /\ wait' \in [Senders -> 0 .. BroadcastTicks]
         /\ turn' \in [Senders -> {"discoverer", "connection"}]
         /\ requests' \subseteq [from : Senders, live : BOOLEAN]
<1>1. wait' \in [Senders -> 0 .. BroadcastTicks]
  BY DiscoveryAssumption DEF TypeOK, Broadcast
<1>2. turn' \in [Senders -> {"discoverer", "connection"}]
  BY DEF TypeOK, Broadcast
<1>3. [from |-> s, live |-> TRUE] \in [from : Senders, live : BOOLEAN]
  OBVIOUS
<1>4. requests' \subseteq [from : Senders, live : BOOLEAN]
  BY <1>3 DEF TypeOK, Broadcast
<1> QED BY <1>1, <1>2, <1>4

Rest == /\ wait \in [Senders -> 0 .. BroadcastTicks]
        /\ turn \in [Senders -> {"discoverer", "connection"}]
        /\ requests \subseteq [from : Senders, live : BOOLEAN]
        /\ replies \subseteq [to : Senders, port : Ports \cup {0}]
        /\ faults \in 0 .. MaxFaults

LEMMA RestStep == ASSUME TypeOK, Next PROVE Rest'
<1>0. Rest
  BY DEF TypeOK, Rest
<1>1. ASSUME NEW s \in Senders, SenderDiscovers(s) PROVE Rest'
  BY <1>0, <1>1, Broadcasting DEF SenderDiscovers, Rest
<1>2. ASSUME NEW s \in Senders, ReadReply(s) PROVE Rest'
  BY <1>0, <1>2, Broadcasting DEF ReadReply, Rest
<1>3. ASSUME NEW s \in Senders, SenderTick(s) PROVE Rest'
  BY <1>0, <1>3 DEF SenderTick, StayDisconnected, Connect, Subscribe, SenderDisconnects, Rest
<1>4. ASSUME NEW d \in requests, NEW arrives \in BOOLEAN, AnswerRequest(d, arrives) PROVE Rest'
  <2>1. d.from \in Senders
    BY <1>0 DEF Rest
  <2>2. replies' \subseteq [to : Senders, port : Ports \cup {0}]
    <3>1. PICK p \in Ports \cup {0} :
            replies' = IF arrives THEN replies \cup {[to |-> d.from, port |-> p]} ELSE replies
      BY <1>4 DEF AnswerRequest
    <3>2. [to |-> d.from, port |-> p] \in [to : Senders, port : Ports \cup {0}]
      BY <2>1
    <3> QED BY <1>0, <3>1, <3>2 DEF Rest
  <2>3. faults' \in 0 .. MaxFaults
    BY <1>0, <1>4, DiscoveryAssumption DEF AnswerRequest, Rest
  <2> QED BY <1>0, <1>4, <2>2, <2>3 DEF AnswerRequest, Rest
<1>5. ASSUME NEW i \in Slots, ReceiverTick(i) PROVE Rest'
  BY <1>0, <1>5 DEF ReceiverTick, Listen, Accept, Subscribed, ReceiverDisconnects, Rest
<1>6. ASSUME Fault PROVE Rest'
  <2>1. faults' \in 0 .. MaxFaults
    BY <1>0, <1>6, DiscoveryAssumption DEF Fault, RestartReceiver, Reset, RestartSender, Rest
  <2>2. ASSUME NEW s \in Senders, RestartSender(s) PROVE Rest'
    <3>1. wait' \in [Senders -> 0 .. BroadcastTicks]
      BY <1>0, <2>2, DiscoveryAssumption DEF RestartSender, Rest
    <3>2. turn' \in [Senders -> {"discoverer", "connection"}]
      BY <1>0, <2>2 DEF RestartSender, Rest
    <3>3. requests' \subseteq [from : Senders, live : BOOLEAN]
      <4> SUFFICES ASSUME NEW d \in requests
                   PROVE  [d EXCEPT !.live = @ /\ d.from # s] \in [from : Senders, live : BOOLEAN]
        BY <2>2 DEF RestartSender
      <4> QED BY <1>0 DEF Rest
    <3>4. replies' \subseteq [to : Senders, port : Ports \cup {0}]
      BY <1>0, <2>2 DEF RestartSender, Rest
    <3> QED BY <2>1, <3>1, <3>2, <3>3, <3>4 DEF Rest
  <2> QED BY <1>0, <1>6, <2>1, <2>2 DEF Fault, RestartReceiver, Reset, Rest
<1> QED
  BY <1>0, <1>1, <1>2, <1>3, <1>4, <1>5, <1>6 DEF Next, Refuse, LoseRequest, Rest

(* IInv is an invariant: no Sender gets a second socket while it has one.   *)
THEOREM DiscoveryInvariant == Spec => []IInv
<1>1. Init => IInv
  BY DiscoveryAssumption DEF Init, IInv, TypeOK, NoSocketLeaks, Unconnected, NoReceiver
<1>2. IInv /\ [Next]_vars => IInv'
  <2>1. ASSUME IInv, Next PROVE IInv'
    BY <2>1, SenderEnds, ReceiverEnds, RestStep
       DEF IInv, TypeOK, Rest, Connection, Receiver
  <2>2. ASSUME IInv, UNCHANGED vars PROVE IInv'
    BY <2>2 DEF IInv, TypeOK, NoSocketLeaks, vars
  <2> QED BY <2>1, <2>2
<1> QED BY <1>1, <1>2, PTL DEF Spec

(* configure_sender() never meets an open socket, for any number of engines *)
(* and ports.                                                               *)
THEOREM NoLeakTheorem == Spec => []NoSocketLeaks
<1>1. IInv => NoSocketLeaks
  BY DEF IInv
<1> QED BY <1>1, DiscoveryInvariant, PTL

(* The variables of every engine keep their types, for any number of        *)
(* engines and ports.                                                       *)
THEOREM TypesHold == Spec => []TypeOK
<1>1. IInv => TypeOK
  BY DEF IInv
<1> QED BY <1>1, DiscoveryInvariant, PTL

-----------------------------------------------------------------------------
(* Every step that is not a fault leaves a paired Sender and its receiver   *)
(* alone: each is about an end in another state, and the receivers that are *)
(* forgotten or reused have no peer.                                        *)
LEMMA PairSurvives ==
  ASSUME IInv, Next, ~Fault, NEW s \in Senders, Paired(s)
  PROVE  Paired(s)'
<1>0. PICK k \in Slots : /\ receivers[k].peer = s /\ receivers[k].up
                         /\ receivers[k].state = "ReadyForFields"
  BY DEF Paired
<1>1. conn[s].state = "ReadyForFields" /\ conn[s].link = "up"
  BY DEF Paired
<1>2. conn \in [Senders -> Connection] /\ receivers \in [Slots -> Receiver]
  BY DEF IInv, TypeOK, Connection, Receiver
<1>3. conn'[s] = conn[s]
  <2>1. ASSUME NEW t \in Senders, ReadReply(t) PROVE conn'[s] = conn[s]
    BY <1>1, <1>2, <2>1 DEF ReadReply, HasBasicConnection
  <2>2. ASSUME NEW t \in Senders, SenderTick(t) PROVE conn'[s] = conn[s]
    BY <1>1, <1>2, <2>2 DEF SenderTick, StayDisconnected, Connect, Subscribe, SenderDisconnects
  <2>3. ASSUME NEW t \in Senders, Refuse(t) PROVE conn'[s] = conn[s]
    BY <1>1, <1>2, <2>3 DEF Refuse
  <2>4. ASSUME NEW i \in Slots, ReceiverTick(i) PROVE conn'[s] = conn[s]
    BY <1>1, <1>2, <2>4 DEF ReceiverTick, Listen, Accept, Subscribed, ReceiverDisconnects
  <2> QED
    BY <2>1, <2>2, <2>3, <2>4 DEF Next, SenderDiscovers, AnswerRequest, LoseRequest
<1>4. receivers'[k] = receivers[k]
  <2>1. ASSUME NEW p \in Ports, AddReceiver(p) PROVE receivers'[k] = receivers[k]
    BY <1>0, <2>1 DEF AddReceiver, Unreachable
  <2>2. ASSUME NEW i \in Slots, ReceiverTick(i) PROVE receivers'[k] = receivers[k]
    BY <1>0, <1>2, <2>2 DEF ReceiverTick, Listen, Accept, Subscribed, ReceiverDisconnects
  <2> QED
    BY <2>1, <2>2
       DEF Next, SenderDiscovers, ReadReply, SenderTick, StayDisconnected, Connect, Subscribe,
           SenderDisconnects, Refuse, AnswerRequest, LoseRequest
<1> QED BY <1>0, <1>1, <1>3, <1>4 DEF Paired

(* Only a fault separates a Sender from its receiver, whatever late         *)
(* datagrams and other engines there are.                                   *)
THEOREM SeparationTheorem == Spec => OnlyFaultsSeparate
<1>1. IInv /\ [Next]_vars => [\A s \in Senders : Paired(s) /\ ~Paired(s)' => Fault]_vars
  <2> SUFFICES ASSUME IInv, Next, NEW s \in Senders, Paired(s), ~Paired(s)' PROVE Fault
    OBVIOUS
  <2> QED BY PairSurvives
<1> QED BY <1>1, DiscoveryInvariant, PTL DEF Spec, OnlyFaultsSeparate
=============================================================================
