----------------------------- MODULE Discovery -----------------------------
(***************************************************************************)
(* How Senders find the Receiver that takes their fields                   *)
(* (RemoteEngineDiscoverer.cpp, RemoteEngineConnections.cpp).  A Sender    *)
(* without a connection multicasts DISCOVER_PEER; the engine with the      *)
(* wanted model adds a dynamic receiver for every request it reads and     *)
(* answers with its port; the Sender connects to it.  Datagrams can be     *)
(* lost, late and reordered, and ports go stale when an engine restarts.   *)
(*                                                                         *)
(* One action is one call of a discoverer's or a connection's tick().  A   *)
(* Sender's discoverer has its turn before each attempt to connect; other  *)
(* than that the order of the calls in an engine's tick is left open.      *)
(* Connections are reduced to their state; RemoteEngineConnection has the  *)
(* details.                                                                *)
(***************************************************************************)
EXTENDS Integers

CONSTANTS
  Senders,          \* engines with remote data connections to this model
  Ports,            \* ports that bind() may choose
  BroadcastTicks,   \* BROADCAST_INTERVAL_SEC in ticks
  MaxReceivers,     \* bound on the dynamic receivers that somebody can reach
  MaxFaults         \* bound on resets, restarts and failures to make a socket

ASSUME DiscoveryAssumption ==
  /\ Ports \subseteq Nat \ {0}
  /\ BroadcastTicks \in Nat
  /\ MaxReceivers \in Nat
  /\ MaxFaults \in Nat
  /\ "none" \notin Senders

Slots == 1 .. MaxReceivers

VARIABLES
  conn,        \* Senders -> [state, port, link]: senders[i] of the Sender's engine
  wait,        \* Senders -> time_sec_to_broadcast, in ticks
  turn,        \* Senders -> whether its discoverer or its connection is ticked next
  receivers,   \* Slots -> [state, port, peer, up]: dynamic_receivers
  requests,    \* DISCOVER_PEER on their way: [from, live], live: reply port is open
  replies,     \* PEER_HERE on their way: [to, port]
  faults       \* faults so far

vars == <<conn, wait, turn, receivers, requests, replies, faults>>

Unconnected(port) == [state |-> "Disconnected", port |-> port, link |-> "none"]
NoReceiver == [state |-> "none", port |-> 0, peer |-> "none", up |-> FALSE]

Init ==
  /\ conn = [s \in Senders |-> Unconnected(0)]
  /\ wait = [s \in Senders |-> 0]
  /\ turn = [s \in Senders |-> "discoverer"]
  /\ receivers = [i \in Slots |-> NoReceiver]
  /\ requests = {} /\ replies = {}
  /\ faults = 0

Listening(port) == \E i \in Slots : receivers[i].state = "listening" /\ receivers[i].port = port

-----------------------------------------------------------------------------
(* Discovery.                                                               *)

NeverConnected(s) == FALSE                                   \* slip: no guard
HasReadyConnection(s) == conn[s].state = "ReadyForFields"  \* slip: is_ready()
(* has_basic_connection(), which is also true of a connect() in progress.   *)
HasBasicConnection(s) == conn[s].state # "Disconnected"

BroadcastEarly(s) ==        \* slip: >= for >
  /\ turn[s] = "discoverer" /\ turn' = [turn EXCEPT ![s] = "connection"]
  /\ wait' = [wait EXCEPT ![s] = IF @ >= 0 THEN @ - 1 ELSE BroadcastTicks]
  /\ requests' = IF wait[s] > 0 THEN requests
                 ELSE requests \cup {[from |-> s, live |-> TRUE]}
(* The second half of a discoverer's tick() in Sender mode.                 *)
Broadcast(s) ==
  /\ turn[s] = "discoverer" /\ turn' = [turn EXCEPT ![s] = "connection"]
  /\ wait' = [wait EXCEPT ![s] = IF @ > 0 THEN @ - 1 ELSE BroadcastTicks]
  /\ requests' = IF wait[s] > 0 THEN requests
                 ELSE requests \cup {[from |-> s, live |-> TRUE]}

(* The discoverer of a Sender is ticked only while there is no connection.  *)
SenderDiscovers(s) ==
  /\ ~HasBasicConnection(s)
  /\ Broadcast(s)
  /\ UNCHANGED <<conn, receivers, replies, faults>>

ReadReplyOnce(s) ==         \* slip: a configured Sender keeps its port
  /\ ~HasBasicConnection(s)
  /\ \E r \in replies :
       /\ r.to = s
       /\ replies' = replies \ {r}
       /\ conn' = IF conn[s].port = 0 THEN [conn EXCEPT ![s].port = r.port] ELSE conn
  /\ Broadcast(s)
  /\ UNCHANGED <<receivers, faults>>
(* It reads at most one datagram; configure_sender() takes the port and     *)
(* sets the state, but leaves the socket alone.                             *)
ReadReply(s) ==
  /\ ~HasBasicConnection(s)
  /\ \E r \in replies :
       /\ r.to = s
       /\ replies' = replies \ {r}
       /\ conn' = [conn EXCEPT ![s].port = r.port, ![s].state = "Disconnected"]
  /\ Broadcast(s)
  /\ UNCHANGED <<receivers, faults>>

(* A dynamic receiver whose port no Sender and no reply knows will wait for *)
(* ever.  The program keeps it; the model forgets it.                       *)
Unreachable(r) ==
  \/ r.state = "none"
  \/ /\ r.state \in {"closed", "listening"}
     /\ \A s \in Senders : conn[s].port # r.port
     /\ \A d \in replies : d.port # r.port

(* push_back(), configure_receiver() and ticks until it listens, on a port  *)
(* on which no socket is open.                                              *)
AddReceiver(p) ==
  \E i \in Slots :
    /\ Unreachable(receivers[i]) /\ \A j \in Slots : j < i => ~Unreachable(receivers[j])
    /\ \A j \in Slots :
         receivers[j].port = p => receivers[j].state = "closed" \/ Unreachable(receivers[j])
    /\ receivers' = [j \in Slots |->
         IF j = i THEN [state |-> "listening", port |-> p, peer |-> "none", up |-> FALSE]
         ELSE IF Unreachable(receivers[j]) THEN NoReceiver ELSE receivers[j]]

(* The receiving engine's discoverer reads a request and answers it; the    *)
(* answer may be lost, and to an engine that has died since gets nowhere.   *)
(* When no socket could be made the answer has port 0, and the port that    *)
(* the receiver gets later on is never told.                                *)
AnswerRequest(d, arrives) ==
  /\ d \in requests /\ (arrives => d.live)
  /\ requests' = requests \ {d}
  /\ \/ \E p \in Ports :
          /\ AddReceiver(p)
          /\ replies' = IF arrives THEN replies \cup {[to |-> d.from, port |-> p]} ELSE replies
          /\ UNCHANGED faults
     \/ /\ faults < MaxFaults /\ faults' = faults + 1
        /\ replies' = IF arrives THEN replies \cup {[to |-> d.from, port |-> 0]} ELSE replies
        /\ UNCHANGED receivers
  /\ UNCHANGED <<conn, wait, turn>>

-----------------------------------------------------------------------------
(* Connections: tick() of a Sender ...                                      *)

(* Not configured, time_sec_to_reconnect > 0, or connect() fails at once.   *)
StayDisconnected(s) ==
  /\ turn[s] = "connection" /\ turn' = [turn EXCEPT ![s] = "discoverer"]
  /\ conn[s].state = "Disconnected"
  /\ UNCHANGED <<conn, wait, receivers, requests, replies, faults>>

Connect(s) ==
  /\ turn[s] = "connection" /\ turn' = [turn EXCEPT ![s] = "discoverer"]
  /\ conn[s].state = "Disconnected" /\ conn[s].port # 0
  /\ conn' = [conn EXCEPT ![s].state = "ReadyForHandshake", ![s].link = "pending"]
  /\ UNCHANGED <<wait, receivers, requests, replies, faults>>

(* A connection that waits in a backlog already takes the handshake.        *)
Subscribe(s) ==
  /\ conn[s].state = "ReadyForHandshake"
  /\ \/ conn[s].link = "up"
     \/ conn[s].link = "pending" /\ Listening(conn[s].port)
  /\ conn' = [conn EXCEPT ![s].state = "ReadyForFields"]
  /\ UNCHANGED <<wait, turn, receivers, requests, replies, faults>>

SenderDisconnects(s) ==
  /\ conn[s].link = "broken"
  /\ conn' = [conn EXCEPT ![s] = Unconnected(@.port)]
  /\ UNCHANGED <<wait, turn, receivers, requests, replies, faults>>

(* ... and of a dynamic receiver.                                           *)
Listen(i) ==
  /\ receivers[i].state = "closed" /\ ~Listening(receivers[i].port)
  /\ receivers' = [receivers EXCEPT ![i].state = "listening"]
  /\ UNCHANGED <<conn, wait, turn, requests, replies, faults>>

Accept(i) ==
  /\ receivers[i].state = "listening"
  /\ \E s \in Senders :
       /\ conn[s].link = "pending" /\ conn[s].port = receivers[i].port
       /\ conn' = [conn EXCEPT ![s].link = "up"]
       /\ receivers' = [receivers EXCEPT ![i].state = "ReadyForHandshake",
                                         ![i].peer = s, ![i].up = TRUE]
  /\ UNCHANGED <<wait, turn, requests, replies, faults>>

Subscribed(i) ==
  /\ receivers[i].state = "ReadyForHandshake" /\ receivers[i].up
  /\ conn[receivers[i].peer].state = "ReadyForFields"
  /\ receivers' = [receivers EXCEPT ![i].state = "ReadyForFields"]
  /\ UNCHANGED <<conn, wait, turn, requests, replies, faults>>

(* It will listen again on the port it had.                                 *)
ReceiverDisconnects(i) ==
  /\ receivers[i].state \in {"ReadyForHandshake", "ReadyForFields"} /\ ~receivers[i].up
  /\ receivers' = [receivers EXCEPT ![i].state = "closed", ![i].peer = "none"]
  /\ UNCHANGED <<conn, wait, turn, requests, replies, faults>>

-----------------------------------------------------------------------------
(* The network and the processes.                                           *)

(* Nobody listens on that port, or the listening socket was closed with     *)
(* this connection in its backlog.                                          *)
Refuse(s) ==
  /\ conn[s].link = "pending" /\ ~Listening(conn[s].port)
  /\ conn' = [conn EXCEPT ![s].link = "broken"]
  /\ UNCHANGED <<wait, turn, receivers, requests, replies, faults>>

LoseRequest ==
  /\ \E d \in requests : requests' = requests \ {d}
  /\ UNCHANGED <<conn, wait, turn, receivers, replies, faults>>

CutOff(s) == [i \in Slots |-> IF receivers[i].peer = s THEN [receivers[i] EXCEPT !.up = FALSE]
                              ELSE receivers[i]]

Reset(s) ==
  /\ faults < MaxFaults /\ faults' = faults + 1
  /\ conn[s].link \in {"pending", "up"}
  /\ conn' = [conn EXCEPT ![s].link = "broken"]
  /\ receivers' = CutOff(s)
  /\ UNCHANGED <<wait, turn, requests, replies>>

(* A restarted Sender waits for replies on another port.                    *)
RestartSender(s) ==
  /\ faults < MaxFaults /\ faults' = faults + 1
  /\ conn' = [conn EXCEPT ![s] = Unconnected(0)]
  /\ wait' = [wait EXCEPT ![s] = 0]
  /\ turn' = [turn EXCEPT ![s] = "discoverer"]
  /\ receivers' = CutOff(s)
  /\ requests' = {[d EXCEPT !.live = @ /\ d.from # s] : d \in requests}
  /\ replies' = {r \in replies : r.to # s}

RestartReceiver ==
  /\ faults < MaxFaults /\ faults' = faults + 1
  /\ receivers' = [i \in Slots |-> NoReceiver]
  /\ conn' = [s \in Senders |-> IF conn[s].link = "none" THEN conn[s]
                                ELSE [conn[s] EXCEPT !.link = "broken"]]
  /\ UNCHANGED <<wait, turn, requests, replies>>

-----------------------------------------------------------------------------
SenderTick(s) == StayDisconnected(s) \/ Connect(s) \/ Subscribe(s) \/ SenderDisconnects(s)
ReceiverTick(i) == Listen(i) \/ Accept(i) \/ Subscribed(i) \/ ReceiverDisconnects(i)
Fault == RestartReceiver \/ \E s \in Senders : Reset(s) \/ RestartSender(s)

Next ==
  \/ \E s \in Senders : SenderDiscovers(s) \/ ReadReply(s) \/ SenderTick(s) \/ Refuse(s)
  \/ \E d \in requests, arrives \in BOOLEAN : AnswerRequest(d, arrives)
  \/ \E i \in Slots : ReceiverTick(i)
  \/ LoseRequest \/ Fault

Spec == Init /\ [][Next]_vars

(* Both engines go on ticking everything they have and the reconnect timer  *)
(* expires; a datagram that is sent again and again arrives in the end.     *)
LiveSpec ==
  /\ Spec
  /\ \A s \in Senders :
       /\ WF_vars(SenderDiscovers(s)) /\ WF_vars(SenderTick(s)) /\ WF_vars(Refuse(s))
       /\ SF_vars(ReadReply(s)) /\ SF_vars(Connect(s))
       /\ SF_vars(AnswerRequest([from |-> s, live |-> TRUE], TRUE))
  /\ \A i \in Slots : WF_vars(ReceiverTick(i))

-----------------------------------------------------------------------------
(* Properties.                                                              *)

TypeOK ==
  /\ conn \in [Senders -> [state : {"Disconnected", "ReadyForHandshake", "ReadyForFields"},
                           port : Ports \cup {0},
                           link : {"none", "pending", "up", "broken"}]]
  /\ wait \in [Senders -> 0 .. BroadcastTicks]
  /\ turn \in [Senders -> {"discoverer", "connection"}]
  /\ receivers \in [Slots -> [state : {"none", "closed", "listening", "ReadyForHandshake",
                                       "ReadyForFields"},
                              port : Ports \cup {0}, peer : Senders \cup {"none"},
                              up : BOOLEAN]]
  /\ requests \subseteq [from : Senders, live : BOOLEAN]
  /\ replies \subseteq [to : Senders, port : Ports \cup {0}]
  /\ faults \in 0 .. MaxFaults

(* configure_sender() (RemoteEngineConnection.cpp:166-176) sets the state   *)
(* without closing the socket, so it must never meet a Sender that has one: *)
(* the next connect would leak it, and the receiver at its other end would  *)
(* wait for ever.                                                           *)
NoSocketLeaks ==
  \A s \in Senders : conn[s].state = "Disconnected" <=> conn[s].link = "none"

Paired(s) == /\ conn[s].state = "ReadyForFields" /\ conn[s].link = "up"
             /\ \E i \in Slots : /\ receivers[i].peer = s /\ receivers[i].up
                                 /\ receivers[i].state = "ReadyForFields"

(* Late requests and replies, other Senders and abandoned receivers never   *)
(* disturb a pair: only a fault separates it.                               *)
OnlyFaultsSeparate == [][\A s \in Senders : Paired(s) /\ ~Paired(s)' => Fault]_vars

(* However many datagrams are lost or stale and whichever engine restarts,  *)
(* every Sender is paired again after the last fault.                       *)
PairsAgain == \A s \in Senders : []<>Paired(s)
=============================================================================
