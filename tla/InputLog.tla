------------------------------ MODULE InputLog ------------------------------
(***************************************************************************)
(* What telemetry promises to those who set workload inputs over HTTP: the *)
(* accepted writes form one log, and what a tick of the workloads sees is  *)
(* the effect of a prefix of that log, never shorter than an earlier       *)
(* tick's.  A client that sets one input and then another is never seen to *)
(* have set only the second.                                               *)
(***************************************************************************)
EXTENDS Naturals, Sequences

CONSTANT Slots

VARIABLES
  log,     \* the slots of the accepted writes, oldest first
  length,  \* how much of the log the last tick has seen
  shown    \* Slots -> position in the log of the write seen there, or 0

vars == <<log, length, shown>>

(* Of the first k writes, n is the last one to slot s (0: there is none).   *)
IsLast(s, k, n) ==
  /\ n \in 0 .. k
  /\ n > 0 => log[n] = s
  /\ \A j \in (n + 1) .. k : log[j] # s

Init == log = <<>> /\ length = 0 /\ shown = [s \in Slots |-> 0]

Accept == /\ \E s \in Slots : log' = Append(log, s)
          /\ UNCHANGED <<length, shown>>

Tick == /\ length' \in length .. Len(log)
        /\ shown' \in [Slots -> 0 .. length']
        /\ \A s \in Slots : IsLast(s, length', shown'[s])
        /\ UNCHANGED log

(* The engine's process starts again.                                       *)
Restart == log' = <<>> /\ length' = 0 /\ shown' = [s \in Slots |-> 0]

Next == Accept \/ Tick \/ Restart

Spec == Init /\ [][Next]_vars
=============================================================================
