-------------------------- MODULE MCTelemetryFrame --------------------------
(* Model checking of TelemetryFrame.  One client: responses only read, so   *)
(* no client can affect another.  Two cells let a body mix two frames and,  *)
(* with SeqSpan = 4, five frames let the sequence wrap around twice.        *)
EXTENDS TelemetryFrame

MCClients == {"client"}
=============================================================================
