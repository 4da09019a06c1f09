-------------------------- MODULE MCTelemetryInputs --------------------------
(* Model checking of TelemetryInputs: two writable fields, which swap their  *)
(* handles when the model is rebuilt, and a third path that is not writable. *)
(* One client is enough: a write of another one acts like its own.           *)
EXTENDS TelemetryInputs

MCFields == {"x", "y", "connected"}
MCLayouts == {<<"x", "y">>, <<"y", "x">>}
MCClients == {"client"}
=============================================================================
