---------------------- MODULE MCRemoteEngineConnection ----------------------
(* Model checking of RemoteEngineConnection: two connection identities are  *)
(* enough, because the Sender connects only when it holds none and of a     *)
(* listening socket and an accepted connection the Receiver has only one.   *)
EXTENDS RemoteEngineConnection

MCConns == {"c1", "c2"}
=============================================================================
