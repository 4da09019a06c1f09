---------------------------- MODULE MCDiscovery ----------------------------
(* Model checking of Discovery.  One Sender: what several Senders do to     *)
(* each other is covered by the proofs, and with a bounded number of ports  *)
(* and receivers they would run each other out of both.                     *)
EXTENDS Discovery

MCSenders == {"brain"}
MCTwoPorts == 1 .. 2
=============================================================================
