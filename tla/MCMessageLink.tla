--------------------------- MODULE MCMessageLink ---------------------------
(* Model checking of MessageLink: an empty payload, one that fills part of  *)
(* a chunk and one that needs two chunks.                                   *)
EXTENDS MessageLink

MCPayloadSize(n) == CASE n % 3 = 0 -> 0 [] n % 3 = 1 -> 3 [] OTHER -> 1
=============================================================================
