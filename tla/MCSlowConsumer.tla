--------------------------- MODULE MCSlowConsumer ---------------------------
(* SlowConsumer on a small instance.                                       *)
EXTENDS SlowConsumer
=============================================================================
