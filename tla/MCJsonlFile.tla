---------------------------- MODULE MCJsonlFile ----------------------------
(* JsonlFile on small instances; their cfgs give the constants.            *)
EXTENDS JsonlFile
=============================================================================
