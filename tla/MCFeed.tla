------------------------------- MODULE MCFeed -------------------------------
(* ObservabilityFeed on small instances; their cfgs give the constants.    *)
EXTENDS ObservabilityFeed
=============================================================================
