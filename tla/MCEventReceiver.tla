--------------------------- MODULE MCEventReceiver ----------------------------
(* EventReceiver on small instances: the constants are given in the .cfg.   *)
EXTENDS EventReceiver

=============================================================================
