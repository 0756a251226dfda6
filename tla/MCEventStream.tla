---------------------------- MODULE MCEventStream ----------------------------
(* Instances of EventStream for TLC: the constants are given in the cfgs.   *)
EXTENDS EventStream
=============================================================================
