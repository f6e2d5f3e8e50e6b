---------------------------- MODULE MCInputFlow ----------------------------
(* Model values for InputFlow.                                             *)
EXTENDS InputFlow
=============================================================================
