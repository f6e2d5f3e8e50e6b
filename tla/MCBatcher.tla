----------------------------- MODULE MCBatcher -----------------------------
(* Batcher on small instances. *)
EXTENDS Batcher
=============================================================================
