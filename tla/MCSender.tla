------------------------------ MODULE MCSender ------------------------------
(* The sender on a small instance: failures, pipeline updates and exit.     *)
EXTENDS Sender

\* Bound: the groups of Late come only while the queue is full, and are given
\* up.
CONSTANT Late

LateGivesUp == pushed \cap Late = {}
=============================================================================
