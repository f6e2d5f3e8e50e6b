----------------------- MODULE MCProcessQueueManager -----------------------
(* Model values for ProcessQueueManager.                                   *)
EXTENDS ProcessQueueManager, TLC

\* The pipelines are interchangeable until they are filed.
KeySymmetry == Permutations(Keys)
=============================================================================
