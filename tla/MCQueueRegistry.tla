-------------------------- MODULE MCQueueRegistry --------------------------
(* Small instances of QueueRegistry for TLC.                               *)
EXTENDS QueueRegistry, TLC

ThreadSymmetry == Permutations(Threads)
=============================================================================
