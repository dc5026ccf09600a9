--------------------------- MODULE MCMessageQueue ---------------------------
(* Small instances of MessageQueue for TLC.                                *)
EXTENDS MessageQueue, TLC

ThreadSymmetry == Permutations(Threads)

(* The third message is sent only before the first is handed out: it is    *)
(* there for the SENDs that overshoot the size.                            *)
ThirdComesEarly == sent + Cardinality(Adding) <= 2 \/ known = {}
=============================================================================
