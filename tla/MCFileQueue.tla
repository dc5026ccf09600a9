----------------------------- MODULE MCFileQueue -----------------------------
(* Small instances of FileQueue for TLC.                                   *)
EXTENDS FileQueue, TLC

ClientSymmetry == Permutations(Clients)

(* The invariants promise nothing after a breach, so TLC stops at it.      *)
UntilBreached == ~ breached
=============================================================================
