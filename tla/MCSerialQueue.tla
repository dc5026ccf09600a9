--------------------------- MODULE MCSerialQueue ---------------------------
(* Small instances of SerialQueue for TLC.                                 *)
EXTENDS SerialQueue
=============================================================================
