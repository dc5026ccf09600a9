---------------------------- MODULE MCCardServer ----------------------------
(* Small instances of CardServer for TLC.                                  *)
EXTENDS CardServer
=============================================================================
