----------------------------- MODULE MCPrograms -----------------------------
(* A small instance of each of the programs for TLC.                       *)
EXTENDS Programs

CONSTANTS r1, r2, p1, p2, f1, f2

(* A request through both proxies, and one that enters at the second.      *)
MCPath == [r \in {r1, r2} |-> IF r = r1 THEN <<p1, p2>> ELSE <<p2>>]

(* A file of two reads and one of one.                                     *)
MCSize == [f \in {f1, f2} |-> IF f = f1 THEN 2 ELSE 1]

(* A click matches the view, unless what is malformed is in the store.     *)
MCInputs ==
  {[time |-> 0, value |-> "view"], [time |-> 1, value |-> "malformed"],
   [time |-> 1, value |-> "click"], [time |-> 2, value |-> "click"]}
=============================================================================
