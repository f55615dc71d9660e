------------------------------ MODULE MCConsole ------------------------------
(* A small instance of Console for TLC: one digit, so that a number of two of them
   is too large for a tid. *)
EXTENDS Console

MCDigitValue == [d \in {"7"} |-> 7]
=============================================================================
