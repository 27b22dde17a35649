------------------------------- MODULE MCTrap -------------------------------
(* The timer and the keyboard on the master, the clock on the slave.       *)
EXTENDS Trap

MCLines == {0, 1, 8}
=============================================================================
