------------------------------- MODULE MCTimer -------------------------------
(* Seconds of 2 ticks, a divisor that fits its word and one that does not.   *)
EXTENDS Timer

MCTones == {2, 4}
MCDurations == {0, 2}
=============================================================================
