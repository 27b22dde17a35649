---------------------------- MODULE MCKeypresses ----------------------------
(***************************************************************************)
(* Both shifts, the left and the right ctrl and alt, the locks, and        *)
(* letters; two functions in a table of 5 entries, of which 3 move up.     *)
(***************************************************************************)
EXTENDS Subscribers

MCKeys == {<<42>>, <<54>>, <<29>>, <<56>>, <<58>>, <<30>>, <<Extension, 29>>,
           <<Extension, 56>>, <<Extension, 16>>}
=============================================================================
