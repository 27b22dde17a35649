---------------------------- MODULE MCHeapClient ----------------------------
(* A heap with room for a few segments; a request of 40 searches for 24.     *)
EXTENDS HeapClient
MCSizes == {16, 40}
=============================================================================
