----------------------------- MODULE MCRWIOPump -----------------------------
(* The offsets of the instance: the current position, the start, a place in *)
(* the middle, the end of the source and one behind it.                     *)
EXTENDS RWIOPump

AllOffsets == {-1, 0, 2, 5, 6}
=============================================================================
