------------------------------ MODULE MCMemory ------------------------------
(* A small instance of Memory: an integer the range check accepts, one it   *)
(* refuses and an address, written to two segments of two cells.            *)
EXTENDS Memory

MCContents == {IntValue(1), IntValue(2), RelocatableValue(0, 0)}

=============================================================================
