------------------------------ MODULE MCMemory -------------------------------
(* A memory of three pages of two rows, for TLC: ranges inside a row, over a *)
(* row's end, over one page's end and over two, empty, and past the end.     *)
EXTENDS Snapshot

SomeAddresses == {0, 1, 3, 4, 6, 7, 11, 12, 15}
SomeLengths   == {0, 1, 5, 12, 15}
=============================================================================
