----------------------------- MODULE FlatMemory ------------------------------
(* What an off-chip memory promises (src/src/mem/dram.h): Size bytes, zero   *)
(* until written, that a call writes or reads as one range; a range that     *)
(* runs past the end is refused and changes nothing.                         *)
EXTENDS Integers

CONSTANTS
  Size,
  RowBytes,
  Addresses, Lengths  \* what a caller may give

VARIABLES
  bytes,    \* address -> byte
  rows,     \* the rows written so far
  result,   \* what the last read returned
  refused,  \* the last call was refused
  writes    \* calls of write so far

flatVars == <<bytes, rows, result, refused, writes>>

(* A byte is the call that wrote it and its place in that call's source.     *)
Zero == <<0, 0>>
Source(call, i) == <<call, i>>

InRange(addr, n) == addr + n <= Size
Range(addr, n)   == addr .. addr + n - 1

FlatInit ==
  /\ bytes = [a \in 0 .. Size - 1 |-> Zero]
  /\ rows = {}
  /\ result = [i \in {} |-> Zero]
  /\ refused = FALSE
  /\ writes = 0

FlatWrite ==
  /\ writes' = writes + 1
  /\ \E addr \in Addresses, n \in Lengths :
       /\ InRange(addr, n)
       /\ bytes' = [a \in 0 .. Size - 1 |->
                      IF a \in Range(addr, n) THEN Source(writes', a - addr)
                                              ELSE bytes[a]]
       /\ rows' = rows \cup {a \div RowBytes : a \in Range(addr, n)}
  /\ refused' = FALSE
  /\ UNCHANGED result

FlatRead ==
  /\ \E addr \in Addresses, n \in Lengths :
       /\ InRange(addr, n)
       /\ result' = [i \in 0 .. n - 1 |-> bytes[addr + i]]
  /\ refused' = FALSE
  /\ UNCHANGED <<bytes, rows, writes>>

FlatRefuse ==
  /\ \E addr \in Addresses, n \in Lengths : ~InRange(addr, n)
  /\ refused' = TRUE
  /\ UNCHANGED <<bytes, rows, result, writes>>

FlatNext == FlatWrite \/ FlatRead \/ FlatRefuse

FlatSpec == FlatInit /\ [][FlatNext]_flatVars
=============================================================================
