------------------------------ MODULE Memories ------------------------------
(* The memories the units share: the Unified Buffer and host memory, flat    *)
(* arrays of bytes in rows of Dim, and the accumulators, rows of Dim sums.   *)
(*                                                                           *)
(* A byte or a sum is the term that produced it, never a number, so two      *)
(* cells are equal only when the same data flowed into them the same way:    *)
(*   <<"zero">>             a byte nothing has written                       *)
(*   <<"host", a>>          the byte the program placed at host address a    *)
(*   <<"weight", t, i>>     byte i of weight tile t                          *)
(*   <<"act", f, sum>>      an accumulator taken through function f          *)
(*   <<"Max", s>>, <<"Average", s>>   the pooled value of the sequence s     *)
(* A sum is the sequence of products <<activation, weight>> added into it.   *)
EXTENDS Isa

CONSTANTS Dim,        \* v1::kMxuDim: side of the array, bytes of a row
          UbRows,     \* v1::kUbRows
          AccRows,    \* v1::kAccRows
          HostRows,   \* rows of host memory
          TileCount   \* tiles of Weight Memory

ASSUME MemoryAssumption ==
  /\ Dim \in Nat \ {0}
  /\ UbRows \in Nat /\ AccRows \in Nat /\ HostRows \in Nat
  /\ TileCount \in Nat

VARIABLES ub,      \* byte address -> byte
          acc,     \* <<row, column>> -> sum
          hostMem  \* byte address -> byte

Zero == <<"zero">>

Cols      == 0 .. Dim - 1
UbAddrs   == 0 .. UbRows * Dim - 1
HostAddrs == 0 .. HostRows * Dim - 1
AccCells  == (0 .. AccRows - 1) \X Cols

(* Column n of Unified Buffer row r.                                         *)
UbAt(r, n) == r * Dim + n

Activated(function, sum) == <<"act", function, sum>>

(* A function on exactly the domain D: what a memory's type says when its    *)
(* cells are terms.                                                          *)
IsMemory(f, D) == f = [x \in D |-> f[x]]

(* After load: zeros on chip, the program's data blocks in host memory.      *)
MemoryInit ==
  /\ ub = [a \in UbAddrs |-> Zero]
  /\ acc = [c \in AccCells |-> << >>]
  /\ hostMem = [a \in HostAddrs |-> <<"host", a>>]
=============================================================================
