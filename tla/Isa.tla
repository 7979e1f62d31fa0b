-------------------------------- MODULE Isa ---------------------------------
(* The decoded instruction (src/src/isa/isa.h): an opcode and its operands.  *)
(* The twelve bytes themselves are not modelled; a word that decode refuses  *)
(* is an instruction whose op is "Unknown".                                  *)
EXTENDS Integers, Sequences

Ops == {"Nop", "Halt", "Sync", "ReadHostMemory", "WriteHostMemory",
        "ReadWeights", "MatrixMultiply", "Activate", "Unknown"}

(* Activate's function and shift together are one tag: nothing below depends *)
(* on which function it is, only on the same one reaching every value.       *)
Functions == {"identity", "relu", "sigmoid", "tanh"}
Poolings  == {"None", "Max", "Average"}

Instr ==
  [op : Ops, ub_row : Nat, host_row : Nat, rows : Nat, tile : Nat,
   acc_row : Nat, accumulate : BOOLEAN, new_weights : BOOLEAN,
   function : Functions, pool : Poolings, pool_size : Nat, pool_width : Nat]

(* What encode lets through (check_pooling): a pooling Activate has a window *)
(* and a width.                                                              *)
Encodable(in) == in.pool # "None" => in.pool_size > 0 /\ in.pool_width > 0

(* The interlocks and the activation unit share this: how many Unified       *)
(* Buffer rows an Activate of `rows` accumulator rows writes.                *)
ActivateOutputRows(rows, pool, size) ==
  IF pool = "None" \/ size = 0 THEN rows ELSE rows \div (size * size)

(* Half-open row ranges that share a row; an empty range shares none.        *)
Overlap(first_a, count_a, first_b, count_b) ==
  /\ count_a > 0
  /\ count_b > 0
  /\ first_a < first_b + count_b
  /\ first_b < first_a + count_a

Fits(first, count, limit) == first + count <= limit

(* Pooled row o is window o of the feature map: its pixels, row by row.      *)
Window(o, size, width) ==
  LET perBand == width \div size
      top     == (o \div perBand) * size
      left    == (o % perBand) * size
  IN  [j \in 1 .. size * size |->
         (top + (j - 1) \div size) * width + left + ((j - 1) % size)]

Least(a, b) == IF a <= b THEN a ELSE b

(* An instruction with every operand zero, which the named ones below fill.  *)
Blank(op) ==
  [op |-> op, ub_row |-> 0, host_row |-> 0, rows |-> 0, tile |-> 0,
   acc_row |-> 0, accumulate |-> FALSE, new_weights |-> FALSE,
   function |-> "identity", pool |-> "None", pool_size |-> 0,
   pool_width |-> 0]
=============================================================================
