------------------------------ MODULE Encoding -------------------------------
(* The twelve bytes of an instruction (src/src/isa/isa.cpp). A u32 operand is *)
(* its four bytes, lowest first, which is all that read_bytes, write_bytes    *)
(* and the flag bits tell apart; function= and pool= are operands whose       *)
(* number is the enumerator's. An operand an instruction has not is Zero.     *)
EXTENDS Naturals

Byte     == 0 .. 255
Word     == [0 .. 11 -> Byte]
U32      == [1 .. 4 -> Byte]
Small(b) == <<b, 0, 0, 0>>
Zero     == Small(0)

Opcode ==
  [Nop |-> 0, Halt |-> 1, Sync |-> 2, ReadHostMemory |-> 16,
   WriteHostMemory |-> 17, ReadWeights |-> 32, MatrixMultiply |-> 48,
   Activate |-> 64]

Keys == {"host", "ub", "rows", "tile", "acc", "accumulate", "new_weights",
         "shift", "function", "pool", "size", "width"}

Instr == [op : DOMAIN Opcode, arg : [Keys -> U32]]

At(key, first, count) == [key |-> key, first |-> first, count |-> count]
Field == [key : Keys, first : 0 .. 11, count : 1 .. 4]

(* Bits low, low + 1, ... of a byte: `size` is the number of their values.   *)
Bits(byte, low, size) == (byte \div low) % size
-----------------------------------------------------------------------------
(* encode: where each operand is written, what is refused, the flag byte.    *)
Written(op) ==
  CASE op \in {"ReadHostMemory", "WriteHostMemory"} ->
         {At("ub", 3, 3), At("host", 6, 4), At("rows", 10, 2)}
    [] op = "ReadWeights" -> {At("tile", 3, 4)}
    [] op = "MatrixMultiply" ->
         {At("ub", 3, 3), At("acc", 6, 2), At("rows", 8, 4)}
    [] op = "Activate" ->
         {At("ub", 3, 3), At("acc", 6, 2), At("rows", 8, 2),
          At("shift", 10, 1), At("width", 11, 1)}
    [] OTHER -> {}

FitsIn(value, count) == \A i \in count + 1 .. 4 : value[i] = 0
UpTo(value, most)    == FitsIn(value, 1) /\ value[1] <= most

PoolingOK(arg) ==
  IF arg["pool"] = Zero
    THEN arg["size"] = Zero /\ arg["width"] = Zero
    ELSE arg["size"] # Zero /\ UpTo(arg["size"], 7) /\ arg["width"] # Zero

Encodes(in) ==
  /\ \A f \in Written(in.op) : FitsIn(in.arg[f.key], f.count)
  /\ in.op = "MatrixMultiply" =>
       UpTo(in.arg["accumulate"], 1) /\ UpTo(in.arg["new_weights"], 1)
  /\ in.op = "Activate" => UpTo(in.arg["shift"], 31) /\ PoolingOK(in.arg)

FlagByte(in) ==
  CASE in.op = "MatrixMultiply" ->
         in.arg["accumulate"][1] + 2 * in.arg["new_weights"][1]
    [] in.op = "Activate" ->
         in.arg["function"][1] + 4 * in.arg["pool"][1] + 16 * in.arg["size"][1]
    [] OTHER -> 0

Encode(in) ==
  LET over(i) == {f \in Written(in.op) : i \in f.first .. f.first + f.count - 1}
      operand(i) == LET f == CHOOSE f \in over(i) : TRUE
                    IN  in.arg[f.key][i - f.first + 1]
  IN  [i \in 0 .. 11 |-> IF i = 0 THEN Opcode[in.op]
                         ELSE IF i = 1 THEN FlagByte(in)
                         ELSE IF over(i) # {} THEN operand(i) ELSE 0]
-----------------------------------------------------------------------------
(* decode: which words it takes, and where it reads each operand.            *)
OpOf(word) == CHOOSE op \in DOMAIN Opcode : Opcode[op] = word[0]

Decodes(word) ==
  /\ \E op \in DOMAIN Opcode : Opcode[op] = word[0]
  /\ OpOf(word) = "Activate" => Bits(word[1], 4, 4) <= 2

ReadBytes(word, first, count) ==
  [i \in 1 .. 4 |-> IF i <= count THEN word[first + i - 1] ELSE 0]

HostArg(word) ==
  [ub |-> ReadBytes(word, 3, 3), host |-> ReadBytes(word, 6, 4),
   rows |-> ReadBytes(word, 10, 2)]

(* Mutant: rows is read as the two bytes it has in an Activate.              *)
MultiplyArgShort(word) ==
  [ub |-> ReadBytes(word, 3, 3), acc |-> ReadBytes(word, 6, 2),
   rows |-> ReadBytes(word, 8, 2),
   accumulate |-> Small(Bits(word[1], 1, 2)),
   new_weights |-> Small(Bits(word[1], 2, 2))]

MultiplyArg(word) ==
  [ub |-> ReadBytes(word, 3, 3), acc |-> ReadBytes(word, 6, 2),
   rows |-> ReadBytes(word, 8, 4),
   accumulate |-> Small(Bits(word[1], 1, 2)),
   new_weights |-> Small(Bits(word[1], 2, 2))]

ActivateArg(word) ==
  [ub |-> ReadBytes(word, 3, 3), acc |-> ReadBytes(word, 6, 2),
   rows |-> ReadBytes(word, 8, 2), shift |-> Small(Bits(word[10], 1, 32)),
   function |-> Small(Bits(word[1], 1, 4)),
   pool |-> Small(Bits(word[1], 4, 4)), size |-> Small(Bits(word[1], 16, 8)),
   width |-> Small(word[11])]

Given(word) ==
  CASE OpOf(word) \in {"ReadHostMemory", "WriteHostMemory"} -> HostArg(word)
    [] OpOf(word) = "ReadWeights" -> [tile |-> ReadBytes(word, 3, 4)]
    [] OpOf(word) = "MatrixMultiply" -> MultiplyArg(word)
    [] OpOf(word) = "Activate" -> ActivateArg(word)
    [] OTHER -> [key \in {} |-> Zero]

Decode(word) ==
  [op  |-> OpOf(word),
   arg |-> [key \in Keys |-> IF key \in DOMAIN Given(word)
                               THEN Given(word)[key] ELSE Zero]]
=============================================================================
