---------------------------- MODULE MCAssembler -----------------------------
(* Sources for the assembler: every operand at the limits of its field, and  *)
(* data blocks in every order, over each other and past the last row that a  *)
(* directive can name, with RowBytes, TileRows and LastAddress of the cfg.   *)
EXTENDS Assembler

N(a, b, c, d) == <<a, b, c, d>>

(* The values each operand takes: inside its field, its largest, one more.   *)
Around(key) ==
  CASE key = "host" -> {N(0, 2, 0, 0), N(255, 255, 255, 255)}
    [] key = "tile" -> {Zero, N(1, 2, 3, 4), N(255, 255, 255, 255)}
    [] key = "ub"   -> {N(1, 2, 3, 0), N(255, 255, 255, 0), N(0, 0, 0, 1)}
    [] key = "acc"  -> {N(5, 6, 0, 0), N(255, 255, 0, 0), N(0, 0, 1, 0)}
    [] key = "rows" -> {N(7, 8, 0, 0), N(255, 255, 0, 0), N(0, 0, 1, 0)}
    [] key \in {"accumulate", "new_weights"} ->
         {Small(0), Small(1), Small(2), N(0, 1, 0, 0)}
    [] key = "shift"    -> {Small(0), Small(31), Small(32)}
    [] key = "function" -> {Small(b) : b \in 0 .. 3}
    [] key = "pool"     -> {Small(b) : b \in 0 .. 2}
    [] key = "size"     -> {Small(0), Small(1), Small(7), Small(8)}
    [] key = "width"    -> {Small(0), Small(1), Small(255), N(0, 1, 0, 0)}

LineOf(op, keys, arg) ==
  Line(op, [i \in DOMAIN keys |-> Operand(keys[i], arg[i], TRUE)])

(* Every choice of values for the keys, which are written in this order.     *)
AllArgs(keys) ==
  FoldLeft(LAMBDA args, key :
             {Append(arg, v) : arg \in args, v \in Around(key)}, {<<>>}, keys)

Lines(op, keys) == {LineOf(op, keys, arg) : arg \in AllArgs(keys)}

(* Activate's rows are at their limits and its options are, not both at once.*)
ActivateRows == Lines("Activate", <<"acc", "ub", "rows", "shift", "function">>)
ActivateOptions ==
  LET rows == LineOf("Activate", <<"ub", "acc", "rows">>,
                     <<N(1, 2, 3, 0), N(5, 6, 0, 0), N(7, 8, 0, 0)>>)
  IN  {Line("Activate", rows.operands \o options.operands) : options \in
         Lines("Activate", <<"width", "function", "size", "pool", "shift">>)}

Odd ==
  {Line("Nop", <<>>), Line("Sync", <<>>), Line("Unknown", <<>>),
   Line("Halt", <<Operand("rows", Zero, TRUE)>>),
   Line("ReadWeights", <<>>),
   Line("ReadWeights", <<Operand("tile", Zero, FALSE)>>),
   Line("ReadWeights", <<Operand("tile", Small(1), TRUE),
                         Operand("tile", Small(2), TRUE)>>),
   Line("ReadWeights", <<Operand("tile", Small(1), TRUE),
                         Operand("ub", Small(2), TRUE)>>)}

OneLine ==
  {<<l>> : l \in Odd \cup ActivateRows \cup ActivateOptions
      \cup Lines("ReadHostMemory", <<"rows", "ub", "host">>)
      \cup Lines("WriteHostMemory", <<"host", "ub", "rows">>)
      \cup Lines("ReadWeights", <<"tile">>)
      \cup Lines("MatrixMultiply",
                 <<"new_weights", "ub", "acc", "rows", "accumulate">>)}

Dec(n) == [hex |-> FALSE, n |-> n]
Hex(n) == [hex |-> TRUE, n |-> n]

Statements ==
  {Directive("host", <<0>>), Directive("host", <<LastAddress>>),
   Directive("weights", <<0>>), Directive("weights", <<0, 1>>),
   Directive("weights", <<LastAddress, TileRows - 1>>),
   Values(<<Dec(1)>>), Values(<<Dec(0), Dec(-128), Hex(128)>>),
   Values(<<Dec(0)>>), Line("Halt", <<>>)}

Faults ==
  {Directive("host", <<-1>>), Directive("host", <<0, 0>>),
   Directive("weights", <<0, TileRows>>), Directive("data", <<0>>),
   Directive("host", <<LastAddress + 1>>),
   Directive("weights", <<LastAddress + 1, 0>>),
   Values(<<Dec(128)>>), Values(<<Hex(256)>>)}

DataSources ==
  UNION {[1 .. n -> Statements] : n \in 1 .. 4}
    \cup {<<s, t, f>> : s \in Statements, t \in Statements, f \in Faults}

AllSources == OneLine \cup DataSources
=============================================================================
