---------------------------- MODULE CompiledTpu -----------------------------
(* The machine running what the compiler made of a network, against the      *)
(* plain loops of src/src/ref/ref_ops.cpp.                                   *)
EXTENDS Tpu, Compiler

CONSTANTS Networks,      \* dense networks
          Convolutions   \* single convolutions

VARIABLE source   \* what was compiled: [kind, net], and conv for a convolution

Sources ==
  { [kind |-> "layers", net |-> n] : n \in Networks }
    \cup { [kind |-> "conv", net |-> ConvNet(c), conv |-> c] :
             c \in {d \in Convolutions : ConvOK(d)} }

Compiled == {s \in Sources : Compilable(s.net)}

(* encode() refuses a word whose operands do not fit, so what is compiled is *)
(* a program of the machine.                                                 *)
ASSUME NetworksAssumption ==
  /\ \A n \in Networks : IsNetwork(n)
  /\ \A c \in Convolutions :
       /\ c.height \in Nat /\ c.width \in Nat
       /\ c.kernel \in Nat /\ c.channels \in Nat /\ c.layer \in Layers
  /\ \A s \in Compiled : Code(s.net) \in Programs

CompiledInit ==
  /\ source \in Compiled
  /\ Loaded(Code(source.net))
  /\ phase = "issue"
  /\ before = [rows_shifted |-> 0, shadow_tile |-> -1, working |-> FALSE]
  /\ error = "none"

CompiledSpec ==
  /\ CompiledInit
  /\ [][Next /\ UNCHANGED source]_<<vars, source>>
  /\ WF_<<vars, source>>(Next /\ UNCHANGED source)

-----------------------------------------------------------------------------
(* The reference: ref_conv2d or ref_matmul, ref_activate, ref_pool.          *)

Weight(i, k, n) == <<"w", i, k, n>>

Pooled(layer, width, o, value(_)) ==
  IF layer.pool = "None" THEN value(o)
  ELSE LET pixels == Window(o, layer.pool_size, width)
       IN  <<layer.pool, [j \in DOMAIN pixels |-> value(pixels[j])]>>

(* What layer i puts out, by row and column; layer 0 is the input.           *)
RefCells(net) ==
  LET cells[i \in 0 .. Len(net.layers)] ==
        IF i = 0 THEN net.cell
        ELSE [at \in Nat \X Nat |->
                LET layer    == net.layers[i]
                    value(p) == Activated(layer.function,
                                  [k \in 1 .. layer.rows |->
                                     <<cells[i - 1][<<p, k - 1>>],
                                       Weight(i, k - 1, at[2])>>])
                IN  Pooled(layer, layer.pool_width, at[1], value)]
  IN  cells

RefConvCell(conv, r, c) ==
  LET taps == conv.kernel * conv.kernel * conv.channels
      dx(k) == (k \div conv.channels) % conv.kernel
      dy(k) == (k \div conv.channels) \div conv.kernel
      pixel(p, k) == (p \div OutWidth(conv) + dy(k)) * conv.width
                       + (p % OutWidth(conv)) + dx(k)
      value(p) == Activated(conv.layer.function,
                    [k \in 1 .. taps |->
                       <<<<"pixel", pixel(p, k - 1), (k - 1) % conv.channels>>,
                         Weight(1, k - 1, c)>>])
  IN  Pooled(conv.layer, OutWidth(conv), r, value)

Reference(r, c) ==
  IF source.kind = "conv" THEN RefConvCell(source.conv, r, c)
  ELSE RefCells(source.net)[Len(source.net.layers)][<<r, c>>]

-----------------------------------------------------------------------------
(* What a byte of the machine is in the network's terms: the data blocks'    *)
(* contents for addresses, and no products with a padding weight, which are  *)
(* zero.                                                                     *)

(* Bytes a machine can hold: made by `depth` functions and poolings, or      *)
(* fewer, of what load() puts there.                                         *)
Bytes(depth) ==
  LET made[d \in 0 .. depth] ==
        IF d = 0 THEN {Zero} \cup ({"host"} \X Nat)
        ELSE LET from    == made[d - 1]
                 weights == {Zero} \cup ({"weight"} \X Nat \X Nat)
             IN  (({"act"} \X Functions \X Seq(from \X weights))
                   \cup ({"Max", "Average"} \X Seq(from)))
                 \cup from
  IN  made

WeightOf(net, weight) ==
  IF weight = Zero THEN Zero ELSE WeightByte(net, weight[2], weight[3])

(* A sum without its padding, its factors as `of` has them.                  *)
RealProducts(net, sum, of) ==
  LET real[j \in 0 .. Len(sum)] ==
        IF j = 0 THEN << >>
        ELSE LET weight == WeightOf(net, sum[j][2])
             IN  IF weight = Zero THEN real[j - 1]
                 ELSE Append(real[j - 1], <<of[sum[j][1]], weight>>)
  IN  real[Len(sum)]

(* What a byte means, those it is made of meaning `of`.                      *)
MeansOf(net, t, of) ==
  CASE t[1] = "host" -> HostByte(net, t[2])
    [] t[1] = "act"  -> Activated(t[2], RealProducts(net, t[3], of))
    [] t[1] \in {"Max", "Average"} ->
         <<t[1], [j \in DOMAIN t[2] |-> of[t[2][j]]]>>
    [] OTHER -> Zero

Denotations(net, depth) ==
  LET means[d \in 0 .. depth] ==
        [t \in Bytes(depth)[d] |-> MeansOf(net, t, means[d - 1])]
  IN  means

(* A function and a pooling per layer.                                       *)
Denoted(t) ==
  LET depth == 2 * Len(source.net.layers)
  IN  Denotations(source.net, depth)[depth][t]

-----------------------------------------------------------------------------
(* Properties                                                                *)

(* Every layer has an input to multiply its weights with.                    *)
HasInputs(net) == \A i \in DOMAIN net.layers : net.layers[i].rows > 0

(* What read_result() finds after Halt is the reference's result, whatever   *)
(* tiles, blocks, buffers and prefetches the program is made of and however  *)
(* they overlap (compiler.h:13, docs/kernels.md:3).                          *)
ResultsAreTheReference ==
  halted /\ phase = "issue" =>
    \A r \in 0 .. ResultRows(source.net) - 1 :
      \A c \in 0 .. ResultCols(source.net) - 1 :
        Denoted(hostMem[ResultAddr(source.net, r, c)]) = Reference(r, c)

(* The compiler's checks are enough: what it compiles runs to its Halt, with *)
(* no deadlock on the FIFO and no range that does not fit.                   *)
CompiledProgramsHalt == <>halted
=============================================================================
