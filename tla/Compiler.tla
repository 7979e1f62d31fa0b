------------------------------ MODULE Compiler ------------------------------
(* The compiler (src/src/compiler/compiler.cpp): a network of layers over an *)
(* input matrix becomes a program. A matrix is cut into blocks of Dim        *)
(* columns, the weights into Dim x Dim tiles; tiles are read PrefetchTiles   *)
(* multiplies ahead, and the accumulators are two buffers used in turn.      *)
(*                                                                           *)
(* A network is [rows, cols, cell, layers]: the input's shape, its values as *)
(* terms, and its layers [rows, cols, function, pool, pool_size, pool_width],*)
(* each with a rows x cols weight matrix.                                    *)
EXTENDS Memories, SequencesExt

CONSTANT PrefetchTiles

ASSUME CompilerAssumption == PrefetchTiles \in Nat \ {0}

(* What compile_layers() takes: an input and any number of layers.           *)
Layers == [rows : Nat, cols : Nat, function : Functions, pool : Poolings,
           pool_size : Nat, pool_width : Nat]

IsNetwork(net) ==
  net.rows \in Nat /\ net.cols \in Nat /\ net.layers \in Seq(Layers)

AccBufferRows == AccRows \div 2

BlockCount(cols) == (cols + Dim - 1) \div Dim

HasPool(layer) == layer.pool # "None"

-----------------------------------------------------------------------------
(* The plan: where each layer reads and writes in the Unified Buffer. Every  *)
(* layer's output has a region of its own, and is the next layer's input.    *)

PlanAfter(layer, in_ub, in_rows, in_blocks, out_ub) ==
  [in_ub |-> in_ub, in_rows |-> in_rows, in_blocks |-> in_blocks,
   out_ub |-> out_ub,
   out_rows |-> ActivateOutputRows(in_rows, layer.pool, layer.pool_size),
   out_blocks |-> BlockCount(layer.cols)]

EndOf(plan) == plan.out_ub + plan.out_blocks * plan.out_rows

Plans(net) ==
  LET first == BlockCount(net.cols)
      plan[i \in DOMAIN net.layers] ==
        IF i = 1
        THEN PlanAfter(net.layers[1], 0, net.rows, first, first * net.rows)
        ELSE LET last == plan[i - 1]
             IN  PlanAfter(net.layers[i], last.out_ub, last.out_rows,
                           last.out_blocks, EndOf(last))
  IN  plan

LayerOK(layer, rows, cols) ==
  /\ layer.rows = cols
  /\ rows \in 1 .. AccRows
  /\ HasPool(layer) =>
       /\ layer.pool_size >= 1 /\ layer.pool_width \in 1 .. 255
       /\ layer.pool_width % layer.pool_size = 0
       /\ rows % (layer.pool_width * layer.pool_size) = 0

(* compile_layers() returns a program; otherwise it throws.                  *)
Compilable(net) ==
  /\ net.layers # << >>
  /\ \A i \in DOMAIN net.layers :
       LET plan == Plans(net)[i]
       IN  /\ LayerOK(net.layers[i], plan.in_rows,
                      IF i = 1 THEN net.cols ELSE net.layers[i - 1].cols)
           /\ EndOf(plan) <= UbRows

(* Mutant: a layer taller than one buffer does not get them all.             *)
AlwaysDoubleBuffered(plans) == TRUE

DoubleBuffered(plans) ==
  \A i \in DOMAIN plans : plans[i].in_rows <= AccBufferRows

-----------------------------------------------------------------------------
(* The order of the tiles, which is the order of the multiplies: layer by    *)
(* layer, output block by output block, input block by input block.          *)

SumBefore(counts, i) ==
  LET sum[j \in 1 .. i] == IF j = 1 THEN 0 ELSE sum[j - 1] + counts[j - 1]
  IN  sum[i]

TilesOf(plan) == plan.out_blocks * plan.in_blocks
TilesBefore(plans, i) ==
  SumBefore([j \in DOMAIN plans |-> TilesOf(plans[j])], i)
BlocksBefore(plans, i) ==
  SumBefore([j \in DOMAIN plans |-> plans[j].out_blocks], i)

(* Mutant: tiles are stored input block by input block.                      *)
TileAlongOutput(plans, i, nb, kb) ==
  TilesBefore(plans, i) + kb * plans[i].out_blocks + nb

TileAt(plans, i, nb, kb) ==
  TilesBefore(plans, i) + nb * plans[i].in_blocks + kb

TilesTotal(plans) == TilesBefore(plans, Len(plans)) + TilesOf(plans[Len(plans)])

-----------------------------------------------------------------------------
(* The program's data: input blocks from host row 0 on, tiles in order, both *)
(* padded with zeros.                                                        *)

HostByte(net, a) ==
  LET block == (a \div Dim) \div net.rows
      row   == (a \div Dim) % net.rows
      col   == block * Dim + (a % Dim)
  IN  IF col < net.cols THEN net.cell[<<row, col>>] ELSE Zero

WeightByte(net, tile, b) ==
  LET plans    == Plans(net)
      i        == CHOOSE j \in DOMAIN plans :
                    tile - TilesBefore(plans, j) \in 0 .. TilesOf(plans[j]) - 1
      block    == CHOOSE at \in (0 .. plans[i].out_blocks - 1)
                                \X (0 .. plans[i].in_blocks - 1) :
                    TileAt(plans, i, at[1], at[2]) = tile
      row      == block[2] * Dim + b \div Dim
      col      == block[1] * Dim + (b % Dim)
  IN  IF row < net.layers[i].rows /\ col < net.layers[i].cols
      THEN <<"w", i, row, col>> ELSE Zero

-----------------------------------------------------------------------------
(* The program's code.                                                       *)

HostTransfer(op, host_row, ub_row, rows) ==
  [Blank(op) EXCEPT !.host_row = host_row, !.ub_row = ub_row, !.rows = rows]

ReadTile(tile) == [Blank("ReadWeights") EXCEPT !.tile = tile]

Multiply(ub_row, acc_row, rows, accumulate) ==
  [Blank("MatrixMultiply") EXCEPT
     !.ub_row = ub_row, !.acc_row = acc_row, !.rows = rows,
     !.accumulate = accumulate, !.new_weights = TRUE]

Activate(layer, acc_row, ub_row, rows) ==
  [Blank("Activate") EXCEPT
     !.acc_row = acc_row, !.ub_row = ub_row, !.rows = rows,
     !.function = layer.function, !.pool = layer.pool,
     !.pool_size = layer.pool_size, !.pool_width = layer.pool_width]

(* Where output block nb of layer i adds up its sums.                        *)
AccRowOf(plans, i, nb) ==
  IF DoubleBuffered(plans)
  THEN ((BlocksBefore(plans, i) + nb) % 2) * AccBufferRows
  ELSE 0

(* A multiply, then the read of the tile PrefetchTiles ahead.                *)
StepCode(plans, i, nb, kb) ==
  LET plan  == plans[i]
      ahead == TilesBefore(plans, i) + nb * plan.in_blocks + kb + PrefetchTiles
  IN  <<Multiply(plan.in_ub + kb * plan.in_rows, AccRowOf(plans, i, nb),
                 plan.in_rows, kb > 0)>>
        \o IF ahead < TilesTotal(plans) THEN <<ReadTile(ahead)>> ELSE << >>

(* Output block nb of layer i: a step per input block, then one Activate.    *)
BlockCode(net, plans, i, nb) ==
  LET plan == plans[i]
  IN  FlattenSeq([k \in 1 .. plan.in_blocks |-> StepCode(plans, i, nb, k - 1)])
        \o <<Activate(net.layers[i], AccRowOf(plans, i, nb),
                      plan.out_ub + nb * plan.out_rows, plan.in_rows)>>

LayerCode(net, plans, i) ==
  FlattenSeq([n \in 1 .. plans[i].out_blocks |->
                BlockCode(net, plans, i, n - 1)])

ResultHostRow(net) == BlockCount(net.cols) * net.rows

Code(net) ==
  LET plans  == Plans(net)
      last   == plans[Len(plans)]
      early  == Least(TilesTotal(plans), PrefetchTiles)
      read(b)  == HostTransfer("ReadHostMemory", b * net.rows, b * net.rows,
                               net.rows)
      write(b) == HostTransfer("WriteHostMemory",
                               ResultHostRow(net) + b * last.out_rows,
                               last.out_ub + b * last.out_rows, last.out_rows)
  IN  [t \in 1 .. early |-> ReadTile(t - 1)]
        \o [b \in 1 .. BlockCount(net.cols) |-> read(b - 1)]
        \o FlattenSeq([i \in DOMAIN plans |-> LayerCode(net, plans, i)])
        \o [b \in 1 .. last.out_blocks |-> write(b - 1)]
        \o <<Blank("Halt")>>

ResultRows(net) == Plans(net)[Len(net.layers)].out_rows
ResultCols(net) == net.layers[Len(net.layers)].cols

(* read_result(): where row r, column c of the result is in host memory.     *)
ResultAddr(net, r, c) ==
  (ResultHostRow(net) + (c \div Dim) * ResultRows(net) + r) * Dim + (c % Dim)

-----------------------------------------------------------------------------
(* compile_conv(): [height, width, kernel, channels, layer].                 *)

OutWidth(conv)  == conv.width - conv.kernel + 1
OutHeight(conv) == conv.height - conv.kernel + 1

ConvOK(conv) ==
  conv.kernel >= 1 /\ conv.kernel <= conv.height /\ conv.kernel <= conv.width

(* im2col(): row y * out_width + x is the window of output pixel (y, x),     *)
(* channel fastest.                                                          *)
Im2Col(conv, row, col) ==
  LET y   == row \div OutWidth(conv)
      x   == row % OutWidth(conv)
      tap == col \div conv.channels
      dy  == tap \div conv.kernel
      dx  == tap % conv.kernel
  IN  <<"pixel", (y + dy) * conv.width + x + dx, col % conv.channels>>

ConvNet(conv) ==
  LET rows == OutHeight(conv) * OutWidth(conv)
      cols == conv.kernel * conv.kernel * conv.channels
  IN  [rows |-> rows, cols |-> cols,
       cell |-> [at \in (0 .. rows - 1) \X (0 .. cols - 1) |->
                   Im2Col(conv, at[1], at[2])],
       layers |-> <<IF HasPool(conv.layer)
                    THEN [conv.layer EXCEPT !.pool_width = OutWidth(conv)]
                    ELSE conv.layer>>]
=============================================================================
