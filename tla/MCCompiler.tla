----------------------------- MODULE MCCompiler ------------------------------
(* Networks for a machine two columns wide: matrices that fill their blocks  *)
(* and that do not, layers as tall as one accumulator buffer and taller, one *)
(* to three layers, pooling, convolutions, and shapes that do not compile.   *)
EXTENDS CompiledTpu

Dense(rows, cols) ==
  [rows |-> rows, cols |-> cols, function |-> "relu", pool |-> "None",
   pool_size |-> 0, pool_width |-> 0]
Pooling(layer, size, width) ==
  [layer EXCEPT !.pool = "Max", !.pool_size = size, !.pool_width = width]

Net(rows, cols, layers) ==
  [rows |-> rows, cols |-> cols, layers |-> layers,
   cell |-> [at \in (0 .. rows - 1) \X (0 .. cols - 1) |->
               <<"x", at[1], at[2]>>]]

OneLayer   == { Net(r, i, <<Dense(i, o)>>) : r \in 0 .. 5, i, o \in 1 .. 4 }
TwoLayers  == { Net(r, i, <<Dense(i, m), Dense(m, o)>>) :
                  r \in {1, 2, 4}, i, m, o \in {2, 3} }
ThreeLayers == { Net(2, 3, <<Dense(3, m), Dense(m, 3), Dense(3, 1)>>) :
                  m \in {1, 3} }
PoolFirst  == { Net(r, 3, <<Pooling(Dense(3, 3), 2, w), Dense(3, 2)>>) :
                  r \in 2 .. 4, w \in {0, 1, 2, 4} }
Mismatched == { Net(2, 3, <<Dense(2, 2)>>), Net(2, 3, << >>) }

SmallNetworks ==
  OneLayer \cup TwoLayers \cup ThreeLayers \cup PoolFirst \cup Mismatched

Conv(height, width, kernel, channels, layer) ==
  [height |-> height, width |-> width, kernel |-> kernel,
   channels |-> channels, layer |-> layer]

SmallConvolutions ==
  { Conv(h, w, k, c, Dense(k * k * c, 3)) :
      h, w \in 1 .. 3, k \in 0 .. 2, c \in 1 .. 2 }
  \cup { Conv(3, 3, 2, 1, Pooling(Dense(4, 2), 2, 0)),
         Conv(3, 3, 2, 1, Pooling(Dense(4, 2), 1, 0)) }

CompiledPrograms == { Code(s.net) : s \in Compiled }

-----------------------------------------------------------------------------
(* A middle layer with no outputs, which leaves the next one no inputs.      *)
EmptyMiddle == { Net(2, 3, <<Dense(3, 2), Dense(2, 0), Dense(0, o)>>) :
                   o \in 1 .. 4 }
=============================================================================
