--------------------------- MODULE SystolicArray ----------------------------
(* The Matrix Multiply Unit (src/src/mxu/systolic_array.cpp): the weight     *)
(* shifter, which fills the shadow plane from the oldest FIFO slot, and the  *)
(* grid of processing elements, which multiplies with the active plane.      *)
EXTENDS WeightFifo

VARIABLES planes,   \* the two weight planes
          shifter,  \* which plane is active, which tile is in which plane
          mxu,      \* the MatrixMultiply in the array
          grid      \* the registers of every PE

PEs == Cols \X Cols   \* PE <<k, n>>: input feature k, output column n

EmptyPe == [row |-> -1, act |-> Zero, psum |-> << >>]

ShifterReset == [active_plane |-> 0, active_tile |-> -1, shadow_tile |-> -1,
                 rows_shifted |-> 0, shadow_full |-> FALSE]
MxuReset     == [busy |-> FALSE, ub_row |-> 0, acc_row |-> 0, rows |-> 0,
                 accumulate |-> FALSE, step |-> 0]
NoWeights    == [pe \in PEs |-> Zero]
EmptyGrid    == [pe \in PEs |-> EmptyPe]

(* Mutant: tiles are shifted into the plane the array computes with.         *)
ShadowPlaneIsActive == shifter.active_plane

ShadowPlane  == 1 - shifter.active_plane
ActivePlane  == planes[shifter.active_plane]
Shifting     == shifter.rows_shifted > 0 /\ ~shifter.shadow_full
(* Mutant: the array stops when the last sum leaves it, one step early.      *)
TotalStepsToLastSum == mxu.rows + 2 * Dim - 2

TotalSteps   == mxu.rows + 2 * Dim - 1

MxuReadsUbRows(first, count) ==
  mxu.busy /\ Overlap(first, count, mxu.ub_row, mxu.rows)

MxuWritesAccRows(first, count) ==
  mxu.busy /\ Overlap(first, count, mxu.acc_row, mxu.rows)

(* start() throws, and changes nothing, unless this holds.                   *)
MxuAccepts(ub_row, acc_row, rows, new_weights) ==
  /\ ~mxu.busy
  /\ new_weights => shifter.shadow_full
  /\ Fits(ub_row, rows, UbRows)
  /\ Fits(acc_row, rows, AccRows)

(* The full shadow plane becomes active; the old active plane is the next    *)
(* shadow, empty.                                                            *)
SwitchPlanes ==
  shifter' = [active_plane |-> ShadowPlane,
              active_tile  |-> shifter.shadow_tile,
              shadow_tile  |-> -1,
              rows_shifted |-> 0,
              shadow_full  |-> FALSE]

MxuStart(ub_row, acc_row, rows, accumulate, new_weights) ==
  /\ MxuAccepts(ub_row, acc_row, rows, new_weights)
  /\ \/ new_weights /\ SwitchPlanes
     \/ ~new_weights /\ UNCHANGED shifter
  /\ mxu' = [busy |-> rows > 0, ub_row |-> ub_row, acc_row |-> acc_row,
             rows |-> rows, accumulate |-> accumulate, step |-> 0]
  /\ UNCHANGED <<planes, grid, fifo, acc>>

(* One row of the oldest ready tile moves into the shadow plane; the tile    *)
(* leaves the FIFO with its last row.                                        *)
ShiftRow ==
  /\ ~shifter.shadow_full
  /\ FrontReady
  /\ LET k     == shifter.rows_shifted
         front == Head(fifo)
     IN  /\ planes' = [planes EXCEPT ![ShadowPlane] =
                         [pe \in PEs |-> IF pe[1] = k
                                         THEN SlotByte(front, k * Dim + pe[2])
                                         ELSE @[pe]]]
         /\ shifter' = [shifter EXCEPT
                          !.shadow_tile = IF k = 0 THEN front.tile ELSE @,
                          !.rows_shifted = k + 1,
                          !.shadow_full = (k + 1 = Dim)]
         /\ fifo' = IF k + 1 = Dim THEN Tail(fifo) ELSE fifo

(* Mutant: no shifting while the array computes.                             *)
ShiftWeightsWhenArrayFree ==
  \/ ~mxu.busy /\ ShiftRow
  \/ /\ mxu.busy \/ shifter.shadow_full \/ ~FrontReady
     /\ UNCHANGED <<planes, shifter, fifo>>

ShiftWeights ==
  \/ ShiftRow
  \/ /\ shifter.shadow_full \/ ~FrontReady
     /\ UNCHANGED <<planes, shifter, fifo>>

(* What enters PE <<k, n>>: input row step - k at the left edge, else what   *)
(* the left neighbour held.                                                  *)
Incoming(k, n) ==
  LET r == mxu.step - k
  IN  CASE n > 0 -> [row |-> grid[<<k, n - 1>>].row,
                     act |-> grid[<<k, n - 1>>].act]
        [] n = 0 /\ r \in 0 .. mxu.rows - 1 ->
             [row |-> r, act |-> ub[UbAt(mxu.ub_row + r, k)]]
        [] OTHER -> [row |-> -1, act |-> Zero]

NextPe(k, n) ==
  LET in    == Incoming(k, n)
      above == IF k > 0 THEN grid[<<k - 1, n>>].psum ELSE << >>
  IN  IF in.row < 0
      THEN EmptyPe
      ELSE [row |-> in.row, act |-> in.act,
            psum |-> Append(above, <<in.act, ActivePlane[<<k, n>>]>>)]

(* The sum leaving the bottom of column n goes to its row's accumulator.     *)
Drained(next) ==
  [c \in DOMAIN acc |->
     LET bottom == next[<<Dim - 1, c[2]>>]
     IN  IF bottom.row >= 0 /\ c[1] = mxu.acc_row + bottom.row
         THEN (IF mxu.accumulate THEN acc[c] ELSE << >>) \o bottom.psum
         ELSE acc[c]]

StepArray ==
  /\ mxu.busy
  /\ grid' = [pe \in PEs |-> NextPe(pe[1], pe[2])]
  /\ acc' = Drained(grid')
  /\ mxu' = [mxu EXCEPT !.step = @ + 1,
                        !.busy = (mxu.step + 1 # TotalSteps)]

ArrayTick ==
  \/ StepArray
  \/ ~mxu.busy /\ UNCHANGED <<grid, acc, mxu>>

MxuTypeOK ==
  /\ shifter \in [active_plane : 0 .. 1, active_tile : Int,
                  shadow_tile : Int, rows_shifted : 0 .. Dim,
                  shadow_full : BOOLEAN]
  /\ mxu \in [busy : BOOLEAN, ub_row : Nat, acc_row : Nat, rows : Nat,
              accumulate : BOOLEAN, step : Nat]
  /\ IsMemory(planes, 0 .. 1)
  /\ \A p \in 0 .. 1 : IsMemory(planes[p], PEs)
  /\ IsMemory(grid, PEs)
=============================================================================
