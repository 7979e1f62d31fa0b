------------------------------- MODULE Cycle --------------------------------
(* One clock cycle of the machine, Tpu::tick(), as a function: what each     *)
(* phase makes of the machine, computed from the machine and nothing else.   *)
(* Tpu says what each phase may do; that it does this, and so that a replay  *)
(* is exact, is proved in TpuProofs.                                         *)
EXTENDS Tpu

(* The issue: what the instruction at the PC starts, if it can go.           *)
Goes == WhyBlocked(in) = "None"

Starts(ops) == Goes /\ in.op \in ops

Transfers == {"ReadHostMemory", "WriteHostMemory"}

IssuedHif ==
  IF Starts(Transfers)
  THEN [direction  |-> IF in.op = "ReadHostMemory" THEN "HostToUb"
                                                   ELSE "UbToHost",
        host_row |-> in.host_row, ub_row |-> in.ub_row, rows |-> in.rows,
        bytes_done |-> 0]
  ELSE hif

IssuedFifo ==
  IF Starts({"ReadWeights"})
  THEN Append(fifo, [tile |-> in.tile, bytes_arrived |-> 0])
  ELSE fifo

IssuedShifter ==
  IF Starts({"MatrixMultiply"}) /\ in.new_weights
  THEN [active_plane |-> ShadowPlane,
        active_tile  |-> shifter.shadow_tile,
        shadow_tile  |-> -1,
        rows_shifted |-> 0,
        shadow_full  |-> FALSE]
  ELSE shifter

IssuedMxu ==
  IF Starts({"MatrixMultiply"})
  THEN [busy |-> in.rows > 0, ub_row |-> in.ub_row, acc_row |-> in.acc_row,
        rows |-> in.rows, accumulate |-> in.accumulate, step |-> 0]
  ELSE mxu

IssuedAct ==
  IF Starts({"Activate"})
  THEN [acc_row |-> in.acc_row, ub_row |-> in.ub_row, rows_total |-> in.rows,
        rows_done |-> 0, function |-> in.function, pool |-> in.pool,
        pool_size |-> in.pool_size, pool_width |-> in.pool_width]
  ELSE act

IssuedLine ==
  IF ~Starts({"Activate"}) THEN line
  ELSE IF in.pool = "None" THEN NoLine
  ELSE [sn \in (0 .. in.pool_width \div in.pool_size - 1) \X Cols |-> << >>]

IssuedUnitPc ==
  CASE Starts(Transfers)          -> [unit_pc EXCEPT !.host = pc]
    [] Starts({"MatrixMultiply"}) -> [unit_pc EXCEPT !.mxu = pc]
    [] Starts({"Activate"})       -> [unit_pc EXCEPT !.act = pc]
    [] OTHER                      -> unit_pc

IssuedUnits ==
  <<IssuedHif, IssuedFifo, planes, IssuedShifter, IssuedMxu, grid, IssuedAct,
    IssuedLine>>

IssuedRecord ==
  [stall      |-> WhyBlocked(in),
   issued     |-> IF Goes THEN pc ELSE -1,
   host       |-> IF IssuedHif.bytes_done < IssuedHif.rows * Dim
                  THEN IssuedUnitPc.host ELSE -1,
   fetching   |-> FillingTile(IssuedFifo),
   shifting   |-> -1,
   mxu        |-> IF IssuedMxu.busy THEN IssuedUnitPc.mxu ELSE -1,
   activation |-> IF IssuedAct.rows_done < IssuedAct.rows_total
                  THEN IssuedUnitPc.act ELSE -1]

IssuedLog ==
  LET grown == Append(activity, IssuedRecord)
  IN  IF Len(grown) > TimelineCycles THEN Tail(grown) ELSE grown

IssuedControl ==
  <<program,
    IF Goes /\ in.op # "Halt" THEN pc + 1 ELSE pc,
    IF Starts({"Halt"}) THEN TRUE ELSE halted,
    WhyBlocked(in),
    IF Goes THEN [stats EXCEPT !.issued = @ + 1] ELSE stats,
    IssuedLog,
    IssuedUnitPc>>

AfterIssue == <<memories, IssuedUnits, IssuedControl>>

(* tick()'s locals.                                                          *)
Before == [rows_shifted |-> shifter.rows_shifted,
           shadow_tile  |-> shifter.shadow_tile,
           working      |-> mxu.busy]

(* The host interface.                                                       *)
MovedUb ==
  IF HostBusy /\ hif.direction = "HostToUb"
  THEN Copied(ub, UbAt(hif.ub_row, 0), hostMem, hif.host_row * Dim, HostPiece)
  ELSE ub

MovedHostMem ==
  IF HostBusy /\ hif.direction = "UbToHost"
  THEN Copied(hostMem, hif.host_row * Dim, ub, UbAt(hif.ub_row, 0), HostPiece)
  ELSE hostMem

MovedHif ==
  IF HostBusy
  THEN [hif EXCEPT !.bytes_done =
          @ + Least(hif.rows * Dim - @, HostBytesPerCycle)]
  ELSE hif

AfterHost ==
  <<<<MovedUb, acc, MovedHostMem>>,
    <<MovedHif, fifo, planes, shifter, mxu, grid, act, line>>,
    control>>

(* The Weight FIFO: the tile being filled is the one of Tpu's FillingTile.   *)
FilledFifo ==
  IF FifoFetching
  THEN [fifo EXCEPT ![CHOOSE i \in DOMAIN fifo : IsFilling(fifo, i)]
                     .bytes_arrived =
          @ + Least(TileBytes - @, WeightBytesPerCycle)]
  ELSE fifo

AfterFifo ==
  <<memories,
    <<hif, FilledFifo, planes, shifter, mxu, grid, act, line>>,
    control>>

(* The weight shifter.                                                       *)
ShiftsRow == ~shifter.shadow_full /\ FrontReady

ShiftedPlanes ==
  IF ShiftsRow
  THEN [planes EXCEPT ![ShadowPlane] =
          [pe \in PEs |-> IF pe[1] = shifter.rows_shifted
                          THEN SlotByte(Head(fifo),
                                        shifter.rows_shifted * Dim + pe[2])
                          ELSE @[pe]]]
  ELSE planes

ShiftedShifter ==
  IF ShiftsRow
  THEN [shifter EXCEPT
          !.shadow_tile = IF shifter.rows_shifted = 0 THEN Head(fifo).tile
                          ELSE @,
          !.rows_shifted = shifter.rows_shifted + 1,
          !.shadow_full = (shifter.rows_shifted + 1 = Dim)]
  ELSE shifter

ShiftedFifo ==
  IF ShiftsRow /\ shifter.rows_shifted + 1 = Dim THEN Tail(fifo) ELSE fifo

AfterShift ==
  <<memories,
    <<hif, ShiftedFifo, ShiftedPlanes, ShiftedShifter, mxu, grid, act, line>>,
    control>>

(* The array.                                                                *)
SteppedGrid == [pe \in PEs |-> NextPe(pe[1], pe[2])]

AfterArray ==
  IF ~mxu.busy THEN machine
  ELSE <<<<ub, Drained(SteppedGrid), hostMem>>,
         <<hif, fifo, planes, shifter,
           [mxu EXCEPT !.step = @ + 1, !.busy = (mxu.step + 1 # TotalSteps)],
           SteppedGrid, act, line>>,
         control>>

(* The activation unit, and the count of the cycle.                          *)
PixelRow    == act.rows_done \div act.pool_width
PixelColumn == act.rows_done % act.pool_width

PooledLine ==
  [sn \in DOMAIN line |->
     IF sn[1] # PixelColumn \div act.pool_size THEN line[sn]
     ELSE Append(IF FirstInWindow(PixelRow, PixelColumn, act.pool_size)
                 THEN << >> ELSE line[sn],
                 Value(sn[2]))]

PooledUb ==
  LET perBand == act.pool_width \div act.pool_size
  IN  [a \in DOMAIN ub |->
         LET slot == a \div Dim
                     - (act.ub_row + (PixelRow \div act.pool_size) * perBand)
         IN  IF /\ PixelRow % act.pool_size = act.pool_size - 1
                /\ PixelColumn = act.pool_width - 1
                /\ slot \in 0 .. perBand - 1
             THEN <<act.pool, PooledLine[<<slot, a % Dim>>]>>
             ELSE ub[a]]

PlainUb ==
  [a \in DOMAIN ub |->
     IF a \div Dim = act.ub_row + act.rows_done THEN Value(a % Dim)
                                                ELSE ub[a]]

ActedUb ==
  IF ~ActBusy THEN ub ELSE IF act.pool = "None" THEN PlainUb ELSE PooledUb

ActedLine == IF ActBusy /\ act.pool # "None" THEN PooledLine ELSE line

ActedAct == IF ActBusy THEN [act EXCEPT !.rows_done = @ + 1] ELSE act

CountedLog ==
  IF Shifted
  THEN [activity EXCEPT ![Len(activity)].shifting = shifter.shadow_tile]
  ELSE activity

AfterAct ==
  <<<<ActedUb, acc, hostMem>>,
    <<hif, fifo, planes, shifter, mxu, grid, ActedAct, ActedLine>>,
    <<program, pc, halted, stall, Counted, CountedLog, unit_pc>>>>
=============================================================================
