---------------------------- MODULE TpuRefinement ---------------------------
(* The pipelined machine implements the sequential one. A state of the       *)
(* machine stands for the memories as they will be once every unit has       *)
(* finished what it is doing and nothing more issues: the mapping drains the *)
(* units on paper. An issue is then the instruction's whole effect at once,  *)
(* and every advance of a unit is a stutter, provided no unit in flight ever *)
(* reads or writes what another one in flight writes.                        *)
EXTENDS Tpu

(* Bytes of the running transfer that have not moved yet, from its start.    *)
ToMove == hif.bytes_done .. hif.rows * Dim - 1

(* Unified Buffer row r, column n as the running Activate will leave it.     *)
PendingRow(o, n) ==
  LET value(i) == Activated(act.function, acc[<<act.acc_row + i, n>>])
      perBand  == act.pool_width \div act.pool_size
      pixel(j) == ((o \div perBand) * act.pool_size
                     + (j - 1) \div act.pool_size) * act.pool_width
                  + (o % perBand) * act.pool_size + ((j - 1) % act.pool_size)
  IN  IF act.pool = "None" THEN value(o)
      ELSE <<act.pool,
             [j \in 1 .. act.pool_size * act.pool_size |-> value(pixel(j))]>>

(* Output rows the running Activate has yet to write: a pooled band is       *)
(* written when its last pixel is read.                                      *)
RowsWritten ==
  IF act.pool = "None" THEN act.rows_done
  ELSE (act.rows_done \div (act.pool_width * act.pool_size))
       * (act.pool_width \div act.pool_size)

ToActivate == IF ActBusy THEN RowsWritten .. ActOutRows - 1 ELSE {}

DrainedUb ==
  [a \in UbAddrs |->
     LET offset == a - UbAt(hif.ub_row, 0)
         o      == a \div Dim - act.ub_row
     IN  IF hif.direction = "HostToUb" /\ offset \in ToMove
         THEN hostMem[hif.host_row * Dim + offset]
         ELSE IF o \in ToActivate THEN PendingRow(o, a % Dim)
         ELSE ub[a]]

DrainedHostMem ==
  [a \in HostAddrs |->
     LET offset == a - hif.host_row * Dim
     IN  IF hif.direction = "UbToHost" /\ offset \in ToMove
         THEN ub[UbAt(hif.ub_row, 0) + offset]
         ELSE hostMem[a]]

(* The sum of input row r, column n leaves the array in step r + Dim - 1 + n.*)
DrainedAcc ==
  [c \in AccCells |->
     LET r == c[1] - mxu.acc_row
     IN  IF /\ mxu.busy
            /\ r \in 0 .. mxu.rows - 1
            /\ mxu.step <= r + Dim - 1 + c[2]
         THEN (IF mxu.accumulate THEN acc[c] ELSE << >>)
              \o [j \in 1 .. Dim |-> <<ub[UbAt(mxu.ub_row + r, j - 1)],
                                       ActivePlane[<<j - 1, c[2]>>]>>]
         ELSE acc[c]]

(* Tiles on their way: the one waiting in the shadow plane, then the FIFO's  *)
(* (a tile being shifted has not left its slot).                             *)
TilesWaiting ==
  (IF shifter.shadow_full THEN <<shifter.shadow_tile>> ELSE << >>)
    \o [i \in DOMAIN fifo |-> fifo[i].tile]

Sequential ==
  INSTANCE SequentialTpu WITH ub <- DrainedUb, acc <- DrainedAcc,
                              hostMem <- DrainedHostMem,
                              weights <- ActivePlane, queue <- TilesWaiting

(* Whatever the units overlap, the program has the effect it would have if   *)
(* each instruction finished before the next one started.                    *)
RunsInProgramOrder == Sequential!SeqSpec

(* tick() throws only for an instruction the sequential machine cannot carry *)
(* out either: no deadlock and no refusal is an artefact of the overlap, of  *)
(* the FIFO's slots or of when the shifter took a tile (tpu.cpp:62-74).      *)
ErrorsAreTheProgrammers == error # "none" => ~Sequential!CanContinue
=============================================================================
