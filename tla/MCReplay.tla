------------------------------ MODULE MCReplay ------------------------------
(* A few short programs to load, step, go back and jump in: one that uses    *)
(* every unit, one that runs past its end, one that deadlocks.               *)
EXTENDS Replay

ReadHost(h, u, n)  == [Blank("ReadHostMemory") EXCEPT !.host_row = h,
                         !.ub_row = u, !.rows = n]
WriteHost(u, h, n) == [Blank("WriteHostMemory") EXCEPT !.host_row = h,
                         !.ub_row = u, !.rows = n]
ReadTile(t)        == [Blank("ReadWeights") EXCEPT !.tile = t]
Multiply(u, a, n)  == [Blank("MatrixMultiply") EXCEPT !.ub_row = u,
                         !.acc_row = a, !.rows = n, !.new_weights = TRUE]
MaxPool2(a, u, n)  == [Blank("Activate") EXCEPT !.acc_row = a, !.ub_row = u,
                         !.rows = n, !.pool = "Max", !.pool_size = 2,
                         !.pool_width = 2]
Halt == Blank("Halt")

EveryUnit == <<ReadTile(0), ReadHost(0, 0, 4), Multiply(0, 0, 4), ReadTile(0),
               MaxPool2(0, 0, 4), WriteHost(0, 1, 1), Halt>>
NoHalt    == <<ReadTile(0), ReadHost(0, 0, 2)>>
NoWeights2 == <<ReadHost(0, 0, 2), ReadTile(0), Multiply(0, 0, 1),
                Multiply(1, 1, 1), Halt>>
TooFar    == <<ReadHost(1, 0, 1), Halt>>

Sound      == {EveryUnit, NoHalt, NoWeights2}
AndMisfits == {NoHalt, TooFar}
JustTooFar == {TooFar}
=============================================================================
