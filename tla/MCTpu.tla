-------------------------------- MODULE MCTpu -------------------------------
(* Small programs for the machine: sets of instructions that meet on the     *)
(* same few rows through different units, in every order, behind a prologue  *)
(* that gives them something to meet on.                                     *)
EXTENDS TpuRefinement

ReadHost(h, u, n)  == [Blank("ReadHostMemory") EXCEPT !.host_row = h,
                         !.ub_row = u, !.rows = n]
WriteHost(u, h, n) == [Blank("WriteHostMemory") EXCEPT !.host_row = h,
                         !.ub_row = u, !.rows = n]
ReadTile(t)        == [Blank("ReadWeights") EXCEPT !.tile = t]
Multiply(u, a, n)  == [Blank("MatrixMultiply") EXCEPT !.ub_row = u,
                         !.acc_row = a, !.rows = n]
Fresh(i)           == [i EXCEPT !.new_weights = TRUE]
Adding(i)          == [i EXCEPT !.accumulate = TRUE]
Activate(a, u, n)  == [Blank("Activate") EXCEPT !.acc_row = a, !.ub_row = u,
                         !.rows = n, !.function = "relu"]
Pooled(i, kind, size, width) ==
  [i EXCEPT !.pool = kind, !.pool_size = size, !.pool_width = width]
Sync == Blank("Sync")
Halt == Blank("Halt")

-----------------------------------------------------------------------------
(* Every unit against every other, Dim = 2, 3 UB rows, 4 accumulator rows.   *)
Alphabet ==
  { Sync,
    ReadHost(2, 0, 2),  ReadHost(0, 2, 1),
    WriteHost(0, 1, 2), WriteHost(2, 3, 1),
    ReadTile(0), ReadTile(1),
    Fresh(Multiply(0, 0, 2)), Adding(Multiply(1, 1, 2)),
    Fresh(Multiply(0, 0, 0)),
    Activate(0, 1, 2), Activate(2, 0, 1),
    Pooled(Activate(0, 0, 4), "Max", 2, 2) }

ColdStart == <<ReadHost(0, 0, 2), ReadTile(0)>>
WarmStart == <<ReadTile(0), ReadTile(1), ReadHost(0, 0, 2),
               Fresh(Multiply(0, 0, 2))>>

OverlapPrograms ==
  { start \o <<a, b, c, Halt>> :
      start \in {ColdStart, WarmStart}, a, b, c \in Alphabet }

-----------------------------------------------------------------------------
(* Programs that stop with an error, and the ones around them that do not.   *)
FaultyAlphabet ==
  { Blank("Nop"), Blank("Unknown"), Halt, Sync,
    ReadHost(3, 0, 2), ReadHost(0, 0, 1), WriteHost(2, 0, 2),
    ReadTile(0), ReadTile(2),
    Fresh(Multiply(0, 0, 1)), Multiply(2, 0, 2), Multiply(0, 3, 2),
    Activate(3, 0, 2), Activate(0, 2, 2),
    Pooled(Activate(0, 0, 2), "Max", 2, 2),
    Pooled(Activate(0, 0, 2), "Average", 1, 1) }

FaultyPrograms ==
  { <<a, b, c>> : a, b, c \in FaultyAlphabet }
    \cup { <<ReadTile(0), ReadTile(0), ReadTile(0), a, b>> :
             a, b \in FaultyAlphabet }

PipelinePrograms == OverlapPrograms \cup FaultyPrograms

-----------------------------------------------------------------------------
(* Back-to-back multiplies in a wider array, with transfers whose pieces end *)
(* in the middle of a row and tiles that arrive in uneven pieces.            *)
WideAlphabet ==
  { ReadHost(0, 2, 2), WriteHost(0, 0, 2), ReadTile(1),
    Multiply(0, 0, 1), Fresh(Multiply(0, 0, 3)), Adding(Multiply(1, 0, 2)),
    Activate(0, 0, 2), Activate(1, 3, 1) }

WidePrograms ==
  { <<ReadTile(0), ReadHost(0, 0, 3), Fresh(Multiply(0, 0, 2)), ReadTile(1),
      a, b, c, Halt>> : a, b, c \in WideAlphabet }

-----------------------------------------------------------------------------
(* Feature maps of several bands and windows.                                *)
PoolShapes ==
  { s \in (1 .. 3) \X (1 .. 6) \X (0 .. 12) : PoolShapeOK(s[3], s[1], s[2]) }

PoolPrograms ==
  { <<ReadTile(0), ReadHost(0, 0, 12), Fresh(Multiply(0, 0, 12)),
      Pooled(Activate(0, u, s[3]), kind, s[1], s[2]), next, Halt>> :
      s \in PoolShapes, kind \in {"Max", "Average"}, u \in {0, 2},
      next \in {Multiply(0, 2, 3), WriteHost(1, 0, 4), Activate(0, 1, 2)} }

ArrayPrograms == WidePrograms \cup PoolPrograms
=============================================================================
