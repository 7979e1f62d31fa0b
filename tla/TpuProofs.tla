------------------------------ MODULE TpuProofs ------------------------------
(* The machine, for every size of array and memory, every bandwidth and       *)
(* every set of programs: its invariants; a cycle as a function of the        *)
(* machine, and with it that a replay is exact and a load leaves nothing;     *)
(* then that the pipelined machine implements the sequential one, and throws  *)
(* only where that one cannot go on.                                          *)
EXTENDS Replay, Cycle, TpuRefinement, NaturalLemmas, SequenceTheorems, TLAPS

-----------------------------------------------------------------------------
(* What each operation of a unit preserves, whatever the rest of the machine *)
(* is doing                                                                  *)

(* Bytes and rows are counted with natural numbers: the products the other   *)
(* lemmas need.                                                              *)
LEMMA ProductNat == \A a, b \in Nat : a * b \in Nat
BY Z3

LEMMA LeastType ==
  ASSUME NEW a \in Nat, NEW b \in Nat
  PROVE  Least(a, b) \in Nat /\ Least(a, b) <= a /\ Least(a, b) <= b
BY DEF Least

LEMMA TileBytesNat == TileBytes \in Nat \ {0}
<1>1. \A a, b \in Nat \ {0} : a * b \in Nat \ {0}
  BY Z3
<1> QED BY <1>1, MemoryAssumption DEF TileBytes

-----------------------------------------------------------------------------
(* The host interface                                                        *)

LEMMA HostStartType ==
  ASSUME NEW d \in Directions, NEW h \in Nat, NEW u \in Nat, NEW n \in Nat,
         HostStart(d, h, u, n)
  PROVE  HostTypeOK'
<1>1. n * Dim \in Nat
  BY ProductNat, MemoryAssumption
<1> QED BY <1>1 DEF HostStart, HostAccepts, HostTypeOK, Fits

(* A piece never takes the transfer past its end.                            *)
LEMMA HostTickType ==
  ASSUME HostTypeOK, HostTick
  PROVE  HostTypeOK'
<1>1. hif.rows * Dim \in Nat
  BY ProductNat, MemoryAssumption DEF HostTypeOK
<1>2. CASE HostMoves
  <2> DEFINE left == hif.rows * Dim - hif.bytes_done
  <2>1. left \in Nat
    BY <1>1 DEF HostTypeOK
  <2>2. /\ Least(left, HostBytesPerCycle) \in Nat
        /\ Least(left, HostBytesPerCycle) <= left
    BY <2>1, LeastType, HostAssumption
  <2>3. hif' = [hif EXCEPT !.bytes_done = @ + Least(left, HostBytesPerCycle)]
    BY <1>2 DEF HostMoves
  <2>4. hif.bytes_done + Least(left, HostBytesPerCycle) <= hif.rows * Dim
    BY <1>1, <2>1, <2>2 DEF HostTypeOK
  <2> HIDE DEF left
  <2> QED BY <2>2, <2>3, <2>4 DEF HostTypeOK
<1>3. CASE ~HostBusy /\ UNCHANGED <<hif, ub, hostMem>>
  BY <1>3 DEF HostTypeOK
<1> QED BY <1>2, <1>3 DEF HostTick

LEMMA HostTickMemory ==
  ASSUME IsMemory(ub, UbAddrs), IsMemory(hostMem, HostAddrs), HostTick
  PROVE  IsMemory(ub, UbAddrs)' /\ IsMemory(hostMem, HostAddrs)'
BY DEF HostTick, HostMoves, Copied, IsMemory, UbAddrs, HostAddrs

-----------------------------------------------------------------------------
(* The Weight FIFO                                                           *)

LEMMA FifoPushType ==
  ASSUME FifoTypeOK, NEW t \in Nat, FifoPush(t)
  PROVE  FifoTypeOK'
<1> DEFINE e == [tile |-> t, bytes_arrived |-> 0]
<1>1. e \in FifoTile
  BY DEF FifoTile
<1>2. fifo \in Seq(FifoTile) /\ fifo' = Append(fifo, e) /\ Len(fifo) < Slots
  BY FifoAssumption DEF FifoTypeOK, FifoPush, FifoAccepts, FifoFull
<1>3. /\ fifo' \in Seq(FifoTile)
      /\ Len(fifo') = Len(fifo) + 1
      /\ \A i \in 1 .. Len(fifo) : fifo'[i] = fifo[i]
      /\ fifo'[Len(fifo) + 1] = e
  BY <1>1, <1>2, AppendProperties
<1>4. \A i \in DOMAIN fifo' : fifo'[i].bytes_arrived <= TileBytes
  BY <1>2, <1>3, TileBytesNat DEF FifoTypeOK
<1> QED BY <1>2, <1>3, <1>4, FifoAssumption DEF FifoTypeOK

LEMMA FifoTickType ==
  ASSUME FifoTypeOK, FifoTick
  PROVE  FifoTypeOK'
<1>1. CASE FifoMoves
  <2>1. PICK i \in DOMAIN fifo :
          fifo' = [fifo EXCEPT ![i].bytes_arrived =
                     @ + Least(TileBytes - @, WeightBytesPerCycle)]
    BY <1>1 DEF FifoMoves
  <2> DEFINE n == fifo[i].bytes_arrived
             piece == Least(TileBytes - n, WeightBytesPerCycle)
             m == n + piece
             e == [fifo[i] EXCEPT !.bytes_arrived = m]
  <2>2. i \in 1 .. Len(fifo) /\ fifo[i] \in FifoTile /\ n <= TileBytes
    BY ElementOfSeq DEF FifoTypeOK
  <2>3. n \in Nat /\ TileBytes - n \in Nat
    BY <2>2, TileBytesNat DEF FifoTile
  <2>31. piece \in Nat /\ piece <= TileBytes - n
    BY <2>3, LeastType, FifoAssumption
  <2> HIDE DEF n, piece
  <2>4. m \in Nat /\ m <= TileBytes
    BY <2>3, <2>31, TileBytesNat
  <2> USE DEF n
  <2>5. e \in FifoTile /\ e.bytes_arrived <= TileBytes
    BY <2>2, <2>4 DEF FifoTile
  <2>6. fifo' = [fifo EXCEPT ![i] = e]
    BY <2>1 DEF piece
  <2> HIDE DEF e
  <2>7. /\ fifo' \in Seq(FifoTile)
        /\ Len(fifo') = Len(fifo)
        /\ \A j \in 1 .. Len(fifo) : fifo'[j] = IF j = i THEN e ELSE fifo[j]
    BY <2>2, <2>5, <2>6, ExceptSeq DEF FifoTypeOK
  <2> QED BY <2>5, <2>7 DEF FifoTypeOK
<1>2. CASE ~FifoFetching /\ UNCHANGED fifo
  BY <1>2 DEF FifoTypeOK
<1> QED BY <1>1, <1>2 DEF FifoTick

-----------------------------------------------------------------------------
(* The weight shifter and the array                                          *)

(* Nothing shifts once the shadow plane is full, so a row moved is a row     *)
(* within the plane: the part of the invariant that says so.                 *)
ShifterOK == ~shifter.shadow_full => shifter.rows_shifted < Dim

LEMMA MxuStartType ==
  ASSUME MxuTypeOK, ShifterOK,
         NEW u \in Nat, NEW a \in Nat, NEW n \in Nat,
         NEW add \in BOOLEAN, NEW new \in BOOLEAN,
         MxuStart(u, a, n, add, new)
  PROVE  MxuTypeOK' /\ ShifterOK'
<1>1. /\ mxu' \in [busy : BOOLEAN, ub_row : Nat, acc_row : Nat, rows : Nat,
                   accumulate : BOOLEAN, step : Nat]
      /\ planes' = planes /\ grid' = grid
  BY DEF MxuStart
<1>2. /\ shifter' \in [active_plane : 0 .. 1, active_tile : Int,
                       shadow_tile : Int, rows_shifted : 0 .. Dim,
                       shadow_full : BOOLEAN]
      /\ ShifterOK'
  <2>1. CASE SwitchPlanes
    BY <2>1, MemoryAssumption DEF SwitchPlanes, ShadowPlane, MxuTypeOK,
                                  ShifterOK
  <2>2. CASE UNCHANGED shifter
    BY <2>2 DEF MxuTypeOK, ShifterOK
  <2> QED BY <2>1, <2>2 DEF MxuStart
<1> QED BY <1>1, <1>2 DEF MxuTypeOK, IsMemory

LEMMA ShiftWeightsType ==
  ASSUME MxuTypeOK, FifoTypeOK, ShifterOK, ShiftWeights,
         UNCHANGED <<mxu, grid>>
  PROVE  MxuTypeOK'
<1>1. CASE ShiftRow
  <2>1. fifo # << >> /\ ~shifter.shadow_full
    BY <1>1 DEF ShiftRow, FrontReady
  <2>2. Head(fifo) \in FifoTile
    BY <2>1, HeadTailProperties DEF FifoTypeOK
  <2>3. Head(fifo).tile \in Int
    BY <2>2 DEF FifoTile
  <2> DEFINE k == shifter.rows_shifted
  <2>4. k \in Nat /\ k + 1 \in 0 .. Dim
    BY <2>1, MemoryAssumption DEF MxuTypeOK, ShifterOK
  <2>5. shifter' \in [active_plane : 0 .. 1, active_tile : Int,
                      shadow_tile : Int, rows_shifted : 0 .. Dim,
                      shadow_full : BOOLEAN]
    BY <1>1, <2>3, <2>4 DEF ShiftRow, MxuTypeOK
  <2>6. IsMemory(planes, 0 .. 1)' /\ \A p \in 0 .. 1 : IsMemory(planes'[p], PEs)
    <3>1. PICK f : /\ planes' = [planes EXCEPT ![ShadowPlane] = f]
                   /\ f = [pe \in PEs |-> f[pe]]
      <4> DEFINE f == [pe \in PEs |-> IF pe[1] = k
                                      THEN SlotByte(Head(fifo), k * Dim + pe[2])
                                      ELSE planes[ShadowPlane][pe]]
      <4>1. planes' = [planes EXCEPT ![ShadowPlane] = f]
        BY <1>1 DEF ShiftRow
      <4>2. f = [pe \in PEs |-> f[pe]]
        OBVIOUS
      <4> HIDE DEF f
      <4> QED BY <4>1, <4>2
    <3>2. ShadowPlane \in 0 .. 1
      BY DEF ShadowPlane, MxuTypeOK
    <3> QED BY <3>1, <3>2 DEF MxuTypeOK, IsMemory
  <2> QED BY <2>5, <2>6 DEF MxuTypeOK
<1>2. CASE UNCHANGED <<planes, shifter, fifo>>
  BY <1>2 DEF MxuTypeOK, IsMemory
<1> QED BY <1>1, <1>2 DEF ShiftWeights

LEMMA ShiftWeightsFifoType ==
  ASSUME FifoTypeOK, ShiftWeights
  PROVE  FifoTypeOK'
<1>1. CASE ShiftRow /\ fifo' = Tail(fifo)
  <2>1. fifo # << >> /\ fifo \in Seq(FifoTile)
    BY <1>1 DEF ShiftRow, FrontReady, FifoTypeOK
  <2>2. /\ fifo' \in Seq(FifoTile)
        /\ Len(fifo') = Len(fifo) - 1
        /\ \A i \in 1 .. Len(fifo') : fifo'[i] = fifo[i + 1]
    BY <1>1, <2>1, HeadTailProperties
  <2>3. \A i \in DOMAIN fifo' : i + 1 \in DOMAIN fifo
    BY <2>1, <2>2
  <2>4. Len(fifo) \in Nat
    BY <2>1
  <2>5. \A i \in DOMAIN fifo' : fifo'[i].bytes_arrived <= TileBytes
    BY <2>1, <2>2, <2>3 DEF FifoTypeOK
  <2> QED BY <2>2, <2>4, <2>5, FifoAssumption DEF FifoTypeOK
<1>2. CASE UNCHANGED fifo
  BY <1>2 DEF FifoTypeOK
<1> QED BY <1>1, <1>2 DEF ShiftWeights, ShiftRow

LEMMA ShiftWeightsShifter ==
  ASSUME MxuTypeOK, ShifterOK, ShiftWeights
  PROVE  ShifterOK'
<1>1. CASE ShiftRow
  <2> DEFINE k == shifter.rows_shifted
  <2>1. k \in Nat /\ k < Dim
    BY <1>1 DEF ShiftRow, ShifterOK, MxuTypeOK
  <2>2. shifter'.rows_shifted = k + 1 /\ shifter'.shadow_full = (k + 1 = Dim)
    BY <1>1 DEF ShiftRow, MxuTypeOK
  <2>3. CASE k + 1 = Dim
    BY <2>2, <2>3 DEF ShifterOK
  <2>4. CASE k + 1 # Dim
    BY <2>1, <2>2, <2>4, MemoryAssumption DEF ShifterOK
  <2> QED BY <2>3, <2>4
<1>2. CASE UNCHANGED shifter
  BY <1>2 DEF ShifterOK
<1> QED BY <1>1, <1>2 DEF ShiftWeights

LEMMA ArrayTickType ==
  ASSUME MxuTypeOK, IsMemory(acc, AccCells), ArrayTick,
         UNCHANGED <<planes, shifter>>
  PROVE  MxuTypeOK' /\ IsMemory(acc, AccCells)'
<1>1. CASE StepArray
  <2>1. mxu' \in [busy : BOOLEAN, ub_row : Nat, acc_row : Nat, rows : Nat,
                  accumulate : BOOLEAN, step : Nat]
    <3> DEFINE more == mxu.step + 1 # TotalSteps
    <3>1. more \in BOOLEAN
      OBVIOUS
    <3>2. mxu' = [mxu EXCEPT !.step = @ + 1, !.busy = more]
      BY <1>1 DEF StepArray
    <3> HIDE DEF more
    <3>3. mxu \in [busy : BOOLEAN, ub_row : Nat, acc_row : Nat, rows : Nat,
                   accumulate : BOOLEAN, step : Nat]
      BY DEF MxuTypeOK
    <3>4. mxu' = [busy |-> more, ub_row |-> mxu.ub_row,
                  acc_row |-> mxu.acc_row, rows |-> mxu.rows,
                  accumulate |-> mxu.accumulate, step |-> mxu.step + 1]
      BY <3>2, <3>3
    <3>5. mxu.step + 1 \in Nat
      BY <3>3
    <3> QED BY <3>1, <3>3, <3>4, <3>5
  <2>2. IsMemory(grid, PEs)'
    BY <1>1 DEF StepArray, IsMemory, PEs, Cols
  <2>3. IsMemory(acc, AccCells)'
    BY <1>1 DEF StepArray, Drained, IsMemory, AccCells, Cols
  <2> QED BY <2>1, <2>2, <2>3 DEF MxuTypeOK, IsMemory
<1>2. CASE UNCHANGED <<grid, acc, mxu>>
  BY <1>2 DEF MxuTypeOK, IsMemory
<1> QED BY <1>1, <1>2 DEF ArrayTick

-----------------------------------------------------------------------------
(* The activation unit                                                       *)

LEMMA ActStartType ==
  ASSUME NEW a \in Nat, NEW u \in Nat, NEW n \in Nat, NEW f \in Functions,
         NEW p \in Poolings, NEW size \in Nat, NEW width \in Nat,
         ActStart(a, u, n, f, p, size, width)
  PROVE  ActTypeOK'
BY DEF ActStart, ActAccepts, ActTypeOK, Fits

LEMMA ActTickType ==
  ASSUME ActTypeOK, IsMemory(ub, UbAddrs), ActTick
  PROVE  ActTypeOK' /\ IsMemory(ub, UbAddrs)'
<1>1. CASE ActMoves
  <2>1. ActTypeOK'
    BY <1>1 DEF ActMoves, ActBusy, ActTypeOK
  <2>2. CASE ActPlainRow
    BY <2>1, <2>2 DEF ActPlainRow, IsMemory, UbAddrs
  <2>3. CASE ActPoolRow
    BY <2>1, <2>3, SMTT(30) DEF ActPoolRow, IsMemory, UbAddrs
  <2> QED BY <1>1, <2>2, <2>3 DEF ActMoves
<1>2. CASE UNCHANGED <<act, line, ub>>
  BY <1>2 DEF ActTypeOK, IsMemory
<1> QED BY <1>1, <1>2 DEF ActTick

-----------------------------------------------------------------------------
(* The machine                                                               *)

MemoriesOK ==
  /\ IsMemory(ub, UbAddrs) /\ IsMemory(acc, AccCells)
  /\ IsMemory(hostMem, HostAddrs)

UnitsOK == HostTypeOK /\ FifoTypeOK /\ MxuTypeOK /\ ActTypeOK /\ ShifterOK

StatsOK == stats \in [cycles : Nat, issued : Nat, mxu_busy_cycles : Nat,
                      stall_cycles : [Stalls -> Nat]]

LogOK == activity \in Seq(CycleRecord) /\ Len(activity) <= TimelineCycles

IssueOK ==
  /\ program \in Seq(Instr)
  /\ pc \in Nat
  /\ halted \in BOOLEAN
  /\ stall \in Stalls
  /\ unit_pc \in [host : Int, mxu : Int, act : Int]
  /\ phase \in Phases
  /\ before \in [rows_shifted : Nat, shadow_tile : Int, working : BOOLEAN]
  /\ error \in Errors

(* Inductive: ShifterOK and a record in the log for the cycle under way are  *)
(* what TypeOK alone does not carry from one step to the next.               *)
TypeInv ==
  /\ MemoriesOK /\ UnitsOK /\ StatsOK /\ LogOK /\ IssueOK
  /\ phase # "issue" => activity # << >>

-----------------------------------------------------------------------------
(* What the issue half of a cycle relies on                                  *)

LEMMA InType ==
  ASSUME program \in Seq(Instr), pc \in Nat, AtInstr
  PROVE  in \in Instr
<1>1. pc + 1 \in 1 .. Len(program)
  BY LenProperties DEF AtInstr
<1> QED BY <1>1, ElementOfSeq DEF in

LEMMA WhyBlockedType == \A i : WhyBlocked(i) \in Stalls
BY DEF WhyBlocked, BlockedReadHost, BlockedWriteHost, BlockedMatrixMultiply,
       BlockedActivate, Stalls

LEMMA FillingTileType ==
  ASSUME NEW q \in Seq(FifoTile)
  PROVE  FillingTile(q) \in Int
<1>1. CASE \E i \in DOMAIN q : IsFilling(q, i)
  <2> DEFINE i == CHOOSE i \in DOMAIN q : IsFilling(q, i)
  <2>1. i \in 1 .. Len(q)
    BY <1>1, LenProperties
  <2>2. q[i] \in FifoTile
    BY <2>1, ElementOfSeq
  <2> HIDE DEF i
  <2>3. q[i].tile \in Int
    BY <2>2 DEF FifoTile
  <2> QED BY <1>1, <2>3 DEF FillingTile, i
<1>2. CASE ~ \E i \in DOMAIN q : IsFilling(q, i)
  BY <1>2 DEF FillingTile
<1> QED BY <1>1, <1>2

LEMMA RecordCycleType ==
  ASSUME LogOK, NEW why \in Stalls, NEW issued \in Int,
         FifoTypeOK', unit_pc' \in [host : Int, mxu : Int, act : Int],
         RecordCycle(why, issued)
  PROVE  LogOK' /\ activity' # << >>
<1> DEFINE r     == Record(why, issued)
           grown == Append(activity, r)
<1>1. FillingTile(fifo') \in Int
  BY FillingTileType DEF FifoTypeOK
<1>2. r \in CycleRecord
  BY <1>1 DEF Record, CycleRecord
<1> HIDE DEF r
<1>3. /\ grown \in Seq(CycleRecord)
      /\ Len(grown) = Len(activity) + 1
      /\ grown # << >>
  BY <1>2, AppendProperties DEF LogOK
<1>4. activity' = IF Len(grown) > TimelineCycles THEN Tail(grown) ELSE grown
  BY DEF RecordCycle, r
<1>5. Len(activity) \in Nat
  BY LenProperties DEF LogOK
<1> HIDE DEF grown
<1>6. /\ Tail(grown) \in Seq(CycleRecord)
      /\ Len(Tail(grown)) = Len(grown) - 1
  BY <1>3, HeadTailProperties
<1>7. CASE Len(grown) > TimelineCycles
  <2>1. Len(activity') = Len(activity) /\ Len(activity) >= 1
    BY <1>3, <1>4, <1>5, <1>6, <1>7, TimelineAssumption DEF LogOK
  <2> QED BY <1>4, <1>6, <1>7, <2>1, EmptySeq DEF LogOK
<1>8. CASE ~(Len(grown) > TimelineCycles)
  BY <1>3, <1>4, <1>5, <1>8, TimelineAssumption DEF LogOK
<1> QED BY <1>7, <1>8

LEMMA AdvanceType ==
  ASSUME MxuTypeOK', Advance
  PROVE  /\ phase' \in Phases
         /\ before' \in [rows_shifted : Nat, shadow_tile : Int,
                         working : BOOLEAN]
BY MemoryAssumption DEF Advance, MxuTypeOK, Phases

(* What every Issue action shares.                                           *)
LEMMA IssuedType ==
  ASSUME TypeInv, UnitsOK', Issued, halted' \in BOOLEAN,
         unit_pc' \in [host : Int, mxu : Int, act : Int]
  PROVE  StatsOK' /\ LogOK' /\ IssueOK' /\ activity' # << >>
<1>1. stall' = "None" /\ stall' \in Stalls
  BY DEF Issued, Stalls
<1>2. pc' \in Nat
  BY DEF Issued, TypeInv, IssueOK
<1>3. StatsOK'
  BY DEF Issued, TypeInv, StatsOK
<1>4. LogOK' /\ activity' # << >>
  <2>1. RecordCycle("None", pc) /\ "None" \in Stalls /\ pc \in Int
    BY DEF Issued, TypeInv, IssueOK, Stalls
  <2> QED BY <2>1, RecordCycleType DEF TypeInv, UnitsOK
<1>5. IssueOK'
  <2>1. /\ phase' \in Phases
        /\ before' \in [rows_shifted : Nat, shadow_tile : Int,
                        working : BOOLEAN]
    BY AdvanceType DEF Issued, UnitsOK
  <2> QED BY <1>1, <1>2, <2>1 DEF Issued, Advance, TypeInv, IssueOK
<1> QED BY <1>3, <1>4, <1>5

(* What every Advance action of a unit shares.                               *)
LEMMA StepType ==
  ASSUME TypeInv, NEW from, NEW to \in Phases, Step(from, to)
  PROVE  IssueOK'
BY DEF Step, TypeInv, IssueOK
-----------------------------------------------------------------------------
LEMMA InitTypeInv == Init => TypeInv
<1> SUFFICES ASSUME Init PROVE TypeInv
  OBVIOUS
<1> PICK code \in Programs : Loaded(code)
  BY DEF Init
<1>1. MemoriesOK
  BY DEF Loaded, UnitsReset, ControlReset, MemoryInit, MemoriesOK, IsMemory
<1>2. UnitsOK
  <2>1. HostTypeOK
    BY MemoryAssumption DEF Loaded, UnitsReset, HostReset, HostTypeOK,
                            Directions, Fits
  <2>2. FifoTypeOK
    BY FifoAssumption DEF Loaded, UnitsReset, ControlReset, FifoTypeOK
  <2>3. ActTypeOK
    BY MemoryAssumption DEF Loaded, UnitsReset, ActReset, ActTypeOK,
                            Functions, Poolings,
                            Fits
  <2>4. MxuTypeOK /\ ShifterOK
    BY MemoryAssumption DEF Loaded, UnitsReset, ShifterReset, MxuReset,
                            NoWeights,
                            EmptyGrid, MxuTypeOK, ShifterOK, IsMemory
  <2> QED BY <2>1, <2>2, <2>3, <2>4 DEF UnitsOK
<1>3. StatsOK
  BY DEF Loaded, UnitsReset, ControlReset, StatsReset, StatsOK
<1>4. LogOK
  BY EmptySeq, TimelineAssumption DEF Loaded, UnitsReset, ControlReset, LogOK
<1>5. IssueOK /\ phase = "issue"
  <2>1. program \in Seq(Instr)
    BY ProgramAssumption DEF Loaded, UnitsReset, ControlReset
  <2>2. unit_pc \in [host : Int, mxu : Int, act : Int]
    BY DEF Loaded, UnitsReset, ControlReset
  <2>3. before \in [rows_shifted : Nat, shadow_tile : Int, working : BOOLEAN]
    BY DEF Init
  <2> QED BY <2>1, <2>2, <2>3 DEF Init, Loaded, ControlReset, IssueOK, Stalls,
                                  Phases, Errors
<1> QED BY <1>1, <1>2, <1>3, <1>4, <1>5 DEF TypeInv

LEMMA Frame ==
  /\ HostTypeOK /\ UNCHANGED hif => HostTypeOK'
  /\ FifoTypeOK /\ UNCHANGED fifo => FifoTypeOK'
  /\ MxuTypeOK /\ UNCHANGED <<planes, shifter, mxu, grid>> => MxuTypeOK'
  /\ ShifterOK /\ UNCHANGED shifter => ShifterOK'
  /\ ActTypeOK /\ UNCHANGED act => ActTypeOK'
  /\ IsMemory(ub, UbAddrs) /\ UNCHANGED ub => IsMemory(ub, UbAddrs)'
  /\ IsMemory(acc, AccCells) /\ UNCHANGED acc => IsMemory(acc, AccCells)'
  /\ IsMemory(hostMem, HostAddrs) /\ UNCHANGED hostMem
       => IsMemory(hostMem, HostAddrs)'
BY DEF HostTypeOK, FifoTypeOK, MxuTypeOK, ShifterOK, ActTypeOK, IsMemory

LEMMA ThrowTypeInv ==
  ASSUME TypeInv, TickThrows
  PROVE  TypeInv'
<1>1. /\ UNCHANGED <<memories, units, program, pc, halted, stats, activity,
                     unit_pc, phase, before>>
      /\ error' \in Errors
  BY DEF TickThrows, PastTheEnd, UnknownOpcode, Deadlock, Refused, Throw,
         Errors
<1>2. stall' \in Stalls
  BY WhyBlockedType DEF TickThrows, PastTheEnd, UnknownOpcode, Deadlock,
                        Refused, TypeInv, IssueOK, Stalls
<1>3. MemoriesOK' /\ UnitsOK'
  BY <1>1, Frame DEF memories, units, TypeInv, MemoriesOK, UnitsOK
<1> QED BY <1>1, <1>2, <1>3 DEF TypeInv, StatsOK, LogOK, IssueOK

LEMMA StalledTypeInv ==
  ASSUME TypeInv, Stalled
  PROVE  TypeInv'
<1>1. MemoriesOK' /\ UnitsOK'
  BY Frame DEF Stalled, memories, units, TypeInv, MemoriesOK, UnitsOK
<1>2. stall' \in Stalls /\ -1 \in Int
  BY WhyBlockedType DEF Stalled
<1>3. unit_pc' \in [host : Int, mxu : Int, act : Int]
  BY DEF Stalled, TypeInv, IssueOK
<1>4. LogOK' /\ activity' # << >>
  BY <1>1, <1>2, <1>3, RecordCycleType DEF Stalled, TypeInv, UnitsOK
<1>5. IssueOK'
  BY <1>1, <1>2, <1>3, AdvanceType
     DEF Stalled, Advance, UnitsOK, TypeInv, IssueOK
<1> QED BY <1>1, <1>4, <1>5 DEF Stalled, TypeInv, StatsOK

LEMMA IssueTypeInv ==
  ASSUME TypeInv, TickIssues
  PROVE  TypeInv'
<1>1. in \in Instr
  BY InType DEF TickIssues, IssueHalt, IssueNopOrSync, IssueHostTransfer,
                IssueReadWeights, IssueMatrixMultiply, IssueActivate,
                Issuing, TypeInv, IssueOK
<1>2. /\ in.host_row \in Nat /\ in.ub_row \in Nat /\ in.acc_row \in Nat
      /\ in.rows \in Nat /\ in.tile \in Nat
      /\ in.accumulate \in BOOLEAN /\ in.new_weights \in BOOLEAN
      /\ in.function \in Functions /\ in.pool \in Poolings
      /\ in.pool_size \in Nat /\ in.pool_width \in Nat
  BY <1>1 DEF Instr
<1>3. CASE IssueHalt \/ IssueNopOrSync
  <2>1. /\ UNCHANGED <<memories, units, unit_pc>>
        /\ halted' \in BOOLEAN /\ Issued
    BY <1>3 DEF IssueHalt, IssueNopOrSync, TypeInv, IssueOK
  <2>2. MemoriesOK' /\ UnitsOK'
    BY <2>1, Frame DEF memories, units, TypeInv, MemoriesOK, UnitsOK
  <2>3. unit_pc' \in [host : Int, mxu : Int, act : Int]
    BY <2>1 DEF TypeInv, IssueOK
  <2> QED BY <2>1, <2>2, <2>3, IssuedType DEF TypeInv
<1>4. CASE IssueHostTransfer
  <2>1. PICK d \in Directions : HostStart(d, in.host_row, in.ub_row, in.rows)
    BY <1>4 DEF IssueHostTransfer, Directions
  <2>2. UnitsOK'
    BY <1>2, <1>4, <2>1, HostStartType, Frame
       DEF IssueHostTransfer, TypeInv, UnitsOK
  <2>3. MemoriesOK'
    BY <1>4, <2>1, Frame DEF IssueHostTransfer, HostStart, TypeInv, MemoriesOK
  <2>4. /\ unit_pc' \in [host : Int, mxu : Int, act : Int]
        /\ halted' \in BOOLEAN
    BY <1>4 DEF IssueHostTransfer, TypeInv, IssueOK
  <2> QED BY <1>4, <2>2, <2>3, <2>4, IssuedType
          DEF IssueHostTransfer, TypeInv
<1>5. CASE IssueReadWeights
  <2>1. UnitsOK'
    BY <1>2, <1>5, FifoPushType, Frame DEF IssueReadWeights, TypeInv, UnitsOK
  <2>2. MemoriesOK'
    BY <1>5, Frame DEF IssueReadWeights, memories, TypeInv, MemoriesOK
  <2>3. /\ unit_pc' \in [host : Int, mxu : Int, act : Int]
        /\ halted' \in BOOLEAN
    BY <1>5 DEF IssueReadWeights, TypeInv, IssueOK
  <2> QED BY <1>5, <2>1, <2>2, <2>3, IssuedType DEF IssueReadWeights, TypeInv
<1>6. CASE IssueMatrixMultiply
  <2>1. MxuStart(in.ub_row, in.acc_row, in.rows, in.accumulate,
                 in.new_weights)
    BY <1>6 DEF IssueMatrixMultiply
  <2>2. MxuTypeOK' /\ ShifterOK'
    BY <1>2, <2>1, MxuStartType DEF TypeInv, UnitsOK
  <2>3. UnitsOK' /\ MemoriesOK'
    BY <1>6, <2>1, <2>2, Frame
       DEF IssueMatrixMultiply, MxuStart, TypeInv, UnitsOK, MemoriesOK
  <2>4. /\ unit_pc' \in [host : Int, mxu : Int, act : Int]
        /\ halted' \in BOOLEAN
    BY <1>6 DEF IssueMatrixMultiply, TypeInv, IssueOK
  <2> QED BY <1>6, <2>3, <2>4, IssuedType DEF IssueMatrixMultiply, TypeInv
<1>7. CASE IssueActivate
  <2>1. ActStart(in.acc_row, in.ub_row, in.rows, in.function, in.pool,
                 in.pool_size, in.pool_width)
    BY <1>7 DEF IssueActivate
  <2>2. ActTypeOK'
    BY <1>2, <2>1, ActStartType
  <2>3. UnitsOK' /\ MemoriesOK'
    BY <1>7, <2>1, <2>2, Frame
       DEF IssueActivate, ActStart, TypeInv, UnitsOK, MemoriesOK
  <2>4. /\ unit_pc' \in [host : Int, mxu : Int, act : Int]
        /\ halted' \in BOOLEAN
    BY <1>7 DEF IssueActivate, TypeInv, IssueOK
  <2> QED BY <1>7, <2>3, <2>4, IssuedType DEF IssueActivate, TypeInv
<1> QED BY <1>3, <1>4, <1>5, <1>6, <1>7 DEF TickIssues

LEMMA AdvanceTypeInv ==
  ASSUME TypeInv, TickAdvances
  PROVE  TypeInv'
<1>1. CASE AdvanceHost
  <2>1. HostTypeOK' /\ IsMemory(ub, UbAddrs)' /\ IsMemory(hostMem, HostAddrs)'
    BY <1>1, HostTickType, HostTickMemory
       DEF AdvanceHost, TypeInv, UnitsOK, MemoriesOK
  <2>2. UnitsOK' /\ MemoriesOK'
    BY <1>1, <2>1, Frame DEF AdvanceHost, TypeInv, UnitsOK, MemoriesOK
  <2>3. IssueOK' /\ phase = "host"
    BY <1>1, StepType DEF AdvanceHost, Step, Phases
  <2> QED BY <1>1, <2>2, <2>3 DEF AdvanceHost, TypeInv, StatsOK, LogOK
<1>2. CASE AdvanceFifo
  <2>1. UnitsOK' /\ MemoriesOK'
    BY <1>2, FifoTickType, Frame
       DEF AdvanceFifo, memories, TypeInv, UnitsOK, MemoriesOK
  <2>2. IssueOK' /\ phase = "fifo"
    BY <1>2, StepType DEF AdvanceFifo, Step, Phases
  <2> QED BY <1>2, <2>1, <2>2 DEF AdvanceFifo, TypeInv, StatsOK, LogOK
<1>3. CASE AdvanceShifter
  <2>1. MxuTypeOK' /\ FifoTypeOK' /\ ShifterOK'
    BY <1>3, ShiftWeightsType, ShiftWeightsFifoType, ShiftWeightsShifter
       DEF AdvanceShifter, TypeInv, UnitsOK
  <2>2. UnitsOK' /\ MemoriesOK'
    BY <1>3, <2>1, Frame
       DEF AdvanceShifter, memories, TypeInv, UnitsOK, MemoriesOK
  <2>3. IssueOK' /\ phase = "shift"
    BY <1>3, StepType DEF AdvanceShifter, Step, Phases
  <2> QED BY <1>3, <2>2, <2>3 DEF AdvanceShifter, TypeInv, StatsOK, LogOK
<1>4. CASE AdvanceArray
  <2>1. MxuTypeOK' /\ IsMemory(acc, AccCells)'
    BY <1>4, ArrayTickType DEF AdvanceArray, TypeInv, UnitsOK, MemoriesOK
  <2>2. UnitsOK' /\ MemoriesOK'
    BY <1>4, <2>1, Frame DEF AdvanceArray, TypeInv, UnitsOK, MemoriesOK
  <2>3. IssueOK' /\ phase = "array"
    BY <1>4, StepType DEF AdvanceArray, Step, Phases
  <2> QED BY <1>4, <2>2, <2>3 DEF AdvanceArray, TypeInv, StatsOK, LogOK
<1>5. CASE AdvanceActivation
  <2>1. ActTypeOK' /\ IsMemory(ub, UbAddrs)'
    BY <1>5, ActTickType DEF AdvanceActivation, TypeInv, UnitsOK, MemoriesOK
  <2>2. UnitsOK' /\ MemoriesOK'
    BY <1>5, <2>1, Frame DEF AdvanceActivation, TypeInv, UnitsOK, MemoriesOK
  <2>3. IssueOK' /\ phase = "act" /\ phase' = "issue"
    BY <1>5, StepType DEF AdvanceActivation, Step, Phases
  <2>4. StatsOK'
    <3>1. stats' = Counted
      BY <1>5 DEF AdvanceActivation
    <3>2. stats.stall_cycles \in [Stalls -> Nat] /\ stall \in Stalls
      BY DEF TypeInv, StatsOK, IssueOK
    <3>3. [stats.stall_cycles EXCEPT ![stall] = @ + 1] \in [Stalls -> Nat]
      BY <3>2
    <3>4. Counted.stall_cycles \in [Stalls -> Nat]
      BY <3>2, <3>3 DEF Counted
    <3> QED BY <3>1, <3>4 DEF Counted, TypeInv, StatsOK
  <2>5. LogOK'
    <3> DEFINE last == Len(activity)
               r    == [activity[last] EXCEPT !.shifting = shifter.shadow_tile]
    <3>1. activity # << >> /\ activity \in Seq(CycleRecord)
      BY <2>3 DEF TypeInv, LogOK
    <3>2. last \in 1 .. Len(activity) /\ activity[last] \in CycleRecord
      BY <3>1, EmptySeq, ElementOfSeq
    <3>3. r \in CycleRecord
      BY <3>2 DEF CycleRecord, TypeInv, UnitsOK, MxuTypeOK
    <3>4. activity' \in {activity, [activity EXCEPT ![last] = r]}
      BY <1>5 DEF AdvanceActivation
    <3> HIDE DEF r
    <3> QED BY <3>1, <3>2, <3>3, <3>4, ExceptSeq DEF TypeInv, LogOK
  <2> QED BY <2>2, <2>3, <2>4, <2>5 DEF TypeInv
<1> QED BY <1>1, <1>2, <1>3, <1>4, <1>5 DEF TickAdvances

(* Every step, a stutter included, keeps the invariant.                      *)
LEMMA NextTypeInv == TypeInv /\ [Next]_vars => TypeInv'
<1> SUFFICES ASSUME TypeInv, [Next]_vars PROVE TypeInv'
  OBVIOUS
<1>1. CASE UNCHANGED vars
  <2>1. UNCHANGED <<memories, units, control, phase, before, error>>
    BY <1>1 DEF vars, machine
  <2>2. MemoriesOK' /\ UnitsOK'
    BY <2>1, Frame DEF memories, units, TypeInv, MemoriesOK, UnitsOK
  <2> QED BY <2>1, <2>2 DEF control, TypeInv, StatsOK, LogOK, IssueOK
<1>2. CASE TickHalted
  BY <1>1, <1>2 DEF TickHalted
<1>3. CASE Next
  BY <1>2, <1>3, ThrowTypeInv, StalledTypeInv, IssueTypeInv, AdvanceTypeInv
     DEF Next
<1> QED BY <1>1, <1>3

LEMMA InvariantTypes == Spec => []TypeInv
BY InitTypeInv, NextTypeInv, PTL DEF Spec

(* Whatever the program, every register, memory, slot, counter and log entry *)
(* of the machine keeps the type, and the bounds, the code relies on.        *)
THEOREM TypeCorrect == Spec => []TypeOK
<1>1. TypeInv => TypeOK
  BY DEF TypeInv, TypeOK, MemoriesOK, UnitsOK, StatsOK, LogOK, IssueOK
<1> QED BY <1>1, InvariantTypes, PTL

-----------------------------------------------------------------------------
(* The interlocks                                                            *)

(* A transfer, a multiply and an Activate are each admitted only next to     *)
(* what they do not disturb, and a unit's own tick only ever ends its        *)
(* operation, so the four facts are kept together.                           *)
LEMMA IssueNoRowConflict ==
  ASSUME TypeInv, NoRowConflict, TickIssues
  PROVE  NoRowConflict'
<1>1. CASE IssueHalt \/ IssueNopOrSync \/ IssueReadWeights
  <2>1. UNCHANGED <<hif, mxu, act>>
    BY <1>1 DEF IssueHalt, IssueNopOrSync, IssueReadWeights, units
  <2> QED BY <2>1 DEF NoRowConflict, HostSparesMxu, HostSparesAct,
             ActSparesMxu, MxuSparesAct, HostBusy, MxuReadsUbRows,
             MxuWritesAccRows, ActBusy, ActWritesUbRows, ActOutRows
<1>2. CASE IssueHostTransfer
  <2>1. PICK d \in Directions :
          /\ HostStart(d, in.host_row, in.ub_row, in.rows)
          /\ d = "HostToUb" => in.op = "ReadHostMemory"
          /\ in.op \in {"ReadHostMemory", "WriteHostMemory"}
          /\ WhyBlocked(in) = "None"
          /\ UNCHANGED <<mxu, act>>
    BY <1>2 DEF IssueHostTransfer, Issuing, Directions
  <2>2. /\ hif'.direction = d /\ hif'.ub_row = in.ub_row
        /\ hif'.rows = in.rows
    BY <2>1 DEF HostStart
  <2>3. /\ d = "HostToUb" => ~MxuReadsUbRows(in.ub_row, in.rows)
        /\ ~ActWritesUbRows(in.ub_row, in.rows)
    BY <2>1 DEF WhyBlocked, BlockedReadHost, BlockedWriteHost
  <2> QED BY <2>1, <2>2, <2>3
          DEF NoRowConflict, HostSparesMxu, HostSparesAct, ActSparesMxu,
              MxuSparesAct, MxuReadsUbRows, MxuWritesAccRows, ActBusy,
              ActWritesUbRows, ActOutRows
<1>3. CASE IssueMatrixMultiply
  <2>1. /\ MxuStart(in.ub_row, in.acc_row, in.rows, in.accumulate,
                    in.new_weights)
        /\ in.op = "MatrixMultiply"
        /\ WhyBlocked(in) = "None"
        /\ UNCHANGED <<hif, act>>
    BY <1>3 DEF IssueMatrixMultiply, Issuing
  <2>2. /\ mxu'.ub_row = in.ub_row /\ mxu'.acc_row = in.acc_row
        /\ mxu'.rows = in.rows
    BY <2>1 DEF MxuStart
  <2>3. /\ ~HostWritesUbRows(in.ub_row, in.rows)
        /\ ~ActWritesUbRows(in.ub_row, in.rows)
        /\ ~ActReadsAccRows(in.acc_row, in.rows)
    BY <2>1 DEF WhyBlocked, BlockedMatrixMultiply
  <2> QED BY <2>1, <2>2, <2>3
          DEF NoRowConflict, HostSparesMxu, HostSparesAct, ActSparesMxu,
              MxuSparesAct, MxuReadsUbRows, MxuWritesAccRows, ActBusy,
              ActWritesUbRows, ActReadsAccRows, HostWritesUbRows, HostBusy,
              ActOutRows, Overlap
<1>4. CASE IssueActivate
  <2> DEFINE out == ActivateOutputRows(in.rows, in.pool, in.pool_size)
  <2>1. /\ ActStart(in.acc_row, in.ub_row, in.rows, in.function, in.pool,
                    in.pool_size, in.pool_width)
        /\ in.op = "Activate"
        /\ WhyBlocked(in) = "None"
        /\ UNCHANGED <<hif, mxu>>
    BY <1>4 DEF IssueActivate, Issuing
  <2>2. /\ act'.ub_row = in.ub_row /\ act'.acc_row = in.acc_row
        /\ act'.rows_total = in.rows
        /\ ActOutRows' = out
    BY <2>1 DEF ActStart, ActOutRows
  <2>3. /\ ~MxuWritesAccRows(in.acc_row, in.rows)
        /\ ~HostWritesUbRows(in.ub_row, out)
        /\ ~HostReadsUbRows(in.ub_row, out)
        /\ ~MxuReadsUbRows(in.ub_row, out)
    BY <2>1 DEF WhyBlocked, BlockedActivate
  <2> HIDE DEF out
  <2>4. HostBusy => ~Overlap(in.ub_row, out, hif.ub_row, hif.rows)
    <3>1. hif.direction \in {"HostToUb", "UbToHost"}
      BY DEF TypeInv, UnitsOK, HostTypeOK, Directions
    <3> QED BY <2>3, <3>1 DEF HostReadsUbRows, HostWritesUbRows
  <2> QED BY <2>1, <2>2, <2>3, <2>4
          DEF NoRowConflict, HostSparesMxu, HostSparesAct, ActSparesMxu,
              MxuSparesAct, MxuReadsUbRows, MxuWritesAccRows, HostBusy,
              ActWritesUbRows, Overlap
<1> QED BY <1>1, <1>2, <1>3, <1>4 DEF TickIssues

LEMMA AdvanceNoRowConflict ==
  ASSUME TypeInv, NoRowConflict, TickAdvances
  PROVE  NoRowConflict'
<1>1. /\ HostBusy' => HostBusy
      /\ hif'.direction = hif.direction
      /\ hif'.ub_row = hif.ub_row /\ hif'.rows = hif.rows
  <2>1. CASE HostMoves
    BY <2>1 DEF HostMoves, TypeInv, UnitsOK, HostTypeOK
  <2>2. CASE UNCHANGED hif
    BY <2>2 DEF HostBusy
  <2> QED BY <2>1, <2>2
          DEF TickAdvances, AdvanceHost, AdvanceFifo, AdvanceShifter,
              AdvanceArray, AdvanceActivation, HostTick
<1>2. /\ mxu'.busy => mxu.busy
      /\ mxu'.ub_row = mxu.ub_row /\ mxu'.acc_row = mxu.acc_row
      /\ mxu'.rows = mxu.rows
  <2>1. CASE StepArray
    BY <2>1 DEF StepArray, TypeInv, UnitsOK, MxuTypeOK
  <2>2. CASE UNCHANGED mxu
    BY <2>2
  <2> QED BY <2>1, <2>2
          DEF TickAdvances, AdvanceHost, AdvanceFifo, AdvanceShifter,
              AdvanceArray, AdvanceActivation, ArrayTick
<1>3. /\ ActBusy' => ActBusy
      /\ act'.ub_row = act.ub_row /\ act'.acc_row = act.acc_row
      /\ act'.rows_total = act.rows_total
      /\ ActOutRows' = ActOutRows
  <2>1. CASE ActMoves
    BY <2>1 DEF ActMoves, ActOutRows, TypeInv, UnitsOK, ActTypeOK
  <2>2. CASE UNCHANGED act
    BY <2>2 DEF ActBusy, ActOutRows
  <2> QED BY <2>1, <2>2
          DEF TickAdvances, AdvanceHost, AdvanceFifo, AdvanceShifter,
              AdvanceArray, AdvanceActivation, ActTick
<1> QED BY <1>1, <1>2, <1>3
        DEF NoRowConflict, HostSparesMxu, HostSparesAct, ActSparesMxu,
            MxuSparesAct, MxuReadsUbRows, MxuWritesAccRows, ActWritesUbRows

LEMMA NextNoRowConflict ==
  TypeInv /\ NoRowConflict /\ [Next]_vars => NoRowConflict'
<1> SUFFICES ASSUME TypeInv, NoRowConflict, [Next]_vars PROVE NoRowConflict'
  OBVIOUS
<1>1. CASE TickThrows \/ Stalled \/ UNCHANGED vars
  <2>1. UNCHANGED <<hif, mxu, act>>
    BY <1>1 DEF TickThrows, PastTheEnd, UnknownOpcode, Deadlock, Refused,
                Throw, Stalled, vars, machine, units
  <2> QED BY <2>1
          DEF NoRowConflict, HostSparesMxu, HostSparesAct, ActSparesMxu,
              MxuSparesAct, HostBusy, MxuReadsUbRows, MxuWritesAccRows,
              ActBusy, ActWritesUbRows, ActOutRows
<1> QED BY <1>1, IssueNoRowConflict, AdvanceNoRowConflict DEF Next, TickHalted

(* No program, overlap of units or size of memory makes two units in flight  *)
(* meet on a row that one of them writes.                                    *)
THEOREM UnitsNeverMeet == Spec => []NoRowConflict
<1>1. Init => NoRowConflict
  <2> SUFFICES ASSUME Init PROVE NoRowConflict
    OBVIOUS
  <2>1. ~mxu.busy /\ ~HostBusy
    BY MemoryAssumption DEF Init, Loaded, UnitsReset, MxuReset, HostReset,
                            HostBusy
  <2>2. ~ActBusy
    BY DEF Init, Loaded, UnitsReset, ControlReset, ActReset, ActBusy
  <2> QED BY <2>1, <2>2
          DEF NoRowConflict, HostSparesMxu, HostSparesAct, ActSparesMxu,
              MxuSparesAct, MxuReadsUbRows, MxuWritesAccRows
<1> QED BY <1>1, NextNoRowConflict, InvariantTypes, PTL DEF Spec

-----------------------------------------------------------------------------
(* The deadlock check                                                        *)

LEMMA InitReadyTile == Init => ReadyTileIsMoving
BY DEF Init, Loaded, UnitsReset, ControlReset, ReadyTileIsMoving, FrontReady

LEMMA NextReadyTile ==
  TypeInv /\ ReadyTileIsMoving /\ [Next]_vars => ReadyTileIsMoving'
<1> SUFFICES ASSUME TypeInv, ReadyTileIsMoving, [Next]_vars
             PROVE  ReadyTileIsMoving'
  OBVIOUS
<1>1. CASE phase' \notin {"issue", "array", "act"}
  BY <1>1 DEF ReadyTileIsMoving
<1>2. CASE AdvanceShifter
  <2>1. CASE ShiftRow
    <3> DEFINE k == shifter.rows_shifted
    <3>1. k \in Nat
      BY DEF TypeInv, UnitsOK, MxuTypeOK
    <3>2. /\ shifter'.rows_shifted = k + 1
          /\ shifter'.shadow_full = (k + 1 = Dim)
      BY <2>1 DEF ShiftRow, TypeInv, UnitsOK, MxuTypeOK
    <3> QED BY <3>1, <3>2 DEF ReadyTileIsMoving, Shifting
  <2>2. CASE /\ shifter.shadow_full \/ ~FrontReady
             /\ UNCHANGED <<planes, shifter, fifo>>
    BY <2>2 DEF ReadyTileIsMoving, FrontReady
  <2> QED BY <1>2, <2>1, <2>2 DEF AdvanceShifter, ShiftWeights
<1>3. CASE /\ phase \in {"issue", "array", "act"}
           /\ UNCHANGED <<fifo, shifter>>
  BY <1>3 DEF ReadyTileIsMoving, FrontReady, Shifting
<1>4. CASE phase' \in {"issue", "array", "act"} /\ ~AdvanceShifter
  <2>1. CASE TickThrows \/ TickHalted \/ UNCHANGED vars
    <3>1. UNCHANGED <<fifo, shifter, phase>>
      BY <2>1 DEF TickThrows, PastTheEnd, UnknownOpcode, Deadlock, Refused,
                  Throw, TickHalted, vars, machine, units
    <3> QED BY <1>3, <1>4, <3>1
  <2>2. ~Stalled /\ ~TickIssues
    BY <1>4 DEF Stalled, TickIssues, IssueHalt, IssueNopOrSync,
                IssueHostTransfer, IssueReadWeights, IssueMatrixMultiply,
                IssueActivate, Issued, Advance
  <2>3. CASE TickAdvances
    <3>1. AdvanceArray \/ AdvanceActivation
      BY <1>4, <2>3 DEF TickAdvances, AdvanceHost, AdvanceFifo, Step
    <3>2. phase \in {"array", "act"} /\ UNCHANGED <<fifo, shifter>>
      BY <3>1 DEF AdvanceArray, AdvanceActivation, Step
    <3> QED BY <1>3, <3>2
  <2> QED BY <2>1, <2>2, <2>3 DEF Next
<1> QED BY <1>1, <1>2, <1>4

(* A tile that has arrived in full is always being shifted or has to wait.   *)
THEOREM ReadyTilesMove == Spec => []ReadyTileIsMoving
BY InitReadyTile, NextReadyTile, InvariantTypes, PTL DEF Spec

(* A tick that has declared a deadlock has changed nothing, so the next one  *)
(* finds the same instruction blocked and the same units idle.               *)
DeadlockLasts ==
  error = "deadlock" =>
    Ticking /\ AtInstr /\ WhyBlocked(in) # "None" /\ UnitsIdle

LEMMA NextDeadlockLasts ==
  TypeInv /\ DeadlockLasts /\ [Next]_vars => DeadlockLasts'
<1> SUFFICES ASSUME TypeInv, DeadlockLasts, [Next]_vars, error' = "deadlock"
             PROVE  (Ticking /\ AtInstr /\ WhyBlocked(in) # "None"
                       /\ UnitsIdle)'
  BY DEF DeadlockLasts
<1> DEFINE Stuck == Ticking /\ AtInstr /\ WhyBlocked(in) # "None" /\ UnitsIdle
<1>1. Stuck /\ UNCHANGED <<memories, units, program, pc, halted, phase>>
  <2>1. CASE Deadlock
    BY <2>1 DEF Deadlock, Throw
  <2>2. CASE UNCHANGED vars
    BY <2>2 DEF DeadlockLasts, vars, machine, control
  <2>3. CASE error = "deadlock" /\ ~Deadlock /\ ~UNCHANGED vars
    <3>1. Stuck
      BY <2>3 DEF DeadlockLasts
    <3>2. ~TickThrows
      <4>1. pc \in Nat /\ Len(program) \in Nat
        BY LenProperties DEF TypeInv, IssueOK
      <4>2. ~(pc >= Len(program))
        <5>1. pc < Len(program)
          BY <3>1 DEF AtInstr
        <5> HIDE DEF Stuck
        <5> QED BY <4>1, <5>1
      <4>3. ~PastTheEnd /\ ~UnknownOpcode /\ ~Refused
        BY <3>1, <4>2 DEF PastTheEnd, UnknownOpcode, Refused, AtInstr
      <4> QED BY <2>3, <4>3 DEF TickThrows
    <3>3. ~Stalled /\ ~TickIssues /\ ~TickHalted
      BY <3>1 DEF Stalled, TickIssues, IssueHalt, IssueNopOrSync,
                  IssueHostTransfer, IssueReadWeights, IssueMatrixMultiply,
                  IssueActivate, Issuing, TickHalted, Ticking
    <3>4. ~TickAdvances
      BY <3>1 DEF TickAdvances, AdvanceHost, AdvanceFifo, AdvanceShifter,
                  AdvanceArray, AdvanceActivation, Step, Ticking
    <3> QED BY <2>3, <3>2, <3>3, <3>4 DEF Next
  <2>4. CASE error # "deadlock" /\ ~Deadlock /\ ~UNCHANGED vars
    <3>1. ~TickThrows /\ UNCHANGED error
      BY <2>4 DEF TickThrows, PastTheEnd, UnknownOpcode, Refused, Throw, Next,
                  Stalled, TickIssues, IssueHalt, IssueNopOrSync,
                  IssueHostTransfer, IssueReadWeights, IssueMatrixMultiply,
                  IssueActivate, Issued, Advance, TickHalted, TickAdvances,
                  AdvanceHost, AdvanceFifo, AdvanceShifter, AdvanceArray,
                  AdvanceActivation, Step
    <3> QED BY <2>4, <3>1
  <2> QED BY <2>1, <2>2, <2>3, <2>4
<1> HIDE DEF Stuck
<1>2. Stuck'
  <2>1. UNCHANGED <<hif, fifo, shifter, mxu, act, program, pc, halted, phase>>
    BY <1>1 DEF units
  <2>2. in' = in /\ AtInstr' = AtInstr /\ Ticking' = Ticking
    BY <2>1 DEF in, AtInstr, Ticking
  <2>3. UnitsIdle' = UnitsIdle
    BY <2>1 DEF UnitsIdle, HostBusy, FifoFetching, Ready, Shifting, ActBusy
  <2>4. (WhyBlocked(in) # "None")' = (WhyBlocked(in) # "None")
    BY <2>1, <2>2, <2>3
       DEF WhyBlocked, BlockedReadHost, BlockedWriteHost,
           BlockedMatrixMultiply, BlockedActivate, HostBusy,
           HostWritesUbRows, HostReadsUbRows, MxuReadsUbRows,
           MxuWritesAccRows, ActBusy, ActOutRows, ActReadsAccRows,
           ActWritesUbRows, FifoFull
  <2> QED BY <1>1, <2>2, <2>3, <2>4 DEF Stuck
<1> QED BY <1>2 DEF Stuck

(* An instruction that waits in an idle machine waits for weights or for a   *)
(* slot: every other cause of waiting is a unit at work.                     *)
LEMMA IdleAndBlocked ==
  ASSUME TypeInv, ReadyTileIsMoving, DeadlockLasts, error = "deadlock"
  PROVE  \/ in.op = "MatrixMultiply" /\ in.new_weights
              /\ fifo = << >> /\ ~shifter.shadow_full
         \/ in.op = "ReadWeights" /\ Len(fifo) = Slots /\ shifter.shadow_full
<1>1. /\ phase = "issue" /\ UnitsIdle /\ WhyBlocked(in) # "None"
  BY DEF DeadlockLasts, Ticking
<1>2. ~HostBusy /\ ~mxu.busy /\ ~ActBusy /\ ~Shifting /\ ~FifoFetching
  BY <1>1 DEF UnitsIdle
<1>3. fifo # << >> => shifter.shadow_full
  <2> SUFFICES ASSUME fifo # << >> PROVE shifter.shadow_full
    OBVIOUS
  <2>1. 1 \in DOMAIN fifo /\ Head(fifo) = fifo[1]
    BY EmptySeq DEF TypeInv, UnitsOK, FifoTypeOK
  <2>2. FrontReady
    BY <1>2, <2>1 DEF FifoFetching, FrontReady
  <2> QED BY <1>1, <1>2, <2>2 DEF ReadyTileIsMoving
<1>4. \/ in.op = "MatrixMultiply" /\ in.new_weights /\ ~shifter.shadow_full
      \/ in.op = "ReadWeights" /\ FifoFull
  BY <1>1, <1>2
     DEF WhyBlocked, BlockedReadHost, BlockedWriteHost,
         BlockedMatrixMultiply, BlockedActivate, HostWritesUbRows,
         HostReadsUbRows, MxuReadsUbRows, MxuWritesAccRows, ActReadsAccRows,
         ActWritesUbRows
<1>5. FifoFull => Len(fifo) = Slots /\ fifo # << >>
  BY EmptySeq, FifoAssumption DEF FifoFull, TypeInv, UnitsOK, FifoTypeOK
<1> QED BY <1>3, <1>4, <1>5

(* The check of the code, "blocked and every unit idle", never stops a       *)
(* program that could still have gone on, and the two programs it does stop  *)
(* want weights nobody fetched or a slot nobody can free.                    *)
THEOREM DeadlocksAreReal == Spec => []DeadlockIsReal
<1>1. Init => DeadlockLasts
  BY DEF Init, DeadlockLasts
<1>2. TypeInv /\ ReadyTileIsMoving /\ DeadlockLasts => DeadlockIsReal
  BY IdleAndBlocked DEF DeadlockIsReal
<1> QED BY <1>1, <1>2, NextDeadlockLasts, ReadyTilesMove, InvariantTypes, PTL
        DEF Spec

-----------------------------------------------------------------------------
(* The counters                                                              *)

(* In the second half of a cycle the cycle itself is still to be counted,    *)
(* and so is the stall it may have been.                                     *)
CyclesInv ==
  stats.cycles + (IF phase = "issue" THEN 0 ELSE 1)
    = stats.issued + StalledCycles
      + (IF phase # "issue" /\ stall # "None" THEN 1 ELSE 0)

(* One more stall of a given cause is one more stall.                        *)
LEMMA OneMoreStall ==
  ASSUME StatsOK, NEW s \in Stalls \ {"None"},
         stats'.stall_cycles = [stats.stall_cycles EXCEPT ![s] = @ + 1]
  PROVE  StalledCycles' = StalledCycles + 1
<1> DEFINE f == stats.stall_cycles
<1>1. f \in [Stalls -> Nat]
  BY DEF StatsOK
<1>2. \A t \in Stalls : f[t] \in Nat
  BY <1>1
<1>3. \A t \in Stalls :
        stats'.stall_cycles[t] = IF t = s THEN f[t] + 1 ELSE f[t]
  BY <1>1
<1> HIDE DEF f
<1> QED BY <1>2, <1>3 DEF StalledCycles, Stalls, f

LEMMA StalledCyclesNat == StatsOK => StalledCycles \in Nat
BY DEF StatsOK, StalledCycles, Stalls

LEMMA NextCyclesInv == TypeInv /\ CyclesInv /\ [Next]_vars => CyclesInv'
<1> SUFFICES ASSUME TypeInv, CyclesInv, [Next]_vars PROVE CyclesInv'
  OBVIOUS
<1>1. /\ stats.cycles \in Nat /\ stats.issued \in Nat
      /\ StalledCycles \in Nat
  BY StalledCyclesNat DEF TypeInv, StatsOK
<1>2. CASE UNCHANGED <<stats, phase>> /\ phase = "issue"
  BY <1>2 DEF CyclesInv, StalledCycles
<1>3. CASE UNCHANGED <<stats, stall>> /\ phase # "issue" /\ phase' # "issue"
  BY <1>3 DEF CyclesInv, StalledCycles
<1>4. CASE UNCHANGED <<stats, phase, stall>>
  BY <1>4 DEF CyclesInv, StalledCycles
<1>5. CASE TickThrows \/ TickHalted \/ UNCHANGED vars
  <2>1. UNCHANGED <<stats, phase>> /\ (phase = "issue" \/ UNCHANGED stall)
    BY <1>5 DEF TickThrows, PastTheEnd, UnknownOpcode, Deadlock, Refused,
                Throw, Ticking, TickHalted, vars, machine, control
  <2> QED BY <1>2, <1>4, <2>1
<1>6. CASE Stalled
  <2>1. UNCHANGED stats /\ phase = "issue" /\ phase' = "host" /\ stall' # "None"
    BY <1>6 DEF Stalled, Ticking, Advance
  <2>2. StalledCycles' = StalledCycles
    BY <2>1 DEF StalledCycles
  <2> QED BY <1>1, <2>1, <2>2 DEF CyclesInv
<1>7. CASE TickIssues
  <2>1. /\ phase = "issue" /\ phase' = "host" /\ stall' = "None"
        /\ stats' = [stats EXCEPT !.issued = @ + 1]
    BY <1>7 DEF TickIssues, IssueHalt, IssueNopOrSync, IssueHostTransfer,
                IssueReadWeights, IssueMatrixMultiply, IssueActivate,
                Issuing, Ticking, Issued, Advance
  <2>2. /\ stats'.cycles = stats.cycles
        /\ stats'.issued = stats.issued + 1
        /\ stats'.stall_cycles = stats.stall_cycles
    BY <2>1 DEF TypeInv, StatsOK
  <2>3. StalledCycles' = StalledCycles
    BY <2>2 DEF StalledCycles
  <2> QED BY <1>1, <2>1, <2>2, <2>3 DEF CyclesInv
<1>8. CASE AdvanceHost \/ AdvanceFifo \/ AdvanceShifter \/ AdvanceArray
  BY <1>3, <1>8 DEF AdvanceHost, AdvanceFifo, AdvanceShifter, AdvanceArray,
                    Step
<1>9. CASE AdvanceActivation
  <2>1. /\ phase = "act" /\ phase' = "issue" /\ stats' = Counted
        /\ stall \in Stalls
    BY <1>9 DEF AdvanceActivation, Step, TypeInv, IssueOK
  <2>2. /\ stats'.cycles = stats.cycles + 1
        /\ stats'.issued = stats.issued
    BY <2>1 DEF Counted
  <2>3. CASE stall = "None"
    <3>1. StalledCycles' = StalledCycles
      BY <2>1, <2>3 DEF Counted, StalledCycles
    <3> QED BY <1>1, <2>1, <2>2, <2>3, <3>1 DEF CyclesInv
  <2>4. CASE stall # "None"
    <3>1. StalledCycles' = StalledCycles + 1
      BY <2>1, <2>4, OneMoreStall DEF Counted, TypeInv
    <3> QED BY <1>1, <2>1, <2>2, <2>4, <3>1 DEF CyclesInv
  <2> QED BY <2>3, <2>4
<1> QED BY <1>5, <1>6, <1>7, <1>8, <1>9 DEF Next, TickAdvances

(* However long it runs, the machine charges each cycle exactly once.        *)
THEOREM CyclesAreAccounted == Spec => []CyclesAccounted
<1>1. Init => CyclesInv
  BY DEF Init, Loaded, ControlReset, StatsReset, CyclesInv, StalledCycles,
         Stalls
<1>2. TypeInv /\ CyclesInv => CyclesAccounted
  BY StalledCyclesNat DEF CyclesInv, CyclesAccounted, TypeInv, StatsOK
<1> QED BY <1>1, <1>2, NextCyclesInv, InvariantTypes, PTL DEF Spec

-----------------------------------------------------------------------------
(* The activity log                                                          *)

(* r may follow the record q in the log.                                     *)
Follows(q, r) ==
  /\ r.host \in {-1, q.host, r.issued}
  /\ r.mxu \in {-1, q.mxu, r.issued}
  /\ r.activation \in {-1, q.activation, r.issued}

LastRecord == activity[Len(activity)]

(* Inductive: what a busy unit is said to work on is what it last started.   *)
LogInv ==
  /\ \A i \in 2 .. Len(activity) : Follows(activity[i - 1], activity[i])
  /\ activity # << >> =>
       /\ HostBusy => LastRecord.host = unit_pc.host
       /\ mxu.busy => LastRecord.mxu = unit_pc.mxu
       /\ ActBusy => LastRecord.activation = unit_pc.act

LEMMA LogGrows ==
  ASSUME NEW log \in Seq(CycleRecord), NEW r \in CycleRecord, NEW next,
         \A i \in 2 .. Len(log) : Follows(log[i - 1], log[i]),
         log # << >> => Follows(log[Len(log)], r),
         LET grown == Append(log, r)
         IN  next = IF Len(grown) > TimelineCycles THEN Tail(grown) ELSE grown
  PROVE  /\ \A i \in 2 .. Len(next) : Follows(next[i - 1], next[i])
         /\ next[Len(next)] = r
<1> DEFINE grown == Append(log, r)
<1>1. /\ Len(log) \in Nat /\ grown \in Seq(CycleRecord) /\ grown # << >>
      /\ Len(grown) = Len(log) + 1
      /\ \A i \in 1 .. Len(log) : grown[i] = log[i]
      /\ grown[Len(log) + 1] = r
  BY LenProperties, AppendProperties
<1>2. \A i \in 2 .. Len(grown) : Follows(grown[i - 1], grown[i])
  <2>1. SUFFICES ASSUME NEW i \in 2 .. Len(grown)
                 PROVE  Follows(grown[i - 1], grown[i])
    OBVIOUS
  <2>2. CASE i = Len(grown)
    <3>1. i - 1 = Len(log) /\ i - 1 \in 1 .. Len(log) /\ log # << >>
      BY <1>1, <2>2
    <3> QED BY <1>1, <2>2, <3>1
  <2>3. CASE i # Len(grown)
    <3>1. i \in 2 .. Len(log) /\ i - 1 \in 1 .. Len(log)
          /\ i \in 1 .. Len(log)
      BY <1>1, <2>3
    <3> QED BY <1>1, <3>1
  <2> QED BY <2>2, <2>3
<1>3. next = IF Len(grown) > TimelineCycles THEN Tail(grown) ELSE grown
  OBVIOUS
<1> HIDE DEF grown
<1>4. /\ Len(Tail(grown)) = Len(grown) - 1
      /\ \A i \in 1 .. Len(Tail(grown)) : Tail(grown)[i] = grown[i + 1]
  BY <1>1, HeadTailProperties
<1>5. CASE Len(grown) > TimelineCycles
  <2>1. next = Tail(grown) /\ Len(next) = Len(log) /\ Len(log) >= 1
    BY <1>1, <1>3, <1>4, <1>5, TimelineAssumption
  <2>2. next[Len(next)] = r
    BY <1>1, <1>4, <2>1
  <2>3. ASSUME NEW i \in 2 .. Len(next)
        PROVE  Follows(next[i - 1], next[i])
    <3>1. /\ i + 1 \in 2 .. Len(grown) /\ i \in 1 .. Len(Tail(grown))
          /\ i - 1 \in 1 .. Len(Tail(grown)) /\ (i + 1) - 1 = (i - 1) + 1
      BY <1>1, <1>4, <2>1
    <3>2. next[i - 1] = grown[(i - 1) + 1] /\ next[i] = grown[i + 1]
      BY <1>4, <2>1, <3>1
    <3>3. Follows(grown[(i + 1) - 1], grown[i + 1])
      BY <1>2, <3>1
    <3> QED BY <3>1, <3>2, <3>3
  <2> QED BY <2>2, <2>3
<1>6. CASE ~(Len(grown) > TimelineCycles)
  BY <1>1, <1>2, <1>3, <1>6
<1> QED BY <1>5, <1>6

(* A cycle recorded after the units it is about took up their instructions,  *)
(* if they did.                                                              *)
LEMMA RecordFollows ==
  ASSUME TypeInv, LogInv, TypeInv', NEW why \in Stalls, NEW issued \in Int,
         RecordCycle(why, issued),
         UNCHANGED <<HostBusy, unit_pc.host>> \/ unit_pc'.host = issued,
         UNCHANGED <<mxu.busy, unit_pc.mxu>> \/ unit_pc'.mxu = issued,
         UNCHANGED <<ActBusy, unit_pc.act>> \/ unit_pc'.act = issued
  PROVE  LogInv'
<1> DEFINE r == Record(why, issued)
<1>1. r \in CycleRecord
  <2>1. FillingTile(fifo') \in Int
    BY FillingTileType DEF TypeInv, UnitsOK, FifoTypeOK
  <2> QED BY <2>1 DEF Record, CycleRecord, TypeInv, IssueOK
<1>2. /\ r.issued = issued
      /\ r.host = IF HostBusy' THEN unit_pc'.host ELSE -1
      /\ r.mxu = IF mxu'.busy THEN unit_pc'.mxu ELSE -1
      /\ r.activation = IF ActBusy' THEN unit_pc'.act ELSE -1
  BY DEF Record
<1>3. activity # << >> => Follows(LastRecord, r)
  BY <1>2 DEF LogInv, Follows, r
<1>4. LET grown == Append(activity, r)
      IN  activity' = IF Len(grown) > TimelineCycles THEN Tail(grown)
                                                     ELSE grown
  BY DEF RecordCycle
<1> HIDE DEF r
<1>5. /\ \A i \in 2 .. Len(activity') : Follows(activity'[i - 1], activity'[i])
      /\ activity'[Len(activity')] = r
  <2>1. activity \in Seq(CycleRecord)
    BY DEF TypeInv, LogOK
  <2> QED BY <1>1, <1>3, <1>4, <2>1, LogGrows DEF LogInv, LastRecord
<1> QED BY <1>2, <1>5 DEF LogInv, LastRecord

(* In the second half of a cycle units only come to an end, and the record   *)
(* of the cycle is amended where it says what was shifted.                   *)
LEMMA AdvanceLogInv ==
  ASSUME TypeInv, LogInv, TickAdvances
  PROVE  LogInv'
<1>1. HostBusy' => HostBusy
  <2>1. CASE HostMoves
    BY <2>1 DEF HostMoves, TypeInv, UnitsOK, HostTypeOK
  <2>2. CASE UNCHANGED hif
    BY <2>2 DEF HostBusy
  <2> QED BY <2>1, <2>2
          DEF TickAdvances, AdvanceHost, AdvanceFifo, AdvanceShifter,
              AdvanceArray, AdvanceActivation, HostTick
<1>2. mxu'.busy => mxu.busy
  <2>1. CASE StepArray
    BY <2>1 DEF StepArray, TypeInv, UnitsOK, MxuTypeOK
  <2>2. CASE UNCHANGED mxu
    BY <2>2
  <2> QED BY <2>1, <2>2
          DEF TickAdvances, AdvanceHost, AdvanceFifo, AdvanceShifter,
              AdvanceArray, AdvanceActivation, ArrayTick
<1>3. ActBusy' => ActBusy
  <2>1. CASE ActMoves
    BY <2>1 DEF ActMoves, TypeInv, UnitsOK, ActTypeOK
  <2>2. CASE UNCHANGED act
    BY <2>2 DEF ActBusy
  <2> QED BY <2>1, <2>2
          DEF TickAdvances, AdvanceHost, AdvanceFifo, AdvanceShifter,
              AdvanceArray, AdvanceActivation, ActTick
<1>4. /\ Len(activity') = Len(activity) /\ UNCHANGED unit_pc
      /\ activity' # << >> => activity # << >>
      /\ \A i \in 1 .. Len(activity) :
           /\ activity'[i].issued = activity[i].issued
           /\ activity'[i].host = activity[i].host
           /\ activity'[i].mxu = activity[i].mxu
           /\ activity'[i].activation = activity[i].activation
  <2>1. UNCHANGED unit_pc
    BY DEF TickAdvances, AdvanceHost, AdvanceFifo, AdvanceShifter,
           AdvanceArray, AdvanceActivation, Step
  <2>2. CASE UNCHANGED activity
    BY <2>1, <2>2
  <2>3. CASE activity' = [activity EXCEPT ![Len(activity)].shifting =
                            shifter.shadow_tile]
    <3> DEFINE n == Len(activity)
               e == [activity[n] EXCEPT !.shifting = shifter.shadow_tile]
    <3>1. activity \in Seq(CycleRecord) /\ activity # << >>
      BY DEF TypeInv, LogOK, TickAdvances, AdvanceHost, AdvanceFifo,
             AdvanceShifter, AdvanceArray, AdvanceActivation, Step
    <3>2. n \in 1 .. Len(activity) /\ activity[n] \in CycleRecord
      BY <3>1, EmptySeq, ElementOfSeq
    <3>3. /\ e \in CycleRecord /\ e.issued = activity[n].issued
          /\ e.host = activity[n].host /\ e.mxu = activity[n].mxu
          /\ e.activation = activity[n].activation
      <4>1. shifter.shadow_tile \in Int
        BY DEF TypeInv, UnitsOK, MxuTypeOK
      <4> QED BY <3>2, <4>1 DEF CycleRecord
    <3>4. activity' = [activity EXCEPT ![n] = e]
      BY <2>3
    <3> HIDE DEF e, n
    <3>5. /\ Len(activity') = Len(activity)
          /\ \A i \in 1 .. Len(activity) :
               activity'[i] = IF i = n THEN e ELSE activity[i]
      BY <3>1, <3>2, <3>3, <3>4, ExceptSeq
    <3> QED BY <2>1, <3>1, <3>3, <3>5
  <2> QED BY <2>2, <2>3
          DEF TickAdvances, AdvanceHost, AdvanceFifo, AdvanceShifter,
              AdvanceArray, AdvanceActivation
<1>5. Len(activity) \in Nat /\ (activity # << >> => Len(activity) # 0)
  BY EmptySeq, LenProperties DEF TypeInv, LogOK
<1>6. ASSUME NEW i \in 2 .. Len(activity')
      PROVE  Follows(activity'[i - 1], activity'[i])
  <2>1. i \in 2 .. Len(activity)
    BY <1>4
  <2>2. i \in 1 .. Len(activity) /\ i - 1 \in 1 .. Len(activity)
    BY <1>5, <2>1
  <2>3. Follows(activity[i - 1], activity[i])
    BY <2>1 DEF LogInv
  <2> QED BY <1>4, <2>2, <2>3 DEF Follows
<1>7. activity' # << >> =>
        /\ LastRecord'.host = LastRecord.host
        /\ LastRecord'.mxu = LastRecord.mxu
        /\ LastRecord'.activation = LastRecord.activation
  BY <1>4, <1>5 DEF LastRecord
<1> QED BY <1>1, <1>2, <1>3, <1>4, <1>6, <1>7 DEF LogInv

LEMMA NextLogInv == TypeInv /\ LogInv /\ [Next]_vars => LogInv'
<1> SUFFICES ASSUME TypeInv, LogInv, [Next]_vars PROVE LogInv'
  OBVIOUS
<1>1. TypeInv'
  BY NextTypeInv
<1>2. CASE TickThrows \/ TickHalted \/ UNCHANGED vars
  <2>1. UNCHANGED <<activity, unit_pc, hif, mxu, act>>
    BY <1>2 DEF TickThrows, PastTheEnd, UnknownOpcode, Deadlock, Refused,
                Throw, TickHalted, vars, machine, units, control
  <2> QED BY <2>1 DEF LogInv, LastRecord, HostBusy, ActBusy
<1>3. CASE Stalled
  <2>1. /\ RecordCycle(stall', -1) /\ UNCHANGED <<hif, mxu, act, unit_pc>>
        /\ stall' \in Stalls /\ -1 \in Int
    BY <1>3, WhyBlockedType DEF Stalled, units
  <2>2. UNCHANGED <<HostBusy, mxu.busy, ActBusy>>
    BY <2>1 DEF HostBusy, ActBusy
  <2> QED BY <1>1, <2>1, <2>2, RecordFollows
<1>4. CASE TickIssues
  <2>1. RecordCycle("None", pc) /\ "None" \in Stalls /\ pc \in Int
    BY <1>4 DEF TickIssues, IssueHalt, IssueNopOrSync, IssueHostTransfer,
                IssueReadWeights, IssueMatrixMultiply, IssueActivate,
                Issued, Stalls, TypeInv, IssueOK
  <2>2. unit_pc \in [host : Int, mxu : Int, act : Int]
    BY DEF TypeInv, IssueOK
  <2>3. /\ UNCHANGED <<hif, unit_pc.host>> \/ unit_pc'.host = pc
        /\ UNCHANGED <<mxu, unit_pc.mxu>> \/ unit_pc'.mxu = pc
        /\ UNCHANGED <<act, unit_pc.act>> \/ unit_pc'.act = pc
    BY <1>4, <2>2 DEF TickIssues, IssueHalt, IssueNopOrSync,
                IssueHostTransfer, IssueReadWeights, IssueMatrixMultiply,
                IssueActivate, units, HostStart, FifoPush
  <2>4. /\ UNCHANGED <<HostBusy, unit_pc.host>> \/ unit_pc'.host = pc
        /\ UNCHANGED <<mxu.busy, unit_pc.mxu>> \/ unit_pc'.mxu = pc
        /\ UNCHANGED <<ActBusy, unit_pc.act>> \/ unit_pc'.act = pc
    BY <2>3 DEF HostBusy, ActBusy
  <2> QED BY <1>1, <2>1, <2>4, RecordFollows
<1>5. CASE TickAdvances
  BY <1>5, AdvanceLogInv
<1> QED BY <1>2, <1>3, <1>4, <1>5 DEF Next

(* However long the log, a unit never works on an instruction in it before   *)
(* the cycle that issued that instruction (tpu.cpp:334-356).                 *)
THEOREM LogStartsAtIssue == Spec => []TimelineStartsAtIssue
<1>1. Init => LogInv
  BY EmptySeq DEF Init, Loaded, ControlReset, LogInv
<1>2. LogInv => TimelineStartsAtIssue
  BY DEF LogInv, Follows, TimelineStartsAtIssue
<1> QED BY <1>1, <1>2, NextLogInv, InvariantTypes, PTL DEF Spec

-----------------------------------------------------------------------------
(* The array under way: which input row each processing element holds, and   *)
(* which partial sum.                                                        *)

(* The step counter says how far the wave has come; a free array has let it  *)
(* pass, which is what makes the next multiply find the grid empty.          *)
ArrayInv ==
  /\ Wavefront
  /\ mxu.busy  => mxu.step < TotalSteps
  /\ ~mxu.busy => mxu.rows = 0 \/ mxu.step >= TotalSteps

LEMMA MxuTypes ==
  ASSUME TypeInv
  PROVE  /\ mxu \in [busy : BOOLEAN, ub_row : Nat, acc_row : Nat, rows : Nat,
                     accumulate : BOOLEAN, step : Nat]
         /\ mxu.step \in Nat /\ mxu.rows \in Nat /\ mxu.ub_row \in Nat
         /\ Dim \in Nat /\ Dim > 0
BY MemoryAssumption DEF TypeInv, UnitsOK, MxuTypeOK

(* The row PE <<k, n>> should hold.                                          *)
WaveAt ==
  \A k, n \in Cols :
    grid[<<k, n>>].row = IF mxu.step - 1 - k - n \in 0 .. mxu.rows - 1
                         THEN mxu.step - 1 - k - n ELSE -1

LEMMA WavefrontAt == Wavefront <=> WaveAt
<1>1. \A pe \in PEs : \E k, n \in Cols : pe = <<k, n>>
  BY DEF PEs
<1>2. \A k, n \in Cols : <<k, n>> \in PEs /\ <<k, n>>[1] = k /\ <<k, n>>[2] = n
  BY DEF PEs
<1> QED BY <1>1, <1>2 DEF Wavefront, WaveAt

LEMMA InitArrayInv == Init => ArrayInv
<1> SUFFICES ASSUME Init PROVE ArrayInv
  OBVIOUS
<1>1. grid = EmptyGrid /\ mxu = MxuReset
  BY DEF Init, Loaded, UnitsReset, ControlReset
<1>2. \A k, n \in Cols : grid[<<k, n>>].row = -1
  BY <1>1 DEF EmptyGrid, EmptyPe, PEs
<1>3. Wavefront
  BY <1>1, <1>2, WavefrontAt DEF MxuReset, WaveAt
<1> QED BY <1>1, <1>3 DEF ArrayInv, MxuReset

(* A multiply starts in an empty grid.                                       *)
LEMMA DrainedGrid ==
  ASSUME TypeInv, ArrayInv, ~mxu.busy
  PROVE  \A k, n \in Cols : grid[<<k, n>>].row = -1
<1> SUFFICES ASSUME NEW k \in Cols, NEW n \in Cols
             PROVE  ~(mxu.step - 1 - k - n \in 0 .. mxu.rows - 1)
  BY WavefrontAt DEF ArrayInv, WaveAt
<1>1. k \in Int /\ n \in Int /\ k <= Dim - 1 /\ n <= Dim - 1
  BY MxuTypes DEF Cols
<1> QED BY <1>1, MxuTypes DEF ArrayInv, TotalSteps

LEMMA MxuStartArrayInv ==
  ASSUME TypeInv, ArrayInv, IssueMatrixMultiply
  PROVE  ArrayInv'
<1>1. /\ ~mxu.busy
      /\ UNCHANGED grid
      /\ mxu' = [busy |-> in.rows > 0, ub_row |-> in.ub_row,
                 acc_row |-> in.acc_row, rows |-> in.rows,
                 accumulate |-> in.accumulate, step |-> 0]
  BY DEF IssueMatrixMultiply, MxuStart, MxuAccepts
<1>2. in.rows \in Nat
  BY InType DEF IssueMatrixMultiply, Issuing, TypeInv, IssueOK, Instr
<1>3. \A k, n \in Cols : grid[<<k, n>>].row = -1
  BY <1>1, DrainedGrid
<1>4. Wavefront'
  <2>1. \A k, n \in Cols : ~(0 - 1 - k - n \in 0 .. in.rows - 1)
    BY <1>2, MxuTypes DEF Cols
  <2>2. WaveAt'
    BY <1>1, <1>3, <2>1 DEF WaveAt
  <2> QED BY <2>2, WavefrontAt, PTL
<1>5. /\ mxu'.busy  => mxu'.step < TotalSteps'
      /\ ~mxu'.busy => mxu'.rows = 0
  <2> DEFINE n == in.rows
  <2>0. /\ mxu'.step = 0 /\ mxu'.rows = n /\ mxu'.busy = (n > 0)
        /\ TotalSteps' = n + 2 * Dim - 1
    BY <1>1 DEF TotalSteps
  <2> HIDE DEF n
  <2>1. CASE n > 0
    <3>1. mxu'.busy
      BY <2>0, <2>1
    <3>2. 0 < n + 2 * Dim - 1
      BY <2>1, <1>2, MxuTypes DEF n
    <3> QED BY <2>0, <3>1, <3>2
  <2>2. CASE ~(n > 0)
    <3>1. ~mxu'.busy
      BY <2>0, <2>2
    <3>2. n = 0
      BY <2>2, <1>2 DEF n
    <3> QED BY <2>0, <3>1, <3>2
  <2> QED BY <2>1, <2>2
<1> QED BY <1>4, <1>5 DEF ArrayInv

(* A step moves every row one column to the right and feeds the next one in  *)
(* at the left edge, one feature later than the row of PEs above it.         *)
LEMMA StepArrayInv ==
  ASSUME TypeInv, ArrayInv, StepArray
  PROVE  ArrayInv'
<1>1. /\ mxu.busy
      /\ mxu'.step = mxu.step + 1
      /\ mxu'.rows = mxu.rows
      /\ mxu'.busy = (mxu.step + 1 # TotalSteps)
  BY MxuTypes DEF StepArray
<1>2. ASSUME NEW k \in Cols, NEW n \in Cols
      PROVE  grid'[<<k, n>>].row = IF mxu.step - k - n \in 0 .. mxu.rows - 1
                                   THEN mxu.step - k - n ELSE -1
  <2> DEFINE r == mxu.step - k - n
  <2>1. k \in Int /\ n \in Int /\ n >= 0 /\ <<k, n>> \in PEs
    BY MxuTypes DEF Cols, PEs
  <2>2. grid'[<<k, n>>] = NextPe(k, n)
    BY <2>1 DEF StepArray
  <2>3. Incoming(k, n).row = IF r \in 0 .. mxu.rows - 1 THEN r ELSE -1
    <3>1. CASE n > 0
      <4>1. n - 1 \in Cols
        BY <2>1, <3>1, MxuTypes DEF Cols
      <4>2. grid[<<k, n - 1>>].row =
              IF mxu.step - 1 - k - (n - 1) \in 0 .. mxu.rows - 1
              THEN mxu.step - 1 - k - (n - 1) ELSE -1
        BY <4>1, WavefrontAt DEF ArrayInv, WaveAt
      <4>3. mxu.step - 1 - k - (n - 1) = r
        BY <2>1, MxuTypes
      <4>4. Incoming(k, n).row = grid[<<k, n - 1>>].row
        BY <3>1 DEF Incoming
      <4> QED BY <4>2, <4>3, <4>4
    <3>2. CASE n = 0
      <4>1. r = mxu.step - k
        BY <2>1, <3>2, MxuTypes
      <4>2. ~(n > 0)
        BY <3>2
      <4> QED BY <3>2, <4>1, <4>2 DEF Incoming
    <3> QED BY <2>1, <3>1, <3>2
  <2>4. NextPe(k, n).row = Incoming(k, n).row
    <3>1. CASE Incoming(k, n).row < 0
      <4>1. Incoming(k, n).row = -1
        BY <2>1, <2>3, <3>1, MxuTypes
      <4> QED BY <3>1, <4>1 DEF NextPe, EmptyPe
    <3>2. CASE ~(Incoming(k, n).row < 0)
      BY <3>2 DEF NextPe
    <3> QED BY <3>1, <3>2
  <2> QED BY <2>2, <2>3, <2>4
<1>3. Wavefront'
  <2>1. \A k, n \in Cols : mxu'.step - 1 - k - n = mxu.step - k - n
    BY <1>1, MxuTypes DEF Cols
  <2>2. WaveAt'
    BY <1>1, <1>2, <2>1 DEF WaveAt
  <2> QED BY <2>2, WavefrontAt, PTL
<1>4. TotalSteps' = TotalSteps /\ TotalSteps \in Int
  BY <1>1, MxuTypes DEF TotalSteps
<1>5. /\ mxu'.busy  => mxu'.step < TotalSteps'
      /\ ~mxu'.busy => mxu'.step >= TotalSteps'
  <2>1. CASE mxu.step + 1 # TotalSteps
    <3>1. mxu'.busy
      BY <1>1, <2>1
    <3> QED BY <1>1, <1>4, <2>1, <3>1, MxuTypes DEF ArrayInv
  <2>2. CASE mxu.step + 1 = TotalSteps
    <3>1. ~mxu'.busy
      BY <1>1, <2>2
    <3> QED BY <1>1, <1>4, <2>2, <3>1, MxuTypes
  <2> QED BY <2>1, <2>2
<1> QED BY <1>3, <1>5 DEF ArrayInv

LEMMA NextArrayInv == TypeInv /\ ArrayInv /\ [Next]_vars => ArrayInv'
<1> SUFFICES ASSUME TypeInv, ArrayInv, [Next]_vars PROVE ArrayInv'
  OBVIOUS
<1>1. CASE IssueMatrixMultiply
  BY <1>1, MxuStartArrayInv
<1>2. CASE StepArray
  BY <1>2, StepArrayInv
<1>3. CASE UNCHANGED <<mxu, grid>>
  BY <1>3 DEF ArrayInv, Wavefront, TotalSteps
<1> QED BY <1>1, <1>2, <1>3
        DEF Next, TickThrows, PastTheEnd, UnknownOpcode, Deadlock, Refused,
            Throw, Stalled, TickIssues, IssueHalt, IssueNopOrSync,
            IssueHostTransfer, IssueReadWeights, IssueActivate, TickAdvances,
            AdvanceHost, AdvanceFifo, AdvanceShifter, AdvanceArray, ArrayTick,
            AdvanceActivation, TickHalted, vars, machine, units

(* Two input rows never meet in the array, whatever its side, and the grid   *)
(* is empty again before the array calls itself free.                        *)
THEOREM RowsNeverMeet == Spec => []Wavefront
<1>1. ArrayInv => Wavefront
  BY DEF ArrayInv
<1> QED BY <1>1, InitArrayInv, NextArrayInv, InvariantTypes, PTL DEF Spec

-----------------------------------------------------------------------------
(* What is written where. A unit that writes to the Unified Buffer leaves    *)
(* alone the rows that its operation does not cover.                         *)

LEMMA Division ==
  ASSUME NEW a \in Nat, NEW d \in Nat \ {0}
  PROVE  /\ (a \div d) \in Nat /\ (a % d) \in 0 .. d - 1
         /\ a = (d * (a \div d)) + (a % d)
BY Z3

LEMMA UbRowAt ==
  ASSUME NEW row \in Nat, NEW k \in Cols
  PROVE  /\ UbAt(row, k) \in Nat /\ UbAt(row, k) \div Dim = row
         /\ row < UbRows => UbAt(row, k) \in UbAddrs
<1> DEFINE d == Dim
           m == UbRows
<1>1. d \in Nat \ {0} /\ k \in 0 .. d - 1 /\ m \in Nat
  BY MemoryAssumption DEF Cols
<1> HIDE DEF d, m
<1>2. (row * d) + k \in Nat /\ ((row * d) + k) \div d = row
  BY <1>1, Z3
<1>3. row < m => (row * d) + k <= m * d - 1
  <2>1. row < m => (row + 1) * d <= m * d
    BY <1>1, Z3
  <2>2. (row + 1) * d = (row * d) + d /\ row * d \in Int /\ m * d \in Int
    BY <1>1, Z3
  <2> QED BY <1>1, <2>1, <2>2
<1> QED BY <1>2, <1>3 DEF d, m, UbAt, UbAddrs

LEMMA HostLeavesRows ==
  ASSUME TypeInv, HostTick, NEW row \in Nat, NEW k \in Cols, row < UbRows,
         hif.direction = "HostToUb" =>
           ~(HostBusy /\ Overlap(hif.ub_row, hif.rows, row, 1))
  PROVE  ub'[UbAt(row, k)] = ub[UbAt(row, k)]
<1> DEFINE a == UbAt(row, k)
           to == UbAt(hif.ub_row, 0)
<1>1. SUFFICES ASSUME HostBusy, hif.direction = "HostToUb",
                      ub' = Copied(ub, to, hostMem, hif.host_row * Dim,
                                   HostPiece)
               PROVE  ub'[a] = ub[a]
  BY DEF HostTick, HostMoves
<1>2. a \in DOMAIN ub
  BY UbRowAt DEF TypeInv, MemoriesOK, IsMemory
<1>3. a - to \notin HostPiece
  <2> DEFINE d == Dim
             u == hif.ub_row
             n == hif.rows
             done == hif.bytes_done
  <2>1. /\ d \in Nat \ {0} /\ k \in 0 .. d - 1 /\ u \in Nat /\ n \in Nat
        /\ done \in Nat
    BY MemoryAssumption DEF Cols, TypeInv, UnitsOK, HostTypeOK
  <2>2. ~(u <= row /\ row < u + n)
    BY <1>1, <2>1 DEF Overlap
  <2>3. /\ a = (row * d) + k /\ to = (u * d) + 0
        /\ HostPiece = done .. done + Least(n * d - done, HostBytesPerCycle) - 1
    BY DEF UbAt, HostPiece
  <2> HIDE DEF d, u, n, done, a, to
  <2>4. /\ n * d \in Nat /\ row * d \in Nat /\ u * d \in Nat
        /\ (u + n) * d = (u * d) + (n * d)
    BY <2>1, Z3
  <2>5. /\ row < u => (row * d) + d <= u * d
        /\ row >= u + n => row * d >= (u + n) * d
    <3>1. (row + 1) * d = (row * d) + d
      BY <2>1, Z3
    <3>2. row + 1 <= u => (row + 1) * d <= u * d
      BY <2>1, Z3
    <3>3. row >= u + n => row * d >= (u + n) * d
      BY <2>1, Z3
    <3> QED BY <2>1, <3>1, <3>2, <3>3
  <2>6. Least(n * d - done, HostBytesPerCycle) <= n * d - done
    BY <2>1, <2>4, HostAssumption DEF Least
  <2>7. Least(n * d - done, HostBytesPerCycle) \in Int
    BY <2>1, <2>4, HostAssumption DEF Least
  <2>8. CASE row < u
    BY <2>1, <2>3, <2>4, <2>5, <2>6, <2>7, <2>8
  <2>9. CASE row >= u + n
    BY <2>1, <2>3, <2>4, <2>5, <2>6, <2>7, <2>9
  <2> QED BY <2>1, <2>2, <2>8, <2>9
<1> HIDE DEF a, to
<1> QED BY <1>1, <1>2, <1>3 DEF Copied, a

(* The last pixel of a band sends it to rows below the count that the        *)
(* interlocks reckon with.                                                   *)
LEMMA PooledBand ==
  ASSUME NEW s \in Nat \ {0}, NEW w \in Nat \ {0}, NEW n \in Nat,
         w % s = 0, n % (w * s) = 0,
         NEW i \in Nat, i < n, NEW slot \in Nat, slot < w \div s
  PROVE  LET row == ((i \div w) \div s) * (w \div s) + slot
         IN  row \in Nat /\ row < n \div (s * s)
<1> DEFINE p == w \div s
           m == n \div (w * s)
           y == i \div w
           b == y \div s
<1>1. p \in Nat /\ w = s * p
  BY Division
<1>2. w * s \in Nat \ {0}
  BY Z3
<1>3. m \in Nat /\ n = (w * s) * m
  <2> DEFINE d == w * s
  <2>1. d \in Nat \ {0} /\ n % d = 0 /\ m = n \div d
    BY <1>2
  <2> HIDE DEF d, m
  <2>2. (n \div d) \in Nat /\ n = (d * (n \div d)) + (n % d)
    BY <2>1, Division
  <2>3. d * m \in Int
    BY <2>1, <2>2, Z3
  <2> QED BY <2>1, <2>2, <2>3 DEF d
<1>4. y \in Nat /\ i % w \in 0 .. w - 1 /\ i = (w * y) + (i % w)
  BY Division
<1>5. b \in Nat /\ y % s \in 0 .. s - 1 /\ y = (s * b) + (y % s)
  BY <1>4, Division
<1> HIDE DEF p, m, y, b
<1>6. y < s * m
  <2>1. n = w * (s * m) /\ s * m \in Nat /\ w * y \in Nat
    BY <1>3, <1>4, Z3
  <2>2. w * y < w * (s * m)
    BY <1>4, <2>1
  <2>3. y >= s * m => w * y >= w * (s * m)
    BY <1>4, <2>1, Z3
  <2> QED BY <1>4, <2>1, <2>2, <2>3
<1>7. b < m
  <2>1. s * b \in Nat /\ s * m \in Nat
    BY <1>3, <1>5, Z3
  <2>2. s * b < s * m
    BY <1>5, <1>6, <2>1
  <2>3. b >= m => s * b >= s * m
    BY <1>3, <1>5, Z3
  <2> QED BY <1>3, <1>5, <2>2, <2>3, <2>1
<1>8. (b * p) + slot < m * p
  <2>1. b + 1 <= m
    BY <1>3, <1>5, <1>7
  <2>2. (b + 1) * p <= m * p
    BY <1>1, <1>3, <1>5, <2>1, Z3
  <2>3. (b + 1) * p = (b * p) + p /\ b * p \in Nat /\ m * p \in Nat
    BY <1>1, <1>3, <1>5, Z3
  <2> QED BY <1>1, <2>2, <2>3 DEF p
<1>9. n \div (s * s) = m * p
  <2>1. s * s \in Nat \ {0} /\ m * p \in Nat
    BY <1>1, <1>3, Z3
  <2>2. n = (s * s) * (m * p)
    BY <1>1, <1>3, Z3
  <2>3. \A q \in Nat, d \in Nat \ {0} : (d * q) \div d = q
    BY Z3
  <2> QED BY <2>1, <2>2, <2>3
<1>10. b * p \in Nat
  BY <1>1, <1>5, Z3
<1> QED BY <1>8, <1>9, <1>10 DEF p, b, y

(* A pooling Activate has whole windows: encode and start() saw to it.       *)
PoolInv ==
  /\ program \in Programs
  /\ act.pool # "None" =>
       /\ act.pool_size > 0 /\ act.pool_width > 0
       /\ PoolShapeOK(act.rows_total, act.pool_size, act.pool_width)

LEMMA ActLeavesRows ==
  ASSUME TypeInv, PoolInv, ActTick, NEW row \in Nat, NEW k \in Cols,
         row < UbRows,
         ~(ActBusy /\ Overlap(act.ub_row, ActOutRows, row, 1))
  PROVE  ub'[UbAt(row, k)] = ub[UbAt(row, k)]
<1> DEFINE a == UbAt(row, k)
<1>1. a \in DOMAIN ub /\ a \div Dim = row
  BY UbRowAt DEF TypeInv, MemoriesOK, IsMemory
<1>2. SUFFICES ASSUME ActBusy, ActPlainRow \/ ActPoolRow
               PROVE  ub'[a] = ub[a]
  BY DEF ActTick, ActMoves
<1>3. /\ act.ub_row \in Nat /\ act.rows_total \in Nat /\ act.rows_done \in Nat
      /\ act.rows_done < act.rows_total
      /\ act.pool_size \in Nat /\ act.pool_width \in Nat
  BY <1>2 DEF TypeInv, UnitsOK, ActTypeOK, ActBusy
<1> HIDE DEF a
<1>4. CASE ActPlainRow
  <2>1. ActOutRows = act.rows_total
    BY <1>4 DEF ActPlainRow, ActOutRows, ActivateOutputRows
  <2>2. row # act.ub_row + act.rows_done
    BY <1>2, <1>3, <2>1 DEF Overlap
  <2> QED BY <1>1, <1>4, <2>2 DEF ActPlainRow
<1>5. CASE ActPoolRow
  <2> DEFINE s == act.pool_size
             w == act.pool_width
             n == act.rows_total
             y == act.rows_done \div w
             p == w \div s
             base == act.ub_row + (y \div s) * p
             out == n \div (s * s)
  <2>1. /\ s \in Nat \ {0} /\ w \in Nat \ {0} /\ w % s = 0 /\ n % (w * s) = 0
        /\ act.pool # "None"
    BY <1>3, <1>5 DEF ActPoolRow, PoolInv, PoolShapeOK
  <2>2. ActOutRows = out
    BY <2>1 DEF ActOutRows, ActivateOutputRows
  <2>3. s * s \in Nat \ {0} /\ y \in Nat
    BY <1>3, <2>1, Z3
  <2>4. p \in Nat /\ (y \div s) \in Nat /\ out \in Nat
    BY <1>3, <2>1, <2>3, Division
  <2>5. (y \div s) * p \in Nat /\ base \in Nat
    BY <1>3, <2>4, ProductNat
  <2>6. row - base \notin 0 .. p - 1
    <3>1. SUFFICES ASSUME row - base \in 0 .. p - 1 PROVE FALSE
      OBVIOUS
    <3> DEFINE slot == row - base
    <3>2. slot \in Nat /\ slot < p
      BY <2>4, <2>5, <3>1
    <3>3. (y \div s) * p + slot < out /\ (y \div s) * p + slot \in Nat
      <4> HIDE DEF slot
      <4> QED BY <1>3, <2>1, <3>2, PooledBand
    <3>4. row = act.ub_row + ((y \div s) * p + slot)
      BY <1>3, <2>5
    <3> HIDE DEF slot, y, p, s, w, n, out, base
    <3>5. Overlap(act.ub_row, out, row, 1)
      BY <1>3, <2>4, <3>3, <3>4 DEF Overlap
    <3> QED BY <1>2, <2>2, <3>5
  <2>7. ub' = [c \in DOMAIN ub |->
                 LET slot == c \div Dim - base
                 IN  IF /\ (y % s = s - 1 /\ act.rows_done % w = w - 1)
                        /\ slot \in 0 .. p - 1
                     THEN <<act.pool, line'[<<slot, c % Dim>>]>>
                     ELSE ub[c]]
    BY <1>5 DEF ActPoolRow
  <2> HIDE DEF s, w, n, y, p, base, out
  <2> QED BY <1>1, <2>6, <2>7
<1> QED BY <1>2, <1>4, <1>5

LEMMA NextPoolInv == TypeInv /\ PoolInv /\ [Next]_vars => PoolInv'
<1> SUFFICES ASSUME TypeInv, PoolInv, [Next]_vars PROVE PoolInv'
  OBVIOUS
<1>1. UNCHANGED program
  BY DEF Next, TickThrows, PastTheEnd, UnknownOpcode, Deadlock, Refused,
         Throw, Stalled, TickIssues, IssueHalt, IssueNopOrSync,
         IssueHostTransfer, IssueReadWeights, IssueMatrixMultiply,
         IssueActivate, Issued, Advance, TickAdvances, AdvanceHost,
         AdvanceFifo, AdvanceShifter, AdvanceArray, AdvanceActivation, Step,
         TickHalted, vars, machine, control
<1>2. CASE IssueActivate
  <2>1. ActStart(in.acc_row, in.ub_row, in.rows, in.function, in.pool,
                 in.pool_size, in.pool_width)
    BY <1>2 DEF IssueActivate
  <2>2. Encodable(in)
    <3>1. pc + 1 \in 1 .. Len(program) /\ program \in Seq(Instr)
      BY <1>2, LenProperties
         DEF IssueActivate, Issuing, AtInstr, TypeInv, IssueOK
    <3>2. pc + 1 \in DOMAIN program
      BY <3>1, LenProperties
    <3> QED BY <3>2, ProgramAssumption DEF PoolInv, in
  <2>3. /\ act'.pool = in.pool /\ act'.pool_size = in.pool_size
        /\ act'.pool_width = in.pool_width /\ act'.rows_total = in.rows
        /\ in.pool # "None" =>
             PoolShapeOK(in.rows, in.pool_size, in.pool_width)
    BY <2>1 DEF ActStart, ActAccepts
  <2> QED BY <1>1, <2>2, <2>3 DEF PoolInv, Encodable
<1>3. CASE ActMoves
  BY <1>1, <1>3 DEF ActMoves, PoolInv, TypeInv, UnitsOK, ActTypeOK
<1>4. CASE UNCHANGED act
  BY <1>1, <1>4 DEF PoolInv
<1> QED BY <1>2, <1>3, <1>4
        DEF Next, TickThrows, PastTheEnd, UnknownOpcode, Deadlock, Refused,
            Throw, Stalled, TickIssues, IssueHalt, IssueNopOrSync,
            IssueHostTransfer, IssueReadWeights, IssueMatrixMultiply,
            TickAdvances, AdvanceHost, AdvanceFifo, AdvanceShifter,
            AdvanceArray, AdvanceActivation, ActTick, TickHalted, vars,
            machine, units

-----------------------------------------------------------------------------
(* The sums                                                                  *)

SumOf(row, k, n) ==
  [j \in 1 .. k + 1 |-> <<ub[UbAt(row, j - 1)], ActivePlane[<<j - 1, n>>]>>]

(* Inductive: with its sum a PE passes on the activation it was computed     *)
(* from, and the rows of the multiply are rows of the Unified Buffer.        *)
SumsInv ==
  /\ mxu.ub_row + mxu.rows <= UbRows
  /\ \A k, n \in Cols : LET r == grid[<<k, n>>].row IN
       r >= 0 =>
         /\ grid[<<k, n>>].act = ub[UbAt(mxu.ub_row + r, k)]
         /\ grid[<<k, n>>].psum = SumOf(mxu.ub_row + r, k, n)

(* A row in the grid is one of a multiply under way.                         *)
LEMMA RowInGrid ==
  ASSUME TypeInv, ArrayInv, NEW k \in Cols, NEW n \in Cols,
         grid[<<k, n>>].row >= 0
  PROVE  /\ mxu.busy
         /\ grid[<<k, n>>].row \in Nat /\ grid[<<k, n>>].row < mxu.rows
         /\ grid[<<k, n>>].row = mxu.step - 1 - k - n
<1>1. grid[<<k, n>>].row = IF mxu.step - 1 - k - n \in 0 .. mxu.rows - 1
                           THEN mxu.step - 1 - k - n ELSE -1
  BY WavefrontAt DEF ArrayInv, WaveAt
<1>2. k \in Int /\ n \in Int
  BY DEF Cols
<1>3. mxu.busy
  BY DrainedGrid, MxuTypes
<1> QED BY <1>1, <1>2, <1>3, MxuTypes

(* The interlocks keep the rows of a multiply as they were.                  *)
LEMMA MxuRowsStay ==
  ASSUME TypeInv, PoolInv, NoRowConflict, SumsInv, mxu.busy,
         HostTick \/ ActTick \/ UNCHANGED ub,
         NEW r \in Nat, r < mxu.rows, NEW k \in Cols
  PROVE  ub'[UbAt(mxu.ub_row + r, k)] = ub[UbAt(mxu.ub_row + r, k)]
<1> DEFINE row == mxu.ub_row + r
<1>1. row \in Nat /\ row < UbRows
  BY MxuTypes, MemoryAssumption DEF SumsInv
<1>2. CASE HostTick
  <2>1. ASSUME hif.direction = "HostToUb", HostBusy,
               Overlap(hif.ub_row, hif.rows, row, 1)
        PROVE  FALSE
    <3>1. hif.ub_row \in Nat /\ hif.rows \in Nat
      BY DEF TypeInv, UnitsOK, HostTypeOK
    <3>2. Overlap(hif.ub_row, hif.rows, mxu.ub_row, mxu.rows)
      BY <2>1, <3>1, MxuTypes DEF Overlap
    <3> QED BY <2>1, <3>2 DEF NoRowConflict, HostSparesMxu, MxuReadsUbRows
  <2> HIDE DEF row
  <2> QED BY <1>1, <1>2, <2>1, HostLeavesRows DEF row
<1>3. CASE ActTick
  <2>1. ASSUME ActBusy, Overlap(act.ub_row, ActOutRows, row, 1)
        PROVE  FALSE
    <3>1. act.ub_row \in Nat /\ ActOutRows \in Nat
      <4>1. /\ act.ub_row \in Nat /\ act.rows_total \in Nat
            /\ act.pool_size \in Nat
        BY DEF TypeInv, UnitsOK, ActTypeOK
      <4>2. CASE act.pool = "None" \/ act.pool_size = 0
        BY <4>1, <4>2 DEF ActOutRows, ActivateOutputRows
      <4>3. CASE ~(act.pool = "None" \/ act.pool_size = 0)
        <5>1. act.pool_size * act.pool_size \in Nat \ {0}
          BY <4>1, <4>3, Z3
        <5>2. ActOutRows =
                act.rows_total \div (act.pool_size * act.pool_size)
          BY <4>3 DEF ActOutRows, ActivateOutputRows
        <5> QED BY <4>1, <5>1, <5>2, Division
      <4> QED BY <4>1, <4>2, <4>3
    <3>2. Overlap(act.ub_row, ActOutRows, mxu.ub_row, mxu.rows)
      BY <2>1, <3>1, MxuTypes DEF Overlap
    <3> QED BY <2>1, <3>2 DEF NoRowConflict, ActSparesMxu, MxuReadsUbRows
  <2> HIDE DEF row
  <2> QED BY <1>1, <1>3, <2>1, ActLeavesRows DEF row
<1>4. CASE UNCHANGED ub
  BY <1>4
<1> QED BY <1>2, <1>3, <1>4

(* Neither does the shifter reach the plane the array computes with.         *)
LEMMA ActivePlaneStays ==
  ASSUME TypeInv, ShiftWeights
  PROVE  ActivePlane' = ActivePlane
<1>1. shifter.active_plane \in 0 .. 1 /\ IsMemory(planes, 0 .. 1)
  BY DEF TypeInv, UnitsOK, MxuTypeOK
<1>2. shifter'.active_plane = shifter.active_plane
  BY DEF ShiftWeights, ShiftRow, TypeInv, UnitsOK, MxuTypeOK
<1>3. ShadowPlane # shifter.active_plane
  BY <1>1 DEF ShadowPlane
<1>4. planes'[shifter.active_plane] = planes[shifter.active_plane]
  BY <1>1, <1>3 DEF ShiftWeights, ShiftRow, IsMemory
<1> QED BY <1>2, <1>4 DEF ActivePlane

(* Where nothing the sums were made of changes, they hold.                   *)
LEMMA SumsStay ==
  ASSUME TypeInv, PoolInv, NoRowConflict, ArrayInv, SumsInv,
         HostTick \/ ActTick \/ UNCHANGED ub,
         UNCHANGED <<mxu, grid>>, ActivePlane' = ActivePlane
  PROVE  SumsInv'
<1>1. SUFFICES ASSUME NEW k \in Cols, NEW n \in Cols, grid[<<k, n>>].row >= 0
      PROVE  LET r == grid[<<k, n>>].row
             IN  /\ grid[<<k, n>>].act = ub'[UbAt(mxu.ub_row + r, k)]
                 /\ grid[<<k, n>>].psum = SumOf(mxu.ub_row + r, k, n)'
  BY DEF SumsInv
<1> DEFINE r == grid[<<k, n>>].row
<1>2. mxu.busy /\ r \in Nat /\ r < mxu.rows
  BY <1>1, RowInGrid
<1>3. \A i \in Cols : ub'[UbAt(mxu.ub_row + r, i)] = ub[UbAt(mxu.ub_row + r, i)]
  <2> HIDE DEF r
  <2> QED BY <1>2, MxuRowsStay
<1>4. SumOf(mxu.ub_row + r, k, n)' = SumOf(mxu.ub_row + r, k, n)
  <2>1. \A j \in 1 .. k + 1 : j - 1 \in Cols
    BY MxuTypes DEF Cols
  <2>2. \A j \in 1 .. k + 1 :
          <<ub'[UbAt(mxu.ub_row + r, j - 1)], ActivePlane'[<<j - 1, n>>]>>
            = <<ub[UbAt(mxu.ub_row + r, j - 1)], ActivePlane[<<j - 1, n>>]>>
    BY <1>3, <2>1
  <2> QED BY <2>2 DEF SumOf
<1>5. /\ grid[<<k, n>>].act = ub[UbAt(mxu.ub_row + r, k)]
      /\ grid[<<k, n>>].psum = SumOf(mxu.ub_row + r, k, n)
  BY <1>1 DEF SumsInv
<1> QED BY <1>3, <1>4, <1>5

(* A step hands each sum down and adds the product of the activation that    *)
(* came from the left, which is of the same input row.                       *)
LEMMA StepKeepsSums ==
  ASSUME TypeInv, ArrayInv, SumsInv, StepArray,
         UNCHANGED <<ub, planes, shifter>>
  PROVE  SumsInv'
<1>1. /\ mxu'.ub_row = mxu.ub_row /\ mxu'.rows = mxu.rows
      /\ ActivePlane' = ActivePlane
      /\ mxu.busy
  BY MxuTypes DEF StepArray, ActivePlane
<1>2. ASSUME NEW k \in Cols, NEW n \in Cols, grid'[<<k, n>>].row >= 0
      PROVE  LET r == grid'[<<k, n>>].row
             IN  /\ grid'[<<k, n>>].act = ub[UbAt(mxu.ub_row + r, k)]
                 /\ grid'[<<k, n>>].psum = SumOf(mxu.ub_row + r, k, n)
  <2> DEFINE w == Incoming(k, n)
             r == w.row
             above == IF k > 0 THEN grid[<<k - 1, n>>].psum ELSE << >>
             row == mxu.ub_row + r
             product(j) == <<ub[UbAt(row, j - 1)], ActivePlane[<<j - 1, n>>]>>
  <2>1. k \in Nat /\ n \in Nat /\ k < Dim /\ n < Dim /\ <<k, n>> \in PEs
    BY MxuTypes DEF Cols, PEs
  <2>2. grid'[<<k, n>>] = NextPe(k, n)
    BY <2>1 DEF StepArray
  <2>3. ~(r < 0)
    BY <1>2, <2>2 DEF NextPe, EmptyPe
  <2>4. /\ grid'[<<k, n>>].row = r /\ grid'[<<k, n>>].act = w.act
        /\ grid'[<<k, n>>].psum =
             Append(above, <<w.act, ActivePlane[<<k, n>>]>>)
    <3>1. NextPe(k, n) =
            [row |-> r, act |-> w.act,
             psum |-> Append(above, <<w.act, ActivePlane[<<k, n>>]>>)]
      <4> HIDE DEF above
      <4>1. NextPe(k, n) =
              IF r < 0 THEN EmptyPe
              ELSE [row |-> r, act |-> w.act,
                    psum |-> Append(above, <<w.act, ActivePlane[<<k, n>>]>>)]
        BY DEF NextPe, above
      <4> HIDE DEF w
      <4> QED BY <2>3, <4>1
    <3> HIDE DEF w, above
    <3> QED BY <2>2, <3>1
  <2>5. r \in Nat /\ r < mxu.rows /\ r = mxu.step - k - n
        /\ w.act = ub[UbAt(row, k)]
    <3>1. CASE n > 0
      <4>1. n - 1 \in Cols /\ n - 1 \in Nat
        BY <2>1, <3>1, MxuTypes DEF Cols
      <4>2. r = grid[<<k, n - 1>>].row /\ w.act = grid[<<k, n - 1>>].act
        BY <3>1 DEF Incoming
      <4>3. grid[<<k, n - 1>>].row >= 0
        <5>1. grid[<<k, n - 1>>].row \in Int
          BY <4>1, <2>1, WavefrontAt, MxuTypes DEF ArrayInv, WaveAt
        <5> QED BY <1>2, <2>4, <4>2
      <4>4. /\ r \in Nat /\ r < mxu.rows /\ r = mxu.step - 1 - k - (n - 1)
        BY <4>1, <4>2, <4>3, RowInGrid
      <4>5. w.act = ub[UbAt(row, k)]
        BY <4>1, <4>2, <4>3 DEF SumsInv
      <4> QED BY <2>1, <4>4, <4>5, MxuTypes
    <3>2. CASE n = 0
      <4> DEFINE s == mxu.step - k
      <4>1. s \in Int /\ ~(n > 0)
        BY <2>1, <3>2, MxuTypes
      <4>2. CASE s \in 0 .. mxu.rows - 1
        <5>1. r = s /\ w.act = ub[UbAt(mxu.ub_row + s, k)]
          BY <3>2, <4>1, <4>2 DEF Incoming
        <5>2. s = mxu.step - k - n
          BY <2>1, <3>2, MxuTypes
        <5> HIDE DEF s
        <5> QED BY <4>1, <4>2, <5>1, <5>2, MxuTypes
      <4>3. CASE s \notin 0 .. mxu.rows - 1
        <5>1. r = -1
          BY <3>2, <4>1, <4>3 DEF Incoming
        <5> HIDE DEF r
        <5> QED BY <2>3, <5>1
      <4> QED BY <4>2, <4>3
    <3> QED BY <2>1, <3>1, <3>2
  <2>6. above = [j \in 1 .. k |-> product(j)]
    <3>1. CASE k > 0
      <4>1. k - 1 \in Cols /\ k - 1 \in Nat /\ (k - 1) + 1 = k
        BY <2>1, <3>1, MxuTypes DEF Cols
      <4>2. grid[<<k - 1, n>>].row = r
        <5>1. grid[<<k - 1, n>>].row =
                IF mxu.step - 1 - (k - 1) - n \in 0 .. mxu.rows - 1
                THEN mxu.step - 1 - (k - 1) - n ELSE -1
          BY <4>1, WavefrontAt DEF ArrayInv, WaveAt
        <5>2. mxu.step - 1 - (k - 1) - n = r
          BY <2>1, <2>5, MxuTypes
        <5>3. r \in 0 .. mxu.rows - 1
          BY <2>5, MxuTypes
        <5> HIDE DEF r
        <5> QED BY <5>1, <5>2, <5>3
      <4>3. r >= 0
        BY <2>5
      <4>4. grid[<<k - 1, n>>].psum = SumOf(row, k - 1, n)
        BY <4>1, <4>2, <4>3 DEF SumsInv
      <4> QED BY <3>1, <4>1, <4>4 DEF SumOf
    <3>2. CASE k = 0
      <4>1. above = << >> /\ 1 .. k = {} /\ 1 .. 0 = {}
        BY <3>2
      <4>2. << >> \in [1 .. 0 -> {}]
        BY EmptySeq, LenProperties
      <4>3. \A f \in [1 .. k -> {}] : f = [j \in 1 .. k |-> product(j)]
        BY <4>1
      <4> QED BY <4>1, <4>2, <4>3
    <3> QED BY <2>1, <3>1, <3>2
  <2>7. Append(above, product(k + 1)) = [j \in 1 .. k + 1 |-> product(j)]
    <3> HIDE DEF above
    <3> QED BY <2>1, <2>6
  <2>8. product(k + 1) = <<w.act, ActivePlane[<<k, n>>]>>
    <3>1. (k + 1) - 1 = k
      BY <2>1
    <3> QED BY <2>5, <3>1
  <2>9. grid'[<<k, n>>].psum = SumOf(row, k, n)
    BY <2>4, <2>7, <2>8 DEF SumOf
  <2> QED BY <2>4, <2>5, <2>9
<1>3. ASSUME NEW row, NEW k \in Cols, NEW n \in Cols
      PROVE  SumOf(row, k, n)' = SumOf(row, k, n)
  BY <1>1 DEF SumOf
<1> QED BY <1>1, <1>2, <1>3 DEF SumsInv

LEMMA NextSumsInv ==
  TypeInv /\ PoolInv /\ NoRowConflict /\ ArrayInv /\ SumsInv /\ [Next]_vars
    => SumsInv'
<1> SUFFICES ASSUME TypeInv, PoolInv, NoRowConflict, ArrayInv, SumsInv,
                    [Next]_vars
             PROVE  SumsInv'
  OBVIOUS
<1>1. CASE IssueMatrixMultiply
  <2>1. /\ ~mxu.busy /\ UNCHANGED grid
        /\ mxu'.ub_row + mxu'.rows <= UbRows
    BY <1>1 DEF IssueMatrixMultiply, MxuStart, MxuAccepts, Fits
  <2>2. \A k, n \in Cols : grid'[<<k, n>>].row = -1
    BY <2>1, DrainedGrid
  <2> QED BY <2>1, <2>2 DEF SumsInv
<1>2. CASE AdvanceArray /\ StepArray
  BY <1>2, StepKeepsSums DEF AdvanceArray
<1>3. CASE AdvanceShifter
  <2>1. ActivePlane' = ActivePlane /\ UNCHANGED <<mxu, grid, ub>>
    BY <1>3, ActivePlaneStays DEF AdvanceShifter, memories
  <2> QED BY <2>1, SumsStay
<1>4. CASE /\ UNCHANGED <<mxu, grid, planes, shifter>>
           /\ HostTick \/ ActTick \/ UNCHANGED ub
  <2>1. ActivePlane' = ActivePlane
    BY <1>4 DEF ActivePlane
  <2> QED BY <1>4, <2>1, SumsStay
<1>5. CASE IssueActivate \/ IssueHostTransfer
  <2>1. UNCHANGED <<mxu, grid, planes, shifter, ub>>
    BY <1>5 DEF IssueActivate, IssueHostTransfer, ActStart, HostStart
  <2> QED BY <1>4, <2>1
<1> QED BY <1>1, <1>2, <1>3, <1>4, <1>5
        DEF Next, TickThrows, PastTheEnd, UnknownOpcode, Deadlock, Refused,
            Throw, Stalled, TickIssues, IssueHalt, IssueNopOrSync,
            IssueReadWeights, TickAdvances, AdvanceHost, AdvanceFifo,
            AdvanceArray, ArrayTick, AdvanceActivation, TickHalted, vars,
            machine, units, memories

(* For every side of the array a PE's partial sum is that of its own input   *)
(* row with its own column of the active plane, however the host and the     *)
(* activation unit fill the Unified Buffer and the shifter the other plane.  *)
THEOREM SumsAreTheirRows == Spec => []PartialSums
<1>1. Init => SumsInv /\ PoolInv
  <2> SUFFICES ASSUME Init PROVE SumsInv /\ PoolInv
    OBVIOUS
  <2>1. grid = EmptyGrid /\ mxu = MxuReset /\ act = ActReset
        /\ program \in Programs
    BY DEF Init, Loaded, UnitsReset, ControlReset
  <2>2. \A k, n \in Cols : grid[<<k, n>>].row = -1
    BY <2>1 DEF EmptyGrid, EmptyPe, PEs
  <2> QED BY <2>1, <2>2, MemoryAssumption DEF SumsInv, MxuReset, PoolInv,
                                             ActReset
<1>2. SumsInv => PartialSums
  <2>1. \A pe \in PEs : pe[1] \in Cols /\ pe[2] \in Cols
                        /\ pe = <<pe[1], pe[2]>>
    BY DEF PEs
  <2> QED BY <2>1 DEF SumsInv, PartialSums, SumOf
<1> QED BY <1>1, <1>2, NextSumsInv, NextPoolInv, UnitsNeverMeet, InvariantTypes,
           InitArrayInv, NextArrayInv, PTL DEF Spec

-----------------------------------------------------------------------------
(* How long the array is busy                                                *)

(* The steps one instruction keeps the array for.                            *)
StepsOf(i) == IF program[i].op = "MatrixMultiply" /\ program[i].rows > 0
              THEN program[i].rows + 2 * Dim - 1 ELSE 0

LEMMA StepsUpToIs ==
  ASSUME program \in Seq(Instr), NEW i \in 0 .. Len(program)
  PROVE  StepsUpTo[i] = IF i = 0 THEN 0 ELSE StepsUpTo[i - 1] + StepsOf(i)
<1> DEFINE N == Len(program)
           c == [j \in 1 .. N |-> StepsOf(j)]
<1>1. N \in Nat
  BY LenProperties
<1>2. PICK g : g = [j \in 0 .. N |-> IF j = 0 THEN 0 ELSE g[j - 1] + c[j]]
  BY <1>1, RunningSum
<1>3. [j \in 0 .. N |-> IF j = 0 THEN 0 ELSE g[j - 1] + c[j]]
        = [j \in 0 .. N |-> IF j = 0 THEN 0 ELSE g[j - 1] + StepsOf(j)]
  <2>1. \A j \in 0 .. N : j # 0 => c[j] = StepsOf(j)
    BY <1>1
  <2> HIDE DEF c, N
  <2> QED BY <2>1
<1> HIDE DEF c
<1>4. \E f : f = [j \in 0 .. N |-> IF j = 0 THEN 0 ELSE f[j - 1] + StepsOf(j)]
  BY <1>2, <1>3
<1>5. StepsUpTo = [j \in 0 .. N |->
                     IF j = 0 THEN 0 ELSE StepsUpTo[j - 1] + StepsOf(j)]
  BY <1>4 DEF StepsUpTo, StepsOf
<1> QED BY <1>5

(* Steps the multiply in the array has still to make, and the one this cycle *)
(* has made but not yet counted.                                             *)
StepsToGo == IF mxu.busy THEN TotalSteps - mxu.step ELSE 0
Uncounted == IF phase = "act" /\ before.working THEN 1 ELSE 0

(* Inductive: what is counted, what is not yet, and what is still to come.   *)
BusyInv ==
  /\ pc <= Len(program)
  /\ phase \in {"host", "fifo", "shift", "array"} => before.working = mxu.busy
  /\ stats.mxu_busy_cycles + StepsToGo + Uncounted = StepsUpTo[pc]

LEMMA StepsStay == UNCHANGED program => StepsUpTo' = StepsUpTo
BY DEF StepsUpTo

LEMMA BusyTypes ==
  ASSUME TypeInv
  PROVE  /\ stats.mxu_busy_cycles \in Nat /\ pc \in Nat
         /\ StepsToGo \in Int /\ Uncounted \in Nat /\ TotalSteps \in Int
         /\ mxu.step \in Nat /\ mxu.busy \in BOOLEAN
         /\ before.working \in BOOLEAN
         /\ program \in Seq(Instr) /\ Len(program) \in Nat
<1>1. stats.mxu_busy_cycles \in Nat /\ pc \in Nat /\ before.working \in BOOLEAN
      /\ program \in Seq(Instr)
  BY DEF TypeInv, StatsOK, IssueOK
<1>2. Len(program) \in Nat
  BY <1>1, LenProperties
<1>3. mxu.step \in Nat /\ mxu.busy \in BOOLEAN /\ mxu.rows \in Nat
  BY MxuTypes DEF TypeInv
<1>4. TotalSteps \in Int
  BY ONLY <1>3, MemoryAssumption DEF TotalSteps
<1>5. StepsToGo \in Int
  BY ONLY <1>3, <1>4 DEF StepsToGo
<1>6. Uncounted \in Nat
  BY DEF Uncounted
<1> QED BY <1>1, <1>2, <1>3, <1>4, <1>5, <1>6

LEMMA BusyTypesNext ==
  TypeInv' => (StepsToGo \in Int)'
<1>1. TypeInv => StepsToGo \in Int
  BY BusyTypes
<1> QED BY <1>1, PTL

(* An instruction that is not a multiply asks nothing of the array.          *)
LEMMA IssueBusyInv ==
  ASSUME TypeInv, BusyInv, TickIssues
  PROVE  BusyInv'
<1>1. /\ Issued /\ UNCHANGED program /\ phase = "issue" /\ phase' = "host"
      /\ pc < Len(program) /\ ~halted
  BY DEF TickIssues, IssueHalt, IssueNopOrSync, IssueHostTransfer,
         IssueReadWeights, IssueMatrixMultiply, IssueActivate, Issuing,
         Ticking, AtInstr, Issued, Advance
<1>2. /\ stats'.mxu_busy_cycles = stats.mxu_busy_cycles
      /\ before'.working = mxu'.busy
  BY <1>1 DEF Issued, Advance, TypeInv, StatsOK
<1>3. Uncounted = 0 /\ Uncounted' = 0
  BY <1>1 DEF Uncounted
<1>4. StepsUpTo' = StepsUpTo
  BY <1>1, StepsStay
<1>5. stats.mxu_busy_cycles + StepsToGo = StepsUpTo[pc]
  BY <1>3, BusyTypes DEF BusyInv
<1>6. CASE IssueHalt
  <2>1. UNCHANGED <<mxu, pc>>
    BY <1>6 DEF IssueHalt, Issued, units
  <2>2. StepsToGo' = StepsToGo
    BY <2>1 DEF StepsToGo, TotalSteps
  <2> QED BY <1>1, <1>2, <1>3, <1>4, <1>5, <2>1, <2>2, BusyTypes DEF BusyInv
<1>7. CASE ~IssueHalt
  <2>1. pc' = pc + 1 /\ pc + 1 \in 0 .. Len(program) /\ pc + 1 # 0
        /\ (pc + 1) - 1 = pc
    <3>1. UNCHANGED halted
      BY <1>7 DEF TickIssues, IssueNopOrSync, IssueHostTransfer,
                  IssueReadWeights, IssueMatrixMultiply, IssueActivate
    <3> QED BY <1>1, <3>1, BusyTypes DEF Issued
  <2>2. StepsUpTo[pc + 1] = StepsUpTo[pc] + StepsOf(pc + 1)
    BY <2>1, BusyTypes, StepsUpToIs
  <2>3. StepsToGo' = StepsToGo + StepsOf(pc + 1)
    <3>1. CASE IssueMatrixMultiply
      <4>1. /\ ~mxu.busy /\ in.op = "MatrixMultiply"
            /\ mxu' = [busy |-> in.rows > 0, ub_row |-> in.ub_row,
                       acc_row |-> in.acc_row, rows |-> in.rows,
                       accumulate |-> in.accumulate, step |-> 0]
        BY <3>1 DEF IssueMatrixMultiply, Issuing, MxuStart, MxuAccepts
      <4>2. in.rows \in Nat
        <5>1. in \in Instr
          BY <3>1, InType DEF IssueMatrixMultiply, Issuing, TypeInv, IssueOK
        <5> QED BY <5>1 DEF Instr
      <4>3. StepsToGo = 0
        BY <4>1 DEF StepsToGo
      <4>4. StepsToGo' = IF in.rows > 0 THEN in.rows + 2 * Dim - 1 ELSE 0
        <5> DEFINE n == in.rows
        <5>1. mxu'.busy = (n > 0)
          BY ONLY <4>1
        <5>2. mxu'.rows = n /\ mxu'.step = 0
          BY ONLY <4>1
        <5>3. StepsToGo' = IF mxu'.busy THEN TotalSteps' - mxu'.step ELSE 0
          BY DEF StepsToGo
        <5>4. TotalSteps' = mxu'.rows + 2 * Dim - 1
          BY DEF TotalSteps
        <5> HIDE DEF n
        <5>5. TotalSteps' = n + 2 * Dim - 1 /\ TotalSteps' \in Int
          BY ONLY <4>2, <5>2, <5>4, MemoryAssumption DEF n
        <5>6. CASE n > 0
          <6>1. StepsToGo' = TotalSteps' - 0
            BY ONLY <5>1, <5>2, <5>3, <5>6
          <6> QED BY ONLY <5>5, <5>6, <6>1 DEF n
        <5>7. CASE ~(n > 0)
          <6>1. StepsToGo' = 0
            BY ONLY <5>1, <5>3, <5>7
          <6> QED BY ONLY <5>7, <6>1 DEF n
        <5> QED BY ONLY <5>6, <5>7
      <4>5. StepsOf(pc + 1) = IF in.rows > 0 THEN in.rows + 2 * Dim - 1 ELSE 0
        BY <4>1 DEF StepsOf, in
      <4> QED BY <4>2, <4>3, <4>4, <4>5, MemoryAssumption
    <3>2. CASE ~IssueMatrixMultiply
      <4>1. in.op # "MatrixMultiply" /\ UNCHANGED mxu
        BY <1>7, <3>2 DEF TickIssues, IssueNopOrSync, IssueHostTransfer,
           IssueReadWeights, IssueActivate, Issuing, units
      <4>2. StepsToGo' = StepsToGo
        BY <4>1 DEF StepsToGo, TotalSteps
      <4>3. StepsOf(pc + 1) = 0
        BY <4>1 DEF StepsOf, in
      <4> QED BY <4>2, <4>3, BusyTypes
    <3> QED BY <3>1, <3>2
  <2>4. StepsToGo \in Int /\ StepsToGo' \in Int /\ StepsUpTo[pc] \in Int
        /\ StepsOf(pc + 1) \in Int
    <3>1. StepsUpTo[pc] \in Int
      BY <1>5, BusyTypes
    <3>2. StepsOf(pc + 1) \in Int
      <4>1. program[pc + 1] \in Instr
        BY <2>1, BusyTypes, LenProperties
      <4> QED BY <4>1, MemoryAssumption DEF StepsOf, Instr
    <3> QED BY <2>3, <3>1, <3>2, BusyTypes
  <2>5. stats'.mxu_busy_cycles + StepsToGo' + Uncounted' = StepsUpTo'[pc']
    <3>1. stats'.mxu_busy_cycles + StepsToGo' + Uncounted'
            = (stats.mxu_busy_cycles + StepsToGo) + StepsOf(pc + 1)
      BY <1>2, <1>3, <2>3, <2>4, BusyTypes
    <3> QED BY <1>4, <1>5, <2>1, <2>2, <3>1
  <2> QED BY <1>1, <1>2, <2>1, <2>5, BusyTypes DEF BusyInv
<1> QED BY <1>6, <1>7

LEMMA AdvanceBusyInv ==
  ASSUME TypeInv, TypeInv', BusyInv, TickAdvances
  PROVE  BusyInv'
<1>1. UNCHANGED <<program, pc, before>>
  BY DEF TickAdvances, AdvanceHost, AdvanceFifo, AdvanceShifter, AdvanceArray,
         AdvanceActivation, Step
<1>2. StepsUpTo' = StepsUpTo
  BY <1>1, StepsStay
<1>3. CASE AdvanceHost \/ AdvanceFifo \/ AdvanceShifter
  <2>1. /\ UNCHANGED <<mxu, stats>> /\ phase \in {"host", "fifo", "shift"}
        /\ phase' \in {"fifo", "shift", "array"}
    BY <1>3 DEF AdvanceHost, AdvanceFifo, AdvanceShifter, Step
  <2>2. StepsToGo' = StepsToGo /\ Uncounted' = 0 /\ Uncounted = 0
    BY <2>1 DEF StepsToGo, TotalSteps, Uncounted
  <2> QED BY <1>1, <1>2, <2>1, <2>2 DEF BusyInv
<1>4. CASE AdvanceArray
  <2>1. UNCHANGED stats /\ phase = "array" /\ phase' = "act"
        /\ before.working = mxu.busy
    BY <1>4 DEF AdvanceArray, Step, BusyInv
  <2>2. Uncounted = 0 /\ Uncounted' = IF before.working THEN 1 ELSE 0
    BY <1>1, <2>1 DEF Uncounted
  <2>3. StepsToGo' + Uncounted' = StepsToGo
    <3>1. CASE mxu.busy
      <4>1. /\ mxu'.busy = (mxu.step + 1 # TotalSteps)
            /\ mxu'.step = mxu.step + 1 /\ mxu'.rows = mxu.rows
        BY <1>4, <3>1, MxuTypes DEF AdvanceArray, ArrayTick, StepArray
      <4>2. StepsToGo' = IF mxu.step + 1 # TotalSteps
                         THEN TotalSteps - (mxu.step + 1) ELSE 0
        BY <4>1 DEF StepsToGo, TotalSteps
      <4>3. StepsToGo = TotalSteps - mxu.step /\ Uncounted' = 1
        BY <2>1, <2>2, <3>1 DEF StepsToGo
      <4> QED BY <4>2, <4>3, BusyTypes
    <3>2. CASE ~mxu.busy
      <4>1. UNCHANGED mxu
        BY <1>4, <3>2 DEF AdvanceArray, ArrayTick, StepArray
      <4> QED BY <2>1, <2>2, <3>2, <4>1 DEF StepsToGo
    <3> QED BY <3>1, <3>2
  <2>4. stats.mxu_busy_cycles + StepsToGo' + Uncounted' = StepsUpTo[pc]
    <3>1. StepsToGo' \in Int /\ Uncounted' \in Int
      <4>1. Uncounted' \in Int
        BY <2>2
      <4>2. StepsToGo' \in Int
        BY BusyTypesNext
      <4> QED BY <4>1, <4>2
    <3> QED BY <2>2, <2>3, <3>1, BusyTypes DEF BusyInv
  <2> QED BY <1>1, <1>2, <2>1, <2>4 DEF BusyInv
<1>5. CASE AdvanceActivation
  <2>1. UNCHANGED mxu /\ phase = "act" /\ phase' = "issue"
        /\ stats'.mxu_busy_cycles
             = stats.mxu_busy_cycles + (IF before.working THEN 1 ELSE 0)
    BY <1>5 DEF AdvanceActivation, Step, Counted
  <2>2. StepsToGo' = StepsToGo /\ Uncounted' = 0
        /\ Uncounted = IF before.working THEN 1 ELSE 0
    BY <2>1 DEF StepsToGo, TotalSteps, Uncounted
  <2>3. stats'.mxu_busy_cycles + StepsToGo' + Uncounted' = StepsUpTo[pc]
    <3>1. (IF before.working THEN 1 ELSE 0) \in Nat
      OBVIOUS
    <3> QED BY <2>1, <2>2, <3>1, BusyTypes DEF BusyInv
  <2> QED BY <1>1, <1>2, <2>1, <2>3 DEF BusyInv
<1> QED BY <1>3, <1>4, <1>5 DEF TickAdvances

LEMMA NextBusyInv == TypeInv /\ BusyInv /\ [Next]_vars => BusyInv'
<1> SUFFICES ASSUME TypeInv, BusyInv, [Next]_vars PROVE BusyInv'
  OBVIOUS
<1>1. CASE TickThrows \/ TickHalted \/ UNCHANGED vars
  <2>1. UNCHANGED <<program, pc, mxu, stats, phase, before>>
    BY <1>1 DEF TickThrows, PastTheEnd, UnknownOpcode, Deadlock, Refused,
                Throw, TickHalted, vars, machine, control, units
  <2>2. StepsUpTo' = StepsUpTo
    BY <2>1, StepsStay
  <2> QED BY <2>1, <2>2 DEF BusyInv, StepsToGo, TotalSteps, Uncounted
<1>2. CASE Stalled
  <2>1. /\ UNCHANGED <<program, pc, mxu, stats>>
        /\ phase = "issue" /\ phase' = "host" /\ before'.working = mxu'.busy
    BY <1>2 DEF Stalled, Ticking, Advance, units
  <2>2. StepsUpTo' = StepsUpTo
    BY <2>1, StepsStay
  <2>3. StepsToGo' = StepsToGo /\ Uncounted' = Uncounted
    BY <2>1 DEF StepsToGo, TotalSteps, Uncounted
  <2> QED BY <2>1, <2>2, <2>3 DEF BusyInv
<1>3. CASE TickIssues
  BY <1>3, IssueBusyInv
<1>4. CASE TickAdvances
  BY <1>4, AdvanceBusyInv, NextTypeInv
<1> QED BY <1>1, <1>2, <1>3, <1>4 DEF Next

LEMMA InitBusyInv == Init => BusyInv
<1> SUFFICES ASSUME Init PROVE BusyInv
  OBVIOUS
<1>1. /\ pc = 0 /\ mxu = MxuReset /\ stats = StatsReset /\ phase = "issue"
      /\ program \in Seq(Instr)
  BY ProgramAssumption DEF Init, Loaded, UnitsReset, ControlReset
<1>2. Len(program) \in Nat
  BY <1>1, LenProperties
<1>3. StepsUpTo[0] = 0
  BY <1>1, <1>2, StepsUpToIs
<1> QED BY <1>1, <1>2, <1>3
        DEF BusyInv, StepsToGo, Uncounted, MxuReset, StatsReset

(* However multiplies, shifts and stalls overlap, at every boundary between  *)
(* two cycles the busy cycles counted and the steps still to make are those  *)
(* the multiplies issued so far take, B + 2 * Dim - 1 for each of B rows.    *)
THEOREM BusyCyclesAreExact == Spec => []BusyCyclesExact
<1>1. TypeInv /\ BusyInv => BusyCyclesExact
  BY BusyTypes DEF BusyInv, BusyCyclesExact, StepsToGo, Uncounted
<1> QED BY <1>1, InitBusyInv, NextBusyInv, InvariantTypes, PTL DEF Spec

-----------------------------------------------------------------------------
(* The cycle as a function: what the phases make of any machine m, a tuple   *)
(* <<memories, units, control>>, with b as tick()'s locals. Of the machine   *)
(* the variables hold it is what they make of those.                         *)

On(m, b) ==
  INSTANCE Cycle WITH
    ub <- m[1][1], acc <- m[1][2], hostMem <- m[1][3],
    hif <- m[2][1], fifo <- m[2][2], planes <- m[2][3], shifter <- m[2][4],
    mxu <- m[2][5], grid <- m[2][6], act <- m[2][7], line <- m[2][8],
    program <- m[3][1], pc <- m[3][2], halted <- m[3][3], stall <- m[3][4],
    stats <- m[3][5], activity <- m[3][6], unit_pc <- m[3][7],
    phase <- "issue", before <- b, error <- "none"

LEMMA HostOn ==
  ASSUME NEW b
  PROVE  On(machine, b)!AfterHost = AfterHost
BY DEF On!AfterHost, AfterHost, On!MovedUb, MovedUb, On!MovedHostMem,
       MovedHostMem, On!MovedHif, MovedHif, On!HostBusy, HostBusy, On!Copied,
       Copied, On!HostPiece, HostPiece, On!UbAt, UbAt, On!Least, Least,
       On!control, control, machine, memories, units

LEMMA FifoOn ==
  ASSUME NEW b
  PROVE  On(machine, b)!AfterFifo = AfterFifo
BY DEF On!AfterFifo, AfterFifo, On!FilledFifo, FilledFifo, On!FifoFetching,
       FifoFetching, On!IsFilling, IsFilling, On!Ready, Ready, On!TileBytes,
       TileBytes, On!Least, Least, On!memories, memories, On!control, control,
       machine, units

LEMMA ShiftOn ==
  ASSUME NEW b
  PROVE  On(machine, b)!AfterShift = AfterShift
BY DEF On!AfterShift, AfterShift, On!ShiftedFifo, ShiftedFifo,
       On!ShiftedPlanes, ShiftedPlanes, On!ShiftedShifter, ShiftedShifter,
       On!ShiftsRow, ShiftsRow, On!FrontReady, FrontReady, On!Ready, Ready,
       On!TileBytes, TileBytes, On!ShadowPlane, ShadowPlane, On!PEs, PEs,
       On!Cols, Cols, On!SlotByte, SlotByte, On!Zero, Zero, On!memories,
       memories, On!control, control, machine, units

LEMMA ArrayOn ==
  ASSUME NEW b
  PROVE  On(machine, b)!AfterArray = AfterArray
<1> DEFINE M == machine
<1>1. ASSUME NEW k, NEW n PROVE On(machine, b)!NextPe(k, n) = NextPe(k, n)
  BY DEF On!NextPe, NextPe, On!Incoming, Incoming, On!ActivePlane, ActivePlane,
         On!EmptyPe, EmptyPe, On!UbAt, UbAt, On!Zero, Zero, machine, memories,
         units, control
<1>2. On(machine, b)!SteppedGrid = SteppedGrid
  BY <1>1 DEF On!SteppedGrid, SteppedGrid, On!PEs, PEs, On!Cols, Cols, machine,
              memories, units, control
<1>3. ASSUME NEW g PROVE On(machine, b)!Drained(g) = Drained(g)
  BY DEF On!Drained, Drained, machine, memories, units, control
<1> QED
  BY <1>2, <1>3 DEF On!AfterArray, AfterArray, On!TotalSteps, TotalSteps,
                    On!machine, machine, On!memories, memories, On!units,
                    units, On!control, control

LEMMA BeforeOn ==
  ASSUME NEW b
  PROVE  (On(machine, b)!Before)' = Before'
BY DEF On!Before, Before, machine, memories, units, control

LEMMA ActOn == On(machine, before)!AfterAct = AfterAct
BY DEF On!AfterAct, AfterAct, On!ActedUb, ActedUb, On!ActedLine, ActedLine,
       On!ActedAct, ActedAct, On!ActBusy, ActBusy, On!PlainUb, PlainUb,
       On!PooledUb, PooledUb, On!PooledLine, PooledLine, On!PixelRow, PixelRow,
       On!PixelColumn, PixelColumn, On!Value, Value, On!Activated, Activated,
       On!FirstInWindow, FirstInWindow, On!Counted, Counted, On!CountedLog,
       CountedLog, On!Shifted, Shifted, machine, memories, units, control

LEMMA IssueOn ==
  ASSUME NEW s, NEW b, NEW m,
         m = <<memories, units, <<program, pc, halted, s, stats, activity,
                                  unit_pc>>>>
  PROVE  On(m, b)!AfterIssue = AfterIssue
<1>1. /\ ub = m[1][1] /\ acc = m[1][2] /\ hostMem = m[1][3]
      /\ hif = m[2][1] /\ fifo = m[2][2] /\ planes = m[2][3]
      /\ shifter = m[2][4] /\ mxu = m[2][5] /\ grid = m[2][6]
      /\ act = m[2][7] /\ line = m[2][8]
      /\ program = m[3][1] /\ pc = m[3][2] /\ halted = m[3][3]
      /\ stats = m[3][5] /\ activity = m[3][6] /\ unit_pc = m[3][7]
  BY DEF memories, units
<1>2. On(m, b)!in = in
  BY <1>1 DEF On!in, in
<1>3. ASSUME NEW i PROVE On(m, b)!WhyBlocked(i) = WhyBlocked(i)
  BY <1>1 DEF On!WhyBlocked, WhyBlocked, On!UnitsIdle, UnitsIdle, On!HostBusy,
              HostBusy, On!FifoFetching, FifoFetching, On!ActBusy, ActBusy,
              On!Shifting, Shifting, On!BlockedReadHost, BlockedReadHost,
              On!BlockedWriteHost, BlockedWriteHost, On!BlockedMatrixMultiply,
              BlockedMatrixMultiply, On!BlockedActivate, BlockedActivate,
              On!MxuReadsUbRows, MxuReadsUbRows, On!ActWritesUbRows,
              ActWritesUbRows, On!HostWritesUbRows, HostWritesUbRows,
              On!HostReadsUbRows, HostReadsUbRows, On!ActReadsAccRows,
              ActReadsAccRows, On!MxuWritesAccRows, MxuWritesAccRows,
              On!Overlap, Overlap, On!ActivateOutputRows, ActivateOutputRows,
              On!ActOutRows, ActOutRows, On!FifoFull, FifoFull, On!Ready,
              Ready, On!TileBytes, TileBytes
<1>4. On(m, b)!Goes = Goes
  BY <1>1, <1>2, <1>3
     DEF On!Goes, Goes
<1>5. ASSUME NEW ops PROVE On(m, b)!Starts(ops) = Starts(ops)
  BY <1>1, <1>2, <1>4
     DEF On!Starts, Starts
<1>6. On(m, b)!IssuedHif = IssuedHif
  BY <1>1, <1>2, <1>5
     DEF On!IssuedHif, IssuedHif, On!Transfers, Transfers
<1>7. On(m, b)!IssuedFifo = IssuedFifo
  BY <1>1, <1>2, <1>5
     DEF On!IssuedFifo, IssuedFifo
<1>8. On(m, b)!IssuedShifter = IssuedShifter
  BY <1>1, <1>2, <1>5
     DEF On!IssuedShifter, IssuedShifter, On!ShadowPlane, ShadowPlane
<1>9. On(m, b)!IssuedMxu = IssuedMxu
  BY <1>1, <1>2, <1>5
     DEF On!IssuedMxu, IssuedMxu
<1>10. On(m, b)!IssuedAct = IssuedAct
  BY <1>1, <1>2, <1>5
     DEF On!IssuedAct, IssuedAct
<1>11. On(m, b)!IssuedLine = IssuedLine
  BY <1>1, <1>2, <1>5
     DEF On!IssuedLine, IssuedLine, On!NoLine, NoLine, On!Cols, Cols
<1>12. On(m, b)!IssuedUnitPc = IssuedUnitPc
  BY <1>1, <1>2, <1>5
     DEF On!IssuedUnitPc, IssuedUnitPc, On!Transfers, Transfers
<1>13. ASSUME NEW q PROVE On(m, b)!FillingTile(q) = FillingTile(q)
  BY <1>1 DEF On!FillingTile, FillingTile, On!IsFilling, IsFilling, On!Ready,
              Ready, On!TileBytes, TileBytes
<1>14. On(m, b)!IssuedRecord = IssuedRecord
  BY <1>1, <1>2, <1>3, <1>4, <1>6, <1>7, <1>9, <1>10, <1>12, <1>13
     DEF On!IssuedRecord, IssuedRecord
<1>15. On(m, b)!IssuedLog = IssuedLog
  BY <1>1, <1>14 DEF On!IssuedLog, IssuedLog
<1>16. On(m, b)!IssuedControl = IssuedControl
  BY <1>1, <1>2, <1>3, <1>4, <1>5, <1>12, <1>15
     DEF On!IssuedControl, IssuedControl
<1>17. On(m, b)!IssuedUnits = IssuedUnits
  BY <1>1, <1>6, <1>7, <1>8, <1>9, <1>10, <1>11
     DEF On!IssuedUnits, IssuedUnits
<1> QED
  BY <1>1, <1>16, <1>17
     DEF On!AfterIssue, AfterIssue, On!memories, memories

-----------------------------------------------------------------------------
(* Each phase of a cycle does what the function says                         *)

LEMMA IssueIsFunction ==
  ASSUME Stalled \/ TickIssues
  PROVE  machine' = AfterIssue /\ before' = Before'
<1>1. before' = Before'
  BY DEF Stalled, TickIssues, IssueHalt, IssueNopOrSync, IssueHostTransfer,
         IssueReadWeights, IssueMatrixMultiply, IssueActivate, Issued, Advance,
         Before
<1>2. /\ memories' = memories
      /\ units' = IssuedUnits
      /\ <<program, pc, halted, stall, stats, unit_pc>>'
           = <<program,
               IF Goes /\ in.op # "Halt" THEN pc + 1 ELSE pc,
               IF Starts({"Halt"}) THEN TRUE ELSE halted,
               WhyBlocked(in),
               IF Goes THEN [stats EXCEPT !.issued = @ + 1] ELSE stats,
               IssuedUnitPc>>
      /\ RecordCycle(WhyBlocked(in), IF Goes THEN pc ELSE -1)
  <2> USE DEF memories, units, IssuedUnits, IssuedHif, IssuedFifo,
              IssuedShifter, IssuedMxu, IssuedAct, IssuedLine, IssuedUnitPc,
              Starts, Goes, Transfers, Advance
  <2>1. CASE Stalled
    BY <2>1 DEF Stalled
  <2>2. CASE IssueHalt
    BY <2>2 DEF IssueHalt, Issuing, Issued, Ticking
  <2>3. CASE IssueNopOrSync
    BY <2>3 DEF IssueNopOrSync, Issuing, Issued, Ticking
  <2>4. CASE IssueHostTransfer
    BY <2>4 DEF IssueHostTransfer, Issuing, Issued, Ticking, HostStart
  <2>5. CASE IssueReadWeights
    BY <2>5 DEF IssueReadWeights, Issuing, Issued, Ticking, FifoPush
  <2>6. CASE IssueMatrixMultiply
    BY <2>6 DEF IssueMatrixMultiply, Issuing, Issued, Ticking, MxuStart,
                SwitchPlanes
  <2>7. CASE IssueActivate
    BY <2>7 DEF IssueActivate, Issuing, Issued, Ticking, ActStart
  <2> QED BY <2>1, <2>2, <2>3, <2>4, <2>5, <2>6, <2>7 DEF TickIssues
<1>3. /\ hif' = IssuedHif /\ fifo' = IssuedFifo /\ mxu' = IssuedMxu
      /\ act' = IssuedAct /\ unit_pc' = IssuedUnitPc
  BY <1>2 DEF units, IssuedUnits
<1>4. Record(WhyBlocked(in), IF Goes THEN pc ELSE -1) = IssuedRecord
  BY <1>3 DEF Record, IssuedRecord, HostBusy, ActBusy
<1>5. activity' = IssuedLog
  BY <1>2, <1>4 DEF RecordCycle, IssuedLog
<1> QED BY <1>1, <1>2, <1>5 DEF machine, control, AfterIssue, IssuedControl

LEMMA HostIsFunction ==
  ASSUME AdvanceHost
  PROVE  machine' = AfterHost /\ before' = before
BY DEF AdvanceHost, Step, HostTick, HostMoves, AfterHost, MovedUb,
       MovedHostMem, MovedHif, machine, memories, units, control

(* The tile being filled is the first that is not ready, and there is but    *)
(* one first.                                                                *)
LEMMA FifoIsFunction ==
  ASSUME AdvanceFifo, fifo \in Seq(FifoTile)
  PROVE  machine' = AfterFifo /\ before' = before
<1>1. fifo' = FilledFifo
  <2>1. CASE FifoMoves
    <3>1. PICK i \in DOMAIN fifo :
            /\ IsFilling(fifo, i)
            /\ fifo' = [fifo EXCEPT ![i].bytes_arrived =
                          @ + Least(TileBytes - @, WeightBytesPerCycle)]
      BY <2>1 DEF FifoMoves, IsFilling
    <3>2. ASSUME NEW j \in DOMAIN fifo, IsFilling(fifo, j)
          PROVE  j = i
      <4>1. i \in Int /\ j \in Int /\ i >= 1 /\ j >= 1
        OBVIOUS
      <4>2. ~(i < j) /\ ~(j < i)
        BY <3>1, <3>2, <4>1 DEF IsFilling
      <4> QED BY <4>1, <4>2
    <3>3. (CHOOSE k \in DOMAIN fifo : IsFilling(fifo, k)) = i
      BY <3>1, <3>2
    <3>4. FifoFetching
      BY <3>1 DEF FifoFetching, IsFilling
    <3> QED BY <3>1, <3>3, <3>4 DEF FilledFifo
  <2>2. CASE ~FifoFetching /\ UNCHANGED fifo
    BY <2>2 DEF FilledFifo
  <2> QED BY <2>1, <2>2 DEF AdvanceFifo, FifoTick
<1> QED BY <1>1 DEF AdvanceFifo, Step, AfterFifo, machine, memories, units,
                    control

LEMMA ShiftIsFunction ==
  ASSUME AdvanceShifter
  PROVE  machine' = AfterShift /\ before' = before
<1>1. /\ planes' = ShiftedPlanes
      /\ shifter' = ShiftedShifter
      /\ fifo' = ShiftedFifo
  BY DEF AdvanceShifter, ShiftWeights, ShiftRow, ShiftedPlanes,
         ShiftedShifter, ShiftedFifo, ShiftsRow
<1> QED BY <1>1 DEF AdvanceShifter, Step, AfterShift, machine, memories,
                    units, control

LEMMA ArrayIsFunction ==
  ASSUME AdvanceArray
  PROVE  machine' = AfterArray /\ before' = before
BY DEF AdvanceArray, Step, ArrayTick, StepArray, AfterArray, SteppedGrid,
       machine, memories, units, control

LEMMA ActIsFunction ==
  ASSUME AdvanceActivation
  PROVE  machine' = AfterAct /\ before' = before
<1>1. ub' = ActedUb /\ line' = ActedLine /\ act' = ActedAct
  <2>1. CASE ActBusy /\ ActPlainRow
    BY <2>1 DEF AdvanceActivation, ActTick, ActMoves, ActPlainRow, ActedUb,
                ActedLine, ActedAct, PlainUb
  <2>2. CASE ActBusy /\ ActPoolRow
    <3>1. act.pool # "None" /\ line' = PooledLine
      BY <2>2 DEF ActPoolRow, PooledLine, PixelRow, PixelColumn
    <3>2. ub' = PooledUb
      BY <2>2, <3>1 DEF ActPoolRow, PooledUb, PixelRow, PixelColumn
    <3>3. act' = [act EXCEPT !.rows_done = @ + 1]
      BY <2>2 DEF AdvanceActivation, ActTick, ActMoves
    <3> QED BY <2>2, <3>1, <3>2, <3>3 DEF ActedUb, ActedLine, ActedAct
  <2>3. CASE ~ActBusy
    BY <2>3 DEF AdvanceActivation, ActTick, ActMoves, ActedUb, ActedLine,
                ActedAct
  <2> QED BY <2>1, <2>2, <2>3 DEF AdvanceActivation, ActTick, ActMoves
<1>2. activity' = CountedLog /\ stats' = Counted
  BY DEF AdvanceActivation, CountedLog
<1> QED BY <1>1, <1>2 DEF AdvanceActivation, Step, AfterAct, machine,
                          memories, units, control

-----------------------------------------------------------------------------
(* A cycle from end to end, as a function of the machine it began with       *)

AtHost(m)    == On(m, << >>)!AfterIssue
AtFifo(m)    == On(AtHost(m), << >>)!AfterHost
AtShift(m)   == On(AtFifo(m), << >>)!AfterFifo
AtArray(m)   == On(AtShift(m), << >>)!AfterShift
AtAct(m)     == On(AtArray(m), << >>)!AfterArray
Locals(m)    == On(AtHost(m), << >>)!Before
NextCycle(m) == On(AtAct(m), Locals(m))!AfterAct

(* The cycle under way began with the machine m. A tick that threw leaves    *)
(* its stall cause behind, and nothing else; the issue does not read it.     *)
InCycle(m) ==
  /\ phase = "issue" =>
       m = <<memories, units,
             <<program, pc, halted, m[3][4], stats, activity, unit_pc>>>>
  /\ phase = "host"  => machine = AtHost(m)
  /\ phase = "fifo"  => machine = AtFifo(m)
  /\ phase = "shift" => machine = AtShift(m)
  /\ phase = "array" => machine = AtArray(m)
  /\ phase = "act"   => machine = AtAct(m)
  /\ phase # "issue" => before = Locals(m)

LEMMA CycleGoesOn ==
  ASSUME NEW m, InCycle(m), TypeInv,
         \/ Stalled \/ TickIssues
         \/ AdvanceHost \/ AdvanceFifo \/ AdvanceShifter \/ AdvanceArray
  PROVE  InCycle(m)' /\ phase' # "issue" /\ stats'.cycles = stats.cycles
<1>1. CASE Stalled \/ TickIssues
  <2>1. phase = "issue" /\ phase' = "host"
    BY <1>1 DEF Stalled, TickIssues, IssueHalt, IssueNopOrSync,
                IssueHostTransfer, IssueReadWeights, IssueMatrixMultiply,
                IssueActivate, Issuing, Issued, Advance, Ticking
  <2>2. machine' = AfterIssue /\ before' = Before'
    BY <1>1, IssueIsFunction
  <2>3. AfterIssue = AtHost(m)
    BY <2>1, IssueOn DEF InCycle, AtHost
  <2>4. before' = Locals(m)
    BY <2>2, <2>3, BeforeOn DEF Locals
  <2>5. stats'.cycles = stats.cycles
    <3>1. stats' = IF Goes THEN [stats EXCEPT !.issued = @ + 1] ELSE stats
      BY <2>2 DEF machine, control, AfterIssue, IssuedControl
    <3> QED BY <3>1 DEF TypeInv, StatsOK
  <2> QED BY <2>1, <2>2, <2>3, <2>4, <2>5 DEF InCycle
<1>2. CASE AdvanceHost
  <2>1. phase = "host" /\ phase' = "fifo" /\ stats' = stats
    BY <1>2 DEF AdvanceHost, Step
  <2>2. machine' = AtFifo(m) /\ before' = before
    BY <1>2, <2>1, HostIsFunction, HostOn DEF InCycle, AtFifo
  <2> QED BY <2>1, <2>2 DEF InCycle
<1>3. CASE AdvanceFifo
  <2>1. phase = "fifo" /\ phase' = "shift" /\ stats' = stats
    BY <1>3 DEF AdvanceFifo, Step
  <2>2. fifo \in Seq(FifoTile)
    BY DEF TypeInv, UnitsOK, FifoTypeOK
  <2>3. machine' = AtShift(m) /\ before' = before
    BY <1>3, <2>1, <2>2, FifoIsFunction, FifoOn DEF InCycle, AtShift
  <2> QED BY <2>1, <2>3 DEF InCycle
<1>4. CASE AdvanceShifter
  <2>1. phase = "shift" /\ phase' = "array" /\ stats' = stats
    BY <1>4 DEF AdvanceShifter, Step
  <2>2. machine' = AtArray(m) /\ before' = before
    BY <1>4, <2>1, ShiftIsFunction, ShiftOn DEF InCycle, AtArray
  <2> QED BY <2>1, <2>2 DEF InCycle
<1>5. CASE AdvanceArray
  <2>1. phase = "array" /\ phase' = "act" /\ stats' = stats
    BY <1>5 DEF AdvanceArray, Step
  <2>2. machine' = AtAct(m) /\ before' = before
    BY <1>5, <2>1, ArrayIsFunction, ArrayOn DEF InCycle, AtAct
  <2> QED BY <2>1, <2>2 DEF InCycle
<1> QED BY <1>1, <1>2, <1>3, <1>4, <1>5

(* A completed cycle makes of the machine it began with the next one.        *)
LEMMA CycleIsFunction ==
  ASSUME NEW m, InCycle(m), TypeInv, AdvanceActivation
  PROVE  /\ machine' = NextCycle(m)
         /\ phase' = "issue"
         /\ stats'.cycles = stats.cycles + 1
<1>1. phase = "act" /\ phase' = "issue" /\ stats' = Counted
  BY DEF AdvanceActivation, Step
<1>2. machine' = NextCycle(m)
  BY <1>1, ActIsFunction, ActOn DEF InCycle, NextCycle
<1> QED BY <1>1, <1>2 DEF Counted

(* A tick that throws, or finds the machine halted, begins no cycle.         *)
LEMMA NoCycle ==
  ASSUME NEW m, InCycle(m), TickThrows \/ UNCHANGED <<machine, phase, before>>
  PROVE  InCycle(m)' /\ phase' = phase /\ stats' = stats
<1>1. CASE TickThrows
  <2>1. /\ phase = "issue"
        /\ UNCHANGED <<memories, units, program, pc, halted, stats, activity,
                       unit_pc, phase, before>>
    BY <1>1 DEF TickThrows, PastTheEnd, UnknownOpcode, Deadlock, Refused,
                Throw, Ticking
  <2> QED BY <2>1 DEF InCycle
<1>2. CASE UNCHANGED <<machine, phase, before>>
  BY <1>2 DEF InCycle, machine, control
<1> QED BY <1>1, <1>2

-----------------------------------------------------------------------------
(* Loads, calls and what they remember                                       *)

(* What load() makes of the machine, for this code.                          *)
Fresh(code) ==
  <<<<[a \in UbAddrs |-> Zero], [c \in AccCells |-> << >>],
      [a \in HostAddrs |-> <<"host", a>>]>>,
    <<HostReset, << >>, [p \in 0 .. 1 |-> NoWeights], ShifterReset, MxuReset,
      EmptyGrid, ActReset, NoLine>>,
    <<code, 0, FALSE, "None", StatsReset, << >>,
      [host |-> -1, mxu |-> -1, act |-> -1]>>>>

(* TypeInv but for the error: a load may throw too.                          *)
Typed ==
  /\ MemoriesOK /\ UnitsOK /\ StatsOK /\ LogOK
  /\ program \in Seq(Instr) /\ pc \in Nat /\ halted \in BOOLEAN
  /\ stall \in Stalls
  /\ unit_pc \in [host : Int, mxu : Int, act : Int]
  /\ phase \in Phases
  /\ before \in [rows_shifted : Nat, shadow_tile : Int, working : BOOLEAN]
  /\ phase # "issue" => activity # << >>

Calls == [until : {"cycles", "issued"}, target : Nat, forward : BOOLEAN,
          running : BOOLEAN]

(* A call runs only with a program and no error, and alone can be in the     *)
(* middle of a cycle.                                                        *)
CallInv ==
  /\ goal \in Calls
  /\ goal.running => program # << >> /\ error = "none"
  /\ phase # "issue" => goal.running

(* The history has no gap, begins with the program as loaded, and each of    *)
(* its machines is one cycle from the one before; the machine is on its way  *)
(* from the one of the cycle it is at to the next.                           *)
Begins == 0 \in DOMAIN past => past[0] = Fresh(program)

OneCycleApart ==
  \A c \in DOMAIN past :
    /\ c \in Nat
    /\ c # 0 => c - 1 \in DOMAIN past /\ past[c] = NextCycle(past[c - 1])

Now ==
  program # << >> =>
    0 \in DOMAIN past /\ stats.cycles \in DOMAIN past
    /\ InCycle(past[stats.cycles])

PastInv == Begins /\ OneCycleApart /\ Now

ReplayInv == Typed /\ CallInv /\ PastInv

LEMMA TypedWithError == Typed /\ error \in Errors <=> TypeInv
BY DEF Typed, TypeInv, IssueOK

LEMMA FreshTyped ==
  /\ machine = Fresh(program) /\ program \in Seq(Instr) /\ phase = "issue"
  /\ before \in [rows_shifted : Nat, shadow_tile : Int, working : BOOLEAN]
  => Typed
<1> SUFFICES ASSUME machine = Fresh(program), program \in Seq(Instr),
                    phase = "issue",
                    before \in [rows_shifted : Nat, shadow_tile : Int,
                                working : BOOLEAN]
             PROVE  Typed
  OBVIOUS
<1>1. /\ ub = [a \in UbAddrs |-> Zero]
      /\ acc = [c \in AccCells |-> << >>]
      /\ hostMem = [a \in HostAddrs |-> <<"host", a>>]
      /\ hif = HostReset /\ fifo = << >>
      /\ planes = [p \in 0 .. 1 |-> NoWeights]
      /\ shifter = ShifterReset /\ mxu = MxuReset /\ grid = EmptyGrid
      /\ act = ActReset
      /\ pc = 0 /\ halted = FALSE /\ stall = "None"
      /\ stats = StatsReset /\ activity = << >>
      /\ unit_pc = [host |-> -1, mxu |-> -1, act |-> -1]
  BY DEF Fresh, machine, memories, units, control
<1>2. MemoriesOK
  BY <1>1 DEF MemoriesOK, IsMemory
<1>3. UnitsOK
  <2>1. HostTypeOK
    BY <1>1, MemoryAssumption DEF HostReset, HostTypeOK, Directions, Fits
  <2>2. FifoTypeOK
    BY <1>1, FifoAssumption DEF FifoTypeOK
  <2>3. ActTypeOK
    BY <1>1, MemoryAssumption DEF ActReset, ActTypeOK, Functions, Poolings,
                                  Fits
  <2>4. MxuTypeOK /\ ShifterOK
    BY <1>1, MemoryAssumption DEF ShifterReset, MxuReset, NoWeights, EmptyGrid,
                                  MxuTypeOK, ShifterOK, IsMemory
  <2> QED BY <2>1, <2>2, <2>3, <2>4 DEF UnitsOK
<1>4. StatsOK
  BY <1>1 DEF StatsReset, StatsOK
<1>5. LogOK
  BY <1>1, EmptySeq, TimelineAssumption DEF LogOK
<1>6. unit_pc \in [host : Int, mxu : Int, act : Int]
  BY <1>1
<1>7. pc \in Nat /\ halted \in BOOLEAN /\ stall \in Stalls /\ phase \in Phases
  BY <1>1 DEF Stalls, Phases
<1> QED BY <1>2, <1>3, <1>4, <1>5, <1>6, <1>7 DEF Typed

LEMMA LoadIsFresh ==
  ASSUME NEW code, LoadProgram(code)
  PROVE  /\ machine' = Fresh(code) /\ phase' = phase /\ before' = before
         /\ program' = code /\ stats'.cycles = 0
BY DEF LoadProgram, ResetAround, Fresh, StatsReset, machine, memories, units,
       control

LEMMA LoadTyped ==
  ASSUME NEW code \in Seq(Instr), LoadProgram(code), Typed, phase = "issue"
  PROVE  Typed'
<1>1. /\ machine' = Fresh(program') /\ program' \in Seq(Instr)
      /\ phase' = "issue"
      /\ before' \in [rows_shifted : Nat, shadow_tile : Int,
                      working : BOOLEAN]
  BY LoadIsFresh DEF Typed
<1>2. (/\ machine = Fresh(program) /\ program \in Seq(Instr)
       /\ phase = "issue"
       /\ before \in [rows_shifted : Nat, shadow_tile : Int,
                       working : BOOLEAN])' => Typed'
  BY FreshTyped, PTL
<1> QED BY <1>1, <1>2

LEMMA MachineInCycle == phase = "issue" => InCycle(machine)
BY DEF InCycle, machine, control

LEMMA FrameTyped == Typed /\ UNCHANGED <<machine, phase, before>> => Typed'
<1> SUFFICES ASSUME Typed, UNCHANGED <<machine, phase, before>> PROVE Typed'
  OBVIOUS
<1>1. UNCHANGED <<memories, units, control, phase, before>>
  BY DEF machine
<1>2. MemoriesOK' /\ UnitsOK'
  BY <1>1, Frame DEF memories, units, Typed, MemoriesOK, UnitsOK
<1> QED BY <1>1, <1>2 DEF control, Typed, StatsOK, LogOK

LEMMA FramePast ==
  PastInv /\ UNCHANGED <<machine, phase, before, past>> => PastInv'
<1> SUFFICES ASSUME PastInv, UNCHANGED <<machine, phase, before, past>>
             PROVE  PastInv'
  OBVIOUS
<1>1. program' = program /\ stats' = stats
  BY DEF machine, control
<1>2. ASSUME NEW m, InCycle(m) PROVE InCycle(m)'
  BY <1>2, NoCycle
<1> QED BY <1>1, <1>2 DEF PastInv, Begins, OneCycleApart, Now

LEMMA InitReplayInv == ReplayInit => ReplayInv
<1> SUFFICES ASSUME ReplayInit PROVE ReplayInv
  OBVIOUS
<1>1. Typed
  <2>1. machine = Fresh(program)
    BY DEF ReplayInit, Loaded, MemoryInit, UnitsReset, ControlReset, Fresh,
           machine, memories, units, control
  <2>2. program = << >> /\ << >> \in Seq(Instr)
    BY DEF ReplayInit, Loaded
  <2> QED BY <2>1, <2>2, FreshTyped DEF ReplayInit
<1>2. CallInv
  BY DEF CallInv, ReplayInit, Over, Goal, Calls
<1>3. PastInv
  <2>1. DOMAIN << >> = {}
    OBVIOUS
  <2> QED BY <2>1 DEF PastInv, Begins, OneCycleApart, Now, ReplayInit, Loaded
<1> QED BY <1>1, <1>2, <1>3 DEF ReplayInv

LEMMA IdleIsBetween == ReplayInv /\ Idle => phase = "issue"
BY DEF ReplayInv, CallInv, Idle

LEMMA LoadReplayInv ==
  ASSUME ReplayInv, Load
  PROVE  ReplayInv'
<1>1. PICK code \in Programs :
        /\ LoadProgram(code)
        /\ goal' = Over(Goal("cycles", 0, TRUE))
        /\ past' = [c \in {0} |-> machine']
  BY DEF Load
<1>2. phase = "issue" /\ code \in Seq(Instr)
  BY IdleIsBetween, ProgramAssumption DEF Load
<1>3. Typed'
  BY <1>1, <1>2, LoadTyped DEF ReplayInv
<1>4. /\ machine' = Fresh(code) /\ phase' = "issue"
      /\ program' = code /\ stats'.cycles = 0
  BY <1>1, <1>2, LoadIsFresh
<1>5. CallInv'
  BY <1>1, <1>4 DEF CallInv, Over, Goal, Calls
<1>6. DOMAIN past' = {0} /\ past'[0] = machine'
  BY <1>1
<1>7. (phase = "issue")' => InCycle(machine)'
  BY MachineInCycle, PTL
<1>8. PastInv'
  BY <1>4, <1>6, <1>7 DEF PastInv, Begins, OneCycleApart, Now
<1> QED BY <1>3, <1>5, <1>8 DEF ReplayInv

LEMMA BackReplayInv ==
  ASSUME ReplayInv, Idle, HasProgram, NEW until \in {"cycles", "issued"},
         NEW target \in Nat, Backward(until, target)
  PROVE  /\ ReplayInv'
         /\ machine' = past[0] /\ stats'.cycles = 0
<1>1. phase = "issue" /\ program \in Seq(Instr) /\ program # << >>
  BY IdleIsBetween DEF ReplayInv, Typed, HasProgram
<1>2. LoadProgram(program) /\ past' = past
  BY DEF Backward
<1>3. Typed'
  BY <1>1, <1>2, LoadTyped DEF ReplayInv
<1>4. /\ machine' = Fresh(program) /\ phase' = "issue"
      /\ program' = program /\ stats'.cycles = 0
  BY <1>1, <1>2, LoadIsFresh
<1>5. CallInv'
  <2>1. goal' \in Calls
    BY DEF Backward, Over, Goal, Calls
  <2>2. goal'.running => error' = "none"
    BY DEF Backward, Over, Goal, LoadOutcome
  <2> QED BY <1>1, <1>4, <2>1, <2>2 DEF CallInv
<1>6. 0 \in DOMAIN past /\ past[0] = machine'
  BY <1>1, <1>4 DEF ReplayInv, PastInv, Now, Begins
<1>7. (phase = "issue")' => InCycle(machine)'
  BY MachineInCycle, PTL
<1>8. PastInv'
  BY <1>2, <1>4, <1>6, <1>7 DEF ReplayInv, PastInv, Begins, OneCycleApart, Now
<1> QED BY <1>3, <1>4, <1>5, <1>6, <1>8 DEF ReplayInv

LEMMA ForwardReplayInv ==
  ASSUME ReplayInv, Idle, HasProgram, NEW until \in {"cycles", "issued"},
         NEW target \in Nat, Forward(until, target)
  PROVE  ReplayInv'
<1>1. UNCHANGED <<machine, phase, before, past>>
  BY DEF Forward
<1>2. Typed'
  BY <1>1, FrameTyped DEF ReplayInv
<1>3. CallInv'
  BY <1>1 DEF Forward, Goal, Calls, CallInv, HasProgram, machine, control
<1>4. PastInv'
  BY <1>1, FramePast DEF ReplayInv
<1> QED BY <1>2, <1>3, <1>4 DEF ReplayInv

(* A cycle completed takes the history one further, or finds it there.       *)
LEMMA CountedReplayInv ==
  ASSUME ReplayInv, goal.running, AdvanceActivation, past' = Remembered,
         UNCHANGED <<goal, error>>
  PROVE  /\ PastInv'
         /\ stats'.cycles \in DOMAIN past => machine' = past[stats'.cycles]
<1> DEFINE c == stats.cycles
           m == past[c]
<1>1. program # << >> /\ program' = program
  BY DEF ReplayInv, CallInv, AdvanceActivation, Step
<1>2. c \in DOMAIN past /\ 0 \in DOMAIN past /\ InCycle(m) /\ c \in Nat
  BY <1>1 DEF ReplayInv, PastInv, Now, OneCycleApart
<1>3. TypeInv
  BY TypedWithError DEF ReplayInv, CallInv, Errors
<1> HIDE DEF c, m
<1>4. machine' = NextCycle(m) /\ phase' = "issue" /\ stats'.cycles = c + 1
  BY <1>2, <1>3, CycleIsFunction DEF c
<1>5. c + 1 \in Nat /\ c + 1 # 0 /\ (c + 1) - 1 = c
  BY <1>2
<1>6. /\ DOMAIN past' = DOMAIN past \union {c + 1}
      /\ \A d \in DOMAIN past' :
           past'[d] = IF d \in DOMAIN past THEN past[d] ELSE machine'
  BY <1>4 DEF Remembered
<1>7. c + 1 \in DOMAIN past => machine' = past[c + 1]
  BY <1>4, <1>5 DEF ReplayInv, PastInv, OneCycleApart, m
<1>8. past'[c + 1] = machine'
  BY <1>6, <1>7
<1>9. OneCycleApart'
  <2> PICK p : p = past'
    OBVIOUS
  <2> SUFFICES ASSUME NEW d \in DOMAIN p
               PROVE  /\ d \in Nat
                      /\ d # 0 => /\ d - 1 \in DOMAIN p
                                 /\ p[d] = NextCycle(p[d - 1])
    BY DEF OneCycleApart
  <2>1. CASE d \in DOMAIN past
    BY <1>6, <2>1 DEF ReplayInv, PastInv, OneCycleApart
  <2>2. CASE d = c + 1
    <3>1. past'[c] = m
      BY <1>2, <1>6 DEF m
    <3> QED BY <1>2, <1>4, <1>5, <1>6, <1>8, <2>2, <3>1
  <2> QED BY <1>6, <2>1, <2>2
<1>10. (phase = "issue")' => InCycle(machine)'
  BY MachineInCycle, PTL
<1>11. Now'
  BY <1>2, <1>4, <1>6, <1>8, <1>10 DEF Now
<1>12. Begins'
  BY <1>1, <1>2, <1>6 DEF Begins, ReplayInv, PastInv
<1> QED BY <1>4, <1>7, <1>9, <1>11, <1>12 DEF PastInv

LEMMA RunReplayInv ==
  ASSUME ReplayInv, RunCycle
  PROVE  ReplayInv'
<1>1. /\ goal.running /\ program # << >> /\ UNCHANGED goal
      /\ error = "none"
  BY DEF RunCycle, ReplayInv, CallInv
<1>2. TypeInv
  BY <1>1, TypedWithError DEF ReplayInv, Errors
<1>3. UNCHANGED <<program, error>>
  BY DEF RunCycle, TickHalted, vars, machine, control, TickIssues,
         TickAdvances, IssueHalt, IssueNopOrSync, IssueHostTransfer,
         IssueReadWeights, IssueMatrixMultiply, IssueActivate, Issued,
         Advance, Stalled, AdvanceHost, AdvanceFifo, AdvanceShifter,
         AdvanceArray, AdvanceActivation, Step
<1>4. Typed'
  <2>1. TypeInv'
    BY <1>2, NextTypeInv DEF RunCycle, Next
  <2>2. (Typed /\ error \in Errors)' <=> TypeInv'
    BY TypedWithError, PTL
  <2> QED BY <2>1, <2>2
<1>5. CallInv'
  BY <1>1, <1>3 DEF ReplayInv, CallInv
<1>6. PastInv'
  <2>0. PICK m : m = past[stats.cycles]
    OBVIOUS
  <2>1. /\ 0 \in DOMAIN past /\ stats.cycles \in DOMAIN past /\ InCycle(m)
        /\ Begins /\ OneCycleApart
    BY <1>1, <2>0 DEF ReplayInv, PastInv, Now
  <2>2. CASE \/ Stalled \/ TickIssues
             \/ AdvanceHost \/ AdvanceFifo \/ AdvanceShifter \/ AdvanceArray
    <3>1. InCycle(m)' /\ phase' # "issue" /\ stats'.cycles = stats.cycles
      BY <1>2, <2>1, <2>2, CycleGoesOn
    <3>2. past' = past
      BY <3>1 DEF RunCycle
    <3> QED BY <1>3, <2>0, <2>1, <3>1, <3>2
            DEF PastInv, Begins, OneCycleApart, Now
  <2>3. CASE AdvanceActivation
    <3>1. phase' = "issue" /\ stats' # stats
      <4>1. phase' = "issue" /\ stats'.cycles = stats.cycles + 1
        BY <1>2, <2>1, <2>3, CycleIsFunction
      <4>2. stats.cycles \in Nat
        BY <1>2 DEF TypeInv, StatsOK
      <4> QED BY <4>1, <4>2
    <3>2. past' = Remembered
      BY <3>1 DEF RunCycle
    <3> QED BY <1>1, <1>3, <2>3, <3>2, CountedReplayInv
  <2>4. CASE TickHalted
    <3>1. UNCHANGED <<machine, phase, before>> /\ stats' = stats
      BY <2>4 DEF TickHalted, vars, machine, control
    <3>2. past' = past
      BY <3>1 DEF RunCycle
    <3> QED BY <3>1, <3>2, FramePast DEF ReplayInv
  <2> QED BY <2>2, <2>3, <2>4 DEF RunCycle, TickAdvances
<1> QED BY <1>4, <1>5, <1>6 DEF ReplayInv

LEMMA ThrowReplayInv ==
  ASSUME ReplayInv, RunThrows
  PROVE  ReplayInv'
<1>1. /\ goal.running /\ program # << >> /\ error = "none"
  BY DEF RunThrows, ReplayInv, CallInv
<1>2. TypeInv
  BY <1>1, TypedWithError DEF ReplayInv, Errors
<1>3. /\ UNCHANGED <<program, past>> /\ goal' = Over(goal)
      /\ phase = "issue" /\ phase' = phase /\ stats' = stats
  BY DEF RunThrows, TickThrows, PastTheEnd, UnknownOpcode, Deadlock, Refused,
         Throw, Ticking
<1>4. Typed'
  <2>1. TypeInv'
    BY <1>2, NextTypeInv DEF RunThrows, Next
  <2>2. (Typed /\ error \in Errors)' <=> TypeInv'
    BY TypedWithError, PTL
  <2> QED BY <2>1, <2>2
<1>5. CallInv'
  BY <1>3 DEF ReplayInv, CallInv, Calls, Over
<1>6. ASSUME NEW m, InCycle(m) PROVE InCycle(m)'
  BY <1>6, NoCycle DEF RunThrows
<1>7. PastInv'
  BY <1>3, <1>6 DEF ReplayInv, PastInv, Begins, OneCycleApart, Now
<1> QED BY <1>4, <1>5, <1>7 DEF ReplayInv

(* Where the calls can go: forward or back, to a natural number.             *)
LEMMA CallsMove ==
  ASSUME ReplayInv, PressForward \/ PressBack \/ Jump
  PROVE  /\ Idle /\ HasProgram
         /\ \E until \in {"cycles", "issued"}, target \in Nat :
              Forward(until, target) \/ Backward(until, target)
<1>1. stats.cycles \in Nat /\ stats.issued \in Nat
  BY DEF ReplayInv, Typed, StatsOK
<1>2. \A n \in Nat : OneBefore(n) \in Nat
  BY DEF OneBefore
<1>3. CASE PressForward
  BY <1>1, <1>3 DEF PressForward
<1>4. CASE PressBack
  BY <1>1, <1>2, <1>4 DEF PressBack
<1>5. CASE Jump
  BY <1>5, ReplayAssumption DEF Jump
<1> QED BY <1>3, <1>4, <1>5

LEMMA NextReplayInv == ReplayInv /\ [ReplayNext]_replayVars => ReplayInv'
<1> SUFFICES ASSUME ReplayInv, [ReplayNext]_replayVars PROVE ReplayInv'
  OBVIOUS
<1>1. CASE Load
  BY <1>1, LoadReplayInv
<1>2. CASE PressForward \/ PressBack \/ Jump
  <2>1. PICK until \in {"cycles", "issued"}, target \in Nat :
          Forward(until, target) \/ Backward(until, target)
    BY <1>2, CallsMove
  <2>2. Idle /\ HasProgram
    BY <1>2, CallsMove
  <2> QED BY <2>1, <2>2, ForwardReplayInv, BackReplayInv
<1>3. CASE Finish \/ UNCHANGED replayVars
  <2>1. UNCHANGED <<machine, phase, before, past, error>>
        /\ goal' \in {goal, Over(goal)}
    BY <1>3 DEF Finish, replayVars, vars
  <2>2. Typed' /\ PastInv'
    BY <2>1, FrameTyped, FramePast DEF ReplayInv
  <2>3. CallInv'
    <3>1. program' = program
      BY <2>1 DEF machine, control
    <3>2. goal' \in Calls /\ (goal'.running => goal.running)
      BY <2>1 DEF ReplayInv, CallInv, Calls, Over
    <3>3. phase # "issue" => goal'.running
      BY <1>3 DEF Finish, Reached, replayVars, ReplayInv, CallInv
    <3> QED BY <2>1, <3>1, <3>2, <3>3 DEF ReplayInv, CallInv
  <2> QED BY <2>2, <2>3 DEF ReplayInv
<1>4. CASE RunCycle
  BY <1>4, RunReplayInv
<1>5. CASE RunThrows
  BY <1>5, ThrowReplayInv
<1> QED BY <1>1, <1>2, <1>3, <1>4, <1>5 DEF ReplayNext

LEMMA ReplayInvariant == ReplaySpec => []ReplayInv
BY InitReplayInv, NextReplayInv, PTL DEF ReplaySpec

(* The one step that comes to a cycle anew, and the loads that come to 0.    *)
LEMMA StepIsExact ==
  ASSUME ReplayInv, ReplayNext, stats' # stats, phase' = "issue",
         program' = program, stats'.cycles \in DOMAIN past
  PROVE  machine' = past[stats'.cycles]
<1>1. CASE Load
  BY <1>1, LoadIsFresh DEF Load, ReplayInv, PastInv, Begins
<1>2. CASE PressForward \/ PressBack \/ Jump
  <2>1. PICK until \in {"cycles", "issued"}, target \in Nat :
          Forward(until, target) \/ Backward(until, target)
    BY <1>2, CallsMove
  <2>2. Idle /\ HasProgram
    BY <1>2, CallsMove
  <2>3. CASE Forward(until, target)
    BY <2>3 DEF Forward, machine, control
  <2>4. CASE Backward(until, target)
    BY <2>2, <2>4, BackReplayInv
  <2> QED BY <2>1, <2>3, <2>4
<1>3. CASE RunCycle
  <2>1. error = "none" /\ program # << >> /\ goal.running
    BY <1>3 DEF RunCycle, ReplayInv, CallInv
  <2>2. TypeInv
    BY <2>1, TypedWithError DEF ReplayInv, Errors
  <2>3. InCycle(past[stats.cycles])
    BY <2>1 DEF ReplayInv, PastInv, Now
  <2>4. CASE \/ Stalled \/ TickIssues
             \/ AdvanceHost \/ AdvanceFifo \/ AdvanceShifter \/ AdvanceArray
    BY <2>2, <2>3, <2>4, CycleGoesOn
  <2>5. CASE AdvanceActivation
    BY <1>3, <2>1, <2>5, CountedReplayInv
       DEF RunCycle, AdvanceActivation, Step
  <2>6. CASE TickHalted
    BY <2>6 DEF TickHalted, vars, machine, control
  <2> QED BY <1>3, <2>4, <2>5, <2>6 DEF RunCycle, TickAdvances
<1>4. CASE Finish \/ RunThrows
  BY <1>4 DEF Finish, RunThrows, TickThrows, PastTheEnd, UnknownOpcode,
              Deadlock, Refused, Throw, vars, machine, control
<1> QED BY <1>1, <1>2, <1>3, <1>4 DEF ReplayNext

(* Whatever is loaded and wherever the user steps, goes back and jumps:      *)
(* whenever the clock comes to a cycle it has been at since this program was *)
(* loaded, the whole machine is what it was then (tpu.cpp:173-183).          *)
THEOREM BackIsExact == ReplaySpec => ReplayIsExact
<1>1. ReplayInv /\ [ReplayNext]_replayVars
        => [stats' # stats /\ phase' = "issue" /\ program' = program
              /\ stats'.cycles \in DOMAIN past
            => machine' = past[stats'.cycles]]_replayVars
  BY StepIsExact
<1> QED BY <1>1, ReplayInvariant, PTL DEF ReplaySpec, ReplayIsExact

-----------------------------------------------------------------------------
(* What holds of the machine between a load and the next holds through       *)
(* loads, steps back and jumps too                                           *)

Kept ==
  /\ NoRowConflict /\ ReadyTileIsMoving /\ CyclesInv /\ LogInv /\ ArrayInv
  /\ SumsInv /\ BusyInv /\ DeadlockLasts
  /\ program # << >> => PoolInv

(* Nothing a unit had in flight is left of it when a load is done.           *)
LEMMA FreshKept ==
  /\ machine = Fresh(program) /\ program \in Seq(Instr) /\ phase = "issue"
  /\ program # << >> => program \in Programs
  /\ error # "deadlock"
  => Kept
<1> SUFFICES ASSUME machine = Fresh(program), program \in Seq(Instr),
                    phase = "issue", error # "deadlock",
                    program # << >> => program \in Programs
             PROVE  Kept
  OBVIOUS
<1>1. /\ hif = HostReset /\ fifo = << >> /\ mxu = MxuReset
      /\ grid = EmptyGrid /\ act = ActReset
      /\ pc = 0 /\ stats = StatsReset /\ activity = << >>
  BY DEF Fresh, machine, memories, units, control
<1>2. NoRowConflict
  <2>1. ~mxu.busy /\ ~HostBusy
    BY <1>1, MemoryAssumption DEF MxuReset, HostReset, HostBusy
  <2>2. ~ActBusy
    BY <1>1 DEF ActReset, ActBusy
  <2> QED BY <2>1, <2>2
          DEF NoRowConflict, HostSparesMxu, HostSparesAct, ActSparesMxu,
              MxuSparesAct, MxuReadsUbRows, MxuWritesAccRows
<1>3. ReadyTileIsMoving
  BY <1>1 DEF ReadyTileIsMoving, FrontReady
<1>4. CyclesInv
  BY <1>1 DEF StatsReset, CyclesInv, StalledCycles, Stalls
<1>5. LogInv
  BY <1>1, EmptySeq DEF LogInv
<1>6. ArrayInv
  <2>1. \A k, n \in Cols : grid[<<k, n>>].row = -1
    BY <1>1 DEF EmptyGrid, EmptyPe, PEs
  <2>2. Wavefront
    BY <1>1, <2>1, WavefrontAt DEF MxuReset, WaveAt
  <2> QED BY <1>1, <2>2 DEF ArrayInv, MxuReset
<1>7. SumsInv
  <2>1. \A k, n \in Cols : grid[<<k, n>>].row = -1
    BY <1>1 DEF EmptyGrid, EmptyPe, PEs
  <2> QED BY <1>1, <2>1, MemoryAssumption DEF SumsInv, MxuReset
<1>8. BusyInv
  <2>1. Len(program) \in Nat
    BY LenProperties
  <2>2. StepsUpTo[0] = 0
    BY <2>1, StepsUpToIs
  <2> QED BY <1>1, <2>1, <2>2
          DEF BusyInv, StepsToGo, Uncounted, MxuReset, StatsReset
<1>9. program # << >> => PoolInv
  BY <1>1 DEF PoolInv, ActReset
<1> QED BY <1>2, <1>3, <1>4, <1>5, <1>6, <1>7, <1>8, <1>9
        DEF Kept, DeadlockLasts

LEMMA FrameKept ==
  /\ Kept /\ UNCHANGED <<machine, phase, before>>
  /\ error' = error \/ error' # "deadlock"
  => Kept'
<1> SUFFICES ASSUME Kept, UNCHANGED <<machine, phase, before>>,
                    error' = error \/ error' # "deadlock"
             PROVE  Kept'
  OBVIOUS
<1>1. UNCHANGED <<ub, acc, hostMem, hif, fifo, planes, shifter, mxu, grid, act,
                  line, program, pc, halted, stall, stats, activity, unit_pc,
                  phase, before>>
  BY DEF machine, memories, units, control
<1>2. NoRowConflict' /\ ReadyTileIsMoving' /\ CyclesInv' /\ LogInv'
  BY <1>1 DEF Kept, NoRowConflict, HostSparesMxu, HostSparesAct, ActSparesMxu,
              MxuSparesAct, MxuReadsUbRows, MxuWritesAccRows, ActWritesUbRows,
              ActOutRows, HostBusy, ActBusy, ReadyTileIsMoving, FrontReady,
              Shifting, CyclesInv, StalledCycles, LogInv, LastRecord
<1>3. ArrayInv' /\ SumsInv'
  BY <1>1 DEF Kept, ArrayInv, Wavefront, TotalSteps, SumsInv, SumOf,
              ActivePlane
<1>4. BusyInv'
  BY <1>1, StepsStay DEF Kept, BusyInv, StepsToGo, TotalSteps, Uncounted
<1>5. DeadlockLasts'
  <2> SUFFICES ASSUME error' = "deadlock"
               PROVE  (Ticking /\ AtInstr /\ WhyBlocked(in) # "None"
                         /\ UnitsIdle)'
    BY DEF DeadlockLasts
  <2>1. Ticking /\ AtInstr /\ WhyBlocked(in) # "None" /\ UnitsIdle
    BY DEF Kept, DeadlockLasts
  <2> QED BY <1>1, <2>1
       DEF Ticking, AtInstr, in, UnitsIdle, FifoFetching, Shifting,
           WhyBlocked, BlockedReadHost, BlockedWriteHost,
           BlockedMatrixMultiply, BlockedActivate, HostBusy,
           HostWritesUbRows, HostReadsUbRows, MxuReadsUbRows,
           MxuWritesAccRows, ActBusy, ActOutRows, ActReadsAccRows,
           ActWritesUbRows, FifoFull
<1>6. program' # << >> => PoolInv'
  BY <1>1 DEF Kept, PoolInv
<1> QED BY <1>2, <1>3, <1>4, <1>5, <1>6 DEF Kept

LEMMA LoadKept ==
  ASSUME NEW code \in Programs, LoadProgram(code), phase = "issue",
         error' # "deadlock"
  PROVE  Kept'
<1>1. /\ machine' = Fresh(program') /\ program' \in Seq(Instr)
      /\ phase' = "issue" /\ program' \in Programs
  BY LoadIsFresh, ProgramAssumption
<1>2. (/\ machine = Fresh(program) /\ program \in Seq(Instr)
       /\ phase = "issue"
       /\ program # << >> => program \in Programs
       /\ error # "deadlock")' => Kept'
  BY FreshKept, PTL
<1> QED BY <1>1, <1>2

(* A tick of a call, whatever it does, is a step of the machine.             *)
LEMMA TickKept ==
  ASSUME ReplayInv, Kept, goal.running, Next
  PROVE  Kept'
<1>1. program # << >> /\ error = "none" /\ Typed
  BY DEF ReplayInv, CallInv
<1>2. TypeInv /\ PoolInv
  BY <1>1, TypedWithError DEF Errors, Kept
<1>3. NoRowConflict' /\ ReadyTileIsMoving'
  BY <1>2, NextNoRowConflict, NextReadyTile DEF Kept
<1>4. CyclesInv' /\ LogInv' /\ BusyInv'
  BY <1>2, NextCyclesInv, NextLogInv, NextBusyInv DEF Kept
<1>5. ArrayInv' /\ SumsInv' /\ PoolInv'
  BY <1>2, NextArrayInv, NextSumsInv, NextPoolInv DEF Kept
<1>6. DeadlockLasts'
  BY <1>2, NextDeadlockLasts DEF Kept
<1> QED BY <1>3, <1>4, <1>5, <1>6 DEF Kept

LEMMA InitKept == ReplayInit => Kept
<1> SUFFICES ASSUME ReplayInit PROVE Kept
  OBVIOUS
<1>1. machine = Fresh(program)
  BY DEF ReplayInit, Loaded, MemoryInit, UnitsReset, ControlReset, Fresh,
         machine, memories, units, control
<1>2. program = << >> /\ << >> \in Seq(Instr)
  BY DEF ReplayInit, Loaded
<1> QED BY <1>1, <1>2, FreshKept DEF ReplayInit

LEMMA NextKept == ReplayInv /\ Kept /\ [ReplayNext]_replayVars => Kept'
<1> SUFFICES ASSUME ReplayInv, Kept, [ReplayNext]_replayVars PROVE Kept'
  OBVIOUS
<1>1. CASE Load
  <2>1. PICK code \in Programs :
          LoadProgram(code) /\ error' = LoadOutcome(code)
    BY <1>1 DEF Load
  <2>2. phase = "issue" /\ error' # "deadlock"
    BY <1>1, <2>1, IdleIsBetween DEF Load, LoadOutcome
  <2> QED BY <2>1, <2>2, LoadKept
<1>2. CASE PressForward \/ PressBack \/ Jump
  <2>1. PICK until \in {"cycles", "issued"}, target \in Nat :
          Forward(until, target) \/ Backward(until, target)
    BY <1>2, CallsMove
  <2>2. phase = "issue" /\ program # << >>
    BY <1>2, CallsMove, IdleIsBetween DEF HasProgram
  <2>3. CASE Forward(until, target)
    BY <2>3, FrameKept DEF Forward
  <2>4. CASE Backward(until, target)
    <3>1. /\ LoadProgram(program) /\ error' # "deadlock"
          /\ program \in Programs
      BY <2>2, <2>4 DEF Backward, LoadOutcome, Kept, PoolInv
    <3> QED BY <2>2, <3>1, LoadKept
  <2> QED BY <2>1, <2>3, <2>4
<1>3. CASE Finish \/ UNCHANGED replayVars
  BY <1>3, FrameKept DEF Finish, replayVars, vars
<1>4. CASE RunCycle \/ RunThrows
  BY <1>4, TickKept DEF RunCycle, RunThrows, Next
<1> QED BY <1>1, <1>2, <1>3, <1>4 DEF ReplayNext

(* What is shown of the machine from a load on stays true however the user   *)
(* loads, steps, goes back and jumps: load() resets every unit, so no row    *)
(* range, wavefront, log entry or count of the program before is met by the  *)
(* next (tpu.cpp:28-55).                                                     *)
THEOREM LoadsLeaveNothing ==
  ReplaySpec => [](/\ NoRowConflict /\ ReadyTileIsMoving /\ DeadlockIsReal
                   /\ CyclesAccounted /\ TimelineStartsAtIssue
                   /\ Wavefront /\ PartialSums /\ BusyCyclesExact)
<1>1. Kept /\ ReplayInv
        => /\ NoRowConflict /\ ReadyTileIsMoving /\ DeadlockIsReal
           /\ CyclesAccounted /\ TimelineStartsAtIssue
           /\ Wavefront /\ PartialSums /\ BusyCyclesExact
  <2> SUFFICES ASSUME Kept, ReplayInv
               PROVE  /\ NoRowConflict /\ ReadyTileIsMoving /\ DeadlockIsReal
                      /\ CyclesAccounted /\ TimelineStartsAtIssue
                      /\ Wavefront /\ PartialSums /\ BusyCyclesExact
    OBVIOUS
  <2>1. NoRowConflict /\ ReadyTileIsMoving /\ Wavefront
    BY DEF Kept, ArrayInv
  <2>2. DeadlockIsReal
    <3> SUFFICES ASSUME error = "deadlock" PROVE DeadlockIsReal
      BY DEF DeadlockIsReal
    <3>1. TypeInv
      BY TypedWithError DEF ReplayInv, Errors
    <3> QED BY <3>1, IdleAndBlocked DEF Kept, DeadlockIsReal
  <2>3. CyclesAccounted
    BY StalledCyclesNat DEF Kept, ReplayInv, Typed, StatsOK, CyclesInv,
                            CyclesAccounted
  <2>4. TimelineStartsAtIssue
    BY DEF Kept, LogInv, Follows, TimelineStartsAtIssue
  <2>5. PartialSums
    <3>1. \A pe \in PEs : pe[1] \in Cols /\ pe[2] \in Cols
                          /\ pe = <<pe[1], pe[2]>>
      BY DEF PEs
    <3> QED BY <3>1 DEF Kept, SumsInv, PartialSums, SumOf
  <2>6. BusyCyclesExact
    <3>1. /\ stats.mxu_busy_cycles \in Nat /\ StepsToGo \in Int
          /\ Uncounted \in Nat
      <4>1. /\ stats.mxu_busy_cycles \in Nat /\ mxu.step \in Nat
            /\ mxu.rows \in Nat
        BY DEF ReplayInv, Typed, StatsOK, UnitsOK, MxuTypeOK
      <4>2. TotalSteps \in Int
        BY ONLY <4>1, MemoryAssumption DEF TotalSteps
      <4>3. StepsToGo \in Int
        BY ONLY <4>1, <4>2 DEF StepsToGo
      <4> QED BY <4>1, <4>3 DEF Uncounted
    <3> QED BY <3>1 DEF Kept, BusyInv, BusyCyclesExact, StepsToGo, Uncounted
  <2> QED BY <2>1, <2>2, <2>3, <2>4, <2>5, <2>6
<1> QED BY <1>1, InitKept, NextKept, ReplayInvariant, PTL DEF ReplaySpec

-----------------------------------------------------------------------------
(* Where a call that went back comes to rest                                 *)

(* A replay counts up from 0 and passes no target: each cycle counts one     *)
(* cycle and at most one instruction, and the loop looks between any two.    *)
Landing ==
  ~goal.forward /\ error = "none" =>
    /\ goal.running =>
         IF goal.until = "cycles"
         THEN stats.cycles + (IF phase = "issue" THEN 0 ELSE 1) <= goal.target
         ELSE stats.issued <= goal.target
    /\ ~goal.running => Counter = goal.target

LEMMA NextLanding ==
  ReplayInv /\ Landing /\ [ReplayNext]_replayVars => Landing'
<1> SUFFICES ASSUME ReplayInv, Landing, [ReplayNext]_replayVars,
                    ~goal'.forward, error' = "none"
             PROVE  /\ goal'.running =>
                         IF goal'.until = "cycles"
                         THEN stats'.cycles
                                + (IF phase' = "issue" THEN 0 ELSE 1)
                                <= goal'.target
                         ELSE stats'.issued <= goal'.target
                    /\ ~goal'.running => Counter' = goal'.target
  BY DEF Landing
<1>1. /\ stats.cycles \in Nat /\ stats.issued \in Nat /\ goal \in Calls
      /\ goal.target \in Nat /\ goal.until \in {"cycles", "issued"}
      /\ goal.running \in BOOLEAN /\ goal.forward \in BOOLEAN
      /\ stats \in [cycles : Nat, issued : Nat, mxu_busy_cycles : Nat,
                    stall_cycles : [Stalls -> Nat]]
  BY DEF ReplayInv, Typed, StatsOK, CallInv, Calls
<1>2. CASE Load
  BY <1>2 DEF Load, Over, Goal
<1>3. CASE PressForward \/ PressBack \/ Jump
  <2>1. PICK until \in {"cycles", "issued"}, target \in Nat :
          Forward(until, target) \/ Backward(until, target)
    BY <1>3, CallsMove
  <2>2. CASE Forward(until, target)
    BY <2>2 DEF Forward, Goal
  <2>3. CASE Backward(until, target)
    <3>1. goal' = Goal(until, target, FALSE)
      BY <2>3 DEF Backward, LoadOutcome
    <3>2. stats' = StatsReset
      BY <2>3 DEF Backward, LoadProgram, ResetAround
    <3>3. phase' = "issue"
      BY <1>3, <2>3, CallsMove, IdleIsBetween DEF Backward, LoadProgram
    <3> QED BY <3>1, <3>2, <3>3 DEF Goal, StatsReset
  <2> QED BY <2>1, <2>2, <2>3
<1>4. CASE Finish
  <2>1. /\ goal.running /\ Reached /\ goal' = Over(goal)
        /\ error = "none" /\ stats' = stats
    BY <1>4 DEF Finish, vars, machine, control
  <2>2. /\ ~goal'.running /\ goal'.until = goal.until
        /\ goal'.target = goal.target /\ ~goal.forward
    BY <1>1, <2>1 DEF Over, Calls
  <2>3. Counter' = Counter
    BY <2>1, <2>2 DEF Counter
  <2>4. phase = "issue" /\ Counter >= goal.target
    BY <2>1, <2>2 DEF Reached
  <2>5. Counter <= goal.target
    BY <1>1, <2>1, <2>2, <2>4 DEF Landing, Counter
  <2>6. Counter \in Nat
    BY <1>1 DEF Counter
  <2> QED BY <1>1, <2>2, <2>3, <2>4, <2>5, <2>6
<1>5. CASE UNCHANGED replayVars
  BY <1>5 DEF replayVars, vars, machine, control, Landing, Counter
<1>6. CASE RunCycle
  <2>1. /\ goal.running /\ ~Reached /\ goal' = goal /\ error = "none"
        /\ ~goal.forward
    BY <1>6 DEF RunCycle, ReplayInv, CallInv
  <2>2. IF goal.until = "cycles"
        THEN stats.cycles + (IF phase = "issue" THEN 0 ELSE 1) <= goal.target
        ELSE stats.issued <= goal.target
    BY <2>1 DEF Landing
  <2>3. phase = "issue" => ~(Counter >= goal.target)
    BY <2>1 DEF Reached
  <2>4. CASE Stalled \/ TickIssues
    <3>1. phase = "issue" /\ phase' = "host"
      BY <2>4 DEF Stalled, TickIssues, IssueHalt, IssueNopOrSync,
                  IssueHostTransfer, IssueReadWeights, IssueMatrixMultiply,
                  IssueActivate, Issuing, Issued, Advance, Ticking
    <3>2. stats' \in {stats, [stats EXCEPT !.issued = @ + 1]}
      BY <2>4 DEF Stalled, TickIssues, IssueHalt, IssueNopOrSync,
                  IssueHostTransfer, IssueReadWeights, IssueMatrixMultiply,
                  IssueActivate, Issued
    <3>3. stats'.cycles = stats.cycles
          /\ stats'.issued \in {stats.issued, stats.issued + 1}
      BY <1>1, <3>2
    <3> QED BY <1>1, <2>1, <2>3, <3>1, <3>3 DEF Counter
  <2>5. CASE AdvanceHost \/ AdvanceFifo \/ AdvanceShifter \/ AdvanceArray
    <3>1. phase # "issue" /\ phase' # "issue" /\ stats' = stats
      BY <2>5 DEF AdvanceHost, AdvanceFifo, AdvanceShifter, AdvanceArray, Step
    <3> QED BY <2>1, <2>2, <3>1
  <2>6. CASE AdvanceActivation
    <3>1. phase = "act" /\ phase' = "issue" /\ stats' = Counted
      BY <2>6 DEF AdvanceActivation, Step
    <3> QED BY <1>1, <2>1, <2>2, <3>1 DEF Counted
  <2>7. CASE TickHalted
    BY <2>1, <2>2, <2>7 DEF TickHalted, vars, machine, control
  <2> QED BY <1>6, <2>4, <2>5, <2>6, <2>7 DEF RunCycle, TickAdvances
<1>7. CASE RunThrows
  BY <1>7 DEF RunThrows, TickThrows, PastTheEnd, UnknownOpcode, Deadlock,
              Refused, Throw
<1> QED BY <1>2, <1>3, <1>4, <1>5, <1>6, <1>7 DEF ReplayNext

(* A call that went back, and that no exception ended, leaves the machine at *)
(* exactly the cycle or the issue asked for, for every program and target.   *)
(* What the run `misfit` finds is the only way for it not to: the reload, or *)
(* a tick, throws.                                                           *)
BackLandsOrThrows == error = "none" => BackLands

THEOREM BackLandsUnlessItThrows == ReplaySpec => []BackLandsOrThrows
<1>1. ReplayInit => Landing
  BY DEF ReplayInit, Over, Goal, Landing
<1>2. Landing /\ ReplayInv => BackLandsOrThrows
  BY DEF Landing, BackLandsOrThrows, BackLands, Idle
<1> QED BY <1>1, <1>2, NextLanding, ReplayInvariant, PTL DEF ReplaySpec

-----------------------------------------------------------------------------
(* Addresses and rows. A transfer counts bytes from the start of its rows;   *)
(* everything else speaks of rows and columns.                               *)

LEMMA AddressRow ==
  ASSUME NEW a \in Nat
  PROVE  /\ a \div Dim \in Nat /\ a % Dim \in Cols
         /\ a = UbAt(a \div Dim, a % Dim)
<1> DEFINE d == Dim
<1>1. d \in Nat \ {0}
  BY MemoryAssumption
<1>2. /\ (a \div d) \in Nat /\ (a % d) \in 0 .. d - 1
      /\ a = (d * (a \div d)) + (a % d)
  BY <1>1, Division
<1>3. d * (a \div d) = (a \div d) * d
  BY <1>1, <1>2, Z3
<1> QED BY <1>2, <1>3 DEF UbAt, Cols

LEMMA UbAddressRow ==
  ASSUME NEW a \in UbAddrs
  PROVE  a \in Nat /\ a \div Dim < UbRows
<1> DEFINE d == Dim
           q == a \div d
<1>1. d \in Nat \ {0} /\ UbRows \in Nat /\ a \in Nat
  BY MemoryAssumption DEF UbAddrs
<1>2. q \in Nat /\ a >= q * d
  BY <1>1, AddressRow DEF UbAt, Cols
<1>3. UbRows * d \in Nat /\ a < UbRows * d
  BY <1>1, ProductNat DEF UbAddrs
<1> HIDE DEF q, d
<1>4. q >= UbRows => q * d >= UbRows * d
  BY <1>1, <1>2, Z3
<1>5. q * d \in Nat
  BY <1>1, <1>2, ProductNat
<1>6. q < UbRows
  BY <1>1, <1>2, <1>3, <1>4, <1>5
<1> QED BY <1>1, <1>6 DEF q, d

(* The bytes of rows first .. first + count - 1, counted from the first one. *)
LEMMA BytesOfRows ==
  ASSUME NEW a \in Nat, NEW first \in Nat, NEW count \in Nat
  PROVE  a - UbAt(first, 0) \in 0 .. count * Dim - 1
           <=> a \div Dim \in first .. first + count - 1
<1> DEFINE d == Dim
           q == a \div d
           k == a % d
           x == first * d
           y == count * d
<1>1. d \in Nat \ {0}
  BY MemoryAssumption
<1>2. q \in Nat /\ k \in 0 .. d - 1 /\ a = (q * d) + k
  BY <1>1, AddressRow DEF UbAt, Cols
<1> HIDE DEF q, k, d
<1>3. x \in Nat /\ y \in Nat /\ q * d \in Nat /\ (first + count) * d = x + y
  BY <1>1, <1>2, Z3
<1>4. /\ q >= first => q * d >= x
      /\ q < first => (q * d) + d <= x
  <2>1. q >= first => q * d >= first * d
    BY <1>1, <1>2, Z3
  <2>2. q + 1 <= first => (q + 1) * d <= first * d
    BY <1>1, <1>2, Z3
  <2>3. (q + 1) * d = (q * d) + d
    BY <1>1, <1>2, Z3
  <2> QED BY <1>2, <2>1, <2>2, <2>3
<1>5. /\ q >= first + count => q * d >= x + y
      /\ q < first + count => (q * d) + d <= x + y
  <2>1. q >= first + count => q * d >= (first + count) * d
    BY <1>1, <1>2, Z3
  <2>2. q + 1 <= first + count => (q + 1) * d <= (first + count) * d
    BY <1>1, <1>2, Z3
  <2>3. (q + 1) * d = (q * d) + d
    BY <1>1, <1>2, Z3
  <2> QED BY <1>2, <1>3, <2>1, <2>2, <2>3
<1>6. UbAt(first, 0) = x
  BY <1>3 DEF UbAt, d
<1> HIDE DEF x, y
<1>7. a - x \in 0 .. y - 1 <=> q \in first .. first + count - 1
  BY <1>1, <1>2, <1>3, <1>4, <1>5
<1> QED BY <1>6, <1>7 DEF y, q, d

-----------------------------------------------------------------------------
(* The cells of the drained memories.                                        *)

HostWillWrite(a) ==
  hif.direction = "HostToUb" /\ a - UbAt(hif.ub_row, 0) \in ToMove

ActWillWrite(a) == a \div Dim - act.ub_row \in ToActivate

UbCell(a) ==
  IF HostWillWrite(a)
  THEN hostMem[hif.host_row * Dim + (a - UbAt(hif.ub_row, 0))]
  ELSE IF ActWillWrite(a) THEN PendingRow(a \div Dim - act.ub_row, a % Dim)
  ELSE ub[a]

HostCell(a) ==
  IF hif.direction = "UbToHost" /\ a - hif.host_row * Dim \in ToMove
  THEN ub[UbAt(hif.ub_row, 0) + (a - hif.host_row * Dim)]
  ELSE hostMem[a]

MxuWillWrite(c) ==
  /\ mxu.busy
  /\ c[1] - mxu.acc_row \in 0 .. mxu.rows - 1
  /\ mxu.step <= (c[1] - mxu.acc_row) + Dim - 1 + c[2]

(* SumOf of all Dim features is the product of an input row with a column.   *)
AccCell(c) ==
  IF MxuWillWrite(c)
  THEN (IF mxu.accumulate THEN acc[c] ELSE << >>)
         \o SumOf(mxu.ub_row + (c[1] - mxu.acc_row), Dim - 1, c[2])
  ELSE acc[c]

LEMMA DrainedCells ==
  /\ DrainedUb = [a \in UbAddrs |-> UbCell(a)]
  /\ DrainedHostMem = [a \in HostAddrs |-> HostCell(a)]
  /\ DrainedAcc = [c \in AccCells |-> AccCell(c)]
<1>1. DrainedUb = [a \in UbAddrs |-> UbCell(a)]
  BY DEF DrainedUb, UbCell, HostWillWrite, ActWillWrite
<1>2. DrainedHostMem = [a \in HostAddrs |-> HostCell(a)]
  BY DEF DrainedHostMem, HostCell
<1>3. DrainedAcc = [c \in AccCells |-> AccCell(c)]
  <2>1. Dim - 1 + 1 = Dim
    BY MemoryAssumption
  <2> QED BY <2>1 DEF DrainedAcc, AccCell, MxuWillWrite, SumOf
<1> QED BY <1>1, <1>2, <1>3

LEMMA NextCells ==
  /\ DrainedUb' = [a \in UbAddrs |-> UbCell(a)']
  /\ DrainedHostMem' = [a \in HostAddrs |-> HostCell(a)']
  /\ DrainedAcc' = [c \in AccCells |-> AccCell(c)']
<1>1. Dim - 1 + 1 = Dim
  BY MemoryAssumption
<1>2. DrainedUb' = [a \in UbAddrs |-> UbCell(a)']
  BY DEF DrainedUb, UbCell, HostWillWrite, ActWillWrite
<1>3. DrainedHostMem' = [a \in HostAddrs |-> HostCell(a)']
  BY DEF DrainedHostMem, HostCell
<1>4. DrainedAcc' = [c \in AccCells |-> AccCell(c)']
  BY <1>1 DEF DrainedAcc, AccCell, MxuWillWrite, SumOf
<1> QED BY <1>2, <1>3, <1>4

LEMMA DrainedStays ==
  /\ (\A a \in UbAddrs : UbCell(a)' = UbCell(a)) => DrainedUb' = DrainedUb
  /\ (\A a \in HostAddrs : HostCell(a)' = HostCell(a))
       => DrainedHostMem' = DrainedHostMem
  /\ (\A c \in AccCells : AccCell(c)' = AccCell(c)) => DrainedAcc' = DrainedAcc
BY NextCells, DrainedCells

-----------------------------------------------------------------------------
(* Pooling. Input row i of a pooling Activate is pixel (y, x) of the feature *)
(* map; y is row yy of band b, x is column xx of the band's window c.        *)

LEMMA DivisionIs ==
  ASSUME NEW d \in Nat \ {0}, NEW q \in Nat, NEW r \in 0 .. d - 1
  PROVE  /\ (q * d) + r \in Nat
         /\ ((q * d) + r) \div d = q /\ ((q * d) + r) % d = r
BY Z3

LEMMA Products ==
  ASSUME NEW s \in Nat \ {0}, NEW p \in Nat \ {0}, NEW m \in Nat
  PROVE  /\ s * s \in Nat \ {0} /\ m * p \in Nat /\ m * s \in Nat
         /\ s * p \in Nat \ {0} /\ (s * p) * s \in Nat \ {0}
         /\ ((s * p) * s) * m \in Nat
         /\ ((s * p) * s) * m = (m * s) * (s * p)
         /\ ((s * p) * s) * m = (m * p) * (s * s)
BY Z3

(* A feature map of n pixels, w to the row, pooled by windows of s by s: how *)
(* many windows a band has, how many bands there are, and how many rows come *)
(* of it.                                                                    *)
PerBand(s, w)     == w \div s
BandCount(n, s, w) == n \div (w * s)
PooledRows(n, s)  == n \div (s * s)

Whole(s, w) == w % s = 0

LEMMA PerBandIs ==
  ASSUME NEW s \in Nat \ {0}, NEW w \in Nat \ {0}, Whole(s, w)
  PROVE  PerBand(s, w) \in Nat \ {0} /\ w = s * PerBand(s, w)
<1> DEFINE p == w \div s
<1>1. p \in Nat /\ w = s * p
  BY Division DEF Whole
<1>2. p # 0
  BY <1>1, Z3
<1> QED BY <1>1, <1>2 DEF PerBand

LEMMA Bands ==
  ASSUME NEW s \in Nat \ {0}, NEW w \in Nat \ {0}, NEW n \in Nat,
         PoolShapeOK(n, s, w)
  PROVE  /\ PerBand(s, w) \in Nat \ {0} /\ w = s * PerBand(s, w)
         /\ BandCount(n, s, w) \in Nat
         /\ n = (BandCount(n, s, w) * s) * w
         /\ PooledRows(n, s) = BandCount(n, s, w) * PerBand(s, w)
         /\ PooledRows(n, s) \in Nat
<1>1. w % s = 0 /\ n % (w * s) = 0
  BY DEF PoolShapeOK
<1>2. PerBand(s, w) \in Nat \ {0} /\ w = s * PerBand(s, w)
  BY <1>1, PerBandIs DEF Whole
<1> DEFINE p == PerBand(s, w)
           d == w * s
           m == n \div d
           e == s * s
<1>3. /\ m \in Nat /\ n = (m * s) * w /\ n = (m * p) * e
  <2>1. d = w * s /\ n % d = 0 /\ p \in Nat \ {0} /\ w = s * p
    BY <1>1, <1>2
  <2> HIDE DEF d, p
  <2>2. d = (s * p) * s
    BY ONLY <2>1
  <2>3. d \in Nat \ {0}
    BY ONLY <2>1, <2>2, s \in Nat \ {0}, Products
  <2>4. m \in Nat /\ n = (d * m) + (n % d)
    BY ONLY <2>3, n \in Nat, Division
  <2> HIDE DEF m
  <2>5. /\ ((s * p) * s) * m \in Nat
        /\ ((s * p) * s) * m = (m * s) * (s * p)
        /\ ((s * p) * s) * m = (m * p) * (s * s)
    BY ONLY <2>1, <2>4, s \in Nat \ {0}, Products
  <2>6. n = d * m
    BY ONLY <2>1, <2>2, <2>4, <2>5
  <2> QED BY ONLY <2>1, <2>2, <2>4, <2>5, <2>6 DEF e
<1>4. e \in Nat \ {0} /\ m * p \in Nat
  <2>1. p \in Nat
    BY <1>2
  <2> HIDE DEF p, m
  <2> QED BY <1>3, <2>1, Z3
<1>5. n \div e = m * p
  <2> DEFINE q == m * p
  <2>1. q \in Nat /\ n = q * e
    BY <1>3, <1>4
  <2> HIDE DEF q, m, p, e
  <2>2. ((q * e) + 0) \div e = q /\ (q * e) + 0 \in Nat
    BY ONLY <1>4, <2>1, DivisionIs
  <2>3. (q * e) + 0 = n
    BY ONLY <2>1, n \in Nat
  <2> QED BY ONLY <2>2, <2>3 DEF q
<1>6. BandCount(n, s, w) = m /\ PooledRows(n, s) = n \div e
  BY DEF BandCount, PooledRows
<1> QED BY ONLY <1>2, <1>3, <1>4, <1>5, <1>6 DEF p

(* Every pixel of every window is one of the input rows.                     *)
LEMMA WindowPixel ==
  ASSUME NEW s \in Nat \ {0}, NEW w \in Nat \ {0}, NEW n \in Nat,
         PoolShapeOK(n, s, w), NEW o \in Nat, o < PooledRows(n, s),
         NEW j \in 1 .. s * s
  PROVE  ((o \div PerBand(s, w)) * s + (j - 1) \div s) * w
           + (o % PerBand(s, w)) * s + ((j - 1) % s) \in 0 .. n - 1
<1> DEFINE m == BandCount(n, s, w)
           p == PerBand(s, w)
           b == o \div p
           c == o % p
           yy == (j - 1) \div s
           xx == (j - 1) % s
           y == (b * s) + yy
           x == (c * s) + xx
<1>1. /\ m \in Nat /\ p \in Nat \ {0} /\ w = s * p /\ n = (m * s) * w
      /\ o < m * p
  BY Bands
<1> HIDE DEF m, p
<1>2. b \in Nat /\ c \in 0 .. p - 1 /\ o = (p * b) + c
  BY <1>1, Division
<1>3. j - 1 \in Nat /\ j - 1 < s * s
  BY Z3
<1>4. yy \in Nat /\ xx \in 0 .. s - 1 /\ j - 1 = (s * yy) + xx
  BY <1>3, Division
<1> HIDE DEF b, c, yy, xx, p
<1>5. yy < s
  <2>1. yy >= s => s * yy >= s * s
    BY <1>4, Z3
  <2>2. s * yy \in Nat /\ s * s \in Nat
    BY <1>4, Z3
  <2> QED BY <1>3, <1>4, <2>1, <2>2
<1>6. b < m
  <2>1. b >= m => p * b >= p * m
    BY <1>1, <1>2, Z3
  <2>2. p * b \in Nat /\ p * m \in Nat /\ m * p = p * m
    BY <1>1, <1>2, Z3
  <2> QED BY <1>1, <1>2, <2>1, <2>2
<1>7. y \in Nat /\ y + 1 <= m * s
  <2>1. b * s \in Nat /\ (b + 1) * s <= m * s /\ (b + 1) * s = (b * s) + s
        /\ m * s \in Nat
    BY <1>1, <1>2, <1>6, Z3
  <2> QED BY <1>4, <1>5, <2>1
<1>8. x \in Nat /\ x + 1 <= w
  <2>1. c * s \in Nat /\ (c + 1) * s <= p * s /\ (c + 1) * s = (c * s) + s
        /\ p * s = w
    BY <1>1, <1>2, Z3
  <2> QED BY <1>4, <2>1
<1> HIDE DEF y, x
<1>9. (y * w) + x \in 0 .. n - 1
  <2>1. y * w \in Nat /\ (y + 1) * w = (y * w) + w
        /\ (y + 1) * w <= (m * s) * w
    <3>1. m * s \in Nat
      BY <1>1, ProductNat
    <3> QED BY <1>7, <3>1, Z3
  <2> QED BY <1>1, <1>8, <2>1
<1>10. (y * w) + x = ((b * s + yy) * w + c * s) + xx
  <2>1. y * w \in Nat /\ c * s \in Nat
    BY <1>1, <1>2, <1>7, ProductNat
  <2> QED BY <1>4, <2>1 DEF y, x
<1> QED BY <1>9, <1>10 DEF b, c, yy, xx, p

-----------------------------------------------------------------------------
(* The tile in the shadow plane                                              *)

ShadowTile(k) ==
  \A n \in Cols : planes[ShadowPlane][<<k, n>>]
                    = <<"weight", shifter.shadow_tile, k * Dim + n>>

(* Inductive: the shadow plane holds the rows shifted so far of the tile it  *)
(* is said to hold, which until the last one is still the FIFO's oldest.     *)
TilesInv ==
  /\ shifter.shadow_full => shifter.rows_shifted = Dim
  /\ Shifting => fifo # << >> /\ shifter.shadow_tile = Head(fifo).tile
  /\ \A k \in Cols : k < shifter.rows_shifted => ShadowTile(k)

LEMMA ShifterTypes ==
  ASSUME TypeInv
  PROVE  /\ shifter \in [active_plane : 0 .. 1, active_tile : Int,
                         shadow_tile : Int, rows_shifted : 0 .. Dim,
                         shadow_full : BOOLEAN]
         /\ fifo \in Seq(FifoTile) /\ Dim \in Nat \ {0}
         /\ \A p \in 0 .. 1 : IsMemory(planes[p], PEs)
         /\ IsMemory(planes, 0 .. 1) /\ ShadowPlane \in 0 .. 1
         /\ ShadowPlane # shifter.active_plane
         /\ ~shifter.shadow_full => shifter.rows_shifted < Dim
BY MemoryAssumption
   DEF TypeInv, UnitsOK, MxuTypeOK, FifoTypeOK, ShifterOK, ShadowPlane

LEMMA TilesStay ==
  ASSUME TilesInv, UNCHANGED <<planes, shifter>>,
         fifo # << >> => fifo' # << >> /\ Head(fifo').tile = Head(fifo).tile
  PROVE  TilesInv'
BY DEF TilesInv, ShadowTile, Shifting, ShadowPlane

(* A byte's place in its tile.                                               *)
LEMMA TilePlace ==
  ASSUME NEW k \in Cols, NEW n \in Cols
  PROVE  k * Dim + n \in 0 .. TileBytes - 1
<1> DEFINE d == Dim
<1>1. d \in Nat /\ k \in 0 .. d - 1 /\ n \in 0 .. d - 1
  BY MemoryAssumption DEF Cols
<1> HIDE DEF d
<1>2. /\ (k + 1) * d <= d * d /\ (k + 1) * d = (k * d) + d
      /\ k * d \in Nat /\ d * d \in Nat
  BY <1>1, Z3
<1> QED BY <1>1, <1>2 DEF TileBytes, d

LEMMA ShiftRowTiles ==
  ASSUME TypeInv, TilesInv, ShiftRow
  PROVE  TilesInv'
<1> DEFINE k == shifter.rows_shifted
           front == Head(fifo)
           old == planes[ShadowPlane]
           new == [pe \in PEs |-> IF pe[1] = k
                                  THEN SlotByte(front, k * Dim + pe[2])
                                  ELSE old[pe]]
<1>1. /\ ~shifter.shadow_full /\ FrontReady /\ fifo # << >>
      /\ planes' = [planes EXCEPT ![ShadowPlane] = new]
      /\ shifter' = [shifter EXCEPT
                       !.shadow_tile = IF k = 0 THEN front.tile ELSE @,
                       !.rows_shifted = k + 1,
                       !.shadow_full = (k + 1 = Dim)]
      /\ fifo' = IF k + 1 = Dim THEN Tail(fifo) ELSE fifo
  BY DEF ShiftRow, FrontReady
<1>2. k \in Cols /\ k \in Nat
  BY <1>1, ShifterTypes DEF Cols
<1>3. /\ shifter'.rows_shifted = k + 1
      /\ shifter'.shadow_full = (k + 1 = Dim)
      /\ shifter'.active_plane = shifter.active_plane
  BY <1>1, ShifterTypes
<1>4. shifter'.shadow_tile = front.tile
  <2>1. CASE k = 0
    BY <1>1, <2>1, ShifterTypes
  <2>2. CASE k # 0
    <3>1. Shifting
      BY <1>1, <1>2, <2>2 DEF Shifting
    <3> QED BY <1>1, <2>2, <3>1, ShifterTypes DEF TilesInv
  <2> QED BY <2>1, <2>2
<1>5. planes'[ShadowPlane] = new /\ ShadowPlane' = ShadowPlane
  BY <1>1, <1>3, ShifterTypes DEF IsMemory, ShadowPlane
<1>6. ASSUME NEW i \in Cols, i < k + 1
      PROVE  ShadowTile(i)'
  <2> SUFFICES ASSUME NEW n \in Cols
               PROVE  new[<<i, n>>] = <<"weight", front.tile, i * Dim + n>>
    BY <1>4, <1>5 DEF ShadowTile
  <2>1. <<i, n>> \in PEs /\ i \in Int
    BY DEF PEs, Cols
  <2>2. CASE i = k
    <3>1. new[<<i, n>>] = SlotByte(front, k * Dim + n)
      BY <2>1, <2>2
    <3>2. front.bytes_arrived = TileBytes
      BY <1>1 DEF FrontReady, Ready
    <3>3. k * Dim + n \in 0 .. TileBytes - 1 /\ TileBytes \in Nat
      BY <1>2, TilePlace, TileBytesNat
    <3> QED BY <2>2, <3>1, <3>2, <3>3 DEF SlotByte
  <2>3. CASE i # k
    <3>1. new[<<i, n>>] = old[<<i, n>>]
      BY <2>1, <2>3
    <3>2. i < k /\ k # 0
      BY <1>2, <1>6, <2>3 DEF Cols
    <3>3. Shifting
      BY <1>1, <1>2, <3>2 DEF Shifting
    <3> QED BY <3>1, <3>2, <3>3 DEF TilesInv, ShadowTile
  <2> QED BY <2>2, <2>3
<1>7. Shifting' => fifo' = fifo
  BY <1>1, <1>3 DEF Shifting
<1> HIDE DEF k, front, new, old
<1> QED BY <1>1, <1>3, <1>4, <1>6, <1>7 DEF TilesInv, k, front

LEMMA SwitchTiles ==
  ASSUME TypeInv, SwitchPlanes
  PROVE  TilesInv'
<1>1. shifter'.rows_shifted = 0 /\ shifter'.shadow_full = FALSE
  BY DEF SwitchPlanes
<1>2. ~Shifting' /\ \A k \in Cols : ~(k < 0)
  BY <1>1, MemoryAssumption DEF Shifting, Cols
<1> QED BY <1>1, <1>2 DEF TilesInv

LEMMA FifoMovesTiles ==
  ASSUME TypeInv, FifoTick
  PROVE  /\ DOMAIN fifo' = DOMAIN fifo
         /\ \A i \in DOMAIN fifo : fifo'[i].tile = fifo[i].tile
         /\ fifo' \in Seq(FifoTile)
<1>1. CASE FifoMoves
  <2>1. PICK i \in DOMAIN fifo :
          fifo' = [fifo EXCEPT ![i].bytes_arrived =
                     @ + Least(TileBytes - @, WeightBytesPerCycle)]
    BY <1>1 DEF FifoMoves
  <2>2. \A j \in DOMAIN fifo : fifo[j] \in FifoTile
    BY ShifterTypes
  <2> QED BY <2>1, <2>2, FifoTickType DEF FifoTile, TypeInv, UnitsOK, FifoTypeOK
<1>2. CASE UNCHANGED fifo
  BY <1>2, ShifterTypes
<1> QED BY <1>1, <1>2 DEF FifoTick

LEMMA NextTilesInv == TypeInv /\ TilesInv /\ [Next]_vars => TilesInv'
<1> SUFFICES ASSUME TypeInv, TilesInv, [Next]_vars PROVE TilesInv'
  OBVIOUS
<1>1. CASE IssueMatrixMultiply
  <2>1. CASE SwitchPlanes
    BY <2>1, SwitchTiles
  <2>2. CASE UNCHANGED shifter
    <3>1. UNCHANGED <<planes, fifo>>
      BY <1>1 DEF IssueMatrixMultiply, MxuStart
    <3> QED BY <2>2, <3>1, TilesStay
  <2> QED BY <1>1, <2>1, <2>2 DEF IssueMatrixMultiply, MxuStart
<1>2. CASE IssueReadWeights
  <2>1. /\ UNCHANGED <<planes, shifter>>
        /\ fifo' = Append(fifo, [tile |-> in.tile, bytes_arrived |-> 0])
    BY <1>2 DEF IssueReadWeights, FifoPush
  <2>2. fifo # << >> => fifo' # << >> /\ Head(fifo').tile = Head(fifo).tile
    <3> DEFINE e == [tile |-> in.tile, bytes_arrived |-> 0]
    <3>1. in.tile \in Nat
      BY <1>2, InType DEF IssueReadWeights, Issuing, TypeInv, IssueOK, Instr
    <3>2. e \in FifoTile
      BY <3>1 DEF FifoTile
    <3> HIDE DEF e
    <3>3. fifo \in Seq(FifoTile)
      BY ShifterTypes
    <3> QED BY <2>1, <3>2, <3>3 DEF e
  <2> QED BY <2>1, <2>2, TilesStay
<1>3. CASE AdvanceFifo
  <2>1. /\ UNCHANGED <<planes, shifter>>
        /\ DOMAIN fifo' = DOMAIN fifo
        /\ \A i \in DOMAIN fifo : fifo'[i].tile = fifo[i].tile
        /\ fifo' \in Seq(FifoTile) /\ fifo \in Seq(FifoTile)
    BY <1>3, FifoMovesTiles, ShifterTypes DEF AdvanceFifo
  <2>2. fifo # << >> => fifo' # << >> /\ Head(fifo').tile = Head(fifo).tile
    <3> SUFFICES ASSUME fifo # << >>
                 PROVE  fifo' # << >> /\ Head(fifo').tile = Head(fifo).tile
      OBVIOUS
    <3>1. Len(fifo) > 0 /\ 1 \in DOMAIN fifo /\ Head(fifo) = fifo[1]
      BY <2>1
    <3>2. fifo' # << >> /\ Head(fifo') = fifo'[1]
      BY <2>1, <3>1
    <3> QED BY <2>1, <3>1, <3>2
  <2> QED BY <2>1, <2>2, TilesStay
<1>4. CASE AdvanceShifter
  <2>1. CASE ShiftRow
    BY <2>1, ShiftRowTiles
  <2>2. CASE UNCHANGED <<planes, shifter, fifo>>
    BY <2>2, TilesStay
  <2> QED BY <1>4, <2>1, <2>2 DEF AdvanceShifter, ShiftWeights
<1>5. CASE UNCHANGED <<planes, shifter, fifo>>
  BY <1>5, TilesStay
<1> QED BY <1>1, <1>2, <1>3, <1>4, <1>5
        DEF Next, TickThrows, PastTheEnd, UnknownOpcode, Deadlock, Refused,
            Throw, Stalled, TickIssues, IssueHalt, IssueNopOrSync,
            IssueHostTransfer, IssueActivate, TickAdvances,
            AdvanceHost, AdvanceArray, AdvanceActivation, TickHalted, vars,
            machine, units

LEMMA InitTilesInv == Init => TilesInv
<1> SUFFICES ASSUME Init PROVE TilesInv
  OBVIOUS
<1>1. shifter = ShifterReset
  BY DEF Init, Loaded, UnitsReset
<1> QED BY <1>1, MemoryAssumption DEF TilesInv, ShifterReset, Shifting, Cols

-----------------------------------------------------------------------------
(* The line buffer                                                           *)

(* Where pixel i of the feature map is: its band, its row in the band, its   *)
(* window in the row, its column in the window.                              *)
BandOf(i, s, w)   == (i \div w) \div s
RowIn(i, s, w)    == (i \div w) % s
WindowOf(i, s, w) == (i % w) \div s
ColumnIn(i, s, w) == (i % w) % s

PixelAt(b, yy, c, xx, s, w) == ((b * s) + yy) * w + ((c * s) + xx)

(* Pixel j of window c of band b, as PendingRow and Window count them.       *)
Pixel(b, c, j, s, w) ==
  ((b * s + (j - 1) \div s) * w + c * s) + ((j - 1) % s)

(* How many pixels have joined window c of the band when i is the next one.  *)
Joined(i, c, s, w) ==
  IF c < WindowOf(i, s, w) THEN (RowIn(i, s, w) + 1) * s
  ELSE IF c = WindowOf(i, s, w) THEN RowIn(i, s, w) * s + ColumnIn(i, s, w)
  ELSE RowIn(i, s, w) * s

BandEnds(i, s, w) ==
  /\ RowIn(i, s, w) = s - 1
  /\ WindowOf(i, s, w) = PerBand(s, w) - 1
  /\ ColumnIn(i, s, w) = s - 1

LEMMA PartsAre ==
  ASSUME NEW s \in Nat \ {0}, NEW w \in Nat \ {0}, Whole(s, w), NEW i \in Nat
  PROVE  /\ PerBand(s, w) \in Nat \ {0} /\ w = s * PerBand(s, w)
         /\ BandOf(i, s, w) \in Nat /\ RowIn(i, s, w) \in 0 .. s - 1
         /\ WindowOf(i, s, w) \in 0 .. PerBand(s, w) - 1
         /\ ColumnIn(i, s, w) \in 0 .. s - 1
         /\ i = PixelAt(BandOf(i, s, w), RowIn(i, s, w), WindowOf(i, s, w),
                        ColumnIn(i, s, w), s, w)
<1> DEFINE p == PerBand(s, w)
           y == i \div w
           x == i % w
           c == x \div s
<1>1. p \in Nat \ {0} /\ w = s * p
  BY PerBandIs
<1>2. y \in Nat /\ x \in 0 .. w - 1 /\ i = (w * y) + x
  BY Division
<1>3. y \div s \in Nat /\ y % s \in 0 .. s - 1
      /\ y = (s * (y \div s)) + (y % s)
  BY <1>2, Division
<1>4. c \in Nat /\ x % s \in 0 .. s - 1 /\ x = (s * c) + (x % s)
  <2>1. x \in Nat
    BY <1>2
  <2> HIDE DEF x
  <2> QED BY <2>1, Division
<1> HIDE DEF c, x, y, p
<1>5. w * y = y * w /\ s * (y \div s) = (y \div s) * s /\ s * c = c * s
  BY <1>2, <1>3, <1>4, Z3
<1>6. c < p
  <2>1. c >= p => s * c >= s * p
    BY <1>1, <1>4, Z3
  <2>2. s * c \in Nat /\ s * p \in Nat
    BY <1>1, <1>4, Z3
  <2> QED BY <1>1, <1>2, <1>4, <2>1, <2>2
<1>7. /\ p \in Nat \ {0} /\ w = s * p
      /\ y \div s \in Nat /\ y % s \in 0 .. s - 1
      /\ x \div s \in 0 .. p - 1 /\ x % s \in 0 .. s - 1
      /\ y = ((y \div s) * s) + (y % s)
      /\ x = ((x \div s) * s) + (x % s)
      /\ i = (y * w) + x
  BY ONLY <1>1, <1>2, <1>3, <1>4, <1>5, <1>6 DEF c
<1>8. /\ PerBand(s, w) = p /\ BandOf(i, s, w) = y \div s
      /\ RowIn(i, s, w) = y % s /\ WindowOf(i, s, w) = x \div s
      /\ ColumnIn(i, s, w) = x % s
  BY DEF p, y, x, PerBand, BandOf, RowIn, WindowOf, ColumnIn
<1>9. i = PixelAt(y \div s, y % s, x \div s, x % s, s, w)
  <2> DEFINE b == y \div s
             d == x \div s
  <2>1. y = (b * s) + (y % s) /\ x = (d * s) + (x % s) /\ i = (y * w) + x
    BY <1>7
  <2> HIDE DEF b, d
  <2> QED BY ONLY <2>1 DEF PixelAt, b, d
<1> QED BY ONLY <1>7, <1>8, <1>9

LEMMA PartsUnique ==
  ASSUME NEW s \in Nat \ {0}, NEW w \in Nat \ {0}, Whole(s, w),
         NEW b \in Nat, NEW yy \in 0 .. s - 1,
         NEW c \in 0 .. PerBand(s, w) - 1, NEW xx \in 0 .. s - 1
  PROVE  LET i == PixelAt(b, yy, c, xx, s, w) IN
         /\ i \in Nat
         /\ BandOf(i, s, w) = b /\ RowIn(i, s, w) = yy
         /\ WindowOf(i, s, w) = c /\ ColumnIn(i, s, w) = xx
<1> DEFINE p == PerBand(s, w)
           i == PixelAt(b, yy, c, xx, s, w)
           y == (b * s) + yy
           x == (c * s) + xx
<1>0. p \in Nat \ {0} /\ w = s * p /\ w \in Nat \ {0} /\ c \in 0 .. p - 1
  BY PartsAre, 0 \in Nat
<1> HIDE DEF p
<1>1. y \in Nat /\ y \div s = b /\ y % s = yy
  BY ONLY s \in Nat \ {0}, b \in Nat, yy \in 0 .. s - 1, DivisionIs
<1>2. x \in Nat /\ x \div s = c /\ x % s = xx
  BY ONLY <1>0, s \in Nat \ {0}, c \in 0 .. p - 1, xx \in 0 .. s - 1,
          DivisionIs, SMTT(30)
<1>3. x < w
  <2>2. /\ (c + 1) * s <= p * s /\ (c + 1) * s = (c * s) + s /\ c * s \in Nat
        /\ p * s = s * p
    BY <1>0, Z3
  <2> QED BY <1>0, <2>2
<1>4. i = (y * w) + x
  BY DEF PixelAt
<1> HIDE DEF y, x, i
<1>5. i \in Nat /\ i \div w = y /\ i % w = x
  BY ONLY <1>0, <1>1, <1>2, <1>3, <1>4, DivisionIs
<1> QED BY ONLY <1>1, <1>2, <1>5 DEF BandOf, RowIn, WindowOf, ColumnIn, i

(* Where the next pixel is, and how many pixels have joined each window then.*)
LEMMA NextPixel ==
  ASSUME NEW s \in Nat \ {0}, NEW w \in Nat \ {0}, Whole(s, w), NEW i \in Nat,
         NEW b, b = BandOf(i, s, w), NEW yy, yy = RowIn(i, s, w),
         NEW c, c = WindowOf(i, s, w), NEW xx, xx = ColumnIn(i, s, w),
         NEW p, p = PerBand(s, w)
  PROVE  /\ xx < s - 1 =>
              /\ BandOf(i + 1, s, w) = b /\ RowIn(i + 1, s, w) = yy
              /\ WindowOf(i + 1, s, w) = c /\ ColumnIn(i + 1, s, w) = xx + 1
         /\ xx = s - 1 /\ c < p - 1 =>
              /\ BandOf(i + 1, s, w) = b /\ RowIn(i + 1, s, w) = yy
              /\ WindowOf(i + 1, s, w) = c + 1 /\ ColumnIn(i + 1, s, w) = 0
         /\ xx = s - 1 /\ c = p - 1 /\ yy < s - 1 =>
              /\ BandOf(i + 1, s, w) = b /\ RowIn(i + 1, s, w) = yy + 1
              /\ WindowOf(i + 1, s, w) = 0 /\ ColumnIn(i + 1, s, w) = 0
         /\ xx = s - 1 /\ c = p - 1 /\ yy = s - 1 =>
              /\ BandOf(i + 1, s, w) = b + 1 /\ RowIn(i + 1, s, w) = 0
              /\ WindowOf(i + 1, s, w) = 0 /\ ColumnIn(i + 1, s, w) = 0
<1>1. /\ p \in Nat \ {0} /\ w = s * p /\ b \in Nat /\ yy \in 0 .. s - 1
      /\ c \in 0 .. p - 1 /\ xx \in 0 .. s - 1
      /\ i = PixelAt(b, yy, c, xx, s, w)
  BY PartsAre
<1>2. \A b2 \in Nat, y2 \in 0 .. s - 1, c2 \in 0 .. p - 1, x2 \in 0 .. s - 1 :
        i + 1 = PixelAt(b2, y2, c2, x2, s, w) =>
          /\ BandOf(i + 1, s, w) = b2 /\ RowIn(i + 1, s, w) = y2
          /\ WindowOf(i + 1, s, w) = c2 /\ ColumnIn(i + 1, s, w) = x2
  BY PartsUnique
<1> DEFINE bs == b * s
           cs == c * s
           yw == (bs + yy) * w
<1>3. /\ bs \in Nat /\ cs \in Nat /\ yw \in Nat /\ p * s = w /\ p * s \in Nat
      /\ (c + 1) * s = cs + s /\ (p - 1) * s = (p * s) - s
      /\ (b + 1) * s = bs + s
      /\ (bs + (yy + 1)) * w = yw + w /\ 0 * s = 0
  <2>1. bs \in Nat /\ cs \in Nat /\ bs + yy \in Nat /\ w \in Nat
    BY <1>1, ProductNat
  <2>2. p * s = w /\ p * s \in Nat /\ (c + 1) * s = cs + s
        /\ (p - 1) * s = (p * s) - s /\ (b + 1) * s = bs + s /\ 0 * s = 0
    BY <1>1, Z3
  <2>3. yw \in Nat
    BY <2>1, ProductNat
  <2> HIDE DEF bs, cs
  <2>4. (bs + (yy + 1)) * w = yw + w
    BY <1>1, <2>1, Z3
  <2> QED BY <2>1, <2>2, <2>3, <2>4
<1>4. i = yw + (cs + xx)
  BY <1>1 DEF PixelAt
<1>5. CASE xx < s - 1
  <2>1. i + 1 = PixelAt(b, yy, c, xx + 1, s, w)
    <3>1. PixelAt(b, yy, c, xx + 1, s, w) = yw + (cs + (xx + 1))
      BY DEF PixelAt
    <3> HIDE DEF yw, cs
    <3> QED BY <1>1, <1>3, <1>4, <3>1
  <2>2. xx + 1 \in 0 .. s - 1
    BY <1>1, <1>5
  <2> QED BY <1>1, <1>2, <1>5, <2>1, <2>2
<1>6. CASE xx = s - 1 /\ c < p - 1
  <2>1. i + 1 = PixelAt(b, yy, c + 1, 0, s, w)
    <3>1. PixelAt(b, yy, c + 1, 0, s, w) = yw + (((c + 1) * s) + 0)
      BY DEF PixelAt
    <3> DEFINE c1 == (c + 1) * s
    <3>2. c1 = cs + s
      BY <1>3
    <3> HIDE DEF yw, cs, c1
    <3> QED BY ONLY <1>1, <1>3, <1>4, <1>6, <3>1, <3>2, s \in Nat \ {0} DEF c1
  <2>2. c + 1 \in 0 .. p - 1 /\ 0 \in 0 .. s - 1
    BY <1>1, <1>6
  <2> QED BY <1>1, <1>2, <1>6, <2>1, <2>2
<1>7. CASE xx = s - 1 /\ c = p - 1 /\ yy < s - 1
  <2>1. i + 1 = PixelAt(b, yy + 1, 0, 0, s, w)
    <3>1. PixelAt(b, yy + 1, 0, 0, s, w)
            = ((bs + (yy + 1)) * w) + ((0 * s) + 0)
      BY DEF PixelAt
    <3>2. cs = w - s
      BY <1>3, <1>7
    <3>3. (bs + (yy + 1)) * w = yw + w /\ 0 * s = 0
      BY <1>3
    <3>4. cs \in Nat /\ yw \in Nat
      BY <1>3
    <3> HIDE DEF yw, cs
    <3>5. PixelAt(b, yy + 1, 0, 0, s, w) = yw + w
      BY ONLY <3>1, <3>3, <3>4, w \in Nat \ {0}
    <3> QED BY ONLY <1>4, <1>7, <3>2, <3>4, <3>5, s \in Nat \ {0},
                    w \in Nat \ {0}
  <2>2. yy + 1 \in 0 .. s - 1 /\ 0 \in 0 .. s - 1 /\ 0 \in 0 .. p - 1
    BY <1>1, <1>7
  <2> QED BY <1>1, <1>2, <1>7, <2>1, <2>2
<1>8. CASE xx = s - 1 /\ c = p - 1 /\ yy = s - 1
  <2>1. i + 1 = PixelAt(b + 1, 0, 0, 0, s, w)
    <3>1. PixelAt(b + 1, 0, 0, 0, s, w)
            = ((((b + 1) * s) + 0) * w) + ((0 * s) + 0)
      BY DEF PixelAt
    <3>2. cs = w - s
      BY <1>3, <1>8
    <3>3. (((b + 1) * s) + 0) * w = yw + w
      <4>1. ((b + 1) * s) + 0 = bs + (yy + 1)
        <5> HIDE DEF bs
        <5> QED BY <1>1, <1>3, <1>8
      <4> QED BY <1>3, <4>1
    <3>4. cs \in Nat /\ yw \in Nat /\ 0 * s = 0
      BY <1>3
    <3> HIDE DEF yw, cs
    <3>5. PixelAt(b + 1, 0, 0, 0, s, w) = yw + w
      BY ONLY <3>1, <3>3, <3>4, w \in Nat \ {0}
    <3> QED BY ONLY <1>4, <1>8, <3>2, <3>4, <3>5, s \in Nat \ {0},
                    w \in Nat \ {0}
  <2>2. b + 1 \in Nat /\ 0 \in 0 .. s - 1 /\ 0 \in 0 .. p - 1
    BY <1>1, <1>8
  <2> QED BY <1>1, <1>2, <1>8, <2>1, <2>2
<1> QED BY <1>5, <1>6, <1>7, <1>8

One(c, i, s, w) == IF c = WindowOf(i, s, w) THEN 1 ELSE 0

LEMMA JoinedCounts ==
  ASSUME NEW s \in Nat \ {0}, NEW w \in Nat \ {0}, Whole(s, w), NEW i \in Nat,
         NEW slot \in 0 .. PerBand(s, w) - 1
  PROVE  /\ Joined(i, slot, s, w) \in Nat
         /\ Joined(i, slot, s, w) + One(slot, i, s, w) <= s * s
         /\ BandEnds(i, s, w) =>
              /\ BandOf(i + 1, s, w) = BandOf(i, s, w) + 1
              /\ Joined(i + 1, slot, s, w) = 0
              /\ Joined(i, slot, s, w) + One(slot, i, s, w) = s * s
         /\ ~BandEnds(i, s, w) =>
              /\ BandOf(i + 1, s, w) = BandOf(i, s, w)
              /\ Joined(i + 1, slot, s, w)
                   = Joined(i, slot, s, w) + One(slot, i, s, w)
<1> DEFINE b == BandOf(i, s, w)
           yy == RowIn(i, s, w)
           c == WindowOf(i, s, w)
           xx == ColumnIn(i, s, w)
           p == PerBand(s, w)
           y2 == RowIn(i + 1, s, w)
           c2 == WindowOf(i + 1, s, w)
           x2 == ColumnIn(i + 1, s, w)
           b2 == BandOf(i + 1, s, w)
<1>1. /\ p \in Nat \ {0} /\ w = s * p /\ b \in Nat /\ yy \in 0 .. s - 1
      /\ c \in 0 .. p - 1 /\ xx \in 0 .. s - 1 /\ slot \in 0 .. p - 1
  BY PartsAre
<1>2. /\ xx < s - 1 => b2 = b /\ y2 = yy /\ c2 = c /\ x2 = xx + 1
      /\ xx = s - 1 /\ c < p - 1 => b2 = b /\ y2 = yy /\ c2 = c + 1 /\ x2 = 0
      /\ xx = s - 1 /\ c = p - 1 /\ yy < s - 1 =>
           b2 = b /\ y2 = yy + 1 /\ c2 = 0 /\ x2 = 0
      /\ xx = s - 1 /\ c = p - 1 /\ yy = s - 1 =>
           b2 = b + 1 /\ y2 = 0 /\ c2 = 0 /\ x2 = 0
  BY NextPixel
<1>3. /\ Joined(i, slot, s, w) = IF slot < c THEN (yy + 1) * s
                                 ELSE IF slot = c THEN (yy * s) + xx
                                 ELSE yy * s
      /\ Joined(i + 1, slot, s, w) = IF slot < c2 THEN (y2 + 1) * s
                                     ELSE IF slot = c2 THEN (y2 * s) + x2
                                     ELSE y2 * s
      /\ One(slot, i, s, w) = IF slot = c THEN 1 ELSE 0
      /\ BandEnds(i, s, w) <=> yy = s - 1 /\ c = p - 1 /\ xx = s - 1
  BY DEF Joined, One, BandEnds
<1> HIDE DEF b, yy, c, xx, p, y2, c2, x2, b2
<1> DEFINE ys == yy * s
           ss == s * s
<1>4. /\ ys \in Nat /\ ss \in Nat /\ (yy + 1) * s = ys + s /\ ys + s <= ss
      /\ (yy = s - 1 => ys + s = ss)
      /\ ((yy + 1) + 1) * s = (ys + s) + s /\ 0 * s = 0
  <2>1. ys \in Nat /\ ss \in Nat /\ (yy + 1) * s = ys + s /\ 0 * s = 0
    BY <1>1, Z3
  <2>2. yy + 1 <= s => (yy + 1) * s <= ss
    BY <1>1, Z3
  <2>3. yy = s - 1 => (yy + 1) * s = ss
    BY <1>1, Z3
  <2>4. ((yy + 1) + 1) * s = (ys + s) + s
    BY <1>1, Z3
  <2> QED BY <1>1, <2>1, <2>2, <2>3, <2>4
<1>5. CASE xx < s - 1
  <2>1. b2 = b /\ y2 * s = ys /\ (y2 + 1) * s = ys + s /\ c2 = c /\ x2 = xx + 1
    BY <1>2, <1>4, <1>5
  <2> HIDE DEF ys, ss
  <2> QED BY <1>1, <1>3, <1>4, <1>5, <2>1 DEF ys, b, b2, ss
<1>6. CASE xx = s - 1 /\ c < p - 1
  <2>1. b2 = b /\ y2 * s = ys /\ (y2 + 1) * s = ys + s
        /\ c2 = c + 1 /\ x2 = 0
    BY <1>2, <1>4, <1>6
  <2> QED BY <1>1, <1>3, <1>4, <1>6, <2>1 DEF b, b2
<1>7. CASE xx = s - 1 /\ c = p - 1 /\ yy < s - 1
  <2>1. b2 = b /\ y2 * s = ys + s /\ c2 = 0 /\ x2 = 0
        /\ (y2 + 1) * s = (ys + s) + s
    BY <1>2, <1>4, <1>7
  <2> QED BY <1>1, <1>3, <1>4, <1>7, <2>1 DEF b, b2
<1>8. CASE xx = s - 1 /\ c = p - 1 /\ yy = s - 1
  <2>1. b2 = b + 1 /\ y2 * s = 0 /\ c2 = 0 /\ x2 = 0
    BY <1>2, <1>4, <1>8
  <2> QED BY <1>1, <1>3, <1>4, <1>8, <2>1 DEF b, b2
<1> QED BY <1>1, <1>5, <1>6, <1>7, <1>8

(* The pixel that is next, and the last one of a band, as the unit sees them.*)
LEMMA ThisPixel ==
  ASSUME NEW s \in Nat \ {0}, NEW w \in Nat \ {0}, Whole(s, w), NEW i \in Nat
  PROVE  LET c == WindowOf(i, s, w)
             j == Joined(i, c, s, w) + 1
         IN  /\ Pixel(BandOf(i, s, w), c, j, s, w) = i
             /\ j \in Nat
             /\ FirstInWindow(i \div w, i % w, s) <=> j = 1
             /\ BandEnds(i, s, w)
                  <=> (i \div w) % s = s - 1 /\ i % w = w - 1
<1> DEFINE b == BandOf(i, s, w)
           yy == RowIn(i, s, w)
           c == WindowOf(i, s, w)
           xx == ColumnIn(i, s, w)
           p == PerBand(s, w)
           j == (yy * s) + xx + 1
           x == i % w
<1>1. /\ p \in Nat \ {0} /\ w = s * p /\ b \in Nat /\ yy \in 0 .. s - 1
      /\ c \in 0 .. p - 1 /\ xx \in 0 .. s - 1
      /\ i = PixelAt(b, yy, c, xx, s, w)
  BY PartsAre
<1>2. Joined(i, c, s, w) + 1 = j
  <2>1. c \in Int /\ ~(c < c)
    BY <1>1
  <2> QED BY <2>1 DEF Joined
<1>3. x \in Nat /\ yy = (i \div w) % s /\ xx = x % s /\ c = x \div s
      /\ x = (s * c) + xx
  <2>1. x \in Nat
    BY Division
  <2>2. yy = (i \div w) % s /\ xx = x % s /\ c = x \div s
    BY DEF RowIn, ColumnIn, WindowOf
  <2> HIDE DEF x, c, xx, yy
  <2>3. x = (s * (x \div s)) + (x % s)
    BY <2>1, Division
  <2> QED BY <2>1, <2>2, <2>3
<1> HIDE DEF b, yy, c, xx, p, x
<1>4. yy * s \in Nat /\ j \in Nat /\ j - 1 = (yy * s) + xx
  <2>1. yy * s \in Nat
    BY <1>1, ProductNat
  <2> QED BY <1>1, <2>1
<1>5. Pixel(b, c, j, s, w) = i
  <2> HIDE DEF j
  <2>1. (j - 1) \div s = yy /\ (j - 1) % s = xx
    BY ONLY <1>1, <1>4, s \in Nat \ {0}, DivisionIs
  <2>2. Pixel(b, c, j, s, w) = (((b * s) + yy) * w + c * s) + xx
    BY ONLY <2>1 DEF Pixel
  <2>3. i = ((b * s) + yy) * w + ((c * s) + xx)
    BY <1>1 DEF PixelAt
  <2>4. ((b * s) + yy) * w \in Nat /\ c * s \in Nat
    <3>1. b * s \in Nat /\ c * s \in Nat
      BY <1>1, ProductNat
    <3>2. (b * s) + yy \in Nat
      BY <1>1, <3>1
    <3> QED BY <3>1, <3>2, ProductNat
  <2> QED BY <1>1, <2>2, <2>3, <2>4
<1>6. FirstInWindow(i \div w, i % w, s) <=> j = 1
  <2>1. yy * s = 0 <=> yy = 0
    BY <1>1, Z3
  <2>2. FirstInWindow(i \div w, i % w, s) <=> yy = 0 /\ xx = 0
    BY <1>3 DEF FirstInWindow, x
  <2> QED BY <1>1, <1>4, <2>1, <2>2
<1>7. x = w - 1 <=> c = p - 1 /\ xx = s - 1
  <2>1. (p - 1) * s = w - s /\ c * s \in Nat /\ x = (c * s) + xx
        /\ (c < p - 1 => (c + 1) * s <= (p - 1) * s)
        /\ (c + 1) * s = (c * s) + s
    <3>1. (p - 1) * s = w - s /\ c * s \in Nat /\ c * s = s * c
          /\ (c + 1) * s = (c * s) + s
      BY <1>1, Z3
    <3>2. c < p - 1 => (c + 1) * s <= (p - 1) * s
      BY <1>1, Z3
    <3> QED BY <1>3, <3>1, <3>2
  <2>2. CASE c = p - 1
    BY <1>1, <2>1, <2>2
  <2>3. CASE c < p - 1
    BY <1>1, <2>1, <2>3
  <2> QED BY <1>1, <2>2, <2>3
<1>8. BandEnds(i, s, w) <=> yy = s - 1 /\ c = p - 1 /\ xx = s - 1
  BY DEF BandEnds, yy, c, p, xx
<1> HIDE DEF j
<1> QED BY <1>2, <1>3, <1>4, <1>5, <1>6, <1>7, <1>8 DEF b, c, x

ActShape(s, w, n) ==
  /\ s \in Nat \ {0} /\ w \in Nat \ {0} /\ n \in Nat
  /\ Whole(s, w) /\ PoolShapeOK(n, s, w)

LEMMA ActTypes ==
  ASSUME TypeInv, PoolInv
  PROVE  /\ act \in [acc_row : Nat, ub_row : Nat, rows_total : Nat,
                     rows_done : Nat, function : Functions, pool : Poolings,
                     pool_size : Nat, pool_width : Nat]
         /\ act.rows_done <= act.rows_total
         /\ act.acc_row + act.rows_total <= AccRows
         /\ act.pool # "None" =>
              ActShape(act.pool_size, act.pool_width, act.rows_total)
BY DEF TypeInv, UnitsOK, ActTypeOK, PoolInv, Fits, ActShape, Whole, PoolShapeOK

(* Band b is done when the next pixel is in a later one.                     *)
LEMMA BandsBefore ==
  ASSUME NEW s, NEW w, NEW n, ActShape(s, w, n), NEW i \in Nat
  PROVE  /\ i \div (w * s) = BandOf(i, s, w)
         /\ i < n => BandOf(i, s, w) < BandCount(n, s, w)
         /\ i = n => BandOf(i, s, w) = BandCount(n, s, w)
<1> DEFINE b == BandOf(i, s, w)
           yy == RowIn(i, s, w)
           c == WindowOf(i, s, w)
           xx == ColumnIn(i, s, w)
           p == PerBand(s, w)
           m == BandCount(n, s, w)
           d == w * s
           r == (yy * w) + ((c * s) + xx)
<1>0. s \in Nat \ {0} /\ w \in Nat \ {0} /\ n \in Nat
  BY DEF ActShape
<1>1. /\ p \in Nat \ {0} /\ w = s * p /\ b \in Nat /\ yy \in 0 .. s - 1
      /\ c \in 0 .. p - 1 /\ xx \in 0 .. s - 1
      /\ i = PixelAt(b, yy, c, xx, s, w)
  BY PartsAre DEF ActShape
<1>2. m \in Nat /\ n = (m * s) * w
  BY Bands DEF ActShape
<1> HIDE DEF b, yy, c, xx, p, m
<1>3. d \in Nat \ {0} /\ n = m * d
  BY <1>0, <1>2, Z3
<1>4. r \in 0 .. d - 1
  <2> DEFINE x == (c * s) + xx
  <2>1. x \in Nat /\ x < w
    <3>1. (c + 1) * s <= p * s /\ (c + 1) * s = (c * s) + s /\ p * s = s * p
          /\ c * s \in Nat
      BY <1>0, <1>1, Z3
    <3>2. w \in Nat /\ w = s * p /\ xx \in 0 .. s - 1 /\ s \in Nat
      BY <1>0, <1>1
    <3> QED BY ONLY <3>1, <3>2
  <2>2. yy * w \in Nat /\ (yy + 1) * w <= s * w /\ (yy + 1) * w = (yy * w) + w
        /\ s * w = w * s
    BY <1>0, <1>1, Z3
  <2> HIDE DEF x
  <2>3. (yy * w) + x \in 0 .. d - 1
    BY <1>0, <2>1, <2>2
  <2> QED BY <2>3 DEF x
<1>5. i = (b * d) + r
  <2>1. ((b * s) + yy) * w = (b * d) + (yy * w)
    BY <1>0, <1>1, Z3
  <2>2. i = ((b * s) + yy) * w + ((c * s) + xx)
    BY <1>1 DEF PixelAt
  <2>3. b * d \in Nat /\ yy * w \in Nat /\ (c * s) + xx \in Nat
    <3>1. b * d \in Nat /\ yy * w \in Nat /\ c * s \in Nat
      BY <1>0, <1>1, <1>3, ProductNat
    <3> QED BY <1>1, <3>1
  <2> QED BY <2>1, <2>2, <2>3
<1> HIDE DEF r, d
<1>6. i \div d = b
  BY ONLY <1>1, <1>3, <1>4, <1>5, DivisionIs
<1>7. i < n => b < m
  <2>1. b >= m => b * d >= m * d
    BY <1>1, <1>2, <1>3, Z3
  <2>2. b * d \in Nat /\ m * d \in Nat
    BY <1>1, <1>2, <1>3, ProductNat
  <2> QED BY <1>1, <1>2, <1>3, <1>4, <1>5, <2>1, <2>2
<1>8. i = n => b = m
  <2>1. ((m * d) + 0) \div d = m
    BY ONLY <1>2, <1>3, DivisionIs
  <2>2. (m * d) + 0 = m * d
    BY <1>2, <1>3, ProductNat
  <2> QED BY <1>3, <1>6, <2>1, <2>2
<1> QED BY <1>6, <1>7, <1>8 DEF b, m, d

LEMMA RowOfWindow ==
  ASSUME NEW s, NEW w, NEW n, ActShape(s, w, n), NEW i \in Nat, i < n,
         NEW c \in 0 .. PerBand(s, w) - 1
  PROVE  LET p == PerBand(s, w)
             b == BandOf(i, s, w)
             o == (b * p) + c
         IN  /\ o \in Nat /\ o < PooledRows(n, s)
             /\ o \div p = b /\ o % p = c
             /\ b * p \in Nat /\ (b * p) + p <= PooledRows(n, s)
             /\ (b + 1) * p = (b * p) + p
<1> DEFINE p == PerBand(s, w)
           b == BandOf(i, s, w)
           m == BandCount(n, s, w)
           o == (b * p) + c
<1>1. s \in Nat \ {0} /\ w \in Nat \ {0} /\ n \in Nat
  BY DEF ActShape
<1>2. p \in Nat \ {0} /\ c \in 0 .. p - 1 /\ b \in Nat
  BY <1>1, PartsAre DEF ActShape
<1>3. m \in Nat /\ PooledRows(n, s) = m * p /\ b < m
  BY <1>1, Bands, BandsBefore, ZenonT(60) DEF ActShape
<1> HIDE DEF p, b, m
<1>4. /\ b * p \in Nat /\ (b + 1) * p = (b * p) + p /\ (b + 1) * p <= m * p
      /\ m * p \in Nat
  <2>1. b + 1 <= m
    BY <1>2, <1>3
  <2> QED BY <1>2, <1>3, <2>1, Z3
<1>5. o \in Nat /\ o \div p = b /\ o % p = c
  BY ONLY <1>2, DivisionIs
<1>6. o < m * p
  BY <1>2, <1>4
<1> QED BY <1>3, <1>4, <1>5, <1>6 DEF p, b

LEMMA PixelInRange ==
  ASSUME NEW s, NEW w, NEW n, ActShape(s, w, n), NEW o \in Nat,
         o < PooledRows(n, s), NEW j \in 1 .. s * s
  PROVE  Pixel(o \div PerBand(s, w), o % PerBand(s, w), j, s, w) \in 0 .. n - 1
BY WindowPixel DEF ActShape, Pixel

(* Cell <<a, n>> is written in the step in which its row's sum leaves the    *)
(* bottom of column n.                                                       *)
LEMMA StepWrites ==
  ASSUME TypeInv, ArrayInv, StepArray,
         NEW a \in 0 .. AccRows - 1, NEW n \in Cols
  PROVE  LET r == a - mxu.acc_row
             bottom == grid'[<<Dim - 1, n>>]
         IN  IF r \in 0 .. mxu.rows - 1 /\ mxu.step = r + Dim - 1 + n
             THEN /\ bottom.row = r
                  /\ acc'[<<a, n>>] =
                       (IF mxu.accumulate THEN acc[<<a, n>>] ELSE << >>)
                         \o bottom.psum
             ELSE acc'[<<a, n>>] = acc[<<a, n>>]
<1> DEFINE r == a - mxu.acc_row
           bottom == grid'[<<Dim - 1, n>>]
           cell == <<a, n>>
           e == mxu.step - (Dim - 1) - n
<1>1. cell \in DOMAIN acc /\ cell[1] = a /\ cell[2] = n
  BY DEF TypeInv, MemoriesOK, IsMemory, AccCells
<1>2. mxu.acc_row \in Nat /\ a \in Int /\ n \in Int /\ Dim - 1 \in Cols
  BY MxuTypes DEF Cols
<1>3. bottom.row = IF e \in 0 .. mxu.rows - 1 THEN e ELSE -1
  <2>1. ArrayInv'
    BY StepArrayInv
  <2>2. WaveAt'
    BY <2>1, WavefrontAt, PTL DEF ArrayInv
  <2>3. mxu'.step = mxu.step + 1 /\ mxu'.rows = mxu.rows
    BY MxuTypes DEF StepArray
  <2>4. mxu'.step - 1 - (Dim - 1) - n = e
    BY <1>2, <2>3, MxuTypes
  <2> QED BY <1>2, <2>2, <2>3, <2>4 DEF WaveAt
<1>4. acc'[cell] = IF bottom.row >= 0 /\ a = mxu.acc_row + bottom.row
                   THEN (IF mxu.accumulate THEN acc[cell] ELSE << >>)
                          \o bottom.psum
                   ELSE acc[cell]
  <2>1. acc' = [c \in DOMAIN acc |->
                  LET low == grid'[<<Dim - 1, c[2]>>]
                  IN  IF low.row >= 0 /\ c[1] = mxu.acc_row + low.row
                      THEN (IF mxu.accumulate THEN acc[c] ELSE << >>)
                             \o low.psum
                      ELSE acc[c]]
    BY DEF StepArray, Drained
  <2> HIDE DEF cell
  <2> QED BY <1>1, <2>1
<1>5. e \in Int /\ (mxu.step = r + Dim - 1 + n <=> e = r)
  BY <1>2, MxuTypes
<1> HIDE DEF e, bottom, cell
<1>6. bottom.row >= 0 /\ a = mxu.acc_row + bottom.row
        <=> r \in 0 .. mxu.rows - 1 /\ mxu.step = r + Dim - 1 + n
  BY <1>2, <1>3, <1>5, MxuTypes
<1>7. r \in 0 .. mxu.rows - 1 /\ mxu.step = r + Dim - 1 + n => bottom.row = r
  BY <1>3, <1>5
<1> QED BY <1>4, <1>6, <1>7 DEF bottom, cell

ValueAt(i, n) == Activated(act.function, acc[<<act.acc_row + i, n>>])

(* The interlocks keep the accumulators of an Activate as they were.         *)
LEMMA ValuesStay ==
  ASSUME TypeInv, PoolInv, ArrayInv, NoRowConflict, ActBusy,
         StepArray \/ UNCHANGED acc,
         NEW i \in 0 .. act.rows_total - 1, NEW n \in Cols
  PROVE  acc'[<<act.acc_row + i, n>>] = acc[<<act.acc_row + i, n>>]
<1> DEFINE a == act.acc_row + i
<1>1. a \in 0 .. AccRows - 1 /\ a \in Nat
  BY ActTypes, MemoryAssumption
<1>2. CASE UNCHANGED acc
  BY <1>2
<1>3. CASE StepArray
  <2>1. mxu.busy
    BY <1>3 DEF StepArray
  <2>2. a - mxu.acc_row \notin 0 .. mxu.rows - 1
    <3>1. SUFFICES ASSUME a - mxu.acc_row \in 0 .. mxu.rows - 1 PROVE FALSE
      OBVIOUS
    <3>2. mxu.acc_row \in Nat
      BY MxuTypes
    <3>3. Overlap(act.acc_row, act.rows_total, mxu.acc_row, mxu.rows)
      BY <3>1, <3>2, MxuTypes, ActTypes DEF Overlap
    <3> QED BY <2>1, <3>3 DEF NoRowConflict, MxuSparesAct, MxuWritesAccRows
  <2> HIDE DEF a
  <2>3. acc'[<<a, n>>] = acc[<<a, n>>]
    BY <1>1, <1>3, <2>2, StepWrites
  <2> QED BY <2>3 DEF a
<1> QED BY <1>2, <1>3

(* The values that joined window c of the band of pixel i.                   *)
JoinedValues(i, c, n, count) ==
  [j \in 1 .. count |->
     ValueAt(Pixel(BandOf(i, act.pool_size, act.pool_width), c, j,
                   act.pool_size, act.pool_width), n)]

Windows == 0 .. PerBand(act.pool_size, act.pool_width) - 1

JoinedBy(i, c) == Joined(i, c, act.pool_size, act.pool_width)

(* Inductive: each window of the running band holds the values of its pixels *)
(* among those that have gone by, and of no other.                           *)
LineInv ==
  act.pool # "None" /\ ActBusy =>
    /\ DOMAIN line = Windows \X Cols
    /\ \A c \in Windows, n \in Cols :
         JoinedBy(act.rows_done, c) > 0 =>
           line[<<c, n>>] = JoinedValues(act.rows_done, c, n,
                                         JoinedBy(act.rows_done, c))

(* This cycle's pixel joins its window.                                      *)
LEMMA PixelJoins ==
  ASSUME TypeInv, PoolInv, LineInv, ActBusy, ActPoolRow,
         NEW c \in Windows, NEW n \in Cols
  PROVE  LET i == act.rows_done
             count == JoinedBy(i, c)
                      + One(c, i, act.pool_size, act.pool_width)
         IN  /\ count \in Nat
             /\ count > 0 => line'[<<c, n>>] = JoinedValues(i, c, n, count)
             /\ DOMAIN line' = Windows \X Cols
<1> DEFINE s == act.pool_size
           w == act.pool_width
           i == act.rows_done
           y == i \div w
           x == i % w
           old == JoinedBy(i, c)
           sn == <<c, n>>
<1>1. /\ s \in Nat \ {0} /\ w \in Nat \ {0} /\ Whole(s, w) /\ i \in Nat
      /\ act.pool # "None"
  BY ActTypes DEF ActPoolRow, ActShape
<1>2. /\ DOMAIN line = Windows \X Cols /\ sn \in DOMAIN line
      /\ old > 0 => line[sn] = JoinedValues(i, c, n, old)
  BY <1>1 DEF LineInv
<1>3. old \in Nat
  BY <1>1, JoinedCounts DEF Windows, JoinedBy
<1>4. DOMAIN line' = DOMAIN line
      /\ line'[sn] = IF c # x \div s THEN line[sn]
                     ELSE Append(IF FirstInWindow(y, x, s) THEN << >>
                                 ELSE line[sn], Value(n))
  BY <1>2 DEF ActPoolRow
<1>5. CASE c # WindowOf(i, s, w)
  <2>1. One(c, i, s, w) = 0 /\ line'[sn] = line[sn] /\ old + 0 = old
    BY <1>3, <1>4, <1>5 DEF One, WindowOf, x
  <2> QED BY <1>2, <1>3, <1>4, <2>1
<1>6. CASE c = WindowOf(i, s, w)
  <2> DEFINE value(j) == ValueAt(Pixel(BandOf(i, s, w), c, j, s, w), n)
  <2>1. /\ One(c, i, s, w) = 1
        /\ Pixel(BandOf(i, s, w), c, old + 1, s, w) = i
        /\ FirstInWindow(y, x, s) <=> old + 1 = 1
    BY <1>1, <1>6, ThisPixel DEF One, JoinedBy, y, x
  <2>2. value(old + 1) = Value(n)
    BY <2>1 DEF ValueAt, Value
  <2>3. line'[sn] = Append(IF old = 0 THEN << >> ELSE line[sn], Value(n))
    BY <1>3, <1>4, <1>6, <2>1, SMTT(30) DEF WindowOf, x
  <2>4. JoinedValues(i, c, n, old) = [j \in 1 .. old |-> value(j)]
        /\ JoinedValues(i, c, n, old + 1) = [j \in 1 .. old + 1 |-> value(j)]
    BY DEF JoinedValues
  <2> HIDE DEF value, old, sn
  <2>5. line'[sn] = [j \in 1 .. old + 1 |-> value(j)]
    <3>1. CASE old = 0
      BY <2>2, <2>3, <3>1
    <3>2. CASE old > 0
      BY <1>2, <1>3, <2>2, <2>3, <2>4, <3>2
    <3> QED BY <1>3, <3>1, <3>2
  <2>6. DOMAIN line' = Windows \X Cols
    BY <1>2, <1>4
  <2>7. line'[sn] = JoinedValues(i, c, n, old + 1)
    BY ONLY <2>4, <2>5
  <2> QED BY <1>3, <2>1, <2>6, <2>7 DEF sn, old
<1> QED BY <1>5, <1>6

LEMMA ActMovesLine ==
  ASSUME TypeInv, PoolInv, LineInv, ActMoves, UNCHANGED acc
  PROVE  LineInv'
<1> DEFINE s == act.pool_size
           w == act.pool_width
           i == act.rows_done
<1>1. /\ act'.pool = act.pool /\ act'.pool_size = s /\ act'.pool_width = w
      /\ act'.rows_done = i + 1 /\ act'.function = act.function
      /\ act'.acc_row = act.acc_row
  BY ActTypes DEF ActMoves
<1>2. SUFFICES ASSUME act.pool # "None" PROVE LineInv'
  BY <1>1 DEF LineInv
<1>3. ActPoolRow /\ ActBusy
  BY <1>2 DEF ActMoves, ActPlainRow
<1>4. s \in Nat \ {0} /\ w \in Nat \ {0} /\ Whole(s, w) /\ i \in Nat
  BY <1>2, ActTypes DEF ActShape
<1>5. Windows' = Windows
  BY <1>1 DEF Windows
<1>6. 0 \in Windows /\ 0 \in Cols
  BY <1>4, PerBandIs, MemoryAssumption DEF Windows, Cols
<1>7. DOMAIN line' = Windows \X Cols
  BY <1>3, <1>6, PixelJoins
<1>8. ASSUME NEW c \in Windows, NEW n \in Cols,
             Joined(i + 1, c, s, w) > 0
      PROVE  line'[<<c, n>>] =
               [j \in 1 .. Joined(i + 1, c, s, w) |->
                  ValueAt(Pixel(BandOf(i + 1, s, w), c, j, s, w), n)]
  <2> DEFINE count == Joined(i, c, s, w) + One(c, i, s, w)
  <2>1. ~BandEnds(i, s, w)
    BY <1>4, <1>8, JoinedCounts DEF Windows
  <2>2. BandOf(i + 1, s, w) = BandOf(i, s, w) /\ Joined(i + 1, c, s, w) = count
    BY <1>4, <2>1, JoinedCounts DEF Windows
  <2>3. line'[<<c, n>>] = JoinedValues(i, c, n, count)
    BY <1>3, <1>8, <2>2, PixelJoins DEF JoinedBy
  <2> QED BY <2>2, <2>3 DEF JoinedValues
<1>9. ASSUME NEW i2, NEW n PROVE ValueAt(i2, n)' = ValueAt(i2, n)
  BY <1>1 DEF ValueAt
<1>10. ASSUME NEW c \in Windows, NEW n \in Cols,
              JoinedBy(act.rows_done, c)' > 0
       PROVE  line'[<<c, n>>] = JoinedValues(act.rows_done, c, n,
                                             JoinedBy(act.rows_done, c))'
  <2>1. JoinedBy(act.rows_done, c)' = Joined(i + 1, c, s, w)
    BY <1>1 DEF JoinedBy
  <2>2. JoinedValues(act.rows_done, c, n, JoinedBy(act.rows_done, c))'
          = [j \in 1 .. Joined(i + 1, c, s, w) |->
               ValueAt(Pixel(BandOf(i + 1, s, w), c, j, s, w), n)]
    BY <1>1, <2>1 DEF JoinedValues, ValueAt
  <2> QED BY <1>8, <1>10, <2>1, <2>2
<1> QED BY <1>5, <1>7, <1>10 DEF LineInv

(* While the pixels of the Activate keep their values, so does the line.     *)
LEMMA LineStays ==
  ASSUME TypeInv, PoolInv, ArrayInv, NoRowConflict, LineInv,
         StepArray \/ UNCHANGED acc, UNCHANGED <<act, line>>
  PROVE  LineInv'
<1> DEFINE s == act.pool_size
           w == act.pool_width
           i == act.rows_done
           N == act.rows_total
<1>1. SUFFICES ASSUME act.pool # "None", ActBusy PROVE LineInv'
  BY DEF LineInv, ActBusy
<1>2. /\ ActShape(s, w, N) /\ i \in Nat /\ i < N
      /\ s \in Nat \ {0} /\ w \in Nat \ {0} /\ Whole(s, w)
  BY <1>1, ActTypes DEF ActShape, ActBusy
<1>3. ASSUME NEW c \in Windows, NEW n \in Cols
      PROVE  JoinedValues(i, c, n, JoinedBy(i, c))'
               = JoinedValues(i, c, n, JoinedBy(i, c))
  <2> DEFINE b == BandOf(i, s, w)
             p == PerBand(s, w)
             o == (b * p) + c
             count == Joined(i, c, s, w)
  <2>1. o \in Nat /\ o < PooledRows(N, s) /\ o \div p = b /\ o % p = c
    BY <1>2, RowOfWindow DEF Windows
  <2>2. count \in Nat /\ count <= s * s
    <3>1. count \in Nat /\ count + One(c, i, s, w) <= s * s
      BY <1>2, JoinedCounts DEF Windows
    <3>2. One(c, i, s, w) \in {0, 1}
      BY DEF One
    <3>3. s * s \in Nat
      BY <1>2, ProductNat
    <3> QED BY <3>1, <3>2, <3>3
  <2> HIDE DEF o, count
  <2>3. ASSUME NEW j \in 1 .. count
        PROVE  Pixel(b, c, j, s, w) \in 0 .. N - 1
    <3>1. j \in 1 .. s * s
      <4>1. s * s \in Nat
        BY <1>2, ProductNat
      <4> HIDE DEF s
      <4> QED BY <2>2, <4>1
    <3>2. Pixel(o \div p, o % p, j, s, w) \in 0 .. N - 1
      BY <1>2, <2>1, <3>1, PixelInRange
    <3> QED BY <2>1, <3>2
  <2>4. ASSUME NEW j \in 1 .. count
        PROVE  ValueAt(Pixel(b, c, j, s, w), n)'
                 = ValueAt(Pixel(b, c, j, s, w), n)
    <3> DEFINE q == Pixel(b, c, j, s, w)
    <3>1. q \in 0 .. N - 1
      BY <2>3
    <3>2. acc'[<<act.acc_row + q, n>>] = acc[<<act.acc_row + q, n>>]
      <4> HIDE DEF q
      <4> QED BY <1>1, <3>1, ValuesStay
    <3> QED BY <3>2 DEF ValueAt
  <2>5. JoinedBy(i, c) = count /\ JoinedBy(i, c)' = count
    BY DEF JoinedBy, count
  <2>6. /\ JoinedValues(i, c, n, count) =
             [j \in 1 .. count |-> ValueAt(Pixel(b, c, j, s, w), n)]
        /\ JoinedValues(i, c, n, JoinedBy(i, c))' =
             [j \in 1 .. count |-> ValueAt(Pixel(b, c, j, s, w), n)']
    BY <2>5 DEF JoinedValues, ValueAt
  <2> QED BY <2>4, <2>5, <2>6
<1>4. /\ Windows' = Windows
      /\ \A c : JoinedBy(act.rows_done, c)' = JoinedBy(act.rows_done, c)
  BY DEF Windows, JoinedBy
<1> QED BY <1>1, <1>3, <1>4 DEF LineInv

LEMMA ActStartLine ==
  ASSUME TypeInv, IssueActivate, PoolInv'
  PROVE  LineInv'
<1> DEFINE s == in.pool_size
           w == in.pool_width
<1>1. /\ act' = [acc_row |-> in.acc_row, ub_row |-> in.ub_row,
                 rows_total |-> in.rows, rows_done |-> 0,
                 function |-> in.function, pool |-> in.pool,
                 pool_size |-> s, pool_width |-> w]
      /\ line' = IF in.pool = "None" THEN NoLine
                 ELSE [sn \in (0 .. w \div s - 1) \X Cols |-> << >>]
  BY DEF IssueActivate, ActStart
<1>2. SUFFICES ASSUME in.pool # "None" PROVE LineInv'
  BY <1>1 DEF LineInv
<1>3. in.pool_size \in Nat /\ in.pool_width \in Nat
  BY InType DEF IssueActivate, Issuing, TypeInv, IssueOK, Instr
<1>4. s \in Nat \ {0} /\ w \in Nat \ {0} /\ Whole(s, w)
  <2>1. act'.pool = in.pool /\ act'.pool_size = s /\ act'.pool_width = w
    BY <1>1
  <2>2. act'.pool_size > 0 /\ act'.pool_width > 0
        /\ PoolShapeOK(act'.rows_total, act'.pool_size, act'.pool_width)
    BY <1>2, <2>1 DEF PoolInv
  <2> QED BY <1>3, <2>1, <2>2 DEF PoolShapeOK, Whole
<1>5. Windows' = 0 .. PerBand(s, w) - 1 /\ DOMAIN line' = Windows' \X Cols
  BY <1>1, <1>2 DEF Windows, PerBand
<1>6. ASSUME NEW c \in 0 .. PerBand(s, w) - 1
      PROVE  JoinedBy(act.rows_done, c)' = 0
  <2>1. PerBand(s, w) \in Nat \ {0}
    BY <1>4, PerBandIs
  <2>2. 0 = PixelAt(0, 0, 0, 0, s, w)
    BY <1>4, Z3 DEF PixelAt
  <2>3. RowIn(0, s, w) = 0 /\ WindowOf(0, s, w) = 0 /\ ColumnIn(0, s, w) = 0
    BY <1>4, <2>1, <2>2, PartsUnique
  <2>4. Joined(0, c, s, w) = 0
    <3>1. ~(c < 0) /\ 0 * s = 0
      BY <1>4, <2>1, Z3
    <3> HIDE DEF s, w
    <3> QED BY <2>3, <3>1 DEF Joined
  <2> QED BY <1>1, <2>4 DEF JoinedBy
<1> QED BY <1>5, <1>6 DEF LineInv

LEMMA NextLineInv ==
  TypeInv /\ PoolInv /\ PoolInv' /\ ArrayInv /\ NoRowConflict /\ LineInv
    /\ [Next]_vars => LineInv'
<1> SUFFICES ASSUME TypeInv, PoolInv, PoolInv', ArrayInv, NoRowConflict,
                    LineInv, [Next]_vars
             PROVE  LineInv'
  OBVIOUS
<1>1. CASE IssueActivate
  BY <1>1, ActStartLine
<1>2. CASE ActMoves /\ UNCHANGED acc
  BY <1>2, ActMovesLine
<1>3. CASE UNCHANGED <<act, line>> /\ (StepArray \/ UNCHANGED acc)
  BY <1>3, LineStays
<1> QED BY <1>1, <1>2, <1>3
        DEF Next, TickThrows, PastTheEnd, UnknownOpcode, Deadlock, Refused,
            Throw, Stalled, TickIssues, IssueHalt, IssueNopOrSync,
            IssueHostTransfer, IssueReadWeights, IssueMatrixMultiply, MxuStart,
            TickAdvances,
            AdvanceHost, AdvanceFifo, AdvanceShifter, AdvanceArray, ArrayTick,
            AdvanceActivation, ActTick, TickHalted, vars,
            machine, units, memories

LEMMA InitLineInv == Init => LineInv
BY DEF Init, Loaded, UnitsReset, ActReset, LineInv

(* What the mapping relies on in the states between two steps.               *)
RefInv ==
  /\ TypeInv /\ NoRowConflict /\ ArrayInv /\ PoolInv /\ SumsInv
  /\ TilesInv /\ LineInv

LEMMA NextRefInv == RefInv /\ [Next]_vars => RefInv'
<1> SUFFICES ASSUME RefInv, [Next]_vars PROVE RefInv'
  OBVIOUS
<1>1. TypeInv' /\ PoolInv' /\ ArrayInv' /\ NoRowConflict' /\ SumsInv'
        /\ TilesInv'
  BY NextTypeInv, NextPoolInv, NextArrayInv, NextNoRowConflict, NextSumsInv,
     NextTilesInv DEF RefInv
<1>2. LineInv'
  BY <1>1, NextLineInv DEF RefInv
<1> QED BY <1>1, <1>2 DEF RefInv

-----------------------------------------------------------------------------
(* An advance of a unit is a stutter                                         *)

LEMMA HostTypes ==
  ASSUME TypeInv
  PROVE  /\ hif \in [direction : Directions, host_row : Nat, ub_row : Nat,
                     rows : Nat, bytes_done : Nat]
         /\ hif.bytes_done <= hif.rows * Dim /\ hif.rows * Dim \in Nat
         /\ hif.host_row + hif.rows <= HostRows
         /\ hif.ub_row + hif.rows <= UbRows
         /\ Dim \in Nat \ {0}
<1>1. hif.rows * Dim \in Nat
  BY ProductNat, MemoryAssumption DEF TypeInv, UnitsOK, HostTypeOK
<1> QED BY <1>1, MemoryAssumption DEF TypeInv, UnitsOK, HostTypeOK, Fits

(* A cycle's piece is the first of the bytes still to move.                  *)
LEMMA HostPieceMoves ==
  ASSUME TypeInv, HostMoves, NEW k \in Int
  PROVE  /\ k \in HostPiece => k \in ToMove
         /\ k \in ToMove' <=> k \in ToMove /\ k \notin HostPiece
         /\ hif'.direction = hif.direction /\ hif'.ub_row = hif.ub_row
         /\ hif'.host_row = hif.host_row /\ hif'.rows = hif.rows
<1> DEFINE total == hif.rows * Dim
           done == hif.bytes_done
           piece == Least(total - done, HostBytesPerCycle)
<1>1. /\ hif'.bytes_done = done + piece
      /\ hif'.direction = hif.direction /\ hif'.ub_row = hif.ub_row
      /\ hif'.host_row = hif.host_row /\ hif'.rows = hif.rows
  BY HostTypes DEF HostMoves
<1>2. done \in Nat /\ total \in Nat /\ total - done \in Nat
  BY HostTypes
<1>3. HostBytesPerCycle \in Nat
  BY HostAssumption
<1>4. piece \in Nat /\ piece <= total - done
  <2> HIDE DEF total, done
  <2> QED BY <1>2, <1>3, LeastType
<1>5. /\ HostPiece = done .. done + piece - 1
      /\ ToMove = done .. total - 1
      /\ ToMove' = done + piece .. total - 1
  BY <1>1 DEF HostPiece, ToMove
<1> HIDE DEF total, done, piece
<1> QED BY <1>1, <1>2, <1>4, <1>5

LEMMA AddressTypes ==
  ASSUME TypeInv
  PROVE  /\ \A a \in UbAddrs : a \in Nat /\ a - UbAt(hif.ub_row, 0) \in Int
         /\ \A a \in HostAddrs : a \in Nat /\ a - hif.host_row * Dim \in Int
         /\ UbAt(hif.ub_row, 0) \in Nat /\ hif.host_row * Dim \in Nat
<1>1. hif.ub_row * Dim \in Nat /\ hif.host_row * Dim \in Nat
  BY HostTypes, ProductNat
<1>2. UbAt(hif.ub_row, 0) \in Nat
  BY <1>1 DEF UbAt
<1> QED BY <1>1, <1>2 DEF UbAddrs, HostAddrs

(* Output rows still to be written: none once every input row has gone by.   *)
LEMMA ToActivateIs ==
  ASSUME TypeInv, PoolInv
  PROVE  /\ RowsWritten \in Nat /\ ActOutRows \in Nat
         /\ ToActivate = RowsWritten .. ActOutRows - 1
         /\ act.pool = "None" => ActOutRows = act.rows_total
                                  /\ RowsWritten = act.rows_done
         /\ act.pool # "None" =>
              /\ ActOutRows = PooledRows(act.rows_total, act.pool_size)
              /\ RowsWritten = BandOf(act.rows_done, act.pool_size,
                                      act.pool_width)
                               * PerBand(act.pool_size, act.pool_width)
<1> DEFINE s == act.pool_size
           w == act.pool_width
           i == act.rows_done
           n == act.rows_total
<1>1. i \in Nat /\ n \in Nat /\ i <= n /\ (ActBusy <=> i < n)
  BY ActTypes DEF ActBusy
<1>2. CASE act.pool = "None"
  <2>1. ActOutRows = n /\ RowsWritten = i
    BY <1>2 DEF ActOutRows, ActivateOutputRows, RowsWritten
  <2>2. ToActivate = IF i < n THEN i .. n - 1 ELSE {}
    BY <1>1, <2>1 DEF ToActivate
  <2> HIDE DEF i, n
  <2>3. ToActivate = i .. n - 1
    BY <1>1, <2>2
  <2> QED BY <1>1, <1>2, <2>1, <2>3 DEF i, n
<1>3. CASE act.pool # "None"
  <2> DEFINE p == PerBand(s, w)
             b == BandOf(i, s, w)
             out == PooledRows(n, s)
  <2>1. /\ ActShape(s, w, n) /\ s \in Nat \ {0} /\ w \in Nat \ {0}
        /\ Whole(s, w)
    BY <1>3, ActTypes DEF ActShape
  <2>2. ActOutRows = out
    BY <1>3, <2>1 DEF ActOutRows, ActivateOutputRows, PooledRows
  <2>3. RowsWritten = b * p
    <3>1. i \div (w * s) = b
      BY <1>1, <2>1, BandsBefore
    <3>2. RowsWritten = (i \div (w * s)) * (w \div s)
      BY <1>3 DEF RowsWritten
    <3> QED BY <3>1, <3>2 DEF PerBand
  <2>4. b \in Nat /\ p \in Nat \ {0} /\ out \in Nat
        /\ out = BandCount(n, s, w) * p
    BY <1>1, <2>1, PartsAre, Bands DEF ActShape
  <2>5. b * p \in Nat
    BY <2>4, ProductNat
  <2>6. i = n => b * p = out
    <3>1. i = n => b = BandCount(n, s, w)
      BY <1>1, <2>1, BandsBefore
    <3> QED BY <2>4, <3>1
  <2>7. ToActivate = IF i < n THEN RowsWritten .. ActOutRows - 1 ELSE {}
    BY <1>1 DEF ToActivate
  <2> HIDE DEF i, n, s, w, p, b, out
  <2>8. ToActivate = RowsWritten .. ActOutRows - 1
    BY <1>1, <2>2, <2>3, <2>4, <2>5, <2>6, <2>7
  <2> QED BY <1>3, <2>2, <2>3, <2>4, <2>5, <2>8 DEF out, b, p, i, n, s, w
<1> QED BY <1>2, <1>3

(* No byte under way in a transfer lies in a row the Activate has yet to     *)
(* write.                                                                    *)
LEMMA TransferSparesAct ==
  ASSUME TypeInv, PoolInv, NoRowConflict, NEW a \in Nat,
         a - UbAt(hif.ub_row, 0) \in ToMove
  PROVE  ~ActWillWrite(a)
<1> SUFFICES ASSUME ActWillWrite(a) PROVE FALSE
  OBVIOUS
<1> DEFINE row == a \div Dim
           total == hif.rows * Dim
<1>1. row \in Nat
  BY AddressRow
<1>2. HostBusy /\ a - UbAt(hif.ub_row, 0) \in 0 .. total - 1
  <2> DEFINE k == a - UbAt(hif.ub_row, 0)
             done == hif.bytes_done
  <2>1. k \in done .. total - 1 /\ done \in Nat /\ total \in Nat
    BY HostTypes DEF ToMove
  <2>2. HostBusy <=> done < total
    BY DEF HostBusy
  <2> HIDE DEF k, done, total
  <2> QED BY <2>1, <2>2 DEF k
<1>3. row \in hif.ub_row .. hif.ub_row + hif.rows - 1
  BY <1>2, HostTypes, BytesOfRows
<1>4. /\ row - act.ub_row \in 0 .. ActOutRows - 1 /\ ActOutRows \in Nat
      /\ ActBusy
  BY <1>1, ToActivateIs DEF ActWillWrite, ToActivate
<1> HIDE DEF row
<1>5. Overlap(act.ub_row, ActOutRows, hif.ub_row, hif.rows)
  BY <1>1, <1>3, <1>4, HostTypes, ActTypes DEF Overlap
<1> QED BY <1>2, <1>4, <1>5 DEF NoRowConflict, HostSparesAct, ActWritesUbRows

LEMMA HostMovesUb ==
  ASSUME TypeInv, PoolInv, NoRowConflict, HostMoves, UNCHANGED <<acc, act>>,
         NEW a \in UbAddrs
  PROVE  UbCell(a)' = UbCell(a)
<1> DEFINE k == a - UbAt(hif.ub_row, 0)
<1>1. k \in Int /\ a \in DOMAIN ub
  BY AddressTypes DEF TypeInv, MemoriesOK, IsMemory
<1>2. /\ k \in HostPiece => k \in ToMove
      /\ k \in ToMove' <=> k \in ToMove /\ k \notin HostPiece
      /\ hif'.direction = hif.direction /\ hif'.ub_row = hif.ub_row
      /\ hif'.host_row = hif.host_row
  <2> HIDE DEF k
  <2> QED BY <1>1, HostPieceMoves
<1>3. /\ HostWillWrite(a) <=> hif.direction = "HostToUb" /\ k \in ToMove
      /\ HostWillWrite(a)' <=> hif'.direction = "HostToUb" /\ k \in ToMove'
  BY <1>2 DEF HostWillWrite
<1>4. ActWillWrite(a)' = ActWillWrite(a)
  BY DEF ActWillWrite, ToActivate, ActBusy, RowsWritten, ActOutRows
<1>5. PendingRow(a \div Dim - act.ub_row, a % Dim)'
        = PendingRow(a \div Dim - act.ub_row, a % Dim)
  BY DEF PendingRow
<1>6. UbCell(a)' = IF HostWillWrite(a)' THEN hostMem'[hif.host_row * Dim + k]
                   ELSE IF ActWillWrite(a)
                   THEN PendingRow(a \div Dim - act.ub_row, a % Dim)
                   ELSE ub'[a]
  BY <1>2, <1>4, <1>5 DEF UbCell
<1>7. CASE hif.direction = "UbToHost"
  <2>1. UNCHANGED ub /\ ~HostWillWrite(a) /\ ~HostWillWrite(a)'
    BY <1>2, <1>3, <1>7 DEF HostMoves
  <2> QED BY <1>6, <2>1 DEF UbCell
<1>8. CASE hif.direction = "HostToUb"
  <2>1. /\ UNCHANGED hostMem
        /\ ub'[a] = IF k \in HostPiece THEN hostMem[hif.host_row * Dim + k]
                    ELSE ub[a]
    BY <1>1, <1>8 DEF HostMoves, Copied
  <2>2. CASE k \in HostPiece
    <3>1. HostWillWrite(a) /\ ~HostWillWrite(a)'
          /\ ub'[a] = hostMem[hif.host_row * Dim + k]
      BY <1>2, <1>3, <1>8, <2>1, <2>2
    <3>2. ~ActWillWrite(a)
      BY <1>2, <2>2, AddressTypes, TransferSparesAct
    <3> QED BY <1>6, <3>1, <3>2 DEF UbCell
  <2>3. CASE k \notin HostPiece
    <3>1. (HostWillWrite(a)' <=> HostWillWrite(a)) /\ ub'[a] = ub[a]
      BY <1>2, <1>3, <2>1, <2>3
    <3> QED BY <1>6, <2>1, <3>1 DEF UbCell
  <2> QED BY <2>2, <2>3
<1> QED BY <1>7, <1>8, HostTypes DEF Directions

LEMMA HostMovesHost ==
  ASSUME TypeInv, HostMoves, NEW a \in HostAddrs
  PROVE  HostCell(a)' = HostCell(a)
<1> DEFINE k == a - hif.host_row * Dim
           from == UbAt(hif.ub_row, 0)
<1>1. k \in Int /\ a \in DOMAIN hostMem
  BY AddressTypes DEF TypeInv, MemoriesOK, IsMemory
<1>2. /\ k \in HostPiece => k \in ToMove
      /\ k \in ToMove' <=> k \in ToMove /\ k \notin HostPiece
      /\ hif'.direction = hif.direction /\ hif'.ub_row = hif.ub_row
      /\ hif'.host_row = hif.host_row
  <2> HIDE DEF k
  <2> QED BY <1>1, HostPieceMoves
<1>3. /\ HostCell(a) = IF hif.direction = "UbToHost" /\ k \in ToMove
                       THEN ub[from + k] ELSE hostMem[a]
      /\ HostCell(a)' = IF hif.direction = "UbToHost" /\ k \in ToMove'
                        THEN ub'[from + k] ELSE hostMem'[a]
  BY <1>2 DEF HostCell, UbAt
<1>4. CASE hif.direction = "HostToUb"
  <2>1. UNCHANGED hostMem
    BY <1>4 DEF HostMoves
  <2> HIDE DEF k, from
  <2> QED BY <1>3, <1>4, <2>1
<1>5. CASE hif.direction = "UbToHost"
  <2>1. /\ UNCHANGED ub
        /\ hostMem'[a] = IF k \in HostPiece THEN ub[from + k] ELSE hostMem[a]
    BY <1>1, <1>5 DEF HostMoves, Copied
  <2> HIDE DEF k, from
  <2>2. CASE k \in HostPiece
    BY <1>2, <1>3, <1>5, <2>1, <2>2
  <2>3. CASE k \notin HostPiece
    <3>1. (k \in ToMove') <=> (k \in ToMove)
      BY <1>2, <2>3
    <3> QED BY <1>3, <2>1, <2>3, <3>1
  <2> QED BY <2>2, <2>3
<1> QED BY <1>4, <1>5, HostTypes DEF Directions

(* The product of an input row is what it was, as long as the multiply runs. *)
LEMMA SumsOfRowsStay ==
  ASSUME TypeInv, PoolInv, NoRowConflict, SumsInv, mxu.busy,
         HostTick \/ ActTick \/ UNCHANGED ub,
         UNCHANGED mxu, ActivePlane' = ActivePlane,
         NEW r \in 0 .. mxu.rows - 1, NEW n \in Cols
  PROVE  [j \in 1 .. Dim - 1 + 1 |-> <<ub'[UbAt(mxu.ub_row + r, j - 1)],
                                       ActivePlane'[<<j - 1, n>>]>>]
           = SumOf(mxu.ub_row + r, Dim - 1, n)
<1>1. \A j \in 1 .. Dim - 1 + 1 : j - 1 \in Cols
  BY MemoryAssumption DEF Cols
<1>2. \A j \in 1 .. Dim - 1 + 1 :
        ub'[UbAt(mxu.ub_row + r, j - 1)] = ub[UbAt(mxu.ub_row + r, j - 1)]
  <2>1. r \in Nat /\ r < mxu.rows
    BY MxuTypes
  <2> QED BY <1>1, <2>1, MxuRowsStay
<1> QED BY <1>2 DEF SumOf

LEMMA AccStays ==
  ASSUME TypeInv, PoolInv, NoRowConflict, SumsInv,
         HostTick \/ ActTick \/ UNCHANGED ub,
         UNCHANGED <<mxu, acc>>, ActivePlane' = ActivePlane
  PROVE  DrainedAcc' = DrainedAcc
<1> SUFFICES ASSUME NEW c \in AccCells PROVE AccCell(c)' = AccCell(c)
  BY DrainedStays
<1> DEFINE r == c[1] - mxu.acc_row
<1>1. c[2] \in Cols /\ c[1] \in Int
  BY DEF AccCells
<1>2. MxuWillWrite(c)' = MxuWillWrite(c)
  BY DEF MxuWillWrite
<1>3. CASE MxuWillWrite(c)
  <2>1. mxu.busy /\ r \in 0 .. mxu.rows - 1
    BY <1>3 DEF MxuWillWrite
  <2>2. SumOf(mxu.ub_row + r, Dim - 1, c[2])'
          = [j \in 1 .. Dim - 1 + 1 |->
               <<ub'[UbAt(mxu.ub_row + r, j - 1)],
                 ActivePlane'[<<j - 1, c[2]>>]>>]
    BY DEF SumOf
  <2>3. SumOf(mxu.ub_row + r, Dim - 1, c[2])'
          = SumOf(mxu.ub_row + r, Dim - 1, c[2])
    <3>1. \A v \in 0 .. mxu.rows - 1 :
            [j \in 1 .. Dim - 1 + 1 |-> <<ub'[UbAt(mxu.ub_row + v, j - 1)],
                                          ActivePlane'[<<j - 1, c[2]>>]>>]
              = SumOf(mxu.ub_row + v, Dim - 1, c[2])
      BY <1>1, <2>1, SumsOfRowsStay
    <3> QED BY <2>1, <2>2, <3>1
  <2> QED BY <1>2, <1>3, <2>3 DEF AccCell
<1>4. CASE ~MxuWillWrite(c)
  BY <1>2, <1>4 DEF AccCell
<1> QED BY <1>3, <1>4

(* Bytes on their way to the host lie in rows no other unit writes.          *)
LEMMA HostReadsStay ==
  ASSUME TypeInv, PoolInv, NoRowConflict, ActTick \/ UNCHANGED ub,
         UNCHANGED <<hif, hostMem>>
  PROVE  DrainedHostMem' = DrainedHostMem
<1> SUFFICES ASSUME NEW a \in HostAddrs PROVE HostCell(a)' = HostCell(a)
  BY DrainedStays
<1> DEFINE k == a - hif.host_row * Dim
           from == UbAt(hif.ub_row, 0)
           q == from + k
<1>1. k \in Int /\ from \in Nat
  BY AddressTypes
<1>2. CASE hif.direction = "UbToHost" /\ k \in ToMove
  <2>1. HostCell(a) = ub[q] /\ HostCell(a)' = ub'[q]
    BY <1>2 DEF HostCell, ToMove, UbAt
  <2>2. HostBusy /\ k \in 0 .. hif.rows * Dim - 1
    <3> DEFINE total == hif.rows * Dim
               done == hif.bytes_done
    <3>1. k \in done .. total - 1 /\ done \in Nat /\ total \in Nat
      BY <1>2, HostTypes DEF ToMove
    <3>2. HostBusy <=> done < total
      BY DEF HostBusy
    <3> HIDE DEF k, done, total
    <3> QED BY <3>1, <3>2 DEF total
  <2>3. q \in Nat /\ q - from = k
    <3> HIDE DEF k, from
    <3> QED BY <1>1, <2>2
  <2> HIDE DEF k, q
  <2>4. q \div Dim \in hif.ub_row .. hif.ub_row + hif.rows - 1
    BY <2>2, <2>3, HostTypes, BytesOfRows
  <2> DEFINE row == q \div Dim
             col == q % Dim
  <2>5. row \in Nat /\ col \in Cols /\ q = UbAt(row, col) /\ row < UbRows
    BY <2>3, <2>4, AddressRow, HostTypes, MemoryAssumption
  <2> HIDE DEF row, col
  <2>6. ASSUME ActBusy, Overlap(act.ub_row, ActOutRows, row, 1) PROVE FALSE
    <3>1. Overlap(act.ub_row, ActOutRows, hif.ub_row, hif.rows)
      <4>1. row \in hif.ub_row .. hif.ub_row + hif.rows - 1
        BY <2>4 DEF row
      <4>2. /\ hif.ub_row \in Nat /\ hif.rows \in Nat /\ act.ub_row \in Nat
            /\ ActOutRows \in Nat
        BY HostTypes, ActTypes, ToActivateIs
      <4> QED BY <2>5, <2>6, <4>1, <4>2 DEF Overlap
    <3> QED BY <2>2, <2>6, <3>1
            DEF NoRowConflict, HostSparesAct, ActWritesUbRows
  <2>7. ub'[q] = ub[q]
    BY <2>5, <2>6, ActLeavesRows
  <2> QED BY <2>1, <2>7
<1>3. CASE ~(hif.direction = "UbToHost" /\ k \in ToMove)
  BY <1>3 DEF HostCell, ToMove
<1> QED BY <1>2, <1>3

LEMMA AdvanceHostStutters ==
  ASSUME RefInv, AdvanceHost
  PROVE  UNCHANGED <<DrainedUb, DrainedAcc, DrainedHostMem, ActivePlane,
                     TilesWaiting>>
<1>1. ActivePlane' = ActivePlane /\ TilesWaiting' = TilesWaiting
  BY DEF AdvanceHost, ActivePlane, TilesWaiting
<1>2. DrainedAcc' = DrainedAcc
  BY <1>1, AccStays DEF AdvanceHost, RefInv
<1>3. CASE HostMoves
  <2>1. DrainedUb' = DrainedUb
    BY <1>3, HostMovesUb, DrainedStays DEF AdvanceHost, RefInv
  <2>2. DrainedHostMem' = DrainedHostMem
    BY <1>3, HostMovesHost, DrainedStays DEF RefInv
  <2> QED BY <1>1, <1>2, <2>1, <2>2
<1>4. CASE UNCHANGED <<hif, ub, hostMem>>
  BY <1>1, <1>2, <1>4
     DEF AdvanceHost, DrainedUb, DrainedHostMem, ToMove, ToActivate, ActBusy,
         RowsWritten, ActOutRows, PendingRow
<1> QED BY <1>3, <1>4 DEF AdvanceHost, HostTick

LEMMA AdvanceFifoStutters ==
  ASSUME RefInv, AdvanceFifo
  PROVE  UNCHANGED <<DrainedUb, DrainedAcc, DrainedHostMem, ActivePlane,
                     TilesWaiting>>
<1>1. UNCHANGED <<DrainedUb, DrainedHostMem>>
  BY DEF AdvanceFifo, memories, DrainedUb, DrainedHostMem, ToMove, ToActivate,
         ActBusy, RowsWritten, ActOutRows, PendingRow
<1>2. ActivePlane' = ActivePlane
  BY DEF AdvanceFifo, ActivePlane
<1>3. DrainedAcc' = DrainedAcc
  BY <1>2, AccStays DEF AdvanceFifo, memories, RefInv
<1>4. TilesWaiting' = TilesWaiting
  <2>1. /\ DOMAIN fifo' = DOMAIN fifo /\ UNCHANGED shifter
        /\ \A i \in DOMAIN fifo : fifo'[i].tile = fifo[i].tile
    BY FifoMovesTiles DEF AdvanceFifo, RefInv
  <2>2. [i \in DOMAIN fifo' |-> fifo'[i].tile]
          = [i \in DOMAIN fifo |-> fifo[i].tile]
    BY <2>1
  <2> QED BY <2>1, <2>2 DEF TilesWaiting
<1> QED BY <1>1, <1>2, <1>3, <1>4

LEMMA HeadThenTail ==
  ASSUME NEW S, NEW q \in Seq(S), q # << >>
  PROVE  <<Head(q)>> \o Tail(q) = q
<1>1. /\ Head(q) \in S /\ Tail(q) \in Seq(S) /\ Len(Tail(q)) = Len(q) - 1
      /\ \A i \in 1 .. Len(Tail(q)) : Tail(q)[i] = q[i + 1]
  BY HeadTailProperties
<1>2. Head(q) = q[1] /\ Len(q) \in Nat \ {0} /\ q = [i \in 1 .. Len(q) |-> q[i]]
  BY EmptySeq, LenProperties
<1> DEFINE one == <<q[1]>>
           both == one \o Tail(q)
<1>3. one \in Seq(S) /\ Len(one) = 1 /\ one[1] = q[1]
  BY <1>1, <1>2
<1> HIDE DEF one
<1>4. /\ both \in Seq(S) /\ Len(both) = Len(q)
      /\ \A i \in 1 .. Len(q) :
           both[i] = IF i <= 1 THEN one[i] ELSE Tail(q)[i - 1]
  <2> DEFINE t == Tail(q)
  <2>1. t \in Seq(S) /\ Len(t) = Len(q) - 1
    BY <1>1
  <2> HIDE DEF t
  <2>2. /\ one \o t \in Seq(S) /\ Len(one \o t) = Len(one) + Len(t)
        /\ \A i \in 1 .. Len(one) + Len(t) :
             (one \o t)[i] = IF i <= Len(one) THEN one[i] ELSE t[i - Len(one)]
    BY ONLY <1>3, <2>1, ConcatProperties
  <2>3. Len(one) + Len(t) = Len(q)
    BY <1>2, <1>3, <2>1
  <2> QED BY <1>3, <2>2, <2>3 DEF t
<1>5. \A i \in 2 .. Len(q) : Tail(q)[i - 1] = q[i]
  <2> SUFFICES ASSUME NEW i \in 2 .. Len(q) PROVE Tail(q)[i - 1] = q[i]
    OBVIOUS
  <2>1. i - 1 \in 1 .. Len(Tail(q)) /\ (i - 1) + 1 = i
    BY <1>1, <1>2
  <2> QED BY <1>1, <2>1
<1>6. \A i \in 1 .. Len(q) : both[i] = q[i]
  BY <1>2, <1>3, <1>4, <1>5
<1> HIDE DEF both
<1>7. both = [i \in 1 .. Len(both) |-> both[i]]
  BY <1>4
<1>8. both = q
  BY <1>2, <1>4, <1>6, <1>7
<1> QED BY <1>2, <1>8 DEF both, one

LEMMA TilesOfTail ==
  ASSUME NEW q \in Seq(FifoTile), q # << >>
  PROVE  LET tiles == [i \in DOMAIN q |-> q[i].tile]
         IN  /\ tiles \in Seq(Nat) /\ tiles # << >>
             /\ Len(tiles) = Len(q) /\ Head(tiles) = Head(q).tile
             /\ [i \in DOMAIN Tail(q) |-> Tail(q)[i].tile] = Tail(tiles)
<1> DEFINE tiles == [i \in DOMAIN q |-> q[i].tile]
<1>1. Len(q) \in Nat \ {0} /\ DOMAIN q = 1 .. Len(q) /\ Head(q) = q[1]
  BY EmptySeq, LenProperties
<1>2. \A i \in 1 .. Len(q) : q[i].tile \in Nat
  <2>1. \A i \in 1 .. Len(q) : q[i] \in FifoTile
    BY LenProperties
  <2> QED BY <2>1 DEF FifoTile
<1>3. tiles \in Seq(Nat) /\ Len(tiles) = Len(q)
  BY <1>1, <1>2
<1>4. tiles # << >> /\ Head(tiles) = Head(q).tile
  BY <1>1, <1>3, EmptySeq
<1>5. Tail(q) \in Seq(FifoTile) /\ Len(Tail(q)) = Len(q) - 1
      /\ \A i \in 1 .. Len(Tail(q)) : Tail(q)[i] = q[i + 1]
  BY HeadTailProperties
<1>6. Tail(tiles) = [i \in 1 .. Len(tiles) - 1 |-> tiles[i + 1]]
  <2> HIDE DEF tiles
  <2>1. /\ Tail(tiles) \in Seq(Nat) /\ Len(Tail(tiles)) = Len(tiles) - 1
        /\ \A i \in 1 .. Len(Tail(tiles)) : Tail(tiles)[i] = tiles[i + 1]
    BY <1>3, <1>4, HeadTailProperties
  <2> DEFINE t == Tail(tiles)
  <2>2. t = [i \in 1 .. Len(t) |-> t[i]]
    BY <2>1, LenProperties
  <2> QED BY <2>1, <2>2
<1>7. \A i \in 1 .. Len(q) - 1 : tiles[i + 1] = Tail(q)[i].tile
  BY <1>1, <1>5
<1>8. DOMAIN Tail(q) = 1 .. Len(q) - 1
  BY <1>5, LenProperties
<1> HIDE DEF tiles
<1> QED BY <1>3, <1>4, <1>6, <1>7, <1>8 DEF tiles

LEMMA AdvanceShifterStutters ==
  ASSUME RefInv, AdvanceShifter
  PROVE  UNCHANGED <<DrainedUb, DrainedAcc, DrainedHostMem, ActivePlane,
                     TilesWaiting>>
<1>1. UNCHANGED <<DrainedUb, DrainedHostMem>>
  BY DEF AdvanceShifter, memories, DrainedUb, DrainedHostMem, ToMove,
         ToActivate, ActBusy, RowsWritten, ActOutRows, PendingRow
<1>2. ActivePlane' = ActivePlane
  BY ActivePlaneStays DEF AdvanceShifter, RefInv
<1>3. DrainedAcc' = DrainedAcc
  BY <1>2, AccStays DEF AdvanceShifter, memories, RefInv
<1>4. TilesWaiting' = TilesWaiting
  <2>1. CASE UNCHANGED <<planes, shifter, fifo>>
    BY <2>1 DEF TilesWaiting
  <2>2. CASE ShiftRow
    <3> DEFINE k == shifter.rows_shifted
    <3>1. /\ ~shifter.shadow_full /\ fifo # << >>
          /\ shifter'.shadow_full = (k + 1 = Dim)
          /\ fifo' = IF k + 1 = Dim THEN Tail(fifo) ELSE fifo
          /\ shifter'.shadow_tile = IF k = 0 THEN Head(fifo).tile
                                    ELSE shifter.shadow_tile
      BY <2>2, ShifterTypes DEF ShiftRow, FrontReady, RefInv
    <3>2. CASE k + 1 # Dim
      BY <3>1, <3>2 DEF TilesWaiting
    <3>3. CASE k + 1 = Dim
      <4> DEFINE tiles == [i \in DOMAIN fifo |-> fifo[i].tile]
      <4>1. k = 0 \/ Shifting
        BY <3>1, ShifterTypes DEF Shifting, RefInv
      <4>2. shifter'.shadow_tile = Head(fifo).tile
        BY <3>1, <4>1 DEF RefInv, TilesInv
      <4>3. /\ TilesWaiting = << >> \o tiles
            /\ TilesWaiting' = <<Head(fifo).tile>>
                 \o [i \in DOMAIN Tail(fifo) |-> Tail(fifo)[i].tile]
        BY <3>1, <3>3, <4>2 DEF TilesWaiting
      <4>4. /\ Head(fifo).tile = Head(tiles) /\ tiles # << >>
            /\ tiles \in Seq(Nat)
            /\ [i \in DOMAIN Tail(fifo) |-> Tail(fifo)[i].tile] = Tail(tiles)
        BY <3>1, ShifterTypes, TilesOfTail DEF RefInv
      <4> HIDE DEF tiles
      <4>5. << >> \o tiles = tiles /\ <<Head(tiles)>> \o Tail(tiles) = tiles
        BY <4>4, HeadThenTail, ConcatEmptySeq
      <4> QED BY <4>3, <4>4, <4>5 DEF tiles
    <3> QED BY <3>2, <3>3
  <2> QED BY <2>1, <2>2 DEF AdvanceShifter, ShiftWeights
<1> QED BY <1>1, <1>2, <1>3, <1>4

LEMMA PendingIs ==
  ASSUME NEW o, NEW n
  PROVE  PendingRow(o, n) =
           LET s == act.pool_size
               w == act.pool_width
               p == PerBand(s, w)
           IN  IF act.pool = "None" THEN ValueAt(o, n)
               ELSE <<act.pool,
                      [j \in 1 .. s * s |->
                         ValueAt(Pixel(o \div p, o % p, j, s, w), n)]>>
BY DEF PendingRow, ValueAt, Pixel, PerBand

(* The values an Activate has yet to write do not depend on the array.       *)
LEMMA PendingStays ==
  ASSUME TypeInv, PoolInv, ArrayInv, NoRowConflict, StepArray, UNCHANGED act,
         NEW o \in ToActivate, NEW n \in Cols
  PROVE  PendingRow(o, n)' = PendingRow(o, n)
<1> DEFINE s == act.pool_size
           w == act.pool_width
           N == act.rows_total
           p == PerBand(s, w)
           px(j) == Pixel(o \div p, o % p, j, s, w)
           new(i) == Activated(act.function, acc'[<<act.acc_row + i, n>>])
<1>1. ActBusy
  BY DEF ToActivate
<1>2. o \in Nat /\ o < ActOutRows
  BY ToActivateIs
<1>3. \A i \in 0 .. N - 1 : new(i) = ValueAt(i, n)
  BY <1>1, ValuesStay DEF ValueAt
<1>4. PendingRow(o, n)' = IF act.pool = "None" THEN new(o)
                          ELSE <<act.pool, [j \in 1 .. s * s |-> new(px(j))]>>
  BY DEF PendingRow, Pixel, PerBand
<1>5. PendingRow(o, n) =
        IF act.pool = "None" THEN ValueAt(o, n)
        ELSE <<act.pool, [j \in 1 .. s * s |-> ValueAt(px(j), n)]>>
  BY PendingIs
<1>6. CASE act.pool = "None"
  <2>1. o \in 0 .. N - 1
    BY <1>2, <1>6, ToActivateIs, ActTypes
  <2> HIDE DEF new
  <2> QED BY <1>3, <1>4, <1>5, <1>6, <2>1
<1>7. CASE act.pool # "None"
  <2>1. ActShape(s, w, N) /\ o < PooledRows(N, s)
    BY <1>2, <1>7, ToActivateIs, ActTypes
  <2>2. \A j \in 1 .. s * s : px(j) \in 0 .. N - 1
    BY <1>2, <2>1, PixelInRange
  <2> HIDE DEF new, px
  <2>3. \A j \in 1 .. s * s : new(px(j)) = ValueAt(px(j), n)
    BY <1>3, <2>2
  <2> QED BY <1>4, <1>5, <1>7, <2>3
<1> QED BY <1>6, <1>7

(* An accumulator holds its sum, or the array still has it.                  *)
LEMMA StepArrayAcc ==
  ASSUME TypeInv, ArrayInv, SumsInv, StepArray,
         UNCHANGED <<ub, planes, shifter>>, NEW c \in AccCells
  PROVE  AccCell(c)' = AccCell(c)
<1>1. PICK a \in 0 .. AccRows - 1, n \in Cols : c = <<a, n>>
  BY DEF AccCells
<1> DEFINE r == a - mxu.acc_row
           top == mxu.ub_row + r
           kept == IF mxu.accumulate THEN acc[c] ELSE << >>
           last == r + Dim - 1 + n
           sum == SumOf(top, Dim - 1, n)
<1>2. c[1] = a /\ c[2] = n /\ a \in Int /\ n \in Int
  BY <1>1 DEF Cols
<1>3. /\ mxu.busy /\ mxu'.ub_row = mxu.ub_row /\ mxu'.acc_row = mxu.acc_row
      /\ mxu'.rows = mxu.rows /\ mxu'.accumulate = mxu.accumulate
      /\ mxu'.step = mxu.step + 1 /\ mxu'.busy = (mxu.step + 1 # TotalSteps)
      /\ mxu.acc_row \in Nat
  BY MxuTypes DEF StepArray
<1>4. sum' = sum
  BY <1>3 DEF SumOf, ActivePlane
<1>5. /\ AccCell(c) = IF MxuWillWrite(c) THEN kept \o sum ELSE acc[c]
      /\ AccCell(c)' = IF MxuWillWrite(c)'
                       THEN (IF mxu.accumulate THEN acc'[c] ELSE << >>) \o sum
                       ELSE acc'[c]
  <2>1. AccCell(c)' = IF MxuWillWrite(c)'
                      THEN (IF mxu.accumulate THEN acc'[c] ELSE << >>) \o sum'
                      ELSE acc'[c]
    BY <1>2, <1>3 DEF AccCell
  <2> QED BY <1>2, <1>4, <2>1 DEF AccCell
<1>6. /\ MxuWillWrite(c) <=> r \in 0 .. mxu.rows - 1 /\ mxu.step <= last
      /\ MxuWillWrite(c)' <=> r \in 0 .. mxu.rows - 1 /\ mxu.step + 1 <= last
  <2>1. MxuWillWrite(c)' <=> /\ mxu.step + 1 # TotalSteps
                             /\ r \in 0 .. mxu.rows - 1
                             /\ mxu.step + 1 <= last
    BY <1>2, <1>3 DEF MxuWillWrite
  <2>2. r \in 0 .. mxu.rows - 1 /\ mxu.step + 1 <= last
          => mxu.step + 1 # TotalSteps
    <3>1. n \in 0 .. Dim - 1 /\ r \in Int
      BY <1>2, <1>3 DEF Cols
    <3> HIDE DEF r
    <3> QED BY <3>1, MxuTypes DEF TotalSteps
  <2> QED BY <1>2, <1>3, <2>1, <2>2 DEF MxuWillWrite
<1>7. CASE r \in 0 .. mxu.rows - 1 /\ mxu.step = last
  <2>1. /\ grid'[<<Dim - 1, n>>].row = r
        /\ acc'[c] = kept \o grid'[<<Dim - 1, n>>].psum
    BY <1>1, <1>7, StepWrites
  <2>2. grid'[<<Dim - 1, n>>].psum = sum
    <3>1. SumsInv' /\ Dim - 1 \in Cols
      BY StepKeepsSums, MxuTypes DEF Cols
    <3>2. grid'[<<Dim - 1, n>>].psum = SumOf(top, Dim - 1, n)'
      <4> DEFINE q == grid'[<<Dim - 1, n>>].row
      <4>1. q >= 0
        BY <1>7, <2>1, MxuTypes
      <4>2. grid'[<<Dim - 1, n>>].psum
              = [j \in 1 .. Dim - 1 + 1 |->
                   <<ub'[UbAt(mxu'.ub_row + q, j - 1)],
                     ActivePlane'[<<j - 1, n>>]>>]
        BY <3>1, <4>1 DEF SumsInv, SumOf
      <4>3. SumOf(top, Dim - 1, n)'
              = [j \in 1 .. Dim - 1 + 1 |->
                   <<ub'[UbAt(mxu'.ub_row + r, j - 1)],
                     ActivePlane'[<<j - 1, n>>]>>]
        BY <1>3 DEF SumOf
      <4> HIDE DEF r
      <4> QED BY <2>1, <4>2, <4>3
    <3> QED BY <1>4, <3>2
  <2>3. MxuWillWrite(c) /\ ~MxuWillWrite(c)'
    <3>1. mxu.step <= last /\ ~(mxu.step + 1 <= last)
      <4>1. last \in Int
        BY <1>2, <1>3, MxuTypes
      <4> HIDE DEF last
      <4> QED BY <1>7, <4>1
    <3> QED BY <1>6, <1>7, <3>1
  <2> HIDE DEF sum, kept
  <2> QED BY <1>5, <2>1, <2>2, <2>3
<1>8. CASE ~(r \in 0 .. mxu.rows - 1 /\ mxu.step = last)
  <2>1. acc'[c] = acc[c]
    BY <1>1, <1>8, StepWrites
  <2>2. MxuWillWrite(c)' <=> MxuWillWrite(c)
    <3>1. last \in Int
      BY <1>2, <1>3, MxuTypes
    <3> HIDE DEF last, r
    <3> QED BY <1>6, <1>8, <3>1, MxuTypes
  <2> HIDE DEF sum
  <2> QED BY <1>5, <2>1, <2>2
<1> QED BY <1>7, <1>8

LEMMA AdvanceArrayStutters ==
  ASSUME RefInv, AdvanceArray
  PROVE  UNCHANGED <<DrainedUb, DrainedAcc, DrainedHostMem, ActivePlane,
                     TilesWaiting>>
<1>1. UNCHANGED <<ActivePlane, TilesWaiting, DrainedHostMem>>
  BY DEF AdvanceArray, ActivePlane, TilesWaiting, DrainedHostMem, ToMove
<1>2. CASE UNCHANGED <<grid, acc, mxu>>
  BY <1>1, <1>2, AccStays
     DEF AdvanceArray, RefInv, DrainedUb, ToMove, ToActivate, ActBusy,
         RowsWritten, ActOutRows, PendingRow
<1>3. CASE StepArray
  <2>1. DrainedAcc' = DrainedAcc
    BY <1>3, StepArrayAcc, DrainedStays DEF AdvanceArray, RefInv
  <2>2. ASSUME NEW a \in UbAddrs PROVE UbCell(a)' = UbCell(a)
    <3>1. /\ HostWillWrite(a)' = HostWillWrite(a)
          /\ ActWillWrite(a)' = ActWillWrite(a)
      BY DEF AdvanceArray, HostWillWrite, ToMove, ActWillWrite, ToActivate,
             ActBusy, RowsWritten, ActOutRows
    <3>2. a % Dim \in Cols
      BY AddressRow DEF UbAddrs
    <3>3. UNCHANGED <<ub, hostMem, hif, act>>
      BY DEF AdvanceArray
    <3>4. \A o \in ToActivate : PendingRow(o, a % Dim)' = PendingRow(o, a % Dim)
      BY <1>3, <3>2, <3>3, PendingStays DEF RefInv
    <3>5. ActWillWrite(a) =>
            PendingRow(a \div Dim - act.ub_row, a % Dim)'
              = PendingRow(a \div Dim - act.ub_row, a % Dim)
      <4> DEFINE new(o) == IF act.pool = "None"
            THEN Activated(act.function, acc'[<<act.acc_row + o, a % Dim>>])
            ELSE <<act.pool,
                   [j \in 1 .. act.pool_size * act.pool_size |->
                      Activated(act.function,
                        acc'[<<act.acc_row +
                           Pixel(o \div PerBand(act.pool_size, act.pool_width),
                                 o % PerBand(act.pool_size, act.pool_width), j,
                                 act.pool_size, act.pool_width),
                           a % Dim>>])]>>
      <4>1. \A o : PendingRow(o, a % Dim)' = new(o)
        BY <3>3 DEF PendingRow, Pixel, PerBand
      <4>2. PendingRow(a \div Dim - act.ub_row, a % Dim)'
              = new(a \div Dim - act.ub_row)
        BY <3>3 DEF PendingRow, Pixel, PerBand
      <4> HIDE DEF new
      <4> QED BY <3>4, <4>1, <4>2 DEF ActWillWrite
    <3> QED BY <3>1, <3>3, <3>5 DEF UbCell
  <2>3. DrainedUb' = DrainedUb
    BY <2>2, DrainedStays
  <2> QED BY <1>1, <2>1, <2>3
<1> QED BY <1>2, <1>3 DEF AdvanceArray, ArrayTick

(* The rows yet to write are the ones after those written.                   *)
RowsInOrder ==
  /\ RowsWritten \in Nat
  /\ ActOutRows \in Nat
  /\ ToActivate = RowsWritten .. ActOutRows - 1

LEMMA ToActivateThen == TypeInv /\ PoolInv => RowsInOrder
BY ToActivateIs DEF RowsInOrder

LEMMA ToActivateNext == TypeInv' /\ PoolInv' => RowsInOrder'
BY ToActivateThen, PTL

(* The rows a step of the Activate writes are the ones it has yet to write   *)
(* no longer, and they hold what it was to write.                            *)
WrittenNow(o) == o \in ToActivate /\ o \notin ToActivate'

LEMMA PlainRowWrites ==
  ASSUME TypeInv, PoolInv, ActMoves, ActPlainRow, UNCHANGED acc,
         TypeInv', PoolInv', NEW a \in UbAddrs
  PROVE  LET o == a \div Dim - act.ub_row
         IN  /\ ub'[a] = IF WrittenNow(o) THEN PendingRow(o, a % Dim) ELSE ub[a]
             /\ o \in ToActivate' => o \in ToActivate
<1> DEFINE i == act.rows_done
           row == a \div Dim
           o == row - act.ub_row
<1>1. row \in Nat /\ a \in DOMAIN ub
  BY AddressRow DEF UbAddrs, TypeInv, MemoriesOK, IsMemory
<1>2. act.pool = "None" /\ act'.rows_done = i + 1 /\ act'.pool = "None"
      /\ act'.rows_total = act.rows_total /\ i \in Nat /\ i < act.rows_total
  BY ActTypes DEF ActMoves, ActPlainRow, ActBusy
<1>3. ToActivate = i .. act.rows_total - 1
      /\ ToActivate' = i + 1 .. act.rows_total - 1
  <2>1. RowsWritten = i /\ RowsWritten' = i + 1
        /\ ActOutRows = act.rows_total /\ ActOutRows' = act.rows_total
    BY <1>2 DEF RowsWritten, ActOutRows, ActivateOutputRows
  <2>2. ToActivate' = RowsWritten' .. ActOutRows' - 1
    BY ToActivateNext DEF RowsInOrder
  <2> QED BY <2>1, <2>2, ToActivateThen DEF RowsInOrder
<1>4. act.ub_row \in Nat /\ act.rows_total \in Nat
  BY ActTypes
<1>5. WrittenNow(o) <=> row = act.ub_row + i
  <2> HIDE DEF row, i
  <2> QED BY <1>1, <1>2, <1>3, <1>4 DEF WrittenNow
<1>6. ub'[a] = IF row = act.ub_row + i THEN Value(a % Dim) ELSE ub[a]
  BY <1>1, <1>2 DEF ActMoves, ActPlainRow, ActPoolRow
<1>7. row = act.ub_row + i => PendingRow(o, a % Dim) = Value(a % Dim)
  <2>1. row = act.ub_row + i => o = i
    <3> HIDE DEF row
    <3> QED BY <1>1, <1>2, <1>4
  <2> HIDE DEF o
  <2> QED BY <1>2, <2>1, PendingIs DEF ValueAt, Value
<1>8. o \in ToActivate' => o \in ToActivate
  <2> HIDE DEF o, i
  <2> QED BY <1>2, <1>3, <1>4
<1> HIDE DEF row, o, i
<1> QED BY <1>5, <1>6, <1>7, <1>8 DEF o, row

LEMMA PooledRowWrites ==
  ASSUME TypeInv, PoolInv, LineInv, ActMoves, ActPoolRow, UNCHANGED acc,
         TypeInv', PoolInv', NEW a \in UbAddrs
  PROVE  LET o == a \div Dim - act.ub_row
         IN  /\ ub'[a] = IF WrittenNow(o) THEN PendingRow(o, a % Dim) ELSE ub[a]
             /\ o \in ToActivate' => o \in ToActivate
<1> DEFINE i == act.rows_done
           N == act.rows_total
           s == act.pool_size
           w == act.pool_width
           p == PerBand(s, w)
           b == BandOf(i, s, w)
           row == a \div Dim
           n == a % Dim
           o == row - act.ub_row
           slot == row - (act.ub_row + b * p)
<1>1. row \in Nat /\ a \in DOMAIN ub /\ n \in Cols
  BY AddressRow DEF UbAddrs, TypeInv, MemoriesOK, IsMemory
<1>2. /\ act.pool # "None" /\ act'.rows_done = i + 1 /\ act'.pool = act.pool
      /\ act'.rows_total = N /\ act'.pool_size = s /\ act'.pool_width = w
      /\ i \in Nat /\ i < N /\ ActShape(s, w, N) /\ s \in Nat \ {0}
      /\ w \in Nat \ {0} /\ Whole(s, w) /\ ActBusy
  BY ActTypes DEF ActMoves, ActPoolRow, ActBusy, ActShape
<1>3. /\ p \in Nat \ {0} /\ b \in Nat
  BY <1>2, PartsAre
<1>4. b * p \in Nat /\ (b + 1) * p = (b * p) + p
      /\ (b * p) + p <= PooledRows(N, s) /\ PooledRows(N, s) \in Nat
  <2>1. 0 \in 0 .. p - 1
    BY <1>3
  <2>2. PooledRows(N, s) \in Nat
    BY <1>2, Bands DEF ActShape
  <2> QED BY <1>2, <2>1, <2>2, RowOfWindow
<1>5. ToActivate = b * p .. PooledRows(N, s) - 1
      /\ ToActivate' = BandOf(i + 1, s, w) * p .. PooledRows(N, s) - 1
  <2>1. RowsWritten = b * p /\ ActOutRows = PooledRows(N, s)
        /\ ToActivate = RowsWritten .. ActOutRows - 1
    BY <1>2, ToActivateIs
  <2>2. ToActivate' = RowsWritten' .. ActOutRows' - 1
    BY ToActivateNext DEF RowsInOrder
  <2>3. ActOutRows' = ActOutRows
    BY <1>2 DEF ActOutRows
  <2>4. RowsWritten' = BandOf(i + 1, s, w) * p
    <3>1. RowsWritten' = ((i + 1) \div (w * s)) * (w \div s)
      BY <1>2 DEF RowsWritten
    <3>2. (i + 1) \div (w * s) = BandOf(i + 1, s, w)
      BY <1>2, BandsBefore
    <3> QED BY <3>1, <3>2 DEF PerBand
  <2> QED BY <2>1, <2>2, <2>3, <2>4
<1>6. ub'[a] = IF BandEnds(i, s, w) /\ slot \in 0 .. p - 1
               THEN <<act.pool, line'[<<slot, n>>]>> ELSE ub[a]
  <2> DEFINE y == i \div w
             x == i % w
             base == act.ub_row + (y \div s) * (w \div s)
  <2>1. ub' = [c \in DOMAIN ub |->
                 LET t == c \div Dim - base
                 IN  IF (y % s = s - 1 /\ x = w - 1)
                        /\ t \in 0 .. (w \div s) - 1
                     THEN <<act.pool, line'[<<t, c % Dim>>]>>
                     ELSE ub[c]]
    BY DEF ActPoolRow
  <2>2. BandEnds(i, s, w) <=> y % s = s - 1 /\ x = w - 1
    BY <1>2, ThisPixel
  <2>3. base = act.ub_row + b * p /\ w \div s = p
    BY DEF BandOf, PerBand
  <2> HIDE DEF y, x, base, p, b
  <2> QED BY <1>1, <2>1, <2>2, <2>3
<1>7. act.ub_row \in Nat
  BY ActTypes
<1>8. CASE ~BandEnds(i, s, w)
  <2>1. BandOf(i + 1, s, w) = b
    BY <1>2, <1>3, <1>8, JoinedCounts, 0 \in 0 .. p - 1
  <2>2. ToActivate' = ToActivate
    BY <1>5, <2>1
  <2> QED BY <1>6, <1>8, <2>2 DEF WrittenNow
<1>9. CASE BandEnds(i, s, w)
  <2>1. BandOf(i + 1, s, w) = b + 1
    BY <1>2, <1>3, <1>9, JoinedCounts, 0 \in 0 .. p - 1
  <2>2. /\ WrittenNow(o) <=> slot \in 0 .. p - 1
        /\ o \in ToActivate' => o \in ToActivate
    <3> DEFINE bp == b * p
               out == PooledRows(N, s)
    <3>1. ToActivate = bp .. out - 1 /\ ToActivate' = bp + p .. out - 1
      BY <1>4, <1>5, <2>1
    <3>2. bp \in Nat /\ out \in Nat /\ p \in Nat /\ bp + p <= out
      BY <1>3, <1>4
    <3> HIDE DEF bp, out, p, row
    <3>3. /\ (o \in ToActivate /\ o \notin ToActivate')
               <=> row - (act.ub_row + bp) \in 0 .. p - 1
          /\ o \in ToActivate' => o \in ToActivate
      BY <1>1, <1>7, <3>1, <3>2
    <3> QED BY <3>3 DEF WrittenNow, bp
  <2>3. CASE slot \in 0 .. p - 1
    <3>1. /\ o = (b * p) + slot
      <4> DEFINE bp == b * p
      <4>1. bp \in Nat
        BY <1>4
      <4> HIDE DEF bp, row
      <4>2. row - act.ub_row = bp + (row - (act.ub_row + bp))
        BY <1>1, <1>7, <4>1
      <4> QED BY <4>2 DEF bp
    <3> HIDE DEF slot, o
    <3>2. o \div p = b /\ o % p = slot
      BY <1>2, <2>3, <3>1, RowOfWindow
    <3>3. /\ JoinedBy(i, slot) + One(slot, i, s, w) = s * s
          /\ s * s > 0
      <4>1. s * s \in Nat \ {0}
        BY <1>2, Z3
      <4> QED BY <1>2, <1>9, <2>3, <4>1, JoinedCounts DEF JoinedBy
    <3>4. line'[<<slot, n>>] = JoinedValues(i, slot, n, s * s)
      <4>1. slot \in Windows
        BY <2>3 DEF Windows
      <4> QED BY <1>1, <1>2, <3>3, <4>1, PixelJoins
    <3>5. PendingRow(o, n) =
            <<act.pool, [j \in 1 .. s * s |->
                           ValueAt(Pixel(o \div p, o % p, j, s, w), n)]>>
      BY <1>2, PendingIs
    <3>6. PendingRow(o, n) = <<act.pool, line'[<<slot, n>>]>>
      BY <3>2, <3>4, <3>5 DEF JoinedValues
    <3> QED BY <1>6, <1>9, <2>2, <2>3, <3>6 DEF o, slot
  <2>4. CASE slot \notin 0 .. p - 1
    BY <1>6, <2>2, <2>4
  <2> QED BY <2>3, <2>4
<1> QED BY <1>8, <1>9

LEMMA AdvanceActivationStutters ==
  ASSUME RefInv, RefInv', AdvanceActivation
  PROVE  UNCHANGED <<DrainedUb, DrainedAcc, DrainedHostMem, ActivePlane,
                     TilesWaiting>>
<1>1. ActivePlane' = ActivePlane /\ TilesWaiting' = TilesWaiting
  BY DEF AdvanceActivation, ActivePlane, TilesWaiting
<1>2. DrainedAcc' = DrainedAcc
  BY <1>1, AccStays DEF AdvanceActivation, RefInv
<1>3. DrainedHostMem' = DrainedHostMem
  BY HostReadsStay DEF AdvanceActivation, RefInv
<1>4. CASE UNCHANGED <<act, line, ub>>
  <2>1. DrainedUb' = DrainedUb
    BY <1>4 DEF AdvanceActivation, DrainedUb, ToMove, ToActivate, ActBusy,
                RowsWritten, ActOutRows, PendingRow
  <2> QED BY <1>1, <1>2, <1>3, <2>1
<1>5. CASE ActMoves
  <2>1. ASSUME NEW a \in UbAddrs PROVE UbCell(a)' = UbCell(a)
    <3> DEFINE o == a \div Dim - act.ub_row
    <3>1. UNCHANGED <<acc, hostMem, hif>>
      BY DEF AdvanceActivation
    <3>2. /\ ub'[a] = IF WrittenNow(o) THEN PendingRow(o, a % Dim) ELSE ub[a]
          /\ o \in ToActivate' => o \in ToActivate
      BY <1>5, <3>1, PlainRowWrites, PooledRowWrites DEF ActMoves, RefInv
    <3>3. act'.ub_row = act.ub_row /\ act'.function = act.function
          /\ act'.acc_row = act.acc_row /\ act'.pool = act.pool
          /\ act'.pool_size = act.pool_size /\ act'.pool_width = act.pool_width
          /\ act'.rows_total = act.rows_total
          /\ act'.rows_done = act.rows_done + 1
      BY <1>5, ActTypes DEF ActMoves, RefInv
    <3>4. PendingRow(o, a % Dim)' = PendingRow(o, a % Dim)
      BY <3>1, <3>3 DEF PendingRow
    <3>5. HostWillWrite(a)' <=> HostWillWrite(a)
      BY <3>1 DEF HostWillWrite, ToMove
    <3>6. /\ ActWillWrite(a) <=> o \in ToActivate
          /\ ActWillWrite(a)' <=> o \in ToActivate'
      BY <3>3 DEF ActWillWrite
    <3>8. UbCell(a)' = IF HostWillWrite(a)'
                       THEN hostMem[hif.host_row * Dim
                                      + (a - UbAt(hif.ub_row, 0))]
                       ELSE IF ActWillWrite(a)'
                       THEN PendingRow(o, a % Dim) ELSE ub'[a]
      <4>1. o' = o
        BY <3>3
      <4> QED BY <3>1, <3>3, <3>4 DEF UbCell, UbAt
    <3> HIDE DEF o
    <3>9. UbCell(a) = IF HostWillWrite(a)
                      THEN hostMem[hif.host_row * Dim
                                     + (a - UbAt(hif.ub_row, 0))]
                      ELSE IF o \in ToActivate
                      THEN PendingRow(o, a % Dim) ELSE ub[a]
      BY DEF UbCell, ActWillWrite, o
    <3> QED BY <3>2, <3>5, <3>6, <3>8, <3>9 DEF WrittenNow
  <2>2. DrainedUb' = DrainedUb
    BY <2>1, DrainedStays
  <2> QED BY <1>1, <1>2, <1>3, <2>2
<1> QED BY <1>4, <1>5 DEF AdvanceActivation, ActTick

-----------------------------------------------------------------------------
(* An issue is the instruction's whole effect                                *)

(* The sequential machine's own helpers are those of the memories.           *)
LEMMA SameHelpers ==
  /\ Sequential!UbAddrs = UbAddrs /\ Sequential!HostAddrs = HostAddrs
  /\ Sequential!AccCells = AccCells /\ Sequential!PEs = PEs
  /\ Sequential!Zero = Zero
  /\ \A r, n : Sequential!UbAt(r, n) = UbAt(r, n)
  /\ \A f, s : Sequential!Activated(f, s) = Activated(f, s)
  /\ \A a, b, c : Sequential!Fits(a, b, c) <=> Fits(a, b, c)
  /\ \A n, p, s : Sequential!ActivateOutputRows(n, p, s)
                    = ActivateOutputRows(n, p, s)
  /\ \A o, s, w : Sequential!Window(o, s, w) = Window(o, s, w)
BY DEF Sequential!UbAddrs, UbAddrs, Sequential!HostAddrs, HostAddrs,
       Sequential!AccCells, AccCells, Sequential!PEs, PEs, Sequential!Cols,
       Cols, Sequential!Zero, Zero, Sequential!UbAt, UbAt,
       Sequential!Activated, Activated, Sequential!Fits, Fits,
       Sequential!ActivateOutputRows, ActivateOutputRows,
       Sequential!Window, Window

LEMMA IssueContinues ==
  ASSUME NEW op, NEW ops, Issuing(ops), in.op = op, Issued, UNCHANGED halted,
         Sequential!Possible(in)
  PROVE  Sequential!Current(op) /\ Sequential!Continue
BY DEF Issuing, Ticking, AtInstr, Issued, Advance, Sequential!Current,
       Sequential!Continue, Sequential!CanContinue, Sequential!Operands, in

(* What an idle unit still has to do is nothing.                             *)
LEMMA IdleHost ==
  ASSUME TypeInv, ~HostBusy
  PROVE  ToMove = {} /\ DrainedHostMem = hostMem
<1>1. ToMove = {}
  BY HostTypes DEF ToMove, HostBusy
<1>2. DrainedHostMem = [a \in HostAddrs |-> hostMem[a]]
  BY <1>1, DrainedCells DEF HostCell
<1> QED BY <1>1, <1>2 DEF TypeInv, MemoriesOK, IsMemory

LEMMA IdleArray ==
  ASSUME TypeInv, ~mxu.busy
  PROVE  DrainedAcc = acc
<1>1. DrainedAcc = [c \in AccCells |-> acc[c]]
  BY DrainedCells DEF AccCell, MxuWillWrite
<1> QED BY <1>1 DEF TypeInv, MemoriesOK, IsMemory

LEMMA SteadyUb ==
  ASSUME UNCHANGED <<ub, hostMem, acc, hif, act>>
  PROVE  DrainedUb' = DrainedUb /\ DrainedHostMem' = DrainedHostMem
BY DEF DrainedUb, DrainedHostMem, ToMove, ToActivate, ActBusy, RowsWritten,
       ActOutRows, PendingRow

LEMMA SteadyTiles ==
  ASSUME UNCHANGED <<fifo, shifter, planes>>
  PROVE  ActivePlane' = ActivePlane /\ TilesWaiting' = TilesWaiting
BY DEF ActivePlane, TilesWaiting

LEMMA SteadyAcc ==
  ASSUME RefInv, UNCHANGED <<mxu, acc, ub, shifter, planes>>
  PROVE  DrainedAcc' = DrainedAcc
BY AccStays DEF RefInv, ActivePlane

(* tick() that throws, that stalls, that has halted: nothing happens.        *)
LEMMA QuietStutters ==
  ASSUME RefInv, TickThrows \/ Stalled \/ TickHalted
  PROVE  UNCHANGED Sequential!seqVars
<1>1. UNCHANGED <<memories, units, program, pc, halted>>
  BY DEF TickThrows, PastTheEnd, UnknownOpcode, Deadlock, Refused, Throw,
         Stalled, Advance, TickHalted, vars, machine, control
<1> QED BY <1>1, SteadyUb, SteadyTiles, SteadyAcc
        DEF memories, units, Sequential!seqVars

LEMMA AdvanceStutters ==
  ASSUME RefInv, RefInv', TickAdvances
  PROVE  UNCHANGED Sequential!seqVars
<1>1. UNCHANGED <<program, pc, halted>>
  BY DEF TickAdvances, AdvanceHost, AdvanceFifo, AdvanceShifter, AdvanceArray,
         AdvanceActivation, Step
<1>2. UNCHANGED <<DrainedUb, DrainedAcc, DrainedHostMem, ActivePlane,
                  TilesWaiting>>
  BY AdvanceHostStutters, AdvanceFifoStutters, AdvanceShifterStutters,
     AdvanceArrayStutters, AdvanceActivationStutters DEF TickAdvances
<1> QED BY <1>1, <1>2 DEF Sequential!seqVars

LEMMA NopSyncIssues ==
  ASSUME RefInv, IssueNopOrSync
  PROVE  Sequential!SeqNext
<1>1. in.op \in {"Nop", "Sync"} /\ Issuing({"Nop", "Sync"}) /\ Issued
      /\ UNCHANGED <<memories, units, halted>>
  BY DEF IssueNopOrSync, Issuing
<1>2. Sequential!Possible(in)
  BY <1>1 DEF Sequential!Possible
<1>3. /\ Sequential!Current("Nop") \/ Sequential!Current("Sync")
      /\ Sequential!Continue
  BY <1>1, <1>2, IssueContinues
<1>4. UNCHANGED <<DrainedUb, DrainedAcc, DrainedHostMem, ActivePlane,
                  TilesWaiting>>
  BY <1>1, SteadyUb, SteadyTiles, SteadyAcc DEF memories, units
<1> QED BY <1>3, <1>4 DEF Sequential!SeqNext, Sequential!DoNothing

LEMMA HaltIssues ==
  ASSUME RefInv, IssueHalt
  PROVE  Sequential!SeqNext
<1>1. in.op = "Halt" /\ Issuing({"Halt"}) /\ Issued /\ halted'
      /\ UNCHANGED <<memories, units>> /\ halted' = TRUE
  BY DEF IssueHalt, Issuing
<1>2. Sequential!Possible(in)
  BY <1>1 DEF Sequential!Possible
<1>3. Sequential!Current("Halt") /\ UNCHANGED pc
  BY <1>1, <1>2 DEF Issuing, Ticking, AtInstr, Issued, Advance,
     Sequential!Current, Sequential!CanContinue, Sequential!Operands, in
<1>4. UNCHANGED <<DrainedUb, DrainedAcc, DrainedHostMem, ActivePlane,
                  TilesWaiting>>
  BY <1>1, SteadyUb, SteadyTiles, SteadyAcc DEF memories, units
<1> QED BY <1>1, <1>3, <1>4 DEF Sequential!SeqNext, Sequential!DoHalt

(* A byte of rows copied from one memory to another keeps its place.         *)
LEMMA SamePlace ==
  ASSUME NEW a \in Nat, NEW from \in Nat, NEW to \in Nat, NEW count \in Nat,
         a \div Dim \in to .. to + count - 1
  PROVE  /\ from * Dim + (a - UbAt(to, 0)) = a + (from - to) * Dim
         /\ UbAt(from, 0) + (a - UbAt(to, 0)) = a + (from - to) * Dim
         /\ a + (from - to) * Dim \in Nat
         /\ (a + (from - to) * Dim) \div Dim = (a \div Dim) + (from - to)
<1> DEFINE d == Dim
           q == a \div d
           k == a % d
           x == from * d
           y == to * d
           b == a + (from - to) * d
<1>1. d \in Nat \ {0}
  BY MemoryAssumption
<1>2. q \in Nat /\ k \in 0 .. d - 1 /\ a = (q * d) + k
  BY <1>1, AddressRow DEF UbAt, Cols
<1>3. q \in to .. to + count - 1
  OBVIOUS
<1> HIDE DEF q, k, d
<1>4. /\ (from - to) * d = x - y /\ x \in Nat /\ y \in Nat
      /\ (q + (from - to)) * d = ((q * d) + x) - y
      /\ q * d \in Nat
  BY <1>1, <1>2, Z3
<1>5. b = ((q + (from - to)) * d) + k /\ q + (from - to) \in Nat
  BY <1>1, <1>2, <1>3, <1>4
<1>6. b \in Nat /\ b \div d = q + (from - to)
  <2> DEFINE m == q + (from - to)
  <2>1. m \in Nat /\ d \in Nat \ {0} /\ k \in 0 .. d - 1
    BY <1>1, <1>2, <1>5
  <2> HIDE DEF m
  <2>2. (m * d) + k \in Nat /\ ((m * d) + k) \div d = m
    BY <2>1, DivisionIs
  <2>3. b = (m * d) + k
    BY <1>5 DEF m
  <2> HIDE DEF b
  <2> QED BY <2>2, <2>3 DEF m
<1>7. UbAt(to, 0) = y /\ UbAt(from, 0) = x
  BY <1>4 DEF UbAt, d
<1> HIDE DEF x, y
<1>8. x + (a - y) = a + (x - y)
  BY <1>4
<1> QED BY <1>4, <1>6, <1>7, <1>8 DEF b, x, y, q, d

(* The transfer that has just started has all its rows to move.              *)
LEMMA HostStarts ==
  ASSUME TypeInv, IssueHostTransfer, NEW a \in Nat
  PROVE  /\ a - UbAt(hif'.ub_row, 0) \in ToMove'
              <=> a \div Dim \in in.ub_row .. in.ub_row + in.rows - 1
         /\ a - hif'.host_row * Dim \in ToMove'
              <=> a \div Dim \in in.host_row .. in.host_row + in.rows - 1
         /\ hif'.host_row = in.host_row /\ hif'.ub_row = in.ub_row
         /\ hif'.direction = IF in.op = "ReadHostMemory" THEN "HostToUb"
                             ELSE "UbToHost"
         /\ in.host_row \in Nat /\ in.ub_row \in Nat /\ in.rows \in Nat
<1>1. /\ hif' = [direction |-> IF in.op = "ReadHostMemory" THEN "HostToUb"
                               ELSE "UbToHost",
                 host_row |-> in.host_row, ub_row |-> in.ub_row,
                 rows |-> in.rows, bytes_done |-> 0]
  BY DEF IssueHostTransfer, HostStart
<1>2. in \in Instr
  BY InType DEF IssueHostTransfer, Issuing, TypeInv, IssueOK
<1>3. in.host_row \in Nat /\ in.ub_row \in Nat /\ in.rows \in Nat
  BY <1>2 DEF Instr
<1>4. ToMove' = 0 .. in.rows * Dim - 1
  BY <1>1 DEF ToMove
<1>5. /\ a - UbAt(in.ub_row, 0) \in 0 .. in.rows * Dim - 1
           <=> a \div Dim \in in.ub_row .. in.ub_row + in.rows - 1
      /\ a - UbAt(in.host_row, 0) \in 0 .. in.rows * Dim - 1
           <=> a \div Dim \in in.host_row .. in.host_row + in.rows - 1
  BY <1>3, BytesOfRows
<1>6. UbAt(in.host_row, 0) = in.host_row * Dim
  <2>1. in.host_row * Dim \in Nat
    BY <1>3, ProductNat, MemoryAssumption
  <2> QED BY <2>1 DEF UbAt
<1> QED BY <1>1, <1>3, <1>4, <1>5, <1>6

LEMMA TransferIsPossible ==
  ASSUME IssueHostTransfer
  PROVE  Sequential!Possible(in)
BY SameHelpers
   DEF IssueHostTransfer, Issuing, Accepts, HostAccepts, Sequential!Possible

LEMMA ReadHostIssues ==
  ASSUME RefInv, IssueHostTransfer, in.op = "ReadHostMemory"
  PROVE  Sequential!SeqNext
<1>1. /\ Issuing({"ReadHostMemory", "WriteHostMemory"}) /\ Issued
      /\ UNCHANGED <<acc, fifo, planes, shifter, mxu, grid, act, line, halted,
                     ub, hostMem>>
      /\ ~HostBusy
  BY DEF IssueHostTransfer, HostStart, HostAccepts
<1>2. Sequential!Current("ReadHostMemory") /\ Sequential!Continue
  BY <1>1, IssueContinues, TransferIsPossible
<1>3. UNCHANGED <<DrainedAcc, ActivePlane, TilesWaiting>>
  BY <1>1, SteadyTiles, SteadyAcc
<1>4. ToMove = {} /\ DrainedHostMem = hostMem
  BY <1>1, IdleHost DEF RefInv
<1>5. DrainedHostMem' = DrainedHostMem
  <2>1. ASSUME NEW a \in HostAddrs PROVE HostCell(a)' = HostCell(a)
    <3>1. hif'.direction = "HostToUb" /\ a \in Nat
      BY HostStarts, AddressTypes DEF RefInv
    <3> QED BY <1>1, <1>4, <3>1 DEF HostCell
  <2> QED BY <2>1, DrainedStays
<1>6. DrainedUb' = Sequential!CopiedRows(DrainedUb, in.ub_row, DrainedHostMem,
                                         in.host_row, in.rows)
  <2> DEFINE into(a) == a \div Dim \in in.ub_row .. in.ub_row + in.rows - 1
             old(a) == IF ActWillWrite(a)
                       THEN PendingRow(a \div Dim - act.ub_row, a % Dim)
                       ELSE ub[a]
  <2>1. ASSUME NEW a \in UbAddrs
        PROVE  /\ UbCell(a) = old(a)
               /\ UbCell(a)' = IF into(a)
                               THEN hostMem[a + (in.host_row - in.ub_row) * Dim]
                               ELSE old(a)
    <3>1. UbCell(a) = old(a)
      BY <1>4 DEF UbCell, HostWillWrite
    <3>2. a \in Nat
      BY AddressTypes DEF RefInv
    <3>3. /\ HostWillWrite(a)' <=> into(a)
          /\ hif'.host_row = in.host_row /\ hif'.ub_row = in.ub_row
          /\ in.host_row \in Nat /\ in.ub_row \in Nat /\ in.rows \in Nat
      BY <3>2, HostStarts DEF HostWillWrite, RefInv
    <3>4. UbCell(a)' = IF HostWillWrite(a)'
                       THEN hostMem[in.host_row * Dim
                                      + (a - UbAt(in.ub_row, 0))]
                       ELSE old(a)
      BY <1>1, <3>3 DEF UbCell, ActWillWrite, ToActivate, ActBusy, RowsWritten,
         ActOutRows, PendingRow
    <3>5. into(a) => in.host_row * Dim + (a - UbAt(in.ub_row, 0))
                       = a + (in.host_row - in.ub_row) * Dim
      BY <3>2, <3>3, SamePlace
    <3> HIDE DEF into, old
    <3> QED BY <3>1, <3>3, <3>4, <3>5
  <2>2. /\ DrainedUb = [a \in UbAddrs |-> old(a)]
        /\ DrainedUb' = [a \in UbAddrs |->
              IF into(a) THEN hostMem[a + (in.host_row - in.ub_row) * Dim]
              ELSE old(a)]
    <3>1. DrainedUb' = [a \in UbAddrs |-> UbCell(a)']
      BY NextCells
    <3> HIDE DEF into, old
    <3> QED BY <2>1, <3>1, DrainedCells
  <2> HIDE DEF old
  <2> QED BY <1>4, <2>2 DEF Sequential!CopiedRows
<1> QED BY <1>2, <1>3, <1>5, <1>6
        DEF Sequential!SeqNext, Sequential!DoReadHost, Sequential!Operands, in

LEMMA WriteHostIssues ==
  ASSUME RefInv, IssueHostTransfer, in.op = "WriteHostMemory"
  PROVE  Sequential!SeqNext
<1>1. /\ Issuing({"ReadHostMemory", "WriteHostMemory"}) /\ Issued
      /\ UNCHANGED <<acc, fifo, planes, shifter, mxu, grid, act, line, halted,
                     ub, hostMem>>
      /\ ~HostBusy /\ ~ActWritesUbRows(in.ub_row, in.rows)
      /\ Fits(in.ub_row, in.rows, UbRows)
  BY DEF IssueHostTransfer, HostStart, HostAccepts, Issuing, WhyBlocked,
         BlockedWriteHost
<1>2. Sequential!Current("WriteHostMemory") /\ Sequential!Continue
  BY <1>1, IssueContinues, TransferIsPossible
<1>3. UNCHANGED <<DrainedAcc, ActivePlane, TilesWaiting>>
  BY <1>1, SteadyTiles, SteadyAcc
<1>4. ToMove = {} /\ DrainedHostMem = hostMem
  BY <1>1, IdleHost DEF RefInv
<1>5. DrainedUb' = DrainedUb
  <2>1. ASSUME NEW a \in UbAddrs PROVE UbCell(a)' = UbCell(a)
    <3>1. hif'.direction = "UbToHost" /\ a \in Nat
      BY HostStarts, AddressTypes DEF RefInv
    <3>2. ~HostWillWrite(a) /\ ~HostWillWrite(a)'
      BY <1>4, <3>1 DEF HostWillWrite
    <3> QED BY <1>1, <3>2 DEF UbCell, ActWillWrite, ToActivate, ActBusy,
               RowsWritten, ActOutRows, PendingRow
  <2> QED BY <2>1, DrainedStays
<1>6. DrainedHostMem' = Sequential!CopiedRows(DrainedHostMem, in.host_row,
                                              DrainedUb, in.ub_row, in.rows)
  <2> DEFINE into(a) == a \div Dim \in in.host_row .. in.host_row + in.rows - 1
             source(a) == a + (in.ub_row - in.host_row) * Dim
  <2>1. ASSUME NEW a \in HostAddrs
        PROVE  HostCell(a)' = IF into(a) THEN DrainedUb[source(a)]
                              ELSE hostMem[a]
    <3>1. a \in Nat
      BY AddressTypes DEF RefInv
    <3>2. /\ a - hif'.host_row * Dim \in ToMove' <=> into(a)
          /\ hif'.direction = "UbToHost"
          /\ hif'.host_row = in.host_row /\ hif'.ub_row = in.ub_row
          /\ in.host_row \in Nat /\ in.ub_row \in Nat /\ in.rows \in Nat
      BY <3>1, HostStarts DEF RefInv
    <3>3. HostCell(a)' = IF into(a)
                         THEN ub[UbAt(in.ub_row, 0)
                                   + (a - in.host_row * Dim)]
                         ELSE hostMem[a]
      BY <1>1, <3>2 DEF HostCell
    <3>4. ASSUME into(a)
          PROVE  DrainedUb[source(a)]
                   = ub[UbAt(in.ub_row, 0) + (a - in.host_row * Dim)]
      <4>1. /\ UbAt(in.ub_row, 0) + (a - UbAt(in.host_row, 0)) = source(a)
            /\ source(a) \in Nat
            /\ source(a) \div Dim = (a \div Dim) + (in.ub_row - in.host_row)
        BY <3>1, <3>2, <3>4, SamePlace, ZenonT(60)
      <4>2. UbAt(in.host_row, 0) = in.host_row * Dim
        <5>1. in.host_row * Dim \in Nat
          BY <3>2, ProductNat, MemoryAssumption
        <5> QED BY <5>1 DEF UbAt
      <4> DEFINE row == source(a) \div Dim
      <4>3. row \in in.ub_row .. in.ub_row + in.rows - 1 /\ row < UbRows
        <5>1. a \div Dim \in Nat
          BY <3>1, AddressRow
        <5> HIDE DEF source
        <5> QED BY <1>1, <3>2, <3>4, <4>1, <5>1, MemoryAssumption DEF Fits
      <4>4. source(a) \in UbAddrs
        BY <4>1, <4>3, AddressRow, UbRowAt
      <4>5. ~ActWillWrite(source(a))
        <5> HIDE DEF source
        <5>1. /\ ToActivate = RowsWritten .. ActOutRows - 1
              /\ RowsWritten \in Nat /\ ActOutRows \in Nat
              /\ act.ub_row \in Nat
          BY ToActivateIs, ActTypes DEF RefInv
        <5>2. ToActivate # {} => ActBusy
          BY DEF ToActivate
        <5>0. in.ub_row \in Nat /\ in.rows \in Nat
              /\ row \in in.ub_row .. in.ub_row + in.rows - 1
          BY <3>2, <4>3
        <5> HIDE DEF row
        <5>3. row - act.ub_row \in ToActivate
                => Overlap(act.ub_row, ActOutRows, in.ub_row, in.rows)
          <6>1. SUFFICES
                  ASSUME row - act.ub_row \in RowsWritten .. ActOutRows - 1
                  PROVE  Overlap(act.ub_row, ActOutRows, in.ub_row, in.rows)
            BY <5>1
          <6>2. /\ row \in Int /\ row >= in.ub_row
                /\ row < in.ub_row + in.rows /\ in.rows > 0
            BY ONLY <5>0
          <6>3. /\ row >= act.ub_row /\ row < act.ub_row + ActOutRows
                /\ ActOutRows > 0
            BY ONLY <5>1, <6>1, <6>2
          <6> QED BY ONLY <5>0, <5>1, <6>2, <6>3 DEF Overlap
        <5> QED BY <1>1, <5>2, <5>3 DEF ActWritesUbRows, ActWillWrite, row
      <4>6. UbCell(source(a)) = ub[source(a)]
        BY <1>4, <4>5 DEF UbCell, HostWillWrite
      <4> HIDE DEF source
      <4>7. DrainedUb[source(a)] = ub[source(a)]
        BY <4>4, <4>6, DrainedCells
      <4> QED BY <4>1, <4>2, <4>7
    <3> HIDE DEF into, source
    <3> QED BY <3>3, <3>4
  <2>2. DrainedHostMem' = [a \in HostAddrs |->
                             IF into(a) THEN DrainedUb[source(a)]
                             ELSE hostMem[a]]
    <3>1. DrainedHostMem' = [a \in HostAddrs |-> HostCell(a)']
      BY NextCells
    <3> HIDE DEF into, source
    <3> QED BY <2>1, <3>1
  <2>3. DrainedHostMem = hostMem /\ DOMAIN hostMem = HostAddrs
    BY <1>4 DEF RefInv, TypeInv, MemoriesOK, IsMemory
  <2> QED BY <2>2, <2>3 DEF Sequential!CopiedRows
<1> QED BY <1>2, <1>3, <1>5, <1>6
        DEF Sequential!SeqNext, Sequential!DoWriteHost, Sequential!Operands, in

(* A tile pushed into the FIFO is the last one waiting.                      *)
LEMMA TilesOfAppend ==
  ASSUME NEW q \in Seq(FifoTile), NEW e \in FifoTile
  PROVE  LET tiles == [i \in DOMAIN q |-> q[i].tile]
             more == Append(q, e)
         IN  /\ tiles \in Seq(Nat) /\ Len(tiles) = Len(q)
             /\ [i \in DOMAIN more |-> more[i].tile] = Append(tiles, e.tile)
<1> DEFINE tiles == [i \in DOMAIN q |-> q[i].tile]
           more == Append(q, e)
<1>1. Len(q) \in Nat /\ DOMAIN q = 1 .. Len(q) /\ e.tile \in Nat
      /\ \A i \in 1 .. Len(q) : q[i].tile \in Nat
  <2>1. \A i \in 1 .. Len(q) : q[i] \in FifoTile
    BY LenProperties
  <2> QED BY <2>1, LenProperties DEF FifoTile
<1>2. tiles \in Seq(Nat) /\ Len(tiles) = Len(q)
  BY <1>1
<1>3. /\ more \in Seq(FifoTile) /\ Len(more) = Len(q) + 1
      /\ \A i \in 1 .. Len(q) : more[i] = q[i]
      /\ more[Len(q) + 1] = e /\ DOMAIN more = 1 .. Len(q) + 1
  <2>1. /\ more \in Seq(FifoTile) /\ Len(more) = Len(q) + 1
        /\ \A i \in 1 .. Len(q) : more[i] = q[i]
        /\ more[Len(q) + 1] = e
    BY AppendProperties
  <2> QED BY <2>1, LenProperties
<1>4. /\ Append(tiles, e.tile) \in Seq(Nat)
      /\ Len(Append(tiles, e.tile)) = Len(q) + 1
      /\ \A i \in 1 .. Len(q) : Append(tiles, e.tile)[i] = tiles[i]
      /\ Append(tiles, e.tile)[Len(q) + 1] = e.tile
  <2> HIDE DEF tiles
  <2> QED BY <1>1, <1>2, AppendProperties
<1>5. Append(tiles, e.tile) = [i \in 1 .. Len(q) + 1 |->
                                 Append(tiles, e.tile)[i]]
  <2> DEFINE t == Append(tiles, e.tile)
  <2>1. t \in Seq(Nat) /\ Len(t) = Len(q) + 1
    BY <1>4
  <2> HIDE DEF t
  <2>2. t = [i \in 1 .. Len(q) + 1 |-> t[i]]
    BY <2>1, LenProperties
  <2> QED BY <2>2 DEF t
<1>6. \A i \in 1 .. Len(q) + 1 : more[i].tile = Append(tiles, e.tile)[i]
  <2> SUFFICES ASSUME NEW i \in 1 .. Len(q) + 1
               PROVE  more[i].tile = Append(tiles, e.tile)[i]
    OBVIOUS
  <2>1. CASE i = Len(q) + 1
    <3> HIDE DEF more, tiles
    <3> QED BY <1>3, <1>4, <2>1
  <2>2. CASE i # Len(q) + 1
    <3>1. i \in 1 .. Len(q)
      BY <1>1, <2>2
    <3>2. tiles[i] = q[i].tile
      BY <1>1, <3>1
    <3> HIDE DEF more, tiles
    <3> QED BY <1>3, <1>4, <3>1, <3>2
  <2> QED BY <2>1, <2>2
<1>7. [i \in DOMAIN more |-> more[i].tile]
        = [i \in 1 .. Len(q) + 1 |-> Append(tiles, e.tile)[i]]
  <2> HIDE DEF more, tiles
  <2> QED BY <1>3, <1>6
<1> HIDE DEF more
<1> QED BY <1>2, <1>5, <1>7 DEF more

(* The shadow plane's tile first, then the FIFO's.                           *)
LEMMA ThenAppend ==
  ASSUME NEW S, NEW s \in Seq(S), NEW t \in Seq(S), NEW e \in S
  PROVE  s \o Append(t, e) = Append(s \o t, e)
<1> DEFINE l == s \o Append(t, e)
           r == Append(s \o t, e)
           n == Len(s)
           m == Len(t)
<1>1. n \in Nat /\ m \in Nat
  BY LenProperties
<1>2. /\ Append(t, e) \in Seq(S) /\ Len(Append(t, e)) = m + 1
      /\ \A i \in 1 .. m : Append(t, e)[i] = t[i]
      /\ Append(t, e)[m + 1] = e
  BY AppendProperties
<1>3. /\ s \o t \in Seq(S) /\ Len(s \o t) = n + m
      /\ \A i \in 1 .. n + m :
           (s \o t)[i] = IF i <= n THEN s[i] ELSE t[i - n]
  BY ConcatProperties
<1>4. /\ l \in Seq(S) /\ Len(l) = n + (m + 1)
      /\ \A i \in 1 .. n + (m + 1) :
           l[i] = IF i <= n THEN s[i] ELSE Append(t, e)[i - n]
  BY <1>2, ConcatProperties
<1>5. /\ r \in Seq(S) /\ Len(r) = n + m + 1
      /\ \A i \in 1 .. n + m : r[i] = (s \o t)[i]
      /\ r[n + m + 1] = e
  BY <1>3, AppendProperties
<1> HIDE DEF l, r, n, m
<1>6. ASSUME NEW i \in 1 .. n + m + 1
      PROVE  l[i] = r[i]
  <2>1. CASE i <= n
    <3>1. i \in 1 .. n + m /\ i \in 1 .. n + (m + 1)
      BY <1>1, <2>1
    <3>2. l[i] = s[i]
      BY <1>4, <2>1, <3>1
    <3>3. r[i] = s[i]
      BY <1>3, <1>5, <2>1, <3>1
    <3> QED BY <3>2, <3>3
  <2>2. CASE i > n /\ i < n + m + 1
    <3>1. i - n \in 1 .. m /\ i \in 1 .. n + m /\ ~(i <= n)
          /\ i \in 1 .. n + (m + 1)
      BY <1>1, <2>2
    <3>2. l[i] = Append(t, e)[i - n]
      BY <1>4, <3>1
    <3>3. Append(t, e)[i - n] = t[i - n]
      BY <1>2, <3>1
    <3>4. r[i] = t[i - n]
      BY <1>3, <1>5, <3>1
    <3> QED BY <3>2, <3>3, <3>4
  <2>3. CASE i = n + m + 1
    <3>1. i - n = m + 1 /\ ~(i <= n) /\ i \in 1 .. n + (m + 1)
      BY <1>1, <2>3
    <3>2. l[i] = Append(t, e)[m + 1]
      BY <1>4, <3>1
    <3>3. r[i] = e
      BY <1>5, <2>3
    <3> QED BY <1>2, <3>2, <3>3
  <2> QED BY <1>1, <2>1, <2>2, <2>3
<1>7. l = [i \in 1 .. n + m + 1 |-> l[i]] /\ r = [i \in 1 .. n + m + 1 |-> r[i]]
  BY <1>1, <1>4, <1>5, LenProperties
<1>8. l = r
  BY <1>6, <1>7
<1> QED BY <1>8 DEF l, r

FirstTile ==
  IF shifter.shadow_full THEN <<shifter.shadow_tile>> ELSE << >>
FifoTiles == [i \in DOMAIN fifo |-> fifo[i].tile]

LEMMA TilesWaitingIs ==
  ASSUME RefInv
  PROVE  /\ TilesWaiting = FirstTile \o FifoTiles
         /\ FirstTile \in Seq(Int) /\ FifoTiles \in Seq(Int)
         /\ Len(FirstTile) = IF shifter.shadow_full THEN 1 ELSE 0
         /\ Len(FifoTiles) = Len(fifo) /\ Len(fifo) \in Nat
         /\ Len(TilesWaiting) = Len(FirstTile) + Len(FifoTiles)
         /\ shifter.shadow_full =>
              /\ Len(TilesWaiting) > 0
              /\ Head(TilesWaiting) = shifter.shadow_tile
              /\ Tail(TilesWaiting) = FifoTiles
<1> DEFINE both == FirstTile \o FifoTiles
<1>1. fifo \in Seq(FifoTile) /\ shifter.shadow_full \in BOOLEAN
      /\ shifter.shadow_tile \in Int
  BY ShifterTypes DEF RefInv
<1>2. Len(fifo) \in Nat /\ DOMAIN fifo = 1 .. Len(fifo)
      /\ \A i \in 1 .. Len(fifo) : fifo[i].tile \in Int
  <2>1. \A i \in 1 .. Len(fifo) : fifo[i] \in FifoTile
    BY <1>1, LenProperties
  <2> QED BY <1>1, <2>1, LenProperties DEF FifoTile
<1>3. FifoTiles \in Seq(Int) /\ Len(FifoTiles) = Len(fifo)
  BY <1>2 DEF FifoTiles
<1>4. /\ FirstTile \in Seq(Int)
      /\ Len(FirstTile) = IF shifter.shadow_full THEN 1 ELSE 0
  BY <1>1 DEF FirstTile
<1>5. shifter.shadow_full => FirstTile[1] = shifter.shadow_tile
  BY DEF FirstTile
<1>6. TilesWaiting = both /\ TilesWaiting = FirstTile \o FifoTiles
  BY DEF TilesWaiting, FirstTile, FifoTiles
<1>7. /\ both \in Seq(Int) /\ Len(both) = Len(FirstTile) + Len(FifoTiles)
      /\ \A i \in 1 .. Len(FirstTile) + Len(FifoTiles) :
           both[i] = IF i <= Len(FirstTile) THEN FirstTile[i]
                     ELSE FifoTiles[i - Len(FirstTile)]
  BY <1>3, <1>4, ConcatProperties, ZenonT(60)
<1> HIDE DEF both
<1>8. ASSUME shifter.shadow_full
      PROVE  /\ Len(both) > 0 /\ Head(both) = shifter.shadow_tile
             /\ Tail(both) = FifoTiles
  <2>1. Len(FirstTile) = 1 /\ Len(both) = Len(fifo) + 1
    BY <1>2, <1>3, <1>4, <1>7, <1>8
  <2>2. both # << >> /\ both[1] = shifter.shadow_tile
    BY <1>2, <1>3, <1>5, <1>7, <1>8, <2>1, EmptySeq
  <2>3. /\ Head(both) = both[1] /\ Tail(both) \in Seq(Int)
        /\ Len(Tail(both)) = Len(fifo)
        /\ \A i \in 1 .. Len(fifo) : Tail(both)[i] = both[i + 1]
    BY <1>2, <1>7, <2>1, <2>2, HeadTailProperties
  <2>4. \A i \in 1 .. Len(fifo) : both[i + 1] = FifoTiles[i]
    <3> SUFFICES ASSUME NEW i \in 1 .. Len(fifo)
                 PROVE  both[i + 1] = FifoTiles[i]
      OBVIOUS
    <3>1. /\ i + 1 \in 1 .. Len(FirstTile) + Len(FifoTiles)
          /\ ~(i + 1 <= Len(FirstTile))
          /\ (i + 1) - Len(FirstTile) = i
      BY <1>2, <1>3, <2>1
    <3> QED BY <1>7, <3>1
  <2>5. /\ Tail(both) = [i \in 1 .. Len(fifo) |-> Tail(both)[i]]
        /\ FifoTiles = [i \in 1 .. Len(fifo) |-> FifoTiles[i]]
    <3> DEFINE t == Tail(both)
    <3>1. t \in Seq(Int) /\ Len(t) = Len(fifo)
      BY <2>3
    <3> HIDE DEF t
    <3>2. t = [i \in 1 .. Len(fifo) |-> t[i]]
      BY <3>1, LenProperties
    <3> QED BY <1>3, <3>2, LenProperties DEF t
  <2>6. Tail(both) = FifoTiles
    BY <2>3, <2>4, <2>5
  <2> QED BY <1>2, <2>1, <2>2, <2>3, <2>6
<1> QED BY <1>2, <1>3, <1>4, <1>6, <1>7, <1>8

LEMMA ReadWeightsIssues ==
  ASSUME RefInv, IssueReadWeights
  PROVE  Sequential!SeqNext
<1> DEFINE entry == [tile |-> in.tile, bytes_arrived |-> 0]
<1>1. /\ Issuing({"ReadWeights"}) /\ Issued /\ in.op = "ReadWeights"
      /\ UNCHANGED <<memories, hif, planes, shifter, mxu, grid, act, line,
                     halted>>
      /\ Len(fifo) < Slots /\ in.tile < TileCount
      /\ fifo' = Append(fifo, entry)
  <2>1. ~FifoFull => Len(fifo) < Slots
    BY ShifterTypes, FifoAssumption, LenProperties DEF FifoFull, RefInv
  <2> QED BY <2>1 DEF IssueReadWeights, Issuing, FifoPush, FifoAccepts
<1>2. /\ TilesWaiting = FirstTile \o FifoTiles /\ FirstTile \in Seq(Int)
      /\ FifoTiles \in Seq(Int) /\ Len(TilesWaiting) <= Slots
  <2>1. /\ TilesWaiting = FirstTile \o FifoTiles /\ FirstTile \in Seq(Int)
        /\ FifoTiles \in Seq(Int) /\ Len(FifoTiles) = Len(fifo)
        /\ Len(FirstTile) = IF shifter.shadow_full THEN 1 ELSE 0
        /\ Len(TilesWaiting) = Len(FirstTile) + Len(FifoTiles)
        /\ Len(fifo) \in Nat
    BY TilesWaitingIs
  <2>2. Len(FirstTile) <= 1 /\ Len(FirstTile) \in Nat
    BY <2>1
  <2> QED BY <1>1, <2>1, <2>2, FifoAssumption
<1>3. Sequential!Possible(in)
  BY <1>1, <1>2 DEF Sequential!Possible
<1>4. Sequential!Current("ReadWeights") /\ Sequential!Continue
  BY <1>1, <1>3, IssueContinues
<1>5. UNCHANGED <<DrainedUb, DrainedHostMem, DrainedAcc, ActivePlane>>
  BY <1>1, SteadyUb, SteadyAcc DEF memories, ActivePlane
<1>6. TilesWaiting' = Append(TilesWaiting, in.tile)
  <2>1. in.tile \in Nat
    <3>1. in \in Instr
      BY <1>1, InType DEF Issuing, RefInv, TypeInv, IssueOK
    <3> QED BY <3>1 DEF Instr
  <2>2. entry \in FifoTile /\ fifo \in Seq(FifoTile) /\ entry.tile = in.tile
    BY <2>1, ShifterTypes DEF FifoTile, RefInv
  <2> HIDE DEF entry
  <2>3. [i \in DOMAIN Append(fifo, entry) |-> Append(fifo, entry)[i].tile]
          = Append(FifoTiles, in.tile)
    BY <2>2, TilesOfAppend DEF FifoTiles
  <2>4. TilesWaiting' = FirstTile \o Append(FifoTiles, in.tile)
    <3>1. TilesWaiting' = FirstTile \o [i \in DOMAIN fifo' |-> fifo'[i].tile]
      BY <1>1 DEF TilesWaiting, FirstTile
    <3> QED BY <1>1, <2>3, <3>1
  <2>5. FirstTile \o Append(FifoTiles, in.tile)
          = Append(FirstTile \o FifoTiles, in.tile)
    <3>1. in.tile \in Int
      BY <2>1
    <3> QED BY <1>2, <3>1, ThenAppend
  <2> QED BY <1>2, <2>4, <2>5
<1> QED BY <1>4, <1>5, <1>6
        DEF Sequential!SeqNext, Sequential!DoReadWeights, Sequential!Operands,
            in

LEMMA CurrentType ==
  ASSUME RefInv, NEW ops, Issuing(ops)
  PROVE  /\ in \in Instr /\ Encodable(in)
         /\ in.ub_row \in Nat /\ in.acc_row \in Nat /\ in.rows \in Nat
         /\ in.pool_size \in Nat /\ in.pool_width \in Nat
         /\ in.new_weights \in BOOLEAN /\ in.accumulate \in BOOLEAN
<1>1. in \in Instr
  BY InType DEF Issuing, RefInv, TypeInv, IssueOK
<1>2. Encodable(in)
  <2>1. program \in Programs /\ pc \in Nat /\ program \in Seq(Instr)
        /\ pc < Len(program)
    BY DEF Issuing, AtInstr, RefInv, PoolInv, TypeInv, IssueOK
  <2>2. pc + 1 \in DOMAIN program
    BY <2>1, LenProperties
  <2> QED BY <2>1, <2>2, ProgramAssumption DEF in
<1> QED BY <1>1, <1>2 DEF Instr

(* A Unified Buffer row no unit in flight is to write is already what it     *)
(* will be.                                                                  *)
LEMMA SettledRow ==
  ASSUME RefInv, NEW first \in Nat, NEW count \in Nat,
         ~HostWritesUbRows(first, count), ~ActWritesUbRows(first, count),
         NEW row \in first .. first + count - 1, row < UbRows,
         NEW k \in Cols
  PROVE  DrainedUb[UbAt(row, k)] = ub[UbAt(row, k)]
<1> DEFINE a == UbAt(row, k)
<1>1. row \in Nat /\ a \in Nat /\ a \in UbAddrs /\ a \div Dim = row
  BY UbRowAt
<1> HIDE DEF a
<1>2. ~HostWillWrite(a)
  <2>1. SUFFICES ASSUME HostWillWrite(a) PROVE FALSE
    OBVIOUS
  <2>2. hif.ub_row \in Nat /\ hif.rows \in Nat
    BY HostTypes DEF RefInv
  <2>3. /\ hif.direction = "HostToUb"
        /\ a - UbAt(hif.ub_row, 0) \in ToMove
    BY <2>1 DEF HostWillWrite
  <2>4. HostBusy /\ a - UbAt(hif.ub_row, 0) \in 0 .. hif.rows * Dim - 1
    BY <2>3, HostTypes DEF ToMove, HostBusy, RefInv
  <2>5. row \in hif.ub_row .. hif.ub_row + hif.rows - 1
    BY <1>1, <2>2, <2>4, BytesOfRows
  <2>6. Overlap(first, count, hif.ub_row, hif.rows)
    BY <2>2, <2>5 DEF Overlap
  <2> QED BY <2>3, <2>4, <2>6 DEF HostWritesUbRows
<1>3. ~ActWillWrite(a)
  <2>1. SUFFICES ASSUME ActWillWrite(a) PROVE FALSE
    OBVIOUS
  <2>2. /\ ToActivate = RowsWritten .. ActOutRows - 1
        /\ RowsWritten \in Nat /\ ActOutRows \in Nat /\ act.ub_row \in Nat
    BY ToActivateIs, ActTypes DEF RefInv
  <2>3. row - act.ub_row \in ToActivate /\ ActBusy
    BY <1>1, <2>1 DEF ActWillWrite, ToActivate
  <2>4. Overlap(act.ub_row, ActOutRows, first, count)
    BY <1>1, <2>2, <2>3 DEF Overlap
  <2> QED BY <2>3, <2>4 DEF ActWritesUbRows
<1>4. UbCell(a) = ub[a]
  BY <1>2, <1>3 DEF UbCell
<1> QED BY <1>1, <1>4, DrainedCells DEF a

LEMMA MultiplyIssues ==
  ASSUME RefInv, IssueMatrixMultiply
  PROVE  Sequential!SeqNext
<1>1. /\ Issuing({"MatrixMultiply"}) /\ Issued /\ in.op = "MatrixMultiply"
      /\ UNCHANGED <<ub, hostMem, hif, act, halted, planes, fifo, acc>>
      /\ ~mxu.busy
      /\ in.new_weights => shifter.shadow_full
      /\ Fits(in.ub_row, in.rows, UbRows) /\ Fits(in.acc_row, in.rows, AccRows)
      /\ (in.new_weights /\ SwitchPlanes)
           \/ (~in.new_weights /\ UNCHANGED shifter)
      /\ mxu' = [busy |-> in.rows > 0, ub_row |-> in.ub_row,
                 acc_row |-> in.acc_row, rows |-> in.rows,
                 accumulate |-> in.accumulate, step |-> 0]
  BY DEF IssueMatrixMultiply, Issuing, MxuStart, MxuAccepts
<1>2. /\ ~HostWritesUbRows(in.ub_row, in.rows)
      /\ ~ActWritesUbRows(in.ub_row, in.rows)
  BY <1>1 DEF Issuing, WhyBlocked, BlockedMatrixMultiply
<1>3. /\ in.ub_row \in Nat /\ in.acc_row \in Nat /\ in.rows \in Nat
      /\ in.new_weights \in BOOLEAN /\ Dim \in Nat \ {0} /\ UbRows \in Nat
  BY <1>1, CurrentType, MemoryAssumption
<1>4. Sequential!Possible(in)
  BY <1>1, TilesWaitingIs, SameHelpers DEF Sequential!Possible
<1>5. Sequential!Current("MatrixMultiply") /\ Sequential!Continue
  BY <1>1, <1>4, IssueContinues
<1>6. UNCHANGED <<DrainedUb, DrainedHostMem>>
  BY <1>1, SteadyUb
<1>7. \/ /\ in.new_weights
         /\ TilesWaiting' = Tail(TilesWaiting)
         /\ ActivePlane' = [pe \in PEs |-> <<"weight", Head(TilesWaiting),
                                            pe[1] * Dim + pe[2]>>]
      \/ ~in.new_weights /\ UNCHANGED <<ActivePlane, TilesWaiting>>
  <2>1. CASE in.new_weights
    <3>1. shifter.shadow_full /\ SwitchPlanes
      BY <1>1, <2>1
    <3>2. TilesWaiting' = FifoTiles
      <4>1. TilesWaiting' = << >> \o FifoTiles
        BY <1>1, <3>1 DEF TilesWaiting, FifoTiles, SwitchPlanes
      <4> QED BY <4>1, TilesWaitingIs, ConcatEmptySeq
    <3>3. TilesWaiting' = Tail(TilesWaiting)
          /\ Head(TilesWaiting) = shifter.shadow_tile
      BY <3>1, <3>2, TilesWaitingIs
    <3>4. ActivePlane' = planes[ShadowPlane]
      BY <1>1, <3>1 DEF ActivePlane, SwitchPlanes
    <3>5. planes[ShadowPlane]
            = [pe \in PEs |-> <<"weight", shifter.shadow_tile,
                                pe[1] * Dim + pe[2]>>]
      <4>1. planes[ShadowPlane] = [pe \in PEs |-> planes[ShadowPlane][pe]]
        BY ShifterTypes DEF RefInv, IsMemory
      <4>2. ASSUME NEW pe \in PEs
            PROVE  planes[ShadowPlane][pe]
                     = <<"weight", shifter.shadow_tile, pe[1] * Dim + pe[2]>>
        <5>1. PICK k \in Cols, n \in Cols : pe = <<k, n>>
          BY DEF PEs
        <5>2. k < shifter.rows_shifted
          BY <1>3, <3>1 DEF RefInv, TilesInv, Cols
        <5>3. ShadowTile(k)
          BY <5>2 DEF RefInv, TilesInv
        <5> QED BY <5>1, <5>3 DEF ShadowTile
      <4> QED BY <4>1, <4>2
    <3> QED BY <2>1, <3>3, <3>4, <3>5
  <2>2. CASE ~in.new_weights
    <3>1. ActivePlane' = ActivePlane /\ TilesWaiting' = TilesWaiting
      BY <1>1, <2>2, SteadyTiles
    <3> QED BY <2>2, <3>1
  <2> QED BY <1>3, <2>1, <2>2
<1>8. DrainedAcc' =
         [c \in AccCells |->
            LET r == c[1] - in.acc_row
            IN  IF r \in 0 .. in.rows - 1
                THEN (IF in.accumulate THEN DrainedAcc[c] ELSE << >>)
                       \o [j \in 1 .. Dim |->
                             <<DrainedUb[UbAt(in.ub_row + r, j - 1)],
                               ActivePlane'[<<j - 1, c[2]>>]>>]
                ELSE DrainedAcc[c]]
  <2>1. DrainedAcc = acc
    BY <1>1, IdleArray DEF RefInv
  <2>2. ASSUME NEW c \in AccCells
        PROVE  LET r == c[1] - in.acc_row
               IN  AccCell(c)' =
                     IF r \in 0 .. in.rows - 1
                     THEN (IF in.accumulate THEN acc[c] ELSE << >>)
                            \o [j \in 1 .. Dim |->
                                  <<DrainedUb[UbAt(in.ub_row + r, j - 1)],
                                    ActivePlane'[<<j - 1, c[2]>>]>>]
                     ELSE acc[c]
    <3> DEFINE r == c[1] - in.acc_row
               was == IF in.accumulate THEN acc[c] ELSE << >>
               now == [j \in 1 .. Dim |->
                         <<ub[UbAt(in.ub_row + r, j - 1)],
                           ActivePlane'[<<j - 1, c[2]>>]>>]
               then == [j \in 1 .. Dim |->
                          <<DrainedUb[UbAt(in.ub_row + r, j - 1)],
                            ActivePlane'[<<j - 1, c[2]>>]>>]
    <3>1. c[1] \in Int /\ c[2] \in Nat
      BY DEF AccCells, Cols
    <3>2. MxuWillWrite(c)' <=> r \in 0 .. in.rows - 1
      <4>1. MxuWillWrite(c)' <=> /\ in.rows > 0
                                 /\ r \in 0 .. in.rows - 1
                                 /\ 0 <= r + Dim - 1 + c[2]
        BY <1>1 DEF MxuWillWrite
      <4> QED BY <1>3, <3>1, <4>1
    <3>3. AccCell(c)' = IF MxuWillWrite(c)' THEN was \o now ELSE acc[c]
      <4>1. Dim - 1 + 1 = Dim
        BY <1>3
      <4> QED BY <1>1, <4>1 DEF AccCell, SumOf
    <3>4. r \in 0 .. in.rows - 1 => now = then
      <4>1. SUFFICES ASSUME r \in 0 .. in.rows - 1, NEW j \in 1 .. Dim
                     PROVE  DrainedUb[UbAt(in.ub_row + r, j - 1)]
                              = ub[UbAt(in.ub_row + r, j - 1)]
        OBVIOUS
      <4> HIDE DEF r
      <4>2. /\ in.ub_row + r \in in.ub_row .. in.ub_row + in.rows - 1
            /\ in.ub_row + r < UbRows /\ j - 1 \in Cols
        BY <1>1, <1>3, <4>1 DEF Fits, Cols
      <4> QED BY <1>2, <1>3, <4>2, SettledRow
    <3> HIDE DEF r, was, now, then
    <3> QED BY <3>2, <3>3, <3>4 DEF r, was, then
  <2> QED BY <2>1, <2>2, NextCells
<1>9. Sequential!AccCells = AccCells /\ Sequential!PEs = PEs
       /\ \A r, n : Sequential!UbAt(r, n) = UbAt(r, n)
  BY SameHelpers
<1>10. /\ \/ /\ Sequential!Operands.new_weights
             /\ TilesWaiting' = Tail(TilesWaiting)
             /\ ActivePlane' = [pe \in Sequential!PEs |->
                                  <<"weight", Head(TilesWaiting),
                                    pe[1] * Dim + pe[2]>>]
          \/ ~Sequential!Operands.new_weights
               /\ UNCHANGED <<ActivePlane, TilesWaiting>>
  BY <1>7, <1>9 DEF Sequential!Operands, in
<1> HIDE DEF Sequential!Operands
<1>11. in = Sequential!Operands
  BY DEF Sequential!Operands, in
<1>12. Sequential!DoMatrixMultiply
  BY <1>5, <1>6, <1>8, <1>9, <1>10, <1>11
     DEF Sequential!DoMatrixMultiply, Sequential!Product
<1> QED BY <1>12 DEF Sequential!SeqNext

(* An accumulator the array is not to write is already what it will be.      *)
LEMMA SettledAcc ==
  ASSUME RefInv, NEW first \in Nat, NEW count \in Nat,
         ~MxuWritesAccRows(first, count), first + count <= AccRows,
         NEW row \in first .. first + count - 1, NEW k \in Cols
  PROVE  DrainedAcc[<<row, k>>] = acc[<<row, k>>]
<1> DEFINE c == <<row, k>>
<1>1. AccRows \in Nat /\ row \in Nat
  BY MemoryAssumption
<1>2. c \in AccCells /\ c[1] = row
  BY <1>1 DEF AccCells
<1>3. ~MxuWillWrite(c)
  <2>1. mxu.acc_row \in Nat /\ mxu.rows \in Nat
    BY MxuTypes DEF RefInv
  <2>2. mxu.busy /\ row - mxu.acc_row \in 0 .. mxu.rows - 1
          => MxuWritesAccRows(first, count)
    BY <1>1, <2>1 DEF MxuWritesAccRows, Overlap
  <2> HIDE DEF c
  <2> QED BY <1>2, <2>2 DEF MxuWillWrite
<1> HIDE DEF c
<1>4. AccCell(c) = acc[c]
  BY <1>3 DEF AccCell
<1> QED BY <1>2, <1>4, DrainedCells DEF c

(* The Activate that has just started has all its rows to write.             *)
LEMMA ActStarts ==
  ASSUME RefInv, RefInv', IssueActivate
  PROVE  LET out == ActivateOutputRows(in.rows, in.pool, in.pool_size)
         IN  ToActivate' = 0 .. out - 1 /\ ActOutRows' = out /\ out \in Nat
<1> DEFINE out == ActivateOutputRows(in.rows, in.pool, in.pool_size)
<1>1. act' = [acc_row |-> in.acc_row, ub_row |-> in.ub_row,
              rows_total |-> in.rows, rows_done |-> 0,
              function |-> in.function, pool |-> in.pool,
              pool_size |-> in.pool_size, pool_width |-> in.pool_width]
  BY DEF IssueActivate, ActStart
<1>2. RowsInOrder'
  BY ToActivateNext DEF RefInv
<1>3. ActOutRows' = out
  BY <1>1 DEF ActOutRows
<1>4. RowsWritten' = 0
  <2>1. CASE in.pool = "None"
    BY <1>1, <2>1 DEF RowsWritten
  <2>2. CASE in.pool # "None"
    <3> DEFINE w == in.pool_width
               s == in.pool_size
    <3>1. w \in Nat \ {0} /\ s \in Nat \ {0}
      BY <2>2, CurrentType DEF IssueActivate, Encodable
    <3>2. RowsWritten' = (0 \div (w * s)) * (w \div s)
      BY <1>1, <2>2 DEF RowsWritten
    <3> HIDE DEF w, s
    <3>3. w * s \in Nat \ {0} /\ w \div s \in Nat
      BY <3>1, Z3
    <3>4. 0 \div (w * s) = 0
      <4> DEFINE d == w * s
      <4>1. d \in Nat \ {0}
        BY <3>3
      <4> HIDE DEF d
      <4>2. 0 \div d = 0
        BY <4>1, Z3
      <4> QED BY <4>2 DEF d
    <3>5. 0 * (w \div s) = 0
      <4> DEFINE p == w \div s
      <4>1. p \in Nat
        BY <3>3
      <4> HIDE DEF p
      <4>2. 0 * p = 0
        BY <4>1
      <4> QED BY <4>2 DEF p
    <3> QED BY <3>2, <3>4, <3>5
  <2> QED BY <2>1, <2>2
<1> QED BY <1>2, <1>3, <1>4 DEF RowsInOrder

LEMMA ActivateIsPossible ==
  ASSUME IssueActivate
  PROVE  Sequential!Possible(in)
BY SameHelpers
   DEF IssueActivate, Issuing, Accepts, ActAccepts, PoolShapeOK,
       Sequential!Possible

(* A row the Activate is to write, from the accumulators as they will be.    *)
ActivatedRow(o, n) ==
  LET value(i) == Activated(in.function, DrainedAcc[<<in.acc_row + i, n>>])
      w        == Window(o, in.pool_size, in.pool_width)
  IN  IF in.pool = "None" THEN value(o)
      ELSE <<in.pool, [j \in DOMAIN w |-> value(w[j])]>>

(* The same row, from the accumulators as they are.                          *)
StartedRow(o, n) ==
  LET s        == in.pool_size
      w        == in.pool_width
      p        == PerBand(s, w)
      value(i) == Activated(in.function, acc[<<in.acc_row + i, n>>])
  IN  IF in.pool = "None" THEN value(o)
      ELSE <<in.pool, [j \in 1 .. s * s |->
                         value(Pixel(o \div p, o % p, j, s, w))]>>

LEMMA PendingStarts ==
  ASSUME RefInv, IssueActivate, NEW n \in Cols,
         NEW o \in 0 .. ActivateOutputRows(in.rows, in.pool, in.pool_size) - 1
  PROVE  StartedRow(o, n) = ActivatedRow(o, n)
<1> DEFINE s == in.pool_size
           w == in.pool_width
           N == in.rows
           p == PerBand(s, w)
           px(j) == Pixel(o \div p, o % p, j, s, w)
           now(i) == Activated(in.function, acc[<<in.acc_row + i, n>>])
           then(i) == Activated(in.function, DrainedAcc[<<in.acc_row + i, n>>])
<1>1. /\ Fits(in.acc_row, in.rows, AccRows)
      /\ ~MxuWritesAccRows(in.acc_row, in.rows)
      /\ in.pool # "None" => PoolShapeOK(N, s, w)
  BY DEF IssueActivate, ActStart, ActAccepts, Issuing, WhyBlocked,
         BlockedActivate
<1>2. /\ in.acc_row \in Nat /\ N \in Nat /\ s \in Nat /\ w \in Nat
      /\ in.pool # "None" => s > 0 /\ w > 0
  BY CurrentType DEF IssueActivate, Encodable
<1>3. StartedRow(o, n) = IF in.pool = "None" THEN now(o)
                         ELSE <<in.pool, [j \in 1 .. s * s |-> now(px(j))]>>
  BY DEF StartedRow
<1>4. ActivatedRow(o, n) =
        IF in.pool = "None" THEN then(o)
        ELSE <<in.pool, [j \in 1 .. s * s |-> then(px(j))]>>
  <2> DEFINE v == Window(o, s, w)
  <2>1. DOMAIN v = 1 .. s * s /\ \A j \in 1 .. s * s : v[j] = px(j)
    BY DEF Window, Pixel, PerBand
  <2>2. ActivatedRow(o, n) =
          IF in.pool = "None" THEN then(o)
          ELSE <<in.pool, [j \in DOMAIN v |-> then(v[j])]>>
    BY DEF ActivatedRow
  <2> HIDE DEF px, v, then
  <2> QED BY <2>1, <2>2
<1>5. \A i \in 0 .. N - 1 : now(i) = then(i)
  <2> SUFFICES ASSUME NEW i \in 0 .. N - 1 PROVE now(i) = then(i)
    OBVIOUS
  <2>1. in.acc_row + i \in in.acc_row .. in.acc_row + in.rows - 1
        /\ in.acc_row + in.rows <= AccRows
    BY <1>1, <1>2 DEF Fits
  <2>2. DrainedAcc[<<in.acc_row + i, n>>] = acc[<<in.acc_row + i, n>>]
    BY <1>1, <1>2, <2>1, SettledAcc
  <2> QED BY <2>2
<1>6. CASE in.pool = "None"
  <2>1. o \in 0 .. N - 1
    BY <1>6 DEF ActivateOutputRows
  <2> HIDE DEF now, then
  <2> QED BY <1>3, <1>4, <1>5, <1>6, <2>1
<1>7. CASE in.pool # "None"
  <2>1. ActShape(s, w, N) /\ o \in Nat /\ o < PooledRows(N, s)
    <3>1. PooledRows(N, s) \in Nat
      BY <1>1, <1>2, <1>7, Bands
    <3>2. o \in 0 .. PooledRows(N, s) - 1
      BY <1>2, <1>7 DEF ActivateOutputRows, PooledRows
    <3>3. Whole(s, w)
      BY <1>1, <1>7 DEF PoolShapeOK, Whole
    <3>4. ActShape(s, w, N)
      BY <1>1, <1>2, <1>7, <3>3 DEF ActShape
    <3> QED BY <3>1, <3>2, <3>4
  <2>2. \A j \in 1 .. s * s : px(j) \in 0 .. N - 1
    BY <2>1, PixelInRange
  <2> HIDE DEF now, then, px
  <2>3. \A j \in 1 .. s * s : now(px(j)) = then(px(j))
    BY <1>5, <2>2
  <2> QED BY <1>3, <1>4, <1>7, <2>3
<1> QED BY <1>6, <1>7

LEMMA ActivateIssues ==
  ASSUME RefInv, RefInv', IssueActivate
  PROVE  Sequential!SeqNext
<1> DEFINE out == ActivateOutputRows(in.rows, in.pool, in.pool_size)
<1>1. /\ Issuing({"Activate"}) /\ Issued /\ in.op = "Activate"
      /\ UNCHANGED <<acc, hostMem, hif, fifo, planes, shifter, mxu, grid,
                     halted, ub>>
      /\ act' = [acc_row |-> in.acc_row, ub_row |-> in.ub_row,
                 rows_total |-> in.rows, rows_done |-> 0,
                 function |-> in.function, pool |-> in.pool,
                 pool_size |-> in.pool_size, pool_width |-> in.pool_width]
      /\ ~ActBusy /\ ~HostWritesUbRows(in.ub_row, out)
  BY DEF IssueActivate, Issuing, ActStart, ActAccepts, WhyBlocked,
         BlockedActivate
<1>2. Sequential!Current("Activate") /\ Sequential!Continue
  BY <1>1, ActivateIsPossible, IssueContinues
<1>3. UNCHANGED <<DrainedAcc, DrainedHostMem, ActivePlane, TilesWaiting>>
  BY <1>1, SteadyTiles, SteadyAcc DEF DrainedHostMem, ToMove
<1>4. ToActivate = {} /\ ToActivate' = 0 .. out - 1 /\ out \in Nat
      /\ in.ub_row \in Nat
  BY <1>1, ActStarts, CurrentType DEF ToActivate
<1>5. ASSUME NEW a \in UbAddrs
      PROVE  UbCell(a)' = IF a \div Dim - in.ub_row \in 0 .. out - 1
                          THEN ActivatedRow(a \div Dim - in.ub_row, a % Dim)
                          ELSE UbCell(a)
  <2> DEFINE o == a \div Dim - in.ub_row
             host == hostMem[hif.host_row * Dim + (a - UbAt(hif.ub_row, 0))]
             n == a % Dim
  <2>1. a \in Nat /\ a \div Dim \in Nat /\ n \in Cols
    BY AddressTypes, AddressRow DEF RefInv
  <2>2. HostWillWrite(a)' <=> HostWillWrite(a)
    BY <1>1 DEF HostWillWrite, ToMove
  <2>3. UbCell(a) = IF HostWillWrite(a) THEN host ELSE ub[a]
    BY <1>4 DEF UbCell, ActWillWrite
  <2>4. UbCell(a)' = IF HostWillWrite(a)' THEN host
                     ELSE IF o \in 0 .. out - 1 THEN StartedRow(o, n)
                     ELSE ub[a]
    <3>1. ActWillWrite(a)' <=> o \in 0 .. out - 1
      BY <1>1, <1>4 DEF ActWillWrite
    <3>2. PendingRow(a \div Dim - act.ub_row, n)' = StartedRow(o, n)
      BY <1>1 DEF PendingRow, StartedRow, Pixel, PerBand
    <3>3. UbCell(a)' = IF HostWillWrite(a)' THEN host
                       ELSE IF ActWillWrite(a)'
                       THEN PendingRow(a \div Dim - act.ub_row, n)' ELSE ub[a]
      BY <1>1 DEF UbCell
    <3> QED BY <3>1, <3>2, <3>3
  <2>5. o \in 0 .. out - 1 => ~HostWillWrite(a)
    <3>1. SUFFICES ASSUME o \in 0 .. out - 1, HostWillWrite(a) PROVE FALSE
      OBVIOUS
    <3>2. hif.ub_row \in Nat /\ hif.rows \in Nat
      BY HostTypes DEF RefInv
    <3>3. /\ hif.direction = "HostToUb"
          /\ a - UbAt(hif.ub_row, 0) \in ToMove
      BY <3>1 DEF HostWillWrite
    <3>4. HostBusy /\ a - UbAt(hif.ub_row, 0) \in 0 .. hif.rows * Dim - 1
      BY <3>3, HostTypes DEF ToMove, HostBusy, RefInv
    <3>5. a \div Dim \in hif.ub_row .. hif.ub_row + hif.rows - 1
      BY <2>1, <3>2, <3>4, BytesOfRows
    <3> DEFINE row == a \div Dim
    <3>6. Overlap(in.ub_row, out, hif.ub_row, hif.rows)
      <4>1. row \in Nat /\ row \in hif.ub_row .. hif.ub_row + hif.rows - 1
            /\ row - in.ub_row \in 0 .. out - 1
        BY <2>1, <3>1, <3>5
      <4> HIDE DEF row, out
      <4> QED BY <1>4, <3>2, <4>1, SMTT(30) DEF Overlap
    <3> QED BY <1>1, <3>3, <3>4, <3>6 DEF HostWritesUbRows
  <2>6. o \in 0 .. out - 1 => StartedRow(o, n) = ActivatedRow(o, n)
    BY <2>1, PendingStarts
  <2> HIDE DEF o, host, n, out
  <2>7. UbCell(a)' = IF o \in 0 .. out - 1 THEN ActivatedRow(o, n)
                     ELSE UbCell(a)
    BY <2>2, <2>3, <2>4, <2>5, <2>6
  <2> QED BY <2>7 DEF o, n
<1>6. DrainedUb' = [a \in UbAddrs |->
                      IF a \div Dim - in.ub_row \in 0 .. out - 1
                      THEN ActivatedRow(a \div Dim - in.ub_row, a % Dim)
                      ELSE DrainedUb[a]]
  <2> HIDE DEF out
  <2> QED BY <1>5, NextCells, DrainedCells
<1>7. DOMAIN DrainedUb = UbAddrs
  BY DrainedCells
<1> HIDE DEF Sequential!Operands
<1>8. in = Sequential!Operands
  BY DEF Sequential!Operands, in
<1>9. Sequential!DoActivate
  BY <1>2, <1>3, <1>6, <1>7, <1>8, SameHelpers
     DEF Sequential!DoActivate, ActivatedRow
<1> QED BY <1>9 DEF Sequential!SeqNext

LEMMA InitRefInv == Init => RefInv
<1> SUFFICES ASSUME Init PROVE RefInv
  OBVIOUS
<1>1. grid = EmptyGrid /\ mxu = MxuReset /\ act = ActReset /\ hif = HostReset
      /\ program \in Programs
  BY DEF Init, Loaded, UnitsReset, ControlReset
<1>2. \A k, n \in Cols : grid[<<k, n>>].row = -1
  BY <1>1 DEF EmptyGrid, EmptyPe, PEs
<1>3. SumsInv /\ PoolInv
  BY <1>1, <1>2, MemoryAssumption DEF SumsInv, MxuReset, PoolInv, ActReset
<1>4. NoRowConflict
  BY <1>1 DEF NoRowConflict, HostSparesMxu, HostSparesAct, ActSparesMxu,
     MxuSparesAct, MxuReadsUbRows, MxuWritesAccRows, ActWritesUbRows, ActBusy,
     MxuReset, ActReset
<1> QED BY <1>3, <1>4, InitTypeInv, InitArrayInv, InitTilesInv, InitLineInv
        DEF RefInv

LEMMA InvariantRefInv == Spec => []RefInv
BY InitRefInv, NextRefInv, PTL DEF Spec

LEMMA StartsAsSequential == Init => Sequential!SeqInit
<1> SUFFICES ASSUME Init PROVE Sequential!SeqInit
  OBVIOUS
<1>1. /\ program \in Programs /\ pc = 0 /\ halted = FALSE /\ MemoryInit
      /\ hif = HostReset /\ fifo = << >> /\ shifter = ShifterReset
      /\ planes = [p \in 0 .. 1 |-> NoWeights] /\ mxu = MxuReset
      /\ act = ActReset
  BY DEF Init, Loaded, UnitsReset, ControlReset
<1>2. RefInv
  BY InitRefInv
<1>3. DrainedHostMem = hostMem /\ ToMove = {}
  <2>1. hif.rows * Dim = 0 /\ hif.bytes_done = 0
    BY <1>1, MemoryAssumption DEF HostReset
  <2> QED BY <1>2, <2>1, IdleHost DEF HostBusy, RefInv
<1>4. DrainedAcc = acc
  BY <1>1, <1>2, IdleArray DEF RefInv, MxuReset
<1>5. DrainedUb = ub
  <2>1. ToActivate = {}
    BY <1>1 DEF ToActivate, ActBusy, ActReset
  <2>2. DrainedUb = [a \in UbAddrs |-> ub[a]]
    BY <1>3, <2>1, DrainedCells DEF UbCell, HostWillWrite, ActWillWrite
  <2> QED BY <1>2, <2>2 DEF RefInv, TypeInv, MemoriesOK, IsMemory
<1>6. ActivePlane = [pe \in PEs |-> Zero]
  BY <1>1 DEF ActivePlane, ShifterReset, NoWeights
<1>7. TilesWaiting = << >>
  <2>1. /\ TilesWaiting = FirstTile \o FifoTiles
        /\ FifoTiles \in Seq(Int) /\ Len(FifoTiles) = Len(fifo)
    BY <1>2, TilesWaitingIs
  <2>2. FirstTile = << >> /\ Len(fifo) = 0
    BY <1>1 DEF FirstTile, ShifterReset
  <2>3. FifoTiles = << >>
    BY <2>1, <2>2, EmptySeq
  <2> QED BY <2>1, <2>2, <2>3, ConcatEmptySeq
<1>8. Sequential!MemoryInit
  BY <1>1, <1>3, <1>4, <1>5, SameHelpers DEF MemoryInit, Sequential!MemoryInit
<1> QED BY <1>1, <1>6, <1>7, <1>8, SameHelpers DEF Sequential!SeqInit

LEMMA StepsAsSequential ==
  RefInv /\ RefInv' /\ [Next]_vars
    => [Sequential!SeqNext]_Sequential!seqVars
<1> SUFFICES ASSUME RefInv, RefInv', [Next]_vars
             PROVE  Sequential!SeqNext \/ UNCHANGED Sequential!seqVars
  OBVIOUS
<1>1. CASE TickThrows \/ Stalled \/ TickHalted
  BY <1>1, QuietStutters
<1>2. CASE TickAdvances
  BY <1>2, AdvanceStutters
<1>3. CASE TickIssues
  <2>1. CASE IssueHostTransfer
    <3>1. in.op \in {"ReadHostMemory", "WriteHostMemory"}
      BY <2>1 DEF IssueHostTransfer, Issuing
    <3> QED BY <2>1, <3>1, ReadHostIssues, WriteHostIssues
  <2> QED BY <1>3, <2>1, HaltIssues, NopSyncIssues, ReadWeightsIssues,
             MultiplyIssues, ActivateIssues DEF TickIssues
<1>4. CASE UNCHANGED vars
  <2>1. UNCHANGED <<memories, units, program, pc, halted>>
    BY <1>4 DEF vars, machine, control
  <2> QED BY <2>1, SteadyUb, SteadyTiles, SteadyAcc
          DEF memories, units, Sequential!seqVars
<1> QED BY <1>1, <1>2, <1>3, <1>4 DEF Next

(* Whatever the units overlap, for every size of array and memory, every     *)
(* bandwidth, every number of slots and every set of programs, the program   *)
(* has the effect it would have if each instruction finished before the next *)
(* one started.                                                              *)
THEOREM ProgramOrder == Spec => RunsInProgramOrder
BY StartsAsSequential, StepsAsSequential, InvariantRefInv, PTL
   DEF Spec, RunsInProgramOrder, Sequential!SeqSpec

-----------------------------------------------------------------------------
(* Why a tick throws                                                         *)

Refuses == WhyBlocked(in) = "None" /\ ~Accepts(in)
Stuck   == WhyBlocked(in) # "None" /\ UnitsIdle

(* A tick that throws changes nothing a tick looks at, so the reason stays.  *)
ErrorLasts ==
  error # "none" =>
    /\ Ticking
    /\ \/ error = "past the end" /\ ~(pc < Len(program))
       \/ error = "unknown opcode" /\ pc < Len(program) /\ in.op = "Unknown"
       \/ error = "refused" /\ AtInstr /\ Refuses
       \/ error = "deadlock" /\ AtInstr /\ Stuck

LEMMA ReasonsLast ==
  ASSUME UNCHANGED <<memories, units, program, pc, halted, phase>>
  PROVE  /\ Ticking' = Ticking /\ in' = in
         /\ pc' = pc /\ program' = program
         /\ AtInstr' = AtInstr /\ Refuses' = Refuses /\ Stuck' = Stuck
<1>1. UNCHANGED <<hif, fifo, shifter, mxu, act, program, pc, halted, phase>>
  BY DEF units
<1>2. in' = in /\ AtInstr' = AtInstr /\ Ticking' = Ticking
  BY <1>1 DEF in, AtInstr, Ticking
<1>3. UnitsIdle' = UnitsIdle
  BY <1>1 DEF UnitsIdle, HostBusy, FifoFetching, Ready, Shifting, ActBusy
<1>4. WhyBlocked(in)' = WhyBlocked(in)
  BY <1>1, <1>2, <1>3
     DEF WhyBlocked, BlockedReadHost, BlockedWriteHost,
         BlockedMatrixMultiply, BlockedActivate, HostBusy,
         HostWritesUbRows, HostReadsUbRows, MxuReadsUbRows,
         MxuWritesAccRows, ActBusy, ActOutRows, ActReadsAccRows,
         ActWritesUbRows, FifoFull
<1>5. Accepts(in)' = Accepts(in)
  BY <1>1, <1>2
     DEF Accepts, HostAccepts, HostBusy, FifoAccepts, FifoFull, MxuAccepts,
         ActAccepts, ActBusy
<1> QED BY <1>1, <1>2, <1>3, <1>4, <1>5 DEF Refuses, Stuck

LEMMA NextErrorLasts == TypeInv /\ ErrorLasts /\ [Next]_vars => ErrorLasts'
<1> SUFFICES ASSUME TypeInv, ErrorLasts, [Next]_vars PROVE ErrorLasts'
  OBVIOUS
<1>1. CASE TickThrows
  <2>1. UNCHANGED <<memories, units, program, pc, halted, phase>>
    BY <1>1 DEF TickThrows, PastTheEnd, UnknownOpcode, Deadlock, Refused, Throw
  <2>2. pc \in Nat /\ Len(program) \in Nat
    BY LenProperties DEF TypeInv, IssueOK
  <2>3. pc >= Len(program) => ~(pc < Len(program))
    BY <2>2
  <2>4. PastTheEnd => error' = "past the end" /\ Ticking
                      /\ ~(pc < Len(program))
    BY <2>3 DEF PastTheEnd, Throw
  <2>5. UnknownOpcode => error' = "unknown opcode" /\ Ticking
                         /\ pc < Len(program) /\ in.op = "Unknown"
    BY DEF UnknownOpcode, Throw
  <2>6. Refused => error' = "refused" /\ Ticking /\ AtInstr /\ Refuses
    BY DEF Refused, Throw, Refuses
  <2>7. Deadlock => error' = "deadlock" /\ Ticking /\ AtInstr /\ Stuck
    BY DEF Deadlock, Throw, Stuck
  <2> QED BY <1>1, <2>1, <2>4, <2>5, <2>6, <2>7, ReasonsLast
          DEF TickThrows, ErrorLasts
<1>2. CASE UNCHANGED vars
  <2>1. UNCHANGED <<memories, units, program, pc, halted, phase, error>>
    BY <1>2 DEF vars, machine, control
  <2> QED BY <2>1, ReasonsLast DEF ErrorLasts
<1>3. CASE ~TickThrows /\ ~UNCHANGED vars
  <2>1. UNCHANGED error
    BY <1>3 DEF Next, Stalled, TickIssues, IssueHalt, IssueNopOrSync,
                IssueHostTransfer, IssueReadWeights, IssueMatrixMultiply,
                IssueActivate, Issued, Advance, TickHalted, TickAdvances,
                AdvanceHost, AdvanceFifo, AdvanceShifter, AdvanceArray,
                AdvanceActivation, Step
  <2>2. error = "none"
    <3>1. SUFFICES ASSUME error # "none" PROVE FALSE
      OBVIOUS
    <3>2. /\ Ticking
          /\ AtInstr => Refuses \/ Stuck
      BY <3>1 DEF ErrorLasts, AtInstr
    <3>3. ~TickAdvances /\ ~TickHalted
      BY <3>2 DEF TickAdvances, AdvanceHost, AdvanceFifo, AdvanceShifter,
                  AdvanceArray, AdvanceActivation, Step, Ticking, TickHalted
    <3>4. ~Stalled
      BY <3>2 DEF Stalled, Refuses, Stuck
    <3>5. ~TickIssues
      BY <3>2 DEF TickIssues, IssueHalt, IssueNopOrSync, IssueHostTransfer,
                  IssueReadWeights, IssueMatrixMultiply, IssueActivate,
                  Issuing, Refuses, Stuck
    <3> QED BY <1>3, <3>3, <3>4, <3>5 DEF Next
  <2> QED BY <2>1, <2>2 DEF ErrorLasts
<1> QED BY <1>1, <1>2, <1>3

LEMMA RefusedIsImpossible ==
  ASSUME AtInstr, Refuses
  PROVE  ~Sequential!Possible(in)
<1>1. CASE in.op \in {"ReadHostMemory", "WriteHostMemory"}
  BY <1>1, SameHelpers
     DEF Refuses, WhyBlocked, BlockedReadHost, BlockedWriteHost, Accepts,
         HostAccepts, Sequential!Possible
<1>2. CASE in.op = "ReadWeights"
  BY <1>2 DEF Refuses, WhyBlocked, Accepts, FifoAccepts, Sequential!Possible
<1>3. CASE in.op = "MatrixMultiply"
  BY <1>3, SameHelpers
     DEF Refuses, WhyBlocked, BlockedMatrixMultiply, Accepts, MxuAccepts,
         Sequential!Possible
<1>4. CASE in.op = "Activate"
  BY <1>4, SameHelpers
     DEF Refuses, WhyBlocked, BlockedActivate, Accepts, ActAccepts,
         PoolShapeOK, Sequential!Possible
<1> QED BY <1>1, <1>2, <1>3, <1>4 DEF Refuses, Accepts

LEMMA StuckIsImpossible ==
  ASSUME RefInv, ReadyTileIsMoving, ErrorLasts, error = "deadlock"
  PROVE  ~Sequential!Possible(in)
<1>1. DeadlockLasts
  BY DEF ErrorLasts, Stuck, DeadlockLasts
<1>2. \/ in.op = "MatrixMultiply" /\ in.new_weights
           /\ fifo = << >> /\ ~shifter.shadow_full
      \/ in.op = "ReadWeights" /\ Len(fifo) = Slots /\ shifter.shadow_full
  BY <1>1, IdleAndBlocked DEF RefInv
<1>3. /\ Len(TilesWaiting) = Len(FirstTile) + Len(FifoTiles)
      /\ Len(FirstTile) = IF shifter.shadow_full THEN 1 ELSE 0
      /\ Len(FifoTiles) = Len(fifo)
  BY TilesWaitingIs
<1>4. CASE in.op = "MatrixMultiply" /\ in.new_weights
             /\ fifo = << >> /\ ~shifter.shadow_full
  <2>1. Len(TilesWaiting) = 0
    BY <1>3, <1>4
  <2> QED BY <1>4, <2>1 DEF Sequential!Possible
<1>5. CASE in.op = "ReadWeights" /\ Len(fifo) = Slots /\ shifter.shadow_full
  <2>1. ~(Len(TilesWaiting) <= Slots)
    BY <1>3, <1>5, FifoAssumption
  <2> QED BY <1>5, <2>1 DEF Sequential!Possible
<1> QED BY <1>2, <1>4, <1>5

(* tick() throws only for an instruction the sequential machine cannot carry *)
(* out either, whatever the FIFO's slots, the bandwidths and the program: no *)
(* deadlock and no refusal comes from how the units happened to overlap.     *)
THEOREM ErrorsComeFromTheProgram == Spec => []ErrorsAreTheProgrammers
<1>1. Init => ErrorLasts
  BY DEF Init, ErrorLasts
<1>2. RefInv /\ ReadyTileIsMoving /\ ErrorLasts => ErrorsAreTheProgrammers
  <2> SUFFICES ASSUME RefInv, ReadyTileIsMoving, ErrorLasts, error # "none"
               PROVE  ~Sequential!CanContinue
    BY DEF ErrorsAreTheProgrammers
  <2>1. Sequential!CanContinue => pc < Len(program) /\ Sequential!Possible(in)
    BY DEF Sequential!CanContinue, in
  <2>2. in.op = "Unknown" => ~Sequential!Possible(in)
    BY DEF Sequential!Possible
  <2> QED BY <2>1, <2>2, RefusedIsImpossible, StuckIsImpossible DEF ErrorLasts
<1> QED BY <1>1, <1>2, NextErrorLasts, InvariantTypes, InvariantRefInv,
           ReadyTilesMove, PTL DEF Spec
=============================================================================
