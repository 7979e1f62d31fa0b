-------------------------------- MODULE Tpu ---------------------------------
(* The machine (src/src/core/tpu.cpp): the in-order issue and the units it   *)
(* drives. One clock cycle, Tpu::tick(), is a fixed sequence: check and      *)
(* issue, then the host interface, the Weight FIFO, the weight shifter, the  *)
(* array and the activation unit each advance once, then the cycle is        *)
(* counted. `phase` is the place in that sequence, so that each unit's tick  *)
(* is an action; nothing runs between them, and what an observer of the      *)
(* machine sees is the states whose phase is "issue".                        *)
EXTENDS HostInterface, SystolicArray, ActivationUnit

CONSTANTS Programs,        \* the programs that may be loaded
          TimelineCycles   \* kTimelineCycles: cycles the activity log keeps

ASSUME ProgramAssumption ==
  /\ Programs \subseteq Seq(Instr)
  /\ \A p \in Programs : \A i \in DOMAIN p : Encodable(p[i])
ASSUME TimelineAssumption == TimelineCycles \in Nat \ {0}

VARIABLES program,   \* the loaded code
          pc,        \* index of the next instruction, from 0
          halted,
          stall,     \* why the last cycle issued nothing
          stats,     \* cycle and instruction counters
          activity,  \* one record per recent cycle, oldest first
          unit_pc,   \* host_pc_, mxu_pc_, act_pc_: what each unit last started
          phase,     \* where in tick() the machine is
          before,    \* tick()'s locals: the shifter and the array before it
          error      \* what the last tick() threw

memories == <<ub, acc, hostMem>>
units    == <<hif, fifo, planes, shifter, mxu, grid, act, line>>
control  == <<program, pc, halted, stall, stats, activity, unit_pc>>
machine  == <<memories, units, control>>
vars     == <<machine, phase, before, error>>

Phases == {"issue", "host", "fifo", "shift", "array", "act"}

Stalls == {"None", "HostInterfaceBusy", "WaitForIdle", "WeightFifoFull",
           "MxuBusy", "WeightsNotReady", "UbNotReady", "ActivationBusy",
           "AccNotReady"}

Errors == {"none", "past the end", "unknown opcode", "deadlock", "refused"}

CycleRecord == [stall : Stalls, issued : Int, host : Int, fetching : Int,
                shifting : Int, mxu : Int, activation : Int]

StatsReset == [cycles |-> 0, issued |-> 0, mxu_busy_cycles |-> 0,
               stall_cycles |-> [s \in Stalls |-> 0]]

(* load()'s reset() of every unit.                                           *)
UnitsReset ==
  /\ hif = HostReset
  /\ fifo = << >>
  /\ planes = [p \in 0 .. 1 |-> NoWeights]
  /\ shifter = ShifterReset
  /\ mxu = MxuReset
  /\ grid = EmptyGrid
  /\ act = ActReset
  /\ line = NoLine

ControlReset ==
  /\ pc = 0
  /\ halted = FALSE
  /\ stall = "None"
  /\ stats = StatsReset
  /\ activity = << >>
  /\ unit_pc = [host |-> -1, mxu |-> -1, act |-> -1]

Loaded(code) ==
  /\ program = code
  /\ MemoryInit
  /\ UnitsReset
  /\ ControlReset

Init ==
  /\ \E code \in Programs : Loaded(code)
  /\ phase = "issue"
  /\ before = [rows_shifted |-> 0, shadow_tile |-> -1, working |-> FALSE]
  /\ error = "none"

-----------------------------------------------------------------------------
(* Whether the instruction at the PC can go.                                 *)

in == program[pc + 1]

(* Mutant: the check forgets the weight shifter.                             *)
UnitsIdleButShifter == ~HostBusy /\ ~FifoFetching /\ ~mxu.busy /\ ~ActBusy

UnitsIdle ==
  /\ ~HostBusy
  /\ ~FifoFetching
  /\ ~mxu.busy
  /\ ~Shifting
  /\ ~ActBusy

BlockedReadHost(i) ==
  CASE HostBusy -> "HostInterfaceBusy"
    [] OTHER -> IF \/ MxuReadsUbRows(i.ub_row, i.rows)
                   \/ ActWritesUbRows(i.ub_row, i.rows)
                THEN "UbNotReady" ELSE "None"

BlockedWriteHost(i) ==
  CASE HostBusy -> "HostInterfaceBusy"
    [] OTHER -> IF ActWritesUbRows(i.ub_row, i.rows)
                THEN "UbNotReady" ELSE "None"

(* Mutant: a multiply does not wait for an Activate to read its rows.        *)
BlockedMultiplyNoAcc(i) ==
  IF mxu.busy THEN "MxuBusy"
  ELSE IF i.new_weights /\ ~shifter.shadow_full THEN "WeightsNotReady"
  ELSE IF \/ HostWritesUbRows(i.ub_row, i.rows)
          \/ ActWritesUbRows(i.ub_row, i.rows) THEN "UbNotReady"
  ELSE "None"

BlockedMatrixMultiply(i) ==
  IF mxu.busy THEN "MxuBusy"
  ELSE IF i.new_weights /\ ~shifter.shadow_full THEN "WeightsNotReady"
  ELSE IF \/ HostWritesUbRows(i.ub_row, i.rows)
          \/ ActWritesUbRows(i.ub_row, i.rows) THEN "UbNotReady"
  ELSE IF ActReadsAccRows(i.acc_row, i.rows) THEN "AccNotReady"
  ELSE "None"

(* Mutant: an Activate does not wait for rows still going to the host.       *)
BlockedActivateNoHost(i) ==
  LET out == ActivateOutputRows(i.rows, i.pool, i.pool_size)
  IN  IF ActBusy THEN "ActivationBusy"
      ELSE IF MxuWritesAccRows(i.acc_row, i.rows) THEN "AccNotReady"
      ELSE IF \/ HostWritesUbRows(i.ub_row, out)
              \/ MxuReadsUbRows(i.ub_row, out) THEN "UbNotReady"
      ELSE "None"

BlockedActivate(i) ==
  LET out == ActivateOutputRows(i.rows, i.pool, i.pool_size)
  IN  IF ActBusy THEN "ActivationBusy"
      ELSE IF MxuWritesAccRows(i.acc_row, i.rows) THEN "AccNotReady"
      ELSE IF \/ HostWritesUbRows(i.ub_row, out)
              \/ HostReadsUbRows(i.ub_row, out)
              \/ MxuReadsUbRows(i.ub_row, out) THEN "UbNotReady"
      ELSE "None"

WhyBlocked(i) ==
  CASE i.op \in {"Halt", "Sync"} ->
         IF UnitsIdle THEN "None" ELSE "WaitForIdle"
    [] i.op = "ReadHostMemory"  -> BlockedReadHost(i)
    [] i.op = "WriteHostMemory" -> BlockedWriteHost(i)
    [] i.op = "ReadWeights"     -> IF FifoFull THEN "WeightFifoFull"
                                               ELSE "None"
    [] i.op = "MatrixMultiply"  -> BlockedMatrixMultiply(i)
    [] i.op = "Activate"        -> BlockedActivate(i)
    [] OTHER -> "None"

(* Whether the unit the instruction starts takes it, or throws.              *)
Accepts(i) ==
  CASE i.op \in {"ReadHostMemory", "WriteHostMemory"} ->
         HostAccepts(i.host_row, i.ub_row, i.rows)
    [] i.op = "ReadWeights" -> FifoAccepts(i.tile)
    [] i.op = "MatrixMultiply" ->
         MxuAccepts(i.ub_row, i.acc_row, i.rows, i.new_weights)
    [] i.op = "Activate" ->
         ActAccepts(i.acc_row, i.ub_row, i.rows, i.pool, i.pool_size,
                    i.pool_width)
    [] OTHER -> TRUE

-----------------------------------------------------------------------------
(* tick() that throws: nothing has advanced, but the stall cause of the      *)
(* cycle that did not happen is already in place when the check or the issue *)
(* throws.                                                                   *)

Ticking == phase = "issue" /\ ~halted

AtInstr == pc < Len(program) /\ in.op # "Unknown"

Throw(what) ==
  /\ error' = what
  /\ UNCHANGED <<memories, units, program, pc, halted, stats, activity,
                 unit_pc, phase, before>>

(* Mutant: running past the end is taken for having stopped.                 *)
PastTheEndQuietly == Ticking /\ pc >= Len(program) /\ UNCHANGED vars

PastTheEnd ==
  /\ Ticking
  /\ pc >= Len(program)
  /\ Throw("past the end")
  /\ UNCHANGED stall

UnknownOpcode ==
  /\ Ticking
  /\ pc < Len(program)
  /\ in.op = "Unknown"
  /\ Throw("unknown opcode")
  /\ UNCHANGED stall

Deadlock ==
  /\ Ticking /\ AtInstr
  /\ WhyBlocked(in) # "None"
  /\ UnitsIdle
  /\ stall' = WhyBlocked(in)
  /\ Throw("deadlock")

Refused ==
  /\ Ticking /\ AtInstr
  /\ WhyBlocked(in) = "None"
  /\ ~Accepts(in)
  /\ stall' = "None"
  /\ Throw("refused")

-----------------------------------------------------------------------------
(* The first half of tick(): stall or issue, then record the cycle.          *)

(* The tile DDR3 is filling: the first in the FIFO that is not ready.        *)
IsFilling(q, i) == ~Ready(q[i]) /\ \A j \in 1 .. i - 1 : Ready(q[j])

FillingTile(q) ==
  IF \E i \in DOMAIN q : IsFilling(q, i)
  THEN q[CHOOSE i \in DOMAIN q : IsFilling(q, i)].tile
  ELSE -1

(* What each unit works on this cycle, the issued instruction included.      *)
Record(why, issued) ==
  [stall      |-> why,
   issued     |-> issued,
   host       |-> IF HostBusy' THEN unit_pc'.host ELSE -1,
   fetching   |-> FillingTile(fifo'),
   shifting   |-> -1,
   mxu        |-> IF mxu'.busy THEN unit_pc'.mxu ELSE -1,
   activation |-> IF ActBusy' THEN unit_pc'.act ELSE -1]

RecordCycle(why, issued) ==
  LET grown == Append(activity, Record(why, issued))
  IN  activity' = IF Len(grown) > TimelineCycles THEN Tail(grown) ELSE grown

(* Into the second half, with the shifter and the array as they are now.     *)
Advance ==
  /\ phase' = "host"
  /\ before' = [rows_shifted |-> shifter'.rows_shifted,
                shadow_tile  |-> shifter'.shadow_tile,
                working      |-> mxu'.busy]
  /\ UNCHANGED <<program, error>>

Stalled ==
  /\ Ticking /\ AtInstr
  /\ WhyBlocked(in) # "None"
  /\ ~UnitsIdle
  /\ stall' = WhyBlocked(in)
  /\ UNCHANGED <<memories, units, pc, halted, stats, unit_pc>>
  /\ RecordCycle(stall', -1)
  /\ Advance

Issuing(ops) ==
  /\ Ticking /\ AtInstr
  /\ in.op \in ops
  /\ WhyBlocked(in) = "None"
  /\ Accepts(in)

Issued ==
  /\ stall' = "None"
  /\ stats' = [stats EXCEPT !.issued = @ + 1]
  /\ pc' = IF halted' THEN pc ELSE pc + 1
  /\ RecordCycle("None", pc)
  /\ Advance

IssueHalt ==
  /\ Issuing({"Halt"})
  /\ halted' = TRUE
  /\ UNCHANGED <<memories, units, unit_pc>>
  /\ Issued

IssueNopOrSync ==
  /\ Issuing({"Nop", "Sync"})
  /\ UNCHANGED <<memories, units, unit_pc, halted>>
  /\ Issued

(* Mutant: host_pc_ is not moved on to the new transfer.                     *)
IssueTransferOldPc ==
  /\ Issuing({"ReadHostMemory", "WriteHostMemory"})
  /\ HostStart(IF in.op = "ReadHostMemory" THEN "HostToUb" ELSE "UbToHost",
               in.host_row, in.ub_row, in.rows)
  /\ unit_pc' = [unit_pc EXCEPT !.host = IF @ = -1 THEN pc ELSE @]
  /\ UNCHANGED <<acc, fifo, planes, shifter, mxu, grid, act, line, halted>>
  /\ Issued

IssueHostTransfer ==
  /\ Issuing({"ReadHostMemory", "WriteHostMemory"})
  /\ HostStart(IF in.op = "ReadHostMemory" THEN "HostToUb" ELSE "UbToHost",
               in.host_row, in.ub_row, in.rows)
  /\ unit_pc' = [unit_pc EXCEPT !.host = pc]
  /\ UNCHANGED <<acc, fifo, planes, shifter, mxu, grid, act, line, halted>>
  /\ Issued

IssueReadWeights ==
  /\ Issuing({"ReadWeights"})
  /\ FifoPush(in.tile)
  /\ UNCHANGED <<memories, hif, planes, shifter, mxu, grid, act, line,
                 unit_pc, halted>>
  /\ Issued

IssueMatrixMultiply ==
  /\ Issuing({"MatrixMultiply"})
  /\ MxuStart(in.ub_row, in.acc_row, in.rows, in.accumulate, in.new_weights)
  /\ unit_pc' = [unit_pc EXCEPT !.mxu = pc]
  /\ UNCHANGED <<ub, hostMem, hif, act, line, halted>>
  /\ Issued

IssueActivate ==
  /\ Issuing({"Activate"})
  /\ ActStart(in.acc_row, in.ub_row, in.rows, in.function, in.pool,
              in.pool_size, in.pool_width)
  /\ unit_pc' = [unit_pc EXCEPT !.act = pc]
  /\ UNCHANGED <<acc, hostMem, hif, fifo, planes, shifter, mxu, grid, halted>>
  /\ Issued

-----------------------------------------------------------------------------
(* The second half of tick(): every unit advances, in this order.            *)

Step(from, to) ==
  /\ phase = from
  /\ phase' = to
  /\ UNCHANGED <<program, pc, halted, stall, unit_pc, before, error>>

AdvanceHost ==
  /\ Step("host", "fifo")
  /\ HostTick
  /\ UNCHANGED <<acc, fifo, planes, shifter, mxu, grid, act, line, stats,
                 activity>>

AdvanceFifo ==
  /\ Step("fifo", "shift")
  /\ FifoTick
  /\ UNCHANGED <<memories, hif, planes, shifter, mxu, grid, act, line, stats,
                 activity>>

AdvanceShifter ==
  /\ Step("shift", "array")
  /\ ShiftWeights
  /\ UNCHANGED <<memories, hif, mxu, grid, act, line, stats, activity>>

AdvanceArray ==
  /\ Step("array", "act")
  /\ ArrayTick
  /\ UNCHANGED <<ub, hostMem, hif, fifo, planes, shifter, act, line, stats,
                 activity>>

(* Mutant: the array's last step is not counted, as it is free afterwards.   *)
CountedAfter ==
  [cycles |-> stats.cycles + 1,
   issued |-> stats.issued,
   mxu_busy_cycles |-> stats.mxu_busy_cycles + (IF mxu.busy THEN 1 ELSE 0),
   stall_cycles |-> IF stall = "None" THEN stats.stall_cycles
                    ELSE [stats.stall_cycles EXCEPT ![stall] = @ + 1]]

(* Mutant: cycles that drain the units before a Halt are not charged.        *)
CountedNoDrain ==
  [cycles |-> stats.cycles + 1,
   issued |-> stats.issued,
   mxu_busy_cycles |-> stats.mxu_busy_cycles
                       + (IF before.working THEN 1 ELSE 0),
   stall_cycles |-> IF stall \in {"None", "WaitForIdle"}
                    THEN stats.stall_cycles
                    ELSE [stats.stall_cycles EXCEPT ![stall] = @ + 1]]

(* The last unit, then the bookkeeping at the end of tick().                 *)
Counted ==
  [cycles |-> stats.cycles + 1,
   issued |-> stats.issued,
   mxu_busy_cycles |-> stats.mxu_busy_cycles
                       + (IF before.working THEN 1 ELSE 0),
   stall_cycles |-> IF stall = "None" THEN stats.stall_cycles
                    ELSE [stats.stall_cycles EXCEPT ![stall] = @ + 1]]

Shifted ==
  \/ shifter.rows_shifted # before.rows_shifted
  \/ shifter.shadow_tile # before.shadow_tile

AdvanceActivation ==
  /\ Step("act", "issue")
  /\ ActTick
  /\ activity' = IF Shifted
                 THEN [activity EXCEPT ![Len(activity)].shifting =
                         shifter.shadow_tile]
                 ELSE activity
  /\ stats' = Counted
  /\ UNCHANGED <<acc, hostMem, hif, fifo, planes, shifter, mxu, grid>>

(* tick() of a halted machine returns at once.                               *)
TickHalted ==
  /\ phase = "issue"
  /\ halted
  /\ UNCHANGED vars

-----------------------------------------------------------------------------
TickThrows == PastTheEnd \/ UnknownOpcode \/ Deadlock \/ Refused

TickIssues ==
  \/ IssueHalt \/ IssueNopOrSync \/ IssueHostTransfer \/ IssueReadWeights
  \/ IssueMatrixMultiply \/ IssueActivate

TickAdvances ==
  \/ AdvanceHost \/ AdvanceFifo \/ AdvanceShifter \/ AdvanceArray
  \/ AdvanceActivation

Next == TickThrows \/ Stalled \/ TickIssues \/ TickAdvances \/ TickHalted

Spec == Init /\ [][Next]_vars

(* run_cycles and run_to_halt tick without pause, so the clock never stops.  *)
FairSpec == Spec /\ WF_vars(Next)

-----------------------------------------------------------------------------
(* Properties                                                                *)

(* Every variable holds a value of the kind the code's type allows.          *)
TypeOK ==
  /\ program \in Seq(Instr)
  /\ pc \in Nat
  /\ halted \in BOOLEAN
  /\ stall \in Stalls
  /\ stats \in [cycles : Nat, issued : Nat, mxu_busy_cycles : Nat,
                stall_cycles : [Stalls -> Nat]]
  /\ activity \in Seq(CycleRecord)
  /\ Len(activity) <= TimelineCycles
  /\ unit_pc \in [host : Int, mxu : Int, act : Int]
  /\ phase \in Phases
  /\ before \in [rows_shifted : Nat, shadow_tile : Int, working : BOOLEAN]
  /\ error \in Errors
  /\ IsMemory(ub, UbAddrs)
  /\ IsMemory(acc, AccCells)
  /\ IsMemory(hostMem, HostAddrs)
  /\ HostTypeOK /\ FifoTypeOK /\ MxuTypeOK /\ ActTypeOK

(* Two units in flight never meet on a row that one of them writes, from the *)
(* cycle an instruction issues to the cycle its unit finishes: the interlock *)
(* table of why_blocked (tpu.cpp:258-331) leaves no pair out.                *)
HostSparesMxu ==
  hif.direction = "HostToUb"
    => ~(HostBusy /\ MxuReadsUbRows(hif.ub_row, hif.rows))
HostSparesAct == ~(HostBusy /\ ActWritesUbRows(hif.ub_row, hif.rows))
ActSparesMxu  == ~(ActBusy /\ MxuReadsUbRows(act.ub_row, ActOutRows))
MxuSparesAct  == ~(ActBusy /\ MxuWritesAccRows(act.acc_row, act.rows_total))
NoRowConflict == HostSparesMxu /\ HostSparesAct /\ ActSparesMxu /\ MxuSparesAct

(* Between the shifter's turn and the next issue, a tile that has arrived is *)
(* either being shifted or waits behind a full shadow plane. The deadlock    *)
(* check (tpu.cpp:62-65) relies on it: a ready tile in an otherwise idle     *)
(* machine would be work still to come that units_idle does not see.         *)
ReadyTileIsMoving ==
  phase \in {"issue", "array", "act"} /\ FrontReady
    => Shifting \/ shifter.shadow_full

(* A deadlock is declared in two cases only, and in both nothing in flight   *)
(* could ever end it: a multiply that wants weights no tile is on the way    *)
(* for, and a Read_Weights when every slot and the shadow plane are taken.   *)
DeadlockIsReal ==
  error = "deadlock" =>
    \/ in.op = "MatrixMultiply" /\ in.new_weights
         /\ fifo = << >> /\ ~shifter.shadow_full
    \/ in.op = "ReadWeights" /\ Len(fifo) = Slots /\ shifter.shadow_full

(* Every cycle is charged once: to the instruction it issued or to the one   *)
(* cause it stalled for (tpu.cpp:97-101, 362).                               *)
StalledCycles ==
  LET s == stats.stall_cycles
  IN  s["HostInterfaceBusy"] + s["WaitForIdle"] + s["WeightFifoFull"]
      + s["MxuBusy"] + s["WeightsNotReady"] + s["UbNotReady"]
      + s["ActivationBusy"] + s["AccNotReady"]
CyclesAccounted ==
  phase = "issue" => stats.cycles = stats.issued + StalledCycles

(* However multiplies, shifts and stalls overlap, one of B rows keeps the    *)
(* array for B + 2 * Dim - 1 cycles, no more, no fewer (tpu.cpp:93-95,       *)
(* systolic_array.cpp:230-232).                                              *)
StepsUpTo[i \in 0 .. Len(program)] ==
  IF i = 0 THEN 0
  ELSE StepsUpTo[i - 1]
       + (IF program[i].op = "MatrixMultiply" /\ program[i].rows > 0
          THEN program[i].rows + 2 * Dim - 1 ELSE 0)
BusyCyclesExact ==
  phase = "issue" =>
    stats.mxu_busy_cycles + (IF mxu.busy THEN TotalSteps - mxu.step ELSE 0)
      = StepsUpTo[pc]

(* PE <<k, n>> holds input row step - 1 - k - n and nothing else: the skew   *)
(* never lets two rows meet, and the grid has drained by the time the array  *)
(* is free for the next multiply (systolic_array.cpp:120-181, 230-232).      *)
Wavefront ==
  \A pe \in PEs :
    LET r == mxu.step - 1 - pe[1] - pe[2]
    IN  grid[pe].row = IF r \in 0 .. mxu.rows - 1 THEN r ELSE -1

(* The partial sum a PE passes down is that of its own input row with its    *)
(* own column of the active plane, whatever the shifter, the host and the    *)
(* activation unit did to planes and Unified Buffer since the start.         *)
PartialSums ==
  \A pe \in PEs : grid[pe].row >= 0 =>
    grid[pe].psum =
      [j \in 1 .. pe[1] + 1 |->
         <<ub[UbAt(mxu.ub_row + grid[pe].row, j - 1)],
           ActivePlane[<<j - 1, pe[2]>>]>>]

(* In the log, a unit takes up an instruction in the very cycle that         *)
(* instruction issued, and until then goes on with the one it had.           *)
TimelineStartsAtIssue ==
  \A i \in 2 .. Len(activity) : \A u \in {"host", "mxu", "activation"} :
    LET now == activity[i][u]
    IN  now \in {-1, activity[i - 1][u], activity[i].issued}

(* A program stops: it halts or a tick throws.                               *)
Stops == <>(halted \/ error # "none")
=============================================================================
