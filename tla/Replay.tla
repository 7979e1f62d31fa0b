------------------------------- MODULE Replay -------------------------------
(* Moving the machine (Tpu::load, run_cycles, next_instructions,             *)
(* back_cycles, prev_instructions in src/src/core/tpu.cpp, and the presses   *)
(* of src/src/ui/shell.cpp that call them). A load replaces the program and  *)
(* resets everything; a move backward is a load of the same program and as   *)
(* many ticks as it takes. One call runs at a time (module Shell says why).  *)
EXTENDS Tpu

CONSTANTS Misfits,   \* programs with a data block that runs past its memory
          Jumps      \* cycles the user may ask to jump to

ASSUME ReplayAssumption == Misfits \subseteq Programs /\ Jumps \subseteq Nat

VARIABLES goal,   \* the call in progress, or the last one
          past    \* history: cycle -> the machine when this program was there

replayVars == <<vars, goal, past>>

(* A call runs until a counter, cycles or issued, comes to its target.       *)
Goal(until, target, forward) ==
  [until |-> until, target |-> target, forward |-> forward, running |-> TRUE]

Over(g) == [g EXCEPT !.running = FALSE]

Idle == ~goal.running

(* Tpu(): no program, everything reset.                                      *)
ReplayInit ==
  /\ Loaded(<< >>)
  /\ phase = "issue"
  /\ before = [rows_shifted |-> 0, shadow_tile |-> -1, working |-> FALSE]
  /\ error = "none"
  /\ goal = Over(Goal("cycles", 0, TRUE))
  /\ past = << >>

(* Everything load() assigns but the units.                                  *)
ResetAround(code) ==
  /\ program' = code
  /\ ub' = [a \in UbAddrs |-> Zero]
  /\ acc' = [c \in AccCells |-> << >>]
  /\ hostMem' = [a \in HostAddrs |-> <<"host", a>>]
  /\ pc' = 0
  /\ halted' = FALSE
  /\ stall' = "None"
  /\ stats' = StatsReset
  /\ activity' = << >>
  /\ unit_pc' = [host |-> -1, mxu |-> -1, act |-> -1]

(* Mutant: load() forgets mxu_.reset().                                      *)
LoadKeepsArray(code) ==
  /\ ResetAround(code)
  /\ hif' = HostReset
  /\ fifo' = << >>
  /\ act' = ActReset
  /\ line' = NoLine
  /\ UNCHANGED <<planes, shifter, mxu, grid, phase, before>>

(* Tpu::load(): a data block that does not fit throws, but only when the     *)
(* program has been replaced and the machine reset. The term of a host byte  *)
(* or a weight stands for whatever the blocks before it left there.          *)
LoadProgram(code) ==
  /\ ResetAround(code)
  /\ hif' = HostReset
  /\ fifo' = << >>
  /\ planes' = [p \in 0 .. 1 |-> NoWeights]
  /\ shifter' = ShifterReset
  /\ mxu' = MxuReset
  /\ grid' = EmptyGrid
  /\ act' = ActReset
  /\ line' = NoLine
  /\ UNCHANGED <<phase, before>>

LoadOutcome(code) == IF code \in Misfits THEN "bad data" ELSE "none"

(* `load FILE` at the terminal, of a file that assembles.                    *)
Load ==
  /\ Idle
  /\ \E code \in Programs :
       /\ LoadProgram(code)
       /\ error' = LoadOutcome(code)
       /\ goal' = Over(Goal("cycles", 0, TRUE))
       /\ past' = [c \in {0} |-> machine']

HasProgram == program # << >>

(* move_once() and jump_to() forward: run_cycles, next_instructions.         *)
Forward(until, target) ==
  /\ goal' = Goal(until, target, TRUE)
  /\ error' = "none"
  /\ UNCHANGED <<machine, phase, before, past>>

(* Backward: back_cycles, prev_instructions; reload() may throw.             *)
Backward(until, target) ==
  /\ LoadProgram(program)
  /\ error' = LoadOutcome(program)
  /\ goal' = LET g == Goal(until, target, FALSE)
             IN  IF program \in Misfits THEN Over(g) ELSE g
  /\ UNCHANGED past

(* Mutant: the unsigned subtraction without the test for 0.                  *)
OneBeforeWraps(n) == (n - 1) % 2^30

OneBefore(n) == IF n > 1 THEN n - 1 ELSE 0

PressForward ==
  /\ Idle /\ HasProgram
  /\ \/ Forward("cycles", stats.cycles + 1)
     \/ Forward("issued", stats.issued + 1)

PressBack ==
  /\ Idle /\ HasProgram
  /\ \/ Backward("cycles", OneBefore(stats.cycles))
     \/ Backward("issued", OneBefore(stats.issued))

Jump ==
  /\ Idle /\ HasProgram
  /\ \E n \in Jumps :
       \/ n > stats.cycles /\ Forward("cycles", n)
       \/ n < stats.cycles /\ Backward("cycles", n)

(* The loop's condition: a forward one stops at Halt, a replay does not look.*)
Counter == IF goal.until = "cycles" THEN stats.cycles ELSE stats.issued

Reached ==
  /\ phase = "issue"
  /\ Counter >= goal.target \/ (goal.forward /\ halted)

Finish ==
  /\ goal.running
  /\ Reached
  /\ goal' = Over(goal)
  /\ UNCHANGED <<vars, past>>

(* What a completed cycle adds to the history: the first time at a cycle     *)
(* stands.                                                                   *)
Remembered ==
  [c \in DOMAIN past \union {stats'.cycles} |->
     IF c \in DOMAIN past THEN past[c] ELSE machine']

RunCycle ==
  /\ goal.running /\ ~Reached
  /\ Stalled \/ TickIssues \/ TickAdvances \/ TickHalted
  /\ past' = IF stats' # stats /\ phase' = "issue" THEN Remembered ELSE past
  /\ UNCHANGED goal

(* The exception leaves the loop and ends the call.                          *)
RunThrows ==
  /\ goal.running /\ ~Reached
  /\ TickThrows
  /\ goal' = Over(goal)
  /\ UNCHANGED past

ReplayNext ==
  \/ Load \/ PressForward \/ PressBack \/ Jump
  \/ Finish \/ RunCycle \/ RunThrows

ReplaySpec == ReplayInit /\ [][ReplayNext]_replayVars

(* A call runs until it returns; the user owes no press.                     *)
FairReplay == ReplaySpec /\ WF_replayVars(Finish \/ RunCycle \/ RunThrows)

-----------------------------------------------------------------------------
(* Properties                                                                *)

(* Going back is exact: whenever the clock comes to a cycle it has been at   *)
(* since this program was loaded, the whole machine is what it was then, log *)
(* and counters included (tpu.cpp:179, docs/microarch.md:17).                *)
ReplayIsExact ==
  [][stats' # stats /\ phase' = "issue" /\ program' = program
       /\ stats'.cycles \in DOMAIN past
     => machine' = past[stats'.cycles]]_replayVars

(* Every call returns; the loops of back_cycles and prev_instructions do not *)
(* look at halted_ and would spin on a machine that stopped short of the     *)
(* counter they wait for (tpu.cpp:141-171).                                  *)
CallsReturn == goal.running ~> ~goal.running

(* "Back n cycles: reloads the program and replays up to that cycle"         *)
(* (tpu.h:39), "exact because the machine is deterministic" (README.md:51):  *)
(* a call that went back leaves the machine at the cycle or the issue asked. *)
BackLands == Idle /\ ~goal.forward => Counter = goal.target
=============================================================================
