# Mini-TPU: specification, model checking and proofs

Mini-TPU simulates a small tensor processor cycle by cycle. A program is a list
of fixed-width instructions that move rows between host memory, an on-chip
Unified Buffer, a systolic array and accumulators. The simulator issues the
instructions in order, lets the units that execute them overlap, and is meant to
leave exactly the result of running them one at a time. This directory says what
that means, checks it with TLC on small machines, and proves parts of it with
TLAPS for machines of any size.

Paths below are relative to the repository root (`src/core/tpu.cpp`,
`docs/microarch.md`, ...); `PROJECT.json` maps every definition to its lines.

## 1. The system

### Components

| Component | State it keeps | Operations | Used by |
|---|---|---|---|
| Tpu core (`src/core/tpu.cpp`) | program, PC, halted flag, stall cause, counters, activity log, what each unit last started | `load`, `tick`, `run_cycles`, `run_to_halt`, `next_instructions`, `back_cycles`, `prev_instructions` | Shell, tools, snapshots |
| Host interface (`src/units/host_interface.cpp`) | one transfer and its byte count | `start`, `tick`, `busy`, `writes_ub_rows`, `reads_ub_rows` | Tpu |
| Weight FIFO (`src/units/weight_fifo.cpp`) | up to four tile slots, each partly filled from DDR3 | `push`, `tick`, `front_ready`, `pop` | Tpu, weight shifter |
| Systolic array (`src/mxu/systolic_array.cpp`) | two weight planes, the shifter's progress, one multiply, the registers of every PE | `start`, `tick` (shift a weight row, then step the array) | Tpu |
| Activation unit (`src/units/activation.cpp`) | one Activate, a line buffer for pooling | `start`, `tick` | Tpu |
| Memories (`src/mem/`) | Unified Buffer, accumulators, host and weight DRAM in pages allocated on first write | `read`, `write`, range checks | all units |
| Instruction set (`src/isa/isa.cpp`) | none | `encode`, `decode`, `disasm` | Tpu, assembler, compiler |
| Assembler (`src/isa/asm.cpp`) | while it runs: the line, the open data block, the program so far | `assemble`, `program_text` | Shell, tools |
| Compiler (`src/compiler/compiler.cpp`) | none | matmul, MLP and convolution schedules | tools |
| Reference operations (`src/ref/ref_ops.cpp`) | none | matmul, conv2d, pooling, rounding | tests, activation unit |
| Shell (`src/ui/shell.cpp`) | a reference to the Tpu, a mutex, a quit flag, an observer | `load`, `move`, `jump`, `press`, queries | terminal, server |
| Line editor and REPL (`src/ui/`) | the line, the history | keys | user |
| Visualizer server (`src/viz/server.cpp`) | the latest snapshot and its number, open streams, a stop flag | `publish`, HTTP handlers, event streams, shutdown | browser |
| Snapshots (`src/viz/snapshot.cpp`, `state.cpp`) | none | one machine state as text | Shell, server |
| Page (`viz/app.js`) | the latest snapshot; per half the view, the scroll position, the rows held, whether a fetch is in flight and whether another was wanted | `render`, `refresh`, `show`, `goToRow`, `load` | user |

### How they interact

* `Tpu::tick` is the only clock. It checks the instruction at the PC against
  every unit that is busy (`why_blocked`), issues it or records a stall, then
  ticks host interface, FIFO, shifter, array and activation unit in that order,
  all on shared memories with no copies. No unit knows of another; the
  interlocks in `why_blocked` are all that keeps two of them off one row.
* The shifter takes tiles out of the FIFO by itself. Issue meets it in one flag,
  `shadow_full`.
* A backward move is a `load` of the same program followed by a replay.
* The Shell serialises the terminal and the browser with one mutex. The server
  runs a thread per stream, and its observer is called from the Shell.
* The page fetches memory rows for the snapshot it shows while newer snapshots
  keep arriving. The answers come from the machine as it is, not from the
  snapshot; the page checks their cycle when the head arrives and decodes the
  body later.
* A DRAM is stored in pages allocated on demand. Snapshot, `/rows` and page each
  number the rows of the pages in use for themselves.

### What is hard, and what must hold

| Component | Hard behaviour | What makes it correct |
|---|---|---|
| Core | every interleaving of five units with an in-order issue; the deadlock check; an exception in mid-cycle | same effect as one instruction at a time; a deadlock is declared only when nothing can ever move; every cycle is charged once |
| Host interface | pieces end in the middle of a row; the last piece is short | no byte past the transfer; the interlock covers the whole transfer |
| FIFO and shifter | uneven tile pieces; a slot is held until its last row has been shifted; plane switch while the next tile is ready | bytes never exceed a tile; the active plane is never written; no ready tile is left waiting |
| Array | skewed waves, accumulate or overwrite, zero-row multiplies | each PE holds its own row's partial sum; the grid is empty when the array is free |
| Activation unit | windows over bands, in-place output | the windows of the reference pooling; the interlock covers the rows really written |
| Replay and Shell | a load that fails half-way; back and jump | a backward move lands on the state the machine had |
| Encoding, assembler | each field has its place and width twice; data blocks opened and closed by other statements | every line comes back from its twelve bytes; every byte lands where its directive says; the printed text assembles to the same program |
| Compiler | prefetch distance against FIFO slots; accumulator double buffering | no schedule deadlocks; the right result |
| Server | publish against a stream that is about to wait; shutdown against both | nobody waits for ever; a stream ends with the last snapshot |
| Memories and their way to the page | copies over page boundaries, sizes near 2^64; rows of a sparse memory numbered in three places | a paged memory is a flat one; the rows painted are the rows written, and the row fetched is the row its label names |
| Accumulators and activation | adds that wrap; the most negative sum; halves and odd divisors | a sum that fits is exact; an activated or averaged byte is the reference's |
| Page | a fetch answered after a move, a switch or a scroll; a load while one is in flight; a stream that skips snapshots | no visible row is forgotten; nothing is refused while page and machine agree; a row that is not the machine's has a known cause; the page comes to rest |

`PROJECT.json` lists the hazards behind this table line by line, each with the
properties that watch it.

## 2. The modules

### Data

Bytes and sums are *terms*: the host byte at address 5 is `<<"host", 5>>`, a sum
is the sequence of products added into it, an activated value is the function
applied to a sum, a pooled value is the sequence of values that joined its
window, in order. Two runs agree on a cell only when the same data reached it by
the same operations, which is stronger than agreeing on some numbers, and it
makes a byte read one cycle too early visible always and not just when its value
differs. The arithmetic that the terms leave open is in `Arithmetic` and
`Column`, in integers. The page's rows are terms too: the view, the row and the
machine that a value was read from.

### Structure

`Tpu` is built from its units by `EXTENDS`; each unit's module has its
variables, the code's queries as state predicates, and `start` and `tick` as
actions that say what they leave unchanged among what they touch. `Replay` and
`CompiledTpu` extend the whole machine; `Simulator` composes the threads. `Page`
stands beside them: it has its own small picture of the simulator (the latest
snapshot, the stream, the answers), the part of `VizServer` a page can see.
`Snapshot` extends `Dram` and `Column` extends `Arithmetic`.

| Module | Models | Notes |
|---|---|---|
| `Isa` | `isa.h`, `check_pooling`, `overlaps`, `activate_output_rows` | decoded instructions; a word `decode` rejects is the op `"Unknown"` |
| `Encoding` | `encode`, `decode` | byte by byte; a 32-bit operand is its four bytes |
| `Assembler` | `assemble`, `disasm`, `program_text` | one action per statement; assembled, printed, assembled again |
| `Memories` | `src/mem/` | contents, addresses, and the state after `load` |
| `HostInterface` | `host_interface.cpp` | byte-granular pieces |
| `WeightFifo` | `weight_fifo.cpp` | one channel, oldest incomplete tile first |
| `SystolicArray` | `systolic_array.cpp` | shifter, planes, every PE |
| `ActivationUnit` | `activation.cpp` | plain rows and pooling through the line buffer |
| `Tpu` | `tpu.cpp` | interlocks, errors, issue, the unit ticks, log and counters |
| `SequentialTpu` | `Tpu::issue` with each instruction run to completion, results as in `ref_ops.cpp` | the abstract specification |
| `TpuRefinement` | | the refinement mapping |
| `Replay` | `Tpu::load`, the run and replay loops, the presses that call them | the whole `Tpu`, with a history of the machine at every cycle |
| `Cycle` | `tick()` once more, as a function | what each phase makes of a machine; the proof that a replay is exact needs it |
| `Compiler` | `compiler.cpp` | functions from a network to a program, data blocks as a map from addresses to terms |
| `CompiledTpu` | `ref_matmul`, `ref_conv2d`, `ref_pool` and `read_result` | `Tpu` running a compiled program beside its reference |
| `Threads` | the threads of `tpu_sim` | `at`: what each thread does next |
| `Shell` | `shell.cpp` | the mutex, the observer, lines and presses; the machine is a file and a cycle |
| `VizServer` | `server.cpp` | accept loop, connections, streams, publish, destructor |
| `Simulator` | `tools/tpu_sim.cpp` | `Shell` and `VizServer` with `main()` |
| `Page` | one half of the row inspector of `viz/app.js`, with `serve_events`, `rows_bytes` and `pes_bytes` as it meets them | a machine state is a file and a cycle, as in `Shell` |
| `FlatMemory` | what `dram.h` promises | the abstract specification of `Dram` |
| `Dram` | `mem/dram.h` | pages, pieces, range check, written-row marks; implements `FlatMemory` |
| `Snapshot` | the runs of `snapshot.cpp`, `paged_rows` of `state.cpp`, the row numbers and painted cells of `app.js` | functions of a `Dram`'s state |
| `Arithmetic` | the wrapping add, `shift_and_round`, `saturate`, `average`, `append_i32` | the reference beside it as a definition of "nearest" |
| `Column` | one column of the machine in numbers: sums drain, are activated and join windows | each value with the integer it ought to be, as history |
| `MCTpu`, `MCReplay`, `MCCompiler`, `MCAssembler`, `MCPage`, `MCMemory`, `MCColumn` | | programs, networks, sources, views, ranges and numbers of the runs |
| `TpuProofs`, `CompiledProofs`, `AssemblerProofs`, `SimulatorProofs`, `PageProofs`, `DramProofs`, `ColumnProofs` | | theorems; `TpuProofs` is about the machine, its units, `Replay` and `TpuRefinement`, `DramProofs` about `Dram` and `Snapshot` |
| `NaturalLemmas` | | induction over the naturals, least and greatest members, running sums |

**`phase`.** `tick()` is one call and nothing interleaves with it. The model
splits it at the points where the code calls a unit, so that each unit is one
action. `phase` is the place in `tick()`; `before` holds its locals. An observer
of the machine sees the states where `phase = "issue"`. Every property that is
about such a state says so. A throw happens in phase `"issue"` only, because
`why_blocked` and `issue` run before any unit has moved.

**Actions and code.**

| Action | Code |
|---|---|
| `PastTheEnd`, `UnknownOpcode`, `Deadlock`, `Refused` | the `fail_at_pc` paths of `tick`, and a `start` or `push` that throws |
| `Stalled` | blocked with a unit busy: record the cycle, advance the units |
| `IssueHalt` ... `IssueActivate` | the cases of `issue`, each with its record of the cycle |
| `AdvanceHost` ... `AdvanceActivation` | the ticks, the last with the bookkeeping at the end of `tick` |
| `TickHalted` | a tick of a halted machine, which returns at once |
| `Replay`: `Load` | `load FILE`: the program replaced, everything reset, then the data blocks, one of which may throw |
| `PressForward`, `PressBack`, `Jump` | `Shell::move_once`, `jump_to` and the call into `Tpu` they make; a backward one contains the `load` of `reload` |
| `RunCycle`, `RunThrows`, `Finish` | the loops of `run_cycles`, `next_instructions`, `back_cycles`, `prev_instructions`, each cycle the ticks above |
| `Shell`: `LockShell` ... `UnlockShell` | `run_command` and `press`, cut where another thread can get between |
| `VizServer`: `Publish`, `Notify`; `AcceptTop` ... `Spawn` | `publish`; `accept_loop` |
| `ReadRequest` ... `Reply` | `serve` with `serve_move`, `serve_jump`, `serve_data` |
| `CheckNews` ... `Send` | `serve_events`: check, fall asleep, be woken or time out, take the latest, send |
| `Stop` ... `JoinWorkers` | `~VizServer` |
| `Assembler`: `OpenBlock`, `AppendData`, `AppendCode`, `Fail`, `PrintText` | `directive`, `data`, `instruction`, `fail`, `program_text` |
| `Page`: `Receive`, `Scroll`, `Show` | `render`, the scroll bar and `goToRow`, `show`, each with the `load` it ends in |
| `TakeHead`, `TakeBody`, `FetchFails` | `load` behind `await fetch`, behind `await arrayBuffer`, and its `catch`; each ends in `finally` and the load that was noted meanwhile |
| `Publish`, `SendEvent`, `Reconnect`, `Answer`, `Exit` | what the simulator and the connection do to a page |
| `Dram`: `Write`, `Read`, `Refuse`, `WritePiece`, `ReadPiece`, `Return` | `write` and `read`: the range check and the marks, one turn of the loop at a time, the return |
| `Column`: `Overwrite`, `Accumulate`, `ActivatePlain`, `ActivatePooled` | a sum that drains, a row through the activation unit |

After a throw the model lets the caller tick again; it throws again. That is
what a user who keeps pressing Step gets.

**The threads.** A thread's place in its own code is `at[t]`. Steps are cut at
every lock, unlock, wait, notification and flag that another thread can see. A
mutex is a variable where the code can be overtaken inside the critical section
(the Shell's, and the server's between the check and the wait); a section that
only reads or assigns is one step that needs the mutex free. The machine is a
file and a cycle there: that names one state of it because it is deterministic,
which is what `BackIsExact` proves of the machine itself.

**The compiler** keeps no state, so it is a set of functions: `Plans` (where
every layer reads and writes), `TileAt` (order of the weight tiles), `Code` (the
instructions), `HostByte` and `WeightByte` (what the data blocks put where).
Values stay terms. `Denoted` turns the bytes of the finished machine into terms
of the network by replacing addresses by what the data blocks hold there and
dropping products with padding weights, which are zero; the result is compared
with the reference loops, term by term and in the order of the additions.

**The assembler** sees a source as statements: what `tokenize` leaves of each
line. A number is the value it denotes; an operand whose text denotes none is
marked. A 32-bit number is its four bytes, lowest first, so fields at the end of
the 32-bit range need no large integers.

**The page** is one thread, so a handler is one step; it is cut at the two
`await`s of `load`, where every other handler may run. `viewer.request` is the
fetch in flight with its stage: asked, answered (the machine that answered is
fixed then), head taken and body on its way. `viewer.again` is the note a load
leaves when one is in flight. `under`, `from` and `overtaken` are history: the
snapshot shown when it was asked, the machine that answered, and whether the
page moved on before the body came. Nothing in an action reads them but the
properties. The stream is a queue of at most `MaxInTransit` snapshots, and one
that is published while the queue is full is superseded, as in `serve_events`.

**Sizes of integers.** `Arithmetic` takes the halves of its ranges as constants:
2^7 and 2^31 in the code, four bytes to a word in any case. TLC runs it with
bytes of two bits; the theorems hold for both. `Dram` keeps the width of its
sizes, `2 ^ Width`, because a check that adds would wrap there.

### Abstract specifications

`SequentialTpu` executes one instruction per step: a transfer copies all its
rows, a multiply delivers all its sums, an Activate all its rows or windows.
Weights are a queue of tile numbers with room for `Slots + 1` (the shadow plane
is one more place) and the tile in the active plane. `Possible` says when an
instruction can run at all, and `CanContinue` when a program can go on.

`TpuRefinement` shows that `Tpu` implements it. The mapping is by *flushing*:
the sequential memories of a pipelined state are what they become when every
transfer, multiply and Activate in flight is finished. So the machine's issue
step maps to the sequential step, and every advance of a unit maps to a stutter:
moving a byte from "in flight" to "done" must not change the flushed memories,
and it does not only as long as the interlocks keep other units off the rows
involved. `ErrorsAreTheProgrammers` is the other half: the machine throws only
where the sequential machine cannot continue either.

`FlatMemory` is an array of bytes that a call reads or writes in one step, or
refuses. `Dram` implements it by flushing too: what the call under way has still
to copy counts as copied, so the step that starts a call maps to the flat call,
and every piece to a stutter. A piece put on the wrong page, taken from the
wrong place in the source, or read from a page never written changes the flushed
memory and is a step no flat memory takes.

## 3. The runs

| Run | Instance | Checks |
|---|---|---|
| `pipeline` | 2 x 2 array, 3 UB rows, 4 accumulator rows; 4 394 programs that put units on the same rows, 4 352 that mostly stop with an error | `TypeOK`, `NoRowConflict`, `ReadyTileIsMoving`, `CyclesAccounted`, `TimelineStartsAtIssue`, `DeadlockIsReal`, `ErrorsAreTheProgrammers`, `RunsInProgramOrder`, `Stops` |
| `wide` | 3 x 3 array, 4-byte host pieces over 3-byte rows, 5-byte weight pieces over 9-byte tiles, 512 programs; pooling of every window size up to 3, width up to 6 and up to 12 pixels, with a following instruction | `Wavefront`, `PartialSums`, `BusyCyclesExact`, `RunsInProgramOrder` |
| `replay` | 1 x 1 array; three programs (all units, no Halt, a deadlock), any sequence of loads, steps, steps back and jumps | `ReplayIsExact`, `CallsReturn` |
| `networks` | 2 x 2 array; 111 compilable networks and convolutions of 1 to 3 layers | `ResultsAreTheReference`, `CompiledProgramsHalt` |
| `assembly` | rows of 2 bytes, tiles of 2 rows, directives up to row and tile 1; 9 407 sources | `WordsMeanTheirLines`, `BytesLandWhereTheSourceSays`, `TextReadsBack` |
| `threads` | 2 connections, 1 program, 3 cycles, 2 snapshots | `TypeOK`, `LatestIsTheMachine`, `MachineIsReadAlone`, `NoThreadOutlives`, `PagesCatchUp`, `PressesAreAnswered`, `ShutdownEnds` |
| `page` | 5 views (paged, FIFO, accumulators, two PE fields), a window of 2 rows, answers of at most 2 rows, 1 program of 2 cycles | `PageTypeOK`, `NothingIsForgotten`, `InStepIsNeverRefused`, `StaleRowsAreRaces`, `PageSettles` |
| `memory` | 12 bytes in 3 pages of 2 rows, 4-bit sizes, 2 writes | `DramTypeOK`, `IsFlatMemory`, `PaintsWhatIsWritten`, `RowsAreAsLabelled` |
| `arithmetic` | bytes of 2 bits, words of 8, shifts up to 4, windows of 4 and 9 | `ColumnTypeOK`, `SumsAreExact`, `ValuesAreTheReference`, `WindowsAreTheReference` |
| `misfit` | a program whose data does not fit | violates `BackLands` |
| `empty` | a layer without inputs | violates `ResultsAreTheReference` |
| `page_reload` | as `page` | violates `PageAtRestIsCurrent` |

**What the properties say.**

* `RunsInProgramOrder` - the refinement above.
* `NoRowConflict` - for every pair of units in flight, the rows one writes are
  apart from the rows the other reads or writes, over whole instructions and not
  only for the byte of this cycle.
* `ReadyTileIsMoving` - what the deadlock check silently relies on: when an
  instruction is checked, no fully arrived tile is idle behind an empty shadow
  plane.
* `DeadlockIsReal` - the two situations in which a deadlock is declared, neither
  of which any work in flight could end.
* `CyclesAccounted`, `BusyCyclesExact` - the counters behind the efficiency
  figures: cycles = issued + stalled, and a multiply of B rows is busy for
  exactly B + 2 Dim - 1 cycles however it overlaps.
* `Wavefront`, `PartialSums` - at every step each PE holds the partial sum of
  one known row with its column of the active plane.
* `TimelineStartsAtIssue` - in the log a unit changes to an instruction only in
  the cycle that instruction issued.
* `ErrorsAreTheProgrammers`, `Stops` - no error the program does not deserve,
  and no program without loops runs for ever.
* `ReplayIsExact` - whenever the clock comes to a cycle it has been at since this
  program was loaded, the whole machine (memories, planes, grid, log, counters)
  is what it was then. A register that `load` forgets to reset shows.
* `CallsReturn` - the replay loops, which do not look at `halted_`, never wait
  for a counter the machine does not reach.
* `ResultsAreTheReference`, `CompiledProgramsHalt` - what a user finds in host
  memory is the reference's result, and no compiled schedule deadlocks on the
  FIFO or trips a range check.
* `WordsMeanTheirLines` - each word decodes to the operation and the operands of
  its line and zero for the rest; a pooling word has a window to divide by.
* `BytesLandWhereTheSourceSays` - the data blocks, against a definition that
  counts values since the last directive.
* `TextReadsBack` - a program's text assembles to the same words and the same
  memory contents, blocks over each other included, but for the one thing the
  text leaves out: a byte may be what an earlier block says where the last block
  over it says zero. It is refused only when a byte that is not zero lies past
  the last row or tile a directive can name.
* `LatestIsTheMachine` - between two commands the snapshot being served is the
  machine as it is, after presses that throw as well.
* `MachineIsReadAlone` - the machine does not move while a thread copies it,
  which `main()` does once without the Shell's mutex.
* `NoThreadOutlives`, `ShutdownEnds` - the destructor returns, and then no thread
  is left, although `stopping_` is set without the lock and a connection may be
  accepted at that moment.
* `PagesCatchUp` - a page that stays connected is shown the last snapshot.
* `PressesAreAnswered` - the two mutexes never wait for each other.
* `NothingIsForgotten` - with no fetch in flight, every row on the screen is held,
  unless it was refused because the simulator is ahead, and then a snapshot is
  still to come. The note `again_` is one bit for any number of scrolls, switches
  and snapshots.
* `InStepIsNeverRefused` - page and server count rows separately
  (`ServedRowCount`: the pages listed in the snapshot by `ROWS_PER_PAGE`, or the
  rows the page knows; `RowsHeld`: the pieces or the values in the state by
  `kRowValues`); a count that differs refuses a whole answer, and nothing asks
  again.
* `StaleRowsAreRaces` - a page at rest shows a row of another machine only for
  one of three causes, which section "Disagreements" lists.
* `PageSettles` - unless user, machine and connection keep moving for ever, the
  page comes to rest with every visible row held (or its simulator is gone).
* `IsFlatMemory` - the refinement of `FlatMemory`.
* `PaintsWhatIsWritten`, `RowsAreAsLabelled` - after any writes the cells painted
  are exactly the rows that hold data, and the row fetched for a place on the
  screen is the row whose number stands beside it, also with pages missing in
  the middle.
* `SumsAreExact` - an accumulator differs from its true sum by a multiple of
  2^32, so a sum that passes the end and comes back is exact again.
* `ValuesAreTheReference`, `WindowsAreTheReference` - rounding and clamping as in
  `llround` of the exact quotient, the most negative sum included; a window's
  byte is its maximum or nearest to its mean and inside what it was made of.

**Bounds.** Programs of `pipeline` are a prologue and every combination of two or
three instructions from a set chosen so that each pair of units meets on the
same rows in both orders, with partial overlap and with none, with zero rows,
with in-place pooling and accumulation. Two units that conflict, plus one
instruction that observes the result, are enough for any failure of a pairwise
interlock; the prologue provides a third unit at work. Sizes are the smallest
with the interesting remainders: a host piece shorter and longer than a row, a
last tile piece that is short, more tiles wanted than slots, transfers as large
as the Unified Buffer. Programs have no loops in this instruction set, so every
state space is finite without any constraint. `TimelineCycles` is 3 so that the
log overflows.

`replay` needs only programs that reach every register; jumps go to a cycle in
the middle and to one past every program's end. `networks` has matrices that fill
their blocks and that do not on either side, batches up to one accumulator
buffer and beyond it (which turns double buffering off), pooling between layers,
and convolutions with a kernel as large as the image. Two columns make up to four
tiles per layer, with two slots and two tiles of prefetch, as many as slots like
the real machine. `assembly` takes every operand at an inner value, at the
largest its field holds and one past it, all flags and options in combination,
and every sequence of up to four directives, data lines and instructions.
`LastAddress`, the largest number a directive takes, is 1 in place of 2^32 - 1,
so blocks over each other, and blocks that cross the last row that can be named,
are among the sources. In
`threads`, `MaxSnapshots` bounds the lines typed; two connections are a page's
stream and a press, or two pages. It checks liveness and uses no symmetry.

In `page` a window of two rows and answers of two make a row that is held beside
one that is not, and views that grow in the machine's last cycle make requests
that fit the machine they were made under and not the one that answers. One snapshot in transit is enough for the page to be behind; a
second published meanwhile supersedes it. Reloading the one program is a machine
of the same file at cycle 0, and no program at cycle 0 is another file at the
same cycle. In `memory` ranges are empty, inside a row, over a row's end, over
one page's end and over two, and past the end; with 4 bits a sum of 15 and 4 is
small again. In `arithmetic` three psums reach -128 exactly, pass it, and come
back; the shifts reach past the width of a byte, and the divisors are even and
odd.

**Fairness.** `FairSpec` of `Tpu`, `CompiledSpec` and `FairReplay` ask for weak
fairness of the tick: `run_to_halt`, `run_cycles` and the replay loops call it
again and again. The user owes no press. `FairSpec` of `Simulator` is strong
fairness for each thread's own steps: a thread that asks for a mutex again and
again gets it, sockets have timeouts so that reads and sends end, and
`wait_for` returns after a second. Connecting, typing and ending the input are
not fair. `FairSpec` of `Page` is weak fairness of everything that merely goes on
(`Proceeds`: the stream sends, the server answers, the browser delivers what has
arrived); nothing is asked of the user, the machine or the connection, and
`PageSettles` promises nothing while these (`Disturbs`) never stop. All safety properties hold without fairness; where a run uses a fair
specification for them it is because it checks liveness too.

**Deadlock checking** is on wherever the machine runs on: a halted machine ticks
(`TickHalted`) and a failed one throws again. It is off in `assembly`, since
`assemble` returns, in `threads`, since the process ends, and in `page`, since a
page whose simulator is gone and that was never sent a snapshot has nothing left
to do.

### Disagreements

* `BackLands` (run `misfit`). `load` replaces the program and resets the machine
  before it writes the data blocks, and a block past the end throws. The
  terminal says error, the page can still step the new program; a step back
  reloads, throws again, and leaves the machine at cycle 0.
  `src/core/tpu.h:39` promises the replay.
* `ResultsAreTheReference` (run `empty`). `compile_layers` accepts a layer whose
  weight matrix has no rows. Its output blocks get no multiply but an
  `Activate`, which delivers the sums of an earlier layer; the reference gives
  zeros.
* `PageAtRestIsCurrent` (run `page_reload`). `refresh` (`viz/app.js:719`) clears
  the held rows when the cycle number changes, and `viz/app.js:717` says that
  with a new snapshot every value held belongs to an older cycle. A program
  loaded while the machine is at cycle 0 publishes cycle 0 again, and the page
  goes on showing the rows of the machine before the load.

The other two causes in `StaleRowsAreRaces` are races of the page with itself
and with the stream. `load` compares view and cycle when the head of an answer
arrives (`viz/app.js:790`) and stores the rows when the body does; a snapshot or
a switch in between leaves rows of the older cycle among the newer ones until
the next move. And an answer may come from a machine that is already further on
while the snapshot that says so is under way; should the machine then return to
the cycle asked for, the page takes the rows and keeps them. `TakeHead` checks
the cycle of the request and not of the machine that answered, because the
answer does not carry it.

Smaller ones have no run. `src/core/tpu.cpp:52` and `docs/microarch.md:20` say
that an error leaves the machine as it was before the cycle, but `tick` assigns
`stall_` before the deadlock check and before `issue` can throw, so the stall
cause shown is that of a cycle that never happened; nothing else changes (the
actions `Deadlock` and `Refused` of `Tpu` show it). `docs/kernels.md:41` says the
DDR3 channel never waits on an instruction; the `Read_Weights` for a freed slot
follows a multiply in program order, and when a multiply outlasts a tile fetch
the next one waits for the array and the channel is idle.
`docs/microarch.md:16` says the activity log holds 512 cycles, `kTimelineCycles`
is 64. `src/viz/server.cpp:357` says every new snapshot goes out; a stream takes
the latest, so one published between two of its looks is dropped (the last never
is: `PagesCatchUp`). And `src/isa/asm.cpp:374` says a row of zeros needs no text
because memory starts zeroed; a zero over an earlier block is lost in the text,
and `TextReadsBack` says that nothing else is. `src/isa/asm.h:18` calls the text
one that `assemble()` reads back; a block that crosses row 2^32 - 1 (tile
2^32 - 1 of the weights) is assembled, and `src/isa/asm.cpp:399` prints its next
row as `.host 4294967296`, which `src/isa/asm.cpp:199` refuses. Run `assembly`
reaches that error with its smaller `LastAddress`, and `TextReadsBack` says it is
the only one. The compiler makes no blocks of either kind.

## 4. The proofs

All theorems hold for every value of the constants: any array side, memory
sizes, bandwidths, slot and tile counts, any set of programs whose instructions
`encode` accepts; any number of connections and programs; any views, windows and
limits of the page; any sizes of memories, pages, bytes and words. They rest on
the named assumptions of the modules and on nothing else: sizes are natural
numbers, positive where the code divides or loops by them; threads are distinct;
pages divide a memory and rows divide pages (`SnapshotAssumption`: a page is a
tile, `kMxuDim` rows of `kMxuDim` bytes, `src/mem/dram.h:18`, and both memories
are many of them, `src/common/config.h`); the sources given to the
assembler are statements as `tokenize` and `number` leave them
(`SourcesAssumption`); the rows of the Unified Buffer and the accumulators that
the page takes for granted are those they have, and a page on the screen has the
rows of a piece in the server (`PageAssumption`: `UB_ROWS`, `ACC_ROWS` and
`ROWS_PER_PAGE` of `viz/app.js` against `kUbRows`, `kAccRows` and `kTileBytes`); at least one tile is read ahead (`CompilerAssumption`:
`kPrefetchTiles` is 4, `src/compiler/compiler.cpp:13`); networks have counts that
are natural numbers and the functions and poolings of `Layer`, and what is
compiled of them has operands that `encode` accepts (`NetworksAssumption`;
`compile_layers` calls `encode` on every word).

| Theorem | Property | Inductive invariant |
|---|---|---|
| `TypeCorrect` (`TpuProofs`) | `TypeOK` | `TypeInv`: types, plus `ShifterOK` (a shadow plane that is not full has a row left to shift, or `rows_shifted` could pass `Dim`) and a non-empty log during a cycle (or the last entry could not be amended) |
| `UnitsNeverMeet` | `NoRowConflict` | its four parts together: an issue is checked against every busy unit, and a tick can only end a unit's operation |
| `ReadyTilesMove` | `ReadyTileIsMoving` | itself, by where in the cycle the FIFO and the shifter change |
| `DeadlocksAreReal` | `DeadlockIsReal` | `DeadlockLasts`: a machine that declared a deadlock is still blocked and idle; then `ReadyTileIsMoving` and the interlock table leave two cases |
| `CyclesAreAccounted` | `CyclesAccounted` | `CyclesInv`: in mid-cycle the cycle, and the stall it may be, are still to be counted |
| `LogStartsAtIssue` | `TimelineStartsAtIssue` | `LogInv`: a busy unit stands in the last record with the instruction it last started |
| `BusyCyclesAreExact` | `BusyCyclesExact` | `BusyInv`: cycles counted and cycles the multiply in flight has still to go are those of the multiplies started |
| `RowsNeverMeet` | `Wavefront` | `ArrayInv`: a busy array has a step left, a free one has taken them all, so the next multiply finds the grid empty |
| `SumsAreTheirRows` | `PartialSums` | `SumsInv` with `PoolInv`: with its sum a PE passes on the activation its neighbour needs next; the multiply's rows stay as they were, the host and the activation unit being kept off by `NoRowConflict`, a pooling operation because it writes no row past those the interlocks count for it |
| `BackIsExact` | `ReplayIsExact` | `ReplayInv`, below |
| `LoadsLeaveNothing` | the eight invariants above, after loads and in replays | `Kept`: the invariants of the machine hold of a machine just loaded, whatever was in flight when it was loaded |
| `BackLandsUnlessItThrows` | (`BackLands`, but for the data block of run `misfit`) | `Landing`: a replay that has not thrown counts towards the cycle, or the instructions, it was sent to, and has not passed it |
| `ProgramOrder` | `RunsInProgramOrder` | `RefInv`, below |
| `ErrorsComeFromTheProgram` | `ErrorsAreTheProgrammers` | `ErrorLasts`: a throw changes nothing a tick looks at, so its reason lasts; each reason keeps the flushed machine from running the instruction too, a deadlock by `DeadlockLasts` |
| `CompiledIsReference` (`CompiledProofs`) | `ResultsAreTheReference`, of networks each layer of which has an input | `FollowsInv` with `HaltedInv` and `SourceInv`, below |
| `TypeCorrect` (`SimulatorProofs`) | `TypeOK` | `AtInv`, `DataOK`: every thread stays in its own code |
| `PublishedIsCurrent` | `LatestIsTheMachine` | `PublishedInv`: a thread about to publish holds the machine as it is, since no other can move it; once the holder of the Shell's mutex is past its publish, the latest snapshot is the machine |
| `SnapshotsAreWhole` | `MachineIsReadAlone` | `LockInv`, `StartInv`: inside the Shell only with its mutex, except that `main()` captures once without, and then no program is loaded, so no press can move |
| `ThreadsAreJoined` | `NoThreadOutlives` | `JoinInv`: whoever was accepted is with the accept thread, in `client_threads_` or in the destructor's copy, and the copy is made when the accept thread is gone |
| `EncodeIsDecoded` (`AssemblerProofs`) | (`WordsMeanTheirLines` checks its consequence) | no induction: fields of an instruction share no byte, and each is read where it was written |
| `LinesBecomeTheirWords` | `WordsMeanTheirLines` | `WordsInv`: one word for each line of code so far, in their order; the printed text is a source again, so the second pass is no other case |
| `BytesLand` | `BytesLandWhereTheSourceSays` | `DataInv`: what memory would hold by now is what the lines so far say; the open block is of the owner of the next data line and as long as the values since |
| `TextIsReadBack` | `TextReadsBack` | `FineInv`: every block begins a row and holds bytes, so it has a text and each row's directive points back at it; `RereadInv`: in the second pass a line of data or code is never refused, since `Disasm` of a decoded word is parsed to that word, and the code so far begins the code printed; a directive is refused only for its number, and under it stands a byte that is not zero, past `Reach`. The bytes are `DataInv` of the text: its data lines are the rows of the blocks up to the last byte that is not zero, so the last line over a byte is of the last block over it, if that byte is not zero there |
| `SumsStayExact` (`ColumnProofs`) | `SumsAreExact` | cell and exact sum are congruent, and both words: an add keeps it since a word is its residue |
| `ActivationsRound`, `WindowsRound` | `ValuesAreTheReference`, `WindowsAreTheReference` | `ColumnInv`: the running value is the window's maximum or total, and a total lies between `joined` times its least and its largest value, so no mean needs the clamp |
| `CellsAreReadBack` | | no induction: four residues make up the word again |
| `TypeCorrect` (`ColumnProofs`) | `ColumnTypeOK` | the same |
| `PagesAreFlat` (`DramProofs`) | `IsFlatMemory` | `DramInv`: pages are whole, a call stays in range, the copied part of a read is done; each piece leaves the flushed memory alone |
| `TypeCorrect` (`DramProofs`) | `DramTypeOK` | the same |
| `LabelsAreTrue` | `RowsAreAsLabelled` | `PagesInv`: pages in use are pages of the memory; the rest is arithmetic: the number of pages before one is where its rows begin |
| `PaintIsTrue` | `PaintsWhatIsWritten` | `MarkedInv`: the rows marked are those holding something that was written; then an induction over the rows (each run ends where the marks do) and over the doubling view |
| `RowsAreNotForgotten` (`PageProofs`) | `NothingIsForgotten` | `PageInv`, below |
| `RequestsInStep` | `InStepIsNeverRefused` | `RequestInv`: a request was within the rows of the snapshot it was made under |
| `StaleRowsHaveCauses` | `StaleRowsAreRaces` | `RowsInv`: a held row is right for the snapshot shown when it was asked for, of the cycle shown now, or has one of the causes |
| `TypeCorrect` (`PageProofs`) | `PageTypeOK` | `Viewers`: the viewer's types |

`PageInv` says of a fetch in flight that nothing was noted meanwhile only if
everything it was based on is still so: view, cycle, snapshot, and every visible
row held or asked for; and if it was answered by another machine than the one it
was made under, news is on its way. That last part needs `EventsInv`: the last
snapshot in the queue is the latest published unless another is still to be
sent. Then a refusal with nothing noted means news, an accepted answer holds
every visible row, and an answer with a note ends in another load. `LoadKeeps`
and `LandedKeeps` prove this once for the load every handler ends in.

`RefInv` is the conjunction of `TypeInv`, `NoRowConflict`, `ArrayInv`, `PoolInv`,
`SumsInv`, `TilesInv` (the rows shifted so far are those of
the shadow's tile, which is the FIFO's oldest until the last row) and `LineInv` (the line buffer
holds what the rows already pooled have put into each open window). Under it
every advance of a unit leaves the flushed memories alone: the rows it moves are
counted as moved already, and the rows it reads are written by no other unit. An
issue turns into the sequential step because flushing finishes the instructions
in flight first, and `NoRowConflict` after the issue lets the new one be finished
last without meeting them. `TilesInv`, `LineInv`, `PagesInv`, `MarkedInv` and
`DataInv` were checked by TLC before they were proved.

`ReplayInv` is `Typed`, `CallInv` (what a loop under way counts and up to
where) and `PastInv`: the history begins with the machine as `load` makes it, the
machine at cycle n + 1 is `NextCycle` of the one at cycle n, and the machine now
is in the cycle that follows the last one recorded. `NextCycle` comes from the
module `Cycle`: the phases of a tick as functions of a machine and of the tick's
locals. One lemma per unit says that its action does what the function says, so
two machines that are alike stay alike, whatever program is loaded. TLC checked
`ReplayInv` on the run `replay` before it was proved.

`CompiledIsReference` goes over the sequential machine. `RunOf` is the function
from a number of instructions to what the sequential machine holds after as many
of a program's, and `FollowsInv` says that the flushed machine holds what `RunOf`
says for its `pc`: each issue is one step of `ProgramOrder`, and each advance
none. So a machine that has halted (`HaltedInv`) holds what the whole program
makes. From there on time is gone, and the argument is about the program. A
program is the concatenation of its parts, and a part takes `RunOf` from the place
where it begins to the place where it ends (`Runs`). `LayerAt` is what holds
between two parts: the layer's input lies in its blocks of the Unified Buffer,
`nb` blocks of its output in theirs, the sums of `kb` input blocks of the next one
in the accumulators, and the tiles read ahead wait in the order in which the
multiplies to come take them. A multiply and the read that follows it keep it
(`StepRuns`), so does the `Activate` of a block (`BlockRuns`), so a layer
(`LayerRuns`) and all layers (`LayersRun`); the transfers at the two ends put the
input there and bring the result out. It needs that the regions of a layer's input
and output do not meet, that a block's sums fit the half of the accumulators they
are in, and that tile numbers count the multiplies (`TileIs`). What it leaves in
host memory is `IsCells`: bytes made of host bytes and stored weights, the padding
among them. Last, `CellsMean` says of each layer that these bytes mean the
reference's cells: the products of the padding come last in a sum and are left out,
a pooled row is a window of the reference, and `im2col` makes of a convolution a
network with the same reference (`ConvIsItsNetwork`). Layers, blocks, input blocks
and rows are each an induction, over numbers that the compiler does not bound
except by the memories.

The hypothesis that each layer has an input is one the compiler does not check, and
run `empty` shows what happens without it.

`TpuProofs` begins with what each unit operation preserves, stated once per
operation and used by the step lemmas, one per action of `Next`. `SimInv` in
`SimulatorProofs` is the conjunction of the parts named above; the parts depend
on each other in the order given, and each has a lemma for the Shell's steps, one
for the server's, and one that puts them together.

What a recursive function computes is proved from `NaturalLemmas`: the numbers
with a property are a set, its least non-member would have a predecessor, and a
function that a recursive definition names exists because it can be built up to
every bound. So rows, blocks, runs and sums of any number are covered.

**Only model-checked.** Liveness under fairness is out of the prover's reach:
`Stops`, `CallsReturn`, `CompiledProgramsHalt`, `PagesCatchUp`,
`PressesAreAnswered`, `ShutdownEnds`, `PageSettles`. So it is checked, not proved,
that a compiled program halts; what it leaves when it does is proved.

## 5. What the mutants show

Each property of a passing run has a mutant of the code it guards; TLC finds the
property violated in each. In the machine: a dropped interlock, a tile piece that
is not cut short, shifting only while the array is free, a stall cause that is
not charged, a program counter not updated with its unit, a deadlock check that
forgets the shifter, a FIFO full one slot early, an array that stops one step
early, weights shifted into the active plane, a window that restarts with every
row, a `load` that leaves the array as it was, a step back that wraps below zero.
In the compiler: tiles stored in the other order, double buffering whatever the
height. In the assembler: a field read too short, a data block left open by an
instruction, a row printed up to its first zero. In the process: a press without
the mutex, a failed press that tells nobody, a replay one cycle too long, the
version noted after the send, a handler called under the server's lock, a wait
without a timeout, an accept thread that is not joined. On the page: a note that
outlives the load that met it, a load dropped while one is in flight, an empty
memory's page of zeros counted as rows to ask for, an answer taken whatever the page shows by then,
a refresh that clears and does not load. In the memories: a range check that
adds, a source that does not move on with the address, a run that goes on over a
gap, a row numbered as if no page were missing. In the numbers: an add that
saturates, a clamp on one side only, a negation in 32 bits, halves that go up on
both sides.

## 6. Plan

Done: the machine and its refinement, `Replay`, `Compiler`, the process
(`Shell`, `VizServer`, `Simulator`), `Encoding` and `Assembler`, the page
(`Page`), the memories and their way to it (`FlatMemory`, `Dram`, `Snapshot`),
the arithmetic (`Arithmetic`, `Column`), and the theorems of section 4. Left:
`Page` composed with `VizServer` in place of its own picture of it.

## 7. Not modelled

* Sigmoid and tanh: they go through doubles, whose rounding the integers here do
  not have. In the machine they are functions of a term like the others.
* The Unified Buffer's own marks of written rows. `Snapshot` takes a Dram's for
  them in `PaintedInFull`: both mark the rows a write covers.
* The terminal line editor: one thread that edits one line of text, each key an
  assignment to a string and an index; only the finished line leaves it, and that
  is an action of `Shell`.
* What the page draws: layout, colours, hover texts, numbers as text. Its row box
  and scroll bar are the inputs of `Scroll` and `Show`. Its two halves do not
  share a viewer, so one stands for both.
* The assembler's characters, columns and messages, and the names the
  disassembler prints.
* The wording of snapshots, HTTP text and files, and the other command-line
  tools, which keep no state that the machine depends on.
* The contents of data blocks in the machine's own runs: host memory is full and
  every tile has weights. `networks` has the compiler's blocks, `assembly` the
  assembler's, `misfit` one that does not fit.
