---------------------------- MODULE SequentialTpu ---------------------------
(* What the machine promises the programmer: instructions take effect one at *)
(* a time, whole, in program order. A MatrixMultiply is the matrix product   *)
(* (src/src/ref/ref_ops.cpp), an Activate is the function and the pooling of *)
(* whole windows, a transfer copies all its rows, and the weights are a      *)
(* queue of tiles. There are no units, cycles or stalls here; a program      *)
(* stops at Halt, at an instruction that cannot be carried out, or nowhere.  *)
EXTENDS Memories

CONSTANTS Slots, Programs

VARIABLES program, pc, halted,
          weights,   \* PE -> the weight the next product uses
          queue      \* tiles read but not yet used, oldest first

seqVars == <<ub, acc, hostMem, program, pc, halted, weights, queue>>

PEs == Cols \X Cols

SeqInit ==
  /\ program \in Programs
  /\ MemoryInit
  /\ pc = 0
  /\ halted = FALSE
  /\ weights = [pe \in PEs |-> Zero]
  /\ queue = << >>

(* Whether an instruction can be carried out at all. One tile more than the *)
(* FIFO's slots can be waiting: the shadow plane holds it.                   *)
Possible(in) ==
  CASE in.op \in {"Nop", "Halt", "Sync"} -> TRUE
    [] in.op \in {"ReadHostMemory", "WriteHostMemory"} ->
         /\ Fits(in.host_row, in.rows, HostRows)
         /\ Fits(in.ub_row, in.rows, UbRows)
    [] in.op = "ReadWeights" -> in.tile < TileCount /\ Len(queue) <= Slots
    [] in.op = "MatrixMultiply" ->
         /\ in.new_weights => Len(queue) > 0
         /\ Fits(in.ub_row, in.rows, UbRows)
         /\ Fits(in.acc_row, in.rows, AccRows)
    [] in.op = "Activate" ->
         /\ in.pool # "None" => /\ in.pool_width % in.pool_size = 0
                                /\ in.rows % (in.pool_width * in.pool_size) = 0
         /\ Fits(in.acc_row, in.rows, AccRows)
         /\ Fits(in.ub_row,
                 ActivateOutputRows(in.rows, in.pool, in.pool_size), UbRows)
    [] OTHER -> FALSE

CanContinue ==
  /\ ~halted
  /\ pc < Len(program)
  /\ Possible(program[pc + 1])

Operands == program[pc + 1]

Current(op) ==
  /\ CanContinue
  /\ Operands.op = op
  /\ UNCHANGED program

Continue == pc' = pc + 1 /\ UNCHANGED halted

DoNothing ==
  /\ Current("Nop") \/ Current("Sync")
  /\ Continue
  /\ UNCHANGED <<ub, acc, hostMem, weights, queue>>

DoHalt ==
  /\ Current("Halt")
  /\ halted' = TRUE
  /\ UNCHANGED <<ub, acc, hostMem, pc, weights, queue>>

(* Row r of one memory becomes row r of the other.                           *)
CopiedRows(dst, to, src, from, rows) ==
  [a \in DOMAIN dst |-> IF a \div Dim \in to .. to + rows - 1
                        THEN src[a + (from - to) * Dim] ELSE dst[a]]

DoReadHost ==
  LET in == Operands
  IN  /\ Current("ReadHostMemory")
      /\ ub' = CopiedRows(ub, in.ub_row, hostMem, in.host_row, in.rows)
      /\ Continue
      /\ UNCHANGED <<acc, hostMem, weights, queue>>

DoWriteHost ==
  LET in == Operands
  IN  /\ Current("WriteHostMemory")
      /\ hostMem' = CopiedRows(hostMem, in.host_row, ub, in.ub_row, in.rows)
      /\ Continue
      /\ UNCHANGED <<ub, acc, weights, queue>>

DoReadWeights ==
  /\ Current("ReadWeights")
  /\ queue' = Append(queue, Operands.tile)
  /\ Continue
  /\ UNCHANGED <<ub, acc, hostMem, weights>>

(* Output column n of an input row: one product per input feature.           *)
Product(row, plane, n) ==
  [j \in 1 .. Dim |-> <<ub[UbAt(row, j - 1)], plane[<<j - 1, n>>]>>]

DoMatrixMultiply ==
  LET in == Operands
  IN  /\ Current("MatrixMultiply")
      /\ \/ /\ in.new_weights
            /\ queue' = Tail(queue)
            /\ weights' = [pe \in PEs |->
                             <<"weight", Head(queue), pe[1] * Dim + pe[2]>>]
         \/ ~in.new_weights /\ UNCHANGED <<weights, queue>>
      /\ acc' = [c \in AccCells |->
                   LET r == c[1] - in.acc_row
                   IN  IF r \in 0 .. in.rows - 1
                       THEN (IF in.accumulate THEN acc[c] ELSE << >>)
                              \o Product(in.ub_row + r, weights', c[2])
                       ELSE acc[c]]
      /\ Continue
      /\ UNCHANGED <<ub, hostMem>>

DoActivate ==
  LET in          == Operands
      out         == ActivateOutputRows(in.rows, in.pool, in.pool_size)
      value(i, n) == Activated(in.function, acc[<<in.acc_row + i, n>>])
      cell(o, n)  == IF in.pool = "None" THEN value(o, n)
                     ELSE LET w == Window(o, in.pool_size, in.pool_width)
                          IN  <<in.pool, [j \in DOMAIN w |-> value(w[j], n)]>>
  IN  /\ Current("Activate")
      /\ ub' = [a \in DOMAIN ub |->
                  LET o == a \div Dim - in.ub_row
                  IN  IF o \in 0 .. out - 1 THEN cell(o, a % Dim) ELSE ub[a]]
      /\ Continue
      /\ UNCHANGED <<acc, hostMem, weights, queue>>

SeqNext ==
  \/ DoNothing \/ DoHalt
  \/ DoReadHost \/ DoWriteHost \/ DoReadWeights
  \/ DoMatrixMultiply \/ DoActivate

SeqSpec == SeqInit /\ [][SeqNext]_seqVars
=============================================================================
