--------------------------- MODULE ActivationUnit ---------------------------
(* The activation unit (src/src/units/activation.cpp): one accumulator row   *)
(* per cycle through the function, into its Unified Buffer row or, with      *)
(* pooling, into a line buffer that holds one band of pooled pixels.         *)
EXTENDS Memories

VARIABLES act,   \* the running (or last) Activate
          line   \* <<pooled pixel of the band, column>> -> values joined so far

ActReset == [acc_row |-> 0, ub_row |-> 0, rows_total |-> 0, rows_done |-> 0,
             function |-> "identity", pool |-> "None", pool_size |-> 0,
             pool_width |-> 0]
NoLine   == << >>

ActBusy == act.rows_done < act.rows_total

ActOutRows == ActivateOutputRows(act.rows_total, act.pool, act.pool_size)

ActReadsAccRows(first, count) ==
  ActBusy /\ Overlap(act.acc_row, act.rows_total, first, count)

ActWritesUbRows(first, count) ==
  ActBusy /\ Overlap(act.ub_row, ActOutRows, first, count)

(* Whole windows in a row of pixels, and whole bands of windows.             *)
PoolShapeOK(rows, size, width) ==
  width % size = 0 /\ rows % (width * size) = 0

(* start() throws, and changes nothing, unless this holds.                   *)
ActAccepts(acc_row, ub_row, rows, pool, size, width) ==
  /\ ~ActBusy
  /\ pool # "None" => PoolShapeOK(rows, size, width)
  /\ Fits(acc_row, rows, AccRows)
  /\ Fits(ub_row, ActivateOutputRows(rows, pool, size), UbRows)

ActStart(acc_row, ub_row, rows, function, pool, size, width) ==
  /\ ActAccepts(acc_row, ub_row, rows, pool, size, width)
  /\ act' = [acc_row |-> acc_row, ub_row |-> ub_row, rows_total |-> rows,
             rows_done |-> 0, function |-> function, pool |-> pool,
             pool_size |-> size, pool_width |-> width]
  /\ line' = IF pool = "None" THEN NoLine
             ELSE [sn \in (0 .. width \div size - 1) \X Cols |-> << >>]
  /\ UNCHANGED ub

(* This cycle's row, taken through the function.                             *)
Value(n) == Activated(act.function, acc[<<act.acc_row + act.rows_done, n>>])

ActPlainRow ==
  /\ act.pool = "None"
  /\ ub' = [a \in DOMAIN ub |->
              IF a \div Dim = act.ub_row + act.rows_done THEN Value(a % Dim)
                                                         ELSE ub[a]]
  /\ UNCHANGED line

(* Mutant: the running value restarts with every row of pixels.              *)
FirstInRowOfWindow(y, x, size) == x % size = 0

FirstInWindow(y, x, size) == y % size = 0 /\ x % size = 0

(* Row i is pixel (y, x) of the feature map; it joins the window at pooled   *)
(* column x / size, and the band's last pixel sends the whole band out.      *)
ActPoolRow ==
  LET size     == act.pool_size
      y        == act.rows_done \div act.pool_width
      x        == act.rows_done % act.pool_width
      bandDone == y % size = size - 1 /\ x = act.pool_width - 1
      perBand  == act.pool_width \div size
      base     == act.ub_row + (y \div size) * perBand
  IN  /\ act.pool # "None"
      /\ line' = [sn \in DOMAIN line |->
                    IF sn[1] # x \div size THEN line[sn]
                    ELSE Append(IF FirstInWindow(y, x, size) THEN << >>
                                ELSE line[sn],
                                Value(sn[2]))]
      /\ ub' = [a \in DOMAIN ub |->
                  LET slot == a \div Dim - base
                  IN  IF bandDone /\ slot \in 0 .. perBand - 1
                      THEN <<act.pool, line'[<<slot, a % Dim>>]>>
                      ELSE ub[a]]

ActMoves ==
  /\ ActBusy
  /\ ActPlainRow \/ ActPoolRow
  /\ act' = [act EXCEPT !.rows_done = @ + 1]

ActTick ==
  \/ ActMoves
  \/ ~ActBusy /\ UNCHANGED <<act, line, ub>>

ActTypeOK ==
  /\ act \in [acc_row : Nat, ub_row : Nat, rows_total : Nat,
              rows_done : Nat, function : Functions, pool : Poolings,
              pool_size : Nat, pool_width : Nat]
  /\ act.rows_done <= act.rows_total
  /\ Fits(act.acc_row, act.rows_total, AccRows)
=============================================================================
