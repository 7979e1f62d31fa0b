------------------------------- MODULE Column --------------------------------
(* One column of the machine in numbers: the sums that drain from the array  *)
(* into an accumulator, wrapped, and the activation unit that takes them     *)
(* through its function and joins them to pooling windows. Beside each       *)
(* stands, as history, the integer it ought to be.                           *)
EXTENDS Arithmetic

CONSTANTS
  Psums,   \* what a multiply may deliver
  Sizes,   \* sides of a window
  MaxAdds  \* bound: accumulating multiplies on one cell

ColumnAssumption ==
  /\ Psums \subseteq Int32
  /\ Sizes \subseteq Nat \ {0}
  /\ MaxAdds \in Nat
ASSUME ColumnAssumption

VARIABLES
  unit,     \* the Activate: [function, shift, pool, size]
  cell,     \* the accumulator of the next pixel
  exact,    \* the sum that drained into it
  adds,     \* multiplies since it was overwritten
  value,    \* what became of the accumulator last activated
  running,  \* the window's place in the line buffer
  window,   \* history: [joined, total, least, largest] of the window
  out       \* the byte last written to the Unified Buffer

vars == <<unit, cell, exact, adds, value, running, window, out>>

Units ==
  [function : {"identity", "relu"}, shift : Shifts,
   pool : {"None", "Max", "Average"}, size : Sizes]

NoWindow == [joined |-> 0, total |-> 0, least |-> 0, largest |-> 0]

Init ==
  /\ unit \in Units
  /\ cell = 0 /\ exact = 0 /\ adds = 0
  /\ value = 0 /\ running = 0 /\ out = 0
  /\ window = NoWindow

(* A column sum leaves the array and overwrites or adds.                     *)
Overwrite ==
  /\ \E psum \in Psums : cell' = psum /\ exact' = psum
  /\ adds' = 0
  /\ UNCHANGED <<unit, value, running, window, out>>

Accumulate ==
  /\ adds < MaxAdds
  /\ \E psum \in Psums :
       /\ cell' = WrappingAdd(cell, psum)
       /\ exact' = exact + psum
  /\ adds' = adds + 1
  /\ UNCHANGED <<unit, value, running, window, out>>

(* The accumulator of the next row is another one, not written yet.          *)
NextCell == cell' = 0 /\ exact' = 0 /\ adds' = 0

ActivatePlain ==
  /\ unit.pool = "None"
  /\ value' = ActivatedValue(cell, unit.shift, unit.function)
  /\ out' = value'
  /\ NextCell
  /\ UNCHANGED <<unit, running, window>>

WindowCount   == unit.size * unit.size
FirstInWindow == window.joined \in {0, WindowCount}

Join(v) ==
  IF FirstInWindow
  THEN [joined |-> 1, total |-> v, least |-> v, largest |-> v]
  ELSE [joined |-> window.joined + 1, total |-> window.total + v,
        least   |-> IF v < window.least THEN v ELSE window.least,
        largest |-> IF v > window.largest THEN v ELSE window.largest]

RunWith(v) ==
  IF FirstInWindow THEN v
  ELSE IF unit.pool = "Max" THEN IF v > running THEN v ELSE running
       ELSE running + v

(* pool_row() for one window: the last pixel of it sends it out.             *)
ActivatePooled ==
  /\ unit.pool # "None"
  /\ value' = ActivatedValue(cell, unit.shift, unit.function)
  /\ running' = RunWith(value')
  /\ window' = Join(value')
  /\ out' = IF window'.joined # WindowCount THEN out
            ELSE IF unit.pool = "Max" THEN running'
            ELSE Average(running', WindowCount)
  /\ NextCell
  /\ UNCHANGED unit

Next == Overwrite \/ Accumulate \/ ActivatePlain \/ ActivatePooled

Spec == Init /\ [][Next]_vars
-----------------------------------------------------------------------------
(* Properties                                                                *)

ColumnTypeOK ==
  /\ unit \in Units
  /\ cell \in Int32 /\ exact \in Int /\ adds \in 0 .. MaxAdds
  /\ value \in Int8 /\ running \in Int /\ out \in Int8
  /\ window \in [joined : 0 .. WindowCount, total : Int,
                 least : Int8, largest : Int8]

(* An accumulator is its sum but for multiples of 2^32; so it is the sum     *)
(* itself whenever that fits, however often the adds on the way to it        *)
(* wrapped (systolic_array.cpp:166-173).                                     *)
SumsAreExact ==
  /\ (exact - cell) % (2 * IntHalf) = 0
  /\ exact \in Int32 => cell = exact

(* A value is what the reference makes of its accumulator: the nearest       *)
(* integer to it over 2^shift, halves away from zero, clamped                *)
(* (activation.cpp:13-37, 77-88, ref_ops.cpp:20-33).                         *)
ValueIsTheReference ==
  \E q \in -IntHalf .. IntHalf :
    /\ IsNearest(q, cell, Scale[unit.shift])
    /\ value' = IF unit.function = "relu" /\ q < 0 THEN 0 ELSE Saturate(q)

ValuesAreTheReference ==
  [][ActivatePlain \/ ActivatePooled => ValueIsTheReference]_vars

(* A window's byte is its largest value, or the integer nearest to its mean, *)
(* and never outside the values it was made of (activation.cpp:102-109,      *)
(* 192-222, ref_ops.cpp:113-133).                                            *)
WindowsAreTheReference ==
  unit.pool # "None" /\ window.joined = WindowCount =>
    /\ unit.pool = "Max" => out = window.largest
    /\ unit.pool = "Average" => IsNearest(out, window.total, WindowCount)
    /\ window.least <= out /\ out <= window.largest

(* The four bytes sent for an accumulator read back as its value             *)
(* (state.cpp:11-17, app.js:530-532).                                        *)
CellsReadBack == GetInt32(AppendI32(cell)) = cell
=============================================================================
