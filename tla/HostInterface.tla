--------------------------- MODULE HostInterface ----------------------------
(* The PCIe link (src/src/units/host_interface.cpp): one transfer of whole   *)
(* rows at a time between host memory and the Unified Buffer, moved a few    *)
(* bytes per cycle, so that a piece can end in the middle of a row.          *)
EXTENDS Memories

CONSTANT HostBytesPerCycle

ASSUME HostAssumption == HostBytesPerCycle \in Nat \ {0}

VARIABLE hif   \* the running (or last) transfer

Directions == {"HostToUb", "UbToHost"}

HostReset == [direction |-> "HostToUb", host_row |-> 0, ub_row |-> 0,
              rows |-> 0, bytes_done |-> 0]

HostBusy == hif.bytes_done < hif.rows * Dim

HostWritesUbRows(first, count) ==
  /\ HostBusy
  /\ hif.direction = "HostToUb"
  /\ Overlap(first, count, hif.ub_row, hif.rows)

HostReadsUbRows(first, count) ==
  /\ HostBusy
  /\ hif.direction = "UbToHost"
  /\ Overlap(first, count, hif.ub_row, hif.rows)

(* start() throws, and changes nothing, unless this holds.                   *)
HostAccepts(host_row, ub_row, rows) ==
  /\ ~HostBusy
  /\ Fits(host_row, rows, HostRows)
  /\ Fits(ub_row, rows, UbRows)

HostStart(direction, host_row, ub_row, rows) ==
  /\ HostAccepts(host_row, ub_row, rows)
  /\ hif' = [direction |-> direction, host_row |-> host_row,
             ub_row |-> ub_row, rows |-> rows, bytes_done |-> 0]
  /\ UNCHANGED <<ub, hostMem>>

(* The bytes of the transfer, counted from its start, that this cycle moves. *)
HostPiece ==
  hif.bytes_done .. hif.bytes_done
                    + Least(hif.rows * Dim - hif.bytes_done, HostBytesPerCycle)
                    - 1

(* dst with the bytes of `piece` copied from src, each at its own base.      *)
Copied(dst, to, src, from, piece) ==
  [a \in DOMAIN dst |-> IF a - to \in piece THEN src[from + (a - to)]
                                            ELSE dst[a]]

HostMoves ==
  /\ HostBusy
  /\ \/ /\ hif.direction = "HostToUb"
        /\ ub' = Copied(ub, UbAt(hif.ub_row, 0),
                        hostMem, hif.host_row * Dim, HostPiece)
        /\ UNCHANGED hostMem
     \/ /\ hif.direction = "UbToHost"
        /\ hostMem' = Copied(hostMem, hif.host_row * Dim,
                             ub, UbAt(hif.ub_row, 0), HostPiece)
        /\ UNCHANGED ub
  /\ hif' = [hif EXCEPT !.bytes_done =
               @ + Least(hif.rows * Dim - @, HostBytesPerCycle)]

HostTick ==
  \/ HostMoves
  \/ ~HostBusy /\ UNCHANGED <<hif, ub, hostMem>>

HostTypeOK ==
  /\ hif \in [direction : Directions, host_row : Nat, ub_row : Nat,
              rows : Nat, bytes_done : Nat]
  /\ hif.bytes_done <= hif.rows * Dim
  /\ Fits(hif.host_row, hif.rows, HostRows)
  /\ Fits(hif.ub_row, hif.rows, UbRows)
=============================================================================
