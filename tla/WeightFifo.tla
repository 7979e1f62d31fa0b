----------------------------- MODULE WeightFifo -----------------------------
(* The Weight FIFO (src/src/units/weight_fifo.cpp): Slots tile slots that    *)
(* one DDR3 channel fills in order, a few bytes per cycle.                   *)
EXTENDS Memories

CONSTANTS Slots, WeightBytesPerCycle

ASSUME FifoAssumption ==
  /\ Slots \in Nat \ {0}
  /\ WeightBytesPerCycle \in Nat \ {0}

VARIABLE fifo   \* the slots in use, oldest first

TileBytes == Dim * Dim

FifoTile == [tile : Nat, bytes_arrived : Nat]

Ready(entry) == entry.bytes_arrived = TileBytes

(* Byte i of a slot: Weight Memory never changes, so a slot holds the tile's *)
(* bytes as far as they have arrived and zeros after them.                   *)
SlotByte(entry, i) ==
  IF i < entry.bytes_arrived THEN <<"weight", entry.tile, i>> ELSE Zero

(* Mutant: the last slot is never used.                                      *)
FifoFullOneEarly == Len(fifo) >= Slots - 1

FifoFull == Len(fifo) >= Slots

FifoFetching == \E i \in DOMAIN fifo : ~Ready(fifo[i])

FrontReady == fifo # << >> /\ Ready(Head(fifo))

(* push() throws, and changes nothing, unless this holds.                    *)
FifoAccepts(tile) == ~FifoFull /\ tile < TileCount

FifoPush(tile) ==
  /\ FifoAccepts(tile)
  /\ fifo' = Append(fifo, [tile |-> tile, bytes_arrived |-> 0])

(* Mutant: the last, short piece of a tile is counted as a whole one.        *)
FifoMovesWholePieces ==
  \E i \in DOMAIN fifo :
    /\ ~Ready(fifo[i])
    /\ \A j \in 1 .. i - 1 : Ready(fifo[j])
    /\ fifo' = [fifo EXCEPT ![i].bytes_arrived = @ + WeightBytesPerCycle]

(* The oldest tile that has not fully arrived gets the channel.              *)
FifoMoves ==
  \E i \in DOMAIN fifo :
    /\ ~Ready(fifo[i])
    /\ \A j \in 1 .. i - 1 : Ready(fifo[j])
    /\ fifo' = [fifo EXCEPT ![i].bytes_arrived =
                  @ + Least(TileBytes - @, WeightBytesPerCycle)]

FifoTick ==
  \/ FifoMoves
  \/ ~FifoFetching /\ UNCHANGED fifo

FifoTypeOK ==
  /\ fifo \in Seq(FifoTile)
  /\ Len(fifo) <= Slots
  /\ \A i \in DOMAIN fifo : fifo[i].bytes_arrived <= TileBytes
=============================================================================
