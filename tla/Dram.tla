-------------------------------- MODULE Dram ---------------------------------
(* Host memory and Weight Memory (src/src/mem/dram.h): pages allocated on    *)
(* the first write to them, copies cut at the page boundaries, and the rows  *)
(* written so far, which the visualizer paints. A call checks its range,     *)
(* marks its rows and then copies one piece per step.                        *)
EXTENDS Integers

CONSTANTS
  Size, PageBytes, RowBytes,
  Width,      \* addresses and lengths are below 2^Width
  Addresses, Lengths,  \* what a caller may give
  Writes      \* bound: calls of write

DramAssumption ==
  /\ Size \in Nat /\ PageBytes \in Nat \ {0} /\ RowBytes \in Nat \ {0}
  /\ Width \in Nat
  /\ Addresses \cup Lengths \subseteq 0 .. 2 ^ Width - 1
  /\ Writes \in Nat
ASSUME DramAssumption

(* A byte is the call that wrote it and its place in that call's source.     *)
Zero  == <<0, 0>>
Bytes == {Zero} \cup ((1 .. Writes) \X Nat)

VARIABLES
  pages,     \* page number -> its bytes, for the pages written
  written,   \* written_rows_
  call,      \* the call under way: what it still has to copy
  dst,       \* where the last read copied to
  refused,   \* the last call threw
  writes     \* calls of write so far

vars == <<pages, written, call, dst, refused, writes>>

Idle == [op |-> "none", addr |-> 0, n |-> 0, done |-> 0]

Init ==
  /\ pages = [p \in {} |-> [o \in 0 .. PageBytes - 1 |-> Zero]]
  /\ written = {}
  /\ call = Idle
  /\ dst = [i \in {} |-> Zero]
  /\ refused = FALSE
  /\ writes = 0

(* Mutant: the sum that a huge n wraps around.                               *)
CheckRangeInOne(addr, n) == (addr + n) % 2 ^ Width <= Size

CheckRange(addr, n) == n <= Size /\ addr <= Size - n

RowsMarked(addr, n) ==
  IF n = 0 THEN {} ELSE addr \div RowBytes .. (addr + n - 1) \div RowBytes

Write ==
  /\ call = Idle /\ writes < Writes
  /\ \E addr \in Addresses, n \in Lengths :
       /\ CheckRange(addr, n)
       /\ written' = written \cup RowsMarked(addr, n)
       /\ call' = [op |-> "write", addr |-> addr, n |-> n, done |-> 0]
  /\ writes' = writes + 1
  /\ refused' = FALSE
  /\ UNCHANGED <<pages, dst>>

(* What the caller's buffer holds before a read.                             *)
Garbage == <<0, 1>>

Read ==
  /\ call = Idle
  /\ \E addr \in Addresses, n \in Lengths :
       /\ CheckRange(addr, n)
       /\ call' = [op |-> "read", addr |-> addr, n |-> n, done |-> 0]
       /\ dst' = [i \in 0 .. n - 1 |-> Garbage]
  /\ refused' = FALSE
  /\ UNCHANGED <<pages, written, writes>>

(* check_range() throws before anything is touched.                          *)
Refuse ==
  /\ call = Idle
  /\ \E addr \in Addresses, n \in Lengths : ~CheckRange(addr, n)
  /\ refused' = TRUE
  /\ UNCHANGED <<pages, written, call, dst, writes>>

-----------------------------------------------------------------------------
(* One turn of the loop: a piece ends with the copy or with its page.        *)

PageNumber   == call.addr \div PageBytes
OffsetInPage == call.addr % PageBytes
Piece ==
  IF call.n <= PageBytes - OffsetInPage THEN call.n
                                        ELSE PageBytes - OffsetInPage

(* Mutant: the source does not move on with the address.                     *)
PieceDoneButSource ==
  [call EXCEPT !.addr = @ + Piece, !.n = @ - Piece]

PieceDone ==
  [call EXCEPT !.addr = @ + Piece, !.n = @ - Piece, !.done = @ + Piece]

PageForWriting ==
  IF PageNumber \in DOMAIN pages THEN pages[PageNumber]
                                 ELSE [o \in 0 .. PageBytes - 1 |-> Zero]

(* src[done], src[done + 1], ... to the page's bytes from OffsetInPage on.   *)
PageWritten ==
  [o \in 0 .. PageBytes - 1 |->
     IF o \in OffsetInPage .. OffsetInPage + Piece - 1
     THEN <<writes, call.done + o - OffsetInPage>>
     ELSE PageForWriting[o]]

WritePiece ==
  /\ call.op = "write" /\ call.n > 0
  /\ pages' = [p \in DOMAIN pages \cup {PageNumber} |->
                 IF p = PageNumber THEN PageWritten ELSE pages[p]]
  /\ call' = PieceDone
  /\ UNCHANGED <<written, dst, refused, writes>>

ReadPiece ==
  /\ call.op = "read" /\ call.n > 0
  /\ dst' = [i \in DOMAIN dst |->
               IF i \notin call.done .. call.done + Piece - 1 THEN dst[i]
               ELSE IF PageNumber \notin DOMAIN pages THEN Zero
               ELSE pages[PageNumber][OffsetInPage + i - call.done]]
  /\ call' = PieceDone
  /\ UNCHANGED <<pages, written, refused, writes>>

Return ==
  /\ call # Idle /\ call.n = 0
  /\ call' = Idle
  /\ UNCHANGED <<pages, written, dst, refused, writes>>

Next == Write \/ Read \/ Refuse \/ WritePiece \/ ReadPiece \/ Return

Spec == Init /\ [][Next]_vars
-----------------------------------------------------------------------------
(* Properties                                                                *)

Calls ==
  [op : {"none", "write", "read"}, addr : Nat, n : Nat, done : Nat]

DramTypeOK ==
  /\ DOMAIN pages \subseteq Nat
  /\ \A p \in DOMAIN pages : pages[p] \in [0 .. PageBytes - 1 -> Bytes]
  /\ written \subseteq Nat
  /\ call \in Calls
  /\ call.op = "none" => call = Idle
  /\ call.addr + call.n <= Size
  /\ call.op = "read" => DOMAIN dst = 0 .. call.done + call.n - 1
  /\ refused \in BOOLEAN
  /\ writes \in 0 .. Writes

(* The memory of a Dram as FlatMemory sees it: each byte on its page, and    *)
(* what the call under way has still to copy already copied.                 *)
StoredByte(a) ==
  IF a \div PageBytes \in DOMAIN pages
  THEN pages[a \div PageBytes][a % PageBytes] ELSE Zero

ToCopy(a) == a \in call.addr .. call.addr + call.n - 1

Stored ==
  [a \in 0 .. Size - 1 |->
     IF call.op = "write" /\ ToCopy(a)
     THEN <<writes, call.done + a - call.addr>> ELSE StoredByte(a)]

Returned ==
  [i \in DOMAIN dst |->
     IF call.op = "read" /\ i >= call.done
     THEN StoredByte(call.addr + i - call.done) ELSE dst[i]]

Flat == INSTANCE FlatMemory
  WITH bytes <- Stored, rows <- written, result <- Returned

(* Whatever the pages it crosses, a write puts its bytes where they belong   *)
(* and nowhere else, a read returns what was written last or zero, the rows  *)
(* marked are the rows written, and a range that wraps round is refused      *)
(* (dram.h:41-93, 101-126).                                                  *)
IsFlatMemory == Flat!FlatSpec
=============================================================================
