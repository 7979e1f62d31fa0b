------------------------------- MODULE MCPage -------------------------------
(* Small pages for TLC: a window of two rows, pages of two rows.             *)
EXTENDS Page

(* Host memory takes its second page in the program's last cycle, when the   *)
(* FIFO has the first of its two slots taken; the accumulators and the grid  *)
(* of PEs always have as many rows.                                          *)
PageViews == {"host", "fifo", "acc", "weight", "psum"}
PeViews   == {"weight", "psum"}
PageBytes == [v \in PageViews |->
                CASE v \in {"host", "fifo"} -> 1
                  [] v = "acc" -> 4
                  [] v \in PeViews -> 12]
PageLeast == [v \in PageViews |-> IF v = "fifo" THEN 3 ELSE 2]
PagedViews == {"host", "fifo"}
PageExtent ==
  [v \in PageViews |-> [m \in Machines |->
     CASE v = "host" -> IF m.file = NoFile THEN 0
                        ELSE IF m.cycle = LastCycle THEN 2 ELSE 1
       [] v = "fifo" -> IF m.cycle = LastCycle THEN 1 ELSE 0
       [] OTHER -> 6]]
TwoRows == [v \in PageViews |-> [m \in Machines |-> 2]]
=============================================================================
