------------------------------ MODULE Snapshot -------------------------------
(* How a memory reaches the eye (src/src/viz/snapshot.cpp, state.cpp and the *)
(* page, viz/app.js): the pages in use are numbered through, and a row of    *)
(* the view is painted, labelled and fetched by its place among them.        *)
EXTENDS Dram, Sequences, SequencesExt

CONSTANT LeastShown  \* rows the page shows of a memory that shows all it has

SnapshotAssumption ==
  /\ LeastShown \in Nat \ {0}
  /\ PageBytes % RowBytes = 0 /\ Size % PageBytes = 0
ASSUME SnapshotAssumption

RowsPerPage == PageBytes \div RowBytes
PagesInAll  == Size \div PageBytes
RowsInAll   == Size \div RowBytes

(* The page numbers below n that are in use, in ascending order.             *)
PagesUpTo[n \in 0 .. PagesInAll] ==
  IF n = 0 THEN << >>
  ELSE IF n - 1 \in DOMAIN pages THEN Append(PagesUpTo[n - 1], n - 1)
  ELSE PagesUpTo[n - 1]

(* allocated_pages(), and in_order() of the copy that capture() makes.       *)
PagesInUse == PagesUpTo[PagesInAll]

-----------------------------------------------------------------------------
(* The simulator: runs of rows for the paint, rows of values for the fetch.  *)

(* Mutant: a run goes on over a gap.                                         *)
AddOverGap(list, n) ==
  IF list # << >> /\ n <= Last(list)[1] + Last(list)[2] + 1
  THEN Front(list) \o <<<<Last(list)[1], n + 1 - Last(list)[1]>>>>
  ELSE Append(list, <<n, 1>>)

(* RunList::add: runs are <<first, count>>.                                  *)
Add(list, n) ==
  IF list # << >> /\ n = Last(list)[1] + Last(list)[2]
  THEN Front(list) \o <<<<Last(list)[1], Last(list)[2] + 1>>>>
  ELSE Append(list, <<n, 1>>)

(* written_runs: the runs once n rows have been looked at.                   *)
RunsUpTo[n \in 0 .. RowsInAll] ==
  IF n = 0 THEN << >>
  ELSE IF n - 1 \in written THEN Add(RunsUpTo[n - 1], n - 1)
  ELSE RunsUpTo[n - 1]

WrittenRuns == RunsUpTo[RowsInAll]

(* paged_rows() of one row, zero-based as it is asked for.                   *)
ServedRow(row) ==
  LET piece == pages[PagesInUse[row \div RowsPerPage + 1]]
      start == (row % RowsPerPage) * RowBytes
  IN  [c \in 0 .. RowBytes - 1 |-> piece[start + c]]

-----------------------------------------------------------------------------
(* The page.                                                                 *)

ViewRows == 0 .. Len(PagesInUse) * RowsPerPage - 1

(* -1 for a row on a page that is not in use.                                *)
PagedViewRow(row) ==
  LET page == row \div RowsPerPage
  IN  IF page \notin DOMAIN pages THEN -1
      ELSE RowsPerPage * ((CHOOSE i \in DOMAIN PagesInUse :
                             PagesInUse[i] = page) - 1)
           + (row % RowsPerPage)

(* Mutant: the view row itself, as if the first pages were the ones in use.  *)
PagedRealRowUnpaged(row) == row

PagedRealRow(row) ==
  PagesInUse[row \div RowsPerPage + 1] * RowsPerPage + (row % RowsPerPage)

RowsOfRuns == UNION {run[1] .. run[1] + run[2] - 1 : run \in Range(WrittenRuns)}

(* The cells that runFlags() sets, for the paged views and for the others.   *)
PaintedCells == {PagedViewRow(row) : row \in RowsOfRuns} \cap ViewRows

HighestRow == IF RowsOfRuns = {} THEN -1 ELSE Max(RowsOfRuns)

(* The loop of shownRows() after k turns; it ends in RowsInAll of them.      *)
ShownAfter[k \in 0 .. RowsInAll] ==
  IF k = 0 THEN LeastShown
  ELSE LET shown == ShownAfter[k - 1]
       IN  IF shown <= HighestRow /\ shown < RowsInAll THEN shown * 2 ELSE shown

ShownRows == Min({ShownAfter[RowsInAll], RowsInAll})

(* As of the Unified Buffer, whose marks its writes make just as a Dram's.   *)
PaintedInFull == RowsOfRuns \cap 0 .. ShownRows - 1
-----------------------------------------------------------------------------
(* Properties                                                                *)

RowAt(row) == [c \in 0 .. RowBytes - 1 |-> StoredByte(row * RowBytes + c)]

(* No byte written here is zero, so these are the rows written.              *)
RowsHoldingData ==
  {row \in 0 .. RowsInAll - 1 :
     \E c \in 0 .. RowBytes - 1 : RowAt(row)[c] # Zero}

(* Between two calls the page paints the rows that were written, every one   *)
(* and no other, wherever their pages are (snapshot.cpp:84-133,              *)
(* app.js:89-95, 172-202).                                                   *)
PaintsWhatIsWritten ==
  call = Idle =>
    /\ {PagedRealRow(cell) : cell \in PaintedCells} = RowsHoldingData
    /\ PaintedInFull = RowsHoldingData

(* The row the page fetches for a view row is the row its label names, and a *)
(* row typed into the row box scrolls to it (state.cpp:29-51,                *)
(* app.js:556-559, 604-621).                                                 *)
RowsAreAsLabelled ==
  call = Idle =>
    \A row \in ViewRows :
      /\ ServedRow(row) = RowAt(PagedRealRow(row))
      /\ PagedViewRow(PagedRealRow(row)) = row
=============================================================================
