-------------------------------- MODULE Page --------------------------------
(* The visualizer's page (viz/app.js): one half of the row inspector, which  *)
(* fetches the rows it shows from a simulator that moves on meanwhile. The   *)
(* simulator is what the page can see of it: the snapshot it last published, *)
(* the stream that carries snapshots, and its answers to /rows and /pes. A   *)
(* machine state is the file and the cycle that name it (module Shell), and  *)
(* a row's values are the term of the view, the row and the machine they     *)
(* were read from.                                                           *)
EXTENDS Integers, Sequences, FiniteSets, FiniteSetsExt

CONSTANTS
  Files, NoFile, LastCycle,
  Views,         \* what the menus of the two halves offer
  ValueBytes,    \* view -> bytes of one value in an answer
  OfPes,         \* the right half's: a field of every PE (asked of /pes)
  Paged,         \* the views of pages, tiles or FIFO slots
  Extent,        \* view -> machine -> its pieces; of the others, its values
  PieceValues,   \* the server's kTileBytes, a page's bytes as well
  RowValues,     \* the server's kRowValues
  PageRows,      \* the page's ROWS_PER_PAGE
  StatedRows,    \* view -> machine -> the page's UB_ROWS, ACC_ROWS, COLS, and
                 \* line_rows of the snapshot
  LeastRows,     \* view -> rows shown even when the simulator holds fewer
  WindowRows,    \* rows that fit on the canvas
  MostRows,      \* MOST_ROWS_ASKED and the server's kMostRowsAsked
  MaxInTransit   \* bound: snapshots sent and not yet handled

Machines == [file : {NoFile}, cycle : {0}]
              \cup [file : Files, cycle : 0 .. LastCycle]
NoSnapshot == [file |-> NoFile, cycle |-> -1]
NoRequest  == [stage |-> "none"]

(* A row the simulator does not hold reads as zeros.                         *)
Zeros == [view |-> "zeros", row |-> 0, of |-> NoSnapshot]

ASSUME PageAssumption ==
  /\ NoFile \notin Files /\ LastCycle \in Nat
  /\ OfPes \subseteq Views /\ "zeros" \notin Views
  /\ ValueBytes \in [Views -> Nat] /\ LeastRows \in [Views -> Nat]
  /\ Paged \subseteq Views /\ RowValues \in Nat \ {0} /\ PageRows \in Nat
  /\ PieceValues = PageRows * RowValues
  /\ Extent \in [Views -> [Machines -> Nat]]
  /\ StatedRows \in [Views -> [Machines -> Nat]]
  /\ \A v \in Views \ Paged : \A m \in Machines :
       Extent[v][m] = StatedRows[v][m] * RowValues
  /\ WindowRows \in 1 .. MostRows /\ MostRows \in Nat
  /\ MaxInTransit \in Nat \ {0}

VARIABLES
  published,  \* the server's latest_ and state_
  news,       \* the stream has not taken it yet
  events,     \* snapshots on their way to the page
  gone,       \* the simulator has exited
  shown,      \* latest, the snapshot the page draws
  viewer      \* the Viewer object

vars == <<published, news, events, gone, shown, viewer>>

-----------------------------------------------------------------------------
(* The Viewer: [view, first, values, cycle, request, again].                 *)

Loading(w) == w.request.stage # "none"

(* Mutant: an empty memory's page of zeros counts as served.                 *)
ServedRowCountShown(view, s) ==
  Max({LeastRows[view],
       IF view \in Paged THEN Extent[view][s] * PageRows
                         ELSE StatedRows[view][s]})

(* The rows to ask for, as the page counts them from a snapshot.             *)
ServedRowCount(view, s) ==
  IF view \in Paged THEN Extent[view][s] * PageRows ELSE StatedRows[view][s]

ViewRowCount(view, s) == Max({ServedRowCount(view, s), LeastRows[view]})

VisibleRows(w, s) ==
  IF s = NoSnapshot THEN {}
  ELSE w.first .. Min({w.first + WindowRows, ViewRowCount(w.view, s)}) - 1

(* A row's values, with history: the snapshot the page showed when it asked  *)
(* for them, and whether it had moved on before they were there.             *)
Held(value, s, overtaken) ==
  [value |-> value, under |-> s, overtaken |-> overtaken]

(* Rows on the screen that the simulator holds for s; those not fetched yet. *)
Served(w, s)  == {r \in VisibleRows(w, s) : r < ServedRowCount(w.view, s)}
Missing(w, s) == Served(w, s) \ DOMAIN w.values

WithZeros(w, s) ==
  [r \in DOMAIN w.values \cup (VisibleRows(w, s) \ Served(w, s)) |->
     IF r \in DOMAIN w.values THEN w.values[r] ELSE Held(Zeros, s, FALSE)]

(* What load() asks for. `under`, `from` and `overtaken` are history: the    *)
(* snapshot the page showed then, the machine that answers, and whether the  *)
(* page moved on while the body was on its way.                              *)
Ask(w, s) ==
  LET missing == Min(Missing(w, s))
  IN  [stage |-> "asked", view |-> w.view, cycle |-> w.cycle, row |-> missing,
       count |-> Min({Max(Served(w, s)) + 1 - missing, MostRows}),
       under |-> s, from |-> NoSnapshot, ok |-> FALSE, overtaken |-> FALSE]

(* Mutant: a load while one is in flight is dropped.                         *)
LoadOnce(w, s) ==
  IF s = NoSnapshot \/ Loading(w) THEN w
  ELSE [w EXCEPT !.values = WithZeros(w, s),
                 !.request = IF Missing(w, s) = {} THEN NoRequest
                                                   ELSE Ask(w, s)]

Load(w, s) ==
  IF s = NoSnapshot THEN w
  ELSE IF Loading(w) THEN [w EXCEPT !.again = TRUE]
  ELSE [w EXCEPT !.values = WithZeros(w, s),
                 !.request = IF Missing(w, s) = {} THEN NoRequest
                                                   ELSE Ask(w, s)]

(* Mutant: the request to load again is not forgotten once it is met.        *)
LandedAgain(w, s) ==
  LET done == [w EXCEPT !.request = NoRequest]
  IN  IF w.again THEN Load(done, s) ELSE done

(* The end of load(): run again if a call came in meanwhile.                 *)
Landed(w, s) ==
  LET done == [w EXCEPT !.request = NoRequest, !.again = FALSE]
  IN  IF w.again THEN Load(done, s) ELSE done

NothingHeld == [r \in {} |-> Held(Zeros, NoSnapshot, FALSE)]

(* The values go; a body still on its way is from before.                    *)
Cleared(w) ==
  [w EXCEPT !.values = NothingHeld,
            !.request = IF @.stage = "body" THEN [@ EXCEPT !.overtaken = TRUE]
                                            ELSE @]

(* Mutant: a snapshot of another cycle clears the values and fetches none.   *)
RefreshClears(w, s) ==
  IF s.cycle = w.cycle THEN Load(w, s)
  ELSE [Cleared(w) EXCEPT !.cycle = s.cycle]

Refresh(w, s) ==
  Load(IF s.cycle = w.cycle THEN w ELSE [Cleared(w) EXCEPT !.cycle = s.cycle],
       s)

(* A DataView throws when the values of the view now shown need more bytes   *)
(* than the answer has; the exception is caught and nothing is kept.         *)
Decodes(w) == ValueBytes[w.view] <= ValueBytes[w.request.view]

Decoded(w) ==
  LET q    == w.request
      rows == q.row .. q.row + q.count - 1
  IN  [r \in DOMAIN w.values \cup rows |->
         IF r \in rows
         THEN Held([view |-> IF w.view \in OfPes THEN w.view ELSE q.view,
                    row |-> r, of |-> q.from], q.under, q.overtaken)
         ELSE w.values[r]]

-----------------------------------------------------------------------------
(* The simulator, as the page sees it.                                       *)

Init ==
  /\ published = [file |-> NoFile, cycle |-> 0]
  /\ news = TRUE
  /\ events = <<>>
  /\ gone = FALSE
  /\ shown = NoSnapshot
  /\ viewer \in [view : Views, first : {0}, values : {NothingHeld},
                 cycle : {-1}, request : {NoRequest}, again : {FALSE}]

(* A line at the terminal or a press of any page: a file loaded, a move to   *)
(* another cycle, or nothing but a snapshot of the same machine.             *)
Publish ==
  /\ ~gone
  /\ \E m \in Machines :
       /\ m.file # published.file => m.cycle = 0 /\ m.file # NoFile
       /\ published' = m
  /\ news' = TRUE
  /\ UNCHANGED <<events, gone, shown, viewer>>

(* serve_events() takes the latest snapshot, whichever it missed.            *)
SendEvent ==
  /\ ~gone /\ news
  /\ Len(events) < MaxInTransit
  /\ events' = Append(events, published)
  /\ news' = FALSE
  /\ UNCHANGED <<published, gone, shown, viewer>>

(* The stream breaks and the EventSource opens another, which starts with    *)
(* the latest snapshot.                                                      *)
Reconnect ==
  /\ ~gone
  /\ events' = <<>>
  /\ news' = TRUE
  /\ UNCHANGED <<published, gone, shown, viewer>>

(* The rows of a view, as the server counts them in the state it captured.   *)
RowsHeld(view, m) ==
  IF view \in Paged THEN Extent[view][m] * (PieceValues \div RowValues)
                    ELSE Extent[view][m] \div RowValues

(* rows_bytes() and pes_bytes() on the latest state, range_ok() included.    *)
RangeOK(first, count, total) ==
  /\ count # 0 /\ count <= MostRows
  /\ first < total
  /\ count <= total - first

Answer ==
  /\ ~gone
  /\ viewer.request.stage = "asked"
  /\ LET q == viewer.request
     IN  viewer' = [viewer EXCEPT
           !.request.stage = "answered", !.request.from = published,
           !.request.ok =
             RangeOK(q.row, q.count, RowsHeld(q.view, published))]
  /\ UNCHANGED <<published, news, events, gone, shown>>

Exit ==
  /\ ~gone
  /\ gone' = TRUE
  /\ news' = FALSE
  /\ UNCHANGED <<published, events, shown, viewer>>

-----------------------------------------------------------------------------
(* The page's handlers.                                                      *)

(* render(), as far as the viewer goes.                                      *)
Receive ==
  /\ events # <<>>
  /\ shown' = Head(events)
  /\ viewer' = Refresh(viewer, Head(events))
  /\ events' = Tail(events)
  /\ UNCHANGED <<published, news, gone>>

(* The scroll bar, or a row typed into the row box.                          *)
Scroll ==
  /\ shown # NoSnapshot
  /\ \E row \in 0 .. ViewRowCount(viewer.view, shown) - 1 :
       viewer' = Load([viewer EXCEPT !.first = row], shown)
  /\ UNCHANGED <<published, news, events, gone, shown>>

(* The memories are in the left half's menu, the PEs' fields in the right's. *)
SameMenu(view) == IF view \in OfPes THEN OfPes ELSE Views \ OfPes

(* show(), then goToRow() with what the row box says.                        *)
Show ==
  /\ shown # NoSnapshot
  /\ \E view \in SameMenu(viewer.view) \ {viewer.view} :
       LET top == Load([Cleared(viewer) EXCEPT !.view = view, !.first = 0],
                       shown)
       IN  \E row \in {0} \cup 0 .. ViewRowCount(view, shown) - 1 :
             viewer' = Load([top EXCEPT !.first = row], shown)
  /\ UNCHANGED <<published, news, events, gone, shown>>

(* Mutant: whatever comes back is taken, whatever the page shows by now.     *)
TakesAnything(w) == w.request.ok

(* The check behind `await fetch`.                                           *)
StillWanted(w) ==
  /\ w.request.ok
  /\ w.request.view = w.view
  /\ w.request.cycle = w.cycle

(* The answer's head arrives: wait for its body, or be done with it.         *)
TakeHead ==
  /\ viewer.request.stage = "answered"
  /\ viewer' = IF StillWanted(viewer)
               THEN [viewer EXCEPT !.request.stage = "body"]
               ELSE Landed(viewer, shown)
  /\ UNCHANGED <<published, news, events, gone, shown>>

(* The body arrives: decoded as what the page shows now, and kept.           *)
TakeBody ==
  /\ viewer.request.stage = "body"
  /\ viewer' = Landed(IF Decodes(viewer)
                      THEN [viewer EXCEPT !.values = Decoded(viewer)]
                      ELSE viewer, shown)
  /\ UNCHANGED <<published, news, events, gone, shown>>

(* The fetch fails because nobody is there any more.                         *)
FetchFails ==
  /\ gone /\ Loading(viewer)
  /\ viewer' = Landed(viewer, shown)
  /\ UNCHANGED <<published, news, events, gone, shown>>

-----------------------------------------------------------------------------
Disturbs == Publish \/ Reconnect \/ Exit \/ Scroll \/ Show
Proceeds == SendEvent \/ Answer \/ Receive \/ TakeHead \/ TakeBody
              \/ FetchFails

Next == Disturbs \/ Proceeds

Spec == Init /\ [][Next]_vars

(* The server answers and the browser handles what arrives; the user and the *)
(* machine owe nothing.                                                      *)
FairSpec == Spec /\ WF_vars(Proceeds)

-----------------------------------------------------------------------------
(* Properties                                                                *)

Pictures == [view : Views, row : Nat, of : Machines] \cup {Zeros}

Requests ==
  [stage : {"asked", "answered", "body"}, view : Views,
   cycle : 0 .. LastCycle, row : Nat, count : Nat \ {0}, under : Machines,
   from : Machines \cup {NoSnapshot}, ok : BOOLEAN, overtaken : BOOLEAN]

PageTypeOK ==
  /\ published \in Machines
  /\ shown \in Machines \cup {NoSnapshot}
  /\ Len(events) <= MaxInTransit
  /\ \A i \in DOMAIN events : events[i] \in Machines
  /\ viewer.view \in Views /\ viewer.first \in Nat
  /\ viewer.cycle = shown.cycle
  /\ \A r \in DOMAIN viewer.values :
       viewer.values[r] \in [value : Pictures, under : Machines,
                             overtaken : BOOLEAN]
  /\ viewer.request = NoRequest \/ viewer.request \in Requests
  /\ viewer.again => Loading(viewer)

(* The snapshot in the page's hands is the simulator's last one, or it is on *)
(* its way.                                                                  *)
NewsIsComing == news \/ events # <<>>

(* Whatever is scrolled, switched or refreshed while a fetch is in flight,   *)
(* when none is in flight every row on the screen is held, or was refused    *)
(* because the simulator is further on and a snapshot will say so            *)
(* (app.js:758-761, 801-804).                                                *)
NothingIsForgotten ==
  shown # NoSnapshot /\ ~Loading(viewer) =>
    \/ VisibleRows(viewer, shown) \subseteq DOMAIN viewer.values
    \/ NewsIsComing
    \/ gone

(* The page's count of what there is to ask for, from the snapshot, is the   *)
(* server's, from the state: a request made under the snapshot that is still *)
(* the latest when it is answered is never refused, in pages, slots or PE    *)
(* rows (app.js:585-590, 763, state.cpp:19-27, 32, 76-103, 112).             *)
InStepIsNeverRefused ==
  viewer.request.stage \in {"answered", "body"}
    /\ viewer.request.from = viewer.request.under => viewer.request.ok

(* What row r of the view reads in machine m.                                *)
TrueRow(view, r, m) ==
  IF r < RowsHeld(view, m) THEN [view |-> view, row |-> r, of |-> m]
                           ELSE Zeros

StaleRows ==
  {r \in VisibleRows(viewer, shown) \cap DOMAIN viewer.values :
     viewer.values[r].value # TrueRow(viewer.view, r, shown)}

(* A page at rest: nothing in flight in either direction.                    *)
AtRest == shown # NoSnapshot /\ ~Loading(viewer) /\ ~NewsIsComing /\ ~gone

(* "A new snapshot: every value held belongs to an older cycle"              *)
(* (app.js:717): a page at rest shows the values of the machine as it is.    *)
PageAtRestIsCurrent == AtRest => StaleRows = {}

(* There are three ways to a page at rest that does not show the machine as  *)
(* it is, and no other: the page moved on between the head of an answer and  *)
(* its body; the answer came from a newer machine whose snapshot was still   *)
(* on its way, and was overtaken by one of the cycle asked for; or another   *)
(* program is at the same cycle (app.js:718-722, 789-794).                   *)
StaleRowsAreRaces ==
  AtRest => \A r \in StaleRows :
    LET row == viewer.values[r]
    IN  \/ row.overtaken
        \/ row.value # Zeros /\ row.value.of # row.under
        \/ row.under.cycle = shown.cycle /\ row.under.file # shown.file

(* Unless the user and the machine never rest, the page comes to rest with   *)
(* every row on the screen held: no load is dropped, and none repeats itself *)
(* for ever (app.js:754-805).                                                *)
PageSettles ==
  \/ []<><<Disturbs>>_vars
  \/ <>[]( \/ gone
           \/ /\ ~Loading(viewer)
              /\ VisibleRows(viewer, shown) \subseteq DOMAIN viewer.values )
=============================================================================
