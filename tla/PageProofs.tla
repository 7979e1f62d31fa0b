----------------------------- MODULE PageProofs ------------------------------
(* The row inspector forgets no row and shows stale ones only by the races   *)
(* named, for any views, window, program and number of snapshots on the way. *)
EXTENDS Page, NaturalLemmas, SequenceTheorems, TLAPS

-----------------------------------------------------------------------------
(* Numbers.                                                                  *)

LEMMA LeastNatural ==
  ASSUME NEW S, S \subseteq Nat, S # {}
  PROVE  Min(S) \in S /\ \A y \in S : Min(S) <= y
<1>1. \E x \in S : \A y \in S : x <= y
  BY LeastIn
<1> QED BY <1>1 DEF Min

LEMMA LesserOfTwo ==
  ASSUME NEW a \in Int, NEW b \in Int
  PROVE  Min({a, b}) = IF a <= b THEN a ELSE b
<1>1. \E x \in {a, b} : \A y \in {a, b} : x =< y
  OBVIOUS
<1> QED BY <1>1 DEF Min

LEMMA GreaterOfTwo ==
  ASSUME NEW a \in Int, NEW b \in Int
  PROVE  Max({a, b}) = IF a >= b THEN a ELSE b
<1>1. \E x \in {a, b} : \A y \in {a, b} : x >= y
  OBVIOUS
<1> QED BY <1>1 DEF Max

LEMMA Machine ==
  ASSUME NEW m \in Machines
  PROVE  m.cycle \in 0 .. LastCycle /\ m # NoSnapshot
BY PageAssumption DEF PageAssumption, Machines, NoSnapshot

(* Two machines that agree on file and cycle are one.                        *)
LEMMA SameMachine ==
  ASSUME NEW m \in Machines, NEW n \in Machines,
         m.file = n.file, m.cycle = n.cycle
  PROVE  m = n
BY DEF Machines

(* A row holds a whole number of values, and a piece of rows.                *)
LEMMA WholeRows ==
  ASSUME NEW r \in Nat \ {0}, NEW n \in Nat
  PROVE  (n * r) \div r = n
BY Z3

(* The page and the server count the same rows.                              *)
LEMMA RowCounts ==
  ASSUME NEW v \in Views, NEW m \in Machines
  PROVE  /\ ServedRowCount(v, m) \in Nat
         /\ ViewRowCount(v, m) \in Nat
         /\ ViewRowCount(v, m) >= ServedRowCount(v, m)
         /\ RowsHeld(v, m) = ServedRowCount(v, m)
<1>1. /\ Extent[v][m] \in Nat /\ StatedRows[v][m] \in Nat
      /\ LeastRows[v] \in Nat /\ PageRows \in Nat /\ RowValues \in Nat \ {0}
  BY PageAssumption DEF PageAssumption
<1>2. CASE v \in Paged
  <2> DEFINE extent == Extent[v][m]
  <2>1. extent * PageRows \in Nat
    <3> HIDE DEF extent
    <3>1. extent \in Nat
      BY <1>1 DEF extent
    <3> QED BY <1>1, <3>1
  <2>2. PieceValues \div RowValues = PageRows
    <3>1. PieceValues = PageRows * RowValues
      BY PageAssumption DEF PageAssumption
    <3> QED BY <1>1, <3>1, WholeRows
  <2>3. /\ ServedRowCount(v, m) = extent * PageRows
        /\ RowsHeld(v, m) = extent * PageRows
    BY <1>2, <2>2 DEF ServedRowCount, RowsHeld
  <2> HIDE DEF extent
  <2> QED BY <1>1, <2>1, <2>3, GreaterOfTwo DEF ViewRowCount
<1>3. CASE v \notin Paged
  <2>1. Extent[v][m] = StatedRows[v][m] * RowValues
    BY <1>3, PageAssumption DEF PageAssumption
  <2>2. /\ ServedRowCount(v, m) = StatedRows[v][m]
        /\ RowsHeld(v, m) = Extent[v][m] \div RowValues
    BY <1>3 DEF ServedRowCount, RowsHeld
  <2>3. RowsHeld(v, m) = StatedRows[v][m]
    BY <1>1, <2>1, <2>2, WholeRows
  <2> QED BY <1>1, <2>2, <2>3, GreaterOfTwo DEF ViewRowCount
<1> QED BY <1>2, <1>3

-----------------------------------------------------------------------------
(* The invariant, of a viewer w on a page that shows s.                      *)

HeldRows == [value : Pictures, under : Machines, overtaken : BOOLEAN]

Viewers ==
  [view : Views, first : Nat,
   values : UNION {[rows -> HeldRows] : rows \in SUBSET Nat},
   cycle : -1 .. LastCycle, request : {NoRequest} \cup Requests,
   again : BOOLEAN]

RowsAsked(q) == q.row .. q.row + q.count - 1

(* A request is for rows the machine shown at the time had, was judged by    *)
(* those of the machine that answered, and its body is for what is shown     *)
(* unless the page moved on.                                                 *)
RequestInv(w) ==
  LET q == w.request
  IN  Loading(w) =>
        /\ q.count <= MostRows
        /\ q.row + q.count <= ServedRowCount(q.view, q.under)
        /\ q.under.cycle = q.cycle
        /\ q.stage \in {"answered", "body"} =>
             /\ q.from \in Machines
             /\ q.ok = RangeOK(q.row, q.count, ServedRowCount(q.view, q.from))
        /\ q.stage = "body" => q.ok
        /\ q.stage = "body" /\ ~q.overtaken =>
             q.view = w.view /\ q.cycle = w.cycle

(* A row held is right for the machine the page showed when it asked, or has *)
(* one of the causes.                                                        *)
RowsInv(w) ==
  \A r \in DOMAIN w.values :
    LET row == w.values[r]
    IN  \/ row.overtaken
        \/ row.value # Zeros /\ row.value.of # row.under
        \/ /\ row.under.cycle = w.cycle
           /\ row.value = TrueRow(w.view, r, row.under)

(* Nothing has changed since the request, which brings what is missing or    *)
(* was answered by a machine still to be shown (news, or nobody there: n).   *)
FlightInv(w, s, n) ==
  LET q == w.request
  IN  Loading(w) /\ ~w.again =>
        /\ q.view = w.view /\ q.cycle = w.cycle /\ q.under = s
        /\ VisibleRows(w, s) \subseteq DOMAIN w.values \cup RowsAsked(q)
        /\ q.stage \in {"answered", "body"} => q.from = q.under \/ n

RestInv(w, s, n) ==
  ~Loading(w) => VisibleRows(w, s) \subseteq DOMAIN w.values \/ n

BaseInv(w) ==
  /\ w \in Viewers /\ (w.again => Loading(w))
  /\ RequestInv(w) /\ RowsInv(w)

ViewerInv(w, s, n) ==
  /\ BaseInv(w) /\ w.cycle = s.cycle
  /\ s = NoSnapshot => ~Loading(w)
  /\ FlightInv(w, s, n) /\ RestInv(w, s, n)

EventsInv ==
  /\ news \in BOOLEAN /\ gone \in BOOLEAN
  /\ published \in Machines /\ shown \in Machines \cup {NoSnapshot}
  /\ events \in Seq(Machines) /\ Len(events) <= MaxInTransit
  /\ ~news /\ ~gone =>
       published = IF events = <<>> THEN shown ELSE events[Len(events)]

PageInv == EventsInv /\ ViewerInv(viewer, shown, NewsIsComing \/ gone)

-----------------------------------------------------------------------------
(* Loading.                                                                  *)

LEMMA ViewerFields ==
  ASSUME NEW w \in Viewers
  PROVE  /\ w.view \in Views /\ w.first \in Nat
         /\ DOMAIN w.values \subseteq Nat
         /\ \A r \in DOMAIN w.values : w.values[r] \in HeldRows
         /\ w.cycle \in -1 .. LastCycle
         /\ w.request \in {NoRequest} \cup Requests /\ w.again \in BOOLEAN
         /\ Loading(w) <=> w.request \in Requests
         /\ ~Loading(w) <=> w.request = NoRequest
<1>1. w.request \in Requests => w.request.stage # "none"
  BY DEF Requests
<1>2. NoRequest.stage = "none"
  BY DEF NoRequest
<1> QED BY <1>1, <1>2 DEF Viewers, Loading

(* The rows on the screen, and those of them the machine holds.              *)
LEMMA Visible ==
  ASSUME NEW w \in Viewers, NEW s \in Machines
  PROVE  /\ VisibleRows(w, s) \subseteq Nat
         /\ \A r \in VisibleRows(w, s) :
              w.first <= r /\ r < w.first + WindowRows
         /\ \A r \in VisibleRows(w, s), i \in Nat :
              w.first <= i /\ i <= r => i \in VisibleRows(w, s)
<1> DEFINE rows == ViewRowCount(w.view, s)
           end == Min({w.first + WindowRows, rows})
<1>1. s # NoSnapshot /\ w.first \in Nat /\ rows \in Nat /\ WindowRows \in Nat
  BY Machine, ViewerFields, RowCounts, PageAssumption DEF PageAssumption
<1>2. end = IF w.first + WindowRows <= rows THEN w.first + WindowRows ELSE rows
  BY <1>1, LesserOfTwo
<1>3. VisibleRows(w, s) = w.first .. end - 1
  BY <1>1 DEF VisibleRows
<1> HIDE DEF end, rows
<1> QED BY <1>1, <1>2, <1>3

(* What load() asks for: at most as many rows as one answer has, all held by *)
(* the machine shown, and with them every row on the screen is there.        *)
LEMMA AskCovers ==
  ASSUME NEW w \in Viewers, NEW s \in Machines, w.cycle = s.cycle,
         Missing(w, s) # {}
  PROVE  /\ Ask(w, s) \in Requests /\ Ask(w, s).stage = "asked"
         /\ Ask(w, s).view = w.view /\ Ask(w, s).cycle = w.cycle
         /\ Ask(w, s).under = s
         /\ Ask(w, s).count <= MostRows
         /\ Ask(w, s).row + Ask(w, s).count <= ServedRowCount(w.view, s)
         /\ Missing(w, s) \subseteq RowsAsked(Ask(w, s))
<1> DEFINE served == Served(w, s)
           total == ServedRowCount(w.view, s)
           least == Min(Missing(w, s))
           most == Max(served)
           count == Min({most + 1 - least, MostRows})
<1>1. /\ WindowRows \in 1 .. MostRows /\ MostRows \in Nat /\ total \in Nat
      /\ w.first \in Nat /\ w.view \in Views
  BY ViewerFields, RowCounts, PageAssumption DEF PageAssumption
<1>2. /\ served \subseteq Nat
      /\ \A r \in served : w.first <= r /\ r < w.first + WindowRows /\ r < total
      /\ \A r \in served, i \in Nat : w.first <= i /\ i <= r => i \in served
  BY <1>1, Visible DEF Served
<1>3. Missing(w, s) \subseteq served
  BY DEF Missing
<1>4. least \in served /\ \A r \in Missing(w, s) : least <= r
  BY <1>2, <1>3, LeastNatural
<1>5. most \in served /\ \A r \in served : r <= most
  <2> DEFINE above == {r \in Nat : \A i \in served : i <= r}
  <2>1. total \in above
    BY <1>1, <1>2
  <2>2. Min(above) \in above /\ \A r \in above : Min(above) <= r
    <3> HIDE DEF served, total
    <3> QED BY <2>1, LeastNatural
  <2>3. Min(above) \in served
    <3>1. SUFFICES ASSUME Min(above) \notin served PROVE FALSE
      OBVIOUS
    <3>2. least \in Nat /\ least < Min(above)
      <4>1. least \in served /\ least \in Nat /\ least <= Min(above)
        BY <1>2, <1>4, <2>2
      <4>2. Min(above) \in Nat /\ Min(above) # least
        BY <2>2, <3>1, <4>1
      <4> HIDE DEF served, least, above
      <4> QED BY <4>1, <4>2
    <3>3. Min(above) - 1 \in above
      <4>1. Min(above) - 1 \in Nat
        BY <2>2, <3>2
      <4>2. ASSUME NEW i \in served PROVE i <= Min(above) - 1
        <5>1. i \in Nat /\ Min(above) \in Nat /\ i <= Min(above)
          BY <1>2, <2>2, <4>2
        <5>2. i # Min(above)
          BY <3>1, <4>2
        <5> HIDE DEF above
        <5> QED BY <5>1, <5>2
      <4> QED BY <4>1, <4>2
    <3> QED BY <2>2, <3>3
  <2>4. \E x \in served : \A y \in served : x >= y
    BY <1>2, <2>2, <2>3
  <2> HIDE DEF served, above
  <2>5. most \in served /\ \A y \in served : most >= y
    BY <2>4 DEF Max
  <2> QED BY <1>2, <2>5
<1> HIDE DEF served, total, least, most
<1>6. /\ least \in Nat /\ most \in Nat /\ least <= most /\ most < total
      /\ most + 1 - least <= WindowRows
  BY <1>1, <1>2, <1>4, <1>5
<1>7. count = most + 1 - least
  BY <1>1, <1>6, LesserOfTwo
<1>8. Ask(w, s) =
        [stage |-> "asked", view |-> w.view, cycle |-> w.cycle, row |-> least,
         count |-> count, under |-> s, from |-> NoSnapshot,
         ok |-> FALSE, overtaken |-> FALSE]
  BY Zenon DEF Ask, served, least, most
<1> HIDE DEF count
<1>9. count \in Nat \ {0} /\ count <= MostRows /\ least + count <= total
  BY <1>1, <1>6, <1>7
<1>10. Ask(w, s) \in Requests
  <2>1. w.cycle \in 0 .. LastCycle
    BY Machine
  <2> QED BY <1>1, <1>6, <1>8, <1>9, <2>1 DEF Requests
<1>11. ASSUME NEW r \in Missing(w, s)
       PROVE  r \in least .. least + count - 1
  <2>1. r \in Nat /\ least <= r /\ r <= most
    BY <1>2, <1>3, <1>4, <1>5, <1>11
  <2> QED BY <1>6, <1>7, <2>1
<1> QED BY <1>8, <1>9, <1>10, <1>11 DEF RowsAsked, total

LEMMA ZerosFill ==
  ASSUME NEW w \in Viewers, NEW s \in Machines, w.cycle = s.cycle, RowsInv(w)
  PROVE  LET v == WithZeros(w, s)
         IN  /\ DOMAIN v \subseteq Nat /\ v \in [DOMAIN v -> HeldRows]
             /\ VisibleRows(w, s) \subseteq DOMAIN v \cup Missing(w, s)
             /\ RowsInv([w EXCEPT !.values = v])
<1> DEFINE v == WithZeros(w, s)
           blank == VisibleRows(w, s) \ Served(w, s)
<1>1. /\ DOMAIN v = DOMAIN w.values \cup blank
      /\ \A r \in DOMAIN v : v[r] = IF r \in DOMAIN w.values THEN w.values[r]
                                    ELSE Held(Zeros, s, FALSE)
  BY DEF WithZeros
<1>2. DOMAIN w.values \subseteq Nat /\ blank \subseteq Nat
  BY ViewerFields, Visible
<1>3. Held(Zeros, s, FALSE) \in HeldRows
  BY DEF Held, HeldRows, Pictures
<1>4. v \in [DOMAIN v -> HeldRows]
  BY <1>1, <1>3, ViewerFields DEF WithZeros
<1>5. VisibleRows(w, s) \subseteq DOMAIN v \cup Missing(w, s)
  BY <1>1 DEF Missing
<1>6. ASSUME NEW r \in blank, r \notin DOMAIN w.values
      PROVE  /\ v[r].under.cycle = w.cycle
             /\ v[r].value = TrueRow(w.view, r, v[r].under)
  <2>1. v[r] = Held(Zeros, s, FALSE) /\ r \in Nat
    BY <1>1, <1>2, <1>6
  <2>2. v[r].value = Zeros /\ v[r].under = s
    BY <2>1 DEF Held
  <2>3. ~(r < ServedRowCount(w.view, s))
    BY <1>6 DEF Served
  <2>4. RowsHeld(w.view, s) = ServedRowCount(w.view, s)
    BY ViewerFields, RowCounts
  <2> QED BY <2>2, <2>3, <2>4 DEF TrueRow
<1> HIDE DEF v, blank
<1> DEFINE x == [w EXCEPT !.values = v]
<1>7. x.values = v /\ x.cycle = w.cycle /\ x.view = w.view
  BY DEF Viewers
<1> HIDE DEF x
<1>8. RowsInv(x)
  <2> SUFFICES ASSUME NEW r \in DOMAIN v
               PROVE  LET row == v[r]
                      IN  \/ row.overtaken
                          \/ row.value # Zeros /\ row.value.of # row.under
                          \/ /\ row.under.cycle = w.cycle
                             /\ row.value = TrueRow(w.view, r, row.under)
    BY <1>7 DEF RowsInv
  <2>1. CASE r \in DOMAIN w.values
    BY <1>1, <2>1 DEF RowsInv
  <2>2. CASE r \notin DOMAIN w.values
    BY <1>1, <1>6, <2>2
  <2> QED BY <2>1, <2>2
<1> QED BY <1>1, <1>2, <1>4, <1>5, <1>8 DEF v, x

(* After load() the viewer has what it needs or will have.                   *)
LEMMA LoadKeeps ==
  ASSUME NEW w, BaseInv(w), NEW s \in Machines, w.cycle = s.cycle,
         NEW n \in BOOLEAN
  PROVE  /\ ViewerInv(Load(w, s), s, n)
         /\ Load(w, s).view = w.view /\ Load(w, s).first = w.first
<1> USE DEF BaseInv
<1>1. s # NoSnapshot
  BY Machine
<1>2. CASE Loading(w)
  <2> DEFINE x == Load(w, s)
  <2>1. x = [w EXCEPT !.again = TRUE]
    BY <1>1, <1>2 DEF Load
  <2>2. /\ x \in Viewers /\ x.again = TRUE /\ x.view = w.view
        /\ x.first = w.first /\ x.values = w.values /\ x.cycle = w.cycle
        /\ x.request = w.request
    BY <2>1 DEF Viewers
  <2> HIDE DEF x
  <2>3. Loading(x)
    BY <1>2, <2>2 DEF Loading
  <2>4. RequestInv(x) /\ RowsInv(x)
    BY <2>2 DEF RequestInv, RowsInv, Loading
  <2>5. FlightInv(x, s, n) /\ RestInv(x, s, n)
    BY <2>2, <2>3 DEF FlightInv, RestInv
  <2> QED BY <1>1, <2>2, <2>3, <2>4, <2>5 DEF ViewerInv, x
<1>3. CASE ~Loading(w)
  <2> DEFINE x == Load(w, s)
             v == WithZeros(w, s)
             q == IF Missing(w, s) = {} THEN NoRequest ELSE Ask(w, s)
  <2>1. x = [w EXCEPT !.values = v, !.request = q]
    BY <1>1, <1>3, Zenon DEF Load
  <2>2. /\ DOMAIN v \subseteq Nat /\ v \in [DOMAIN v -> HeldRows]
        /\ VisibleRows(w, s) \subseteq DOMAIN v \cup Missing(w, s)
        /\ RowsInv([w EXCEPT !.values = v])
    BY ZerosFill
  <2>3. q \in {NoRequest} \cup Requests
    BY AskCovers
  <2> HIDE DEF v
  <2>4. v \in UNION {[rows -> HeldRows] : rows \in SUBSET Nat}
    BY <2>2
  <2>5. /\ Missing(w, s) = {} => q = NoRequest
        /\ Missing(w, s) # {} =>
             /\ q \in Requests /\ q.stage = "asked"
             /\ q.view = w.view /\ q.cycle = w.cycle /\ q.under = s
             /\ q.count <= MostRows
             /\ q.row + q.count <= ServedRowCount(w.view, s)
             /\ Missing(w, s) \subseteq RowsAsked(q)
    BY AskCovers
  <2> HIDE DEF q
  <2>6. /\ x \in Viewers /\ x.again = w.again /\ x.view = w.view
        /\ x.first = w.first /\ x.values = v /\ x.cycle = w.cycle
        /\ x.request = q
    BY <2>1, <2>3, <2>4 DEF Viewers
  <2>7. w.again = FALSE
    BY <1>3, ViewerFields
  <2>8. RowsInv(x)
    <3> DEFINE y == [w EXCEPT !.values = v]
    <3>1. y.values = v /\ y.cycle = w.cycle /\ y.view = w.view /\ RowsInv(y)
      BY <2>2 DEF Viewers
    <3> HIDE DEF y
    <3> QED BY <2>6, <3>1 DEF RowsInv
  <2> HIDE DEF x
  <2>9. VisibleRows(x, s) = VisibleRows(w, s)
    BY <2>6 DEF VisibleRows
  <2>10. CASE Missing(w, s) = {}
    <3>1. ~Loading(x)
      BY <2>5, <2>6, <2>10 DEF Loading, NoRequest
    <3>2. RequestInv(x) /\ FlightInv(x, s, n) /\ RestInv(x, s, n)
      BY <2>2, <2>6, <2>9, <2>10, <3>1 DEF RequestInv, FlightInv, RestInv
    <3> QED BY <1>1, <2>6, <2>7, <2>8, <3>1, <3>2 DEF ViewerInv, x
  <2>11. CASE Missing(w, s) # {}
    <3>1. Loading(x)
      BY <2>5, <2>6, <2>11 DEF Loading
    <3>2. RequestInv(x)
      BY <2>5, <2>6, <2>11 DEF RequestInv
    <3>3. FlightInv(x, s, n) /\ RestInv(x, s, n)
      BY <2>2, <2>5, <2>6, <2>9, <2>11, <3>1 DEF FlightInv, RestInv
    <3> QED BY <1>1, <2>6, <2>7, <2>8, <3>1, <3>2, <3>3 DEF ViewerInv, x
  <2> QED BY <2>10, <2>11
<1> QED BY <1>2, <1>3

(* Clearing the values leaves no row with a cause unnamed, whatever view,    *)
(* row and cycle come next.                                                  *)
LEMMA ClearedKeeps ==
  ASSUME NEW w, BaseInv(w),
         NEW view \in Views, NEW first \in Nat, NEW cycle \in 0 .. LastCycle
  PROVE  BaseInv([Cleared(w) EXCEPT !.view = view, !.first = first,
                                    !.cycle = cycle])
<1> USE DEF BaseInv
<1> DEFINE q == IF w.request.stage = "body"
                THEN [w.request EXCEPT !.overtaken = TRUE] ELSE w.request
           x == [Cleared(w) EXCEPT !.view = view, !.first = first,
                                   !.cycle = cycle]
<1>1. w.request \in {NoRequest} \cup Requests /\ w.again \in BOOLEAN
      /\ (Loading(w) <=> w.request \in Requests)
  BY ViewerFields
<1>2. q \in {NoRequest} \cup Requests
  <2>1. CASE w.request.stage = "body"
    <3>1. w.request \in Requests
      BY <1>1, <2>1 DEF NoRequest
    <3> QED BY <2>1, <3>1 DEF Requests
  <2>2. CASE w.request.stage # "body"
    BY <1>1, <2>2
  <2> QED BY <2>1, <2>2
<1>3. ASSUME w.request \in Requests
      PROVE  /\ q \in Requests
             /\ q.stage = w.request.stage /\ q.view = w.request.view
             /\ q.cycle = w.request.cycle /\ q.row = w.request.row
             /\ q.count = w.request.count /\ q.under = w.request.under
             /\ q.from = w.request.from /\ q.ok = w.request.ok
             /\ q.stage = "body" => q.overtaken = TRUE
  BY <1>3 DEF Requests
<1>4. w.request = NoRequest => q = NoRequest
  BY DEF NoRequest
<1> HIDE DEF q
<1>5. Cleared(w) = [w EXCEPT !.values = NothingHeld, !.request = q]
  BY Zenon DEF Cleared, q
<1>6. NothingHeld \in UNION {[rows -> HeldRows] : rows \in SUBSET Nat}
  <2>1. NothingHeld \in [{} -> HeldRows]
    BY DEF NothingHeld
  <2> QED BY <2>1
<1>7. /\ x \in Viewers /\ x.values = NothingHeld /\ x.cycle = cycle
      /\ x.view = view /\ x.request = q /\ x.again = w.again
  <2> DEFINE y == Cleared(w)
  <2>1. /\ y \in Viewers /\ y.values = NothingHeld /\ y.request = q
        /\ y.again = w.again
    BY <1>2, <1>5, <1>6 DEF Viewers
  <2> HIDE DEF y
  <2>2. cycle \in -1 .. LastCycle
    BY PageAssumption DEF PageAssumption
  <2>3. LET z == [y EXCEPT !.view = view, !.first = first, !.cycle = cycle]
        IN  /\ z \in Viewers /\ z.values = NothingHeld /\ z.cycle = cycle
            /\ z.view = view /\ z.request = q /\ z.again = w.again
    BY <2>1, <2>2 DEF Viewers
  <2> QED BY <2>3, Zenon DEF y
<1> HIDE DEF x
<1>8. RowsInv(x)
  BY <1>7 DEF RowsInv, NothingHeld
<1>9. Loading(x) <=> Loading(w)
  BY <1>1, <1>3, <1>4, <1>7 DEF Loading, NoRequest
<1>10. RequestInv(x)
  BY <1>1, <1>3, <1>7, <1>9 DEF RequestInv
<1> QED BY <1>7, <1>8, <1>9, <1>10 DEF x

(* render()'s part.                                                          *)
LEMMA RefreshKeeps ==
  ASSUME NEW w, BaseInv(w), NEW s \in Machines, NEW n \in BOOLEAN
  PROVE  ViewerInv(Refresh(w, s), s, n)
<1> USE DEF BaseInv
<1>1. CASE s.cycle = w.cycle
  <2>1. Refresh(w, s) = Load(w, s)
    BY <1>1 DEF Refresh
  <2> QED BY <1>1, <2>1, LoadKeeps
<1>2. CASE s.cycle # w.cycle
  <2> DEFINE x == [Cleared(w) EXCEPT !.cycle = s.cycle]
  <2>1. Refresh(w, s) = Load(x, s)
    BY <1>2, Zenon DEF Refresh
  <2>2. s.cycle \in 0 .. LastCycle /\ w.view \in Views /\ w.first \in Nat
    BY Machine, ViewerFields
  <2>3. x = [Cleared(w) EXCEPT !.view = w.view, !.first = w.first,
                               !.cycle = s.cycle]
    <3> DEFINE y == Cleared(w)
    <3>1. y.view = w.view /\ y.first = w.first
          /\ DOMAIN y = {"view", "first", "values", "cycle", "request", "again"}
      BY DEF Cleared, Viewers
    <3> HIDE DEF y
    <3> QED BY <3>1 DEF y
  <2>4. BaseInv(x)
    <3>1. BaseInv([Cleared(w) EXCEPT !.view = w.view, !.first = w.first,
                                     !.cycle = s.cycle])
      BY <2>2, ClearedKeeps
    <3> QED BY <2>3, <3>1, Zenon
  <2>5. x.cycle = s.cycle
    BY DEF Cleared, Viewers
  <2> HIDE DEF x
  <2> QED BY <2>1, <2>4, <2>5, LoadKeeps
<1> QED BY <1>1, <1>2

-----------------------------------------------------------------------------
(* Scrolling, landing and decoding.                                          *)

LEMMA ScrolledKeeps ==
  ASSUME NEW w, BaseInv(w), NEW first \in Nat
  PROVE  /\ BaseInv([w EXCEPT !.first = first])
         /\ [w EXCEPT !.first = first].cycle = w.cycle
<1> USE DEF BaseInv
<1> DEFINE x == [w EXCEPT !.first = first]
<1>1. /\ x \in Viewers /\ x.values = w.values /\ x.cycle = w.cycle
      /\ x.view = w.view /\ x.request = w.request /\ x.again = w.again
  BY DEF Viewers
<1> HIDE DEF x
<1>2. RequestInv(x) /\ RowsInv(x) /\ (Loading(x) <=> Loading(w))
  BY <1>1 DEF RequestInv, RowsInv, Loading
<1> QED BY <1>1, <1>2 DEF x

(* A request answered by the machine it was made under is not refused.       *)
LEMMA InStepIsTaken ==
  ASSUME NEW w, BaseInv(w), Loading(w),
         w.request.stage \in {"answered", "body"},
         w.request.from = w.request.under
  PROVE  w.request.ok
<1> DEFINE q == w.request
           total == ServedRowCount(q.view, q.under)
<1>1. q \in Requests
  BY ViewerFields DEF BaseInv
<1>2. /\ q.view \in Views /\ q.under \in Machines
      /\ q.row \in Nat /\ q.count \in Nat \ {0}
  BY <1>1 DEF Requests
<1>3. total \in Nat /\ MostRows \in Nat
  BY <1>2, RowCounts, PageAssumption DEF PageAssumption
<1>4. /\ q.ok = RangeOK(q.row, q.count, total)
      /\ q.count <= MostRows /\ q.row + q.count <= total
  BY DEF BaseInv, RequestInv
<1> HIDE DEF q, total
<1>5. RangeOK(q.row, q.count, total)
  BY <1>2, <1>3, <1>4 DEF RangeOK
<1> QED BY <1>4, <1>5 DEF q

(* A fetch is over: what was noted meanwhile is met, or nothing is missing,  *)
(* or news will come.                                                        *)
LEMMA LandedKeeps ==
  ASSUME NEW w, BaseInv(w), NEW s \in Machines, w.cycle = s.cycle,
         NEW n \in BOOLEAN,
         w.again \/ VisibleRows(w, s) \subseteq DOMAIN w.values \/ n
  PROVE  ViewerInv(Landed(w, s), s, n)
<1> USE DEF BaseInv
<1> DEFINE done == [w EXCEPT !.request = NoRequest, !.again = FALSE]
<1>1. /\ done \in Viewers /\ done.values = w.values /\ done.cycle = w.cycle
      /\ done.view = w.view /\ done.first = w.first
      /\ done.request = NoRequest /\ done.again = FALSE
  BY DEF Viewers
<1>2. Landed(w, s) = IF w.again THEN Load(done, s) ELSE done
  BY Zenon DEF Landed
<1> HIDE DEF done
<1>3. ~Loading(done) /\ RequestInv(done) /\ RowsInv(done)
  BY <1>1 DEF Loading, NoRequest, RequestInv, RowsInv
<1>4. BaseInv(done) /\ done.cycle = s.cycle
  BY <1>1, <1>3
<1>5. CASE w.again
  BY <1>2, <1>4, <1>5, LoadKeeps
<1>6. CASE ~w.again
  <2>1. VisibleRows(done, s) = VisibleRows(w, s)
    BY <1>1 DEF VisibleRows
  <2>2. FlightInv(done, s, n) /\ RestInv(done, s, n)
    BY <1>1, <1>3, <1>6, <2>1 DEF FlightInv, RestInv
  <2> QED BY <1>2, <1>3, <1>4, <1>6, <2>2 DEF ViewerInv
<1> QED BY <1>5, <1>6

LEMMA DecodedKeeps ==
  ASSUME NEW w, BaseInv(w), w.request.stage = "body"
  PROVE  LET x == [w EXCEPT !.values = Decoded(w)]
         IN  /\ BaseInv(x) /\ x.cycle = w.cycle /\ x.again = w.again
             /\ x.view = w.view /\ x.first = w.first
             /\ DOMAIN x.values = DOMAIN w.values \cup RowsAsked(w.request)
<1> USE DEF BaseInv
<1> DEFINE q == w.request
           v == Decoded(w)
           x == [w EXCEPT !.values = v]
           view == IF w.view \in OfPes THEN w.view ELSE q.view
           new(r) == Held([view |-> view, row |-> r, of |-> q.from],
                          q.under, q.overtaken)
<1>1. Loading(w) /\ q \in Requests
  BY ViewerFields DEF Loading
<1>2. /\ q.row \in Nat /\ q.count \in Nat /\ q.view \in Views
      /\ q.under \in Machines /\ q.overtaken \in BOOLEAN /\ w.view \in Views
  BY <1>1, ViewerFields DEF Requests
<1>3. /\ q.from \in Machines /\ q.under.cycle = q.cycle
      /\ q.row + q.count <= ServedRowCount(q.view, q.under)
      /\ ~q.overtaken => q.view = w.view /\ q.cycle = w.cycle
  BY <1>1 DEF RequestInv
<1>4. /\ DOMAIN v = DOMAIN w.values \cup RowsAsked(q)
      /\ \A r \in DOMAIN v : v[r] = IF r \in RowsAsked(q) THEN new(r)
                                                          ELSE w.values[r]
  BY DEF Decoded, RowsAsked
<1>5. DOMAIN w.values \subseteq Nat /\ RowsAsked(q) \subseteq Nat
  BY <1>2, ViewerFields DEF RowsAsked
<1>6. view \in Views
  BY <1>2
<1>7. ASSUME NEW r \in RowsAsked(q)
      PROVE  /\ new(r) \in HeldRows
             /\ LET row == new(r)
                IN  \/ row.overtaken
                    \/ row.value # Zeros /\ row.value.of # row.under
                    \/ /\ row.under.cycle = w.cycle
                       /\ row.value = TrueRow(w.view, r, row.under)
  <2> DEFINE row == new(r)
  <2>1. /\ row.value = [view |-> view, row |-> r, of |-> q.from]
        /\ row.under = q.under /\ row.overtaken = q.overtaken
    BY DEF Held
  <2>2. r \in Nat
    BY <1>5
  <2> HIDE DEF view
  <2>3. new(r) \in HeldRows
    BY <1>2, <1>3, <1>6, <2>2 DEF Held, HeldRows, Pictures
  <2> HIDE DEF row
  <2>4. row.value # Zeros
    <3>1. row.value.view = view /\ Zeros.view = "zeros"
      BY <2>1 DEF Zeros
    <3> QED BY <1>6, <3>1, PageAssumption DEF PageAssumption
  <2>5. CASE q.from # q.under
    <3>1. row.value.of = q.from
      BY <2>1
    <3> QED BY <2>1, <2>3, <2>4, <2>5, <3>1 DEF row
  <2>6. CASE q.overtaken
    BY <2>1, <2>3, <2>6 DEF row
  <2>7. CASE q.from = q.under /\ ~q.overtaken
    <3>1. view = w.view /\ q.view = w.view
      BY <1>3, <2>7 DEF view
    <3>2. r < ServedRowCount(w.view, q.under)
      <4>1. ServedRowCount(w.view, q.under) \in Nat
        BY <1>2, RowCounts
      <4>2. q.row + q.count <= ServedRowCount(w.view, q.under)
        BY <1>3, <3>1
      <4> QED BY <1>2, <2>2, <4>1, <4>2 DEF RowsAsked
    <3>3. row.value = TrueRow(w.view, r, row.under)
      <4>1. RowsHeld(w.view, q.under) = ServedRowCount(w.view, q.under)
        BY <1>2, RowCounts
      <4> QED BY <2>1, <2>7, <3>1, <3>2, <4>1 DEF TrueRow
    <3>4. row.under.cycle = w.cycle
      BY <1>3, <2>1, <2>7
    <3> QED BY <2>3, <3>3, <3>4 DEF row
  <2> QED BY <2>5, <2>6, <2>7
<1> HIDE DEF v, new
<1>8. v \in [DOMAIN v -> HeldRows]
  <2>1. \A r \in DOMAIN v : v[r] \in HeldRows
    BY <1>4, <1>7, ViewerFields
  <2>2. v = [r \in DOMAIN v |-> v[r]]
    BY DEF v, Decoded
  <2> QED BY <2>1, <2>2
<1>9. v \in UNION {[rows -> HeldRows] : rows \in SUBSET Nat}
  BY <1>4, <1>5, <1>8
<1>10. /\ x \in Viewers /\ x.values = v /\ x.cycle = w.cycle
       /\ x.view = w.view /\ x.first = w.first
       /\ x.request = w.request /\ x.again = w.again
  BY <1>9 DEF Viewers
<1> HIDE DEF x
<1>11. RowsInv(x)
  BY <1>4, <1>7, <1>10 DEF RowsInv
<1>12. RequestInv(x) /\ Loading(x)
  BY <1>1, <1>10 DEF RequestInv, Loading
<1> QED BY <1>4, <1>10, <1>11, <1>12 DEF x, v

-----------------------------------------------------------------------------
(* The steps.                                                                *)

News == NewsIsComing \/ gone

LEMMA NewsIsBoolean ==
  News \in BOOLEAN /\ News' \in BOOLEAN
BY DEF News, NewsIsComing

LEMMA InitPageInv == Init => PageInv
<1> SUFFICES ASSUME Init PROVE PageInv
  OBVIOUS
<1>1. EventsInv
  <2>1. published \in Machines
    BY DEF Init, Machines
  <2>2. /\ events = <<>> /\ news = TRUE /\ gone = FALSE
        /\ shown = NoSnapshot
    BY DEF Init
  <2>3. <<>> \in Seq(Machines) /\ Len(<<>>) = 0 /\ 0 <= MaxInTransit
    BY PageAssumption DEF PageAssumption
  <2> QED BY <2>1, <2>2, <2>3 DEF EventsInv
<1>2. /\ viewer.view \in Views /\ viewer.first = 0
      /\ viewer.values = NothingHeld /\ viewer.cycle = -1
      /\ viewer.request = NoRequest /\ viewer.again = FALSE
      /\ shown = NoSnapshot
  BY DEF Init
<1>3. NothingHeld \in UNION {[rows -> HeldRows] : rows \in SUBSET Nat}
  <2>1. NothingHeld \in [{} -> HeldRows]
    BY DEF NothingHeld
  <2> QED BY <2>1
<1>4. viewer \in Viewers
  <2>1. -1 \in -1 .. LastCycle
    BY PageAssumption DEF PageAssumption
  <2>2. viewer \in [view : Views, first : {0}, values : {NothingHeld},
                    cycle : {-1}, request : {NoRequest}, again : {FALSE}]
    BY DEF Init
  <2>3. PICK view \in Views :
          viewer = [view |-> view, first |-> 0, values |-> NothingHeld,
                    cycle |-> -1, request |-> NoRequest, again |-> FALSE]
    BY <2>2
  <2> DEFINE values == UNION {[rows -> HeldRows] : rows \in SUBSET Nat}
             requests == {NoRequest} \cup Requests
  <2>4. NothingHeld \in values /\ NoRequest \in requests
    BY <1>3
  <2> HIDE DEF values, requests
  <2>5. viewer \in [view : Views, first : Nat, values : values,
                    cycle : -1 .. LastCycle, request : requests,
                    again : BOOLEAN]
    BY <2>1, <2>3, <2>4
  <2> QED BY <2>5, Zenon DEF Viewers, values, requests
<1>5. ~Loading(viewer) /\ VisibleRows(viewer, shown) = {}
  BY <1>2 DEF Loading, NoRequest, VisibleRows
<1>6. RequestInv(viewer) /\ RowsInv(viewer)
  BY <1>2, <1>5 DEF RequestInv, RowsInv, NothingHeld
<1>7. viewer.cycle = shown.cycle
  BY <1>2 DEF NoSnapshot
<1> QED BY <1>1, <1>2, <1>4, <1>5, <1>6, <1>7
        DEF PageInv, ViewerInv, BaseInv, FlightInv, RestInv

(* News that is still to come, more of it, or nobody left, spoils nothing.   *)
LEMMA MoreNewsKeeps ==
  ASSUME NEW w, NEW s, NEW n \in BOOLEAN, NEW m \in BOOLEAN,
         ViewerInv(w, s, n), n => m
  PROVE  ViewerInv(w, s, m)
BY DEF ViewerInv, FlightInv, RestInv

LEMMA SimulatorKeepsInv ==
  PageInv /\ (Publish \/ SendEvent \/ Reconnect \/ Exit) => PageInv'
<1> SUFFICES ASSUME PageInv, Publish \/ SendEvent \/ Reconnect \/ Exit
             PROVE  PageInv'
  OBVIOUS
<1>1. UNCHANGED <<shown, viewer>>
  BY DEF Publish, SendEvent, Reconnect, Exit
<1>2. EventsInv' /\ News'
  <2> USE DEF PageInv, EventsInv, News, NewsIsComing
  <2>1. CASE Publish
    BY <2>1 DEF Publish
  <2>2. CASE SendEvent
    <3>1. /\ events' = Append(events, published) /\ events \in Seq(Machines)
          /\ published \in Machines /\ Len(events) < MaxInTransit
          /\ MaxInTransit \in Nat
      BY <2>2, PageAssumption DEF SendEvent, PageAssumption
    <3>2. /\ events' \in Seq(Machines) /\ Len(events') = Len(events) + 1
          /\ events' # <<>> /\ events'[Len(events')] = published
      BY <3>1
    <3>3. UNCHANGED <<published, gone, shown>> /\ news' = FALSE
      BY <2>2 DEF SendEvent
    <3>4. Len(events') <= MaxInTransit
      BY <3>1, <3>2
    <3> QED BY <3>1, <3>2, <3>3, <3>4
  <2>3. CASE Reconnect
    BY <2>3, PageAssumption DEF Reconnect, PageAssumption
  <2>4. CASE Exit
    BY <2>4 DEF Exit
  <2> QED BY <2>1, <2>2, <2>3, <2>4
<1>3. ViewerInv(viewer, shown, News')
  BY <1>2, NewsIsBoolean, MoreNewsKeeps DEF PageInv, News
<1> QED BY <1>1, <1>2, <1>3 DEF PageInv, News

LEMMA AnswerKeepsInv == PageInv /\ Answer => PageInv'
<1> SUFFICES ASSUME PageInv, Answer PROVE PageInv'
  OBVIOUS
<1> DEFINE w == viewer
           q == w.request
           ok == RangeOK(q.row, q.count, RowsHeld(q.view, published))
           p == [q EXCEPT !.stage = "answered", !.from = published, !.ok = ok]
           x == [w EXCEPT !.request = p]
<1>1. UNCHANGED <<published, news, events, gone, shown>>
  BY DEF Answer
<1>2. ViewerInv(w, shown, News) /\ w \in Viewers /\ published \in Machines
  BY DEF PageInv, ViewerInv, BaseInv, EventsInv, News
<1>3. Loading(w) /\ q \in Requests /\ q.stage = "asked"
  BY <1>2, ViewerFields DEF Answer, Loading
<1>4. ok \in BOOLEAN
  BY DEF RangeOK
<1> HIDE DEF ok
<1>5. viewer' = x
  BY <1>2, <1>3 DEF Answer, ok, Viewers, Requests
<1> HIDE DEF w, q
<1>6. /\ p \in Requests /\ p.stage = "answered" /\ p.from = published
      /\ p.ok = ok /\ p.view = q.view /\ p.cycle = q.cycle /\ p.row = q.row
      /\ p.count = q.count /\ p.under = q.under
  BY <1>2, <1>3, <1>4 DEF Requests
<1> HIDE DEF p
<1>7. /\ x \in Viewers /\ x.values = w.values /\ x.cycle = w.cycle
      /\ x.view = w.view /\ x.first = w.first
      /\ x.request = p /\ x.again = w.again
  BY <1>2, <1>6 DEF Viewers
<1> HIDE DEF x
<1>8. Loading(x)
  BY <1>6, <1>7 DEF Loading
<1>9. VisibleRows(x, shown) = VisibleRows(w, shown)
  BY <1>7 DEF VisibleRows
<1>10. BaseInv(x)
  <2>1. RequestInv(w) /\ RowsInv(w)
    BY <1>2 DEF ViewerInv, BaseInv
  <2>2. RequestInv(x)
    <3>1. q.view \in Views
      BY <1>3 DEF Requests
    <3>2. ok = RangeOK(q.row, q.count, ServedRowCount(q.view, published))
      BY <1>2, <3>1, RowCounts DEF ok, q
    <3> QED BY <1>2, <1>3, <1>6, <1>7, <1>8, <2>1, <3>2 DEF RequestInv, q
  <2>3. RowsInv(x)
    BY <1>7, <2>1 DEF RowsInv
  <2> QED BY <1>7, <1>8, <2>2, <2>3 DEF BaseInv
<1>11. FlightInv(x, shown, News) /\ RestInv(x, shown, News)
  <2>1. SUFFICES ASSUME ~x.again PROVE FlightInv(x, shown, News)
    BY <1>8 DEF RestInv, FlightInv
  <2>2. /\ q.view = w.view /\ q.cycle = w.cycle /\ q.under = shown
        /\ VisibleRows(w, shown) \subseteq DOMAIN w.values \cup RowsAsked(q)
    BY <1>2, <1>3, <1>7, <2>1 DEF ViewerInv, FlightInv, q
  <2>3. published = shown \/ News
    BY DEF PageInv, EventsInv, News, NewsIsComing
  <2>4. RowsAsked(p) = RowsAsked(q)
    BY <1>6 DEF RowsAsked
  <2> QED BY <1>6, <1>7, <1>9, <2>2, <2>3, <2>4 DEF FlightInv
<1>12. ViewerInv(x, shown, News)
  <2>1. /\ w.cycle = shown.cycle
        /\ shown # NoSnapshot
    BY <1>2, <1>3 DEF ViewerInv
  <2> QED BY <1>7, <1>10, <1>11, <2>1 DEF ViewerInv
<1>13. EventsInv' /\ News' = News
  BY <1>1 DEF PageInv, EventsInv, News, NewsIsComing
<1> QED BY <1>1, <1>5, <1>12, <1>13 DEF PageInv, News

LEMMA WithoutFirst ==
  ASSUME NEW S, NEW e \in Seq(S), e # <<>>
  PROVE  /\ Head(e) \in S /\ Tail(e) \in Seq(S)
         /\ Len(Tail(e)) = Len(e) - 1
         /\ IF Tail(e) = <<>> THEN e[Len(e)] = Head(e)
            ELSE Tail(e)[Len(Tail(e))] = e[Len(e)]
<1>1. /\ Len(e) \in Nat \ {0} /\ Head(e) = e[1] /\ Head(e) \in S
      /\ Tail(e) \in Seq(S) /\ Len(Tail(e)) = Len(e) - 1
  OBVIOUS
<1>2. CASE Len(e) = 1
  <2>1. \A seq \in Seq(S) : seq # <<>> => Len(seq) \in Nat \ {0}
    BY EmptySeq, Zenon
  <2>2. Len(Tail(e)) = 0
    BY <1>1, <1>2
  <2>3. Tail(e) = <<>>
    <3>1. 0 \notin Nat \ {0}
      OBVIOUS
    <3> QED BY <1>1, <2>1, <2>2, <3>1, Zenon
  <2> QED BY <1>1, <1>2, <2>3
<1>3. CASE Len(e) # 1
  <2>1. Tail(e) # <<>> /\ Len(Tail(e)) \in 1 .. Len(e) - 1
    BY <1>1, <1>3
  <2>2. Tail(e)[Len(Tail(e))] = e[Len(Tail(e)) + 1]
    BY <1>1, <2>1
  <2> QED BY <1>1, <2>1, <2>2
<1> QED BY <1>2, <1>3

LEMMA ReceiveKeepsInv == PageInv /\ Receive => PageInv'
<1> SUFFICES ASSUME PageInv, Receive PROVE PageInv'
  OBVIOUS
<1>1. /\ events # <<>> /\ events \in Seq(Machines)
      /\ Head(events) \in Machines /\ Tail(events) \in Seq(Machines)
      /\ Len(Tail(events)) = Len(events) - 1
      /\ IF Tail(events) = <<>> THEN events[Len(events)] = Head(events)
         ELSE Tail(events)[Len(Tail(events))] = events[Len(events)]
  <2>1. events # <<>> /\ events \in Seq(Machines)
    BY DEF Receive, PageInv, EventsInv
  <2> QED BY <2>1, WithoutFirst
<1>2. /\ shown' = Head(events) /\ events' = Tail(events)
      /\ viewer' = Refresh(viewer, Head(events))
      /\ UNCHANGED <<published, news, gone>>
  BY DEF Receive
<1>3. EventsInv'
  <2>1. /\ news \in BOOLEAN /\ gone \in BOOLEAN /\ published \in Machines
        /\ Len(events) <= MaxInTransit
        /\ ~news /\ ~gone => published = events[Len(events)]
    BY <1>1 DEF PageInv, EventsInv
  <2>2. Len(Tail(events)) <= MaxInTransit
    <3>1. Len(events) \in Nat /\ MaxInTransit \in Nat
      BY <1>1, PageAssumption DEF PageAssumption
    <3> QED BY <1>1, <2>1, <3>1
  <2>3. ~news /\ ~gone =>
          published = IF Tail(events) = <<>> THEN Head(events)
                      ELSE Tail(events)[Len(Tail(events))]
    BY <1>1, <2>1
  <2> QED BY <1>1, <1>2, <2>1, <2>2, <2>3 DEF EventsInv
<1>4. BaseInv(viewer)
  BY DEF PageInv, ViewerInv
<1>5. ViewerInv(viewer', shown', News')
  BY <1>1, <1>2, <1>4, NewsIsBoolean, RefreshKeeps
<1> QED BY <1>3, <1>5 DEF PageInv, News

(* The steps of the user and of a fetch leave the rest of the page alone.    *)
LEMMA ViewerStep ==
  ASSUME PageInv, UNCHANGED <<published, news, events, gone, shown>>,
         ViewerInv(viewer', shown, News)
  PROVE  PageInv'
BY DEF PageInv, EventsInv, News, NewsIsComing

LEMMA ScrollKeepsInv == PageInv /\ Scroll => PageInv'
<1> SUFFICES ASSUME PageInv, Scroll PROVE PageInv'
  OBVIOUS
<1>1. PICK row \in 0 .. ViewRowCount(viewer.view, shown) - 1 :
        viewer' = Load([viewer EXCEPT !.first = row], shown)
  BY DEF Scroll
<1>2. /\ shown \in Machines /\ BaseInv(viewer) /\ row \in Nat
      /\ viewer.cycle = shown.cycle
      /\ UNCHANGED <<published, news, events, gone, shown>>
  BY DEF Scroll, PageInv, EventsInv, ViewerInv
<1> DEFINE x == [viewer EXCEPT !.first = row]
<1>3. BaseInv(x) /\ x.cycle = shown.cycle
  BY <1>2, ScrolledKeeps
<1> HIDE DEF x
<1>4. ViewerInv(Load(x, shown), shown, News)
  BY <1>2, <1>3, NewsIsBoolean, LoadKeeps
<1> QED BY <1>1, <1>2, <1>4, ViewerStep DEF x

LEMMA ShowKeepsInv == PageInv /\ Show => PageInv'
<1> SUFFICES ASSUME PageInv, Show PROVE PageInv'
  OBVIOUS
<1>1. PICK view \in SameMenu(viewer.view) \ {viewer.view} :
        LET top == Load([Cleared(viewer) EXCEPT !.view = view, !.first = 0],
                        shown)
        IN  \E row \in {0} \cup 0 .. ViewRowCount(view, shown) - 1 :
              viewer' = Load([top EXCEPT !.first = row], shown)
  BY DEF Show
<1> DEFINE x == [Cleared(viewer) EXCEPT !.view = view, !.first = 0]
           top == Load(x, shown)
<1>2. PICK row \in {0} \cup 0 .. ViewRowCount(view, shown) - 1 :
        viewer' = Load([top EXCEPT !.first = row], shown)
  BY <1>1
<1>3. /\ shown \in Machines /\ BaseInv(viewer) /\ row \in Nat
      /\ viewer.cycle = shown.cycle
      /\ UNCHANGED <<published, news, events, gone, shown>>
  BY DEF Show, PageInv, EventsInv, ViewerInv
<1>4. view \in Views
  BY PageAssumption DEF SameMenu, PageAssumption
<1>5. BaseInv(x) /\ x.cycle = shown.cycle
  <2>1. shown.cycle \in 0 .. LastCycle
    BY <1>3, Machine
  <2> DEFINE y == Cleared(viewer)
  <2>2. y.cycle = viewer.cycle
        /\ DOMAIN y = {"view", "first", "values", "cycle", "request", "again"}
    BY <1>3 DEF Cleared, BaseInv, Viewers
  <2> HIDE DEF y
  <2>3. LET z == [y EXCEPT !.view = view, !.first = 0]
        IN  /\ z = [y EXCEPT !.view = view, !.first = 0,
                             !.cycle = shown.cycle]
            /\ z.cycle = shown.cycle
    BY <1>3, <2>2
  <2>4. BaseInv([Cleared(viewer) EXCEPT !.view = view, !.first = 0,
                                        !.cycle = shown.cycle])
    BY <1>3, <1>4, <2>1, ClearedKeeps
  <2> QED BY <2>3, <2>4, Zenon DEF y
<1> HIDE DEF x
<1>6. ViewerInv(top, shown, News)
  BY <1>3, <1>5, NewsIsBoolean, LoadKeeps
<1>7. BaseInv(top) /\ top.cycle = shown.cycle
  BY <1>6 DEF ViewerInv
<1> HIDE DEF top
<1> DEFINE z == [top EXCEPT !.first = row]
<1>8. BaseInv(z) /\ z.cycle = shown.cycle
  BY <1>3, <1>7, ScrolledKeeps
<1> HIDE DEF z
<1>9. ViewerInv(Load(z, shown), shown, News)
  BY <1>3, <1>8, NewsIsBoolean, LoadKeeps
<1> QED BY <1>2, <1>3, <1>9, ViewerStep DEF z

LEMMA TakeHeadKeepsInv == PageInv /\ TakeHead => PageInv'
<1> SUFFICES ASSUME PageInv, TakeHead PROVE PageInv'
  OBVIOUS
<1> DEFINE w == viewer
           q == w.request
<1>1. /\ ViewerInv(w, shown, News) /\ BaseInv(w) /\ w.cycle = shown.cycle
      /\ UNCHANGED <<published, news, events, gone, shown>>
      /\ q.stage = "answered"
  BY DEF TakeHead, PageInv, ViewerInv, News
<1>2. Loading(w) /\ q \in Requests /\ w \in Viewers
  BY <1>1, ViewerFields DEF Loading, BaseInv
<1>3. shown \in Machines
  BY <1>1, <1>2 DEF PageInv, EventsInv, ViewerInv
<1>4. CASE StillWanted(w)
  <2> DEFINE p == [q EXCEPT !.stage = "body"]
             x == [w EXCEPT !.request = p]
  <2>1. viewer' = x
    BY <1>2, <1>4 DEF TakeHead, Viewers, Requests
  <2>2. q.ok /\ q.view = w.view /\ q.cycle = w.cycle
    BY <1>4 DEF StillWanted
  <2> HIDE DEF w, q
  <2>3. /\ p \in Requests /\ p.stage = "body" /\ p.from = q.from
        /\ p.ok = q.ok /\ p.view = q.view /\ p.cycle = q.cycle
        /\ p.row = q.row /\ p.count = q.count /\ p.under = q.under
    BY <1>2 DEF Requests
  <2> HIDE DEF p
  <2>4. /\ x \in Viewers /\ x.values = w.values /\ x.cycle = w.cycle
        /\ x.view = w.view /\ x.first = w.first
        /\ x.request = p /\ x.again = w.again
    BY <1>2, <2>3 DEF Viewers
  <2> HIDE DEF x
  <2>5. Loading(x)
    BY <2>3, <2>4 DEF Loading
  <2>6. VisibleRows(x, shown) = VisibleRows(w, shown)
    BY <2>4 DEF VisibleRows
  <2>7. RequestInv(x)
    BY <1>1, <1>2, <2>2, <2>3, <2>4, <2>5 DEF BaseInv, RequestInv, q
  <2>8. RowsInv(x)
    BY <1>1, <2>4 DEF BaseInv, RowsInv
  <2>9. FlightInv(x, shown, News) /\ RestInv(x, shown, News)
    <3>1. RowsAsked(p) = RowsAsked(q)
      BY <2>3 DEF RowsAsked
    <3> QED BY <1>1, <1>2, <2>3, <2>4, <2>5, <2>6, <3>1
            DEF ViewerInv, FlightInv, RestInv, q
  <2>10. ViewerInv(x, shown, News)
    BY <1>1, <1>2, <2>4, <2>5, <2>7, <2>8, <2>9 DEF ViewerInv, BaseInv
  <2> QED BY <1>1, <2>1, <2>10, ViewerStep
<1>5. CASE ~StillWanted(w)
  <2>1. viewer' = Landed(w, shown)
    BY <1>5 DEF TakeHead
  <2>2. ASSUME ~w.again PROVE News
    <3>1. q.view = w.view /\ q.cycle = w.cycle /\ (q.from = q.under \/ News)
      BY <1>1, <1>2, <2>2 DEF ViewerInv, FlightInv
    <3>2. ~q.ok
      BY <1>5, <3>1 DEF StillWanted
    <3>3. q.from # q.under
      BY <1>1, <1>2, <3>2, InStepIsTaken
    <3> QED BY <3>1, <3>3
  <2>3. ViewerInv(Landed(w, shown), shown, News)
    <3> HIDE DEF w, q
    <3> QED BY <1>1, <1>3, <2>2, NewsIsBoolean, LandedKeeps
  <2> QED BY <1>1, <2>1, <2>3, ViewerStep
<1> QED BY <1>4, <1>5

LEMMA TakeBodyKeepsInv == PageInv /\ TakeBody => PageInv'
<1> SUFFICES ASSUME PageInv, TakeBody PROVE PageInv'
  OBVIOUS
<1> DEFINE w == viewer
           q == w.request
<1>1. /\ ViewerInv(w, shown, News) /\ BaseInv(w) /\ w.cycle = shown.cycle
      /\ UNCHANGED <<published, news, events, gone, shown>>
      /\ q.stage = "body"
  BY DEF TakeBody, PageInv, ViewerInv, News
<1>2. Loading(w) /\ q \in Requests /\ w \in Viewers
  BY <1>1, ViewerFields DEF Loading, BaseInv
<1>3. shown \in Machines
  BY <1>1, <1>2 DEF PageInv, EventsInv, ViewerInv
<1>4. ASSUME ~w.again
      PROVE  /\ q.view = w.view
             /\ VisibleRows(w, shown) \subseteq
                  DOMAIN w.values \cup RowsAsked(q)
  BY <1>1, <1>2, <1>4 DEF ViewerInv, FlightInv
<1>5. CASE Decodes(w)
  <2> DEFINE x == [w EXCEPT !.values = Decoded(w)]
  <2>1. viewer' = Landed(x, shown)
    BY <1>5 DEF TakeBody
  <2> HIDE DEF w
  <2>2. /\ BaseInv(x) /\ x.cycle = w.cycle /\ x.again = w.again
        /\ x.view = w.view /\ x.first = w.first
        /\ DOMAIN x.values = DOMAIN w.values \cup RowsAsked(q)
    BY <1>1, DecodedKeeps
  <2> HIDE DEF x, q
  <2>3. VisibleRows(x, shown) = VisibleRows(w, shown)
    BY <2>2 DEF VisibleRows
  <2>4. x.again \/ VisibleRows(x, shown) \subseteq DOMAIN x.values
    BY <1>4, <2>2, <2>3, <1>2, ViewerFields
  <2>5. ViewerInv(Landed(x, shown), shown, News)
    BY <1>1, <1>3, <2>2, <2>4, NewsIsBoolean, LandedKeeps
  <2> QED BY <1>1, <2>1, <2>5, ViewerStep
<1>6. CASE ~Decodes(w)
  <2>1. viewer' = Landed(w, shown)
    BY <1>6 DEF TakeBody
  <2>2. w.again
    <3>1. SUFFICES ASSUME ~w.again PROVE FALSE
      OBVIOUS
    <3>2. q.view = w.view /\ w.view \in Views
      BY <1>2, <1>4, <3>1, ViewerFields
    <3>3. ValueBytes[w.view] \in Nat
      BY <3>2, PageAssumption DEF PageAssumption
    <3> QED BY <1>6, <3>2, <3>3 DEF Decodes
  <2>3. ViewerInv(Landed(w, shown), shown, News)
    <3> HIDE DEF w, q
    <3> QED BY <1>1, <1>3, <2>2, NewsIsBoolean, LandedKeeps
  <2> QED BY <1>1, <2>1, <2>3, ViewerStep
<1> QED BY <1>5, <1>6

LEMMA FetchFailsKeepsInv == PageInv /\ FetchFails => PageInv'
<1> SUFFICES ASSUME PageInv, FetchFails PROVE PageInv'
  OBVIOUS
<1> DEFINE w == viewer
<1>1. /\ BaseInv(w) /\ w.cycle = shown.cycle /\ Loading(w) /\ News
      /\ UNCHANGED <<published, news, events, gone, shown>>
      /\ viewer' = Landed(w, shown)
  BY DEF FetchFails, PageInv, ViewerInv, News
<1>2. shown \in Machines
  BY <1>1 DEF PageInv, EventsInv, ViewerInv
<1>3. ViewerInv(Landed(w, shown), shown, News)
  <2> HIDE DEF w
  <2> QED BY <1>1, <1>2, NewsIsBoolean, LandedKeeps
<1> QED BY <1>1, <1>3, ViewerStep

LEMMA InvIsInductive == PageInv /\ [Next]_vars => PageInv'
<1>1. PageInv /\ UNCHANGED vars => PageInv'
  BY DEF vars, PageInv, EventsInv, NewsIsComing
<1> QED BY <1>1, SimulatorKeepsInv, AnswerKeepsInv, ReceiveKeepsInv,
           ScrollKeepsInv, ShowKeepsInv, TakeHeadKeepsInv, TakeBodyKeepsInv,
           FetchFailsKeepsInv DEF Next, Disturbs, Proceeds

LEMMA PageInvHolds == Spec => []PageInv
BY InitPageInv, InvIsInductive, PTL DEF Spec

-----------------------------------------------------------------------------
(* What follows.                                                             *)

(* Every variable of the page keeps its type, and the rows held and asked    *)
(* for are those of machines there have been (viz/app.js:663-730).           *)
THEOREM TypeCorrect == Spec => []PageTypeOK
<1>1. ASSUME PageInv PROVE PageTypeOK
  <2>1. /\ EventsInv /\ viewer \in Viewers /\ viewer.cycle = shown.cycle
        /\ (viewer.again => Loading(viewer))
    BY <1>1 DEF PageInv, ViewerInv, BaseInv
  <2>2. \A i \in DOMAIN events : events[i] \in Machines
    BY <2>1 DEF EventsInv
  <2>3. /\ viewer.view \in Views /\ viewer.first \in Nat
        /\ viewer.request = NoRequest \/ viewer.request \in Requests
    BY <2>1 DEF Viewers
  <2>4. \A r \in DOMAIN viewer.values : viewer.values[r] \in HeldRows
    BY <2>1 DEF Viewers
  <2> QED BY <2>1, <2>2, <2>3, <2>4 DEF PageTypeOK, EventsInv, HeldRows
<1> QED BY <1>1, PageInvHolds, PTL

(* With no fetch in flight no visible row is left unasked, but for those a   *)
(* coming snapshot will ask for again (app.js:758-761, 801-804).             *)
THEOREM RowsAreNotForgotten == Spec => []NothingIsForgotten
<1>1. PageInv => NothingIsForgotten
  BY DEF PageInv, ViewerInv, RestInv, NothingIsForgotten
<1> QED BY <1>1, PageInvHolds, PTL

(* A request answered by the very machine it was made under is within the    *)
(* server's range and size limits (app.js:763, state.cpp:19-27).             *)
THEOREM RequestsInStep == Spec => []InStepIsNeverRefused
<1>1. ASSUME PageInv PROVE InStepIsNeverRefused
  <2>1. BaseInv(viewer)
    BY <1>1 DEF PageInv, ViewerInv
  <2>2. viewer.request.stage \in {"answered", "body"} => Loading(viewer)
    BY DEF Loading
  <2> QED BY <2>1, <2>2, InStepIsTaken DEF InStepIsNeverRefused
<1> QED BY <1>1, PageInvHolds, PTL

(* Of a page at rest, a row that is not the machine's was overtaken between  *)
(* head and body, came from another machine than the one shown, or is of     *)
(* another program at the same cycle (app.js:718-722, 789-794).              *)
THEOREM StaleRowsHaveCauses == Spec => []StaleRowsAreRaces
<1>1. ASSUME PageInv, AtRest, NEW r \in StaleRows
      PROVE  LET row == viewer.values[r]
             IN  \/ row.overtaken
                 \/ row.value # Zeros /\ row.value.of # row.under
                 \/ row.under.cycle = shown.cycle /\ row.under.file # shown.file
  <2> DEFINE row == viewer.values[r]
  <2>1. /\ RowsInv(viewer) /\ viewer \in Viewers
        /\ viewer.cycle = shown.cycle
        /\ shown \in Machines
        /\ r \in DOMAIN viewer.values
        /\ row.value # TrueRow(viewer.view, r, shown)
    BY <1>1 DEF PageInv, EventsInv, ViewerInv, BaseInv, AtRest, StaleRows
  <2>2. row.under \in Machines
    <3>1. \A k \in DOMAIN viewer.values : viewer.values[k] \in HeldRows
      BY <2>1 DEF Viewers
    <3>2. row \in HeldRows
      BY <2>1, <3>1
    <3> QED BY <3>2 DEF HeldRows
  <2> HIDE DEF row
  <2>3. \/ row.overtaken
        \/ row.value # Zeros /\ row.value.of # row.under
        \/ /\ row.under.cycle = shown.cycle
           /\ row.value = TrueRow(viewer.view, r, row.under)
    BY <2>1 DEF RowsInv, row
  <2>4. ASSUME row.under.cycle = shown.cycle,
               row.value = TrueRow(viewer.view, r, row.under)
        PROVE  row.under.file # shown.file
    <3>1. row.under # shown
      BY <2>1, <2>4
    <3> QED BY <2>1, <2>2, <2>4, <3>1, SameMachine
  <2> QED BY <2>3, <2>4 DEF row
<1>2. PageInv => StaleRowsAreRaces
  BY <1>1 DEF StaleRowsAreRaces
<1> QED BY <1>2, PageInvHolds, PTL
=============================================================================
