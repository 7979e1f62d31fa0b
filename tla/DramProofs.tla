----------------------------- MODULE DramProofs ------------------------------
(* A Dram is a flat memory, for every size of memory, page and row and every *)
(* address and length, those that would wrap included; and what the viewer   *)
(* shows of it is what it holds, whichever pages are in use.                 *)
EXTENDS Snapshot, NaturalLemmas, SequenceTheorems, TLAPS

-----------------------------------------------------------------------------
(* Pages and rows.                                                           *)

LEMMA Sizes ==
  /\ Size \in Nat /\ PageBytes \in Nat \ {0} /\ RowBytes \in Nat \ {0}
  /\ Writes \in Nat
  /\ \A addr \in Addresses : addr \in Nat
  /\ \A n \in Lengths : n \in Nat
BY DramAssumption DEF DramAssumption

(* An address is its page and its place there.                               *)
LEMMA AddressOnPage ==
  ASSUME NEW a \in Nat
  PROVE  /\ (a \div PageBytes) \in Nat
         /\ (a % PageBytes) \in 0 .. PageBytes - 1
         /\ a = (PageBytes * (a \div PageBytes)) + (a % PageBytes)
<1> DEFINE d == PageBytes
<1>1. d \in Nat \ {0}
  BY Sizes
<1> HIDE DEF d
<1>2. /\ (a \div d) \in Nat /\ (a % d) \in 0 .. d - 1
      /\ a = (d * (a \div d)) + (a % d)
  BY <1>1, Z3
<1> QED BY <1>2 DEF d

(* A stretch that ends with its page is a stretch of places on that page.    *)
LEMMA StretchOnPage ==
  ASSUME NEW from \in Nat, NEW len \in Nat,
         len <= PageBytes - (from % PageBytes), NEW a \in Nat
  PROVE  LET off == from % PageBytes
         IN  /\ a \in from .. from + len - 1 <=>
                  /\ a \div PageBytes = from \div PageBytes
                  /\ a % PageBytes \in off .. off + len - 1
             /\ a \div PageBytes = from \div PageBytes =>
                  a % PageBytes = off + (a - from)
<1> DEFINE d == PageBytes
           p == from \div d
           o == from % d
           q == a \div d
           r == a % d
<1>1. d \in Nat \ {0} /\ len <= d - o
  BY Sizes
<1>2. p \in Nat /\ o \in 0 .. d - 1 /\ from = (d * p) + o
  BY AddressOnPage
<1>3. q \in Nat /\ r \in 0 .. d - 1 /\ a = (d * q) + r
  BY AddressOnPage
<1> HIDE DEF d, p, o, q, r
<1>4. q = p => r = o + (a - from)
  BY <1>1, <1>2, <1>3
<1>5. ASSUME a \in from .. from + len - 1 PROVE q = p
  <2>1. from <= a /\ a < (d * p) + d
    BY <1>1, <1>2, <1>5
  <2>2. d * (p + 1) = (d * p) + d
    BY <1>1, <1>2, Z3
  <2>3. ~(q >= p + 1)
    <3>1. q >= p + 1 => d * q >= d * (p + 1)
      BY <1>1, <1>2, <1>3, Z3
    <3>2. (d * q) \in Int /\ (d * p) \in Int
      BY <1>1, <1>2, <1>3, Z3
    <3> QED BY <2>1, <2>2, <3>1, <3>2, <1>1, <1>3
  <2>4. ~(q + 1 <= p)
    <3>1. q + 1 <= p => (d * q) + d <= d * p
      BY <1>1, <1>2, <1>3, Z3
    <3>2. (d * q) \in Int /\ (d * p) \in Int
      BY <1>1, <1>2, <1>3, Z3
    <3> QED BY <2>1, <3>1, <3>2, <1>1, <1>2, <1>3
  <2> QED BY <2>3, <2>4, <1>2, <1>3
<1>6. a \in from .. from + len - 1 <=> q = p /\ r \in o .. o + len - 1
  BY <1>1, <1>2, <1>3, <1>4, <1>5
<1> QED BY <1>4, <1>6 DEF d, p, o, q, r

(* The rows marked are the rows of the bytes.                                *)
LEMMA MarkedRows ==
  ASSUME NEW addr \in Nat, NEW n \in Nat
  PROVE  RowsMarked(addr, n) = {a \div RowBytes : a \in addr .. addr + n - 1}
<1> DEFINE d == RowBytes
           last == addr + n - 1
<1>1. d \in Nat \ {0}
  BY Sizes
<1>2. CASE n = 0
  BY <1>2 DEF RowsMarked
<1>3. CASE n # 0
  <2>1. RowsMarked(addr, n) = addr \div d .. last \div d
    BY <1>3 DEF RowsMarked
  <2>2. last \in Nat /\ addr <= last
    BY <1>3
  <2> HIDE DEF d, last
  <2>3. ASSUME NEW a \in addr .. last
        PROVE  a \div d \in addr \div d .. last \div d
    BY <1>1, <2>2, <2>3, Z3
  <2>4. ASSUME NEW r \in addr \div d .. last \div d
        PROVE  \E a \in addr .. last : r = a \div d
    <3>1. addr \div d \in Int /\ last \div d \in Int /\ r \in Int
      BY <1>1, <2>2, Z3
    <3>2. CASE r = addr \div d
      BY <3>2, <2>2
    <3>3. CASE r # addr \div d
      <4>1. r * d \in addr .. last
        BY <1>1, <2>2, <2>4, <3>1, <3>3, Z3
      <4>2. r = (r * d) \div d
        BY <1>1, <3>1, Z3
      <4> QED BY <4>1, <4>2
    <3> QED BY <3>2, <3>3
  <2>5. addr \div d .. last \div d = {a \div d : a \in addr .. last}
    BY <2>3, <2>4
  <2> QED BY <2>1, <2>5 DEF d, last
<1> QED BY <1>2, <1>3

-----------------------------------------------------------------------------
(* The invariant.                                                            *)

DramInv == DramTypeOK /\ (call.op = "write" => writes > 0)

(* What one turn of the loop copies.                                         *)
LEMMA PieceFits ==
  ASSUME DramTypeOK
  PROVE  /\ PageNumber \in Nat /\ OffsetInPage \in 0 .. PageBytes - 1
         /\ Piece \in Nat /\ Piece <= call.n
         /\ OffsetInPage + Piece <= PageBytes
         /\ call.n > 0 => Piece > 0
<1>1. call.addr \in Nat /\ call.n \in Nat
  BY DEF DramTypeOK, Calls
<1>2. PageNumber \in Nat /\ OffsetInPage \in 0 .. PageBytes - 1
  BY <1>1, AddressOnPage DEF PageNumber, OffsetInPage
<1> QED BY <1>1, <1>2, Sizes DEF Piece

LEMMA PieceDoneType ==
  ASSUME DramTypeOK
  PROVE  /\ PieceDone \in Calls
         /\ PieceDone.op = call.op
         /\ PieceDone.addr = call.addr + Piece
         /\ PieceDone.n = call.n - Piece
         /\ PieceDone.done = call.done + Piece
         /\ PieceDone.addr + PieceDone.n = call.addr + call.n
         /\ PieceDone.done + PieceDone.n = call.done + call.n
<1>1. call \in Calls
  BY DEF DramTypeOK
<1>2. Piece \in Nat /\ Piece <= call.n
  BY PieceFits
<1>3. PieceDone = [op |-> call.op, addr |-> call.addr + Piece,
                   n |-> call.n - Piece, done |-> call.done + Piece]
  <2>1. PICK op, addr, n, done :
          call = [op |-> op, addr |-> addr, n |-> n, done |-> done]
    BY <1>1 DEF Calls
  <2> DEFINE step == Piece
  <2>2. PieceDone = [call EXCEPT !.addr = call.addr + step,
                                 !.n = call.n - step,
                                 !.done = call.done + step]
    BY Zenon DEF PieceDone
  <2> HIDE DEF step
  <2>3. PieceDone = [op |-> op, addr |-> addr + step,
                     n |-> n - step, done |-> done + step]
    BY <2>1, <2>2
  <2>4. op = call.op /\ addr = call.addr /\ n = call.n /\ done = call.done
    BY <2>1
  <2> QED BY <2>3, <2>4 DEF step
<1>4. /\ call.op \in {"none", "write", "read"}
      /\ call.addr \in Nat /\ call.n \in Nat /\ call.done \in Nat
  BY <1>1 DEF Calls
<1>5. PieceDone \in Calls
  BY <1>2, <1>3, <1>4 DEF Calls
<1> QED BY <1>2, <1>3, <1>4, <1>5

LEMMA InitDramInv == Init => DramInv
<1> SUFFICES ASSUME Init PROVE DramInv
  OBVIOUS
<1>1. call \in Calls
  BY DEF Init, Idle, Calls
<1>2. DOMAIN pages = {} /\ writes \in 0 .. Writes
  BY Sizes DEF Init
<1>3. call.addr + call.n <= Size /\ call.op = "none" /\ call = Idle
  BY Sizes DEF Init, Idle
<1>4. written = {} /\ refused = FALSE
  BY DEF Init
<1> QED BY <1>1, <1>2, <1>3, <1>4 DEF DramInv, DramTypeOK

LEMMA WriteKeepsInv == DramInv /\ Write => DramInv'
<1> SUFFICES ASSUME DramInv, Write PROVE DramInv'
  OBVIOUS
<1> USE DEF DramInv
<1>1. PICK addr \in Addresses, n \in Lengths :
        /\ CheckRange(addr, n)
        /\ written' = written \cup RowsMarked(addr, n)
        /\ call' = [op |-> "write", addr |-> addr, n |-> n, done |-> 0]
  BY DEF Write
<1>2. addr \in Nat /\ n \in Nat
  BY Sizes
<1>3. call' \in Calls /\ call'.op = "write" /\ call'.addr + call'.n <= Size
  BY <1>1, <1>2, Sizes DEF Calls, CheckRange
<1>4. written' \subseteq Nat
  <2>1. \A a \in addr .. addr + n - 1 : a \div RowBytes \in Nat
    <3> DEFINE d == RowBytes
    <3>1. d \in Nat \ {0}
      BY Sizes
    <3> HIDE DEF d
    <3>2. \A a \in Nat : a \div d \in Nat
      BY <3>1, Z3
    <3> QED BY <1>2, <3>2 DEF d
  <2>2. RowsMarked(addr, n) = {a \div RowBytes : a \in addr .. addr + n - 1}
    BY <1>2, MarkedRows
  <2>3. RowsMarked(addr, n) \subseteq Nat
    BY <2>1, <2>2, Zenon
  <2> QED BY <1>1, <2>3 DEF DramTypeOK
<1>5. writes' \in 0 .. Writes /\ writes' > 0
  BY Sizes DEF Write, DramTypeOK
<1>6. pages' = pages /\ refused' = FALSE
  BY DEF Write
<1> QED BY <1>3, <1>4, <1>5, <1>6 DEF DramTypeOK

LEMMA ReadKeepsInv == DramInv /\ Read => DramInv'
<1> SUFFICES ASSUME DramInv, Read PROVE DramInv'
  OBVIOUS
<1> USE DEF DramInv
<1>1. PICK addr \in Addresses, n \in Lengths :
        /\ CheckRange(addr, n)
        /\ call' = [op |-> "read", addr |-> addr, n |-> n, done |-> 0]
        /\ dst' = [i \in 0 .. n - 1 |-> Garbage]
  BY DEF Read
<1>2. addr \in Nat /\ n \in Nat
  BY Sizes
<1>3. call' \in Calls /\ call'.op = "read" /\ call'.addr + call'.n <= Size
  BY <1>1, <1>2, Sizes DEF Calls, CheckRange
<1>4. DOMAIN dst' = 0 .. call'.done + call'.n - 1
  BY <1>1, <1>2
<1> QED BY <1>3, <1>4 DEF Read, DramTypeOK

LEMMA WritePieceKeepsInv == DramInv /\ WritePiece => DramInv'
<1> SUFFICES ASSUME DramInv, WritePiece PROVE DramInv'
  OBVIOUS
<1> USE DEF DramInv
<1>1. /\ call' = PieceDone /\ call.op = "write"
      /\ UNCHANGED <<written, dst, refused, writes>>
      /\ DOMAIN pages' = DOMAIN pages \cup {PageNumber}
      /\ \A p \in DOMAIN pages' :
           pages'[p] = IF p = PageNumber THEN PageWritten ELSE pages[p]
  BY DEF WritePiece
<1>2. PageForWriting \in [0 .. PageBytes - 1 -> Bytes]
  BY DEF PageForWriting, DramTypeOK, Bytes
<1>3. PageWritten \in [0 .. PageBytes - 1 -> Bytes]
  <2>1. ASSUME NEW o \in OffsetInPage .. OffsetInPage + Piece - 1
        PROVE  <<writes, call.done + o - OffsetInPage>> \in Bytes
    <3>1. writes \in 1 .. Writes /\ call.done \in Nat
      BY <1>1, Sizes DEF DramTypeOK, Calls
    <3>2. call.done + o - OffsetInPage \in Nat
      BY <2>1, <3>1, PieceFits
    <3> QED BY <3>1, <3>2 DEF Bytes
  <2> QED BY <1>2, <2>1 DEF PageWritten
<1>4. /\ DOMAIN pages' \subseteq Nat
      /\ \A p \in DOMAIN pages' : pages'[p] \in [0 .. PageBytes - 1 -> Bytes]
  BY <1>1, <1>3, PieceFits DEF DramTypeOK
<1> QED BY <1>1, <1>4, PieceDoneType DEF DramTypeOK

LEMMA ReadPieceKeepsInv == DramInv /\ ReadPiece => DramInv'
<1> SUFFICES ASSUME DramInv, ReadPiece PROVE DramInv'
  OBVIOUS
<1> USE DEF DramInv
<1>1. /\ call' = PieceDone /\ call.op = "read" /\ DOMAIN dst' = DOMAIN dst
      /\ UNCHANGED <<pages, written, refused, writes>>
  BY DEF ReadPiece
<1>2. /\ call' \in Calls /\ call'.op = "read"
      /\ call'.addr + call'.n = call.addr + call.n
      /\ call'.done + call'.n = call.done + call.n
  BY <1>1, PieceDoneType
<1>3. DOMAIN dst' = DOMAIN dst /\ DOMAIN dst = 0 .. call.done + call.n - 1
  BY <1>1 DEF DramTypeOK
<1>4. DOMAIN dst' = 0 .. call'.done + call'.n - 1
  <2>1. /\ call.done \in Int /\ call.n \in Int
        /\ call'.done \in Int /\ call'.n \in Int
    BY <1>2 DEF DramTypeOK, Calls
  <2> DEFINE a == call'.done
             b == call'.n
             c == call.done
             d == call.n
  <2> HIDE DEF a, b, c, d
  <2>2. a \in Int /\ b \in Int /\ c \in Int /\ d \in Int /\ a + b = c + d
    BY <1>2, <2>1 DEF a, b, c, d
  <2>3. 0 .. a + b - 1 = 0 .. c + d - 1
    BY <2>2
  <2> QED BY <1>3, <2>3, Zenon DEF a, b, c, d
<1> QED BY <1>1, <1>2, <1>4 DEF DramTypeOK

LEMMA InvIsInductive == DramInv /\ [Next]_vars => DramInv'
<1> SUFFICES ASSUME DramInv, [Next]_vars PROVE DramInv'
  OBVIOUS
<1>1. CASE Refuse
  BY <1>1 DEF Refuse, DramInv, DramTypeOK
<1>2. CASE Return
  <2>1. Idle \in Calls /\ Idle.addr + Idle.n <= Size /\ Idle.op = "none"
    BY Sizes DEF Idle, Calls
  <2> QED BY <1>2, <2>1 DEF Return, DramInv, DramTypeOK
<1>3. CASE UNCHANGED vars
  BY <1>3 DEF vars, DramInv, DramTypeOK
<1> QED BY <1>1, <1>2, <1>3, WriteKeepsInv, ReadKeepsInv,
           WritePieceKeepsInv, ReadPieceKeepsInv DEF Next

LEMMA DramInvHolds == Spec => []DramInv
BY InitDramInv, InvIsInductive, PTL DEF Spec

(* Pages and calls keep their types, and no call leaves the memory           *)
(* (dram.h:101-106).                                                         *)
THEOREM TypeCorrect == Spec => []DramTypeOK
<1>1. DramInv => DramTypeOK
  BY DEF DramInv
<1> QED BY <1>1, DramInvHolds, PTL

-----------------------------------------------------------------------------
(* The refinement: a call is one step of the flat memory, its pieces none.   *)

LEMMA InitIsFlat == Init => Flat!FlatInit
<1> SUFFICES ASSUME Init PROVE Flat!FlatInit
  OBVIOUS
<1>1. Stored = [a \in 0 .. Size - 1 |-> Zero]
  BY DEF Init, Idle, Stored, StoredByte
<1>2. Returned = [i \in {} |-> Zero]
  BY DEF Init, Returned
<1> QED BY <1>1, <1>2 DEF Init, Flat!FlatInit, Flat!Zero, Zero

LEMMA WriteIsFlat == DramInv /\ Write => Flat!FlatWrite
<1> SUFFICES ASSUME DramInv, Write PROVE Flat!FlatWrite
  OBVIOUS
<1>1. PICK addr \in Addresses, n \in Lengths :
        /\ CheckRange(addr, n)
        /\ written' = written \cup RowsMarked(addr, n)
        /\ call' = [op |-> "write", addr |-> addr, n |-> n, done |-> 0]
  BY DEF Write
<1>2. addr \in Nat /\ n \in Nat /\ Size \in Nat
  BY Sizes
<1>3. Flat!InRange(addr, n)
  BY <1>1, <1>2 DEF Flat!InRange, CheckRange
<1>4. call.op = "none" /\ pages' = pages /\ dst' = dst /\ writes' = writes + 1
  BY DEF Write, Idle
<1>5. \A a : StoredByte(a)' = StoredByte(a)
  BY <1>4 DEF StoredByte
<1>6. Stored' = [a \in 0 .. Size - 1 |->
                   IF a \in Flat!Range(addr, n)
                   THEN Flat!Source(writes', a - addr) ELSE Stored[a]]
  <2>1. ASSUME NEW a \in 0 .. Size - 1
        PROVE  Stored[a] = StoredByte(a)
    BY <1>4 DEF Stored
  <2>2. ASSUME NEW a \in 0 .. Size - 1
        PROVE  0 + a - addr = a - addr
    BY <1>2
  <2>3. call'.op = "write" /\ call'.addr = addr /\ call'.n = n
        /\ call'.done = 0
    BY <1>1
  <2>4. ASSUME NEW a \in 0 .. Size - 1
        PROVE  ToCopy(a)' <=> a \in Flat!Range(addr, n)
    BY <2>3 DEF ToCopy, Flat!Range
  <2>5. ASSUME NEW a \in 0 .. Size - 1
        PROVE  (IF call'.op = "write" /\ ToCopy(a)'
                THEN <<writes', call'.done + a - call'.addr>>
                ELSE StoredByte(a)')
               = (IF a \in Flat!Range(addr, n)
                  THEN Flat!Source(writes', a - addr) ELSE Stored[a])
    BY <1>5, <2>1, <2>2, <2>3, <2>4 DEF Flat!Source
  <2> QED BY <2>5, Zenon DEF Stored
<1>7. Returned' = Returned
  BY <1>1, <1>4 DEF Returned
<1>8. written' = written \cup {a \div RowBytes : a \in Flat!Range(addr, n)}
  BY <1>1, <1>2, MarkedRows DEF Flat!Range
<1>9. refused' = FALSE
  BY DEF Write
<1> QED BY <1>3, <1>4, <1>6, <1>7, <1>8, <1>9 DEF Flat!FlatWrite

LEMMA ReadIsFlat == DramInv /\ Read => Flat!FlatRead
<1> SUFFICES ASSUME DramInv, Read PROVE Flat!FlatRead
  OBVIOUS
<1>1. PICK addr \in Addresses, n \in Lengths :
        /\ CheckRange(addr, n)
        /\ call' = [op |-> "read", addr |-> addr, n |-> n, done |-> 0]
        /\ dst' = [i \in 0 .. n - 1 |-> Garbage]
  BY DEF Read
<1>2. addr \in Nat /\ n \in Nat /\ Size \in Nat
  BY Sizes
<1>3. addr + n <= Size
  BY <1>1, <1>2 DEF CheckRange
<1>4. call.op = "none" /\ pages' = pages
  BY DEF Read, Idle
<1>5. \A a : StoredByte(a)' = StoredByte(a)
  BY <1>4 DEF StoredByte
<1>6. \A a \in 0 .. Size - 1 : Stored[a] = StoredByte(a)
  BY <1>4 DEF Stored
<1>7. Stored' = Stored
  BY <1>1, <1>4, <1>5 DEF Stored
<1>8. Returned' = [i \in 0 .. n - 1 |-> Stored[addr + i]]
  <2>1. ASSUME NEW i \in 0 .. n - 1
        PROVE  /\ i >= 0 /\ addr + i - 0 = addr + i
               /\ addr + i \in 0 .. Size - 1
    BY <1>2, <1>3
  <2> QED BY <1>1, <1>5, <1>6, <2>1 DEF Returned
<1>9. refused' = FALSE /\ written' = written /\ writes' = writes
  BY DEF Read
<1> QED BY <1>3, <1>7, <1>8, <1>9 DEF Flat!FlatRead, Flat!InRange

LEMMA RefuseIsFlat == DramInv /\ Refuse => Flat!FlatRefuse
<1> SUFFICES ASSUME DramInv, Refuse PROVE Flat!FlatRefuse
  OBVIOUS
<1>1. PICK addr \in Addresses, n \in Lengths : ~CheckRange(addr, n)
  BY DEF Refuse
<1>2. ~Flat!InRange(addr, n)
  BY <1>1, Sizes DEF CheckRange, Flat!InRange
<1>3. /\ UNCHANGED <<pages, written, call, dst, writes>>
      /\ refused' = TRUE
  BY DEF Refuse
<1>4. Stored' = Stored /\ Returned' = Returned
  BY <1>3 DEF Stored, StoredByte, ToCopy, Returned
<1> QED BY <1>2, <1>3, <1>4 DEF Flat!FlatRefuse

(* A piece is on one page, from where the call has come to.                  *)
LEMMA PieceOnPage ==
  ASSUME DramTypeOK, NEW a \in Nat
  PROVE  /\ a \in call.addr .. call.addr + Piece - 1 <=>
              /\ a \div PageBytes = PageNumber
              /\ a % PageBytes \in OffsetInPage .. OffsetInPage + Piece - 1
         /\ a \div PageBytes = PageNumber =>
              a % PageBytes = OffsetInPage + (a - call.addr)
<1>1. call.addr \in Nat /\ Piece \in Nat
  BY PieceFits DEF DramTypeOK, Calls
<1>2. Piece <= PageBytes - (call.addr % PageBytes)
  BY PieceFits, Sizes DEF OffsetInPage
<1> QED BY <1>1, <1>2, StretchOnPage DEF PageNumber, OffsetInPage

LEMMA WritePieceIsNone == DramInv /\ WritePiece => UNCHANGED Flat!flatVars
<1> SUFFICES ASSUME DramInv, WritePiece PROVE UNCHANGED Flat!flatVars
  OBVIOUS
<1>1. /\ call' = PieceDone /\ call.op = "write" /\ call \in Calls
      /\ UNCHANGED <<written, dst, refused, writes>>
      /\ DOMAIN pages' = DOMAIN pages \cup {PageNumber}
      /\ \A p \in DOMAIN pages' :
           pages'[p] = IF p = PageNumber THEN PageWritten ELSE pages[p]
  BY DEF WritePiece, DramInv, DramTypeOK
<1>2. /\ call.addr \in Nat /\ call.n \in Nat /\ call.done \in Nat
      /\ Piece \in Nat /\ Piece <= call.n /\ Size \in Nat
  BY <1>1, PieceFits, Sizes DEF Calls, DramInv
<1>3. /\ call'.op = "write" /\ call'.addr = call.addr + Piece
      /\ call'.n = call.n - Piece /\ call'.done = call.done + Piece
  BY <1>1, PieceDoneType DEF DramInv
<1>4. ASSUME NEW a \in 0 .. Size - 1
      PROVE  (IF ToCopy(a)' THEN <<writes', call'.done + a - call'.addr>>
                            ELSE StoredByte(a)')
           = (IF ToCopy(a) THEN <<writes, call.done + a - call.addr>>
                           ELSE StoredByte(a))
  <2> DEFINE page == a \div PageBytes
             place == a % PageBytes
  <2>1. a \in Nat /\ page \in Nat /\ place \in 0 .. PageBytes - 1
    BY <1>2, AddressOnPage
  <2>2. /\ a \in call.addr .. call.addr + Piece - 1 <=>
             /\ page = PageNumber
             /\ place \in OffsetInPage .. OffsetInPage + Piece - 1
        /\ page = PageNumber => place = OffsetInPage + (a - call.addr)
    BY <2>1, PieceOnPage DEF DramInv
  <2> HIDE DEF page, place
  <2>3. ToCopy(a) <=> a \in call.addr .. call.addr + call.n - 1
    BY DEF ToCopy
  <2>4. ToCopy(a)' <=>
          a \in call.addr + Piece .. call.addr + call.n - 1
    BY <1>2, <1>3 DEF ToCopy
  <2>5. CASE ToCopy(a)'
    BY <1>1, <1>2, <1>3, <2>1, <2>3, <2>4, <2>5
  <2>6. CASE a \in call.addr .. call.addr + Piece - 1
    <3>1. ToCopy(a) /\ ~ToCopy(a)'
      BY <1>2, <2>1, <2>3, <2>4, <2>6
    <3>2. StoredByte(a)' = PageWritten[place]
      BY <1>1, <2>2, <2>6 DEF StoredByte, page, place
    <3>3. PageWritten[place] = <<writes, call.done + place - OffsetInPage>>
      BY <2>1, <2>2, <2>6 DEF PageWritten
    <3>4. call.done + place - OffsetInPage = call.done + a - call.addr
      BY <1>2, <2>1, <2>2, <2>6, PieceFits DEF DramInv
    <3> QED BY <3>1, <3>2, <3>3, <3>4
  <2>7. CASE ~ToCopy(a)
    <3>1. ~ToCopy(a)' /\ a \notin call.addr .. call.addr + Piece - 1
      BY <1>2, <2>1, <2>3, <2>4, <2>7
    <3>2. CASE page # PageNumber
      <4>1. StoredByte(a)' = StoredByte(a)
        BY <1>1, <3>2 DEF StoredByte, page
      <4> QED BY <4>1, <3>1, <2>7
    <3>3. CASE page = PageNumber
      <4>1. StoredByte(a)' = PageWritten[place]
        BY <1>1, <3>3 DEF StoredByte, page, place
      <4>2. PageWritten[place] = PageForWriting[place]
        BY <2>1, <2>2, <3>1, <3>3 DEF PageWritten
      <4>3. PageForWriting[place] = StoredByte(a)
        BY <2>1, <3>3 DEF PageForWriting, StoredByte, page, place
      <4> QED BY <4>1, <4>2, <4>3, <3>1, <2>7
    <3> QED BY <3>2, <3>3
  <2> QED BY <1>2, <2>1, <2>3, <2>4, <2>5, <2>6, <2>7
<1>5. Stored' = Stored
  BY <1>1, <1>3, <1>4 DEF Stored
<1>6. Returned' = Returned
  BY <1>1, <1>3 DEF Returned
<1> QED BY <1>1, <1>5, <1>6 DEF Flat!flatVars

LEMMA ReadPieceIsNone == DramInv /\ ReadPiece => UNCHANGED Flat!flatVars
<1> SUFFICES ASSUME DramInv, ReadPiece PROVE UNCHANGED Flat!flatVars
  OBVIOUS
<1>1. /\ call' = PieceDone /\ call.op = "read" /\ call \in Calls
      /\ UNCHANGED <<pages, written, refused, writes>>
      /\ DOMAIN dst' = DOMAIN dst
      /\ DOMAIN dst = 0 .. call.done + call.n - 1
  BY DEF ReadPiece, DramInv, DramTypeOK
<1>2. /\ call.addr \in Nat /\ call.n \in Nat /\ call.done \in Nat
      /\ Piece \in Nat /\ Piece <= call.n
  BY <1>1, PieceFits DEF Calls, DramInv
<1>3. /\ call'.op = "read" /\ call'.addr = call.addr + Piece
      /\ call'.n = call.n - Piece /\ call'.done = call.done + Piece
  BY <1>1, PieceDoneType DEF DramInv
<1>4. \A a : StoredByte(a)' = StoredByte(a)
  BY <1>1 DEF StoredByte
<1>5. Stored' = Stored
  BY <1>1, <1>3, <1>4 DEF Stored
<1>6. ASSUME NEW i \in DOMAIN dst
      PROVE  (IF i >= call'.done THEN StoredByte(call'.addr + i - call'.done)
                                 ELSE dst'[i])
           = (IF i >= call.done THEN StoredByte(call.addr + i - call.done)
                                ELSE dst[i])
  <2>1. i \in Nat
    BY <1>1, <1>2
  <2>2. CASE i >= call.done + Piece
    <3>1. call'.addr + i - call'.done = call.addr + i - call.done
      BY <1>2, <1>3, <2>1
    <3> QED BY <1>2, <1>3, <2>1, <2>2, <3>1
  <2>3. CASE i \in call.done .. call.done + Piece - 1
    <3> DEFINE a == call.addr + i - call.done
               page == a \div PageBytes
               place == a % PageBytes
    <3>1. a \in Nat /\ a \in call.addr .. call.addr + Piece - 1
      BY <1>2, <2>1, <2>3
    <3>2. page = PageNumber /\ place = OffsetInPage + (a - call.addr)
      <4> HIDE DEF a
      <4> QED BY <3>1, PieceOnPage DEF DramInv
    <3>3. place = OffsetInPage + i - call.done
      BY <1>2, <2>1, <3>2, PieceFits DEF DramInv
    <3>4. dst'[i] = IF PageNumber \notin DOMAIN pages THEN Zero
                    ELSE pages[PageNumber][OffsetInPage + i - call.done]
      BY <2>3 DEF ReadPiece
    <3>5. StoredByte(a) = dst'[i]
      <4> HIDE DEF a
      <4> QED BY <3>2, <3>3, <3>4 DEF StoredByte
    <3>6. i >= call.done /\ ~(i >= call'.done)
      BY <1>2, <1>3, <2>1, <2>3
    <3> QED BY <3>5, <3>6
  <2>4. CASE i < call.done
    <3>1. dst'[i] = dst[i]
      BY <1>2, <2>1, <2>4 DEF ReadPiece
    <3> QED BY <1>2, <1>3, <2>1, <2>4, <3>1
  <2> QED BY <1>2, <2>1, <2>2, <2>3, <2>4
<1>7. Returned' = Returned
  BY <1>1, <1>3, <1>4, <1>6 DEF Returned
<1> QED BY <1>1, <1>5, <1>7 DEF Flat!flatVars

LEMMA ReturnIsNone == DramInv /\ Return => UNCHANGED Flat!flatVars
<1> SUFFICES ASSUME DramInv, Return PROVE UNCHANGED Flat!flatVars
  OBVIOUS
<1>1. /\ call.n = 0 /\ call'.op = "none" /\ call \in Calls
      /\ UNCHANGED <<pages, written, dst, refused, writes>>
      /\ call.op = "read" => DOMAIN dst = 0 .. call.done + call.n - 1
  BY DEF Return, Idle, DramInv, DramTypeOK
<1>2. \A a : StoredByte(a)' = StoredByte(a)
  BY <1>1 DEF StoredByte
<1>3. call.addr \in Nat /\ call.done \in Nat
  BY <1>1 DEF Calls
<1>4. \A a \in 0 .. Size - 1 : ~ToCopy(a)
  BY <1>1, <1>3, Sizes DEF ToCopy
<1>5. Stored' = Stored
  BY <1>1, <1>2, <1>4 DEF Stored
<1>6. \A i \in DOMAIN dst : ~(call.op = "read" /\ i >= call.done)
  BY <1>1, <1>3
<1>7. Returned' = Returned
  BY <1>1, <1>6 DEF Returned
<1> QED BY <1>1, <1>5, <1>7 DEF Flat!flatVars

(* Every execution of the pages is one of the flat memory (dram.h:41-126).   *)
THEOREM PagesAreFlat == Spec => IsFlatMemory
<1>1. DramInv /\ [Next]_vars => [Flat!FlatNext]_(Flat!flatVars)
  <2> SUFFICES ASSUME DramInv, [Next]_vars
               PROVE  Flat!FlatNext \/ UNCHANGED Flat!flatVars
    OBVIOUS
  <2>1. CASE UNCHANGED vars
    <3>1. UNCHANGED <<pages, written, call, dst, refused, writes>>
      BY <2>1 DEF vars
    <3>2. Stored' = Stored /\ Returned' = Returned
      BY <3>1 DEF Stored, StoredByte, ToCopy, Returned
    <3> QED BY <3>1, <3>2 DEF Flat!flatVars
  <2> QED BY <2>1, WriteIsFlat, ReadIsFlat, RefuseIsFlat, WritePieceIsNone,
             ReadPieceIsNone, ReturnIsNone DEF Next, Flat!FlatNext
<1> QED BY <1>1, InitIsFlat, DramInvHolds, PTL
        DEF Spec, IsFlatMemory, Flat!FlatSpec

-----------------------------------------------------------------------------
(* What the viewer sees.                                                     *)

LEMMA Divided ==
  ASSUME NEW d \in Nat \ {0}, NEW q \in Nat, NEW r \in 0 .. d - 1
  PROVE  (d * q + r) \div d = q /\ (d * q + r) % d = r
BY Z3

LEMMA Division ==
  ASSUME NEW d \in Nat \ {0}, NEW a \in Nat
  PROVE  /\ a \div d \in Nat /\ a % d \in 0 .. d - 1
         /\ a = d * (a \div d) + (a % d)
BY Z3

LEMMA Counts ==
  /\ RowsPerPage \in Nat \ {0} /\ PagesInAll \in Nat /\ RowsInAll \in Nat
  /\ PageBytes = RowBytes * RowsPerPage
  /\ Size = PageBytes * PagesInAll
  /\ Size = RowBytes * RowsInAll
  /\ RowsInAll = RowsPerPage * PagesInAll
<1> DEFINE r == RowBytes
           p == PageBytes
           n == Size
           q == RowsPerPage
           pages_ == PagesInAll
           rows == RowsInAll
<1>1. r \in Nat \ {0} /\ p \in Nat \ {0} /\ n \in Nat
  BY Sizes
<1>2. p % r = 0 /\ n % p = 0
  BY SnapshotAssumption DEF SnapshotAssumption
<1>3. q = p \div r /\ pages_ = n \div p /\ rows = n \div r
  BY DEF RowsPerPage, PagesInAll, RowsInAll
<1> HIDE DEF r, p, n, q, pages_, rows
<1>4. q \in Nat /\ p = r * q
  <2>1. p \div r \in Nat /\ p = r * (p \div r) + (p % r)
    BY <1>1, Division
  <2>2. r * q \in Int
    BY <1>1, <1>3, <2>1
  <2> QED BY <1>1, <1>2, <1>3, <2>1, <2>2
<1>5. pages_ \in Nat /\ n = p * pages_
  <2>1. n \div p \in Nat /\ n = p * (n \div p) + (n % p)
    BY <1>1, Division
  <2>2. p * pages_ \in Int
    BY <1>1, <1>3, <2>1
  <2> QED BY <1>1, <1>2, <1>3, <2>1, <2>2
<1>6. q # 0
  BY <1>1, <1>4
<1>7. n = r * (q * pages_) /\ q * pages_ \in Nat
  BY <1>1, <1>4, <1>5, Z3
<1>8. rows = q * pages_
  <2>1. (r * (q * pages_) + 0) \div r = q * pages_
    BY <1>1, <1>7, Divided
  <2>2. r * (q * pages_) + 0 = n
    BY <1>1, <1>7
  <2> QED BY <1>3, <2>1, <2>2
<1> QED BY <1>1, <1>4, <1>5, <1>6, <1>7, <1>8 DEF r, p, n, q, pages_, rows

-----------------------------------------------------------------------------
(* The pages in use.                                                         *)

(* Inductive: pages in use are pages of the memory.                          *)
PagesInv == DOMAIN pages \subseteq 0 .. PagesInAll - 1

LEMMA PageOfAddress ==
  ASSUME NEW a \in Nat, a < Size
  PROVE  a \div PageBytes \in 0 .. PagesInAll - 1
<1> DEFINE p == PageBytes
           n == PagesInAll
           q == a \div p
<1>1. p \in Nat \ {0} /\ n \in Nat /\ a < p * n
  BY Sizes, Counts
<1>2. q \in Nat /\ a % p \in 0 .. p - 1 /\ a = p * q + (a % p)
  BY <1>1, Division
<1> HIDE DEF p, n, q
<1>3. ~(q >= n)
  <2> SUFFICES ASSUME q >= n PROVE FALSE
    OBVIOUS
  <2>1. p * q >= p * n
    BY <1>1, <1>2, Z3
  <2>2. p * q \in Nat /\ p * n \in Nat
    BY <1>1, <1>2, Z3
  <2> QED BY <1>1, <1>2, <2>1, <2>2
<1>4. q \in 0 .. n - 1
  BY <1>1, <1>2, <1>3
<1> QED BY <1>4 DEF q, n, p

LEMMA NextPagesInv ==
  DramInv /\ PagesInv /\ [Next]_vars => PagesInv'
<1> SUFFICES ASSUME DramInv, PagesInv, [Next]_vars PROVE PagesInv'
  OBVIOUS
<1>1. CASE WritePiece
  <2>1. call.addr \in Nat /\ call.n \in Nat /\ call.n > 0
        /\ call.addr + call.n <= Size
    BY <1>1 DEF WritePiece, DramInv, DramTypeOK, Calls
  <2>2. PageNumber \in 0 .. PagesInAll - 1
    BY <2>1, PageOfAddress, Sizes DEF PageNumber
  <2>3. DOMAIN pages' = DOMAIN pages \cup {PageNumber}
    BY <1>1 DEF WritePiece
  <2> QED BY <2>2, <2>3 DEF PagesInv
<1>2. CASE ~WritePiece
  BY <1>2 DEF Next, Write, Read, Refuse, ReadPiece, Return, vars, PagesInv
<1> QED BY <1>1, <1>2

LEMMA PagesUpToIs ==
  ASSUME NEW n \in 0 .. PagesInAll
  PROVE  PagesUpTo[n] = IF n = 0 THEN << >>
                        ELSE IF n - 1 \in DOMAIN pages
                             THEN Append(PagesUpTo[n - 1], n - 1)
                             ELSE PagesUpTo[n - 1]
<1> DEFINE N == PagesInAll
           V == Seq(Int)
           G == [x \in (1 .. N) \X V |->
                   IF x[1] - 1 \in DOMAIN pages THEN Append(x[2], x[1] - 1)
                                                ELSE x[2]]
<1>1. N \in Nat
  BY Counts
<1>2. G \in [(1 .. N) \X V -> V]
  <2>1. ASSUME NEW x \in (1 .. N) \X V
        PROVE  (IF x[1] - 1 \in DOMAIN pages THEN Append(x[2], x[1] - 1)
                                             ELSE x[2]) \in V
    <3>1. x[1] - 1 \in Int /\ x[2] \in V
      BY <1>1
    <3> QED BY <3>1, AppendProperties
  <2> QED BY <2>1
<1>3. << >> \in V
  OBVIOUS
<1> HIDE DEF N, V, G
<1>4. PICK f : Stepwise(f, N, << >>, G) /\ \A m \in 0 .. N : f[m] \in V
  BY <1>1, <1>2, <1>3, StepwiseExists
<1> USE DEF N
<1>8. \A m \in 0 .. N : m # 0 =>
        G[<<m, f[m - 1]>>] = IF m - 1 \in DOMAIN pages
                             THEN Append(f[m - 1], m - 1) ELSE f[m - 1]
  <2> TAKE m \in 0 .. N
  <2> SUFFICES ASSUME m # 0
               PROVE  G[<<m, f[m - 1]>>] = IF m - 1 \in DOMAIN pages
                             THEN Append(f[m - 1], m - 1) ELSE f[m - 1]
    OBVIOUS
  <2>1. m \in 1 .. N /\ m - 1 \in 0 .. N
    BY <1>1
  <2>2. <<m, f[m - 1]>> \in (1 .. N) \X V
    BY <1>4, <2>1
  <2> QED BY <2>2 DEF G
<1>9. f = [m \in 0 .. N |-> IF m = 0 THEN << >>
                            ELSE IF m - 1 \in DOMAIN pages
                                 THEN Append(f[m - 1], m - 1)
                                 ELSE f[m - 1]]
  BY <1>4, <1>8 DEF Stepwise
<1>10. PagesUpTo = [m \in 0 .. N |-> IF m = 0 THEN << >>
                            ELSE IF m - 1 \in DOMAIN pages
                                 THEN Append(PagesUpTo[m - 1], m - 1)
                                 ELSE PagesUpTo[m - 1]]
  <2> HIDE DEF N
  <2> QED BY <1>9 DEF PagesUpTo, N
<1> QED BY <1>10

(* The list holds the pages in use, once each.                               *)
Listed(list, n) ==
  /\ list \in Seq(Int)
  /\ \A i \in 1 .. Len(list) : list[i] \in DOMAIN pages /\ list[i] < n
  /\ \A p \in DOMAIN pages : p < n => \E i \in 1 .. Len(list) : list[i] = p
  /\ \A i, j \in 1 .. Len(list) : list[i] = list[j] => i = j

LEMMA PagesListed ==
  ASSUME DramInv, PagesInv
  PROVE  Listed(PagesInUse, PagesInAll)
<1> DEFINE S == {n \in Nat : n <= PagesInAll => Listed(PagesUpTo[n], n)}
<1>0. PagesInAll \in Nat /\ DOMAIN pages \subseteq Nat
  BY Counts DEF DramInv, DramTypeOK
<1>1. 0 \in S
  <2>1. 0 \in 0 .. PagesInAll
    BY <1>0
  <2>2. PagesUpTo[0] = << >>
    BY <2>1, PagesUpToIs
  <2>3. \A p \in DOMAIN pages : ~(p < 0)
    BY <1>0
  <2>4. << >> \in Seq(Int) /\ 1 .. Len(<< >>) = {}
    OBVIOUS
  <2>5. Listed(<< >>, 0)
    BY <2>3, <2>4 DEF Listed
  <2> QED BY <2>2, <2>5
<1>2. ASSUME NEW n \in Nat, n \in S PROVE n + 1 \in S
  <2> SUFFICES ASSUME n + 1 <= PagesInAll
               PROVE  Listed(PagesUpTo[n + 1], n + 1)
    OBVIOUS
  <2> DEFINE list == PagesUpTo[n]
  <2>1. Listed(list, n) /\ n + 1 \in 0 .. PagesInAll /\ (n + 1) - 1 = n
        /\ n + 1 # 0
    BY <1>0, <1>2
  <2>2. PagesUpTo[n + 1] = IF n \in DOMAIN pages THEN Append(list, n) ELSE list
    BY <2>1, PagesUpToIs
  <2> HIDE DEF list
  <2>3. \A p \in DOMAIN pages : p < n + 1 <=> p < n \/ p = n
    BY <1>0
  <2>4. CASE n \notin DOMAIN pages
    <3>1. Listed(list, n + 1)
      BY <1>0, <2>1, <2>3, <2>4 DEF Listed
    <3> QED BY <2>2, <2>4, <3>1
  <2>5. CASE n \in DOMAIN pages
    <3> DEFINE longer == Append(list, n)
    <3>1. list \in Seq(Int) /\ Len(list) \in Nat
      BY <2>1, LenProperties DEF Listed
    <3>2. /\ longer \in Seq(Int) /\ Len(longer) = Len(list) + 1
          /\ longer[Len(list) + 1] = n
          /\ \A i \in 1 .. Len(list) : longer[i] = list[i]
      BY <3>1, AppendProperties
    <3>3. 1 .. Len(longer) = (1 .. Len(list)) \cup {Len(list) + 1}
      BY <3>1, <3>2
    <3> HIDE DEF longer
    <3>4. \A i \in 1 .. Len(list) :
            list[i] \in DOMAIN pages /\ list[i] < n /\ list[i] # n
      BY <1>0, <2>1 DEF Listed
    <3>5. \A i \in 1 .. Len(longer) :
            longer[i] \in DOMAIN pages /\ longer[i] < n + 1
      BY <1>0, <2>3, <2>5, <3>2, <3>3, <3>4
    <3>6. \A p \in DOMAIN pages : p < n + 1 =>
            \E i \in 1 .. Len(longer) : longer[i] = p
      BY <2>1, <2>3, <3>2, <3>3 DEF Listed
    <3>7. \A i, j \in 1 .. Len(longer) : longer[i] = longer[j] => i = j
      <4>1. ASSUME NEW i \in 1 .. Len(list), NEW j \in 1 .. Len(list),
                   longer[i] = longer[j]
            PROVE  i = j
        <5>1. list[i] = list[j]
          BY <3>2, <4>1
        <5> QED BY <2>1, <5>1 DEF Listed
      <4>2. \A i \in 1 .. Len(list) : longer[i] # longer[Len(list) + 1]
        BY <3>2, <3>4
      <4> QED BY <3>3, <4>1, <4>2
    <3>8. Listed(longer, n + 1)
      BY <3>2, <3>5, <3>6, <3>7 DEF Listed
    <3> QED BY <2>2, <2>5, <3>8 DEF longer
  <2> QED BY <2>4, <2>5
<1> HIDE DEF S
<1>3. PagesInAll \in S
  BY <1>0, <1>1, <1>2, Induction
<1> QED BY <1>0, <1>3 DEF S, PagesInUse

(* A byte of a row of a page is on that page, where the row starts there.    *)
LEMMA ByteOfRow ==
  ASSUME NEW page \in Nat, NEW o \in 0 .. RowsPerPage - 1,
         NEW c \in 0 .. RowBytes - 1
  PROVE  LET a == ((page * RowsPerPage) + o) * RowBytes + c
         IN  /\ a \div PageBytes = page
             /\ a % PageBytes = o * RowBytes + c
             /\ o * RowBytes + c \in 0 .. PageBytes - 1
<1> DEFINE q == RowsPerPage
           r == RowBytes
           p == PageBytes
           s == o * r + c
           a == ((page * q) + o) * r + c
<1>1. q \in Nat \ {0} /\ r \in Nat \ {0} /\ p \in Nat \ {0} /\ p = r * q
  BY Sizes, Counts
<1>2. o \in Nat /\ o <= q - 1 /\ c \in Nat /\ c <= r - 1
  BY <1>1
<1> HIDE DEF q, r, p
<1>3. s \in 0 .. p - 1
  <2>1. o * r <= (q - 1) * r /\ o * r \in Nat
    BY <1>1, <1>2, Z3
  <2>2. (q - 1) * r = p - r
    BY <1>1, Z3
  <2> QED BY <1>1, <1>2, <2>1, <2>2
<1>4. a = (p * page) + s
  BY <1>1, <1>2, Z3
<1> HIDE DEF s, a
<1>5. a \div p = page /\ a % p = s
  BY <1>1, <1>3, <1>4, Divided
<1> QED BY <1>3, <1>5 DEF q, r, p, s, a

(* A row of the view is a row of the page at its place among the pages.      *)
LEMMA RealRow ==
  ASSUME DramInv, PagesInv, NEW row \in ViewRows
  PROVE  LET i == row \div RowsPerPage + 1
             o == row % RowsPerPage
             page == PagesInUse[i]
             real == PagedRealRow(row)
         IN  /\ i \in 1 .. Len(PagesInUse) /\ i \in DOMAIN PagesInUse
             /\ o \in 0 .. RowsPerPage - 1
             /\ row = RowsPerPage * (i - 1) + o
             /\ page \in DOMAIN pages /\ page \in Nat
             /\ real = (page * RowsPerPage) + o
             /\ real \div RowsPerPage = page /\ real % RowsPerPage = o
<1> DEFINE q == RowsPerPage
           n == Len(PagesInUse)
           k == row \div q
           o == row % q
           page == PagesInUse[k + 1]
<1>1. PagesInUse \in Seq(Int) /\ n \in Nat /\ DOMAIN PagesInUse = 1 .. n
  BY PagesListed, LenProperties DEF Listed
<1>2. q \in Nat \ {0} /\ row \in 0 .. (n * q) - 1
  BY Counts DEF ViewRows
<1>3. row \in Nat /\ row < n * q
  <2>1. n * q \in Nat
    BY <1>1, <1>2, Z3
  <2> QED BY <1>2, <2>1
<1>4. k \in Nat /\ o \in 0 .. q - 1 /\ row = (q * k) + o
  BY <1>2, <1>3, Division
<1>5. k + 1 \in 1 .. n
  <2> HIDE DEF k, o, q, n
  <2>1. ~(k >= n)
    <3> SUFFICES ASSUME k >= n PROVE FALSE
      OBVIOUS
    <3>1. q * k >= n * q /\ q * k \in Nat /\ n * q \in Nat
      BY <1>1, <1>2, <1>4, Z3
    <3> QED BY <1>3, <1>4, <3>1
  <2> QED BY <1>1, <1>4, <2>1
<1>6. page \in DOMAIN pages /\ page \in Nat
  <2>1. page \in DOMAIN pages
    BY <1>5, PagesListed DEF Listed
  <2> QED BY <2>1 DEF DramInv, DramTypeOK
<1>7. PagedRealRow(row) = (page * q) + o
  BY DEF PagedRealRow
<1> HIDE DEF k, o, q, n, page
<1>8. page * q = q * page
  BY <1>2, <1>6, Z3
<1>9. PagedRealRow(row) \div q = page /\ PagedRealRow(row) % q = o
  <2>1. ((q * page) + o) \div q = page /\ ((q * page) + o) % q = o
    BY <1>2, <1>4, <1>6, Divided
  <2>2. PagedRealRow(row) = (q * page) + o
    BY <1>7, <1>8
  <2> QED BY <2>1, <2>2, Zenon
<1>10. (k + 1) - 1 = k
  BY <1>4
<1> QED BY <1>1, <1>4, <1>5, <1>6, <1>7, <1>9, <1>10
           DEF k, o, q, n, page

LEMMA LabelsAreRight ==
  ASSUME DramInv, PagesInv
  PROVE  RowsAreAsLabelled
<1> SUFFICES ASSUME NEW row \in ViewRows
             PROVE  /\ ServedRow(row) = RowAt(PagedRealRow(row))
                    /\ PagedViewRow(PagedRealRow(row)) = row
  BY DEF RowsAreAsLabelled
<1> DEFINE q == RowsPerPage
           i == row \div q + 1
           o == row % q
           page == PagesInUse[i]
           real == PagedRealRow(row)
<1>1. /\ i \in 1 .. Len(PagesInUse) /\ i \in DOMAIN PagesInUse
      /\ o \in 0 .. q - 1 /\ row = q * (i - 1) + o
      /\ page \in DOMAIN pages /\ page \in Nat
      /\ real = (page * q) + o /\ real \div q = page /\ real % q = o
  BY RealRow
<1>2. ServedRow(row) = RowAt(real)
  <2>1. ServedRow(row) =
          [c \in 0 .. RowBytes - 1 |-> pages[page][o * RowBytes + c]]
    BY DEF ServedRow
  <2>2. RowAt(real) =
          [c \in 0 .. RowBytes - 1 |-> StoredByte(real * RowBytes + c)]
    BY DEF RowAt
  <2>3. ASSUME NEW c \in 0 .. RowBytes - 1
        PROVE  StoredByte(real * RowBytes + c) = pages[page][o * RowBytes + c]
    <3> DEFINE a == real * RowBytes + c
    <3>1. a \div PageBytes = page /\ a % PageBytes = o * RowBytes + c
      BY <1>1, ByteOfRow
    <3> HIDE DEF a
    <3>2. StoredByte(a) = pages[page][o * RowBytes + c]
      BY <1>1, <3>1 DEF StoredByte
    <3> QED BY <3>2 DEF a
  <2> HIDE DEF page, o, real
  <2> QED BY <2>1, <2>2, <2>3
<1>3. PagedViewRow(real) = row
  <2> DEFINE j == CHOOSE l \in DOMAIN PagesInUse : PagesInUse[l] = page
  <2>1. PagedViewRow(real) = q * (j - 1) + o
    <3> HIDE DEF real, page, o, q
    <3>1. real \div RowsPerPage = page /\ real % RowsPerPage = o
      BY <1>1 DEF q
    <3> QED BY <1>1, <3>1 DEF PagedViewRow, q
  <2>2. j \in DOMAIN PagesInUse /\ PagesInUse[j] = page
    BY <1>1
  <2>3. j = i
    <3>1. DOMAIN PagesInUse = 1 .. Len(PagesInUse)
      BY PagesListed, LenProperties DEF Listed
    <3> QED BY <1>1, <2>2, <3>1, PagesListed DEF Listed
  <2> QED BY <1>1, <2>1, <2>3
<1> QED BY <1>2, <1>3

(* Which piece of which page a row is read from, its label and the way back  *)
(* from the label agree, whatever order the pages were written in            *)
(* (state.cpp:29-51, app.js:556-559, 604-621).                               *)
THEOREM LabelsAreTrue == Spec => []RowsAreAsLabelled
<1>1. Init => PagesInv
  BY Counts DEF Init, PagesInv
<1>2. DramInv /\ PagesInv => RowsAreAsLabelled
  BY LabelsAreRight
<1> QED BY <1>1, <1>2, DramInvHolds, NextPagesInv, PTL DEF Spec

-----------------------------------------------------------------------------
(* The rows written.                                                         *)

(* Inductive: the rows marked are the rows of the bytes that were written,   *)
(* copied already or still to be.                                            *)
Holding   == {a \in 0 .. Size - 1 : Stored[a] # Zero}
MarkedInv == written = {a \div RowBytes : a \in Holding}

LEMMA InitMarkedInv == Init => MarkedInv
<1> SUFFICES ASSUME Init PROVE MarkedInv
  OBVIOUS
<1>1. \A a \in 0 .. Size - 1 : Stored[a] = Zero
  BY DEF Init, Idle, Stored, StoredByte
<1> QED BY <1>1 DEF Init, MarkedInv, Holding

LEMMA NextMarkedInv ==
  DramInv /\ MarkedInv /\ [Next]_vars => MarkedInv'
<1> SUFFICES ASSUME DramInv, MarkedInv, [Next]_vars PROVE MarkedInv'
  OBVIOUS
<1>1. CASE Write
  <2>1. Flat!FlatWrite
    BY <1>1, WriteIsFlat
  <2>2. PICK addr \in Addresses, n \in Lengths :
          /\ Flat!InRange(addr, n)
          /\ Stored' = [a \in 0 .. Size - 1 |->
               IF a \in Flat!Range(addr, n)
               THEN Flat!Source(writes', a - addr) ELSE Stored[a]]
          /\ written' = written \cup {a \div RowBytes :
                                        a \in Flat!Range(addr, n)}
    BY <2>1 DEF Flat!FlatWrite
  <2> DEFINE R == Flat!Range(addr, n)
  <2>3. R \subseteq 0 .. Size - 1
    BY <2>2, Sizes DEF Flat!InRange, Flat!Range
  <2>4. \A i : Flat!Source(writes', i) # Zero
    <3>1. writes' # 0
      BY <1>1 DEF Write, DramInv, DramTypeOK
    <3> QED BY <3>1 DEF Flat!Source, Zero
  <2>5. \A a \in 0 .. Size - 1 :
          Stored'[a] # Zero <=> a \in R \/ Stored[a] # Zero
    BY <2>2, <2>4
  <2>6. Holding' = Holding \cup R
    BY <2>3, <2>5 DEF Holding
  <2> HIDE DEF R
  <2>7. written' = {a \div RowBytes : a \in Holding}
                     \cup {a \div RowBytes : a \in R}
    BY <2>2 DEF MarkedInv, R
  <2> QED BY <2>6, <2>7 DEF MarkedInv
<1>2. CASE ~Write
  <2>1. written' = written
    BY <1>2 DEF Next, Read, Refuse, WritePiece, ReadPiece, Return, vars
  <2>2. Stored' = Stored
    <3>1. CASE UNCHANGED vars
      BY <3>1 DEF vars, Stored, StoredByte, ToCopy
    <3>2. CASE Read
      BY <3>2, ReadIsFlat DEF Flat!FlatRead
    <3>3. CASE Refuse
      BY <3>3, RefuseIsFlat DEF Flat!FlatRefuse
    <3> QED BY <1>2, <3>1, <3>2, <3>3, WritePieceIsNone, ReadPieceIsNone,
               ReturnIsNone DEF Next, Flat!flatVars
  <2> QED BY <2>1, <2>2 DEF MarkedInv, Holding
<1> QED BY <1>1, <1>2

(* The rows marked are rows of the memory.                                   *)
LEMMA RowOfAddress ==
  ASSUME NEW a \in 0 .. Size - 1
  PROVE  /\ a \div RowBytes \in 0 .. RowsInAll - 1
         /\ a % RowBytes \in 0 .. RowBytes - 1
         /\ a = ((a \div RowBytes) * RowBytes) + (a % RowBytes)
<1> DEFINE r == RowBytes
           n == RowsInAll
           q == a \div r
<1>1. r \in Nat \ {0} /\ n \in Nat /\ a \in Nat /\ a < r * n
  BY Sizes, Counts
<1>2. q \in Nat /\ a % r \in 0 .. r - 1 /\ a = r * q + (a % r)
  BY <1>1, Division
<1>3. q * r = r * q
  <2> HIDE DEF r, q
  <2> QED BY <1>1, <1>2, Z3
<1> HIDE DEF r, n, q
<1>4. ~(q >= n)
  <2> SUFFICES ASSUME q >= n PROVE FALSE
    OBVIOUS
  <2>1. r * q >= r * n /\ r * q \in Nat /\ r * n \in Nat
    BY <1>1, <1>2, Z3
  <2> QED BY <1>1, <1>2, <2>1
<1> QED BY <1>1, <1>2, <1>3, <1>4 DEF q, n, r

LEMMA WrittenRows == MarkedInv => written \subseteq 0 .. RowsInAll - 1
BY RowOfAddress DEF MarkedInv, Holding

-----------------------------------------------------------------------------
(* The runs.                                                                 *)

Run == Nat \X Nat
CoveredBy(list, row) ==
  \E i \in 1 .. Len(list) :
    row \in list[i][1] .. list[i][1] + list[i][2] - 1

LEMMA AddCovers ==
  ASSUME NEW list \in Seq(Run), NEW n \in Nat
  PROVE  /\ Add(list, n) \in Seq(Run)
         /\ \A row : CoveredBy(Add(list, n), row) <=>
                       CoveredBy(list, row) \/ row = n
<1> DEFINE len == Len(list)
<1>0. len \in Nat
  BY LenProperties
<1>1. CASE list # << >> /\ n = list[len][1] + list[len][2]
  <2> DEFINE longer == <<list[len][1], list[len][2] + 1>>
             new == Front(list) \o <<longer>>
  <2>1. len # 0 /\ list[len] \in Run
    BY <1>0, <1>1, EmptySeq, ElementOfSeq
  <2>2. longer \in Run
    BY <2>1 DEF Run
  <2>3. Add(list, n) = new
    BY <1>1 DEF Add, Last
  <2>4. /\ Front(list) \in Seq(Run) /\ Len(Front(list)) = len - 1
        /\ \A i \in 1 .. len - 1 : Front(list)[i] = list[i]
    <3>1. /\ 1 <= len - 1 + 1 /\ len - 1 \in 0 .. len /\ 1 \in 1 .. len + 1
          /\ (len - 1) - 1 + 1 = len - 1
      BY <1>0, <2>1
    <3>2. /\ SubSeq(list, 1, len - 1) \in Seq(Run)
          /\ Len(SubSeq(list, 1, len - 1)) = len - 1
          /\ \A i \in 1 .. len - 1 : SubSeq(list, 1, len - 1)[i] = list[i]
      <4>1. \A i \in 1 .. len - 1 : 1 + i - 1 = i
        BY <1>0
      <4> QED BY <3>1, <4>1, SubSeqProperties
    <3> QED BY <3>2 DEF Front
  <2> HIDE DEF longer
  <2>5. /\ <<longer>> \in Seq(Run) /\ Len(<<longer>>) = 1
        /\ <<longer>>[1] = longer
    BY <2>2
  <2>6. /\ new \in Seq(Run) /\ Len(new) = len
        /\ \A i \in 1 .. len : new[i] = IF i = len THEN longer ELSE list[i]
    <3>1. /\ new \in Seq(Run) /\ Len(new) = (len - 1) + 1
          /\ \A i \in 1 .. (len - 1) + 1 :
               new[i] = IF i <= len - 1 THEN Front(list)[i]
                                        ELSE <<longer>>[i - (len - 1)]
      BY <2>4, <2>5, ConcatProperties
    <3> HIDE DEF new
    <3> QED BY <1>0, <2>1, <2>4, <2>5, <3>1
  <2> HIDE DEF new
  <2>7. ASSUME NEW row PROVE CoveredBy(new, row) <=>
                               CoveredBy(list, row) \/ row = n
    <3>1. row \in longer[1] .. longer[1] + longer[2] - 1 <=>
            row \in list[len][1] .. list[len][1] + list[len][2] - 1 \/ row = n
      BY <1>1, <2>1 DEF longer, Run
    <3>2. len \in 1 .. len
      BY <1>0, <2>1
    <3>3. CoveredBy(new, row) =>
            CoveredBy(list, row) \/ row = n
      BY <2>6, <3>1, <3>2 DEF CoveredBy
    <3>4. CoveredBy(list, row) => CoveredBy(new, row)
      BY <2>6, <3>1, <3>2 DEF CoveredBy
    <3>5. row = n => CoveredBy(new, row)
      BY <2>6, <3>1, <3>2 DEF CoveredBy
    <3> QED BY <3>3, <3>4, <3>5
  <2> QED BY <2>3, <2>6, <2>7
<1>2. CASE ~(list # << >> /\ n = list[len][1] + list[len][2])
  <2> DEFINE one == <<n, 1>>
             new == Append(list, one)
  <2>1. Add(list, n) = new
    BY <1>2 DEF Add, Last
  <2>2. one \in Run /\ one[1] = n /\ one[2] = 1
    BY DEF Run
  <2> HIDE DEF one
  <2>3. /\ new \in Seq(Run) /\ Len(new) = len + 1 /\ new[len + 1] = one
        /\ \A i \in 1 .. len : new[i] = list[i]
    BY <1>0, <2>2, AppendProperties
  <2>4. 1 .. Len(new) = (1 .. len) \cup {len + 1}
    BY <1>0, <2>3
  <2> HIDE DEF new
  <2>5. \A row : row \in one[1] .. one[1] + one[2] - 1 <=> row = n
    BY <2>2
  <2>6. \A row : CoveredBy(new, row) <=> CoveredBy(list, row) \/ row = n
    BY <2>3, <2>4, <2>5 DEF CoveredBy
  <2> QED BY <2>1, <2>3, <2>6
<1> QED BY <1>1, <1>2

LEMMA RunsUpToIs ==
  ASSUME NEW n \in 0 .. RowsInAll
  PROVE  RunsUpTo[n] = IF n = 0 THEN << >>
                       ELSE IF n - 1 \in written
                            THEN Add(RunsUpTo[n - 1], n - 1)
                            ELSE RunsUpTo[n - 1]
<1> DEFINE N == RowsInAll
           V == Seq(Run)
           G == [x \in (1 .. N) \X V |->
                   IF x[1] - 1 \in written THEN Add(x[2], x[1] - 1) ELSE x[2]]
<1>1. N \in Nat
  BY Counts
<1>2. G \in [(1 .. N) \X V -> V]
  <2>1. ASSUME NEW x \in (1 .. N) \X V
        PROVE  (IF x[1] - 1 \in written THEN Add(x[2], x[1] - 1)
                                        ELSE x[2]) \in V
    <3>1. x[1] - 1 \in Nat /\ x[2] \in V
      BY <1>1
    <3> QED BY <3>1, AddCovers
  <2> QED BY <2>1
<1>3. << >> \in V
  OBVIOUS
<1> HIDE DEF N, V, G
<1>4. PICK f : Stepwise(f, N, << >>, G) /\ \A m \in 0 .. N : f[m] \in V
  BY <1>1, <1>2, <1>3, StepwiseExists
<1> USE DEF N
<1>5. \A m \in 0 .. N : m # 0 =>
        G[<<m, f[m - 1]>>] = IF m - 1 \in written
                             THEN Add(f[m - 1], m - 1) ELSE f[m - 1]
  <2> TAKE m \in 0 .. N
  <2> SUFFICES ASSUME m # 0
               PROVE  G[<<m, f[m - 1]>>] = IF m - 1 \in written
                             THEN Add(f[m - 1], m - 1) ELSE f[m - 1]
    OBVIOUS
  <2>1. m \in 1 .. N /\ m - 1 \in 0 .. N
    BY <1>1
  <2>2. <<m, f[m - 1]>> \in (1 .. N) \X V
    BY <1>4, <2>1
  <2> QED BY <2>2 DEF G
<1>6. f = [m \in 0 .. N |-> IF m = 0 THEN << >>
                            ELSE IF m - 1 \in written
                                 THEN Add(f[m - 1], m - 1) ELSE f[m - 1]]
  BY <1>4, <1>5 DEF Stepwise
<1>7. RunsUpTo = [m \in 0 .. N |-> IF m = 0 THEN << >>
                            ELSE IF m - 1 \in written
                                 THEN Add(RunsUpTo[m - 1], m - 1)
                                 ELSE RunsUpTo[m - 1]]
  <2> HIDE DEF N
  <2> QED BY <1>6 DEF RunsUpTo, N
<1> QED BY <1>7

LEMMA RunsCover ==
  ASSUME DramInv, MarkedInv
  PROVE  RowsOfRuns = written
<1> DEFINE Is(n) == /\ RunsUpTo[n] \in Seq(Run)
                    /\ \A row : CoveredBy(RunsUpTo[n], row) <=>
                                  row \in written /\ row < n
           S == {n \in Nat : n <= RowsInAll => Is(n)}
<1>0. RowsInAll \in Nat /\ written \subseteq 0 .. RowsInAll - 1
  BY Counts, WrittenRows
<1>1. 0 \in S
  <2>1. RunsUpTo[0] = << >>
    BY <1>0, RunsUpToIs
  <2>2. << >> \in Seq(Run) /\ 1 .. Len(<< >>) = {}
    OBVIOUS
  <2>3. \A row \in written : ~(row < 0)
    BY <1>0
  <2>4. Is(0)
    BY <2>1, <2>2, <2>3 DEF CoveredBy
  <2> QED BY <2>4
<1>2. ASSUME NEW n \in Nat, n \in S PROVE n + 1 \in S
  <2> SUFFICES ASSUME n + 1 <= RowsInAll PROVE Is(n + 1)
    OBVIOUS
  <2> DEFINE list == RunsUpTo[n]
  <2>1. /\ list \in Seq(Run)
        /\ \A row : CoveredBy(list, row) <=> row \in written /\ row < n
    BY <1>0, <1>2
  <2>2. n + 1 \in 0 .. RowsInAll /\ (n + 1) - 1 = n /\ n + 1 # 0
    BY <1>0
  <2>3. RunsUpTo[n + 1] = IF n \in written THEN Add(list, n) ELSE list
    BY <2>2, RunsUpToIs
  <2>4. \A row \in written : row < n + 1 <=> row < n \/ row = n
    BY <1>0
  <2> HIDE DEF list
  <2>5. CASE n \in written
    <3>1. /\ Add(list, n) \in Seq(Run)
          /\ \A row : CoveredBy(Add(list, n), row) <=>
                        CoveredBy(list, row) \/ row = n
      BY <2>1, AddCovers
    <3>2. RunsUpTo[n + 1] = Add(list, n)
      BY <2>3, <2>5
    <3>3. \A row : CoveredBy(Add(list, n), row) <=>
                     row \in written /\ row < n + 1
      BY <2>1, <2>4, <2>5, <3>1
    <3> QED BY <3>1, <3>2, <3>3
  <2>6. CASE n \notin written
    BY <2>1, <2>3, <2>4, <2>6
  <2> QED BY <2>5, <2>6
<1> HIDE DEF S
<1>3. RowsInAll \in S
  BY <1>0, <1>1, <1>2, Induction
<1>4. Is(RowsInAll)
  BY <1>0, <1>3 DEF S
<1>5. \A row : CoveredBy(WrittenRuns, row) <=> row \in written
  <2>1. \A row \in written : row < RowsInAll
    BY <1>0
  <2>2. \A row : CoveredBy(RunsUpTo[RowsInAll], row) <=>
                   row \in written /\ row < RowsInAll
    BY <1>4
  <2> QED BY <2>1, <2>2 DEF WrittenRuns
<1>6. \A row : row \in RowsOfRuns <=> CoveredBy(WrittenRuns, row)
  <2>1. Range(WrittenRuns) =
          {WrittenRuns[i] : i \in 1 .. Len(WrittenRuns)}
    <3>1. DOMAIN WrittenRuns = 1 .. Len(WrittenRuns)
      BY <1>4, LenProperties DEF WrittenRuns
    <3> QED BY <3>1 DEF Range
  <2> QED BY <2>1 DEF RowsOfRuns, CoveredBy
<1> QED BY <1>5, <1>6

-----------------------------------------------------------------------------
(* The paint.                                                                *)

LEMMA DataRows ==
  ASSUME DramInv, MarkedInv, call = Idle
  PROVE  /\ RowsHoldingData = written
         /\ \A row \in written : row \div RowsPerPage \in DOMAIN pages
<1>1. \A a \in 0 .. Size - 1 : Stored[a] = StoredByte(a)
  BY DEF Stored, Idle
<1>2. ASSUME NEW row \in written
      PROVE  /\ row \in RowsHoldingData
             /\ row \div RowsPerPage \in DOMAIN pages
  <2>1. PICK a \in 0 .. Size - 1 : StoredByte(a) # Zero /\ row = a \div RowBytes
    BY <1>1 DEF MarkedInv, Holding
  <2> DEFINE c == a % RowBytes
  <2>2. /\ row \in 0 .. RowsInAll - 1 /\ c \in 0 .. RowBytes - 1
        /\ a = (row * RowBytes) + c
    BY <2>1, RowOfAddress
  <2> HIDE DEF c
  <2>3. RowAt(row)[c] = StoredByte((row * RowBytes) + c)
    BY <2>2 DEF RowAt
  <2>4. RowAt(row)[c] # Zero
    BY <2>1, <2>2, <2>3
  <2>5. row \in RowsHoldingData
    BY <2>2, <2>4 DEF RowsHoldingData
  <2> DEFINE page == row \div RowsPerPage
             o == row % RowsPerPage
  <2>6. row \in Nat /\ RowsPerPage \in Nat \ {0}
    BY <2>2, Counts
  <2>7. /\ page \in Nat /\ o \in 0 .. RowsPerPage - 1
        /\ row = (RowsPerPage * page) + o
    BY <2>6, Division
  <2>8. RowsPerPage * page = page * RowsPerPage
    <3> DEFINE q == RowsPerPage
    <3> HIDE DEF page, q
    <3>1. q * page = page * q
      BY <2>6, <2>7, Z3 DEF q
    <3> QED BY <3>1 DEF q
  <2> HIDE DEF page, o
  <2>9. (((page * RowsPerPage) + o) * RowBytes + c) \div PageBytes = page
    BY <2>2, <2>7, ByteOfRow
  <2>10. a = ((page * RowsPerPage) + o) * RowBytes + c
    BY <2>2, <2>7, <2>8, Zenon
  <2>11. a \div PageBytes = page
    BY <2>9, <2>10, Zenon
  <2>12. page \in DOMAIN pages
    BY <2>1, <2>11 DEF StoredByte
  <2> QED BY <2>5, <2>12 DEF page
<1>3. ASSUME NEW row \in RowsHoldingData PROVE row \in written
  <2>1. PICK c \in 0 .. RowBytes - 1 : RowAt(row)[c] # Zero
    BY DEF RowsHoldingData
  <2>2. row \in 0 .. RowsInAll - 1
    BY DEF RowsHoldingData
  <2> DEFINE a == row * RowBytes + c
  <2>3. StoredByte(a) # Zero
    BY <2>1 DEF RowAt
  <2>4. a \in 0 .. Size - 1 /\ a \div RowBytes = row
    <3> DEFINE r == RowBytes
               n == RowsInAll
    <3>1. /\ r \in Nat \ {0} /\ n \in Nat /\ Size = r * n
          /\ row \in Nat /\ row + 1 <= n /\ c \in 0 .. r - 1
      BY <2>2, Sizes, Counts
    <3>2. a = row * r + c
      OBVIOUS
    <3> HIDE DEF r, n, a
    <3>3. row * r = r * row /\ row * r \in Nat /\ r * n \in Nat
      BY <3>1, Z3
    <3>4. r * (row + 1) <= r * n /\ r * (row + 1) = (r * row) + r
      BY <3>1, Z3
    <3>5. a \in 0 .. Size - 1
      BY <3>1, <3>2, <3>3, <3>4
    <3>6. ((r * row) + c) \div r = row
      BY <3>1, Divided
    <3>7. a = (r * row) + c
      BY <3>2, <3>3
    <3>8. a \div r = row
      BY <3>6, <3>7, Zenon
    <3> QED BY <3>5, <3>8 DEF r
  <2> HIDE DEF a
  <2>5. a \in Holding
    BY <1>1, <2>3, <2>4 DEF Holding
  <2> QED BY <2>4, <2>5 DEF MarkedInv
<1> QED BY <1>2, <1>3

(* A row on a page in use has its cell, and the cell its row.                *)
LEMMA ViewRow ==
  ASSUME DramInv, PagesInv, NEW row \in Nat,
         row \div RowsPerPage \in DOMAIN pages
  PROVE  PagedViewRow(row) \in ViewRows
         /\ PagedRealRow(PagedViewRow(row)) = row
<1> DEFINE q == RowsPerPage
           page == row \div q
           o == row % q
           n == Len(PagesInUse)
           j == CHOOSE l \in DOMAIN PagesInUse : PagesInUse[l] = page
           cell == PagedViewRow(row)
<1>1. q \in Nat \ {0} /\ n \in Nat /\ DOMAIN PagesInUse = 1 .. n
  BY Counts, PagesListed, LenProperties DEF Listed
<1>2. page \in DOMAIN pages /\ page < PagesInAll
  <2>1. PagesInAll \in Nat /\ page \in 0 .. PagesInAll - 1
    BY Counts DEF PagesInv
  <2> QED BY <2>1
<1>3. j \in 1 .. n /\ PagesInUse[j] = page
  BY <1>1, <1>2, PagesListed DEF Listed
<1>4. o \in 0 .. q - 1 /\ page \in Nat /\ row = (q * page) + o
  BY <1>1, Division
<1>5. cell = q * (j - 1) + o
  BY DEF PagedViewRow
<1> HIDE DEF q, page, o, n, j, cell
<1>6. cell \in 0 .. (n * q) - 1
  <2>1. q * (j - 1) \in Nat /\ n * q \in Nat /\ q * (j - 1) + q <= n * q
    BY <1>1, <1>3, Z3
  <2> QED BY <1>1, <1>4, <1>5, <2>1
<1>7. cell \div q = j - 1 /\ cell % q = o
  <2>1. j - 1 \in Nat
    BY <1>1, <1>3
  <2> QED BY <1>1, <1>4, <1>5, <2>1, Divided
<1>8. PagedRealRow(cell) = (page * q) + o
  <2>1. (j - 1) + 1 = j
    BY <1>1, <1>3
  <2>2. PagedRealRow(cell) = (PagesInUse[(cell \div q) + 1] * q) + (cell % q)
    BY DEF PagedRealRow, q
  <2>3. PagesInUse[(cell \div q) + 1] = page
    BY <1>3, <1>7, <2>1
  <2> QED BY <1>7, <2>2, <2>3
<1>9. page * q = q * page
  BY <1>1, <1>4, Z3
<1>10. PagedRealRow(cell) = row
  BY <1>4, <1>8, <1>9, Zenon
<1>11. cell \in ViewRows
  BY <1>6 DEF ViewRows, n, q
<1> QED BY <1>10, <1>11 DEF cell

(* The doubling ends past the highest row written, or with all the rows.     *)
LEMMA ShownAfterIs ==
  ASSUME NEW k \in 0 .. RowsInAll
  PROVE  ShownAfter[k] =
           IF k = 0 THEN LeastShown
           ELSE IF /\ ShownAfter[k - 1] <= HighestRow
                   /\ ShownAfter[k - 1] < RowsInAll
                THEN ShownAfter[k - 1] * 2 ELSE ShownAfter[k - 1]
<1> DEFINE N == RowsInAll
           V == Nat
           G == [x \in (1 .. N) \X V |->
                   IF x[2] <= HighestRow /\ x[2] < N THEN x[2] * 2 ELSE x[2]]
<1>1. N \in Nat
  BY Counts
<1>2. G \in [(1 .. N) \X V -> V]
  <2>1. ASSUME NEW x \in (1 .. N) \X V
        PROVE  (IF x[2] <= HighestRow /\ x[2] < N
                THEN x[2] * 2 ELSE x[2]) \in V
    OBVIOUS
  <2> QED BY <2>1
<1>3. LeastShown \in V
  BY SnapshotAssumption DEF SnapshotAssumption
<1> HIDE DEF N, V, G
<1>4. PICK f : Stepwise(f, N, LeastShown, G) /\ \A m \in 0 .. N : f[m] \in V
  BY <1>1, <1>2, <1>3, StepwiseExists
<1> USE DEF N
<1>5. \A m \in 0 .. N : m # 0 =>
        G[<<m, f[m - 1]>>] = IF f[m - 1] <= HighestRow /\ f[m - 1] < N
                             THEN f[m - 1] * 2 ELSE f[m - 1]
  <2> TAKE m \in 0 .. N
  <2> SUFFICES ASSUME m # 0
               PROVE  G[<<m, f[m - 1]>>] =
                        IF f[m - 1] <= HighestRow /\ f[m - 1] < N
                        THEN f[m - 1] * 2 ELSE f[m - 1]
    OBVIOUS
  <2>1. m \in 1 .. N /\ m - 1 \in 0 .. N
    BY <1>1
  <2>2. <<m, f[m - 1]>> \in (1 .. N) \X V
    BY <1>4, <2>1
  <2> QED BY <2>2 DEF G
<1>6. f = [m \in 0 .. N |->
             IF m = 0 THEN LeastShown
             ELSE IF f[m - 1] <= HighestRow /\ f[m - 1] < N
                  THEN f[m - 1] * 2 ELSE f[m - 1]]
  BY <1>4, <1>5 DEF Stepwise
<1>7. ShownAfter = [m \in 0 .. N |->
             IF m = 0 THEN LeastShown
             ELSE IF ShownAfter[m - 1] <= HighestRow /\ ShownAfter[m - 1] < N
                  THEN ShownAfter[m - 1] * 2 ELSE ShownAfter[m - 1]]
  <2> HIDE DEF N
  <2> QED BY <1>6 DEF ShownAfter, N
<1> QED BY <1>7

LEMMA AllAreShown ==
  ASSUME DramInv, MarkedInv
  PROVE  ShownRows \in Nat /\ \A row \in written : row < ShownRows
<1> DEFINE s == ShownAfter[RowsInAll]
           S == {k \in Nat : k <= RowsInAll =>
                   /\ ShownAfter[k] \in Nat
                   /\ \/ ShownAfter[k] > HighestRow
                      \/ ShownAfter[k] >= RowsInAll
                      \/ ShownAfter[k] > k}
<1>1. RowsInAll \in Nat /\ written \subseteq 0 .. RowsInAll - 1
      /\ RowsOfRuns = written
  BY Counts, WrittenRows, RunsCover
<1>2. /\ HighestRow \in Int /\ HighestRow < RowsInAll
      /\ \A row \in written : row <= HighestRow
  <2>1. CASE written = {}
    BY <1>1, <2>1 DEF HighestRow
  <2>2. CASE written # {}
    <3>1. RowsInAll - 1 \in Nat
      <4>1. PICK row \in written : row \in 0 .. RowsInAll - 1
        BY <1>1, <2>2
      <4> QED BY <1>1, <4>1
    <3>2. \E k \in written : \A m \in written : k >= m
      BY <1>1, <2>2, <3>1, GreatestIn
    <3>3. HighestRow = CHOOSE k \in written : \A m \in written : k >= m
      BY <1>1, <2>2 DEF HighestRow, Max
    <3>4. HighestRow \in written /\ \A m \in written : HighestRow >= m
      BY <3>2, <3>3
    <3> QED BY <1>1, <3>4
  <2> QED BY <2>1, <2>2
<1>3. 0 \in S
  <2>1. ShownAfter[0] = LeastShown
    BY <1>1, ShownAfterIs
  <2> QED BY <2>1, SnapshotAssumption DEF SnapshotAssumption
<1>4. ASSUME NEW k \in Nat, k \in S PROVE k + 1 \in S
  <2> SUFFICES ASSUME k + 1 <= RowsInAll
               PROVE  /\ ShownAfter[k + 1] \in Nat
                      /\ \/ ShownAfter[k + 1] > HighestRow
                         \/ ShownAfter[k + 1] >= RowsInAll
                         \/ ShownAfter[k + 1] > k + 1
    OBVIOUS
  <2>1. k + 1 \in 0 .. RowsInAll /\ (k + 1) - 1 = k /\ k + 1 # 0
        /\ k <= RowsInAll
    BY <1>1
  <2> DEFINE shown == ShownAfter[k]
  <2>2. /\ shown \in Nat
        /\ shown > HighestRow \/ shown >= RowsInAll \/ shown > k
    BY <1>4, <2>1
  <2>3. ShownAfter[k + 1] =
          IF shown <= HighestRow /\ shown < RowsInAll THEN shown * 2 ELSE shown
    BY <2>1, ShownAfterIs
  <2> HIDE DEF shown
  <2> QED BY <1>1, <1>2, <2>2, <2>3
<1> HIDE DEF S
<1>5. RowsInAll \in S
  BY <1>1, <1>3, <1>4, Induction
<1>6. s \in Nat /\ s > HighestRow
  BY <1>1, <1>2, <1>5 DEF S
<1> HIDE DEF s
<1>7. ShownRows = IF s <= RowsInAll THEN s ELSE RowsInAll
  <2>1. ShownRows = CHOOSE x \in {s, RowsInAll} :
                      \A y \in {s, RowsInAll} : x <= y
    BY DEF ShownRows, Min, s
  <2>2. ShownRows \in {s, RowsInAll} /\ ShownRows <= s /\ ShownRows <= RowsInAll
    BY <1>1, <1>6, <2>1
  <2> QED BY <1>1, <1>6, <2>2
<1>8. \A row \in written : row \in Nat /\ row < RowsInAll
  BY <1>1
<1> QED BY <1>1, <1>2, <1>6, <1>7, <1>8

LEMMA PaintIsRight ==
  ASSUME DramInv, PagesInv, MarkedInv
  PROVE  PaintsWhatIsWritten
<1> SUFFICES ASSUME call = Idle
             PROVE  /\ {PagedRealRow(cell) : cell \in PaintedCells}
                         = RowsHoldingData
                    /\ PaintedInFull = RowsHoldingData
  BY DEF PaintsWhatIsWritten
<1>1. RowsOfRuns = written /\ RowsHoldingData = written /\ written \subseteq Nat
  BY RunsCover, DataRows DEF DramInv, DramTypeOK
<1>2. \A row \in written : /\ PagedViewRow(row) \in ViewRows
                           /\ PagedRealRow(PagedViewRow(row)) = row
  BY <1>1, DataRows, ViewRow
<1>3. {PagedRealRow(cell) : cell \in PaintedCells} = written
  <2>1. PaintedCells = {PagedViewRow(row) : row \in written}
    BY <1>1, <1>2 DEF PaintedCells
  <2> QED BY <1>2, <2>1
<1>4. PaintedInFull = written
  <2>1. ShownRows \in Nat /\ \A row \in written : row < ShownRows
    BY AllAreShown
  <2>2. written \subseteq 0 .. ShownRows - 1
    BY <1>1, <2>1
  <2> QED BY <1>1, <2>2 DEF PaintedInFull
<1> QED BY <1>1, <1>3, <1>4

(* The runs that are sent cover the rows written and no other, and the page  *)
(* finds every one of them its cell, however few pages are in use and        *)
(* however short the view is (snapshot.cpp:84-133, app.js:89-95, 172-202).   *)
THEOREM PaintIsTrue == Spec => []PaintsWhatIsWritten
<1>1. Init => PagesInv
  BY Counts DEF Init, PagesInv
<1>2. DramInv /\ PagesInv /\ MarkedInv => PaintsWhatIsWritten
  BY PaintIsRight
<1> QED BY <1>1, <1>2, DramInvHolds, NextPagesInv, InitMarkedInv,
           NextMarkedInv, PTL DEF Spec
=============================================================================
