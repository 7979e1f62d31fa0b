---------------------------- MODULE ColumnProofs -----------------------------
(* The integers of the datapath are what the reference says, for words and   *)
(* bytes of any width, any shift, windows of any side and any number of      *)
(* adds.                                                                     *)
EXTENDS Column, TLAPS

-----------------------------------------------------------------------------
(* Division.                                                                 *)

(* A number is its quotient and its remainder.                               *)
LEMMA Division ==
  ASSUME NEW a \in Int, NEW d \in Nat \ {0}
  PROVE  /\ (a \div d) \in Int /\ (a % d) \in 0 .. d - 1
         /\ a = (d * (a \div d)) + (a % d)
BY Z3

(* A multiple leaves nothing.                                                *)
LEMMA MultipleLeavesNothing ==
  ASSUME NEW q \in Int, NEW d \in Nat \ {0}
  PROVE  (d * q) % d = 0
BY Z3

(* Numbers less than d apart and equal but for multiples of d are the same.  *)
LEMMA SmallMultiple ==
  ASSUME NEW a \in Int, NEW d \in Nat \ {0}, a % d = 0, -d < a, a < d
  PROVE  a = 0
BY Z3

(* The quotients of x + d \div 2 are what the reference rounds to.           *)
RoundHalfUp(x, d) == (x + d \div 2) \div d

LEMMA RoundHalfUpIsNearest ==
  ASSUME NEW x \in Nat, NEW d \in Nat \ {0}
  PROVE  /\ RoundHalfUp(x, d) \in 0 .. x
         /\ IsNearest(RoundHalfUp(x, d), x, d)
         /\ IsNearest(-RoundHalfUp(x, d), -x, d)
<1> DEFINE h == d \div 2
           q == (x + h) \div d
           r == (x + h) % d
<1>1. h \in Nat /\ 2 * h <= d /\ d <= 2 * h + 1 /\ h < d
  BY Z3
<1>2. q \in Int /\ r \in 0 .. d - 1 /\ x + h = (d * q) + r
  BY <1>1, Division
<1>3. q >= 0
  BY <1>1, <1>2, Z3
<1>4. q <= x
  <2>1. CASE x = 0
    BY <2>1, <1>1, <1>2, <1>3, Z3
  <2>2. CASE x > 0
    <3>1. SUFFICES ASSUME q >= x + 1 PROVE FALSE
      BY <1>2
    <3>2. d * q >= d * (x + 1)
      BY <3>1, <1>2, Z3
    <3>3. d * (x + 1) >= x + d
      BY Z3
    <3> QED BY <3>2, <3>3, <1>1, <1>2, Z3
  <2> QED BY <2>1, <2>2
<1>5. q * d \in Nat /\ q * d - x = h - r
  BY <1>2, <1>3, Z3
<1>6. (-q) * d = -(q * d)
  BY <1>2, Z3
<1> HIDE DEF h, q, r
<1>7. IsNearest(q, x, d)
  BY <1>1, <1>2, <1>5, Z3 DEF IsNearest, Magnitude
<1>8. IsNearest(-q, -x, d)
  BY <1>1, <1>2, <1>5, <1>6, Z3 DEF IsNearest, Magnitude
<1> QED BY <1>3, <1>4, <1>7, <1>8, <1>2 DEF RoundHalfUp, q, h

-----------------------------------------------------------------------------
(* Adding.                                                                   *)

(* A wrapped sum is a word, and the sum but for multiples of 2^32.           *)
LEMMA WrappingAddWraps ==
  ASSUME NEW a \in Int32, NEW b \in Int32
  PROVE  /\ WrappingAdd(a, b) \in Int32
         /\ \E k \in Int : a + b - WrappingAdd(a, b) = (2 * IntHalf) * k
<1> DEFINE m == 2 * IntHalf
           ua == a % m
           ub == b % m
           u == (ua + ub) % m
           i == a \div m
           j == b \div m
           l == (ua + ub) \div m
<1>1. IntHalf \in Nat \ {0} /\ m \in Nat \ {0} /\ a \in Int /\ b \in Int
  BY ArithmeticAssumption DEF ArithmeticAssumption, Int32
<1>2. WrappingAdd(a, b) = IF u < IntHalf THEN u ELSE u - m
  BY DEF WrappingAdd, AsSigned, AsUnsigned
<1>3. ua \in 0 .. m - 1 /\ i \in Int /\ a = (m * i) + ua
  BY <1>1, Division
<1>4. ub \in 0 .. m - 1 /\ j \in Int /\ b = (m * j) + ub
  BY <1>1, Division
<1>5. ua + ub \in Int
  BY <1>1, <1>3, <1>4
<1>6. u \in 0 .. m - 1 /\ l \in Int /\ ua + ub = (m * l) + u
  <2> HIDE DEF ua, ub, m
  <2> QED BY <1>1, <1>5, Division
<1>7. m = 2 * IntHalf
  OBVIOUS
<1> HIDE DEF u, ua, ub, m, i, j, l
<1>8. WrappingAdd(a, b) \in Int32
  BY <1>1, <1>2, <1>6, <1>7 DEF Int32
<1>9. a + b - u = m * (i + j + l)
  <2>1. m * (i + j + l) = (m * i) + (m * j) + (m * l)
    BY <1>1, <1>3, <1>4, <1>6, Z3
  <2> QED BY <2>1, <1>1, <1>3, <1>4, <1>6
<1>10. m * (i + j + l + 1) = (m * (i + j + l)) + m
  BY <1>1, <1>3, <1>4, <1>6, Z3
<1>11. i + j + l \in Int /\ i + j + l + 1 \in Int
  BY <1>3, <1>4, <1>6
<1>12. \E k \in Int : a + b - WrappingAdd(a, b) = m * k
  <2>1. CASE u < IntHalf
    BY <2>1, <1>2, <1>9, <1>11
  <2>2. CASE ~(u < IntHalf)
    <3>1. a + b - (u - m) = m * (i + j + l + 1)
      <4> DEFINE n == m * (i + j + l)
      <4>1. n \in Int
        BY <1>1, <1>11
      <4> HIDE DEF n
      <4> QED BY <4>1, <1>1, <1>6, <1>9, <1>10 DEF n
    <3> QED BY <3>1, <2>2, <1>2, <1>11
  <2> QED BY <2>1, <2>2
<1> QED BY <1>7, <1>8, <1>12

(* Two words that differ by a multiple of 2^32 are one.                      *)
LEMMA WordsApart ==
  ASSUME NEW a \in Int32, NEW b \in Int32,
         (a - b) % (2 * IntHalf) = 0
  PROVE  a = b
<1>1. /\ 2 * IntHalf \in Nat \ {0} /\ a \in Int /\ b \in Int
      /\ -(2 * IntHalf) < a - b /\ a - b < 2 * IntHalf
  BY ArithmeticAssumption DEF ArithmeticAssumption, Int32
<1>2. a - b = 0
  BY <1>1, SmallMultiple
<1> QED BY <1>1, <1>2

-----------------------------------------------------------------------------
(* Activating.                                                               *)

LEMMA Bytes8 ==
  /\ ByteHalf \in Nat \ {0} /\ IntHalf \in Nat \ {0}
  /\ 0 \in Int8 /\ Int8 \subseteq Int /\ 0 \in Int32 /\ Int32 \subseteq Int
BY ArithmeticAssumption DEF ArithmeticAssumption, Int8, Int32

(* Saturating keeps the sign and gives a byte.                               *)
LEMMA SaturateClamps ==
  ASSUME NEW x \in Int
  PROVE  /\ Saturate(x) \in Int8
         /\ Saturate(x) < 0 <=> x < 0
         /\ x \in Int8 => Saturate(x) = x
BY Bytes8 DEF Saturate, Int8

LEMMA ScaleHalves ==
  ASSUME NEW s \in Shifts
  PROVE  /\ Scale[s] \in Nat \ {0}
         /\ s = 0 => Scale[s] = 1
         /\ s # 0 => Scale[s - 1] = Scale[s] \div 2
<1>1. Scale[s] \in Nat \ {0} /\ (s = 0 => Scale[s] = 1)
  BY ArithmeticAssumption DEF ArithmeticAssumption
<1>2. ASSUME s # 0 PROVE Scale[s - 1] = Scale[s] \div 2
  <2>1. Scale[s - 1] \in Nat \ {0} /\ Scale[s] = 2 * Scale[s - 1]
    BY <1>2, ArithmeticAssumption DEF ArithmeticAssumption
  <2> DEFINE half == Scale[s - 1]
             whole == Scale[s]
  <2> HIDE DEF half, whole
  <2>2. half \in Nat \ {0} /\ whole = 2 * half
    BY <2>1 DEF half, whole
  <2>3. half = whole \div 2
    BY <2>2, Z3
  <2> QED BY <2>3 DEF half, whole
<1> QED BY <1>1, <1>2

(* What is rounded is nearest to the accumulator over 2^shift.               *)
LEMMA ShiftAndRoundIsNearest ==
  ASSUME NEW x \in Int32, NEW s \in Shifts
  PROVE  /\ ShiftAndRound(x, s) \in -IntHalf .. IntHalf
         /\ IsNearest(ShiftAndRound(x, s), x, Scale[s])
<1> DEFINE d == Scale[s]
           q == ShiftAndRound(x, s)
<1>1. /\ x \in Int /\ -IntHalf <= x /\ x < IntHalf
      /\ IntHalf \in Nat \ {0} /\ d \in Nat \ {0}
  BY Bytes8, ScaleHalves DEF Int32
<1>2. CASE s = 0
  <2>1. q = x /\ d = 1
    BY <1>2, ScaleHalves DEF ShiftAndRound
  <2>2. IsNearest(x, x, 1)
    BY <1>1 DEF IsNearest, Magnitude
  <2> HIDE DEF q, d
  <2>3. q \in -IntHalf .. IntHalf /\ IsNearest(q, x, d)
    BY <1>1, <2>1, <2>2
  <2> QED BY <2>3 DEF q, d
<1>3. CASE s # 0 /\ x >= 0
  <2>1. q = RoundHalfUp(x, d)
    BY <1>3, ScaleHalves DEF ShiftAndRound, RoundHalfUp
  <2> HIDE DEF q, d
  <2>2. q \in 0 .. x /\ IsNearest(q, x, d)
    BY <1>1, <1>3, <2>1, RoundHalfUpIsNearest
  <2>3. q \in -IntHalf .. IntHalf /\ IsNearest(q, x, d)
    BY <1>1, <2>2
  <2> QED BY <2>3 DEF q, d
<1>4. CASE s # 0 /\ x < 0
  <2>1. q = -RoundHalfUp(-x, d)
    BY <1>1, <1>4, ScaleHalves DEF ShiftAndRound, RoundHalfUp
  <2> HIDE DEF q, d
  <2>2. -x \in Nat /\ -(-x) = x
    BY <1>1, <1>4
  <2>3. RoundHalfUp(-x, d) \in 0 .. -x /\ IsNearest(q, x, d)
    BY <1>1, <2>1, <2>2, RoundHalfUpIsNearest
  <2>4. q \in -IntHalf .. IntHalf /\ IsNearest(q, x, d)
    BY <1>1, <2>1, <2>2, <2>3
  <2> QED BY <2>4 DEF q, d
<1> QED BY <1>1, <1>2, <1>3, <1>4

LEMMA ActivatedValueIsAByte ==
  ASSUME NEW x \in Int32, NEW s \in Shifts, NEW f
  PROVE  ActivatedValue(x, s, f) \in Int8
<1>1. ShiftAndRound(x, s) \in Int
  BY ShiftAndRoundIsNearest, Bytes8
<1> QED BY <1>1, SaturateClamps, Bytes8 DEF ActivatedValue

-----------------------------------------------------------------------------
(* Averaging.                                                                *)

(* The nearest quotient of a sum of d numbers lies between them.             *)
LEMMA NearestIsBetween ==
  ASSUME NEW q \in Int, NEW x \in Int, NEW d \in Nat \ {0},
         NEW lo \in Int, NEW hi \in Int,
         IsNearest(q, x, d), d * lo <= x, x <= d * hi
  PROVE  lo <= q /\ q <= hi
<1>1. q * d \in Int /\ d * lo \in Int /\ d * hi \in Int
  BY Z3
<1>2. 2 * (q * d - x) <= d /\ 2 * (x - q * d) <= d
  BY <1>1 DEF IsNearest, Magnitude
<1>3. q >= hi + 1 => q * d >= (d * hi) + d
  BY Z3
<1>4. q <= lo - 1 => q * d <= (d * lo) - d
  BY Z3
<1>5. q <= hi
  <2>1. SUFFICES ASSUME q >= hi + 1 PROVE FALSE
    OBVIOUS
  <2>2. q * d >= (d * hi) + d
    BY <2>1, <1>3
  <2> QED BY <2>2, <1>1, <1>2
<1>6. lo <= q
  <2>1. SUFFICES ASSUME q <= lo - 1 PROVE FALSE
    OBVIOUS
  <2>2. q * d <= (d * lo) - d
    BY <2>1, <1>4
  <2> QED BY <2>2, <1>1, <1>2
<1> QED BY <1>5, <1>6

(* The average of a window is nearest to its mean and between its values.    *)
LEMMA AverageIsBetween ==
  ASSUME NEW x \in Int, NEW d \in Nat \ {0},
         NEW lo \in Int8, NEW hi \in Int8, d * lo <= x, x <= d * hi
  PROVE  /\ IsNearest(Average(x, d), x, d)
         /\ lo <= Average(x, d) /\ Average(x, d) <= hi
         /\ Average(x, d) \in Int8
<1> DEFINE q == IF x >= 0 THEN RoundHalfUp(x, d) ELSE -RoundHalfUp(-x, d)
<1>1. Average(x, d) = Saturate(q)
  BY DEF Average, RoundHalfUp
<1>2. q \in Int /\ IsNearest(q, x, d)
  <2>1. CASE x >= 0
    BY <2>1, RoundHalfUpIsNearest
  <2>2. CASE x < 0
    <3>1. -x \in Nat /\ -(-x) = x
      BY <2>2
    <3>2. /\ RoundHalfUp(-x, d) \in 0 .. -x
          /\ IsNearest(-RoundHalfUp(-x, d), -(-x), d)
      BY <3>1, RoundHalfUpIsNearest
    <3> QED BY <2>2, <3>1, <3>2
  <2> QED BY <2>1, <2>2
<1> HIDE DEF q
<1>3. lo \in Int /\ hi \in Int
  BY Bytes8
<1>4. lo <= q /\ q <= hi
  BY <1>2, <1>3, NearestIsBetween
<1>5. q \in Int8
  BY <1>2, <1>4, Bytes8 DEF Int8
<1> QED BY <1>1, <1>2, <1>4, <1>5, SaturateClamps

-----------------------------------------------------------------------------
(* The invariant.                                                            *)

SumsInv == \E k \in Int : exact - cell = (2 * IntHalf) * k

(* A window that has values lies between the least and the largest of them,  *)
(* the line buffer has what the function makes of them, and a full one has   *)
(* gone out.                                                                 *)
WindowInv ==
  unit.pool # "None" /\ window.joined > 0 =>
    /\ window.least <= window.largest
    /\ window.joined * window.least <= window.total
    /\ window.total <= window.joined * window.largest
    /\ running = IF unit.pool = "Max" THEN window.largest ELSE window.total
    /\ window.joined = WindowCount =>
         out = IF unit.pool = "Max" THEN window.largest
                                    ELSE Average(window.total, WindowCount)

ColumnInv == ColumnTypeOK /\ SumsInv /\ WindowInv

LEMMA WindowCountIsPositive ==
  ASSUME unit \in Units
  PROVE  WindowCount \in Nat \ {0}
<1>1. unit.size \in Nat \ {0}
  BY ColumnAssumption DEF ColumnAssumption, Units
<1> DEFINE n == unit.size
<1>2. n \in Nat \ {0}
  BY <1>1
<1> HIDE DEF n
<1>3. n * n \in Nat \ {0}
  BY <1>2, Z3
<1> QED BY <1>3 DEF WindowCount, n

LEMMA InitColumnInv == Init => ColumnInv
<1> SUFFICES ASSUME Init PROVE ColumnInv
  OBVIOUS
<1>1. WindowCount \in Nat \ {0}
  BY WindowCountIsPositive DEF Init
<1>2. ColumnTypeOK
  BY <1>1, Bytes8, ColumnAssumption
  DEF Init, ColumnTypeOK, NoWindow, ColumnAssumption
<1>3. SumsInv
  <2>1. exact - cell = 0 /\ 0 = (2 * IntHalf) * 0
    BY Bytes8 DEF Init
  <2> QED BY <2>1 DEF SumsInv
<1>4. WindowInv
  BY DEF Init, WindowInv, NoWindow
<1> QED BY <1>2, <1>3, <1>4 DEF ColumnInv

(* A sum overwrites or adds.                                                 *)
LEMMA DrainKeepsInv == ColumnInv /\ (Overwrite \/ Accumulate) => ColumnInv'
<1> SUFFICES ASSUME ColumnInv, Overwrite \/ Accumulate PROVE ColumnInv'
  OBVIOUS
<1> USE DEF ColumnInv
<1>1. UNCHANGED <<unit, value, running, window, out>>
  BY DEF Overwrite, Accumulate
<1>2. WindowCount' = WindowCount
  BY <1>1 DEF WindowCount
<1>3. WindowInv'
  BY <1>1, <1>2 DEF WindowInv
<1>4. CASE Overwrite
  <2>1. PICK psum \in Psums : cell' = psum /\ exact' = psum
    BY <1>4 DEF Overwrite
  <2>2. psum \in Int32 /\ psum \in Int
    BY ColumnAssumption, Bytes8 DEF ColumnAssumption
  <2>3. ColumnTypeOK'
    BY <1>1, <1>2, <1>4, <2>1, <2>2, ColumnAssumption
    DEF ColumnTypeOK, Overwrite, ColumnAssumption
  <2>4. exact' - cell' = 0 /\ 0 = (2 * IntHalf) * 0
    BY <2>1, <2>2, Bytes8
  <2>5. SumsInv'
    BY <2>4 DEF SumsInv
  <2> QED BY <1>3, <2>3, <2>5
<1>5. CASE Accumulate
  <2>1. PICK psum \in Psums :
          cell' = WrappingAdd(cell, psum) /\ exact' = exact + psum
    BY <1>5 DEF Accumulate
  <2>2. psum \in Int32 /\ psum \in Int
    BY ColumnAssumption, Bytes8 DEF ColumnAssumption
  <2>3. cell \in Int32 /\ cell \in Int /\ exact \in Int /\ adds \in 0 .. MaxAdds
    BY Bytes8 DEF ColumnTypeOK
  <2>4. cell' \in Int32 /\ cell' \in Int
    BY <2>1, <2>2, <2>3, WrappingAddWraps, Bytes8
  <2>5. adds' \in 0 .. MaxAdds
    BY <1>5, <2>3, ColumnAssumption DEF Accumulate, ColumnAssumption
  <2>6. ColumnTypeOK'
    BY <1>1, <1>2, <2>1, <2>2, <2>3, <2>4, <2>5 DEF ColumnTypeOK
  <2>7. PICK k \in Int : exact - cell = (2 * IntHalf) * k
    BY DEF SumsInv
  <2>8. PICK l \in Int :
          cell + psum - WrappingAdd(cell, psum) = (2 * IntHalf) * l
    BY <2>2, <2>3, WrappingAddWraps
  <2> DEFINE m == 2 * IntHalf
  <2>9. m \in Int
    BY Bytes8
  <2> HIDE DEF m
  <2>10. m * (k + l) = (m * k) + (m * l) /\ (m * k) \in Int /\ (m * l) \in Int
    BY <2>9, Z3
  <2>11. exact - cell = m * k /\ cell + psum - cell' = m * l
    BY <2>1, <2>7, <2>8 DEF m
  <2>12. exact' - cell' = m * (k + l)
    BY <2>1, <2>2, <2>3, <2>4, <2>10, <2>11
  <2>13. SumsInv'
    BY <2>12 DEF SumsInv, m
  <2> QED BY <1>3, <2>6, <2>13
<1> QED BY <1>4, <1>5

(* The accumulator that follows.                                             *)
LEMMA NextCellKeepsSums == NextCell => SumsInv'
<1> SUFFICES ASSUME NextCell PROVE SumsInv'
  OBVIOUS
<1>1. exact' - cell' = 0 /\ 0 = (2 * IntHalf) * 0
  BY Bytes8 DEF NextCell
<1> QED BY <1>1 DEF SumsInv

LEMMA UnitActivates ==
  ASSUME ColumnTypeOK
  PROVE  ActivatedValue(cell, unit.shift, unit.function) \in Int8
<1>1. unit.shift \in Shifts /\ cell \in Int32
  BY DEF ColumnTypeOK, Units
<1> QED BY <1>1, ActivatedValueIsAByte

LEMMA PlainKeepsInv == ColumnInv /\ ActivatePlain => ColumnInv'
<1> SUFFICES ASSUME ColumnInv, ActivatePlain PROVE ColumnInv'
  OBVIOUS
<1> USE DEF ColumnInv
<1>1. WindowCount' = WindowCount
  BY DEF WindowCount, ActivatePlain
<1>2. ColumnTypeOK'
  BY <1>1, UnitActivates, Bytes8, ColumnAssumption
  DEF ActivatePlain, NextCell, ColumnTypeOK, ColumnAssumption
<1>3. WindowInv'
  BY DEF ActivatePlain, WindowInv
<1> QED BY <1>2, <1>3, NextCellKeepsSums DEF ActivatePlain

(* One more value in a window.                                               *)
LEMMA PooledKeepsInv == ColumnInv /\ ActivatePooled => ColumnInv'
<1> SUFFICES ASSUME ColumnInv, ActivatePooled PROVE ColumnInv'
  OBVIOUS
<1> USE DEF ColumnInv
<1>1. unit' = unit /\ unit.pool # "None" /\ unit \in Units
  BY DEF ActivatePooled, ColumnTypeOK
<1>2. WindowCount \in Nat \ {0} /\ WindowCount' = WindowCount
  BY <1>1, WindowCountIsPositive DEF WindowCount
<1> DEFINE v == value'
<1>3. v \in Int8 /\ v \in Int
  BY UnitActivates, Bytes8 DEF ActivatePooled
<1>4. /\ window.joined \in 0 .. WindowCount /\ window.total \in Int
      /\ window.least \in Int8 /\ window.largest \in Int8
      /\ window.least \in Int /\ window.largest \in Int
      /\ running \in Int
  BY Bytes8 DEF ColumnTypeOK
<1>5. window' = Join(v) /\ running' = RunWith(v)
  BY DEF ActivatePooled
<1>6. window' \in [joined : 1 .. WindowCount, total : Int,
                   least : Int8, largest : Int8]
  BY <1>2, <1>3, <1>4, <1>5 DEF Join, FirstInWindow
<1>7. window'.least <= window'.largest
  BY <1>3, <1>4, <1>5 DEF Join, FirstInWindow, WindowInv
<1>8. /\ window'.joined * window'.least <= window'.total
      /\ window'.total <= window'.joined * window'.largest
  <2>1. CASE FirstInWindow
    <3>1. window' = [joined |-> 1, total |-> v, least |-> v, largest |-> v]
      BY <2>1, <1>5 DEF Join
    <3>2. \A x \in Int : 1 * x = x /\ x <= x
      OBVIOUS
    <3>3. 1 * v = v /\ v <= v
      BY <3>2, <1>3
    <3> QED BY <3>1, <3>3
  <2>2. CASE ~FirstInWindow
    <3> DEFINE n == window.joined
               lo == window'.least
               hi == window'.largest
    <3>1. /\ n \in Nat \ {0} /\ window'.joined = n + 1
          /\ window'.total = window.total + v
      BY <2>2, <1>4, <1>5 DEF Join, FirstInWindow
    <3>2. /\ lo \in Int /\ lo <= v /\ lo <= window.least
          /\ hi \in Int /\ v <= hi /\ window.largest <= hi
      BY <2>2, <1>3, <1>4, <1>5 DEF Join
    <3>3. /\ n * window.least <= window.total
          /\ window.total <= n * window.largest
      BY <1>1, <3>1 DEF WindowInv
    <3> HIDE DEF n, lo, hi, v
    <3>4. n * lo <= n * window.least /\ n * window.largest <= n * hi
      BY <1>4, <3>1, <3>2, Z3
    <3>5. (n + 1) * lo = (n * lo) + lo /\ (n + 1) * hi = (n * hi) + hi
      BY <3>1, <3>2, Z3
    <3>6. (n * lo) \in Int /\ (n * hi) \in Int
          /\ (n * window.least) \in Int /\ (n * window.largest) \in Int
      BY <1>4, <3>1, <3>2, Z3
    <3>7. v \in Int
      BY <1>3 DEF v
    <3>8. /\ (n + 1) * lo <= window.total + v
          /\ window.total + v <= (n + 1) * hi
      BY <1>4, <3>2, <3>3, <3>4, <3>5, <3>6, <3>7
    <3> QED BY <3>1, <3>8 DEF n, lo, hi
  <2> QED BY <2>1, <2>2
<1>9. running' = IF unit.pool = "Max" THEN window'.largest ELSE window'.total
  <2>1. CASE FirstInWindow
    BY <2>1, <1>5 DEF Join, RunWith
  <2>2. CASE ~FirstInWindow
    <3>1. window.joined > 0
      BY <2>2, <1>4 DEF FirstInWindow
    <3>2. running = IF unit.pool = "Max" THEN window.largest ELSE window.total
      BY <1>1, <3>1 DEF WindowInv
    <3> QED BY <2>2, <1>5, <3>2 DEF Join, RunWith
  <2> QED BY <2>1, <2>2
<1>10. window'.joined = WindowCount =>
         out' = IF unit.pool = "Max" THEN window'.largest
                                     ELSE Average(window'.total, WindowCount)
  BY <1>9 DEF ActivatePooled
<1>11. WindowInv'
  BY <1>1, <1>2, <1>7, <1>8, <1>9, <1>10 DEF WindowInv
<1>12. out' \in Int8
  <2>1. CASE window'.joined # WindowCount
    BY <2>1 DEF ActivatePooled, ColumnTypeOK
  <2>2. CASE window'.joined = WindowCount /\ unit.pool = "Max"
    BY <2>2, <1>6, <1>10
  <2>3. CASE window'.joined = WindowCount /\ unit.pool # "Max"
    BY <2>3, <1>2, <1>6, <1>8, <1>10, AverageIsBetween
  <2> QED BY <2>1, <2>2, <2>3
<1>13. running' \in Int
  BY <1>6, <1>9, Bytes8
<1>14. cell' \in Int32 /\ exact' \in Int /\ adds' \in 0 .. MaxAdds
  BY Bytes8, ColumnAssumption
  DEF ActivatePooled, NextCell, ColumnAssumption
<1>15. ColumnTypeOK'
  BY <1>1, <1>2, <1>3, <1>6, <1>12, <1>13, <1>14 DEF ColumnTypeOK
<1> QED BY <1>11, <1>15, NextCellKeepsSums DEF ActivatePooled

LEMMA InvIsInductive == ColumnInv /\ [Next]_vars => ColumnInv'
<1>1. ColumnInv /\ UNCHANGED vars => ColumnInv'
  BY DEF vars, ColumnInv, ColumnTypeOK, SumsInv, WindowInv, WindowCount
<1> QED BY <1>1, DrainKeepsInv, PlainKeepsInv, PooledKeepsInv DEF Next

LEMMA ColumnInvHolds == Spec => []ColumnInv
BY InitColumnInv, InvIsInductive, PTL DEF Spec

-----------------------------------------------------------------------------
(* The theorems.                                                             *)

(* Words and bytes stay in their ranges, whatever is added and averaged.     *)
THEOREM TypeCorrect == Spec => []ColumnTypeOK
<1>1. ColumnInv => ColumnTypeOK
  BY DEF ColumnInv
<1> QED BY <1>1, ColumnInvHolds, PTL

(* An accumulator whose sum fits into 32 bits holds it, however often the    *)
(* adds on the way wrapped (systolic_array.cpp:166-173).                     *)
THEOREM SumsStayExact == Spec => []SumsAreExact
<1>1. ColumnInv => SumsAreExact
  <2> SUFFICES ASSUME ColumnInv PROVE SumsAreExact
    OBVIOUS
  <2>1. PICK k \in Int : exact - cell = (2 * IntHalf) * k
    BY DEF ColumnInv, SumsInv
  <2>2. (exact - cell) % (2 * IntHalf) = 0
    BY <2>1, Bytes8, MultipleLeavesNothing
  <2>3. exact \in Int32 => cell = exact
    BY <2>2, WordsApart DEF ColumnInv, ColumnTypeOK
  <2> QED BY <2>2, <2>3 DEF SumsAreExact
<1> QED BY <1>1, ColumnInvHolds, PTL

(* The activation unit rounds, clamps and rectifies as the reference does    *)
(* (activation.cpp:13-37, 77-88).                                            *)
THEOREM ActivationsRound == Spec => ValuesAreTheReference
<1>1. ColumnInv /\ [Next]_vars =>
        [ActivatePlain \/ ActivatePooled => ValueIsTheReference]_vars
  <2> SUFFICES ASSUME ColumnInv, ActivatePlain \/ ActivatePooled
               PROVE  ValueIsTheReference
    OBVIOUS
  <2> DEFINE q == ShiftAndRound(cell, unit.shift)
  <2>1. value' = ActivatedValue(cell, unit.shift, unit.function)
    BY DEF ActivatePlain, ActivatePooled
  <2>2. unit.shift \in Shifts /\ cell \in Int32
    BY DEF ColumnInv, ColumnTypeOK, Units
  <2>3. q \in -IntHalf .. IntHalf /\ IsNearest(q, cell, Scale[unit.shift])
    BY <2>2, ShiftAndRoundIsNearest
  <2>4. q \in Int
    BY <2>3, Bytes8
  <2>5. value' = IF unit.function = "relu" /\ q < 0 THEN 0 ELSE Saturate(q)
    BY <2>1, <2>4, SaturateClamps DEF ActivatedValue
  <2> QED BY <2>3, <2>5 DEF ValueIsTheReference
<1> QED BY <1>1, ColumnInvHolds, PTL DEF Spec, ValuesAreTheReference

(* A pooled byte is the largest value of its window or nearest to the mean   *)
(* of it (activation.cpp:102-109, 192-222).                                  *)
THEOREM WindowsRound == Spec => []WindowsAreTheReference
<1>1. ColumnInv => WindowsAreTheReference
  <2> SUFFICES ASSUME ColumnInv, unit.pool # "None",
                      window.joined = WindowCount
               PROVE  /\ unit.pool = "Max" => out = window.largest
                      /\ unit.pool = "Average" =>
                           IsNearest(out, window.total, WindowCount)
                      /\ window.least <= out /\ out <= window.largest
    BY DEF WindowsAreTheReference
  <2> USE DEF ColumnInv
  <2>1. /\ WindowCount \in Nat \ {0}
        /\ window.total \in Int
        /\ window.least \in Int8 /\ window.largest \in Int8
        /\ window.least \in Int /\ window.largest \in Int
    BY WindowCountIsPositive, Bytes8 DEF ColumnTypeOK
  <2>2. /\ window.least <= window.largest
        /\ WindowCount * window.least <= window.total
        /\ window.total <= WindowCount * window.largest
        /\ out = IF unit.pool = "Max" THEN window.largest
                                      ELSE Average(window.total, WindowCount)
    BY <2>1 DEF WindowInv
  <2>3. CASE unit.pool = "Max"
    BY <2>1, <2>2, <2>3
  <2>4. CASE unit.pool # "Max"
    BY <2>1, <2>2, <2>4, AverageIsBetween
  <2> QED BY <2>3, <2>4
<1> QED BY <1>1, ColumnInvHolds, PTL

(* Digits: a number below d^4 is its four digits to base d.                  *)
LEMMA FourDigits ==
  ASSUME NEW d \in Nat \ {0}, NEW u \in Nat, u < d * d * d * d
  PROVE  u = (u % d) + d * (((u \div d) % d)
                 + d * (((u \div (d * d)) % d)
                 + d * ((u \div (d * d * d)) % d)))
<1> DEFINE q1 == u \div d
           q2 == q1 \div d
           q3 == q2 \div d
           r0 == u % d
           r1 == q1 % d
           r2 == q2 % d
<1>1. q1 \in Int /\ r0 \in 0 .. d - 1 /\ u = (d * q1) + r0
  BY Division
<1>2. q2 \in Int /\ r1 \in 0 .. d - 1 /\ q1 = (d * q2) + r1
  BY <1>1, Division
<1>3. q3 \in Int /\ r2 \in 0 .. d - 1 /\ q2 = (d * q3) + r2
  BY <1>2, Division
<1> HIDE DEF q1, q2, q3, r0, r1, r2
<1>4. ASSUME NEW x \in Int, NEW e \in Nat \ {0}, NEW y \in Int,
             NEW r \in 0 .. d - 1, NEW z \in 0 .. e - 1, x = (e * y) + z,
             NEW w \in Int, y = (d * w) + r
      PROVE  /\ e * d \in Nat \ {0}
             /\ (e * r) + z \in 0 .. (e * d) - 1
             /\ x = ((e * d) * w) + ((e * r) + z)
             /\ x \div (e * d) = w
  <2>1. e * d \in Nat \ {0} /\ (e * r) \in Nat /\ e * r <= (e * d) - e
    BY <1>4, Z3
  <2>2. x = ((e * d) * w) + ((e * r) + z)
    BY <1>4, Z3
  <2>3. (e * r) + z \in 0 .. (e * d) - 1
    BY <2>1
  <2> DEFINE f == e * d
             s == (e * r) + z
  <2>4. f \in Nat \ {0} /\ s \in 0 .. f - 1 /\ x = (f * w) + s
    BY <2>1, <2>2, <2>3
  <2> HIDE DEF f, s
  <2>5. x \div f = w
    BY <2>4, Z3
  <2> QED BY <2>1, <2>2, <2>3, <2>5 DEF f
<1>5. /\ u \div (d * d) = q2 /\ d * d \in Nat \ {0}
      /\ (d * r1) + r0 \in 0 .. (d * d) - 1
      /\ u = ((d * d) * q2) + ((d * r1) + r0)
  BY <1>1, <1>2, <1>4
<1>6. u \div ((d * d) * d) = q3
  <2> DEFINE e == d * d
             z == (d * r1) + r0
  <2>1. e \in Nat \ {0} /\ z \in 0 .. e - 1 /\ u = (e * q2) + z
    BY <1>5
  <2> HIDE DEF e, z
  <2>2. u \div (e * d) = q3
    BY <1>2, <1>3, <1>4, <2>1
  <2> QED BY <2>2 DEF e
<1>7. u = r0 + d * (r1 + d * (r2 + d * q3))
  BY <1>1, <1>2, <1>3
<1>8. q3 % d = q3
  <2>1. q1 < d * d * d /\ q1 >= 0
    BY <1>1, Z3
  <2>2. q2 < d * d /\ q2 >= 0
    BY <1>2, <2>1, Z3
  <2>3. q3 < d /\ q3 >= 0
    BY <1>3, <2>2, Z3
  <2> QED BY <1>3, <2>3, Z3
<1> QED BY <1>5, <1>6, <1>7, <1>8 DEF q1, r0, r1, r2

(* The page reads back the accumulator it was sent (state.cpp:11-17).        *)
THEOREM CellsAreReadBack == Spec => []CellsReadBack
<1>1. ColumnInv => CellsReadBack
  <2> SUFFICES ASSUME ColumnInv PROVE CellsReadBack
    OBVIOUS
  <2> DEFINE u == AsUnsigned(cell)
  <2>1. /\ Byte \in Nat \ {0} /\ 2 * IntHalf = Byte * Byte * Byte * Byte
        /\ IntHalf \in Nat \ {0} /\ cell \in Int32 /\ cell \in Int
    BY Bytes8, ArithmeticAssumption
    DEF ArithmeticAssumption, Byte, ColumnInv, ColumnTypeOK
  <2>2. u = cell % (2 * IntHalf)
    BY DEF AsUnsigned
  <2>3. /\ u \in 0 .. (2 * IntHalf) - 1
        /\ u = IF cell >= 0 THEN cell ELSE cell + 2 * IntHalf
    <3> DEFINE m == 2 * IntHalf
    <3>1. m \in Nat \ {0} /\ cell \in Int /\ -m <= cell /\ cell < m
      BY <2>1 DEF Int32
    <3> HIDE DEF m
    <3>2. /\ cell % m \in 0 .. m - 1
          /\ cell % m = IF cell >= 0 THEN cell ELSE cell + m
      BY <3>1, Z3
    <3> QED BY <2>2, <3>2 DEF m
  <2>4. AsSigned(u) = cell
    BY <2>1, <2>3 DEF AsSigned, Int32
  <2> HIDE DEF u
  <2>5. u \in Nat /\ u < Byte * Byte * Byte * Byte
    BY <2>1, <2>3
  <2>6. AppendI32(cell) =
          <<u % Byte, (u \div Byte) % Byte, (u \div (Byte * Byte)) % Byte,
            (u \div (Byte * Byte * Byte)) % Byte>>
    BY DEF AppendI32, u
  <2>7. GetInt32(AppendI32(cell)) = AsSigned(u)
    <3>1. u = (u % Byte) + Byte * (((u \div Byte) % Byte)
                + Byte * (((u \div (Byte * Byte)) % Byte)
                + Byte * ((u \div (Byte * Byte * Byte)) % Byte)))
      BY <2>1, <2>5, FourDigits
    <3> DEFINE b == AppendI32(cell)
    <3>2. /\ b[1] = u % Byte /\ b[2] = (u \div Byte) % Byte
          /\ b[3] = (u \div (Byte * Byte)) % Byte
          /\ b[4] = (u \div (Byte * Byte * Byte)) % Byte
      BY <2>6
    <3>3. b[1] + Byte * (b[2] + Byte * (b[3] + Byte * b[4])) = u
      <4> HIDE DEF b
      <4> QED BY <3>1, <3>2, Zenon
    <3> QED BY <3>3 DEF GetInt32
  <2> QED BY <2>4, <2>7 DEF CellsReadBack
<1> QED BY <1>1, ColumnInvHolds, PTL
=============================================================================
