--------------------------- MODULE AssemblerProofs ---------------------------
(* Every instruction that encode accepts decodes to itself; a program is the *)
(* words and the bytes its lines ask for; and its text is read back to it.   *)
EXTENDS Assembler, NaturalLemmas, SequenceTheorems, FiniteSetTheorems, TLAPS

(* The operands of each instruction (isa.h:68-83); the others are zero, and  *)
(* the two enumerations hold one of their values.                            *)
OperandsOf(op) ==
  {f.key : f \in Written(op)} \cup
    CASE op = "MatrixMultiply" -> {"accumulate", "new_weights"}
      [] op = "Activate" -> {"function", "pool", "size"}
      [] OTHER -> {}

WellFormed(in) ==
  /\ in \in Instr
  /\ \A key \in Keys \ OperandsOf(in.op) : in.arg[key] = Zero
  /\ UpTo(in.arg["function"], 3)
  /\ UpTo(in.arg["pool"], 2)

Covers(f, i) == i \in f.first .. f.first + f.count - 1
-----------------------------------------------------------------------------
LEMMA FieldsType ==
  ASSUME NEW op \in DOMAIN Opcode
  PROVE  \A f \in Written(op) :
           /\ f \in [key : Keys, first : 3 .. 11, count : 1 .. 4]
           /\ f.first + f.count <= 12
BY DEF Written, At, Keys, Opcode

(* No two fields of an instruction share a byte.                             *)
LEMMA FieldsApart ==
  ASSUME NEW op \in DOMAIN Opcode, NEW f \in Written(op), NEW g \in Written(op),
         NEW i \in 0 .. 11, Covers(f, i), Covers(g, i)
  PROVE  f = g
<1>1. CASE op \in {"ReadHostMemory", "WriteHostMemory"}
  BY <1>1 DEF Written, At, Covers
<1>2. CASE op = "ReadWeights"
  BY <1>2 DEF Written, At, Covers
<1>3. CASE op = "MatrixMultiply"
  BY <1>3 DEF Written, At, Covers
<1>4. CASE op = "Activate"
  BY <1>4 DEF Written, At, Covers
<1>5. CASE op \in {"Nop", "Halt", "Sync"}
  BY <1>5 DEF Written
<1>6. QED
  BY <1>1, <1>2, <1>3, <1>4, <1>5 DEF Opcode

(* encode puts byte j of an operand at byte j of its field.                  *)
LEMMA EncodedField ==
  ASSUME NEW in \in Instr, NEW f \in Written(in.op), NEW i \in 0 .. 11,
         Covers(f, i)
  PROVE  Encode(in)[i] = in.arg[f.key][i - f.first + 1]
<1> DEFINE over == {g \in Written(in.op) : Covers(g, i)}
<1>1. in.op \in DOMAIN Opcode
  BY DEF Instr
<1>2. f.first \in 3 .. 11 /\ f.count \in 1 .. 4
  BY <1>1, FieldsType
<1>3. i # 0 /\ i # 1
  BY <1>2 DEF Covers
<1>4. over = {f}
  BY <1>1, FieldsApart
<1>5. (CHOOSE g \in over : TRUE) = f
  BY <1>4
<1>6. Encode(in)[i] = in.arg[(CHOOSE g \in over : TRUE).key]
                        [i - (CHOOSE g \in over : TRUE).first + 1]
  BY <1>3, <1>4 DEF Encode, Covers
<1>7. QED
  BY <1>5, <1>6

(* What encode accepts fits its fields.                                      *)
LEMMA FieldFits ==
  ASSUME NEW in \in Instr, Encodes(in), NEW key, NEW first, NEW count,
         At(key, first, count) \in Written(in.op)
  PROVE  FitsIn(in.arg[key], count)
<1> DEFINE f == At(key, first, count)
<1>1. FitsIn(in.arg[f.key], f.count)
  BY DEF Encodes
<1>2. f.key = key /\ f.count = count
  BY DEF At
<1>3. QED
  BY <1>1, <1>2

(* read_bytes gives back what write_bytes put into a field that holds it.    *)
LEMMA ReadsBack ==
  ASSUME NEW in \in Instr, Encodes(in), NEW key \in Keys,
         NEW first \in 3 .. 11, NEW count \in 1 .. 4, first + count <= 12,
         At(key, first, count) \in Written(in.op)
  PROVE  ReadBytes(Encode(in), first, count) = in.arg[key]
<1> DEFINE f == At(key, first, count)
<1>1. in.arg[key] \in [1 .. 4 -> Byte]
  BY DEF Instr, U32
<1>2. f.key = key /\ f.first = first /\ f.count = count
  BY DEF At
<1>3. ASSUME NEW i \in 1 .. 4, i <= count
      PROVE  Encode(in)[first + i - 1] = in.arg[key][i]
  <2>1. first + i - 1 \in 0 .. 11 /\ (first + i - 1) - first + 1 = i
    BY <1>3
  <2>2. Covers(f, first + i - 1)
    BY <1>2, <1>3 DEF Covers
  <2>3. QED
    BY <1>2, <2>1, <2>2, EncodedField
<1>4. ASSUME NEW i \in 1 .. 4, ~(i <= count)
      PROVE  in.arg[key][i] = 0
  BY <1>4, FieldFits DEF FitsIn
<1>5. \A i \in 1 .. 4 :
        ReadBytes(Encode(in), first, count)[i] = in.arg[key][i]
  BY <1>3, <1>4 DEF ReadBytes
<1>6. QED
  BY <1>1, <1>5 DEF ReadBytes

(* A number of one byte is that byte.                                        *)
LEMMA OneByte ==
  ASSUME NEW value \in U32, FitsIn(value, 1)
  PROVE  value[1] \in Byte /\ Small(value[1]) = value
<1>1. value[1] \in Byte
  BY DEF U32
<1>2. value[2] = 0 /\ value[3] = 0 /\ value[4] = 0
  BY DEF FitsIn
<1>3. \A i \in 1 .. 4 : Small(value[1])[i] = value[i]
  BY <1>2 DEF Small
<1>4. Small(value[1]) \in [1 .. 4 -> Byte]
  BY <1>1 DEF Small, Byte
<1>5. QED
  BY <1>1, <1>3, <1>4 DEF U32

(* A number that is at most `most` is that number in its first byte.         *)
LEMMA AtMost ==
  ASSUME NEW value \in U32, NEW most \in Byte, UpTo(value, most)
  PROVE  value[1] \in 0 .. most /\ Small(value[1]) = value
<1>1. FitsIn(value, 1) /\ value[1] <= most
  BY DEF UpTo
<1>2. value[1] \in 0 .. most
  BY <1>1 DEF U32, Byte
<1>3. Small(value[1]) = value
  BY <1>1, OneByte
<1>4. QED
  BY <1>2, <1>3

(* decode takes the word for the instruction it was.                         *)
LEMMA SameOp ==
  ASSUME NEW in \in Instr
  PROVE  /\ \E op \in DOMAIN Opcode : Opcode[op] = Encode(in)[0]
         /\ OpOf(Encode(in)) = in.op
<1>1. in.op \in DOMAIN Opcode /\ Encode(in)[0] = Opcode[in.op]
  BY DEF Instr, Encode
<1>2. \A op \in DOMAIN Opcode : Opcode[op] = Opcode[in.op] => op = in.op
  BY <1>1 DEF Opcode
<1>3. QED
  BY <1>1, <1>2 DEF OpOf

LEMMA MultiplyFlags ==
  ASSUME NEW in \in Instr, in.op = "MatrixMultiply", Encodes(in)
  PROVE  /\ Small(Bits(Encode(in)[1], 1, 2)) = in.arg["accumulate"]
         /\ Small(Bits(Encode(in)[1], 2, 2)) = in.arg["new_weights"]
<1> DEFINE a == in.arg["accumulate"]
           n == in.arg["new_weights"]
<1>1. a \in U32 /\ n \in U32
  BY DEF Instr, Keys
<1>2. UpTo(a, 1) /\ UpTo(n, 1)
  BY DEF Encodes
<1>3. /\ a[1] \in 0 .. 1 /\ Small(a[1]) = a
      /\ n[1] \in 0 .. 1 /\ Small(n[1]) = n
  <2>1. 1 \in Byte
    BY DEF Byte
  <2>2. QED
    BY <1>1, <1>2, <2>1, AtMost, Zenon
<1>4. Encode(in)[1] = a[1] + 2 * n[1]
  BY DEF Encode, FlagByte
<1>5. Bits(Encode(in)[1], 1, 2) = a[1] /\ Bits(Encode(in)[1], 2, 2) = n[1]
  BY <1>3, <1>4 DEF Bits
<1>6. QED
  BY <1>3, <1>5

LEMMA ActivateFlags ==
  ASSUME NEW in \in Instr, in.op = "Activate", Encodes(in), WellFormed(in)
  PROVE  /\ Small(Bits(Encode(in)[1], 1, 4)) = in.arg["function"]
         /\ Small(Bits(Encode(in)[1], 4, 4)) = in.arg["pool"]
         /\ Small(Bits(Encode(in)[1], 16, 8)) = in.arg["size"]
         /\ Bits(Encode(in)[1], 4, 4) <= 2
<1> DEFINE f == in.arg["function"]
           p == in.arg["pool"]
           s == in.arg["size"]
<1>1. f \in U32 /\ p \in U32 /\ s \in U32
  BY DEF Instr, Keys
<1>2. UpTo(s, 7)
  BY DEF Encodes, PoolingOK, UpTo, FitsIn, Zero, Small
<1>3. UpTo(f, 3) /\ UpTo(p, 2)
  BY DEF WellFormed
<1>4. /\ f[1] \in 0 .. 3 /\ Small(f[1]) = f
      /\ p[1] \in 0 .. 2 /\ Small(p[1]) = p
      /\ s[1] \in 0 .. 7 /\ Small(s[1]) = s
  <2>1. 3 \in Byte /\ 2 \in Byte /\ 7 \in Byte
    BY DEF Byte
  <2>2. QED
    BY <1>1, <1>2, <1>3, <2>1, AtMost, Zenon
<1>5. PICK a \in 0 .. 3, b \in 0 .. 2, c \in 0 .. 7 :
        a = f[1] /\ b = p[1] /\ c = s[1]
  BY <1>4
<1> DEFINE byte == a + 4 * b + 16 * c
<1>6. Encode(in)[1] = byte
  <2>1. Encode(in)[1] = f[1] + 4 * p[1] + 16 * s[1]
    BY DEF Encode, FlagByte
  <2>2. QED
    BY <1>5, <2>1
<1>7. Bits(byte, 1, 4) = a
  <2>1. byte \div 1 = byte
    OBVIOUS
  <2>2. byte % 4 = a
    OBVIOUS
  <2>3. QED
    BY <2>1, <2>2 DEF Bits
<1>8. Bits(byte, 4, 4) = b
  <2>1. byte \div 4 = b + 4 * c
    OBVIOUS
  <2>2. (b + 4 * c) % 4 = b
    OBVIOUS
  <2>3. QED
    BY <2>1, <2>2 DEF Bits
<1>9. Bits(byte, 16, 8) = c
  <2>1. byte \div 16 = c
    OBVIOUS
  <2>2. c % 8 = c
    OBVIOUS
  <2>3. QED
    BY <2>1, <2>2 DEF Bits
<1> HIDE DEF byte
<1>10. QED
  BY <1>4, <1>5, <1>6, <1>7, <1>8, <1>9
-----------------------------------------------------------------------------
LEMMA HostReadsBack ==
  ASSUME NEW in \in Instr, in.op \in {"ReadHostMemory", "WriteHostMemory"},
         Encodes(in), NEW key \in {"ub", "host", "rows"}
  PROVE  HostArg(Encode(in))[key] = in.arg[key]
<1>1. Written(in.op) = {At("ub", 3, 3), At("host", 6, 4), At("rows", 10, 2)}
  BY DEF Written
<1>2. /\ ReadBytes(Encode(in), 3, 3) = in.arg["ub"]
      /\ ReadBytes(Encode(in), 6, 4) = in.arg["host"]
      /\ ReadBytes(Encode(in), 10, 2) = in.arg["rows"]
  BY <1>1, ReadsBack DEF Keys
<1>3. QED
  BY <1>2 DEF HostArg

LEMMA WeightsReadBack ==
  ASSUME NEW in \in Instr, in.op = "ReadWeights", Encodes(in)
  PROVE  ReadBytes(Encode(in), 3, 4) = in.arg["tile"]
<1>1. Written(in.op) = {At("tile", 3, 4)}
  BY DEF Written
<1>2. QED
  BY <1>1, ReadsBack DEF Keys

LEMMA MultiplyReadsBack ==
  ASSUME NEW in \in Instr, in.op = "MatrixMultiply", Encodes(in),
         NEW key \in {"ub", "acc", "rows", "accumulate", "new_weights"}
  PROVE  MultiplyArg(Encode(in))[key] = in.arg[key]
<1>1. Written(in.op) = {At("ub", 3, 3), At("acc", 6, 2), At("rows", 8, 4)}
  BY DEF Written
<1>2. /\ ReadBytes(Encode(in), 3, 3) = in.arg["ub"]
      /\ ReadBytes(Encode(in), 6, 2) = in.arg["acc"]
      /\ ReadBytes(Encode(in), 8, 4) = in.arg["rows"]
  BY <1>1, ReadsBack DEF Keys
<1>3. QED
  BY <1>2, MultiplyFlags DEF MultiplyArg

LEMMA ActivateReadsBack ==
  ASSUME NEW in \in Instr, in.op = "Activate", Encodes(in), WellFormed(in),
         NEW key \in {"ub", "acc", "rows", "shift", "function", "pool",
                      "size", "width"}
  PROVE  ActivateArg(Encode(in))[key] = in.arg[key]
<1>1. Written(in.op) =
        {At("ub", 3, 3), At("acc", 6, 2), At("rows", 8, 2),
         At("shift", 10, 1), At("width", 11, 1)}
  BY DEF Written
<1>2. FitsIn(in.arg["width"], 1)
  BY <1>1, FieldFits
<1>3. /\ ReadBytes(Encode(in), 3, 3) = in.arg["ub"]
      /\ ReadBytes(Encode(in), 6, 2) = in.arg["acc"]
      /\ ReadBytes(Encode(in), 8, 2) = in.arg["rows"]
  BY <1>1, ReadsBack DEF Keys
<1>4. /\ Encode(in)[10] = in.arg["shift"][1]
      /\ Encode(in)[11] = in.arg["width"][1]
  <2>1. Covers(At("shift", 10, 1), 10) /\ Covers(At("width", 11, 1), 11)
    BY DEF Covers, At
  <2>2. /\ Encode(in)[10] = in.arg["shift"][10 - 10 + 1]
        /\ Encode(in)[11] = in.arg["width"][11 - 11 + 1]
    BY <1>1, <2>1, EncodedField DEF At
  <2>3. QED
    BY <2>2
<1>5. in.arg["shift"] \in U32 /\ in.arg["width"] \in U32
  BY DEF Instr, Keys
<1>6. /\ Small(in.arg["shift"][1]) = in.arg["shift"]
      /\ in.arg["shift"][1] \in 0 .. 31
  <2>1. UpTo(in.arg["shift"], 31)
    BY DEF Encodes
  <2>2. 31 \in Byte
    BY DEF Byte
  <2>3. QED
    BY <1>5, <2>1, <2>2, AtMost, Zenon
<1>7. /\ Small(Bits(Encode(in)[10], 1, 32)) = in.arg["shift"]
      /\ Small(Encode(in)[11]) = in.arg["width"]
  <2>1. Bits(Encode(in)[10], 1, 32) = in.arg["shift"][1]
    BY <1>4, <1>6 DEF Bits
  <2>2. Small(in.arg["width"][1]) = in.arg["width"]
    BY <1>2, <1>5, OneByte
  <2>3. QED
    BY <1>4, <1>6, <2>1, <2>2
<1>8. QED
  BY <1>3, <1>7, ActivateFlags DEF ActivateArg

(* decode after encode is the identity on the instructions encode accepts,   *)
(* every field at every value: nothing is cut, moved or mixed up, and decode *)
(* never throws on a word of encode's (isa.cpp:118-218).                     *)
THEOREM EncodeIsDecoded ==
  ASSUME NEW in, WellFormed(in), Encodes(in)
  PROVE  Decodes(Encode(in)) /\ Decode(Encode(in)) = in
<1> DEFINE word == Encode(in)
<1>1. in \in Instr /\ in.op \in DOMAIN Opcode
  BY DEF WellFormed, Instr
<1>2. (\E op \in DOMAIN Opcode : Opcode[op] = word[0]) /\ OpOf(word) = in.op
  BY <1>1, SameOp
<1>3. Decodes(word)
  BY <1>1, <1>2, ActivateFlags DEF Decodes
<1>4. ASSUME NEW key \in Keys
      PROVE  Decode(word).arg[key] = in.arg[key]
  <2>1. Decode(word).arg[key] =
          IF key \in DOMAIN Given(word) THEN Given(word)[key] ELSE Zero
    BY DEF Decode
  <2>2. key \notin OperandsOf(in.op) => in.arg[key] = Zero
    BY DEF WellFormed
  <2>3. CASE in.op \in {"ReadHostMemory", "WriteHostMemory"}
    <3>1. Given(word) = HostArg(word)
      BY <1>2, <2>3 DEF Given
    <3>2. DOMAIN HostArg(word) = {"ub", "host", "rows"}
      BY DEF HostArg
    <3>3. OperandsOf(in.op) = {"ub", "host", "rows"}
      <4>1. Written(in.op) =
              {At("ub", 3, 3), At("host", 6, 4), At("rows", 10, 2)}
        BY <2>3 DEF Written
      <4>2. {f.key : f \in Written(in.op)} = {"ub", "host", "rows"}
        BY <4>1 DEF At
      <4>3. QED
        BY <2>3, <4>2 DEF OperandsOf
    <3>4. QED
      BY <1>1, <2>1, <2>2, <2>3, <3>1, <3>2, <3>3, HostReadsBack
  <2>4. CASE in.op = "ReadWeights"
    <3>1. Given(word) = [tile |-> ReadBytes(word, 3, 4)]
      BY <1>2, <2>4 DEF Given
    <3>2. OperandsOf(in.op) = {"tile"}
      BY <2>4 DEF OperandsOf, Written, At
    <3>3. QED
      BY <1>1, <2>1, <2>2, <2>4, <3>1, <3>2, WeightsReadBack
  <2>5. CASE in.op = "MatrixMultiply"
    <3>1. Given(word) = MultiplyArg(word)
      BY <1>2, <2>5 DEF Given
    <3>2. DOMAIN MultiplyArg(word) =
            {"ub", "acc", "rows", "accumulate", "new_weights"}
      BY DEF MultiplyArg
    <3>3. OperandsOf(in.op) =
            {"ub", "acc", "rows", "accumulate", "new_weights"}
      BY <2>5 DEF OperandsOf, Written, At
    <3>4. QED
      BY <1>1, <2>1, <2>2, <2>5, <3>1, <3>2, <3>3, MultiplyReadsBack
  <2>6. CASE in.op = "Activate"
    <3> DEFINE keys == {"ub", "acc", "rows", "shift", "function", "pool",
                        "size", "width"}
    <3>1. Given(word) = ActivateArg(word)
      BY <1>2, <2>6 DEF Given
    <3>2. DOMAIN ActivateArg(word) = keys
      BY DEF ActivateArg
    <3>3. OperandsOf(in.op) = keys
      BY <2>6 DEF OperandsOf, Written, At
    <3>4. QED
      BY <1>1, <2>1, <2>2, <2>6, <3>1, <3>2, <3>3, ActivateReadsBack
  <2>7. CASE in.op \in {"Nop", "Halt", "Sync"}
    <3>1. Given(word) = [k \in {} |-> Zero]
      BY <1>2, <2>7 DEF Given
    <3>2. OperandsOf(in.op) = {}
      BY <2>7 DEF OperandsOf, Written
    <3>3. QED
      BY <2>1, <2>2, <3>1, <3>2
  <2>8. QED
    BY <1>1, <2>3, <2>4, <2>5, <2>6, <2>7 DEF Opcode
<1>5. Decode(word).arg = in.arg
  BY <1>1, <1>4 DEF Decode, Instr
<1>6. Decode(word).op = in.op
  BY <1>2 DEF Decode
<1>7. QED
  BY <1>1, <1>3, <1>5, <1>6 DEF Decode, Instr

-----------------------------------------------------------------------------
(* A program assembled from its lines                                        *)

(* Sequences laid end to end, one after the other.                           *)
LEMMA FlattenSteps ==
  ASSUME NEW T, NEW seqs \in Seq(Seq(T))
  PROVE  \E g : /\ g[0] = << >> /\ g[Len(seqs)] = FlattenSeq(seqs)
                /\ \A n \in 0 .. Len(seqs) - 1 : g[n + 1] = g[n] \o seqs[n + 1]
<1> DEFINE N == Len(seqs)
           Step(g, i) == IF i = 1 THEN seqs[i] ELSE g[i - 1] \o seqs[i]
           S == {n \in Nat : \E g : g = [i \in 1 .. n |-> Step(g, i)]}
<1>1. 0 \in S
  <2>1. [i \in {} |-> 0] = [i \in 1 .. 0 |-> Step([j \in {} |-> 0], i)]
    OBVIOUS
  <2> QED BY <2>1
<1>2. ASSUME NEW n \in Nat, n \in S PROVE n + 1 \in S
  <2>1. PICK g : g = [i \in 1 .. n |-> Step(g, i)]
    BY <1>2
  <2> DEFINE h == [i \in 1 .. n + 1 |-> IF i = n + 1 THEN Step(g, i) ELSE g[i]]
  <2>2. ASSUME NEW i \in 1 .. n + 1 PROVE h[i] = Step(h, i)
    <3>1. h[i] = Step(g, i)
      <4>1. \A j \in 1 .. n : g[j] = Step(g, j)
        <5> HIDE DEF Step
        <5> QED BY <2>1
      <4>2. i # n + 1 => i \in 1 .. n
        OBVIOUS
      <4> HIDE DEF Step
      <4> QED BY <4>1, <4>2
    <3>2. i # 1 => i - 1 \in 1 .. n /\ i - 1 # n + 1
      OBVIOUS
    <3>3. i # 1 => h[i - 1] = g[i - 1]
      BY <3>2
    <3> HIDE DEF h
    <3> QED BY <3>1, <3>3
  <2>4. h = [i \in 1 .. n + 1 |-> Step(h, i)]
    <3>1. h = [i \in 1 .. n + 1 |-> h[i]]
      OBVIOUS
    <3> HIDE DEF h, Step
    <3> QED BY <2>2, <3>1
  <2> HIDE DEF h, Step
  <2> QED BY <2>4
<1> HIDE DEF S
<1>3. N \in Nat /\ N \in S
  BY <1>1, <1>2, Induction, LenProperties
<1>4. CASE N = 0
  <2>1. FlattenSeq(seqs) = << >>
    BY <1>4, EmptySeq DEF FlattenSeq
  <2> DEFINE g == [n \in {0} |-> << >>]
  <2>2. /\ g[0] = << >> /\ g[N] = FlattenSeq(seqs)
        /\ \A n \in 0 .. N - 1 : g[n + 1] = g[n] \o seqs[n + 1]
    BY <1>4, <2>1
  <2> HIDE DEF g
  <2> QED BY <2>2
<1>5. CASE N # 0
  <2> DEFINE flatten == CHOOSE g : g = [i \in 1 .. N |-> Step(g, i)]
             g == [n \in 0 .. N |-> IF n = 0 THEN << >> ELSE flatten[n]]
  <2>1. FlattenSeq(seqs) = flatten[N]
    BY <1>5 DEF FlattenSeq
  <2>2. flatten = [i \in 1 .. N |-> Step(flatten, i)]
    <3>1. \E f : f = [i \in 1 .. N |-> Step(f, i)]
      BY <1>3 DEF S
    <3> HIDE DEF Step
    <3> QED BY <3>1
  <2> HIDE DEF flatten
  <2>3. ASSUME NEW n \in 0 .. N - 1 PROVE g[n + 1] = g[n] \o seqs[n + 1]
    <3>1. n \in Nat /\ n + 1 \in 1 .. N /\ (n + 1) - 1 = n
      BY <1>3
    <3>2. g[n + 1] = flatten[n + 1] /\ flatten[n + 1] = Step(flatten, n + 1)
      <4>1. g[n + 1] = flatten[n + 1]
        BY <1>3, <3>1
      <4>2. flatten[n + 1] = Step(flatten, n + 1)
        <5> HIDE DEF Step
        <5> QED BY <2>2, <3>1
      <4> QED BY <4>1, <4>2
    <3>3. seqs[n + 1] \in Seq(T)
      BY <3>1, ElementOfSeq
    <3>4. CASE n = 0
      <4>1. g[n] = << >> /\ g[n + 1] = seqs[n + 1]
        BY <1>3, <3>2, <3>4
      <4> HIDE DEF g
      <4> QED BY <3>3, <4>1
    <3>5. CASE n # 0
      <4>1. n \in 0 .. N /\ n + 1 # 1
        BY <1>3, <3>1, <3>5
      <4>2. g[n] = flatten[n]
        BY <3>5, <4>1
      <4>3. Step(flatten, n + 1) = flatten[n] \o seqs[n + 1]
        BY <3>1, <4>1
      <4> QED BY <3>2, <4>2, <4>3
    <3> QED BY <3>4, <3>5
  <2>4. g[0] = << >> /\ g[N] = FlattenSeq(seqs)
    <3>1. 0 \in 0 .. N /\ N \in 0 .. N
      BY <1>3
    <3> QED BY <1>5, <2>1, <3>1
  <2> HIDE DEF g
  <2> QED BY <2>3, <2>4
<1> QED BY <1>4, <1>5

(* ... are a sequence.                                                       *)
LEMMA FlattenIsSeq ==
  ASSUME NEW T, NEW seqs \in Seq(Seq(T))
  PROVE  FlattenSeq(seqs) \in Seq(T)
<1> DEFINE N == Len(seqs)
<1>1. PICK g : /\ g[0] = << >> /\ g[N] = FlattenSeq(seqs)
               /\ \A n \in 0 .. N - 1 : g[n + 1] = g[n] \o seqs[n + 1]
  BY FlattenSteps
<1> DEFINE S == {n \in Nat : n <= N => g[n] \in Seq(T)}
<1>2. 0 \in S
  <2>1. << >> \in Seq(T)
    OBVIOUS
  <2> QED BY <1>1, <2>1
<1>3. ASSUME NEW n \in Nat, n \in S PROVE n + 1 \in S
  <2> SUFFICES ASSUME n + 1 <= N PROVE g[n + 1] \in Seq(T)
    OBVIOUS
  <2>1. N \in Nat /\ n \in 0 .. N - 1 /\ n + 1 \in 1 .. N
    BY LenProperties
  <2>2. g[n] \in Seq(T) /\ seqs[n + 1] \in Seq(T)
    BY <1>3, <2>1, ElementOfSeq
  <2>3. g[n + 1] = g[n] \o seqs[n + 1]
    BY <1>1, <2>1
  <2> QED BY <2>2, <2>3, ConcatProperties
<1> HIDE DEF S
<1>4. N \in S /\ N \in Nat
  BY <1>2, <1>3, Induction, LenProperties
<1> QED BY <1>1, <1>4 DEF S

LEMMA OpKeys ==
  ASSUME NEW op \in DOMAIN Opcode
  PROVE  /\ OperandKeys(op) \cup OptionalKeys(op) = OperandsOf(op)
         /\ OperandsOf(op) \subseteq Keys
<1>1. DOMAIN Opcode = {"Nop", "Halt", "Sync", "ReadHostMemory",
        "WriteHostMemory", "ReadWeights", "MatrixMultiply", "Activate"}
  BY DEF Opcode
<1>2. CASE op \in {"ReadHostMemory", "WriteHostMemory"}
  <2>1. {f.key : f \in Written(op)} = {"ub", "host", "rows"}
    <3>1. Written(op) = {At("ub", 3, 3), At("host", 6, 4), At("rows", 10, 2)}
      BY <1>2 DEF Written
    <3> QED BY <3>1 DEF At
  <2>2. OperandsOf(op) = {f.key : f \in Written(op)} \cup {}
    BY <1>2 DEF OperandsOf
  <2>3. OperandKeys(op) = {"host", "ub", "rows"} /\ OptionalKeys(op) = {}
    BY <1>2 DEF OperandKeys, OptionalKeys
  <2> QED BY <2>1, <2>2, <2>3 DEF Keys
<1>3. CASE op = "ReadWeights"
  BY <1>3 DEF OperandKeys, OptionalKeys, OperandsOf, Written, At, Keys
<1>4. CASE op = "MatrixMultiply"
  BY <1>4 DEF OperandKeys, OptionalKeys, OperandsOf, Written, At, Keys
<1>5. CASE op = "Activate"
  <2>1. {f.key : f \in Written(op)} = {"ub", "acc", "rows", "shift", "width"}
    BY <1>5 DEF Written, At
  <2>2. OperandsOf(op) = {f.key : f \in Written(op)}
                           \cup {"function", "pool", "size"}
    BY <1>5 DEF OperandsOf
  <2>3. OperandKeys(op) = {"acc", "ub", "rows", "shift", "function"}
    BY <1>5 DEF OperandKeys
  <2>4. OptionalKeys(op) = {"pool", "size", "width"}
    BY <1>5 DEF OptionalKeys
  <2> QED BY <2>1, <2>2, <2>3, <2>4 DEF Keys
<1>6. CASE op \in {"Nop", "Halt", "Sync"}
  BY <1>6 DEF OperandKeys, OptionalKeys, OperandsOf, Written, At, Keys
<1> QED BY <1>1, <1>2, <1>3, <1>4, <1>5, <1>6

(* A line that is taken names each operand once, so it is parsed to them.    *)
LEMMA ParsedIsItsLine ==
  ASSUME NEW s, IsLine(s), LineOK(s)
  PROVE  /\ \A i \in DOMAIN s.operands :
              /\ s.operands[i].key \in Keys
              /\ Parsed(s).arg[s.operands[i].key] = s.operands[i].value
         /\ \A key \in Keys \ KeysOf(s.operands) : Parsed(s).arg[key] = Zero
         /\ Parsed(s).op = s.op
         /\ WellFormed(Parsed(s))
         /\ Encodes(Parsed(s))
<1> DEFINE ops == s.operands
           of(key) == {i \in DOMAIN ops : ops[i].key = key}
           arg == [key \in Keys |->
                     IF of(key) = {} THEN Zero ELSE ops[Max(of(key))].value]
<1>1. Parsed(s) = [op |-> s.op, arg |-> arg]
  BY DEF Parsed
<1>2. /\ s.op \in DOMAIN Opcode /\ Encodes(Parsed(s))
      /\ \A i \in DOMAIN ops : ops[i].ok
      /\ KeysOf(ops) \subseteq OperandsOf(s.op)
      /\ GivenOnce(ops)
  BY OpKeys DEF LineOK, OperandsOK
<1>3. DOMAIN ops \subseteq Nat
  BY LenProperties DEF IsLine
<1>4. ASSUME NEW i \in DOMAIN ops
      PROVE  ops[i].key \in KeysOf(ops) /\ arg[ops[i].key] = ops[i].value
  <2>1. ops[i].key \in KeysOf(ops)
    BY DEF KeysOf
  <2>2. ops[i].key \in Keys
    BY <1>2, <2>1, OpKeys
  <2>3. of(ops[i].key) = {i}
    BY <1>2 DEF GivenOnce
  <2>4. Max({i}) = i
    <3>1. i \in Nat
      BY <1>3
    <3> QED BY <3>1 DEF Max
  <2> HIDE DEF of
  <2> QED BY <2>1, <2>2, <2>3, <2>4
<1>5. ASSUME NEW key \in Keys, key \notin KeysOf(ops)
      PROVE  arg[key] = Zero
  <2>1. of(key) = {}
    BY <1>5 DEF KeysOf
  <2> HIDE DEF of
  <2> QED BY <2>1
<1>6. \A key \in Keys : key \in KeysOf(ops) =>
        \E i \in DOMAIN ops : key = ops[i].key /\ arg[key] = ops[i].value
  <2> HIDE DEF arg
  <2>1. ASSUME NEW key \in Keys, key \in KeysOf(ops)
        PROVE  \E i \in DOMAIN ops : key = ops[i].key /\ arg[key] = ops[i].value
    <3>1. PICK i \in DOMAIN ops : key = ops[i].key
      BY <2>1 DEF KeysOf
    <3> QED BY <1>4, <3>1
  <2> QED BY <2>1
<1>7. Zero \in U32 /\ UpTo(Zero, 3) /\ UpTo(Zero, 2)
  BY DEF Zero, Small, U32, Byte, UpTo, FitsIn
<1> HIDE DEF arg
<1>8. \A key \in Keys : /\ arg[key] \in U32
                        /\ key = "function" => UpTo(arg[key], 3)
                        /\ key = "pool" => UpTo(arg[key], 2)
  <2> TAKE key \in Keys
  <2>1. CASE key \in KeysOf(ops)
    <3>1. PICK i \in DOMAIN ops : key = ops[i].key /\ arg[key] = ops[i].value
      BY <1>6, <2>1
    <3>2. Denotes(ops[i])
      BY DEF IsLine
    <3> QED BY <1>2, <3>1, <3>2 DEF Denotes
  <2>2. CASE key \notin KeysOf(ops)
    BY <1>5, <1>7, <2>2
  <2> QED BY <2>1, <2>2
<1>9. arg \in [Keys -> U32]
  <2>1. DOMAIN arg = Keys /\ arg = [key \in Keys |-> arg[key]]
    BY DEF arg
  <2> QED BY <1>8, <2>1
<1>10. WellFormed(Parsed(s))
  <2>1. Parsed(s) \in Instr
    BY <1>1, <1>2, <1>9 DEF Instr
  <2>2. \A key \in Keys \ OperandsOf(s.op) : arg[key] = Zero
    BY <1>2, <1>5
  <2>3. UpTo(arg["function"], 3) /\ UpTo(arg["pool"], 2)
    BY <1>8 DEF Keys
  <2> QED BY <1>1, <2>1, <2>2, <2>3 DEF WellFormed
<1>11. ops = s.operands
  OBVIOUS
<1> HIDE DEF ops
<1> QED BY <1>1, <1>2, <1>4, <1>5, <1>10, <1>11, OpKeys

(* What one word says of the line it was made from.                          *)
WordOf(word, s) ==
  /\ Decodes(word)
  /\ Decode(word).op = s.op
  /\ \A i \in DOMAIN s.operands :
       Decode(word).arg[s.operands[i].key] = s.operands[i].value
  /\ \A key \in Keys \ KeysOf(s.operands) : Decode(word).arg[key] = Zero
  /\ Decode(word).arg["pool"] # Zero =>
       Zero \notin {Decode(word).arg["size"], Decode(word).arg["width"]}

LEMMA EncodedLine ==
  ASSUME NEW s, IsLine(s), LineOK(s)
  PROVE  WordOf(Encode(Parsed(s)), s)
<1> DEFINE in == Parsed(s)
<1>1. WellFormed(in) /\ Encodes(in)
  BY ParsedIsItsLine
<1>2. Decodes(Encode(in)) /\ Decode(Encode(in)) = in
  BY <1>1, EncodeIsDecoded
<1>3. in.arg["pool"] # Zero => Zero \notin {in.arg["size"], in.arg["width"]}
  <2>1. CASE in.op = "Activate"
    BY <1>1, <2>1 DEF Encodes, PoolingOK
  <2>2. CASE in.op # "Activate"
    <3>1. in.op \in DOMAIN Opcode
      BY <1>1 DEF WellFormed, Instr
    <3>2. "pool" \notin OperandsOf(in.op) /\ "pool" \in Keys
      BY <2>2, <3>1, OpKeys DEF OperandKeys, OptionalKeys, Keys
    <3> QED BY <1>1, <3>2 DEF WellFormed
  <2> QED BY <2>1, <2>2
<1> HIDE DEF in
<1>4. in = Parsed(s)
  BY DEF in
<1> QED BY <1>2, <1>3, <1>4, ParsedIsItsLine DEF WordOf

(* A directive with an address of its memory, whether it can be named or not.*)
Placed(d) ==
  /\ d.memory \in Memories
  /\ Len(d.address) \in IF d.memory = "host" THEN {1} ELSE {1, 2}
  /\ d.address[1] \in Nat
  /\ Len(d.address) = 2 => d.address[2] \in 0 .. TileRows - 1

(* The statements program_text prints.                                       *)
PrintedData ==
  {d \in {Directive(m, a) : m \in Memories, a \in Seq(Int)} : Placed(d)}
    \cup {Values(v) : v \in DataValues}
PrintedCode == {Disasm(in) : in \in {i \in Instr : WellFormed(i)}}
TextLines   == PrintedData \cup PrintedCode

(* Words and blocks as the assembler makes them.                             *)
Words  == {Encode(in) : in \in {i \in Instr : WellFormed(i) /\ Encodes(i)}}
Blocks == [addr : Nat, bytes : Seq(Int)]

Programs == [code : Seq(Words), host : Seq(Blocks), weights : Seq(Blocks)]

LEMMA WiderSeq ==
  ASSUME NEW T, NEW U, T \subseteq U, NEW s \in Seq(T)
  PROVE  s \in Seq(U)
<1>1. s \in [1 .. Len(s) -> T] /\ Len(s) \in Nat
  BY LenProperties
<1>2. s \in [1 .. Len(s) -> U]
  BY <1>1
<1> QED BY <1>1, <1>2, SeqDef

LEMMA SeqOfItsRange ==
  ASSUME NEW T, NEW s \in Seq(T)
  PROVE  s \in Seq(Range(s)) /\ \A n \in DOMAIN s : s[n] \in T
<1>1. s \in [1 .. Len(s) -> T] /\ Len(s) \in Nat
  BY LenProperties
<1>2. s \in [1 .. Len(s) -> Range(s)]
  BY <1>1 DEF Range
<1> QED BY <1>1, <1>2, SeqDef

LEMMA PrintedIsLine ==
  ASSUME NEW in \in Instr, WellFormed(in)
  PROVE  IsStatement(Disasm(in))
<1> DEFINE keys == PrintedKeys(in)
           ops == [i \in DOMAIN keys |->
                     Operand(keys[i], in.arg[keys[i]], TRUE)]
<1>1. Disasm(in) = [kind |-> "instruction", op |-> in.op, operands |-> ops]
  BY DEF Disasm, Line
<1>2. keys \in Seq(Keys)
  <2>1. <<"acc", "ub", "rows", "shift", "function">> \in Seq(Keys)
        /\ << >> \in Seq(Keys) /\ <<"pool", "size", "width">> \in Seq(Keys)
    BY DEF Keys
  <2>2. <<"acc", "ub", "rows", "shift", "function">> \o
          (IF in.arg["pool"] = Zero THEN <<>> ELSE <<"pool", "size", "width">>)
             \in Seq(Keys)
    BY <2>1, ConcatProperties
  <2>3. /\ <<"host", "ub", "rows">> \in Seq(Keys)
        /\ <<"ub", "host", "rows">> \in Seq(Keys)
        /\ <<"tile">> \in Seq(Keys)
        /\ <<"ub", "acc", "rows", "accumulate", "new_weights">> \in Seq(Keys)
    BY DEF Keys
  <2> QED BY <2>1, <2>2, <2>3 DEF PrintedKeys
<1> HIDE DEF keys
<1>3. ops \in Seq(Range(ops))
  <2>1. DOMAIN keys = 1 .. Len(keys) /\ Len(keys) \in Nat
    BY <1>2, LenProperties
  <2>2. ops \in [1 .. Len(keys) -> Range(ops)]
    BY <2>1 DEF Range
  <2> DEFINE n == Len(keys)
  <2> HIDE DEF ops, n
  <2>3. n \in Nat /\ ops \in [1 .. n -> Range(ops)]
    BY <2>1, <2>2 DEF n
  <2> QED BY <2>3, SeqDef
<1>4. ASSUME NEW i \in DOMAIN ops PROVE Denotes(ops[i])
  <2>1. ops[i] = [key |-> keys[i], value |-> in.arg[keys[i]], ok |-> TRUE]
    BY DEF Operand
  <2>2. keys[i] \in Keys
    BY <1>2, SeqOfItsRange
  <2>3. in.arg[keys[i]] \in U32
    BY <2>2 DEF Instr
  <2> HIDE DEF ops
  <2> QED BY <2>1, <2>3 DEF Denotes, WellFormed
<1> HIDE DEF ops
<1> QED BY <1>1, <1>3, <1>4 DEF IsStatement, IsLine

LEMMA TextIsSource ==
  ASSUME NEW s \in Seq(TextLines)
  PROVE  IsSource(s)
<1>1. \A t \in TextLines : IsStatement(t)
  BY PrintedIsLine
     DEF TextLines, PrintedData, PrintedCode, IsStatement, Directive, Values
<1> QED BY <1>1, SeqOfItsRange DEF IsSource

LEMMA GreatestOf ==
  ASSUME NEW n \in Nat, NEW T \in SUBSET (0 .. n), T # {}
  PROVE  Max(T) \in T
BY GreatestIn DEF Max

LEMMA Divide ==
  ASSUME NEW d \in Nat \ {0}, NEW a \in Nat
  PROVE  /\ a \div d \in Nat /\ a % d \in 0 .. d - 1
         /\ a = ((a \div d) * d) + (a % d)
BY Z3

LEMMA RowStarts ==
  ASSUME NEW m \in Memories, NEW row \in Nat
  PROVE  LET d == RowDirective(m, row)
         IN  /\ d.kind = "directive" /\ d.memory = m
             /\ Placed(d) /\ StartOf(d) = RowBytes * row
<1> DEFINE d == RowDirective(m, row)
           q == row \div TileRows
           r == row % TileRows
<1>1. q \in Nat /\ r \in 0 .. TileRows - 1 /\ row = (q * TileRows) + r
  BY TextSizes, Divide
<1> HIDE DEF q, r
<1>2. CASE m = "host"
  <2>1. /\ d.kind = "directive" /\ d.memory = "host" /\ d.address = <<row>>
    BY <1>2 DEF RowDirective, Directive
  <2> HIDE DEF d
  <2>2. Len(d.address) = 1 /\ d.address[1] = row
    BY <2>1
  <2> QED BY <1>2, <2>1, <2>2 DEF Placed, StartOf, d
<1>3. CASE m = "weights"
  <2>1. /\ d.kind = "directive" /\ d.memory = "weights" /\ d.address = <<q, r>>
    BY <1>3 DEF RowDirective, Directive, q, r
  <2> HIDE DEF d
  <2>2. Len(d.address) = 2 /\ d.address[1] = q /\ d.address[2] = r
    BY <2>1
  <2>3. Placed(d)
    BY <1>1, <1>3, <2>1, <2>2 DEF Placed
  <2>4. StartOf(d) = RowBytes * (q * TileRows + r)
    BY <2>1, <2>2 DEF StartOf
  <2> QED BY <1>1, <1>3, <2>1, <2>3, <2>4 DEF d
<1> QED BY <1>2, <1>3 DEF Memories

LEMMA RowIsText ==
  ASSUME NEW m \in Memories, NEW row \in Nat, NEW bytes \in Seq(Int)
  PROVE  RowText(m, row, bytes) \in Seq(PrintedData)
<1> DEFINE used == UsedBytes(bytes)
           nonzero == {i \in DOMAIN bytes : bytes[i] # 0}
           v == [i \in 1 .. used |-> [hex |-> FALSE, n |-> bytes[i]]]
<1>1. used \in 0 .. Len(bytes)
  <2>1. nonzero \cup {0} \in SUBSET (0 .. Len(bytes)) /\ Len(bytes) \in Nat
    BY LenProperties
  <2>2. used = Max(nonzero \cup {0})
    BY DEF UsedBytes
  <2> HIDE DEF nonzero, used
  <2> QED BY <2>1, <2>2, GreatestOf
<1>2. v \in DataValues
  <2>1. \A i \in 1 .. used : bytes[i] \in Int
    BY <1>1, ElementOfSeq, LenProperties
  <2>2. used \in Nat
    BY <1>1, LenProperties
  <2> HIDE DEF used
  <2>3. v \in [1 .. used -> [hex : BOOLEAN, n : Int]]
    BY <2>1
  <2> DEFINE E == [hex : BOOLEAN, n : Int]
  <2>4. v \in [1 .. used -> E] /\ DataValues = Seq(E)
    BY <2>3 DEF DataValues
  <2> HIDE DEF v, E
  <2> QED BY <2>2, <2>4, SeqDef
<1>3. RowDirective(m, row) \in PrintedData
  <2> DEFINE a == IF m = "host" THEN <<row>>
                  ELSE <<row \div TileRows, row % TileRows>>
  <2>1. row \div TileRows \in Int /\ row % TileRows \in Int
    BY TextSizes
  <2>2. a \in Seq(Int)
    <3> DEFINE q == row \div TileRows
               r == row % TileRows
    <3>1. q \in Int /\ r \in Int
      BY <2>1
    <3> HIDE DEF q, r
    <3>2. <<row>> \in Seq(Int) /\ <<q, r>> \in Seq(Int)
      BY <3>1
    <3> QED BY <3>2 DEF q, r
  <2>3. RowDirective(m, row) = Directive(m, a)
    BY DEF RowDirective
  <2>4. Placed(RowDirective(m, row))
    BY RowStarts
  <2> HIDE DEF a
  <2> QED BY <2>2, <2>3, <2>4 DEF PrintedData
<1>4. Values(v) \in PrintedData
  <2> HIDE DEF v
  <2> QED BY <1>2 DEF PrintedData
<1>5. RowText(m, row, bytes)
        = IF used = 0 THEN << >> ELSE <<RowDirective(m, row), Values(v)>>
  BY DEF RowText
<1> HIDE DEF v, used
<1> QED BY <1>3, <1>4, <1>5

LEMMA BlockIsText ==
  ASSUME NEW m \in Memories, NEW b \in Blocks
  PROVE  BlockText(m, b) \in Seq(PrintedData)
<1> DEFINE size == Len(b.bytes)
           bytes(r) == SubSeq(b.bytes, r * RowBytes + 1,
                              Min({(r + 1) * RowBytes, size}))
           rows == (size + RowBytes - 1) \div RowBytes
           text == [k \in 1 .. rows |->
                      RowText(m, b.addr \div RowBytes + k - 1, bytes(k - 1))]
<1>1. BlockText(m, b) = FlattenSeq(text)
  BY DEF BlockText
<1>2. size \in Nat /\ b.addr \in Nat /\ b.bytes \in Seq(Int)
      /\ RowBytes \in Nat /\ RowBytes > 0
  BY LenProperties, TextSizes DEF Blocks
<1> HIDE DEF size
<1>3. rows \in Nat /\ b.addr \div RowBytes \in Nat
  <2> DEFINE d == RowBytes
             a == b.addr
  <2>1. d \in Nat \ {0} /\ a \in Nat /\ size + d - 1 \in Nat
    BY <1>2
  <2> HIDE DEF d, a
  <2>2. (size + d - 1) \div d \in Nat /\ a \div d \in Nat
    BY <2>1, Z3
  <2> QED BY <2>2 DEF d, a
<1>4. ASSUME NEW k \in 1 .. rows
      PROVE  RowText(m, b.addr \div RowBytes + k - 1, bytes(k - 1))
               \in Seq(PrintedData)
  <2> DEFINE from == (k - 1) * RowBytes + 1
             to == Min({(k - 1 + 1) * RowBytes, size})
  <2>1. from \in Nat /\ from >= 1 /\ to \in Nat /\ to <= size
    <3>1. k - 1 \in Nat /\ k - 1 + 1 \in Nat
      BY <1>3
    <3>2. \A i \in Nat : i * RowBytes \in Nat
      BY <1>2
    <3>3. (k - 1) * RowBytes \in Nat /\ (k - 1 + 1) * RowBytes \in Nat
      BY <3>1, <3>2
    <3>4. \A x, y \in Nat : Min({x, y}) \in Nat /\ Min({x, y}) <= y
      <4> TAKE x, y \in Nat
      <4>1. \E z \in {x, y} : \A w \in {x, y} : z <= w
        OBVIOUS
      <4>2. Min({x, y}) \in {x, y} /\ \A w \in {x, y} : Min({x, y}) <= w
        BY <4>1 DEF Min
      <4> QED BY <4>2
    <3> QED BY <1>2, <3>3, <3>4
  <2> HIDE DEF from, to
  <2>2. SubSeq(b.bytes, from, to) \in Seq(Int)
    <3>1. \A i \in from .. to : b.bytes[i] \in Int
      BY <1>2, <2>1, ElementOfSeq DEF size
    <3> QED BY <1>2, <2>1, <3>1, SubSeqProperties DEF size
  <2>3. bytes(k - 1) = SubSeq(b.bytes, from, to)
    BY DEF from, to
  <2>4. b.addr \div RowBytes + k - 1 \in Nat
    <3> DEFINE q == b.addr \div RowBytes
    <3>1. q \in Nat
      BY <1>3
    <3> HIDE DEF q
    <3>2. q + k - 1 \in Nat
      BY <3>1, <1>3
    <3> QED BY <3>2 DEF q
  <2> HIDE DEF bytes
  <2> QED BY <2>2, <2>3, <2>4, RowIsText
<1> HIDE DEF bytes, rows
<1>5. text \in [1 .. rows -> Seq(PrintedData)]
  BY <1>4
<1> HIDE DEF text
<1>6. text \in Seq(Seq(PrintedData))
  BY <1>3, <1>5, SeqDef
<1> QED BY <1>1, <1>6, FlattenIsSeq

LEMMA DataIsText ==
  ASSUME NEW m \in Memories, NEW bs \in Seq(Blocks)
  PROVE  /\ DataText(m, bs) \in Seq(PrintedData)
         /\ [k \in DOMAIN bs |-> BlockText(m, bs[k])] \in Seq(Seq(PrintedData))
<1> DEFINE text == [k \in DOMAIN bs |-> BlockText(m, bs[k])]
<1>1. DOMAIN bs = 1 .. Len(bs) /\ Len(bs) \in Nat
  BY LenProperties
<1>2. \A k \in DOMAIN bs : BlockText(m, bs[k]) \in Seq(PrintedData)
  BY BlockIsText, SeqOfItsRange
<1>3. text \in [1 .. Len(bs) -> Seq(PrintedData)]
  BY <1>1, <1>2
<1>4. text \in Seq(Seq(PrintedData))
  <2> HIDE DEF text
  <2> QED BY <1>1, <1>3, SeqDef
<1> HIDE DEF text
<1>5. FlattenSeq(text) \in Seq(PrintedData)
  BY <1>4, FlattenIsSeq
<1> QED BY <1>4, <1>5 DEF DataText, text

(* The text of a program is its data, and then a line for each word.         *)
DataOfText(p) == DataText("host", p.host) \o DataText("weights", p.weights)
CodeOfText(p) == [k \in DOMAIN p.code |-> Disasm(Decode(p.code[k]))]

LEMMA PartsOfText ==
  ASSUME NEW p \in Programs
  PROVE  /\ ProgramText(p) = DataOfText(p) \o CodeOfText(p)
         /\ DataOfText(p) \in Seq(PrintedData)
         /\ CodeOfText(p) \in Seq(PrintedCode)
         /\ Len(CodeOfText(p)) = Len(p.code)
<1>1. /\ DataText("host", p.host) \in Seq(PrintedData)
      /\ DataText("weights", p.weights) \in Seq(PrintedData)
  BY DataIsText DEF Programs, Memories
<1>2. CodeOfText(p) \in Seq(PrintedCode) /\ Len(CodeOfText(p)) = Len(p.code)
  <2> DEFINE text == [k \in DOMAIN p.code |-> Disasm(Decode(p.code[k]))]
  <2>1. p.code \in Seq(Words)
    BY DEF Programs
  <2>2. DOMAIN p.code = 1 .. Len(p.code) /\ Len(p.code) \in Nat
    BY <2>1, LenProperties
  <2>3. ASSUME NEW k \in DOMAIN p.code
        PROVE  Disasm(Decode(p.code[k])) \in PrintedCode
    <3>1. PICK in \in Instr : WellFormed(in) /\ Encodes(in)
                              /\ p.code[k] = Encode(in)
      <4>1. p.code[k] \in Words
        BY <2>1, SeqOfItsRange
      <4> QED BY <4>1 DEF Words
    <3>2. Decode(p.code[k]) = in
      BY <3>1, EncodeIsDecoded
    <3> QED BY <3>1, <3>2 DEF PrintedCode
  <2>4. text \in [1 .. Len(p.code) -> PrintedCode]
    BY <2>2, <2>3
  <2> HIDE DEF text
  <2>5. text \in Seq(PrintedCode)
    BY <2>2, <2>4, SeqDef
  <2>6. Len(text) = Len(p.code)
    BY <2>2, <2>4, <2>5, LenProperties
  <2> QED BY <2>5, <2>6 DEF text, CodeOfText
<1> QED BY <1>1, <1>2, ConcatProperties
        DEF ProgramText, DataOfText, CodeOfText

LEMMA ProgramIsText ==
  ASSUME NEW p \in Programs
  PROVE  ProgramText(p) \in Seq(TextLines)
<1>1. /\ PrintedData \subseteq TextLines
      /\ PrintedCode \subseteq TextLines
  BY DEF TextLines
<1>2. DataOfText(p) \in Seq(TextLines) /\ CodeOfText(p) \in Seq(TextLines)
  BY <1>1, PartsOfText, WiderSeq
<1> QED BY <1>2, PartsOfText, ConcatProperties

(* The lines of code among the first n of a source.                          *)
CodeOf(src, n) == {m \in DOMAIN src : src[m].kind = "instruction" /\ m <= n}

(* The word of a line of code, by its place among them.                      *)
WordAt(code, src, n) == code[Cardinality(CodeOf(src, n))]

AsmTypeInv ==
  /\ IsSource(source)
  /\ line \in 0 .. Len(source)
  /\ program \in Programs
  /\ block \in {"none", "host", "weights"}

(* Inductive: up to the line reached there is a word for each line of code,  *)
(* in their order, and it says what its line says.                           *)
WordsInv ==
  ~error =>
    /\ Len(program.code) = Cardinality(CodeOf(source, line))
    /\ \A n \in CodeOf(source, line) :
         WordOf(WordAt(program.code, source, n), source[n])

LEMMA CodeIsFinite ==
  ASSUME NEW src, IsSource(src), NEW n \in Nat
  PROVE  /\ IsFiniteSet(CodeOf(src, n)) /\ Cardinality(CodeOf(src, n)) \in Nat
         /\ DOMAIN src = 1 .. Len(src) /\ Len(src) \in Nat
<1>1. DOMAIN src = 1 .. Len(src) /\ Len(src) \in Nat
  BY LenProperties DEF IsSource
<1>2. IsFiniteSet(1 .. Len(src))
  BY <1>1, FS_Interval
<1>3. CodeOf(src, n) \in SUBSET (1 .. Len(src))
  BY <1>1 DEF CodeOf
<1> QED BY <1>1, <1>2, <1>3, FS_Subset, FS_CardinalityType

LEMMA CodePlace ==
  ASSUME NEW src, IsSource(src), NEW last \in Nat, NEW n \in CodeOf(src, last)
  PROVE  Cardinality(CodeOf(src, n)) \in 1 .. Cardinality(CodeOf(src, last))
<1>1. n \in DOMAIN src /\ n \in Nat /\ n <= last /\ n \in CodeOf(src, n)
  BY CodeIsFinite DEF CodeOf
<1>2. CodeOf(src, n) \in SUBSET CodeOf(src, last)
  BY <1>1, CodeIsFinite DEF CodeOf
<1>3. Cardinality(CodeOf(src, n)) # 0
  BY <1>1, CodeIsFinite, FS_EmptySet
<1>4. Cardinality(CodeOf(src, n)) <= Cardinality(CodeOf(src, last))
  BY <1>2, CodeIsFinite, FS_Subset
<1> QED BY <1>1, <1>3, <1>4, CodeIsFinite

LEMMA CodeGrows ==
  ASSUME NEW src, IsSource(src), NEW n \in Nat, n + 1 \in DOMAIN src
  PROVE  /\ src[n + 1].kind # "instruction" =>
              CodeOf(src, n + 1) = CodeOf(src, n)
         /\ src[n + 1].kind = "instruction" =>
              /\ CodeOf(src, n + 1) = CodeOf(src, n) \cup {n + 1}
              /\ n + 1 \notin CodeOf(src, n)
              /\ Cardinality(CodeOf(src, n + 1))
                   = Cardinality(CodeOf(src, n)) + 1
<1>1. DOMAIN src \subseteq Nat
  <2>1. DOMAIN src = 1 .. Len(src)
    BY CodeIsFinite
  <2> QED BY <2>1
<1>2. \A m \in DOMAIN src : m <= n + 1 <=> m <= n \/ m = n + 1
  <2>1. \A m \in Nat : m <= n + 1 <=> m <= n \/ m = n + 1
    OBVIOUS
  <2> QED BY <1>1, <2>1
<1>3. ~(n + 1 <= n)
  OBVIOUS
<1>4. src[n + 1].kind # "instruction" => CodeOf(src, n + 1) = CodeOf(src, n)
  BY <1>2 DEF CodeOf
<1>5. src[n + 1].kind = "instruction" =>
        /\ CodeOf(src, n + 1) = CodeOf(src, n) \cup {n + 1}
        /\ n + 1 \notin CodeOf(src, n)
  BY <1>2, <1>3 DEF CodeOf
<1> QED BY <1>4, <1>5, CodeIsFinite, FS_AddElement

-----------------------------------------------------------------------------
LEMMA InitAsm == AsmInit => AsmTypeInv /\ WordsInv
<1> SUFFICES ASSUME AsmInit PROVE AsmTypeInv /\ WordsInv
  OBVIOUS
<1>1. IsSource(source) /\ line = 0 /\ program = NoProgram /\ block = "none"
  BY SourcesAssumption DEF AsmInit
<1>2. DOMAIN source = 1 .. Len(source) /\ Len(source) \in Nat
  BY <1>1, CodeIsFinite
<1>3. program \in Programs
  <2>1. << >> \in Seq(Words) /\ << >> \in Seq(Blocks)
    OBVIOUS
  <2> QED BY <1>1, <2>1 DEF NoProgram, Programs
<1>4. CodeOf(source, 0) = {}
  BY <1>2 DEF CodeOf
<1>5. Len(program.code) = 0
  BY <1>1 DEF NoProgram
<1>6. AsmTypeInv
  <2>1. 0 \in 0 .. Len(source)
    BY <1>2
  <2> QED BY <1>1, <1>3, <2>1 DEF AsmTypeInv
<1>7. WordsInv
  BY <1>1, <1>4, <1>5, FS_EmptySet DEF WordsInv
<1> QED BY <1>6, <1>7

LEMMA ReadingLine ==
  ASSUME AsmTypeInv, NEW kind, Reading(kind)
  PROVE  /\ line \in Nat /\ line + 1 \in DOMAIN source
         /\ line + 1 \in 0 .. Len(source)
         /\ Statement = source[line + 1] /\ IsStatement(Statement)
         /\ Statement.kind = kind
<1>1. DOMAIN source = 1 .. Len(source) /\ Len(source) \in Nat
  BY CodeIsFinite DEF AsmTypeInv
<1>2. line \in Nat /\ line + 1 \in DOMAIN source
  BY <1>1 DEF AsmTypeInv, Reading
<1> QED BY <1>1, <1>2 DEF AsmTypeInv, Reading, Statement, IsSource

(* A directive opens a block, wherever it says.                              *)
LEMMA OpenBlockType ==
  ASSUME AsmTypeInv, OpenBlock
  PROVE  program' \in Programs /\ program'.code = program.code
<1> DEFINE m == Statement.memory
           new == [addr |-> StartOf(Statement), bytes |-> << >>]
<1>1. m \in {"host", "weights"} /\ DirectiveOK(Statement)
      /\ Statement.address \in Seq(Int)
  BY ReadingLine DEF OpenBlock, DirectiveOK, IsStatement
<1>2. StartOf(Statement) \in Nat
  <2> DEFINE a == Statement.address
  <2>1. /\ Len(a) \in {1, 2} /\ a[1] \in 0 .. LastAddress
        /\ Len(a) = 2 => a[2] \in 0 .. TileRows - 1
    BY <1>1 DEF DirectiveOK
  <2>2. a[1] \in Nat
    BY <2>1, TextSizes
  <2>3. \A x, y \in Nat : x * y \in Nat
    OBVIOUS
  <2>4. a[1] * TileRows \in Nat /\ RowBytes \in Nat
    BY <2>2, TextSizes
  <2> DEFINE t == a[1] * TileRows + (IF Len(a) = 2 THEN a[2] ELSE 0)
             row == IF Statement.memory = "host" THEN a[1] ELSE t
  <2>5. (IF Len(a) = 2 THEN a[2] ELSE 0) \in Nat
    BY <2>1
  <2>6. t \in Nat
    BY <2>4, <2>5
  <2> HIDE DEF t
  <2>7. row \in Nat
    BY <2>2, <2>6
  <2>8. StartOf(Statement) = RowBytes * row
    BY DEF StartOf, t
  <2> HIDE DEF row
  <2> QED BY <2>3, <2>4, <2>7, <2>8
<1>3. new \in Blocks
  BY <1>2 DEF Blocks
<1>4. program' = [program EXCEPT ![m] = Append(@, new)]
  BY DEF OpenBlock
<1> HIDE DEF m, new
<1>5. program[m] \in Seq(Blocks)
  BY <1>1 DEF AsmTypeInv, Programs
<1>6. Append(program[m], new) \in Seq(Blocks)
  BY <1>3, <1>5, AppendProperties
<1> QED BY <1>1, <1>4, <1>6 DEF AsmTypeInv, Programs

(* A data line lengthens the open block.                                     *)
LEMMA AppendDataType ==
  ASSUME AsmTypeInv, AppendData
  PROVE  program' \in Programs /\ program'.code = program.code
<1> DEFINE v == Statement.values
           new == [i \in DOMAIN v |-> AsInt8(v[i])]
           bs == program[block]
           last == Len(bs)
<1>1. block \in {"host", "weights"} /\ v \in DataValues
  BY ReadingLine DEF AppendData, DataOK, IsStatement, AsmTypeInv
<1>2. new \in Seq(Int)
  <2> DEFINE E == [hex : BOOLEAN, n : Int]
  <2>1. v \in Seq(E) /\ \A e \in E : e.n \in Int
    BY <1>1 DEF DataValues
  <2> HIDE DEF v, E
  <2>2. DOMAIN v = 1 .. Len(v) /\ Len(v) \in Nat
    BY <2>1, LenProperties
  <2>3. \A i \in DOMAIN v : AsInt8(v[i]) \in Int
    BY <2>1, SeqOfItsRange DEF AsInt8
  <2>4. new \in [1 .. Len(v) -> Int]
    BY <2>2, <2>3
  <2> HIDE DEF new
  <2> QED BY <2>2, <2>4, SeqDef
<1>3. bs \in Seq(Blocks)
  BY <1>1 DEF AsmTypeInv, Programs
<1>4. program' = [program EXCEPT ![block] =
                    [bs EXCEPT ![last].bytes = @ \o new]]
  BY DEF AppendData
<1> HIDE DEF new, bs, v
<1>5. [bs EXCEPT ![last].bytes = @ \o new] \in Seq(Blocks)
  <2>1. bs \in [1 .. Len(bs) -> Blocks] /\ Len(bs) \in Nat
    BY <1>3, LenProperties
  <2>2. last \in 1 .. Len(bs) =>
          [bs[last] EXCEPT !.bytes = @ \o new] \in Blocks
    <3> SUFFICES ASSUME last \in 1 .. Len(bs)
                 PROVE  [bs[last] EXCEPT !.bytes = @ \o new] \in Blocks
      OBVIOUS
    <3>1. bs[last] \in Blocks
      BY <2>1
    <3>2. bs[last].bytes \o new \in Seq(Int)
      BY <1>2, <3>1, ConcatProperties DEF Blocks
    <3> QED BY <3>1, <3>2 DEF Blocks
  <2>3. [bs EXCEPT ![last].bytes = @ \o new]
          = [bs EXCEPT ![last] = [bs[last] EXCEPT !.bytes = @ \o new]]
    OBVIOUS
  <2>4. [bs EXCEPT ![last].bytes = @ \o new] \in [1 .. Len(bs) -> Blocks]
    BY <2>1, <2>2, <2>3
  <2> QED BY <2>1, <2>4, SeqDef
<1> HIDE DEF last
<1> QED BY <1>1, <1>4, <1>5 DEF AsmTypeInv, Programs

LEMMA AppendCodeType ==
  ASSUME AsmTypeInv, AppendCode
  PROVE  /\ program' \in Programs
         /\ program'.code = Append(program.code, Encode(Parsed(Statement)))
         /\ WordOf(Encode(Parsed(Statement)), Statement)
<1>1. IsLine(Statement) /\ LineOK(Statement)
  BY ReadingLine DEF AppendCode, IsStatement
<1>2. Encode(Parsed(Statement)) \in Words
  BY <1>1, ParsedIsItsLine DEF Words, WellFormed
<1>3. program.code \in Seq(Words)
  BY DEF AsmTypeInv, Programs
<1>4. Append(program.code, Encode(Parsed(Statement))) \in Seq(Words)
  BY <1>2, <1>3, AppendProperties
<1>5. program' = [program EXCEPT !.code =
                    Append(@, Encode(Parsed(Statement)))]
  BY DEF AppendCode
<1>6. program' \in Programs
      /\ program'.code = Append(program.code, Encode(Parsed(Statement)))
  BY <1>4, <1>5 DEF AsmTypeInv, Programs
<1> QED BY <1>1, <1>6, EncodedLine

(* A line that is not code leaves every word where it was.                   *)
LEMMA OtherLineKeeps ==
  ASSUME AsmTypeInv, WordsInv, NEW kind, Reading(kind), kind # "instruction",
         program' \in Programs, program'.code = program.code,
         line' = line + 1, UNCHANGED <<source, error>>,
         block' \in {"none", "host", "weights"}
  PROVE  AsmTypeInv' /\ WordsInv'
<1>1. line \in Nat /\ line + 1 \in DOMAIN source
      /\ line + 1 \in 0 .. Len(source)
      /\ source[line + 1].kind # "instruction" /\ IsSource(source)
  BY ReadingLine DEF AsmTypeInv
<1>2. CodeOf(source, line + 1) = CodeOf(source, line)
  BY <1>1, CodeGrows
<1>3. CodeOf(source, line)' = CodeOf(source, line)
  <2>1. CodeOf(source, line)' = CodeOf(source, line + 1)
    BY DEF CodeOf
  <2> QED BY <1>2, <2>1
<1>4. \A n : WordAt(program.code, source, n)' = WordAt(program.code, source, n)
  BY DEF WordAt, CodeOf
<1> QED BY <1>1, <1>3, <1>4 DEF AsmTypeInv, WordsInv

(* A line of code adds its own.                                              *)
LEMMA CodeLineKeeps ==
  ASSUME AsmTypeInv, WordsInv, AppendCode
  PROVE  AsmTypeInv' /\ WordsInv'
<1>1. line \in Nat /\ line + 1 \in DOMAIN source
      /\ line + 1 \in 0 .. Len(source)
      /\ source[line + 1].kind = "instruction" /\ IsSource(source)
      /\ Statement = source[line + 1] /\ ~error
  BY ReadingLine DEF AppendCode, AsmTypeInv, Reading
<1> DEFINE word == Encode(Parsed(Statement))
           last == line + 1
           code == program.code
           count == Cardinality(CodeOf(source, line))
<1>2. /\ program' \in Programs /\ program'.code = Append(code, word)
      /\ WordOf(word, source[last])
  BY <1>1, AppendCodeType
<1>3. /\ CodeOf(source, last) = CodeOf(source, line) \cup {last}
      /\ Cardinality(CodeOf(source, last)) = count + 1 /\ count \in Nat
  BY <1>1, CodeGrows, CodeIsFinite
<1>4. code \in Seq(Words) /\ Len(code) = count
  BY <1>1 DEF AsmTypeInv, Programs, WordsInv
<1> HIDE DEF word
<1>5. /\ Len(Append(code, word)) = count + 1
      /\ Append(code, word)[count + 1] = word
      /\ \A i \in 1 .. count : Append(code, word)[i] = code[i]
  BY <1>3, <1>4
<1>6. ASSUME NEW n \in CodeOf(source, last)
      PROVE  WordOf(WordAt(Append(code, word), source, n), source[n])
  <2>1. CASE n = last
    BY <1>2, <1>3, <1>5, <2>1 DEF WordAt
  <2>2. CASE n # last
    <3>1. n \in CodeOf(source, line)
      BY <1>3, <2>2
    <3>2. Cardinality(CodeOf(source, n)) \in 1 .. count
      BY <1>1, <3>1, CodePlace
    <3>3. WordAt(Append(code, word), source, n) = WordAt(code, source, n)
      BY <1>5, <3>2 DEF WordAt
    <3> QED BY <1>1, <3>1, <3>3 DEF WordsInv
  <2> QED BY <2>1, <2>2
<1>7. line' = last /\ source' = source /\ block' = "none"
  BY DEF AppendCode
<1>8. CodeOf(source, line)' = CodeOf(source, last)
  BY <1>7 DEF CodeOf
<1>9. \A n : WordAt(program.code, source, n)'
               = WordAt(Append(code, word), source, n)
  BY <1>2, <1>7 DEF WordAt, CodeOf
<1> QED BY <1>1, <1>2, <1>3, <1>5, <1>6, <1>7, <1>8, <1>9
        DEF AsmTypeInv, WordsInv

LEMMA NextAsm == AsmTypeInv /\ WordsInv /\ [AsmNext]_asmVars
                   => AsmTypeInv' /\ WordsInv'
<1> SUFFICES ASSUME AsmTypeInv, WordsInv, [AsmNext]_asmVars
             PROVE  AsmTypeInv' /\ WordsInv'
  OBVIOUS
<1>0. NoProgram \in Programs /\ Len(NoProgram.code) = 0
  <2>1. << >> \in Seq(Words) /\ << >> \in Seq(Blocks)
    OBVIOUS
  <2> QED BY <2>1 DEF NoProgram, Programs
<1>1. CASE OpenBlock
  <2>1. Statement.memory \in {"host", "weights"}
    BY <1>1 DEF OpenBlock, DirectiveOK
  <2> QED BY <1>1, <2>1, OpenBlockType, OtherLineKeeps DEF OpenBlock
<1>2. CASE AppendData
  <2>1. block' \in {"none", "host", "weights"}
    BY <1>2 DEF AppendData, AsmTypeInv
  <2> QED BY <1>2, <2>1, AppendDataType, OtherLineKeeps DEF AppendData
<1>3. CASE AppendCode
  BY <1>3, CodeLineKeeps
<1>4. CASE Fail
  <2>1. error' /\ program' = NoProgram /\ UNCHANGED <<source, line, block>>
    BY <1>4 DEF Fail
  <2> QED BY <1>0, <2>1 DEF AsmTypeInv, WordsInv
<1>5. CASE PrintText
  <2>1. /\ source' = ProgramText(program) /\ line' = 0 /\ block' = "none"
        /\ program' = NoProgram
    BY <1>5 DEF PrintText
  <2>2. IsSource(source')
    BY <2>1, ProgramIsText, TextIsSource DEF AsmTypeInv
  <2>3. DOMAIN source' = 1 .. Len(source') /\ Len(source') \in Nat
    BY <2>2, CodeIsFinite
  <2>4. CodeOf(source, line)' = {}
    BY <2>1, <2>3 DEF CodeOf
  <2>5. IsSource(source)' /\ line' \in 0 .. Len(source')
    BY <2>1, <2>2, <2>3 DEF IsSource, IsStatement, IsLine, Denotes
  <2> QED BY <1>0, <2>1, <2>4, <2>5, FS_EmptySet DEF AsmTypeInv, WordsInv
<1>6. CASE UNCHANGED asmVars
  <2>1. UNCHANGED <<source, line, block, program, error>>
    BY <1>6 DEF asmVars
  <2> QED BY <2>1 DEF AsmTypeInv, WordsInv, WordAt, CodeOf
<1> QED BY <1>1, <1>2, <1>3, <1>4, <1>5, <1>6 DEF AsmNext

(* Whatever the source, and again for the text its program is printed as:    *)
(* there is one word for each line of code, in their order, and decode reads *)
(* from it the line's operation and operands and no other.                   *)
THEOREM LinesBecomeTheirWords == AsmSpec => []WordsMeanTheirLines
<1>1. AsmTypeInv /\ WordsInv => WordsMeanTheirLines
  <2> SUFFICES ASSUME AsmTypeInv, WordsInv, Assembled
               PROVE  WordsMeanTheirLines
    BY DEF WordsMeanTheirLines
  <2>1. line = Len(source) /\ ~error /\ DOMAIN source = 1 .. Len(source)
        /\ Len(source) \in Nat
    BY CodeIsFinite DEF Assembled, AsmTypeInv
  <2>2. CodeLines = CodeOf(source, line)
    BY <2>1 DEF CodeLines, CodeOf
  <2>3. \A n \in CodeLines : CodeUpTo(n) = CodeOf(source, n)
    BY DEF CodeUpTo, CodeLines, CodeOf
  <2>4. Len(program.code) = Cardinality(CodeLines)
    BY <2>1, <2>2 DEF WordsInv
  <2>5. \A n \in CodeLines :
          WordOf(program.code[Cardinality(CodeUpTo(n))], source[n])
    BY <2>1, <2>2, <2>3 DEF WordsInv, WordAt
  <2> QED BY <2>4, <2>5 DEF WordsMeanTheirLines, WordOf
<1> QED BY <1>1, InitAsm, NextAsm, PTL DEF AsmSpec

-----------------------------------------------------------------------------
(* Where data goes. The operators of the properties, of a source named.      *)

Owner(src, n) == Max({d \in 1 .. n : src[d].kind = "directive"} \cup {0})

CountOf(src, n) == IF src[n].kind = "data" THEN Len(src[n].values) ELSE 0

Filled(src) ==
  CHOOSE f : f = [n \in 0 .. Len(src) |->
                    IF n = 0 THEN 0 ELSE f[n - 1] + CountOf(src, n)]

Address(src, n) ==
  StartOf(src[Owner(src, n)]) + Filled(src)[n - 1] - Filled(src)[Owner(src, n)]

SpanOf(src, n) == Span(Address(src, n), src[n].values)

DataOf(src, memory, last) ==
  {n \in DOMAIN src : /\ src[n].kind = "data" /\ n <= last
                      /\ src[Owner(src, n)].memory = memory}

Over(src, memory, a, last) ==
  {n \in DataOf(src, memory, last) : a \in SpanOf(src, n)}

Said(src, memory, a, last) ==
  LET of == Over(src, memory, a, last)
  IN  IF of = {} THEN 0
      ELSE AsInt8(src[Max(of)].values[a - Address(src, Max(of)) + 1])

LEMMA FilledIs ==
  ASSUME NEW src, IsSource(src)
  PROVE  /\ Filled(src)[0] = 0
         /\ \A n \in 1 .. Len(src) :
              Filled(src)[n] = Filled(src)[n - 1] + CountOf(src, n)
         /\ \A n \in 0 .. Len(src) : Filled(src)[n] \in Nat
         /\ \A n \in 1 .. Len(src) : CountOf(src, n) \in Nat
<1>1. DOMAIN src = 1 .. Len(src) /\ Len(src) \in Nat
  BY CodeIsFinite
<1> DEFINE N == Len(src)
           c == [n \in 1 .. N |-> CountOf(src, n)]
           f == Filled(src)
<1>2. \A n \in 1 .. N : c[n] \in Nat /\ c[n] = CountOf(src, n)
  <2> SUFFICES ASSUME NEW n \in 1 .. N PROVE CountOf(src, n) \in Nat
    OBVIOUS
  <2>1. IsStatement(src[n])
    BY <1>1 DEF IsSource
  <2>2. src[n].kind = "data" => src[n].values \in DataValues
    BY <2>1 DEF IsStatement
  <2>3. src[n].kind = "data" => Len(src[n].values) \in Nat
    BY <2>2, LenProperties DEF DataValues
  <2> QED BY <2>3 DEF CountOf
<1> HIDE DEF c
<1>3. PICK g : g = [n \in 0 .. N |-> IF n = 0 THEN 0 ELSE g[n - 1] + c[n]]
  BY <1>1, RunningSum
<1>4. g = [n \in 0 .. N |-> IF n = 0 THEN 0 ELSE g[n - 1] + CountOf(src, n)]
  BY <1>1, <1>2, <1>3
<1>5. f = [n \in 0 .. N |-> IF n = 0 THEN 0 ELSE f[n - 1] + CountOf(src, n)]
  BY <1>4 DEF Filled
<1> HIDE DEF f
<1>6. f[0] = 0 /\ \A n \in 1 .. N : f[n] = f[n - 1] + CountOf(src, n)
  BY <1>1, <1>5
<1> DEFINE S == {n \in Nat : n <= N => f[n] \in Nat}
<1>7. 0 \in S
  BY <1>6
<1>8. ASSUME NEW n \in Nat, n \in S PROVE n + 1 \in S
  <2> SUFFICES ASSUME n + 1 <= N PROVE f[n + 1] \in Nat
    OBVIOUS
  <2>1. n + 1 \in 1 .. N /\ (n + 1) - 1 = n /\ n <= N
    BY <1>1
  <2>2. f[n + 1] = f[n] + CountOf(src, n + 1)
    BY <1>6, <2>1
  <2> QED BY <1>2, <1>8, <2>1, <2>2
<1> HIDE DEF S
<1>9. \A n \in 0 .. N : f[n] \in Nat
  <2>1. \A n \in Nat : n \in S
    BY <1>7, <1>8, Induction
  <2> QED BY <1>1, <2>1 DEF S
<1> QED BY <1>2, <1>6, <1>9 DEF f

LEMMA MaxIs ==
  ASSUME NEW n \in Nat, NEW T \in SUBSET (0 .. n), NEW k \in T,
         \A m \in T : m <= k
  PROVE  Max(T) = k
<1>1. \A x \in T : (\A m \in T : x >= m) => x = k
  OBVIOUS
<1> QED BY <1>1 DEF Max

LEMMA OwnerIs ==
  ASSUME NEW src, NEW n \in Nat
  PROVE  /\ Owner(src, n) \in 0 .. n
         /\ Owner(src, n) > 0 => src[Owner(src, n)].kind = "directive"
         /\ src[n + 1].kind = "directive" => Owner(src, n + 1) = n + 1
         /\ src[n + 1].kind # "directive" => Owner(src, n + 1) = Owner(src, n)
<1> DEFINE T(k) == {d \in 1 .. k : src[d].kind = "directive"} \cup {0}
<1>1. T(n) \in SUBSET (0 .. n) /\ T(n) # {}
  OBVIOUS
<1>2. Owner(src, n) \in T(n)
  BY <1>1, GreatestOf DEF Owner
<1>3. T(n + 1) = IF src[n + 1].kind = "directive" THEN T(n) \cup {n + 1}
                                                  ELSE T(n)
  <2>1. 1 .. n + 1 = (1 .. n) \cup {n + 1}
    OBVIOUS
  <2> QED BY <2>1
<1>4. src[n + 1].kind = "directive" => Owner(src, n + 1) = n + 1
  <2> SUFFICES ASSUME src[n + 1].kind = "directive"
               PROVE  Owner(src, n + 1) = n + 1
    OBVIOUS
  <2>1. T(n + 1) \in SUBSET (0 .. n + 1) /\ n + 1 \in T(n + 1)
        /\ \A m \in T(n + 1) : m <= n + 1
        /\ n + 1 \in Nat
    OBVIOUS
  <2> HIDE DEF T
  <2>2. Max(T(n + 1)) = n + 1
    BY <2>1, MaxIs
  <2> QED BY <2>2 DEF Owner, T
<1>5. src[n + 1].kind # "directive" => Owner(src, n + 1) = Owner(src, n)
  BY <1>3 DEF Owner
<1> QED BY <1>2, <1>4, <1>5

-----------------------------------------------------------------------------
(* What memory holds once the blocks are written.                            *)

Covering(blocks, a) ==
  {k \in DOMAIN blocks : a \in Span(blocks[k].addr, blocks[k].bytes)}

LEMMA CellIs ==
  ASSUME NEW blocks, NEW a
  PROVE  Cell(blocks, a) =
           LET over == Covering(blocks, a)
           IN  IF over = {} THEN 0
               ELSE blocks[Max(over)].bytes[a - blocks[Max(over)].addr + 1]
BY DEF Cell, Covering

LEMMA EmptyBlockShowsNothing ==
  ASSUME NEW blocks \in Seq(Blocks), NEW addr \in Nat, NEW a \in Int
  PROVE  Cell(Append(blocks, [addr |-> addr, bytes |-> << >>]), a)
           = Cell(blocks, a)
<1> DEFINE new == [addr |-> addr, bytes |-> << >>]
           more == Append(blocks, new)
           n == Len(blocks)
<1>1. n \in Nat /\ DOMAIN blocks = 1 .. n
  BY LenProperties
<1>2. new \in Blocks /\ new.addr = addr /\ new.bytes = << >>
  BY DEF Blocks
<1> HIDE DEF new
<1>3. /\ more \in Seq(Blocks) /\ Len(more) = n + 1 /\ more[n + 1] = new
      /\ \A k \in 1 .. n : more[k] = blocks[k]
  BY <1>1, <1>2, AppendProperties
<1>4. DOMAIN more = (1 .. n) \cup {n + 1}
  BY <1>1, <1>3, LenProperties
<1> HIDE DEF more
<1>5. a \notin Span(new.addr, new.bytes)
  BY <1>2 DEF Span
<1>6. Covering(more, a) = Covering(blocks, a)
  BY <1>1, <1>3, <1>4, <1>5 DEF Covering
<1>7. CASE Covering(blocks, a) = {}
  BY <1>6, <1>7, CellIs DEF more, new
<1>8. CASE Covering(blocks, a) # {}
  <2> DEFINE k == Max(Covering(blocks, a))
  <2>1. Covering(blocks, a) \in SUBSET (0 .. n)
    BY <1>1 DEF Covering
  <2>2. k \in 1 .. n
    BY <1>1, <1>8, <2>1, GreatestOf DEF Covering
  <2> HIDE DEF k
  <2>3. more[k] = blocks[k]
    BY <1>3, <2>2
  <2>4. Cell(more, a) = more[k].bytes[a - more[k].addr + 1]
    BY <1>6, <1>8, CellIs DEF k
  <2>5. Cell(blocks, a) = blocks[k].bytes[a - blocks[k].addr + 1]
    BY <1>8, CellIs DEF k
  <2> QED BY <2>3, <2>4, <2>5 DEF more, new
<1> QED BY <1>7, <1>8

(* Bytes that join the last block are seen over all the others.              *)
LEMMA LastBlockShows ==
  ASSUME NEW blocks \in Seq(Blocks), blocks # << >>, NEW new \in Seq(Int),
         NEW a \in Int
  PROVE  LET last == Len(blocks)
             from == blocks[last].addr + Len(blocks[last].bytes)
             more == [blocks EXCEPT ![last].bytes = @ \o new]
         IN  /\ a \in Span(from, new) => Cell(more, a) = new[a - from + 1]
             /\ a \notin Span(from, new) => Cell(more, a) = Cell(blocks, a)
<1> DEFINE last == Len(blocks)
           addr == blocks[last].addr
           old == blocks[last].bytes
           from == addr + Len(old)
           more == [blocks EXCEPT ![last].bytes = @ \o new]
<1>1. /\ last \in Nat /\ DOMAIN blocks = 1 .. last
      /\ last \in 1 .. last /\ blocks[last] \in Blocks
  BY LenProperties, EmptySeq, ElementOfSeq
<1>2. addr \in Nat /\ old \in Seq(Int) /\ Len(old) \in Nat /\ Len(new) \in Nat
  BY <1>1, LenProperties DEF Blocks
<1>3. /\ Len(old \o new) = Len(old) + Len(new)
      /\ \A i \in 1 .. Len(old) + Len(new) :
           (old \o new)[i] = IF i <= Len(old) THEN old[i] ELSE new[i - Len(old)]
  BY <1>2, ConcatProperties
<1>4. /\ DOMAIN more = 1 .. last
      /\ \A k \in 1 .. last - 1 : more[k] = blocks[k]
      /\ more[last].addr = addr /\ more[last].bytes = old \o new
  BY <1>1 DEF Blocks
<1>8. \A k \in 1 .. last : k # last => k \in 1 .. last - 1
  <2>1. last \in Nat
    BY <1>1
  <2> HIDE DEF last, more, addr, old
  <2> QED BY ONLY <2>1
<1> HIDE DEF more, addr, old
<1>5. Span(addr, old \o new) = Span(addr, old) \cup Span(from, new)
  BY <1>2, <1>3 DEF Span
<1>6. ASSUME a \in Span(from, new) PROVE Cell(more, a) = new[a - from + 1]
  <2>1. last \in Covering(more, a)
    BY <1>1, <1>4, <1>5, <1>6 DEF Covering
  <2>2. Covering(more, a) \in SUBSET (0 .. last)
        /\ \A m \in Covering(more, a) : m <= last
    BY <1>1, <1>4 DEF Covering
  <2>3. Max(Covering(more, a)) = last
    BY <1>1, <2>1, <2>2, MaxIs
  <2>4. Cell(more, a) = (old \o new)[a - addr + 1]
    BY <1>4, <2>1, <2>3, CellIs
  <2>5. a - addr + 1 \in 1 .. Len(old) + Len(new)
        /\ ~(a - addr + 1 <= Len(old))
        /\ (a - addr + 1) - Len(old) = a - from + 1
    BY <1>2, <1>6 DEF Span
  <2> QED BY <1>3, <2>4, <2>5
<1>7. ASSUME a \notin Span(from, new) PROVE Cell(more, a) = Cell(blocks, a)
  <2>1. Covering(more, a) = Covering(blocks, a)
    <3>1. ASSUME NEW k \in 1 .. last
          PROVE  a \in Span(more[k].addr, more[k].bytes)
                   <=> a \in Span(blocks[k].addr, blocks[k].bytes)
      <4>1. CASE k = last
        BY <1>4, <1>5, <1>7, <4>1 DEF addr, old
      <4>2. CASE k # last
        BY <1>4, <1>8, <4>2
      <4> QED BY <4>1, <4>2
    <3> QED BY <1>1, <1>4, <3>1 DEF Covering
  <2>2. CASE Covering(blocks, a) = {}
    BY <2>1, <2>2, CellIs
  <2>3. CASE Covering(blocks, a) # {}
    <3> DEFINE k == Max(Covering(blocks, a))
    <3>1. Covering(blocks, a) \in SUBSET (0 .. last)
      BY <1>1 DEF Covering
    <3>2. k \in 1 .. last /\ a \in Span(blocks[k].addr, blocks[k].bytes)
      BY <1>1, <2>3, <3>1, GreatestOf DEF Covering
    <3> HIDE DEF k
    <3>3. Cell(more, a) = more[k].bytes[a - more[k].addr + 1]
      BY <2>1, <2>3, CellIs DEF k
    <3>4. Cell(blocks, a) = blocks[k].bytes[a - blocks[k].addr + 1]
      BY <2>3, CellIs DEF k
    <3>5. CASE k # last
      <4>1. more[k] = blocks[k]
        BY <1>4, <1>8, <3>2, <3>5
      <4> QED BY <3>3, <3>4, <4>1
    <3>6. CASE k = last
      <4>1. a - addr + 1 \in 1 .. Len(old)
        BY <1>2, <3>2, <3>6 DEF Span, addr, old
      <4>2. (old \o new)[a - addr + 1] = old[a - addr + 1]
        BY <1>2, <1>3, <4>1
      <4> QED BY <1>4, <3>3, <3>4, <3>6, <4>2 DEF addr, old
    <3> QED BY <3>5, <3>6
  <2> QED BY <2>2, <2>3
<1> QED BY <1>6, <1>7 DEF more, addr, old

(* One more line: only a data line says more, of its own bytes.              *)
LEMMA SaidGrows ==
  ASSUME NEW src, IsSource(src), NEW n \in Nat, n + 1 \in DOMAIN src,
         NEW memory, NEW a \in Int
  PROVE  LET adds == /\ src[n + 1].kind = "data"
                     /\ src[Owner(src, n + 1)].memory = memory
                     /\ a \in SpanOf(src, n + 1)
         IN  /\ adds => Said(src, memory, a, n + 1) =
                          AsInt8(src[n + 1].values[a - Address(src, n + 1) + 1])
             /\ ~adds => Said(src, memory, a, n + 1) = Said(src, memory, a, n)
<1> DEFINE adds == /\ src[n + 1].kind = "data"
                   /\ src[Owner(src, n + 1)].memory = memory
                   /\ a \in SpanOf(src, n + 1)
<1>1. DOMAIN src = 1 .. Len(src) /\ Len(src) \in Nat
  BY CodeIsFinite
<1>2. \A m \in DOMAIN src : m <= n + 1 <=> m <= n \/ m = n + 1
  <2>1. \A m \in Nat : m <= n + 1 <=> m <= n \/ m = n + 1
    OBVIOUS
  <2> QED BY <1>1, <2>1
<1>3. CASE ~adds
  <2>1. Over(src, memory, a, n + 1) = Over(src, memory, a, n)
    BY <1>2, <1>3 DEF Over, DataOf
  <2> QED BY <1>3, <2>1 DEF Said
<1>4. CASE adds
  <2> DEFINE over == Over(src, memory, a, n + 1)
  <2>1. n + 1 \in over
    BY <1>2, <1>4 DEF Over, DataOf
  <2>2. over \in SUBSET (0 .. n + 1) /\ (\A m \in over : m <= n + 1)
        /\ n + 1 \in Nat
    BY <1>1 DEF Over, DataOf
  <2> HIDE DEF over
  <2>3. Max(over) = n + 1
    BY <2>1, <2>2, MaxIs
  <2> QED BY <1>4, <2>1, <2>3 DEF Said, over
<1> QED BY <1>3, <1>4

(* The open block is of the directive that the next data line belongs to and *)
(* holds the values since.                                                   *)
OpenOK(src, n, in, p) ==
  in # "none" =>
    LET d    == Owner(src, n)
        last == p[in][Len(p[in])]
    IN  /\ d > 0 /\ src[d].memory = in
        /\ \A m \in d .. n : src[m].kind # "instruction"
        /\ p[in] # << >>
        /\ last.addr = StartOf(src[d])
        /\ Len(last.bytes) = Filled(src)[n] - Filled(src)[d]

(* No data line up to n stands outside a block.                              *)
Owned(src, n) ==
  \A k \in 1 .. n : src[k].kind = "data" =>
    /\ Owner(src, k) > 0
    /\ \A m \in Owner(src, k) .. k : src[m].kind # "instruction"

Landed(src, n, p) ==
  \A memory \in Memories, a \in Int :
    Cell(p[memory], a) = Said(src, memory, a, n)

(* Inductive: what memory would hold by now is what the lines so far say.    *)
DataInv ==
  ~error => /\ OpenOK(source, line, block, program)
            /\ Owned(source, line)
            /\ Landed(source, line, program)

LEMMA NothingLanded ==
  ASSUME NEW src, IsSource(src)
  PROVE  /\ OpenOK(src, 0, "none", NoProgram) /\ Owned(src, 0)
         /\ Landed(src, 0, NoProgram)
<1>1. DOMAIN src = 1 .. Len(src) /\ Len(src) \in Nat
  BY CodeIsFinite
<1>2. ASSUME NEW memory \in Memories, NEW a \in Int
      PROVE  Cell(NoProgram[memory], a) = Said(src, memory, a, 0)
  <2>1. NoProgram[memory] = << >>
    BY DEF Memories, NoProgram
  <2>2. Cell(<< >>, a) = 0
    BY DEF Cell
  <2>3. Over(src, memory, a, 0) = {}
    BY <1>1 DEF Over, DataOf
  <2> QED BY <2>1, <2>2, <2>3 DEF Said
<1> QED BY <1>2 DEF OpenOK, Owned, Landed

LEMMA OwnedGrows ==
  ASSUME NEW src, NEW n \in Nat, Owned(src, n),
         src[n + 1].kind = "data" =>
           /\ Owner(src, n + 1) > 0
           /\ \A m \in Owner(src, n + 1) .. n + 1 :
                src[m].kind # "instruction"
  PROVE  Owned(src, n + 1)
<1>1. 1 .. n + 1 = (1 .. n) \cup {n + 1}
  OBVIOUS
<1> QED BY <1>1 DEF Owned

LEMMA OpenBlockLands == AsmTypeInv /\ DataInv /\ OpenBlock => DataInv'
<1> SUFFICES ASSUME AsmTypeInv, DataInv, OpenBlock PROVE DataInv'
  OBVIOUS
<1> DEFINE n == line + 1
           s == source[n]
           new == [addr |-> StartOf(s), bytes |-> << >>]
           old == program[s.memory]
<1>1. /\ line \in Nat /\ n \in DOMAIN source /\ s.kind = "directive"
      /\ Statement = s /\ IsSource(source) /\ ~error /\ n \in Nat
  BY ReadingLine DEF OpenBlock, AsmTypeInv, Reading
<1>2. s.memory \in Memories /\ s.memory # "none"
  BY <1>1 DEF OpenBlock, DirectiveOK, Memories
<1>3. /\ block' = s.memory /\ line' = n /\ source' = source
      /\ program' = [program EXCEPT ![s.memory] = Append(old, new)]
      /\ program \in Programs
  BY <1>1 DEF OpenBlock, AsmTypeInv
<1>4. StartOf(s) \in Nat /\ new \in Blocks
  <2>1. program' \in Programs
    BY OpenBlockType
  <2>2. program'[s.memory] \in Seq(Blocks)
    BY <1>2, <2>1 DEF Programs, Memories
  <2>3. program'[s.memory] = Append(old, new)
    BY <1>2, <1>3 DEF Programs, Memories
  <2>4. old \in Seq(Blocks)
    BY <1>2, <1>3 DEF Programs, Memories
  <2> HIDE DEF old, new
  <2>5. Append(old, new) \in Seq(Blocks) /\ Len(Append(old, new)) = Len(old) + 1
        /\ Append(old, new)[Len(old) + 1] = new /\ Len(old) \in Nat
    BY <2>2, <2>3, <2>4, LenProperties
  <2>6. new \in Blocks
    BY <2>5, ElementOfSeq
  <2> QED BY <2>6 DEF new, Blocks
<1>5. old \in Seq(Blocks) /\ Len(old) \in Nat
  BY <1>2, <1>3, LenProperties DEF Programs, Memories
<1>6. /\ program'[s.memory] = Append(old, new)
      /\ \A m \in Memories : m # s.memory => program'[m] = program[m]
  BY <1>2, <1>3 DEF Programs, Memories
<1>7. Owner(source, n) = n
  BY <1>1, OwnerIs
<1> HIDE DEF old
<1>8. /\ Append(old, new) # << >> /\ Len(Append(old, new)) = Len(old) + 1
      /\ Append(old, new)[Len(old) + 1] = new
  BY <1>4, <1>5
<1>9. new.addr = StartOf(s) /\ new.bytes = << >>
  OBVIOUS
<1> HIDE DEF new
<1>10. OpenOK(source, n, block', program')
  <2>1. /\ n > 0 /\ source[n].memory = block'
        /\ \A m \in n .. n : source[m].kind # "instruction"
    BY <1>1, <1>3
  <2>2. Filled(source)[n] \in Nat
    BY <1>1, CodeIsFinite, FilledIs
  <2>3. Len(new.bytes) = Filled(source)[n] - Filled(source)[n]
    BY <1>9, <2>2
  <2>4. program'[block'] = Append(old, new)
    BY <1>3, <1>6
  <2> QED BY <1>7, <1>8, <1>9, <2>1, <2>3, <2>4 DEF OpenOK
<1>11. Owned(source, n)
  BY <1>1, OwnedGrows DEF DataInv
<1>12. Landed(source, n, program')
  <2> SUFFICES ASSUME NEW m \in Memories, NEW a \in Int
               PROVE  Cell(program'[m], a) = Said(source, m, a, n)
    BY DEF Landed
  <2>1. Said(source, m, a, n) = Said(source, m, a, line)
    BY <1>1, SaidGrows
  <2>2. Cell(program[m], a) = Said(source, m, a, line)
    BY <1>1 DEF DataInv, Landed
  <2>3. CASE m # s.memory
    BY <1>6, <2>1, <2>2, <2>3
  <2>4. CASE m = s.memory
    <3>1. Cell(Append(old, new), a) = Cell(old, a)
      BY <1>4, <1>5, EmptyBlockShowsNothing DEF new
    <3> QED BY <1>6, <2>1, <2>2, <2>4, <3>1 DEF old
  <2> QED BY <2>3, <2>4
<1> QED BY <1>3, <1>10, <1>11, <1>12 DEF DataInv

LEMMA AppendDataLands == AsmTypeInv /\ DataInv /\ AppendData => DataInv'
<1> SUFFICES ASSUME AsmTypeInv, DataInv, AppendData PROVE DataInv'
  OBVIOUS
<1> DEFINE n == line + 1
           v == source[n].values
           new == [i \in DOMAIN v |-> AsInt8(v[i])]
           bs == program[block]
           last == Len(bs)
           d == Owner(source, n)
           from == bs[last].addr + Len(bs[last].bytes)
           more == [bs EXCEPT ![last].bytes = @ \o new]
           filled == Filled(source)
<1>1. /\ line \in Nat /\ n \in DOMAIN source /\ source[n].kind = "data"
      /\ Statement = source[n] /\ IsSource(source) /\ ~error
      /\ v \in DataValues /\ n \in 1 .. Len(source) /\ line \in 0 .. Len(source)
      /\ n - 1 = line
  <2>1. /\ line \in Nat /\ n \in DOMAIN source /\ source[n].kind = "data"
        /\ Statement = source[n] /\ IsSource(source) /\ ~error
        /\ IsStatement(source[n]) /\ line \in 0 .. Len(source)
    BY ReadingLine DEF AppendData, AsmTypeInv, Reading
  <2>2. v \in DataValues
    BY <2>1 DEF IsStatement
  <2> QED BY <2>1, <2>2, CodeIsFinite
<1>2. block \in Memories /\ block # "none" /\ program \in Programs
  BY DEF AppendData, DataOK, AsmTypeInv, Memories
<1>3. /\ block' = block /\ line' = n /\ source' = source
      /\ program' = [program EXCEPT ![block] = more]
  BY <1>1 DEF AppendData
<1>4. /\ DOMAIN v = 1 .. Len(v)
      /\ Len(v) \in Nat
      /\ \A i \in DOMAIN v : v[i].n \in Int
  <2> DEFINE E == [hex : BOOLEAN, n : Int]
  <2>1. v \in Seq(E) /\ \A e \in E : e.n \in Int
    BY <1>1 DEF DataValues
  <2> HIDE DEF v, E
  <2> QED BY <2>1, LenProperties, SeqOfItsRange
<1> HIDE DEF v
<1>5. /\ new \in Seq(Int) /\ Len(new) = Len(v)
      /\ \A i \in DOMAIN v : new[i] = AsInt8(v[i])
  <2>1. new \in [1 .. Len(v) -> Int]
    BY <1>4 DEF AsInt8
  <2>2. \A i \in DOMAIN v : new[i] = AsInt8(v[i])
    OBVIOUS
  <2> HIDE DEF new
  <2>3. new \in Seq(Int)
    BY <1>4, <2>1, SeqDef
  <2> QED BY <1>4, <2>1, <2>2, <2>3, LenProperties
<1> HIDE DEF new
<1>6. bs \in Seq(Blocks)
  BY <1>2 DEF Programs, Memories
<1>7. /\ program'[block] = more
      /\ \A m \in Memories : m # block => program'[m] = program[m]
  BY <1>2, <1>3 DEF Programs, Memories
<1>8. d = Owner(source, line) /\ d \in 0 .. line
  BY <1>1, OwnerIs
<1>9. /\ d > 0 /\ source[d].memory = block
      /\ \A m \in d .. line : source[m].kind # "instruction"
      /\ bs # << >> /\ bs[last].addr = StartOf(source[d])
      /\ Len(bs[last].bytes) = filled[line] - filled[d]
  BY <1>1, <1>2, <1>8 DEF DataInv, OpenOK
<1>10. /\ filled[n] = filled[line] + Len(v) /\ filled[line] \in Nat
       /\ filled[d] \in Nat /\ filled[n] \in Nat
  <2>1. d \in 0 .. Len(source)
    BY <1>1, <1>8
  <2>2. n \in 0 .. Len(source)
    BY <1>1
  <2> QED BY <1>1, <2>1, <2>2, FilledIs DEF CountOf, v
<1>11. last \in 1 .. last /\ bs[last] \in Blocks /\ last \in Nat
       /\ bs \in [1 .. last -> Blocks]
  BY <1>6, <1>9, LenProperties, EmptySeq, ElementOfSeq
<1>12. Address(source, n) = from
  <2>1. Address(source, n) = StartOf(source[d]) + filled[line] - filled[d]
    BY <1>1 DEF Address
  <2>2. bs[last].addr \in Nat
    BY <1>11 DEF Blocks
  <2> QED BY <1>9, <1>10, <2>1, <2>2
<1>13. more # << >> /\ Len(more) = last
       /\ more[last].addr = bs[last].addr
       /\ Len(more[last].bytes) = Len(bs[last].bytes) + Len(v)
  <2>1. /\ more[last].addr = bs[last].addr
        /\ more[last].bytes = bs[last].bytes \o new
        /\ DOMAIN more = 1 .. last
    BY <1>11 DEF Blocks
  <2>2. bs[last].bytes \in Seq(Int)
    BY <1>11 DEF Blocks
  <2>3. Len(bs[last].bytes \o new) = Len(bs[last].bytes) + Len(new)
    BY <1>5, <2>2, ConcatProperties
  <2>4. more \in Seq(Blocks)
    <3>1. program' \in Programs
      BY AppendDataType
    <3> QED BY <1>2, <1>7, <3>1 DEF Programs, Memories
  <2> HIDE DEF more
  <2> QED BY <1>5, <1>11, <2>1, <2>3, <2>4, LenProperties, EmptySeq
<1>14. OpenOK(source, n, block', program')
  <2>1. \A m \in d .. n : source[m].kind # "instruction"
    <3>1. \A m \in d .. n : m \in d .. line \/ m = n
      BY <1>1, <1>8
    <3> QED BY <1>1, <1>9, <3>1
  <2>2. Len(more[last].bytes) = filled[n] - filled[d]
    BY <1>4, <1>9, <1>10, <1>13
  <2> HIDE DEF more, filled, d
  <2> QED BY <1>3, <1>7, <1>9, <1>13, <2>1, <2>2 DEF OpenOK, d, filled
<1>15. Owned(source, n)
  <2>1. \A m \in d .. n : source[m].kind # "instruction"
    <3>1. \A m \in d .. n : m \in d .. line \/ m = n
      BY <1>1, <1>8
    <3> QED BY <1>1, <1>9, <3>1
  <2>2. Owned(source, line)
    BY <1>1 DEF DataInv
  <2> QED BY <1>1, <1>9, <2>1, <2>2, OwnedGrows
<1>16. Landed(source, n, program')
  <2> SUFFICES ASSUME NEW m \in Memories, NEW a \in Int
               PROVE  Cell(program'[m], a) = Said(source, m, a, n)
    BY DEF Landed
  <2>1. Cell(program[m], a) = Said(source, m, a, line)
    BY <1>1 DEF DataInv, Landed
  <2>2. CASE m # block
    <3>1. Said(source, m, a, n) = Said(source, m, a, line)
      BY <1>1, <1>9, <2>2, SaidGrows
    <3> QED BY <1>7, <2>1, <2>2, <3>1
  <2>3. CASE m = block
    <3>1. Span(from, new) = SpanOf(source, n)
      <4>1. from = Address(source, n) /\ Len(new) = Len(source[n].values)
        BY <1>5, <1>12 DEF v
      <4> HIDE DEF from, n
      <4> QED BY <4>1 DEF SpanOf, Span
    <3>2. /\ a \in Span(from, new) => Cell(more, a) = new[a - from + 1]
          /\ a \notin Span(from, new) => Cell(more, a) = Cell(bs, a)
      <4>1. bs \in Seq(Blocks) /\ bs # << >> /\ new \in Seq(Int)
        BY <1>5, <1>6, <1>9
      <4> HIDE DEF bs
      <4> QED BY <4>1, LastBlockShows
    <3>3. CASE a \in Span(from, new)
      <4>1. Said(source, m, a, n)
              = AsInt8(source[n].values[a - Address(source, n) + 1])
        <5>1. /\ source[n].kind = "data" /\ source[Owner(source, n)].memory = m
              /\ a \in SpanOf(source, n)
          BY <1>1, <1>9, <2>3, <3>1, <3>3
        <5>2. IsSource(source) /\ line \in Nat /\ line + 1 \in DOMAIN source
          BY <1>1
        <5> QED BY <5>1, <5>2, SaidGrows
      <4>2. Said(source, m, a, n) = AsInt8(v[a - from + 1])
        BY <1>12, <4>1 DEF v
      <4>3. a - from + 1 \in DOMAIN v
        <5> DEFINE x == from
        <5>1. x \in Int
          BY <1>11, LenProperties DEF Blocks
        <5>2. a \in x .. x + Len(v) - 1
          BY <1>5, <3>3 DEF Span
        <5> HIDE DEF x
        <5>3. a - x + 1 \in 1 .. Len(v)
          BY <1>4, <5>1, <5>2
        <5> QED BY <1>4, <5>3 DEF x
      <4> QED BY <1>5, <1>7, <2>3, <3>2, <3>3, <4>2, <4>3
    <3>4. CASE a \notin Span(from, new)
      <4>1. Said(source, m, a, n) = Said(source, m, a, line)
        BY <1>1, <3>1, <3>4, SaidGrows
      <4> QED BY <1>7, <2>1, <2>3, <3>2, <3>4, <4>1
    <3> QED BY <3>3, <3>4
  <2> QED BY <2>2, <2>3
<1> QED BY <1>3, <1>14, <1>15, <1>16 DEF DataInv

LEMMA AppendCodeLands == AsmTypeInv /\ DataInv /\ AppendCode => DataInv'
<1> SUFFICES ASSUME AsmTypeInv, DataInv, AppendCode PROVE DataInv'
  OBVIOUS
<1> DEFINE n == line + 1
<1>1. /\ line \in Nat /\ n \in DOMAIN source /\ source[n].kind = "instruction"
      /\ IsSource(source) /\ ~error /\ n \in Nat
  BY ReadingLine DEF AppendCode, AsmTypeInv, Reading
<1>2. block' = "none" /\ line' = n /\ source' = source
      /\ \A m \in Memories : program'[m] = program[m]
  BY DEF AppendCode, AsmTypeInv, Programs, Memories
<1>3. OpenOK(source, n, block', program')
  BY <1>2 DEF OpenOK
<1>4. Owned(source, n)
  BY <1>1, OwnedGrows DEF DataInv
<1>5. Landed(source, n, program')
  <2> SUFFICES ASSUME NEW m \in Memories, NEW a \in Int
               PROVE  Cell(program'[m], a) = Said(source, m, a, n)
    BY DEF Landed
  <2>1. Cell(program[m], a) = Said(source, m, a, line)
    BY <1>1 DEF DataInv, Landed
  <2>2. Said(source, m, a, n) = Said(source, m, a, line)
    BY <1>1, SaidGrows
  <2> QED BY <1>2, <2>1, <2>2
<1> QED BY <1>2, <1>3, <1>4, <1>5 DEF DataInv

LEMMA NextLands == AsmTypeInv /\ DataInv /\ [AsmNext]_asmVars => DataInv'
<1> SUFFICES ASSUME AsmTypeInv, DataInv, [AsmNext]_asmVars PROVE DataInv'
  OBVIOUS
<1>1. CASE Fail
  BY <1>1 DEF Fail, DataInv
<1>2. CASE PrintText
  <2>1. /\ source' = ProgramText(program) /\ line' = 0 /\ block' = "none"
        /\ program' = NoProgram
    BY <1>2 DEF PrintText
  <2>2. IsSource(source')
    BY <2>1, ProgramIsText, TextIsSource DEF AsmTypeInv
  <2> QED BY <2>1, <2>2, NothingLanded DEF DataInv
<1>3. CASE UNCHANGED asmVars
  BY <1>3 DEF asmVars, DataInv
<1> QED BY <1>1, <1>2, <1>3, OpenBlockLands, AppendDataLands,
           AppendCodeLands DEF AsmNext

(* The program's blocks, written in their order, leave in each memory what   *)
(* the data lines say, the last one that says anything of a byte; and no     *)
(* data stands outside a block (asm.cpp:210-246, docs/isa.md).               *)
THEOREM BytesLand == AsmSpec => []BytesLandWhereTheSourceSays
<1>1. AsmInit => DataInv
  BY SourcesAssumption, NothingLanded DEF AsmInit, DataInv
<1>2. AsmTypeInv /\ DataInv => BytesLandWhereTheSourceSays
  <2> SUFFICES ASSUME AsmTypeInv, DataInv, Assembled
               PROVE  BytesLandWhereTheSourceSays
    BY DEF BytesLandWhereTheSourceSays
  <2>1. /\ line = Len(source) /\ ~error /\ IsSource(source)
        /\ DOMAIN source = 1 .. Len(source) /\ Len(source) \in Nat
    BY CodeIsFinite DEF Assembled, AsmTypeInv
  <2>2. /\ Owned(source, line) /\ Landed(source, line, program)
    BY <2>1 DEF DataInv
  <2>3. ValuesUpTo = Filled(source)
    BY DEF ValuesUpTo, Filled, CountOf
  <2>4. \A n : OwnerOf(n) = Owner(source, n)
    BY DEF OwnerOf, Owner
  <2>5. \A n : AddressOf(n) = Address(source, n)
    BY <2>3, <2>4 DEF AddressOf, Address
  <2>6. \A memory : DataLines(memory) = DataOf(source, memory, line)
    BY <2>1, <2>4 DEF DataLines, DataOf
  <2>7. \A memory, a : Says(memory, a) = Said(source, memory, a, line)
    BY <2>5, <2>6 DEF Says, Said, Over, SpanOf
  <2>8. ASSUME NEW memory \in Memories,
               NEW a \in Touched(program[memory]) \cup
                   UNION {Span(AddressOf(n), source[n].values) :
                            n \in DataLines(memory)}
        PROVE  Cell(program[memory], a) = Says(memory, a)
    <3>1. a \in Int
      BY DEF Touched, Span
    <3> QED BY <2>2, <2>7, <3>1 DEF Landed
  <2>9. \A n \in DOMAIN source : source[n].kind = "data" =>
          /\ OwnerOf(n) > 0
          /\ \A m \in OwnerOf(n) .. n : source[m].kind # "instruction"
    BY <2>1, <2>2, <2>4 DEF Owned
  <2> QED BY <2>8, <2>9 DEF BytesLandWhereTheSourceSays
<1>3. AsmSpec => []AsmTypeInv
  BY InitAsm, NextAsm, PTL DEF AsmSpec
<1> QED BY <1>1, <1>2, <1>3, NextLands, PTL DEF AsmSpec
-----------------------------------------------------------------------------
(* The text of a program                                                     *)

DataPairs(t) ==
  {<<t[n - 1], t[n]>> : n \in {i \in DOMAIN t : t[i].kind = "data"}}

(* Each data line stands under a directive of its own, and each directive    *)
(* over a data line.                                                         *)
Paired(t) ==
  /\ \A n \in DOMAIN t :
       t[n].kind = "data" => n > 1 /\ t[n - 1].kind = "directive"
  /\ \A n \in DOMAIN t :
       t[n].kind = "directive" => \E p \in DataPairs(t) : p[1] = t[n]

(* Where the lines of two texts are in the text they make.                   *)
Joins(both, s, t, m, k) ==
  /\ m \in Nat /\ k \in Nat /\ DOMAIN both = 1 .. m + k
  /\ DOMAIN s = 1 .. m /\ DOMAIN t = 1 .. k
  /\ \A i \in 1 .. m :
       /\ both[i] = s[i] /\ i \in DOMAIN both /\ i \in DOMAIN s
       /\ s[i].kind = "data" => both[i - 1] = s[i - 1]
  /\ \A i \in 1 .. k :
       /\ both[i + m] = t[i] /\ i + m \in DOMAIN both /\ i \in DOMAIN t
       /\ t[i].kind = "data" => both[i + m - 1] = t[i - 1]
  /\ \A n \in DOMAIN both : n \in 1 .. m \/ \E i \in 1 .. k : n = i + m

LEMMA PlacesOfBoth ==
  ASSUME NEW T, NEW s \in Seq(T), NEW t \in Seq(T), Paired(s), Paired(t)
  PROVE  Joins(s \o t, s, t, Len(s), Len(t))
<1> DEFINE both == s \o t
           m == Len(s)
           k == Len(t)
<1>1. /\ m \in Nat /\ k \in Nat /\ DOMAIN s = 1 .. m /\ DOMAIN t = 1 .. k
  BY LenProperties
<1>2. /\ DOMAIN both = 1 .. m + k
      /\ \A i \in 1 .. m + k : both[i] = IF i <= m THEN s[i] ELSE t[i - m]
  <2>1. /\ both \in Seq(T) /\ Len(both) = m + k
        /\ \A i \in 1 .. m + k : both[i] = IF i <= m THEN s[i] ELSE t[i - m]
    BY ConcatProperties
  <2> HIDE DEF both
  <2> QED BY <2>1, LenProperties
<1> HIDE DEF both, m, k
<1>3. ASSUME NEW i \in 1 .. m
      PROVE  /\ both[i] = s[i] /\ i \in DOMAIN both /\ i \in DOMAIN s
             /\ s[i].kind = "data" => both[i - 1] = s[i - 1]
  <2>1. i \in DOMAIN s /\ i \in 1 .. m + k /\ i <= m
    BY <1>1
  <2>2. s[i].kind = "data" => i > 1
    BY <2>1 DEF Paired
  <2>3. i > 1 => i - 1 \in 1 .. m + k /\ i - 1 <= m
    BY <1>1, <2>1
  <2> QED BY <1>2, <2>1, <2>2, <2>3
<1>4. ASSUME NEW i \in 1 .. k
      PROVE  /\ both[i + m] = t[i] /\ i + m \in DOMAIN both /\ i \in DOMAIN t
             /\ t[i].kind = "data" => both[i + m - 1] = t[i - 1]
  <2>1. i + m \in 1 .. m + k /\ ~(i + m <= m) /\ (i + m) - m = i
    BY <1>1
  <2>2. both[i + m] = t[i]
    BY <1>2, <2>1
  <2>3. ASSUME t[i].kind = "data" PROVE both[i + m - 1] = t[i - 1]
    <3>1. i > 1
      BY <1>1, <2>3 DEF Paired
    <3>2. i + m - 1 \in 1 .. m + k /\ ~(i + m - 1 <= m)
          /\ (i + m - 1) - m = i - 1
      BY <1>1, <3>1
    <3> QED BY <1>2, <3>2
  <2> QED BY <1>1, <1>2, <2>1, <2>2, <2>3
<1>5. \A n \in DOMAIN both :
        n \in 1 .. m \/ \E i \in 1 .. k : n = i + m
  <2> TAKE n \in DOMAIN both
  <2>1. n \in 1 .. m \/ (n - m \in 1 .. k /\ n = (n - m) + m)
    BY <1>1, <1>2
  <2> QED BY <2>1
<1>6. Joins(both, s, t, m, k)
  BY <1>1, <1>2, <1>3, <1>4, <1>5 DEF Joins
<1> QED BY <1>6 DEF both, m, k

LEMMA PairsOfBoth ==
  ASSUME NEW T, NEW s \in Seq(T), NEW t \in Seq(T), Paired(s), Paired(t)
  PROVE  /\ Paired(s \o t)
         /\ DataPairs(s \o t) = DataPairs(s) \cup DataPairs(t)
<1> DEFINE both == s \o t
           m == Len(s)
           k == Len(t)
<1>0. Joins(both, s, t, m, k)
  BY PlacesOfBoth
<1> HIDE DEF both, m, k
<1>1. /\ m \in Nat /\ k \in Nat /\ DOMAIN both = 1 .. m + k
      /\ DOMAIN s = 1 .. m /\ DOMAIN t = 1 .. k
  BY <1>0 DEF Joins
<1>3. \A i \in 1 .. m :
        /\ both[i] = s[i] /\ i \in DOMAIN both /\ i \in DOMAIN s
        /\ s[i].kind = "data" => both[i - 1] = s[i - 1]
  BY <1>0 DEF Joins
<1>4. \A i \in 1 .. k :
        /\ both[i + m] = t[i] /\ i + m \in DOMAIN both /\ i \in DOMAIN t
        /\ t[i].kind = "data" => both[i + m - 1] = t[i - 1]
  BY <1>0 DEF Joins
<1>5. \A n \in DOMAIN both : n \in 1 .. m \/ \E i \in 1 .. k : n = i + m
  BY <1>0 DEF Joins
<1>6. ASSUME NEW n \in DOMAIN both, both[n].kind = "data"
      PROVE  n > 1 /\ both[n - 1].kind = "directive"
  <2>1. CASE n \in 1 .. m
    BY <1>3, <1>6, <2>1 DEF Paired
  <2>2. CASE \E i \in 1 .. k : n = i + m
    <3>1. PICK i \in 1 .. k : n = i + m
      BY <2>2
    <3>2. t[i].kind = "data" /\ both[n - 1] = t[i - 1] /\ i \in DOMAIN t
      <4>1. both[i + m].kind = "data" /\ n - 1 = i + m - 1
        BY <1>1, <1>6, <3>1
      <4> QED BY <1>4, <4>1
    <3>3. i > 1 /\ t[i - 1].kind = "directive"
      BY <3>2 DEF Paired
    <3> QED BY <1>1, <3>1, <3>2, <3>3
  <2> QED BY <1>5, <2>1, <2>2
<1>7. ASSUME NEW p \in DataPairs(both)
      PROVE  p \in DataPairs(s) \cup DataPairs(t)
  <2>1. PICK n \in DOMAIN both : both[n].kind = "data"
                                 /\ p = <<both[n - 1], both[n]>>
    BY <1>7 DEF DataPairs
  <2>2. CASE n \in 1 .. m
    <3>1. s[n].kind = "data" /\ n \in DOMAIN s /\ p = <<s[n - 1], s[n]>>
      BY <1>3, <2>1, <2>2
    <3> QED BY <3>1 DEF DataPairs
  <2>3. CASE \E i \in 1 .. k : n = i + m
    <3>1. PICK i \in 1 .. k : n = i + m
      BY <2>3
    <3>2. both[i + m].kind = "data" /\ n - 1 = i + m - 1
      BY <1>1, <2>1, <3>1
    <3>3. t[i].kind = "data" /\ i \in DOMAIN t /\ p = <<t[i - 1], t[i]>>
      BY <1>4, <2>1, <3>1, <3>2
    <3> QED BY <3>3 DEF DataPairs
  <2> QED BY <1>5, <2>2, <2>3
<1>8. ASSUME NEW p \in DataPairs(s) PROVE p \in DataPairs(both)
  <2>1. PICK n \in DOMAIN s : s[n].kind = "data" /\ p = <<s[n - 1], s[n]>>
    BY <1>8 DEF DataPairs
  <2>2. n \in 1 .. m
    BY <1>1
  <2> QED BY <1>3, <2>1, <2>2 DEF DataPairs
<1>9. ASSUME NEW p \in DataPairs(t) PROVE p \in DataPairs(both)
  <2>1. PICK n \in DOMAIN t : t[n].kind = "data" /\ p = <<t[n - 1], t[n]>>
    BY <1>9 DEF DataPairs
  <2>2. n \in 1 .. k
    BY <1>1
  <2> DEFINE j == n + m
  <2>3. j \in DOMAIN both /\ both[j].kind = "data" /\ both[j - 1] = t[n - 1]
        /\ both[j] = t[n]
    BY <1>1, <1>4, <2>1, <2>2
  <2> HIDE DEF j
  <2> QED BY <2>1, <2>3 DEF DataPairs
<1>10. DataPairs(both) = DataPairs(s) \cup DataPairs(t)
  BY <1>7, <1>8, <1>9
<1>11. ASSUME NEW n \in DOMAIN both, both[n].kind = "directive"
       PROVE  \E p \in DataPairs(both) : p[1] = both[n]
  <2>1. CASE n \in 1 .. m
    BY <1>3, <1>10, <1>11, <2>1 DEF Paired
  <2>2. CASE \E i \in 1 .. k : n = i + m
    <3>1. PICK i \in 1 .. k : n = i + m
      BY <2>2
    <3> QED BY <1>4, <1>10, <1>11, <3>1 DEF Paired
  <2> QED BY <1>5, <2>1, <2>2
<1> QED BY <1>6, <1>10, <1>11 DEF Paired, both

LEMMA PairsOfFlat ==
  ASSUME NEW T, NEW seqs \in Seq(Seq(T)), \A k \in DOMAIN seqs : Paired(seqs[k])
  PROVE  /\ Paired(FlattenSeq(seqs))
         /\ DataPairs(FlattenSeq(seqs))
              = UNION {DataPairs(seqs[k]) : k \in DOMAIN seqs}
<1> DEFINE N == Len(seqs)
           Pairs(n) == UNION {DataPairs(seqs[k]) : k \in 1 .. n}
<1>1. PICK g : /\ g[0] = << >> /\ g[N] = FlattenSeq(seqs)
               /\ \A n \in 0 .. N - 1 : g[n + 1] = g[n] \o seqs[n + 1]
  BY FlattenSteps
<1> DEFINE S == {n \in Nat : n <= N => /\ g[n] \in Seq(T) /\ Paired(g[n])
                                       /\ DataPairs(g[n]) = Pairs(n)}
<1>2. N \in Nat /\ DOMAIN seqs = 1 .. N
  BY LenProperties
<1>3. 0 \in S
  <2>1. << >> \in Seq(T) /\ Paired(<< >>) /\ DataPairs(<< >>) = {}
    BY DEF Paired, DataPairs
  <2>2. Pairs(0) = {}
    OBVIOUS
  <2> HIDE DEF Pairs
  <2> QED BY <1>1, <2>1, <2>2
<1>4. ASSUME NEW n \in Nat, n \in S PROVE n + 1 \in S
  <2> SUFFICES ASSUME n + 1 <= N
               PROVE  /\ g[n + 1] \in Seq(T) /\ Paired(g[n + 1])
                      /\ DataPairs(g[n + 1]) = Pairs(n + 1)
    OBVIOUS
  <2>1. n \in 0 .. N - 1 /\ n + 1 \in 1 .. N
    BY <1>2
  <2>2. seqs[n + 1] \in Seq(T) /\ Paired(seqs[n + 1])
    BY <1>2, <2>1, ElementOfSeq
  <2>3. g[n + 1] = g[n] \o seqs[n + 1]
    BY <1>1, <2>1
  <2>4. g[n] \in Seq(T) /\ Paired(g[n]) /\ DataPairs(g[n]) = Pairs(n)
    BY <1>4, <2>1
  <2>5. Pairs(n + 1) = Pairs(n) \cup DataPairs(seqs[n + 1])
    <3>1. 1 .. n + 1 = (1 .. n) \cup {n + 1}
      OBVIOUS
    <3> QED BY <3>1
  <2> HIDE DEF Pairs
  <2>6. g[n] \o seqs[n + 1] \in Seq(T)
    BY <2>2, <2>4, ConcatProperties
  <2>7. /\ Paired(g[n] \o seqs[n + 1])
        /\ DataPairs(g[n] \o seqs[n + 1])
             = DataPairs(g[n]) \cup DataPairs(seqs[n + 1])
    BY <2>2, <2>4, PairsOfBoth
  <2> QED BY <2>3, <2>4, <2>5, <2>6, <2>7
<1> HIDE DEF S
<1>5. N \in S
  BY <1>2, <1>3, <1>4, Induction
<1> QED BY <1>1, <1>2, <1>5 DEF S

(* What a directive and the data line under it say, and that they are right: *)
(* statements of memory m, of bytes from a place on, one of them not zero,   *)
(* and of every one that is not zero.                                        *)
PairSpan(p)    == Span(StartOf(p[1]), p[2].values)
PairSays(p, a) == AsInt8(p[2].values[a - StartOf(p[1]) + 1])

PairOK(p, m) ==
  /\ Placed(p[1]) /\ p[1].memory = m /\ StartOf(p[1]) \in Nat
  /\ \A i \in DOMAIN p[2].values : Int8OK(p[2].values[i])
  /\ \E a \in PairSpan(p) : PairSays(p, a) # 0

Prints(pairs, m, from, bytes) ==
  /\ \A p \in pairs :
       /\ PairOK(p, m)
       /\ \A a \in PairSpan(p) :
            a \in Span(from, bytes) /\ PairSays(p, a) = bytes[a - from + 1]
  /\ \A a \in Span(from, bytes) :
       bytes[a - from + 1] # 0 => \E p \in pairs : a \in PairSpan(p)

LEMMA UsedIs ==
  ASSUME NEW bytes \in Seq(Int)
  PROVE  /\ UsedBytes(bytes) \in 0 .. Len(bytes)
         /\ \A i \in 1 .. Len(bytes) : bytes[i] # 0 => i <= UsedBytes(bytes)
         /\ UsedBytes(bytes) # 0 => bytes[UsedBytes(bytes)] # 0
<1> DEFINE T == {i \in DOMAIN bytes : bytes[i] # 0} \cup {0}
<1>1. T \in SUBSET (0 .. Len(bytes)) /\ T # {} /\ Len(bytes) \in Nat
      /\ DOMAIN bytes = 1 .. Len(bytes)
  BY LenProperties
<1>2. UsedBytes(bytes) = Max(T)
  BY DEF UsedBytes
<1>3. /\ \A i \in 1 .. Len(bytes) : bytes[i] # 0 => i \in T
      /\ \A i \in T : i # 0 => bytes[i] # 0
  BY <1>1
<1> HIDE DEF T
<1>4. Max(T) \in T /\ \A i \in T : Max(T) >= i
  <2>1. \E k \in T : \A i \in T : k >= i
    BY <1>1, GreatestIn
  <2> QED BY <2>1 DEF Max
<1>5. Max(T) \in 0 .. Len(bytes) /\ \A i \in T : i <= Max(T)
  BY <1>1, <1>4
<1> QED BY <1>2, <1>3, <1>4, <1>5

LEMMA PrintedByte ==
  ASSUME NEW n \in -128 .. 127
  PROVE  LET x == [hex |-> FALSE, n |-> n] IN AsInt8(x) = n /\ Int8OK(x)
BY DEF AsInt8, Int8OK

LEMMA RowPrints ==
  ASSUME NEW m \in Memories, NEW row \in Nat, NEW bytes \in Seq(Int),
         \A i \in DOMAIN bytes : bytes[i] \in -128 .. 127
  PROVE  /\ Paired(RowText(m, row, bytes))
         /\ Prints(DataPairs(RowText(m, row, bytes)), m, RowBytes * row, bytes)
<1> DEFINE used == UsedBytes(bytes)
           d == RowDirective(m, row)
           v == [i \in 1 .. used |-> [hex |-> FALSE, n |-> bytes[i]]]
           t == RowText(m, row, bytes)
           from == RowBytes * row
<1>1. /\ used \in 0 .. Len(bytes) /\ Len(bytes) \in Nat /\ used \in Nat
      /\ DOMAIN bytes = 1 .. Len(bytes)
      /\ \A i \in 1 .. Len(bytes) : bytes[i] # 0 => i <= used
      /\ used # 0 => bytes[used] # 0
  BY UsedIs, LenProperties
<1>2. from \in Nat
  BY TextSizes
<1>3. /\ d.kind = "directive" /\ d.memory = m
      /\ Placed(d) /\ StartOf(d) = from
  BY RowStarts
<1>4. t = IF used = 0 THEN << >> ELSE <<d, Values(v)>>
  BY DEF RowText
<1>5. Values(v).kind = "data" /\ Values(v).values = v
  BY DEF Values
<1>6. /\ DOMAIN v = 1 .. used /\ Len(v) = used
      /\ \A i \in 1 .. used : AsInt8(v[i]) = bytes[i] /\ Int8OK(v[i])
  <2>1. DOMAIN v = 1 .. used
    OBVIOUS
  <2>2. ASSUME NEW i \in 1 .. used PROVE AsInt8(v[i]) = bytes[i] /\ Int8OK(v[i])
    <3>1. i \in DOMAIN bytes
      <4> HIDE DEF used
      <4> QED BY <1>1
    <3>2. bytes[i] \in -128 .. 127
      BY <3>1
    <3>3. v[i] = [hex |-> FALSE, n |-> bytes[i]]
      OBVIOUS
    <3> QED BY <3>2, <3>3, PrintedByte
  <2>3. Len(v) = used
    BY <1>1
  <2> QED BY <2>1, <2>2, <2>3
<1> HIDE DEF used, d, v, from, t
<1>7. CASE used = 0
  <2>1. t = << >>
    BY <1>4, <1>7
  <2>2. Paired(t) /\ DataPairs(t) = {}
    BY <2>1 DEF Paired, DataPairs
  <2>3. ASSUME NEW a \in Span(from, bytes) PROVE bytes[a - from + 1] = 0
    <3>1. a - from + 1 \in 1 .. Len(bytes) /\ ~(a - from + 1 <= used)
      BY <1>1, <1>2, <1>7 DEF Span
    <3> QED BY <1>1, <3>1
  <2> QED BY <2>2, <2>3 DEF Prints, t, from
<1>8. CASE used # 0
  <2> DEFINE p == <<d, Values(v)>>
  <2>1. t = p /\ p[1] = d /\ p[2] = Values(v) /\ DOMAIN p = {1, 2}
    BY <1>4, <1>8
  <2> HIDE DEF p
  <2>3. DataPairs(t) = {p}
    <3>1. {i \in DOMAIN t : t[i].kind = "data"} = {2}
      BY <1>3, <1>5, <2>1
    <3>2. DataPairs(t) = {<<t[2 - 1], t[2]>>}
      BY <3>1 DEF DataPairs
    <3> QED BY <2>1, <3>2 DEF p
  <2>2. Paired(t)
    <3>1. \A n \in DOMAIN t : n = 1 \/ n = 2
      BY <2>1
    <3>2. t[1] = d /\ t[2].kind = "data" /\ 2 - 1 = 1
      BY <1>5, <2>1
    <3>3. p \in DataPairs(t) /\ p[1] = d
      BY <2>1, <2>3
    <3> QED BY <1>3, <3>1, <3>2, <3>3 DEF Paired
  <2>5. PairSpan(p) = from .. from + used - 1
    BY <1>3, <1>5, <1>6, <2>1 DEF PairSpan, Span
  <2>6. ASSUME NEW a \in PairSpan(p)
        PROVE  a \in Span(from, bytes) /\ PairSays(p, a) = bytes[a - from + 1]
    <3>1. a \in from .. from + used - 1
      BY <2>5
    <3>2. a - from + 1 \in 1 .. used /\ a \in from .. from + Len(bytes) - 1
      BY <1>1, <1>2, <3>1
    <3> QED BY <1>3, <1>5, <1>6, <2>1, <3>2 DEF Span, PairSays
  <2>4. PairOK(p, m)
    <3>1. \E a \in PairSpan(p) : PairSays(p, a) # 0
      <4> DEFINE a == from + used - 1
      <4>1. a \in PairSpan(p) /\ a - from + 1 = used
        BY <1>1, <1>2, <1>8, <2>5
      <4>2. PairSays(p, a) # 0
        BY <1>1, <1>8, <2>6, <4>1
      <4> QED BY <4>1, <4>2
    <3> QED BY <1>2, <1>3, <1>5, <1>6, <2>1, <3>1 DEF PairOK
  <2>7. ASSUME NEW a \in Span(from, bytes), bytes[a - from + 1] # 0
        PROVE  a \in PairSpan(p)
    <3>1. a \in Int /\ a - from + 1 \in 1 .. Len(bytes) /\ a >= from
      BY <1>1, <1>2 DEF Span
    <3>2. a - from + 1 <= used
      BY <1>1, <2>7, <3>1
    <3> QED BY <1>1, <1>2, <2>5, <3>1, <3>2
  <2> QED BY <2>2, <2>3, <2>4, <2>6, <2>7 DEF Prints, t, from
<1> QED BY <1>7, <1>8

LEMMA RowOfByte ==
  ASSUME NEW d \in Nat \ {0}, NEW size \in Nat, NEW j \in 0 .. size - 1
  PROVE  \E k \in 1 .. (size + d - 1) \div d : (k - 1) * d <= j /\ j < k * d
<1> DEFINE n == (size + d - 1) \div d
           q == j \div d
<1>0. size + d - 1 \in Nat /\ j \in Nat
  OBVIOUS
<1>1. n \in Nat /\ (size + d - 1) % d \in 0 .. d - 1
      /\ size + d - 1 = (n * d) + ((size + d - 1) % d)
  BY <1>0, Divide
<1>2. q \in Nat /\ j % d \in 0 .. d - 1 /\ j = (q * d) + (j % d)
  BY <1>0, Divide
<1> HIDE DEF n, q
<1>3. q * d \in Nat /\ n * d \in Nat /\ (q + 1) * d = (q * d) + d
  BY <1>1, <1>2, Z3
<1>4. q >= n => q * d >= n * d
  BY <1>1, <1>2, Z3
<1>5. q < n
  <2> DEFINE x == q * d
             y == n * d
             s == (size + d - 1) % d
             r == j % d
  <2>1. /\ x \in Nat /\ y \in Nat /\ s \in 0 .. d - 1 /\ r \in 0 .. d - 1
        /\ size + d - 1 = y + s /\ j = x + r
        /\ (q >= n => x >= y)
    BY <1>1, <1>2, <1>3, <1>4
  <2> HIDE DEF x, y, s, r
  <2>2. x <= j /\ y > j
    BY <2>1
  <2> QED BY <1>1, <1>2, <2>1, <2>2
<1>6. q + 1 \in 1 .. n /\ (q + 1) - 1 = q
  BY <1>1, <1>2, <1>5
<1>7. ((q + 1) - 1) * d <= j /\ j < (q + 1) * d
  <2> DEFINE x == q * d
             y == (q + 1) * d
             r == j % d
  <2>1. x \in Nat /\ y = x + d /\ j = x + r /\ r \in 0 .. d - 1
    BY <1>2, <1>3
  <2>2. x <= j /\ j < y
    <3> HIDE DEF x, y, r
    <3> QED BY <2>1
  <2> QED BY <1>6, <2>2
<1> QED BY <1>6, <1>7 DEF n

(* A block as the assembler makes them: at the beginning of a row, of bytes. *)
FineBlock(b) ==
  /\ b \in Blocks
  /\ \E q \in Nat : b.addr = RowBytes * q
  /\ \A i \in DOMAIN b.bytes : b.bytes[i] \in -128 .. 127

(* Row k of a block.                                                         *)
RowFrom(k)   == (k - 1) * RowBytes
RowTo(b, k)  == Min({(k - 1 + 1) * RowBytes, Len(b.bytes)})
RowBytesOf(b, k) == SubSeq(b.bytes, RowFrom(k) + 1, RowTo(b, k))
RowsOf(b)    == (Len(b.bytes) + RowBytes - 1) \div RowBytes

LEMMA LeastOfTwo ==
  ASSUME NEW x \in Nat, NEW y \in Nat
  PROVE  Min({x, y}) = IF x <= y THEN x ELSE y
<1>1. \E z \in {x, y} : \A w \in {x, y} : z <= w
  OBVIOUS
<1>2. Min({x, y}) \in {x, y} /\ \A w \in {x, y} : Min({x, y}) <= w
  BY <1>1 DEF Min
<1> QED BY <1>2

LEMMA RowsOfBlock ==
  ASSUME NEW b \in Blocks, NEW k \in Nat \ {0},
         \A i \in DOMAIN b.bytes : b.bytes[i] \in -128 .. 127
  PROVE  LET from == RowFrom(k)
             row  == RowBytesOf(b, k)
         IN  /\ from \in Nat /\ row \in Seq(Int) /\ Len(row) \in Nat
             /\ DOMAIN row = 1 .. Len(row)
             /\ \A i \in DOMAIN row :
                  /\ row[i] = b.bytes[from + i] /\ row[i] \in -128 .. 127
                  /\ from + i \in 1 .. Len(b.bytes)
             /\ \A j \in 0 .. Len(b.bytes) - 1 :
                  from <= j /\ j < k * RowBytes => j - from + 1 \in DOMAIN row
<1> DEFINE from == RowFrom(k)
           to == RowTo(b, k)
           row == RowBytesOf(b, k)
           size == Len(b.bytes)
           next == k * RowBytes
<1>1. size \in Nat /\ b.bytes \in Seq(Int) /\ DOMAIN b.bytes = 1 .. size
  BY LenProperties DEF Blocks
<1>2. from \in Nat /\ next \in Nat /\ next >= from
      /\ next = (k - 1 + 1) * RowBytes
  <2> DEFINE d == RowBytes
  <2>1. d \in Nat /\ k - 1 \in Nat /\ k - 1 + 1 = k
    BY TextSizes
  <2> HIDE DEF d
  <2>2. (k - 1) * d \in Nat /\ k * d = (k - 1) * d + d
    BY <2>1, Z3
  <2> QED BY <2>1, <2>2 DEF d, RowFrom
<1> HIDE DEF size, next
<1>3. to = IF next <= size THEN next ELSE size
  BY <1>1, <1>2, LeastOfTwo DEF RowTo, size
<1> HIDE DEF from, to
<1>4. to \in Nat /\ to <= size
  BY <1>1, <1>2, <1>3
<1>5. \A i \in from + 1 .. to : b.bytes[i] \in -128 .. 127 /\ i \in 1 .. size
  <2> TAKE i \in from + 1 .. to
  <2>1. i \in 1 .. size
    BY <1>1, <1>2, <1>4
  <2> QED BY <1>1, <2>1
<1>6. row = SubSeq(b.bytes, from + 1, to)
  BY DEF RowBytesOf, from, to
<1> HIDE DEF row
<1>7. /\ row \in Seq(-128 .. 127)
      /\ Len(row) = IF from + 1 <= to THEN to - (from + 1) + 1 ELSE 0
      /\ \A i \in 1 .. to - (from + 1) + 1 : row[i] = b.bytes[from + 1 + i - 1]
  BY <1>2, <1>4, <1>5, <1>6, SubSeqProperties
<1>8. /\ Len(row) = IF from + 1 <= to THEN to - from ELSE 0
      /\ \A i \in 1 .. to - from : row[i] = b.bytes[from + i]
  <2>1. to - (from + 1) + 1 = to - from
    BY <1>2, <1>4
  <2>2. Len(row) = IF from + 1 <= to THEN to - from ELSE 0
    BY <1>7, <2>1
  <2>3. ASSUME NEW i \in 1 .. to - from PROVE row[i] = b.bytes[from + i]
    <3>1. i \in 1 .. to - (from + 1) + 1
      BY <2>1
    <3>2. from + 1 + i - 1 = from + i
      BY <1>2
    <3>3. row[i] = b.bytes[from + 1 + i - 1]
      BY <1>7, <3>1
    <3> QED BY <3>2, <3>3
  <2> QED BY <2>2, <2>3
<1>9. Len(row) \in Nat /\ DOMAIN row = 1 .. Len(row)
      /\ \A i \in DOMAIN row : row[i] \in -128 .. 127
  <2> DEFINE B == -128 .. 127
  <2>1. row \in Seq(B)
    BY <1>7
  <2> HIDE DEF B
  <2>2. Len(row) \in Nat /\ DOMAIN row = 1 .. Len(row)
    BY <2>1, LenProperties
  <2>3. \A i \in DOMAIN row : row[i] \in B
    BY <2>1, SeqOfItsRange
  <2> QED BY <2>2, <2>3 DEF B
<1>10. row \in Seq(Int)
  <2>1. row \in [1 .. Len(row) -> -128 .. 127]
    BY <1>7, <1>9, LenProperties
  <2>2. -128 .. 127 \subseteq Int
    OBVIOUS
  <2> DEFINE B == -128 .. 127
  <2>3. row \in [1 .. Len(row) -> B] /\ B \subseteq Int
    BY <2>1, <2>2
  <2> HIDE DEF B
  <2>4. row \in [1 .. Len(row) -> Int]
    BY <2>3
  <2> QED BY <1>9, <2>4, SeqDef
<1>11. ASSUME NEW i \in DOMAIN row
       PROVE  row[i] = b.bytes[from + i] /\ from + i \in 1 .. size
  <2>1. i \in 1 .. to - from
    BY <1>2, <1>4, <1>8, <1>9
  <2>2. from + i \in 1 .. size
    BY <1>1, <1>2, <1>4, <2>1
  <2> QED BY <1>8, <2>1, <2>2
<1>12. ASSUME NEW j \in 0 .. size - 1, from <= j, j < next
       PROVE  j - from + 1 \in DOMAIN row
  <2>1. j < to
    BY <1>1, <1>3, <1>12
  <2> QED BY <1>1, <1>2, <1>4, <1>8, <1>9, <1>12, <2>1
<1> QED BY <1>2, <1>9, <1>10, <1>11, <1>12 DEF from, row, size, next

RowTexts(m, b) ==
  [k \in 1 .. RowsOf(b) |->
     RowText(m, b.addr \div RowBytes + k - 1, RowBytesOf(b, k))]

LEMMA BlockTextIs ==
  ASSUME NEW m, NEW b
  PROVE  BlockText(m, b) = FlattenSeq(RowTexts(m, b))
<1>1. BlockText(m, b) =
        FlattenSeq([k \in 1 .. RowsOf(b) |->
          RowText(m, b.addr \div RowBytes + k - 1,
                  SubSeq(b.bytes, (k - 1) * RowBytes + 1,
                         Min({(k - 1 + 1) * RowBytes, Len(b.bytes)})))])
  BY DEF BlockText, RowsOf
<1>2. \A k : SubSeq(b.bytes, (k - 1) * RowBytes + 1,
                    Min({(k - 1 + 1) * RowBytes, Len(b.bytes)}))
               = RowBytesOf(b, k)
  BY DEF RowBytesOf, RowFrom, RowTo
<1> QED BY <1>1, <1>2 DEF RowTexts

LEMMA RowTextPrints ==
  ASSUME NEW m \in Memories, NEW b, FineBlock(b), NEW k \in 1 .. RowsOf(b)
  PROVE  /\ RowTexts(m, b)[k] \in Seq(PrintedData)
         /\ Paired(RowTexts(m, b)[k])
         /\ Prints(DataPairs(RowTexts(m, b)[k]), m, b.addr + RowFrom(k),
                   RowBytesOf(b, k))
<1> DEFINE d == RowBytes
           row == RowBytesOf(b, k)
           n == b.addr \div RowBytes + k - 1
<1>1. k \in Nat \ {0} /\ d \in Nat \ {0}
  BY TextSizes
<1>2. row \in Seq(Int) /\ \A i \in DOMAIN row : row[i] \in -128 .. 127
  BY <1>1, RowsOfBlock DEF FineBlock
<1>3. PICK q \in Nat : b.addr = RowBytes * q
  BY DEF FineBlock
<1>4. n = q + k - 1 /\ n \in Nat /\ d * n = b.addr + RowFrom(k)
  <2>1. b.addr = q * d /\ b.addr \in Nat
    BY <1>1, <1>3, Z3
  <2>2. (q * d) \div d = q
    BY <1>1, Z3
  <2>3. n = q + k - 1
    BY <2>1, <2>2
  <2>4. q + k - 1 \in Nat
    BY <1>1
  <2>5. d * (q + k - 1) = d * q + (k - 1) * d
    <3> HIDE DEF d
    <3> QED BY <1>1, Z3
  <2> QED BY <1>3, <2>3, <2>4, <2>5 DEF RowFrom
<1>5. RowTexts(m, b)[k] = RowText(m, n, row)
  BY DEF RowTexts
<1> HIDE DEF row, n
<1>6. /\ Paired(RowText(m, n, row))
      /\ Prints(DataPairs(RowText(m, n, row)), m, d * n, row)
  BY <1>2, <1>4, RowPrints
<1>7. RowText(m, n, row) \in Seq(PrintedData)
  BY <1>2, <1>4, RowIsText
<1> HIDE DEF d
<1> QED BY <1>4, <1>5, <1>6, <1>7 DEF row

LEMMA BlockPrints ==
  ASSUME NEW m \in Memories, NEW b, FineBlock(b)
  PROVE  /\ Paired(BlockText(m, b))
         /\ Prints(DataPairs(BlockText(m, b)), m, b.addr, b.bytes)
<1> DEFINE texts == RowTexts(m, b)
           rows == RowsOf(b)
           pairs == DataPairs(BlockText(m, b))
           size == Len(b.bytes)
<1>1. /\ b \in Blocks /\ b.addr \in Nat /\ size \in Nat
      /\ RowBytes \in Nat \ {0} /\ rows \in Nat
  <2>1. /\ b \in Blocks /\ b.addr \in Nat /\ size \in Nat
        /\ RowBytes \in Nat \ {0}
    BY TextSizes, LenProperties DEF FineBlock, Blocks
  <2>2. size + RowBytes - 1 \in Nat
    BY <2>1
  <2>3. rows = (size + RowBytes - 1) \div RowBytes
    BY DEF RowsOf
  <2> HIDE DEF rows, size
  <2> QED BY <2>1, <2>2, <2>3, Divide
<1>2. /\ DOMAIN texts = 1 .. rows
      /\ texts \in Seq(Seq(PrintedData))
  <2>1. texts \in [1 .. rows -> Seq(PrintedData)]
    BY RowTextPrints DEF RowTexts
  <2> HIDE DEF texts, rows
  <2> QED BY <1>1, <2>1, SeqDef
<1>3. \A k \in 1 .. rows :
        /\ Paired(texts[k])
        /\ Prints(DataPairs(texts[k]), m, b.addr + RowFrom(k), RowBytesOf(b, k))
  BY RowTextPrints
<1>4. Paired(BlockText(m, b))
      /\ pairs = UNION {DataPairs(texts[k]) : k \in 1 .. rows}
  <2> HIDE DEF texts, rows
  <2> QED BY <1>2, <1>3, BlockTextIs, PairsOfFlat DEF texts
<1> HIDE DEF texts, pairs
<1>5. ASSUME NEW p \in pairs
      PROVE  /\ PairOK(p, m)
             /\ \A a \in PairSpan(p) :
                  /\ a \in Span(b.addr, b.bytes)
                  /\ PairSays(p, a) = b.bytes[a - b.addr + 1]
  <2>1. PICK k \in 1 .. rows : p \in DataPairs(texts[k])
    BY <1>4
  <2> DEFINE from == RowFrom(k)
             row == RowBytesOf(b, k)
  <2>2. /\ from \in Nat /\ Len(row) \in Nat /\ DOMAIN row = 1 .. Len(row)
        /\ \A i \in DOMAIN row : /\ row[i] = b.bytes[from + i]
                                 /\ from + i \in 1 .. size
    <3>1. /\ k \in Nat \ {0}
          /\ \A i \in DOMAIN b.bytes : b.bytes[i] \in -128 .. 127
      BY <1>1 DEF FineBlock
    <3> HIDE DEF rows
    <3> QED BY <1>1, <3>1, RowsOfBlock
  <2> HIDE DEF from, row
  <2>3. Prints(DataPairs(texts[k]), m, b.addr + from, row)
    BY <1>3 DEF from, row
  <2>4. ASSUME NEW a \in PairSpan(p)
        PROVE  /\ a \in Span(b.addr, b.bytes)
               /\ PairSays(p, a) = b.bytes[a - b.addr + 1]
    <3>1. /\ a \in Span(b.addr + from, row)
          /\ PairSays(p, a) = row[a - (b.addr + from) + 1]
      BY <2>1, <2>3 DEF Prints
    <3> DEFINE i == a - (b.addr + from) + 1
    <3>2. a \in Int /\ i \in 1 .. Len(row) /\ from + i = a - b.addr + 1
      <4> DEFINE x == b.addr
                 n == Len(row)
      <4>1. x \in Nat /\ from \in Nat /\ n \in Nat
            /\ a \in x + from .. x + from + n - 1
        BY <1>1, <2>2, <3>1 DEF Span
      <4> HIDE DEF x, n
      <4>2. /\ a - (x + from) + 1 \in 1 .. n /\ a \in Int
            /\ from + (a - (x + from) + 1) = a - x + 1
        BY <4>1
      <4> QED BY <4>2 DEF x, n
    <3> HIDE DEF i
    <3>3. row[i] = b.bytes[a - b.addr + 1] /\ a - b.addr + 1 \in 1 .. size
      BY <2>2, <3>2
    <3>4. a \in b.addr .. b.addr + size - 1
      <4> DEFINE x == b.addr
      <4>1. x \in Nat /\ size \in Nat /\ a \in Int /\ a - x + 1 \in 1 .. size
        BY <1>1, <3>2, <3>3
      <4> HIDE DEF x, size
      <4>2. a \in x .. x + size - 1
        BY <4>1
      <4> QED BY <4>2 DEF x
    <3> QED BY <3>1, <3>3, <3>4 DEF i, Span
  <2> QED BY <2>1, <2>3, <2>4 DEF Prints
<1>6. ASSUME NEW a \in Span(b.addr, b.bytes), b.bytes[a - b.addr + 1] # 0
      PROVE  \E p \in pairs : a \in PairSpan(p)
  <2> DEFINE j == a - b.addr
  <2>1. a \in Int /\ j \in 0 .. size - 1
    BY <1>1 DEF Span
  <2>2. PICK k \in 1 .. rows : (k - 1) * RowBytes <= j /\ j < k * RowBytes
    <3> HIDE DEF j, size
    <3> QED BY <1>1, <2>1, RowOfByte DEF RowsOf, size
  <2> DEFINE from == RowFrom(k)
             row == RowBytesOf(b, k)
  <2>3. /\ from \in Nat /\ Len(row) \in Nat /\ DOMAIN row = 1 .. Len(row)
        /\ \A i \in DOMAIN row : row[i] = b.bytes[from + i]
        /\ j - from + 1 \in DOMAIN row
    <3>1. from <= j
      BY <2>2 DEF RowFrom
    <3>2. /\ k \in Nat \ {0}
          /\ \A i \in DOMAIN b.bytes : b.bytes[i] \in -128 .. 127
      BY <1>1 DEF FineBlock
    <3>3. /\ from \in Nat /\ Len(row) \in Nat /\ DOMAIN row = 1 .. Len(row)
          /\ \A i \in DOMAIN row : row[i] = b.bytes[from + i]
          /\ \A i \in 0 .. size - 1 :
               from <= i /\ i < k * RowBytes => i - from + 1 \in DOMAIN row
      <4> HIDE DEF rows
      <4> QED BY <1>1, <3>2, RowsOfBlock
    <3> HIDE DEF from, row, j, rows
    <3> QED BY <2>1, <2>2, <3>1, <3>3
  <2> HIDE DEF from, row
  <2>4. Prints(DataPairs(texts[k]), m, b.addr + from, row)
    BY <1>3 DEF from, row
  <2>5. /\ j - from + 1 = a - (b.addr + from) + 1
        /\ from + (j - from + 1) = a - b.addr + 1
    BY <1>1, <2>1, <2>3
  <2>6. row[a - (b.addr + from) + 1] # 0
    BY <1>6, <2>3, <2>5
  <2>7. a \in Span(b.addr + from, row)
    <3>1. a - (b.addr + from) + 1 \in 1 .. Len(row)
      BY <2>3, <2>5
    <3> DEFINE start == b.addr + from
               n == Len(row)
    <3>2. start \in Int /\ n \in Nat /\ a \in Int /\ a - start + 1 \in 1 .. n
      BY <1>1, <2>1, <2>3, <3>1
    <3> HIDE DEF start, n
    <3>3. a \in start .. start + n - 1
      BY <3>2
    <3> QED BY <3>3 DEF Span, start, n
  <2>8. \E p \in DataPairs(texts[k]) : a \in PairSpan(p)
    BY <2>4, <2>6, <2>7 DEF Prints
  <2> QED BY <1>4, <2>8
<1> QED BY <1>4, <1>5, <1>6 DEF Prints, pairs

FineProgram(p) ==
  /\ p \in Programs
  /\ \A m \in Memories : \A k \in DOMAIN p[m] : FineBlock(p[m][k])

LEMMA BlocksOf ==
  ASSUME NEW p \in Programs, NEW m \in Memories
  PROVE  /\ p[m] \in Seq(Blocks) /\ DOMAIN p[m] = 1 .. Len(p[m])
         /\ Len(p[m]) \in Nat /\ \A k \in DOMAIN p[m] : p[m][k] \in Blocks
<1>1. p[m] \in Seq(Blocks)
  BY DEF Programs, Memories
<1> QED BY <1>1, LenProperties, SeqOfItsRange

(* The pairs of the program's text are those of its blocks.                  *)
BlockPairs(p, m) ==
  UNION {DataPairs(BlockText(m, p[m][k])) : k \in DOMAIN p[m]}

LEMMA MemoryPairs ==
  ASSUME NEW p, FineProgram(p), NEW m \in Memories
  PROVE  /\ Paired(DataText(m, p[m]))
         /\ DataPairs(DataText(m, p[m])) = BlockPairs(p, m)
<1> DEFINE bs == p[m]
           texts == [k \in DOMAIN bs |-> BlockText(m, bs[k])]
<1>1. bs \in Seq(Blocks) /\ \A k \in DOMAIN bs : FineBlock(bs[k])
  BY BlocksOf DEF FineProgram
<1> HIDE DEF bs
<1>2. texts \in Seq(Seq(PrintedData)) /\ DOMAIN texts = DOMAIN bs
  BY <1>1, DataIsText
<1>3. \A k \in DOMAIN texts : texts[k] = BlockText(m, bs[k]) /\ Paired(texts[k])
  BY <1>1, BlockPrints
<1>4. DataText(m, bs) = FlattenSeq(texts)
  BY DEF DataText
<1> HIDE DEF texts
<1>5. /\ Paired(DataText(m, bs))
      /\ DataPairs(DataText(m, bs))
           = UNION {DataPairs(texts[k]) : k \in DOMAIN texts}
  BY <1>2, <1>3, <1>4, PairsOfFlat
<1>6. {DataPairs(texts[k]) : k \in DOMAIN texts}
        = {DataPairs(BlockText(m, bs[k])) : k \in DOMAIN bs}
  BY <1>2, <1>3
<1> QED BY <1>5, <1>6 DEF BlockPairs, bs

(* The lines of code have no data among them.                                *)
LEMMA CodeHasNoPairs ==
  ASSUME NEW p \in Programs
  PROVE  Paired(CodeOfText(p)) /\ DataPairs(CodeOfText(p)) = {}
<1> DEFINE code == CodeOfText(p)
<1>0. code \in Seq(PrintedCode)
  BY PartsOfText
<1>1. \A c \in PrintedCode : c.kind = "instruction"
  <2>1. \A in : Disasm(in).kind = "instruction"
    BY DEF Disasm, Line
  <2> QED BY <2>1 DEF PrintedCode
<1>2. \A n \in DOMAIN code : code[n].kind \notin {"data", "directive"}
  BY <1>0, <1>1, SeqOfItsRange
<1> QED BY <1>2 DEF Paired, DataPairs

LEMMA ProgramPairs ==
  ASSUME NEW p, FineProgram(p)
  PROVE  /\ Paired(ProgramText(p))
         /\ DataPairs(ProgramText(p))
              = BlockPairs(p, "host") \cup BlockPairs(p, "weights")
<1> DEFINE h == DataText("host", p.host)
           w == DataText("weights", p.weights)
           data == DataOfText(p)
           code == CodeOfText(p)
<1>1. /\ h \in Seq(PrintedData) /\ Paired(h)
      /\ DataPairs(h) = BlockPairs(p, "host")
      /\ w \in Seq(PrintedData) /\ Paired(w)
      /\ DataPairs(w) = BlockPairs(p, "weights")
  <2>1. p["host"] \in Seq(Blocks) /\ p["weights"] \in Seq(Blocks)
    BY BlocksOf DEF FineProgram, Memories
  <2>2. "host" \in Memories /\ "weights" \in Memories
    BY DEF Memories
  <2>3. /\ DataText("host", p["host"]) \in Seq(PrintedData)
        /\ DataText("weights", p["weights"]) \in Seq(PrintedData)
    BY <2>1, <2>2, DataIsText
  <2> QED BY <2>2, <2>3, MemoryPairs
<1>2. /\ ProgramText(p) = data \o code /\ data = h \o w
      /\ data \in Seq(PrintedData) /\ code \in Seq(PrintedCode)
  BY PartsOfText DEF FineProgram, DataOfText
<1> HIDE DEF h, w, data, code
<1>3. /\ Paired(data)
      /\ DataPairs(data) = BlockPairs(p, "host") \cup BlockPairs(p, "weights")
  BY <1>1, <1>2, PairsOfBoth
<1>4. Paired(code) /\ DataPairs(code) = {}
  BY CodeHasNoPairs DEF FineProgram, code
<1>5. data \in Seq(TextLines) /\ code \in Seq(TextLines)
  <2>1. PrintedData \subseteq TextLines /\ PrintedCode \subseteq TextLines
    BY DEF TextLines
  <2> QED BY <1>2, <2>1, WiderSeq
<1>6. /\ Paired(data \o code)
      /\ DataPairs(data \o code) = DataPairs(data) \cup DataPairs(code)
  BY <1>3, <1>4, <1>5, PairsOfBoth
<1> QED BY <1>2, <1>3, <1>4, <1>6

(* The last line of a text that says anything of a byte of a memory.         *)
LineOver(t, m, a, n) ==
  /\ t[n].kind = "data" /\ t[n - 1].memory = m
  /\ a \in PairSpan(<<t[n - 1], t[n]>>)

LastSays(t, m, a, x) ==
  \E n \in DOMAIN t :
    /\ LineOver(t, m, a, n)
    /\ PairSays(<<t[n - 1], t[n]>>, a) = x
    /\ \A i \in DOMAIN t : LineOver(t, m, a, i) => i <= n

Silent(t, m, a) ==
  \A p \in DataPairs(t) : p[1].memory = m => a \notin PairSpan(p)

(* Text that is silent of a byte leaves it what the text before it says, and *)
(* text that is not takes it over.                                           *)
LEMMA SilentAfter ==
  ASSUME NEW T, NEW s \in Seq(T), NEW t \in Seq(T), Paired(s), Paired(t),
         NEW m, NEW a, NEW x, LastSays(s, m, a, x), Silent(t, m, a)
  PROVE  LastSays(s \o t, m, a, x)
<1> DEFINE both == s \o t
           l == Len(s)
           k == Len(t)
<1>0. Joins(both, s, t, l, k)
  BY PlacesOfBoth
<1> HIDE DEF both, l, k
<1>1. /\ l \in Nat /\ k \in Nat /\ DOMAIN both = 1 .. l + k
      /\ DOMAIN s = 1 .. l /\ DOMAIN t = 1 .. k
  BY <1>0 DEF Joins
<1>2. \A i \in 1 .. l :
        /\ both[i] = s[i] /\ i \in DOMAIN both
        /\ s[i].kind = "data" => both[i - 1] = s[i - 1]
  BY <1>0 DEF Joins
<1>3. \A i \in 1 .. k :
        /\ both[i + l] = t[i] /\ i \in DOMAIN t
        /\ t[i].kind = "data" => both[i + l - 1] = t[i - 1]
  BY <1>0 DEF Joins
<1>4. \A n \in DOMAIN both : n \in 1 .. l \/ \E i \in 1 .. k : n = i + l
  BY <1>0 DEF Joins
<1>5. PICK n \in 1 .. l :
        /\ LineOver(s, m, a, n)
        /\ PairSays(<<s[n - 1], s[n]>>, a) = x
        /\ \A i \in DOMAIN s : LineOver(s, m, a, i) => i <= n
  BY <1>1 DEF LastSays
<1>6. /\ LineOver(both, m, a, n) /\ n \in DOMAIN both
      /\ PairSays(<<both[n - 1], both[n]>>, a) = x
  BY <1>2, <1>5 DEF LineOver
<1>7. ASSUME NEW i \in DOMAIN both, LineOver(both, m, a, i)
      PROVE  i <= n
  <2>1. CASE i \in 1 .. l
    <3>1. LineOver(s, m, a, i)
      BY <1>2, <1>7, <2>1 DEF LineOver
    <3> QED BY <1>1, <1>5, <2>1, <3>1
  <2>2. CASE \E j \in 1 .. k : i = j + l
    <3>1. PICK j \in 1 .. k : i = j + l
      BY <2>2
    <3>2. both[j + l] = t[j] /\ both[i] = both[j + l] /\ i - 1 = j + l - 1
          /\ j \in DOMAIN t
      BY <1>1, <1>3, <3>1
    <3>3. t[j].kind = "data"
      BY <1>7, <3>2 DEF LineOver
    <3>4. both[i - 1] = t[j - 1]
      BY <1>3, <3>2, <3>3
    <3> DEFINE q == <<t[j - 1], t[j]>>
    <3>5. q \in DataPairs(t)
      BY <3>2, <3>3 DEF DataPairs
    <3>6. q[1].memory = m /\ a \in PairSpan(q)
      BY <1>7, <3>2, <3>4 DEF LineOver
    <3> HIDE DEF q
    <3> QED BY <3>5, <3>6 DEF Silent
  <2> QED BY <1>4, <2>1, <2>2
<1> QED BY <1>6, <1>7 DEF LastSays, both

LEMMA SaysAfter ==
  ASSUME NEW T, NEW s \in Seq(T), NEW t \in Seq(T), Paired(s), Paired(t),
         NEW m, NEW a, NEW x, LastSays(t, m, a, x)
  PROVE  LastSays(s \o t, m, a, x)
<1> DEFINE both == s \o t
           l == Len(s)
           k == Len(t)
<1>0. Joins(both, s, t, l, k)
  BY PlacesOfBoth
<1> HIDE DEF both, l, k
<1>1. /\ l \in Nat /\ k \in Nat /\ DOMAIN both = 1 .. l + k
      /\ DOMAIN s = 1 .. l /\ DOMAIN t = 1 .. k
  BY <1>0 DEF Joins
<1>2. \A i \in 1 .. k :
        /\ both[i + l] = t[i] /\ i + l \in DOMAIN both /\ i \in DOMAIN t
        /\ t[i].kind = "data" => both[i + l - 1] = t[i - 1]
  BY <1>0 DEF Joins
<1>3. \A n \in DOMAIN both : n \in 1 .. l \/ \E i \in 1 .. k : n = i + l
  BY <1>0 DEF Joins
<1>4. PICK n \in 1 .. k :
        /\ LineOver(t, m, a, n)
        /\ PairSays(<<t[n - 1], t[n]>>, a) = x
        /\ \A i \in DOMAIN t : LineOver(t, m, a, i) => i <= n
  BY <1>1 DEF LastSays
<1> DEFINE j == n + l
<1>5. /\ j \in DOMAIN both /\ both[j] = t[n] /\ both[j - 1] = t[n - 1]
      /\ j \in Nat
  BY <1>1, <1>2, <1>4 DEF LineOver
<1>6. ASSUME NEW i \in DOMAIN both, LineOver(both, m, a, i)
      PROVE  i <= j
  <2>1. CASE i \in 1 .. l
    BY <1>1, <2>1
  <2>2. CASE \E h \in 1 .. k : i = h + l
    <3>1. PICK h \in 1 .. k : i = h + l
      BY <2>2
    <3>2. both[h + l] = t[h] /\ both[i] = both[h + l] /\ i - 1 = h + l - 1
          /\ h \in DOMAIN t
      BY <1>1, <1>2, <3>1
    <3>3. t[h].kind = "data"
      BY <1>6, <3>2 DEF LineOver
    <3>4. both[i - 1] = t[h - 1]
      BY <1>2, <3>2, <3>3
    <3>5. LineOver(t, m, a, h)
      BY <1>6, <3>2, <3>4 DEF LineOver
    <3> QED BY <1>1, <1>4, <3>1, <3>2, <3>5
  <2> QED BY <1>3, <2>1, <2>2
<1> HIDE DEF j
<1>7. LineOver(both, m, a, j) /\ PairSays(<<both[j - 1], both[j]>>, a) = x
  BY <1>4, <1>5 DEF LineOver
<1> QED BY <1>5, <1>6, <1>7 DEF LastSays, both

(* A byte that is not zero is in its block's text, and every line there that *)
(* is over it says it.                                                       *)
LEMMA BlockSays ==
  ASSUME NEW m \in Memories, NEW b, FineBlock(b),
         NEW a \in Span(b.addr, b.bytes), b.bytes[a - b.addr + 1] # 0
  PROVE  LastSays(BlockText(m, b), m, a, b.bytes[a - b.addr + 1])
<1> DEFINE t == BlockText(m, b)
           T == {n \in DOMAIN t : LineOver(t, m, a, n)}
<1>1. DOMAIN t = 1 .. Len(t) /\ Len(t) \in Nat
  <2>1. t \in Seq(PrintedData)
    BY BlockIsText DEF FineBlock
  <2> HIDE DEF t
  <2> QED BY <2>1, LenProperties
<1>2. Prints(DataPairs(t), m, b.addr, b.bytes)
  BY BlockPrints
<1> HIDE DEF t
<1>3. PICK q \in DataPairs(t) : a \in PairSpan(q)
  BY <1>2 DEF Prints
<1>4. PICK n \in DOMAIN t : t[n].kind = "data" /\ q = <<t[n - 1], t[n]>>
  BY DEF DataPairs
<1>5. q[1].memory = m
  BY <1>2 DEF Prints, PairOK
<1>6. n \in T
  BY <1>3, <1>4, <1>5 DEF LineOver
<1>7. T \in SUBSET (0 .. Len(t))
  BY <1>1
<1>8. PICK l \in T : \A i \in T : l >= i
  <2> HIDE DEF T
  <2> QED BY <1>1, <1>6, <1>7, GreatestIn
<1>9. LineOver(t, m, a, l) /\ l \in DOMAIN t
  OBVIOUS
<1>10. \A i \in DOMAIN t : LineOver(t, m, a, i) => i <= l
  BY <1>1, <1>8
<1> DEFINE r == <<t[l - 1], t[l]>>
<1>11. r \in DataPairs(t) /\ a \in PairSpan(r)
  BY <1>9 DEF DataPairs, LineOver
<1> HIDE DEF r
<1>12. PairSays(r, a) = b.bytes[a - b.addr + 1]
  BY <1>2, <1>11 DEF Prints
<1> QED BY <1>9, <1>10, <1>12 DEF LastSays, r, t

(* So the last block over a byte has the last word, unless it is a zero.     *)
LEMMA MemorySays ==
  ASSUME NEW p, FineProgram(p), NEW m \in Memories, NEW k \in DOMAIN p[m],
         NEW a \in Span(p[m][k].addr, p[m][k].bytes),
         p[m][k].bytes[a - p[m][k].addr + 1] # 0,
         \A j \in Covering(p[m], a) : j <= k
  PROVE  LastSays(DataText(m, p[m]), m, a, p[m][k].bytes[a - p[m][k].addr + 1])
<1> DEFINE bs == p[m]
           x == bs[k].bytes[a - bs[k].addr + 1]
           texts == [j \in DOMAIN bs |-> BlockText(m, bs[j])]
           N == Len(texts)
<1>1. /\ bs \in Seq(Blocks) /\ DOMAIN bs = 1 .. Len(bs) /\ Len(bs) \in Nat
      /\ \A j \in DOMAIN bs : FineBlock(bs[j])
  BY BlocksOf DEF FineProgram
<1>2. LastSays(BlockText(m, bs[k]), m, a, x)
  BY <1>1, BlockSays
<1>3. \A j \in Covering(bs, a) : j <= k
  OBVIOUS
<1> HIDE DEF bs, x
<1>4. texts \in Seq(Seq(PrintedData)) /\ DOMAIN texts = DOMAIN bs
  BY <1>1, DataIsText
<1>5. \A j \in DOMAIN texts :
        /\ texts[j] = BlockText(m, bs[j]) /\ Paired(texts[j])
        /\ Prints(DataPairs(texts[j]), m, bs[j].addr, bs[j].bytes)
  BY <1>1, BlockPrints
<1>6. DataText(m, bs) = FlattenSeq(texts)
  BY DEF DataText
<1>7. k \in DOMAIN texts
  BY <1>4 DEF bs
<1> HIDE DEF texts
<1>8. N \in Nat /\ DOMAIN texts = 1 .. N
  BY <1>4, LenProperties
<1>9. PICK g : /\ g[0] = << >> /\ g[N] = FlattenSeq(texts)
               /\ \A n \in 0 .. N - 1 : g[n + 1] = g[n] \o texts[n + 1]
  BY <1>4, FlattenSteps
<1> DEFINE S == {n \in Nat : n <= N => /\ g[n] \in Seq(PrintedData)
                                       /\ Paired(g[n])
                                       /\ n >= k => LastSays(g[n], m, a, x)}
<1>10. 0 \in S
  <2>1. << >> \in Seq(PrintedData) /\ Paired(<< >>) /\ ~(0 >= k)
    BY <1>7, <1>8 DEF Paired
  <2> QED BY <1>9, <2>1
<1>11. ASSUME NEW n \in Nat, n \in S PROVE n + 1 \in S
  <2> SUFFICES ASSUME n + 1 <= N
               PROVE  /\ g[n + 1] \in Seq(PrintedData) /\ Paired(g[n + 1])
                      /\ n + 1 >= k => LastSays(g[n + 1], m, a, x)
    OBVIOUS
  <2> DEFINE t == texts[n + 1]
  <2>1. n \in 0 .. N - 1 /\ n + 1 \in DOMAIN texts /\ n + 1 \in Nat
    BY <1>8
  <2>2. /\ t \in Seq(PrintedData) /\ Paired(t) /\ t = BlockText(m, bs[n + 1])
        /\ Prints(DataPairs(t), m, bs[n + 1].addr, bs[n + 1].bytes)
    BY <1>4, <1>5, <1>8, <2>1, ElementOfSeq
  <2>3. g[n + 1] = g[n] \o t
    BY <1>9, <2>1
  <2>4. /\ g[n] \in Seq(PrintedData) /\ Paired(g[n])
        /\ n >= k => LastSays(g[n], m, a, x)
    BY <1>11, <2>1
  <2> HIDE DEF t
  <2>5. g[n] \o t \in Seq(PrintedData) /\ Paired(g[n] \o t)
    BY <2>2, <2>4, ConcatProperties, PairsOfBoth
  <2>6. CASE n + 1 = k
    <3>1. LastSays(t, m, a, x)
      BY <1>2, <2>2, <2>6
    <3> QED BY <2>2, <2>3, <2>4, <2>5, <3>1, SaysAfter
  <2>7. CASE n >= k
    <3>1. n + 1 \notin Covering(bs, a)
      BY <1>3, <1>7, <1>8, <2>7
    <3>2. a \notin Span(bs[n + 1].addr, bs[n + 1].bytes)
      BY <1>4, <2>1, <3>1 DEF Covering
    <3>3. Silent(t, m, a)
      BY <2>2, <3>2 DEF Silent, Prints
    <3> QED BY <2>2, <2>3, <2>4, <2>5, <2>7, <3>3, SilentAfter
  <2>8. n + 1 >= k => n + 1 = k \/ n >= k
    BY <1>7, <1>8
  <2> QED BY <2>3, <2>5, <2>6, <2>7, <2>8
<1> HIDE DEF S
<1>12. N \in S
  BY <1>8, <1>10, <1>11, Induction
<1>13. LastSays(g[N], m, a, x)
  BY <1>7, <1>8, <1>12 DEF S
<1> QED BY <1>6, <1>9, <1>13 DEF bs, x

(* And no line of the text of the other memory or of code is over it.        *)
LEMMA ProgramSays ==
  ASSUME NEW p, FineProgram(p), NEW m \in Memories, NEW a, NEW x,
         LastSays(DataText(m, p[m]), m, a, x)
  PROVE  LastSays(ProgramText(p), m, a, x)
<1> DEFINE h == DataText("host", p["host"])
           w == DataText("weights", p["weights"])
           data == DataOfText(p)
           code == CodeOfText(p)
<1>1. /\ h \in Seq(PrintedData) /\ Paired(h)
      /\ DataPairs(h) = BlockPairs(p, "host")
      /\ w \in Seq(PrintedData) /\ Paired(w)
      /\ DataPairs(w) = BlockPairs(p, "weights")
  <2>1. p["host"] \in Seq(Blocks) /\ p["weights"] \in Seq(Blocks)
    BY BlocksOf DEF FineProgram, Memories
  <2>2. "host" \in Memories /\ "weights" \in Memories
    BY DEF Memories
  <2> QED BY <2>1, <2>2, DataIsText, MemoryPairs
<1>2. /\ ProgramText(p) = data \o code /\ data = h \o w
      /\ data \in Seq(PrintedData) /\ code \in Seq(PrintedCode)
  BY PartsOfText DEF FineProgram, DataOfText
<1>3. \A v \in Memories : \A q \in BlockPairs(p, v) : q[1].memory = v
  <2> TAKE v \in Memories
  <2> TAKE q \in BlockPairs(p, v)
  <2>1. PICK k \in DOMAIN p[v] : q \in DataPairs(BlockText(v, p[v][k]))
    BY DEF BlockPairs
  <2>2. FineBlock(p[v][k])
    BY DEF FineProgram
  <2> QED BY <2>1, <2>2, BlockPrints DEF Prints, PairOK
<1>4. Paired(code) /\ DataPairs(code) = {}
  BY CodeHasNoPairs DEF FineProgram
<1> HIDE DEF h, w, data, code
<1>5. Paired(data)
  BY <1>1, <1>2, PairsOfBoth
<1>6. LastSays(data, m, a, x)
  <2>1. CASE m = "host"
    <3>1. LastSays(h, m, a, x)
      BY <2>1 DEF h
    <3>2. Silent(w, m, a)
      BY <1>1, <1>3, <2>1 DEF Silent, Memories
    <3> QED BY <1>1, <1>2, <3>1, <3>2, SilentAfter
  <2>2. CASE m = "weights"
    <3>1. LastSays(w, m, a, x)
      BY <2>2 DEF w
    <3> QED BY <1>1, <1>2, <3>1, SaysAfter
  <2> QED BY <2>1, <2>2 DEF Memories
<1>7. Silent(code, m, a)
  BY <1>4 DEF Silent
<1>8. data \in Seq(TextLines) /\ code \in Seq(TextLines)
  <2>1. PrintedData \subseteq TextLines /\ PrintedCode \subseteq TextLines
    BY DEF TextLines
  <2> QED BY <1>2, <2>1, WiderSeq
<1> QED BY <1>2, <1>4, <1>5, <1>6, <1>7, <1>8, SilentAfter

(* Where the data lines of a program's text go.                              *)
LEMMA TextLineGoes ==
  ASSUME NEW p, FineProgram(p), NEW n \in DOMAIN ProgramText(p),
         ProgramText(p)[n].kind = "data"
  PROVE  LET src  == ProgramText(p)
             pair == <<src[n - 1], src[n]>>
         IN  \E m \in Memories : \E k \in DOMAIN p[m] :
               /\ pair \in DataPairs(BlockText(m, p[m][k]))
               /\ PairOK(pair, m)
               /\ n \in 1 .. Len(src) /\ n - 1 \in DOMAIN src
               /\ src[n - 1].kind = "directive"
               /\ Owner(src, n) = n - 1
               /\ src[Owner(src, n)].memory = m
               /\ Address(src, n) = StartOf(src[n - 1])
               /\ SpanOf(src, n) = PairSpan(pair)
<1> DEFINE src == ProgramText(p)
           pair == <<src[n - 1], src[n]>>
<1>1. /\ IsSource(src) /\ DOMAIN src = 1 .. Len(src) /\ Len(src) \in Nat
  <2>1. IsSource(src)
    BY ProgramIsText, TextIsSource DEF FineProgram
  <2> HIDE DEF src
  <2> QED BY <2>1, CodeIsFinite
<1>2. pair \in BlockPairs(p, "host") \cup BlockPairs(p, "weights")
  <2>1. pair \in DataPairs(src)
    BY DEF DataPairs
  <2> HIDE DEF pair
  <2> QED BY <2>1, ProgramPairs
<1>3. PICK m \in Memories : \E k \in DOMAIN p[m] :
        pair \in DataPairs(BlockText(m, p[m][k]))
  <2> HIDE DEF pair
  <2> QED BY <1>2 DEF BlockPairs, Memories
<1>4. PICK k \in DOMAIN p[m] : pair \in DataPairs(BlockText(m, p[m][k]))
  BY <1>3
<1>5. PairOK(pair, m)
  <2>1. FineBlock(p[m][k])
    BY DEF FineProgram
  <2> HIDE DEF pair
  <2> QED BY <1>4, <2>1, BlockPrints DEF Prints
<1>6. n > 1 /\ src[n - 1].kind = "directive"
  BY ProgramPairs DEF Paired
<1> HIDE DEF src
<1>7. n \in Nat /\ n - 1 \in 1 .. Len(src) /\ n - 2 \in Nat
      /\ (n - 2) + 1 = n - 1 /\ (n - 1) + 1 = n
  BY <1>1, <1>6 DEF src
<1>8. Owner(src, n) = n - 1
  <2>1. Owner(src, n - 1) = n - 1
    BY <1>6, <1>7, OwnerIs
  <2>2. src[n].kind # "directive"
    BY DEF src
  <2> QED BY <1>7, <2>1, <2>2, OwnerIs
<1>9. Address(src, n) = StartOf(src[n - 1])
  <2> DEFINE start == StartOf(src[n - 1])
             f == Filled(src)[n - 1]
  <2>1. f \in Nat
    BY <1>1, <1>7, FilledIs
  <2>2. start \in Nat
    BY <1>5 DEF PairOK
  <2>3. Address(src, n) = start + f - f
    BY <1>8 DEF Address
  <2> HIDE DEF start, f
  <2> QED BY <2>1, <2>2, <2>3 DEF start
<1>10. src[n - 1].memory = m
  BY <1>5 DEF PairOK
<1>11. SpanOf(src, n) = PairSpan(pair)
  BY <1>9 DEF SpanOf, PairSpan
<1> HIDE DEF pair
<1> QED BY <1>1, <1>4, <1>5, <1>6, <1>7, <1>8, <1>9, <1>10, <1>11
        DEF src, pair

(* What is said of a byte by a text is what its last line over it says.      *)
LEMMA SaidIsLast ==
  ASSUME NEW p, FineProgram(p), NEW m \in Memories, NEW a, NEW x,
         LastSays(ProgramText(p), m, a, x)
  PROVE  Said(ProgramText(p), m, a, Len(ProgramText(p))) = x
<1> DEFINE src == ProgramText(p)
           over == Over(src, m, a, Len(src))
           pair(n) == <<src[n - 1], src[n]>>
<1>1. DOMAIN src = 1 .. Len(src) /\ Len(src) \in Nat
  <2>1. IsSource(src)
    BY ProgramIsText, TextIsSource DEF FineProgram
  <2> HIDE DEF src
  <2> QED BY <2>1, CodeIsFinite
<1>2. ASSUME NEW n \in DOMAIN src, src[n].kind = "data"
      PROVE  /\ Owner(src, n) = n - 1 /\ Address(src, n) = StartOf(src[n - 1])
             /\ SpanOf(src, n) = PairSpan(pair(n))
  BY <1>2, TextLineGoes
<1> HIDE DEF src, pair
<1>3. \A n \in DOMAIN src : n \in over <=> LineOver(src, m, a, n)
  BY <1>1, <1>2 DEF Over, DataOf, LineOver, pair
<1>4. PICK n \in DOMAIN src :
        /\ LineOver(src, m, a, n)
        /\ PairSays(pair(n), a) = x
        /\ \A i \in DOMAIN src : LineOver(src, m, a, i) => i <= n
  BY DEF LastSays, src, pair
<1>5. over \in SUBSET (0 .. Len(src)) /\ over \subseteq DOMAIN src
  BY <1>1 DEF Over, DataOf
<1>6. n \in over /\ \A i \in over : i <= n
  BY <1>3, <1>4, <1>5
<1> HIDE DEF over
<1>7. Max(over) = n
  BY <1>1, <1>5, <1>6, MaxIs
<1>8. Said(src, m, a, Len(src)) = AsInt8(src[n].values[a - Address(src, n) + 1])
  BY <1>6, <1>7 DEF Said, over
<1>9. PairSays(pair(n), a) = AsInt8(src[n].values[a - Address(src, n) + 1])
  <2>1. src[n].kind = "data"
    BY <1>4 DEF LineOver
  <2> QED BY <1>2, <2>1 DEF PairSays, pair
<1> QED BY <1>4, <1>8, <1>9 DEF src

(* The text says of a byte nothing that no block over it says.               *)
LEMMA SaidByABlock ==
  ASSUME NEW p, FineProgram(p), NEW m \in Memories, NEW a
  PROVE  Said(ProgramText(p), m, a, Len(ProgramText(p)))
           \in SaidOf(p[m], a) \cup {0}
<1> DEFINE src == ProgramText(p)
           over == Over(src, m, a, Len(src))
           bs == p[m]
           pair(n) == <<src[n - 1], src[n]>>
<1>1. /\ DOMAIN src = 1 .. Len(src) /\ Len(src) \in Nat
  <2>1. IsSource(src)
    BY ProgramIsText, TextIsSource DEF FineProgram
  <2> HIDE DEF src
  <2> QED BY <2>1, CodeIsFinite
<1>2. \A k \in DOMAIN bs :
        Prints(DataPairs(BlockText(m, bs[k])), m, bs[k].addr, bs[k].bytes)
  BY BlockPrints DEF FineProgram
<1>3. ASSUME NEW n \in over
      PROVE  AsInt8(src[n].values[a - Address(src, n) + 1]) \in SaidOf(bs, a)
  <2>1. n \in DOMAIN src /\ src[n].kind = "data"
        /\ src[Owner(src, n)].memory = m /\ a \in SpanOf(src, n)
    BY DEF Over, DataOf
  <2>2. PICK w \in Memories : \E k \in DOMAIN p[w] :
          /\ pair(n) \in DataPairs(BlockText(w, p[w][k]))
          /\ src[Owner(src, n)].memory = w
          /\ Address(src, n) = StartOf(src[n - 1])
          /\ SpanOf(src, n) = PairSpan(pair(n))
    BY <2>1, TextLineGoes
  <2>3. w = m
    BY <2>1, <2>2
  <2>4. PICK k \in DOMAIN bs :
          /\ pair(n) \in DataPairs(BlockText(m, bs[k]))
          /\ Address(src, n) = StartOf(src[n - 1])
          /\ SpanOf(src, n) = PairSpan(pair(n))
    BY <2>2, <2>3
  <2>5. /\ a \in Span(bs[k].addr, bs[k].bytes)
        /\ PairSays(pair(n), a) = bs[k].bytes[a - bs[k].addr + 1]
    <3>1. a \in PairSpan(pair(n))
      BY <2>1, <2>4
    <3> HIDE DEF pair, bs
    <3> QED BY <1>2, <2>4, <3>1 DEF Prints
  <2>6. PairSays(pair(n), a) = AsInt8(src[n].values[a - Address(src, n) + 1])
    BY <2>4 DEF PairSays
  <2>7. bs[k] \in Range(bs)
    <3> HIDE DEF bs
    <3> QED BY DEF Range
  <2> HIDE DEF bs, src, pair
  <2> QED BY <2>5, <2>6, <2>7 DEF SaidOf
<1>4. over # {} => Max(over) \in over
  <2>1. over \in SUBSET (0 .. Len(src))
    BY <1>1 DEF Over, DataOf
  <2> HIDE DEF over, src
  <2> QED BY <1>1, <2>1, GreatestOf
<1>5. Said(src, m, a, Len(src))
        = IF over = {} THEN 0
          ELSE AsInt8(src[Max(over)].values[a - Address(src, Max(over)) + 1])
  BY DEF Said
<1> HIDE DEF over, src, bs
<1> QED BY <1>3, <1>4, <1>5 DEF src, bs

(* The text of a program says of each byte what its blocks leave there, but  *)
(* of a zero over an earlier block it may say what that block does.          *)
LEMMA TextSays ==
  ASSUME NEW p, FineProgram(p), NEW m \in Memories, NEW a,
         NEW x, x = Said(ProgramText(p), m, a, Len(ProgramText(p)))
  PROVE  x = Cell(p[m], a) \/ (Cell(p[m], a) = 0 /\ x \in SaidOf(p[m], a))
<1> DEFINE bs == p[m]
<1>1. x \in SaidOf(bs, a) \cup {0}
  BY SaidByABlock
<1>2. bs \in Seq(Blocks) /\ DOMAIN bs = 1 .. Len(bs) /\ Len(bs) \in Nat
  BY BlocksOf DEF FineProgram
<1>3. CASE Cell(bs, a) # 0
  <2> DEFINE k == Max(Covering(bs, a))
  <2>1. Covering(bs, a) # {}
    BY <1>3, CellIs
  <2>2. Covering(bs, a) \in SUBSET (0 .. Len(bs))
    <3> HIDE DEF bs
    <3> QED BY <1>2 DEF Covering
  <2>3. k \in Covering(bs, a) /\ \A j \in Covering(bs, a) : j <= k
    <3> DEFINE T == Covering(bs, a)
    <3> HIDE DEF T, bs
    <3>1. PICK l \in T : \A j \in T : l >= j
      BY <1>2, <2>1, <2>2, GreatestIn DEF T
    <3>2. \A j \in T : j <= l
      BY <2>2, <3>1 DEF T
    <3>3. Max(T) = l
      BY <1>2, <2>2, <3>2, MaxIs DEF T
    <3> QED BY <3>2, <3>3 DEF T
  <2>4. Cell(bs, a) = bs[k].bytes[a - bs[k].addr + 1]
    BY <2>1, CellIs
  <2> HIDE DEF k
  <2>5. k \in DOMAIN bs /\ a \in Span(bs[k].addr, bs[k].bytes)
    BY <2>3 DEF Covering
  <2>6. LastSays(DataText(m, bs), m, a, Cell(bs, a))
    BY <1>3, <2>3, <2>4, <2>5, MemorySays
  <2>7. x = Cell(bs, a)
    <3> DEFINE y == Cell(bs, a)
    <3>1. LastSays(DataText(m, p[m]), m, a, y)
      BY <2>6
    <3> HIDE DEF y, bs
    <3>2. LastSays(ProgramText(p), m, a, y)
      BY <3>1, ProgramSays
    <3> QED BY <3>2, SaidIsLast DEF y
  <2> QED BY <2>7
<1>4. CASE Cell(bs, a) = 0
  BY <1>1, <1>4
<1> QED BY <1>3, <1>4

(* disasm names each operand once, every one that is not zero among them.    *)
LEMMA KeysPrinted ==
  ASSUME NEW in, WellFormed(in), Encodes(in)
  PROVE  LET keys == PrintedKeys(in)
             all  == {keys[i] : i \in DOMAIN keys}
         IN  /\ DOMAIN keys \subseteq Nat
             /\ \A i, j \in DOMAIN keys : keys[i] = keys[j] => i = j
             /\ OperandKeys(in.op) \subseteq all
             /\ all \subseteq OperandKeys(in.op) \cup OptionalKeys(in.op)
             /\ \A key \in Keys \ all : in.arg[key] = Zero
<1> DEFINE keys == PrintedKeys(in)
           all == {keys[i] : i \in DOMAIN keys}
<1>1. in.op \in DOMAIN Opcode
  BY DEF WellFormed, Instr
<1>2. \A key \in Keys \ (OperandKeys(in.op) \cup OptionalKeys(in.op)) :
        in.arg[key] = Zero
  BY <1>1, OpKeys DEF WellFormed
<1>3. CASE in.op = "ReadHostMemory"
  <2>1. keys = <<"host", "ub", "rows">>
    BY <1>3 DEF PrintedKeys
  <2>2. OperandKeys(in.op) = {"host", "ub", "rows"} /\ OptionalKeys(in.op) = {}
    BY <1>3 DEF OperandKeys, OptionalKeys
  <2> HIDE DEF keys
  <2>3. all = {"host", "ub", "rows"}
    BY <2>1
  <2> HIDE DEF all
  <2>4. /\ DOMAIN keys \subseteq Nat
        /\ \A i, j \in DOMAIN keys : keys[i] = keys[j] => i = j
    BY <2>1
  <2> QED BY <1>2, <2>2, <2>3, <2>4 DEF keys, all
<1>4. CASE in.op = "WriteHostMemory"
  <2>1. keys = <<"ub", "host", "rows">>
    BY <1>4 DEF PrintedKeys
  <2>2. OperandKeys(in.op) = {"host", "ub", "rows"} /\ OptionalKeys(in.op) = {}
    BY <1>4 DEF OperandKeys, OptionalKeys
  <2> HIDE DEF keys
  <2>3. all = {"host", "ub", "rows"}
    BY <2>1
  <2> HIDE DEF all
  <2>4. /\ DOMAIN keys \subseteq Nat
        /\ \A i, j \in DOMAIN keys : keys[i] = keys[j] => i = j
    BY <2>1
  <2> QED BY <1>2, <2>2, <2>3, <2>4 DEF keys, all
<1>5. CASE in.op = "ReadWeights"
  <2>1. keys = <<"tile">>
    BY <1>5 DEF PrintedKeys
  <2>2. OperandKeys(in.op) = {"tile"} /\ OptionalKeys(in.op) = {}
    BY <1>5 DEF OperandKeys, OptionalKeys
  <2> HIDE DEF keys
  <2>3. all = {"tile"}
    BY <2>1
  <2> HIDE DEF all
  <2>4. /\ DOMAIN keys \subseteq Nat
        /\ \A i, j \in DOMAIN keys : keys[i] = keys[j] => i = j
    BY <2>1
  <2> QED BY <1>2, <2>2, <2>3, <2>4 DEF keys, all
<1>6. CASE in.op = "MatrixMultiply"
  <2>1. keys = <<"ub", "acc", "rows", "accumulate", "new_weights">>
    BY <1>6 DEF PrintedKeys
  <2>2. /\ OperandKeys(in.op) = {"ub", "acc", "rows", "accumulate",
                                 "new_weights"}
        /\ OptionalKeys(in.op) = {}
    BY <1>6 DEF OperandKeys, OptionalKeys
  <2> HIDE DEF keys
  <2>3. all = {"ub", "acc", "rows", "accumulate", "new_weights"}
    BY <2>1
  <2> HIDE DEF all
  <2>4. /\ DOMAIN keys \subseteq Nat
        /\ \A i, j \in DOMAIN keys : keys[i] = keys[j] => i = j
    BY <2>1
  <2> QED BY <1>2, <2>2, <2>3, <2>4 DEF keys, all
<1>7. CASE in.op = "Activate"
  <2>0. /\ OperandKeys(in.op) = {"acc", "ub", "rows", "shift", "function"}
        /\ OptionalKeys(in.op) = {"pool", "size", "width"}
    BY <1>7 DEF OperandKeys, OptionalKeys
  <2>1. CASE in.arg["pool"] = Zero
    <3>1. keys = <<"acc", "ub", "rows", "shift", "function">> \o << >>
      BY <1>7, <2>1 DEF PrintedKeys
    <3>2. keys = <<"acc", "ub", "rows", "shift", "function">>
      BY <3>1
    <3>3. in.arg["size"] = Zero /\ in.arg["width"] = Zero
      BY <1>7, <2>1 DEF Encodes, PoolingOK
    <3> HIDE DEF keys
    <3>4. all = {"acc", "ub", "rows", "shift", "function"}
      BY <3>2
    <3> HIDE DEF all
    <3>5. /\ DOMAIN keys \subseteq Nat
          /\ \A i, j \in DOMAIN keys : keys[i] = keys[j] => i = j
      BY <3>2
    <3> QED BY <1>2, <2>0, <2>1, <3>3, <3>4, <3>5 DEF keys, all
  <2>2. CASE in.arg["pool"] # Zero
    <3>1. keys = <<"acc", "ub", "rows", "shift", "function">> \o
                   <<"pool", "size", "width">>
      BY <1>7, <2>2 DEF PrintedKeys
    <3>2. keys = <<"acc", "ub", "rows", "shift", "function",
                   "pool", "size", "width">>
      <4> DEFINE a == <<"acc", "ub", "rows", "shift", "function">>
                 b == <<"pool", "size", "width">>
                 c == <<"acc", "ub", "rows", "shift", "function",
                        "pool", "size", "width">>
      <4>1. /\ a \in Seq(Keys) /\ b \in Seq(Keys) /\ c \in Seq(Keys)
            /\ Len(a) = 5 /\ Len(b) = 3 /\ Len(c) = 8
        BY DEF Keys
      <4>2. \A i \in 1 .. 8 : c[i] = IF i <= 5 THEN a[i] ELSE b[i - 5]
        OBVIOUS
      <4>3. keys = a \o b
        BY <3>1
      <4> HIDE DEF a, b, c, keys
      <4>4. /\ keys \in Seq(Keys) /\ Len(keys) = 8
            /\ \A i \in 1 .. 8 : keys[i] = IF i <= 5 THEN a[i] ELSE b[i - 5]
        <5>1. /\ a \o b \in Seq(Keys) /\ Len(a \o b) = Len(a) + Len(b)
              /\ \A i \in 1 .. Len(a) + Len(b) :
                   (a \o b)[i] = IF i <= Len(a) THEN a[i] ELSE b[i - Len(a)]
          BY <4>1, ConcatProperties
        <5>2. Len(a) + Len(b) = 8
          BY <4>1
        <5> QED BY <4>1, <4>3, <5>1, <5>2
      <4>5. keys = c
        <5>1. \A i \in 1 .. Len(keys) : keys[i] = c[i]
          BY <4>2, <4>4
        <5> QED BY <4>1, <4>4, <5>1, SeqEqual
      <4> QED BY <4>5 DEF c
    <3> HIDE DEF keys
    <3>4. all = {"acc", "ub", "rows", "shift", "function",
                 "pool", "size", "width"}
      BY <3>2
    <3> HIDE DEF all
    <3>5. /\ DOMAIN keys \subseteq Nat
          /\ \A i, j \in DOMAIN keys : keys[i] = keys[j] => i = j
      BY <3>2
    <3> QED BY <1>2, <2>0, <3>4, <3>5 DEF keys, all
  <2> QED BY <2>1, <2>2
<1>8. CASE in.op \in {"Nop", "Halt", "Sync"}
  <2>1. keys = << >>
    BY <1>8 DEF PrintedKeys
  <2>2. OperandKeys(in.op) = {} /\ OptionalKeys(in.op) = {}
    BY <1>8 DEF OperandKeys, OptionalKeys
  <2> HIDE DEF keys
  <2>3. all = {}
    BY <2>1
  <2> HIDE DEF all
  <2>4. /\ DOMAIN keys \subseteq Nat
        /\ \A i, j \in DOMAIN keys : keys[i] = keys[j] => i = j
    BY <2>1
  <2> QED BY <1>2, <2>2, <2>3, <2>4 DEF keys, all
<1> QED BY <1>1, <1>3, <1>4, <1>5, <1>6, <1>7, <1>8 DEF Opcode

LEMMA PrintedParses ==
  ASSUME NEW in, WellFormed(in), Encodes(in)
  PROVE  /\ Disasm(in).kind = "instruction"
         /\ LineOK(Disasm(in)) /\ Parsed(Disasm(in)) = in
<1> DEFINE keys == PrintedKeys(in)
           all == {keys[i] : i \in DOMAIN keys}
           s == Disasm(in)
           ops == s.operands
           of(key) == {i \in DOMAIN ops : ops[i].key = key}
           arg == [key \in Keys |->
                     IF of(key) = {} THEN Zero ELSE ops[Max(of(key))].value]
<1>1. /\ DOMAIN keys \subseteq Nat
      /\ \A i, j \in DOMAIN keys : keys[i] = keys[j] => i = j
      /\ OperandKeys(in.op) \subseteq all
      /\ all \subseteq OperandKeys(in.op) \cup OptionalKeys(in.op)
      /\ \A key \in Keys \ all : in.arg[key] = Zero
  BY KeysPrinted
<1>2. /\ s.kind = "instruction" /\ s.op = in.op
      /\ ops = [i \in DOMAIN keys |-> Operand(keys[i], in.arg[keys[i]], TRUE)]
  BY DEF Disasm, Line
<1>3. /\ in.op \in DOMAIN Opcode /\ in \in Instr /\ in.arg \in [Keys -> U32]
  BY DEF WellFormed, Instr
<1> HIDE DEF keys, s
<1>4. /\ DOMAIN ops = DOMAIN keys
      /\ \A i \in DOMAIN keys : /\ ops[i].key = keys[i] /\ ops[i].ok
                                /\ ops[i].value = in.arg[keys[i]]
  <2>1. DOMAIN ops = DOMAIN keys
    BY <1>2
  <2>2. ASSUME NEW i \in DOMAIN keys
        PROVE  /\ ops[i].key = keys[i] /\ ops[i].ok
               /\ ops[i].value = in.arg[keys[i]]
    <3>1. ops[i] = Operand(keys[i], in.arg[keys[i]], TRUE)
      BY <1>2
    <3> HIDE DEF ops
    <3> QED BY <3>1 DEF Operand
  <2> HIDE DEF ops
  <2> QED BY <2>1, <2>2
<1>5. Parsed(s) = [op |-> s.op, arg |-> arg]
  BY DEF Parsed
<1> HIDE DEF ops
<1>6. KeysOf(ops) = all
  BY <1>4 DEF KeysOf
<1>7. OperandsOK(s.op, ops)
  <2>1. \A i \in DOMAIN ops : ops[i].ok
    BY <1>4
  <2>2. GivenOnce(ops)
    BY <1>1, <1>4 DEF GivenOnce
  <2> HIDE DEF all
  <2> QED BY <1>1, <1>2, <1>6, <2>1, <2>2 DEF OperandsOK
<1>8. ASSUME NEW key \in Keys PROVE arg[key] = in.arg[key]
  <2>1. CASE key \in all
    <3>1. PICK i \in DOMAIN keys : key = keys[i]
      BY <2>1
    <3>2. of(key) = {i}
      BY <1>1, <1>4, <3>1
    <3>3. Max({i}) = i
      <4>1. i \in Nat
        BY <1>1
      <4> QED BY <4>1 DEF Max
    <3>4. arg[key] = IF of(key) = {} THEN Zero ELSE ops[Max(of(key))].value
      OBVIOUS
    <3> HIDE DEF of, arg
    <3> QED BY <1>4, <3>1, <3>2, <3>3, <3>4
  <2>2. CASE key \notin all
    <3>1. of(key) = {}
      BY <1>4, <2>2
    <3>2. arg[key] = IF of(key) = {} THEN Zero ELSE ops[Max(of(key))].value
      OBVIOUS
    <3> HIDE DEF of, arg, all
    <3> QED BY <1>1, <2>2, <3>1, <3>2
  <2> QED BY <2>1, <2>2
<1>9. Parsed(s) = in
  <2>1. DOMAIN arg = Keys /\ arg = [key \in Keys |-> arg[key]]
    OBVIOUS
  <2> HIDE DEF arg
  <2>2. arg = in.arg
    BY <1>3, <1>8, <2>1
  <2> QED BY <1>2, <1>3, <1>5, <2>2 DEF Instr
<1>10. LineOK(s)
  BY <1>2, <1>3, <1>7, <1>9 DEF LineOK, ops
<1> QED BY <1>2, <1>9, <1>10 DEF s

(* Every line of a program's text is one that the assembler takes.           *)
LEMMA TextOfData ==
  ASSUME NEW p, FineProgram(p), NEW n \in DOMAIN ProgramText(p)
  PROVE  LET text == ProgramText(p)
         IN  /\ text[n].kind = "directive" =>
                  Placed(text[n]) /\ n <= Len(DataOfText(p))
             /\ text[n].kind = "data" =>
                  /\ n > 1 /\ text[n - 1].kind = "directive"
                  /\ \A i \in DOMAIN text[n].values : Int8OK(text[n].values[i])
                  /\ n <= Len(DataOfText(p))
             /\ text[n].kind = "instruction" => n > Len(DataOfText(p))
<1> DEFINE text == ProgramText(p)
           data == DataOfText(p)
           code == CodeOfText(p)
<1>1. /\ text = data \o code
      /\ data \in Seq(PrintedData) /\ code \in Seq(PrintedCode)
  BY PartsOfText DEF FineProgram
<1>2. /\ Len(data) \in Nat /\ Len(code) \in Nat
      /\ \A i \in DOMAIN data : data[i] \in PrintedData
      /\ \A i \in DOMAIN code : code[i] \in PrintedCode
      /\ DOMAIN data = 1 .. Len(data) /\ DOMAIN code = 1 .. Len(code)
  <2> HIDE DEF data, code
  <2> QED BY <1>1, LenProperties, SeqOfItsRange
<1>3. /\ n \in 1 .. Len(data) + Len(code)
      /\ text[n] = IF n <= Len(data) THEN data[n] ELSE code[n - Len(data)]
  BY <1>1, <1>2
<1>4. \A d \in PrintedData :
        /\ d.kind \in {"directive", "data"}
        /\ d.kind = "directive" => Placed(d)
  BY DEF PrintedData, Directive, Values
<1>5. \A c \in PrintedCode : c.kind = "instruction"
  <2>1. \A in : Disasm(in).kind = "instruction"
    BY DEF Disasm, Line
  <2> QED BY <2>1 DEF PrintedCode
<1>6. n <= Len(data) => text[n] \in PrintedData
  <2> HIDE DEF text, data, code
  <2> QED BY <1>2, <1>3
<1>7. n > Len(data) => text[n] \in PrintedCode
  <2> HIDE DEF text, data, code
  <2>1. n > Len(data) => n - Len(data) \in 1 .. Len(code) /\ ~(n <= Len(data))
    BY <1>2, <1>3
  <2> QED BY <1>2, <1>3, <2>1
<1>8. text[n].kind = "data" =>
        /\ n > 1 /\ text[n - 1].kind = "directive"
        /\ \A i \in DOMAIN text[n].values : Int8OK(text[n].values[i])
  <2> SUFFICES ASSUME text[n].kind = "data"
               PROVE  /\ n > 1 /\ text[n - 1].kind = "directive"
                      /\ \A i \in DOMAIN text[n].values :
                           Int8OK(text[n].values[i])
    OBVIOUS
  <2> DEFINE pair == <<text[n - 1], text[n]>>
  <2>1. \E m \in Memories : PairOK(pair, m)
    BY TextLineGoes
  <2>2. \A i \in DOMAIN pair[2].values : Int8OK(pair[2].values[i])
    <3> HIDE DEF pair
    <3> QED BY <2>1 DEF PairOK
  <2>3. pair[2] = text[n]
    OBVIOUS
  <2>4. n > 1 /\ text[n - 1].kind = "directive"
    <3>1. Paired(text)
      BY ProgramPairs
    <3> HIDE DEF text
    <3> QED BY <3>1 DEF Paired, text
  <2> HIDE DEF text, pair
  <2> QED BY <2>2, <2>3, <2>4
<1>9. n <= Len(data) \/ n > Len(data)
  BY <1>2, <1>3
<1> HIDE DEF text, data, code
<1> QED BY <1>4, <1>5, <1>6, <1>7, <1>8, <1>9 DEF text, data

LEMMA TextOfCode ==
  ASSUME NEW p, FineProgram(p), NEW n \in DOMAIN ProgramText(p),
         n > Len(DataOfText(p))
  PROVE  LET text == ProgramText(p)
             k    == n - Len(DataOfText(p))
         IN  /\ text[n].kind = "instruction" /\ LineOK(text[n])
             /\ k \in 1 .. Len(p.code)
             /\ Encode(Parsed(text[n])) = p.code[k]
<1> DEFINE text == ProgramText(p)
           data == DataOfText(p)
           code == CodeOfText(p)
           k == n - Len(data)
<1>1. /\ text = data \o code
      /\ data \in Seq(PrintedData) /\ code \in Seq(PrintedCode)
      /\ Len(code) = Len(p.code) /\ p.code \in Seq(Words)
  BY PartsOfText DEF FineProgram, Programs
<1>2. Len(data) \in Nat /\ Len(code) \in Nat
  <2> HIDE DEF data, code
  <2> QED BY <1>1, LenProperties
<1>3. n \in 1 .. Len(data) + Len(code) /\ text[n] = code[k]
  BY <1>1, <1>2
<1>4. k \in 1 .. Len(p.code) /\ DOMAIN p.code = 1 .. Len(p.code)
  <2>1. DOMAIN p.code = 1 .. Len(p.code)
    BY <1>1, LenProperties
  <2> HIDE DEF data, code, text
  <2> QED BY <1>1, <1>2, <1>3, <2>1 DEF data
<1>5. code[k] = Disasm(Decode(p.code[k]))
  <2> HIDE DEF k
  <2> QED BY <1>4 DEF CodeOfText
<1>6. PICK in \in Instr : /\ WellFormed(in) /\ Encodes(in)
                          /\ p.code[k] = Encode(in)
  <2>1. p.code[k] \in Words
    <3> HIDE DEF k
    <3> QED BY <1>1, <1>4, SeqOfItsRange
  <2> HIDE DEF k
  <2> QED BY <2>1 DEF Words
<1> HIDE DEF text, data, code, k
<1>7. Decode(p.code[k]) = in
  BY <1>6, EncodeIsDecoded
<1>8. text[n] = Disasm(in)
  BY <1>3, <1>5, <1>7
<1>9. /\ Disasm(in).kind = "instruction"
      /\ LineOK(Disasm(in)) /\ Parsed(Disasm(in)) = in
  BY <1>6, PrintedParses
<1> QED BY <1>4, <1>6, <1>8, <1>9 DEF text, data, k

LEMMA TextLength ==
  ASSUME NEW p, FineProgram(p)
  PROVE  /\ Len(ProgramText(p)) = Len(DataOfText(p)) + Len(p.code)
         /\ Len(DataOfText(p)) \in Nat /\ Len(p.code) \in Nat
<1>1. /\ ProgramText(p) = DataOfText(p) \o CodeOfText(p)
      /\ DataOfText(p) \in Seq(PrintedData)
      /\ CodeOfText(p) \in Seq(PrintedCode)
      /\ Len(CodeOfText(p)) = Len(p.code) /\ p.code \in Seq(Words)
  BY PartsOfText DEF FineProgram, Programs
<1>2. /\ Len(DataOfText(p)) \in Nat /\ Len(CodeOfText(p)) \in Nat
  BY <1>1, LenProperties
<1>3. DataOfText(p) \in Seq(TextLines) /\ CodeOfText(p) \in Seq(TextLines)
  <2>1. PrintedData \subseteq TextLines /\ PrintedCode \subseteq TextLines
    BY DEF TextLines
  <2> QED BY <1>1, <2>1, WiderSeq
<1>4. Len(ProgramText(p)) = Len(DataOfText(p)) + Len(CodeOfText(p))
  BY <1>1, <1>3, ConcatProperties
<1> QED BY <1>1, <1>2, <1>4

-----------------------------------------------------------------------------
(* Inductive: every block begins a row and holds bytes.                      *)
FineInv ==
  \A m \in Memories : \A k \in DOMAIN program[m] : FineBlock(program[m][k])

(* The text is taken line by line, its data first, and its code so far is    *)
(* the beginning of the code it was printed from.                            *)
Reread(p) ==
  LET text == ProgramText(p)
      data == Len(DataOfText(p))
  IN  /\ FineProgram(p) /\ source = text /\ ~error
      /\ line > 0 /\ text[line].kind = "directive" => block # "none"
      /\ Len(program.code) = IF line <= data THEN 0 ELSE line - data
      /\ \A k \in 1 .. Len(program.code) : program.code[k] = p.code[k]

(* Inductive: unless a directive was refused for its row, which only a text  *)
(* with a byte past the last one that can be named has.                      *)
RereadInv ==
  typed # << >> => IF error THEN ~InReach(typed[1]) ELSE Reread(typed[1])

LEMMA OpenBlockFine == AsmTypeInv /\ FineInv /\ OpenBlock => FineInv'
<1> SUFFICES ASSUME AsmTypeInv, FineInv, OpenBlock PROVE FineInv'
  OBVIOUS
<1> DEFINE m == Statement.memory
           new == [addr |-> StartOf(Statement), bytes |-> << >>]
           old == program[m]
<1>1. /\ DirectiveOK(Statement) /\ m \in Memories
      /\ Statement.address \in Seq(Int) /\ IsStatement(Statement)
  BY ReadingLine DEF OpenBlock, DirectiveOK, IsStatement, Memories
<1>2. /\ program' = [program EXCEPT ![m] = Append(old, new)]
      /\ program' \in Programs /\ program \in Programs
  BY OpenBlockType DEF OpenBlock, AsmTypeInv
<1>3. /\ program'[m] = Append(old, new) /\ old \in Seq(Blocks)
      /\ program'[m] \in Seq(Blocks)
      /\ \A w \in Memories : w # m => program'[w] = program[w]
  BY <1>1, <1>2 DEF Programs, Memories
<1>4. FineBlock(new)
  <2>1. new \in Blocks
    <3> HIDE DEF new, old, m
    <3>1. /\ Len(Append(old, new)) = Len(old) + 1 /\ Len(old) \in Nat
          /\ Append(old, new)[Len(old) + 1] = new
          /\ Append(old, new) \in Seq(Blocks)
      BY <1>3, LenProperties
    <3> QED BY <3>1, ElementOfSeq
  <2>2. \E q \in Nat : new.addr = RowBytes * q
    <3> DEFINE a == Statement.address
               t == a[1] * TileRows + (IF Len(a) = 2 THEN a[2] ELSE 0)
               row == IF m = "host" THEN a[1] ELSE t
    <3>1. /\ Len(a) \in {1, 2} /\ a[1] \in 0 .. LastAddress
          /\ Len(a) = 2 => a[2] \in 0 .. TileRows - 1
      BY <1>1 DEF DirectiveOK
    <3>2. a[1] \in Nat /\ (IF Len(a) = 2 THEN a[2] ELSE 0) \in Nat
      BY <3>1, TextSizes
    <3>3. a[1] * TileRows \in Nat
      BY <3>2, TextSizes
    <3>4. t \in Nat
      BY <3>2, <3>3
    <3>5. new.addr = RowBytes * row
      BY DEF StartOf
    <3> HIDE DEF t
    <3>6. row \in Nat
      BY <3>2, <3>4
    <3> QED BY <3>5, <3>6
  <2>3. \A i \in DOMAIN new.bytes : new.bytes[i] \in -128 .. 127
    <3>1. new.bytes = << >> /\ DOMAIN << >> = {}
      OBVIOUS
    <3> HIDE DEF new
    <3> QED BY <3>1
  <2> HIDE DEF new
  <2> QED BY <2>1, <2>2, <2>3 DEF FineBlock
<1> HIDE DEF new
<1>5. ASSUME NEW k \in DOMAIN Append(old, new)
      PROVE  FineBlock(Append(old, new)[k])
  <2>0. \A i \in DOMAIN old : FineBlock(old[i])
    BY <1>1 DEF FineInv
  <2> HIDE DEF old
  <2>1. /\ Len(old) \in Nat /\ DOMAIN old = 1 .. Len(old)
        /\ k \in 1 .. Len(old) + 1
    BY <1>3, LenProperties
  <2>2. CASE k \in 1 .. Len(old)
    BY <1>3, <2>0, <2>1, <2>2
  <2>3. CASE k = Len(old) + 1
    BY <1>3, <1>4, <2>1, <2>3
  <2> QED BY <2>1, <2>2, <2>3
<1> HIDE DEF old, m
<1>6. \A w \in Memories : \A k \in DOMAIN program'[w] :
        FineBlock(program'[w][k])
  <2> TAKE w \in Memories
  <2>1. CASE w = m
    BY <1>3, <1>5, <2>1
  <2>2. CASE w # m
    BY <1>3, <2>2 DEF FineInv
  <2> QED BY <2>1, <2>2
<1> QED BY <1>6 DEF FineInv

LEMMA AppendDataFine == AsmTypeInv /\ FineInv /\ AppendData => FineInv'
<1> SUFFICES ASSUME AsmTypeInv, FineInv, AppendData PROVE FineInv'
  OBVIOUS
<1> DEFINE v == Statement.values
           new == [i \in DOMAIN v |-> AsInt8(v[i])]
           bs == program[block]
           last == Len(bs)
           more == [bs EXCEPT ![last].bytes = @ \o new]
<1>1. /\ block \in Memories /\ v \in DataValues
      /\ \A i \in DOMAIN v : Int8OK(v[i])
  BY ReadingLine DEF AppendData, DataOK, IsStatement, AsmTypeInv, Memories
<1>2. new \in Seq(Int) /\ \A i \in DOMAIN new : new[i] \in -128 .. 127
  <2> DEFINE E == [hex : BOOLEAN, n : Int]
  <2>1. v \in Seq(E) /\ \A e \in E : e.n \in Int /\ e.hex \in BOOLEAN
    BY <1>1 DEF DataValues
  <2> HIDE DEF v, E
  <2>2. DOMAIN v = 1 .. Len(v) /\ Len(v) \in Nat
    BY <2>1, LenProperties
  <2>3. ASSUME NEW i \in DOMAIN v
        PROVE  AsInt8(v[i]) \in -128 .. 127 /\ AsInt8(v[i]) \in Int
    <3>1. v[i].n \in Int /\ v[i].hex \in BOOLEAN
      BY <2>1, SeqOfItsRange
    <3> QED BY <1>1, <3>1 DEF AsInt8, Int8OK
  <2>4. new \in [1 .. Len(v) -> Int] /\ DOMAIN new = DOMAIN v
    <3>1. ASSUME NEW i \in 1 .. Len(v) PROVE AsInt8(v[i]) \in Int
      <4>1. i \in DOMAIN v
        BY <2>2
      <4> QED BY <2>3, <4>1
    <3> QED BY <2>2, <3>1
  <2>5. \A i \in DOMAIN v : new[i] = AsInt8(v[i])
    OBVIOUS
  <2> DEFINE n == Len(v)
  <2> HIDE DEF new, n
  <2>6. n \in Nat /\ new \in [1 .. n -> Int]
    BY <2>2, <2>4 DEF n
  <2>7. new \in Seq(Int)
    BY <2>6, SeqDef
  <2>8. ASSUME NEW i \in DOMAIN new PROVE new[i] \in -128 .. 127
    <3>1. i \in DOMAIN v /\ new[i] = AsInt8(v[i])
      BY <2>4, <2>5
    <3> QED BY <2>3, <3>1
  <2> QED BY <2>7, <2>8
<1>3. bs \in Seq(Blocks) /\ \A k \in DOMAIN bs : FineBlock(bs[k])
  BY <1>1 DEF AsmTypeInv, Programs, FineInv, Memories
<1>4. program' = [program EXCEPT ![block] = more] /\ program \in Programs
  BY DEF AppendData, AsmTypeInv
<1>5. /\ program'[block] = more /\ program' \in Programs
      /\ \A w \in Memories : w # block => program'[w] = program[w]
  BY <1>1, <1>4, AppendDataType DEF Programs, Memories
<1>6. more \in Seq(Blocks)
  BY <1>1, <1>5 DEF Programs, Memories
<1> HIDE DEF new, bs, v
<1>7. ASSUME NEW k \in DOMAIN more PROVE FineBlock(more[k])
  <2>1. k \in DOMAIN bs /\ FineBlock(bs[k]) /\ bs[k] \in Blocks
    BY <1>3 DEF FineBlock
  <2>2. more[k] \in Blocks
    <3> HIDE DEF more
    <3> QED BY <1>6, SeqOfItsRange
  <2>3. CASE k # last
    BY <2>1, <2>3
  <2>4. CASE k = last
    <3>1. more[k].addr = bs[k].addr /\ more[k].bytes = bs[k].bytes \o new
      BY <2>1, <2>4 DEF Blocks
    <3> DEFINE old == bs[k].bytes
    <3>2. old \in Seq(Int) /\ \A i \in DOMAIN old : old[i] \in -128 .. 127
      BY <2>1 DEF FineBlock, Blocks
    <3> HIDE DEF old
    <3>3. ASSUME NEW i \in DOMAIN (old \o new)
          PROVE  (old \o new)[i] \in -128 .. 127
      <4>1. /\ Len(old) \in Nat /\ DOMAIN old = 1 .. Len(old)
            /\ Len(new) \in Nat /\ DOMAIN new = 1 .. Len(new)
        BY <1>2, <3>2, LenProperties
      <4>2. /\ i \in 1 .. Len(old) + Len(new)
            /\ (old \o new)[i] = IF i <= Len(old) THEN old[i]
                                                  ELSE new[i - Len(old)]
        BY <1>2, <3>2, <4>1
      <4>3. CASE i <= Len(old)
        <5>1. i \in DOMAIN old
          BY <4>1, <4>2, <4>3
        <5> QED BY <3>2, <4>2, <4>3, <5>1
      <4>4. CASE ~(i <= Len(old))
        <5>1. i - Len(old) \in DOMAIN new
          BY <4>1, <4>2, <4>4
        <5> QED BY <1>2, <4>2, <4>4, <5>1
      <4> QED BY <4>3, <4>4
    <3> HIDE DEF more
    <3> QED BY <2>1, <2>2, <3>1, <3>3 DEF FineBlock, old
  <2> QED BY <2>3, <2>4
<1> HIDE DEF more
<1>8. \A w \in Memories : \A k \in DOMAIN program'[w] :
        FineBlock(program'[w][k])
  <2> TAKE w \in Memories
  <2>1. CASE w = block
    BY <1>5, <1>7, <2>1
  <2>2. CASE w # block
    BY <1>5, <2>2 DEF FineInv
  <2> QED BY <2>1, <2>2
<1> QED BY <1>8 DEF FineInv

LEMMA NothingIsFine ==
  \A m \in Memories : \A k \in DOMAIN NoProgram[m] : FineBlock(NoProgram[m][k])
BY DEF NoProgram, Memories

LEMMA NextFine == AsmTypeInv /\ FineInv /\ [AsmNext]_asmVars => FineInv'
<1> SUFFICES ASSUME AsmTypeInv, FineInv, [AsmNext]_asmVars PROVE FineInv'
  OBVIOUS
<1>1. CASE AppendCode
  <2>1. \A m \in Memories : program'[m] = program[m]
    BY <1>1 DEF AppendCode, AsmTypeInv, Programs, Memories
  <2> QED BY <2>1 DEF FineInv
<1>2. CASE Fail \/ PrintText
  <2>1. program' = NoProgram
    BY <1>2 DEF Fail, PrintText
  <2> QED BY <2>1, NothingIsFine DEF FineInv
<1>3. CASE UNCHANGED asmVars
  BY <1>3 DEF asmVars, FineInv
<1> QED BY <1>1, <1>2, <1>3, OpenBlockFine, AppendDataFine DEF AsmNext

(* The line of the text that is read, and what it adds.                      *)
LEMMA RereadingLine ==
  ASSUME AsmTypeInv, typed # << >>, Reread(typed[1]), NEW kind, Reading(kind)
  PROVE  LET text == ProgramText(typed[1])
             n    == line + 1
         IN  /\ line \in Nat /\ n \in DOMAIN text /\ n \in Nat /\ n - 1 = line
             /\ Statement = text[n] /\ text[n].kind = kind
             /\ FineProgram(typed[1]) /\ source = text /\ ~error
             /\ Len(DataOfText(typed[1])) \in Nat
BY ReadingLine, TextLength DEF Reread, Reading

(* A row past the last one that can be named begins past what can be reached.*)
LEMMA PastReach ==
  ASSUME NEW d, Placed(d), ~DirectiveOK(d)
  PROVE  /\ StartOf(d) \in Nat /\ Reach(d.memory) \in Nat
         /\ StartOf(d) >= Reach(d.memory)
<1> DEFINE r == d.address[1]
           l == LastAddress
           x == IF Len(d.address) = 2 THEN d.address[2] ELSE 0
           T == TileRows
           B == RowBytes
<1>1. l \in Nat /\ T \in Nat /\ B \in Nat
  BY TextSizes
<1>2. r \in Nat /\ r >= l + 1 /\ x \in Nat
  <2>1. r \in Nat /\ r \notin 0 .. l
    BY DEF Placed, DirectiveOK, Memories
  <2>2. x \in Nat
    BY DEF Placed
  <2> HIDE DEF r, l, x
  <2> QED BY <1>1, <2>1, <2>2
<1>3. d.memory \in {"host", "weights"}
  BY DEF Placed, Memories
<1>4. CASE d.memory = "host"
  <2>1. StartOf(d) = B * r /\ Reach(d.memory) = B * (l + 1) * 1
    BY <1>4 DEF StartOf, Reach
  <2> HIDE DEF r, l, x, T, B
  <2>2. /\ B * r >= B * (l + 1) * 1 /\ B * r \in Nat
        /\ B * (l + 1) * 1 \in Nat
    BY <1>1, <1>2, Z3
  <2> QED BY <2>1, <2>2
<1>5. CASE d.memory = "weights"
  <2>1. /\ StartOf(d) = B * (r * T + x)
        /\ Reach(d.memory) = B * (l + 1) * T
    BY <1>5 DEF StartOf, Reach
  <2> HIDE DEF r, l, x, T, B
  <2>2. r * T >= (l + 1) * T /\ r * T \in Nat /\ (l + 1) * T \in Nat
    BY <1>1, <1>2, Z3
  <2>3. r * T + x >= (l + 1) * T /\ r * T + x \in Nat
    BY <1>2, <2>2
  <2>4. \A y, z \in Nat : y >= z => B * y >= B * z /\ B * z \in Nat
    BY <1>1, Z3
  <2>5. B * ((l + 1) * T) = B * (l + 1) * T
    BY <1>1, Z3
  <2>6. /\ B * (r * T + x) >= B * ((l + 1) * T)
        /\ B * (r * T + x) \in Nat /\ B * ((l + 1) * T) \in Nat
    BY <2>2, <2>3, <2>4
  <2> QED BY <2>1, <2>5, <2>6
<1> QED BY <1>3, <1>4, <1>5

(* Under each directive of a text is a byte that is not zero, of a block.    *)
LEMMA RowHasAByte ==
  ASSUME NEW p, FineProgram(p), NEW n \in DOMAIN ProgramText(p),
         ProgramText(p)[n].kind = "directive"
  PROVE  LET d == ProgramText(p)[n]
         IN  /\ Placed(d)
             /\ \E k \in DOMAIN p[d.memory] :
                  LET b == p[d.memory][k]
                  IN  /\ b \in Blocks
                      /\ \E a \in Span(b.addr, b.bytes) :
                           a >= StartOf(d) /\ b.bytes[a - b.addr + 1] # 0
<1> DEFINE d == ProgramText(p)[n]
<1>1. PICK q \in DataPairs(ProgramText(p)) : q[1] = d
  BY ProgramPairs DEF Paired
<1> HIDE DEF d
<1>2. PICK m \in Memories : q \in BlockPairs(p, m)
  BY <1>1, ProgramPairs DEF Memories
<1>3. PICK k \in DOMAIN p[m] : q \in DataPairs(BlockText(m, p[m][k]))
  BY <1>2 DEF BlockPairs
<1> DEFINE b == p[m][k]
<1>4. FineBlock(b)
  BY DEF FineProgram
<1> HIDE DEF b
<1>5. Prints(DataPairs(BlockText(m, b)), m, b.addr, b.bytes)
  BY <1>4, BlockPrints
<1>6. PairOK(q, m)
  BY <1>3, <1>5 DEF Prints, b
<1>7. PICK a \in PairSpan(q) : PairSays(q, a) # 0
  BY <1>6 DEF PairOK
<1>8. /\ a \in Span(b.addr, b.bytes) /\ b.bytes[a - b.addr + 1] # 0
      /\ a >= StartOf(d)
  <2>1. a \in Span(b.addr, b.bytes) /\ PairSays(q, a) = b.bytes[a - b.addr + 1]
    BY <1>3, <1>5 DEF Prints, b
  <2>2. a >= StartOf(q[1])
    BY <1>6 DEF PairSpan, Span, PairOK
  <2> QED BY <1>1, <1>7, <2>1, <2>2
<1>9. Placed(d) /\ d.memory = m /\ b \in Blocks
  BY <1>1, <1>4, <1>6 DEF PairOK, FineBlock
<1> QED BY <1>8, <1>9 DEF d, b

(* A line of a program's text is refused only for its row.                   *)
LEMMA FailsOutOfReach ==
  ASSUME AsmTypeInv, typed # << >>, Reread(typed[1]), Fail
  PROVE  ~InReach(typed[1])
<1> DEFINE p == typed[1]
           text == ProgramText(p)
           n == line + 1
<1>1. CASE Reading("directive") /\ ~DirectiveOK(Statement)
  <2>1. /\ FineProgram(p) /\ n \in DOMAIN text /\ Statement = text[n]
        /\ text[n].kind = "directive"
    BY <1>1, RereadingLine
  <2> HIDE DEF p, n
  <2> DEFINE d == text[n]
             m == d.memory
  <2>2. Placed(d)
    BY <2>1, RowHasAByte
  <2>3. PICK k \in DOMAIN p[m] :
          /\ p[m][k] \in Blocks
          /\ \E a \in Span(p[m][k].addr, p[m][k].bytes) :
               a >= StartOf(d) /\ p[m][k].bytes[a - p[m][k].addr + 1] # 0
    BY <2>1, RowHasAByte
  <2> DEFINE b == p[m][k]
  <2>4. PICK a \in Span(b.addr, b.bytes) :
          a >= StartOf(d) /\ b.bytes[a - b.addr + 1] # 0
    BY <2>3
  <2>5. StartOf(d) >= Reach(m) /\ Reach(m) \in Nat /\ StartOf(d) \in Nat
    BY <1>1, <2>1, <2>2, PastReach
  <2>6. m \in Memories /\ b \in Range(p[m]) /\ b \in Blocks
    BY <2>2, <2>3 DEF Placed, Range
  <2> HIDE DEF b, d, m
  <2> DEFINE i == a - b.addr + 1
  <2>7. i \in DOMAIN b.bytes /\ b.bytes[i] # 0 /\ ~(b.addr + i <= Reach(m))
    <3>1. /\ b.addr \in Nat /\ Len(b.bytes) \in Nat
          /\ DOMAIN b.bytes = 1 .. Len(b.bytes)
      BY <2>6, LenProperties DEF Blocks
    <3>2. a \in b.addr .. b.addr + Len(b.bytes) - 1
      BY DEF Span
    <3>3. /\ a - b.addr + 1 \in 1 .. Len(b.bytes)
          /\ b.addr + (a - b.addr + 1) = a + 1
      BY <3>1, <3>2
    <3>4. ~(a + 1 <= Reach(m))
      BY <2>4, <2>5, <3>1, <3>2
    <3> QED BY <2>4, <3>1, <3>3, <3>4
  <2> HIDE DEF i
  <2> QED BY <2>6, <2>7 DEF InReach, p
<1>2. CASE Reading("data") /\ ~DataOK(Statement)
  <2>1. /\ FineProgram(p) /\ n \in DOMAIN text /\ Statement = text[n]
        /\ text[n].kind = "data" /\ line \in Nat /\ n - 1 = line
    BY <1>2, RereadingLine
  <2>2. /\ n > 1 /\ text[n - 1].kind = "directive"
        /\ \A i \in DOMAIN text[n].values : Int8OK(text[n].values[i])
    <3> HIDE DEF p, n
    <3> QED BY <2>1, TextOfData
  <2>3. block # "none"
    BY <2>1, <2>2 DEF Reread
  <2> HIDE DEF text, n
  <2> QED BY <1>2, <2>1, <2>2, <2>3 DEF DataOK
<1>3. CASE Reading("instruction") /\ ~LineOK(Statement)
  <2>1. /\ FineProgram(p) /\ n \in DOMAIN text /\ Statement = text[n]
        /\ text[n].kind = "instruction"
    BY <1>3, RereadingLine
  <2> HIDE DEF p, n
  <2>2. n > Len(DataOfText(p))
    BY <2>1, TextOfData
  <2>3. LineOK(text[n])
    BY <2>1, <2>2, TextOfCode
  <2> QED BY <1>3, <2>1, <2>3
<1> QED BY <1>1, <1>2, <1>3 DEF Fail

LEMMA DataRereads ==
  AsmTypeInv /\ RereadInv /\ (OpenBlock \/ AppendData) => RereadInv'
<1> SUFFICES ASSUME AsmTypeInv, RereadInv, OpenBlock \/ AppendData,
                    typed # << >>
             PROVE  Reread(typed[1])'
  BY DEF RereadInv, OpenBlock, AppendData, Reading
<1> DEFINE p == typed[1]
           text == ProgramText(p)
           n == line + 1
           data == Len(DataOfText(p))
<1>1. Reread(p)
  BY DEF RereadInv, OpenBlock, AppendData, Reading
<1>2. PICK kind \in {"directive", "data"} : Reading(kind)
  BY DEF OpenBlock, AppendData
<1>3. /\ line \in Nat /\ n \in DOMAIN text /\ n \in Nat
      /\ text[n].kind = kind
      /\ FineProgram(p) /\ source = text /\ ~error /\ data \in Nat
  BY <1>1, <1>2, RereadingLine
<1>4. n <= data
  <2> HIDE DEF p, n
  <2> QED BY <1>3, TextOfData DEF p
<1>5. /\ line' = n /\ UNCHANGED <<source, error, typed>>
      /\ program'.code = program.code
  BY OpenBlockType, AppendDataType DEF OpenBlock, AppendData
<1>6. text[n].kind = "directive" => block' # "none"
  <2> SUFFICES ASSUME text[n].kind = "directive" PROVE block' # "none"
    OBVIOUS
  <2>1. Statement.kind = "directive"
    BY <1>1, <1>2, <1>3, RereadingLine
  <2>2. OpenBlock
    BY <2>1 DEF AppendData, Reading, Statement
  <2>3. DirectiveOK(Statement) /\ block' = Statement.memory
    BY <2>2 DEF OpenBlock
  <2> QED BY <2>3 DEF DirectiveOK
<1>7. /\ Len(program.code) = IF line <= data THEN 0 ELSE line - data
      /\ \A k \in 1 .. Len(program.code) : program.code[k] = p.code[k]
  BY <1>1 DEF Reread
<1>8. Len(program.code) = 0 /\ n <= data
  <2>1. line <= data
    BY <1>3, <1>4
  <2> HIDE DEF data, n
  <2> QED BY <1>4, <1>7, <2>1
<1>9. typed'[1] = p
  BY <1>5
<1>10. Reread(p)'
  <2>1. /\ source' = text /\ ~error' /\ line' = n
        /\ Len(program'.code) = IF n <= data THEN 0 ELSE n - data
        /\ \A k \in 1 .. Len(program'.code) : program'.code[k] = p.code[k]
    BY <1>3, <1>5, <1>7, <1>8
  <2> QED BY <1>3, <1>5, <1>6, <1>9, <2>1 DEF Reread
<1> QED BY <1>9, <1>10

LEMMA CodeRereads == AsmTypeInv /\ RereadInv /\ AppendCode => RereadInv'
<1> SUFFICES ASSUME AsmTypeInv, RereadInv, AppendCode, typed # << >>
             PROVE  Reread(typed[1])'
  BY DEF RereadInv, AppendCode, Reading
<1> DEFINE p == typed[1]
           text == ProgramText(p)
           n == line + 1
           data == Len(DataOfText(p))
           code == program.code
           word == p.code[n - data]
<1>1. Reread(p)
  BY DEF RereadInv, AppendCode, Reading
<1>2. Reading("instruction")
  BY DEF AppendCode
<1>3. /\ line \in Nat /\ n \in DOMAIN text /\ n \in Nat
      /\ text[n].kind = "instruction" /\ Statement = text[n]
      /\ FineProgram(p) /\ source = text /\ ~error /\ data \in Nat
  BY <1>1, <1>2, RereadingLine
<1>4. n > data
  <2> HIDE DEF p, n
  <2> QED BY <1>3, TextOfData DEF p
<1>5. Encode(Parsed(Statement)) = word
  <2> HIDE DEF p, n
  <2> QED BY <1>3, <1>4, TextOfCode DEF p
<1>6. /\ line' = n /\ UNCHANGED <<source, error, typed>>
      /\ program'.code = Append(code, word)
  BY <1>5, AppendCodeType DEF AppendCode
<1>7. /\ Len(code) = IF line <= data THEN 0 ELSE line - data
      /\ \A k \in 1 .. Len(code) : code[k] = p.code[k]
      /\ code \in Seq(Words)
  BY <1>1 DEF Reread, AsmTypeInv, Programs
<1>8. word \in Words
  <2>1. Encode(Parsed(Statement)) \in Words
    <3>1. IsLine(Statement) /\ LineOK(Statement)
      BY ReadingLine DEF AppendCode, IsStatement
    <3> QED BY <3>1, ParsedIsItsLine DEF Words, WellFormed
  <2> QED BY <1>5, <2>1
<1>9. Len(code) = line - data /\ n - data = Len(code) + 1
      /\ ~(n <= data) /\ Len(code) \in Nat
  <2> HIDE DEF data, p, text, code, word
  <2> QED BY <1>3, <1>4, <1>7
<1>10. word = p.code[Len(code) + 1]
  BY <1>9
<1> HIDE DEF word
<1>11. /\ Len(Append(code, word)) = Len(code) + 1
       /\ Append(code, word)[Len(code) + 1] = word
       /\ \A k \in 1 .. Len(code) : Append(code, word)[k] = code[k]
  <2> HIDE DEF code
  <2> QED BY <1>7, <1>8, <1>9
<1>12. \A k \in 1 .. Len(Append(code, word)) :
         Append(code, word)[k] = p.code[k]
  <2> HIDE DEF code, p
  <2>1. \A k \in 1 .. Len(code) + 1 : k \in 1 .. Len(code) \/ k = Len(code) + 1
    BY <1>9
  <2> QED BY <1>7, <1>10, <1>11, <2>1
<1>13. typed'[1] = p
  BY <1>6
<1>14. Reread(p)'
  <2>1. /\ source' = text /\ ~error' /\ line' = n
        /\ Len(program'.code) = IF n <= data THEN 0 ELSE n - data
        /\ \A k \in 1 .. Len(program'.code) : program'.code[k] = p.code[k]
    BY <1>3, <1>6, <1>9, <1>11, <1>12
  <2> QED BY <1>3, <1>6, <1>13, <2>1 DEF Reread
<1> QED BY <1>13, <1>14

LEMMA PrintRereads ==
  AsmTypeInv /\ FineInv /\ PrintText => RereadInv'
<1> SUFFICES ASSUME AsmTypeInv, FineInv, PrintText PROVE RereadInv'
  OBVIOUS
<1>1. /\ typed' = <<program>> /\ source' = ProgramText(program) /\ line' = 0
      /\ program' = NoProgram /\ ~error'
  BY DEF PrintText, Assembled
<1>2. FineProgram(program)
  BY DEF AsmTypeInv, FineInv, FineProgram
<1>3. typed'[1] = program
  BY <1>1
<1>4. Len(DataOfText(program)) \in Nat
  BY <1>2, TextLength
<1>5. Len(NoProgram.code) = 0
  BY DEF NoProgram
<1>6. Reread(typed[1])'
  <2>1. /\ 0 <= Len(DataOfText(program)) /\ ~(0 > 0)
        /\ Len(program'.code) = 0 /\ 1 .. Len(program'.code) = {}
    BY <1>1, <1>4, <1>5
  <2> QED BY <1>1, <1>2, <1>3, <2>1 DEF Reread
<1> QED BY <1>1, <1>6 DEF RereadInv

LEMMA NextRereads ==
  AsmTypeInv /\ FineInv /\ RereadInv /\ [AsmNext]_asmVars => RereadInv'
<1> SUFFICES ASSUME AsmTypeInv, FineInv, RereadInv, [AsmNext]_asmVars
             PROVE  RereadInv'
  OBVIOUS
<1>1. CASE Fail
  <2>1. ~error /\ error' /\ typed' = typed
    BY <1>1 DEF Fail, Reading
  <2>2. typed # << >> => ~InReach(typed[1])
    BY <1>1, <2>1, FailsOutOfReach DEF RereadInv
  <2> QED BY <2>1, <2>2 DEF RereadInv, InReach
<1>2. CASE UNCHANGED asmVars
  BY <1>2 DEF asmVars, RereadInv, Reread
<1> QED BY <1>1, <1>2, DataRereads, CodeRereads, PrintRereads DEF AsmNext

(* The text of a program is read to its own words and its own bytes, but for *)
(* zeros over bytes of earlier blocks; and without an error, unless a byte   *)
(* that is not zero lies past the last row that a directive can name. Every  *)
(* program of the assembler begins its blocks at rows, so it has a text      *)
(* (asm.h:18, asm.cpp:199, 373, 399).                                        *)
THEOREM TextIsReadBack == AsmSpec => []TextReadsBack
<1>1. AsmInit => FineInv /\ RereadInv
  BY NothingIsFine DEF AsmInit, FineInv, RereadInv
<1>2. FineInv => Aligned(program)
  <2> SUFFICES ASSUME FineInv, NEW m \in Memories, NEW k \in DOMAIN program[m]
               PROVE  program[m][k].addr % RowBytes = 0
    BY DEF Aligned, Memories
  <2>1. PICK q \in Nat : program[m][k].addr = RowBytes * q
    BY DEF FineInv, FineBlock
  <2>2. \A d \in Nat \ {0} : (d * q) % d = 0
    BY Z3
  <2> QED BY <2>1, <2>2, TextSizes
<1>3. ASSUME AsmTypeInv, DataInv, RereadInv, typed # << >>, Assembled
      PROVE  /\ program.code = typed[1].code
             /\ \A m \in Memories : SameButLostZeros(program[m], typed[1][m])
  <2> DEFINE p == typed[1]
             text == ProgramText(p)
  <2>1. Reread(p) /\ FineProgram(p) /\ source = text
    BY <1>3 DEF RereadInv, Reread, Assembled
  <2>2. line = Len(text) /\ ~error
    BY <1>3, <2>1 DEF Assembled
  <2>3. program.code = p.code
    <3> DEFINE code == program.code
               data == Len(DataOfText(p))
    <3>1. /\ Len(text) = data + Len(p.code)
          /\ data \in Nat /\ Len(p.code) \in Nat
      BY <2>1, TextLength
    <3>2. /\ Len(code) = IF line <= data THEN 0 ELSE line - data
          /\ \A k \in 1 .. Len(code) : code[k] = p.code[k]
      BY <2>1 DEF Reread
    <3>3. code \in Seq(Words) /\ p.code \in Seq(Words)
      BY <1>3, <2>1 DEF AsmTypeInv, FineProgram, Programs
    <3>4. Len(code) = Len(p.code)
      <4> HIDE DEF code, data, p, text
      <4> QED BY <2>2, <3>1, <3>2
    <3> HIDE DEF code, p
    <3> QED BY <3>2, <3>3, <3>4, SeqEqual DEF code
  <2>4. ASSUME NEW m \in Memories, NEW a \in Int
        PROVE  \/ Cell(program[m], a) = Cell(p[m], a)
               \/ /\ Cell(p[m], a) = 0
                  /\ Cell(program[m], a) \in SaidOf(p[m], a)
    <3>1. Cell(program[m], a) = Said(source, m, a, line)
      BY <1>3, <2>2 DEF DataInv, Landed
    <3> DEFINE x == Said(text, m, a, Len(text))
    <3>2. x = Cell(p[m], a) \/ (Cell(p[m], a) = 0 /\ x \in SaidOf(p[m], a))
      <4> HIDE DEF p
      <4> QED BY <2>1, TextSays
    <3> HIDE DEF p
    <3> QED BY <2>1, <2>2, <3>1, <3>2
  <2>5. ASSUME NEW m \in Memories PROVE SameButLostZeros(program[m], p[m])
    <3>1. \A q : Touched(q) \subseteq Int
      BY DEF Touched, Span
    <3> HIDE DEF p
    <3> QED BY <2>4, <3>1 DEF SameButLostZeros
  <2> QED BY <2>3, <2>5
<1>4. AsmTypeInv /\ DataInv /\ FineInv /\ RereadInv => TextReadsBack
  <2>1. RereadInv /\ typed # << >> /\ error => ~InReach(typed[1])
    BY DEF RereadInv
  <2> QED BY <1>2, <1>3, <2>1 DEF TextReadsBack
<1>5. AsmSpec => []AsmTypeInv
  BY InitAsm, NextAsm, PTL DEF AsmSpec
<1>6. AsmSpec => []DataInv
  <2>1. AsmInit => DataInv
    BY SourcesAssumption, NothingLanded DEF AsmInit, DataInv
  <2> QED BY <1>5, <2>1, NextLands, PTL DEF AsmSpec
<1> QED BY <1>1, <1>4, <1>5, <1>6, NextFine, NextRereads, PTL DEF AsmSpec
=============================================================================
