--------------------------- MODULE CompiledProofs ---------------------------
(* Whatever the network, what the program compiled of it leaves in host       *)
(* memory is what the reference computes, on a machine of any size.           *)
EXTENDS TpuProofs, CompiledTpu

-----------------------------------------------------------------------------
(* A program as the concatenation of its parts                               *)

(* The parts one after the other, up to each of them.                        *)
Joins(joined, g, n, T) ==
  /\ joined[0] = << >> /\ joined[n] = FlattenSeq(g)
  /\ \A k \in 0 .. n : joined[k] \in Seq(T)
  /\ \A k \in 1 .. n : joined[k] = joined[k - 1] \o g[k]

LEMMA FlattenJoins ==
  ASSUME NEW T, NEW n \in Nat, NEW g \in [1 .. n -> Seq(T)]
  PROVE  \E joined : Joins(joined, g, n, T)
<1> DEFINE V == Seq(T)
           G == [at \in (1 .. n) \X V |-> at[2] \o g[at[1]]]
<1>1. << >> \in V
  BY EmptySeq
<1>2. G \in [(1 .. n) \X V -> V]
  <2>1. \A at \in (1 .. n) \X V : at[2] \o g[at[1]] \in V
    BY ConcatProperties
  <2> HIDE DEF V
  <2> QED BY <2>1
<1>3. PICK F : /\ Stepwise(F, n, << >>, G)
               /\ \A k \in 0 .. n : F[k] \in V
  <2> HIDE DEF V, G
  <2> QED BY <1>1, <1>2, StepwiseExists
<1>4. F[0] = << >>
  BY <1>3 DEF Stepwise
<1>5. ASSUME NEW k \in 1 .. n PROVE F[k] = F[k - 1] \o g[k]
  <2>1. k \in 0 .. n /\ k # 0 /\ k - 1 \in 0 .. n
    OBVIOUS
  <2>2. F[k] = G[<<k, F[k - 1]>>] /\ F[k - 1] \in V
    BY <1>3, <2>1 DEF Stepwise
  <2>3. <<k, F[k - 1]>> \in (1 .. n) \X V
    BY <2>2
  <2> QED BY <2>2, <2>3
<1> HIDE DEF G, V
<1>6. Len(g) = n
  <2>1. g \in Seq(Seq(T))
    OBVIOUS
  <2> QED BY <2>1, LenProperties
<1>7. F[n] = FlattenSeq(g)
  <2>1. CASE n = 0
    <3>1. g = << >>
      BY <1>6, <2>1, EmptySeq
    <3> QED BY <1>4, <1>6, <2>1, <3>1 DEF FlattenSeq
  <2>2. CASE n # 0
    <3> DEFINE Is(f) == f = [i \in 1 .. n |->
                               IF i = 1 THEN g[i] ELSE f[i - 1] \o g[i]]
               H == [i \in 1 .. n |-> F[i]]
               C == CHOOSE f : Is(f)
    <3>1. Is(H)
      <4>1. ASSUME NEW i \in 1 .. n
            PROVE  F[i] = IF i = 1 THEN g[i] ELSE H[i - 1] \o g[i]
        <5>1. CASE i = 1
          <6>1. F[i] = F[0] \o g[1] /\ g[1] \in Seq(T)
            BY <1>5, <5>1
          <6> QED BY <1>4, <5>1, <6>1, ConcatEmptySeq
        <5>2. CASE i # 1
          <6>1. i - 1 \in 1 .. n
            BY <5>2
          <6>2. H[i - 1] = F[i - 1]
            BY <6>1
          <6> HIDE DEF H
          <6> QED BY <1>5, <5>2, <6>2
        <5> QED BY <5>1, <5>2
      <4>2. DOMAIN H = 1 .. n /\ \A i \in 1 .. n : H[i] = F[i]
        OBVIOUS
      <4>3. H = [i \in 1 .. n |-> H[i]]
        OBVIOUS
      <4> HIDE DEF H
      <4> QED BY <4>1, <4>2, <4>3, ZenonT(60)
    <3>2. Is(C)
      <4> HIDE DEF Is, H
      <4> QED BY <3>1
    <3> DEFINE S == {i \in Nat : i + 1 <= n => C[i + 1] = F[i + 1]}
    <3>3. \A i \in 1 .. n : C[i] = IF i = 1 THEN g[i] ELSE C[i - 1] \o g[i]
      <4> HIDE DEF C
      <4> QED BY <3>2
    <3>4. \A i \in 1 .. n : F[i] = IF i = 1 THEN g[i] ELSE F[i - 1] \o g[i]
      <4>1. \A i \in 1 .. n : i # 1 => i - 1 \in 1 .. n
        OBVIOUS
      <4> HIDE DEF C
      <4> QED BY <3>1, <4>1
    <3> HIDE DEF C, H, Is
    <3>5. 0 \in S
      BY <2>2, <3>3, <3>4
    <3>6. ASSUME NEW i \in Nat, i \in S PROVE i + 1 \in S
      <4> SUFFICES ASSUME i + 2 <= n PROVE C[i + 2] = F[i + 2]
        OBVIOUS
      <4>1. C[i + 1] = F[i + 1] /\ i + 2 \in 1 .. n /\ i + 2 # 1
            /\ (i + 2) - 1 = i + 1
        BY <3>6
      <4> QED BY <3>3, <3>4, <4>1
    <3>7. C[n] = F[n]
      <4> HIDE DEF S
      <4>1. n - 1 \in Nat
        BY <2>2
      <4>2. n - 1 \in S
        BY <3>5, <3>6, <4>1, Induction
      <4> QED BY <4>1, <4>2 DEF S
    <3>8. FlattenSeq(g) = C[n]
      BY <1>6, <2>2 DEF FlattenSeq, C, Is
    <3> QED BY <3>7, <3>8
  <2> QED BY <2>1, <2>2
<1>8. Joins(F, g, n, T)
  BY <1>3, <1>4, <1>5, <1>7 DEF Joins, V
<1> QED BY <1>8

-----------------------------------------------------------------------------
(* The effect of an instruction, as a function of what the sequential        *)
(* machine holds: a record of its memories, weights and queue.               *)

Flushed == [ub      |-> DrainedUb,
            acc     |-> DrainedAcc,
            hostMem |-> DrainedHostMem,
            weights |-> ActivePlane,
            queue   |-> TilesWaiting]

AsLoaded == [ub      |-> [a \in UbAddrs |-> Zero],
             acc     |-> [c \in AccCells |-> << >>],
             hostMem |-> [a \in HostAddrs |-> <<"host", a>>],
             weights |-> [pe \in PEs |-> Zero],
             queue   |-> << >>]

(* Row o, column n of what an Activate makes of the sums.                    *)
ActivatedCell(i, sums, o, n) ==
  LET value(p) == Activated(i.function, sums[<<i.acc_row + p, n>>])
      w        == Window(o, i.pool_size, i.pool_width)
  IN  IF i.pool = "None" THEN value(o)
      ELSE <<i.pool, [j \in DOMAIN w |-> value(w[j])]>>

OutRows(i) == ActivateOutputRows(i.rows, i.pool, i.pool_size)

CopyOf(dst, to, src, from, rows) ==
  [a \in DOMAIN dst |-> IF a \div Dim \in to .. to + rows - 1
                        THEN src[a + (from - to) * Dim] ELSE dst[a]]

UbAfter(i, s) ==
  CASE i.op = "ReadHostMemory" ->
         CopyOf(s.ub, i.ub_row, s.hostMem, i.host_row, i.rows)
    [] i.op = "Activate" ->
         [a \in DOMAIN s.ub |->
            IF a \div Dim - i.ub_row \in 0 .. OutRows(i) - 1
            THEN ActivatedCell(i, s.acc, a \div Dim - i.ub_row, a % Dim)
            ELSE s.ub[a]]
    [] OTHER -> s.ub

HostMemAfter(i, s) ==
  IF i.op = "WriteHostMemory"
  THEN CopyOf(s.hostMem, i.host_row, s.ub, i.ub_row, i.rows)
  ELSE s.hostMem

Switches(i) == i.op = "MatrixMultiply" /\ i.new_weights

WeightsAfter(i, s) ==
  IF Switches(i)
  THEN [pe \in PEs |-> <<"weight", Head(s.queue), pe[1] * Dim + pe[2]>>]
  ELSE s.weights

QueueAfter(i, s) ==
  IF Switches(i) THEN Tail(s.queue)
  ELSE IF i.op = "ReadWeights" THEN Append(s.queue, i.tile)
  ELSE s.queue

ProductOf(memory, plane, row, n) ==
  [j \in 1 .. Dim |-> <<memory[UbAt(row, j - 1)], plane[<<j - 1, n>>]>>]

AccAfter(i, s) ==
  IF i.op = "MatrixMultiply"
  THEN [c \in AccCells |->
          IF c[1] - i.acc_row \in 0 .. i.rows - 1
          THEN (IF i.accumulate THEN s.acc[c] ELSE << >>)
                 \o ProductOf(s.ub, WeightsAfter(i, s),
                              i.ub_row + (c[1] - i.acc_row), c[2])
          ELSE s.acc[c]]
  ELSE s.acc

Effect(i, s) ==
  [ub      |-> UbAfter(i, s),
   acc     |-> AccAfter(i, s),
   hostMem |-> HostMemAfter(i, s),
   weights |-> WeightsAfter(i, s),
   queue   |-> QueueAfter(i, s)]

(* What the sequential machine holds after each number of instructions.      *)
IsRun(f, code) ==
  f = [j \in 0 .. Len(code) |-> IF j = 0 THEN AsLoaded
                                ELSE Effect(code[j], f[j - 1])]

LEMMA RunExists ==
  ASSUME NEW code \in Seq(Instr)
  PROVE  \E f : IsRun(f, code)
<1> DEFINE Is(f, m) == f = [j \in 0 .. m |-> IF j = 0 THEN AsLoaded
                                           ELSE Effect(code[j], f[j - 1])]
           S == {m \in Nat : \E f : Is(f, m)}
<1>1. 0 \in S
  <2>1. Is([j \in {0} |-> AsLoaded], 0)
    OBVIOUS
  <2> QED BY <2>1
<1>2. ASSUME NEW m \in Nat, m \in S PROVE m + 1 \in S
  <2>1. PICK f : Is(f, m)
    BY <1>2
  <2> DEFINE h == [j \in 0 .. m + 1 |-> IF j = m + 1
                                        THEN Effect(code[m + 1], f[m])
                                        ELSE f[j]]
  <2>2. \A j \in 0 .. m :
          f[j] = IF j = 0 THEN AsLoaded ELSE Effect(code[j], f[j - 1])
    BY <2>1
  <2>3. ASSUME NEW j \in 0 .. m + 1
        PROVE  h[j] = IF j = 0 THEN AsLoaded ELSE Effect(code[j], h[j - 1])
    <3>1. j # 0 => j - 1 \in 0 .. m /\ j - 1 # m + 1
      OBVIOUS
    <3>2. j # 0 => h[j - 1] = f[j - 1]
      BY <3>1
    <3>3. CASE j = m + 1
      <4>1. h[j] = Effect(code[m + 1], f[m]) /\ j # 0 /\ j - 1 = m
        BY <3>3
      <4> HIDE DEF h
      <4> QED BY <3>2, <3>3, <4>1
    <3>4. CASE j # m + 1
      <4>1. j \in 0 .. m /\ h[j] = f[j]
        BY <3>4
      <4> HIDE DEF h
      <4> QED BY <2>2, <3>2, <4>1
    <3> QED BY <3>3, <3>4
  <2>4. h = [j \in 0 .. m + 1 |-> h[j]]
    OBVIOUS
  <2> HIDE DEF h
  <2>5. Is(h, m + 1)
    BY <2>3, <2>4
  <2> HIDE DEF Is
  <2> QED BY <2>5
<1> HIDE DEF S
<1>3. Len(code) \in S
  BY <1>1, <1>2, Induction, LenProperties
<1> QED BY <1>3 DEF S, IsRun

RunOf(code) == CHOOSE f : IsRun(f, code)

LEMMA RunIs ==
  ASSUME NEW code \in Seq(Instr)
  PROVE  /\ RunOf(code)[0] = AsLoaded
         /\ \A j \in 1 .. Len(code) :
              RunOf(code)[j] = Effect(code[j], RunOf(code)[j - 1])
<1>1. IsRun(RunOf(code), code)
  BY RunExists DEF RunOf
<1>2. Len(code) \in Nat
  BY LenProperties
<1> QED BY <1>1, <1>2 DEF IsRun

-----------------------------------------------------------------------------
(* A part of a program, at the place where it begins                         *)

FitsHost(i) == i.op \in Transfers => Fits(i.host_row, i.rows, HostRows)

(* f goes through part from its place `at` on; every transfer of it fits.    *)
Runs(f, at, part) ==
  \A j \in 1 .. Len(part) :
    f[at + j] = Effect(part[j], f[at + j - 1]) /\ FitsHost(part[j])

LEMMA RunsParts ==
  ASSUME NEW f, NEW at \in Nat, NEW a \in Seq(Instr), NEW b \in Seq(Instr),
         Runs(f, at, a \o b)
  PROVE  Runs(f, at, a) /\ Runs(f, at + Len(a), b)
<1>1. /\ Len(a \o b) = Len(a) + Len(b) /\ Len(a) \in Nat /\ Len(b) \in Nat
      /\ \A i \in 1 .. Len(a) + Len(b) :
           (a \o b)[i] = IF i <= Len(a) THEN a[i] ELSE b[i - Len(a)]
  BY ConcatProperties, LenProperties
<1> DEFINE n == Len(a)
           m == Len(b)
           c == a \o b
<1>2. \A j \in 1 .. n + m :
        f[at + j] = Effect(c[j], f[at + j - 1]) /\ FitsHost(c[j])
  BY <1>1 DEF Runs
<1> HIDE DEF n, m, c
<1>3. ASSUME NEW j \in 1 .. n
      PROVE  f[at + j] = Effect(a[j], f[at + j - 1]) /\ FitsHost(a[j])
  <2>1. j \in 1 .. n + m /\ j <= n
    BY <1>1 DEF n, m
  <2>2. c[j] = a[j]
    BY <1>1, <2>1 DEF n, m, c
  <2> QED BY <1>2, <2>1, <2>2
<1>4. ASSUME NEW j \in 1 .. m
      PROVE  /\ f[at + n + j] = Effect(b[j], f[at + n + j - 1])
             /\ FitsHost(b[j])
  <2>1. /\ n + j \in 1 .. n + m /\ ~(n + j <= n) /\ (n + j) - n = j
        /\ at + (n + j) = at + n + j /\ at + (n + j) - 1 = at + n + j - 1
    BY <1>1 DEF n, m
  <2>2. c[n + j] = b[j]
    BY <1>1, <2>1 DEF n, m, c
  <2>3. f[at + (n + j)] = Effect(c[n + j], f[at + (n + j) - 1])
        /\ FitsHost(c[n + j])
    BY <1>2, <2>1
  <2> QED BY <2>1, <2>2, <2>3
<1> QED BY <1>3, <1>4 DEF Runs, n, m

(* The places where the parts of a joined program begin.                     *)
Places(place, g, n, f) ==
  \A k \in 1 .. n : /\ place[k - 1] \in Nat
                    /\ place[k] = place[k - 1] + Len(g[k])
                    /\ Runs(f, place[k - 1], g[k])

LEMMA RunsJoined ==
  ASSUME NEW f, NEW at \in Nat, NEW n \in Nat,
         NEW g \in [1 .. n -> Seq(Instr)], Runs(f, at, FlattenSeq(g))
  PROVE  \E place : /\ place[0] = at /\ place[n] = at + Len(FlattenSeq(g))
                    /\ Places(place, g, n, f)
<1>1. PICK joined : Joins(joined, g, n, Instr)
  BY FlattenJoins
<1> DEFINE place == [k \in 0 .. n |-> at + Len(joined[k])]
           S == {m \in Nat : m <= n => Runs(f, at, joined[n - m])}
<1>2. 0 \in S
  BY <1>1 DEF Joins
<1>3. ASSUME NEW m \in Nat, m \in S PROVE m + 1 \in S
  <2> SUFFICES ASSUME m + 1 <= n PROVE Runs(f, at, joined[n - (m + 1)])
    OBVIOUS
  <2> DEFINE k == n - m
  <2>1. k \in 1 .. n /\ k - 1 = n - (m + 1) /\ k - 1 \in 0 .. n /\ k \in 0 .. n
    OBVIOUS
  <2>2. Runs(f, at, joined[k])
    BY <1>3
  <2> HIDE DEF k
  <2>3. joined[k] = joined[k - 1] \o g[k] /\ joined[k - 1] \in Seq(Instr)
    BY <1>1, <2>1 DEF Joins
  <2> QED BY <2>1, <2>2, <2>3, RunsParts
<1> HIDE DEF S
<1>4. ASSUME NEW k \in 0 .. n PROVE Runs(f, at, joined[k])
  <2>1. n - k \in Nat /\ n - (n - k) = k
    OBVIOUS
  <2>2. n - k \in S
    BY <1>2, <1>3, <2>1, Induction
  <2> QED BY <2>1, <2>2 DEF S
<1>5. \A k \in 0 .. n : Len(joined[k]) \in Nat
  BY <1>1, LenProperties DEF Joins
<1>6. ASSUME NEW k \in 1 .. n
      PROVE  /\ place[k - 1] \in Nat
             /\ place[k] = place[k - 1] + Len(g[k])
             /\ Runs(f, place[k - 1], g[k])
  <2>1. k \in 0 .. n /\ k - 1 \in 0 .. n
    OBVIOUS
  <2>2. joined[k] = joined[k - 1] \o g[k] /\ joined[k - 1] \in Seq(Instr)
    BY <1>1, <2>1 DEF Joins
  <2>3. Runs(f, at, joined[k - 1] \o g[k])
    BY <1>4, <2>1, <2>2
  <2>4. Len(joined[k]) = Len(joined[k - 1]) + Len(g[k]) /\ Len(g[k]) \in Nat
    BY <2>2, ConcatProperties, LenProperties
  <2>5. Runs(f, at + Len(joined[k - 1]), g[k])
    BY <2>2, <2>3, RunsParts
  <2>6. /\ place[k - 1] = at + Len(joined[k - 1])
        /\ place[k] = at + Len(joined[k])
    BY <2>1
  <2>7. Len(joined[k - 1]) \in Nat
    BY <1>5, <2>1
  <2> HIDE DEF place
  <2> QED BY <2>4, <2>5, <2>6, <2>7
<1>7. place[0] = at /\ place[n] = at + Len(FlattenSeq(g))
  <2>1. Len(joined[0]) = 0 /\ joined[n] = FlattenSeq(g)
    BY <1>1, EmptySeq DEF Joins
  <2>2. place[0] = at + Len(joined[0]) /\ place[n] = at + Len(joined[n])
    OBVIOUS
  <2> HIDE DEF place
  <2> QED BY <2>1, <2>2
<1> HIDE DEF place
<1> QED BY <1>6, <1>7 DEF Places

(* Halt stands nowhere in it.                                                *)
RunsThrough(part) == \A j \in 1 .. Len(part) : part[j].op # "Halt"

LEMMA PartsRunThrough ==
  ASSUME NEW a \in Seq(Instr), NEW b \in Seq(Instr),
         RunsThrough(a), RunsThrough(b)
  PROVE  RunsThrough(a \o b)
<1>1. /\ Len(a \o b) = Len(a) + Len(b) /\ Len(a) \in Nat /\ Len(b) \in Nat
      /\ \A i \in 1 .. Len(a) + Len(b) :
           (a \o b)[i] = IF i <= Len(a) THEN a[i] ELSE b[i - Len(a)]
  BY ConcatProperties, LenProperties
<1> SUFFICES ASSUME NEW i \in 1 .. Len(a) + Len(b)
             PROVE  (a \o b)[i].op # "Halt"
  BY <1>1 DEF RunsThrough
<1>2. CASE i <= Len(a)
  <2>1. i \in 1 .. Len(a) /\ (a \o b)[i] = a[i]
    BY <1>1, <1>2
  <2> QED BY <2>1 DEF RunsThrough
<1>3. CASE ~(i <= Len(a))
  <2>1. i - Len(a) \in 1 .. Len(b) /\ (a \o b)[i] = b[i - Len(a)]
    BY <1>1, <1>3
  <2> QED BY <2>1 DEF RunsThrough
<1> QED BY <1>2, <1>3

LEMMA JoinedRunsThrough ==
  ASSUME NEW n \in Nat, NEW g \in [1 .. n -> Seq(Instr)],
         \A k \in 1 .. n : RunsThrough(g[k])
  PROVE  FlattenSeq(g) \in Seq(Instr) /\ RunsThrough(FlattenSeq(g))
<1>1. PICK joined : Joins(joined, g, n, Instr)
  BY FlattenJoins
<1> DEFINE S == {k \in Nat : k <= n => RunsThrough(joined[k])}
<1>2. 0 \in S
  <2>1. joined[0] = << >>
    BY <1>1 DEF Joins
  <2>2. RunsThrough(<< >>)
    BY EmptySeq DEF RunsThrough
  <2> QED BY <2>1, <2>2
<1>3. ASSUME NEW k \in Nat, k \in S PROVE k + 1 \in S
  <2> SUFFICES ASSUME k + 1 <= n PROVE RunsThrough(joined[k + 1])
    OBVIOUS
  <2>1. k + 1 \in 1 .. n /\ (k + 1) - 1 = k /\ k \in 0 .. n
    OBVIOUS
  <2>2. joined[k + 1] = joined[k] \o g[k + 1] /\ joined[k] \in Seq(Instr)
    BY <1>1, <2>1 DEF Joins
  <2> QED BY <1>3, <2>1, <2>2, PartsRunThrough
<1> HIDE DEF S
<1>4. n \in S
  BY <1>2, <1>3, Induction
<1> QED BY <1>1, <1>4 DEF S, Joins

-----------------------------------------------------------------------------
(* A program runs through its effects                                        *)

LEMMA ReadHostEffect ==
  Sequential!DoReadHost => Flushed' = Effect(program[pc + 1], Flushed)
BY DEF Sequential!DoReadHost, Sequential!Current, Sequential!Operands, Flushed,
       Effect, UbAfter, AccAfter, HostMemAfter, WeightsAfter, QueueAfter,
       Switches, CopyOf, Sequential!CopiedRows

LEMMA WriteHostEffect ==
  Sequential!DoWriteHost => Flushed' = Effect(program[pc + 1], Flushed)
BY DEF Sequential!DoWriteHost, Sequential!Current, Sequential!Operands, Flushed,
       Effect, UbAfter, AccAfter, HostMemAfter, WeightsAfter, QueueAfter,
       Switches, CopyOf, Sequential!CopiedRows

LEMMA ReadWeightsEffect ==
  Sequential!DoReadWeights => Flushed' = Effect(program[pc + 1], Flushed)
BY DEF Sequential!DoReadWeights, Sequential!Current, Sequential!Operands,
       Flushed, Effect, UbAfter, AccAfter, HostMemAfter, WeightsAfter,
       QueueAfter, Switches

LEMMA NothingEffect ==
  Sequential!DoNothing => Flushed' = Effect(program[pc + 1], Flushed)
BY DEF Sequential!DoNothing, Sequential!Current, Sequential!Operands,
       Flushed, Effect, UbAfter, AccAfter, HostMemAfter, WeightsAfter,
       QueueAfter, Switches

LEMMA ActivateEffect ==
  Sequential!DoActivate => Flushed' = Effect(program[pc + 1], Flushed)
<1> SUFFICES ASSUME Sequential!DoActivate
             PROVE  Flushed' = Effect(program[pc + 1], Flushed)
  OBVIOUS
<1> DEFINE i == program[pc + 1]
<1>1. i.op = "Activate" /\ UNCHANGED <<DrainedAcc, DrainedHostMem, ActivePlane,
                                       TilesWaiting>>
  BY DEF Sequential!DoActivate, Sequential!Current, Sequential!Operands
<1>2. DrainedUb' = UbAfter(i, Flushed)
  <2>1. \A o, n : ActivatedCell(i, DrainedAcc, o, n)
          = IF i.pool = "None"
            THEN Activated(i.function, DrainedAcc[<<i.acc_row + o, n>>])
            ELSE <<i.pool,
                   [j \in DOMAIN Window(o, i.pool_size, i.pool_width) |->
                      Activated(i.function,
                        DrainedAcc[<<i.acc_row
                          + Window(o, i.pool_size, i.pool_width)[j], n>>])]>>
    BY DEF ActivatedCell
  <2>2. DrainedUb' =
          [a \in DOMAIN DrainedUb |->
             IF a \div Dim - i.ub_row \in 0 .. OutRows(i) - 1
             THEN IF i.pool = "None"
                  THEN Activated(i.function,
                         DrainedAcc[<<i.acc_row
                                      + (a \div Dim - i.ub_row), a % Dim>>])
                  ELSE <<i.pool,
                         [j \in DOMAIN Window(a \div Dim - i.ub_row,
                                              i.pool_size, i.pool_width) |->
                            Activated(i.function,
                              DrainedAcc[<<i.acc_row
                                + Window(a \div Dim - i.ub_row,
                                         i.pool_size, i.pool_width)[j],
                                a % Dim>>])]>>
             ELSE DrainedUb[a]]
    BY SameHelpers DEF Sequential!DoActivate, Sequential!Operands, OutRows
  <2> HIDE DEF i
  <2> QED BY <1>1, <2>1, <2>2, ZenonT(60) DEF UbAfter, Flushed
<1> HIDE DEF i
<1>3. Effect(i, Flushed) = [ub |-> UbAfter(i, Flushed),
                            acc |-> DrainedAcc, hostMem |-> DrainedHostMem,
                            weights |-> ActivePlane, queue |-> TilesWaiting]
  BY <1>1 DEF Effect, AccAfter, HostMemAfter, WeightsAfter, QueueAfter,
     Switches, Flushed
<1> QED BY <1>1, <1>2, <1>3 DEF Flushed, i

LEMMA MultiplyEffect ==
  Sequential!DoMatrixMultiply => Flushed' = Effect(program[pc + 1], Flushed)
<1> SUFFICES ASSUME Sequential!DoMatrixMultiply
             PROVE  Flushed' = Effect(program[pc + 1], Flushed)
  OBVIOUS
<1> DEFINE i == program[pc + 1]
<1>1. i.op = "MatrixMultiply" /\ UNCHANGED <<DrainedUb, DrainedHostMem>>
  BY DEF Sequential!DoMatrixMultiply, Sequential!Current, Sequential!Operands
<1>2. /\ ActivePlane' = WeightsAfter(i, Flushed)
      /\ TilesWaiting' = QueueAfter(i, Flushed)
  BY <1>1, SameHelpers
     DEF Sequential!DoMatrixMultiply, Sequential!Operands, WeightsAfter,
         QueueAfter, Switches, Flushed
<1>3. DrainedAcc' = AccAfter(i, Flushed)
  <2>1. DrainedAcc' =
          [c \in AccCells |->
             IF c[1] - i.acc_row \in 0 .. i.rows - 1
             THEN (IF i.accumulate THEN DrainedAcc[c] ELSE << >>)
                    \o [j \in 1 .. Dim |->
                          <<DrainedUb[UbAt(i.ub_row + (c[1] - i.acc_row),
                                           j - 1)],
                            ActivePlane'[<<j - 1, c[2]>>]>>]
             ELSE DrainedAcc[c]]
    BY SameHelpers DEF Sequential!DoMatrixMultiply, Sequential!Operands,
       Sequential!Product
  <2> HIDE DEF i
  <2> QED BY <1>1, <1>2, <2>1 DEF AccAfter, ProductOf, Flushed
<1> HIDE DEF i
<1>4. /\ UbAfter(i, Flushed) = DrainedUb
      /\ HostMemAfter(i, Flushed) = DrainedHostMem
  BY <1>1 DEF UbAfter, HostMemAfter, Flushed
<1> QED BY <1>1, <1>2, <1>3, <1>4 DEF Flushed, Effect, i

(* Inductive: the machine, flushed, is where the program takes it, and what  *)
(* was run of it fits the host's memory.                                     *)
FollowsInv ==
  /\ program \in Seq(Instr)
  /\ pc \in 0 .. Len(program)
  /\ Flushed = RunOf(program)[pc]
  /\ \A j \in 1 .. pc : FitsHost(program[j])

(* Inductive: a machine halts at a Halt, and moves no byte from then on.     *)
HaltedInv ==
  halted => /\ pc < Len(program) /\ program[pc + 1].op = "Halt"
            /\ ~HostBusy

LEMMA SeqStepFollows ==
  ASSUME FollowsInv, Sequential!SeqNext
  PROVE  FollowsInv'
<1> USE DEF FollowsInv
<1>1. program' = program /\ pc < Len(program) /\ pc \in Nat
      /\ program \in Seq(Instr) /\ Len(program) \in Nat
  <2>1. program \in Seq(Instr) /\ Len(program) \in Nat /\ pc \in Nat
    BY LenProperties
  <2>2. Sequential!CanContinue /\ program' = program
    BY DEF Sequential!SeqNext, Sequential!DoNothing, Sequential!DoHalt,
       Sequential!DoReadHost, Sequential!DoWriteHost, Sequential!DoReadWeights,
       Sequential!DoMatrixMultiply, Sequential!DoActivate, Sequential!Current
  <2> QED BY <2>1, <2>2 DEF Sequential!CanContinue
<1>2. CASE Sequential!DoHalt
  <2>1. UNCHANGED <<DrainedUb, DrainedAcc, DrainedHostMem, ActivePlane,
                    TilesWaiting, pc>>
    BY <1>2 DEF Sequential!DoHalt
  <2>2. Flushed' = Flushed
    BY <2>1 DEF Flushed
  <2> QED BY <1>1, <2>1, <2>2
<1>3. CASE ~Sequential!DoHalt
  <2>1. pc' = pc + 1 /\ Sequential!Possible(program[pc + 1])
    BY <1>3 DEF Sequential!SeqNext, Sequential!DoNothing,
       Sequential!DoReadHost, Sequential!DoWriteHost, Sequential!DoReadWeights,
       Sequential!DoMatrixMultiply, Sequential!DoActivate, Sequential!Current,
       Sequential!CanContinue, Sequential!Continue
  <2>2. Flushed' = Effect(program[pc + 1], Flushed)
    BY <1>3, ReadHostEffect, WriteHostEffect, ReadWeightsEffect, NothingEffect,
       ActivateEffect, MultiplyEffect DEF Sequential!SeqNext
  <2>3. FitsHost(program[pc + 1])
    BY <2>1, SameHelpers DEF FitsHost, Transfers, Sequential!Possible
  <2>4. RunOf(program)[pc + 1] = Effect(program[pc + 1], RunOf(program)[pc])
    <3>1. pc + 1 \in 1 .. Len(program) /\ (pc + 1) - 1 = pc
      BY <1>1
    <3> QED BY <1>1, <3>1, RunIs
  <2>5. Flushed' = RunOf(program)[pc + 1]
    BY <2>2, <2>4
  <2>6. \A j \in 1 .. pc + 1 : FitsHost(program[j])
    <3>1. \A j \in 1 .. pc + 1 : j \in 1 .. pc \/ j = pc + 1
      BY <1>1
    <3> QED BY <2>3, <3>1
  <2>7. pc + 1 \in 0 .. Len(program)
    BY <1>1
  <2>8. FollowsInv' <=> /\ program' \in Seq(Instr) /\ pc' \in 0 .. Len(program')
                        /\ Flushed' = RunOf(program')[pc']
                        /\ \A j \in 1 .. pc' : FitsHost(program'[j])
    OBVIOUS
  <2> QED BY <1>1, <2>1, <2>5, <2>6, <2>7, <2>8
<1> QED BY <1>2, <1>3

LEMMA NextFollows ==
  FollowsInv /\ RefInv /\ RefInv' /\ [Next]_vars => FollowsInv'
<1> SUFFICES ASSUME FollowsInv, RefInv, RefInv', [Next]_vars PROVE FollowsInv'
  OBVIOUS
<1>1. CASE Sequential!SeqNext
  BY <1>1, SeqStepFollows
<1>2. CASE UNCHANGED Sequential!seqVars
  <2>1. Flushed' = Flushed /\ UNCHANGED <<program, pc>>
    BY <1>2 DEF Flushed, Sequential!seqVars
  <2> QED BY <2>1 DEF FollowsInv
<1> QED BY <1>1, <1>2, StepsAsSequential

LEMMA NextHalted == HaltedInv /\ TypeInv /\ [Next]_vars => HaltedInv'
<1> SUFFICES ASSUME HaltedInv, TypeInv, [Next]_vars, halted' PROVE HaltedInv'
  BY DEF HaltedInv
<1>1. CASE ~halted
  <2>1. IssueHalt
    BY <1>1 DEF Next, vars, machine, control, TickThrows, PastTheEnd,
       UnknownOpcode, Deadlock, Refused, Throw, Stalled, TickIssues,
       IssueNopOrSync, IssueHostTransfer, IssueReadWeights,
       IssueMatrixMultiply, IssueActivate, TickAdvances, AdvanceHost,
       AdvanceFifo, AdvanceShifter, AdvanceArray, AdvanceActivation, Step,
       TickHalted
  <2>2. pc < Len(program) /\ in.op = "Halt" /\ UnitsIdle /\ UNCHANGED hif
        /\ pc' = pc /\ program' = program
    BY <2>1 DEF IssueHalt, Issuing, AtInstr, WhyBlocked, Issued, Advance, units
  <2>3. ~HostBusy'
    BY <2>2 DEF UnitsIdle, HostBusy
  <2> QED BY <2>2, <2>3 DEF HaltedInv, in
<1>2. CASE halted
  <2>1. /\ pc < Len(program) /\ program[pc + 1].op = "Halt" /\ ~HostBusy
    BY <1>2 DEF HaltedInv
  <2>2. UNCHANGED <<program, pc, hif>>
    BY <1>2, <2>1
       DEF Next, vars, machine, control, units, TickThrows, PastTheEnd,
       UnknownOpcode, Deadlock, Refused, Throw, Stalled, TickIssues, IssueHalt,
       IssueNopOrSync, IssueHostTransfer, IssueReadWeights, Issuing, Ticking,
       IssueMatrixMultiply, IssueActivate, TickAdvances, AdvanceHost,
       AdvanceFifo, AdvanceShifter, AdvanceArray, AdvanceActivation, Step,
       TickHalted, HostTick, HostMoves
  <2> QED BY <2>1, <2>2 DEF HaltedInv, HostBusy
<1> QED BY <1>1, <1>2

LEMMA InitFollows ==
  Init => FollowsInv /\ HaltedInv
<1> SUFFICES ASSUME Init PROVE FollowsInv /\ HaltedInv
  OBVIOUS
<1>1. /\ program \in Programs /\ pc = 0 /\ halted = FALSE
      /\ DrainedUb = [a \in UbAddrs |-> Zero]
      /\ DrainedAcc = [c \in AccCells |-> << >>]
      /\ DrainedHostMem = [a \in HostAddrs |-> <<"host", a>>]
      /\ ActivePlane = [pe \in PEs |-> Zero] /\ TilesWaiting = << >>
  BY StartsAsSequential, SameHelpers DEF Sequential!SeqInit,
     Sequential!MemoryInit
<1>2. program \in Seq(Instr) /\ Len(program) \in Nat
  BY <1>1, ProgramAssumption, LenProperties
<1>3. Flushed = AsLoaded
  BY <1>1 DEF Flushed, AsLoaded
<1> QED BY <1>1, <1>2, <1>3, RunIs DEF FollowsInv, HaltedInv

-----------------------------------------------------------------------------
(* Blocks                                                                    *)

LEMMA BlockCountIs ==
  ASSUME NEW cols \in Nat
  PROVE  /\ BlockCount(cols) \in Nat /\ cols <= BlockCount(cols) * Dim
         /\ cols > 0 => BlockCount(cols) > 0
<1> DEFINE d == Dim
           q == (cols + d - 1) \div d
<1>1. d \in Nat \ {0}
  BY MemoryAssumption
<1> HIDE DEF d
<1>2. /\ q \in Nat /\ (cols + d - 1) % d \in 0 .. d - 1
      /\ cols + d - 1 = (d * q) + ((cols + d - 1) % d)
  <2>1. cols + d - 1 \in Nat
    BY <1>1
  <2> QED BY <1>1, <2>1, Division
<1> HIDE DEF q
<1>3. d * q = q * d /\ q * d \in Nat /\ (q = 0 => q * d = 0)
  BY <1>1, <1>2, Z3
<1>4. cols <= q * d
  BY <1>1, <1>2, <1>3
<1>5. BlockCount(cols) = q
  BY DEF BlockCount, q, d
<1> QED BY <1>2, <1>3, <1>4, <1>5 DEF d

(* Row r of block b of blocks of n rows each.                                *)
LEMMA InBlocks ==
  ASSUME NEW m \in Nat, NEW n \in Nat, NEW b \in 0 .. m - 1,
         NEW r \in 0 .. n - 1
  PROVE  /\ b * n \in Nat /\ m * n \in Nat /\ b * n + r \in 0 .. m * n - 1
         /\ (b + 1) * n = b * n + n
<1>1. b * n \in Nat /\ m * n \in Nat /\ (b + 1) * n <= m * n
      /\ (b + 1) * n = b * n + n
  BY Z3
<1> QED BY <1>1

(* Each row of blocks is a row of one of them.                               *)
LEMMA BlockOf ==
  ASSUME NEW m \in Nat, NEW n \in Nat, NEW a \in 0 .. m * n - 1, n > 0
  PROVE  a \div n \in 0 .. m - 1 /\ a % n \in 0 .. n - 1
         /\ a = (a \div n) * n + (a % n)
<1> DEFINE q == a \div n
           r == a % n
<1>0. m * n \in Nat
  BY ProductNat
<1>1. q \in Nat /\ r \in 0 .. n - 1 /\ a = (n * q) + r /\ a \in Nat
  BY <1>0, Division
<1> HIDE DEF q, r
<1>2. n * q = q * n /\ q * n \in Nat /\ (q >= m => q * n >= m * n)
  BY <1>1, Z3
<1>3. q < m
  BY <1>0, <1>1, <1>2
<1> QED BY <1>1, <1>2, <1>3 DEF q, r

-----------------------------------------------------------------------------
(* The plans of a network                                                    *)

FirstPlan(net) ==
  PlanAfter(net.layers[1], 0, net.rows, BlockCount(net.cols),
            BlockCount(net.cols) * net.rows)

PlanFrom(net, i, last) ==
  PlanAfter(net.layers[i], last.out_ub, last.out_rows, last.out_blocks,
            EndOf(last))

LEMMA PlansAre ==
  ASSUME NEW net, IsNetwork(net)
  PROVE  /\ Plans(net) = [i \in 1 .. Len(net.layers) |-> Plans(net)[i]]
         /\ \A i \in 1 .. Len(net.layers) :
              Plans(net)[i] = IF i = 1 THEN FirstPlan(net)
                              ELSE PlanFrom(net, i, Plans(net)[i - 1])
<1> DEFINE N == Len(net.layers)
           Is(p, m) == p = [i \in 1 .. m |->
                              IF i = 1 THEN FirstPlan(net)
                              ELSE PlanFrom(net, i, p[i - 1])]
           S == {m \in Nat : \E p : Is(p, m)}
<1>1. N \in Nat /\ DOMAIN net.layers = 1 .. N
  BY LenProperties DEF IsNetwork
<1> HIDE DEF N
<1>2. 0 \in S
  <2>1. Is([i \in 1 .. 0 |-> 0], 0)
    OBVIOUS
  <2> QED BY <2>1
<1>3. ASSUME NEW m \in Nat, m \in S PROVE m + 1 \in S
  <2>1. PICK p : Is(p, m)
    BY <1>3
  <2> DEFINE h == [i \in 1 .. m + 1 |->
                     IF i = m + 1
                     THEN IF i = 1 THEN FirstPlan(net)
                          ELSE PlanFrom(net, i, p[m])
                     ELSE p[i]]
  <2>2. \A i \in 1 .. m : p[i] = IF i = 1 THEN FirstPlan(net)
                                 ELSE PlanFrom(net, i, p[i - 1])
    BY <2>1
  <2>3. ASSUME NEW i \in 1 .. m + 1
        PROVE  h[i] = IF i = 1 THEN FirstPlan(net)
                      ELSE PlanFrom(net, i, h[i - 1])
    <3>1. i # 1 => i - 1 \in 1 .. m /\ i - 1 # m + 1
      OBVIOUS
    <3>2. i # 1 => h[i - 1] = p[i - 1]
      BY <3>1
    <3>3. CASE i = m + 1
      <4>1. /\ h[i] = IF i = 1 THEN FirstPlan(net) ELSE PlanFrom(net, i, p[m])
            /\ i - 1 = m
        BY <3>3
      <4> HIDE DEF h
      <4> QED BY <3>2, <4>1
    <3>4. CASE i # m + 1
      <4>1. i \in 1 .. m /\ h[i] = p[i]
        BY <3>4
      <4> HIDE DEF h
      <4> QED BY <2>2, <3>2, <4>1
    <3> QED BY <3>3, <3>4
  <2>4. h = [i \in 1 .. m + 1 |-> h[i]]
    OBVIOUS
  <2> HIDE DEF h
  <2>5. Is(h, m + 1)
    BY <2>3, <2>4
  <2> HIDE DEF Is
  <2> QED BY <2>5
<1> HIDE DEF S
<1>4. N \in S
  BY <1>1, <1>2, <1>3, Induction
<1>5. \E p : Is(p, N)
  BY <1>4 DEF S
<1>6. Plans(net) = CHOOSE p : Is(p, N)
  BY <1>1 DEF Plans, FirstPlan, PlanFrom
<1>7. Is(Plans(net), N)
  <2> HIDE DEF Is
  <2> QED BY <1>5, <1>6
<1> QED BY <1>7 DEF N

Plan == [in_ub : Nat, in_rows : Nat, in_blocks : Nat, out_ub : Nat,
         out_rows : Nat, out_blocks : Nat]

(* A layer's input region ends where its output region begins.               *)
PlanOK(plan) ==
  plan \in Plan /\ plan.in_ub + plan.in_blocks * plan.in_rows = plan.out_ub

LEMMA OutputRowsNat ==
  ASSUME NEW n \in Nat, NEW pool, NEW size \in Nat
  PROVE  ActivateOutputRows(n, pool, size) \in Nat
<1>1. CASE pool = "None" \/ size = 0
  BY <1>1 DEF ActivateOutputRows
<1>2. CASE ~(pool = "None" \/ size = 0)
  <2>1. size * size \in Nat \ {0}
    BY <1>2, Z3
  <2>2. n \div (size * size) \in Nat
    BY <2>1, Division
  <2> QED BY <1>2, <2>2 DEF ActivateOutputRows
<1> QED BY <1>1, <1>2

LEMMA PlanAfterOK ==
  ASSUME NEW layer \in Layers, NEW in_ub \in Nat, NEW in_rows \in Nat,
         NEW in_blocks \in Nat, NEW out_ub \in Nat,
         in_ub + in_blocks * in_rows = out_ub
  PROVE  PlanOK(PlanAfter(layer, in_ub, in_rows, in_blocks, out_ub))
<1>1. layer.cols \in Nat /\ layer.pool_size \in Nat
  BY DEF Layers
<1>2. BlockCount(layer.cols) \in Nat
  BY <1>1, BlockCountIs
<1>3. ActivateOutputRows(in_rows, layer.pool, layer.pool_size) \in Nat
  BY <1>1, OutputRowsNat
<1> QED BY <1>2, <1>3 DEF PlanOK, Plan, PlanAfter

LEMMA PlansOK ==
  ASSUME NEW net, IsNetwork(net), NEW i \in 1 .. Len(net.layers)
  PROVE  PlanOK(Plans(net)[i])
<1> DEFINE N == Len(net.layers)
           S == {m \in Nat : m + 1 <= N => PlanOK(Plans(net)[m + 1])}
<1>1. /\ N \in Nat /\ \A j \in 1 .. N : net.layers[j] \in Layers
      /\ net.rows \in Nat /\ net.cols \in Nat
  BY LenProperties, ElementOfSeq DEF IsNetwork
<1>2. 0 \in S
  <2> SUFFICES ASSUME 1 <= N PROVE PlanOK(Plans(net)[1])
    BY <1>1
  <2>1. BlockCount(net.cols) \in Nat
    BY <1>1, BlockCountIs
  <2>2. BlockCount(net.cols) * net.rows \in Nat
    BY <1>1, <2>1, ProductNat
  <2>3. PlanOK(FirstPlan(net))
    <3>1. net.layers[1] \in Layers
      BY <1>1
    <3>2. 0 + BlockCount(net.cols) * net.rows = BlockCount(net.cols) * net.rows
      BY <2>2
    <3> QED BY <1>1, <2>1, <2>2, <3>1, <3>2, PlanAfterOK DEF FirstPlan
  <2> QED BY <1>1, <2>3, PlansAre
<1>3. ASSUME NEW m \in Nat, m \in S PROVE m + 1 \in S
  <2> SUFFICES ASSUME m + 2 <= N PROVE PlanOK(Plans(net)[m + 2])
    OBVIOUS
  <2> DEFINE last == Plans(net)[m + 1]
  <2>1. PlanOK(last)
    BY <1>1, <1>3
  <2>2. m + 2 \in 1 .. N /\ m + 2 # 1 /\ (m + 2) - 1 = m + 1
    BY <1>1
  <2>3. Plans(net)[m + 2] = PlanFrom(net, m + 2, last)
    BY <2>2, PlansAre
  <2> HIDE DEF last
  <2>4. /\ last.out_ub \in Nat /\ last.out_rows \in Nat
        /\ last.out_blocks \in Nat
        /\ last.out_ub + last.out_blocks * last.out_rows = EndOf(last)
        /\ EndOf(last) \in Nat
    <3>1. /\ last.out_ub \in Nat /\ last.out_rows \in Nat
          /\ last.out_blocks \in Nat
      BY <2>1 DEF PlanOK, Plan
    <3>2. last.out_blocks * last.out_rows \in Nat
      BY <3>1, ProductNat
    <3> QED BY <3>1, <3>2 DEF EndOf
  <2>5. net.layers[m + 2] \in Layers
    BY <1>1, <2>2
  <2>6. PlanOK(PlanFrom(net, m + 2, last))
    BY <2>4, <2>5, PlanAfterOK DEF PlanFrom
  <2> QED BY <2>3, <2>6
<1> HIDE DEF S
<1>4. i - 1 \in Nat /\ (i - 1) + 1 = i
  OBVIOUS
<1>5. i - 1 \in S
  BY <1>2, <1>3, <1>4, Induction
<1> QED BY <1>1, <1>4, <1>5 DEF S

LEMMA Positive == \A x \in 1 .. 255 : x \in Nat \ {0}
OBVIOUS

(* A network the compiler accepts, no layer of which is without an input.    *)
Accepted(net) == IsNetwork(net) /\ Compilable(net) /\ HasInputs(net)

(* What the rest needs to know of layer i.                                   *)
LEMMA LayerIs ==
  ASSUME NEW net, Accepted(net), NEW i \in 1 .. Len(net.layers)
  PROVE  LET layer == net.layers[i]
             plan  == Plans(net)[i]
         IN  /\ layer \in Layers /\ PlanOK(plan) /\ EndOf(plan) <= UbRows
             /\ plan.in_rows \in 1 .. AccRows
             /\ plan.in_blocks = BlockCount(layer.rows) /\ layer.rows > 0
             /\ plan.out_blocks = BlockCount(layer.cols)
             /\ plan.out_rows = ActivateOutputRows(plan.in_rows, layer.pool,
                                                   layer.pool_size)
             /\ HasPool(layer) =>
                  ActShape(layer.pool_size, layer.pool_width, plan.in_rows)
             /\ i = 1 => /\ plan.in_ub = 0 /\ plan.in_rows = net.rows
                         /\ plan.in_blocks = BlockCount(net.cols)
                         /\ layer.rows = net.cols
             /\ i > 1 => LET last == Plans(net)[i - 1]
                         IN  /\ plan.in_ub = last.out_ub
                             /\ plan.in_rows = last.out_rows
                             /\ plan.in_blocks = last.out_blocks
                             /\ plan.out_ub = EndOf(last)
                             /\ layer.rows = net.layers[i - 1].cols
<1> DEFINE N == Len(net.layers)
           layer == net.layers[i]
           plan  == Plans(net)[i]
           last  == Plans(net)[i - 1]
<1>1. N \in Nat /\ DOMAIN net.layers = 1 .. N /\ IsNetwork(net)
  BY LenProperties DEF IsNetwork, Accepted
<1>2. layer \in Layers /\ PlanOK(plan) /\ layer.rows > 0
  BY <1>1, PlansOK, ElementOfSeq DEF IsNetwork, Accepted, HasInputs
<1>3. /\ LayerOK(layer, plan.in_rows,
                 IF i = 1 THEN net.cols ELSE net.layers[i - 1].cols)
      /\ EndOf(plan) <= UbRows
  BY <1>1 DEF Accepted, Compilable
<1>4. plan = IF i = 1 THEN FirstPlan(net) ELSE PlanFrom(net, i, last)
  BY <1>1, PlansAre
<1> HIDE DEF layer, plan, last
<1>5. /\ plan.in_rows \in 1 .. AccRows
      /\ layer.rows = IF i = 1 THEN net.cols ELSE net.layers[i - 1].cols
  BY <1>3 DEF LayerOK
<1>6. /\ plan.out_blocks = BlockCount(layer.cols)
      /\ plan.out_rows = ActivateOutputRows(plan.in_rows, layer.pool,
                                            layer.pool_size)
  BY <1>4 DEF FirstPlan, PlanFrom, PlanAfter, layer
<1>7. HasPool(layer) =>
        ActShape(layer.pool_size, layer.pool_width, plan.in_rows)
  <2>1. /\ layer.pool_size \in Nat /\ layer.pool_width \in Nat
        /\ plan.in_rows \in Nat
    BY <1>2, <1>5, MemoryAssumption DEF Layers
  <2> SUFFICES ASSUME HasPool(layer)
               PROVE  ActShape(layer.pool_size, layer.pool_width, plan.in_rows)
    OBVIOUS
  <2>2. layer.pool_width \in 1 .. 255
    BY <1>3 DEF LayerOK
  <2>5. layer.pool_width \in Nat \ {0}
    BY ONLY <2>2, Positive
  <2>6. layer.pool_size >= 1
    BY <1>3 DEF LayerOK
  <2>4. /\ layer.pool_width % layer.pool_size = 0
        /\ plan.in_rows % (layer.pool_width * layer.pool_size) = 0
    BY <1>3 DEF LayerOK
  <2>3. layer.pool_size \in Nat \ {0} /\ layer.pool_width \in Nat \ {0}
    BY ONLY <2>1, <2>5, <2>6
  <2> QED BY ONLY <2>1, <2>3, <2>4 DEF ActShape, Whole, PoolShapeOK
<1>8. CASE i = 1
  <2>1. /\ plan.in_ub = 0 /\ plan.in_rows = net.rows
        /\ plan.in_blocks = BlockCount(net.cols)
    BY <1>4, <1>8 DEF FirstPlan, PlanAfter
  <2> QED BY <1>2, <1>3, <1>5, <1>6, <1>7, <1>8, <2>1 DEF layer, plan, last
<1>9. CASE i > 1
  <2>1. i # 1 /\ i - 1 \in 1 .. N /\ i \in 1 .. N
    BY <1>1, <1>9
  <2>2. /\ plan.in_ub = last.out_ub /\ plan.in_rows = last.out_rows
        /\ plan.in_blocks = last.out_blocks /\ plan.out_ub = EndOf(last)
    BY <1>4, <2>1 DEF PlanFrom, PlanAfter
  <2>3. last.out_blocks = BlockCount(net.layers[i - 1].cols)
    <3>1. last = IF i - 1 = 1 THEN FirstPlan(net)
                 ELSE PlanFrom(net, i - 1, Plans(net)[(i - 1) - 1])
      BY <1>1, <2>1, PlansAre DEF last
    <3> QED BY <3>1 DEF FirstPlan, PlanFrom, PlanAfter
  <2>4. layer.rows = net.layers[i - 1].cols
    BY <1>5, <2>1
  <2> QED BY <1>2, <1>3, <1>5, <1>6, <1>7, <1>9, <2>1, <2>2, <2>3, <2>4
          DEF layer, plan, last
<1> QED BY <1>8, <1>9, <1>1

-----------------------------------------------------------------------------
(* The order of the tiles                                                    *)

LEMMA SumBeforeIs ==
  ASSUME NEW N \in Nat, NEW c, \A j \in 1 .. N : c[j] \in Nat
  PROVE  /\ SumBefore(c, 1) = 0
         /\ \A i \in 1 .. N : SumBefore(c, i + 1) = SumBefore(c, i) + c[i]
         /\ \A i \in 1 .. N + 1 : SumBefore(c, i) \in Nat
<1>1. PICK g : g = [i \in 0 .. N |-> IF i = 0 THEN 0 ELSE g[i - 1] + c[i]]
  BY RunningSum
<1>2. \A i \in 0 .. N : g[i] = IF i = 0 THEN 0 ELSE g[i - 1] + c[i]
  BY <1>1
<1>3. ASSUME NEW i \in 1 .. N + 1 PROVE SumBefore(c, i) = g[i - 1]
  <2> DEFINE Is(s) == s = [j \in 1 .. i |-> IF j = 1 THEN 0
                                            ELSE s[j - 1] + c[j - 1]]
             H == [j \in 1 .. i |-> g[j - 1]]
             C == CHOOSE s : Is(s)
             S == {m \in Nat : m + 1 <= i => C[m + 1] = g[m]}
  <2>1. Is(H)
    <3>1. ASSUME NEW j \in 1 .. i
          PROVE  H[j] = IF j = 1 THEN 0 ELSE H[j - 1] + c[j - 1]
      <4>1. j - 1 \in 0 .. N /\ H[j] = g[j - 1]
        OBVIOUS
      <4>2. j # 1 => j - 1 \in 1 .. i /\ j - 1 # 0
        OBVIOUS
      <4>3. j # 1 => H[j - 1] = g[(j - 1) - 1]
        BY <4>2
      <4> HIDE DEF H
      <4> QED BY <1>2, <4>1, <4>2, <4>3
    <3>2. H = [j \in 1 .. i |-> H[j]]
      OBVIOUS
    <3> HIDE DEF H
    <3> QED BY <3>1, <3>2
  <2>2. Is(C)
    <3> HIDE DEF Is, H
    <3> QED BY <2>1
  <2>3. \A j \in 1 .. i : C[j] = IF j = 1 THEN 0 ELSE C[j - 1] + c[j - 1]
    <3> HIDE DEF C
    <3> QED BY <2>2
  <2> HIDE DEF C, H, Is
  <2>4. 0 \in S
    BY <1>2, <2>3
  <2>5. ASSUME NEW m \in Nat, m \in S PROVE m + 1 \in S
    <3> SUFFICES ASSUME m + 2 <= i PROVE C[m + 2] = g[m + 1]
      OBVIOUS
    <3>1. C[m + 1] = g[m] /\ m + 2 \in 1 .. i /\ m + 2 # 1
          /\ (m + 2) - 1 = m + 1 /\ m + 1 \in 0 .. N /\ m + 1 # 0
          /\ (m + 1) - 1 = m
      BY <2>5
    <3>2. C[m + 2] = C[m + 1] + c[m + 1]
      BY <2>3, <3>1
    <3>3. g[m + 1] = g[m] + c[m + 1]
      BY <1>2, <3>1
    <3> QED BY <3>1, <3>2, <3>3
  <2> HIDE DEF S
  <2>6. i - 1 \in Nat /\ (i - 1) + 1 = i
    OBVIOUS
  <2>7. C[i] = g[i - 1]
    <3>1. i - 1 \in S
      BY <2>4, <2>5, <2>6, Induction
    <3> QED BY <2>6, <3>1 DEF S
  <2> QED BY <2>7 DEF SumBefore, C, Is
<1> DEFINE S == {m \in Nat : m <= N => g[m] \in Nat}
<1>4. 0 \in S
  BY <1>2
<1>5. ASSUME NEW m \in Nat, m \in S PROVE m + 1 \in S
  <2> SUFFICES ASSUME m + 1 <= N PROVE g[m + 1] \in Nat
    OBVIOUS
  <2>1. m + 1 \in 0 .. N /\ m + 1 # 0 /\ (m + 1) - 1 = m /\ g[m] \in Nat
        /\ c[m + 1] \in Nat
    BY <1>5
  <2>2. g[m + 1] = g[m] + c[m + 1]
    BY <1>2, <2>1
  <2> QED BY <2>1, <2>2
<1> HIDE DEF S
<1>6. \A m \in 0 .. N : g[m] \in Nat
  <2>1. \A m \in Nat : m \in S
    BY <1>4, <1>5, Induction
  <2> QED BY <2>1 DEF S
<1>7. SumBefore(c, 1) = 0
  <2>1. 1 \in 1 .. N + 1 /\ 1 - 1 = 0 /\ 0 \in 0 .. N
    OBVIOUS
  <2>2. SumBefore(c, 1) = g[0]
    BY <1>3, <2>1
  <2> QED BY <1>2, <2>1, <2>2
<1>8. ASSUME NEW i \in 1 .. N
      PROVE  SumBefore(c, i + 1) = SumBefore(c, i) + c[i]
  <2>1. i \in 1 .. N + 1 /\ i + 1 \in 1 .. N + 1 /\ (i + 1) - 1 = i
        /\ i \in 0 .. N /\ i # 0
    OBVIOUS
  <2>2. SumBefore(c, i) = g[i - 1] /\ SumBefore(c, i + 1) = g[i]
    BY <1>3, <2>1
  <2>3. g[i] = g[i - 1] + c[i]
    BY <1>2, <2>1
  <2> QED BY <2>2, <2>3
<1>9. ASSUME NEW i \in 1 .. N + 1 PROVE SumBefore(c, i) \in Nat
  <2>1. i - 1 \in 0 .. N
    OBVIOUS
  <2> QED BY <1>3, <1>6, <2>1
<1> QED BY <1>7, <1>8, <1>9

(* Layer i's tiles follow those of the layers before it.                     *)
LEMMA TilesBeforeIs ==
  ASSUME NEW net, Accepted(net)
  PROVE  LET plans == Plans(net)
             N     == Len(net.layers)
         IN  /\ N \in Nat \ {0} /\ DOMAIN plans = 1 .. N /\ Len(plans) = N
             /\ TilesBefore(plans, 1) = 0
             /\ \A i \in 1 .. N :
                  /\ TilesOf(plans[i]) \in Nat /\ plans[i].out_blocks \in Nat
                  /\ TilesBefore(plans, i + 1)
                       = TilesBefore(plans, i) + TilesOf(plans[i])
             /\ \A i \in 1 .. N + 1 : /\ TilesBefore(plans, i) \in Nat
                                      /\ BlocksBefore(plans, i) \in Nat
             /\ TilesTotal(plans) = TilesBefore(plans, N + 1)
<1> DEFINE plans == Plans(net)
           N     == Len(net.layers)
           c     == [j \in DOMAIN plans |-> TilesOf(plans[j])]
           d     == [j \in DOMAIN plans |-> plans[j].out_blocks]
<1>1. N \in Nat /\ IsNetwork(net) /\ N # 0
  <2>1. net.layers \in Seq(Layers) /\ net.layers # << >>
    BY DEF Accepted, IsNetwork, Compilable
  <2> QED BY <2>1, EmptySeq DEF Accepted
<1>2. plans = [i \in 1 .. N |-> plans[i]]
  BY <1>1, PlansAre
<1>3. \A i \in 1 .. N : plans[i] \in Plan
  BY LayerIs DEF PlanOK
<1> HIDE DEF plans, N
<1>4. DOMAIN plans = 1 .. N
  BY <1>2
<1>5. Len(plans) = N
  <2>1. plans \in [1 .. N -> Plan]
    BY <1>2, <1>3
  <2>2. plans \in Seq(Plan)
    BY <1>1, <2>1
  <2>3. DOMAIN plans = 1 .. Len(plans) /\ Len(plans) \in Nat
    BY <2>2, LenProperties
  <2> QED BY <1>1, <1>4, <2>3
<1>6. \A j \in 1 .. N : c[j] \in Nat /\ c[j] = TilesOf(plans[j])
                        /\ d[j] = plans[j].out_blocks /\ d[j] \in Nat
  <2> TAKE j \in 1 .. N
  <2>1. plans[j].out_blocks \in Nat /\ plans[j].in_blocks \in Nat
    BY <1>3 DEF Plan
  <2>2. TilesOf(plans[j]) \in Nat
    BY <2>1, ProductNat DEF TilesOf
  <2> QED BY <1>4, <2>1, <2>2
<1>7. \A i : TilesBefore(plans, i) = SumBefore(c, i)
             /\ BlocksBefore(plans, i) = SumBefore(d, i)
  BY DEF TilesBefore, BlocksBefore
<1> HIDE DEF c, d
<1>8. /\ SumBefore(c, 1) = 0
      /\ \A i \in 1 .. N : SumBefore(c, i + 1) = SumBefore(c, i) + c[i]
      /\ \A i \in 1 .. N + 1 : SumBefore(c, i) \in Nat
  BY <1>1, <1>6, SumBeforeIs
<1>9. \A i \in 1 .. N + 1 : SumBefore(d, i) \in Nat
  BY <1>1, <1>6, SumBeforeIs
<1>10. TilesTotal(plans) = TilesBefore(plans, N + 1)
  <2>1. N \in 1 .. N
    BY <1>1
  <2> QED BY <1>5, <1>6, <1>7, <1>8, <2>1 DEF TilesTotal
<1> QED BY <1>1, <1>4, <1>5, <1>6, <1>7, <1>8, <1>9, <1>10 DEF plans, N

LEMMA TilesGrow ==
  ASSUME NEW net, Accepted(net), NEW i \in 1 .. Len(net.layers) + 1,
         NEW j \in 1 .. Len(net.layers) + 1, i <= j
  PROVE  TilesBefore(Plans(net), i) <= TilesBefore(Plans(net), j)
<1> DEFINE N == Len(net.layers)
           T(k) == TilesBefore(Plans(net), k)
           S == {m \in Nat : i + m <= N + 1 => T(i) <= T(i + m)}
<1>1. /\ N \in Nat /\ \A k \in 1 .. N + 1 : T(k) \in Nat
      /\ \A k \in 1 .. N : /\ TilesOf(Plans(net)[k]) \in Nat
                           /\ T(k + 1) = T(k) + TilesOf(Plans(net)[k])
  BY TilesBeforeIs
<1> HIDE DEF T, N
<1>2. i \in Nat /\ j \in Nat /\ i \in 1 .. N + 1 /\ j \in 1 .. N + 1
  BY DEF N
<1>3. 0 \in S
  BY <1>1, <1>2
<1>4. ASSUME NEW m \in Nat, m \in S PROVE m + 1 \in S
  <2> SUFFICES ASSUME i + (m + 1) <= N + 1 PROVE T(i) <= T(i + (m + 1))
    OBVIOUS
  <2>1. T(i) <= T(i + m) /\ i + m \in 1 .. N /\ i + m \in 1 .. N + 1
        /\ i + (m + 1) = (i + m) + 1
    BY <1>1, <1>2, <1>4
  <2> QED BY <1>1, <1>2, <2>1
<1> HIDE DEF S
<1>5. j - i \in Nat /\ i + (j - i) = j
  BY <1>2
<1>6. j - i \in S
  BY <1>3, <1>4, <1>5, Induction
<1> QED BY <1>2, <1>5, <1>6 DEF S, T, N

(* A tile's number says which layer and which blocks it is of.               *)
LEMMA TileIs ==
  ASSUME NEW net, Accepted(net), NEW i \in 1 .. Len(net.layers),
         NEW nb \in 0 .. Plans(net)[i].out_blocks - 1,
         NEW kb \in 0 .. Plans(net)[i].in_blocks - 1
  PROVE  LET plans == Plans(net)
             tile  == TileAt(plans, i, nb, kb)
         IN  /\ tile \in 0 .. TilesTotal(plans) - 1
             /\ \A j \in 1 .. Len(net.layers) :
                  tile - TilesBefore(plans, j) \in 0 .. TilesOf(plans[j]) - 1
                    <=> j = i
             /\ \A n \in 0 .. plans[i].out_blocks - 1 :
                  \A k \in 0 .. plans[i].in_blocks - 1 :
                    TileAt(plans, i, n, k) = tile => n = nb /\ k = kb
<1> DEFINE plans == Plans(net)
           N     == Len(net.layers)
           T(j)  == TilesBefore(plans, j)
           O     == plans[i].out_blocks
           I     == plans[i].in_blocks
           x     == nb * I + kb
           tile  == TileAt(plans, i, nb, kb)
<1>1. /\ N \in Nat /\ T(1) = 0 /\ \A j \in 1 .. N + 1 : T(j) \in Nat
      /\ \A j \in 1 .. N : /\ TilesOf(plans[j]) \in Nat
                           /\ T(j + 1) = T(j) + TilesOf(plans[j])
      /\ TilesTotal(plans) = T(N + 1)
  BY TilesBeforeIs
<1>2. /\ \A j, k \in 1 .. N + 1 : j <= k => T(j) <= T(k)
  BY TilesGrow
<1>3. O \in Nat /\ I \in Nat
  BY LayerIs DEF PlanOK, Plan
<1>4. tile = T(i) + nb * I + kb /\ TilesOf(plans[i]) = O * I
  BY DEF TileAt, TilesOf
<1>5. /\ nb \in 0 .. O - 1 /\ kb \in 0 .. I - 1 /\ i \in 1 .. N
  OBVIOUS
<1> HIDE DEF O, I, N, T, plans, tile
<1>6. nb * I + kb \in 0 .. O * I - 1 /\ nb * I \in Nat /\ O * I \in Nat
  BY ONLY <1>3, <1>5, InBlocks
<1>7. i \in 1 .. N + 1 /\ i + 1 \in 1 .. N + 1 /\ N + 1 \in 1 .. N + 1
      /\ i \in Nat
  BY <1>1, <1>5
<1>8. /\ T(i) \in Nat /\ T(i + 1) = T(i) + O * I /\ T(i + 1) <= T(N + 1)
      /\ tile \in T(i) .. T(i + 1) - 1 /\ T(i + 1) \in Nat /\ tile \in Nat
      /\ T(N + 1) \in Nat
  <2>1. /\ T(i) \in Nat /\ T(i + 1) = T(i) + O * I /\ T(i + 1) <= T(N + 1)
        /\ T(i + 1) \in Nat /\ T(N + 1) \in Nat
    BY <1>1, <1>2, <1>4, <1>5, <1>7
  <2> DEFINE p == O * I
             q == nb * I
  <2>2. tile = T(i) + q + kb /\ q + kb \in 0 .. p - 1 /\ p \in Nat /\ q \in Nat
        /\ T(i + 1) = T(i) + p
    BY <1>4, <1>6, <2>1
  <2> HIDE DEF p, q
  <2> QED BY <1>5, <2>1, <2>2
<1>9. tile \in 0 .. TilesTotal(plans) - 1
  BY <1>1, <1>8
<1>10. ASSUME NEW j \in 1 .. N
       PROVE  tile - T(j) \in 0 .. TilesOf(plans[j]) - 1 <=> j = i
  <2>1. /\ j \in 1 .. N + 1 /\ j + 1 \in 1 .. N + 1 /\ T(j) \in Nat
        /\ TilesOf(plans[j]) \in Nat /\ T(j + 1) = T(j) + TilesOf(plans[j])
    <3>1. j \in 1 .. N + 1 /\ j + 1 \in 1 .. N + 1
      BY ONLY <1>1, j \in 1 .. N
    <3> QED BY <1>1, <3>1
  <2>2. tile - T(j) \in 0 .. TilesOf(plans[j]) - 1
          <=> T(j) <= tile /\ tile < T(j + 1)
    BY <1>8, <2>1, SMTT(30)
  <2>3. CASE j = i
    BY <1>8, <2>1, <2>2, <2>3
  <2>4. CASE j < i
    <3>1. j + 1 <= i
      BY <1>5, <2>1, <2>4
    <3>2. T(j + 1) <= T(i) /\ T(j + 1) \in Nat
      BY <1>1, <1>2, <1>7, <2>1, <3>1
    <3> QED BY <1>8, <2>2, <2>4, <3>2
  <2>5. CASE j > i
    <3>1. i + 1 <= j
      BY <1>5, <2>1, <2>5
    <3>2. T(i + 1) <= T(j)
      BY <1>2, <1>7, <2>1, <3>1
    <3> QED BY <1>8, <2>1, <2>2, <2>5, <3>2
  <2> QED BY <1>5, <2>1, <2>3, <2>4, <2>5
<1>11. ASSUME NEW n \in 0 .. O - 1, NEW k \in 0 .. I - 1,
              TileAt(plans, i, n, k) = tile
       PROVE  n = nb /\ k = kb
  <2>1. T(i) + n * I + k = T(i) + nb * I + kb
    BY <1>4, <1>11 DEF TileAt, T, I
  <2>2. n * I \in Nat /\ nb * I \in Nat /\ I \in Nat \ {0}
        /\ n \in Nat /\ nb \in Nat
    <3>1. I # 0
      BY <1>3, <1>5
    <3>2. n \in Nat /\ nb \in Nat /\ I \in Nat \ {0}
      BY ONLY <1>3, <1>5, <3>1, n \in 0 .. O - 1
    <3> QED BY <3>2, ProductNat
  <2>3. n * I + k = nb * I + kb
    <3> DEFINE p == n * I
               q == nb * I
    <3>1. T(i) + p + k = T(i) + q + kb /\ p \in Nat /\ q \in Nat
      BY <2>1, <2>2
    <3> HIDE DEF p, q
    <3>2. p + k = q + kb
      BY <1>5, <1>8, <3>1
    <3> QED BY <3>2 DEF p, q
  <2>4. /\ ((n * I) + k) \div I = n /\ ((n * I) + k) % I = k
        /\ ((nb * I) + kb) \div I = nb /\ ((nb * I) + kb) % I = kb
    BY ONLY <1>5, <2>2, k \in 0 .. I - 1, DivisionIs
  <2> QED BY <2>3, <2>4
<1> QED BY <1>9, <1>10, <1>11 DEF O, I, N, T, plans, tile

(* Byte k * Dim + n of a tile is its row k, column n.                        *)
LEMMA WeightByteIs ==
  ASSUME NEW net, Accepted(net), NEW i \in 1 .. Len(net.layers),
         NEW nb \in 0 .. Plans(net)[i].out_blocks - 1,
         NEW kb \in 0 .. Plans(net)[i].in_blocks - 1,
         NEW k \in Cols, NEW n \in Cols
  PROVE  WeightByte(net, TileAt(Plans(net), i, nb, kb), k * Dim + n)
           = IF kb * Dim + k < net.layers[i].rows
                  /\ nb * Dim + n < net.layers[i].cols
             THEN <<"w", i, kb * Dim + k, nb * Dim + n>> ELSE Zero
<1> DEFINE plans == Plans(net)
           N     == Len(net.layers)
           tile  == TileAt(plans, i, nb, kb)
           b     == k * Dim + n
           L     == CHOOSE j \in DOMAIN plans :
                      tile - TilesBefore(plans, j)
                        \in 0 .. TilesOf(plans[j]) - 1
           B     == CHOOSE at \in (0 .. plans[L].out_blocks - 1)
                                    \X (0 .. plans[L].in_blocks - 1) :
                      TileAt(plans, L, at[1], at[2]) = tile
<1>1. L = i
  <2>1. \A j \in DOMAIN plans :
          tile - TilesBefore(plans, j) \in 0 .. TilesOf(plans[j]) - 1 <=> j = i
    <3>1. DOMAIN plans = 1 .. N
      BY TilesBeforeIs
    <3>2. \A j \in 1 .. N :
            tile - TilesBefore(plans, j) \in 0 .. TilesOf(plans[j]) - 1
              <=> j = i
      BY TileIs
    <3> QED BY <3>1, <3>2
  <2>2. i \in DOMAIN plans
    BY TilesBeforeIs
  <2> HIDE DEF plans, tile
  <2> QED BY <2>1, <2>2
<1> HIDE DEF L
<1>2. B = <<nb, kb>>
  <2> DEFINE X == (0 .. plans[i].out_blocks - 1)
                    \X (0 .. plans[i].in_blocks - 1)
  <2>1. \A at \in X : TileAt(plans, i, at[1], at[2]) = tile => at = <<nb, kb>>
    BY TileIs
  <2>2. /\ <<nb, kb>> \in X
        /\ TileAt(plans, i, <<nb, kb>>[1], <<nb, kb>>[2]) = tile
    OBVIOUS
  <2>3. B = CHOOSE at \in X : TileAt(plans, i, at[1], at[2]) = tile
    BY <1>1
  <2> HIDE DEF X, B, tile, plans
  <2> QED BY <2>1, <2>2, <2>3
<1> HIDE DEF B
<1>3. b \div Dim = k /\ b % Dim = n
  <2>1. Dim \in Nat \ {0} /\ k \in Nat /\ n \in 0 .. Dim - 1
    BY MemoryAssumption DEF Cols
  <2> QED BY ONLY <2>1, DivisionIs
<1> HIDE DEF b
<1>4. WeightByte(net, tile, b)
        = IF B[2] * Dim + b \div Dim < net.layers[L].rows
               /\ B[1] * Dim + (b % Dim) < net.layers[L].cols
          THEN <<"w", L, B[2] * Dim + b \div Dim, B[1] * Dim + (b % Dim)>>
          ELSE Zero
  BY DEF WeightByte, L, B
<1> HIDE DEF tile, plans
<1>5. WeightByte(net, tile, b)
        = IF kb * Dim + k < net.layers[i].rows
               /\ nb * Dim + n < net.layers[i].cols
          THEN <<"w", i, kb * Dim + k, nb * Dim + n>> ELSE Zero
  BY ONLY <1>1, <1>2, <1>3, <1>4
<1> QED BY <1>5 DEF tile, plans, b

-----------------------------------------------------------------------------
(* The program's parts are instructions, none of them a Halt                 *)

LEMMA BlankIs ==
  ASSUME NEW op \in Ops
  PROVE  Blank(op) \in Instr
BY DEF Blank, Instr, Functions, Poolings

LEMMA ReadTileIs ==
  ASSUME NEW tile \in Nat
  PROVE  /\ ReadTile(tile) \in Instr /\ ReadTile(tile).op = "ReadWeights"
         /\ ReadTile(tile).tile = tile
BY DEF ReadTile, Blank, Instr, Functions, Poolings, Ops

LEMMA HostTransferIs ==
  ASSUME NEW op \in Transfers, NEW h \in Nat, NEW u \in Nat, NEW n \in Nat
  PROVE  LET i == HostTransfer(op, h, u, n)
         IN  /\ i \in Instr /\ i.op = op /\ i.host_row = h /\ i.ub_row = u
             /\ i.rows = n
BY DEF HostTransfer, Blank, Instr, Functions, Poolings, Ops, Transfers

LEMMA ActivateIs ==
  ASSUME NEW layer \in Layers, NEW a \in Nat, NEW u \in Nat, NEW n \in Nat
  PROVE  LET i == Activate(layer, a, u, n)
         IN  /\ i \in Instr /\ i.op = "Activate" /\ i.ub_row = u
             /\ i.acc_row = a /\ i.rows = n
             /\ i.function = layer.function /\ i.pool = layer.pool
             /\ i.pool_size = layer.pool_size
             /\ i.pool_width = layer.pool_width
BY DEF Activate, Blank, Instr, Functions, Poolings, Ops, Layers

(* What is said of layer i below, all of it numbers.                         *)
LEMMA Shape ==
  ASSUME NEW net, Accepted(net), NEW i \in 1 .. Len(net.layers)
  PROVE  LET plan == Plans(net)[i]
         IN  /\ plan.in_ub \in Nat /\ plan.in_rows \in Nat \ {0}
             /\ plan.in_blocks \in Nat \ {0} /\ plan.out_ub \in Nat
             /\ plan.out_rows \in Nat /\ plan.out_blocks \in Nat
             /\ plan.in_ub + plan.in_blocks * plan.in_rows = plan.out_ub
             /\ plan.out_ub + plan.out_blocks * plan.out_rows <= UbRows
             /\ net.layers[i] \in Layers /\ plan.in_rows <= AccRows
             /\ TilesBefore(Plans(net), i) \in Nat
             /\ TilesTotal(Plans(net)) \in Nat
<1> DEFINE plan  == Plans(net)[i]
           layer == net.layers[i]
<1>1. /\ plan \in Plan
      /\ plan.in_ub + plan.in_blocks * plan.in_rows = plan.out_ub
      /\ EndOf(plan) <= UbRows /\ plan.in_rows \in 1 .. AccRows
      /\ layer \in Layers
      /\ plan.in_blocks = BlockCount(layer.rows) /\ layer.rows > 0
  BY LayerIs DEF PlanOK
<1>2. plan.in_blocks > 0
  <2>1. layer.rows \in Nat
    BY <1>1 DEF Layers
  <2> QED BY <1>1, <2>1, BlockCountIs
<1>3. /\ TilesBefore(Plans(net), i) \in Nat /\ TilesTotal(Plans(net)) \in Nat
  <2>1. Len(net.layers) \in Nat
    BY TilesBeforeIs
  <2>2. i \in 1 .. Len(net.layers) + 1
        /\ Len(net.layers) + 1 \in 1 .. Len(net.layers) + 1
    BY <2>1
  <2> QED BY <2>2, TilesBeforeIs
<1> HIDE DEF plan, layer
<1>4. plan.in_rows \in Nat \ {0} /\ plan.in_rows <= AccRows
  BY <1>1, MemoryAssumption
<1>5. /\ plan.in_ub \in Nat /\ plan.in_blocks \in Nat /\ plan.out_ub \in Nat
      /\ plan.out_rows \in Nat /\ plan.out_blocks \in Nat
  BY <1>1 DEF Plan
<1> QED BY <1>1, <1>2, <1>3, <1>4, <1>5 DEF plan, layer, EndOf

(* A block's sums fit where they are added up.                               *)
LEMMA AccRowIs ==
  ASSUME NEW net, Accepted(net), NEW i \in 1 .. Len(net.layers),
         NEW nb \in 0 .. Plans(net)[i].out_blocks - 1
  PROVE  /\ AccRowOf(Plans(net), i, nb) \in Nat
         /\ AccRowOf(Plans(net), i, nb) + Plans(net)[i].in_rows <= AccRows
<1> DEFINE plans == Plans(net)
           b == BlocksBefore(plans, i)
           n == plans[i].in_rows
           h == AccBufferRows
<1>1. /\ b \in Nat /\ i \in DOMAIN plans
      /\ n \in Nat /\ n <= AccRows /\ nb \in Nat /\ AccRows \in Nat
  <2>1. /\ Len(net.layers) \in Nat /\ DOMAIN plans = 1 .. Len(net.layers)
        /\ \A j \in 1 .. Len(net.layers) + 1 : BlocksBefore(plans, j) \in Nat
    BY TilesBeforeIs
  <2>2. i \in 1 .. Len(net.layers) + 1
    BY <2>1
  <2>3. plans[i].out_blocks \in Nat /\ n \in Nat /\ n <= AccRows
    BY Shape
  <2>4. nb \in Nat
    BY <2>3
  <2> QED BY <2>1, <2>2, <2>3, <2>4, MemoryAssumption
<1> HIDE DEF b, plans, n
<1>2. h \in Nat /\ h + h <= AccRows
  BY <1>1, Z3 DEF AccBufferRows
<1> HIDE DEF h
<1>3. CASE DoubleBuffered(plans)
  <2>1. n <= h
    BY <1>1, <1>3 DEF DoubleBuffered, n, h
  <2>2. (b + nb) % 2 \in 0 .. 1
    BY <1>1
  <2> DEFINE r == (b + nb) % 2
  <2>3. AccRowOf(plans, i, nb) = r * h
    BY <1>3 DEF AccRowOf, b, h
  <2> HIDE DEF r
  <2>4. r * h = 0 \/ r * h = h
    <3>1. r = 0 \/ r = 1
      BY <2>2 DEF r
    <3> QED BY <1>2, <3>1
  <2>5. r * h \in Nat /\ r * h + n <= AccRows
    BY <1>1, <1>2, <2>1, <2>4
  <2> QED BY <2>3, <2>5 DEF plans, n
<1>4. CASE ~DoubleBuffered(plans)
  <2>1. AccRowOf(plans, i, nb) = 0
    BY <1>4 DEF AccRowOf
  <2> QED BY <1>1, <2>1 DEF plans, n
<1> QED BY <1>3, <1>4

(* The multiply of input block kb.                                           *)
BlockMultiply(net, i, nb, kb) ==
  LET plan == Plans(net)[i]
  IN  Multiply(plan.in_ub + kb * plan.in_rows, AccRowOf(Plans(net), i, nb),
               plan.in_rows, kb > 0)

LEMMA StepCodeIs ==
  ASSUME NEW net, Accepted(net), NEW i \in 1 .. Len(net.layers),
         NEW nb \in 0 .. Plans(net)[i].out_blocks - 1,
         NEW kb \in 0 .. Plans(net)[i].in_blocks - 1
  PROVE  LET plan  == Plans(net)[i]
             first == BlockMultiply(net, i, nb, kb)
             tile  == TileAt(Plans(net), i, nb, kb)
         IN  /\ first \in Instr /\ tile \in Nat
             /\ plan.in_ub + kb * plan.in_rows \in Nat
             /\ first.op # "Halt" /\ ReadTile(tile + PrefetchTiles) \in Instr
             /\ ReadTile(tile + PrefetchTiles).op # "Halt"
             /\ StepCode(Plans(net), i, nb, kb)
                  = IF tile + PrefetchTiles < TilesTotal(Plans(net))
                    THEN <<first>> \o <<ReadTile(tile + PrefetchTiles)>>
                    ELSE <<first>>
             /\ first.op = "MatrixMultiply" /\ kb \in Nat
<1> DEFINE plan  == Plans(net)[i]
           u     == plan.in_ub + kb * plan.in_rows
           a     == AccRowOf(Plans(net), i, nb)
           more  == kb > 0
           first == Multiply(u, a, plan.in_rows, more)
           tile  == TileAt(Plans(net), i, nb, kb)
           next  == ReadTile(tile + PrefetchTiles)
<1>1. /\ plan.in_ub \in Nat /\ plan.in_rows \in Nat /\ plan.in_blocks \in Nat
      /\ plan.out_blocks \in Nat
  BY Shape
<1>2. u \in Nat /\ a \in Nat
  <2>1. kb * plan.in_rows \in Nat
    <3>1. kb \in Nat
      BY <1>1
    <3> QED BY <1>1, <3>1, ProductNat
  <2>2. a \in Nat
    BY AccRowIs
  <2> DEFINE p == kb * plan.in_rows
  <2>3. plan.in_ub + p \in Nat
    <3> HIDE DEF p, plan
    <3>1. p \in Nat
      BY <2>1 DEF p
    <3> QED BY <1>1, <3>1
  <2> QED BY <2>2, <2>3
<1>3. tile \in Nat
  <2>1. tile \in 0 .. TilesTotal(Plans(net)) - 1
    BY TileIs
  <2> QED BY <2>1
<1>4. tile + PrefetchTiles \in Nat
  BY <1>3, CompilerAssumption
<1> HIDE DEF plan, u, a, tile
<1>5. first \in Instr /\ first.op = "MatrixMultiply"
  <2>1. more \in BOOLEAN /\ plan.in_rows \in Nat
    BY <1>1
  <2> DEFINE n == plan.in_rows
  <2>2. n \in Nat
    BY <2>1
  <2> HIDE DEF more, n
  <2>3. LET m == Multiply(u, a, n, more)
        IN  m \in Instr /\ m.op = "MatrixMultiply"
    BY ONLY <1>2, <2>1, <2>2
       DEF Multiply, Blank, Instr, Functions, Poolings, Ops
  <2> QED BY <2>3 DEF n
<1>6. next \in Instr /\ next.op = "ReadWeights"
  BY <1>4, ReadTileIs
<1>7. StepCode(Plans(net), i, nb, kb)
        = <<first>> \o IF tile + PrefetchTiles < TilesTotal(Plans(net))
                       THEN <<next>> ELSE << >>
  BY DEF StepCode, tile, TileAt, plan, u, a
<1> HIDE DEF first, next
<1>8. <<first>> \o << >> = <<first>>
  <2>1. <<first>> \in Seq(Instr)
    BY <1>5
  <2> QED BY <2>1, ConcatEmptySeq
<1>9. kb \in Nat
  BY <1>1
<1>10. /\ first \in Instr /\ tile \in Nat /\ u \in Nat /\ first.op # "Halt"
       /\ next \in Instr /\ next.op # "Halt" /\ kb \in Nat
       /\ first.op = "MatrixMultiply"
       /\ StepCode(Plans(net), i, nb, kb)
            = IF tile + PrefetchTiles < TilesTotal(Plans(net))
              THEN <<first>> \o <<next>> ELSE <<first>>
  <2>1. first.op # "Halt" /\ next.op # "Halt"
    BY <1>5, <1>6
  <2> QED BY ONLY <1>2, <1>3, <1>5, <1>6, <1>7, <1>8, <1>9, <2>1
<1> QED BY ONLY <1>10 DEF BlockMultiply, plan, tile, first, next, u, a, more

LEMMA StepSeq ==
  ASSUME NEW net, Accepted(net), NEW i \in 1 .. Len(net.layers),
         NEW nb \in 0 .. Plans(net)[i].out_blocks - 1,
         NEW kb \in 0 .. Plans(net)[i].in_blocks - 1
  PROVE  LET code == StepCode(Plans(net), i, nb, kb)
         IN  code \in Seq(Instr) /\ RunsThrough(code)
<1> DEFINE code == StepCode(Plans(net), i, nb, kb)
<1>1. PICK a, b : /\ a \in Instr /\ b \in Instr
                  /\ a.op # "Halt" /\ b.op # "Halt"
                  /\ code = <<a>> \o <<b>> \/ code = <<a>>
  BY StepCodeIs
<1> HIDE DEF code
<1>2. /\ <<a>> \in Seq(Instr) /\ <<b>> \in Seq(Instr)
      /\ RunsThrough(<<a>>) /\ RunsThrough(<<b>>)
  BY <1>1 DEF RunsThrough
<1>3. <<a>> \o <<b>> \in Seq(Instr) /\ RunsThrough(<<a>> \o <<b>>)
  BY <1>2, PartsRunThrough, ConcatProperties
<1>4. code \in Seq(Instr) /\ RunsThrough(code)
  BY <1>1, <1>2, <1>3
<1> QED BY <1>4 DEF code

LEMMA BlockSeq ==
  ASSUME NEW net, Accepted(net), NEW i \in 1 .. Len(net.layers),
         NEW nb \in 0 .. Plans(net)[i].out_blocks - 1
  PROVE  LET plan  == Plans(net)[i]
             steps == [k \in 1 .. plan.in_blocks |->
                         StepCode(Plans(net), i, nb, k - 1)]
             last  == Activate(net.layers[i], AccRowOf(Plans(net), i, nb),
                               plan.out_ub + nb * plan.out_rows, plan.in_rows)
             code  == BlockCode(net, Plans(net), i, nb)
         IN  /\ code = FlattenSeq(steps) \o <<last>>
             /\ steps \in [1 .. plan.in_blocks -> Seq(Instr)]
             /\ FlattenSeq(steps) \in Seq(Instr)
             /\ last \in Instr /\ <<last>> \in Seq(Instr)
             /\ plan.out_ub + nb * plan.out_rows \in Nat
             /\ code \in Seq(Instr) /\ RunsThrough(code)
<1> DEFINE plan  == Plans(net)[i]
           n     == plan.in_blocks
           steps == [k \in 1 .. n |-> StepCode(Plans(net), i, nb, k - 1)]
           u     == plan.out_ub + nb * plan.out_rows
           a     == AccRowOf(Plans(net), i, nb)
           last  == Activate(net.layers[i], a, u, plan.in_rows)
           code  == BlockCode(net, Plans(net), i, nb)
<1>1. n \in Nat /\ plan.in_rows \in Nat /\ net.layers[i] \in Layers
  BY Shape
<1>2. \A k \in 1 .. n : steps[k] \in Seq(Instr) /\ RunsThrough(steps[k])
  <2> TAKE k \in 1 .. n
  <2>1. k - 1 \in 0 .. n - 1
    BY <1>1
  <2>2. steps[k] = StepCode(Plans(net), i, nb, k - 1)
    OBVIOUS
  <2> HIDE DEF steps
  <2> QED BY <2>1, <2>2, StepSeq
<1>3. steps \in [1 .. n -> Seq(Instr)]
  BY <1>2
<1>4. code = FlattenSeq(steps) \o <<last>>
  BY DEF BlockCode
<1>5. u \in Nat
  <2>1. plan.out_ub \in Nat /\ plan.out_rows \in Nat /\ plan.out_blocks \in Nat
    BY Shape
  <2>2. nb \in Nat
    BY <2>1
  <2> DEFINE p == nb * plan.out_rows
  <2>3. p \in Nat
    BY <2>1, <2>2, ProductNat
  <2> HIDE DEF p
  <2>4. plan.out_ub + p \in Nat
    BY <2>1, <2>3
  <2> QED BY <2>4 DEF p
<1>6. a \in Nat
  BY AccRowIs
<1> HIDE DEF n, u, a, steps
<1>7. last \in Instr /\ last.op = "Activate"
  <2> DEFINE layer == net.layers[i]
             rows  == plan.in_rows
  <2>1. layer \in Layers /\ rows \in Nat
    BY <1>1
  <2> HIDE DEF layer, rows
  <2>2. LET at == Activate(layer, a, u, rows)
        IN  at \in Instr /\ at.op = "Activate"
    BY ONLY <1>5, <1>6, <2>1, ActivateIs
  <2> QED BY <2>2 DEF layer, rows
<1> HIDE DEF last, code, plan
<1>8. <<last>> \in Seq(Instr) /\ RunsThrough(<<last>>)
  BY <1>7 DEF RunsThrough
<1>9. FlattenSeq(steps) \in Seq(Instr) /\ RunsThrough(FlattenSeq(steps))
  BY <1>1, <1>2, <1>3, JoinedRunsThrough
<1>10. FlattenSeq(steps) \o <<last>> \in Seq(Instr)
       /\ RunsThrough(FlattenSeq(steps) \o <<last>>)
  BY <1>8, <1>9, PartsRunThrough, ConcatProperties
<1> QED BY <1>3, <1>4, <1>5, <1>7, <1>8, <1>9, <1>10
        DEF last, code, u, a, steps, n, plan

LEMMA LayerSeq ==
  ASSUME NEW net, Accepted(net), NEW i \in 1 .. Len(net.layers)
  PROVE  LET n      == Plans(net)[i].out_blocks
             blocks == [b \in 1 .. n |-> BlockCode(net, Plans(net), i, b - 1)]
             code   == LayerCode(net, Plans(net), i)
         IN  /\ code = FlattenSeq(blocks)
             /\ blocks \in [1 .. n -> Seq(Instr)]
             /\ code \in Seq(Instr) /\ RunsThrough(code)
<1> DEFINE n      == Plans(net)[i].out_blocks
           blocks == [b \in 1 .. n |-> BlockCode(net, Plans(net), i, b - 1)]
           code   == LayerCode(net, Plans(net), i)
<1>1. n \in Nat
  BY Shape
<1>2. \A k \in 1 .. n : blocks[k] \in Seq(Instr) /\ RunsThrough(blocks[k])
  <2> TAKE k \in 1 .. n
  <2>1. k - 1 \in 0 .. n - 1
    BY <1>1
  <2>2. blocks[k] = BlockCode(net, Plans(net), i, k - 1)
    OBVIOUS
  <2> HIDE DEF blocks
  <2> QED BY <2>1, <2>2, BlockSeq, ZenonT(60)
<1>3. blocks \in [1 .. n -> Seq(Instr)]
  BY <1>2
<1>4. code = FlattenSeq(blocks)
  BY DEF LayerCode
<1> HIDE DEF n, blocks, code
<1>5. FlattenSeq(blocks) \in Seq(Instr) /\ RunsThrough(FlattenSeq(blocks))
  BY <1>1, <1>2, <1>3, JoinedRunsThrough
<1> QED BY <1>3, <1>4, <1>5 DEF blocks, code, n

EarlyReads(net) ==
  [t \in 1 .. Least(TilesTotal(Plans(net)), PrefetchTiles) |-> ReadTile(t - 1)]

InputRead(net, b) ==
  HostTransfer("ReadHostMemory", b * net.rows, b * net.rows, net.rows)

InputReads(net) == [b \in 1 .. BlockCount(net.cols) |-> InputRead(net, b - 1)]

LayersCode(net) ==
  FlattenSeq([i \in DOMAIN Plans(net) |-> LayerCode(net, Plans(net), i)])

ResultWrite(net, b) ==
  LET last == Plans(net)[Len(net.layers)]
  IN  HostTransfer("WriteHostMemory", ResultHostRow(net) + b * last.out_rows,
                   last.out_ub + b * last.out_rows, last.out_rows)

ResultWrites(net) ==
  [b \in 1 .. Plans(net)[Len(net.layers)].out_blocks |->
     ResultWrite(net, b - 1)]

Working(net) ==
  EarlyReads(net) \o InputReads(net) \o LayersCode(net) \o ResultWrites(net)

LEMMA CodeIs ==
  ASSUME NEW net, Accepted(net)
  PROVE  /\ EarlyReads(net) \in Seq(Instr) /\ InputReads(net) \in Seq(Instr)
         /\ LayersCode(net) \in Seq(Instr) /\ ResultWrites(net) \in Seq(Instr)
         /\ Working(net) \in Seq(Instr) /\ RunsThrough(Working(net))
         /\ Code(net) = Working(net) \o <<Blank("Halt")>>
         /\ ResultHostRow(net) \in Nat
<1> DEFINE N == Len(net.layers)
           last == Plans(net)[N]
           e == Least(TilesTotal(Plans(net)), PrefetchTiles)
           m == BlockCount(net.cols)
           q == last.out_blocks
           layers == [i \in 1 .. N |-> LayerCode(net, Plans(net), i)]
<1>1. /\ N \in Nat \ {0} /\ DOMAIN Plans(net) = 1 .. N /\ Len(Plans(net)) = N
      /\ net.rows \in Nat /\ net.cols \in Nat
  BY TilesBeforeIs DEF Accepted, IsNetwork
<1>2. N \in 1 .. N
  BY <1>1
<1>3. e \in Nat
  <2>1. TilesTotal(Plans(net)) \in Nat
    BY <1>2, Shape
  <2> QED BY <2>1, CompilerAssumption DEF Least
<1>4. m \in Nat /\ q \in Nat /\ last.out_rows \in Nat /\ last.out_ub \in Nat
  BY <1>1, <1>2, Shape, BlockCountIs
<1>5. Code(net) = Working(net) \o <<Blank("Halt")>>
  BY <1>1 DEF Code, Working, EarlyReads, InputReads, InputRead, LayersCode,
     ResultWrites, ResultWrite
<1> HIDE DEF e, m, q
<1>6. EarlyReads(net) \in Seq(Instr) /\ RunsThrough(EarlyReads(net))
  <2>1. EarlyReads(net) = [t \in 1 .. e |-> ReadTile(t - 1)]
    BY DEF EarlyReads, e
  <2>2. \A t \in 1 .. e : ReadTile(t - 1) \in Instr
                          /\ ReadTile(t - 1).op # "Halt"
    <3> TAKE t \in 1 .. e
    <3>1. t - 1 \in Nat
      BY <1>3
    <3>2. ReadTile(t - 1) \in Instr /\ ReadTile(t - 1).op = "ReadWeights"
      BY <3>1, ReadTileIs
    <3> QED BY <3>2
  <2>3. [t \in 1 .. e |-> ReadTile(t - 1)] \in Seq(Instr)
    BY <1>3, <2>2
  <2> QED BY <1>3, <2>1, <2>2, <2>3 DEF RunsThrough
<1>7. InputReads(net) \in Seq(Instr) /\ RunsThrough(InputReads(net))
  <2>1. InputReads(net) = [b \in 1 .. m |-> InputRead(net, b - 1)]
    BY DEF InputReads, m
  <2>2. \A b \in 1 .. m : InputRead(net, b - 1) \in Instr
                          /\ InputRead(net, b - 1).op # "Halt"
    <3> TAKE b \in 1 .. m
    <3> DEFINE h == (b - 1) * net.rows
               n == net.rows
    <3>1. h \in Nat /\ n \in Nat /\ "ReadHostMemory" \in Transfers
      <4>1. b - 1 \in Nat
        BY <1>4
      <4> QED BY <1>1, <4>1, ProductNat DEF Transfers
    <3> HIDE DEF h, n
    <3>2. LET r == HostTransfer("ReadHostMemory", h, h, n)
          IN  r \in Instr /\ r.op = "ReadHostMemory"
      BY <3>1, HostTransferIs
    <3> QED BY <3>2 DEF InputRead, h, n
  <2>3. [b \in 1 .. m |-> InputRead(net, b - 1)] \in Seq(Instr)
    BY <1>4, <2>2
  <2> QED BY <1>4, <2>1, <2>2, <2>3 DEF RunsThrough
<1>8. ResultHostRow(net) \in Nat
  BY <1>1, <1>4, ProductNat DEF ResultHostRow, m
<1>9. ResultWrites(net) \in Seq(Instr) /\ RunsThrough(ResultWrites(net))
  <2>1. ResultWrites(net) = [b \in 1 .. q |-> ResultWrite(net, b - 1)]
    BY DEF ResultWrites, q
  <2>2. \A b \in 1 .. q : ResultWrite(net, b - 1) \in Instr
                          /\ ResultWrite(net, b - 1).op # "Halt"
    <3> TAKE b \in 1 .. q
    <3> DEFINE p == (b - 1) * last.out_rows
               h == ResultHostRow(net) + p
               u == last.out_ub + p
               n == last.out_rows
    <3>1. p \in Nat
      <4>1. b - 1 \in Nat
        BY <1>4
      <4> QED BY <1>4, <4>1, ProductNat
    <3>2. h \in Nat /\ u \in Nat /\ n \in Nat /\ "WriteHostMemory" \in Transfers
      <4> HIDE DEF p
      <4> QED BY <1>4, <1>8, <3>1 DEF Transfers
    <3> HIDE DEF h, u, n
    <3>3. LET r == HostTransfer("WriteHostMemory", h, u, n)
          IN  r \in Instr /\ r.op = "WriteHostMemory"
      BY <3>2, HostTransferIs
    <3> QED BY <3>3 DEF ResultWrite, h, u, n
  <2>3. [b \in 1 .. q |-> ResultWrite(net, b - 1)] \in Seq(Instr)
    BY <1>4, <2>2
  <2> QED BY <1>4, <2>1, <2>2, <2>3 DEF RunsThrough
<1>10. LayersCode(net) \in Seq(Instr) /\ RunsThrough(LayersCode(net))
  <2>1. LayersCode(net) = FlattenSeq(layers)
    BY <1>1 DEF LayersCode
  <2>2. \A i \in 1 .. N : layers[i] \in Seq(Instr) /\ RunsThrough(layers[i])
    BY LayerSeq
  <2>3. layers \in [1 .. N -> Seq(Instr)]
    BY <2>2
  <2> HIDE DEF layers
  <2> QED BY <1>1, <2>1, <2>2, <2>3, JoinedRunsThrough
<1>11. Working(net) \in Seq(Instr) /\ RunsThrough(Working(net))
  <2>1. LET x == EarlyReads(net) \o InputReads(net)
        IN  x \in Seq(Instr) /\ RunsThrough(x)
    BY <1>6, <1>7, PartsRunThrough, ConcatProperties
  <2>2. LET x == EarlyReads(net) \o InputReads(net) \o LayersCode(net)
        IN  x \in Seq(Instr) /\ RunsThrough(x)
    BY <1>10, <2>1, PartsRunThrough, ConcatProperties
  <2> QED BY <1>9, <2>2, PartsRunThrough, ConcatProperties DEF Working
<1> QED BY <1>5, <1>6, <1>7, <1>8, <1>9, <1>10, <1>11

-----------------------------------------------------------------------------
(* Rows of memory, sums and waiting tiles                                    *)

LEMMA RowAddress ==
  ASSUME NEW r \in Nat, NEW n \in Cols
  PROVE  /\ UbAt(r, n) \in Nat /\ UbAt(r, n) \div Dim = r
         /\ UbAt(r, n) % Dim = n
         /\ r < UbRows => UbAt(r, n) \in UbAddrs
         /\ r < HostRows => UbAt(r, n) \in HostAddrs
<1> DEFINE d == Dim
<1>1. d \in Nat \ {0} /\ n \in 0 .. d - 1 /\ UbRows \in Nat /\ HostRows \in Nat
  BY MemoryAssumption DEF Cols
<1>2. (r * d) + n \in Nat /\ ((r * d) + n) \div d = r /\ ((r * d) + n) % d = n
  BY ONLY <1>1, r \in Nat, DivisionIs
<1>3. ASSUME NEW m \in Nat, r < m PROVE (r * d) + n \in 0 .. m * d - 1
  <2>1. r \in 0 .. m - 1 /\ d \in Nat
    BY <1>1, <1>3
  <2> HIDE DEF d
  <2> QED BY <1>1, <2>1, InBlocks
<1> QED BY <1>1, <1>2, <1>3 DEF UbAt, UbAddrs, HostAddrs

LEMMA JoinedFunctions ==
  ASSUME NEW a \in Nat, NEW b \in Nat, NEW f, NEW g,
         f = [k \in 1 .. a |-> f[k]], g = [k \in 1 .. b |-> g[k]]
  PROVE  f \o g = [k \in 1 .. a + b |-> IF k <= a THEN f[k] ELSE g[k - a]]
<1> DEFINE S == {f[k] : k \in 1 .. a} \cup {g[k] : k \in 1 .. b}
<1>1. f \in Seq(S) /\ Len(f) = a /\ g \in Seq(S) /\ Len(g) = b
  <2>1. f \in [1 .. a -> S] /\ g \in [1 .. b -> S]
    <3>1. /\ \A k \in 1 .. a : f[k] \in S
          /\ \A k \in 1 .. b : g[k] \in S
      OBVIOUS
    <3> HIDE DEF S
    <3> QED BY <3>1
  <2> HIDE DEF S
  <2>2. f \in Seq(S) /\ g \in Seq(S)
    BY <2>1
  <2>3. DOMAIN f = 1 .. a /\ DOMAIN g = 1 .. b
    BY <2>1
  <2> QED BY <2>2, <2>3, LenProperties
<1> HIDE DEF S
<1>2. /\ f \o g \in Seq(S) /\ Len(f \o g) = a + b
      /\ \A k \in 1 .. a + b :
           (f \o g)[k] = IF k <= a THEN f[k] ELSE g[k - a]
  BY <1>1, ConcatProperties, ZenonT(60)
<1>3. f \o g = [k \in 1 .. a + b |-> (f \o g)[k]]
  BY <1>2, LenProperties
<1> QED BY <1>2, <1>3

(* The tiles read and not yet used when t multiplies are done.               *)
Waiting(net, t) ==
  [k \in 1 .. Least(TilesTotal(Plans(net)), t + PrefetchTiles) - t |->
     t + k - 1]

LEMMA WaitingMoves ==
  ASSUME NEW net, TilesTotal(Plans(net)) \in Nat,
         NEW t \in 0 .. TilesTotal(Plans(net)) - 1
  PROVE  /\ Head(Waiting(net, t)) = t
         /\ IF t + PrefetchTiles < TilesTotal(Plans(net))
            THEN Append(Tail(Waiting(net, t)), t + PrefetchTiles)
                   = Waiting(net, t + 1)
            ELSE Tail(Waiting(net, t)) = Waiting(net, t + 1)
<1> DEFINE T == TilesTotal(Plans(net))
           m(u) == Least(T, u + PrefetchTiles) - u
           w == Waiting(net, t)
           v == Waiting(net, t + 1)
<1>1. T \in Nat /\ t \in Nat /\ t < T /\ PrefetchTiles \in Nat \ {0}
  BY CompilerAssumption
<1> HIDE DEF T
<1>2. /\ m(t) \in Nat \ {0} /\ m(t + 1) \in Nat
      /\ t + PrefetchTiles < T => m(t + 1) = m(t) /\ m(t) = PrefetchTiles
      /\ ~(t + PrefetchTiles < T) => m(t + 1) = m(t) - 1
  BY <1>1 DEF Least
<1> HIDE DEF m
<1>3. /\ w = [k \in 1 .. m(t) |-> t + k - 1]
      /\ v = [k \in 1 .. m(t + 1) |-> (t + 1) + k - 1]
  BY DEF Waiting, m, T
<1> HIDE DEF w, v
<1>4. /\ w \in Seq(Nat) /\ v \in Seq(Nat)
      /\ Len(w) = m(t) /\ Len(v) = m(t + 1) /\ w # << >>
  <2>1. \A k \in 1 .. m(t) : t + k - 1 \in Nat
    BY <1>1, <1>2
  <2>2. \A k \in 1 .. m(t + 1) : (t + 1) + k - 1 \in Nat
    BY <1>1, <1>2
  <2>3. w \in Seq(Nat) /\ v \in Seq(Nat)
    <3>1. w \in [1 .. m(t) -> Nat]
      BY <1>3, <2>1
    <3>2. v \in [1 .. m(t + 1) -> Nat]
      BY <1>3, <2>2
    <3>3. m(t) \in Nat /\ m(t + 1) \in Nat
      BY <1>2
    <3>4. \A q \in Nat : [1 .. q -> Nat] \subseteq Seq(Nat)
      BY ONLY TRUE
    <3> QED BY ONLY <3>1, <3>2, <3>3, <3>4
  <2>4. DOMAIN w = 1 .. m(t) /\ DOMAIN v = 1 .. m(t + 1)
    BY <1>3
  <2>5. Len(w) = m(t) /\ Len(v) = m(t + 1)
    BY <1>2, <2>3, <2>4, LenProperties
  <2> QED BY <1>2, <2>3, <2>5, EmptySeq
<1>5. /\ Tail(w) \in Seq(Nat) /\ Len(Tail(w)) = m(t) - 1
      /\ \A k \in 1 .. m(t) - 1 : Tail(w)[k] = (t + 1) + k - 1
  <2>1. /\ Tail(w) \in Seq(Nat) /\ Len(Tail(w)) = m(t) - 1
        /\ \A k \in 1 .. m(t) - 1 : Tail(w)[k] = w[k + 1]
    BY <1>4, HeadTailProperties
  <2>2. ASSUME NEW k \in 1 .. m(t) - 1 PROVE w[k + 1] = (t + 1) + k - 1
    <3>1. k + 1 \in 1 .. m(t)
      BY <1>2
    <3>2. w[k + 1] = t + (k + 1) - 1
      BY <1>3, <3>1
    <3> QED BY <1>1, <3>2
  <2> QED BY <2>1, <2>2
<1>6. Head(w) = t
  <2>1. Head(w) = w[1] /\ 1 \in 1 .. m(t)
    BY <1>2, <1>4
  <2>2. w[1] = t + 1 - 1
    BY <1>3, <2>1
  <2> QED BY <1>1, <2>1, <2>2
<1> DEFINE z == Tail(w)
<1>7. CASE t + PrefetchTiles < T
  <2> DEFINE x == Append(z, t + PrefetchTiles)
  <2>0. t + PrefetchTiles \in Nat
    BY <1>1
  <2> HIDE DEF z
  <2>1. /\ x \in Seq(Nat) /\ Len(x) = m(t)
        /\ \A k \in 1 .. m(t) - 1 : x[k] = z[k]
        /\ x[m(t)] = t + PrefetchTiles
    <3>1. z \in Seq(Nat) /\ Len(z) = m(t) - 1
      BY <1>5 DEF z
    <3>2. /\ x \in Seq(Nat) /\ Len(x) = Len(z) + 1
          /\ \A k \in 1 .. Len(z) : x[k] = z[k]
          /\ x[Len(z) + 1] = t + PrefetchTiles
      BY <2>0, <3>1, AppendProperties
    <3>3. (m(t) - 1) + 1 = m(t)
      BY <1>2
    <3> QED BY <3>1, <3>2, <3>3
  <2> HIDE DEF x
  <2>2. ASSUME NEW k \in 1 .. m(t) PROVE x[k] = (t + 1) + k - 1
    <3>1. CASE k = m(t)
      BY <1>1, <1>2, <1>7, <2>1, <3>1
    <3>2. CASE k # m(t)
      <4>1. k \in 1 .. m(t) - 1
        BY <1>2, <3>2
      <4> QED BY <1>5, <2>1, <4>1 DEF z
    <3> QED BY <3>1, <3>2
  <2>3. x = [k \in 1 .. m(t) |-> x[k]]
    BY <2>1, LenProperties
  <2>4. x = v
    BY <1>2, <1>3, <1>7, <2>2, <2>3
  <2> QED BY <1>6, <1>7, <2>4 DEF x, z, w, v, T
<1>8. CASE ~(t + PrefetchTiles < T)
  <2> HIDE DEF z
  <2>0. /\ z \in Seq(Nat) /\ Len(z) = m(t + 1)
        /\ \A k \in 1 .. m(t + 1) : z[k] = (t + 1) + k - 1
    BY <1>2, <1>5, <1>8 DEF z
  <2>1. z = [k \in 1 .. m(t + 1) |-> z[k]]
    BY <2>0, LenProperties
  <2>2. z = v
    BY <1>3, <2>0, <2>1
  <2> QED BY <1>6, <1>8, <2>2 DEF z, w, v, T
<1> QED BY <1>7, <1>8

-----------------------------------------------------------------------------
(* What the layers make of the input: cell <<block, row, column>> of each.   *)

(* The products of the first kb input blocks, in the order they are added.   *)
ProductsOf(net, i, below, nb, p, n, kb) ==
  [k \in 1 .. kb * Dim |->
     <<below[<<(k - 1) \div Dim, p, (k - 1) % Dim>>],
       <<"weight", TileAt(Plans(net), i, nb, (k - 1) \div Dim),
         ((k - 1) % Dim) * Dim + n>>>>]

BlockProducts(net, i, below, nb, p, n, kb) ==
  [j \in 1 .. Dim |->
     <<below[<<kb, p, j - 1>>],
       <<"weight", TileAt(Plans(net), i, nb, kb), (j - 1) * Dim + n>>>>]

LayerCell(net, i, below, nb, o, n) ==
  LET layer    == net.layers[i]
      value(p) == Activated(layer.function,
                    ProductsOf(net, i, below, nb, p, n,
                               Plans(net)[i].in_blocks))
  IN  Pooled(layer, layer.pool_width, o, value)

InputByte(net, b, r, n) == <<"host", UbAt(b * net.rows + r, n)>>

IsCells(cells, net) ==
  cells = [i \in 0 .. Len(net.layers) |->
             [at \in Nat \X Nat \X Nat |->
                IF i = 0 THEN InputByte(net, at[1], at[2], at[3])
                ELSE LayerCell(net, i, cells[i - 1], at[1], at[2], at[3])]]

LEMMA CellsExist ==
  ASSUME NEW net, Len(net.layers) \in Nat
  PROVE  \E cells : IsCells(cells, net)
<1> DEFINE D == Nat \X Nat \X Nat
           Made(i, below) ==
             [at \in D |-> IF i = 0 THEN InputByte(net, at[1], at[2], at[3])
                           ELSE LayerCell(net, i, below, at[1], at[2], at[3])]
           Is(c, m) == c = [i \in 0 .. m |-> Made(i, c[i - 1])]
           S == {m \in Nat : \E c : Is(c, m)}
<1>1. 0 \in S
  <2> DEFINE h == [i \in 0 .. 0 |-> Made(0, 0)]
  <2>1. \A i \in 0 .. 0 : h[i] = Made(i, h[i - 1])
    <3>1. \A i \in 0 .. 0 : i = 0
      OBVIOUS
    <3>2. \A x : Made(0, x) = Made(0, 0)
      OBVIOUS
    <3>3. h[0] = Made(0, 0)
      OBVIOUS
    <3> HIDE DEF Made, h
    <3> QED BY <3>1, <3>2, <3>3
  <2>2. h = [i \in 0 .. 0 |-> h[i]]
    OBVIOUS
  <2> HIDE DEF h, Made
  <2>3. Is(h, 0)
    BY <2>1, <2>2
  <2> HIDE DEF Is
  <2> QED BY <2>3
<1> HIDE DEF Made
<1>2. ASSUME NEW m \in Nat, m \in S PROVE m + 1 \in S
  <2>1. PICK c : Is(c, m)
    BY <1>2
  <2> DEFINE h == [i \in 0 .. m + 1 |-> IF i = m + 1 THEN Made(i, c[m])
                                        ELSE c[i]]
  <2>2. \A i \in 0 .. m : c[i] = Made(i, c[i - 1])
    BY <2>1
  <2>3. ASSUME NEW i \in 0 .. m + 1 PROVE h[i] = Made(i, h[i - 1])
    <3>1. CASE i = m + 1
      <4>1. h[i] = Made(i, c[m]) /\ i - 1 = m /\ i - 1 \in 0 .. m + 1
            /\ i - 1 # m + 1
        BY <3>1
      <4>2. h[i - 1] = c[m]
        BY <4>1
      <4> HIDE DEF h
      <4> QED BY <4>1, <4>2
    <3>2. CASE i # m + 1 /\ i # 0
      <4>1. h[i] = c[i] /\ i \in 0 .. m /\ i - 1 \in 0 .. m + 1
            /\ i - 1 # m + 1
        BY <3>2
      <4>2. h[i - 1] = c[i - 1]
        BY <4>1
      <4> HIDE DEF h
      <4> QED BY <2>2, <4>1, <4>2
    <3>3. CASE i # m + 1 /\ i = 0
      <4>1. h[i] = c[i] /\ i \in 0 .. m
        BY <3>3
      <4>2. \A x, y : Made(0, x) = Made(0, y)
        BY DEF Made
      <4> HIDE DEF h
      <4> QED BY <2>2, <3>3, <4>1, <4>2
    <3> QED BY <3>1, <3>2, <3>3
  <2>4. h = [i \in 0 .. m + 1 |-> h[i]]
    OBVIOUS
  <2> HIDE DEF h
  <2>5. Is(h, m + 1)
    BY <2>3, <2>4
  <2> HIDE DEF Is
  <2> QED BY <2>5
<1> HIDE DEF S
<1>3. Len(net.layers) \in S
  BY <1>1, <1>2, Induction
<1> QED BY <1>3 DEF S, IsCells, Made

LEMMA CellsAre ==
  ASSUME NEW net, NEW cells, IsCells(cells, net), NEW b \in Nat, NEW r \in Nat,
         NEW n \in Nat
  PROVE  /\ Len(net.layers) \in Nat =>
              cells[0][<<b, r, n>>] = InputByte(net, b, r, n)
         /\ \A i \in 1 .. Len(net.layers) :
              cells[i][<<b, r, n>>] = LayerCell(net, i, cells[i - 1], b, r, n)
<1> DEFINE D == Nat \X Nat \X Nat
           N == Len(net.layers)
           Made(i, below) ==
             [at \in D |-> IF i = 0 THEN InputByte(net, at[1], at[2], at[3])
                           ELSE LayerCell(net, i, below, at[1], at[2], at[3])]
<1>1. cells = [i \in 0 .. N |-> Made(i, cells[i - 1])]
  BY DEF IsCells
<1>2. \A i, below : Made(i, below)[<<b, r, n>>]
                      = IF i = 0 THEN InputByte(net, b, r, n)
                        ELSE LayerCell(net, i, below, b, r, n)
  OBVIOUS
<1> HIDE DEF N, Made
<1>3. \A i \in 0 .. N : cells[i] = Made(i, cells[i - 1])
  BY <1>1
<1>4. N \in Nat => 0 \in 0 .. N
  OBVIOUS
<1>5. \A i \in 1 .. N : i \in 0 .. N /\ i # 0
  OBVIOUS
<1> QED BY <1>2, <1>3, <1>4, <1>5 DEF N

LEMMA LayerCellsAre ==
  ASSUME NEW net, NEW cells, IsCells(cells, net), NEW b \in Nat, NEW r \in Nat,
         NEW n \in Nat, NEW i \in 1 .. Len(net.layers)
  PROVE  cells[i][<<b, r, n>>] = LayerCell(net, i, cells[i - 1], b, r, n)
BY CellsAre

(* One more input block.                                                     *)
LEMMA ProductsGrow ==
  ASSUME NEW net, NEW i, NEW below, NEW nb, NEW p, NEW n, NEW kb \in Nat
  PROVE  /\ ProductsOf(net, i, below, nb, p, n, 0) = << >>
         /\ ProductsOf(net, i, below, nb, p, n, kb + 1)
              = ProductsOf(net, i, below, nb, p, n, kb)
                  \o BlockProducts(net, i, below, nb, p, n, kb)
<1> DEFINE d == Dim
           a == kb * d
           F(b, c) == <<below[<<b, p, c>>],
                        <<"weight", TileAt(Plans(net), i, nb, b), c * d + n>>>>
           f == [k \in 1 .. a |-> F((k - 1) \div d, (k - 1) % d)]
           g == [j \in 1 .. d |-> F(kb, j - 1)]
           h == [k \in 1 .. (kb + 1) * d |-> F((k - 1) \div d, (k - 1) % d)]
<1>1. d \in Nat \ {0}
  BY MemoryAssumption
<1>2. /\ ProductsOf(net, i, below, nb, p, n, kb) = f
      /\ ProductsOf(net, i, below, nb, p, n, kb + 1) = h
      /\ BlockProducts(net, i, below, nb, p, n, kb) = g
  BY DEF ProductsOf, BlockProducts
<1> HIDE DEF d, F
<1>3. a \in Nat /\ (kb + 1) * d = a + d
  BY <1>1, Z3
<1>4. ASSUME NEW k \in 1 .. a + d, ~(k <= a)
      PROVE  /\ k - a \in 1 .. d /\ (k - 1) \div d = kb
             /\ (k - 1) % d = (k - a) - 1
  <2> HIDE DEF a
  <2> DEFINE r == k - a - 1
  <2>1. r \in 0 .. d - 1 /\ k - 1 = a + r /\ (k - a) - 1 = r /\ k - a \in 1 .. d
    BY <1>1, <1>3, <1>4
  <2> HIDE DEF r
  <2>2. ((kb * d) + r) \div d = kb /\ ((kb * d) + r) % d = r
    BY ONLY <1>1, <2>1, kb \in Nat, DivisionIs
  <2> QED BY ONLY <2>1, <2>2 DEF a
<1>5. f \o g = [k \in 1 .. a + d |-> IF k <= a THEN f[k] ELSE g[k - a]]
  <2>1. f = [k \in 1 .. a |-> f[k]] /\ g = [k \in 1 .. d |-> g[k]]
    OBVIOUS
  <2>2. d \in Nat
    BY <1>1
  <2> HIDE DEF f, g, a
  <2> QED BY <1>3, <2>1, <2>2, JoinedFunctions
<1>6. ASSUME NEW k \in 1 .. a + d
      PROVE  F((k - 1) \div d, (k - 1) % d)
               = IF k <= a THEN f[k] ELSE g[k - a]
  <2>1. CASE k <= a
    <3>1. k \in 1 .. a
      <4> HIDE DEF a
      <4> QED BY <1>1, <1>3, <2>1
    <3>2. f[k] = F((k - 1) \div d, (k - 1) % d)
      <4> HIDE DEF a
      <4> QED BY <3>1
    <3> HIDE DEF f, a
    <3> QED BY <2>1, <3>2
  <2>2. CASE ~(k <= a)
    <3>1. k - a \in 1 .. d /\ (k - 1) \div d = kb /\ (k - 1) % d = (k - a) - 1
      BY <1>4, <2>2
    <3> HIDE DEF a, f
    <3>2. g[k - a] = F(kb, (k - a) - 1)
      BY <3>1
    <3> HIDE DEF g
    <3> QED BY <2>2, <3>1, <3>2
  <2> QED BY <2>1, <2>2
<1>7. h = f \o g
  <2>1. h = [k \in 1 .. a + d |-> F((k - 1) \div d, (k - 1) % d)]
    <3> HIDE DEF a
    <3> QED BY <1>3
  <2> HIDE DEF h, f, g, a
  <2> QED BY <1>5, <1>6, <2>1
<1>8. ProductsOf(net, i, below, nb, p, n, 0) = << >>
  <2>1. 0 * d = 0
    BY <1>1
  <2>2. ProductsOf(net, i, below, nb, p, n, 0)
          = [k \in 1 .. 0 * d |-> F((k - 1) \div d, (k - 1) % d)]
    BY DEF ProductsOf, d, F
  <2>3. \A x : [k \in 1 .. 0 |-> F((k - 1) \div d, (k - 1) % d)] = << >>
    OBVIOUS
  <2> QED BY <2>1, <2>2, <2>3
<1> HIDE DEF f, g, h
<1> QED BY <1>2, <1>7, <1>8

-----------------------------------------------------------------------------
(* A network running                                                         *)

(* Blocks of rows hold the cells of a layer.                                 *)
Region(memory, first, rows, blocks, cells) ==
  \A b \in 0 .. blocks - 1, r \in 0 .. rows - 1, n \in Cols :
    memory[UbAt(first + b * rows + r, n)] = cells[<<b, r, n>>]

(* Layer i has its input, nb blocks of its output, and the sums of kb input  *)
(* blocks of the next one.                                                   *)
LayerAt(net, cells, i, nb, kb, s) ==
  LET plan == Plans(net)[i]
  IN  /\ DOMAIN s.ub = UbAddrs
      /\ s.hostMem = AsLoaded.hostMem
      /\ Region(s.ub, plan.in_ub, plan.in_rows, plan.in_blocks, cells[i - 1])
      /\ Region(s.ub, plan.out_ub, plan.out_rows, nb, cells[i])
      /\ s.queue = Waiting(net, TileAt(Plans(net), i, nb, kb))
      /\ kb > 0 =>
           \A p \in 0 .. plan.in_rows - 1, n \in Cols :
             s.acc[<<AccRowOf(Plans(net), i, nb) + p, n>>]
               = ProductsOf(net, i, cells[i - 1], nb, p, n, kb)

LEMMA ReadTileEffect ==
  ASSUME NEW tile \in Nat, NEW s
  PROVE  LET t == Effect(ReadTile(tile), s)
         IN  /\ t.ub = s.ub /\ t.acc = s.acc /\ t.hostMem = s.hostMem
             /\ t.queue = Append(s.queue, tile)
BY DEF Effect, ReadTile, Blank, UbAfter, AccAfter, HostMemAfter, QueueAfter,
       Switches

TilePlane(tile) == [pe \in PEs |-> <<"weight", tile, pe[1] * Dim + pe[2]>>]

LEMMA MultiplyEffectIs ==
  ASSUME NEW i, i.op = "MatrixMultiply", i.new_weights = TRUE, NEW s
  PROVE  LET t == Effect(i, s)
         IN  /\ t.ub = s.ub /\ t.hostMem = s.hostMem /\ t.queue = Tail(s.queue)
             /\ \A c \in AccCells : c[1] - i.acc_row \in 0 .. i.rows - 1 =>
                  t.acc[c] = (IF i.accumulate THEN s.acc[c] ELSE << >>)
                    \o ProductOf(s.ub, TilePlane(Head(s.queue)),
                                 i.ub_row + (c[1] - i.acc_row), c[2])
<1> DEFINE plane == TilePlane(Head(s.queue))
<1>1. i.op = "MatrixMultiply" /\ i.new_weights
  OBVIOUS
<1>3. Switches(i)
  BY <1>1 DEF Switches
<1>4. /\ UbAfter(i, s) = s.ub /\ HostMemAfter(i, s) = s.hostMem
      /\ QueueAfter(i, s) = Tail(s.queue) /\ WeightsAfter(i, s) = plane
  BY <1>1, <1>3 DEF UbAfter, HostMemAfter, QueueAfter, WeightsAfter, TilePlane
<1> HIDE DEF plane
<1>5. ASSUME NEW c \in AccCells, c[1] - i.acc_row \in 0 .. i.rows - 1
      PROVE  AccAfter(i, s)[c] = (IF i.accumulate THEN s.acc[c] ELSE << >>)
               \o ProductOf(s.ub, plane, i.ub_row + (c[1] - i.acc_row), c[2])
  BY <1>1, <1>4, <1>5 DEF AccAfter
<1>6. /\ Effect(i, s).ub = UbAfter(i, s) /\ Effect(i, s).acc = AccAfter(i, s)
      /\ Effect(i, s).hostMem = HostMemAfter(i, s)
      /\ Effect(i, s).queue = QueueAfter(i, s)
  BY DEF Effect
<1> QED BY ONLY <1>4, <1>5, <1>6 DEF plane

(* A multiply adds one more input block.                                     *)
LEMMA MultiplyAdds ==
  ASSUME NEW net, Accepted(net), NEW cells, NEW i \in 1 .. Len(net.layers),
         NEW nb \in 0 .. Plans(net)[i].out_blocks - 1,
         NEW kb \in 0 .. Plans(net)[i].in_blocks - 1,
         NEW s, LayerAt(net, cells, i, nb, kb, s)
  PROVE  LET plan == Plans(net)[i]
             a    == AccRowOf(Plans(net), i, nb)
             t    == Effect(BlockMultiply(net, i, nb, kb), s)
         IN  /\ t.ub = s.ub /\ t.hostMem = s.hostMem /\ t.queue = Tail(s.queue)
             /\ \A p \in 0 .. plan.in_rows - 1, n \in Cols :
                  t.acc[<<a + p, n>>]
                    = ProductsOf(net, i, cells[i - 1], nb, p, n, kb + 1)
<1> DEFINE plan  == Plans(net)[i]
           rows  == plan.in_rows
           u     == plan.in_ub + kb * rows
           a     == AccRowOf(Plans(net), i, nb)
           tile  == TileAt(Plans(net), i, nb, kb)
           below == cells[i - 1]
           P(p, n, k) == ProductsOf(net, i, below, nb, p, n, k)
           m == BlockMultiply(net, i, nb, kb)
           t == Effect(m, s)
<1>0. /\ m.op = "MatrixMultiply" /\ m.new_weights = TRUE /\ m.ub_row = u
      /\ m.acc_row = a /\ m.rows = rows /\ (m.accumulate <=> kb > 0)
  BY DEF BlockMultiply, Multiply, Blank
<1> HIDE DEF m
<1>1. /\ plan.in_ub \in Nat /\ rows \in Nat /\ plan.in_blocks \in Nat
      /\ a \in Nat /\ a + rows <= AccRows /\ kb \in Nat
  <2>1. plan.in_ub \in Nat /\ rows \in Nat /\ plan.in_blocks \in Nat
    BY Shape
  <2>2. a \in Nat /\ a + rows <= AccRows
    BY AccRowIs
  <2>3. kb \in Nat
    BY <2>1
  <2> QED BY <2>1, <2>2, <2>3
<1>2. Head(s.queue) = tile
  <2>1. tile \in 0 .. TilesTotal(Plans(net)) - 1
    BY TileIs
  <2>2. TilesTotal(Plans(net)) \in Nat /\ s.queue = Waiting(net, tile)
    BY Shape DEF LayerAt
  <2> HIDE DEF tile
  <2> QED BY <2>1, <2>2, WaitingMoves
<1>3. \A p \in 0 .. rows - 1, n \in Cols :
        s.ub[UbAt(u + p, n)] = below[<<kb, p, n>>]
  <2>1. Region(s.ub, plan.in_ub, rows, plan.in_blocks, below)
    BY DEF LayerAt
  <2>2. \A b \in 0 .. plan.in_blocks - 1, r \in 0 .. rows - 1, n \in Cols :
          s.ub[UbAt(plan.in_ub + b * rows + r, n)] = below[<<b, r, n>>]
    BY <2>1 DEF Region
  <2>3. kb \in 0 .. plan.in_blocks - 1
    OBVIOUS
  <2> HIDE DEF plan, rows, below
  <2> QED BY ONLY <2>2, <2>3
<1>4. \A p \in 0 .. rows - 1, n \in Cols :
        (IF m.accumulate THEN s.acc[<<a + p, n>>] ELSE << >>) = P(p, n, kb)
  <2>1. kb > 0 => \A p \in 0 .. rows - 1, n \in Cols :
                    s.acc[<<a + p, n>>] = P(p, n, kb)
    BY DEF LayerAt
  <2>2. ~(kb > 0) => kb = 0
    BY <1>1
  <2>3. \A p, n : P(p, n, 0) = << >>
    BY ProductsGrow, 0 \in Nat
  <2> HIDE DEF P, a, rows
  <2> QED BY <1>0, <2>1, <2>2, <2>3
<1>5. /\ t.ub = s.ub /\ t.hostMem = s.hostMem /\ t.queue = Tail(s.queue)
      /\ \A c \in AccCells : c[1] - a \in 0 .. rows - 1 =>
           t.acc[c] = (IF m.accumulate THEN s.acc[c] ELSE << >>)
             \o ProductOf(s.ub, TilePlane(tile), u + (c[1] - a), c[2])
  <2> HIDE DEF u, a, rows, tile
  <2> QED BY <1>0, <1>2, MultiplyEffectIs
<1> HIDE DEF t, u, a, rows, plan
<1>6. ASSUME NEW p \in 0 .. rows - 1, NEW n \in Cols
      PROVE  t.acc[<<a + p, n>>] = P(p, n, kb + 1)
  <2>1. /\ <<a + p, n>> \in AccCells /\ (a + p) - a = p
        /\ (a + p) - a \in 0 .. rows - 1
    BY <1>1, MemoryAssumption DEF AccCells
  <2> HIDE DEF P, below, tile
  <2>2. t.acc[<<a + p, n>>]
          = P(p, n, kb) \o ProductOf(s.ub, TilePlane(tile), u + p, n)
    <3> DEFINE c == <<a + p, n>>
    <3>0. c \in AccCells /\ c[1] = a + p /\ c[2] = n
      BY <2>1
    <3> HIDE DEF c
    <3>1. t.acc[c] = (IF m.accumulate THEN s.acc[c] ELSE << >>)
             \o ProductOf(s.ub, TilePlane(tile), u + (c[1] - a), c[2])
      BY <1>5, <2>1, <3>0
    <3>2. c[1] - a = p
      BY <2>1, <3>0
    <3>3. (IF m.accumulate THEN s.acc[c] ELSE << >>) = P(p, n, kb)
      BY <1>4 DEF c
    <3>4. t.acc[c] = P(p, n, kb) \o ProductOf(s.ub, TilePlane(tile), u + p, n)
      BY ONLY <3>0, <3>1, <3>2, <3>3
    <3> QED BY <3>4 DEF c
  <2>3. ProductOf(s.ub, TilePlane(tile), u + p, n)
          = BlockProducts(net, i, below, nb, p, n, kb)
    <3>1. \A j \in 1 .. Dim :
            /\ s.ub[UbAt(u + p, j - 1)] = below[<<kb, p, j - 1>>]
            /\ TilePlane(tile)[<<j - 1, n>>]
                 = <<"weight", tile, (j - 1) * Dim + n>>
      <4> TAKE j \in 1 .. Dim
      <4>1. j - 1 \in Cols
        BY MemoryAssumption DEF Cols
      <4>2. <<j - 1, n>> \in PEs
        BY <4>1 DEF PEs
      <4> QED BY <1>3, <4>1, <4>2 DEF TilePlane
    <3> QED BY <3>1 DEF ProductOf, BlockProducts, tile
  <2>4. P(p, n, kb + 1)
          = P(p, n, kb) \o BlockProducts(net, i, below, nb, p, n, kb)
    <3>1. kb \in Nat
      BY <1>1
    <3> QED BY ONLY <3>1, ProductsGrow DEF P
  <2> QED BY <2>2, <2>3, <2>4
<1>7. /\ t.ub = s.ub /\ t.hostMem = s.hostMem /\ t.queue = Tail(s.queue)
      /\ \A p \in 0 .. rows - 1, n \in Cols :
           t.acc[<<a + p, n>>] = P(p, n, kb + 1)
  BY <1>5, <1>6
<1> QED BY ONLY <1>7 DEF t, m, u, a, rows, plan, P, below

LEMMA ActivateEffectIs ==
  ASSUME NEW i, i.op = "Activate", NEW s
  PROVE  LET t == Effect(i, s)
         IN  /\ t.hostMem = s.hostMem /\ t.queue = s.queue
             /\ DOMAIN t.ub = DOMAIN s.ub
             /\ \A a \in DOMAIN s.ub :
                  t.ub[a] = IF a \div Dim - i.ub_row \in 0 .. OutRows(i) - 1
                            THEN ActivatedCell(i, s.acc, a \div Dim - i.ub_row,
                                               a % Dim)
                            ELSE s.ub[a]
<1>1. /\ HostMemAfter(i, s) = s.hostMem /\ QueueAfter(i, s) = s.queue
  BY DEF HostMemAfter, QueueAfter, Switches
<1>2. /\ DOMAIN UbAfter(i, s) = DOMAIN s.ub
      /\ \A a \in DOMAIN s.ub :
           UbAfter(i, s)[a]
             = IF a \div Dim - i.ub_row \in 0 .. OutRows(i) - 1
               THEN ActivatedCell(i, s.acc, a \div Dim - i.ub_row, a % Dim)
               ELSE s.ub[a]
  BY DEF UbAfter
<1> QED BY <1>1, <1>2 DEF Effect

(* Column n from row a on holds the whole sums of block nb.                  *)
SumsAre(sums, a, net, i, below, nb, n) ==
  \A p \in 0 .. Plans(net)[i].in_rows - 1 :
    sums[<<a + p, n>>]
      = ProductsOf(net, i, below, nb, p, n, Plans(net)[i].in_blocks)

CellsMade(sums, a, net, i, below, nb, n) ==
  \A u, o : o \in 0 .. Plans(net)[i].out_rows - 1 =>
    ActivatedCell(Activate(net.layers[i], a, u, Plans(net)[i].in_rows),
                  sums, o, n)
      = LayerCell(net, i, below, nb, o, n)

(* An Activate of the whole sums makes cells of the layer.                   *)
LEMMA ActivatedAreCells ==
  ASSUME NEW net, Accepted(net), NEW below, NEW i \in 1 .. Len(net.layers),
         NEW nb, NEW sums, NEW a, NEW n \in Cols,
         SumsAre(sums, a, net, i, below, nb, n)
  PROVE  CellsMade(sums, a, net, i, below, nb, n)
<1> SUFFICES ASSUME NEW u, NEW o, o \in 0 .. Plans(net)[i].out_rows - 1
             PROVE  ActivatedCell(Activate(net.layers[i], a, u,
                                           Plans(net)[i].in_rows), sums, o, n)
                      = LayerCell(net, i, below, nb, o, n)
  BY DEF CellsMade
<1> DEFINE layer == net.layers[i]
           rows  == Plans(net)[i].in_rows
           m     == Activate(layer, a, u, rows)
           out   == Plans(net)[i].out_rows
           w     == Window(o, layer.pool_size, layer.pool_width)
           P(p)  == ProductsOf(net, i, below, nb, p, n, Plans(net)[i].in_blocks)
<1>1. /\ m.acc_row = a /\ m.function = layer.function /\ m.pool = layer.pool
      /\ m.pool_size = layer.pool_size /\ m.pool_width = layer.pool_width
  BY DEF Activate, Blank
<1>2. ActivatedCell(m, sums, o, n)
        = IF layer.pool = "None"
          THEN Activated(layer.function, sums[<<a + o, n>>])
          ELSE <<layer.pool, [j \in DOMAIN w |->
                   Activated(layer.function, sums[<<a + w[j], n>>])]>>
  <2> HIDE DEF m
  <2> QED BY <1>1 DEF ActivatedCell
<1>3. LayerCell(net, i, below, nb, o, n)
        = IF layer.pool = "None" THEN Activated(layer.function, P(o))
          ELSE <<layer.pool,
                 [j \in DOMAIN w |-> Activated(layer.function, P(w[j]))]>>
  BY DEF LayerCell, Pooled
<1>4. \A p \in 0 .. rows - 1 : sums[<<a + p, n>>] = P(p)
  BY DEF SumsAre
<1>5. /\ out = ActivateOutputRows(rows, layer.pool, layer.pool_size)
      /\ HasPool(layer) => ActShape(layer.pool_size, layer.pool_width, rows)
      /\ rows \in Nat /\ out \in Nat
  BY LayerIs, Shape
<1>6. o \in 0 .. out - 1
  OBVIOUS
<1> HIDE DEF m, layer, rows, out, P
<1>7. CASE layer.pool = "None"
  <2>1. o \in 0 .. rows - 1
    BY <1>5, <1>6, <1>7 DEF ActivateOutputRows
  <2> QED BY <1>2, <1>3, <1>4, <1>7, <2>1 DEF m, layer, rows
<1>8. CASE layer.pool # "None"
  <2> DEFINE z == layer.pool_size
             v == layer.pool_width
  <2>1. ActShape(z, v, rows)
    BY <1>5, <1>8 DEF HasPool
  <2>2. o \in Nat /\ o < PooledRows(rows, z)
    <3>1. z # 0
      BY <2>1 DEF ActShape
    <3>2. out = PooledRows(rows, z)
      BY <1>5, <1>8, <3>1 DEF ActivateOutputRows, PooledRows
    <3> QED BY <1>5, <1>6, <3>2
  <2> HIDE DEF z, v
  <2>3. /\ w = Window(o, z, v) /\ DOMAIN Window(o, z, v) = 1 .. z * z
        /\ \A j \in 1 .. z * z :
             Window(o, z, v)[j]
               = Pixel(o \div PerBand(z, v), o % PerBand(z, v), j, z, v)
    BY DEF Window, Pixel, PerBand, z, v
  <2>4. \A j \in DOMAIN w : w[j] \in 0 .. rows - 1
    <3> HIDE DEF w
    <3>1. \A j \in 1 .. z * z :
            Pixel(o \div PerBand(z, v), o % PerBand(z, v), j, z, v)
              \in 0 .. rows - 1
      BY <2>1, <2>2, PixelInRange
    <3> QED BY <2>3, <3>1
  <2> HIDE DEF w
  <2>5. \A j \in DOMAIN w : sums[<<a + w[j], n>>] = P(w[j])
    BY <1>4, <2>4
  <2>6. [j \in DOMAIN w |-> Activated(layer.function, sums[<<a + w[j], n>>])]
          = [j \in DOMAIN w |-> Activated(layer.function, P(w[j]))]
    BY <2>5
  <2> QED BY <1>2, <1>3, <1>8, <2>6 DEF m, layer, rows
<1> QED BY <1>7, <1>8

(* Where the blocks of a layer are in the order of the tiles.                *)
LEMMA TileOrder ==
  ASSUME NEW net, Accepted(net), NEW i \in 1 .. Len(net.layers)
  PROVE  LET plans == Plans(net)
             plan  == plans[i]
         IN  /\ \A nb \in 0 .. plan.out_blocks - 1 :
                  /\ TileAt(plans, i, nb, plan.in_blocks)
                       = TileAt(plans, i, nb + 1, 0)
                  /\ \A kb \in 0 .. plan.in_blocks - 1 :
                       TileAt(plans, i, nb, kb + 1)
                         = TileAt(plans, i, nb, kb) + 1
             /\ TileAt(plans, i, 0, 0) = TilesBefore(plans, i)
             /\ TileAt(plans, i, plan.out_blocks, 0)
                  = TilesBefore(plans, i + 1)
<1> DEFINE plans == Plans(net)
           plan  == plans[i]
           I == plan.in_blocks
           O == plan.out_blocks
           T(j) == TilesBefore(plans, j)
<1>1. I \in Nat /\ O \in Nat /\ T(i) \in Nat
  BY Shape
<1>2. T(i + 1) = T(i) + O * I
  BY TilesBeforeIs DEF TilesOf
<1>3. \A nb, kb : TileAt(plans, i, nb, kb) = T(i) + nb * I + kb
  BY DEF TileAt
<1> HIDE DEF T, I, O, plan, plans
<1>4. ASSUME NEW nb \in 0 .. O - 1
      PROVE  /\ T(i) + nb * I + I = T(i) + (nb + 1) * I + 0
             /\ \A kb \in 0 .. I - 1 :
                  T(i) + nb * I + (kb + 1) = (T(i) + nb * I + kb) + 1
  <2>1. nb \in Nat
    BY <1>1
  <2> DEFINE p == nb * I
             q == (nb + 1) * I
  <2>2. p \in Nat /\ q = p + I
    BY <1>1, <2>1, Z3
  <2> HIDE DEF p, q
  <2>3. /\ T(i) + p + I = T(i) + q + 0
        /\ \A kb \in 0 .. I - 1 : T(i) + p + (kb + 1) = (T(i) + p + kb) + 1
    BY <1>1, <2>2
  <2> QED BY <2>3 DEF p, q
<1>5. T(i) + 0 * I + 0 = T(i)
  <2>1. 0 * I = 0
    BY <1>1
  <2> QED BY <1>1, <2>1
<1>6. T(i) + O * I + 0 = T(i + 1)
  <2> DEFINE p == O * I
  <2>1. p \in Nat
    BY <1>1, ProductNat
  <2> HIDE DEF p
  <2>2. T(i + 1) = T(i) + p
    BY <1>2 DEF p
  <2>3. T(i) + p + 0 = T(i + 1)
    BY <1>1, <2>1, <2>2
  <2> QED BY <2>3 DEF p
<1>7. /\ \A nb \in 0 .. O - 1 :
           /\ TileAt(plans, i, nb, I) = TileAt(plans, i, nb + 1, 0)
           /\ \A kb \in 0 .. I - 1 :
                TileAt(plans, i, nb, kb + 1) = TileAt(plans, i, nb, kb) + 1
      /\ TileAt(plans, i, 0, 0) = T(i)
      /\ TileAt(plans, i, O, 0) = T(i + 1)
  BY <1>3, <1>4, <1>5, <1>6
<1> QED BY ONLY <1>7 DEF T, I, O, plan, plans

(* A multiply and the read of a tile to come.                                *)
LEMMA StepRuns ==
  ASSUME NEW net, Accepted(net), NEW cells, NEW i \in 1 .. Len(net.layers),
         NEW nb \in 0 .. Plans(net)[i].out_blocks - 1,
         NEW kb \in 0 .. Plans(net)[i].in_blocks - 1,
         NEW f, NEW at \in Nat, LayerAt(net, cells, i, nb, kb, f[at]),
         Runs(f, at, StepCode(Plans(net), i, nb, kb))
  PROVE  LayerAt(net, cells, i, nb, kb + 1,
                 f[at + Len(StepCode(Plans(net), i, nb, kb))])
<1> DEFINE plan == Plans(net)[i]
           T    == TilesTotal(Plans(net))
           tile == TileAt(Plans(net), i, nb, kb)
           a    == AccRowOf(Plans(net), i, nb)
           first == BlockMultiply(net, i, nb, kb)
           code == StepCode(Plans(net), i, nb, kb)
           next == ReadTile(tile + PrefetchTiles)
           s    == f[at]
           t    == f[at + 1]
           e    == f[at + Len(code)]
           Sums(x) == \A p \in 0 .. plan.in_rows - 1, n \in Cols :
                        x.acc[<<a + p, n>>]
                          = ProductsOf(net, i, cells[i - 1], nb, p, n, kb + 1)
<1>1. /\ first \in Instr /\ tile \in Nat /\ next \in Instr
      /\ code = IF tile + PrefetchTiles < T THEN <<first>> \o <<next>>
                ELSE <<first>>
      /\ kb \in Nat
  BY StepCodeIs
<1>2. tile \in 0 .. T - 1 /\ T \in Nat /\ PrefetchTiles \in Nat
  BY TileIs, Shape, CompilerAssumption
<1>3. ASSUME t = Effect(first, s)
      PROVE  /\ t.ub = s.ub /\ t.hostMem = s.hostMem /\ t.queue = Tail(s.queue)
             /\ Sums(t)
  <2> HIDE DEF t, s
  <2>0. LayerAt(net, cells, i, nb, kb, s)
    BY DEF s
  <2> DEFINE x == Effect(first, s)
  <2>1. /\ x.ub = s.ub /\ x.hostMem = s.hostMem /\ x.queue = Tail(s.queue)
        /\ Sums(x)
    BY <2>0, MultiplyAdds
  <2> HIDE DEF first, x, Sums
  <2>2. x = t
    BY <1>3 DEF x
  <2> QED BY ONLY <2>1, <2>2
<1>4. s.queue = Waiting(net, tile)
  BY DEF LayerAt
<1>5. /\ <<first>> \in Seq(Instr) /\ <<next>> \in Seq(Instr)
      /\ Len(<<first>>) = 1 /\ Len(<<next>>) = 1
      /\ <<first>>[1] = first /\ <<next>>[1] = next
  BY <1>1
<1>6. Runs(f, at, code)
  OBVIOUS
<1> HIDE DEF first, next, code, tile, T, Sums
<1> DEFINE Result == /\ e.ub = s.ub /\ e.hostMem = s.hostMem
                     /\ e.queue = Waiting(net, tile + 1) /\ Sums(e)
<1>7. ASSUME tile + PrefetchTiles < T PROVE Result
  <2>1. code = <<first>> \o <<next>>
    BY <1>1, <1>7
  <2>2. Runs(f, at, <<first>>) /\ Runs(f, at + 1, <<next>>) /\ Len(code) = 2
    <3>1. Runs(f, at, <<first>>) /\ Runs(f, at + Len(<<first>>), <<next>>)
      BY <1>5, <1>6, <2>1, RunsParts
    <3>2. Len(code) = 2
      BY <1>5, <2>1, ConcatProperties
    <3> QED BY <1>5, <3>1, <3>2
  <2>3. t = Effect(first, s)
    <3>1. f[at + 1] = Effect(<<first>>[1], f[at + 1 - 1])
      BY <1>5, <2>2 DEF Runs
    <3>2. at + 1 - 1 = at
      OBVIOUS
    <3> QED BY <1>5, <3>1, <3>2
  <2>4. e = Effect(next, t)
    <3>1. f[(at + 1) + 1] = Effect(<<next>>[1], f[(at + 1) + 1 - 1])
      BY <1>5, <2>2 DEF Runs
    <3>2. (at + 1) + 1 - 1 = at + 1 /\ (at + 1) + 1 = at + Len(code)
      BY <2>2
    <3> QED BY <1>5, <3>1, <3>2
  <2>5. /\ e.ub = t.ub /\ e.acc = t.acc /\ e.hostMem = t.hostMem
        /\ e.queue = Append(t.queue, tile + PrefetchTiles)
    <3>1. tile + PrefetchTiles \in Nat
      BY <1>2
    <3> HIDE DEF e, t
    <3> QED BY <2>4, <3>1, ReadTileEffect DEF next
  <2>6. e.queue = Waiting(net, tile + 1)
    <3>1. Append(Tail(Waiting(net, tile)), tile + PrefetchTiles)
            = Waiting(net, tile + 1)
      BY <1>2, <1>7, WaitingMoves DEF T
    <3> QED BY <1>3, <1>4, <2>3, <2>5, <3>1
  <2> HIDE DEF e, t, s
  <2> QED BY <1>3, <2>3, <2>5, <2>6 DEF Sums
<1>8. ASSUME ~(tile + PrefetchTiles < T) PROVE Result
  <2>1. code = <<first>> /\ Len(code) = 1
    BY <1>1, <1>5, <1>8
  <2>2. t = Effect(first, s)
    <3>1. f[at + 1] = Effect(<<first>>[1], f[at + 1 - 1])
      BY <1>5, <1>6, <2>1 DEF Runs
    <3>2. at + 1 - 1 = at
      OBVIOUS
    <3> QED BY <1>5, <3>1, <3>2
  <2>3. e = t
    BY <2>1
  <2>4. Tail(Waiting(net, tile)) = Waiting(net, tile + 1)
    BY <1>2, <1>8, WaitingMoves DEF T
  <2> HIDE DEF e, t, s
  <2> QED BY <1>3, <1>4, <2>2, <2>3, <2>4
<1>9. Result
  BY <1>7, <1>8
<1>10. TileAt(Plans(net), i, nb, kb + 1) = tile + 1
  BY TileOrder DEF tile
<1> HIDE DEF e, s
<1>11. LayerAt(net, cells, i, nb, kb, s)
  BY DEF s
<1>12. LayerAt(net, cells, i, nb, kb + 1, e)
  BY <1>9, <1>10, <1>11 DEF LayerAt, Sums
<1> QED BY <1>12 DEF e, code

LEMMA StepsRun ==
  ASSUME NEW net, Accepted(net), NEW cells, NEW i \in 1 .. Len(net.layers),
         NEW nb \in 0 .. Plans(net)[i].out_blocks - 1,
         NEW steps,
         steps = [k \in 1 .. Plans(net)[i].in_blocks |->
                    StepCode(Plans(net), i, nb, k - 1)],
         NEW f, NEW at \in Nat, LayerAt(net, cells, i, nb, 0, f[at]),
         Runs(f, at, FlattenSeq(steps))
  PROVE  LayerAt(net, cells, i, nb, Plans(net)[i].in_blocks,
                 f[at + Len(FlattenSeq(steps))])
<1> DEFINE n == Plans(net)[i].in_blocks
<1>1. n \in Nat
  BY Shape
<1>2. steps \in [1 .. n -> Seq(Instr)]
  BY BlockSeq
<1>3. PICK place : /\ place[0] = at /\ place[n] = at + Len(FlattenSeq(steps))
                   /\ Places(place, steps, n, f)
  BY <1>1, <1>2, RunsJoined
<1> DEFINE S == {k \in Nat :
                   k <= n => LayerAt(net, cells, i, nb, k, f[place[k]])}
<1>4. 0 \in S
  BY <1>3
<1>5. ASSUME NEW k \in Nat, k \in S PROVE k + 1 \in S
  <2> SUFFICES ASSUME k + 1 <= n
               PROVE  LayerAt(net, cells, i, nb, k + 1, f[place[k + 1]])
    OBVIOUS
  <2>1. k + 1 \in 1 .. n /\ (k + 1) - 1 = k /\ k \in 0 .. n - 1
    BY <1>1
  <2>2. LayerAt(net, cells, i, nb, k, f[place[k]])
    BY <1>1, <1>5
  <2>3. steps[k + 1] = StepCode(Plans(net), i, nb, k)
    BY <2>1
  <2>4. /\ place[k] \in Nat /\ place[k + 1] = place[k] + Len(steps[k + 1])
        /\ Runs(f, place[k], steps[k + 1])
    BY <1>3, <2>1 DEF Places
  <2>5. LayerAt(net, cells, i, nb, k + 1,
                f[place[k] + Len(StepCode(Plans(net), i, nb, k))])
    BY <2>1, <2>2, <2>3, <2>4, StepRuns
  <2> QED BY <2>3, <2>4, <2>5
<1> HIDE DEF S
<1>6. n \in S
  BY <1>1, <1>4, <1>5, Induction
<1> QED BY <1>1, <1>3, <1>6 DEF S

LEMMA BlockEnds ==
  ASSUME NEW m \in Nat, NEW n \in Nat, NEW b \in 0 .. m - 1
  PROVE  /\ b \in Nat /\ b * n \in Nat /\ m * n \in Nat
         /\ (b + 1) * n = b * n + n /\ b * n + n <= m * n
<1>1. b \in Nat /\ b + 1 <= m /\ b + 1 \in Nat
  OBVIOUS
<1>2. b * n \in Nat /\ m * n \in Nat /\ (b + 1) * n <= m * n
      /\ (b + 1) * n = b * n + n
  BY <1>1, Z3
<1> QED BY <1>1, <1>2

SameBelow(old, new, limit) ==
  \A r \in Nat, n \in Cols :
    r < limit => new[UbAt(r, n)] = old[UbAt(r, n)]

(* Rows of the Unified Buffer an Activate does not write stay.               *)
LEMMA RegionStays ==
  ASSUME NEW old, NEW new, NEW first \in Nat, NEW rows \in Nat,
         NEW blocks \in Nat, NEW cells, NEW limit \in Nat,
         Region(old, first, rows, blocks, cells),
         first + blocks * rows <= limit,
         SameBelow(old, new, limit)
  PROVE  Region(new, first, rows, blocks, cells)
<1> SUFFICES ASSUME NEW b \in 0 .. blocks - 1, NEW r \in 0 .. rows - 1,
                    NEW n \in Cols
             PROVE  new[UbAt(first + b * rows + r, n)] = cells[<<b, r, n>>]
  BY DEF Region
<1>1. b * rows \in Nat /\ b * rows + r \in 0 .. blocks * rows - 1
      /\ blocks * rows \in Nat
  BY InBlocks
<1> DEFINE p == b * rows
           q == blocks * rows
<1>2. first + p + r \in Nat /\ first + p + r < limit
  <2>1. p \in Nat /\ p + r \in 0 .. q - 1 /\ q \in Nat /\ first + q <= limit
        /\ r \in Nat
    BY <1>1
  <2> HIDE DEF p, q
  <2> QED BY <2>1
<1>3. old[UbAt(first + b * rows + r, n)] = cells[<<b, r, n>>]
  BY DEF Region
<1> DEFINE x == first + b * rows + r
<1>4. x \in Nat /\ x < limit /\ old[UbAt(x, n)] = cells[<<b, r, n>>]
  BY <1>2, <1>3
<1> HIDE DEF x
<1>5. new[UbAt(x, n)] = cells[<<b, r, n>>]
  BY <1>4 DEF SameBelow
<1> QED BY <1>5 DEF x

(* An Activate makes the next block of the output.                           *)
LEMMA ActivateMakes ==
  ASSUME NEW net, Accepted(net), NEW cells, IsCells(cells, net),
         NEW i \in 1 .. Len(net.layers),
         NEW nb \in 0 .. Plans(net)[i].out_blocks - 1, NEW s,
         LayerAt(net, cells, i, nb, Plans(net)[i].in_blocks, s)
  PROVE  LayerAt(net, cells, i, nb + 1, 0,
                 Effect(Activate(net.layers[i], AccRowOf(Plans(net), i, nb),
                                 Plans(net)[i].out_ub
                                   + nb * Plans(net)[i].out_rows,
                                 Plans(net)[i].in_rows), s))
<1> DEFINE plan  == Plans(net)[i]
           layer == net.layers[i]
           rows  == plan.in_rows
           out   == plan.out_rows
           a     == AccRowOf(Plans(net), i, nb)
           u     == plan.out_ub + nb * out
           m     == Activate(layer, a, u, rows)
           t     == Effect(m, s)
           below == cells[i - 1]
<1>1. /\ plan.in_ub \in Nat /\ rows \in Nat /\ plan.in_blocks \in Nat \ {0}
      /\ plan.out_ub \in Nat /\ out \in Nat /\ plan.out_blocks \in Nat
      /\ plan.in_ub + plan.in_blocks * rows = plan.out_ub
      /\ plan.out_ub + plan.out_blocks * out <= UbRows
  BY Shape
<1>2. out = ActivateOutputRows(rows, layer.pool, layer.pool_size)
  BY LayerIs
<1>3. /\ DOMAIN s.ub = UbAddrs
      /\ s.hostMem = AsLoaded.hostMem
      /\ Region(s.ub, plan.in_ub, rows, plan.in_blocks, below)
      /\ Region(s.ub, plan.out_ub, out, nb, cells[i])
      /\ s.queue = Waiting(net, TileAt(Plans(net), i, nb, plan.in_blocks))
      /\ \A p \in 0 .. rows - 1, n \in Cols :
           s.acc[<<a + p, n>>]
             = ProductsOf(net, i, below, nb, p, n, plan.in_blocks)
  BY <1>1 DEF LayerAt
<1>4. /\ m.op = "Activate" /\ m.ub_row = u /\ m.rows = rows
      /\ m.pool = layer.pool /\ m.pool_size = layer.pool_size
  BY DEF Activate, Blank
<1>5. OutRows(m) = out
  BY <1>2, <1>4 DEF OutRows
<1>6. /\ t.hostMem = s.hostMem /\ t.queue = s.queue /\ DOMAIN t.ub = UbAddrs
      /\ \A x \in UbAddrs :
           t.ub[x] = IF x \div Dim - u \in 0 .. out - 1
                     THEN ActivatedCell(m, s.acc, x \div Dim - u, x % Dim)
                     ELSE s.ub[x]
  <2> HIDE DEF m, u, out
  <2> QED BY <1>3, <1>4, <1>5, ActivateEffectIs
<1>7. nb \in Nat /\ nb * out \in Nat /\ u \in Nat /\ u + out <= UbRows
      /\ plan.out_ub <= u /\ (nb + 1) * out = nb * out + out
  <2> DEFINE p == nb * out
             q == plan.out_blocks * out
             O == plan.out_blocks
  <2>1. O \in Nat /\ out \in Nat /\ nb \in 0 .. O - 1
    BY <1>1
  <2> HIDE DEF O, out
  <2>2. /\ nb \in Nat /\ nb * out \in Nat /\ O * out \in Nat
        /\ (nb + 1) * out = nb * out + out /\ nb * out + out <= O * out
    BY ONLY <2>1, BlockEnds
  <2>3. u = plan.out_ub + p /\ plan.out_ub + q <= UbRows
    BY <1>1 DEF out
  <2>4. out \in Nat /\ plan.out_ub \in Nat /\ UbRows \in Nat
    BY <1>1, MemoryAssumption DEF out
  <2>5. p \in Nat /\ q \in Nat /\ p + out <= q
    BY ONLY <2>2 DEF p, q, O
  <2> HIDE DEF p, q, u, plan
  <2>6. u \in Nat /\ u + out <= UbRows /\ plan.out_ub <= u
    BY ONLY <2>3, <2>4, <2>5
  <2> QED BY ONLY <2>2, <2>6
<1>8. UbRows \in Nat
  BY MemoryAssumption
<1>9. SameBelow(s.ub, t.ub, u)
  <2> SUFFICES ASSUME NEW r \in Nat, NEW n \in Cols, r < u
               PROVE  t.ub[UbAt(r, n)] = s.ub[UbAt(r, n)]
    BY DEF SameBelow
  <2> HIDE DEF t, u, out, plan
  <2>1. r < UbRows /\ ~(r - u \in 0 .. out - 1)
    BY <1>1, <1>7, <1>8
  <2>2. UbAt(r, n) \in UbAddrs /\ UbAt(r, n) \div Dim = r
    BY <2>1, RowAddress
  <2> QED BY <1>6, <2>1, <2>2
<1>10. Region(t.ub, plan.in_ub, rows, plan.in_blocks, below)
  <2>1. plan.in_ub + plan.in_blocks * rows <= u
    BY <1>1, <1>7
  <2>2. plan.in_blocks \in Nat /\ plan.in_ub \in Nat /\ rows \in Nat
        /\ u \in Nat
    BY <1>1, <1>7
  <2>3. Region(s.ub, plan.in_ub, rows, plan.in_blocks, below)
    BY <1>3
  <2> HIDE DEF t, u, plan, rows, out, below
  <2> QED BY ONLY <1>9, <2>1, <2>2, <2>3, RegionStays
<1>11. Region(t.ub, plan.out_ub, out, nb, cells[i])
  <2>1. plan.out_ub + nb * out <= u
    BY <1>7
  <2>2. nb \in Nat /\ plan.out_ub \in Nat /\ out \in Nat /\ u \in Nat
    BY <1>1, <1>7
  <2>3. Region(s.ub, plan.out_ub, out, nb, cells[i])
    BY <1>3
  <2> HIDE DEF t, u, plan, rows, out, below
  <2> QED BY ONLY <1>9, <2>1, <2>2, <2>3, RegionStays
<1>12. ASSUME NEW r \in 0 .. out - 1, NEW n \in Cols
       PROVE  t.ub[UbAt(u + r, n)] = cells[i][<<nb, r, n>>]
  <2>1. u + r \in Nat /\ u + r < UbRows /\ (u + r) - u = r /\ r \in Nat
    <3>1. u \in Nat /\ out \in Nat /\ u + out <= UbRows
      BY <1>1, <1>7
    <3> HIDE DEF u, out
    <3> QED BY ONLY <1>8, <3>1, r \in 0 .. out - 1
  <2>2. /\ UbAt(u + r, n) \in UbAddrs /\ UbAt(u + r, n) \div Dim = u + r
        /\ UbAt(u + r, n) % Dim = n
    BY <2>1, RowAddress
  <2>3. t.ub[UbAt(u + r, n)] = ActivatedCell(m, s.acc, r, n)
    <3> HIDE DEF t, u, out, m
    <3> QED BY <1>6, <2>1, <2>2
  <2>4. ActivatedCell(m, s.acc, r, n) = LayerCell(net, i, below, nb, r, n)
    <3>1. r \in 0 .. Plans(net)[i].out_rows - 1
      OBVIOUS
    <3>2. SumsAre(s.acc, a, net, i, below, nb, n)
      BY <1>3 DEF SumsAre
    <3>3. ActivatedCell(Activate(net.layers[i], a, u, Plans(net)[i].in_rows),
                        s.acc, r, n)
            = LayerCell(net, i, below, nb, r, n)
      <4> DEFINE x == s.acc
      <4>1. SumsAre(x, a, net, i, below, nb, n)
        BY <3>2
      <4> HIDE DEF a, u, below, x
      <4>2. n \in Cols /\ i \in 1 .. Len(net.layers) /\ Accepted(net)
        OBVIOUS
      <4>3. CellsMade(x, a, net, i, below, nb, n)
        BY ONLY <4>1, <4>2, ActivatedAreCells
      <4> QED BY <3>1, <4>3 DEF x, CellsMade
    <3> QED BY <3>3
  <2>5. n \in Nat
    BY MemoryAssumption DEF Cols
  <2>6. cells[i][<<nb, r, n>>] = LayerCell(net, i, below, nb, r, n)
    <3>1. nb \in Nat /\ r \in Nat
      BY <1>7, <2>1
    <3>2. i \in 1 .. Len(net.layers)
      OBVIOUS
    <3>3. cells[i][<<nb, r, n>>] = LayerCell(net, i, cells[i - 1], nb, r, n)
      BY ONLY <2>5, <3>1, <3>2, IsCells(cells, net), LayerCellsAre
    <3> QED BY <3>3
  <2> QED BY <2>3, <2>4, <2>6
<1>13. Region(t.ub, plan.out_ub, out, nb + 1, cells[i])
  <2> SUFFICES ASSUME NEW b \in 0 .. (nb + 1) - 1, NEW r \in 0 .. out - 1,
                      NEW n \in Cols
               PROVE  t.ub[UbAt(plan.out_ub + b * out + r, n)]
                        = cells[i][<<b, r, n>>]
    BY DEF Region
  <2>1. CASE b = nb
    BY <1>12, <2>1
  <2>2. CASE b # nb
    <3>1. b \in 0 .. nb - 1
      BY <1>7, <2>2
    <3> HIDE DEF t, plan, out
    <3> QED BY <1>11, <3>1 DEF Region
  <2> QED BY <2>1, <2>2
<1>14. t.queue = Waiting(net, TileAt(Plans(net), i, nb + 1, 0))
  <2>1. TileAt(Plans(net), i, nb, plan.in_blocks)
          = TileAt(Plans(net), i, nb + 1, 0)
    BY TileOrder
  <2> HIDE DEF t
  <2> QED BY <1>3, <1>6, <2>1
<1>15. LayerAt(net, cells, i, nb + 1, 0, t)
  <2> HIDE DEF t
  <2> QED BY <1>3, <1>6, <1>10, <1>13, <1>14 DEF LayerAt
<1> QED BY ONLY <1>15 DEF t, m, u, a, out, rows, layer, plan

LEMMA BlockRuns ==
  ASSUME NEW net, Accepted(net), NEW cells, IsCells(cells, net),
         NEW i \in 1 .. Len(net.layers),
         NEW nb \in 0 .. Plans(net)[i].out_blocks - 1,
         NEW f, NEW at \in Nat, LayerAt(net, cells, i, nb, 0, f[at]),
         Runs(f, at, BlockCode(net, Plans(net), i, nb))
  PROVE  LayerAt(net, cells, i, nb + 1, 0,
                 f[at + Len(BlockCode(net, Plans(net), i, nb))])
<1> DEFINE plan  == Plans(net)[i]
           steps == [k \in 1 .. plan.in_blocks |->
                       StepCode(Plans(net), i, nb, k - 1)]
           all   == FlattenSeq(steps)
           last  == Activate(net.layers[i], AccRowOf(Plans(net), i, nb),
                             plan.out_ub + nb * plan.out_rows, plan.in_rows)
           code  == BlockCode(net, Plans(net), i, nb)
           mid   == at + Len(all)
<1>1. /\ code = all \o <<last>> /\ all \in Seq(Instr) /\ last \in Instr
      /\ <<last>> \in Seq(Instr)
  BY BlockSeq
<1>2. Runs(f, at, code)
  OBVIOUS
<1> HIDE DEF code, last
<1>3. Runs(f, at, all) /\ Runs(f, mid, <<last>>)
  BY <1>1, <1>2, RunsParts
<1>4. LayerAt(net, cells, i, nb, plan.in_blocks, f[mid])
  BY <1>3, StepsRun
<1>5. Len(all) \in Nat /\ Len(code) = Len(all) + 1
  <2> HIDE DEF all
  <2>1. Len(<<last>>) = 1
    OBVIOUS
  <2> QED BY <1>1, <2>1, ConcatProperties, LenProperties
<1>6. f[at + Len(code)] = Effect(last, f[mid])
  <2>1. f[mid + 1] = Effect(<<last>>[1], f[mid + 1 - 1])
    <3>1. 1 \in 1 .. Len(<<last>>)
      OBVIOUS
    <3> HIDE DEF mid
    <3> QED BY <1>3, <3>1 DEF Runs
  <2>2. mid + 1 - 1 = mid /\ mid + 1 = at + Len(code)
    <3> HIDE DEF all
    <3> QED BY <1>5
  <2> HIDE DEF mid
  <2> QED BY <2>1, <2>2
<1> HIDE DEF mid
<1>7. LayerAt(net, cells, i, nb + 1, 0, Effect(last, f[mid]))
  BY <1>4, ActivateMakes DEF last
<1> QED BY <1>6, <1>7 DEF code

LEMMA LayerRuns ==
  ASSUME NEW net, Accepted(net), NEW cells, IsCells(cells, net),
         NEW i \in 1 .. Len(net.layers),
         NEW f, NEW at \in Nat, LayerAt(net, cells, i, 0, 0, f[at]),
         Runs(f, at, LayerCode(net, Plans(net), i))
  PROVE  LayerAt(net, cells, i, Plans(net)[i].out_blocks, 0,
                 f[at + Len(LayerCode(net, Plans(net), i))])
<1> DEFINE n == Plans(net)[i].out_blocks
           blocks == [b \in 1 .. n |-> BlockCode(net, Plans(net), i, b - 1)]
           code == LayerCode(net, Plans(net), i)
<1>1. n \in Nat
  BY Shape
<1>2. code = FlattenSeq(blocks) /\ blocks \in [1 .. n -> Seq(Instr)]
  BY LayerSeq
<1>3. \A b \in 1 .. n : blocks[b] = BlockCode(net, Plans(net), i, b - 1)
  OBVIOUS
<1>4. Runs(f, at, code)
  OBVIOUS
<1> HIDE DEF blocks, code
<1>5. PICK place : /\ place[0] = at /\ place[n] = at + Len(code)
                   /\ Places(place, blocks, n, f)
  BY <1>1, <1>2, <1>4, RunsJoined
<1> DEFINE S == {k \in Nat :
                   k <= n => LayerAt(net, cells, i, k, 0, f[place[k]])}
<1>6. 0 \in S
  BY <1>5
<1>7. ASSUME NEW k \in Nat, k \in S PROVE k + 1 \in S
  <2> SUFFICES ASSUME k + 1 <= n
               PROVE  LayerAt(net, cells, i, k + 1, 0, f[place[k + 1]])
    OBVIOUS
  <2>1. k + 1 \in 1 .. n /\ (k + 1) - 1 = k /\ k \in 0 .. n - 1
    BY <1>1
  <2>2. LayerAt(net, cells, i, k, 0, f[place[k]])
    BY <1>1, <1>7
  <2>3. blocks[k + 1] = BlockCode(net, Plans(net), i, k)
    BY <1>3, <2>1
  <2>4. /\ place[k] \in Nat /\ place[k + 1] = place[k] + Len(blocks[k + 1])
        /\ Runs(f, place[k], blocks[k + 1])
    BY <1>5, <2>1 DEF Places
  <2>5. LayerAt(net, cells, i, k + 1, 0,
                f[place[k] + Len(BlockCode(net, Plans(net), i, k))])
    BY <2>1, <2>2, <2>3, <2>4, BlockRuns
  <2> QED BY <2>3, <2>4, <2>5
<1> HIDE DEF S
<1>8. n \in S
  BY <1>1, <1>6, <1>7, Induction
<1> QED BY <1>1, <1>5, <1>8 DEF S, code

(* A layer's output is the next one's input.                                 *)
LEMMA NextLayer ==
  ASSUME NEW net, Accepted(net), NEW cells, NEW i \in 1 .. Len(net.layers),
         i > 1, NEW s,
         LayerAt(net, cells, i - 1, Plans(net)[i - 1].out_blocks, 0, s)
  PROVE  LayerAt(net, cells, i, 0, 0, s)
<1> DEFINE plan == Plans(net)[i]
           last == Plans(net)[i - 1]
<1>1. i - 1 \in 1 .. Len(net.layers) /\ (i - 1) + 1 = i
  <2>1. Len(net.layers) \in Nat
    BY TilesBeforeIs
  <2> QED BY <2>1
<1>2. /\ plan.in_ub = last.out_ub /\ plan.in_rows = last.out_rows
      /\ plan.in_blocks = last.out_blocks
  BY LayerIs
<1>3. TileAt(Plans(net), i - 1, last.out_blocks, 0)
        = TileAt(Plans(net), i, 0, 0)
  <2>1. TileAt(Plans(net), i - 1, last.out_blocks, 0)
          = TilesBefore(Plans(net), i)
    BY <1>1, TileOrder
  <2> QED BY <2>1, TileOrder
<1>4. /\ DOMAIN s.ub = UbAddrs /\ s.hostMem = AsLoaded.hostMem
      /\ Region(s.ub, last.out_ub, last.out_rows, last.out_blocks, cells[i - 1])
      /\ s.queue = Waiting(net, TileAt(Plans(net), i - 1, last.out_blocks, 0))
  BY DEF LayerAt
<1>5. Region(s.ub, plan.out_ub, plan.out_rows, 0, cells[i])
  <2>1. 0 .. 0 - 1 = {}
    OBVIOUS
  <2> QED BY <2>1 DEF Region
<1> HIDE DEF plan, last
<1>6. Region(s.ub, plan.in_ub, plan.in_rows, plan.in_blocks, cells[i - 1])
  BY <1>2, <1>4
<1>7. s.queue = Waiting(net, TileAt(Plans(net), i, 0, 0))
  BY <1>3, <1>4
<1> QED BY <1>4, <1>5, <1>6, <1>7 DEF LayerAt, plan

LEMMA LayersRun ==
  ASSUME NEW net, Accepted(net), NEW cells, IsCells(cells, net),
         NEW f, NEW at \in Nat, LayerAt(net, cells, 1, 0, 0, f[at]),
         Runs(f, at, LayersCode(net))
  PROVE  LayerAt(net, cells, Len(net.layers),
                 Plans(net)[Len(net.layers)].out_blocks, 0,
                 f[at + Len(LayersCode(net))])
<1> DEFINE N == Len(net.layers)
           layers == [i \in 1 .. N |-> LayerCode(net, Plans(net), i)]
           code == LayersCode(net)
           O(i) == Plans(net)[i].out_blocks
<1>1. N \in Nat \ {0} /\ DOMAIN Plans(net) = 1 .. N
  BY TilesBeforeIs
<1>2. code = FlattenSeq(layers)
  BY <1>1 DEF LayersCode
<1>3. \A i \in 1 .. N : layers[i] = LayerCode(net, Plans(net), i)
                        /\ layers[i] \in Seq(Instr)
  BY LayerSeq
<1>4. layers \in [1 .. N -> Seq(Instr)]
  BY <1>3
<1>5. Runs(f, at, code)
  OBVIOUS
<1> HIDE DEF layers, code
<1>6. PICK place : /\ place[0] = at /\ place[N] = at + Len(code)
                   /\ Places(place, layers, N, f)
  BY <1>1, <1>2, <1>4, <1>5, RunsJoined
<1> DEFINE S == {k \in Nat : k + 1 <= N =>
                   LayerAt(net, cells, k + 1, O(k + 1), 0, f[place[k + 1]])}
<1>7. ASSUME NEW i \in 1 .. N, LayerAt(net, cells, i, 0, 0, f[place[i - 1]])
      PROVE  LayerAt(net, cells, i, O(i), 0, f[place[i]])
  <2>1. /\ place[i - 1] \in Nat /\ place[i] = place[i - 1] + Len(layers[i])
        /\ Runs(f, place[i - 1], layers[i])
    BY <1>6 DEF Places
  <2> QED BY <1>3, <1>7, <2>1, LayerRuns
<1>8. 0 \in S
  <2> SUFFICES ASSUME 1 <= N
               PROVE  LayerAt(net, cells, 1, O(1), 0, f[place[1]])
    OBVIOUS
  <2>1. 1 \in 1 .. N /\ place[1 - 1] = at
    BY <1>1, <1>6
  <2> QED BY <1>7, <2>1
<1>9. ASSUME NEW k \in Nat, k \in S PROVE k + 1 \in S
  <2> SUFFICES ASSUME k + 2 <= N
               PROVE  LayerAt(net, cells, k + 2, O(k + 2), 0, f[place[k + 2]])
    OBVIOUS
  <2>1. k + 2 \in 1 .. N /\ (k + 2) - 1 = k + 1 /\ k + 2 > 1 /\ k + 1 <= N
    BY <1>1
  <2>2. LayerAt(net, cells, k + 1, O(k + 1), 0, f[place[k + 1]])
    BY <1>9, <2>1
  <2>3. LayerAt(net, cells, k + 2, 0, 0, f[place[k + 1]])
    BY <2>1, <2>2, NextLayer
  <2> QED BY <1>7, <2>1, <2>3
<1> HIDE DEF S
<1>10. N - 1 \in Nat /\ (N - 1) + 1 = N
  BY <1>1
<1>11. N - 1 \in S
  BY <1>8, <1>9, <1>10, Induction
<1>12. LayerAt(net, cells, N, O(N), 0, f[place[N]])
  BY <1>10, <1>11 DEF S
<1> QED BY <1>6, <1>12 DEF code

-----------------------------------------------------------------------------
(* The transfers at the two ends of the program                              *)

CopyMakes(dst, to, src, from, rows, new) ==
  /\ DOMAIN new = DOMAIN dst
  /\ SameBelow(dst, new, to)
  /\ \A r \in 0 .. rows - 1, n \in Cols :
       new[UbAt(to + r, n)] = src[UbAt(from + r, n)]

LEMMA MovedAddress ==
  ASSUME NEW x \in Nat, NEW y \in Nat, NEW z \in Nat, NEW n \in Cols
  PROVE  UbAt(x + z, n) + (y - x) * Dim = UbAt(y + z, n)
<1> DEFINE d == Dim
<1>1. d \in Nat /\ n \in Nat
  BY MemoryAssumption DEF Cols
<1> HIDE DEF d
<1>2. ((x + z) * d + n) + (y - x) * d = (y + z) * d + n
  BY ONLY <1>1, x \in Nat, y \in Nat, z \in Nat, Z3
<1> QED BY <1>2 DEF UbAt, d

LEMMA CopyIs ==
  ASSUME NEW size \in Nat, NEW dst, DOMAIN dst = 0 .. size * Dim - 1,
         NEW src, NEW to \in Nat, NEW from \in Nat, NEW rows \in Nat,
         to + rows <= size
  PROVE  CopyMakes(dst, to, src, from, rows, CopyOf(dst, to, src, from, rows))
<1> DEFINE new == CopyOf(dst, to, src, from, rows)
<1>1. /\ DOMAIN new = DOMAIN dst
      /\ \A a \in DOMAIN dst :
           new[a] = IF a \div Dim \in to .. to + rows - 1
                    THEN src[a + (from - to) * Dim] ELSE dst[a]
  BY DEF CopyOf
<1> HIDE DEF new
<1>2. ASSUME NEW r \in Nat, NEW n \in Cols, r < size
      PROVE  UbAt(r, n) \in DOMAIN dst /\ UbAt(r, n) \div Dim = r
  <2>1. UbAt(r, n) \div Dim = r
    BY RowAddress
  <2> DEFINE d == Dim
  <2>2. d \in Nat /\ n \in 0 .. d - 1 /\ r \in 0 .. size - 1
    BY <1>2, MemoryAssumption DEF Cols
  <2> HIDE DEF d
  <2>3. (r * d) + n \in 0 .. size * d - 1
    BY <2>2, InBlocks
  <2> QED BY <2>1, <2>3 DEF UbAt, d
<1>3. SameBelow(dst, new, to)
  <2> SUFFICES ASSUME NEW r \in Nat, NEW n \in Cols, r < to
               PROVE  new[UbAt(r, n)] = dst[UbAt(r, n)]
    BY DEF SameBelow
  <2>1. r < size /\ ~(r \in to .. to + rows - 1)
    OBVIOUS
  <2> QED BY <1>1, <1>2, <2>1
<1>4. ASSUME NEW r \in 0 .. rows - 1, NEW n \in Cols
      PROVE  new[UbAt(to + r, n)] = src[UbAt(from + r, n)]
  <2>1. to + r \in Nat /\ to + r < size /\ to + r \in to .. to + rows - 1
        /\ r \in Nat
    OBVIOUS
  <2>2. UbAt(to + r, n) \in DOMAIN dst /\ UbAt(to + r, n) \div Dim = to + r
    BY <1>2, <2>1
  <2>3. new[UbAt(to + r, n)] = src[UbAt(to + r, n) + (from - to) * Dim]
    BY <1>1, <2>1, <2>2
  <2>4. UbAt(to + r, n) + (from - to) * Dim = UbAt(from + r, n)
    <3>1. r \in Nat
      BY <2>1
    <3> QED BY ONLY <3>1, MovedAddress, ZenonT(60)
  <2> QED BY ONLY <2>3, <2>4, Zenon
<1> QED BY <1>1, <1>3, <1>4 DEF CopyMakes, new

(* Rows of a memory hold block b.                                            *)
HoldsBlock(memory, first, rows, b, cells) ==
  \A r \in 0 .. rows - 1, n \in Cols :
    memory[UbAt(first + r, n)] = cells[<<b, r, n>>]

(* A block more of a region, copied.                                         *)
LEMMA RegionGrows ==
  ASSUME NEW dst, NEW src, NEW new, NEW first \in Nat, NEW rows \in Nat,
         NEW b \in Nat, NEW from, NEW cells,
         CopyMakes(dst, first + b * rows, src, from, rows, new),
         Region(dst, first, rows, b, cells),
         HoldsBlock(src, from, rows, b, cells)
  PROVE  Region(new, first, rows, b + 1, cells)
<1> DEFINE to == first + b * rows
<1>1. to \in Nat /\ to <= to
  <2>1. b * rows \in Nat
    BY ProductNat
  <2> QED BY <2>1
<1>2. SameBelow(dst, new, to)
  BY DEF CopyMakes
<1>3. Region(new, first, rows, b, cells)
  <2> HIDE DEF to
  <2>1. first + b * rows <= to
    BY <1>1 DEF to
  <2> QED BY <1>1, <1>2, <2>1, RegionStays
<1> SUFFICES ASSUME NEW k \in 0 .. (b + 1) - 1, NEW r \in 0 .. rows - 1,
                    NEW n \in Cols
             PROVE  new[UbAt(first + k * rows + r, n)] = cells[<<k, r, n>>]
  BY DEF Region
<1>4. CASE k = b
  BY <1>4 DEF CopyMakes, HoldsBlock
<1>5. CASE k # b
  <2>1. k \in 0 .. b - 1
    BY <1>5
  <2> QED BY <1>3, <2>1 DEF Region
<1> QED BY <1>4, <1>5

TransferEffect(i, s, t) ==
  /\ t.queue = s.queue
  /\ i.op = "ReadHostMemory" =>
       /\ t.hostMem = s.hostMem
       /\ t.ub = CopyOf(s.ub, i.ub_row, s.hostMem, i.host_row, i.rows)
  /\ i.op = "WriteHostMemory" =>
       /\ t.ub = s.ub
       /\ t.hostMem = CopyOf(s.hostMem, i.host_row, s.ub, i.ub_row, i.rows)

LEMMA TransferEffectIs ==
  ASSUME NEW i, i.op \in Transfers, NEW s
  PROVE  TransferEffect(i, s, Effect(i, s))
BY DEF TransferEffect, Transfers, Effect, UbAfter, HostMemAfter, QueueAfter,
       Switches

(* The first n tiles wait.                                                   *)
LEMMA EarlyReadsRun ==
  ASSUME NEW net, Accepted(net), NEW f, f[0] = AsLoaded,
         Runs(f, 0, EarlyReads(net))
  PROVE  LET s == f[Len(EarlyReads(net))]
         IN  /\ s.ub = AsLoaded.ub /\ s.hostMem = AsLoaded.hostMem
             /\ s.queue = Waiting(net, 0)
<1> DEFINE e == Least(TilesTotal(Plans(net)), PrefetchTiles)
           code == EarlyReads(net)
           Q(k) == [j \in 1 .. k |-> j - 1]
<1>1. e \in Nat
  <2>1. Len(net.layers) \in 1 .. Len(net.layers)
    <3>1. Len(net.layers) \in Nat \ {0}
      BY TilesBeforeIs
    <3> QED BY <3>1
  <2>2. TilesTotal(Plans(net)) \in Nat
    BY <2>1, Shape
  <2> QED BY <2>2, CompilerAssumption DEF Least
<1>2. code = [t \in 1 .. e |-> ReadTile(t - 1)]
  BY DEF EarlyReads
<1>3. Len(code) = e /\ \A t \in 1 .. e : code[t] = ReadTile(t - 1)
  <2> HIDE DEF e
  <2>1. code \in Seq(Instr) /\ DOMAIN code = 1 .. e
    <3>1. code \in Seq(Instr)
      BY CodeIs
    <3> HIDE DEF code
    <3> QED BY <1>2, <3>1
  <2> HIDE DEF code
  <2> QED BY <1>1, <1>2, <2>1, LenProperties
<1>4. \A k \in 1 .. e : f[0 + k] = Effect(code[k], f[0 + k - 1])
  <2> HIDE DEF e
  <2> QED BY <1>3 DEF Runs
<1>5. Q(e) = Waiting(net, 0)
  <2>1. Least(TilesTotal(Plans(net)), 0 + PrefetchTiles) - 0 = e
    <3>1. 0 + PrefetchTiles = PrefetchTiles
      BY CompilerAssumption
    <3>2. e - 0 = e
      <4> HIDE DEF e
      <4> QED BY <1>1
    <3> QED BY <3>1, <3>2
  <2>2. \A k \in 1 .. e : 0 + k - 1 = k - 1
    <3> HIDE DEF e
    <3> QED BY <1>1
  <2> HIDE DEF e
  <2> QED BY <2>1, <2>2 DEF Waiting
<1> HIDE DEF code, e
<1> DEFINE At(k) == /\ f[k].ub = AsLoaded.ub /\ f[k].hostMem = AsLoaded.hostMem
                    /\ f[k].queue = Q(k)
           S == {k \in Nat : k <= e => At(k)}
<1>6. 0 \in S
  <2>1. Q(0) = << >>
    OBVIOUS
  <2> HIDE DEF Q
  <2> QED BY <2>1 DEF AsLoaded
<1>7. ASSUME NEW k \in Nat PROVE Append(Q(k), k) = Q(k + 1)
  <2> DEFINE q == Q(k)
             r == Append(q, k)
  <2>1. q \in [1 .. k -> Nat] /\ \A j \in 1 .. k : q[j] = j - 1
    OBVIOUS
  <2> HIDE DEF q
  <2>2. \A m \in Nat : [1 .. m -> Nat] \subseteq Seq(Nat)
    BY ONLY TRUE
  <2>3. q \in Seq(Nat) /\ Len(q) = k
    BY <2>1, <2>2, LenProperties
  <2>4. /\ r \in Seq(Nat) /\ Len(r) = k + 1 /\ r[k + 1] = k
        /\ \A j \in 1 .. k : r[j] = q[j]
    BY <2>3, AppendProperties
  <2> HIDE DEF r
  <2>5. \A j \in 1 .. k + 1 : r[j] = j - 1
    BY <2>1, <2>4
  <2>6. r = [j \in 1 .. k + 1 |-> r[j]]
    BY <2>4, LenProperties
  <2>7. r = [j \in 1 .. k + 1 |-> j - 1]
    BY <2>5, <2>6
  <2> QED BY <2>7 DEF r, q
<1> HIDE DEF Q
<1>8. ASSUME NEW k \in Nat, k \in S PROVE k + 1 \in S
  <2> SUFFICES ASSUME k + 1 <= e PROVE At(k + 1)
    OBVIOUS
  <2>1. k + 1 \in 1 .. e /\ (k + 1) - 1 = k /\ 0 + (k + 1) = k + 1
        /\ 0 + (k + 1) - 1 = k /\ k <= e
    BY <1>1
  <2>2. f[k + 1] = Effect(ReadTile(k), f[k])
    BY <1>3, <1>4, <2>1
  <2>3. At(k)
    BY <1>8, <2>1
  <2>4. /\ f[k + 1].ub = f[k].ub /\ f[k + 1].hostMem = f[k].hostMem
        /\ f[k + 1].queue = Append(f[k].queue, k)
    BY <2>2, ReadTileEffect
  <2> QED BY <1>7, <2>3, <2>4
<1> HIDE DEF S
<1>9. e \in S
  BY <1>1, <1>6, <1>8, Induction
<1> QED BY <1>1, <1>3, <1>5, <1>9 DEF S, code

(* The input's blocks lie in the Unified Buffer: the first layer can begin.  *)
LEMMA InputReadsRun ==
  ASSUME NEW net, Accepted(net), NEW cells, IsCells(cells, net),
         NEW f, NEW at \in Nat, Runs(f, at, InputReads(net)),
         f[at].ub = AsLoaded.ub, f[at].hostMem = AsLoaded.hostMem,
         f[at].queue = Waiting(net, 0)
  PROVE  LayerAt(net, cells, 1, 0, 0, f[at + Len(InputReads(net))])
<1> DEFINE m == BlockCount(net.cols)
           n == net.rows
           code == InputReads(net)
           plan == Plans(net)[1]
<1>1. 1 \in 1 .. Len(net.layers)
  <2>1. Len(net.layers) \in Nat \ {0}
    BY TilesBeforeIs
  <2> QED BY <2>1
<1>2. /\ plan.in_ub = 0 /\ plan.in_rows = n /\ plan.in_blocks = m
      /\ n \in Nat /\ m \in Nat
      /\ plan.in_ub + plan.in_blocks * plan.in_rows = plan.out_ub
      /\ plan.out_ub + plan.out_blocks * plan.out_rows <= UbRows
      /\ plan.out_ub \in Nat /\ plan.out_blocks * plan.out_rows \in Nat
  BY <1>1, LayerIs, Shape, ProductNat, SMTT(30)
<1>3. m * n \in Nat /\ m * n <= UbRows
  <2> DEFINE x == m * n
             y == plan.out_blocks * plan.out_rows
  <2>1. x \in Nat
    BY <1>2, ProductNat
  <2>2. 0 + x = plan.out_ub /\ plan.out_ub + y <= UbRows /\ y \in Nat
    BY <1>2
  <2>3. UbRows \in Nat /\ plan.out_ub \in Nat
    BY <1>2, MemoryAssumption
  <2> HIDE DEF x, y, plan
  <2>4. x <= UbRows
    BY ONLY <2>1, <2>2, <2>3
  <2> QED BY <2>1, <2>4 DEF x
<1>4. code = [b \in 1 .. m |-> InputRead(net, b - 1)]
  BY DEF InputReads
<1> HIDE DEF plan
<1>5. Len(code) = m /\ \A b \in 1 .. m : code[b] = InputRead(net, b - 1)
  <2> HIDE DEF m
  <2>1. code \in Seq(Instr)
    BY CodeIs
  <2> HIDE DEF code
  <2> QED BY <1>2, <1>4, <2>1, LenProperties
<1>6. \A b \in 1 .. m : /\ f[at + b] = Effect(code[b], f[at + b - 1])
                        /\ FitsHost(code[b])
  <2> HIDE DEF m
  <2> QED BY <1>5 DEF Runs
<1> HIDE DEF code, m
<1> DEFINE At(b) == /\ DOMAIN f[at + b].ub = UbAddrs
                    /\ f[at + b].hostMem = AsLoaded.hostMem
                    /\ f[at + b].queue = Waiting(net, 0)
                    /\ Region(f[at + b].ub, 0, n, b, cells[0])
           S == {b \in Nat : b <= m => At(b)}
<1>7. 0 \in S
  <2>1. at + 0 = at /\ DOMAIN AsLoaded.ub = UbAddrs
    BY DEF AsLoaded
  <2>2. Region(f[at].ub, 0, n, 0, cells[0])
    BY DEF Region
  <2> QED BY <2>1, <2>2
<1>8. ASSUME NEW b \in Nat, b \in S PROVE b + 1 \in S
  <2> SUFFICES ASSUME b + 1 <= m PROVE At(b + 1)
    OBVIOUS
  <2>1. b + 1 \in 1 .. m /\ (b + 1) - 1 = b /\ at + (b + 1) - 1 = at + b
        /\ b <= m /\ b \in 0 .. m - 1
    BY <1>2
  <2> DEFINE s == f[at + b]
             t == f[at + (b + 1)]
             i == InputRead(net, b)
             p == b * n
             host == AsLoaded.hostMem
             mem == s.ub
  <2>2. t = Effect(i, s) /\ FitsHost(i)
    BY <1>5, <1>6, <2>1
  <2>3. At(b)
    BY <1>8, <2>1
  <2>4. p \in Nat /\ p + n <= m * n
    <3>1. m \in Nat /\ n \in Nat
      BY <1>2
    <3> HIDE DEF n
    <3>2. b * n \in Nat /\ b * n + n <= m * n
      BY ONLY <2>1, <3>1, BlockEnds
    <3> QED BY <3>2
  <2>5. /\ i.op = "ReadHostMemory" /\ i.host_row = p /\ i.ub_row = p
        /\ i.rows = n
    BY DEF InputRead, HostTransfer, Blank
  <2>6. p + n <= HostRows /\ p + n <= UbRows
    <3>1. p + n <= HostRows
      BY <2>2, <2>5 DEF FitsHost, Fits, Transfers
    <3> DEFINE x == m * n
    <3>2. x \in Nat /\ x <= UbRows /\ p + n <= x /\ p \in Nat /\ n \in Nat
      BY <1>2, <1>3, <2>4
    <3>3. UbRows \in Nat
      BY MemoryAssumption
    <3> HIDE DEF x, p, n
    <3> QED BY ONLY <3>1, <3>2, <3>3
  <2> HIDE DEF i
  <2>7. TransferEffect(i, s, t)
    BY <2>2, <2>5, TransferEffectIs DEF Transfers
  <2> HIDE DEF s, t
  <2>8. /\ t.queue = Waiting(net, 0) /\ t.hostMem = host
        /\ t.ub = CopyOf(mem, p, host, p, n) /\ DOMAIN mem = UbAddrs
        /\ Region(mem, 0, n, b, cells[0])
    BY <2>3, <2>5, <2>7 DEF TransferEffect, s
  <2> HIDE DEF host, mem
  <2>9. CopyMakes(mem, p, host, p, n, CopyOf(mem, p, host, p, n))
    <3>1. p \in Nat /\ n \in Nat /\ p + n <= UbRows /\ UbRows \in Nat
          /\ DOMAIN mem = 0 .. UbRows * Dim - 1
      BY <1>2, <2>4, <2>6, <2>8, MemoryAssumption DEF UbAddrs
    <3> HIDE DEF p, n
    <3> QED BY ONLY <3>1, CopyIs
  <2>10. CopyMakes(mem, 0 + b * n, host, p, n, t.ub)
    <3>1. 0 + b * n = p
      BY <2>4
    <3> HIDE DEF p
    <3> QED BY <2>8, <2>9, <3>1
  <2>11. ASSUME NEW r \in 0 .. n - 1, NEW c \in Cols
         PROVE  host[UbAt(p + r, c)] = cells[0][<<b, r, c>>]
    <3>1. p + r \in Nat /\ p + r < HostRows /\ r \in Nat
      <4>1. p \in Nat /\ n \in Nat /\ p + n <= HostRows /\ HostRows \in Nat
        BY <1>2, <2>4, <2>6, MemoryAssumption
      <4> HIDE DEF p, n
      <4> QED BY ONLY <4>1, r \in 0 .. n - 1
    <3>2. UbAt(p + r, c) \in HostAddrs
      <4> DEFINE x == p + r
      <4>1. x \in Nat /\ x < HostRows
        BY <3>1
      <4> HIDE DEF x
      <4>2. UbAt(x, c) \in HostAddrs
        BY <4>1, RowAddress
      <4> QED BY <4>2 DEF x
    <3>3. host[UbAt(p + r, c)] = <<"host", UbAt(p + r, c)>>
      BY <3>2 DEF AsLoaded, host
    <3>4. cells[0][<<b, r, c>>] = InputByte(net, b, r, c)
      <4>1. c \in Nat /\ Len(net.layers) \in Nat
        BY TilesBeforeIs, MemoryAssumption DEF Cols
      <4>2. r \in Nat
        BY <3>1
      <4> QED BY ONLY <4>1, <4>2, b \in Nat, IsCells(cells, net), CellsAre
    <3> QED BY <3>3, <3>4 DEF InputByte
  <2>12. Region(t.ub, 0, n, b + 1, cells[0])
    <3>1. n \in Nat /\ 0 \in Nat
      BY <1>2
    <3> DEFINE c == cells[0]
               new == t.ub
    <3>2. /\ CopyMakes(mem, 0 + b * n, host, p, n, new)
          /\ Region(mem, 0, n, b, c)
          /\ HoldsBlock(host, p, n, b, c)
      BY <2>8, <2>10, <2>11 DEF HoldsBlock
    <3> HIDE DEF c, new, n, p
    <3>3. Region(new, 0, n, b + 1, c)
      BY ONLY <3>1, <3>2, b \in Nat, RegionGrows
    <3> QED BY <3>3 DEF c, new
  <2>13. DOMAIN t.ub = UbAddrs
    BY <2>8, <2>10 DEF CopyMakes
  <2> QED BY <2>8, <2>12, <2>13 DEF t, host
<1> HIDE DEF S
<1>9. m \in S
  BY <1>2, <1>7, <1>8, Induction
<1> DEFINE s == f[at + m]
<1>10. /\ DOMAIN s.ub = UbAddrs /\ s.hostMem = AsLoaded.hostMem
       /\ s.queue = Waiting(net, 0) /\ Region(s.ub, 0, n, m, cells[0])
  BY <1>2, <1>9 DEF S
<1> HIDE DEF s
<1>11. s.queue = Waiting(net, TileAt(Plans(net), 1, 0, 0))
  <2>1. TileAt(Plans(net), 1, 0, 0) = TilesBefore(Plans(net), 1)
    BY <1>1, TileOrder
  <2>2. TilesBefore(Plans(net), 1) = 0
    BY TilesBeforeIs
  <2> QED BY <1>10, <2>1, <2>2
<1>12. /\ Region(s.ub, plan.in_ub, plan.in_rows, plan.in_blocks, cells[1 - 1])
       /\ Region(s.ub, plan.out_ub, plan.out_rows, 0, cells[1])
  <2>1. 0 .. 0 - 1 = {} /\ 1 - 1 = 0
    OBVIOUS
  <2>2. Region(s.ub, plan.out_ub, plan.out_rows, 0, cells[1])
    BY <2>1 DEF Region
  <2> QED BY <1>2, <1>10, <2>1, <2>2
<1>13. LayerAt(net, cells, 1, 0, 0, s)
  BY <1>10, <1>11, <1>12 DEF LayerAt, plan
<1> QED BY <1>5, <1>13 DEF s, code

(* The host's memory gets the blocks of the last layer's output.             *)
LEMMA ResultWritesRun ==
  ASSUME NEW net, Accepted(net), NEW cells,
         NEW f, NEW at \in Nat, Runs(f, at, ResultWrites(net)),
         LayerAt(net, cells, Len(net.layers),
                 Plans(net)[Len(net.layers)].out_blocks, 0, f[at])
  PROVE  LET N    == Len(net.layers)
             last == Plans(net)[N]
         IN  Region(f[at + Len(ResultWrites(net))].hostMem, ResultHostRow(net),
                    last.out_rows, last.out_blocks, cells[N])
<1> DEFINE N == Len(net.layers)
           last == Plans(net)[N]
           m == last.out_blocks
           n == last.out_rows
           u == last.out_ub
           h == ResultHostRow(net)
           code == ResultWrites(net)
           mem == f[at].ub
           c == cells[N]
<1>1. /\ n \in Nat /\ m \in Nat /\ u \in Nat /\ h \in Nat
  <2>1. N \in 1 .. N
    <3>1. N \in Nat \ {0}
      BY TilesBeforeIs
    <3> QED BY <3>1
  <2> QED BY <2>1, Shape, CodeIs
<1>2. DOMAIN f[at].hostMem = HostAddrs /\ Region(mem, u, n, m, c)
  BY DEF LayerAt, AsLoaded
<1>3. code = [b \in 1 .. m |-> ResultWrite(net, b - 1)]
  BY DEF ResultWrites
<1>4. Len(code) = m /\ \A b \in 1 .. m : code[b] = ResultWrite(net, b - 1)
  <2>1. code \in Seq(Instr)
    BY CodeIs
  <2> HIDE DEF code, m
  <2> QED BY <1>1, <1>3, <2>1, LenProperties
<1>5. \A b \in 1 .. m : /\ f[at + b] = Effect(code[b], f[at + b - 1])
                        /\ FitsHost(code[b])
  <2> HIDE DEF m
  <2> QED BY <1>4 DEF Runs
<1>6. \A b : /\ ResultWrite(net, b).op = "WriteHostMemory"
             /\ ResultWrite(net, b).host_row = h + b * n
             /\ ResultWrite(net, b).ub_row = u + b * n
             /\ ResultWrite(net, b).rows = n
  BY DEF ResultWrite, HostTransfer, Blank
<1> DEFINE At(b) == /\ DOMAIN f[at + b].hostMem = HostAddrs
                    /\ f[at + b].ub = mem
                    /\ Region(f[at + b].hostMem, h, n, b, c)
           S == {b \in Nat : b <= m => At(b)}
<1>7. 0 \in S
  <2>1. at + 0 = at
    OBVIOUS
  <2>2. Region(f[at].hostMem, h, n, 0, c)
    BY DEF Region
  <2> QED BY <1>2, <2>1, <2>2
<1> HIDE DEF code, mem, c, h, u, n, m, N, last
<1>8. ASSUME NEW b \in Nat, b \in S PROVE b + 1 \in S
  <2> SUFFICES ASSUME b + 1 <= m PROVE At(b + 1)
    OBVIOUS
  <2>1. b + 1 \in 1 .. m /\ (b + 1) - 1 = b /\ at + (b + 1) - 1 = at + b
        /\ b <= m /\ b \in 0 .. m - 1
    BY <1>1
  <2> DEFINE s == f[at + b]
             t == f[at + (b + 1)]
             i == ResultWrite(net, b)
             p == b * n
             dst == s.hostMem
             new == t.hostMem
  <2>2. t = Effect(i, s) /\ FitsHost(i)
    BY <1>4, <1>5, <2>1
  <2>3. At(b)
    BY <1>8, <2>1
  <2>4. p \in Nat
    BY <1>1, ProductNat
  <2>5. /\ i.op = "WriteHostMemory" /\ i.host_row = h + p /\ i.ub_row = u + p
        /\ i.rows = n
    BY <1>6
  <2> HIDE DEF i
  <2>6. TransferEffect(i, s, t)
    BY <2>2, <2>5, TransferEffectIs DEF Transfers
  <2> HIDE DEF s, t
  <2> DEFINE to == h + p
             from == u + p
  <2>7. to \in Nat /\ from \in Nat /\ n \in Nat /\ to + n <= HostRows
    <3>1. to \in Nat /\ from \in Nat /\ n \in Nat
      <4> HIDE DEF p
      <4> QED BY <1>1, <2>4
    <3>2. to + n <= HostRows
      <4> HIDE DEF p
      <4> QED BY <2>2, <2>5 DEF FitsHost, Fits, Transfers
    <3> QED BY <3>1, <3>2
  <2>8. /\ t.ub = mem /\ new = CopyOf(dst, to, mem, from, n)
        /\ DOMAIN dst = HostAddrs /\ Region(dst, h, n, b, c)
    <3>1. /\ t.ub = s.ub
          /\ t.hostMem = CopyOf(s.hostMem, i.host_row, s.ub, i.ub_row, i.rows)
      BY <2>5, <2>6 DEF TransferEffect
    <3> QED BY <2>3, <2>5, <3>1 DEF s
  <2> HIDE DEF dst, new
  <2>9. CopyMakes(dst, to, mem, from, n, new)
    <3>1. HostRows \in Nat /\ DOMAIN dst = 0 .. HostRows * Dim - 1
      BY <2>8, MemoryAssumption DEF HostAddrs
    <3> HIDE DEF to, from
    <3>2. CopyMakes(dst, to, mem, from, n, CopyOf(dst, to, mem, from, n))
      BY ONLY <2>7, <3>1, CopyIs
    <3> QED BY <2>8, <3>2
  <2>10. HoldsBlock(mem, from, n, b, c)
    BY <1>2, <2>1 DEF HoldsBlock, Region
  <2>11. Region(new, h, n, b + 1, c)
    <3>1. CopyMakes(dst, h + b * n, mem, from, n, new)
      BY <2>9
    <3> HIDE DEF from, to, p
    <3> QED BY ONLY <1>1, <2>8, <2>10, <3>1, b \in Nat, RegionGrows
  <2>12. DOMAIN new = HostAddrs
    BY <2>8, <2>9 DEF CopyMakes
  <2> QED BY <2>8, <2>11, <2>12 DEF t, new
<1> HIDE DEF S
<1>9. m \in S
  BY <1>1, <1>7, <1>8, Induction
<1>10. Region(f[at + m].hostMem, h, n, m, c)
  BY <1>1, <1>9 DEF S
<1> QED BY <1>4, <1>10 DEF code, c, h, n, m, last, N

(* A program that runs to its end leaves the last layer in host memory.      *)
LEMMA WorkingRuns ==
  ASSUME NEW net, Accepted(net), NEW cells, IsCells(cells, net),
         NEW f, f[0] = AsLoaded, Runs(f, 0, Working(net))
  PROVE  LET N    == Len(net.layers)
             last == Plans(net)[N]
         IN  Region(f[Len(Working(net))].hostMem, ResultHostRow(net),
                    last.out_rows, last.out_blocks, cells[N])
<1> DEFINE a == EarlyReads(net)
           b == InputReads(net)
           c == LayersCode(net)
           d == ResultWrites(net)
           N == Len(net.layers)
           O == Plans(net)[N].out_blocks
<1>1. /\ a \in Seq(Instr) /\ b \in Seq(Instr) /\ c \in Seq(Instr)
      /\ d \in Seq(Instr)
  BY CodeIs
<1>2. Working(net) = ((a \o b) \o c) \o d
  BY DEF Working
<1> HIDE DEF a, b, c, d
<1>3. /\ a \o b \in Seq(Instr) /\ Len(a \o b) = Len(a) + Len(b)
      /\ (a \o b) \o c \in Seq(Instr)
      /\ Len((a \o b) \o c) = Len(a \o b) + Len(c)
      /\ Len(((a \o b) \o c) \o d) = Len((a \o b) \o c) + Len(d)
  BY <1>1, ConcatProperties
<1> DEFINE x == Len(a)
           y == Len(b)
           z == Len(c)
           w == Len(d)
<1>4. x \in Nat /\ y \in Nat /\ z \in Nat /\ w \in Nat
  BY <1>1, LenProperties
<1>5. Runs(f, 0, (a \o b) \o c) /\ Runs(f, 0 + Len((a \o b) \o c), d)
  BY <1>1, <1>2, <1>3, RunsParts
<1>6. Runs(f, 0, a \o b) /\ Runs(f, 0 + Len(a \o b), c)
  BY <1>1, <1>3, <1>5, RunsParts
<1>7. Runs(f, 0, a) /\ Runs(f, 0 + Len(a), b)
  BY <1>1, <1>6, RunsParts
<1>8. /\ 0 + Len(a) = x /\ 0 + Len(a \o b) = x + y
      /\ 0 + Len((a \o b) \o c) = x + y + z
      /\ Len(((a \o b) \o c) \o d) = x + y + z + w
      /\ x + y \in Nat /\ x + y + z \in Nat
  <2> HIDE DEF x, y, z, w
  <2>1. Len(a) = x /\ Len(b) = y /\ Len(c) = z /\ Len(d) = w
    BY DEF x, y, z, w
  <2> QED BY <1>3, <1>4, <2>1
<1>9. Runs(f, x, b) /\ Runs(f, x + y, c) /\ Runs(f, x + y + z, d)
  BY <1>5, <1>6, <1>7, <1>8
<1>10. /\ f[x].ub = AsLoaded.ub /\ f[x].hostMem = AsLoaded.hostMem
       /\ f[x].queue = Waiting(net, 0)
  BY <1>7, EarlyReadsRun DEF a
<1>11. LayerAt(net, cells, 1, 0, 0, f[x + y])
  <2> HIDE DEF x
  <2>1. LayerAt(net, cells, 1, 0, 0, f[x + Len(InputReads(net))])
    <3>1. Runs(f, x, InputReads(net))
      BY <1>9 DEF b
    <3> QED BY <1>4, <1>10, <3>1, InputReadsRun
  <2> QED BY <2>1 DEF b
<1>12. LayerAt(net, cells, N, O, 0, f[x + y + z])
  <2> DEFINE v == x + y
  <2>1. v \in Nat /\ Runs(f, v, LayersCode(net))
        /\ LayerAt(net, cells, 1, 0, 0, f[v])
    BY <1>8, <1>9, <1>11 DEF c
  <2> HIDE DEF v
  <2>2. LayerAt(net, cells, N, O, 0, f[v + Len(LayersCode(net))])
    BY <2>1, LayersRun
  <2> QED BY <2>2 DEF v, c
<1>13. Region(f[x + y + z + w].hostMem, ResultHostRow(net),
              Plans(net)[N].out_rows, O, cells[N])
  <2> DEFINE v == x + y + z
  <2>1. v \in Nat /\ Runs(f, v, ResultWrites(net))
        /\ LayerAt(net, cells, N, O, 0, f[v])
    BY <1>8, <1>9, <1>12 DEF d
  <2> HIDE DEF v
  <2>2. Region(f[v + Len(ResultWrites(net))].hostMem, ResultHostRow(net),
               Plans(net)[N].out_rows, O, cells[N])
    BY <2>1, ResultWritesRun
  <2> QED BY <2>2 DEF v, d
<1> HIDE DEF x, y, z, w
<1> QED BY <1>2, <1>8, <1>13

-----------------------------------------------------------------------------
(* The recursive functions of CompiledTpu are what their equations say.      *)

MadeOf(from) ==
  (({"act"} \X Functions
      \X Seq(from \X ({Zero} \cup ({"weight"} \X Nat \X Nat))))
     \cup ({"Max", "Average"} \X Seq(from)))
    \cup from

AreBytes(c, depth) ==
  c = [j \in 0 .. depth |-> IF j = 0 THEN {Zero} \cup ({"host"} \X Nat)
                            ELSE MadeOf(c[j - 1])]

LEMMA BytesExist ==
  ASSUME NEW depth \in Nat
  PROVE  \E c : AreBytes(c, depth)
<1> DEFINE Made(j, x) == IF j = 0 THEN {Zero} \cup ({"host"} \X Nat)
                         ELSE MadeOf(x)
           Is(c, m) == c = [j \in 0 .. m |-> Made(j, c[j - 1])]
           S == {m \in Nat : \E c : Is(c, m)}
<1>1. \A x, y : Made(0, x) = Made(0, y)
  OBVIOUS
<1>2. \A m \in Nat : \A c : Is(c, m) <=>
        /\ c = [j \in 0 .. m |-> c[j]]
        /\ \A j \in 0 .. m : c[j] = Made(j, c[j - 1])
  <2> HIDE DEF Made
  <2> QED OBVIOUS
<1> HIDE DEF Made, Is
<1>3. 0 \in S
  <2> DEFINE h == [j \in 0 .. 0 |-> Made(0, 0)]
  <2>1. /\ h = [j \in 0 .. 0 |-> h[j]] /\ h[0] = Made(0, 0)
        /\ \A j \in 0 .. 0 : j = 0
    OBVIOUS
  <2> HIDE DEF h
  <2>2. Is(h, 0)
    BY <1>1, <1>2, <2>1
  <2> QED BY <2>2
<1>4. ASSUME NEW m \in Nat, m \in S PROVE m + 1 \in S
  <2>1. PICK c : Is(c, m)
    BY <1>4
  <2> DEFINE h == [j \in 0 .. m + 1 |-> IF j = m + 1 THEN Made(j, c[m])
                                       ELSE c[j]]
  <2>2. /\ h = [j \in 0 .. m + 1 |-> h[j]] /\ h[m + 1] = Made(m + 1, c[m])
        /\ \A j \in 0 .. m : h[j] = c[j]
    OBVIOUS
  <2> HIDE DEF h
  <2>3. ASSUME NEW j \in 0 .. m + 1 PROVE h[j] = Made(j, h[j - 1])
    <3>1. CASE j = m + 1
      <4>1. j - 1 = m /\ m \in 0 .. m
        BY <3>1
      <4> QED BY <2>2, <3>1, <4>1
    <3>2. CASE j # m + 1
      <4>1. j \in 0 .. m /\ (j # 0 => j - 1 \in 0 .. m)
        BY <3>2
      <4>2. h[j] = Made(j, c[j - 1])
        BY <1>2, <2>1, <2>2, <4>1, ZenonT(60)
      <4> QED BY <1>1, <2>2, <4>1, <4>2
    <3> QED BY <3>1, <3>2
  <2>4. m + 1 \in Nat
    OBVIOUS
  <2>5. Is(h, m + 1)
    BY <1>2, <2>2, <2>3, <2>4
  <2> QED BY <2>5
<1> HIDE DEF S
<1>5. depth \in S
  BY <1>3, <1>4, Induction
<1> QED BY <1>5 DEF S, Is, Made, AreBytes

LEMMA BytesAre ==
  ASSUME NEW depth \in Nat
  PROVE  /\ Bytes(depth)[0] = {Zero} \cup ({"host"} \X Nat)
         /\ \A d \in 1 .. depth :
              Bytes(depth)[d] = MadeOf(Bytes(depth)[d - 1])
<1> DEFINE C == CHOOSE c : AreBytes(c, depth)
<1>1. Bytes(depth) = C
  BY DEF Bytes, AreBytes, MadeOf
<1>2. AreBytes(C, depth)
  BY BytesExist
<1> HIDE DEF C
<1>3. \A d \in 0 .. depth :
        C[d] = IF d = 0 THEN {Zero} \cup ({"host"} \X Nat) ELSE MadeOf(C[d - 1])
  BY <1>2 DEF AreBytes
<1>4. 0 \in 0 .. depth /\ \A d \in 1 .. depth : d \in 0 .. depth /\ d # 0
  OBVIOUS
<1> QED BY <1>1, <1>3, <1>4

(* One more product of a sum, unless its weight is padding.                  *)
RealOf(net, product, of, others) ==
  LET weight == WeightOf(net, product[2])
  IN  IF weight = Zero THEN others
      ELSE Append(others, <<of[product[1]], weight>>)

AreProducts(c, net, sum, of, m) ==
  c = [j \in 0 .. m |-> IF j = 0 THEN << >>
                        ELSE RealOf(net, sum[j], of, c[j - 1])]

LEMMA ProductsExist ==
  ASSUME NEW net, NEW sum, NEW of, NEW n \in Nat
  PROVE  \E c : AreProducts(c, net, sum, of, n)
<1> DEFINE Made(j, x) == IF j = 0 THEN << >>
                         ELSE RealOf(net, sum[j], of, x)
           Is(c, m) == c = [j \in 0 .. m |-> Made(j, c[j - 1])]
           S == {m \in Nat : \E c : Is(c, m)}
<1>1. \A x, y : Made(0, x) = Made(0, y)
  OBVIOUS
<1>2. \A m \in Nat : \A c : Is(c, m) <=>
        /\ c = [j \in 0 .. m |-> c[j]]
        /\ \A j \in 0 .. m : c[j] = Made(j, c[j - 1])
  <2> HIDE DEF Made
  <2> QED OBVIOUS
<1> HIDE DEF Made, Is
<1>3. 0 \in S
  <2> DEFINE h == [j \in 0 .. 0 |-> Made(0, 0)]
  <2>1. /\ h = [j \in 0 .. 0 |-> h[j]] /\ h[0] = Made(0, 0)
        /\ \A j \in 0 .. 0 : j = 0
    OBVIOUS
  <2> HIDE DEF h
  <2>2. Is(h, 0)
    BY <1>1, <1>2, <2>1
  <2> QED BY <2>2
<1>4. ASSUME NEW m \in Nat, m \in S PROVE m + 1 \in S
  <2>1. PICK c : Is(c, m)
    BY <1>4
  <2> DEFINE h == [j \in 0 .. m + 1 |-> IF j = m + 1 THEN Made(j, c[m])
                                       ELSE c[j]]
  <2>2. /\ h = [j \in 0 .. m + 1 |-> h[j]] /\ h[m + 1] = Made(m + 1, c[m])
        /\ \A j \in 0 .. m : h[j] = c[j]
    OBVIOUS
  <2> HIDE DEF h
  <2>3. ASSUME NEW j \in 0 .. m + 1 PROVE h[j] = Made(j, h[j - 1])
    <3>1. CASE j = m + 1
      <4>1. j - 1 = m /\ m \in 0 .. m
        BY <3>1
      <4> QED BY <2>2, <3>1, <4>1
    <3>2. CASE j # m + 1
      <4>1. j \in 0 .. m /\ (j # 0 => j - 1 \in 0 .. m)
        BY <3>2
      <4>2. h[j] = Made(j, c[j - 1])
        BY <1>2, <2>1, <2>2, <4>1, ZenonT(60)
      <4> QED BY <1>1, <2>2, <4>1, <4>2
    <3> QED BY <3>1, <3>2
  <2>4. m + 1 \in Nat
    OBVIOUS
  <2>5. Is(h, m + 1)
    BY <1>2, <2>2, <2>3, <2>4
  <2> QED BY <2>5
<1> HIDE DEF S
<1>5. n \in S
  BY <1>3, <1>4, Induction
<1> QED BY <1>5 DEF S, Is, Made, AreProducts

LEMMA ProductsAre ==
  ASSUME NEW net, NEW sum, NEW of, Len(sum) \in Nat
  PROVE  \E c : /\ c[0] = << >> /\ RealProducts(net, sum, of) = c[Len(sum)]
                /\ \A j \in 1 .. Len(sum) :
                     c[j] = RealOf(net, sum[j], of, c[j - 1])
<1> DEFINE n == Len(sum)
           C == CHOOSE c : AreProducts(c, net, sum, of, n)
<1>1. RealProducts(net, sum, of) = C[n]
  BY DEF RealProducts, AreProducts, RealOf
<1> HIDE DEF n
<1>2. n \in Nat
  BY DEF n
<1>3. AreProducts(C, net, sum, of, n)
  BY <1>2, ProductsExist
<1> HIDE DEF C
<1>4. \A j \in 0 .. n : C[j] = IF j = 0 THEN << >>
                              ELSE RealOf(net, sum[j], of, C[j - 1])
  BY <1>3 DEF AreProducts
<1>5. 0 \in 0 .. n /\ \A j \in 1 .. n : j \in 0 .. n /\ j # 0
  BY <1>2
<1>6. /\ C[0] = << >> /\ RealProducts(net, sum, of) = C[n]
      /\ \A j \in 1 .. n : C[j] = RealOf(net, sum[j], of, C[j - 1])
  BY <1>1, <1>4, <1>5
<1> QED BY <1>6 DEF n

AreMeanings(c, net, depth) ==
  c = [j \in 0 .. depth |->
         [t \in Bytes(depth)[j] |-> MeansOf(net, t, c[j - 1])]]

LEMMA MeansAtFirst ==
  ASSUME NEW net, NEW depth \in Nat, NEW t \in Bytes(depth)[0], NEW x, NEW y
  PROVE  MeansOf(net, t, x) = MeansOf(net, t, y)
<1>1. t = Zero \/ t[1] = "host"
  BY BytesAre
<1>2. Zero[1] = "zero"
  BY DEF Zero
<1> QED BY <1>1, <1>2 DEF MeansOf

LEMMA MeaningsExist ==
  ASSUME NEW net, NEW depth \in Nat
  PROVE  \E c : AreMeanings(c, net, depth)
<1> DEFINE Made(j, x) == [t \in Bytes(depth)[j] |-> MeansOf(net, t, x)]
           Is(c, m) == c = [j \in 0 .. m |-> Made(j, c[j - 1])]
           S == {m \in Nat : \E c : Is(c, m)}
<1>1. \A x, y : Made(0, x) = Made(0, y)
  BY MeansAtFirst
<1>2. \A m \in Nat : \A c : Is(c, m) <=>
        /\ c = [j \in 0 .. m |-> c[j]]
        /\ \A j \in 0 .. m : c[j] = Made(j, c[j - 1])
  <2> HIDE DEF Made
  <2> QED OBVIOUS
<1> HIDE DEF Made, Is
<1>3. 0 \in S
  <2> DEFINE h == [j \in 0 .. 0 |-> Made(0, 0)]
  <2>1. /\ h = [j \in 0 .. 0 |-> h[j]] /\ h[0] = Made(0, 0)
        /\ \A j \in 0 .. 0 : j = 0
    OBVIOUS
  <2> HIDE DEF h
  <2>2. Is(h, 0)
    BY <1>1, <1>2, <2>1
  <2> QED BY <2>2
<1>4. ASSUME NEW m \in Nat, m \in S PROVE m + 1 \in S
  <2>1. PICK c : Is(c, m)
    BY <1>4
  <2> DEFINE h == [j \in 0 .. m + 1 |-> IF j = m + 1 THEN Made(j, c[m])
                                       ELSE c[j]]
  <2>2. /\ h = [j \in 0 .. m + 1 |-> h[j]] /\ h[m + 1] = Made(m + 1, c[m])
        /\ \A j \in 0 .. m : h[j] = c[j]
    OBVIOUS
  <2> HIDE DEF h
  <2>3. ASSUME NEW j \in 0 .. m + 1 PROVE h[j] = Made(j, h[j - 1])
    <3>1. CASE j = m + 1
      <4>1. j - 1 = m /\ m \in 0 .. m
        BY <3>1
      <4> QED BY <2>2, <3>1, <4>1
    <3>2. CASE j # m + 1
      <4>1. j \in 0 .. m /\ (j # 0 => j - 1 \in 0 .. m)
        BY <3>2
      <4>2. h[j] = Made(j, c[j - 1])
        BY <1>2, <2>1, <2>2, <4>1, ZenonT(60)
      <4> QED BY <1>1, <2>2, <4>1, <4>2
    <3> QED BY <3>1, <3>2
  <2>4. m + 1 \in Nat
    OBVIOUS
  <2>5. Is(h, m + 1)
    BY <1>2, <2>2, <2>3, <2>4
  <2> QED BY <2>5
<1> HIDE DEF S
<1>5. depth \in S
  BY <1>3, <1>4, Induction
<1> QED BY <1>5 DEF S, Is, Made, AreMeanings

LEMMA MeaningsAre ==
  ASSUME NEW net, NEW depth \in Nat, NEW d \in 0 .. depth,
         NEW t \in Bytes(depth)[d]
  PROVE  Denotations(net, depth)[d][t]
           = MeansOf(net, t, Denotations(net, depth)[d - 1])
<1> DEFINE C == CHOOSE c : AreMeanings(c, net, depth)
<1>1. Denotations(net, depth) = C
  BY DEF Denotations, AreMeanings
<1>2. AreMeanings(C, net, depth)
  BY MeaningsExist
<1> HIDE DEF C
<1>3. C[d] = [u \in Bytes(depth)[d] |-> MeansOf(net, u, C[d - 1])]
  BY <1>2 DEF AreMeanings
<1> QED BY <1>1, <1>3

(* Layer i of the reference, from what is below it.                          *)
RefValue(net, i, below, p, col) ==
  Activated(net.layers[i].function,
            [k \in 1 .. net.layers[i].rows |->
               <<below[<<p, k - 1>>], Weight(i, k - 1, col)>>])

RefLayer(net, i, below) ==
  [at \in Nat \X Nat |->
     LET value(p) == RefValue(net, i, below, p, at[2])
     IN  Pooled(net.layers[i], net.layers[i].pool_width, at[1], value)]

AreRefCells(c, net, n) ==
  c = [j \in 0 .. n |-> IF j = 0 THEN net.cell
                        ELSE RefLayer(net, j, c[j - 1])]

LEMMA RefCellsExist ==
  ASSUME NEW net, NEW n \in Nat
  PROVE  \E c : AreRefCells(c, net, n)
<1> DEFINE Made(j, x) == IF j = 0 THEN net.cell ELSE RefLayer(net, j, x)
           Is(c, m) == c = [j \in 0 .. m |-> Made(j, c[j - 1])]
           S == {m \in Nat : \E c : Is(c, m)}
<1>1. \A x, y : Made(0, x) = Made(0, y)
  OBVIOUS
<1>2. \A m \in Nat : \A c : Is(c, m) <=>
        /\ c = [j \in 0 .. m |-> c[j]]
        /\ \A j \in 0 .. m : c[j] = Made(j, c[j - 1])
  <2> HIDE DEF Made
  <2> QED OBVIOUS
<1> HIDE DEF Made, Is
<1>3. 0 \in S
  <2> DEFINE h == [j \in 0 .. 0 |-> Made(0, 0)]
  <2>1. /\ h = [j \in 0 .. 0 |-> h[j]] /\ h[0] = Made(0, 0)
        /\ \A j \in 0 .. 0 : j = 0
    OBVIOUS
  <2> HIDE DEF h
  <2>2. Is(h, 0)
    BY <1>1, <1>2, <2>1
  <2> QED BY <2>2
<1>4. ASSUME NEW m \in Nat, m \in S PROVE m + 1 \in S
  <2>1. PICK c : Is(c, m)
    BY <1>4
  <2> DEFINE h == [j \in 0 .. m + 1 |-> IF j = m + 1 THEN Made(j, c[m])
                                       ELSE c[j]]
  <2>2. /\ h = [j \in 0 .. m + 1 |-> h[j]] /\ h[m + 1] = Made(m + 1, c[m])
        /\ \A j \in 0 .. m : h[j] = c[j]
    OBVIOUS
  <2> HIDE DEF h
  <2>3. ASSUME NEW j \in 0 .. m + 1 PROVE h[j] = Made(j, h[j - 1])
    <3>1. CASE j = m + 1
      <4>1. j - 1 = m /\ m \in 0 .. m
        BY <3>1
      <4> QED BY <2>2, <3>1, <4>1
    <3>2. CASE j # m + 1
      <4>1. j \in 0 .. m /\ (j # 0 => j - 1 \in 0 .. m)
        BY <3>2
      <4>2. h[j] = Made(j, c[j - 1])
        BY <1>2, <2>1, <2>2, <4>1, ZenonT(60)
      <4> QED BY <1>1, <2>2, <4>1, <4>2
    <3> QED BY <3>1, <3>2
  <2>4. m + 1 \in Nat
    OBVIOUS
  <2>5. Is(h, m + 1)
    BY <1>2, <2>2, <2>3, <2>4
  <2> QED BY <2>5
<1> HIDE DEF S
<1>5. n \in S
  BY <1>3, <1>4, Induction
<1> QED BY <1>5 DEF S, Is, Made, AreRefCells

LEMMA RefCellsAre ==
  ASSUME NEW net, Len(net.layers) \in Nat
  PROVE  /\ RefCells(net)[0] = net.cell
         /\ \A i \in 1 .. Len(net.layers) :
              RefCells(net)[i] = RefLayer(net, i, RefCells(net)[i - 1])
<1> DEFINE n == Len(net.layers)
           C == CHOOSE c : AreRefCells(c, net, n)
<1>1. RefCells(net) = C
  BY DEF RefCells, AreRefCells, RefLayer, RefValue
<1> HIDE DEF n
<1>2. n \in Nat
  BY DEF n
<1>3. AreRefCells(C, net, n)
  BY <1>2, RefCellsExist
<1> HIDE DEF C
<1>4. \A i \in 0 .. n : C[i] = IF i = 0 THEN net.cell
                              ELSE RefLayer(net, i, C[i - 1])
  BY <1>3 DEF AreRefCells
<1>5. 0 \in 0 .. n /\ \A i \in 1 .. n : i \in 0 .. n /\ i # 0
  BY <1>2
<1> QED BY <1>1, <1>4, <1>5 DEF n

-----------------------------------------------------------------------------
(* What a byte of the machine means                                          *)

(* The padding of a sum is all after its first n products.                   *)
PaddedAfter(net, sum, n) ==
  \A j \in 1 .. Len(sum) : WeightOf(net, sum[j][2]) = Zero <=> j > n

FirstProducts(net, sum, of, n) ==
  [j \in 1 .. n |-> <<of[sum[j][1]], WeightOf(net, sum[j][2])>>]

LEMMA RealProductsAre ==
  ASSUME NEW net, NEW sum, NEW of, NEW n \in Nat, Len(sum) \in Nat,
         n <= Len(sum),
         PaddedAfter(net, sum, n)
  PROVE  RealProducts(net, sum, of) = FirstProducts(net, sum, of, n)
<1> DEFINE m == Len(sum)
           F(j) == <<of[sum[j][1]], WeightOf(net, sum[j][2])>>
           Q(k) == [j \in 1 .. k |-> F(j)]
           T == {F(j) : j \in 1 .. n}
<1>1. PICK c : /\ c[0] = << >> /\ RealProducts(net, sum, of) = c[m]
               /\ \A j \in 1 .. m : c[j] = RealOf(net, sum[j], of, c[j - 1])
  BY ProductsAre
<1>2. \A j \in 1 .. m :
        c[j] = IF j > n THEN c[j - 1] ELSE Append(c[j - 1], F(j))
  BY <1>1 DEF RealOf, PaddedAfter
<1>3. m \in Nat /\ n \in Nat /\ n <= m
  OBVIOUS
<1> HIDE DEF m, F
<1> DEFINE S == {k \in Nat : /\ k <= n => c[k] = Q(k)
                             /\ n < k /\ k <= m => c[k] = Q(n)}
<1>4. 0 \in S
  <2>1. Q(0) = << >>
    OBVIOUS
  <2>2. ~(n < 0)
    BY <1>3
  <2> HIDE DEF Q
  <2> QED BY <1>1, <2>1, <2>2
<1>5. ASSUME NEW k \in Nat, k + 1 <= n PROVE Append(Q(k), F(k + 1)) = Q(k + 1)
  <2> DEFINE q == Q(k)
             x == F(k + 1)
             r == Append(q, x)
  <2>1. q \in [1 .. k -> T] /\ x \in T /\ \A j \in 1 .. k : q[j] = F(j)
    <3>1. k + 1 \in 1 .. n /\ \A j \in 1 .. k : j \in 1 .. n
      BY <1>3, <1>5
    <3>2. x \in T /\ \A j \in 1 .. k : F(j) \in T
      BY <3>1
    <3> HIDE DEF T
    <3> QED BY <3>2
  <2> HIDE DEF q, T
  <2>2. \A i \in Nat : [1 .. i -> T] \subseteq Seq(T)
    BY ONLY TRUE
  <2>3. q \in Seq(T) /\ Len(q) = k
    BY <2>1, <2>2, LenProperties
  <2>4. /\ r \in Seq(T) /\ Len(r) = k + 1 /\ r[k + 1] = x
        /\ \A j \in 1 .. k : r[j] = q[j]
    <3> HIDE DEF x
    <3> QED BY <2>1, <2>3, AppendProperties
  <2> HIDE DEF r
  <2>5. \A j \in 1 .. k + 1 : r[j] = F(j)
    BY <2>1, <2>4
  <2>6. r = [j \in 1 .. k + 1 |-> r[j]]
    BY <2>4, LenProperties
  <2>7. r = [j \in 1 .. k + 1 |-> F(j)]
    BY <2>5, <2>6
  <2> QED BY <2>7 DEF r, q
<1> HIDE DEF Q
<1>6. ASSUME NEW k \in Nat, k \in S PROVE k + 1 \in S
  <2> SUFFICES ASSUME k + 1 <= m
               PROVE  /\ k + 1 <= n => c[k + 1] = Q(k + 1)
                      /\ n < k + 1 => c[k + 1] = Q(n)
    BY <1>3
  <2>1. k + 1 \in 1 .. m /\ (k + 1) - 1 = k
    BY <1>3
  <2>2. c[k + 1] = IF k + 1 > n THEN c[k] ELSE Append(c[k], F(k + 1))
    BY <1>2, <2>1
  <2>3. CASE k + 1 <= n
    <3>1. c[k] = Q(k) /\ ~(k + 1 > n) /\ ~(n < k + 1)
      BY <1>3, <1>6, <2>3
    <3>2. c[k + 1] = Q(k + 1)
      BY <1>5, <2>2, <2>3, <3>1
    <3> QED BY <3>1, <3>2
  <2>4. CASE ~(k + 1 <= n)
    <3>1. k + 1 > n /\ k <= m /\ (k = n \/ n < k)
      BY <1>3, <2>4
    <3>2. c[k] = Q(n)
      BY <1>3, <1>6, <3>1
    <3> QED BY <2>2, <2>4, <3>1, <3>2
  <2> QED BY <2>3, <2>4
<1> HIDE DEF S
<1>7. m \in S
  BY <1>3, <1>4, <1>6, Induction
<1>8. c[m] = Q(n)
  BY <1>3, <1>7 DEF S
<1> QED BY <1>1, <1>8 DEF Q, F, FirstProducts

(* Bytes, by what they are made of.                                          *)
LEMMA MadeBytes ==
  ASSUME NEW depth \in Nat, NEW d \in 1 .. depth
  PROVE  LET from == Bytes(depth)[d - 1]
             now  == Bytes(depth)[d]
         IN  /\ \A t \in from : t \in now
             /\ \A f \in Functions :
                  \A s \in Seq(from \X ({Zero} \cup
                                        ({"weight"} \X Nat \X Nat))) :
                    Activated(f, s) \in now
             /\ \A p \in {"Max", "Average"} : \A s \in Seq(from) :
                  <<p, s>> \in now
<1>1. Bytes(depth)[d] = MadeOf(Bytes(depth)[d - 1])
  BY BytesAre
<1> DEFINE from == Bytes(depth)[d - 1]
           now  == Bytes(depth)[d]
           sums == Seq(from \X ({Zero} \cup ({"weight"} \X Nat \X Nat)))
<1>2. now = (({"act"} \X Functions \X sums)
               \cup ({"Max", "Average"} \X Seq(from))) \cup from
  BY <1>1 DEF MadeOf
<1> HIDE DEF now, from, sums
<1>3. /\ \A t \in from : t \in now
      /\ \A f \in Functions : \A s \in sums : Activated(f, s) \in now
      /\ \A p \in {"Max", "Average"} : \A s \in Seq(from) : <<p, s>> \in now
  BY <1>2 DEF Activated
<1> QED BY <1>3 DEF now, from, sums

LEMMA HostBytes ==
  ASSUME NEW depth \in Nat, NEW a \in Nat
  PROVE  \A d \in 0 .. depth : <<"host", a>> \in Bytes(depth)[d]
<1> DEFINE t == <<"host", a>>
           S == {d \in Nat : d <= depth => t \in Bytes(depth)[d]}
<1>1. 0 \in S
  BY BytesAre
<1>2. ASSUME NEW d \in Nat, d \in S PROVE d + 1 \in S
  <2> SUFFICES ASSUME d + 1 <= depth PROVE t \in Bytes(depth)[d + 1]
    OBVIOUS
  <2>1. d + 1 \in 1 .. depth /\ (d + 1) - 1 = d
    OBVIOUS
  <2>2. t \in Bytes(depth)[d]
    BY <1>2, <2>1
  <2> HIDE DEF t
  <2>3. \A x \in Bytes(depth)[(d + 1) - 1] : x \in Bytes(depth)[d + 1]
    BY ONLY <2>1, depth \in Nat, MadeBytes
  <2> QED BY <2>1, <2>2, <2>3
<1> HIDE DEF S, t
<1>3. Nat \subseteq S
  BY <1>1, <1>2, Induction
<1> QED BY <1>3 DEF S, t

LEMMA MeaningsOf ==
  ASSUME NEW net, NEW of, NEW s
  PROVE  /\ MeansOf(net, <<"host", s>>, of) = HostByte(net, s)
         /\ \A f : MeansOf(net, Activated(f, s), of)
                   = Activated(f, RealProducts(net, s, of))
         /\ \A p \in {"Max", "Average"} :
              MeansOf(net, <<p, s>>, of)
                = <<p, [j \in DOMAIN s |-> of[s[j]]]>>
BY DEF MeansOf, Activated

BlocksOf(net, i) ==
  IF i = 0 THEN BlockCount(net.cols) ELSE Plans(net)[i].out_blocks
RowsOf(net, i) == IF i = 0 THEN net.rows ELSE Plans(net)[i].out_rows
ColsOf(net, i) == IF i = 0 THEN net.cols ELSE net.layers[i].cols

(* Layer i of the machine is made of bytes that mean layer i of the          *)
(* reference.                                                                *)
CellsMean(net, cells, depth, i, d) ==
  \A b \in 0 .. BlocksOf(net, i) - 1, r \in 0 .. RowsOf(net, i) - 1,
     n \in Cols :
    /\ cells[i][<<b, r, n>>] \in Bytes(depth)[d]
    /\ b * Dim + n < ColsOf(net, i) =>
         Denotations(net, depth)[d][cells[i][<<b, r, n>>]]
           = RefCells(net)[i][<<r, b * Dim + n>>]

LEMMA InputsAre ==
  ASSUME NEW net, Accepted(net), NEW i \in 1 .. Len(net.layers)
  PROVE  /\ BlocksOf(net, i - 1) = Plans(net)[i].in_blocks
         /\ RowsOf(net, i - 1) = Plans(net)[i].in_rows
         /\ ColsOf(net, i - 1) = net.layers[i].rows
         /\ net.layers[i].rows \in Nat /\ net.layers[i].cols \in Nat
         /\ net.layers[i].rows <= Plans(net)[i].in_blocks * Dim
<1> DEFINE plan == Plans(net)[i]
           layer == net.layers[i]
<1>1. layer.rows \in Nat /\ layer.cols \in Nat
  BY LayerIs DEF Layers
<1>2. plan.in_blocks = BlockCount(layer.rows)
  BY LayerIs
<1>3. layer.rows <= plan.in_blocks * Dim
  BY <1>1, <1>2, BlockCountIs
<1>4. CASE i = 1
  <2>1. i - 1 = 0
    BY <1>4
  <2> QED BY <1>1, <1>3, <1>4, <2>1, LayerIs DEF BlocksOf, RowsOf, ColsOf
<1>5. CASE i # 1
  <2>1. i - 1 # 0 /\ i > 1
    BY <1>5
  <2> QED BY <1>1, <1>3, <2>1, LayerIs DEF BlocksOf, RowsOf, ColsOf
<1> QED BY <1>4, <1>5

(* A sum of the machine, activated.                                          *)
LEMMA ValueMeans ==
  ASSUME NEW net, Accepted(net), NEW cells, NEW depth \in Nat,
         NEW i \in 1 .. Len(net.layers), NEW d \in 1 .. depth,
         CellsMean(net, cells, depth, i - 1, d - 1),
         NEW nb \in 0 .. Plans(net)[i].out_blocks - 1,
         NEW p \in 0 .. Plans(net)[i].in_rows - 1, NEW n \in Cols
  PROVE  LET v   == Activated(net.layers[i].function,
                      ProductsOf(net, i, cells[i - 1], nb, p, n,
                                 Plans(net)[i].in_blocks))
             col == nb * Dim + n
         IN  /\ v \in Bytes(depth)[d]
             /\ col < net.layers[i].cols =>
                  Denotations(net, depth)[d][v]
                    = RefValue(net, i, RefCells(net)[i - 1], p, col)
<1> DEFINE layer == net.layers[i]
           plan  == Plans(net)[i]
           below == cells[i - 1]
           ref   == RefCells(net)[i - 1]
           of    == Denotations(net, depth)[d - 1]
           from  == Bytes(depth)[d - 1]
           sum   == ProductsOf(net, i, below, nb, p, n, plan.in_blocks)
           v     == Activated(layer.function, sum)
           col   == nb * Dim + n
           z     == Dim
           M     == plan.in_blocks * z
           q(k)  == (k - 1) \div z
           s(k)  == (k - 1) % z
           tile(k) == TileAt(Plans(net), i, nb, q(k))
           A(k)  == below[<<q(k), p, s(k)>>]
           W(k)  == <<"weight", tile(k), s(k) * z + n>>
           weights == {Zero} \cup ({"weight"} \X Nat \X Nat)
<1>1. /\ plan.in_blocks \in Nat /\ z \in Nat \ {0} /\ M \in Nat
      /\ layer.rows \in Nat /\ layer.rows <= M /\ n \in Nat
      /\ Cols = 0 .. z - 1
  <2>1. plan.in_blocks \in Nat /\ z \in Nat \ {0} /\ n \in Nat
        /\ Cols = 0 .. z - 1
    BY Shape, MemoryAssumption, SMTT(30) DEF Cols
  <2> QED BY <2>1, ProductNat, InputsAre
<1>2. sum = [k \in 1 .. M |-> <<A(k), W(k)>>]
  BY DEF ProductsOf
<1>3. ASSUME NEW k \in 1 .. M
      PROVE  /\ q(k) \in 0 .. plan.in_blocks - 1 /\ s(k) \in 0 .. z - 1
             /\ q(k) * z + s(k) = k - 1
  <2> DEFINE x == plan.in_blocks
  <2>1. k - 1 \in 0 .. x * z - 1 /\ x \in Nat /\ z \in Nat /\ z > 0
    <3> HIDE DEF z, x
    <3>1. M \in Nat /\ x \in Nat /\ z \in Nat \ {0}
      BY <1>1 DEF x
    <3>2. M = x * z
      BY DEF x
    <3> HIDE DEF M
    <3> QED BY <3>1, <3>2
  <2> HIDE DEF z, x, M
  <2> QED BY ONLY <2>1, BlockOf DEF x
<1> HIDE DEF M, q, s
<1>4. ASSUME NEW k \in 1 .. M
      PROVE  /\ A(k) \in from
             /\ q(k) * z + s(k) < layer.rows => of[A(k)] = ref[<<p, k - 1>>]
  <2>1. q(k) \in 0 .. BlocksOf(net, i - 1) - 1
        /\ p \in 0 .. RowsOf(net, i - 1) - 1 /\ s(k) \in Cols
        /\ ColsOf(net, i - 1) = layer.rows
    BY <1>1, <1>3, InputsAre
  <2>2. /\ A(k) \in from
        /\ q(k) * z + s(k) < ColsOf(net, i - 1) =>
             of[A(k)] = ref[<<p, q(k) * z + s(k)>>]
    BY <2>1 DEF CellsMean
  <2> QED BY <1>3, <2>1, <2>2
<1>5. ASSUME NEW k \in 1 .. M
      PROVE  /\ W(k) \in weights
             /\ WeightOf(net, W(k))
                  = IF k - 1 < layer.rows /\ col < layer.cols
                    THEN Weight(i, k - 1, col) ELSE Zero
  <2>1. tile(k) \in Nat /\ s(k) * z + n \in Nat
    <3>1. tile(k) \in 0 .. TilesTotal(Plans(net)) - 1
      BY <1>3, TileIs
    <3>2. s(k) * z \in Nat
      BY <1>1, <1>3, ProductNat, SMTT(30)
    <3> HIDE DEF z
    <3> QED BY <1>1, <3>1, <3>2, SMTT(30)
  <2>2. W(k) \in weights
    <3> HIDE DEF tile, z
    <3> QED BY <2>1
  <2>3. WeightByte(net, tile(k), s(k) * z + n)
          = IF q(k) * z + s(k) < layer.rows /\ col < layer.cols
            THEN <<"w", i, q(k) * z + s(k), col>> ELSE Zero
    <3>1. s(k) \in Cols
      BY <1>1, <1>3
    <3> QED BY <1>3, <3>1, WeightByteIs
  <2>4. WeightOf(net, W(k)) = WeightByte(net, tile(k), s(k) * z + n)
    BY DEF WeightOf, Zero
  <2> QED BY <1>3, <2>2, <2>3, <2>4 DEF Weight
<1> HIDE DEF A, W, of, ref, from, weights, col
<1>6. sum \in Seq(from \X weights) /\ Len(sum) = M
      /\ \A k \in 1 .. M : sum[k] = <<A(k), W(k)>>
  <2>1. \A k \in 1 .. M : <<A(k), W(k)>> \in from \X weights
    BY <1>4, <1>5
  <2> HIDE DEF sum
  <2>2. sum \in [1 .. M -> from \X weights]
    BY <1>2, <2>1
  <2>3. \A j \in Nat :
          [1 .. j -> from \X weights] \subseteq Seq(from \X weights)
    BY ONLY TRUE
  <2>4. sum \in Seq(from \X weights)
    BY <1>1, <2>2, <2>3
  <2> QED BY <1>1, <1>2, <2>2, <2>4, LenProperties
<1> HIDE DEF sum
<1>7. v \in Bytes(depth)[d]
  <2>1. layer.function \in Functions
    BY LayerIs DEF Layers
  <2> QED BY <1>6, <2>1, MadeBytes DEF from, weights
<1>8. ASSUME col < layer.cols
      PROVE  Denotations(net, depth)[d][v] = RefValue(net, i, ref, p, col)
  <2> DEFINE R == RealProducts(net, sum, of)
             rows == layer.rows
  <2>1. Denotations(net, depth)[d][v] = Activated(layer.function, R)
    <3>1. d \in 0 .. depth
      OBVIOUS
    <3>2. Denotations(net, depth)[d][v] = MeansOf(net, v, of)
      BY <1>7, <3>1, MeaningsAre DEF of
    <3> QED BY <3>2, MeaningsOf, ZenonT(60)
  <2>2. PaddedAfter(net, sum, rows)
    <3> SUFFICES ASSUME NEW k \in 1 .. M
                 PROVE  WeightOf(net, W(k)) = Zero <=> k > rows
      BY <1>6 DEF PaddedAfter
    <3>1. Weight(i, k - 1, col) # Zero
      BY DEF Weight, Zero
    <3>2. k - 1 < rows <=> ~(k > rows)
      BY <1>1
    <3> QED BY <1>5, <1>8, <3>1, <3>2
  <2>3. R = [j \in 1 .. rows |->
               <<of[sum[j][1]], WeightOf(net, sum[j][2])>>]
    <3>1. rows \in Nat /\ Len(sum) \in Nat /\ rows <= Len(sum)
      BY <1>1, <1>6
    <3> HIDE DEF rows
    <3>2. R = FirstProducts(net, sum, of, rows)
      BY ONLY <2>2, <3>1, RealProductsAre
    <3> QED BY <3>2 DEF FirstProducts
  <2>4. ASSUME NEW j \in 1 .. rows
        PROVE  <<of[sum[j][1]], WeightOf(net, sum[j][2])>>
                 = <<ref[<<p, j - 1>>], Weight(i, j - 1, col)>>
    <3>1. j \in 1 .. M /\ j - 1 < rows
      BY <1>1, SMTT(30)
    <3>2. sum[j] = <<A(j), W(j)>>
      BY <1>6, <3>1
    <3>3. q(j) * z + s(j) < rows
      BY <1>3, <3>1
    <3> QED BY <1>4, <1>5, <1>8, <3>1, <3>2, <3>3
  <2>5. R = [j \in 1 .. rows |-> <<ref[<<p, j - 1>>], Weight(i, j - 1, col)>>]
    <3> HIDE DEF R, rows
    <3> QED BY <2>3, <2>4
  <2> QED BY <2>1, <2>5 DEF RefValue
<1> QED BY <1>7, <1>8 DEF v, sum, col, ref

(* A pooled row is a window of the layer's rows.                             *)
LEMMA WindowRows ==
  ASSUME NEW net, Accepted(net), NEW i \in 1 .. Len(net.layers),
         HasPool(net.layers[i]), NEW o \in 0 .. Plans(net)[i].out_rows - 1
  PROVE  LET layer == net.layers[i]
             w     == Window(o, layer.pool_size, layer.pool_width)
         IN  /\ layer.pool_size * layer.pool_size \in Nat
             /\ DOMAIN w = 1 .. layer.pool_size * layer.pool_size
             /\ \A j \in DOMAIN w : w[j] \in 0 .. Plans(net)[i].in_rows - 1
<1> DEFINE layer == net.layers[i]
           rows  == Plans(net)[i].in_rows
           out   == Plans(net)[i].out_rows
           z == layer.pool_size
           v == layer.pool_width
<1>1. /\ out = ActivateOutputRows(rows, layer.pool, z)
      /\ ActShape(z, v, rows) /\ rows \in Nat /\ out \in Nat
      /\ layer.pool # "None" /\ z \in Nat
  <2>1. layer \in Layers
    BY LayerIs
  <2> QED BY <2>1, LayerIs, Shape DEF HasPool, Layers
<1>2. o \in 0 .. out - 1
  OBVIOUS
<1> HIDE DEF layer, rows, out, z, v
<1>3. o \in Nat /\ o < PooledRows(rows, z)
  <2>1. z # 0
    BY <1>1 DEF ActShape
  <2>2. out = PooledRows(rows, z)
    BY <1>1, <2>1 DEF ActivateOutputRows, PooledRows
  <2> QED BY <1>1, <1>2, <2>2
<1>4. /\ DOMAIN Window(o, z, v) = 1 .. z * z
      /\ \A j \in 1 .. z * z :
           Window(o, z, v)[j]
             = Pixel(o \div PerBand(z, v), o % PerBand(z, v), j, z, v)
  BY DEF Window, Pixel, PerBand
<1>5. \A j \in 1 .. z * z :
        Pixel(o \div PerBand(z, v), o % PerBand(z, v), j, z, v)
          \in 0 .. rows - 1
  BY <1>1, <1>3, PixelInRange
<1>6. z * z \in Nat
  BY <1>1, ProductNat
<1>7. \A j \in DOMAIN Window(o, z, v) : Window(o, z, v)[j] \in 0 .. rows - 1
  BY <1>4, <1>5
<1> QED BY <1>4, <1>6, <1>7 DEF z, v, layer, rows

LEMMA RefLayerAt ==
  ASSUME NEW net, NEW i, NEW below, NEW o \in Nat, NEW col \in Nat
  PROVE  RefLayer(net, i, below)[<<o, col>>]
           = LET layer == net.layers[i]
                 w     == Window(o, layer.pool_size, layer.pool_width)
             IN  IF layer.pool = "None" THEN RefValue(net, i, below, o, col)
                 ELSE <<layer.pool, [j \in DOMAIN w |->
                          RefValue(net, i, below, w[j], col)]>>
BY DEF RefLayer, Pooled

LEMMA LayerMeans ==
  ASSUME NEW net, Accepted(net), NEW cells, IsCells(cells, net),
         NEW depth \in Nat, NEW i \in 1 .. Len(net.layers), NEW d \in Nat,
         d + 2 <= depth, CellsMean(net, cells, depth, i - 1, d),
         CellsMean(net, cells, depth, i - 1, d + 1)
  PROVE  CellsMean(net, cells, depth, i, d + 2)
<1> SUFFICES ASSUME NEW nb \in 0 .. BlocksOf(net, i) - 1,
                    NEW o \in 0 .. RowsOf(net, i) - 1, NEW n \in Cols
             PROVE  /\ cells[i][<<nb, o, n>>] \in Bytes(depth)[d + 2]
                    /\ nb * Dim + n < ColsOf(net, i) =>
                         Denotations(net, depth)[d + 2][cells[i][<<nb, o, n>>]]
                           = RefCells(net)[i][<<o, nb * Dim + n>>]
  BY DEF CellsMean
<1> DEFINE layer == net.layers[i]
           plan  == Plans(net)[i]
           below == cells[i - 1]
           ref   == RefCells(net)[i - 1]
           col   == nb * Dim + n
           V(p)  == Activated(layer.function,
                      ProductsOf(net, i, below, nb, p, n, plan.in_blocks))
           R(p)  == RefValue(net, i, ref, p, col)
           w     == Window(o, layer.pool_size, layer.pool_width)
           B     == Bytes(depth)
           M     == Denotations(net, depth)
           t     == cells[i][<<nb, o, n>>]
           u     == RefCells(net)[i][<<o, col>>]
<1>1. /\ nb \in 0 .. plan.out_blocks - 1 /\ o \in 0 .. plan.out_rows - 1
      /\ ColsOf(net, i) = layer.cols /\ i # 0
  BY DEF BlocksOf, RowsOf, ColsOf
<1>2. nb \in Nat /\ o \in Nat /\ n \in Nat /\ col \in Nat
  <2>1. nb \in Nat /\ o \in Nat /\ n \in Nat /\ Dim \in Nat
    <3>1. plan.out_blocks \in Nat /\ plan.out_rows \in Nat
      BY Shape
    <3> HIDE DEF plan
    <3> QED BY <1>1, <3>1, MemoryAssumption DEF Cols
  <2>2. nb * Dim \in Nat
    BY <2>1, ProductNat
  <2> QED BY <2>1, <2>2
<1>3. t = Pooled(layer, layer.pool_width, o, V)
  <2>1. t = LayerCell(net, i, below, nb, o, n)
    BY <1>2, CellsAre
  <2> QED BY <2>1 DEF LayerCell
<1>4. u = RefLayer(net, i, ref)[<<o, col>>]
  <2>1. Len(net.layers) \in Nat
    BY TilesBeforeIs
  <2> QED BY <2>1, RefCellsAre
<1>5. /\ t = IF layer.pool = "None" THEN V(o)
             ELSE <<layer.pool, [j \in DOMAIN w |-> V(w[j])]>>
      /\ u = IF layer.pool = "None" THEN R(o)
             ELSE <<layer.pool, [j \in DOMAIN w |-> R(w[j])]>>
  <2>1. t = IF layer.pool = "None" THEN V(o)
            ELSE <<layer.pool, [j \in DOMAIN w |-> V(w[j])]>>
    BY <1>3 DEF Pooled
  <2>2. u = IF layer.pool = "None" THEN R(o)
            ELSE <<layer.pool, [j \in DOMAIN w |-> R(w[j])]>>
    <3> HIDE DEF u, ref, col
    <3> QED BY <1>2, <1>4, RefLayerAt
  <2> QED BY <2>1, <2>2
<1>6. ASSUME NEW p \in 0 .. plan.in_rows - 1
      PROVE  /\ V(p) \in B[d + 1] /\ V(p) \in B[d + 2]
             /\ col < layer.cols =>
                  M[d + 1][V(p)] = R(p) /\ M[d + 2][V(p)] = R(p)
  <2>1. /\ d + 1 \in 1 .. depth /\ (d + 1) - 1 = d
        /\ d + 2 \in 1 .. depth /\ (d + 2) - 1 = d + 1
    OBVIOUS
  <2>2. /\ V(p) \in B[d + 1]
        /\ col < layer.cols => M[d + 1][V(p)] = R(p)
    <3> DEFINE e == d + 1
    <3>1. e \in 1 .. depth /\ CellsMean(net, cells, depth, i - 1, e - 1)
      BY <2>1
    <3> HIDE DEF e
    <3>2. /\ V(p) \in B[e]
          /\ col < layer.cols => M[e][V(p)] = R(p)
      BY <1>1, <3>1, ValueMeans, SMTT(30)
    <3> QED BY <3>2 DEF e
  <2>3. /\ V(p) \in B[d + 2]
        /\ col < layer.cols => M[d + 2][V(p)] = R(p)
    <3> DEFINE e == d + 2
    <3>1. e \in 1 .. depth /\ CellsMean(net, cells, depth, i - 1, e - 1)
      BY <2>1
    <3> HIDE DEF e
    <3>2. /\ V(p) \in B[e]
          /\ col < layer.cols => M[e][V(p)] = R(p)
      BY <1>1, <3>1, ValueMeans, SMTT(30)
    <3> QED BY <3>2 DEF e
  <2> QED BY <2>2, <2>3
<1> HIDE DEF V, R, t, u, col, w
<1>7. CASE layer.pool = "None"
  <2>1. o \in 0 .. plan.in_rows - 1
    <3>1. plan.out_rows = plan.in_rows
      BY <1>7, LayerIs DEF ActivateOutputRows
    <3> QED BY <1>1, <3>1
  <2>2. t = V(o) /\ u = R(o)
    BY <1>5, <1>7
  <2>3. t \in B[d + 2] /\ (col < layer.cols => M[d + 2][t] = u)
    BY <1>6, <2>1, <2>2
  <2> QED BY <1>1, <2>3 DEF t, u, col
<1>8. CASE layer.pool # "None"
  <2> DEFINE s == [j \in DOMAIN w |-> V(w[j])]
             z == layer.pool_size * layer.pool_size
  <2>1. /\ z \in Nat /\ DOMAIN w = 1 .. z
        /\ \A j \in DOMAIN w : w[j] \in 0 .. plan.in_rows - 1
    BY <1>1, <1>8, WindowRows DEF HasPool, w
  <2> HIDE DEF z
  <2>2. s \in Seq(B[d + 1])
    <3>1. \A j \in 1 .. z : V(w[j]) \in B[d + 1]
      BY <1>6, <2>1
    <3>2. s \in [1 .. z -> B[d + 1]]
      BY <2>1, <3>1
    <3> DEFINE T == B[d + 1]
    <3> HIDE DEF s, T
    <3>3. \A j \in Nat : [1 .. j -> T] \subseteq Seq(T)
      BY ONLY TRUE
    <3>4. s \in [1 .. z -> T]
      BY <3>2 DEF T
    <3>5. s \in Seq(T)
      BY ONLY <2>1, <3>3, <3>4
    <3> QED BY <3>5 DEF T
  <2>3. layer.pool \in {"Max", "Average"}
    <3>1. layer.pool \in Poolings
      BY LayerIs DEF Layers
    <3> QED BY <1>8, <3>1 DEF Poolings
  <2>4. t = <<layer.pool, s>>
    BY <1>5, <1>8
  <2>5. DOMAIN s = DOMAIN w
    OBVIOUS
  <2>6. \A j \in DOMAIN w : s[j] = V(w[j])
    OBVIOUS
  <2> HIDE DEF s
  <2>7. t \in B[d + 2]
    <3> DEFINE e == d + 2
    <3>1. e \in 1 .. depth /\ e - 1 = d + 1
      OBVIOUS
    <3> HIDE DEF e
    <3>2. \A p \in {"Max", "Average"} :
            \A x \in Seq(B[e - 1]) : <<p, x>> \in B[e]
      BY <3>1, MadeBytes
    <3>3. t \in B[e]
      BY <2>2, <2>3, <2>4, <3>1, <3>2
    <3> QED BY <3>3 DEF e
  <2>8. ASSUME col < layer.cols PROVE M[d + 2][t] = u
    <3>1. M[d + 2][t] = MeansOf(net, t, M[d + 1])
      <4> DEFINE e == d + 2
      <4>1. e \in 0 .. depth /\ e - 1 = d + 1 /\ t \in B[e]
        BY <2>7
      <4> HIDE DEF e
      <4>2. M[e][t] = MeansOf(net, t, M[e - 1])
        BY <4>1, MeaningsAre
      <4> QED BY <4>1, <4>2 DEF e
    <3> DEFINE of == M[d + 1]
    <3>2. \A j \in DOMAIN w : of[s[j]] = R(w[j])
      BY <1>6, <2>1, <2>6, <2>8
    <3> HIDE DEF of
    <3>3. MeansOf(net, t, of) = <<layer.pool, [j \in DOMAIN s |-> of[s[j]]]>>
      BY <2>3, <2>4 DEF MeansOf
    <3>4. [j \in DOMAIN s |-> of[s[j]]] = [j \in DOMAIN w |-> R(w[j])]
      BY <2>5, <3>2
    <3> QED BY <1>5, <1>8, <3>1, <3>3, <3>4 DEF of
  <2> QED BY <1>1, <2>7, <2>8 DEF t, u, col
<1> QED BY <1>7, <1>8

LEMMA HostByteIs ==
  ASSUME NEW net, NEW b \in Nat, net.rows \in Nat, NEW r \in 0 .. net.rows - 1,
         NEW n \in Cols, b * Dim + n < net.cols
  PROVE  HostByte(net, UbAt(b * net.rows + r, n)) = net.cell[<<r, b * Dim + n>>]
<1> DEFINE m == net.rows
           x == b * m + r
           a == UbAt(x, n)
<1>1. m \in Nat \ {0} /\ r \in 0 .. m - 1
  OBVIOUS
<1>2. x \in Nat /\ x \div m = b /\ x % m = r
  <2> HIDE DEF m
  <2>1. (b * m) + r \in Nat /\ ((b * m) + r) \div m = b /\ ((b * m) + r) % m = r
    BY ONLY <1>1, b \in Nat, DivisionIs
  <2> QED BY <2>1
<1> HIDE DEF x
<1>3. a \div Dim = x /\ a % Dim = n
  BY <1>2, RowAddress
<1> HIDE DEF a
<1>4. HostByte(net, a) = IF b * Dim + n < net.cols
                         THEN net.cell[<<r, b * Dim + n>>] ELSE Zero
  BY <1>2, <1>3 DEF HostByte
<1> QED BY <1>4 DEF a, x

LEMMA InputMeans ==
  ASSUME NEW net, Accepted(net), NEW cells, IsCells(cells, net),
         NEW depth \in Nat, NEW d \in 0 .. depth
  PROVE  CellsMean(net, cells, depth, 0, d)
<1> SUFFICES ASSUME NEW b \in 0 .. BlocksOf(net, 0) - 1,
                    NEW r \in 0 .. RowsOf(net, 0) - 1, NEW n \in Cols
             PROVE  /\ cells[0][<<b, r, n>>] \in Bytes(depth)[d]
                    /\ b * Dim + n < ColsOf(net, 0) =>
                         Denotations(net, depth)[d][cells[0][<<b, r, n>>]]
                           = RefCells(net)[0][<<r, b * Dim + n>>]
  BY DEF CellsMean
<1>1. /\ net.rows \in Nat /\ net.cols \in Nat /\ Len(net.layers) \in Nat
      /\ RowsOf(net, 0) = net.rows /\ ColsOf(net, 0) = net.cols
      /\ BlocksOf(net, 0) \in Nat
  BY TilesBeforeIs, BlockCountIs
     DEF Accepted, IsNetwork, RowsOf, ColsOf, BlocksOf
<1>2. b \in Nat /\ r \in 0 .. net.rows - 1 /\ r \in Nat /\ n \in Nat
  BY <1>1, MemoryAssumption DEF Cols
<1> DEFINE a == UbAt(b * net.rows + r, n)
           t == cells[0][<<b, r, n>>]
<1>3. t = <<"host", a>>
  <2>1. t = InputByte(net, b, r, n)
    BY ONLY <1>1, <1>2, IsCells(cells, net), CellsAre
  <2> QED BY <2>1 DEF InputByte
<1>4. a \in Nat
  <2>1. b * net.rows + r \in Nat
    <3>1. b * net.rows \in Nat
      BY <1>1, <1>2, ProductNat
    <3> QED BY <1>2, <3>1
  <2> DEFINE x == b * net.rows + r
  <2>2. x \in Nat
    BY <2>1
  <2> HIDE DEF x
  <2>3. UbAt(x, n) \in Nat
    BY <2>2, RowAddress
  <2> QED BY <2>3 DEF x
<1> HIDE DEF t, a
<1>5. t \in Bytes(depth)[d]
  BY <1>3, <1>4, HostBytes
<1>6. ASSUME b * Dim + n < net.cols
      PROVE  Denotations(net, depth)[d][t]
               = RefCells(net)[0][<<r, b * Dim + n>>]
  <2>1. Denotations(net, depth)[d][t]
          = MeansOf(net, t, Denotations(net, depth)[d - 1])
    BY <1>5, MeaningsAre
  <2>2. MeansOf(net, t, Denotations(net, depth)[d - 1]) = HostByte(net, a)
    BY <1>3, MeaningsOf
  <2>3. HostByte(net, a) = net.cell[<<r, b * Dim + n>>]
    BY <1>1, <1>2, <1>6, HostByteIs, SMTT(30) DEF a
  <2>4. RefCells(net)[0] = net.cell
    BY <1>1, RefCellsAre
  <2> QED BY <2>1, <2>2, <2>3, <2>4
<1> QED BY <1>1, <1>5, <1>6 DEF t

(* The last layer of the machine means the last layer of the reference.      *)
LEMMA NetworkMeans ==
  ASSUME NEW net, Accepted(net), NEW cells, IsCells(cells, net)
  PROVE  CellsMean(net, cells, 2 * Len(net.layers), Len(net.layers),
                   2 * Len(net.layers))
<1> DEFINE N == Len(net.layers)
           depth == 2 * N
           S == {k \in Nat : k <= N => \A d \in 2 * k .. depth :
                                          CellsMean(net, cells, depth, k, d)}
<1>1. N \in Nat /\ depth \in Nat
  <2>1. N \in Nat
    BY TilesBeforeIs
  <2> HIDE DEF N
  <2> QED BY <2>1
<1>2. 0 \in S
  <2>1. 2 * 0 = 0
    OBVIOUS
  <2> HIDE DEF depth
  <2> QED BY <1>1, <2>1, InputMeans
<1>3. ASSUME NEW k \in Nat, k \in S PROVE k + 1 \in S
  <2> SUFFICES ASSUME k + 1 <= N, NEW d \in 2 * (k + 1) .. depth
               PROVE  CellsMean(net, cells, depth, k + 1, d)
    OBVIOUS
  <2> HIDE DEF N, depth
  <2>1. /\ k + 1 \in 1 .. N /\ (k + 1) - 1 = k
        /\ d - 2 \in Nat /\ (d - 2) + 2 = d /\ (d - 2) + 1 = d - 1 /\ d <= depth
        /\ d - 2 \in 2 * k .. depth /\ d - 1 \in 2 * k .. depth
    BY <1>1
  <2>2. /\ CellsMean(net, cells, depth, k, d - 2)
        /\ CellsMean(net, cells, depth, k, d - 1)
    BY <1>1, <1>3, <2>1
  <2> DEFINE e == d - 2
             i == k + 1
  <2>3. /\ i \in 1 .. Len(net.layers) /\ e \in Nat /\ e + 2 <= depth
        /\ CellsMean(net, cells, depth, i - 1, e)
        /\ CellsMean(net, cells, depth, i - 1, e + 1)
    BY <2>1, <2>2 DEF N
  <2>4. e + 2 = d
    BY <2>1
  <2> HIDE DEF e, i
  <2>5. CellsMean(net, cells, depth, i, e + 2)
    BY <1>1, <2>3, LayerMeans
  <2> QED BY <2>4, <2>5 DEF i
<1> HIDE DEF S
<1>4. N \in S
  BY <1>1, <1>2, <1>3, Induction
<1>5. CellsMean(net, cells, depth, N, depth)
  <2>1. depth \in 2 * N .. depth /\ N <= N
    <3> HIDE DEF N
    <3> QED BY <1>1
  <2> QED BY <1>4, <2>1 DEF S
<1> QED BY <1>5

(* The reference of a convolution is that of the network it becomes.         *)
LEMMA ConvIsItsNetwork ==
  ASSUME NEW conv, Accepted(ConvNet(conv)),
         NEW r \in 0 .. ResultRows(ConvNet(conv)) - 1,
         NEW c \in 0 .. ResultCols(ConvNet(conv)) - 1
  PROVE  LET net == ConvNet(conv)
         IN  /\ Len(net.layers) = 1
             /\ RefConvCell(conv, r, c) = RefCells(net)[1][<<r, c>>]
<1> DEFINE net == ConvNet(conv)
           layer == net.layers[1]
           plan == Plans(net)[1]
           w == Window(r, conv.layer.pool_size, OutWidth(conv))
           taps == conv.kernel * conv.kernel * conv.channels
           dx(k) == (k \div conv.channels) % conv.kernel
           dy(k) == (k \div conv.channels) \div conv.kernel
           pixel(p, k) == (p \div OutWidth(conv) + dy(k)) * conv.width
                            + (p % OutWidth(conv)) + dx(k)
           value(p) == Activated(conv.layer.function,
                         [k \in 1 .. taps |->
                            <<<<"pixel", pixel(p, k - 1),
                                (k - 1) % conv.channels>>,
                              Weight(1, k - 1, c)>>])
<1>1. /\ Len(net.layers) = 1 /\ 1 \in 1 .. Len(net.layers)
      /\ layer = IF HasPool(conv.layer)
                 THEN [conv.layer EXCEPT !.pool_width = OutWidth(conv)]
                 ELSE conv.layer
      /\ net.cols = taps
      /\ net.cell = [at \in (0 .. net.rows - 1) \X (0 .. net.cols - 1) |->
                       Im2Col(conv, at[1], at[2])]
  BY DEF ConvNet
<1>2. /\ plan.in_rows = net.rows /\ layer.rows = net.cols
      /\ net.rows \in Nat /\ net.cols \in Nat /\ layer \in Layers
      /\ layer.cols \in Nat /\ plan.out_rows \in Nat
  BY <1>1, LayerIs, Shape DEF Accepted, IsNetwork, Layers
<1>3. r \in 0 .. plan.out_rows - 1 /\ r \in Nat /\ c \in Nat
  BY <1>1, <1>2 DEF ResultRows, ResultCols
<1>4. RefCells(net)[1] = RefLayer(net, 1, net.cell)
  <2>1. 1 - 1 = 0 /\ Len(net.layers) \in Nat
    BY <1>1
  <2> HIDE DEF net
  <2>2. /\ RefCells(net)[0] = net.cell
        /\ \A i \in 1 .. Len(net.layers) :
             RefCells(net)[i] = RefLayer(net, i, RefCells(net)[i - 1])
    BY ONLY <2>1, RefCellsAre
  <2>3. RefCells(net)[1] = RefLayer(net, 1, RefCells(net)[1 - 1])
    BY <1>1, <2>2
  <2> QED BY <2>1, <2>2, <2>3
<1>5. RefConvCell(conv, r, c)
        = IF conv.layer.pool = "None" THEN value(r)
          ELSE <<conv.layer.pool, [j \in DOMAIN w |-> value(w[j])]>>
  BY DEF RefConvCell, Pooled
<1> HIDE DEF net
<1>6. /\ layer.pool = conv.layer.pool /\ layer.pool_size = conv.layer.pool_size
      /\ layer.function = conv.layer.function
      /\ HasPool(layer) => layer.pool_width = OutWidth(conv)
  <2>1. CASE HasPool(conv.layer)
    <3>1. layer = [conv.layer EXCEPT !.pool_width = OutWidth(conv)]
      BY <1>1, <2>1
    <3>2. DOMAIN layer = DOMAIN conv.layer
      BY <3>1
    <3>3. "pool_width" \in DOMAIN layer
      BY <1>2 DEF Layers
    <3> HIDE DEF layer
    <3> QED BY <3>1, <3>2, <3>3
  <2>2. CASE ~HasPool(conv.layer)
    <3>1. layer = conv.layer
      BY <1>1, <2>2
    <3> HIDE DEF layer
    <3> QED BY <2>2, <3>1
  <2> QED BY <2>1, <2>2
<1>7. ASSUME NEW p \in 0 .. net.rows - 1
      PROVE  RefValue(net, 1, net.cell, p, c) = value(p)
  <2>1. ASSUME NEW k \in 1 .. taps
        PROVE  net.cell[<<p, k - 1>>]
                 = <<"pixel", pixel(p, k - 1), (k - 1) % conv.channels>>
    <3>1. k - 1 \in 0 .. net.cols - 1
      <4> HIDE DEF taps
      <4> QED BY <1>1, <1>2
    <3>2. net.cell[<<p, k - 1>>] = Im2Col(conv, p, k - 1)
      BY <1>1, <3>1
    <3> QED BY <3>2 DEF Im2Col
  <2> HIDE DEF pixel
  <2>2. [k \in 1 .. layer.rows |->
           <<net.cell[<<p, k - 1>>], Weight(1, k - 1, c)>>]
          = [k \in 1 .. taps |->
               <<<<"pixel", pixel(p, k - 1), (k - 1) % conv.channels>>,
                 Weight(1, k - 1, c)>>]
    <3>1. layer.rows = taps
      BY <1>1, <1>2
    <3> HIDE DEF taps, layer
    <3> QED BY <2>1, <3>1
  <2> QED BY <1>6, <2>2 DEF RefValue
<1> HIDE DEF value
<1>8. CASE conv.layer.pool = "None"
  <2>1. r \in 0 .. net.rows - 1
    <3>1. plan.out_rows
            = ActivateOutputRows(plan.in_rows, layer.pool, layer.pool_size)
      BY <1>1, LayerIs DEF net
    <3>2. layer.pool = "None"
      BY <1>6, <1>8
    <3> HIDE DEF plan, layer
    <3>3. plan.out_rows = plan.in_rows
      BY <3>1, <3>2 DEF ActivateOutputRows
    <3> QED BY <1>2, <1>3, <3>3
  <2>2. RefLayer(net, 1, net.cell)[<<r, c>>] = RefValue(net, 1, net.cell, r, c)
    <3>1. layer.pool = "None"
      BY <1>6, <1>8
    <3> DEFINE of == net.cell
    <3> HIDE DEF of
    <3>2. RefLayer(net, 1, of)[<<r, c>>] = RefValue(net, 1, of, r, c)
      <4>1. r \in Nat /\ c \in Nat
        BY <1>3
      <4> QED BY ONLY <3>1, <4>1 DEF RefLayer, Pooled, layer
    <3> QED BY <3>2 DEF of
  <2> QED BY <1>1, <1>4, <1>5, <1>7, <1>8, <2>1, <2>2 DEF net
<1>9. CASE conv.layer.pool # "None"
  <2> DEFINE v == Window(r, layer.pool_size, layer.pool_width)
  <2>1. HasPool(layer) /\ v = w
    BY <1>6, <1>9 DEF HasPool
  <2>2. \A j \in DOMAIN w : w[j] \in 0 .. net.rows - 1
    <3>1. Accepted(net)
      BY DEF net
    <3>2. \A j \in DOMAIN v : v[j] \in 0 .. plan.in_rows - 1
      BY <1>1, <1>3, <2>1, <3>1, WindowRows
    <3> HIDE DEF v, w, plan
    <3> QED BY <1>2, <2>1, <3>2
  <2>3. RefLayer(net, 1, net.cell)[<<r, c>>]
          = <<layer.pool, [j \in DOMAIN v |->
               RefValue(net, 1, net.cell, v[j], c)]>>
    <3>1. layer.pool # "None"
      BY <1>6, <1>9
    <3> DEFINE of == net.cell
    <3> HIDE DEF of
    <3>2. RefLayer(net, 1, of)[<<r, c>>]
            = <<layer.pool, [j \in DOMAIN v |-> RefValue(net, 1, of, v[j], c)]>>
      <4>1. r \in Nat /\ c \in Nat
        BY <1>3
      <4> QED BY ONLY <3>1, <4>1 DEF RefLayer, Pooled, layer, v
    <3> QED BY <3>2 DEF of
  <2> HIDE DEF v, w
  <2>4. [j \in DOMAIN v |-> RefValue(net, 1, net.cell, v[j], c)]
          = [j \in DOMAIN w |-> value(w[j])]
    BY <1>7, <2>1, <2>2
  <2> QED BY <1>1, <1>4, <1>5, <1>6, <1>9, <2>3, <2>4 DEF net
<1> QED BY <1>8, <1>9

LEMMA ConvLayersAre ==
  ASSUME NEW conv, ConvOK(conv), conv.height \in Nat, conv.width \in Nat,
         conv.kernel \in Nat, conv.channels \in Nat, conv.layer \in Layers
  PROVE  IsNetwork(ConvNet(conv))
<1> DEFINE net == ConvNet(conv)
           a == OutHeight(conv)
           b == OutWidth(conv)
           k == conv.kernel
           layer == IF HasPool(conv.layer)
                    THEN [conv.layer EXCEPT !.pool_width = OutWidth(conv)]
                    ELSE conv.layer
<1>1. a \in Nat /\ b \in Nat
  BY DEF ConvOK, OutHeight, OutWidth
<1>2. a * b \in Nat /\ k * k * conv.channels \in Nat
  <2>1. k * k \in Nat
    BY ProductNat
  <2> QED BY <1>1, <2>1, ProductNat
<1>3. layer \in Layers
  BY <1>1 DEF Layers
<1>4. net.rows = a * b /\ net.cols = k * k * conv.channels
      /\ net.layers = <<layer>>
  BY DEF ConvNet
<1> HIDE DEF net, layer, a, b, k
<1>5. <<layer>> \in Seq(Layers)
  BY <1>3
<1> QED BY <1>2, <1>4, <1>5 DEF IsNetwork, net, k

LEMMA CompiledAre ==
  ASSUME NEW s \in Compiled
  PROVE  /\ IsNetwork(s.net) /\ Compilable(s.net)
         /\ s.kind = "conv" => s.net = ConvNet(s.conv)
         /\ Code(s.net) \in Programs
<1>1. Compilable(s.net) /\ s \in Sources /\ Code(s.net) \in Programs
  BY NetworksAssumption DEF Compiled
<1>2. CASE \E n \in Networks : s = [kind |-> "layers", net |-> n]
  BY <1>1, <1>2, NetworksAssumption
<1>3. CASE \E c \in {d \in Convolutions : ConvOK(d)} :
             s = [kind |-> "conv", net |-> ConvNet(c), conv |-> c]
  <2>1. PICK c \in Convolutions :
          ConvOK(c) /\ s = [kind |-> "conv", net |-> ConvNet(c), conv |-> c]
    BY <1>3
  <2>2. /\ c.height \in Nat /\ c.width \in Nat /\ c.kernel \in Nat
        /\ c.channels \in Nat /\ c.layer \in Layers
    BY NetworksAssumption
  <2>3. IsNetwork(ConvNet(c))
    BY <2>1, <2>2, ConvLayersAre
  <2>4. s.net = ConvNet(c) /\ s.conv = c
    BY <2>1
  <2> QED BY <1>1, <2>3, <2>4
<1> QED BY <1>1, <1>2, <1>3 DEF Sources

(* What the machine is doing is what was compiled.                           *)
SourceInv == source \in Compiled /\ program = Code(source.net)

(* A machine that has halted has run all of the program but its Halt.        *)
LEMMA HaltedAtEnd ==
  ASSUME NEW net, Accepted(net), program = Code(net), FollowsInv, HaltedInv,
         TypeInv, halted
  PROVE  LET N    == Len(net.layers)
             last == Plans(net)[N]
         IN  \A cells : IsCells(cells, net) =>
               Region(hostMem, ResultHostRow(net), last.out_rows,
                      last.out_blocks, cells[N])
<1> SUFFICES ASSUME NEW cells, IsCells(cells, net)
             PROVE  LET N    == Len(net.layers)
                        last == Plans(net)[N]
                    IN  Region(hostMem, ResultHostRow(net), last.out_rows,
                               last.out_blocks, cells[N])
  OBVIOUS
<1> DEFINE work == Working(net)
           n == Len(work)
           f == RunOf(program)
           halt == <<Blank("Halt")>>
<1>1. /\ work \in Seq(Instr) /\ RunsThrough(work)
      /\ program = work \o halt /\ program \in Seq(Instr)
  BY CodeIs DEF FollowsInv
<1>2. halt \in Seq(Instr) /\ Len(halt) = 1
  <2>1. Blank("Halt") \in Instr
    BY BlankIs DEF Ops
  <2> HIDE DEF work
  <2> QED BY <2>1
<1> HIDE DEF work, halt
<1>3. /\ Len(program) = n + 1 /\ n \in Nat
      /\ \A j \in 1 .. n : program[j] = work[j]
  <2>1. n \in Nat
    BY <1>1, LenProperties
  <2>2. /\ Len(work \o halt) = n + 1
        /\ \A j \in 1 .. n + 1 :
             (work \o halt)[j] = IF j <= n THEN work[j] ELSE halt[j - n]
    <3>1. work \in Seq(Instr) /\ halt \in Seq(Instr)
      BY <1>1, <1>2
    <3>2. /\ Len(work \o halt) = Len(work) + Len(halt)
          /\ \A j \in 1 .. Len(work) + Len(halt) :
               (work \o halt)[j] = IF j <= Len(work) THEN work[j]
                                   ELSE halt[j - Len(work)]
      BY ONLY <3>1, ConcatProperties
    <3>3. Len(halt) = 1
      BY <1>2
    <3> QED BY ONLY <3>2, <3>3
  <2>3. \A j \in 1 .. n : j \in 1 .. n + 1 /\ j <= n
    BY <2>1
  <2> HIDE DEF n
  <2> QED BY <1>1, <2>1, <2>2, <2>3
<1>4. /\ pc \in 0 .. Len(program) /\ Flushed = f[pc]
      /\ \A j \in 1 .. pc : FitsHost(program[j])
      /\ pc < Len(program) /\ program[pc + 1].op = "Halt" /\ ~HostBusy
  BY DEF FollowsInv, HaltedInv
<1> HIDE DEF n
<1>5. pc = n
  <2> SUFFICES ASSUME pc # n PROVE FALSE
    OBVIOUS
  <2>1. pc + 1 \in 1 .. n
    BY <1>3, <1>4
  <2>2. work[pc + 1].op = "Halt"
    BY <1>3, <1>4, <2>1
  <2> QED BY <1>1, <2>1, <2>2 DEF RunsThrough, n
<1>6. f[0] = AsLoaded
      /\ \A j \in 1 .. Len(program) : f[j] = Effect(program[j], f[j - 1])
  BY <1>1, RunIs
<1> HIDE DEF f
<1>7. Runs(f, 0, work)
  <2> SUFFICES ASSUME NEW j \in 1 .. n
               PROVE  /\ f[0 + j] = Effect(work[j], f[0 + j - 1])
                      /\ FitsHost(work[j])
    BY DEF Runs, n
  <2>1. /\ j \in 1 .. Len(program) /\ 0 + j = j /\ 0 + j - 1 = j - 1
        /\ j \in 1 .. pc
    BY <1>3, <1>5
  <2> QED BY <1>3, <1>4, <1>6, <2>1
<1>8. f[Len(work)].hostMem = hostMem
  <2>1. DrainedHostMem = hostMem
    BY <1>4, IdleHost
  <2> QED BY <1>4, <1>5, <2>1 DEF Flushed, n
<1> QED BY <1>6, <1>7, <1>8, WorkingRuns DEF work

LEMMA ResultsHold ==
  ASSUME SourceInv, FollowsInv, HaltedInv, TypeInv, HasInputs(source.net)
  PROVE  ResultsAreTheReference
<1> DEFINE net  == source.net
           N    == Len(net.layers)
           last == Plans(net)[N]
           d    == 2 * N
           z    == Dim
<1>1. Accepted(net) /\ program = Code(net)
      /\ (source.kind = "conv" => net = ConvNet(source.conv))
  BY CompiledAre DEF SourceInv, Accepted
<1> SUFFICES ASSUME halted, NEW r \in 0 .. ResultRows(net) - 1,
                    NEW c \in 0 .. ResultCols(net) - 1
             PROVE  Denoted(hostMem[ResultAddr(net, r, c)]) = Reference(r, c)
  BY DEF ResultsAreTheReference
<1>2. Denoted(hostMem[ResultAddr(net, r, c)])
        = Denotations(net, d)[d][hostMem[ResultAddr(net, r, c)]]
  BY DEF Denoted
<1>3. Reference(r, c) = IF source.kind = "conv"
                        THEN RefConvCell(source.conv, r, c)
                        ELSE RefCells(net)[N][<<r, c>>]
  BY DEF Reference
<1> HIDE DEF net
<1>4. N \in Nat \ {0} /\ N \in 1 .. N
  <2>1. N \in Nat \ {0}
    BY <1>1, TilesBeforeIs
  <2> HIDE DEF N
  <2> QED BY <2>1
<1>5. PICK cells : IsCells(cells, net)
  BY <1>4, CellsExist
<1>6. Region(hostMem, ResultHostRow(net), last.out_rows, last.out_blocks,
             cells[N])
  BY <1>1, <1>5, HaltedAtEnd
<1>7. CellsMean(net, cells, d, N, d)
  BY <1>1, <1>5, NetworkMeans
<1>8. /\ BlocksOf(net, N) = last.out_blocks /\ RowsOf(net, N) = last.out_rows
      /\ ColsOf(net, N) = ResultCols(net) /\ ResultRows(net) = last.out_rows
  <2>1. N # 0
    BY <1>4
  <2> QED BY <2>1 DEF BlocksOf, RowsOf, ColsOf, ResultCols, ResultRows
<1>9. /\ ResultCols(net) \in Nat
      /\ last.out_blocks = BlockCount(ResultCols(net))
      /\ last.out_rows \in Nat
  <2>1. /\ net.layers[N] \in Layers
        /\ last.out_blocks = BlockCount(net.layers[N].cols)
        /\ last.out_rows \in Nat
    BY <1>1, <1>4, LayerIs, Shape
  <2> QED BY <2>1 DEF ResultCols, Layers
<1> DEFINE b == c \div z
           n == c % z
<1>10. /\ b \in 0 .. last.out_blocks - 1 /\ n \in Cols /\ b * z + n = c
       /\ r \in 0 .. last.out_rows - 1
  <2> DEFINE m == last.out_blocks
  <2>1. /\ z \in Nat \ {0} /\ m \in Nat /\ ResultCols(net) <= m * z
        /\ Cols = 0 .. z - 1 /\ m * z \in Nat
    <3>1. z \in Nat \ {0} /\ Cols = 0 .. z - 1
      BY MemoryAssumption DEF Cols
    <3>2. m \in Nat /\ ResultCols(net) <= m * z
      BY <1>9, BlockCountIs
    <3> QED BY <3>1, <3>2, ProductNat
  <2>2. c \in 0 .. m * z - 1
    <3> DEFINE q == m * z
    <3>1. q \in Nat /\ ResultCols(net) <= q /\ ResultCols(net) \in Nat
      BY <1>9, <2>1
    <3> HIDE DEF q
    <3>2. c \in 0 .. q - 1
      BY <3>1
    <3> QED BY <3>2 DEF q
  <2> HIDE DEF z, m
  <2>3. c \div z \in 0 .. m - 1 /\ c % z \in 0 .. z - 1
        /\ c = (c \div z) * z + (c % z)
    <3>1. z \in Nat /\ z > 0 /\ m \in Nat
      BY <2>1
    <3> QED BY ONLY <2>2, <3>1, BlockOf
  <2> QED BY <1>8, <2>1, <2>3 DEF m
<1>11. ResultAddr(net, r, c)
         = UbAt(ResultHostRow(net) + b * last.out_rows + r, n)
  BY <1>8 DEF ResultAddr, UbAt
<1> HIDE DEF b, n, last, N, d
<1>12. hostMem[ResultAddr(net, r, c)] = cells[N][<<b, r, n>>]
  BY <1>6, <1>10, <1>11 DEF Region
<1>13. Denotations(net, d)[d][cells[N][<<b, r, n>>]]
         = RefCells(net)[N][<<r, b * Dim + n>>]
  <2>1. b * Dim + n < ColsOf(net, N)
    <3>1. c < ResultCols(net)
      BY <1>9
    <3> QED BY <1>8, <1>10, <3>1
  <2> QED BY <1>7, <1>8, <1>10, <2>1 DEF CellsMean
<1>14. Denoted(hostMem[ResultAddr(net, r, c)]) = RefCells(net)[N][<<r, c>>]
  BY <1>2, <1>10, <1>12, <1>13
<1>15. CASE source.kind = "conv"
  <2>1. net = ConvNet(source.conv)
    BY <1>1, <1>15
  <2> DEFINE conv == source.conv
  <2> HIDE DEF conv
  <2>2. net = ConvNet(conv)
    BY <2>1 DEF conv
  <2>3. N = 1 /\ RefConvCell(conv, r, c) = RefCells(net)[1][<<r, c>>]
    <3>1. /\ Accepted(ConvNet(conv)) /\ r \in 0 .. ResultRows(ConvNet(conv)) - 1
          /\ c \in 0 .. ResultCols(ConvNet(conv)) - 1
      BY <1>1, <2>2
    <3>2. /\ Len(ConvNet(conv).layers) = 1
          /\ RefConvCell(conv, r, c) = RefCells(ConvNet(conv))[1][<<r, c>>]
      BY ONLY <3>1, ConvIsItsNetwork
    <3> QED BY <2>2, <3>2 DEF N
  <2> QED BY <1>3, <1>14, <1>15, <2>3 DEF conv
<1>16. CASE source.kind # "conv"
  BY <1>3, <1>14, <1>16
<1> QED BY <1>15, <1>16

LEMMA NextSource ==
  SourceInv /\ [Next /\ UNCHANGED source]_<<vars, source>> => SourceInv'
<1> SUFFICES ASSUME SourceInv, [Next /\ UNCHANGED source]_<<vars, source>>
             PROVE  SourceInv'
  OBVIOUS
<1>1. source' = source
  OBVIOUS
<1>2. program' = program
  BY DEF Next, vars, machine, control, TickThrows, PastTheEnd,
       UnknownOpcode, Deadlock, Refused, Throw, Stalled, TickIssues, IssueHalt,
       IssueNopOrSync, IssueHostTransfer, IssueReadWeights, Issuing,
       IssueMatrixMultiply, IssueActivate, TickAdvances, AdvanceHost,
       AdvanceFifo, AdvanceShifter, AdvanceArray, AdvanceActivation, Step,
       TickHalted, Issued, Advance
<1> QED BY <1>1, <1>2 DEF SourceInv

LEMMA CompiledStarts == CompiledInit => Init /\ SourceInv
<1> SUFFICES ASSUME CompiledInit PROVE Init /\ SourceInv
  OBVIOUS
<1>1. source \in Compiled /\ Loaded(Code(source.net))
  BY DEF CompiledInit
<1>2. Code(source.net) \in Programs
  BY <1>1, CompiledAre
<1>3. program = Code(source.net)
  BY <1>1 DEF Loaded
<1> QED BY <1>1, <1>2, <1>3 DEF CompiledInit, Init, SourceInv

(* Whatever the network and however the units overlap: if each layer has an  *)
(* input, what the program that compile_layers() or compile_conv() made of   *)
(* it leaves in host memory is, when the machine has halted, what the plain  *)
(* loops of ref_ops.cpp compute.                                             *)
THEOREM CompiledIsReference ==
  CompiledSpec => [](HasInputs(source.net) => ResultsAreTheReference)
<1>1. CompiledSpec => Spec
  <2>1. [Next /\ UNCHANGED source]_<<vars, source>> => [Next]_vars
    OBVIOUS
  <2> QED BY <2>1, CompiledStarts, PTL DEF CompiledSpec, Spec
<1>2. CompiledSpec => []SourceInv
  BY CompiledStarts, NextSource, PTL DEF CompiledSpec
<1>3. Spec => []FollowsInv
  BY InitFollows, NextFollows, InvariantRefInv, PTL DEF Spec
<1>4. Spec => []HaltedInv
  BY InitFollows, NextHalted, InvariantTypes, PTL DEF Spec
<1>5. SourceInv /\ FollowsInv /\ HaltedInv /\ TypeInv
        => (HasInputs(source.net) => ResultsAreTheReference)
  BY ResultsHold
<1> QED BY <1>1, <1>2, <1>3, <1>4, <1>5, InvariantTypes, PTL
=============================================================================
