------------------------------ MODULE Assembler ------------------------------
(* assemble() and program_text() (src/src/isa/asm.cpp): a source is assembled *)
(* statement by statement, the program is printed as assembler text, and that *)
(* text is assembled again. A statement is what tokenize leaves of a line; a  *)
(* number is the value it denotes, and an operand whose text denotes none is  *)
(* not ok. Columns and messages are left out.                                 *)
EXTENDS Integers, Encoding, SequencesExt

CONSTANTS Sources,    \* the sequences of statements to assemble
          RowBytes,   \* bytes of a memory row (kMxuDim)
          TileRows,   \* rows of a weight tile
          LastAddress \* the largest a directive takes (0xFFFFFFFF)

(* number() of 32 bits, find_function and find_pooling: what an operand that *)
(* is ok denotes.                                                            *)
Denotes(o) ==
  o.ok => /\ o.value \in U32
          /\ o.key = "function" => UpTo(o.value, 3)
          /\ o.key = "pool" => UpTo(o.value, 2)

IsLine(s) ==
  /\ s.operands \in Seq(Range(s.operands))
  /\ \A i \in DOMAIN s.operands : Denotes(s.operands[i])

DataValues == Seq([hex : BOOLEAN, n : Int])

IsStatement(s) ==
  \/ s.kind = "directive"   /\ s.address \in Seq(Int)
  \/ s.kind = "data"        /\ s.values \in DataValues
  \/ s.kind = "instruction" /\ IsLine(s)

IsSource(s) ==
  s \in Seq(Range(s)) /\ \A n \in DOMAIN s : IsStatement(s[n])

ASSUME TextSizes ==
  RowBytes \in Nat \ {0} /\ TileRows \in Nat \ {0} /\ LastAddress \in Nat
ASSUME SourcesAssumption == \A s \in Sources : IsSource(s)

VARIABLES source,    \* the statements of this pass
          line,      \* how many of them have been assembled
          block,     \* the memory whose last block is open, or "none"
          program,
          error,     \* a statement threw AsmError
          typed      \* the program of the first pass; empty before it ends

asmVars == <<source, line, block, program, error, typed>>

NoProgram == [code |-> <<>>, host |-> <<>>, weights |-> <<>>]

Directive(memory, address) ==
  [kind |-> "directive", memory |-> memory, address |-> address]
Values(values) == [kind |-> "data", values |-> values]
Line(op, operands) ==
  [kind |-> "instruction", op |-> op, operands |-> operands]
Operand(key, value, ok) == [key |-> key, value |-> value, ok |-> ok]

AsmInit ==
  /\ source \in Sources
  /\ line = 0
  /\ block = "none"
  /\ program = NoProgram
  /\ error = FALSE
  /\ typed = <<>>

(* The statement run() reads next; it stops at the end or at the first error.*)
Reading(kind) ==
  /\ ~error
  /\ line < Len(source)
  /\ source[line + 1].kind = kind

Statement == source[line + 1]
-----------------------------------------------------------------------------
DirectiveOK(s) ==
  /\ s.memory \in {"host", "weights"}
  /\ Len(s.address) \in IF s.memory = "host" THEN {1} ELSE {1, 2}
  /\ s.address[1] \in 0 .. LastAddress
  /\ Len(s.address) = 2 => s.address[2] \in 0 .. TileRows - 1

StartOf(s) ==
  RowBytes * IF s.memory = "host"
               THEN s.address[1]
               ELSE s.address[1] * TileRows
                    + (IF Len(s.address) = 2 THEN s.address[2] ELSE 0)

OpenBlock ==
  /\ Reading("directive")
  /\ DirectiveOK(Statement)
  /\ program' = [program EXCEPT ![Statement.memory] =
                   Append(@, [addr |-> StartOf(Statement), bytes |-> <<>>])]
  /\ block' = Statement.memory
  /\ line' = line + 1
  /\ UNCHANGED <<source, error, typed>>

(* Hex is a bit pattern of eight bits, decimal a signed number.              *)
Int8OK(v) == v.n \in IF v.hex THEN 0 .. 255 ELSE -128 .. 127
AsInt8(v) == IF v.n > 127 THEN v.n - 256 ELSE v.n

DataOK(s) == block # "none" /\ \A i \in DOMAIN s.values : Int8OK(s.values[i])

AppendData ==
  /\ Reading("data")
  /\ DataOK(Statement)
  /\ LET last == Len(program[block])
         new  == [i \in DOMAIN Statement.values |-> AsInt8(Statement.values[i])]
     IN  program' = [program EXCEPT ![block][last].bytes = @ \o new]
  /\ line' = line + 1
  /\ UNCHANGED <<source, block, error, typed>>
-----------------------------------------------------------------------------
OperandKeys(op) ==
  CASE op \in {"ReadHostMemory", "WriteHostMemory"} -> {"host", "ub", "rows"}
    [] op = "ReadWeights" -> {"tile"}
    [] op = "MatrixMultiply" ->
         {"ub", "acc", "rows", "accumulate", "new_weights"}
    [] op = "Activate" -> {"acc", "ub", "rows", "shift", "function"}
    [] OTHER -> {}

OptionalKeys(op) ==
  IF op = "Activate" THEN {"pool", "size", "width"} ELSE {}

KeysOf(operands) == {operands[i].key : i \in DOMAIN operands}

GivenOnce(operands) ==
  \A i, j \in DOMAIN operands : operands[i].key = operands[j].key => i = j

OperandsOK(op, operands) ==
  /\ \A i \in DOMAIN operands : operands[i].ok
  /\ KeysOf(operands) \subseteq OperandKeys(op) \cup OptionalKeys(op)
  /\ GivenOnce(operands)
  /\ OperandKeys(op) \subseteq KeysOf(operands)

(* set_operand for each one in turn, over an Instr of zeros.                 *)
Parsed(s) ==
  [op  |-> s.op,
   arg |-> [key \in Keys |->
              LET of == {i \in DOMAIN s.operands : s.operands[i].key = key}
              IN  IF of = {} THEN Zero ELSE s.operands[Max(of)].value]]

LineOK(s) ==
  s.op \in DOMAIN Opcode /\ OperandsOK(s.op, s.operands) /\ Encodes(Parsed(s))

(* Mutant: an instruction leaves the data block open.                        *)
AppendCodeInBlock ==
  /\ Reading("instruction")
  /\ LineOK(Statement)
  /\ program' = [program EXCEPT !.code = Append(@, Encode(Parsed(Statement)))]
  /\ line' = line + 1
  /\ UNCHANGED <<source, block, error, typed>>

AppendCode ==
  /\ Reading("instruction")
  /\ LineOK(Statement)
  /\ program' = [program EXCEPT !.code = Append(@, Encode(Parsed(Statement)))]
  /\ block' = "none"
  /\ line' = line + 1
  /\ UNCHANGED <<source, error, typed>>

(* fail() throws out of run(), and the program is gone with the Assembler.   *)
Fail ==
  /\ \/ Reading("directive") /\ ~DirectiveOK(Statement)
     \/ Reading("data") /\ ~DataOK(Statement)
     \/ Reading("instruction") /\ ~LineOK(Statement)
  /\ error' = TRUE
  /\ program' = NoProgram
  /\ UNCHANGED <<source, line, block, typed>>
-----------------------------------------------------------------------------
(* disasm: the operands in the order it prints them.                         *)
PrintedKeys(in) ==
  CASE in.op = "ReadHostMemory"  -> <<"host", "ub", "rows">>
    [] in.op = "WriteHostMemory" -> <<"ub", "host", "rows">>
    [] in.op = "ReadWeights"     -> <<"tile">>
    [] in.op = "MatrixMultiply"  ->
         <<"ub", "acc", "rows", "accumulate", "new_weights">>
    [] in.op = "Activate" ->
         <<"acc", "ub", "rows", "shift", "function">> \o
           IF in.arg["pool"] = Zero THEN <<>> ELSE <<"pool", "size", "width">>
    [] OTHER -> <<>>

Disasm(in) ==
  Line(in.op, [i \in DOMAIN PrintedKeys(in) |->
     LET key == PrintedKeys(in)[i] IN Operand(key, in.arg[key], TRUE)])

(* Mutant: a row is printed up to its first zero.                            *)
UsedBytesToZero(row) == Min({i \in DOMAIN row : row[i] = 0}
                             \cup {Len(row) + 1}) - 1

(* data_row: a directive and the row's bytes up to the last that is not zero;*)
(* nothing for a row of zeros.                                               *)
UsedBytes(row) == Max({i \in DOMAIN row : row[i] # 0} \cup {0})

RowDirective(memory, row) ==
  Directive(memory, IF memory = "host" THEN <<row>>
                    ELSE <<row \div TileRows, row % TileRows>>)

RowText(memory, row, bytes) ==
  LET used == UsedBytes(bytes)
  IN  IF used = 0 THEN <<>>
      ELSE <<RowDirective(memory, row),
             Values([i \in 1 .. used |-> [hex |-> FALSE, n |-> bytes[i]]])>>

(* data_text: a block row by row, the last one as short as it is.            *)
BlockText(memory, b) ==
  LET size    == Len(b.bytes)
      bytes(r) == SubSeq(b.bytes, r * RowBytes + 1,
                         Min({(r + 1) * RowBytes, size}))
      rows    == (size + RowBytes - 1) \div RowBytes
  IN  FlattenSeq([k \in 1 .. rows |->
        RowText(memory, b.addr \div RowBytes + k - 1, bytes(k - 1))])

DataText(memory, blocks) ==
  FlattenSeq([k \in DOMAIN blocks |-> BlockText(memory, blocks[k])])

Aligned(p) ==
  \A memory \in {"host", "weights"} : \A k \in DOMAIN p[memory] :
    p[memory][k].addr % RowBytes = 0

ProgramText(p) ==
  DataText("host", p.host) \o DataText("weights", p.weights) \o
    [k \in DOMAIN p.code |-> Disasm(Decode(p.code[k]))]

Assembled == ~error /\ line = Len(source)

(* program_text of the program, given to assemble() again.                   *)
PrintText ==
  /\ Assembled
  /\ typed = <<>>
  /\ Aligned(program)
  /\ \A k \in DOMAIN program.code : Decodes(program.code[k])
  /\ typed' = <<program>>
  /\ source' = ProgramText(program)
  /\ line' = 0
  /\ block' = "none"
  /\ program' = NoProgram
  /\ UNCHANGED error

AsmNext == OpenBlock \/ AppendData \/ AppendCode \/ Fail \/ PrintText

AsmSpec == AsmInit /\ [][AsmNext]_asmVars
-----------------------------------------------------------------------------
(* Properties.                                                               *)
Memories == {"host", "weights"}

Span(addr, bytes) == addr .. addr + Len(bytes) - 1

(* The byte a memory of zeros holds once load has written the blocks.        *)
Cell(blocks, a) ==
  LET over == {k \in DOMAIN blocks :
                 a \in Span(blocks[k].addr, blocks[k].bytes)}
  IN  IF over = {} THEN 0
      ELSE blocks[Max(over)].bytes[a - blocks[Max(over)].addr + 1]

Touched(blocks) == UNION {Span(b.addr, b.bytes) : b \in Range(blocks)}

(* What the blocks over a say of it, each for itself.                        *)
SaidOf(blocks, a) ==
  {b.bytes[a - b.addr + 1] :
     b \in {c \in Range(blocks) : a \in Span(c.addr, c.bytes)}}

(* p has the bytes of q, but where q's last block over a byte has a zero, it *)
(* may have what an earlier one says: the zeros are left out of the text.    *)
SameButLostZeros(p, q) ==
  \A a \in Touched(p) \cup Touched(q) :
    \/ Cell(p, a) = Cell(q, a)
    \/ Cell(q, a) = 0 /\ Cell(p, a) \in SaidOf(q, a)

(* The bytes of a memory up to the last row that a directive can name.       *)
Reach(memory) ==
  RowBytes * (LastAddress + 1) * (IF memory = "host" THEN 1 ELSE TileRows)

InReach(p) ==
  \A memory \in Memories : \A b \in Range(p[memory]) : \A i \in DOMAIN b.bytes :
    b.bytes[i] # 0 => b.addr + i <= Reach(memory)

CodeLines   == {n \in DOMAIN source : source[n].kind = "instruction"}
CodeUpTo(n) == {m \in CodeLines : m <= n}

(* Every word the assembler makes is one that the machine decodes, to the    *)
(* operation and the operands its line gives and zero for all others: encode *)
(* (isa.cpp:118) and decode (isa.cpp:167) place the fields independently, and*)
(* no operand is cut, moved into another or given twice. A pooling Activate  *)
(* has a size and a width, by which the activation unit divides; decode does *)
(* not check that.                                                           *)
WordsMeanTheirLines ==
  Assembled =>
    /\ Len(program.code) = Cardinality(CodeLines)
    /\ \A n \in CodeLines :
         LET word == program.code[Cardinality(CodeUpTo(n))]
             in   == Decode(word)
             ops  == source[n].operands
         IN  /\ Decodes(word)
             /\ in.op = source[n].op
             /\ \A i \in DOMAIN ops : in.arg[ops[i].key] = ops[i].value
             /\ \A key \in Keys \ KeysOf(ops) : in.arg[key] = Zero
             /\ in.arg["pool"] # Zero =>
                  Zero \notin {in.arg["size"], in.arg["width"]}

(* The reference for data: the directive a data line fills from, and where   *)
(* its first value goes, counting the values since that directive.           *)
OwnerOf(n) == Max({d \in 1 .. n : source[d].kind = "directive"} \cup {0})

ValuesUpTo[n \in 0 .. Len(source)] ==
  IF n = 0 THEN 0
  ELSE ValuesUpTo[n - 1] + IF source[n].kind = "data"
                           THEN Len(source[n].values) ELSE 0

AddressOf(n) ==
  StartOf(source[OwnerOf(n)]) + ValuesUpTo[n - 1] - ValuesUpTo[OwnerOf(n)]

DataLines(memory) ==
  {n \in DOMAIN source : /\ source[n].kind = "data"
                         /\ source[OwnerOf(n)].memory = memory}

Says(memory, a) ==
  LET of == {n \in DataLines(memory) :
               a \in Span(AddressOf(n), source[n].values)}
  IN  IF of = {} THEN 0
      ELSE AsInt8(source[Max(of)].values[a - AddressOf(Max(of)) + 1])

(* docs/isa.md: data fills from where its directive points, row after row,   *)
(* across lines until the next directive or instruction; a data line outside *)
(* a block is an error. block_ points into a vector that later directives    *)
(* append to (asm.cpp:210-219), and load writes the blocks in order.         *)
BytesLandWhereTheSourceSays ==
  Assembled =>
    /\ \A n \in DOMAIN source : source[n].kind = "data" =>
         /\ OwnerOf(n) > 0
         /\ \A m \in OwnerOf(n) .. n : source[m].kind # "instruction"
    /\ \A memory \in Memories :
         \A a \in Touched(program[memory]) \cup
                   UNION {Span(AddressOf(n), source[n].values) :
                            n \in DataLines(memory)} :
           Cell(program[memory], a) = Says(memory, a)

(* asm.h:18: the text of a program assembles back, to the same words and the *)
(* same bytes in both memories. Two things are lost, and no other: a zero    *)
(* over an earlier block's byte is left out (asm.cpp:373), and the row after *)
(* the last one that a directive can name gets a directive all the same      *)
(* (asm.cpp:399), which assemble refuses (asm.cpp:199).                      *)
TextReadsBack ==
  /\ Assembled => Aligned(program)
  /\ typed # <<>> =>
       /\ error => ~InReach(typed[1])
       /\ Assembled =>
            /\ program.code = typed[1].code
            /\ \A memory \in Memories :
                 SameButLostZeros(program[memory], typed[1][memory])
=============================================================================
