---------------------------- MODULE Z80Programs ----------------------------
(***************************************************************************)
(* Small machine-code programs run on the interpreter, one instruction a   *)
(* step.  A job is a program with its data: one arithmetic instruction on  *)
(* chosen operands, a sum of long numbers byte by byte (the loop the       *)
(* transport uses on sequence numbers), a block instruction, or a routine  *)
(* that calls itself.  What it must leave is defined here from the numbers *)
(* alone, without the interpreter's operators.                             *)
(***************************************************************************)
EXTENDS Z80Core, FiniteSets

CONSTANTS
    Operands,   \* bytes the arithmetic jobs are run on
    WideOperands, \* words the sixteen-bit jobs are run on
    Longs,      \* numbers of three bytes the long sums are run on
    Spans,      \* lengths of the block jobs
    Depths      \* numbers of nested calls

ASSUME JobsAssumption ==
    /\ Operands \subseteq 0..255
    /\ Longs \subseteq 0..(256^3 - 1)
    /\ Spans \subseteq 1..6
    /\ Depths \subseteq 1..20

VARIABLES
    job,        \* the program being run, with its data
    z,          \* the processor and its memory
    steps       \* instructions run so far

vars == <<job, z, steps>>

HALT == 118
Text == 1000        \* where the data of a job starts; programs start at 0

\* Arithmetic: the opcode bytes, and the accumulator, operand and carry.
Binary == {<<128 + 8 * y>> : y \in 0..7}
Unary == {<<60>>, <<61>>, <<237, 68>>} \cup {<<203, 7 + 8 * y>> : y \in 0..7}
Arithmetic ==
    [kind : {"binary"}, code : Binary, x : Operands, y : Operands, carry : {0, 1}]
    \cup [kind : {"unary"}, code : Unary, x : Operands, y : {0}, carry : {0, 1}]

\* DAA after ADD or SUB of two numbers of two decimal digits.
Decimals == {n \in Operands : n < 100}
Decimal == [kind : {"decimal"}, code : {<<128, 39>>, <<144, 39>>},
            x : Decimals, y : Decimals, carry : {0}]
Digits(n) == 16 * (n \div 10) + (n % 10)

\* x + y, least byte first, into x: by HL and DE, or by IX and IY.
LongLoop  == <<183, 26, 142, 18, 35, 19, 16, 249, HALT>>
IndexLoop == <<183, 221, 126, 0, 253, 142, 0, 221, 119, 0, 221, 35, 253, 35,
               16, 241, HALT>>
LongSum == [kind : {"sum"}, code : {LongLoop, IndexLoop}, x : Longs, y : Longs]

\* LDIR LDDR, CPIR CPDR, INIR INDR, OTIR OTDR over a text of six bytes.
Sequel == [kind : {"block"}, code : {<<237, op, HALT>> : op \in 176..179 \cup 184..187},
           from : 0..5, to : 0..5, len : Spans, want : {0, 3}]
InText(j) == IF j.code[2] < 180 THEN j.from + j.len <= 6 /\ j.to + j.len <= 6
             ELSE j.from + 1 >= j.len /\ j.to + 1 >= j.len

\* f(n): PUSH BC; DEC B; CALL NZ,f; POP BC; ADD A,B; RET
Recursion == [kind : {"calls"}, depth : Depths,
              code : {<<205, 4, 0, HALT, 197, 5, 196, 4, 0, 193, 128, 201>>}]

\* Sixteen-bit sums and differences: ADD, ADC and SBC HL,BC.
Wides == [kind : {"wide"}, code : {<<9>>, <<237, 74>>, <<237, 66>>},
          x : WideOperands, y : WideOperands, carry : {0, 1}]

\* Every instruction of the IX table, on IX and on IY, with its operands.
UsesMemory(op) == op \in (52..54) \cup (112..119) \/ (op \in 64..191 /\ op % 8 = 6)
Follow(op, n) ==
    CASE op \in {33, 34, 42} -> {<<232, 3>>}
      [] op \in {38, 46} -> {<<5>>}
      [] op = 54 -> {<<n, 5>>}
      [] op = 203 -> {<<n, sub>> : sub \in 0..255}
      [] OTHER -> IF UsesMemory(op) THEN {<<n>>} ELSE {<<>>}
IndexJobs == UNION {[kind : {"index"}, code : {<<p, op>> \o t : p \in {221, 253}, t \in Follow(op, n)},
                     index : {Text + 2, 65279}] : op \in {v \in 0..255 : IsIx(v)}, n \in {2, 254}}

Jobs == Arithmetic \cup Wides \cup Decimal \cup LongSum \cup {j \in Sequel : InText(j)} \cup Recursion
        \cup IndexJobs

Long(n) == <<n % 256, (n \div 256) % 256, n \div 65536>>
Bytes(at, s) == [p \in at..(at + Len(s) - 1) |-> s[p - at + 1]]
Original == <<1, 2, 3, 4, 3, 6>>

Loaded(j) == [PowerOn EXCEPT !.mem = Bytes(0, j.code)]
\* Registers and memory the index jobs start with; HL, IX and IY are chosen.
Indexing(m, hl, ix, iy) ==
    SetWide([m EXCEPT !.mem = Bytes(Text, Original) @@ (2000 :> 77) @@ (2001 :> 88) @@ @,
                      !.a = 91, !.b = 17, !.c = 34, !.d = 51, !.e = 136, !.f.C = 1,
                      !.sp = 2000, !.ix = ix, !.iy = iy], 2, hl)
Start(j) ==
    LET m == Loaded(j)
    IN CASE j.kind \in {"binary", "unary"} -> [m EXCEPT !.a = j.x, !.b = j.y, !.f.C = j.carry]
         [] j.kind = "decimal" -> [m EXCEPT !.a = Digits(j.x), !.b = Digits(j.y)]
         [] j.kind = "sum" ->
              LET data == [m EXCEPT !.mem = Bytes(Text, Long(j.x)) @@ Bytes(Text + 8, Long(j.y)) @@ @]
              IN [SetWide(SetWide(data, 1, Text), 2, Text + 8) EXCEPT
                    !.ix = Text, !.iy = Text + 8, !.b = 3, !.f.C = 1]
         [] j.kind = "block" ->
              LET data == [m EXCEPT !.mem = Bytes(Text, Original) @@ @, !.a = j.want,
                                    !.bus = 9]
                  counter == IF j.code[2] % 4 < 2 THEN j.len ELSE 256 * j.len + 7
              IN SetWide(SetWide(SetWide(data, 0, counter), 1, Text + j.to), 2, Text + j.from)
         [] j.kind = "wide" ->
              [SetWide(SetWide(m, 0, j.y), 2, j.x) EXCEPT !.f.C = j.carry]
         [] j.kind = "index" -> Indexing(m, 513, IF j.code[1] = 221 THEN j.index ELSE 7,
                                         IF j.code[1] = 253 THEN j.index ELSE 7)
         [] j.kind = "calls" -> [m EXCEPT !.b = j.depth]

Init == job \in Jobs /\ z = Start(job) /\ steps = 0

\* The program is over when it halts or runs past its last byte.
Ended == z.halted \/ z.pc >= Len(job.code)
Step == ~Ended /\ z' = run_instruction(z) /\ steps' = steps + 1 /\ UNCHANGED job

Next == Step
Spec == Init /\ [][Next]_vars

----------------------------------------------------------------------------
(* What the numbers say.                                                   *)

Signed(v) == IF v > 127 THEN v - 256 ELSE v
Differ(v, w, n) == (Bit(v, n) + Bit(w, n)) % 2
Even(v) == Cardinality({n \in 0..7 : Bit(v, n) = 1}) % 2 = 0

\* Sum and difference over the integers, and the flags that describe them:
\* a half carry is a disagreement of bit 4 with the operands' bits.
Flags(v, carry, half, parity) ==
    /\ z.f.S = B(Signed(v) < 0)
    /\ z.f.Z = B(v = 0)
    /\ z.f.C = B(carry)
    /\ z.f.H = half
    /\ z.f.P = B(parity)
Adds(x, y, c) ==
    LET v == (x + y + c) % 256
    IN z.a = v /\ Flags(v, x + y + c # v, (Differ(x, y, 4) + Bit(v, 4)) % 2,
                        Signed(x) + Signed(y) + c # Signed(v))
Subtracts(x, y, c, left) ==
    LET v == (x - y - c) % 256
    IN z.a = left /\ Flags(v, x - y - c # v, (Differ(x, y, 4) + Bit(v, 4)) % 2,
                           Signed(x) - Signed(y) - c # Signed(v))
Combines(v, half) == z.a = v /\ Flags(v, FALSE, half, Even(v))
Bits(p(_)) == LET on(n) == IF p(n) THEN 2^n ELSE 0
              IN on(0) + on(1) + on(2) + on(3) + on(4) + on(5) + on(6) + on(7)

BinaryRight ==
    LET x == job.x
        y == job.y
        c == job.carry
        both(n) == Bit(x, n) = 1 /\ Bit(y, n) = 1
        either(n) == Bit(x, n) = 1 \/ Bit(y, n) = 1
        one(n) == Bit(x, n) # Bit(y, n)
    IN CASE job.code = <<128>> -> Adds(x, y, 0)
         [] job.code = <<136>> -> Adds(x, y, c)
         [] job.code = <<144>> -> Subtracts(x, y, 0, (x - y) % 256)
         [] job.code = <<152>> -> Subtracts(x, y, c, (x - y - c) % 256)
         [] job.code = <<160>> -> Combines(Bits(both), 1)
         [] job.code = <<168>> -> Combines(Bits(one), 0)
         [] job.code = <<176>> -> Combines(Bits(either), 0)
         [] job.code = <<184>> -> Subtracts(x, y, 0, x)

\* INC and DEC keep the carry; NEG is 0 - A; a shift moves A through nine
\* bits with the carry, or drops and fills as its name says.
Shifts(v, out) == z.a = v /\ Flags(v, out = 1, 0, Even(v))
UnaryRight ==
    LET x == job.x
        c == job.carry
        v == z.a
    IN CASE job.code = <<60>> -> v = (x + 1) % 256 /\ Flags(v, c = 1, B(v % 16 = 0), x = 127)
         [] job.code = <<61>> -> v = (x - 1) % 256 /\ Flags(v, c = 1, B(x % 16 = 0), x = 128)
         [] job.code = <<237, 68>> -> Subtracts(0, x, 0, (256 - x) % 256)
         [] job.code = <<203, 7>>  -> Shifts((2 * x + x \div 128) % 256, x \div 128)
         [] job.code = <<203, 15>> -> Shifts((x + 256 * (x % 2)) \div 2, x % 2)
         [] job.code = <<203, 23>> -> Shifts((2 * x + c) % 256, (2 * x + c) \div 256)
         [] job.code = <<203, 31>> -> Shifts((x + 256 * c) \div 2, (x + 256 * c) % 2)
         [] job.code = <<203, 39>> -> Shifts((2 * x) % 256, (2 * x) \div 256)
         [] job.code = <<203, 47>> -> Shifts((Signed(x) \div 2) % 256, x % 2)
         [] job.code = <<203, 55>> -> Shifts((2 * x + 1) % 256, (2 * x) \div 256)
         [] job.code = <<203, 63>> -> Shifts(x \div 2, x % 2)

DecimalRight ==
    LET n == IF job.code[1] = 128 THEN job.x + job.y ELSE job.x - job.y
    IN z.a = Digits(n % 100) /\ z.f.C = B(n \notin 0..99)

\* HL, S, Z and C always; H and P unless adding the carry to the operand has
\* already carried out of its low twelve or its low fifteen bits.
WideRight ==
    LET c == IF job.code = <<9>> THEN 0 ELSE job.carry
        n == IF job.code = <<237, 66>> THEN 0 - job.y - c ELSE job.y + c
        v == (job.x + n) % 65536
        signed(w) == IF w > 32767 THEN w - 65536 ELSE w
        exact == IF job.code = <<237, 66>> THEN signed(job.x) - signed(job.y) - c
                 ELSE signed(job.x) + signed(job.y) + c
    IN /\ HL(z) = v
       /\ z.f.C = B(job.x + n # v)
       /\ (job.y + c) % 4096 # 0 \/ c = 0 =>
            z.f.H = (Differ(job.x, job.y, 12) + Bit(v, 12)) % 2
       /\ job.code # <<9>> => z.f.S = B(signed(v) < 0) /\ z.f.Z = B(v = 0)
       /\ job.code # <<9>> /\ ((job.y + c) % 32768 # 0 \/ c = 0) =>
            z.f.P = B(exact # signed(v))

\* The byte-wise sum of two long numbers is their sum: the carry of one byte
\* reaches the next through INC, LD and DJNZ, which must leave it alone.
LongSumRight ==
    /\ [n \in 1..3 |-> z.mem[Text + n - 1]] = Long((job.x + job.y) % 256^3)
    /\ [n \in 1..3 |-> z.mem[Text + n + 7]] = Long(job.y)
    /\ z.f.C = B(job.x + job.y >= 256^3)

\* The block instructions, each as one operation on the text.  A copy onto
\* itself repeats what it has already written.
Left == IF job.code[2] < 180 THEN 1 ELSE 0 - 1
At(k) == Text + job.from + Left * k
Was(p) == Original[p - Text + 1]
Gap == (job.to - job.from) * Left
Matches == {k \in 0..(job.len - 1) : Was(At(k)) = job.want}
Seen == IF Matches = {} THEN job.len
        ELSE 1 + CHOOSE k \in Matches : \A m \in Matches : k <= m
Expected(p) ==
    LET k == (p - Text - job.to) * Left       \* the cell's place in the copy
        h == (p - Text - job.from) * Left     \* and in what INIR fills
    IN CASE job.code[2] \in {176, 184} /\ k \in 0..(job.len - 1) ->
              Was(At(IF Gap > 0 THEN k % Gap ELSE k))
         [] job.code[2] \in {178, 186} /\ h \in 0..(job.len - 1) -> 9
         [] OTHER -> Was(p)
BlockRight ==
    /\ \A p \in Text..(Text + 5) : z.mem[p] = Expected(p)
    /\ HL(z) = At(IF job.code[2] \in {177, 185} THEN Seen ELSE job.len)
    /\ (job.code[2] \in {177, 185}) => z.f.Z = B(Matches # {}) /\ BC(z) = job.len - Seen
    /\ (job.code[2] \in {176, 184}) => BC(z) = 0 /\ DE(z) = Text + job.to + Left * job.len
    /\ (job.code[2] \in {179, 187}) =>
         [k \in DOMAIN z.out |-> z.out[k][2]] = [k \in 1..job.len |-> Was(At(k - 1))]

\* Nested calls come back in order: the sum of what each level pushed, the
\* stack pointer where it was, and nothing written outside the stack used.
CallsRight ==
    /\ z.a = ((job.depth * (job.depth + 1)) \div 2) % 256
    /\ z.sp = PowerOn.sp
    /\ DOMAIN z.mem = (0..11) \cup (z.sp - 4 * job.depth)..(z.sp - 1)

\* The same instruction without the prefix, with the index register's value
\* (or IX+n, where the instruction reaches memory) in HL.
Plain(j) ==
    LET op == j.code[2]
        n == IF Len(j.code) = 2 THEN 0 ELSE Signed(j.code[3])
        code == IF op = 203 THEN <<203, j.code[4]>>
                ELSE IF op = 54 THEN <<54, j.code[4]>>
                ELSE IF UsesMemory(op) THEN <<op>> ELSE Tail(j.code)
        at == IF UsesMemory(op) \/ op = 203 THEN (j.index + n) % 65536 ELSE j.index
    IN Indexing([PowerOn EXCEPT !.mem = Bytes(0, code)], at, 7, 7)
Data(m) == [p \in {q \in DOMAIN m.mem : q >= Text} |-> m.mem[p]]

\* The IX table agrees with the main table: a prefixed instruction does to A,
\* the flags, BC, DE, SP and memory what the plain one does with HL, leaves
\* the result where HL would have it, and HL and the other index register
\* alone.  The shifts of (IX+n) also load the register their code names.
IndexedLikeHL ==
    (Ended /\ job.kind = "index") =>
        LET op == job.code[2]
            w  == (IF op = 203 THEN job.code[4] ELSE op) % 8
            memory == UsesMemory(op) \/ op = 203
            bit == op = 203 /\ job.code[4] \div 64 = 1
            start == Plain(job)
            plain == run_instruction(IF op = 203 THEN [start EXCEPT !.mem[1] = @ - w + 6] ELSE start)
            mine == IF job.code[1] = 221 THEN z.ix ELSE z.iy
            other == IF job.code[1] = 221 THEN z.iy ELSE z.ix
            copied == IF op = 203 /\ ~bit /\ w # 6 THEN {RegName[w + 1]} ELSE {}
            loaded == IF op = 102 THEN {"h"} ELSE IF op = 110 THEN {"l"} ELSE {}
        IN /\ op \notin {116, 117} => Data(z) = Data(plain)
           /\ \A k \in ({"a", "b", "c", "d", "e", "sp"} \cup loaded) \ copied : z[k] = plain[k]
           /\ \A k \in copied : z[k] = mem_read(plain, HL(plain))
           /\ \A k \in ({"h", "l"} \ loaded) \ copied : z[k] = Indexing(PowerOn, 513, 7, 7)[k]
           /\ \A k \in Flag \ (IF bit THEN {"X", "Y"} ELSE {}) : z.f[k] = plain.f[k]
           /\ mine % 65536 = IF memory THEN job.index ELSE HL(plain)
           /\ other = 7
           /\ op = 233 => z.pc = plain.pc

\* How many instructions the program takes: a repeated block instruction once
\* for each byte it treats, a loop once for each byte of the number, a call once
\* for each level.  A program that did not end would pass its count.
Longest ==
    CASE job.kind = "decimal" -> 2
      [] job.kind = "sum" -> 20
      [] job.kind = "block" -> 1 + (IF job.code[2] \in {177, 185} THEN Seen ELSE job.len)
      [] job.kind = "calls" -> 2 + 6 * job.depth
      [] OTHER -> 1

\* Every program ends in time and leaves what it should: the result and the S,
\* Z, H, P and C flags of its sum, difference, combination or shift (do_add ..
\* do_srl, do_neg), the decimal digits after DAA, the sum of two long numbers,
\* the copied, searched, filled or sent text, and the stack as calls found it.
ProgramsExact ==
    /\ steps <= Longest
    /\ Ended => CASE job.kind = "binary" -> BinaryRight
                  [] job.kind = "unary" -> UnaryRight
                  [] job.kind = "decimal" -> DecimalRight
                  [] job.kind = "wide" -> WideRight
                  [] job.kind = "sum" -> LongSumRight
                  [] job.kind = "block" -> BlockRight
                  [] job.kind = "calls" -> CallsRight
                  [] job.kind = "index" -> TRUE     \* see IndexedLikeHL

============================================================================
