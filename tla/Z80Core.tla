------------------------------ MODULE Z80Core ------------------------------
(***************************************************************************)
(* The Z80 interpreter the executable tests run on                         *)
(* (tools/exe-harness/Z80core.js).  The processor is one record, and every *)
(* function of the interpreter is an operator from a machine to the next   *)
(* machine.  The two callbacks the harness gives the interpreter are       *)
(* external: memory is the function `mem' (a byte that was never written   *)
(* reads 0), a port read returns `bus', and a port write is appended to    *)
(* `out'.  Left out: the cycle counts, which nothing in the harness reads, *)
(* and interrupt(), which nothing in the harness calls.                    *)
(*                                                                         *)
(* An opcode is decoded by its fields, as 64x + 8y + w; `y' and `w' below. *)
(***************************************************************************)
EXTENDS Integers, Sequences, Bitwise, TLC

Flag == {"S", "Z", "Y", "H", "X", "P", "N", "C"}
NoFlags == [k \in Flag |-> 0]

\* B, C, D, E, H, L by the code an instruction has for them; 6 is (HL).
RegName == <<"b", "c", "d", "e", "h", "l", "(hl)", "a">>

B(p) == IF p THEN 1 ELSE 0
Bit(v, n) == (v \div 2^n) % 2
Wrap(v) == v % 65536

\* The registers as the interpreter is constructed.
PowerOn ==
    [a |-> 0, b |-> 0, c |-> 0, d |-> 0, e |-> 0, h |-> 0, l |-> 0,
     a_ |-> 0, b_ |-> 0, c_ |-> 0, d_ |-> 0, e_ |-> 0, h_ |-> 0, l_ |-> 0,
     ix |-> 0, iy |-> 0, i |-> 0, r |-> 0, sp |-> 57328, pc |-> 0,
     f |-> NoFlags, f_ |-> NoFlags, imode |-> 0, iff1 |-> 0, iff2 |-> 0,
     halted |-> FALSE, delayedDi |-> FALSE, delayedEi |-> FALSE,
     mem |-> <<>>, bus |-> 0, out |-> <<>>]

reset(z) ==
    [z EXCEPT !.sp = 57328, !.pc = 0, !.a = 0, !.r = 0, !.f = NoFlags,
              !.imode = 0, !.iff1 = 0, !.iff2 = 0, !.halted = FALSE,
              !.delayedDi = FALSE, !.delayedEi = FALSE]

----------------------------------------------------------------------------
(* Memory, ports, register pairs, operands that follow the opcode.         *)

mem_read(z, at) == IF at \in DOMAIN z.mem THEN z.mem[at] ELSE 0
mem_write(z, at, v) == [z EXCEPT !.mem = (at :> v) @@ @]
io_write(z, port, v) == [z EXCEPT !.out = Append(@, <<port, v>>)]

Pair(z, hi, lo) == z[lo] + 256 * z[hi]
SetPair(z, hi, lo, v) ==
    [z EXCEPT ![lo] = v % 256, ![hi] = (v \div 256) % 256]
BC(z) == Pair(z, "b", "c")
DE(z) == Pair(z, "d", "e")
HL(z) == Pair(z, "h", "l")

Skip(z, n) == [z EXCEPT !.pc = Wrap(@ + n)]
ReadWord(z, at) == mem_read(z, at) + 256 * mem_read(z, Wrap(at + 1))
WriteWord(z, at, lo, hi) == mem_write(mem_write(z, at, lo), Wrap(at + 1), hi)
NextByte(z) == mem_read(z, Wrap(z.pc + 1))
NextWord(z) == ReadWord(z, Wrap(z.pc + 1))

get_signed_offset_byte(v) == IF v >= 128 THEN v - 256 ELSE v

get_operand(z, w) ==
    IF w = 6 THEN mem_read(z, HL(z)) ELSE z[RegName[w + 1]]
SetOperand(z, w, v) ==
    IF w = 6 THEN mem_write(z, HL(z), v) ELSE [z EXCEPT ![RegName[w + 1]] = v]

----------------------------------------------------------------------------
(* Flags.                                                                  *)

get_flags_register(f) ==
    128*f.S + 64*f.Z + 32*f.Y + 16*f.H + 8*f.X + 4*f.P + 2*f.N + f.C
set_flags_register(v) ==
    [S |-> Bit(v, 7), Z |-> Bit(v, 6), Y |-> Bit(v, 5), H |-> Bit(v, 4),
     X |-> Bit(v, 3), P |-> Bit(v, 2), N |-> Bit(v, 1), C |-> Bit(v, 0)]

XY(f, v) == [f EXCEPT !.Y = Bit(v, 5), !.X = Bit(v, 3)]
update_xy_flags(z, v) == [z EXCEPT !.f = XY(@, v)]
SZ(f, v) == [f EXCEPT !.S = Bit(v, 7), !.Z = B(v % 256 = 0)]

\* The table of 256 entries: 1 where the number of ones is even.
get_parity(v) ==
    (1 + Bit(v, 0) + Bit(v, 1) + Bit(v, 2) + Bit(v, 3)
       + Bit(v, 4) + Bit(v, 5) + Bit(v, 6) + Bit(v, 7)) % 2

\* The stack grows down, high byte first.
push_word(z, v) ==
    LET hi == mem_write([z EXCEPT !.sp = Wrap(@ - 1)], Wrap(z.sp - 1), (v \div 256) % 256)
    IN mem_write([hi EXCEPT !.sp = Wrap(@ - 1)], Wrap(hi.sp - 1), v % 256)
Popped(z) == ReadWord(z, z.sp)
pop_word(z) == [z EXCEPT !.sp = Wrap(@ + 2)]

----------------------------------------------------------------------------
(* Control flow.  run_instruction adds one to pc after the instruction, so *)
(* a taken branch stores its target less one.                              *)

Goto(z, target) == [z EXCEPT !.pc = Wrap(target - 1)]
do_conditional_absolute_jump(z, taken) ==
    IF taken THEN Goto(z, NextWord(z)) ELSE Skip(z, 2)
do_conditional_relative_jump(z, taken) ==
    Skip(z, 1 + IF taken THEN get_signed_offset_byte(NextByte(z)) ELSE 0)
do_conditional_call(z, taken) ==
    IF taken THEN Goto(push_word(z, Wrap(z.pc + 3)), NextWord(z)) ELSE Skip(z, 2)
do_conditional_return(z, taken) ==
    IF taken THEN Goto(pop_word(z), Popped(z)) ELSE z
do_reset(z, address) == Goto(push_word(z, Wrap(z.pc + 1)), address)

\* NZ Z NC C PO PE P M, by their code.
Condition(z, y) == z.f[<<"Z", "C", "P", "S">>[y \div 2 + 1]] = y % 2

----------------------------------------------------------------------------
(* Eight-bit arithmetic and logic.                                         *)

Plus(z, n, carry) ==
    LET v == (z.a + n + carry) % 256
        signs == Bit(z.a, 7) = Bit(n, 7) /\ Bit(z.a, 7) # Bit(v, 7)
        f == [SZ(z.f, v) EXCEPT !.H = B((n % 16) + (z.a % 16) + carry > 15),
                                !.P = B(signs), !.N = 0,
                                !.C = B(z.a + n + carry > 255)]
    IN [z EXCEPT !.a = v, !.f = XY(f, v)]
Minus(z, n, carry) ==
    LET v == (z.a - n - carry) % 256
        signs == Bit(z.a, 7) # Bit(n, 7) /\ Bit(z.a, 7) # Bit(v, 7)
        f == [SZ(z.f, v) EXCEPT !.H = B((z.a % 16) - (n % 16) - carry < 0),
                                !.P = B(signs), !.N = 1,
                                !.C = B(z.a - n - carry < 0)]
    IN [z EXCEPT !.a = v, !.f = XY(f, v)]
do_add(z, n) == Plus(z, n, 0)
do_adc(z, n) == Plus(z, n, z.f.C)
do_sub(z, n) == Minus(z, n, 0)
do_sbc(z, n) == Minus(z, n, z.f.C)
do_cp(z, n) == update_xy_flags([do_sub(z, n) EXCEPT !.a = z.a], n)

Logic(z, v, half) ==
    [z EXCEPT !.a = v,
              !.f = XY([SZ(z.f, v) EXCEPT !.H = half, !.P = get_parity(v),
                                          !.N = 0, !.C = 0], v)]
do_and(z, n) == Logic(z, z.a & n, 1)
do_or(z, n)  == Logic(z, z.a | n, 0)
do_xor(z, n) == Logic(z, z.a ^^ n, 0)

\* The eight operations of an opcode 8y + w, in the order of op_array.
Accumulate(z, y, n) ==
    CASE y = 0 -> do_add(z, n) [] y = 1 -> do_adc(z, n) [] y = 2 -> do_sub(z, n)
      [] y = 3 -> do_sbc(z, n) [] y = 4 -> do_and(z, n) [] y = 5 -> do_xor(z, n)
      [] y = 6 -> do_or(z, n)  [] y = 7 -> do_cp(z, n)

\* INC, DEC and the shifts return a byte and set flags: a pair of both.
do_inc(f, n) ==
    LET v == (n + 1) % 256
    IN [v |-> v, f |-> XY([SZ(f, v) EXCEPT !.H = B(n % 16 = 15),
                                           !.P = B(n = 127), !.N = 0], v)]
do_dec(f, n) ==
    LET v == (n - 1) % 256
    IN [v |-> v, f |-> XY([SZ(f, v) EXCEPT !.H = B(n % 16 = 0),
                                           !.P = B(n = 128), !.N = 1], v)]
Settle(z, w, done) == [SetOperand(z, w, done.v) EXCEPT !.f = done.f]

do_neg(z) ==
    LET v == (0 - z.a) % 256
        f == [SZ(z.f, v) EXCEPT !.H = B(z.a % 16 > 0), !.P = B(v = 128),
                                !.N = 1, !.C = B(v # 0)]
    IN [z EXCEPT !.a = v, !.f = XY(f, v)]

\* Decimal adjustment after an addition (N = 0) or a subtraction.
Daa(z) ==
    LET low  == IF z.f.H = 1 \/ z.a % 16 > 9 THEN 6 ELSE 0
        high == IF z.f.C = 1 \/ z.a > 153 THEN 96 ELSE 0
        v    == (z.a + (IF z.f.N = 0 THEN low + high ELSE 0 - low - high)) % 256
        f    == [SZ(z.f, v) EXCEPT !.H = B(Bit(z.a, 4) # Bit(v, 4)),
                                   !.P = get_parity(v), !.C = B(high = 96)]
    IN [z EXCEPT !.a = v, !.f = XY(f, v)]

----------------------------------------------------------------------------
(* Shifts and rotates: the bit that falls out becomes the carry.           *)

Shifted(f, v, carry) ==
    [v |-> v, f |-> XY([SZ(f, v) EXCEPT !.N = 0, !.H = 0, !.C = carry,
                                        !.P = get_parity(v)], v)]
do_rlc(f, n) == Shifted(f, ((2*n) % 256) + Bit(n, 7), Bit(n, 7))
do_rrc(f, n) == Shifted(f, n \div 2 + 128 * Bit(n, 0), Bit(n, 0))
do_rl(f, n)  == Shifted(f, ((2*n) % 256) + f.C, Bit(n, 7))
do_rr(f, n)  == Shifted(f, n \div 2 + 128 * f.C, Bit(n, 0))
do_sla(f, n) == Shifted(f, (2*n) % 256, Bit(n, 7))
do_sra(f, n) == Shifted(f, n \div 2 + 128 * Bit(n, 7), Bit(n, 0))
do_sll(f, n) == Shifted(f, ((2*n) % 256) + 1, Bit(n, 7))
do_srl(f, n) == Shifted(f, n \div 2, Bit(n, 0))
Shift(f, y, n) ==
    CASE y = 0 -> do_rlc(f, n) [] y = 1 -> do_rrc(f, n) [] y = 2 -> do_rl(f, n)
      [] y = 3 -> do_rr(f, n)  [] y = 4 -> do_sla(f, n) [] y = 5 -> do_sra(f, n)
      [] y = 6 -> do_sll(f, n) [] y = 7 -> do_srl(f, n)

\* RLCA, RRCA, RLA, RRA keep S, Z and P.
ShiftA(z, y) ==
    LET done == Shift(z.f, y, z.a)
    IN [z EXCEPT !.a = done.v,
                 !.f = [done.f EXCEPT !.S = z.f.S, !.Z = z.f.Z, !.P = z.f.P]]

\* RLD (left) and RRD: a nibble of A goes through the byte at HL.
RotateDigit(z, left) ==
    LET m == mem_read(z, HL(z))
        byte == IF left THEN (m % 16) * 16 + (z.a % 16) ELSE m \div 16 + (z.a % 16) * 16
        v == (z.a \div 16) * 16 + (IF left THEN m \div 16 ELSE m % 16)
        f == [SZ(z.f, v) EXCEPT !.H = 0, !.P = get_parity(v), !.N = 0]
    IN [mem_write(z, HL(z), byte) EXCEPT !.a = v, !.f = XY(f, v)]

----------------------------------------------------------------------------
(* Sixteen-bit arithmetic.  ADC and SBC add the carry to the operand first *)
(* and look at that sum's bits; ADD IX does not cut its result to 16 bits. *)

do_hl_add(z, n) ==
    LET result == HL(z) + n
        f == [z.f EXCEPT !.N = 0, !.C = Bit(result, 16),
                         !.H = B((HL(z) % 4096) + (n % 4096) > 4095)]
    IN [SetPair(z, "h", "l", result) EXCEPT !.f = XY(f, (result \div 256) % 256)]
WideFlags(f, result, half, overflow, n) ==
    XY([f EXCEPT !.S = Bit(result, 15), !.Z = B(Wrap(result) = 0), !.H = B(half),
                 !.P = B(overflow), !.N = n, !.C = Bit(result, 16)],
       (result \div 256) % 256)
do_hl_adc(z, op) ==
    LET n == op + z.f.C
        result == HL(z) + n
        overflow == Bit(HL(z), 15) = Bit(n, 15) /\ Bit(result, 15) # Bit(HL(z), 15)
    IN [SetPair(z, "h", "l", result) EXCEPT
          !.f = WideFlags(@, result, (HL(z) % 4096) + (n % 4096) > 4095, overflow, 0)]
do_hl_sbc(z, op) ==
    LET n == op + z.f.C
        result == HL(z) - n
        overflow == Bit(HL(z), 15) # Bit(n, 15) /\ Bit(result, 15) # Bit(HL(z), 15)
    IN [SetPair(z, "h", "l", result) EXCEPT
          !.f = WideFlags(@, result, HL(z) % 4096 < n % 4096, overflow, 1)]
do_ix_add(z, n) ==
    LET result == z.ix + n
        f == [z.f EXCEPT !.N = 0, !.C = Bit(result, 16),
                         !.H = B((z.ix % 4096) + (n % 4096) > 4095)]
    IN [z EXCEPT !.ix = result, !.f = XY(f, (result \div 256) % 256)]

\* BC, DE, HL or SP by the code 0..3.
Wide(z, p) ==
    CASE p = 0 -> BC(z) [] p = 1 -> DE(z) [] p = 2 -> HL(z) [] p = 3 -> z.sp
SetWide(z, p, v) ==
    CASE p = 0 -> SetPair(z, "b", "c", v) [] p = 1 -> SetPair(z, "d", "e", v)
      [] p = 2 -> SetPair(z, "h", "l", v) [] p = 3 -> [z EXCEPT !.sp = Wrap(v)]

----------------------------------------------------------------------------
(* Block instructions: one byte, then the pointers and the counter.  `up'  *)
(* is 1 for LDI, CPI, INI, OUTI and -1 for LDD, CPD, IND, OUTD.            *)

MoveHL(z, up) == SetWide(z, 2, HL(z) + up)
do_ldiMovesFirst(z, up) ==
    LET moved == SetWide(MoveHL(z, up), 1, DE(z) + up)
    IN SetWide(mem_write(moved, DE(moved), mem_read(z, HL(z))), 0, BC(z) - 1)
do_ldi(z, up) ==
    LET byte == mem_read(z, HL(z))
        sum  == z.a + byte
        moved == SetWide(MoveHL(mem_write(z, DE(z), byte), up), 1, DE(z) + up)
        counted == SetWide(moved, 0, BC(z) - 1)
    IN [counted EXCEPT !.f.H = 0, !.f.N = 0, !.f.P = B(BC(counted) # 0),
                       !.f.Y = Bit(sum, 1), !.f.X = Bit(sum, 3)]
do_cpi(z, up) ==
    LET byte == mem_read(z, HL(z))
        compared == do_cp(z, byte)
        rest == z.a - byte - compared.f.H
        counted == SetWide(MoveHL(compared, up), 0, BC(z) - 1)
    IN [counted EXCEPT !.f.C = z.f.C, !.f.P = B(BC(z) # 1),
                       !.f.Y = Bit(rest, 1), !.f.X = Bit(rest, 3)]
CountB(z) == [Settle(z, 0, do_dec(z.f, z.b)) EXCEPT !.f.N = 1]
do_ini(z, up) == MoveHL(mem_write(CountB(z), HL(z), z.bus), up)
do_outi(z, up) == CountB(MoveHL(io_write(z, BC(z), mem_read(z, HL(z))), up))

\* The forms ending in R go back over their own two bytes until done.
Repeat(z, again) == IF again THEN [z EXCEPT !.pc = Wrap(@ - 2)] ELSE z
Block(z, op) ==
    LET up == IF Bit(op, 3) = 0 THEN 1 ELSE 0 - 1
        once == CASE op % 4 = 0 -> do_ldi(z, up) [] op % 4 = 1 -> do_cpi(z, up)
                  [] op % 4 = 2 -> do_ini(z, up) [] op % 4 = 3 -> do_outi(z, up)
        left == CASE op % 4 = 0 -> BC(once) # 0
                  [] op % 4 = 1 -> once.f.Z = 0 /\ BC(once) # 0
                  [] OTHER -> once.b # 0
    IN Repeat(once, Bit(op, 4) = 1 /\ left)

----------------------------------------------------------------------------
(* The CB prefix: shifts, BIT, RES and SET on a register or on (HL).       *)

\* Every opcode fetch, the second byte of a prefixed one too, counts in R.
BumpR(z) == [z EXCEPT !.r = 128 * Bit(@, 7) + ((@ + 1) % 128)]
TestBit(z, n, bit) ==
    [z EXCEPT !.f.Z = 1 - Bit(n, bit), !.f.P = 1 - Bit(n, bit), !.f.N = 0, !.f.H = 1,
              !.f.S = B(bit = 7 /\ Bit(n, bit) = 1)]
Changed(f, x, y, n) ==
    CASE x = 0 -> Shift(f, y, n)
      [] x = 2 -> [f |-> f, v |-> n - 2^y * Bit(n, y)]
      [] x = 3 -> [f |-> f, v |-> n + 2^y * (1 - Bit(n, y))]
CbPrefix(z) ==
    LET op == NextByte(z)
        y  == (op \div 8) % 8
        n  == get_operand(z, op % 8)
        at == Skip(BumpR(z), 1)
        tested == TestBit(at, n, y)
    IN IF op \div 64 = 1
         THEN [tested EXCEPT !.f.Y = B(y = 5 /\ tested.f.Z = 0),
                             !.f.X = B(y = 3 /\ tested.f.Z = 0)]
         ELSE Settle(at, op % 8, Changed(z.f, op \div 64, y, n))

----------------------------------------------------------------------------
(* The ED prefix.  An opcode that is not in the table does nothing.        *)

do_in(z, w) ==
    LET f == [SZ(z.f, z.bus) EXCEPT !.H = 0, !.P = get_parity(z.bus), !.N = 0]
        read == [z EXCEPT !.f = XY(f, z.bus)]
    IN IF w = 6 THEN read ELSE SetOperand(read, w, z.bus)
LoadWide(z, p) == Skip(SetWide(z, p, ReadWord(z, NextWord(z))), 2)
StoreWide(z, p) ==
    Skip(WriteWord(z, NextWord(z), Wide(z, p) % 256, (Wide(z, p) \div 256) % 256), 2)
RetN(z) == [Goto(pop_word(z), Popped(z)) EXCEPT !.iff1 = z.iff2]
\* LD A,I and LD A,R: P shows whether interrupts were enabled.
LoadSpecial(z, v) ==
    [z EXCEPT !.a = v,
              !.f = XY([SZ(@, v) EXCEPT !.H = 0, !.P = z.iff2, !.N = 0], v)]

\* The columns a row of the ED table repeats for its two registers.
EdColumns(z, op) ==
    LET w == op % 8
        y == (op \div 8) % 8
        p == y \div 2
    IN CASE w = 0 -> do_in(z, y)
         [] w = 1 -> io_write(z, BC(z), IF y = 6 THEN 0 ELSE z[RegName[y + 1]])
         [] w = 2 -> IF y % 2 = 0 THEN do_hl_sbc(z, Wide(z, p)) ELSE do_hl_adc(z, Wide(z, p))
         [] w = 3 -> IF y % 2 = 0 THEN StoreWide(z, p) ELSE LoadWide(z, p)
         [] w = 4 -> do_neg(z)
         [] w = 5 -> RetN(z)
         [] w = 6 -> [z EXCEPT !.imode = <<0, 0, 1, 2>>[(y % 4) + 1]]
         [] OTHER -> z
Ed4(z, op) ==
    CASE op = 77 -> Goto(pop_word(z), Popped(z))              \* RETI
      [] op = 71 -> [z EXCEPT !.i = z.a]
      [] op = 79 -> [z EXCEPT !.r = z.a]
      [] OTHER   -> EdColumns(z, op)
Ed5(z, op) ==
    CASE op = 87 -> LoadSpecial(z, z.i)
      [] op = 95 -> LoadSpecial(z, z.r)
      [] OTHER   -> EdColumns(z, op)
Ed6(z, op) ==
    CASE op = 103 -> RotateDigit(z, FALSE)
      [] op = 111 -> RotateDigit(z, TRUE)
      [] OTHER    -> EdColumns(z, op)
Ed7(z, op) == EdColumns(z, op)
EdPrefix(z) ==
    LET op == NextByte(z)
        at == Skip(BumpR(z), 1)
    IN CASE op \in 64..79 -> Ed4(at, op) [] op \in 80..95 -> Ed5(at, op)
         [] op \in 96..111 -> Ed6(at, op) [] op \in 112..126 -> Ed7(at, op)
         [] op \in (160..163) \cup (168..171) \cup (176..179) \cup (184..187) -> Block(at, op)
         [] OTHER -> at
----------------------------------------------------------------------------
(* The DD prefix: the table of IX instructions.  The FD prefix runs the    *)
(* same table with IY in the place of IX.                                  *)

IXH(z) == (z.ix \div 256) % 256
IXL(z) == z.ix % 256
SetIXH(z, v) == [z EXCEPT !.ix = IXL(z) + 256 * v]
SetIXL(z, v) == [z EXCEPT !.ix = (Wrap(@) - IXL(z)) | v]
Indexed(z) == Wrap(z.ix + get_signed_offset_byte(NextByte(z)))
AtIndex(z) == mem_read(z, Indexed(z))

\* The operand of an eight-bit operation: IXH, IXL or (IX+n).
IxOperand(z, w) == CASE w = 4 -> IXH(z) [] w = 5 -> IXL(z) [] w = 6 -> AtIndex(z)
PastOffset(z, w) == IF w = 6 THEN Skip(z, 1) ELSE z

\* 09..39: sixteen-bit loads and arithmetic, and the halves of IX.
IxWide(z, op) ==
    LET p == op \div 16
        inc == do_inc(z.f, z.ix \div 256)
        dec == do_dec(z.f, z.ix \div 256)
        incL == do_inc(z.f, IXL(z))
        decL == do_dec(z.f, IXL(z))
    IN CASE op % 16 = 9 -> do_ix_add(z, IF p = 2 THEN z.ix ELSE Wide(z, p))
         [] op = 33 -> Skip([z EXCEPT !.ix = NextWord(z)], 2)
         [] op = 34 -> Skip(WriteWord(z, NextWord(z), IXL(z), IXH(z)), 2)
         [] op = 35 -> [z EXCEPT !.ix = Wrap(@ + 1)]
         [] op = 36 -> [SetIXH(z, inc.v) EXCEPT !.f = inc.f]
         [] op = 37 -> [SetIXH(z, dec.v) EXCEPT !.f = dec.f]
         [] op = 38 -> Skip(SetIXH(z, NextByte(z)), 1)
         [] op = 42 -> Skip([z EXCEPT !.ix = ReadWord(z, NextWord(z))], 2)
         [] op = 43 -> [z EXCEPT !.ix = Wrap(@ - 1)]
         [] op = 44 -> [SetIXL(z, incL.v) EXCEPT !.f = incL.f]
         [] op = 45 -> [SetIXL(z, decL.v) EXCEPT !.f = decL.f]
         [] op = 46 -> Skip(SetIXL(z, NextByte(z)), 1)
IxMemory(z, op) ==
    LET at == Indexed(z)
        done == IF op = 52 THEN do_inc(z.f, AtIndex(z)) ELSE do_dec(z.f, AtIndex(z))
    IN IF op = 54
         THEN Skip(mem_write(z, at, mem_read(z, Wrap(z.pc + 2))), 2)
         ELSE Skip([mem_write(z, at, done.v) EXCEPT !.f = done.f], 1)

\* 44..5E and 7C..7E: a register from IXH, IXL or (IX+n).
IxLoad(z, op) ==
    PastOffset([z EXCEPT ![RegName[((op \div 8) % 8) + 1]] = IxOperand(z, op % 8)], op % 8)
\* 60..6F: IXH or IXL from a register, and H or L from (IX+n).  LD IXL,IXH
\* takes what is above the low byte of IX, whatever its width.
IxHalves(z, op) ==
    LET w == op % 8
        source == CASE w = 5 -> IXL(z) [] w = 4 -> z.ix \div 256 [] OTHER -> z[RegName[w + 1]]
    IN CASE w = 6 -> IxLoad(z, op)
         [] op \in {100, 109} -> z
         [] op < 104 /\ op # 100 /\ w # 6 -> SetIXH(z, source)
         [] OTHER -> SetIXL(z, source)
\* 70..77: (IX+n) from a register.
IxStore(z, op) == Skip(mem_write(z, Indexed(z), z[RegName[(op % 8) + 1]]), 1)
\* 84..BE: arithmetic on A.
IxArithmetic(z, op) ==
    PastOffset(Accumulate(z, (op \div 8) % 8, IxOperand(z, op % 8)), op % 8)
\* CB: shifts and bits of (IX+n); the result also goes to a register, but
\* for code 6.
IxBits(z) ==
    LET at == Indexed(z)
        op == mem_read(z, Wrap(z.pc + 2))
        y  == (op \div 8) % 8
        w  == op % 8
        n  == mem_read(z, at)
        done == Changed(z.f, op \div 64, y, n)
        stored == [mem_write(z, at, done.v) EXCEPT !.f = done.f]
    IN Skip(IF op \div 64 = 1 THEN TestBit(z, n, y)
            ELSE IF w = 6 THEN stored ELSE [stored EXCEPT ![RegName[w + 1]] = done.v], 2)
\* E1..F9: the stack and jumps.
IxStack(z, op) ==
    CASE op = 225 -> pop_word([z EXCEPT !.ix = Popped(z)])
      [] op = 227 -> [WriteWord(z, z.sp, IXL(z), IXH(z)) EXCEPT !.ix = Popped(z)]
      [] op = 229 -> push_word(z, z.ix)
      [] op = 233 -> Goto(z, z.ix)
      [] op = 249 -> [z EXCEPT !.sp = z.ix]

\* The entries of the table, and what a prefix before anything else does:
\* it is passed over, and the next byte runs as if it had stood alone.
IsIx(op) ==
    \/ op \in {9, 25, 41, 57} \cup (33..38) \cup (42..46) \cup (52..54)
    \/ op \in (64..191) \ (112..119) /\ op % 8 \in 4..6
    \/ op \in ((96..111) \cup (112..119)) \ {118}
    \/ op \in {203, 225, 227, 229, 233, 249}
dd_instructions(z, op) ==
    CASE op \in 52..54 -> IxMemory(z, op)
      [] op < 52 \/ op = 57 -> IxWide(z, op)
      [] op \in (64..95) \cup (120..127) -> IxLoad(z, op)
      [] op \in 96..111 -> IxHalves(z, op)
      [] op \in 112..119 -> IxStore(z, op)
      [] op \in 128..191 -> IxArithmetic(z, op)
      [] op = 203 -> IxBits(z)
      [] OTHER -> IxStack(z, op)
DdPrefix(z) ==
    LET at == Skip(BumpR(z), 1)
    IN IF IsIx(NextByte(z)) THEN dd_instructions(at, NextByte(z)) ELSE BumpR(z)
FdPrefixKeepsIx(z) ==
    LET done == dd_instructions([Skip(BumpR(z), 1) EXCEPT !.ix = z.iy], NextByte(z))
    IN IF IsIx(NextByte(z)) THEN [done EXCEPT !.iy = done.ix] ELSE BumpR(z)
FdPrefix(z) ==
    LET at == Skip(BumpR(z), 1)
        done == dd_instructions([at EXCEPT !.ix = z.iy], NextByte(z))
    IN IF IsIx(NextByte(z)) THEN [done EXCEPT !.iy = done.ix, !.ix = z.ix] ELSE BumpR(z)

----------------------------------------------------------------------------
(* The main table, a row of sixteen at a time.                             *)

\* What the rows 00..3F share for their registers.
LowColumns(z, op) ==
    LET w == op % 8
        y == (op \div 8) % 8
        p == op \div 16
    IN CASE w = 4 -> Settle(z, y, do_inc(z.f, get_operand(z, y)))
         [] w = 5 -> Settle(z, y, do_dec(z.f, get_operand(z, y)))
         [] w = 6 -> Skip(SetOperand(z, y, NextByte(z)), 1)
         [] w = 7 -> ShiftA(z, y)
         [] op % 16 = 1  -> Skip(SetWide(z, p, NextWord(z)), 2)
         [] op % 16 = 3  -> SetWide(z, p, Wide(z, p) + 1)
         [] op % 16 = 9  -> do_hl_add(z, Wide(z, p))
         [] op % 16 = 11 -> SetWide(z, p, Wide(z, p) - 1)
Row0(z, op) ==
    CASE op = 0  -> z
      [] op = 2  -> mem_write(z, BC(z), z.a)
      [] op = 8  -> [z EXCEPT !.a = z.a_, !.a_ = z.a, !.f = z.f_, !.f_ = z.f]
      [] op = 10 -> [z EXCEPT !.a = mem_read(z, BC(z))]
      [] OTHER   -> LowColumns(z, op)
Row1(z, op) ==
    LET left == (z.b - 1) % 256
    IN CASE op = 16 -> do_conditional_relative_jump([z EXCEPT !.b = left], left # 0)
         [] op = 18 -> mem_write(z, DE(z), z.a)
         [] op = 24 -> do_conditional_relative_jump(z, TRUE)
         [] op = 26 -> [z EXCEPT !.a = mem_read(z, DE(z))]
         [] OTHER   -> LowColumns(z, op)
Row2(z, op) ==
    CASE op \in {32, 40} -> do_conditional_relative_jump(z, Condition(z, (op \div 8) % 4))
      [] op = 34 -> StoreWide(z, 2)
      [] op = 39 -> Daa(z)
      [] op = 42 -> LoadWide(z, 2)
      [] op = 47 -> update_xy_flags([z EXCEPT !.a = 255 - @, !.f.N = 1, !.f.H = 1], 255 - z.a)
      [] OTHER   -> LowColumns(z, op)
Row3(z, op) ==
    CASE op \in {48, 56} -> do_conditional_relative_jump(z, Condition(z, (op \div 8) % 4))
      [] op = 50 -> Skip(mem_write(z, NextWord(z), z.a), 2)
      [] op = 55 -> update_xy_flags([z EXCEPT !.f.N = 0, !.f.H = 0, !.f.C = 1], z.a)
      [] op = 58 -> Skip([z EXCEPT !.a = mem_read(z, NextWord(z))], 2)
      [] op = 63 -> update_xy_flags([z EXCEPT !.f.N = 0, !.f.H = z.f.C, !.f.C = 1 - @], z.a)
      [] OTHER   -> LowColumns(z, op)

\* AF, and BC, DE, HL, as PUSH and POP have them.
PushPair(z, p) ==
    push_word(z, IF p = 3 THEN get_flags_register(z.f) + 256 * z.a ELSE Wide(z, p))
PopPair(z, p) ==
    IF p = 3 THEN [pop_word(z) EXCEPT !.a = Popped(z) \div 256,
                                      !.f = set_flags_register(Popped(z) % 256)]
    ELSE SetWide(pop_word(z), p, Popped(z))
\* What the rows C0..FF share.
HighColumns(z, op) ==
    LET w == op % 8
        y == (op \div 8) % 8
    IN CASE w = 0 -> do_conditional_return(z, Condition(z, y))
         [] w = 1 -> PopPair(z, y \div 2)
         [] w = 2 -> do_conditional_absolute_jump(z, Condition(z, y))
         [] w = 4 -> do_conditional_call(z, Condition(z, y))
         [] w = 5 -> PushPair(z, y \div 2)
         [] w = 6 -> Skip(Accumulate(z, y, NextByte(z)), 1)
         [] w = 7 -> do_reset(z, 8 * y)
RowC(z, op) ==
    CASE op = 195 -> do_conditional_absolute_jump(z, TRUE)
      [] op = 201 -> do_conditional_return(z, TRUE)
      [] op = 203 -> CbPrefix(z)
      [] op = 205 -> do_conditional_call(z, TRUE)
      [] OTHER    -> HighColumns(z, op)
RowD(z, op) ==
    CASE op = 211 -> Skip(io_write(z, 256 * z.a + NextByte(z), z.a), 1)
      [] op = 217 -> [z EXCEPT !.b = z.b_, !.c = z.c_, !.d = z.d_, !.e = z.e_, !.h = z.h_,
                               !.l = z.l_, !.b_ = z.b, !.c_ = z.c, !.d_ = z.d, !.e_ = z.e,
                               !.h_ = z.h, !.l_ = z.l]
      [] op = 219 -> Skip([z EXCEPT !.a = z.bus], 1)
      [] op = 221 -> DdPrefix(z)
      [] OTHER    -> HighColumns(z, op)
RowE(z, op) ==
    CASE op = 227 -> [WriteWord(z, z.sp, z.l, z.h) EXCEPT
                        !.l = mem_read(z, z.sp), !.h = mem_read(z, Wrap(z.sp + 1))]
      [] op = 233 -> Goto(z, HL(z))
      [] op = 235 -> [z EXCEPT !.d = z.h, !.h = z.d, !.e = z.l, !.l = z.e]
      [] op = 237 -> EdPrefix(z)
      [] OTHER    -> HighColumns(z, op)
RowF(z, op) ==
    CASE op = 243 -> [z EXCEPT !.delayedDi = TRUE]
      [] op = 249 -> [z EXCEPT !.sp = HL(z)]
      [] op = 251 -> [z EXCEPT !.delayedEi = TRUE]
      [] op = 253 -> FdPrefix(z)
      [] OTHER    -> HighColumns(z, op)

----------------------------------------------------------------------------
decode_instruction(z, op) ==
    CASE op = 118 -> [z EXCEPT !.halted = TRUE]
      [] op \in 64..127 \ {118} -> SetOperand(z, (op \div 8) % 8, get_operand(z, op % 8))
      [] op \in 128..191 -> Accumulate(z, (op \div 8) % 8, get_operand(z, op % 8))
      [] op < 16 -> Row0(z, op)
      [] op \in 16..31 -> Row1(z, op)
      [] op \in 32..47 -> Row2(z, op)
      [] op \in 48..63 -> Row3(z, op)
      [] op \in 192..207 -> RowC(z, op)
      [] op \in 208..223 -> RowD(z, op)
      [] op \in 224..239 -> RowE(z, op)
      [] op \in 240..255 -> RowF(z, op)

\* One instruction.  A pending DI or EI takes effect after the instruction
\* that follows it; a halted processor stays where it is.
run_instruction(z) ==
    LET fetched == [BumpR(z) EXCEPT !.delayedDi = FALSE,
                                    !.delayedEi = @ /\ z.delayedDi]
        done == Skip(decode_instruction(fetched, mem_read(z, z.pc)), 1)
        iff == IF z.delayedDi THEN 0 ELSE 1
    IN IF z.halted THEN z
       ELSE IF z.delayedDi \/ z.delayedEi THEN [done EXCEPT !.iff1 = iff, !.iff2 = iff]
       ELSE done

============================================================================
