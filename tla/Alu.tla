-------------------------------- MODULE Alu --------------------------------
(***************************************************************************)
(* The arithmetic of the CPU (core/cpu/opcodes.inl) on bytes and flags.    *)
(* r is the registers an operation works on, [a, z, n, h, c]: the          *)
(* accumulator and the four flags; x is a byte operand.                    *)
(***************************************************************************)
EXTENDS Integers

Byte == 0..255

Bit(on) == IF on THEN 1 ELSE 0

Flags(z, n, h, c) == [z |-> z, n |-> n, h |-> h, c |-> c]

WithFlags(a, f) == [a |-> a, z |-> f.z, n |-> f.n, h |-> f.h, c |-> f.c]

\* The bits of a byte that are on, and the byte with these on.
Ones(v) == {b \in 0..7 : (v \div 2^b) % 2 = 1}

ByteOf(ones) ==
    Bit(0 \in ones) + 2 * Bit(1 \in ones) + 4 * Bit(2 \in ones) + 8 * Bit(3 \in ones)
        + 16 * Bit(4 \in ones) + 32 * Bit(5 \in ones) + 64 * Bit(6 \in ones)
        + 128 * Bit(7 \in ones)

And(x, y) == ByteOf(Ones(x) \cap Ones(y))
Or(x, y) == ByteOf(Ones(x) \cup Ones(y))
Xor(x, y) == ByteOf((Ones(x) \cup Ones(y)) \ (Ones(x) \cap Ones(y)))

carry_in(r) == Bit(r.c)

cond(r, cc) == CASE cc = 0 -> ~r.z [] cc = 1 -> r.z [] cc = 2 -> ~r.c [] cc = 3 -> r.c

add8(r, x, carry) ==
    LET sum == r.a + x + carry
    IN  WithFlags(sum % 256, Flags(sum % 256 = 0, FALSE,
                                   (r.a % 16) + (x % 16) + carry > 15, sum > 255))

sub8(r, x, carry, store) ==
    LET diff == r.a - x - carry
    IN  WithFlags(IF store THEN diff % 256 ELSE r.a,
                  Flags(diff % 256 = 0, TRUE, r.a % 16 < (x % 16) + carry, diff < 0))

\* ADD, ADC, SUB, SBC, AND, XOR, OR and CP.
alu(r, kind, x) ==
    CASE kind = 0 -> add8(r, x, 0)
      [] kind = 1 -> add8(r, x, carry_in(r))
      [] kind = 2 -> sub8(r, x, 0, TRUE)
      [] kind = 3 -> sub8(r, x, carry_in(r), TRUE)
      [] kind = 4 -> WithFlags(And(r.a, x), Flags(And(r.a, x) = 0, FALSE, TRUE, FALSE))
      [] kind = 5 -> WithFlags(Xor(r.a, x), Flags(Xor(r.a, x) = 0, FALSE, FALSE, FALSE))
      [] kind = 6 -> WithFlags(Or(r.a, x), Flags(Or(r.a, x) = 0, FALSE, FALSE, FALSE))
      [] kind = 7 -> sub8(r, x, 0, FALSE)

\* RLC, RRC, RL, RR, SLA, SRA, SWAP and SRL of the byte in a; the four of the
\* accumulator (with_z false) clear the zero flag.
rotate(r, kind, with_z) ==
    LET v == r.a
        top == v \div 128
        res == CASE kind = 0 -> ((2 * v) % 256) + top
                 [] kind = 1 -> v \div 2 + 128 * (v % 2)
                 [] kind = 2 -> ((2 * v) % 256) + carry_in(r)
                 [] kind = 3 -> v \div 2 + 128 * carry_in(r)
                 [] kind = 4 -> (2 * v) % 256
                 [] kind = 5 -> v \div 2 + 128 * top
                 [] kind = 6 -> 16 * (v % 16) + v \div 16
                 [] kind = 7 -> v \div 2
        carry == CASE kind \in {0, 2, 4} -> top = 1
                   [] kind \in {1, 3, 5, 7} -> v % 2 = 1
                   [] kind = 6 -> FALSE
    IN  WithFlags(res, Flags(with_z /\ res = 0, FALSE, FALSE, carry))

inc8(r) ==
    LET res == (r.a + 1) % 256
    IN  WithFlags(res, Flags(res = 0, FALSE, r.a % 16 = 15, r.c))

dec8(r) ==
    LET res == (r.a - 1) % 256
    IN  WithFlags(res, Flags(res = 0, TRUE, r.a % 16 = 0, r.c))

\* A bug the checks must notice: the high digit is looked at by itself.
daaDigits(r) ==
    LET low == r.h \/ (~r.n /\ r.a % 16 > 9)
        high == r.c \/ (~r.n /\ r.a \div 16 > 9)
        adjust == 6 * Bit(low) + 96 * Bit(high)
        res == (IF r.n THEN r.a - adjust ELSE r.a + adjust) % 256
    IN  WithFlags(res, Flags(res = 0, r.n, FALSE, high))

daa(r) ==
    LET low == r.h \/ (~r.n /\ r.a % 16 > 9)
        high == r.c \/ (~r.n /\ r.a > 153)
        adjust == 6 * Bit(low) + 96 * Bit(high)
        res == (IF r.n THEN r.a - adjust ELSE r.a + adjust) % 256
    IN  WithFlags(res, Flags(res = 0, r.n, FALSE, high))

\* CPL, SCF and CCF.
cpl(r) == WithFlags(255 - r.a, Flags(r.z, TRUE, TRUE, r.c))
scf(r) == WithFlags(r.a, Flags(r.z, FALSE, FALSE, TRUE))
ccf(r) == WithFlags(r.a, Flags(r.z, FALSE, FALSE, ~r.c))

\* ADD HL,v, with r.a for HL.
add_hl(r, v) ==
    WithFlags((r.a + v) % 65536,
              Flags(r.z, FALSE, (r.a % 4096) + (v % 4096) > 4095, r.a + v > 65535))

\* ADD SP,imm and LD HL,SP+imm: the flags are of the low byte, the sum is signed.
add_sp_flags(word, imm) ==
    Flags(FALSE, FALSE, (word % 16) + (imm % 16) > 15, (word % 256) + imm > 255)

add_sp(word, imm) ==
    WithFlags((word + (IF imm > 127 THEN imm - 256 ELSE imm)) % 65536, add_sp_flags(word, imm))

\* The prefixed operations on one bit of the byte in a: BIT, RES and SET.
bit_test(r, b) == WithFlags(r.a, Flags((r.a \div 2^b) % 2 = 0, FALSE, TRUE, r.c))
bit_res(r, b) == [r EXCEPT !.a = @ - ((@ \div 2^b) % 2) * 2^b]
bit_set(r, b) == [r EXCEPT !.a = @ + (1 - ((@ \div 2^b) % 2)) * 2^b]

----------------------------------------------------------------------------
(* What programs build from them.                                          *)

NoFlags(a) == WithFlags(a, Flags(FALSE, FALSE, FALSE, FALSE))

WithCarry(a, c) == WithFlags(a, Flags(FALSE, FALSE, FALSE, c))

\* The byte of two decimal digits.
Decimal(d) == (d \div 10) * 16 + (d % 10)

\* Bytes at which carries, half carries and signs turn.
EdgeBytes == {0, 1, 15, 16, 127, 128, 240, 255}

Words == {256 * high + low : high, low \in EdgeBytes}

\* A byte of a decimal sum: what comes out is the decimal sum and its carry.
DecimalSums ==
    \A x, y \in 0..99, c \in BOOLEAN :
        LET r == daa(alu(WithCarry(Decimal(x), c), 1, Decimal(y)))
            sum == x + y + Bit(c)
        IN  r.a = Decimal(sum % 100) /\ (r.c <=> sum > 99) /\ (r.z <=> sum % 100 = 0)

\* The same of a difference.
DecimalDifferences ==
    \A x, y \in 0..99, c \in BOOLEAN :
        LET r == daa(alu(WithCarry(Decimal(x), c), 3, Decimal(y)))
            diff == x - y - Bit(c)
        IN  r.a = Decimal(diff % 100) /\ (r.c <=> diff < 0) /\ (r.z <=> diff % 100 = 0)

\* ADD HL,v is ADD of the low bytes and ADC of the high ones, in its flags too.
WordSum(x, y) ==
    LET low == alu(NoFlags(x % 256), 0, y % 256)
        high == alu([low EXCEPT !.a = x \div 256], 1, y \div 256)
        word == add_hl(NoFlags(x), y)
    IN  word.a = 256 * high.a + low.a /\ word.h = high.h /\ word.c = high.c

WordSums == \A x, y \in Words : WordSum(x, y)

\* ADD SP,imm is a signed sum with the flags of an unsigned one of the low bytes.
StackSum(word, imm) ==
    LET low == alu(NoFlags(word % 256), 0, imm)
        high == alu([low EXCEPT !.a = word \div 256], 1, IF imm > 127 THEN 255 ELSE 0)
        moved == add_sp(word, imm)
    IN  moved.a = 256 * high.a + low.a /\ moved.h = low.h /\ moved.c = low.c

StackSums == \A word \in Words, imm \in Byte : StackSum(word, imm)

\* A rotation through the carry is undone by the other, and one within the byte
\* too; INC and DEC undo each other and leave the carry to the loop around them.
Undone ==
    \A a \in Byte, c \in BOOLEAN :
        LET r == WithCarry(a, c)
        IN  /\ rotate(rotate(r, 2, FALSE), 3, FALSE) = r
            /\ rotate(rotate(r, 3, FALSE), 2, FALSE) = r
            /\ rotate(rotate(r, 0, TRUE), 1, TRUE).a = a
            /\ rotate(rotate(r, 6, TRUE), 6, TRUE).a = a
            /\ dec8(inc8(r)).a = a /\ inc8(dec8(r)).c = c
            /\ cpl(cpl(r)).a = a /\ ccf(scf(r)).c = FALSE

\* CP tells which is greater, by its carry, as SUB would and leaves the byte;
\* BIT sees what SET and RES did to its bit and to no other.
Tests ==
    /\ \A x \in Byte, y \in EdgeBytes :
        LET r == alu(NoFlags(x), 7, y)
        IN  /\ r.a = x
            /\ cond(r, 3) <=> x < y
            /\ cond(r, 1) <=> x = y
            /\ [r EXCEPT !.a = alu(NoFlags(x), 2, y).a] = alu(NoFlags(x), 2, y)
    /\ \A a \in Byte, b, other \in 0..7 :
        LET Reads(r) == cond(bit_test(r, other), 0)
        IN  /\ Reads(bit_set(NoFlags(a), b)) <=> (other = b \/ Reads(NoFlags(a)))
            /\ Reads(bit_res(NoFlags(a), b)) <=> (other # b /\ Reads(NoFlags(a)))
            /\ alu(NoFlags(a), 6, 2^b).a = bit_set(NoFlags(a), b).a
            /\ alu(NoFlags(a), 4, 255 - 2^b).a = bit_res(NoFlags(a), b).a
            /\ alu(NoFlags(a), 5, a) = WithFlags(0, Flags(TRUE, FALSE, FALSE, FALSE))

\* What programs count on when they chain byte operations into decimal and 16-bit
\* arithmetic, shifts of several bytes, comparisons and bit tests.
Laws == {DecimalSums, DecimalDifferences, WordSums, StackSums, Undone, Tests}
============================================================================
