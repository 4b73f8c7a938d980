------------------------------- MODULE Z80Arith -------------------------------
(***************************************************************************)
(* The arithmetic of tools/z80sim/sim.py: bytes, words and the six         *)
(* documented flags.  Each operator returns the result and the flags that  *)
(* the interpreter's helper leaves.  The second part states what the Z80   *)
(* manual (Zilog UM0080) promises of the same instructions, written from   *)
(* signed numbers and carries instead of from the helper's expressions.    *)
(***************************************************************************)
EXTENDS Integers

Byte == 0..(2^8 - 1)
Word == 0..(2^16 - 1)
FlagNames == {"S", "Z", "H", "PV", "N", "C"}
Flags == [FlagNames -> {0, 1}]

Bit(v, n) == (v \div 2^n) % 2
Ind(b) == IF b THEN 1 ELSE 0

(***************************************************************************)
(* Bitwise operations, one bit at a time.                                  *)
(***************************************************************************)
Bits8(Op(_)) ==
  Op(0) + 2 * Op(1) + 4 * Op(2) + 8 * Op(3) + 16 * Op(4) + 32 * Op(5) + 64 * Op(6) + 128 * Op(7)
And8(a, b) == Bits8(LAMBDA n : Bit(a, n) * Bit(b, n))
Xor8(a, b) == Bits8(LAMBDA n : (Bit(a, n) + Bit(b, n)) % 2)
Or8(a, b)  == Bits8(LAMBDA n : Ind(Bit(a, n) + Bit(b, n) > 0))

even_parity(v) ==
  Ind((Bit(v, 0) + Bit(v, 1) + Bit(v, 2) + Bit(v, 3) + Bit(v, 4) + Bit(v, 5) + Bit(v, 6) + Bit(v, 7)) % 2 = 0)

set_szp(f, v) == [f EXCEPT !.S = Bit(v, 7), !.Z = Ind(v = 0), !.PV = even_parity(v)]

(***************************************************************************)
(* 8-bit addition and subtraction.  PV is overflow: the operands agree (or *)
(* differ) in sign and the result's sign is not the left operand's.        *)
(***************************************************************************)
add8_flags(f, left, right, carry) ==
  LET total  == left + right + carry
      result == total % 256
  IN [result |-> result,
      flags  |-> [set_szp(f, result) EXCEPT
                    !.H  = Ind((left % 16) + (right % 16) + carry > 15),
                    !.PV = Ind(Bit(left, 7) = Bit(right, 7) /\ Bit(left, 7) # Bit(result, 7)),
                    !.N  = 0,
                    !.C  = Ind(total > 255)]]

sub8_flags(f, left, right, carry) ==
  LET result_full == left - right - carry
      result      == result_full % 256
  IN [result |-> result,
      flags  |-> [set_szp(f, result) EXCEPT
                    !.H  = Ind(left % 16 < (right % 16) + carry),
                    !.PV = Ind(Bit(left, 7) # Bit(right, 7) /\ Bit(left, 7) # Bit(result, 7)),
                    !.N  = 1,
                    !.C  = Ind(result_full < 0)]]

(* INC and DEC leave the carry alone. *)
inc8(f, v) ==
  LET result == (v + 1) % 256
  IN [result |-> result,
      flags  |-> [set_szp(f, result) EXCEPT !.H = Ind(v % 16 = 15), !.PV = Ind(v = 127), !.N = 0]]

dec8(f, v) ==
  LET result == (v - 1) % 256
  IN [result |-> result,
      flags  |-> [set_szp(f, result) EXCEPT !.H = Ind(v % 16 = 0), !.PV = Ind(v = 128), !.N = 1]]

(***************************************************************************)
(* 16-bit addition and subtraction.                                        *)
(***************************************************************************)
add16(f, left, right) ==
  [result |-> (left + right) % 65536,
   flags  |-> [f EXCEPT !.H = Ind((left % 4096) + (right % 4096) > 4095),
                        !.C = Ind(left + right > 65535), !.N = 0]]

adc16(f, left, right) ==
  LET total  == left + right + f.C
      result == total % 65536
  IN [result |-> result,
      flags  |-> [S |-> Bit(result, 15), Z |-> Ind(result = 0), N |-> 0, C |-> Ind(total > 65535),
                  H |-> Ind((left % 4096) + (right % 4096) + f.C > 4095),
                  PV |-> Ind(Bit(left, 15) = Bit(right, 15) /\ Bit(left, 15) # Bit(result, 15))]]

sbc16(f, left, right) ==
  LET total  == left - right - f.C
      result == total % 65536
  IN [result |-> result,
      flags  |-> [S |-> Bit(result, 15), Z |-> Ind(result = 0), N |-> 1, C |-> Ind(total < 0),
                  H |-> Ind(left % 4096 < (right % 4096) + f.C),
                  PV |-> Ind(Bit(left, 15) # Bit(right, 15) /\ Bit(left, 15) # Bit(result, 15))]]

(***************************************************************************)
(* Logic, BIT, rotates and shifts.                                         *)
(***************************************************************************)
logic8(f, mn, a, v) ==
  LET result == CASE mn = "and" -> And8(a, v) [] mn = "or" -> Or8(a, v) [] mn = "xor" -> Xor8(a, v)
  IN [result |-> result,
      flags  |-> [set_szp(f, result) EXCEPT !.C = 0, !.H = Ind(mn = "and"), !.N = 0]]

bit8(f, n, v) ==
  [f EXCEPT !.Z = 1 - Bit(v, n), !.PV = 1 - Bit(v, n), !.S = IF n = 7 THEN Bit(v, 7) ELSE 0,
            !.H = 1, !.N = 0]

(* RLCA, RRCA, RLA, RRA: only C, H and N change. *)
rotate_a(f, mn, a) ==
  LET out   == IF mn \in {"rlca", "rla"} THEN Bit(a, 7) ELSE Bit(a, 0)
      bit == IF mn \in {"rlca", "rrca"} THEN out ELSE f.C
  IN [result |-> IF mn \in {"rlca", "rla"} THEN ((a * 2) % 256) + bit ELSE (a \div 2) + 128 * bit,
      flags  |-> [f EXCEPT !.C = out, !.H = 0, !.N = 0]]

shift8(f, mn, v) ==
  LET left   == mn \in {"sla", "rl"}
      bit    == IF mn \in {"rl", "rr"} THEN f.C ELSE 0
      result == IF left THEN ((v * 2) % 256) + bit ELSE (v \div 2) + 128 * bit
  IN [result |-> result,
      flags  |-> [set_szp(f, result) EXCEPT !.C = Bit(v, IF left THEN 7 ELSE 0), !.H = 0, !.N = 0]]

set_res(mn, n, v) == IF mn = "set" THEN v + 2^n * (1 - Bit(v, n)) ELSE v - 2^n * Bit(v, n)

(***************************************************************************)
(* F as a byte: PUSH AF and POP AF.                                        *)
(***************************************************************************)
flags_byte(f) == 128 * f.S + 64 * f.Z + 16 * f.H + 4 * f.PV + 2 * f.N + f.C
set_flags_byte(b) ==
  [S |-> Bit(b, 7), Z |-> Bit(b, 6), H |-> Bit(b, 4), PV |-> Bit(b, 2), N |-> Bit(b, 1), C |-> Bit(b, 0)]

check_cond(f, cond) ==
  CASE cond = "z" -> f.Z = 1 [] cond = "nz" -> f.Z = 0 [] cond = "c" -> f.C = 1
    [] cond = "nc" -> f.C = 0 [] cond = "m" -> f.S = 1 [] cond = "p" -> f.S = 0
    [] cond = "pe" -> f.PV = 1 [] cond = "po" -> f.PV = 0

(***************************************************************************)
(* Registers and memory.  Memory is sparse: a cell never written is 0.     *)
(* Writes below RamStart go to ROM and do nothing.                         *)
(***************************************************************************)
Reg8 == {"A", "B", "C", "D", "E", "H", "L"}
Pairs == {"BC", "DE", "HL"}
High == [BC |-> "B", DE |-> "D", HL |-> "H"]
Low  == [BC |-> "C", DE |-> "E", HL |-> "L"]
RamStart == 16384

PairOf(regs, p) == 256 * regs[High[p]] + regs[Low[p]]
WithPair(regs, p, v) == [regs EXCEPT ![High[p]] = v \div 256, ![Low[p]] = v % 256]
ReadByte(mem, a) == IF a \in DOMAIN mem THEN mem[a] ELSE 0
\* (Mutant of WriteByte: writes to ROM stick.)
WriteByteAnywhere(mem, a, v) == [b \in DOMAIN mem \cup {a} |-> IF b = a THEN v ELSE mem[b]]
WriteByte(mem, a, v) ==
  IF a < RamStart THEN mem ELSE [b \in DOMAIN mem \cup {a} |-> IF b = a THEN v ELSE mem[b]]
ReadWord(mem, a) == ReadByte(mem, a) + 256 * ReadByte(mem, (a + 1) % 65536)
WriteWord(mem, a, v) == WriteByte(WriteByte(mem, a, v % 256), (a + 1) % 65536, v \div 256)

(***************************************************************************)
(* LDIR and LDDR: copy bytes one at a time, so that overlapping blocks     *)
(* repeat.  A count of 0 means 65536.                                      *)
(***************************************************************************)
BlockMove(mem, from, to, count, d) ==
  LET copy[n \in 0..count] ==
        IF n = 0 THEN mem
        ELSE WriteByte(copy[n - 1], (to + d * (n - 1)) % 65536,
                       ReadByte(copy[n - 1], (from + d * (n - 1)) % 65536))
  IN copy[count]

(***************************************************************************)
(* The instructions that work on A alone or on HL as a number.             *)
(***************************************************************************)
Sum16(f, mn, a, b) ==
  CASE mn = "add16" -> add16(f, a, b) [] mn = "adc16" -> adc16(f, a, b) [] mn = "sbc16" -> sbc16(f, a, b)

Alu8(f, mn, a, v) ==
  CASE mn = "add" -> add8_flags(f, a, v, 0) [] mn = "adc" -> add8_flags(f, a, v, f.C)
    [] mn = "sub" -> sub8_flags(f, a, v, 0) [] mn = "sbc" -> sub8_flags(f, a, v, f.C)
    [] mn = "cp"  -> [sub8_flags(f, a, v, 0) EXCEPT !.result = a]
    [] mn \in {"and", "or", "xor"} -> logic8(f, mn, a, v)
    [] mn \in {"rlca", "rrca", "rla", "rra"} -> rotate_a(f, mn, a)
    [] mn = "scf" -> [result |-> a, flags |-> [f EXCEPT !.C = 1, !.H = 0, !.N = 0]]
    [] mn = "ccf" -> [result |-> a, flags |-> [f EXCEPT !.H = f.C, !.C = 1 - f.C, !.N = 0]]

(***************************************************************************)
(* Mnemonics by the interpreter's branches.  16-bit and 8-bit forms of one *)
(* mnemonic have names of their own here.                                  *)
(***************************************************************************)
LoadOps  == {"ld16n", "ld16l", "ld16m", "st16", "ld8n", "ld8r", "ld8m", "st8"}
StackOps == {"push", "pushaf", "pop", "popaf"}
CountOps == {"inc16", "dec16", "inc8", "dec8"}
SumOps   == {"add16", "adc16", "sbc16", "add", "adc", "sub", "sbc", "cp", "and", "or", "xor",
             "rlca", "rrca", "rla", "rra", "scf", "ccf"}
BitOps   == {"bit", "set", "res", "sla", "srl", "rl", "rr"}
SwapOps  == {"exdehl", "exaf", "exx"}
BlockOps == {"ldir", "lddr"}
JumpOps  == {"jphl", "jp", "jpc", "jr", "djnz", "call", "ret", "retc"}
PopOps   == {"pop", "popaf", "ret"}

(* What the operands of a mnemonic are: a pair, a register, a number, the  *)
(* number of a bit, or the line of a label (past the last line at most).   *)
PairOps == {"ld16n", "ld16l", "ld16m", "st16", "st8", "push", "pop", "inc16", "dec16", "add16", "adc16", "sbc16"}
RegisterOps == BitOps \cup {"ld8n", "ld8r", "ld8m", "inc8", "dec8", "add", "adc", "sub", "sbc", "cp", "and", "or", "xor"}
LabelOps == {"ld16l", "jp", "jpc", "jr", "djnz", "call"}

WellFormed(i, lines) ==
  /\ i.mn \in PairOps => i.x \in Pairs
  /\ i.mn \in RegisterOps => i.x \in Reg8
  /\ i.mn = "ld8m" => i.y \in Pairs
  /\ i.mn \in {"ld8r", "st8"} => i.y \in Reg8
  /\ i.mn \in {"ld16n", "ld16m", "st16"} => i.n \in Word
  /\ i.mn = "ld8n" => i.n \in Byte
  /\ i.mn \in {"bit", "set", "res"} => i.n \in 0..7
  /\ i.mn \in LabelOps => i.n \in 0..lines

-----------------------------------------------------------------------------
(***************************************************************************)
(* What the manual says.  Signed(v, n) reads v as an n-bit two's           *)
(* complement number; a carry into bit n shows as a result bit that is not *)
(* the sum of the operands' bits.                                          *)
(***************************************************************************)
Signed(v, n) == IF v < 2^(n - 1) THEN v ELSE v - 2^n
Overflows(s, n) == s < -(2^(n - 1)) \/ s >= 2^(n - 1)
CarryInto(left, right, result, n) == (Bit(left, n) + Bit(right, n) + Bit(result, n)) % 2

ManualSum(f, left, right, carry, n) ==
  LET result == (left + right + carry) % 2^n
  IN [result |-> result,
      flags  |-> [S |-> Ind(Signed(result, n) < 0), Z |-> Ind(result = 0), N |-> 0,
                  H |-> CarryInto(left, right, result, n - 4),
                  PV |-> Ind(Overflows(Signed(left, n) + Signed(right, n) + carry, n)),
                  C |-> (left + right + carry) \div 2^n]]

ManualDifference(f, left, right, carry, n) ==
  LET result == (left - right - carry) % 2^n
  IN [result |-> result,
      flags  |-> [S |-> Ind(Signed(result, n) < 0), Z |-> Ind(result = 0), N |-> 1,
                  H |-> CarryInto(left, right, result, n - 4),
                  PV |-> Ind(Overflows(Signed(left, n) - Signed(right, n) - carry, n)),
                  C |-> Ind(left < right + carry)]]

===============================================================================
