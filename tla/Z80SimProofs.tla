---------------------------- MODULE Z80SimProofs ----------------------------
(***************************************************************************)
(* That the interpreter's markers are sound, for every program, machine,   *)
(* script and bound: the simulator's object keeps its shape (TypeOK), and  *)
(* every step of the interpreter is a step of the Z80 it stands for        *)
(* (HonoursZ80).  The proof goes the way the code is layered: arithmetic,  *)
(* memory, the object's methods, the overlay of markers, one instruction   *)
(* group after another.                                                    *)
(***************************************************************************)
EXTENDS Z80Sim, WellFoundedInduction, TLAPS

-----------------------------------------------------------------------------
(* Bytes, words and flags. *)

LEMMA ByteDef == \A v : v \in Byte <=> v \in Int /\ 0 <= v /\ v <= 255
BY DEF Byte

LEMMA WordDef == \A v : v \in Word <=> v \in Int /\ 0 <= v /\ v <= 65535
BY DEF Word

LEMMA Wraps == \A n \in Int : n % 256 \in Byte /\ n % 65536 \in Word
BY ByteDef, WordDef

LEMMA Halves ==
  /\ \A v \in Word : v \div 256 \in Byte /\ v % 256 \in Byte /\ 256 * (v \div 256) + (v % 256) = v
  /\ \A h \in Byte, l \in Byte : 256 * h + l \in Word /\ (256 * h + l) \div 256 = h /\ (256 * h + l) % 256 = l
BY ByteDef, WordDef

LEMMA BitRange == \A v \in Int, n \in Nat : Bit(v, n) \in {0, 1}
BY DEF Bit

LEMMA IndRange == \A b : Ind(b) \in {0, 1}
BY DEF Ind

\* A byte put together from its bits.
LEMMA BitSum ==
  ASSUME NEW a \in {0, 1}, NEW b \in {0, 1}, NEW c \in {0, 1}, NEW d \in {0, 1},
         NEW e \in {0, 1}, NEW f \in {0, 1}, NEW g \in {0, 1}, NEW h \in {0, 1}
  PROVE  a + 2 * b + 4 * c + 8 * d + 16 * e + 32 * f + 64 * g + 128 * h \in Byte
BY ByteDef

LEMMA LogicRange ==
  ASSUME NEW a \in Int, NEW b \in Int
  PROVE  And8(a, b) \in Byte /\ Or8(a, b) \in Byte /\ Xor8(a, b) \in Byte
<1>1. And8(a, b) \in Byte
  <2> DEFINE o(n) == Bit(a, n) * Bit(b, n)
  <2>1. \A n \in Nat : o(n) \in {0, 1}
    BY BitRange
  <2>2. And8(a, b) = o(0) + 2 * o(1) + 4 * o(2) + 8 * o(3) + 16 * o(4) + 32 * o(5) + 64 * o(6) + 128 * o(7)
    BY DEF And8, Bits8
  <2> HIDE DEF o
  <2> QED BY <2>1, <2>2, BitSum
<1>2. Xor8(a, b) \in Byte
  <2> DEFINE o(n) == (Bit(a, n) + Bit(b, n)) % 2
  <2>1. \A n \in Nat : o(n) \in {0, 1}
    BY BitRange
  <2>2. Xor8(a, b) = o(0) + 2 * o(1) + 4 * o(2) + 8 * o(3) + 16 * o(4) + 32 * o(5) + 64 * o(6) + 128 * o(7)
    BY DEF Xor8, Bits8
  <2> HIDE DEF o
  <2> QED BY <2>1, <2>2, BitSum
<1>3. Or8(a, b) \in Byte
  <2> DEFINE o(n) == Ind(Bit(a, n) + Bit(b, n) > 0)
  <2>1. \A n \in Nat : o(n) \in {0, 1}
    BY IndRange
  <2>2. Or8(a, b) = o(0) + 2 * o(1) + 4 * o(2) + 8 * o(3) + 16 * o(4) + 32 * o(5) + 64 * o(6) + 128 * o(7)
    BY DEF Or8, Bits8
  <2> HIDE DEF o
  <2> QED BY <2>1, <2>2, BitSum
<1> QED BY <1>1, <1>2, <1>3

LEMMA SzpFlags ==
  ASSUME NEW f \in Flags, NEW v \in Int
  PROVE  set_szp(f, v) \in Flags
BY BitRange, IndRange DEF set_szp, even_parity, Flags, FlagNames

LEMMA FlagRange == \A f \in Flags : \A n \in FlagNames : f[n] \in {0, 1}
BY DEF Flags

LEMMA Carry == \A f \in Flags : f.C \in {0, 1}
BY DEF Flags, FlagNames

\* What a helper of the arithmetic returns.
ByteAndFlags(r) == r.result \in Byte /\ r.flags \in Flags
WordAndFlags(r) == r.result \in Word /\ r.flags \in Flags

LEMMA Add8 ==
  ASSUME NEW f \in Flags, NEW a \in Byte, NEW b \in Byte, NEW c \in {0, 1}
  PROVE  ByteAndFlags(add8_flags(f, a, b, c))
<1>1. (a + b + c) \in Int /\ (a + b + c) % 256 \in Byte
  BY ByteDef
<1>2. set_szp(f, (a + b + c) % 256) \in Flags
  BY <1>1, SzpFlags, ByteDef
<1> QED BY ZenonT(60), <1>1, <1>2, IndRange DEF add8_flags, ByteAndFlags, Flags, FlagNames

LEMMA Sub8 ==
  ASSUME NEW f \in Flags, NEW a \in Byte, NEW b \in Byte, NEW c \in {0, 1}
  PROVE  ByteAndFlags(sub8_flags(f, a, b, c))
<1>1. (a - b - c) \in Int /\ (a - b - c) % 256 \in Byte
  BY ByteDef
<1>2. set_szp(f, (a - b - c) % 256) \in Flags
  BY <1>1, SzpFlags, ByteDef
<1> QED BY ZenonT(60), <1>1, <1>2, IndRange DEF sub8_flags, ByteAndFlags, Flags, FlagNames

LEMMA Count8 ==
  ASSUME NEW f \in Flags, NEW v \in Byte
  PROVE  ByteAndFlags(inc8(f, v)) /\ ByteAndFlags(dec8(f, v))
<1>1. (v + 1) % 256 \in Byte /\ (v - 1) % 256 \in Byte
  BY ByteDef
<1>2. set_szp(f, (v + 1) % 256) \in Flags /\ set_szp(f, (v - 1) % 256) \in Flags
  BY <1>1, SzpFlags, ByteDef
<1> QED BY ZenonT(60), <1>1, <1>2, IndRange DEF inc8, dec8, ByteAndFlags, Flags, FlagNames

LEMMA Logic8 ==
  ASSUME NEW f \in Flags, NEW mn \in {"and", "or", "xor"}, NEW a \in Byte, NEW v \in Byte
  PROVE  ByteAndFlags(logic8(f, mn, a, v))
<1> DEFINE r == logic8(f, mn, a, v).result
<1>0. a \in Int /\ v \in Int
  BY ByteDef, WordDef
<1>1. r \in Byte
  BY <1>0, LogicRange DEF logic8
<1>2. set_szp(f, r) \in Flags
  <2> HIDE DEF r
  <2> QED BY <1>1, SzpFlags, ByteDef, WordDef
<1>3. logic8(f, mn, a, v).flags = [set_szp(f, r) EXCEPT !.C = 0, !.H = Ind(mn = "and"), !.N = 0]
  BY DEF logic8
<1> HIDE DEF r
<1>4. logic8(f, mn, a, v).flags \in Flags
  BY <1>2, <1>3, IndRange DEF Flags, FlagNames
<1> QED BY <1>1, <1>4 DEF ByteAndFlags, r

LEMMA RotateA ==
  ASSUME NEW f \in Flags, NEW mn, NEW a \in Byte
  PROVE  ByteAndFlags(rotate_a(f, mn, a))
<1> DEFINE out == IF mn \in {"rlca", "rla"} THEN Bit(a, 7) ELSE Bit(a, 0)
           in == IF mn \in {"rlca", "rrca"} THEN out ELSE f.C
<1>1. out \in {0, 1} /\ in \in {0, 1}
  BY BitRange, Carry, ByteDef
<1>2. rotate_a(f, mn, a) = [result |-> IF mn \in {"rlca", "rla"} THEN ((a * 2) % 256) + in ELSE (a \div 2) + 128 * in,
                            flags  |-> [f EXCEPT !.C = out, !.H = 0, !.N = 0]]
  BY DEF rotate_a
<1> HIDE DEF out, in
<1>3. ((a * 2) % 256) + in \in Byte /\ (a \div 2) + 128 * in \in Byte
  BY <1>1, ByteDef
<1>4. [f EXCEPT !.C = out, !.H = 0, !.N = 0] \in Flags
  BY <1>1 DEF Flags, FlagNames
<1> QED BY <1>2, <1>3, <1>4 DEF ByteAndFlags

LEMMA Shift8 ==
  ASSUME NEW f \in Flags, NEW mn, NEW v \in Byte
  PROVE  ByteAndFlags(shift8(f, mn, v))
<1> DEFINE left == mn \in {"sla", "rl"}
           bit == IF mn \in {"rl", "rr"} THEN f.C ELSE 0
           r == IF left THEN ((v * 2) % 256) + bit ELSE (v \div 2) + 128 * bit
           out == Bit(v, IF left THEN 7 ELSE 0)
<1>1. bit \in {0, 1} /\ out \in {0, 1}
  BY BitRange, Carry, ByteDef
<1>2. shift8(f, mn, v) = [result |-> r, flags |-> [set_szp(f, r) EXCEPT !.C = out, !.H = 0, !.N = 0]]
  BY DEF shift8
<1>3. r \in Byte
  <2> HIDE DEF bit
  <2> QED BY <1>1, ByteDef
<1>4. set_szp(f, r) \in Flags
  <2> HIDE DEF r
  <2> QED BY <1>3, SzpFlags, ByteDef, WordDef
<1> HIDE DEF r, out
<1>5. [set_szp(f, r) EXCEPT !.C = out, !.H = 0, !.N = 0] \in Flags
  BY <1>1, <1>4 DEF Flags, FlagNames
<1> QED BY <1>2, <1>3, <1>5 DEF ByteAndFlags

LEMMA Bit8 ==
  ASSUME NEW f \in Flags, NEW n \in 0..7, NEW v \in Byte
  PROVE  bit8(f, n, v) \in Flags
<1>1. Bit(v, n) \in {0, 1} /\ Bit(v, 7) \in {0, 1} /\ 1 - Bit(v, n) \in {0, 1}
  BY BitRange, ByteDef
<1> QED BY <1>1 DEF bit8, Flags, FlagNames

LEMMA SetRes ==
  ASSUME NEW n \in 0..7, NEW v \in Byte, NEW mn
  PROVE  set_res(mn, n, v) \in Byte
<1>1. CASE n = 0 BY <1>1, ByteDef DEF set_res, Bit
<1>2. CASE n = 1 BY <1>2, ByteDef DEF set_res, Bit
<1>3. CASE n = 2 BY <1>3, ByteDef DEF set_res, Bit
<1>4. CASE n = 3 BY <1>4, ByteDef DEF set_res, Bit
<1>5. CASE n = 4 BY <1>5, ByteDef DEF set_res, Bit
<1>6. CASE n = 5 BY <1>6, ByteDef DEF set_res, Bit
<1>7. CASE n = 6 BY <1>7, ByteDef DEF set_res, Bit
<1>8. CASE n = 7 BY <1>8, ByteDef DEF set_res, Bit
<1> QED BY <1>1, <1>2, <1>3, <1>4, <1>5, <1>6, <1>7, <1>8

LEMMA Alu8Range ==
  ASSUME NEW f \in Flags, NEW a \in Byte, NEW v,
         NEW mn \in SumOps \ {"add16", "adc16", "sbc16"}, mn \in RegisterOps => v \in Byte
  PROVE  ByteAndFlags(Alu8(f, mn, a, v))
<1>1. f.C \in {0, 1}
  BY Carry
<1>2. CASE mn \in {"add", "adc", "sub", "sbc", "and", "or", "xor"}
  <2>1. v \in Byte
    BY <1>2 DEF RegisterOps
  <2> QED BY <1>1, <1>2, <2>1, Add8, Sub8, Logic8 DEF Alu8
<1>3. CASE mn = "cp"
  <2>1. v \in Byte
    BY <1>3 DEF RegisterOps
  <2>2. ByteAndFlags(sub8_flags(f, a, v, 0))
    BY <2>1, Sub8
  <2>3. Alu8(f, mn, a, v) = [sub8_flags(f, a, v, 0) EXCEPT !.result = a]
    BY <1>3 DEF Alu8
  <2>4. [sub8_flags(f, a, v, 0) EXCEPT !.result = a].result = a
        /\ [sub8_flags(f, a, v, 0) EXCEPT !.result = a].flags = sub8_flags(f, a, v, 0).flags
    BY DEF sub8_flags
  <2> QED BY <2>2, <2>3, <2>4 DEF ByteAndFlags
<1>4. CASE mn \in {"rlca", "rrca", "rla", "rra"}
  BY <1>4, RotateA DEF Alu8
<1>5. CASE mn = "scf"
  BY <1>5 DEF Alu8, ByteAndFlags, Flags, FlagNames
<1>6. CASE mn = "ccf"
  <2>1. 1 - f.C \in {0, 1}
    BY <1>1
  <2>2. [f EXCEPT !.H = f.C, !.C = 1 - f.C, !.N = 0] \in Flags
    BY <1>1, <2>1 DEF Flags, FlagNames
  <2>3. Alu8(f, mn, a, v) = [result |-> a, flags |-> [f EXCEPT !.H = f.C, !.C = 1 - f.C, !.N = 0]]
    BY <1>6 DEF Alu8
  <2> QED BY <2>2, <2>3 DEF ByteAndFlags
<1>7. mn \in {"add", "adc", "sub", "sbc", "cp", "and", "or", "xor", "rlca", "rrca", "rla", "rra", "scf", "ccf"}
  BY DEF SumOps
<1> QED BY <1>2, <1>3, <1>4, <1>5, <1>6, <1>7

LEMMA Sum16Range ==
  ASSUME NEW f \in Flags, NEW a \in Word, NEW b \in Word, NEW mn \in {"add16", "adc16", "sbc16"}
  PROVE  WordAndFlags(Sum16(f, mn, a, b))
<1>1. f.C \in {0, 1}
  BY Carry
<1>2. CASE mn = "add16"
  <2>1. (a + b) % 65536 \in Word
    BY Wraps, WordDef
  <2>2. \A h, c \in {0, 1} : [f EXCEPT !.H = h, !.C = c, !.N = 0] \in Flags
    BY DEF Flags, FlagNames
  <2> DEFINE half == Ind((a % 4096) + (b % 4096) > 4095)
             full == Ind(a + b > 65535)
  <2>3. half \in {0, 1} /\ full \in {0, 1}
    BY IndRange
  <2>4. Sum16(f, mn, a, b) = [result |-> (a + b) % 65536, flags |-> [f EXCEPT !.H = half, !.C = full, !.N = 0]]
    BY <1>2 DEF Sum16, add16
  <2> HIDE DEF half, full
  <2>5. [f EXCEPT !.H = half, !.C = full, !.N = 0] \in Flags
    BY <2>2, <2>3, Zenon
  <2> QED BY <2>1, <2>4, <2>5 DEF WordAndFlags
<1>3. CASE mn = "adc16"
  <2>1. (a + b + f.C) % 65536 \in Word
    BY <1>1, Wraps, WordDef
  <2>2. Bit((a + b + f.C) % 65536, 15) \in {0, 1}
    BY <2>1, BitRange, ByteDef, WordDef
  <2> QED BY <1>3, <2>1, <2>2, IndRange DEF Sum16, adc16, WordAndFlags, Flags, FlagNames
<1>4. CASE mn = "sbc16"
  <2>1. (a - b - f.C) % 65536 \in Word
    BY <1>1, Wraps, WordDef
  <2>2. Bit((a - b - f.C) % 65536, 15) \in {0, 1}
    BY <2>1, BitRange, ByteDef, WordDef
  <2> QED BY <1>4, <2>1, <2>2, IndRange DEF Sum16, sbc16, WordAndFlags, Flags, FlagNames
<1> QED BY <1>2, <1>3, <1>4

LEMMA FlagsByte ==
  /\ \A f \in Flags, a \in Byte : 256 * a + flags_byte(f) \in Word
  /\ \A b \in Int : set_flags_byte(b) \in Flags
<1>1. ASSUME NEW f \in Flags, NEW a \in Byte PROVE 256 * a + flags_byte(f) \in Word
  <2>1. f.S \in {0, 1} /\ f.Z \in {0, 1} /\ f.H \in {0, 1} /\ f.PV \in {0, 1} /\ f.N \in {0, 1} /\ f.C \in {0, 1}
    BY DEF Flags, FlagNames
  <2> DEFINE s == f.S  z == f.Z  h == f.H  v == f.PV  n == f.N  c == f.C
  <2>2. flags_byte(f) = 128 * s + 64 * z + 16 * h + 4 * v + 2 * n + c
    BY DEF flags_byte
  <2> HIDE DEF s, z, h, v, n, c
  <2>3. s \in {0, 1} /\ z \in {0, 1} /\ h \in {0, 1} /\ v \in {0, 1} /\ n \in {0, 1} /\ c \in {0, 1}
    BY <2>1 DEF s, z, h, v, n, c
  <2> QED BY <2>2, <2>3, ByteDef, WordDef
<1>2. ASSUME NEW b \in Int PROVE set_flags_byte(b) \in Flags
  <2>1. \A n \in Nat : Bit(b, n) \in {0, 1}
    BY BitRange
  <2> QED BY <2>1 DEF set_flags_byte, Flags, FlagNames
<1> QED BY <1>1, <1>2


-----------------------------------------------------------------------------
(* Memory. *)

IsMemory(m) == \A a \in DOMAIN m : a \in Word /\ a >= RamStart /\ m[a] \in Byte

LEMMA Reads ==
  ASSUME NEW m, IsMemory(m)
  PROVE  \A a : ReadByte(m, a) \in Byte /\ ReadWord(m, a) \in Word
<1>1. \A a : ReadByte(m, a) \in Byte
  BY ByteDef DEF ReadByte, IsMemory
<1>2. ASSUME NEW a PROVE ReadWord(m, a) \in Word
  <2> DEFINE l == ReadByte(m, a)  h == ReadByte(m, (a + 1) % 65536)
  <2>1. l \in Byte /\ h \in Byte /\ ReadWord(m, a) = l + 256 * h
    BY <1>1 DEF ReadWord
  <2> HIDE DEF l, h
  <2> QED BY <2>1, ByteDef, WordDef
<1> QED BY <1>1, <1>2

LEMMA WriteKeeps ==
  ASSUME NEW m, IsMemory(m), NEW a \in Word, NEW v \in Byte
  PROVE  IsMemory(WriteByte(m, a, v))
<1>1. CASE a < RamStart
  BY <1>1 DEF WriteByte
<1>2. CASE ~(a < RamStart)
  <2>1. WriteByte(m, a, v) = [b \in DOMAIN m \cup {a} |-> IF b = a THEN v ELSE m[b]]
    BY <1>2 DEF WriteByte
  <2>2. a >= RamStart
    BY <1>2, WordDef DEF RamStart
  <2> QED BY <2>1, <2>2 DEF IsMemory
<1> QED BY <1>1, <1>2

LEMMA WriteWordKeeps ==
  ASSUME NEW m, IsMemory(m), NEW a \in Word, NEW v \in Word
  PROVE  IsMemory(WriteWord(m, a, v))
<1>1. v % 256 \in Byte /\ v \div 256 \in Byte
  BY Halves
<1>2. (a + 1) % 65536 \in Word
  BY Wraps, WordDef
<1>3. IsMemory(WriteByte(m, a, v % 256))
  BY <1>1, WriteKeeps
<1> HIDE DEF IsMemory
<1> QED BY <1>1, <1>2, <1>3, WriteKeeps DEF WriteWord

\* Every set of numbers that is not empty has a least one.
LEMMA LeastNat ==
  ASSUME NEW T, T \subseteq Nat, T # {}
  PROVE  \E x \in T : \A y \in T : x <= y
<1> DEFINE R == {ss \in Nat \X Nat : ss[1] < ss[2]}
<1>1. IsWellFoundedOn(R, Nat)
  BY NatLessThanWellFounded DEF OpToRel
<1>2. PICK x \in T : \A y \in T : ~ (<<y, x>> \in R)
  <2> HIDE DEF R
  <2> QED BY <1>1, WFMin
<1>3. \A y \in T : x <= y
  <2> SUFFICES ASSUME NEW y \in T, y < x PROVE FALSE
    OBVIOUS
  <2>1. <<y, x>> \in Nat \X Nat
    OBVIOUS
  <2>2. <<y, x>> \in R
    BY <2>1
  <2> QED BY <2>2, <1>2
<1> QED BY <1>3

\* A block is copied byte by byte, and the memory stays one after every byte.
LEMMA BlockKeeps ==
  ASSUME NEW m, IsMemory(m), NEW from \in Word, NEW to \in Word, NEW count \in Nat, NEW d \in {1, -1}
  PROVE  IsMemory(BlockMove(m, from, to, count, d))
<1> DEFINE step(n, g) == WriteByte(g, (to + d * (n - 1)) % 65536, ReadByte(g, (from + d * (n - 1)) % 65536))
           body(g) == [n \in 0..count |-> IF n = 0 THEN m ELSE step(n, g[n - 1])]
           copy == CHOOSE g : g = body(g)
           Upto(g, k) == g = [n \in 0..k |-> g[n]]
                         /\ \A n \in 0..k : g[n] = (IF n = 0 THEN m ELSE step(n, g[n - 1])) /\ IsMemory(g[n])
           Bad == {k \in Nat : ~ \E g : Upto(g, k)}
<1>1. ASSUME NEW n \in Nat, NEW g, IsMemory(g) PROVE IsMemory(step(n, g))
  <2>1. (to + d * (n - 1)) \in Int /\ (from + d * (n - 1)) \in Int
    BY WordDef
  <2>2. (to + d * (n - 1)) % 65536 \in Word
    BY <2>1, Wraps
  <2> QED BY <1>1, <2>2, Reads, WriteKeeps
<1> HIDE DEF step
<1>2. Bad = {}
  <2> SUFFICES ASSUME Bad # {} PROVE FALSE
    OBVIOUS
  <2>1. PICK k \in Bad : \A j \in Bad : k <= j
    <3>1. Bad \subseteq Nat
      OBVIOUS
    <3> HIDE DEF Bad
    <3> QED BY <3>1, LeastNat
  <2>2. k \in Nat
    OBVIOUS
  <2>3. k # 0
    <3>1. Upto([n \in 0..0 |-> m], 0)
      OBVIOUS
    <3> QED BY <3>1
  <2>4. k - 1 \in Nat /\ k - 1 \notin Bad
    <3> HIDE DEF Bad
    <3> QED BY <2>1, <2>2, <2>3
  <2>5. PICK g : Upto(g, k - 1)
    BY <2>4
  <2> DEFINE h == [n \in 0..k |-> IF n = k THEN step(k, g[k - 1]) ELSE g[n]]
  <2>6. IsMemory(g[k - 1]) /\ IsMemory(step(k, g[k - 1]))
    BY <1>1, <2>2, <2>4, <2>5
  <2>7. Upto(h, k)
    <3> SUFFICES ASSUME NEW n \in 0..k
                 PROVE  h[n] = (IF n = 0 THEN m ELSE step(n, h[n - 1])) /\ IsMemory(h[n])
      OBVIOUS
    <3>1. CASE n = k
      <4>1. h[k] = step(k, g[k - 1]) /\ h[k - 1] = g[k - 1]
        BY <2>2, <2>3
      <4> HIDE DEF h
      <4> QED BY <2>3, <2>6, <3>1, <4>1
    <3>2. CASE n # k
      <4>1. n \in 0..(k - 1) /\ h[n] = g[n] /\ (n # 0 => h[n - 1] = g[n - 1])
        BY <2>2, <3>2
      <4> HIDE DEF h
      <4> QED BY <2>5, <4>1
    <3> QED BY <3>1, <3>2
  <2> QED BY <2>2, <2>7
<1>3. PICK g : Upto(g, count)
  BY <1>2
<1>4. g = body(g)
  BY <1>3
<1>5. copy = body(copy)
  <2> HIDE DEF body
  <2> QED BY <1>4
<1>6. BlockMove(m, from, to, count, d) = copy[count]
  BY DEF BlockMove, step
<1>7. \A n \in 0..count : IsMemory(copy[n])
  <2> DEFINE Wrong == {n \in 0..count : ~ IsMemory(copy[n])}
  <2> SUFFICES ASSUME Wrong # {} PROVE FALSE
    OBVIOUS
  <2>1. PICK k \in Wrong : \A j \in Wrong : k <= j
    <3>1. Wrong \subseteq Nat
      OBVIOUS
    <3> HIDE DEF Wrong
    <3> QED BY <3>1, LeastNat
  <2> HIDE DEF copy
  <2>2. k \in 0..count /\ copy[k] = IF k = 0 THEN m ELSE step(k, copy[k - 1])
    BY <1>5
  <2>3. k # 0
    BY <2>1, <2>2
  <2>4. k - 1 \in 0..count /\ k - 1 \notin Wrong
    <3>1. k - 1 \in 0..count /\ ~(k <= k - 1)
      BY <2>2, <2>3
    <3> HIDE DEF Wrong
    <3> QED BY <2>1, <3>1
  <2>5. IsMemory(copy[k - 1])
    BY <2>4
  <2> QED BY <1>1, <2>1, <2>2, <2>3, <2>5
<1> QED BY <1>6, <1>7

-----------------------------------------------------------------------------
(* The simulator's object: its fields, and what its methods do to them. *)

Object(R, f, a, af, ar, t, at, st, m, io) ==
  [regs |-> R, flags |-> f, alt_a |-> a, alt_flags |-> af, alt_regs |-> ar,
   tuple_regs16 |-> t, alt_tuple_regs16 |-> at, stack_list |-> st, mem |-> m, io_writes |-> io]

IsRegs(R) == R \in [Reg8 \cup {"SP"} -> Word] /\ \A r \in Reg8 : R[r] \in Byte
Values == Numbers \cup Markers

LEMMA Assembled ==
  ASSUME NEW R, IsRegs(R), NEW f \in Flags, NEW a \in Byte, NEW af \in Flags, NEW ar \in [Reg8 \ {"A"} -> Byte],
         NEW t, IsOverlay(t), NEW at, IsOverlay(at), NEW st \in Seq(Values), NEW m, IsMemory(m), NEW io
  PROVE  IsMachine(Object(R, f, a, af, ar, t, at, st, m, io))
<1> DEFINE s == Object(R, f, a, af, ar, t, at, st, m, io)
<1>1. /\ s.regs = R /\ s.flags = f /\ s.alt_a = a /\ s.alt_flags = af /\ s.alt_regs = ar
      /\ s.tuple_regs16 = t /\ s.alt_tuple_regs16 = at /\ s.stack_list = st /\ s.mem = m /\ s.io_writes = io
  BY DEF Object
<1>2. s = [regs |-> s.regs, flags |-> s.flags, alt_a |-> s.alt_a, alt_flags |-> s.alt_flags, alt_regs |-> s.alt_regs,
           tuple_regs16 |-> s.tuple_regs16, alt_tuple_regs16 |-> s.alt_tuple_regs16, stack_list |-> s.stack_list,
           mem |-> s.mem, io_writes |-> s.io_writes]
  BY <1>1, Zenon DEF Object
<1> HIDE DEF s
<1> QED BY <1>1, <1>2, Zenon DEF IsMachine, IsRegs, IsMemory, Values, s

LEMMA Parts ==
  ASSUME NEW s, IsMachine(s)
  PROVE  /\ s = Object(s.regs, s.flags, s.alt_a, s.alt_flags, s.alt_regs, s.tuple_regs16, s.alt_tuple_regs16,
                      s.stack_list, s.mem, s.io_writes)
         /\ IsRegs(s.regs) /\ s.flags \in Flags /\ s.alt_a \in Byte /\ s.alt_flags \in Flags
         /\ s.alt_regs \in [Reg8 \ {"A"} -> Byte] /\ IsOverlay(s.tuple_regs16) /\ IsOverlay(s.alt_tuple_regs16)
         /\ s.stack_list \in Seq(Values) /\ IsMemory(s.mem)
BY Zenon DEF IsMachine, Object, IsRegs, IsMemory, Values

\* Assignments to the fields, one line for each group of fields the interpreter assigns.
LEMMA Assigned ==
  ASSUME NEW s, IsMachine(s)
  PROVE  /\ \A R : [s EXCEPT !.regs = R] =
              Object(R, s.flags, s.alt_a, s.alt_flags, s.alt_regs, s.tuple_regs16, s.alt_tuple_regs16, s.stack_list, s.mem, s.io_writes)
         /\ \A f : [s EXCEPT !.flags = f] =
              Object(s.regs, f, s.alt_a, s.alt_flags, s.alt_regs, s.tuple_regs16, s.alt_tuple_regs16, s.stack_list, s.mem, s.io_writes)
         /\ \A R, f : [s EXCEPT !.regs = R, !.flags = f] =
              Object(R, f, s.alt_a, s.alt_flags, s.alt_regs, s.tuple_regs16, s.alt_tuple_regs16, s.stack_list, s.mem, s.io_writes)
         /\ \A R, st : [s EXCEPT !.regs = R, !.stack_list = st] =
              Object(R, s.flags, s.alt_a, s.alt_flags, s.alt_regs, s.tuple_regs16, s.alt_tuple_regs16, st, s.mem, s.io_writes)
         /\ \A t : [s EXCEPT !.tuple_regs16 = t] =
              Object(s.regs, s.flags, s.alt_a, s.alt_flags, s.alt_regs, t, s.alt_tuple_regs16, s.stack_list, s.mem, s.io_writes)
         /\ \A t, R : [s EXCEPT !.tuple_regs16 = t, !.regs = R] =
              Object(R, s.flags, s.alt_a, s.alt_flags, s.alt_regs, t, s.alt_tuple_regs16, s.stack_list, s.mem, s.io_writes)
         /\ \A m : [s EXCEPT !.mem = m] =
              Object(s.regs, s.flags, s.alt_a, s.alt_flags, s.alt_regs, s.tuple_regs16, s.alt_tuple_regs16, s.stack_list, m, s.io_writes)
         /\ \A m, f : [s EXCEPT !.mem = m, !.flags = f] =
              Object(s.regs, f, s.alt_a, s.alt_flags, s.alt_regs, s.tuple_regs16, s.alt_tuple_regs16, s.stack_list, m, s.io_writes)
         /\ \A io : [s EXCEPT !.io_writes = io] =
              Object(s.regs, s.flags, s.alt_a, s.alt_flags, s.alt_regs, s.tuple_regs16, s.alt_tuple_regs16, s.stack_list, s.mem, io)
<1>1. \A R : [s EXCEPT !.regs = R] =
     Object(R, s.flags, s.alt_a, s.alt_flags, s.alt_regs, s.tuple_regs16, s.alt_tuple_regs16, s.stack_list, s.mem, s.io_writes)
  BY DEF IsMachine, Object
<1>2. \A f : [s EXCEPT !.flags = f] =
     Object(s.regs, f, s.alt_a, s.alt_flags, s.alt_regs, s.tuple_regs16, s.alt_tuple_regs16, s.stack_list, s.mem, s.io_writes)
  BY DEF IsMachine, Object
<1>3. \A R, f : [s EXCEPT !.regs = R, !.flags = f] =
     Object(R, f, s.alt_a, s.alt_flags, s.alt_regs, s.tuple_regs16, s.alt_tuple_regs16, s.stack_list, s.mem, s.io_writes)
  <2> SUFFICES ASSUME NEW R, NEW f
               PROVE  [s EXCEPT !.regs = R, !.flags = f] = Object(R, f, s.alt_a, s.alt_flags, s.alt_regs, s.tuple_regs16, s.alt_tuple_regs16, s.stack_list, s.mem, s.io_writes)
    OBVIOUS
  <2>1. [s EXCEPT !.regs = R, !.flags = f] = [[s EXCEPT !.regs = R] EXCEPT !.flags = f]
    OBVIOUS
  <2>2. [s EXCEPT !.regs = R] = Object(R, s.flags, s.alt_a, s.alt_flags, s.alt_regs, s.tuple_regs16, s.alt_tuple_regs16, s.stack_list, s.mem, s.io_writes)
    BY DEF IsMachine, Object
  <2>3. [Object(R, s.flags, s.alt_a, s.alt_flags, s.alt_regs, s.tuple_regs16, s.alt_tuple_regs16, s.stack_list, s.mem, s.io_writes) EXCEPT !.flags = f] = Object(R, f, s.alt_a, s.alt_flags, s.alt_regs, s.tuple_regs16, s.alt_tuple_regs16, s.stack_list, s.mem, s.io_writes)
    BY DEF Object
  <2> QED BY <2>1, <2>2, <2>3
<1>4. \A R, st : [s EXCEPT !.regs = R, !.stack_list = st] =
     Object(R, s.flags, s.alt_a, s.alt_flags, s.alt_regs, s.tuple_regs16, s.alt_tuple_regs16, st, s.mem, s.io_writes)
  <2> SUFFICES ASSUME NEW R, NEW st
               PROVE  [s EXCEPT !.regs = R, !.stack_list = st] = Object(R, s.flags, s.alt_a, s.alt_flags, s.alt_regs, s.tuple_regs16, s.alt_tuple_regs16, st, s.mem, s.io_writes)
    OBVIOUS
  <2>1. [s EXCEPT !.regs = R, !.stack_list = st] = [[s EXCEPT !.regs = R] EXCEPT !.stack_list = st]
    OBVIOUS
  <2>2. [s EXCEPT !.regs = R] = Object(R, s.flags, s.alt_a, s.alt_flags, s.alt_regs, s.tuple_regs16, s.alt_tuple_regs16, s.stack_list, s.mem, s.io_writes)
    BY DEF IsMachine, Object
  <2>3. [Object(R, s.flags, s.alt_a, s.alt_flags, s.alt_regs, s.tuple_regs16, s.alt_tuple_regs16, s.stack_list, s.mem, s.io_writes) EXCEPT !.stack_list = st] = Object(R, s.flags, s.alt_a, s.alt_flags, s.alt_regs, s.tuple_regs16, s.alt_tuple_regs16, st, s.mem, s.io_writes)
    BY DEF Object
  <2> QED BY <2>1, <2>2, <2>3
<1>5. \A t : [s EXCEPT !.tuple_regs16 = t] =
     Object(s.regs, s.flags, s.alt_a, s.alt_flags, s.alt_regs, t, s.alt_tuple_regs16, s.stack_list, s.mem, s.io_writes)
  BY DEF IsMachine, Object
<1>6. \A t, R : [s EXCEPT !.tuple_regs16 = t, !.regs = R] =
     Object(R, s.flags, s.alt_a, s.alt_flags, s.alt_regs, t, s.alt_tuple_regs16, s.stack_list, s.mem, s.io_writes)
  <2> SUFFICES ASSUME NEW t, NEW R
               PROVE  [s EXCEPT !.tuple_regs16 = t, !.regs = R] = Object(R, s.flags, s.alt_a, s.alt_flags, s.alt_regs, t, s.alt_tuple_regs16, s.stack_list, s.mem, s.io_writes)
    OBVIOUS
  <2>1. [s EXCEPT !.tuple_regs16 = t, !.regs = R] = [[s EXCEPT !.tuple_regs16 = t] EXCEPT !.regs = R]
    OBVIOUS
  <2>2. [s EXCEPT !.tuple_regs16 = t] = Object(s.regs, s.flags, s.alt_a, s.alt_flags, s.alt_regs, t, s.alt_tuple_regs16, s.stack_list, s.mem, s.io_writes)
    BY DEF IsMachine, Object
  <2>3. [Object(s.regs, s.flags, s.alt_a, s.alt_flags, s.alt_regs, t, s.alt_tuple_regs16, s.stack_list, s.mem, s.io_writes) EXCEPT !.regs = R] = Object(R, s.flags, s.alt_a, s.alt_flags, s.alt_regs, t, s.alt_tuple_regs16, s.stack_list, s.mem, s.io_writes)
    BY DEF Object
  <2> QED BY <2>1, <2>2, <2>3
<1>7. \A m : [s EXCEPT !.mem = m] =
     Object(s.regs, s.flags, s.alt_a, s.alt_flags, s.alt_regs, s.tuple_regs16, s.alt_tuple_regs16, s.stack_list, m, s.io_writes)
  BY DEF IsMachine, Object
<1>8. \A m, f : [s EXCEPT !.mem = m, !.flags = f] =
     Object(s.regs, f, s.alt_a, s.alt_flags, s.alt_regs, s.tuple_regs16, s.alt_tuple_regs16, s.stack_list, m, s.io_writes)
  <2> SUFFICES ASSUME NEW m, NEW f
               PROVE  [s EXCEPT !.mem = m, !.flags = f] = Object(s.regs, f, s.alt_a, s.alt_flags, s.alt_regs, s.tuple_regs16, s.alt_tuple_regs16, s.stack_list, m, s.io_writes)
    OBVIOUS
  <2>1. [s EXCEPT !.mem = m, !.flags = f] = [[s EXCEPT !.mem = m] EXCEPT !.flags = f]
    OBVIOUS
  <2>2. [s EXCEPT !.mem = m] = Object(s.regs, s.flags, s.alt_a, s.alt_flags, s.alt_regs, s.tuple_regs16, s.alt_tuple_regs16, s.stack_list, m, s.io_writes)
    BY DEF IsMachine, Object
  <2>3. [Object(s.regs, s.flags, s.alt_a, s.alt_flags, s.alt_regs, s.tuple_regs16, s.alt_tuple_regs16, s.stack_list, m, s.io_writes) EXCEPT !.flags = f] = Object(s.regs, f, s.alt_a, s.alt_flags, s.alt_regs, s.tuple_regs16, s.alt_tuple_regs16, s.stack_list, m, s.io_writes)
    BY DEF Object
  <2> QED BY <2>1, <2>2, <2>3
<1>9. \A io : [s EXCEPT !.io_writes = io] =
     Object(s.regs, s.flags, s.alt_a, s.alt_flags, s.alt_regs, s.tuple_regs16, s.alt_tuple_regs16, s.stack_list, s.mem, io)
  BY DEF IsMachine, Object
<1> QED BY <1>1, <1>2, <1>3, <1>4, <1>5, <1>6, <1>7, <1>8, <1>9

LEMMA PairNames ==
  \A p \in Pairs : High[p] \in Reg8 \ {"A"} /\ Low[p] \in Reg8 \ {"A"} /\ High[p] # Low[p]
BY DEF High, Low, Pairs, Reg8

LEMMA RegsPut ==
  ASSUME NEW R, IsRegs(R)
  PROVE  /\ \A x \in Reg8, b \in Byte : IsRegs([R EXCEPT ![x] = b])
         /\ \A v \in Word : IsRegs([R EXCEPT !.SP = v])
         /\ \A p \in Pairs, v \in Word : IsRegs(WithPair(R, p, v))
         /\ \A p \in Pairs : PairOf(R, p) \in Word
<1>0. \A b \in Byte : b \in Word
  BY ByteDef, WordDef
<1>1. ASSUME NEW x \in Reg8, NEW b \in Byte PROVE IsRegs([R EXCEPT ![x] = b])
  BY <1>0 DEF IsRegs
<1>2. ASSUME NEW v \in Word PROVE IsRegs([R EXCEPT !.SP = v])
  BY DEF IsRegs, Reg8
<1>3. ASSUME NEW p \in Pairs, NEW v \in Word PROVE IsRegs(WithPair(R, p, v))
  <2>1. High[p] \in Reg8 /\ Low[p] \in Reg8
    BY PairNames
  <2>2. v \div 256 \in Byte /\ v % 256 \in Byte
    BY Halves
  <2>3. WithPair(R, p, v) = [[R EXCEPT ![High[p]] = v \div 256] EXCEPT ![Low[p]] = v % 256]
    BY DEF WithPair
  <2> DEFINE Q == [R EXCEPT ![High[p]] = v \div 256]
  <2>4. IsRegs(Q)
    BY <1>1, <2>1, <2>2
  <2> HIDE DEF Q
  <2>5. IsRegs([Q EXCEPT ![Low[p]] = v % 256])
    BY <1>0, <2>1, <2>2, <2>4 DEF IsRegs
  <2> QED BY <2>3, <2>5 DEF Q
<1>4. ASSUME NEW p \in Pairs PROVE PairOf(R, p) \in Word
  <2>1. R[High[p]] \in Byte /\ R[Low[p]] \in Byte
    BY PairNames DEF IsRegs
  <2> QED BY <2>1, Halves DEF PairOf
<1> QED BY <1>1, <1>2, <1>3, <1>4

\* Numbers and markers.
LEMMA Tags ==
  /\ \A v \in Word : Num(v) \in Numbers /\ Num(v).value = v /\ ~IsMarker(Num(v))
  /\ \A v \in Numbers : v.value \in Word /\ v = Num(v.value) /\ ~IsMarker(v)
  /\ \A v \in Markers : IsMarker(v) /\ v.value \in Nat /\ v.kind \in {"RETIDX", "HALT"}
  /\ \A v \in Markers : v.kind = "RETIDX" => v.value \in 0..LineCount
  /\ \A v \in Markers : v.kind = "HALT" => v.value = Trap
  /\ \A n \in 0..LineCount : RETIDX(n) \in Markers /\ RETIDX(n).value = n
  /\ HALT \in Markers /\ HALT.value = Trap
<1>1. \A v \in Word : Num(v) \in Numbers /\ Num(v).value = v /\ ~IsMarker(Num(v))
  BY DEF Num, Numbers, IsMarker
<1>2. \A v \in Numbers : v.value \in Word /\ v = Num(v.value) /\ ~IsMarker(v)
  BY DEF Num, Numbers, IsMarker
<1>3. LineCount \in Nat /\ Trap \in Nat
  BY SimAssumption, WordDef
<1>4. \A n \in 0..LineCount : RETIDX(n) \in Markers /\ RETIDX(n).value = n /\ RETIDX(n).kind = "RETIDX"
  BY DEF Markers, RETIDX
<1>5. HALT \in Markers /\ HALT.value = Trap /\ HALT.kind = "HALT"
  BY DEF Markers, HALT
<1>6. \A v \in Markers : v = HALT \/ \E n \in 0..LineCount : v = RETIDX(n)
  BY DEF Markers
<1> QED BY <1>1, <1>2, <1>3, <1>4, <1>5, <1>6 DEF IsMarker

LEMMA ValueOrMarker ==
  \A v \in Values : (IsMarker(v) <=> v \in Markers) /\ (~IsMarker(v) <=> v \in Numbers) /\ v.value \in Nat
BY Tags, WordDef DEF Values

LEMMA OverlayPut ==
  ASSUME NEW t, IsOverlay(t)
  PROVE  /\ \A p \in Pairs, v \in Markers : IsOverlay(With(t, p, v))
         /\ \A p \in Pairs : IsOverlay(Without(t, p))
BY DEF IsOverlay, With, Without

\* get_reg16 and set_reg16.
LEMMA GetReg ==
  ASSUME NEW s, IsMachine(s), NEW p \in Pairs
  PROVE  /\ get_reg16(s, p) \in Values
         /\ p \notin DOMAIN s.tuple_regs16 => get_reg16(s, p) = Num(PairOf(s.regs, p)) /\ get_reg16(s, p).value \in Word
         /\ p \in DOMAIN s.tuple_regs16 => get_reg16(s, p) = s.tuple_regs16[p] /\ get_reg16(s, p) \in Markers
<1>1. PairOf(s.regs, p) \in Word
  BY Parts, RegsPut
<1>2. IsOverlay(s.tuple_regs16)
  BY Parts
<1> QED BY <1>1, <1>2, Tags DEF get_reg16, IsOverlay, Values

LEMMA SetReg ==
  ASSUME NEW s, IsMachine(s), NEW p \in Pairs, NEW v \in Values
  PROVE  /\ IsMachine(set_reg16(s, p, v))
         /\ IsMarker(v) => set_reg16(s, p, v) =
              Object(s.regs, s.flags, s.alt_a, s.alt_flags, s.alt_regs, With(s.tuple_regs16, p, v), s.alt_tuple_regs16,
                     s.stack_list, s.mem, s.io_writes)
         /\ ~IsMarker(v) => set_reg16(s, p, v) =
              Object(WithPair(s.regs, p, v.value), s.flags, s.alt_a, s.alt_flags, s.alt_regs, Without(s.tuple_regs16, p),
                     s.alt_tuple_regs16, s.stack_list, s.mem, s.io_writes)
<1>1. CASE IsMarker(v)
  <2>1. set_reg16(s, p, v) = [s EXCEPT !.tuple_regs16 = With(s.tuple_regs16, p, v)]
    BY <1>1 DEF set_reg16
  <2>2. IsOverlay(With(s.tuple_regs16, p, v))
    BY <1>1, Parts, OverlayPut, ValueOrMarker
  <2> DEFINE t == With(s.tuple_regs16, p, v)
  <2>3. set_reg16(s, p, v) = Object(s.regs, s.flags, s.alt_a, s.alt_flags, s.alt_regs, t, s.alt_tuple_regs16,
                                    s.stack_list, s.mem, s.io_writes)
    <3>1. set_reg16(s, p, v) = [s EXCEPT !.tuple_regs16 = t]
      BY <2>1
    <3> HIDE DEF t
    <3> QED BY <3>1, Assigned
  <2> HIDE DEF t
  <2>4. IsMachine(Object(s.regs, s.flags, s.alt_a, s.alt_flags, s.alt_regs, t, s.alt_tuple_regs16,
                         s.stack_list, s.mem, s.io_writes))
    <3>1. IsOverlay(t)
      BY <2>2 DEF t
    <3> QED BY <3>1, Parts, Assembled
  <2> QED BY <1>1, <2>3, <2>4 DEF t
<1>2. CASE ~IsMarker(v)
  <2>1. set_reg16(s, p, v) = [s EXCEPT !.tuple_regs16 = Without(s.tuple_regs16, p), !.regs = WithPair(s.regs, p, v.value)]
    BY <1>2 DEF set_reg16
  <2>2. IsOverlay(Without(s.tuple_regs16, p))
    BY Parts, OverlayPut
  <2>3. v.value \in Word
    BY <1>2, ValueOrMarker, Tags
  <2>4. IsRegs(WithPair(s.regs, p, v.value))
    BY <2>3, Parts, RegsPut
  <2> DEFINE t == Without(s.tuple_regs16, p)  R == WithPair(s.regs, p, v.value)
  <2>5. set_reg16(s, p, v) = Object(R, s.flags, s.alt_a, s.alt_flags, s.alt_regs, t, s.alt_tuple_regs16,
                                    s.stack_list, s.mem, s.io_writes)
    <3>1. set_reg16(s, p, v) = [s EXCEPT !.tuple_regs16 = t, !.regs = R]
      BY <2>1
    <3> HIDE DEF t, R
    <3>2. [s EXCEPT !.tuple_regs16 = t, !.regs = R] = [[s EXCEPT !.tuple_regs16 = t] EXCEPT !.regs = R]
      OBVIOUS
    <3>3. [s EXCEPT !.tuple_regs16 = t] =
          Object(s.regs, s.flags, s.alt_a, s.alt_flags, s.alt_regs, t, s.alt_tuple_regs16, s.stack_list, s.mem, s.io_writes)
      BY Assigned
    <3> QED BY <3>1, <3>2, <3>3, Zenon DEF Object
  <2>6. IsOverlay(t) /\ IsRegs(R)
    BY <2>2, <2>4
  <2> HIDE DEF t, R
  <2>7. IsMachine(Object(R, s.flags, s.alt_a, s.alt_flags, s.alt_regs, t, s.alt_tuple_regs16,
                         s.stack_list, s.mem, s.io_writes))
    BY <2>6, Parts, Assembled
  <2> QED BY <1>2, <2>5, <2>7 DEF t, R
<1> QED BY <1>1, <1>2

LEMMA PushIs ==
  ASSUME NEW s, IsMachine(s), NEW v
  PROVE  push(s, v) = Object([s.regs EXCEPT !.SP = (s.regs["SP"] - 2) % 65536], s.flags, s.alt_a, s.alt_flags, s.alt_regs,
                            s.tuple_regs16, s.alt_tuple_regs16, Append(s.stack_list, v), s.mem, s.io_writes)
<1> DEFINE R == [s.regs EXCEPT !.SP = (s.regs["SP"] - 2) % 65536]  st == Append(s.stack_list, v)
<1>1. push(s, v) = [s EXCEPT !.regs = R, !.stack_list = st]
  BY DEF push
<1> HIDE DEF R, st
<1>2. push(s, v) = Object(R, s.flags, s.alt_a, s.alt_flags, s.alt_regs, s.tuple_regs16, s.alt_tuple_regs16, st, s.mem, s.io_writes)
  BY ZenonT(60), <1>1, Assigned
<1> QED BY <1>2 DEF R, st

LEMMA PushKeeps ==
  ASSUME NEW s, IsMachine(s), NEW v \in Values
  PROVE  IsMachine(push(s, v))
<1> DEFINE R == [s.regs EXCEPT !.SP = (s.regs["SP"] - 2) % 65536]  st == Append(s.stack_list, v)
<1>1. push(s, v) = [s EXCEPT !.regs = R, !.stack_list = st]
  BY DEF push
<1>2. s.regs.SP \in Word
  BY Parts DEF IsRegs
<1>3. (s.regs.SP - 2) % 65536 \in Word
  BY <1>2, Wraps, WordDef
<1>4. IsRegs(R)
  BY <1>3, Parts, RegsPut
<1>5. st \in Seq(Values)
  BY Parts
<1> HIDE DEF R, st
<1>6. push(s, v) = Object(R, s.flags, s.alt_a, s.alt_flags, s.alt_regs, s.tuple_regs16, s.alt_tuple_regs16, st, s.mem, s.io_writes)
  BY ZenonT(60), <1>1, Assigned
<1>7. IsMachine(Object(R, s.flags, s.alt_a, s.alt_flags, s.alt_regs, s.tuple_regs16, s.alt_tuple_regs16, st, s.mem, s.io_writes))
  BY <1>4, <1>5, Parts, Assembled
<1> QED BY <1>5, <1>6, <1>7

LEMMA PopIs ==
  ASSUME NEW s, IsMachine(s)
  PROVE  pop(s) = Object([s.regs EXCEPT !.SP = (s.regs["SP"] + 2) % 65536], s.flags, s.alt_a, s.alt_flags, s.alt_regs,
                            s.tuple_regs16, s.alt_tuple_regs16, SubSeq(s.stack_list, 1, Len(s.stack_list) - 1), s.mem, s.io_writes)
<1> DEFINE R == [s.regs EXCEPT !.SP = (s.regs["SP"] + 2) % 65536]  st == SubSeq(s.stack_list, 1, Len(s.stack_list) - 1)
<1>1. pop(s) = [s EXCEPT !.regs = R, !.stack_list = st]
  BY DEF pop
<1> HIDE DEF R, st
<1>2. pop(s) = Object(R, s.flags, s.alt_a, s.alt_flags, s.alt_regs, s.tuple_regs16, s.alt_tuple_regs16, st, s.mem, s.io_writes)
  BY ZenonT(60), <1>1, Assigned
<1> QED BY <1>2 DEF R, st

LEMMA PopKeeps ==
  ASSUME NEW s, IsMachine(s), s.stack_list # <<>>
  PROVE  IsMachine(pop(s)) /\ Top(s) \in Values
<1> DEFINE R == [s.regs EXCEPT !.SP = (s.regs["SP"] + 2) % 65536]  st == SubSeq(s.stack_list, 1, Len(s.stack_list) - 1)
<1>1. pop(s) = [s EXCEPT !.regs = R, !.stack_list = st]
  BY DEF pop
<1>2. s.regs.SP \in Word
  BY Parts DEF IsRegs
<1>3. (s.regs.SP + 2) % 65536 \in Word
  BY <1>2, Wraps, WordDef
<1>4. IsRegs(R)
  BY <1>3, Parts, RegsPut
<1>5. st \in Seq(Values) /\ Top(s) \in Values
  BY Parts DEF Top
<1> HIDE DEF R, st
<1>6. pop(s) = Object(R, s.flags, s.alt_a, s.alt_flags, s.alt_regs, s.tuple_regs16, s.alt_tuple_regs16, st, s.mem, s.io_writes)
  BY ZenonT(60), <1>1, Assigned
<1>7. IsMachine(Object(R, s.flags, s.alt_a, s.alt_flags, s.alt_regs, s.tuple_regs16, s.alt_tuple_regs16, st, s.mem, s.io_writes))
  BY <1>4, <1>5, Parts, Assembled
<1> QED BY <1>5, <1>6, <1>7

-----------------------------------------------------------------------------
(* The registers of the processor: A, SP, and for every pair the marker's  *)
(* address or the bytes.                                                   *)

Build(a, sp, V) ==
  [r \in Reg8 \cup {"SP"} |->
     CASE r = "A" -> a [] r = "SP" -> sp
       [] r = "B" -> V["BC"] \div 256 [] r = "C" -> V["BC"] % 256
       [] r = "D" -> V["DE"] \div 256 [] r = "E" -> V["DE"] % 256
       [] r = "H" -> V["HL"] \div 256 [] r = "L" -> V["HL"] % 256]

IsFile(F) == F = [r \in Reg8 \cup {"SP"} |-> F[r]]

\* What the eight registers of a file are.
Holds(G, a, sp, V) ==
  /\ IsFile(G) /\ G["A"] = a /\ G["SP"] = sp
  /\ G["B"] = V["BC"] \div 256 /\ G["C"] = V["BC"] % 256
  /\ G["D"] = V["DE"] \div 256 /\ G["E"] = V["DE"] % 256
  /\ G["H"] = V["HL"] \div 256 /\ G["L"] = V["HL"] % 256

LEMMA Built == \A a, sp, V : Holds(Build(a, sp, V), a, sp, V)
BY DEF Build, Reg8, Holds, IsFile

\* Two register files that hold the same are one.
LEMMA SameRegisters ==
  ASSUME NEW F, NEW G, NEW a, NEW sp, NEW V, Holds(F, a, sp, V), Holds(G, a, sp, V)
  PROVE  F = G
<1>1. \A r \in Reg8 \cup {"SP"} : F[r] = G[r]
  BY DEF Reg8, Holds
<1>2. [r \in Reg8 \cup {"SP"} |-> F[r]] = [r \in Reg8 \cup {"SP"} |-> G[r]]
  BY <1>1
<1> QED BY <1>2 DEF Holds, IsFile

\* Putting a pair: the two halves change, and nothing else.
LEMMA PairPut ==
  ASSUME NEW F, IsFile(F), NEW p \in Pairs, NEW v
  PROVE  /\ IsFile(WithPair(F, p, v))
         /\ WithPair(F, p, v)[High[p]] = v \div 256 /\ WithPair(F, p, v)[Low[p]] = v % 256
         /\ \A r \in Reg8 \cup {"SP"} : r # High[p] /\ r # Low[p] => WithPair(F, p, v)[r] = F[r]
<1>1. High[p] \in Reg8 \cup {"SP"} /\ Low[p] \in Reg8 \cup {"SP"} /\ High[p] # Low[p]
  BY PairNames
<1>2. WithPair(F, p, v) = [r \in Reg8 \cup {"SP"} |->
                             IF r = Low[p] THEN v % 256 ELSE IF r = High[p] THEN v \div 256 ELSE F[r]]
  BY <1>1 DEF WithPair, IsFile
<1> QED BY <1>1, <1>2 DEF IsFile

LEMMA Names ==
  /\ High["BC"] = "B" /\ Low["BC"] = "C" /\ High["DE"] = "D" /\ Low["DE"] = "E"
  /\ High["HL"] = "H" /\ Low["HL"] = "L"
BY DEF High, Low

LEMMA BuildPut ==
  ASSUME NEW a, NEW sp, NEW V, V = [q \in Pairs |-> V[q]], NEW p \in Pairs, NEW v
  PROVE  WithPair(Build(a, sp, V), p, v) = Build(a, sp, [V EXCEPT ![p] = v])
<1> DEFINE W == [V EXCEPT ![p] = v]  G == Build(a, sp, V)  N == Build(a, sp, W)  F == WithPair(G, p, v)
<1>1. W[p] = v /\ \A q \in Pairs : q # p => W[q] = V[q]
  OBVIOUS
<1>2. Holds(N, a, sp, W)
  BY Built, Zenon
<1>3. Holds(G, a, sp, V)
  BY Built, Zenon
<1> HIDE DEF G
<1>4. /\ IsFile(F)
      /\ F[High[p]] = v \div 256 /\ F[Low[p]] = v % 256
      /\ \A r \in Reg8 \cup {"SP"} : r # High[p] /\ r # Low[p] => F[r] = G[r]
  <2>1. IsFile(G)
    BY <1>3 DEF Holds
  <2> QED BY <2>1, PairPut
<1> HIDE DEF W, N, F
<1>5. Holds(F, a, sp, W)
  <2>1. CASE p = "BC"
    BY <1>1, <1>3, <1>4, <2>1, Names DEF Reg8, Pairs, Holds
  <2>2. CASE p = "DE"
    BY <1>1, <1>3, <1>4, <2>2, Names DEF Reg8, Pairs, Holds
  <2>3. CASE p = "HL"
    BY <1>1, <1>3, <1>4, <2>3, Names DEF Reg8, Pairs, Holds
  <2> QED BY <2>1, <2>2, <2>3 DEF Pairs
<1>6. F = N
  BY <1>2, <1>5, SameRegisters
<1> QED BY <1>6 DEF F, N, G, W

LEMMA BuildPair ==
  ASSUME NEW a, NEW sp, NEW V, NEW p \in Pairs, V[p] \in Nat
  PROVE  PairOf(Build(a, sp, V), p) = V[p]
<1>1. \A n \in Nat : 256 * (n \div 256) + (n % 256) = n
  OBVIOUS
<1>2. Build(a, sp, V)[High[p]] = V[p] \div 256 /\ Build(a, sp, V)[Low[p]] = V[p] % 256
  BY Built, Names DEF Pairs, Holds
<1> QED BY <1>1, <1>2 DEF PairOf

LEMMA AddressesAre ==
  ASSUME NEW R, IsRegs(R), NEW t, IsOverlay(t)
  PROVE  /\ Addresses(R, t) = [q \in Pairs |-> Addresses(R, t)[q]]
         /\ \A p \in Pairs : /\ Addresses(R, t)[p] \in Nat
                             /\ p \in DOMAIN t => Addresses(R, t)[p] = t[p].value
                             /\ p \notin DOMAIN t => Addresses(R, t)[p] = PairOf(R, p)
<1>1. \A p \in Pairs : PairOf(R, p) \in Nat
  BY RegsPut, WordDef
<1>2. \A p \in DOMAIN t : t[p].value \in Nat
  BY Tags DEF IsOverlay
<1> QED BY <1>1, <1>2 DEF Addresses

\* G is F with v in the pair of registers h and l.
Put(G, F, h, l, v) ==
  /\ IsFile(G) /\ G[h] = v \div 256 /\ G[l] = v % 256
  /\ \A r \in Reg8 \cup {"SP"} : r # h /\ r # l => G[r] = F[r]

LEMMA PutNamed ==
  \A F, v : IsFile(F) => /\ Put(WithPair(F, "BC", v), F, "B", "C", v)
                        /\ Put(WithPair(F, "DE", v), F, "D", "E", v)
                        /\ Put(WithPair(F, "HL", v), F, "H", "L", v)
<1> SUFFICES ASSUME NEW F, NEW v, IsFile(F)
             PROVE  /\ Put(WithPair(F, "BC", v), F, "B", "C", v)
                    /\ Put(WithPair(F, "DE", v), F, "D", "E", v)
                    /\ Put(WithPair(F, "HL", v), F, "H", "L", v)
  OBVIOUS
<1>1. \A p \in Pairs : Put(WithPair(F, p, v), F, High[p], Low[p], v)
  BY PairPut DEF Put
<1> QED BY <1>1, Names DEF Pairs

LEMMA ThreePairs ==
  ASSUME NEW R, IsFile(R), NEW V, NEW F1, F1 = WithPair(R, "BC", V["BC"]),
         NEW F2, F2 = WithPair(F1, "DE", V["DE"]), NEW F3, F3 = WithPair(F2, "HL", V["HL"])
  PROVE  Holds(F3, R["A"], R["SP"], V)
<1>1. Put(F1, R, "B", "C", V["BC"])
  BY PutNamed, Zenon
<1>2. Put(F2, F1, "D", "E", V["DE"])
  <2>1. IsFile(F1)
    BY <1>1 DEF Put
  <2> QED BY <2>1, PutNamed, Zenon
<1>3. Put(F3, F2, "H", "L", V["HL"])
  <2>1. IsFile(F2)
    BY <1>2 DEF Put
  <2> QED BY <2>1, PutNamed, Zenon
<1> QED BY <1>1, <1>2, <1>3 DEF Put, Holds, Reg8

LEMMA RegistersAre ==
  ASSUME NEW R, IsRegs(R), NEW t
  PROVE  RegistersOf(R, t) = Build(R["A"], R["SP"], Addresses(R, t))
<1> DEFINE V == Addresses(R, t)
<1>1. IsFile(R)
  BY DEF IsRegs, IsFile
<1>2. Holds(RegistersOf(R, t), R["A"], R["SP"], V)
  BY <1>1, ThreePairs DEF RegistersOf
<1>3. Holds(Build(R["A"], R["SP"], V), R["A"], R["SP"], V)
  BY Built
<1> HIDE DEF V
<1>4. RegistersOf(R, t) = Build(R["A"], R["SP"], V)
  BY <1>2, <1>3, SameRegisters
<1> QED BY <1>4 DEF V

\* The processor's registers, read.
LEMMA Readings ==
  ASSUME NEW R, IsRegs(R), NEW t, IsOverlay(t)
  PROVE  /\ IsFile(RegistersOf(R, t))
         /\ RegistersOf(R, t)["SP"] = R["SP"]
         /\ \A p \in Pairs : PairOf(RegistersOf(R, t), p) = Addresses(R, t)[p]
         /\ \A r \in Reg8 : r \notin Marked(t) => RegistersOf(R, t)[r] = R[r]
<1> DEFINE V == Addresses(R, t)  G == Build(R["A"], R["SP"], V)
<1>1. RegistersOf(R, t) = G
  BY RegistersAre
<1>2. /\ V = [q \in Pairs |-> V[q]]
      /\ \A p \in Pairs : V[p] \in Nat /\ (p \notin DOMAIN t => V[p] = PairOf(R, p))
  BY AddressesAre
<1> HIDE DEF V
<1>3. Holds(G, R["A"], R["SP"], V)
  BY Built
<1>4. \A p \in Pairs : PairOf(G, p) = V[p]
  BY <1>2, BuildPair
<1> HIDE DEF G
<1>5. ASSUME NEW p \in Pairs, p \notin DOMAIN t
      PROVE  V[p] \div 256 = R[High[p]] /\ V[p] % 256 = R[Low[p]]
  <2>1. R[High[p]] \in Byte /\ R[Low[p]] \in Byte
    BY PairNames DEF IsRegs
  <2>2. V[p] = 256 * R[High[p]] + R[Low[p]]
    BY <1>2, <1>5 DEF PairOf
  <2> QED BY <2>1, <2>2, Halves
<1>6. ASSUME NEW r \in Reg8, r \notin Marked(t) PROVE G[r] = R[r]
  <2>1. CASE r = "A"
    BY <1>3, <2>1 DEF Holds
  <2>2. CASE r \in {"B", "C"}
    <3>1. "BC" \notin DOMAIN t
      BY <1>6, <2>2, Names DEF Marked
    <3> QED BY <1>3, <1>5, <2>2, <3>1, Names DEF Holds, Pairs
  <2>3. CASE r \in {"D", "E"}
    <3>1. "DE" \notin DOMAIN t
      BY <1>6, <2>3, Names DEF Marked
    <3> QED BY <1>3, <1>5, <2>3, <3>1, Names DEF Holds, Pairs
  <2>4. CASE r \in {"H", "L"}
    <3>1. "HL" \notin DOMAIN t
      BY <1>6, <2>4, Names DEF Marked
    <3> QED BY <1>3, <1>5, <2>4, <3>1, Names DEF Holds, Pairs
  <2> QED BY <2>1, <2>2, <2>3, <2>4 DEF Reg8
<1> QED BY <1>1, <1>3, <1>4, <1>6 DEF V, G, Holds

\* Two register files with the same A and SP whose addresses differ in one pair.
LEMMA PairChanges ==
  ASSUME NEW R, IsRegs(R), NEW t, IsOverlay(t), NEW Q, IsRegs(Q), NEW u, IsOverlay(u),
         Q["A"] = R["A"], Q["SP"] = R["SP"], NEW p \in Pairs, NEW v,
         Addresses(Q, u)[p] = v,
         \A q \in Pairs : q # p => Addresses(Q, u)[q] = Addresses(R, t)[q]
  PROVE  RegistersOf(Q, u) = WithPair(RegistersOf(R, t), p, v)
<1> DEFINE V == Addresses(R, t)  W == Addresses(Q, u)
<1>1. V = [q \in Pairs |-> V[q]] /\ W = [q \in Pairs |-> W[q]]
  BY AddressesAre
<1>2. W[p] = v /\ \A q \in Pairs : q # p => W[q] = V[q]
  OBVIOUS
<1>3. RegistersOf(R, t) = Build(R["A"], R["SP"], V) /\ RegistersOf(Q, u) = Build(R["A"], R["SP"], W)
  BY RegistersAre
<1> HIDE DEF V, W
<1>4. W = [V EXCEPT ![p] = v]
  BY <1>1, <1>2
<1>5. WithPair(Build(R["A"], R["SP"], V), p, v) = Build(R["A"], R["SP"], [V EXCEPT ![p] = v])
  BY <1>1, BuildPut
<1> QED BY <1>3, <1>4, <1>5

LEMMA PairsApart ==
  \A p \in Pairs, q \in Pairs : p # q => /\ High[q] # High[p] /\ High[q] # Low[p]
                                         /\ Low[q] # High[p] /\ Low[q] # Low[p]
BY DEF High, Low, Pairs

LEMMA PutNumber ==
  ASSUME NEW R, IsRegs(R), NEW t, IsOverlay(t), NEW p \in Pairs, NEW v \in Word
  PROVE  RegistersOf(WithPair(R, p, v), Without(t, p)) = WithPair(RegistersOf(R, t), p, v)
<1> DEFINE Q == WithPair(R, p, v)  u == Without(t, p)
<1>1. IsFile(R)
  BY DEF IsRegs, IsFile
<1>2. IsRegs(Q) /\ IsOverlay(u)
  BY RegsPut, OverlayPut
<1>3. Q[High[p]] = v \div 256 /\ Q[Low[p]] = v % 256
      /\ \A r \in Reg8 \cup {"SP"} : r # High[p] /\ r # Low[p] => Q[r] = R[r]
  BY <1>1, PairPut
<1>4. "A" # High[p] /\ "A" # Low[p] /\ "SP" # High[p] /\ "SP" # Low[p] /\ "A" \in Reg8
  BY PairNames DEF Reg8
<1>5. Q["A"] = R["A"] /\ Q["SP"] = R["SP"]
  BY <1>3, <1>4
<1>6. PairOf(Q, p) = v
  BY <1>3, Halves DEF PairOf
<1>7. \A q \in Pairs : q # p => PairOf(Q, q) = PairOf(R, q)
  BY <1>3, PairNames, PairsApart DEF PairOf
<1>8. Addresses(Q, u)[p] = v /\ \A q \in Pairs : q # p => Addresses(Q, u)[q] = Addresses(R, t)[q]
  <2>1. p \notin DOMAIN u /\ \A q \in Pairs : q # p => (q \in DOMAIN u <=> q \in DOMAIN t) /\ (q \in DOMAIN t => u[q] = t[q])
    BY DEF Without
  <2> HIDE DEF Q, u
  <2> QED BY <1>6, <1>7, <2>1 DEF Addresses
<1> HIDE DEF Q, u
<1>9. RegistersOf(Q, u) = WithPair(RegistersOf(R, t), p, v)
  BY <1>2, <1>5, <1>8, PairChanges
<1> QED BY <1>9 DEF Q, u

LEMMA PutMarker ==
  ASSUME NEW R, IsRegs(R), NEW t, IsOverlay(t), NEW p \in Pairs, NEW v \in Markers
  PROVE  RegistersOf(R, With(t, p, v)) = WithPair(RegistersOf(R, t), p, v.value)
<1> DEFINE u == With(t, p, v)
<1>1. IsOverlay(u)
  BY OverlayPut
<1>2. Addresses(R, u)[p] = v.value /\ \A q \in Pairs : q # p => Addresses(R, u)[q] = Addresses(R, t)[q]
  BY DEF Addresses, With
<1> HIDE DEF u
<1>3. RegistersOf(R, u) = WithPair(RegistersOf(R, t), p, v.value)
  BY <1>1, <1>2, PairChanges
<1> QED BY <1>3 DEF u

\* A and SP belong to no pair.
LEMMA PutAlone ==
  ASSUME NEW R, IsRegs(R), NEW t, IsOverlay(t), NEW r \in {"A", "SP"}, NEW b, IsRegs([R EXCEPT ![r] = b])
  PROVE  RegistersOf([R EXCEPT ![r] = b], t) = [RegistersOf(R, t) EXCEPT ![r] = b]
<1> DEFINE Q == [R EXCEPT ![r] = b]  V == Addresses(R, t)  G == RegistersOf(R, t)  N == [G EXCEPT ![r] = b]
<1>0. R = [x \in Reg8 \cup {"SP"} |-> R[x]]
  BY DEF IsRegs
<1>1. Q[r] = b /\ \A x \in Reg8 \cup {"SP"} : x # r => Q[x] = R[x]
  BY <1>0 DEF Reg8
<1>2. \A p \in Pairs : PairOf(Q, p) = PairOf(R, p)
  <2>1. \A p \in Pairs : High[p] # r /\ Low[p] # r
    BY PairNames DEF Reg8
  <2> QED BY <1>1, <2>1, PairNames DEF PairOf
<1>3. Addresses(Q, t) = V
  <2> HIDE DEF Q
  <2> QED BY <1>2 DEF Addresses
<1>4. G = Build(R["A"], R["SP"], V) /\ RegistersOf(Q, t) = Build(Q["A"], Q["SP"], V)
  BY <1>3, RegistersAre
<1> HIDE DEF Q, V, G
<1>5. Holds(G, R["A"], R["SP"], V) /\ Holds(RegistersOf(Q, t), Q["A"], Q["SP"], V)
  BY <1>4, Built
<1>6. Holds(N, Q["A"], Q["SP"], V)
  <2>1. G = [x \in Reg8 \cup {"SP"} |-> G[x]]
    BY <1>5, Zenon DEF Holds, IsFile
  <2>2. N = [x \in Reg8 \cup {"SP"} |-> IF x = r THEN b ELSE G[x]]
    BY <2>1
  <2> HIDE DEF N
  <2>3. IsFile(N)
    BY <2>2 DEF IsFile
  <2>4. \A x \in Reg8 \cup {"SP"} : N[x] = IF x = r THEN b ELSE G[x]
    BY <2>2
  <2>5. {"A", "B", "C", "D", "E", "H", "L", "SP"} = Reg8 \cup {"SP"}
    BY DEF Reg8
  <2> QED BY <1>1, <1>5, <2>3, <2>4, <2>5 DEF Holds
<1>7. RegistersOf(Q, t) = N
  BY <1>5, <1>6, SameRegisters
<1> QED BY <1>7 DEF N, G, Q

\* A byte register, when no marker lies beside its pair.
LEMMA PutByte ==
  ASSUME NEW R, IsRegs(R), NEW t, IsOverlay(t), NEW r \in Reg8, r \notin Marked(t), NEW b \in Byte
  PROVE  RegistersOf([R EXCEPT ![r] = b], t) = [RegistersOf(R, t) EXCEPT ![r] = b]
<1> DEFINE Q == [R EXCEPT ![r] = b]  G == RegistersOf(R, t)
<1>0. IsRegs(Q)
  BY RegsPut
<1>1. CASE r = "A"
  BY <1>0, <1>1, PutAlone
<1>2. CASE r # "A"
  <2>1. PICK p \in Pairs : r = High[p] \/ r = Low[p]
    BY <1>2, Names DEF Pairs, Reg8
  <2>2. p \notin DOMAIN t
    BY <2>1 DEF Marked
  <2>3. High[p] \in Reg8 /\ Low[p] \in Reg8 /\ High[p] # Low[p] /\ "A" # High[p] /\ "A" # Low[p]
    BY PairNames
  <2>4. R = [x \in Reg8 \cup {"SP"} |-> R[x]] /\ R[High[p]] \in Byte /\ R[Low[p]] \in Byte
    BY <2>3 DEF IsRegs
  <2>5. Q[r] = b /\ \A x \in Reg8 \cup {"SP"} : x # r => Q[x] = R[x]
    BY <2>4
  <2>6. Q["A"] = R["A"] /\ Q["SP"] = R["SP"]
    BY <1>2, <2>5 DEF Reg8
  <2>7. \A q \in Pairs : q # p => PairOf(Q, q) = PairOf(R, q)
    BY <2>1, <2>5, PairNames, PairsApart DEF PairOf
  <2> DEFINE v == PairOf(Q, p)
  <2>8. v = IF r = High[p] THEN 256 * b + R[Low[p]] ELSE 256 * R[High[p]] + b
    BY <2>1, <2>3, <2>5 DEF PairOf
  <2>9. v \div 256 = (IF r = High[p] THEN b ELSE R[High[p]]) /\ v % 256 = (IF r = High[p] THEN R[Low[p]] ELSE b)
    <3> HIDE DEF v
    <3> QED BY <2>4, <2>8, Halves
  <2>10. Addresses(Q, t)[p] = v /\ \A q \in Pairs : q # p => Addresses(Q, t)[q] = Addresses(R, t)[q]
    <3> HIDE DEF Q
    <3> QED BY <2>2, <2>7 DEF Addresses
  <2> HIDE DEF v, Q
  <2>11. RegistersOf(Q, t) = WithPair(G, p, v)
    BY <1>0, <2>6, <2>10, PairChanges
  <2>12. G = [x \in Reg8 \cup {"SP"} |-> G[x]]
    BY Readings DEF IsFile
  <2>13. G[High[p]] = R[High[p]] /\ G[Low[p]] = R[Low[p]]
    <3>1. High[p] \notin Marked(t) /\ Low[p] \notin Marked(t)
      <4>1. \A q \in DOMAIN t : q \in Pairs /\ q # p
        BY <2>2 DEF IsOverlay
      <4> QED BY <4>1, PairsApart DEF Marked
    <3> QED BY <2>3, <3>1, Readings
  <2> HIDE DEF G
  <2>14. WithPair(G, p, v) = [[G EXCEPT ![High[p]] = v \div 256] EXCEPT ![Low[p]] = v % 256]
    BY DEF WithPair
  <2>15. WithPair(G, p, v) = [G EXCEPT ![r] = b]
    <3>1. CASE r = High[p]
      <4>1. WithPair(G, p, v) = [[G EXCEPT ![High[p]] = b] EXCEPT ![Low[p]] = G[Low[p]]]
        BY <2>9, <2>13, <2>14, <3>1
      <4> QED BY <2>3, <2>12, <3>1, <4>1
    <3>2. CASE r = Low[p]
      <4>1. WithPair(G, p, v) = [[G EXCEPT ![High[p]] = G[High[p]]] EXCEPT ![Low[p]] = b]
        BY <2>3, <2>9, <2>13, <2>14, <3>2
      <4> QED BY <2>3, <2>12, <3>2, <4>1
    <3> QED BY <2>1, <3>1, <3>2
  <2> QED BY <2>11, <2>15 DEF Q, G
<1> QED BY <1>1, <1>2

\* EXX: the bytes of the pairs and, apart from them, the markers.
Swapped(R, ar) == [r \in DOMAIN R |-> IF r \in DOMAIN ar THEN ar[r] ELSE R[r]]
Parked(R, ar) == [r \in DOMAIN ar |-> R[r]]

LEMMA Swaps ==
  ASSUME NEW R, IsRegs(R), NEW t, IsOverlay(t), NEW ar \in [Reg8 \ {"A"} -> Byte], NEW at, IsOverlay(at),
         NEW G, G = RegistersOf(R, t), NEW al, al = Addresses(ar, at)
  PROVE  /\ IsRegs(Swapped(R, ar)) /\ Parked(R, ar) \in [Reg8 \ {"A"} -> Byte]
         /\ RegistersOf(Swapped(R, ar), at) = WithPair(WithPair(WithPair(G, "BC", al["BC"]), "DE", al["DE"]), "HL", al["HL"])
         /\ Addresses(Parked(R, ar), t) = [p \in Pairs |-> PairOf(G, p)]
<1> DEFINE Q == Swapped(R, ar)
           S == Parked(R, ar)
           X == WithPair(WithPair(WithPair(G, "BC", al["BC"]), "DE", al["DE"]), "HL", al["HL"])
<1>1. DOMAIN R = Reg8 \cup {"SP"} /\ DOMAIN ar = Reg8 \ {"A"} /\ (\A r \in Reg8 : R[r] \in Byte)
      /\ R["SP"] \in Word /\ (\A r \in Reg8 \ {"A"} : ar[r] \in Byte)
  BY DEF IsRegs
<1>2. \A b \in Byte : b \in Word
  BY ByteDef, WordDef
<1>3. IsRegs(Q)
  <2>1. \A r \in Reg8 : Q[r] \in Byte
    BY <1>1 DEF Swapped
  <2>2. \A r \in Reg8 \cup {"SP"} : Q[r] \in Word
    BY <1>1, <1>2, <2>1 DEF Swapped, Reg8
  <2>3. Q \in [Reg8 \cup {"SP"} -> Word]
    BY <1>1, <2>2 DEF Swapped
  <2> HIDE DEF Q
  <2> QED BY <2>1, <2>3 DEF IsRegs
<1>4. S \in [Reg8 \ {"A"} -> Byte]
  BY <1>1 DEF Parked
<1>5. Q["A"] = R["A"] /\ Q["SP"] = R["SP"] /\ \A p \in Pairs : PairOf(Q, p) = PairOf(ar, p)
  BY <1>1, PairNames DEF Swapped, PairOf, Reg8
<1>6. \A p \in Pairs : PairOf(S, p) = PairOf(R, p)
  BY <1>1, PairNames DEF Parked, PairOf
<1>7. Addresses(Q, at) = al
  <2> HIDE DEF Q
  <2> QED BY <1>5 DEF Addresses
<1>8. Addresses(S, t) = [p \in Pairs |-> PairOf(G, p)]
  <2> HIDE DEF S
  <2>1. \A p \in Pairs : PairOf(G, p) = IF p \in DOMAIN t THEN t[p].value ELSE PairOf(R, p)
    BY Readings DEF Addresses
  <2> QED BY <1>6, <2>1 DEF Addresses
<1>9. IsFile(G) /\ G["A"] = R["A"] /\ G["SP"] = R["SP"]
  <2>1. "A" \notin Marked(t) /\ "A" \in Reg8
    BY PairNames DEF Marked, IsOverlay, Reg8
  <2> QED BY <2>1, Readings
<1> HIDE DEF Q, S
<1>10. Holds(X, R["A"], R["SP"], al)
  BY <1>9, ThreePairs
<1>11. Holds(RegistersOf(Q, at), R["A"], R["SP"], al)
  <2>1. RegistersOf(Q, at) = Build(R["A"], R["SP"], al)
    BY <1>3, <1>5, <1>7, RegistersAre
  <2> QED BY <2>1, Built
<1>12. RegistersOf(Q, at) = X
  <2> HIDE DEF X
  <2> QED BY <1>10, <1>11, SameRegisters
<1> QED BY <1>3, <1>4, <1>8, <1>12 DEF Q, S, X

-----------------------------------------------------------------------------
(* The processor an object stands for, and what the object's methods do to *)
(* it.                                                                     *)

Cpu(G, f, a, af, al, vs, m, io, n, on) ==
  [regs |-> G, flags |-> f, alt_a |-> a, alt_flags |-> af, alt |-> al, stack |-> vs,
   mem |-> m, io_writes |-> io, pc |-> n, running |-> on]

Plain(st) == [k \in DOMAIN st |-> st[k].value]

LEMMA View ==
  \A s, n, on : AsZ80(s, n, on) =
    Cpu(RegistersOf(s.regs, s.tuple_regs16), s.flags, s.alt_a, s.alt_flags, Addresses(s.alt_regs, s.alt_tuple_regs16),
        Plain(s.stack_list), s.mem, s.io_writes, n, on)
BY DEF AsZ80, Cpu, Plain

LEMMA ObjectView ==
  \A R, f, a, af, ar, t, at, st, m, io, n, on :
    AsZ80(Object(R, f, a, af, ar, t, at, st, m, io), n, on) =
      Cpu(RegistersOf(R, t), f, a, af, Addresses(ar, at), Plain(st), m, io, n, on)
BY DEF AsZ80, Cpu, Plain, Object

LEMMA CpuFields ==
  \A G, f, a, af, al, vs, m, io, n, on : LET c == Cpu(G, f, a, af, al, vs, m, io, n, on) IN
    /\ c.regs = G /\ c.flags = f /\ c.alt_a = a /\ c.alt_flags = af /\ c.alt = al
    /\ c.stack = vs /\ c.mem = m /\ c.io_writes = io /\ c.pc = n /\ c.running = on
BY DEF Cpu

LEMMA CpuPut ==
  ASSUME NEW G, NEW f, NEW a, NEW af, NEW al, NEW vs, NEW m, NEW io, NEW n, NEW on
  PROVE  /\ \A x : [Cpu(G, f, a, af, al, vs, m, io, n, on) EXCEPT !.regs = x] = Cpu(x, f, a, af, al, vs, m, io, n, on)
         /\ \A x : [Cpu(G, f, a, af, al, vs, m, io, n, on) EXCEPT !.flags = x] = Cpu(G, x, a, af, al, vs, m, io, n, on)
         /\ \A x : [Cpu(G, f, a, af, al, vs, m, io, n, on) EXCEPT !.stack = x] = Cpu(G, f, a, af, al, x, m, io, n, on)
         /\ \A x : [Cpu(G, f, a, af, al, vs, m, io, n, on) EXCEPT !.mem = x] = Cpu(G, f, a, af, al, vs, x, io, n, on)
         /\ \A x : [Cpu(G, f, a, af, al, vs, m, io, n, on) EXCEPT !.io_writes = x] = Cpu(G, f, a, af, al, vs, m, x, n, on)
         /\ \A x : [Cpu(G, f, a, af, al, vs, m, io, n, on) EXCEPT !.pc = x] = Cpu(G, f, a, af, al, vs, m, io, x, on)
         /\ \A x : [Cpu(G, f, a, af, al, vs, m, io, n, on) EXCEPT !.running = x] = Cpu(G, f, a, af, al, vs, m, io, n, x)
<1>1. \A x : [Cpu(G, f, a, af, al, vs, m, io, n, on) EXCEPT !.regs = x] = Cpu(x, f, a, af, al, vs, m, io, n, on)
  BY DEF Cpu
<1>2. \A x : [Cpu(G, f, a, af, al, vs, m, io, n, on) EXCEPT !.flags = x] = Cpu(G, x, a, af, al, vs, m, io, n, on)
  BY DEF Cpu
<1>3. \A x : [Cpu(G, f, a, af, al, vs, m, io, n, on) EXCEPT !.stack = x] = Cpu(G, f, a, af, al, x, m, io, n, on)
  BY DEF Cpu
<1>4. \A x : [Cpu(G, f, a, af, al, vs, m, io, n, on) EXCEPT !.mem = x] = Cpu(G, f, a, af, al, vs, x, io, n, on)
  BY DEF Cpu
<1>5. \A x : [Cpu(G, f, a, af, al, vs, m, io, n, on) EXCEPT !.io_writes = x] = Cpu(G, f, a, af, al, vs, m, x, n, on)
  BY DEF Cpu
<1>6. \A x : [Cpu(G, f, a, af, al, vs, m, io, n, on) EXCEPT !.pc = x] = Cpu(G, f, a, af, al, vs, m, io, x, on)
  BY DEF Cpu
<1>7. \A x : [Cpu(G, f, a, af, al, vs, m, io, n, on) EXCEPT !.running = x] = Cpu(G, f, a, af, al, vs, m, io, n, x)
  BY DEF Cpu
<1> QED BY <1>1, <1>2, <1>3, <1>4, <1>5, <1>6, <1>7

LEMMA StackViews ==
  ASSUME NEW st \in Seq(Values)
  PROVE  /\ \A v \in Values : Plain(Append(st, v)) = Append(Plain(st), v.value)
         /\ (Plain(st) = <<>>) <=> (st = <<>>)
         /\ Len(Plain(st)) = Len(st)
         /\ st # <<>> => /\ Plain(st)[Len(Plain(st))] = st[Len(st)].value
                         /\ Plain(SubSeq(st, 1, Len(st) - 1)) = SubSeq(Plain(st), 1, Len(Plain(st)) - 1)
<1>1. Plain(st) = [k \in 1..Len(st) |-> st[k].value] /\ Len(st) \in Nat
  BY DEF Plain
<1>2. \A k \in 1..Len(st) : st[k].value \in Nat
  BY ValueOrMarker
<1>3. Plain(st) \in Seq(Nat) /\ Len(Plain(st)) = Len(st)
  BY <1>1, <1>2
<1>4. ASSUME NEW v \in Values PROVE Plain(Append(st, v)) = Append(Plain(st), v.value)
  <2>1. v.value \in Nat
    BY ValueOrMarker
  <2>2. Append(st, v) \in Seq(Values) /\ Len(Append(st, v)) = Len(st) + 1
    OBVIOUS
  <2>3. Plain(Append(st, v)) = [k \in 1..(Len(st) + 1) |-> Append(st, v)[k].value]
    BY <2>2 DEF Plain
  <2>4. \A k \in 1..(Len(st) + 1) : Append(st, v)[k].value = Append(Plain(st), v.value)[k]
    BY <1>1, <1>3
  <2>5. Append(Plain(st), v.value) = [k \in 1..(Len(st) + 1) |-> Append(Plain(st), v.value)[k]]
    BY <1>3, <2>1
  <2> QED BY <2>3, <2>4, <2>5
<1>5. (Plain(st) = <<>>) <=> (st = <<>>)
  BY <1>3
<1>6. ASSUME st # <<>>
      PROVE  /\ Plain(st)[Len(Plain(st))] = st[Len(st)].value
             /\ Plain(SubSeq(st, 1, Len(st) - 1)) = SubSeq(Plain(st), 1, Len(Plain(st)) - 1)
  <2>1. Len(st) \in 1..Len(st)
    BY <1>6, <1>1
  <2>2. SubSeq(st, 1, Len(st) - 1) = [k \in 1..(Len(st) - 1) |-> st[k]]
    BY <2>1
  <2>3. SubSeq(Plain(st), 1, Len(st) - 1) = [k \in 1..(Len(st) - 1) |-> st[k].value]
    BY <1>1, <1>3, <2>1
  <2> QED BY <1>1, <1>3, <2>1, <2>2, <2>3 DEF Plain
<1> QED BY <1>3, <1>4, <1>5, <1>6

\* Assigning one field: the object stays one, and the processor's field follows.
LEMMA FieldPut ==
  ASSUME NEW s, IsMachine(s)
  PROVE  /\ \A R : IsRegs(R) => IsMachine([s EXCEPT !.regs = R])
         /\ \A R, n, on : AsZ80([s EXCEPT !.regs = R], n, on) = [AsZ80(s, n, on) EXCEPT !.regs = RegistersOf(R, s.tuple_regs16)]
         /\ \A f \in Flags : IsMachine([s EXCEPT !.flags = f])
         /\ \A f, n, on : AsZ80([s EXCEPT !.flags = f], n, on) = [AsZ80(s, n, on) EXCEPT !.flags = f]
         /\ \A m : IsMemory(m) => IsMachine([s EXCEPT !.mem = m])
         /\ \A m, n, on : AsZ80([s EXCEPT !.mem = m], n, on) = [AsZ80(s, n, on) EXCEPT !.mem = m]
         /\ \A io : IsMachine([s EXCEPT !.io_writes = io])
         /\ \A io, n, on : AsZ80([s EXCEPT !.io_writes = io], n, on) = [AsZ80(s, n, on) EXCEPT !.io_writes = io]
<1>1. /\ IsRegs(s.regs) /\ s.flags \in Flags /\ s.alt_a \in Byte /\ s.alt_flags \in Flags
      /\ s.alt_regs \in [Reg8 \ {"A"} -> Byte] /\ IsOverlay(s.tuple_regs16) /\ IsOverlay(s.alt_tuple_regs16)
      /\ s.stack_list \in Seq(Values) /\ IsMemory(s.mem)
  BY Parts
<1>2. ASSUME NEW R
      PROVE  /\ IsRegs(R) => IsMachine([s EXCEPT !.regs = R])
             /\ \A n, on : AsZ80([s EXCEPT !.regs = R], n, on) = [AsZ80(s, n, on) EXCEPT !.regs = RegistersOf(R, s.tuple_regs16)]
  <2>1. [s EXCEPT !.regs = R] =
        Object(R, s.flags, s.alt_a, s.alt_flags, s.alt_regs, s.tuple_regs16, s.alt_tuple_regs16, s.stack_list, s.mem, s.io_writes)
    BY Assigned
  <2>2. IsRegs(R) => IsMachine(Object(R, s.flags, s.alt_a, s.alt_flags, s.alt_regs, s.tuple_regs16, s.alt_tuple_regs16,
                                      s.stack_list, s.mem, s.io_writes))
    BY <1>1, Assembled
  <2>3. ASSUME NEW n, NEW on
        PROVE  AsZ80([s EXCEPT !.regs = R], n, on) = [AsZ80(s, n, on) EXCEPT !.regs = RegistersOf(R, s.tuple_regs16)]
    <3>1. AsZ80(s, n, on) = Cpu(RegistersOf(s.regs, s.tuple_regs16), s.flags, s.alt_a, s.alt_flags, Addresses(s.alt_regs, s.alt_tuple_regs16), Plain(s.stack_list), s.mem, s.io_writes, n, on)
      BY View, Zenon
    <3>2. AsZ80(Object(R, s.flags, s.alt_a, s.alt_flags, s.alt_regs, s.tuple_regs16, s.alt_tuple_regs16, s.stack_list, s.mem, s.io_writes), n, on) =
          Cpu(RegistersOf(R, s.tuple_regs16), s.flags, s.alt_a, s.alt_flags, Addresses(s.alt_regs, s.alt_tuple_regs16), Plain(s.stack_list), s.mem, s.io_writes, n, on)
      BY ObjectView
    <3>3. [Cpu(RegistersOf(s.regs, s.tuple_regs16), s.flags, s.alt_a, s.alt_flags, Addresses(s.alt_regs, s.alt_tuple_regs16), Plain(s.stack_list), s.mem, s.io_writes, n, on) EXCEPT !.regs = RegistersOf(R, s.tuple_regs16)] = Cpu(RegistersOf(R, s.tuple_regs16), s.flags, s.alt_a, s.alt_flags, Addresses(s.alt_regs, s.alt_tuple_regs16), Plain(s.stack_list), s.mem, s.io_writes, n, on)
      BY CpuPut
    <3> QED BY <2>1, <3>1, <3>2, <3>3, Zenon
  <2> QED BY <2>1, <2>2, <2>3, Zenon
<1>3. ASSUME NEW f
      PROVE  /\ f \in Flags => IsMachine([s EXCEPT !.flags = f])
             /\ \A n, on : AsZ80([s EXCEPT !.flags = f], n, on) = [AsZ80(s, n, on) EXCEPT !.flags = f]
  <2>1. [s EXCEPT !.flags = f] =
        Object(s.regs, f, s.alt_a, s.alt_flags, s.alt_regs, s.tuple_regs16, s.alt_tuple_regs16, s.stack_list, s.mem, s.io_writes)
    BY Assigned
  <2>2. f \in Flags => IsMachine(Object(s.regs, f, s.alt_a, s.alt_flags, s.alt_regs, s.tuple_regs16, s.alt_tuple_regs16,
                                        s.stack_list, s.mem, s.io_writes))
    BY <1>1, Assembled
  <2>3. ASSUME NEW n, NEW on
        PROVE  AsZ80([s EXCEPT !.flags = f], n, on) = [AsZ80(s, n, on) EXCEPT !.flags = f]
    <3>1. AsZ80(s, n, on) = Cpu(RegistersOf(s.regs, s.tuple_regs16), s.flags, s.alt_a, s.alt_flags, Addresses(s.alt_regs, s.alt_tuple_regs16), Plain(s.stack_list), s.mem, s.io_writes, n, on)
      BY View, Zenon
    <3>2. AsZ80(Object(s.regs, f, s.alt_a, s.alt_flags, s.alt_regs, s.tuple_regs16, s.alt_tuple_regs16, s.stack_list, s.mem, s.io_writes), n, on) =
          Cpu(RegistersOf(s.regs, s.tuple_regs16), f, s.alt_a, s.alt_flags, Addresses(s.alt_regs, s.alt_tuple_regs16), Plain(s.stack_list), s.mem, s.io_writes, n, on)
      BY ObjectView
    <3>3. [Cpu(RegistersOf(s.regs, s.tuple_regs16), s.flags, s.alt_a, s.alt_flags, Addresses(s.alt_regs, s.alt_tuple_regs16), Plain(s.stack_list), s.mem, s.io_writes, n, on) EXCEPT !.flags = f] = Cpu(RegistersOf(s.regs, s.tuple_regs16), f, s.alt_a, s.alt_flags, Addresses(s.alt_regs, s.alt_tuple_regs16), Plain(s.stack_list), s.mem, s.io_writes, n, on)
      BY CpuPut
    <3> QED BY <2>1, <3>1, <3>2, <3>3, Zenon
  <2> QED BY <2>1, <2>2, <2>3, Zenon
<1>4. ASSUME NEW m
      PROVE  /\ IsMemory(m) => IsMachine([s EXCEPT !.mem = m])
             /\ \A n, on : AsZ80([s EXCEPT !.mem = m], n, on) = [AsZ80(s, n, on) EXCEPT !.mem = m]
  <2>1. [s EXCEPT !.mem = m] =
        Object(s.regs, s.flags, s.alt_a, s.alt_flags, s.alt_regs, s.tuple_regs16, s.alt_tuple_regs16, s.stack_list, m, s.io_writes)
    BY Assigned
  <2>2. IsMemory(m) => IsMachine(Object(s.regs, s.flags, s.alt_a, s.alt_flags, s.alt_regs, s.tuple_regs16, s.alt_tuple_regs16,
                                        s.stack_list, m, s.io_writes))
    BY <1>1, Assembled
  <2>3. ASSUME NEW n, NEW on
        PROVE  AsZ80([s EXCEPT !.mem = m], n, on) = [AsZ80(s, n, on) EXCEPT !.mem = m]
    <3>1. AsZ80(s, n, on) = Cpu(RegistersOf(s.regs, s.tuple_regs16), s.flags, s.alt_a, s.alt_flags, Addresses(s.alt_regs, s.alt_tuple_regs16), Plain(s.stack_list), s.mem, s.io_writes, n, on)
      BY View, Zenon
    <3>2. AsZ80(Object(s.regs, s.flags, s.alt_a, s.alt_flags, s.alt_regs, s.tuple_regs16, s.alt_tuple_regs16, s.stack_list, m, s.io_writes), n, on) =
          Cpu(RegistersOf(s.regs, s.tuple_regs16), s.flags, s.alt_a, s.alt_flags, Addresses(s.alt_regs, s.alt_tuple_regs16), Plain(s.stack_list), m, s.io_writes, n, on)
      BY ObjectView
    <3>3. [Cpu(RegistersOf(s.regs, s.tuple_regs16), s.flags, s.alt_a, s.alt_flags, Addresses(s.alt_regs, s.alt_tuple_regs16), Plain(s.stack_list), s.mem, s.io_writes, n, on) EXCEPT !.mem = m] = Cpu(RegistersOf(s.regs, s.tuple_regs16), s.flags, s.alt_a, s.alt_flags, Addresses(s.alt_regs, s.alt_tuple_regs16), Plain(s.stack_list), m, s.io_writes, n, on)
      BY CpuPut
    <3> QED BY <2>1, <3>1, <3>2, <3>3, Zenon
  <2> QED BY <2>1, <2>2, <2>3, Zenon
<1>5. ASSUME NEW io
      PROVE  /\ IsMachine([s EXCEPT !.io_writes = io])
             /\ \A n, on : AsZ80([s EXCEPT !.io_writes = io], n, on) = [AsZ80(s, n, on) EXCEPT !.io_writes = io]
  <2>1. [s EXCEPT !.io_writes = io] =
        Object(s.regs, s.flags, s.alt_a, s.alt_flags, s.alt_regs, s.tuple_regs16, s.alt_tuple_regs16, s.stack_list, s.mem, io)
    BY ZenonT(60), Assigned
  <2>2. IsMachine(Object(s.regs, s.flags, s.alt_a, s.alt_flags, s.alt_regs, s.tuple_regs16, s.alt_tuple_regs16,
                         s.stack_list, s.mem, io))
    BY <1>1, Assembled
  <2>3. ASSUME NEW n, NEW on
        PROVE  AsZ80([s EXCEPT !.io_writes = io], n, on) = [AsZ80(s, n, on) EXCEPT !.io_writes = io]
    <3>1. AsZ80(s, n, on) = Cpu(RegistersOf(s.regs, s.tuple_regs16), s.flags, s.alt_a, s.alt_flags, Addresses(s.alt_regs, s.alt_tuple_regs16), Plain(s.stack_list), s.mem, s.io_writes, n, on)
      BY View, Zenon
    <3>2. AsZ80(Object(s.regs, s.flags, s.alt_a, s.alt_flags, s.alt_regs, s.tuple_regs16, s.alt_tuple_regs16, s.stack_list, s.mem, io), n, on) =
          Cpu(RegistersOf(s.regs, s.tuple_regs16), s.flags, s.alt_a, s.alt_flags, Addresses(s.alt_regs, s.alt_tuple_regs16), Plain(s.stack_list), s.mem, io, n, on)
      BY ObjectView
    <3>3. [Cpu(RegistersOf(s.regs, s.tuple_regs16), s.flags, s.alt_a, s.alt_flags, Addresses(s.alt_regs, s.alt_tuple_regs16), Plain(s.stack_list), s.mem, s.io_writes, n, on) EXCEPT !.io_writes = io] = Cpu(RegistersOf(s.regs, s.tuple_regs16), s.flags, s.alt_a, s.alt_flags, Addresses(s.alt_regs, s.alt_tuple_regs16), Plain(s.stack_list), s.mem, io, n, on)
      BY CpuPut
    <3> QED BY <2>1, <3>1, <3>2, <3>3, Zenon
  <2> QED BY <2>1, <2>2, <2>3, Zenon
<1> QED BY <1>2, <1>3, <1>4, <1>5

\* The counter and the running flag are the interpreter's own.
LEMMA Moves ==
  ASSUME NEW s, NEW n, NEW on
  PROVE  /\ \A k : AsZ80(s, k, on) = [AsZ80(s, n, on) EXCEPT !.pc = k]
         /\ \A off : AsZ80(s, n, off) = [AsZ80(s, n, on) EXCEPT !.running = off]
<1>1. AsZ80(s, n, on) = Cpu(RegistersOf(s.regs, s.tuple_regs16), s.flags, s.alt_a, s.alt_flags, Addresses(s.alt_regs, s.alt_tuple_regs16),
            Plain(s.stack_list), s.mem, s.io_writes, n, on)
  BY View
<1>2. ASSUME NEW k PROVE AsZ80(s, k, on) = [AsZ80(s, n, on) EXCEPT !.pc = k]
  <2>1. AsZ80(s, k, on) = Cpu(RegistersOf(s.regs, s.tuple_regs16), s.flags, s.alt_a, s.alt_flags, Addresses(s.alt_regs, s.alt_tuple_regs16),
            Plain(s.stack_list), s.mem, s.io_writes, k, on)
    BY View
  <2>2. [Cpu(RegistersOf(s.regs, s.tuple_regs16), s.flags, s.alt_a, s.alt_flags, Addresses(s.alt_regs, s.alt_tuple_regs16),
            Plain(s.stack_list), s.mem, s.io_writes, n, on) EXCEPT !.pc = k] =
        Cpu(RegistersOf(s.regs, s.tuple_regs16), s.flags, s.alt_a, s.alt_flags, Addresses(s.alt_regs, s.alt_tuple_regs16),
            Plain(s.stack_list), s.mem, s.io_writes, k, on)
    BY CpuPut
  <2> QED BY <1>1, <2>1, <2>2, Zenon
<1>3. ASSUME NEW off PROVE AsZ80(s, n, off) = [AsZ80(s, n, on) EXCEPT !.running = off]
  <2>1. AsZ80(s, n, off) = Cpu(RegistersOf(s.regs, s.tuple_regs16), s.flags, s.alt_a, s.alt_flags, Addresses(s.alt_regs, s.alt_tuple_regs16),
            Plain(s.stack_list), s.mem, s.io_writes, n, off)
    BY View
  <2>2. [Cpu(RegistersOf(s.regs, s.tuple_regs16), s.flags, s.alt_a, s.alt_flags, Addresses(s.alt_regs, s.alt_tuple_regs16),
            Plain(s.stack_list), s.mem, s.io_writes, n, on) EXCEPT !.running = off] =
        Cpu(RegistersOf(s.regs, s.tuple_regs16), s.flags, s.alt_a, s.alt_flags, Addresses(s.alt_regs, s.alt_tuple_regs16),
            Plain(s.stack_list), s.mem, s.io_writes, n, off)
    BY CpuPut
  <2> QED BY <1>1, <2>1, <2>2, Zenon
<1> QED BY <1>2, <1>3

\* What the processor reads, and what the object's methods return.
LEMMA Reading ==
  ASSUME NEW s, IsMachine(s), NEW n, NEW on
  PROVE  LET c == AsZ80(s, n, on) IN
         /\ c.flags = s.flags /\ c.alt_a = s.alt_a /\ c.alt_flags = s.alt_flags /\ c.mem = s.mem
         /\ c.io_writes = s.io_writes /\ c.pc = n /\ c.running = on
         /\ c.alt = Addresses(s.alt_regs, s.alt_tuple_regs16)
         /\ c.regs = RegistersOf(s.regs, s.tuple_regs16) /\ c.stack = Plain(s.stack_list)
         /\ \A p \in Pairs : PairOf(c.regs, p) = get_reg16(s, p).value
         /\ \A r \in Reg8 : r \notin Marked(s.tuple_regs16) => c.regs[r] = s.regs[r]
         /\ (c.stack = <<>>) <=> (s.stack_list = <<>>)
         /\ s.stack_list # <<>> => c.stack[Len(c.stack)] = Top(s).value
<1>1. IsRegs(s.regs) /\ IsOverlay(s.tuple_regs16) /\ s.stack_list \in Seq(Values)
  BY Parts
<1> DEFINE c == AsZ80(s, n, on)
<1>2. /\ c.flags = s.flags /\ c.alt_a = s.alt_a /\ c.alt_flags = s.alt_flags /\ c.mem = s.mem
      /\ c.io_writes = s.io_writes /\ c.pc = n /\ c.running = on
      /\ c.alt = Addresses(s.alt_regs, s.alt_tuple_regs16)
      /\ c.regs = RegistersOf(s.regs, s.tuple_regs16) /\ c.stack = Plain(s.stack_list)
  BY View, CpuFields
<1> HIDE DEF c
<1>3. \A p \in Pairs : PairOf(c.regs, p) = get_reg16(s, p).value
  <2>1. \A p \in Pairs : PairOf(c.regs, p) = Addresses(s.regs, s.tuple_regs16)[p]
    BY <1>1, <1>2, Readings
  <2>2. \A p \in Pairs : Addresses(s.regs, s.tuple_regs16)[p] = get_reg16(s, p).value
    BY DEF Addresses, get_reg16, Num
  <2> QED BY <2>1, <2>2
<1>4. \A r \in Reg8 : r \notin Marked(s.tuple_regs16) => c.regs[r] = s.regs[r]
  BY <1>1, <1>2, Readings
<1>5. /\ (c.stack = <<>>) <=> (s.stack_list = <<>>)
      /\ s.stack_list # <<>> => c.stack[Len(c.stack)] = Top(s).value
  BY <1>1, <1>2, StackViews DEF Top
<1> QED BY <1>2, <1>3, <1>4, <1>5 DEF c

LEMMA SetRegView ==
  ASSUME NEW s, IsMachine(s), NEW p \in Pairs, NEW v \in Values, NEW n, NEW on
  PROVE  AsZ80(set_reg16(s, p, v), n, on) = [AsZ80(s, n, on) EXCEPT !.regs = WithPair(AsZ80(s, n, on).regs, p, v.value)]
<1>1. IsRegs(s.regs) /\ IsOverlay(s.tuple_regs16)
  BY Parts
<1> DEFINE G == RegistersOf(s.regs, s.tuple_regs16)
<1>2. AsZ80(s, n, on) = Cpu(G, s.flags, s.alt_a, s.alt_flags, Addresses(s.alt_regs, s.alt_tuple_regs16),
            Plain(s.stack_list), s.mem, s.io_writes, n, on)
  BY View
<1>3. AsZ80(s, n, on).regs = G
  BY Reading
<1>4. AsZ80(set_reg16(s, p, v), n, on) = Cpu(WithPair(G, p, v.value), s.flags, s.alt_a, s.alt_flags, Addresses(s.alt_regs, s.alt_tuple_regs16),
            Plain(s.stack_list), s.mem, s.io_writes, n, on)
  <2>1. CASE IsMarker(v)
    <3>1. set_reg16(s, p, v) =
          Object(s.regs, s.flags, s.alt_a, s.alt_flags, s.alt_regs, With(s.tuple_regs16, p, v), s.alt_tuple_regs16,
                 s.stack_list, s.mem, s.io_writes)
      BY <2>1, SetReg
    <3>2. RegistersOf(s.regs, With(s.tuple_regs16, p, v)) = WithPair(G, p, v.value)
      BY <1>1, <2>1, ValueOrMarker, PutMarker
    <3> QED BY <3>1, <3>2, ObjectView
  <2>2. CASE ~IsMarker(v)
    <3>1. set_reg16(s, p, v) =
          Object(WithPair(s.regs, p, v.value), s.flags, s.alt_a, s.alt_flags, s.alt_regs, Without(s.tuple_regs16, p),
                 s.alt_tuple_regs16, s.stack_list, s.mem, s.io_writes)
      BY <2>2, SetReg
    <3>2. v.value \in Word
      BY <2>2, ValueOrMarker, Tags
    <3>3. RegistersOf(WithPair(s.regs, p, v.value), Without(s.tuple_regs16, p)) = WithPair(G, p, v.value)
      BY <1>1, <3>2, PutNumber
    <3> QED BY <3>1, <3>3, ObjectView
  <2> QED BY <2>1, <2>2
<1>5. [Cpu(G, s.flags, s.alt_a, s.alt_flags, Addresses(s.alt_regs, s.alt_tuple_regs16),
            Plain(s.stack_list), s.mem, s.io_writes, n, on) EXCEPT !.regs = WithPair(G, p, v.value)] =
      Cpu(WithPair(G, p, v.value), s.flags, s.alt_a, s.alt_flags, Addresses(s.alt_regs, s.alt_tuple_regs16),
            Plain(s.stack_list), s.mem, s.io_writes, n, on)
  BY CpuPut
<1> HIDE DEF G
<1> QED BY <1>2, <1>3, <1>4, <1>5, Zenon

LEMMA PushForm ==
  ASSUME NEW G, NEW f, NEW a, NEW af, NEW al, NEW vs, NEW m, NEW io, NEW n, NEW on, NEW v
  PROVE  Processor!Push(Cpu(G, f, a, af, al, vs, m, io, n, on), v) =
           Cpu([G EXCEPT !.SP = (G["SP"] - 2) % 65536], f, a, af, al, Append(vs, v), m, io, n, on)
<1> DEFINE c == Cpu(G, f, a, af, al, vs, m, io, n, on)
<1>1. PICK us : us = Append(vs, v)
  OBVIOUS
<1>2. PICK w : w = (G["SP"] - 2) % 65536
  OBVIOUS
<1>3. c.stack = vs /\ c.regs = G
  BY CpuFields
<1>4. Processor!Push(c, v) = [c EXCEPT !.stack = us, !.regs = [G EXCEPT !.SP = w]]
  BY <1>1, <1>2, <1>3 DEF Processor!Push
<1>5. [c EXCEPT !.stack = us, !.regs = [G EXCEPT !.SP = w]] = [[c EXCEPT !.stack = us] EXCEPT !.regs = [G EXCEPT !.SP = w]]
  OBVIOUS
<1>6. [c EXCEPT !.stack = us] = Cpu(G, f, a, af, al, us, m, io, n, on)
  BY DEF Cpu
<1>7. [Cpu(G, f, a, af, al, us, m, io, n, on) EXCEPT !.regs = [G EXCEPT !.SP = w]] = Cpu([G EXCEPT !.SP = w], f, a, af, al, us, m, io, n, on)
  BY DEF Cpu
<1> HIDE DEF c
<1>8. Processor!Push(c, v) = Cpu([G EXCEPT !.SP = w], f, a, af, al, us, m, io, n, on)
  BY <1>4, <1>5, <1>6, <1>7, Zenon
<1> QED BY <1>1, <1>2, <1>8 DEF c

LEMMA PopForm ==
  ASSUME NEW G, NEW f, NEW a, NEW af, NEW al, NEW vs, NEW m, NEW io, NEW n, NEW on
  PROVE  Processor!Popped(Cpu(G, f, a, af, al, vs, m, io, n, on)) =
           Cpu([G EXCEPT !.SP = (G["SP"] + 2) % 65536], f, a, af, al, SubSeq(vs, 1, Len(vs) - 1), m, io, n, on)
<1> DEFINE c == Cpu(G, f, a, af, al, vs, m, io, n, on)
<1>1. PICK us : us = SubSeq(vs, 1, Len(vs) - 1)
  OBVIOUS
<1>2. PICK w : w = (G["SP"] + 2) % 65536
  OBVIOUS
<1>3. c.stack = vs /\ c.regs = G
  BY CpuFields
<1>4. Processor!Popped(c) = [c EXCEPT !.stack = us, !.regs = [G EXCEPT !.SP = w]]
  BY <1>1, <1>2, <1>3 DEF Processor!Popped
<1>5. [c EXCEPT !.stack = us, !.regs = [G EXCEPT !.SP = w]] = [[c EXCEPT !.stack = us] EXCEPT !.regs = [G EXCEPT !.SP = w]]
  OBVIOUS
<1>6. [c EXCEPT !.stack = us] = Cpu(G, f, a, af, al, us, m, io, n, on)
  BY DEF Cpu
<1>7. [Cpu(G, f, a, af, al, us, m, io, n, on) EXCEPT !.regs = [G EXCEPT !.SP = w]] = Cpu([G EXCEPT !.SP = w], f, a, af, al, us, m, io, n, on)
  BY DEF Cpu
<1> HIDE DEF c
<1>8. Processor!Popped(c) = Cpu([G EXCEPT !.SP = w], f, a, af, al, us, m, io, n, on)
  BY <1>4, <1>5, <1>6, <1>7, Zenon
<1> QED BY <1>1, <1>2, <1>8 DEF c

LEMMA PutSP ==
  ASSUME NEW R, IsRegs(R), NEW t, IsOverlay(t), NEW b \in Word
  PROVE  RegistersOf([R EXCEPT !["SP"] = b], t) = [RegistersOf(R, t) EXCEPT !["SP"] = b]
<1>1. \A r \in {"A", "SP"} : IsRegs([R EXCEPT ![r] = b]) => RegistersOf([R EXCEPT ![r] = b], t) = [RegistersOf(R, t) EXCEPT ![r] = b]
  BY SMTT(60), PutAlone
<1>2. IsRegs([R EXCEPT !["SP"] = b])
  BY RegsPut
<1> QED BY <1>1, <1>2, Zenon

LEMMA PushView ==
  ASSUME NEW s, IsMachine(s), NEW v \in Values, NEW n, NEW on
  PROVE  AsZ80(push(s, v), n, on) = Processor!Push(AsZ80(s, n, on), v.value)
<1>1. IsRegs(s.regs) /\ IsOverlay(s.tuple_regs16) /\ s.stack_list \in Seq(Values)
  BY Parts
<1>2. PICK G : G = RegistersOf(s.regs, s.tuple_regs16)
  OBVIOUS
<1>3. PICK w : w = (G["SP"] - 2) % 65536
  OBVIOUS
<1>4. PICK vs : vs = Plain(s.stack_list)
  OBVIOUS
<1>5. PICK us : us = Append(vs, v.value)
  OBVIOUS
<1>6. G["SP"] = s.regs["SP"]
  BY <1>1, <1>2, Readings
<1>7. w \in Word
  <2>1. s.regs["SP"] \in Word
    BY <1>1 DEF IsRegs
  <2> QED BY <1>3, <1>6, <2>1, Wraps, WordDef
<1>8. push(s, v) = Object([s.regs EXCEPT !["SP"] = w], s.flags, s.alt_a, s.alt_flags, s.alt_regs, s.tuple_regs16,
                   s.alt_tuple_regs16, Append(s.stack_list, v), s.mem, s.io_writes)
  BY <1>3, <1>6, PushIs
<1>9. RegistersOf([s.regs EXCEPT !["SP"] = w], s.tuple_regs16) = [G EXCEPT !["SP"] = w]
  BY <1>1, <1>2, <1>7, PutSP
<1>10. Plain(Append(s.stack_list, v)) = us
  BY <1>1, <1>4, <1>5, StackViews
<1>11. AsZ80(push(s, v), n, on) =
       Cpu([G EXCEPT !["SP"] = w], s.flags, s.alt_a, s.alt_flags, Addresses(s.alt_regs, s.alt_tuple_regs16),
            us, s.mem, s.io_writes, n, on)
  BY <1>8, <1>9, <1>10, ObjectView
<1>12. AsZ80(s, n, on) = Cpu(G, s.flags, s.alt_a, s.alt_flags, Addresses(s.alt_regs, s.alt_tuple_regs16),
            vs, s.mem, s.io_writes, n, on)
  BY <1>2, <1>4, View
<1>13. Processor!Push(Cpu(G, s.flags, s.alt_a, s.alt_flags, Addresses(s.alt_regs, s.alt_tuple_regs16),
            vs, s.mem, s.io_writes, n, on), v.value) =
       Cpu([G EXCEPT !.SP = w], s.flags, s.alt_a, s.alt_flags, Addresses(s.alt_regs, s.alt_tuple_regs16),
            us, s.mem, s.io_writes, n, on)
  BY <1>3, <1>5, PushForm
<1> QED BY <1>11, <1>12, <1>13, Zenon

LEMMA PopView ==
  ASSUME NEW s, IsMachine(s), s.stack_list # <<>>, NEW n, NEW on
  PROVE  AsZ80(pop(s), n, on) = Processor!Popped(AsZ80(s, n, on))
<1>1. IsRegs(s.regs) /\ IsOverlay(s.tuple_regs16) /\ s.stack_list \in Seq(Values)
  BY Parts
<1>2. PICK G : G = RegistersOf(s.regs, s.tuple_regs16)
  OBVIOUS
<1>3. PICK w : w = (G["SP"] + 2) % 65536
  OBVIOUS
<1>4. PICK vs : vs = Plain(s.stack_list)
  OBVIOUS
<1>5. PICK us : us = SubSeq(vs, 1, Len(vs) - 1)
  OBVIOUS
<1>6. G["SP"] = s.regs["SP"]
  BY <1>1, <1>2, Readings
<1>7. w \in Word
  <2>1. s.regs["SP"] \in Word
    BY <1>1 DEF IsRegs
  <2> QED BY <1>3, <1>6, <2>1, Wraps, WordDef
<1>8. pop(s) = Object([s.regs EXCEPT !["SP"] = w], s.flags, s.alt_a, s.alt_flags, s.alt_regs, s.tuple_regs16,
                   s.alt_tuple_regs16, SubSeq(s.stack_list, 1, Len(s.stack_list) - 1), s.mem, s.io_writes)
  BY <1>3, <1>6, PopIs
<1>9. RegistersOf([s.regs EXCEPT !["SP"] = w], s.tuple_regs16) = [G EXCEPT !["SP"] = w]
  BY <1>1, <1>2, <1>7, PutSP
<1>10. Plain(SubSeq(s.stack_list, 1, Len(s.stack_list) - 1)) = us
  BY <1>1, <1>4, <1>5, StackViews
<1>11. AsZ80(pop(s), n, on) =
       Cpu([G EXCEPT !["SP"] = w], s.flags, s.alt_a, s.alt_flags, Addresses(s.alt_regs, s.alt_tuple_regs16),
            us, s.mem, s.io_writes, n, on)
  BY <1>8, <1>9, <1>10, ObjectView
<1>12. AsZ80(s, n, on) = Cpu(G, s.flags, s.alt_a, s.alt_flags, Addresses(s.alt_regs, s.alt_tuple_regs16),
            vs, s.mem, s.io_writes, n, on)
  BY <1>2, <1>4, View
<1>13. Processor!Popped(Cpu(G, s.flags, s.alt_a, s.alt_flags, Addresses(s.alt_regs, s.alt_tuple_regs16),
            vs, s.mem, s.io_writes, n, on)) =
       Cpu([G EXCEPT !.SP = w], s.flags, s.alt_a, s.alt_flags, Addresses(s.alt_regs, s.alt_tuple_regs16),
            us, s.mem, s.io_writes, n, on)
  BY <1>3, <1>5, PopForm
<1> QED BY <1>11, <1>12, <1>13, Zenon

-----------------------------------------------------------------------------
(***************************************************************************)
(* E. What the instructions do to an object: it stays one.                 *)
(***************************************************************************)
\* A byte register, the flags, both, the memory.
PutReg(s, r, b) == [s EXCEPT !.regs[r] = b]
PutFlags(s, f) == [s EXCEPT !.flags = f]
PutRegFlags(s, r, b, f) == [s EXCEPT !.regs[r] = b, !.flags = f]
PutMem(s, m) == [s EXCEPT !.mem = m]

LEMMA PutKeeps ==
  ASSUME NEW s, IsMachine(s)
  PROVE  /\ \A f \in Flags : IsMachine(PutFlags(s, f))
         /\ \A m : IsMemory(m) => IsMachine(PutMem(s, m))
         /\ \A r \in Reg8, b \in Byte : IsMachine(PutReg(s, r, b))
         /\ \A r \in Reg8, b \in Byte, f \in Flags : IsMachine(PutRegFlags(s, r, b, f))
<1>1. \A f \in Flags : IsMachine(PutFlags(s, f))
  BY FieldPut, Zenon DEF PutFlags
<1>2. \A m : IsMemory(m) => IsMachine(PutMem(s, m))
  BY FieldPut, Zenon DEF PutMem
<1>3. ASSUME NEW r \in Reg8, NEW b \in Byte
      PROVE  IsMachine(PutReg(s, r, b)) /\ \A f \in Flags : IsMachine(PutRegFlags(s, r, b, f))
  <2>1. PICK R : R = [s.regs EXCEPT ![r] = b]
    BY Zenon
  <2>2. IsRegs(R)
    BY <2>1, Parts, RegsPut
  <2>3. PICK t : t = [s EXCEPT !.regs = R]
    BY Zenon
  <2>4. IsMachine(t)
    BY <2>2, <2>3, FieldPut
  <2>5. PutReg(s, r, b) = t
    BY <2>1, <2>3 DEF PutReg
  <2>6. ASSUME NEW f \in Flags PROVE IsMachine(PutRegFlags(s, r, b, f))
    <3>1. PutRegFlags(s, r, b, f) = [t EXCEPT !.flags = f]
      BY <2>1, <2>3 DEF PutRegFlags
    <3>2. IsMachine([t EXCEPT !.flags = f])
      BY <2>4, FieldPut
    <3> QED BY <3>1, <3>2, Zenon
  <2> QED BY <2>4, <2>5, <2>6, Zenon
<1> QED BY <1>1, <1>2, <1>3

Usable(s, i) == PairsUsedAsNumbers(i) \cap DOMAIN s.tuple_regs16 = {}

LEMMA NumberRead ==
  ASSUME NEW s, IsMachine(s), NEW p \in Pairs, p \notin DOMAIN s.tuple_regs16
  PROVE  get_reg16(s, p).value \in Word /\ get_reg16(s, p).value = PairOf(s.regs, p)
<1>1. PairOf(s.regs, p) \in Word
  BY Parts, RegsPut
<1> QED BY <1>1, GetReg, Tags

LEMMA NumberKept ==
  ASSUME NEW s, IsMachine(s), NEW p \in Pairs, NEW v \in Word
  PROVE  IsMachine(set_reg16(s, p, Num(v)))
<1>1. Num(v) \in Values
  BY Tags DEF Values
<1> QED BY <1>1, SetReg

LEMMA LoadKeeps ==
  ASSUME NEW s, IsMachine(s), NEW i, WellFormed(i, LineCount), i.mn \in LoadOps, Usable(s, i)
  PROVE  IsMachine(Loaded(s, i))
<1>0. IsRegs(s.regs) /\ IsMemory(s.mem) /\ \A r \in Reg8 : s.regs[r] \in Byte
  BY Parts DEF IsRegs
<1>1. CASE i.mn = "ld16n"
  <2>1. i.x \in Pairs /\ i.n \in Word
    BY <1>1 DEF WellFormed, PairOps
  <2>2. Loaded(s, i) = set_reg16(s, i.x, Num(i.n))
    BY <1>1 DEF Loaded
  <2> QED BY <2>1, <2>2, NumberKept
<1>2. CASE i.mn = "ld16l"
  <2>1. i.x \in Pairs /\ i.n \in 0..LineCount
    BY <1>2 DEF WellFormed, PairOps, LabelOps
  <2>2. Loaded(s, i) = set_reg16(s, i.x, RETIDX(i.n))
    BY <1>2 DEF Loaded
  <2>3. RETIDX(i.n) \in Values
    BY <2>1, Tags DEF Values
  <2> QED BY <2>1, <2>2, <2>3, SetReg
<1>3. CASE i.mn = "ld16m"
  <2>1. i.x \in Pairs
    BY <1>3 DEF WellFormed, PairOps
  <2>2. Loaded(s, i) = set_reg16(s, i.x, Num(ReadWord(s.mem, i.n)))
    BY <1>3 DEF Loaded
  <2>3. ReadWord(s.mem, i.n) \in Word
    BY <1>0, Reads
  <2> QED BY <2>1, <2>2, <2>3, NumberKept
<1>4. CASE i.mn = "st16"
  <2>1. i.x \in Pairs /\ i.n \in Word
    BY <1>4 DEF WellFormed, PairOps
  <2>2. i.x \notin DOMAIN s.tuple_regs16
    BY <1>4 DEF Usable, PairsUsedAsNumbers
  <2>3. PICK v : v = get_reg16(s, i.x).value
    BY Zenon
  <2>4. v \in Word
    BY <2>1, <2>2, <2>3, NumberRead
  <2>5. PICK m : m = WriteWord(s.mem, i.n, v)
    BY Zenon
  <2>6. Loaded(s, i) = PutMem(s, m)
    BY <1>4, <2>3, <2>5 DEF Loaded, PutMem
  <2>7. IsMemory(m)
    BY <1>0, <2>1, <2>4, <2>5, WriteWordKeeps
  <2> QED BY <2>6, <2>7, PutKeeps
<1>5. CASE i.mn = "ld8n"
  <2>1. i.x \in Reg8 /\ i.n \in Byte
    BY <1>5 DEF WellFormed, RegisterOps
  <2>2. Loaded(s, i) = PutReg(s, i.x, i.n)
    BY <1>5 DEF Loaded, PutReg
  <2> QED BY <2>1, <2>2, PutKeeps
<1>6. CASE i.mn = "ld8r"
  <2>1. i.x \in Reg8 /\ i.y \in Reg8
    BY <1>6 DEF WellFormed, RegisterOps
  <2>2. Loaded(s, i) = PutReg(s, i.x, s.regs[i.y])
    BY <1>6 DEF Loaded, PutReg
  <2> QED BY <1>0, <2>1, <2>2, PutKeeps
<1>7. CASE i.mn = "ld8m"
  <2>1. i.x \in Reg8
    BY <1>7 DEF WellFormed, RegisterOps
  <2>2. PICK b : b = ReadByte(s.mem, get_reg16(s, i.y).value)
    BY Zenon
  <2>3. Loaded(s, i) = PutReg(s, i.x, b)
    BY <1>7, <2>2 DEF Loaded, PutReg
  <2>4. b \in Byte
    BY <1>0, <2>2, Reads
  <2> QED BY <2>1, <2>3, <2>4, PutKeeps
<1>8. CASE i.mn = "st8"
  <2>1. i.x \in Pairs /\ i.y \in Reg8
    BY <1>8 DEF WellFormed, PairOps
  <2>2. i.x \notin DOMAIN s.tuple_regs16
    BY <1>8 DEF Usable, PairsUsedAsNumbers
  <2>3. PICK a : a = get_reg16(s, i.x).value
    BY Zenon
  <2>4. a \in Word
    BY <2>1, <2>2, <2>3, NumberRead
  <2>5. PICK m : m = WriteByte(s.mem, a, s.regs[i.y])
    BY Zenon
  <2>6. Loaded(s, i) = PutMem(s, m)
    BY <1>8, <2>3, <2>5 DEF Loaded, PutMem
  <2>7. IsMemory(m)
    BY <1>0, <2>1, <2>4, <2>5, WriteKeeps
  <2> QED BY <2>6, <2>7, PutKeeps
<1> QED BY <1>1, <1>2, <1>3, <1>4, <1>5, <1>6, <1>7, <1>8 DEF LoadOps

LEMMA StackKeeps ==
  ASSUME NEW s, IsMachine(s), NEW i, WellFormed(i, LineCount), i.mn \in StackOps,
         i.mn \in PopOps => s.stack_list # <<>>, i.mn = "popaf" => ~IsMarker(Top(s))
  PROVE  IsMachine(Stacked(s, i))
<1>0. IsRegs(s.regs) /\ s.flags \in Flags /\ s.regs["A"] \in Byte
  BY Parts DEF IsRegs, Reg8
<1>1. CASE i.mn = "push"
  <2>1. i.x \in Pairs
    BY <1>1 DEF WellFormed, PairOps
  <2>2. Stacked(s, i) = push(s, get_reg16(s, i.x))
    BY <1>1 DEF Stacked
  <2>3. get_reg16(s, i.x) \in Values
    BY <2>1, GetReg, Zenon
  <2> QED BY <2>2, <2>3, PushKeeps, Zenon
<1>2. CASE i.mn = "pushaf"
  <2>1. PICK v : v = 256 * s.regs["A"] + flags_byte(s.flags)
    OBVIOUS
  <2>2. Stacked(s, i) = push(s, Num(v))
    BY <1>2, <2>1 DEF Stacked
  <2>3. v \in Word
    BY <1>0, <2>1, FlagsByte
  <2>4. Num(v) \in Values
    BY <2>3, Tags DEF Values
  <2> QED BY <2>2, <2>4, PushKeeps, Zenon
<1>3. CASE i.mn \in {"pop", "popaf"}
  <2>1. s.stack_list # <<>>
    BY <1>3 DEF PopOps
  <2>2. PICK t : t = pop(s)
    BY Zenon
  <2>3. IsMachine(t) /\ Top(s) \in Values
    BY <2>1, <2>2, PopKeeps, Zenon
  <2>4. CASE i.mn = "pop"
    <3>1. i.x \in Pairs
      BY <2>4 DEF WellFormed, PairOps
    <3>2. Stacked(s, i) = set_reg16(t, i.x, Top(s))
      BY <2>2, <2>4 DEF Stacked
    <3> QED BY <2>3, <3>1, <3>2, SetReg
  <2>5. CASE i.mn = "popaf"
    <3>1. PICK v : v = Top(s).value
      BY Zenon
    <3>2. v \in Word
      BY <2>3, <2>5, <3>1, Tags, ValueOrMarker
    <3>3. v \div 256 \in Byte /\ set_flags_byte(v % 256) \in Flags
      <4>1. v % 256 \in Int
        BY <3>2, WordDef
      <4> QED BY <3>2, <4>1, Halves, FlagsByte
    <3>4. Stacked(s, i) = PutRegFlags(t, "A", v \div 256, set_flags_byte(v % 256))
      BY <2>2, <2>5, <3>1 DEF Stacked, PutRegFlags
    <3>5. "A" \in Reg8
      BY DEF Reg8
    <3> QED BY <2>3, <3>3, <3>4, <3>5, PutKeeps
  <2> QED BY <1>3, <2>4, <2>5
<1> QED BY <1>1, <1>2, <1>3 DEF StackOps

LEMMA CountKeeps ==
  ASSUME NEW s, IsMachine(s), NEW i, WellFormed(i, LineCount), i.mn \in CountOps, Usable(s, i)
  PROVE  IsMachine(Counted(s, i))
<1>0. s.flags \in Flags /\ \A r \in Reg8 : s.regs[r] \in Byte
  BY Parts DEF IsRegs
<1>1. CASE i.mn \in {"inc16", "dec16"}
  <2>1. i.x \in Pairs
    BY <1>1 DEF WellFormed, PairOps
  <2>2. i.x \notin DOMAIN s.tuple_regs16
    BY <1>1 DEF Usable, PairsUsedAsNumbers
  <2>3. PICK a : a = get_reg16(s, i.x).value
    BY Zenon
  <2>4. a \in Word
    BY <2>1, <2>2, <2>3, NumberRead
  <2>5. PICK d \in {1, -1} : Counted(s, i) = set_reg16(s, i.x, Num((a + d) % 65536))
    <3>1. CASE i.mn = "inc16"
      BY <3>1, <2>3 DEF Counted
    <3>2. CASE i.mn = "dec16"
      BY <3>2, <2>3 DEF Counted
    <3> QED BY <1>1, <3>1, <3>2
  <2>6. (a + d) % 65536 \in Word
    <3>1. a + d \in Int
      BY <2>4, WordDef
    <3> QED BY <3>1, Wraps
  <2> QED BY <2>1, <2>5, <2>6, NumberKept
<1>2. CASE i.mn \in {"inc8", "dec8"}
  <2>1. i.x \in Reg8
    BY <1>2 DEF WellFormed, RegisterOps
  <2>2. PICK r : r = IF i.mn = "inc8" THEN inc8(s.flags, s.regs[i.x]) ELSE dec8(s.flags, s.regs[i.x])
    BY Zenon
  <2>3. r.result \in Byte /\ r.flags \in Flags
    <3>1. s.regs[i.x] \in Byte
      BY <1>0, <2>1
    <3>2. ByteAndFlags(inc8(s.flags, s.regs[i.x])) /\ ByteAndFlags(dec8(s.flags, s.regs[i.x]))
      BY <1>0, <3>1, Count8
    <3> QED BY <2>2, <3>2, Zenon DEF ByteAndFlags
  <2>4. Counted(s, i) = PutRegFlags(s, i.x, r.result, r.flags)
    BY <1>2, <2>2 DEF Counted, PutRegFlags
  <2> QED BY <2>1, <2>3, <2>4, PutKeeps
<1> QED BY <1>1, <1>2 DEF CountOps

LEMMA SumKeeps ==
  ASSUME NEW s, IsMachine(s), NEW i, WellFormed(i, LineCount), i.mn \in SumOps, Usable(s, i)
  PROVE  IsMachine(Summed(s, i))
<1>0. s.flags \in Flags /\ \A r \in Reg8 : s.regs[r] \in Byte
  BY Parts DEF IsRegs
<1>1. CASE i.mn \in {"add16", "adc16", "sbc16"}
  <2>1. i.x \in Pairs /\ "HL" \in Pairs
    BY <1>1 DEF WellFormed, PairOps, Pairs
  <2>2. i.x \notin DOMAIN s.tuple_regs16 /\ "HL" \notin DOMAIN s.tuple_regs16
    BY <1>1 DEF Usable, PairsUsedAsNumbers
  <2>3. PICK a, b : a = get_reg16(s, "HL").value /\ b = get_reg16(s, i.x).value
    BY Zenon
  <2>4. a \in Word /\ b \in Word
    BY <2>1, <2>2, <2>3, NumberRead
  <2>5. PICK r : r = Sum16(s.flags, i.mn, a, b)
    BY Zenon
  <2>6. r.result \in Word /\ r.flags \in Flags
    <3>1. WordAndFlags(Sum16(s.flags, i.mn, a, b))
      BY <1>0, <1>1, <2>4, Sum16Range
    <3> QED BY <2>5, <3>1, Zenon DEF WordAndFlags
  <2>7. Summed(s, i) = PutFlags(set_reg16(s, "HL", Num(r.result)), r.flags)
    BY <1>1, <2>3, <2>5 DEF Summed, PutFlags
  <2>8. IsMachine(set_reg16(s, "HL", Num(r.result)))
    BY <2>1, <2>6, NumberKept
  <2> QED BY <2>6, <2>7, <2>8, PutKeeps
<1>2. CASE i.mn \notin {"add16", "adc16", "sbc16"}
  <2>1. "A" \in Reg8
    BY DEF Reg8
  <2>2. PICK r : r = Alu8(s.flags, i.mn, s.regs["A"], s.regs[i.x])
    BY Zenon
  <2>3. r.result \in Byte /\ r.flags \in Flags
    <3>1. i.mn \in RegisterOps => s.regs[i.x] \in Byte
      BY <1>0 DEF WellFormed
    <3>2. i.mn \in SumOps \ {"add16", "adc16", "sbc16"} /\ s.regs["A"] \in Byte
      BY <1>0, <1>2, <2>1
    <3>3. ByteAndFlags(Alu8(s.flags, i.mn, s.regs["A"], s.regs[i.x]))
      BY <1>0, <3>1, <3>2, Alu8Range
    <3> QED BY <2>2, <3>3, Zenon DEF ByteAndFlags
  <2>4. Summed(s, i) = PutRegFlags(s, "A", r.result, r.flags)
    BY <1>2, <2>2 DEF Summed, PutRegFlags
  <2> QED BY <2>1, <2>3, <2>4, PutKeeps
<1> QED BY <1>1, <1>2

LEMMA ShiftKeeps ==
  ASSUME NEW s, IsMachine(s), NEW i, WellFormed(i, LineCount), i.mn \in BitOps
  PROVE  IsMachine(Shifted(s, i))
<1>0. i.x \in Reg8 /\ s.flags \in Flags /\ s.regs[i.x] \in Byte
  <2>1. i.x \in Reg8
    BY DEF WellFormed, RegisterOps
  <2> QED BY <2>1, Parts DEF IsRegs
<1>1. CASE i.mn = "bit"
  <2>1. i.n \in 0..7
    BY <1>1 DEF WellFormed
  <2>2. PICK f : f = bit8(s.flags, i.n, s.regs[i.x])
    BY Zenon
  <2>3. f \in Flags
    BY <1>0, <2>1, <2>2, Bit8
  <2>4. Shifted(s, i) = PutFlags(s, f)
    BY <1>1, <2>2 DEF Shifted, PutFlags
  <2> QED BY <2>3, <2>4, PutKeeps
<1>2. CASE i.mn \in {"set", "res"}
  <2>1. i.n \in 0..7
    BY <1>2 DEF WellFormed
  <2>2. PICK b : b = set_res(i.mn, i.n, s.regs[i.x])
    BY Zenon
  <2>3. b \in Byte
    BY <1>0, <2>1, <2>2, SetRes
  <2>4. Shifted(s, i) = PutReg(s, i.x, b)
    BY <1>2, <2>2 DEF Shifted, PutReg
  <2> QED BY <1>0, <2>3, <2>4, PutKeeps
<1>3. CASE i.mn \in {"sla", "srl", "rl", "rr"}
  <2>1. PICK r : r = shift8(s.flags, i.mn, s.regs[i.x])
    BY Zenon
  <2>2. r.result \in Byte /\ r.flags \in Flags
    <3>1. ByteAndFlags(shift8(s.flags, i.mn, s.regs[i.x]))
      BY <1>0, Shift8
    <3> QED BY <2>1, <3>1, Zenon DEF ByteAndFlags
  <2>3. Shifted(s, i) = PutRegFlags(s, i.x, r.result, r.flags)
    BY <1>3, <2>1 DEF Shifted, PutRegFlags
  <2> QED BY <1>0, <2>2, <2>3, PutKeeps
<1> QED BY <1>1, <1>2, <1>3 DEF BitOps

LEMMA ExafForm ==
  ASSUME NEW s, IsMachine(s), NEW i, i.mn = "exaf", NEW b, b = s.regs["A"], NEW R, R = [s.regs EXCEPT !["A"] = s.alt_a]
  PROVE  Exchanged(s, i) = Object(R, s.alt_flags, b, s.flags, s.alt_regs, s.tuple_regs16, s.alt_tuple_regs16, s.stack_list, s.mem, s.io_writes)
<1>1. Exchanged(s, i) = [s EXCEPT !.regs.A = s.alt_a, !.alt_a = s.regs.A, !.flags = s.alt_flags, !.alt_flags = s.flags]
  BY DEF Exchanged
<1>2. PICK s1 : s1 = [s EXCEPT !.regs = R]
  BY Zenon
<1>3. s1 = Object(R, s.flags, s.alt_a, s.alt_flags, s.alt_regs, s.tuple_regs16, s.alt_tuple_regs16, s.stack_list, s.mem, s.io_writes)
  BY <1>2, Assigned
<1>4. PICK s2 : s2 = [s1 EXCEPT !.alt_a = b]
  BY Zenon
<1>5. s2 = Object(R, s.flags, b, s.alt_flags, s.alt_regs, s.tuple_regs16, s.alt_tuple_regs16, s.stack_list, s.mem, s.io_writes)
  BY <1>3, <1>4 DEF Object
<1>6. PICK s3 : s3 = [s2 EXCEPT !.flags = s.alt_flags]
  BY Zenon
<1>7. s3 = Object(R, s.alt_flags, b, s.alt_flags, s.alt_regs, s.tuple_regs16, s.alt_tuple_regs16, s.stack_list, s.mem, s.io_writes)
  BY <1>5, <1>6 DEF Object
<1>8. PICK s4 : s4 = [s3 EXCEPT !.alt_flags = s.flags]
  BY Zenon
<1>9. s4 = Object(R, s.alt_flags, b, s.flags, s.alt_regs, s.tuple_regs16, s.alt_tuple_regs16, s.stack_list, s.mem, s.io_writes)
  BY <1>7, <1>8 DEF Object
<1>10. Exchanged(s, i) = s4
  BY <1>1, <1>2, <1>4, <1>6, <1>8
<1> QED BY <1>9, <1>10, Zenon

LEMMA ExxForm ==
  ASSUME NEW s, IsMachine(s), NEW i, i.mn = "exx"
  PROVE  Exchanged(s, i) = Object(Swapped(s.regs, s.alt_regs), s.flags, s.alt_a, s.alt_flags, Parked(s.regs, s.alt_regs),
                                  s.alt_tuple_regs16, s.tuple_regs16, s.stack_list, s.mem, s.io_writes)
<1>1. PICK R, ar : R = Swapped(s.regs, s.alt_regs) /\ ar = Parked(s.regs, s.alt_regs)
  BY Zenon
<1>2. Exchanged(s, i) = [s EXCEPT !.regs = R, !.alt_regs = ar,
                                  !.tuple_regs16 = s.alt_tuple_regs16, !.alt_tuple_regs16 = s.tuple_regs16]
  BY <1>1 DEF Exchanged, Swapped, Parked
<1>3. PICK s1 : s1 = [s EXCEPT !.regs = R]
  BY Zenon
<1>4. s1 = Object(R, s.flags, s.alt_a, s.alt_flags, s.alt_regs, s.tuple_regs16, s.alt_tuple_regs16, s.stack_list, s.mem, s.io_writes)
  BY <1>3, Assigned
<1>5. PICK s2 : s2 = [s1 EXCEPT !.alt_regs = ar]
  BY Zenon
<1>6. s2 = Object(R, s.flags, s.alt_a, s.alt_flags, ar, s.tuple_regs16, s.alt_tuple_regs16, s.stack_list, s.mem, s.io_writes)
  BY <1>4, <1>5 DEF Object
<1>7. PICK s3 : s3 = [s2 EXCEPT !.tuple_regs16 = s.alt_tuple_regs16]
  BY Zenon
<1>8. s3 = Object(R, s.flags, s.alt_a, s.alt_flags, ar, s.alt_tuple_regs16, s.alt_tuple_regs16, s.stack_list, s.mem, s.io_writes)
  BY <1>6, <1>7 DEF Object
<1>9. PICK s4 : s4 = [s3 EXCEPT !.alt_tuple_regs16 = s.tuple_regs16]
  BY Zenon
<1>10. s4 = Object(R, s.flags, s.alt_a, s.alt_flags, ar, s.alt_tuple_regs16, s.tuple_regs16, s.stack_list, s.mem, s.io_writes)
  BY <1>8, <1>9 DEF Object
<1>11. Exchanged(s, i) = s4
  BY <1>2, <1>3, <1>5, <1>7, <1>9
<1> QED BY <1>1, <1>10, <1>11, Zenon

LEMMA ExchangeKeeps ==
  ASSUME NEW s, IsMachine(s), NEW i, i.mn \in SwapOps
  PROVE  IsMachine(Exchanged(s, i))
<1>0. /\ IsRegs(s.regs) /\ s.flags \in Flags /\ s.alt_flags \in Flags /\ s.alt_a \in Byte
      /\ s.alt_regs \in [Reg8 \ {"A"} -> Byte] /\ IsOverlay(s.tuple_regs16) /\ IsOverlay(s.alt_tuple_regs16)
      /\ s.regs["A"] \in Byte /\ s.stack_list \in Seq(Values) /\ IsMemory(s.mem)
  BY Parts DEF IsRegs, Reg8
<1>1. CASE i.mn = "exdehl"
  <2>1. "DE" \in Pairs /\ "HL" \in Pairs
    BY DEF Pairs
  <2>2. PICK d, h : d = get_reg16(s, "DE") /\ h = get_reg16(s, "HL")
    BY Zenon
  <2>3. d \in Values /\ h \in Values
    BY <2>1, <2>2, GetReg
  <2>4. PICK t : t = set_reg16(s, "DE", h)
    BY Zenon
  <2>5. IsMachine(t)
    BY <2>1, <2>3, <2>4, SetReg
  <2>6. Exchanged(s, i) = set_reg16(t, "HL", d)
    BY <1>1, <2>2, <2>4 DEF Exchanged
  <2> QED BY <2>1, <2>3, <2>5, <2>6, SetReg
<1>2. CASE i.mn = "exaf"
  <2>1. PICK R, b : R = [s.regs EXCEPT !["A"] = s.alt_a] /\ b = s.regs["A"]
    BY Zenon
  <2>2. IsRegs(R)
    <3>1. "A" \in Reg8
      BY DEF Reg8
    <3> QED BY <1>0, <2>1, <3>1, RegsPut
  <2>3. Exchanged(s, i) = Object(R, s.alt_flags, b, s.flags, s.alt_regs, s.tuple_regs16, s.alt_tuple_regs16, s.stack_list, s.mem, s.io_writes)
    BY <1>2, <2>1, ExafForm
  <2>4. IsMachine(Object(R, s.alt_flags, b, s.flags, s.alt_regs, s.tuple_regs16, s.alt_tuple_regs16, s.stack_list, s.mem, s.io_writes))
    BY <1>0, <2>1, <2>2, Assembled
  <2> QED BY <2>3, <2>4, Zenon
<1>3. CASE i.mn = "exx"
  <2>1. PICK R, ar : R = Swapped(s.regs, s.alt_regs) /\ ar = Parked(s.regs, s.alt_regs)
    BY Zenon
  <2>2. IsRegs(R) /\ ar \in [Reg8 \ {"A"} -> Byte]
    BY <1>0, <2>1, Swaps
  <2>3. Exchanged(s, i) = Object(R, s.flags, s.alt_a, s.alt_flags, ar, s.alt_tuple_regs16, s.tuple_regs16, s.stack_list, s.mem, s.io_writes)
    BY <1>3, <2>1, ExxForm
  <2>4. IsMachine(Object(R, s.flags, s.alt_a, s.alt_flags, ar, s.alt_tuple_regs16, s.tuple_regs16, s.stack_list, s.mem, s.io_writes))
    BY <1>0, <2>2, Assembled
  <2> QED BY <2>3, <2>4, Zenon
<1> QED BY <1>1, <1>2, <1>3 DEF SwapOps

LEMMA CopyKeeps ==
  ASSUME NEW s, IsMachine(s), NEW i, i.mn \in BlockOps, Usable(s, i)
  PROVE  IsMachine(Copied(s, i))
<1>1. "BC" \in Pairs /\ "DE" \in Pairs /\ "HL" \in Pairs
  BY DEF Pairs
<1>2. "BC" \notin DOMAIN s.tuple_regs16 /\ "DE" \notin DOMAIN s.tuple_regs16 /\ "HL" \notin DOMAIN s.tuple_regs16
  BY <1>1 DEF Usable, PairsUsedAsNumbers, BlockOps
<1>3. PICK h, e, n, d : /\ h = get_reg16(s, "HL").value /\ e = get_reg16(s, "DE").value /\ n = BlockCount(s)
                        /\ d = IF i.mn = "ldir" THEN 1 ELSE -1
  BY Zenon
<1>4. h \in Word /\ e \in Word /\ get_reg16(s, "BC").value \in Word
  BY <1>1, <1>2, <1>3, NumberRead
<1>5. n \in Nat /\ d \in {1, -1}
  BY <1>3, <1>4, WordDef DEF BlockCount
<1>6. PICK m, f : m = BlockMove(s.mem, h, e, n, d) /\ f = [s.flags EXCEPT !.H = 0, !.N = 0, !.PV = 0]
  BY Zenon
<1>7. IsMemory(m) /\ f \in Flags
  <2>1. IsMemory(m)
    BY <1>4, <1>5, <1>6, Parts, BlockKeeps
  <2>2. f \in Flags
    BY <1>6, Parts DEF Flags, FlagNames
  <2> QED BY <2>1, <2>2
<1>8. PICK c : c = PutFlags(PutMem(s, m), f)
  BY Zenon
<1>9. IsMachine(c)
  BY <1>7, <1>8, PutKeeps
<1>10. PICK hl, de : hl = (h + d * n) % 65536 /\ de = (e + d * n) % 65536
  OBVIOUS
<1>11. hl \in Word /\ de \in Word /\ 0 \in Word
  <2>1. h + d * n \in Int /\ e + d * n \in Int
    BY <1>4, <1>5, WordDef
  <2> QED BY <1>10, <2>1, Wraps, WordDef
<1>12. c = [s EXCEPT !.mem = m, !.flags = f]
  BY <1>8 DEF PutFlags, PutMem
<1>13. Copied(s, i) = set_reg16(set_reg16(set_reg16(c, "HL", Num(hl)), "DE", Num(de)), "BC", Num(0))
  BY <1>3, <1>6, <1>10, <1>12 DEF Copied
<1>14. PICK c1 : c1 = set_reg16(c, "HL", Num(hl))
  BY Zenon
<1>15. PICK c2 : c2 = set_reg16(c1, "DE", Num(de))
  BY Zenon
<1>16. IsMachine(c1)
  BY <1>1, <1>9, <1>11, <1>14, NumberKept
<1>17. IsMachine(c2)
  BY <1>1, <1>11, <1>15, <1>16, NumberKept
<1> QED BY <1>1, <1>11, <1>13, <1>14, <1>15, <1>17, NumberKept

\* A snapshot taken and restored is the machine, with the memory of the ranges.
LEMMA ReplayKeeps ==
  ASSUME NEW s, IsMachine(s)
  PROVE  /\ IsMachine(restore_state(NewSim, capture_state(s)))
         /\ restore_state(NewSim, capture_state(s)) = PutMem(s, [a \in DOMAIN s.mem \cap Ranges |-> s.mem[a]])
         /\ IsMemory([a \in DOMAIN s.mem \cap Ranges |-> s.mem[a]])
<1>1. PICK m : m = [a \in DOMAIN s.mem \cap Ranges |-> s.mem[a]]
  BY Zenon
<1>2. IsMemory(m)
  BY <1>1, Parts DEF IsMemory
<1>3. PICK c : c = capture_state(s)
  BY Zenon
<1>4. c = [s EXCEPT !.mem = m]
  BY <1>1, <1>3 DEF capture_state
<1>5. c = Object(s.regs, s.flags, s.alt_a, s.alt_flags, s.alt_regs, s.tuple_regs16, s.alt_tuple_regs16, s.stack_list, m, s.io_writes)
  BY <1>4, Assigned
<1>6. restore_state(NewSim, c) = Object(c.regs, c.flags, c.alt_a, c.alt_flags, c.alt_regs, c.tuple_regs16, c.alt_tuple_regs16,
                                        c.stack_list, c.mem, c.io_writes)
  <2>1. NewSim = Object(NewSim.regs, NewSim.flags, NewSim.alt_a, NewSim.alt_flags, NewSim.alt_regs, NewSim.tuple_regs16,
                        NewSim.alt_tuple_regs16, NewSim.stack_list, NewSim.mem, NewSim.io_writes)
    BY DEF NewSim, Object
  <2>2. PICK n : n = NewSim
    BY Zenon
  <2>3. n = Object(n.regs, n.flags, n.alt_a, n.alt_flags, n.alt_regs, n.tuple_regs16, n.alt_tuple_regs16, n.stack_list, n.mem, n.io_writes)
    BY <2>1, <2>2, Zenon
  <2>4. restore_state(n, c) = Object(c.regs, c.flags, c.alt_a, c.alt_flags, c.alt_regs, c.tuple_regs16, c.alt_tuple_regs16,
                                     c.stack_list, c.mem, c.io_writes)
    <3>1. PICK n1 : n1 = [n EXCEPT !.regs = c.regs]
      BY Zenon
    <3>2. n1 = Object(c.regs, n.flags, n.alt_a, n.alt_flags, n.alt_regs, n.tuple_regs16, n.alt_tuple_regs16, n.stack_list, n.mem, n.io_writes)
      BY <3>1, <2>3 DEF Object
    <3>3. PICK n2 : n2 = [n1 EXCEPT !.flags = c.flags]
      BY Zenon
    <3>4. n2 = Object(c.regs, c.flags, n.alt_a, n.alt_flags, n.alt_regs, n.tuple_regs16, n.alt_tuple_regs16, n.stack_list, n.mem, n.io_writes)
      BY <3>3, <3>2 DEF Object
    <3>5. PICK n3 : n3 = [n2 EXCEPT !.alt_a = c.alt_a]
      BY Zenon
    <3>6. n3 = Object(c.regs, c.flags, c.alt_a, n.alt_flags, n.alt_regs, n.tuple_regs16, n.alt_tuple_regs16, n.stack_list, n.mem, n.io_writes)
      BY <3>5, <3>4 DEF Object
    <3>7. PICK n4 : n4 = [n3 EXCEPT !.alt_flags = c.alt_flags]
      BY Zenon
    <3>8. n4 = Object(c.regs, c.flags, c.alt_a, c.alt_flags, n.alt_regs, n.tuple_regs16, n.alt_tuple_regs16, n.stack_list, n.mem, n.io_writes)
      BY <3>7, <3>6 DEF Object
    <3>9. PICK n5 : n5 = [n4 EXCEPT !.alt_regs = c.alt_regs]
      BY Zenon
    <3>10. n5 = Object(c.regs, c.flags, c.alt_a, c.alt_flags, c.alt_regs, n.tuple_regs16, n.alt_tuple_regs16, n.stack_list, n.mem, n.io_writes)
      BY <3>9, <3>8 DEF Object
    <3>11. PICK n6 : n6 = [n5 EXCEPT !.alt_tuple_regs16 = c.alt_tuple_regs16]
      BY Zenon
    <3>12. n6 = Object(c.regs, c.flags, c.alt_a, c.alt_flags, c.alt_regs, n.tuple_regs16, c.alt_tuple_regs16, n.stack_list, n.mem, n.io_writes)
      BY <3>11, <3>10 DEF Object
    <3>13. PICK n7 : n7 = [n6 EXCEPT !.stack_list = c.stack_list]
      BY Zenon
    <3>14. n7 = Object(c.regs, c.flags, c.alt_a, c.alt_flags, c.alt_regs, n.tuple_regs16, c.alt_tuple_regs16, c.stack_list, n.mem, n.io_writes)
      BY <3>13, <3>12 DEF Object
    <3>15. PICK n8 : n8 = [n7 EXCEPT !.tuple_regs16 = c.tuple_regs16]
      BY Zenon
    <3>16. n8 = Object(c.regs, c.flags, c.alt_a, c.alt_flags, c.alt_regs, c.tuple_regs16, c.alt_tuple_regs16, c.stack_list, n.mem, n.io_writes)
      BY <3>15, <3>14 DEF Object
    <3>17. PICK n9 : n9 = [n8 EXCEPT !.io_writes = c.io_writes]
      BY Zenon
    <3>18. n9 = Object(c.regs, c.flags, c.alt_a, c.alt_flags, c.alt_regs, c.tuple_regs16, c.alt_tuple_regs16, c.stack_list, n.mem, c.io_writes)
      BY <3>17, <3>16 DEF Object
    <3>19. PICK n10 : n10 = [n9 EXCEPT !.mem = c.mem]
      BY Zenon
    <3>20. n10 = Object(c.regs, c.flags, c.alt_a, c.alt_flags, c.alt_regs, c.tuple_regs16, c.alt_tuple_regs16, c.stack_list, c.mem, c.io_writes)
      BY <3>19, <3>18 DEF Object
    <3>21. restore_state(n, c) = n10
      BY <3>1, <3>3, <3>5, <3>7, <3>9, <3>11, <3>13, <3>15, <3>17, <3>19 DEF restore_state
    <3> QED BY <3>20, <3>21, Zenon
  <2> QED BY <2>2, <2>4, Zenon
<1>7. restore_state(NewSim, c) = c
  BY <1>5, <1>6 DEF Object
<1>8. IsMachine(Object(s.regs, s.flags, s.alt_a, s.alt_flags, s.alt_regs, s.tuple_regs16, s.alt_tuple_regs16, s.stack_list, m, s.io_writes))
  BY <1>2, Parts, Assembled
<1>9. c = PutMem(s, m)
  BY <1>4, Zenon DEF PutMem
<1>10. IsMachine(c) /\ restore_state(NewSim, capture_state(s)) = c
  BY <1>3, <1>5, <1>7, <1>8, Zenon
<1> QED BY <1>1, <1>2, <1>9, <1>10, Zenon

-----------------------------------------------------------------------------
(***************************************************************************)
(* F. Type correctness: TypeOK is inductive.                               *)
(***************************************************************************)
\* What every instruction that runs finds.
LEMMA Running ==
  ASSUME TypeOK, NEW i \in Pool, NEW ops, Runs(i, ops)
  PROVE  /\ IsMachine(sim) /\ WellFormed(i, LineCount) /\ i.mn \in ops /\ Usable(sim, i) /\ ~Raises(i)
         /\ outcome = "running" /\ step_count < MaxSteps /\ step_count + 1 \in 0..MaxSteps
         /\ idx < LineCount /\ idx + 1 \in 0..LineCount /\ 0..LineCount \subseteq Word /\ mixed' \in BOOLEAN
<1>1. IsMachine(sim) /\ i.mn \in ops /\ ~Raises(i) /\ outcome = "running" /\ step_count < MaxSteps /\ idx < LineCount
      /\ mixed \in BOOLEAN /\ mixed' = (mixed \/ HalvesUsed(i) \cap Marked(sim.tuple_regs16) # {})
  BY Zenon DEF TypeOK, Runs, Fetch
<1>2. WellFormed(i, LineCount) /\ LineCount \in Word /\ MaxSteps \in Nat
  BY SimAssumption
<1>3. Usable(sim, i)
  BY <1>1, Zenon DEF Raises, Usable
<1>4. idx \in Nat /\ step_count \in Nat /\ LineCount \in Nat
  BY <1>2, WordDef DEF TypeOK
<1>5. idx + 1 \in 0..LineCount /\ step_count + 1 \in 0..MaxSteps
  BY <1>1, <1>2, <1>4
<1>6. 0..LineCount \subseteq Word
  BY <1>2, WordDef
<1>7. mixed' \in BOOLEAN
  BY <1>1
<1> QED BY <1>1, <1>2, <1>3, <1>5, <1>6, <1>7

LEMMA BecomesKeeps ==
  ASSUME TypeOK, NEW s, IsMachine(s), NEW n \in Word, Becomes(s, n), step_count + 1 \in 0..MaxSteps, mixed' \in BOOLEAN
  PROVE  TypeOK'
<1>1. sim' = s /\ idx' = n /\ step_count' = step_count + 1 /\ outcome' = outcome /\ script_pos' = script_pos
  BY DEF Becomes
<1>2. IsMachine(sim')
  BY <1>1
<1>3. idx' \in Word /\ step_count' \in 0..MaxSteps /\ script_pos' \in 0..Len(Scripts)
  BY <1>1 DEF TypeOK
<1>4. outcome' \in {"running", "returned", "halted", "step_limit", "cut", "error"}
  BY <1>1 DEF TypeOK
<1> QED BY <1>2, <1>3, <1>4 DEF TypeOK

LEMMA Straight ==
  ASSUME TypeOK, NEW i \in Pool, NEW ops, Runs(i, ops), NEW s, IsMachine(s), Becomes(s, idx + 1)
  PROVE  TypeOK'
<1>1. idx + 1 \in Word /\ step_count + 1 \in 0..MaxSteps /\ mixed' \in BOOLEAN
  BY Running
<1> QED BY <1>1, BecomesKeeps

LEMMA Address ==
  ASSUME TypeOK, NEW v \in Values, v.kind # "HALT"
  PROVE  v.value \in Word
<1>1. CASE v \in Numbers
  BY <1>1, Tags
<1>2. CASE v \in Markers
  <2>1. v.value \in 0..LineCount
    BY <1>2, Tags
  <2> QED BY <2>1, SimAssumption, WordDef
<1> QED BY <1>1, <1>2 DEF Values

LEMMA JumpType ==
  ASSUME TypeOK, JumpTo
  PROVE  TypeOK'
<1>1. PICK i \in Pool :
        /\ Runs(i, {"jphl", "jp", "jpc", "jr", "djnz"})
        /\ LET b == (sim.regs.B - 1) % 256 IN
           IF i.mn = "djnz"
           THEN Becomes([sim EXCEPT !.regs.B = b], IF b # 0 THEN i.n ELSE idx + 1)
           ELSE Becomes(sim, CASE i.mn = "jphl" -> get_reg16(sim, "HL").value
                               [] i.mn = "jp" -> i.n
                               [] OTHER -> IF check_cond(sim.flags, i.x) THEN i.n ELSE idx + 1)
  BY DEF JumpTo
<1>2. /\ IsMachine(sim) /\ WellFormed(i, LineCount) /\ i.mn \in {"jphl", "jp", "jpc", "jr", "djnz"} /\ ~Raises(i)
      /\ step_count + 1 \in 0..MaxSteps /\ idx + 1 \in 0..LineCount /\ 0..LineCount \subseteq Word /\ mixed' \in BOOLEAN
  BY <1>1, Running
<1>3. i.mn # "jphl" => i.n \in Word
  BY <1>2 DEF WellFormed, LabelOps
<1>4. CASE i.mn = "djnz"
  <2>1. PICK b : b = (sim.regs["B"] - 1) % 256
    OBVIOUS
  <2>2. b \in Byte
    <3>1. sim.regs["B"] \in Byte
      BY <1>2, Parts DEF IsRegs, Reg8
    <3> QED BY <2>1, <3>1, ByteDef
  <2>3. IsMachine(PutReg(sim, "B", b))
    <3>1. "B" \in Reg8
      BY DEF Reg8
    <3> QED BY <1>2, <2>2, <3>1, PutKeeps
  <2>4. PICK n \in Word : Becomes(PutReg(sim, "B", b), n)
    <3>1. Becomes(PutReg(sim, "B", b), IF b # 0 THEN i.n ELSE idx + 1)
      BY <1>1, <1>4, <2>1 DEF PutReg
    <3> QED BY <1>2, <1>3, <1>4, <3>1
  <2> QED BY <1>2, <2>3, <2>4, BecomesKeeps
<1>5. CASE i.mn = "jphl"
  <2>1. "HL" \in Pairs
    BY DEF Pairs
  <2>2. get_reg16(sim, "HL") \in Values /\ get_reg16(sim, "HL").kind # "HALT"
    BY <1>2, <1>5, <2>1, GetReg DEF Raises
  <2>3. get_reg16(sim, "HL").value \in Word
    BY <2>2, Address
  <2>4. Becomes(sim, get_reg16(sim, "HL").value)
    BY <1>1, <1>5
  <2> QED BY <1>2, <2>3, <2>4, BecomesKeeps
<1>6. CASE i.mn \in {"jp", "jpc", "jr"}
  <2>1. PICK n \in Word : Becomes(sim, n)
    BY <1>1, <1>2, <1>3, <1>6
  <2> QED BY <1>2, <2>1, BecomesKeeps
<1> QED BY <1>2, <1>4, <1>5, <1>6

LEMMA RetType ==
  ASSUME TypeOK, Ret
  PROVE  TypeOK'
<1>1. PICK i \in Pool :
        /\ Runs(i, {"ret", "retc"})
        /\ Pops(i) => sim.stack_list # <<>>
        /\ IF ~Pops(i) THEN Becomes(sim, idx + 1)
           ELSE IF Top(sim).kind = "RETIDX" THEN Becomes(pop(sim), Top(sim).value)
           ELSE /\ sim' = pop(sim)
                /\ outcome' = "returned"
                /\ step_count' = step_count + 1
                /\ UNCHANGED <<idx, runs, script_pos>>
  BY DEF Ret
<1>2. /\ IsMachine(sim) /\ step_count + 1 \in 0..MaxSteps /\ idx + 1 \in 0..LineCount
      /\ 0..LineCount \subseteq Word /\ mixed' \in BOOLEAN
  BY <1>1, Running
<1>3. CASE ~Pops(i)
  <2>1. Becomes(sim, idx + 1) /\ idx + 1 \in Word
    BY <1>1, <1>2, <1>3
  <2> QED BY <1>2, <2>1, BecomesKeeps
<1>4. CASE Pops(i) /\ Top(sim).kind = "RETIDX"
  <2>1. IsMachine(pop(sim)) /\ Top(sim) \in Values
    BY <1>1, <1>2, <1>4, PopKeeps
  <2>2. Top(sim).value \in Word
    BY <1>4, <2>1, Address
  <2>3. Becomes(pop(sim), Top(sim).value)
    BY <1>1, <1>4
  <2> QED BY <1>2, <2>1, <2>2, <2>3, BecomesKeeps
<1>5. CASE Pops(i) /\ Top(sim).kind # "RETIDX"
  <2>1. sim' = pop(sim) /\ outcome' = "returned" /\ step_count' = step_count + 1 /\ idx' = idx /\ script_pos' = script_pos
    BY <1>1, <1>5
  <2>2. IsMachine(sim')
    BY <1>1, <1>2, <1>5, <2>1, PopKeeps
  <2> QED BY <1>2, <2>1, <2>2 DEF TypeOK
<1> QED BY <1>3, <1>4, <1>5

LEMMA ScriptType ==
  ASSUME TypeOK, CallScripted
  PROVE  TypeOK'
<1>1. PICK k : k = IF script_pos < Len(Scripts) THEN script_pos + 1 ELSE Len(Scripts)
  BY Zenon
<1>2. PICK i \in Pool :
        /\ Runs(i, {"callout"})
        /\ sim' = set_reg16([sim EXCEPT !.regs.A = Scripts[k].A], "HL", Num(Scripts[k].HL))
        /\ script_pos' = IF script_pos < Len(Scripts) THEN script_pos + 1 ELSE script_pos
        /\ idx' = idx + 1
        /\ step_count' = step_count + 1
        /\ outcome' = outcome
  BY <1>1 DEF CallScripted
<1>3. /\ IsMachine(sim) /\ step_count + 1 \in 0..MaxSteps /\ idx + 1 \in 0..LineCount
      /\ 0..LineCount \subseteq Word /\ mixed' \in BOOLEAN
  BY <1>2, Running
<1>4. k \in DOMAIN Scripts /\ script_pos' \in 0..Len(Scripts)
  BY <1>1, <1>2, SimAssumption DEF TypeOK
<1>5. Scripts[k].A \in Byte /\ Scripts[k].HL \in Word
  <2>1. PICK E : E = [A : Byte, HL : Word]
    BY Zenon
  <2>2. Scripts \in Seq(E)
    BY <2>1, SimAssumption, Zenon
  <2>3. Scripts[k] \in E
    BY <1>4, <2>2
  <2> QED BY <2>1, <2>3
<1>6. PICK t : t = PutReg(sim, "A", Scripts[k].A)
  BY Zenon
<1>7. IsMachine(t) /\ "HL" \in Pairs
  <2>1. "A" \in Reg8 /\ "HL" \in Pairs
    BY DEF Reg8, Pairs
  <2> QED BY <1>3, <1>5, <1>6, <2>1, PutKeeps
<1>8. sim' = set_reg16(t, "HL", Num(Scripts[k].HL))
  BY <1>2, <1>6, Zenon DEF PutReg
<1>9. IsMachine(sim')
  BY <1>5, <1>7, <1>8, NumberKept
<1> QED BY <1>2, <1>3, <1>4, <1>9 DEF TypeOK

LEMMA InitType == Init => TypeOK
<1> SUFFICES ASSUME Init PROVE TypeOK
  OBVIOUS
<1>1. sim \in Seeds /\ idx = 0 /\ step_count = 0 /\ script_pos = 0 /\ outcome = "returned" /\ mixed = FALSE
  BY DEF Init
<1>2. IsMachine(sim)
  BY <1>1, SimAssumption
<1>3. 0 \in Word /\ 0 \in 0..MaxSteps /\ 0 \in 0..Len(Scripts)
  BY SimAssumption, WordDef
<1> QED BY <1>1, <1>2, <1>3 DEF TypeOK

\* The instructions that go on with the next line.
LEMMA StraightType ==
  ASSUME TypeOK, Ld \/ PushPop \/ IncDec \/ Arithmetic \/ BitsAndShifts \/ Ex \/ LdirLddr \/ Out
  PROVE  TypeOK'
<1>1. CASE Ld
  <2>1. PICK i \in Pool : Runs(i, LoadOps) /\ Becomes(Loaded(sim, i), idx + 1)
    BY <1>1 DEF Ld
  <2>2. IsMachine(Loaded(sim, i))
    BY <2>1, Running, LoadKeeps
  <2> QED BY <2>1, <2>2, Straight
<1>2. CASE PushPop
  <2>1. PICK i \in Pool : Runs(i, StackOps) /\ (Pops(i) => sim.stack_list # <<>>) /\ Becomes(Stacked(sim, i), idx + 1)
    BY <1>2 DEF PushPop
  <2>2. /\ IsMachine(sim) /\ WellFormed(i, LineCount) /\ i.mn \in StackOps
        /\ i.mn \in PopOps => sim.stack_list # <<>>
        /\ i.mn = "popaf" => ~IsMarker(Top(sim))
    BY <2>1, Running DEF Pops, Raises, PopOps
  <2>3. IsMachine(Stacked(sim, i))
    BY <2>2, StackKeeps
  <2> QED BY <2>1, <2>3, Straight
<1>3. CASE IncDec
  <2>1. PICK i \in Pool : Runs(i, CountOps) /\ Becomes(Counted(sim, i), idx + 1)
    BY <1>3 DEF IncDec
  <2>2. IsMachine(Counted(sim, i))
    BY <2>1, Running, CountKeeps
  <2> QED BY <2>1, <2>2, Straight
<1>4. CASE Arithmetic
  <2>1. PICK i \in Pool : Runs(i, SumOps) /\ Becomes(Summed(sim, i), idx + 1)
    BY <1>4 DEF Arithmetic
  <2>2. IsMachine(Summed(sim, i))
    BY <2>1, Running, SumKeeps
  <2> QED BY <2>1, <2>2, Straight
<1>5. CASE BitsAndShifts
  <2>1. PICK i \in Pool : Runs(i, BitOps) /\ Becomes(Shifted(sim, i), idx + 1)
    BY <1>5 DEF BitsAndShifts
  <2>2. IsMachine(Shifted(sim, i))
    BY <2>1, Running, ShiftKeeps
  <2> QED BY <2>1, <2>2, Straight
<1>6. CASE Ex
  <2>1. PICK i \in Pool : Runs(i, SwapOps) /\ Becomes(Exchanged(sim, i), idx + 1)
    BY <1>6 DEF Ex
  <2>2. IsMachine(Exchanged(sim, i))
    BY <2>1, Running, ExchangeKeeps
  <2> QED BY <2>1, <2>2, Straight
<1>7. CASE LdirLddr
  <2>1. PICK i \in Pool : Runs(i, BlockOps) /\ Becomes(Copied(sim, i), idx + 1)
    BY <1>7 DEF LdirLddr
  <2>2. IsMachine(Copied(sim, i))
    BY <2>1, Running, CopyKeeps
  <2> QED BY <2>1, <2>2, Straight
<1>8. CASE Out
  <2>1. PICK i \in Pool : Runs(i, {"out"}) /\ Becomes([sim EXCEPT !.io_writes = Append(@, <<i.n, sim.regs.A>>)], idx + 1)
    BY <1>8 DEF Out
  <2>2. PICK io : io = Append(sim.io_writes, <<i.n, sim.regs.A>>)
    BY Zenon
  <2>3. PICK s : s = [sim EXCEPT !.io_writes = io]
    BY Zenon
  <2>4. IsMachine(s)
    BY <2>1, <2>3, Running, FieldPut
  <2>5. Becomes(s, idx + 1)
    BY <2>1, <2>2, <2>3, Zenon
  <2> QED BY <2>1, <2>4, <2>5, Straight
<1> QED BY <1>1, <1>2, <1>3, <1>4, <1>5, <1>6, <1>7, <1>8

LEMMA CallType ==
  ASSUME TypeOK, Call
  PROVE  TypeOK'
<1>1. PICK i \in Pool : Runs(i, {"call"}) /\ Becomes(push(sim, RETIDX(idx + 1)), i.n)
  BY DEF Call
<1>2. /\ IsMachine(sim) /\ WellFormed(i, LineCount) /\ i.mn \in {"call"} /\ step_count + 1 \in 0..MaxSteps
      /\ idx + 1 \in 0..LineCount /\ 0..LineCount \subseteq Word /\ mixed' \in BOOLEAN
  BY <1>1, Running
<1>3. RETIDX(idx + 1) \in Values
  BY <1>2, Tags DEF Values
<1>4. IsMachine(push(sim, RETIDX(idx + 1)))
  BY <1>2, <1>3, PushKeeps
<1>5. i.n \in Word
  BY <1>2 DEF WellFormed, LabelOps
<1> QED BY <1>1, <1>2, <1>4, <1>5, BecomesKeeps

LEMMA StoppingType ==
  ASSUME TypeOK, Stopping
  PROVE  TypeOK'
<1>1. PICK how \in {"halted", "error", "cut", "step_limit"} : Ends(how)
  BY DEF Stopping, Underflow, Raise, Cut, RunOff, StepLimit
<1> QED BY <1>1 DEF Ends, TypeOK

LEMMA StartType ==
  ASSUME TypeOK, NEW entry \in Entries, run(entry) \/ replay(entry)
  PROVE  TypeOK'
<1>1. IsMachine(sim')
  <2>1. CASE run(entry)
    <3>1. HALT \in Values /\ IsMachine(sim)
      BY Tags DEF Values, TypeOK
    <3>2. sim' = push(sim, HALT)
      BY <2>1 DEF run
    <3> QED BY <3>1, <3>2, PushKeeps
  <2>2. CASE replay(entry)
    <3>1. sim' = restore_state(NewSim, capture_state(sim)) /\ IsMachine(sim)
      BY <2>2 DEF replay, TypeOK
    <3> QED BY <3>1, ReplayKeeps
  <2> QED BY <2>1, <2>2
<1>2. script_pos' \in 0..Len(Scripts)
  <2>1. Len(Scripts) \in Nat
    BY SimAssumption
  <2> QED BY <2>1 DEF run, replay, TypeOK
<1>3. Starts(entry)
  BY DEF run, replay
<1>4. entry \in Word
  BY SimAssumption, WordDef
<1>5. 0 \in 0..MaxSteps
  BY SimAssumption
<1> QED BY <1>1, <1>2, <1>3, <1>4, <1>5 DEF Starts, TypeOK

LEMMA NextType == TypeOK /\ [Next]_vars => TypeOK'
<1> SUFFICES ASSUME TypeOK, [Next]_vars PROVE TypeOK'
  OBVIOUS
<1>1. CASE Ld \/ PushPop \/ IncDec \/ Arithmetic \/ BitsAndShifts \/ Ex \/ LdirLddr \/ Out
  BY <1>1, StraightType, Zenon
<1>2. CASE JumpTo
  BY <1>2, JumpType, Zenon
<1>3. CASE Call
  BY <1>3, CallType, Zenon
<1>4. CASE CallScripted
  BY <1>4, ScriptType, Zenon
<1>5. CASE Ret
  BY <1>5, RetType, Zenon
<1>6. CASE Stopping
  BY <1>6, StoppingType, Zenon
<1>7. CASE \E entry \in Entries : run(entry) \/ replay(entry)
  BY <1>7, StartType, Zenon
<1>8. CASE UNCHANGED vars
  BY <1>8 DEF vars, TypeOK
<1> QED BY <1>1, <1>2, <1>3, <1>4, <1>5, <1>6, <1>7, <1>8, Zenon DEF Next, Instruction

(* The simulator's object keeps its shape under every instruction of every *)
(* program, and across runs, snapshots and replays: no byte, word, flag or *)
(* marker leaves its range (the wrap-arounds of sim.py, exec_instr and of  *)
(* the flag helpers), no marker lies beside anything but a pair, no memory *)
(* cell below the RAM is stored, and the line, the step count and the      *)
(* script position stay in theirs.                                         *)
THEOREM TypeCorrect == Spec => []TypeOK
<1> QED BY InitType, NextType, PTL DEF Spec

-----------------------------------------------------------------------------
(***************************************************************************)
(* G. The processor's module computes with the same operators.             *)
(***************************************************************************)
LEMMA SameBits ==
  /\ \A v, n : Processor!Bit(v, n) = Bit(v, n)
  /\ \A b : Processor!Ind(b) = Ind(b)
  /\ \A f, v : Processor!set_szp(f, v) = set_szp(f, v)
  /\ \A a, b : Processor!And8(a, b) = And8(a, b)
  /\ \A a, b : Processor!Or8(a, b) = Or8(a, b)
  /\ \A a, b : Processor!Xor8(a, b) = Xor8(a, b)
<1>1. ASSUME NEW v, NEW n PROVE Processor!Bit(v, n) = Bit(v, n)
  BY Zenon DEF Bit, Processor!Bit
<1>2. ASSUME NEW b PROVE Processor!Ind(b) = Ind(b)
  BY Zenon DEF Ind, Processor!Ind
<1>3. ASSUME NEW f, NEW v PROVE Processor!set_szp(f, v) = set_szp(f, v)
  BY Zenon DEF set_szp, Processor!set_szp, even_parity, Processor!even_parity, Bit, Processor!Bit, Ind, Processor!Ind
<1>4. ASSUME NEW a, NEW b PROVE Processor!And8(a, b) = And8(a, b)
  BY Zenon DEF And8, Processor!And8, Bits8, Processor!Bits8, Bit, Processor!Bit
<1>5. ASSUME NEW a, NEW b PROVE Processor!Or8(a, b) = Or8(a, b)
  BY Zenon DEF Or8, Processor!Or8, Bits8, Processor!Bits8, Bit, Processor!Bit, Ind, Processor!Ind
<1>6. ASSUME NEW a, NEW b PROVE Processor!Xor8(a, b) = Xor8(a, b)
  BY Zenon DEF Xor8, Processor!Xor8, Bits8, Processor!Bits8, Bit, Processor!Bit
<1> QED BY <1>1, <1>2, <1>3, <1>4, <1>5, <1>6, Zenon

LEMMA SameSums ==
  /\ \A f, a, v, c : Processor!add8_flags(f, a, v, c) = add8_flags(f, a, v, c)
  /\ \A f, a, v, c : Processor!sub8_flags(f, a, v, c) = sub8_flags(f, a, v, c)
  /\ \A f, mn, a, v : Processor!logic8(f, mn, a, v) = logic8(f, mn, a, v)
  /\ \A f, mn, a : Processor!rotate_a(f, mn, a) = rotate_a(f, mn, a)
  /\ \A f, mn, v : Processor!shift8(f, mn, v) = shift8(f, mn, v)
  /\ \A f, v : Processor!inc8(f, v) = inc8(f, v)
  /\ \A f, v : Processor!dec8(f, v) = dec8(f, v)
  /\ \A f, n, v : Processor!bit8(f, n, v) = bit8(f, n, v)
  /\ \A mn, n, v : Processor!set_res(mn, n, v) = set_res(mn, n, v)
<1>1. ASSUME NEW f, NEW a, NEW v, NEW c PROVE Processor!add8_flags(f, a, v, c) = add8_flags(f, a, v, c)
  BY SameBits, ZenonT(60) DEF add8_flags, Processor!add8_flags
<1>2. ASSUME NEW f, NEW a, NEW v, NEW c PROVE Processor!sub8_flags(f, a, v, c) = sub8_flags(f, a, v, c)
  BY SameBits, ZenonT(60) DEF sub8_flags, Processor!sub8_flags
<1>3. ASSUME NEW f, NEW mn, NEW a, NEW v PROVE Processor!logic8(f, mn, a, v) = logic8(f, mn, a, v)
  BY SameBits, ZenonT(60) DEF logic8, Processor!logic8
<1>4. ASSUME NEW f, NEW mn, NEW a PROVE Processor!rotate_a(f, mn, a) = rotate_a(f, mn, a)
  BY SameBits, ZenonT(60) DEF rotate_a, Processor!rotate_a
<1>5. ASSUME NEW f, NEW mn, NEW v PROVE Processor!shift8(f, mn, v) = shift8(f, mn, v)
  BY SameBits, ZenonT(60) DEF shift8, Processor!shift8
<1>6. ASSUME NEW f, NEW v PROVE Processor!inc8(f, v) = inc8(f, v)
  BY SameBits, ZenonT(60) DEF inc8, Processor!inc8
<1>7. ASSUME NEW f, NEW v PROVE Processor!dec8(f, v) = dec8(f, v)
  BY SameBits, ZenonT(60) DEF dec8, Processor!dec8
<1>8. ASSUME NEW f, NEW n, NEW v PROVE Processor!bit8(f, n, v) = bit8(f, n, v)
  BY SameBits, ZenonT(60) DEF bit8, Processor!bit8
<1>9. ASSUME NEW mn, NEW n, NEW v PROVE Processor!set_res(mn, n, v) = set_res(mn, n, v)
  BY SameBits, ZenonT(60) DEF set_res, Processor!set_res
<1> QED BY <1>1, <1>2, <1>3, <1>4, <1>5, <1>6, <1>7, <1>8, <1>9, Zenon

LEMMA SameAlu ==
  /\ \A f, mn, a, v : Processor!Alu8(f, mn, a, v) = Alu8(f, mn, a, v)
  /\ \A f, mn, a, b : Processor!Sum16(f, mn, a, b) = Sum16(f, mn, a, b)
<1>1. ASSUME NEW f, NEW mn, NEW a, NEW v PROVE Processor!Alu8(f, mn, a, v) = Alu8(f, mn, a, v)
  BY ZenonT(60), SameSums DEF Alu8, Processor!Alu8
<1>2. ASSUME NEW f, NEW mn, NEW a, NEW b PROVE Processor!Sum16(f, mn, a, b) = Sum16(f, mn, a, b)
  <2>1. Processor!add16(f, a, b) = add16(f, a, b)
    BY SMT DEF add16, Processor!add16, Ind, Processor!Ind
  <2>2. Processor!adc16(f, a, b) = adc16(f, a, b)
    BY SMT DEF adc16, Processor!adc16, Ind, Processor!Ind, Bit, Processor!Bit
  <2>3. Processor!sbc16(f, a, b) = sbc16(f, a, b)
    BY SMT DEF sbc16, Processor!sbc16, Ind, Processor!Ind, Bit, Processor!Bit
  <2> QED BY SMT, <2>1, <2>2, <2>3 DEF Sum16, Processor!Sum16
<1> QED BY <1>1, <1>2

LEMMA SameMemory ==
  /\ \A regs, p : Processor!PairOf(regs, p) = PairOf(regs, p)
  /\ \A regs, p, v : Processor!WithPair(regs, p, v) = WithPair(regs, p, v)
  /\ \A mem, a : Processor!ReadByte(mem, a) = ReadByte(mem, a)
  /\ \A mem, a, v : Processor!WriteByte(mem, a, v) = WriteByte(mem, a, v)
  /\ \A mem, a : Processor!ReadWord(mem, a) = ReadWord(mem, a)
  /\ \A mem, a, v : Processor!WriteWord(mem, a, v) = WriteWord(mem, a, v)
<1>1. ASSUME NEW regs, NEW p PROVE Processor!PairOf(regs, p) = PairOf(regs, p)
  BY Zenon DEF High, Low, PairOf, Processor!High, Processor!Low, Processor!PairOf
<1>2. ASSUME NEW regs, NEW p, NEW v PROVE Processor!WithPair(regs, p, v) = WithPair(regs, p, v)
  BY Zenon DEF High, Low, WithPair, Processor!High, Processor!Low, Processor!WithPair
<1>3. ASSUME NEW mem, NEW a PROVE Processor!ReadByte(mem, a) = ReadByte(mem, a)
  BY Zenon DEF ReadByte, Processor!ReadByte
<1>4. ASSUME NEW mem, NEW a, NEW v PROVE Processor!WriteByte(mem, a, v) = WriteByte(mem, a, v)
  <2>1. Processor!RamStart = RamStart
    BY DEF RamStart, Processor!RamStart
  <2>2. CASE a < RamStart
    BY <2>1, <2>2, Zenon DEF WriteByte, Processor!WriteByte
  <2>3. CASE ~(a < RamStart)
    BY <2>1, <2>3, Zenon DEF WriteByte, Processor!WriteByte
  <2> QED BY <2>2, <2>3
<1>5. ASSUME NEW mem, NEW a PROVE Processor!ReadWord(mem, a) = ReadWord(mem, a)
  BY SMT, <1>3 DEF ReadWord, Processor!ReadWord
<1>6. ASSUME NEW mem, NEW a, NEW v PROVE Processor!WriteWord(mem, a, v) = WriteWord(mem, a, v)
  BY SMT, <1>4 DEF WriteWord, Processor!WriteWord
<1> QED BY <1>1, <1>2, <1>3, <1>4, <1>5, <1>6, Zenon

LEMMA SameBlockMove ==
  \A mem, from, to, count, d : Processor!BlockMove(mem, from, to, count, d) = BlockMove(mem, from, to, count, d)
<1> SUFFICES ASSUME NEW mem, NEW from, NEW to, NEW count, NEW d
             PROVE  Processor!BlockMove(mem, from, to, count, d) = BlockMove(mem, from, to, count, d)
  BY Zenon
<1> DEFINE step(n, g) == WriteByte(g, (to + d * (n - 1)) % 65536, ReadByte(g, (from + d * (n - 1)) % 65536))
           body(g) == [n \in 0..count |-> IF n = 0 THEN mem ELSE step(n, g[n - 1])]
           copy == CHOOSE g : g = body(g)
           pstep(n, g) == Processor!WriteByte(g, (to + d * (n - 1)) % 65536,
                                              Processor!ReadByte(g, (from + d * (n - 1)) % 65536))
           pbody(g) == [n \in 0..count |-> IF n = 0 THEN mem ELSE pstep(n, g[n - 1])]
           pcopy == CHOOSE g : g = pbody(g)
<1>1. BlockMove(mem, from, to, count, d) = copy[count]
  BY DEF BlockMove, step
<1>2. Processor!BlockMove(mem, from, to, count, d) = pcopy[count]
  BY DEF Processor!BlockMove, pstep
<1>3. \A n, g : pstep(n, g) = step(n, g)
  BY SameMemory
<1>4. \A g : pbody(g) = body(g)
  <2> HIDE DEF step, pstep
  <2> QED BY <1>3
<1>5. pcopy = copy
  <2> HIDE DEF body, pbody
  <2> QED BY <1>4
<1> HIDE DEF copy, pcopy
<1> QED BY <1>1, <1>2, <1>5, Zenon

LEMMA SameTests ==
  /\ \A f : Processor!flags_byte(f) = flags_byte(f)
  /\ \A b : Processor!set_flags_byte(b) = set_flags_byte(b)
  /\ \A f, cond : Processor!check_cond(f, cond) = check_cond(f, cond)
<1>1. ASSUME NEW f PROVE Processor!flags_byte(f) = flags_byte(f)
  BY Zenon DEF flags_byte, Processor!flags_byte
<1>2. ASSUME NEW b PROVE Processor!set_flags_byte(b) = set_flags_byte(b)
  BY SameBits, Zenon DEF set_flags_byte, Processor!set_flags_byte
<1>3. ASSUME NEW f, NEW cond PROVE Processor!check_cond(f, cond) = check_cond(f, cond)
  BY Zenon DEF check_cond, Processor!check_cond
<1> QED BY <1>1, <1>2, <1>3, Zenon

LEMMA SameNames ==
  /\ Processor!Pairs = Pairs
  /\ Processor!LoadOps = LoadOps /\ Processor!StackOps = StackOps /\ Processor!CountOps = CountOps
  /\ Processor!SumOps = SumOps /\ Processor!BitOps = BitOps /\ Processor!SwapOps = SwapOps
  /\ Processor!BlockOps = BlockOps /\ Processor!JumpOps = JumpOps /\ Processor!PopOps = PopOps
<1>1. Processor!Pairs = Pairs
  BY Zenon DEF Pairs, Processor!Pairs
<1>2. Processor!LoadOps = LoadOps /\ Processor!StackOps = StackOps /\ Processor!CountOps = CountOps
  BY Zenon DEF LoadOps, StackOps, CountOps, Processor!LoadOps, Processor!StackOps, Processor!CountOps
<1>3. Processor!SumOps = SumOps /\ Processor!BitOps = BitOps /\ Processor!SwapOps = SwapOps
  BY Zenon DEF SumOps, BitOps, SwapOps, Processor!SumOps, Processor!BitOps, Processor!SwapOps
<1>4. Processor!BlockOps = BlockOps /\ Processor!JumpOps = JumpOps /\ Processor!PopOps = PopOps
  BY Zenon DEF BlockOps, JumpOps, PopOps, Processor!BlockOps, Processor!JumpOps, Processor!PopOps
<1> QED BY <1>1, <1>2, <1>3, <1>4, Zenon

-----------------------------------------------------------------------------
(***************************************************************************)
(* H. Assignments seen through the refinement mapping.                     *)
(***************************************************************************)
To(c, k) == [c EXCEPT !.pc = k]
PutPair(c, p, v) == [c EXCEPT !.regs = WithPair(c.regs, p, v)]

LEMMA Steps ==
  /\ \A c, k : Processor!Pc(c, k) = To(c, k)
  /\ \A c, p, v, k : Processor!SetPair(c, p, v, k) = To(PutPair(c, p, v), k)
<1>1. ASSUME NEW c, NEW k PROVE Processor!Pc(c, k) = To(c, k)
  BY Zenon DEF Processor!Pc, To
<1>2. ASSUME NEW c, NEW p, NEW v, NEW k PROVE Processor!SetPair(c, p, v, k) = To(PutPair(c, p, v), k)
  BY <1>1, SameMemory, Zenon DEF Processor!SetPair, PutPair
<1> QED BY <1>1, <1>2, Zenon

LEMMA RegView ==
  ASSUME NEW s, IsMachine(s), NEW n, NEW on, NEW r \in Reg8, r \notin Marked(s.tuple_regs16), NEW b \in Byte
  PROVE  /\ AsZ80(PutReg(s, r, b), n, on) = PutReg(AsZ80(s, n, on), r, b)
         /\ \A f \in Flags : AsZ80(PutRegFlags(s, r, b, f), n, on) = PutRegFlags(AsZ80(s, n, on), r, b, f)
<1>1. PICK c : c = AsZ80(s, n, on)
  BY Zenon
<1>2. PICK R : R = [s.regs EXCEPT ![r] = b]
  BY Zenon
<1>3. PICK N : N = [c.regs EXCEPT ![r] = b]
  BY Zenon
<1>4. IsRegs(s.regs) /\ IsOverlay(s.tuple_regs16)
  BY Parts
<1>5. IsRegs(R)
  BY <1>2, <1>4, RegsPut
<1>6. RegistersOf(R, s.tuple_regs16) = N
  <2>1. RegistersOf([s.regs EXCEPT ![r] = b], s.tuple_regs16) = [RegistersOf(s.regs, s.tuple_regs16) EXCEPT ![r] = b]
    BY <1>4, PutByte
  <2>2. c.regs = RegistersOf(s.regs, s.tuple_regs16)
    BY <1>1, Reading
  <2> QED BY <1>2, <1>3, <2>1, <2>2, Zenon
<1>7. PICK t : t = [s EXCEPT !.regs = R]
  BY Zenon
<1>8. PICK d : d = [c EXCEPT !.regs = N]
  BY Zenon
<1>9. IsMachine(t) /\ AsZ80(t, n, on) = d
  BY <1>1, <1>5, <1>6, <1>7, <1>8, FieldPut
<1>10. PutReg(s, r, b) = t /\ PutReg(c, r, b) = d
  BY <1>2, <1>3, <1>7, <1>8 DEF PutReg
<1>11. ASSUME NEW f \in Flags
       PROVE  AsZ80(PutRegFlags(s, r, b, f), n, on) = PutRegFlags(c, r, b, f)
  <2>1. PutRegFlags(s, r, b, f) = [t EXCEPT !.flags = f]
    BY <1>2, <1>7 DEF PutRegFlags
  <2>2. PutRegFlags(c, r, b, f) = [d EXCEPT !.flags = f]
    BY <1>3, <1>8 DEF PutRegFlags
  <2>3. AsZ80([t EXCEPT !.flags = f], n, on) = [AsZ80(t, n, on) EXCEPT !.flags = f]
    BY <1>9, FieldPut
  <2> QED BY <1>9, <2>1, <2>2, <2>3, Zenon
<1> QED BY <1>1, <1>9, <1>10, <1>11, Zenon

LEMMA PutView ==
  ASSUME NEW s, IsMachine(s), NEW n, NEW on
  PROVE  /\ \A f \in Flags : AsZ80(PutFlags(s, f), n, on) = PutFlags(AsZ80(s, n, on), f)
         /\ \A m : IsMemory(m) => AsZ80(PutMem(s, m), n, on) = PutMem(AsZ80(s, n, on), m)
         /\ \A p \in Pairs, v \in Values : AsZ80(set_reg16(s, p, v), n, on) = PutPair(AsZ80(s, n, on), p, v.value)
         /\ \A k : AsZ80(s, k, on) = To(AsZ80(s, n, on), k)
<1>1. ASSUME NEW f \in Flags PROVE AsZ80(PutFlags(s, f), n, on) = PutFlags(AsZ80(s, n, on), f)
  <2>1. AsZ80([s EXCEPT !.flags = f], n, on) = [AsZ80(s, n, on) EXCEPT !.flags = f]
    BY FieldPut
  <2> QED BY <2>1, Zenon DEF PutFlags
<1>2. ASSUME NEW m, IsMemory(m) PROVE AsZ80(PutMem(s, m), n, on) = PutMem(AsZ80(s, n, on), m)
  <2>1. AsZ80([s EXCEPT !.mem = m], n, on) = [AsZ80(s, n, on) EXCEPT !.mem = m]
    BY <1>2, FieldPut
  <2> QED BY <2>1, Zenon DEF PutMem
<1>3. ASSUME NEW p \in Pairs, NEW v \in Values
      PROVE  AsZ80(set_reg16(s, p, v), n, on) = PutPair(AsZ80(s, n, on), p, v.value)
  <2>1. AsZ80(set_reg16(s, p, v), n, on) = [AsZ80(s, n, on) EXCEPT !.regs = WithPair(AsZ80(s, n, on).regs, p, v.value)]
    BY SetRegView
  <2> QED BY <2>1, Zenon DEF PutPair
<1>4. ASSUME NEW k PROVE AsZ80(s, k, on) = To(AsZ80(s, n, on), k)
  <2>1. AsZ80(s, k, on) = [AsZ80(s, n, on) EXCEPT !.pc = k]
    BY Moves
  <2> QED BY <2>1, Zenon DEF To
<1> QED BY <1>1, <1>2, <1>3, <1>4

LEMMA Follow ==
  ASSUME NEW s, NEW c, NEW n, NEW on, AsZ80(s, n, on) = c, NEW k
  PROVE  AsZ80(s, k, on) = To(c, k)
<1>1. AsZ80(s, k, on) = [AsZ80(s, n, on) EXCEPT !.pc = k]
  BY Moves
<1> QED BY <1>1, Zenon DEF To

LEMMA LoadView ==
  ASSUME NEW s, IsMachine(s), NEW i, WellFormed(i, LineCount), i.mn \in LoadOps, Usable(s, i),
         HalvesUsed(i) \cap Marked(s.tuple_regs16) = {}, NEW n, NEW k, NEW on
  PROVE  AsZ80(Loaded(s, i), k, on) = Processor!Load(AsZ80(s, n, on), i, k)
<1> DEFINE c == AsZ80(s, n, on)
<1>1. /\ c.mem = s.mem
      /\ \A p \in Pairs : PairOf(c.regs, p) = get_reg16(s, p).value
      /\ \A r \in Reg8 : r \notin Marked(s.tuple_regs16) => c.regs[r] = s.regs[r]
  BY Reading
<1>2. /\ \A m : IsMemory(m) => AsZ80(PutMem(s, m), n, on) = PutMem(c, m)
      /\ \A p \in Pairs, v \in Values : AsZ80(set_reg16(s, p, v), n, on) = PutPair(c, p, v.value)
  BY PutView
<1>3. \A r \in Reg8, b \in Byte : r \notin Marked(s.tuple_regs16) => AsZ80(PutReg(s, r, b), n, on) = PutReg(c, r, b)
  BY RegView
<1>4. IsRegs(s.regs) /\ IsMemory(s.mem) /\ \A r \in Reg8 : s.regs[r] \in Byte
  BY Parts DEF IsRegs
<1>5. \A t, d : AsZ80(t, n, on) = d => AsZ80(t, k, on) = To(d, k)
  BY Follow
<1> HIDE DEF c
<1>6. CASE i.mn \in {"ld16n", "ld16l", "ld16m"}
  <2>1. i.x \in Pairs
    BY <1>6 DEF WellFormed, PairOps
  <2>2. PICK v \in Values : Loaded(s, i) = set_reg16(s, i.x, v) /\ Processor!Load(c, i, k) = Processor!SetPair(c, i.x, v.value, k)
    <3>1. CASE i.mn = "ld16n"
      <4>1. Num(i.n) \in Values /\ Num(i.n).value = i.n
        BY <3>1, Tags DEF WellFormed, Values
      <4>2. Loaded(s, i) = set_reg16(s, i.x, Num(i.n)) /\ Processor!Load(c, i, k) = Processor!SetPair(c, i.x, i.n, k)
        BY <3>1 DEF Loaded, Processor!Load
      <4> QED BY <4>1, <4>2
    <3>2. CASE i.mn = "ld16l"
      <4>1. RETIDX(i.n) \in Values /\ RETIDX(i.n).value = i.n
        BY <3>2, Tags DEF WellFormed, LabelOps, Values
      <4>2. Loaded(s, i) = set_reg16(s, i.x, RETIDX(i.n)) /\ Processor!Load(c, i, k) = Processor!SetPair(c, i.x, i.n, k)
        BY <3>2 DEF Loaded, Processor!Load
      <4> QED BY <4>1, <4>2
    <3>3. CASE i.mn = "ld16m"
      <4>1. PICK v : v = ReadWord(s.mem, i.n)
        BY Zenon
      <4>2. v \in Word
        BY <1>4, <4>1, Reads
      <4>3. Num(v) \in Values /\ Num(v).value = v
        BY <4>2, Tags DEF Values
      <4>4. Loaded(s, i) = set_reg16(s, i.x, Num(v))
        BY <3>3, <4>1 DEF Loaded
      <4>5. Processor!Load(c, i, k) = Processor!SetPair(c, i.x, v, k)
        BY <1>1, <3>3, <4>1, SameMemory DEF Processor!Load
      <4> QED BY <4>3, <4>4, <4>5
    <3> QED BY <1>6, <3>1, <3>2, <3>3
  <2>3. AsZ80(set_reg16(s, i.x, v), n, on) = PutPair(c, i.x, v.value)
    BY <1>2, <2>1
  <2>4. AsZ80(set_reg16(s, i.x, v), k, on) = To(PutPair(c, i.x, v.value), k)
    BY <1>5, <2>3
  <2>5. Processor!SetPair(c, i.x, v.value, k) = To(PutPair(c, i.x, v.value), k)
    BY Steps
  <2> QED BY <2>2, <2>4, <2>5, Zenon DEF c
<1>7. CASE i.mn \in {"st16", "st8"}
  <2>1. i.x \in Pairs /\ (i.mn = "st16" => i.n \in Word) /\ (i.mn = "st8" => i.y \in Reg8)
    BY <1>7 DEF WellFormed, PairOps
  <2>2. i.x \notin DOMAIN s.tuple_regs16
    BY <1>7 DEF Usable, PairsUsedAsNumbers
  <2>3. PICK v : v = get_reg16(s, i.x).value
    BY Zenon
  <2>4. v \in Word /\ PairOf(c.regs, i.x) = v
    BY <1>1, <2>1, <2>2, <2>3, NumberRead
  <2>5. PICK m : IsMemory(m) /\ Loaded(s, i) = PutMem(s, m) /\ Processor!Load(c, i, k) = Processor!Pc(PutMem(c, m), k)
    <3>1. CASE i.mn = "st16"
      <4>1. PICK m : m = WriteWord(s.mem, i.n, v)
        BY Zenon
      <4>2. IsMemory(m)
        BY <1>4, <2>1, <2>4, <3>1, <4>1, WriteWordKeeps
      <4>3. Loaded(s, i) = PutMem(s, m)
        BY <2>3, <3>1, <4>1 DEF Loaded, PutMem
      <4>4. Processor!Load(c, i, k) = Processor!Pc(PutMem(c, m), k)
        <5>1. Processor!WriteWord(c.mem, i.n, Processor!PairOf(c.regs, i.x)) = m
          BY <1>1, <2>4, <4>1, SameMemory
        <5>2. Processor!Load(c, i, k) = Processor!Pc([c EXCEPT !.mem = Processor!WriteWord(c.mem, i.n, Processor!PairOf(c.regs, i.x))], k)
          BY <3>1 DEF Processor!Load
        <5> QED BY <5>1, <5>2, Zenon DEF PutMem
      <4> QED BY <4>2, <4>3, <4>4
    <3>2. CASE i.mn = "st8"
      <4>0. i.y \notin Marked(s.tuple_regs16)
        BY <3>2 DEF HalvesUsed, CountOps, SumOps, BitOps
      <4>1. PICK b : b = s.regs[i.y]
        BY Zenon
      <4>2. b \in Byte /\ c.regs[i.y] = b
        BY <1>1, <1>4, <2>1, <3>2, <4>0, <4>1
      <4>3. PICK m : m = WriteByte(s.mem, v, b)
        BY Zenon
      <4>4. IsMemory(m)
        BY <1>4, <2>4, <4>2, <4>3, WriteKeeps
      <4>5. Loaded(s, i) = PutMem(s, m)
        BY <2>3, <3>2, <4>1, <4>3 DEF Loaded, PutMem
      <4>6. Processor!Load(c, i, k) = Processor!Pc(PutMem(c, m), k)
        <5>1. Processor!WriteByte(c.mem, Processor!PairOf(c.regs, i.x), c.regs[i.y]) = m
          BY <1>1, <2>4, <4>2, <4>3, SameMemory
        <5>2. Processor!Load(c, i, k) = Processor!Pc([c EXCEPT !.mem = Processor!WriteByte(c.mem, Processor!PairOf(c.regs, i.x), c.regs[i.y])], k)
          BY <3>2 DEF Processor!Load
        <5> QED BY <5>1, <5>2, Zenon DEF PutMem
      <4> QED BY <4>4, <4>5, <4>6
    <3> QED BY <1>7, <3>1, <3>2
  <2>6. AsZ80(PutMem(s, m), k, on) = To(PutMem(c, m), k)
    BY <1>2, <1>5, <2>5
  <2>7. Processor!Pc(PutMem(c, m), k) = To(PutMem(c, m), k)
    BY Steps
  <2> QED BY <2>5, <2>6, <2>7, Zenon DEF c
<1>8. CASE i.mn \in {"ld8n", "ld8r", "ld8m"}
  <2>1. i.x \in Reg8 /\ (i.mn = "ld8n" => i.n \in Byte) /\ (i.mn = "ld8r" => i.y \in Reg8) /\ (i.mn = "ld8m" => i.y \in Pairs)
    BY <1>8 DEF WellFormed, RegisterOps
  <2>2. i.x \notin Marked(s.tuple_regs16) /\ (i.mn = "ld8r" => i.y \notin Marked(s.tuple_regs16))
    BY <1>8 DEF HalvesUsed, CountOps, SumOps, BitOps
  <2>3. PICK b \in Byte : Loaded(s, i) = PutReg(s, i.x, b) /\ Processor!Load(c, i, k) = Processor!Pc(PutReg(c, i.x, b), k)
    <3>1. CASE i.mn = "ld8n"
      BY <2>1, <3>1 DEF Loaded, Processor!Load, PutReg
    <3>2. CASE i.mn = "ld8r"
      <4>1. PICK b : b = s.regs[i.y]
        BY Zenon
      <4>2. b \in Byte /\ c.regs[i.y] = b
        BY <1>1, <1>4, <2>1, <2>2, <3>2, <4>1
      <4>3. Loaded(s, i) = PutReg(s, i.x, b)
        BY <3>2, <4>1 DEF Loaded, PutReg
      <4>4. Processor!Load(c, i, k) = Processor!Pc(PutReg(c, i.x, b), k)
        BY <3>2, <4>2 DEF Processor!Load, PutReg
      <4> QED BY <4>2, <4>3, <4>4
    <3>3. CASE i.mn = "ld8m"
      <4>1. PICK b : b = ReadByte(s.mem, get_reg16(s, i.y).value)
        BY Zenon
      <4>2. b \in Byte
        BY <1>4, <4>1, Reads
      <4>3. Loaded(s, i) = PutReg(s, i.x, b)
        BY <3>3, <4>1 DEF Loaded, PutReg
      <4>4. Processor!Load(c, i, k) = Processor!Pc(PutReg(c, i.x, b), k)
        <5>1. Processor!ReadByte(c.mem, Processor!PairOf(c.regs, i.y)) = b
          BY <1>1, <2>1, <3>3, <4>1, SameMemory
        <5> QED BY <3>3, <5>1 DEF Processor!Load, PutReg
      <4> QED BY <4>2, <4>3, <4>4
    <3> QED BY <1>8, <3>1, <3>2, <3>3
  <2>4. AsZ80(PutReg(s, i.x, b), k, on) = To(PutReg(c, i.x, b), k)
    BY <1>3, <1>5, <2>1, <2>2
  <2>5. Processor!Pc(PutReg(c, i.x, b), k) = To(PutReg(c, i.x, b), k)
    BY Steps
  <2> QED BY <2>3, <2>4, <2>5, Zenon DEF c
<1> QED BY <1>6, <1>7, <1>8 DEF LoadOps

LEMMA AccumulatorFree ==
  ASSUME NEW s, IsMachine(s)
  PROVE  "A" \in Reg8 /\ "A" \notin Marked(s.tuple_regs16)
<1>1. IsOverlay(s.tuple_regs16)
  BY Parts
<1>2. \A p \in Pairs : High[p] # "A" /\ Low[p] # "A"
  BY PairNames
<1> QED BY <1>1, <1>2 DEF IsOverlay, Marked, Reg8

LEMMA StackView ==
  ASSUME NEW s, IsMachine(s), NEW i, WellFormed(i, LineCount), i.mn \in StackOps,
         i.mn \in PopOps => s.stack_list # <<>>, i.mn = "popaf" => ~IsMarker(Top(s)), NEW n, NEW k, NEW on
  PROVE  AsZ80(Stacked(s, i), k, on) = Processor!StackOp(AsZ80(s, n, on), i, k)
<1> DEFINE c == AsZ80(s, n, on)
<1>1. /\ c.flags = s.flags
      /\ \A p \in Pairs : PairOf(c.regs, p) = get_reg16(s, p).value
      /\ \A r \in Reg8 : r \notin Marked(s.tuple_regs16) => c.regs[r] = s.regs[r]
      /\ s.stack_list # <<>> => c.stack[Len(c.stack)] = Top(s).value
  BY Reading
<1>2. \A v \in Values : AsZ80(push(s, v), n, on) = Processor!Push(c, v.value)
  BY PushView
<1>3. s.stack_list # <<>> => AsZ80(pop(s), n, on) = Processor!Popped(c)
  BY PopView
<1>4. IsRegs(s.regs) /\ s.flags \in Flags /\ s.regs["A"] \in Byte
  BY Parts DEF IsRegs, Reg8
<1>5. \A t, d : AsZ80(t, n, on) = d => AsZ80(t, k, on) = To(d, k)
  BY Follow
<1> HIDE DEF c
<1>6. CASE i.mn \in {"push", "pushaf"}
  <2>1. PICK v \in Values : Stacked(s, i) = push(s, v) /\ Processor!StackOp(c, i, k) = Processor!Pc(Processor!Push(c, v.value), k)
    <3>1. CASE i.mn = "push"
      <4>1. i.x \in Pairs
        BY <3>1 DEF WellFormed, PairOps
      <4>2. PICK v : v = get_reg16(s, i.x)
        BY Zenon
      <4>3. v \in Values
        BY <4>1, <4>2, GetReg, Zenon
      <4>4. Processor!PairOf(c.regs, i.x) = v.value
        BY <1>1, <4>1, <4>2, SameMemory
      <4>5. Stacked(s, i) = push(s, v)
        BY <3>1, <4>2 DEF Stacked
      <4>6. Processor!StackOp(c, i, k) = Processor!Pc(Processor!Push(c, v.value), k)
        BY <3>1, <4>4 DEF Processor!StackOp
      <4> QED BY <4>3, <4>5, <4>6
    <3>2. CASE i.mn = "pushaf"
      <4>1. PICK w : w = 256 * s.regs["A"] + flags_byte(s.flags)
        OBVIOUS
      <4>2. w \in Word
        BY <1>4, <4>1, FlagsByte
      <4>3. Num(w) \in Values /\ Num(w).value = w
        BY <4>2, Tags DEF Values
      <4>4. c.regs["A"] = s.regs["A"] /\ Processor!flags_byte(c.flags) = flags_byte(s.flags)
        BY <1>1, AccumulatorFree, SameTests
      <4>5. Stacked(s, i) = push(s, Num(w))
        BY <3>2, <4>1 DEF Stacked
      <4>6. Processor!StackOp(c, i, k) = Processor!Pc(Processor!Push(c, w), k)
        BY <3>2, <4>1, <4>4 DEF Processor!StackOp
      <4> QED BY <4>3, <4>5, <4>6
    <3> QED BY <1>6, <3>1, <3>2
  <2>2. AsZ80(push(s, v), k, on) = To(Processor!Push(c, v.value), k)
    BY <1>2, <1>5
  <2>3. Processor!Pc(Processor!Push(c, v.value), k) = To(Processor!Push(c, v.value), k)
    BY Steps
  <2> QED BY <2>1, <2>2, <2>3, Zenon DEF c
<1>7. CASE i.mn \in {"pop", "popaf"}
  <2>1. s.stack_list # <<>>
    BY <1>7 DEF PopOps
  <2>2. PICK t : t = pop(s)
    BY Zenon
  <2>3. PICK d : d = Processor!Popped(c)
    BY Zenon
  <2>4. IsMachine(t) /\ Top(s) \in Values /\ AsZ80(t, n, on) = d
    BY <1>3, <2>1, <2>2, <2>3, PopKeeps
  <2>5. Processor!Top(c) = Top(s).value
    BY <1>1, <2>1 DEF Processor!Top
  <2>6. CASE i.mn = "pop"
    <3>1. i.x \in Pairs
      BY <2>6 DEF WellFormed, PairOps
    <3>2. Stacked(s, i) = set_reg16(t, i.x, Top(s))
      BY <2>2, <2>6 DEF Stacked
    <3>3. Processor!StackOp(c, i, k) = Processor!SetPair(d, i.x, Top(s).value, k)
      BY <2>3, <2>5, <2>6 DEF Processor!StackOp
    <3>4. AsZ80(set_reg16(t, i.x, Top(s)), n, on) = PutPair(d, i.x, Top(s).value)
      BY <2>4, <3>1, PutView
    <3>5. AsZ80(set_reg16(t, i.x, Top(s)), k, on) = To(PutPair(d, i.x, Top(s).value), k)
      BY <1>5, <3>4
    <3>6. Processor!SetPair(d, i.x, Top(s).value, k) = To(PutPair(d, i.x, Top(s).value), k)
      BY Steps
    <3> QED BY <3>2, <3>3, <3>5, <3>6, Zenon DEF c
  <2>7. CASE i.mn = "popaf"
    <3>1. PICK v : v = Top(s).value
      BY Zenon
    <3>2. v \in Word
      BY <2>4, <2>7, <3>1, Tags, ValueOrMarker
    <3>3. PICK b, f : b = v \div 256 /\ f = set_flags_byte(v % 256)
      OBVIOUS
    <3>4. b \in Byte /\ f \in Flags
      <4>1. v % 256 \in Int
        BY <3>2, WordDef
      <4> QED BY <3>2, <3>3, <4>1, Halves, FlagsByte
    <3>5. Stacked(s, i) = PutRegFlags(t, "A", b, f)
      BY <2>2, <2>7, <3>1, <3>3 DEF Stacked, PutRegFlags
    <3>6. Processor!StackOp(c, i, k) = Processor!Pc(PutRegFlags(d, "A", b, f), k)
      <4>1. Processor!set_flags_byte(v % 256) = f /\ Processor!Top(c) = v
        BY <2>5, <3>1, <3>3, SameTests
      <4> QED BY <2>3, <2>7, <3>3, <4>1 DEF Processor!StackOp, PutRegFlags
    <3>7. AsZ80(PutRegFlags(t, "A", b, f), n, on) = PutRegFlags(d, "A", b, f)
      BY <2>4, <3>4, AccumulatorFree, RegView
    <3>8. AsZ80(PutRegFlags(t, "A", b, f), k, on) = To(PutRegFlags(d, "A", b, f), k)
      BY <1>5, <3>7
    <3>9. Processor!Pc(PutRegFlags(d, "A", b, f), k) = To(PutRegFlags(d, "A", b, f), k)
      BY Steps
    <3> QED BY <3>5, <3>6, <3>8, <3>9, Zenon DEF c
  <2> QED BY <1>7, <2>6, <2>7
<1> QED BY <1>6, <1>7 DEF StackOps

LEMMA CountView ==
  ASSUME NEW s, IsMachine(s), NEW i, WellFormed(i, LineCount), i.mn \in CountOps, Usable(s, i),
         HalvesUsed(i) \cap Marked(s.tuple_regs16) = {}, NEW n, NEW k, NEW on
  PROVE  AsZ80(Counted(s, i), k, on) = Processor!Count(AsZ80(s, n, on), i, k)
<1> DEFINE c == AsZ80(s, n, on)
<1>1. /\ c.flags = s.flags
      /\ \A p \in Pairs : PairOf(c.regs, p) = get_reg16(s, p).value
      /\ \A r \in Reg8 : r \notin Marked(s.tuple_regs16) => c.regs[r] = s.regs[r]
  BY Reading
<1>2. \A p \in Pairs, v \in Values : AsZ80(set_reg16(s, p, v), n, on) = PutPair(c, p, v.value)
  BY PutView
<1>3. \A r \in Reg8, b \in Byte, f \in Flags :
        r \notin Marked(s.tuple_regs16) => AsZ80(PutRegFlags(s, r, b, f), n, on) = PutRegFlags(c, r, b, f)
  BY RegView
<1>4. s.flags \in Flags /\ \A r \in Reg8 : s.regs[r] \in Byte
  BY Parts DEF IsRegs
<1>5. \A t, d : AsZ80(t, n, on) = d => AsZ80(t, k, on) = To(d, k)
  BY Follow
<1> HIDE DEF c
<1>6. CASE i.mn \in {"inc16", "dec16"}
  <2>1. i.x \in Pairs
    BY <1>6 DEF WellFormed, PairOps
  <2>2. i.x \notin DOMAIN s.tuple_regs16
    BY <1>6 DEF Usable, PairsUsedAsNumbers
  <2>3. PICK a : a = get_reg16(s, i.x).value
    BY Zenon
  <2>4. a \in Word /\ Processor!PairOf(c.regs, i.x) = a
    BY <1>1, <2>1, <2>2, <2>3, NumberRead, SameMemory
  <2>5. PICK v \in Word : Counted(s, i) = set_reg16(s, i.x, Num(v)) /\ Processor!Count(c, i, k) = Processor!SetPair(c, i.x, v, k)
    <3>1. CASE i.mn = "inc16"
      <4>1. (a + 1) % 65536 \in Word
        BY <2>4, Wraps, WordDef
      <4>2. Counted(s, i) = set_reg16(s, i.x, Num((a + 1) % 65536))
        BY <3>1, <2>3 DEF Counted
      <4>3. Processor!Count(c, i, k) = Processor!SetPair(c, i.x, (a + 1) % 65536, k)
        BY <3>1, <2>4 DEF Processor!Count
      <4> QED BY <4>1, <4>2, <4>3
    <3>2. CASE i.mn = "dec16"
      <4>1. (a - 1) % 65536 \in Word /\ a + (-1) = a - 1
        BY <2>4, Wraps, WordDef
      <4>2. Counted(s, i) = set_reg16(s, i.x, Num((a - 1) % 65536))
        BY <3>2, <2>3, <4>1 DEF Counted
      <4>3. Processor!Count(c, i, k) = Processor!SetPair(c, i.x, (a - 1) % 65536, k)
        BY <3>2, <2>4 DEF Processor!Count
      <4> QED BY <4>1, <4>2, <4>3
    <3> QED BY <1>6, <3>1, <3>2
  <2>6. Num(v) \in Values /\ Num(v).value = v
    BY Tags DEF Values
  <2>7. AsZ80(set_reg16(s, i.x, Num(v)), n, on) = PutPair(c, i.x, v)
    BY <1>2, <2>1, <2>6
  <2>8. AsZ80(set_reg16(s, i.x, Num(v)), k, on) = To(PutPair(c, i.x, v), k)
    BY <1>5, <2>7
  <2>9. Processor!SetPair(c, i.x, v, k) = To(PutPair(c, i.x, v), k)
    BY Steps
  <2> QED BY <2>5, <2>8, <2>9, Zenon DEF c
<1>7. CASE i.mn \in {"inc8", "dec8"}
  <2>1. i.x \in Reg8
    BY <1>7 DEF WellFormed, RegisterOps
  <2>2. i.x \notin Marked(s.tuple_regs16)
    BY <1>7 DEF HalvesUsed, CountOps, SumOps, BitOps
  <2>3. PICK r : r = IF i.mn = "inc8" THEN inc8(s.flags, s.regs[i.x]) ELSE dec8(s.flags, s.regs[i.x])
    BY Zenon
  <2>4. r.result \in Byte /\ r.flags \in Flags
    <3>1. s.regs[i.x] \in Byte
      BY <1>4, <2>1
    <3>2. ByteAndFlags(inc8(s.flags, s.regs[i.x])) /\ ByteAndFlags(dec8(s.flags, s.regs[i.x]))
      BY <1>4, <3>1, Count8
    <3> QED BY <2>3, <3>2, Zenon DEF ByteAndFlags
  <2>5. Counted(s, i) = PutRegFlags(s, i.x, r.result, r.flags)
    BY <1>7, <2>3 DEF Counted, PutRegFlags
  <2>6. Processor!Count(c, i, k) = Processor!Pc(PutRegFlags(c, i.x, r.result, r.flags), k)
    <3>1. c.regs[i.x] = s.regs[i.x]
      BY <1>1, <2>1, <2>2
    <3>2. CASE i.mn = "inc8"
      <4>1. Processor!inc8(c.flags, c.regs[i.x]) = r
        BY <1>1, <2>3, <3>1, <3>2, SameSums
      <4> QED BY <3>2, <4>1 DEF Processor!Count, PutRegFlags
    <3>3. CASE i.mn = "dec8"
      <4>1. Processor!dec8(c.flags, c.regs[i.x]) = r
        BY <1>1, <2>3, <3>1, <3>3, SameSums
      <4> QED BY <3>3, <4>1 DEF Processor!Count, PutRegFlags
    <3> QED BY <1>7, <3>2, <3>3
  <2>7. AsZ80(PutRegFlags(s, i.x, r.result, r.flags), k, on) = To(PutRegFlags(c, i.x, r.result, r.flags), k)
    BY <1>3, <1>5, <2>1, <2>2, <2>4
  <2>8. Processor!Pc(PutRegFlags(c, i.x, r.result, r.flags), k) = To(PutRegFlags(c, i.x, r.result, r.flags), k)
    BY Steps
  <2> QED BY <2>5, <2>6, <2>7, <2>8, Zenon DEF c
<1> QED BY <1>6, <1>7 DEF CountOps

LEMMA SumView ==
  ASSUME NEW s, IsMachine(s), NEW i, WellFormed(i, LineCount), i.mn \in SumOps, Usable(s, i),
         HalvesUsed(i) \cap Marked(s.tuple_regs16) = {}, NEW n, NEW k, NEW on
  PROVE  AsZ80(Summed(s, i), k, on) = Processor!Arithmetic(AsZ80(s, n, on), i, k)
<1> DEFINE c == AsZ80(s, n, on)
<1>1. /\ c.flags = s.flags
      /\ \A p \in Pairs : PairOf(c.regs, p) = get_reg16(s, p).value
      /\ \A r \in Reg8 : r \notin Marked(s.tuple_regs16) => c.regs[r] = s.regs[r]
  BY Reading
<1>2. \A p \in Pairs, v \in Values : AsZ80(set_reg16(s, p, v), n, on) = PutPair(c, p, v.value)
  BY PutView
<1>3. \A r \in Reg8, b \in Byte, f \in Flags :
        r \notin Marked(s.tuple_regs16) => AsZ80(PutRegFlags(s, r, b, f), n, on) = PutRegFlags(c, r, b, f)
  BY RegView
<1>4. s.flags \in Flags /\ \A r \in Reg8 : s.regs[r] \in Byte
  BY Parts DEF IsRegs
<1>5. \A t, d : AsZ80(t, n, on) = d => AsZ80(t, k, on) = To(d, k)
  BY Follow
<1>6. \A f \in Flags : \A t : IsMachine(t) => AsZ80(PutFlags(t, f), n, on) = PutFlags(AsZ80(t, n, on), f)
  BY PutView
<1> HIDE DEF c
<1>7. CASE i.mn \in {"add16", "adc16", "sbc16"}
  <2>1. i.x \in Pairs /\ "HL" \in Pairs
    BY <1>7 DEF WellFormed, PairOps, Pairs
  <2>2. i.x \notin DOMAIN s.tuple_regs16 /\ "HL" \notin DOMAIN s.tuple_regs16
    BY <1>7 DEF Usable, PairsUsedAsNumbers
  <2>3. PICK a, b : a = get_reg16(s, "HL").value /\ b = get_reg16(s, i.x).value
    BY Zenon
  <2>4. a \in Word /\ b \in Word
    BY <2>1, <2>2, <2>3, NumberRead
  <2>5. PICK r : r = Sum16(s.flags, i.mn, a, b)
    BY Zenon
  <2>6. r.result \in Word /\ r.flags \in Flags
    <3>1. WordAndFlags(Sum16(s.flags, i.mn, a, b))
      BY <1>4, <1>7, <2>4, Sum16Range
    <3> QED BY <2>5, <3>1, Zenon DEF WordAndFlags
  <2>7. PICK t : t = set_reg16(s, "HL", Num(r.result))
    BY Zenon
  <2>8. Summed(s, i) = PutFlags(t, r.flags)
    BY <1>7, <2>3, <2>5, <2>7 DEF Summed, PutFlags
  <2>9. IsMachine(t) /\ AsZ80(t, n, on) = PutPair(c, "HL", r.result)
    <3>1. Num(r.result) \in Values /\ Num(r.result).value = r.result
      BY <2>6, Tags DEF Values
    <3> QED BY <1>2, <2>1, <2>6, <2>7, <3>1, NumberKept
  <2>10. AsZ80(PutFlags(t, r.flags), k, on) = To(PutFlags(PutPair(c, "HL", r.result), r.flags), k)
    BY <1>5, <1>6, <2>6, <2>9
  <2>11. Processor!Arithmetic(c, i, k) = PutFlags(To(PutPair(c, "HL", r.result), k), r.flags)
    <3>1. Processor!Sum16(c.flags, i.mn, Processor!PairOf(c.regs, "HL"), Processor!PairOf(c.regs, i.x)) = r
      BY <1>1, <2>1, <2>3, <2>5, SameMemory, SameAlu
    <3>2. Processor!Arithmetic(c, i, k) = [Processor!SetPair(c, "HL", r.result, k) EXCEPT !.flags = r.flags]
      BY <1>7, <3>1 DEF Processor!Arithmetic
    <3> QED BY <3>2, Steps, Zenon DEF PutFlags
  <2>12. \A d, f : PutFlags(To(d, k), f) = To(PutFlags(d, f), k)
    BY DEF PutFlags, To
  <2> QED BY <2>8, <2>10, <2>11, <2>12, Zenon DEF c
<1>8. CASE i.mn \notin {"add16", "adc16", "sbc16"}
  <2>1. "A" \in Reg8 /\ "A" \notin Marked(s.tuple_regs16) /\ (i.mn \in RegisterOps => i.x \in Reg8)
    BY AccumulatorFree DEF WellFormed
  <2>2. i.x \notin Marked(s.tuple_regs16)
    BY <1>8 DEF HalvesUsed, CountOps, SumOps, BitOps
  <2>3. PICK r : r = Alu8(s.flags, i.mn, s.regs["A"], s.regs[i.x])
    BY Zenon
  <2>4. r.result \in Byte /\ r.flags \in Flags
    <3>1. i.mn \in RegisterOps => s.regs[i.x] \in Byte
      BY <1>4, <2>1
    <3>2. i.mn \in SumOps \ {"add16", "adc16", "sbc16"} /\ s.regs["A"] \in Byte
      BY <1>4, <1>8, <2>1
    <3>3. ByteAndFlags(Alu8(s.flags, i.mn, s.regs["A"], s.regs[i.x]))
      BY <1>4, <3>1, <3>2, Alu8Range
    <3> QED BY <2>3, <3>3, Zenon DEF ByteAndFlags
  <2>5. Summed(s, i) = PutRegFlags(s, "A", r.result, r.flags)
    BY <1>8, <2>3 DEF Summed, PutRegFlags
  <2>6. Processor!Arithmetic(c, i, k) = Processor!Pc(PutRegFlags(c, "A", r.result, r.flags), k)
    <3>1. Processor!Alu8(c.flags, i.mn, c.regs["A"], c.regs[i.x]) = r
      <4>1. c.regs["A"] = s.regs["A"]
        BY <1>1, <2>1
      <4>2. CASE i.mn \in RegisterOps
        BY <1>1, <2>1, <2>2, <2>3, <4>1, <4>2, SameAlu
      <4>3. CASE i.mn \notin RegisterOps
        <5>1. i.mn \in {"rlca", "rrca", "rla", "rra", "scf", "ccf"}
          BY <1>8, <4>3 DEF SumOps, RegisterOps
        <5>2. \A f, a, v, w : Alu8(f, i.mn, a, v) = Alu8(f, i.mn, a, w)
          BY <5>1 DEF Alu8
        <5> QED BY <1>1, <2>3, <4>1, <5>2, SameAlu
      <4> QED BY <4>2, <4>3
    <3> QED BY <1>8, <3>1 DEF Processor!Arithmetic, PutRegFlags
  <2>7. AsZ80(PutRegFlags(s, "A", r.result, r.flags), k, on) = To(PutRegFlags(c, "A", r.result, r.flags), k)
    BY <1>3, <1>5, <2>1, <2>4
  <2>8. Processor!Pc(PutRegFlags(c, "A", r.result, r.flags), k) = To(PutRegFlags(c, "A", r.result, r.flags), k)
    BY Steps
  <2> QED BY <2>5, <2>6, <2>7, <2>8, Zenon DEF c
<1> QED BY <1>7, <1>8

LEMMA ShiftView ==
  ASSUME NEW s, IsMachine(s), NEW i, WellFormed(i, LineCount), i.mn \in BitOps,
         HalvesUsed(i) \cap Marked(s.tuple_regs16) = {}, NEW n, NEW k, NEW on
  PROVE  AsZ80(Shifted(s, i), k, on) = Processor!BitOp(AsZ80(s, n, on), i, k)
<1> DEFINE c == AsZ80(s, n, on)
<1>1. i.x \in Reg8 /\ i.x \notin Marked(s.tuple_regs16)
  <2>1. HalvesUsed(i) = {i.x}
    BY DEF HalvesUsed, CountOps, SumOps, BitOps
  <2> QED BY <2>1 DEF WellFormed, RegisterOps
<1>2. c.flags = s.flags /\ c.regs[i.x] = s.regs[i.x]
  BY <1>1, Reading
<1>3. /\ \A b \in Byte : AsZ80(PutReg(s, i.x, b), n, on) = PutReg(c, i.x, b)
      /\ \A b \in Byte, f \in Flags : AsZ80(PutRegFlags(s, i.x, b, f), n, on) = PutRegFlags(c, i.x, b, f)
  BY <1>1, RegView
<1>4. s.flags \in Flags /\ s.regs[i.x] \in Byte
  BY <1>1, Parts DEF IsRegs
<1>5. \A t, d : AsZ80(t, n, on) = d => AsZ80(t, k, on) = To(d, k)
  BY Follow
<1>6. \A f \in Flags : AsZ80(PutFlags(s, f), n, on) = PutFlags(c, f)
  BY PutView
<1> HIDE DEF c
<1>7. CASE i.mn = "bit"
  <2>1. PICK f : f = bit8(s.flags, i.n, s.regs[i.x])
    BY Zenon
  <2>2. f \in Flags
    BY <1>4, <1>7, <2>1, Bit8 DEF WellFormed
  <2>3. Shifted(s, i) = PutFlags(s, f)
    BY <1>7, <2>1 DEF Shifted, PutFlags
  <2>4. Processor!BitOp(c, i, k) = Processor!Pc(PutFlags(c, f), k)
    <3>1. Processor!bit8(c.flags, i.n, c.regs[i.x]) = f
      BY <1>2, <2>1, SameSums
    <3>2. Processor!BitOp(c, i, k) = Processor!Pc([c EXCEPT !.flags = Processor!bit8(c.flags, i.n, c.regs[i.x])], k)
      BY <1>7 DEF Processor!BitOp
    <3> QED BY <3>1, <3>2, Zenon DEF PutFlags
  <2>5. AsZ80(PutFlags(s, f), k, on) = To(PutFlags(c, f), k)
    BY <1>5, <1>6, <2>2
  <2>6. Processor!Pc(PutFlags(c, f), k) = To(PutFlags(c, f), k)
    BY Steps
  <2> QED BY <2>3, <2>4, <2>5, <2>6, Zenon DEF c
<1>8. CASE i.mn \in {"set", "res"}
  <2>1. PICK b : b = set_res(i.mn, i.n, s.regs[i.x])
    BY Zenon
  <2>2. b \in Byte
    BY <1>4, <1>8, <2>1, SetRes DEF WellFormed
  <2>3. Shifted(s, i) = PutReg(s, i.x, b)
    BY <1>8, <2>1 DEF Shifted, PutReg
  <2>4. Processor!BitOp(c, i, k) = Processor!Pc(PutReg(c, i.x, b), k)
    <3>1. Processor!set_res(i.mn, i.n, c.regs[i.x]) = b
      BY <1>2, <2>1, SameSums
    <3>2. Processor!BitOp(c, i, k) = Processor!Pc([c EXCEPT !.regs[i.x] = Processor!set_res(i.mn, i.n, c.regs[i.x])], k)
      BY <1>8 DEF Processor!BitOp
    <3> QED BY <3>1, <3>2, Zenon DEF PutReg
  <2>5. AsZ80(PutReg(s, i.x, b), k, on) = To(PutReg(c, i.x, b), k)
    BY <1>3, <1>5, <2>2
  <2>6. Processor!Pc(PutReg(c, i.x, b), k) = To(PutReg(c, i.x, b), k)
    BY Steps
  <2> QED BY <2>3, <2>4, <2>5, <2>6, Zenon DEF c
<1>9. CASE i.mn \in {"sla", "srl", "rl", "rr"}
  <2>1. PICK r : r = shift8(s.flags, i.mn, s.regs[i.x])
    BY Zenon
  <2>2. r.result \in Byte /\ r.flags \in Flags
    <3>1. ByteAndFlags(shift8(s.flags, i.mn, s.regs[i.x]))
      BY <1>4, Shift8
    <3> QED BY <2>1, <3>1, Zenon DEF ByteAndFlags
  <2>3. Shifted(s, i) = PutRegFlags(s, i.x, r.result, r.flags)
    BY <1>9, <2>1 DEF Shifted, PutRegFlags
  <2>4. Processor!BitOp(c, i, k) = Processor!Pc(PutRegFlags(c, i.x, r.result, r.flags), k)
    <3>1. Processor!shift8(c.flags, i.mn, c.regs[i.x]) = r
      BY <1>2, <2>1, SameSums
    <3> QED BY <1>9, <3>1 DEF Processor!BitOp, PutRegFlags
  <2>5. AsZ80(PutRegFlags(s, i.x, r.result, r.flags), k, on) = To(PutRegFlags(c, i.x, r.result, r.flags), k)
    BY <1>3, <1>5, <2>2
  <2>6. Processor!Pc(PutRegFlags(c, i.x, r.result, r.flags), k) = To(PutRegFlags(c, i.x, r.result, r.flags), k)
    BY Steps
  <2> QED BY <2>3, <2>4, <2>5, <2>6, Zenon DEF c
<1> QED BY <1>7, <1>8, <1>9 DEF BitOps

\* Two assignments to different fields.
LEMMA Apart ==
  /\ \A c, p, v, k : PutPair(To(c, k), p, v) = To(PutPair(c, p, v), k)
  /\ \A c, k, j : To(To(c, k), j) = To(c, j)
<1>1. ASSUME NEW c, NEW p, NEW v, NEW k PROVE PutPair(To(c, k), p, v) = To(PutPair(c, p, v), k)
  <2>1. PICK N : N = WithPair(c.regs, p, v)
    BY Zenon
  <2>2. PutPair(c, p, v) = [c EXCEPT !.regs = N]
    BY <2>1, Zenon DEF PutPair
  <2>3. PICK d : d = To(c, k)
    BY Zenon
  <2>4. d.regs = c.regs
    BY <2>3 DEF To
  <2>5. PutPair(d, p, v) = [d EXCEPT !.regs = N]
    BY <2>1, <2>4, Zenon DEF PutPair
  <2>6. [[c EXCEPT !.pc = k] EXCEPT !.regs = N] = [[c EXCEPT !.regs = N] EXCEPT !.pc = k]
    OBVIOUS
  <2> QED BY <2>2, <2>3, <2>5, <2>6, Zenon DEF To
<1>2. ASSUME NEW c, NEW k, NEW j PROVE To(To(c, k), j) = To(c, j)
  BY DEF To
<1> QED BY <1>1, <1>2

LEMMA ExchangeView ==
  ASSUME NEW s, IsMachine(s), NEW i, i.mn \in SwapOps, NEW n, NEW k, NEW on
  PROVE  AsZ80(Exchanged(s, i), k, on) = Processor!Exchange(AsZ80(s, n, on), i, k)
<1>0. IsRegs(s.regs) /\ IsOverlay(s.tuple_regs16) /\ IsOverlay(s.alt_tuple_regs16) /\ s.alt_regs \in [Reg8 \ {"A"} -> Byte]
      /\ s.alt_a \in Byte /\ s.regs["A"] \in Byte
  BY Parts DEF IsRegs, Reg8
<1>1. PICK c : c = AsZ80(s, n, on)
  BY Zenon
<1>2. \A p \in Pairs : PairOf(c.regs, p) = get_reg16(s, p).value
  BY <1>1, Reading
<1>3. PICK G, al : G = RegistersOf(s.regs, s.tuple_regs16) /\ al = Addresses(s.alt_regs, s.alt_tuple_regs16)
  BY Zenon
<1>4. PICK vs : vs = Plain(s.stack_list)
  BY Zenon
<1>5. c = Cpu(G, s.flags, s.alt_a, s.alt_flags, al, vs, s.mem, s.io_writes, n, on)
  BY <1>1, <1>3, <1>4, View, Zenon
<1>6. /\ c.regs = G /\ c.flags = s.flags /\ c.alt_a = s.alt_a /\ c.alt_flags = s.alt_flags /\ c.alt = al
  BY <1>5 DEF Cpu
<1>7. CASE i.mn = "exdehl"
  <2>1. "DE" \in Pairs /\ "HL" \in Pairs
    BY DEF Pairs
  <2>2. PICK d, h : d = get_reg16(s, "DE") /\ h = get_reg16(s, "HL")
    BY Zenon
  <2>3. d \in Values /\ h \in Values
    BY <2>1, <2>2, GetReg
  <2>4. PICK t : t = set_reg16(s, "DE", h)
    BY Zenon
  <2>5. IsMachine(t) /\ AsZ80(t, n, on) = PutPair(c, "DE", h.value)
    BY <1>1, <2>1, <2>3, <2>4, SetReg, PutView
  <2>6. Exchanged(s, i) = set_reg16(t, "HL", d)
    BY <1>7, <2>2, <2>4 DEF Exchanged
  <2>7. AsZ80(set_reg16(t, "HL", d), n, on) = PutPair(AsZ80(t, n, on), "HL", d.value)
    BY <2>1, <2>3, <2>5, PutView
  <2>8. AsZ80(set_reg16(t, "HL", d), k, on) = To(PutPair(PutPair(c, "DE", h.value), "HL", d.value), k)
    <3>1. PICK u : u = set_reg16(t, "HL", d)
      BY Zenon
    <3>2. AsZ80(u, n, on) = PutPair(PutPair(c, "DE", h.value), "HL", d.value)
      BY <2>5, <2>7, <3>1, Zenon
    <3>3. AsZ80(u, k, on) = To(PutPair(PutPair(c, "DE", h.value), "HL", d.value), k)
      BY <3>2, Follow
    <3> QED BY <3>1, <3>3, Zenon
  <2>9. Processor!Exchange(c, i, k) = Processor!SetPair(Processor!SetPair(c, "DE", h.value, k), "HL", d.value, k)
    <3>1. Processor!PairOf(c.regs, "DE") = d.value /\ Processor!PairOf(c.regs, "HL") = h.value
      BY <1>2, <2>1, <2>2, SameMemory
    <3> QED BY <1>7, <3>1 DEF Processor!Exchange
  <2>10. Processor!Exchange(c, i, k) = To(PutPair(To(PutPair(c, "DE", h.value), k), "HL", d.value), k)
    BY <2>9, Steps, Zenon
  <2>11. To(PutPair(To(PutPair(c, "DE", h.value), k), "HL", d.value), k) = To(PutPair(PutPair(c, "DE", h.value), "HL", d.value), k)
    <3>1. PICK d1, v : d1 = PutPair(c, "DE", h.value) /\ v = d.value
      BY Zenon
    <3>2. PutPair(To(d1, k), "HL", v) = To(PutPair(d1, "HL", v), k)
      BY Apart
    <3>3. To(To(PutPair(d1, "HL", v), k), k) = To(PutPair(d1, "HL", v), k)
      BY Apart
    <3> QED BY <3>1, <3>2, <3>3, Zenon
  <2> QED BY <1>1, <2>6, <2>8, <2>10, <2>11, Zenon
<1>8. CASE i.mn = "exaf"
  <2>1. PICK R, b : R = [s.regs EXCEPT !["A"] = s.alt_a] /\ b = s.regs["A"]
    BY Zenon
  <2>2. Exchanged(s, i) = Object(R, s.alt_flags, b, s.flags, s.alt_regs, s.tuple_regs16, s.alt_tuple_regs16, s.stack_list, s.mem, s.io_writes)
    BY <1>8, <2>1, ExafForm
  <2>3. PICK N : N = [G EXCEPT !["A"] = s.alt_a]
    BY Zenon
  <2>4. RegistersOf(R, s.tuple_regs16) = N /\ G["A"] = b
    <3>1. "A" \in Reg8 /\ "A" \notin Marked(s.tuple_regs16)
      BY AccumulatorFree
    <3>2. RegistersOf([s.regs EXCEPT !["A"] = s.alt_a], s.tuple_regs16) = [RegistersOf(s.regs, s.tuple_regs16) EXCEPT !["A"] = s.alt_a]
      BY <1>0, <3>1, PutByte
    <3>3. RegistersOf(s.regs, s.tuple_regs16)["A"] = s.regs["A"]
      BY <1>0, <3>1, Readings
    <3> QED BY <1>3, <2>1, <2>3, <3>2, <3>3, Zenon
  <2>5. AsZ80(Exchanged(s, i), k, on) = Cpu(N, s.alt_flags, b, s.flags, al, vs, s.mem, s.io_writes, k, on)
    <3>1. AsZ80(Object(R, s.alt_flags, b, s.flags, s.alt_regs, s.tuple_regs16, s.alt_tuple_regs16, s.stack_list, s.mem, s.io_writes), k, on) =
          Cpu(RegistersOf(R, s.tuple_regs16), s.alt_flags, b, s.flags, Addresses(s.alt_regs, s.alt_tuple_regs16), Plain(s.stack_list),
              s.mem, s.io_writes, k, on)
      BY ObjectView
    <3> QED BY <1>3, <1>4, <2>2, <2>4, <3>1, Zenon
  <2>6. PICK c1 : c1 = [c EXCEPT !.regs = N]
    BY Zenon
  <2>7. c1 = Cpu(N, s.flags, s.alt_a, s.alt_flags, al, vs, s.mem, s.io_writes, n, on)
    BY <1>5, <2>6 DEF Cpu
  <2>8. PICK c2 : c2 = [c1 EXCEPT !.alt_a = b]
    BY Zenon
  <2>9. c2 = Cpu(N, s.flags, b, s.alt_flags, al, vs, s.mem, s.io_writes, n, on)
    BY <2>7, <2>8 DEF Cpu
  <2>10. PICK c3 : c3 = [c2 EXCEPT !.flags = s.alt_flags]
    BY Zenon
  <2>11. c3 = Cpu(N, s.alt_flags, b, s.alt_flags, al, vs, s.mem, s.io_writes, n, on)
    BY <2>9, <2>10 DEF Cpu
  <2>12. PICK c4 : c4 = [c3 EXCEPT !.alt_flags = s.flags]
    BY Zenon
  <2>13. c4 = Cpu(N, s.alt_flags, b, s.flags, al, vs, s.mem, s.io_writes, n, on)
    BY <2>11, <2>12 DEF Cpu
  <2>14. Processor!Exchange(c, i, k) = Processor!Pc(c4, k)
    <3>1. [c EXCEPT !.regs.A = c.alt_a, !.alt_a = c.regs.A, !.flags = c.alt_flags, !.alt_flags = c.flags] = c4
      BY <1>6, <2>3, <2>4, <2>6, <2>8, <2>10, <2>12
    <3>2. Processor!Exchange(c, i, k) =
          Processor!Pc([c EXCEPT !.regs.A = c.alt_a, !.alt_a = c.regs.A, !.flags = c.alt_flags, !.alt_flags = c.flags], k)
      BY <1>8 DEF Processor!Exchange
    <3> QED BY <3>1, <3>2, Zenon
  <2>15. Processor!Pc(c4, k) = Cpu(N, s.alt_flags, b, s.flags, al, vs, s.mem, s.io_writes, k, on)
    BY <2>13 DEF Processor!Pc, Cpu
  <2> QED BY <1>1, <2>5, <2>14, <2>15, Zenon
<1>9. CASE i.mn = "exx"
  <2>1. PICK R, ar : R = Swapped(s.regs, s.alt_regs) /\ ar = Parked(s.regs, s.alt_regs)
    BY Zenon
  <2>2. PICK N : N = WithPair(WithPair(WithPair(G, "BC", al["BC"]), "DE", al["DE"]), "HL", al["HL"])
    BY Zenon
  <2>3. PICK W : W = [p \in Pairs |-> PairOf(G, p)]
    BY Zenon
  <2>4. RegistersOf(R, s.alt_tuple_regs16) = N /\ Addresses(ar, s.tuple_regs16) = W
    BY <1>0, <1>3, <2>1, <2>2, <2>3, Swaps
  <2>5. Exchanged(s, i) = Object(R, s.flags, s.alt_a, s.alt_flags, ar, s.alt_tuple_regs16, s.tuple_regs16, s.stack_list, s.mem, s.io_writes)
    BY <1>9, <2>1, ExxForm
  <2>6. AsZ80(Exchanged(s, i), k, on) = Cpu(N, s.flags, s.alt_a, s.alt_flags, W, vs, s.mem, s.io_writes, k, on)
    <3>1. AsZ80(Object(R, s.flags, s.alt_a, s.alt_flags, ar, s.alt_tuple_regs16, s.tuple_regs16, s.stack_list, s.mem, s.io_writes), k, on) =
          Cpu(RegistersOf(R, s.alt_tuple_regs16), s.flags, s.alt_a, s.alt_flags, Addresses(ar, s.tuple_regs16), Plain(s.stack_list),
              s.mem, s.io_writes, k, on)
      BY ObjectView
    <3> QED BY <1>4, <2>4, <2>5, <3>1, Zenon
  <2>7. PICK c1 : c1 = [c EXCEPT !.alt = W]
    BY Zenon
  <2>8. c1 = Cpu(G, s.flags, s.alt_a, s.alt_flags, W, vs, s.mem, s.io_writes, n, on)
    BY <1>5, <2>7 DEF Cpu
  <2>9. PICK c2 : c2 = [c1 EXCEPT !.regs = N]
    BY Zenon
  <2>10. c2 = Cpu(N, s.flags, s.alt_a, s.alt_flags, W, vs, s.mem, s.io_writes, n, on)
    BY <2>8, <2>9 DEF Cpu
  <2>11. Processor!Exchange(c, i, k) = Processor!Pc(c2, k)
    <3>1. [p \in Processor!Pairs |-> Processor!PairOf(c.regs, p)] = W
      BY <1>6, <2>3, SameMemory, SameNames
    <3>2. Processor!WithPair(Processor!WithPair(Processor!WithPair(c.regs, "BC", c.alt.BC), "DE", c.alt.DE), "HL", c.alt.HL) = N
      BY <1>6, <2>2, SameMemory
    <3>3. Processor!Exchange(c, i, k) =
          Processor!Pc([c EXCEPT !.alt = [p \in Processor!Pairs |-> Processor!PairOf(c.regs, p)],
                                 !.regs = Processor!WithPair(Processor!WithPair(Processor!WithPair(c.regs, "BC", c.alt.BC),
                                                                                "DE", c.alt.DE), "HL", c.alt.HL)], k)
      BY <1>9 DEF Processor!Exchange
    <3>4. Processor!Exchange(c, i, k) = Processor!Pc([c EXCEPT !.alt = W, !.regs = N], k)
      BY <3>1, <3>2, <3>3, Zenon
    <3>5. [c EXCEPT !.alt = W, !.regs = N] = c2
      BY <2>7, <2>9
    <3> QED BY <3>4, <3>5, Zenon
  <2>12. Processor!Pc(c2, k) = Cpu(N, s.flags, s.alt_a, s.alt_flags, W, vs, s.mem, s.io_writes, k, on)
    BY <2>10 DEF Processor!Pc, Cpu
  <2> QED BY <1>1, <2>6, <2>11, <2>12, Zenon
<1> QED BY <1>7, <1>8, <1>9 DEF SwapOps

LEMMA BlockView ==
  ASSUME NEW s, IsMachine(s), NEW i, i.mn \in BlockOps, Usable(s, i), NEW n, NEW k, NEW on
  PROVE  /\ AsZ80(Copied(s, i), k, on) = Processor!Block(AsZ80(s, n, on), i, k)
         /\ Processor!BlockLength(AsZ80(s, n, on)) = BlockCount(s)
<1>1. "BC" \in Pairs /\ "DE" \in Pairs /\ "HL" \in Pairs
  BY DEF Pairs
<1>2. "BC" \notin DOMAIN s.tuple_regs16 /\ "DE" \notin DOMAIN s.tuple_regs16 /\ "HL" \notin DOMAIN s.tuple_regs16
  BY <1>1 DEF Usable, PairsUsedAsNumbers, BlockOps
<1>3. PICK c : c = AsZ80(s, n, on)
  BY Zenon
<1>4. PICK h, e, j, d : /\ h = get_reg16(s, "HL").value /\ e = get_reg16(s, "DE").value /\ j = BlockCount(s)
                        /\ d = IF i.mn = "ldir" THEN 1 ELSE -1
  BY Zenon
<1>5. h \in Word /\ e \in Word /\ get_reg16(s, "BC").value \in Word
  BY <1>1, <1>2, <1>4, NumberRead
<1>6. j \in Nat /\ d \in {1, -1}
  BY <1>4, <1>5, WordDef DEF BlockCount
<1>7. PICK m, f : m = BlockMove(s.mem, h, e, j, d) /\ f = [s.flags EXCEPT !.H = 0, !.N = 0, !.PV = 0]
  BY Zenon
<1>8. IsMemory(m) /\ f \in Flags
  <2>1. IsMemory(m)
    BY <1>5, <1>6, <1>7, Parts, BlockKeeps
  <2>2. f \in Flags
    BY <1>7, Parts DEF Flags, FlagNames
  <2> QED BY <2>1, <2>2
<1>9. PICK hl, de : hl = (h + d * j) % 65536 /\ de = (e + d * j) % 65536
  OBVIOUS
<1>10. hl \in Word /\ de \in Word /\ 0 \in Word
  <2>1. h + d * j \in Int /\ e + d * j \in Int
    BY <1>5, <1>6, WordDef
  <2> QED BY <1>9, <2>1, Wraps, WordDef
<1>11. \A v \in {hl, de, 0} : Num(v) \in Values /\ Num(v).value = v
  BY <1>10, Tags DEF Values
<1>12. PICK t1 : t1 = PutMem(s, m)
  BY Zenon
<1>13. PICK t2 : t2 = PutFlags(t1, f)
  BY Zenon
<1>14. PICK t3 : t3 = set_reg16(t2, "HL", Num(hl))
  BY Zenon
<1>15. PICK t4 : t4 = set_reg16(t3, "DE", Num(de))
  BY Zenon
<1>16. PICK t5 : t5 = set_reg16(t4, "BC", Num(0))
  BY Zenon
<1>17. PICK c1 : c1 = PutMem(c, m)
  BY Zenon
<1>18. PICK c2 : c2 = PutFlags(c1, f)
  BY Zenon
<1>19. PICK c3 : c3 = PutPair(c2, "HL", hl)
  BY Zenon
<1>20. PICK c4 : c4 = PutPair(c3, "DE", de)
  BY Zenon
<1>21. PICK c5 : c5 = PutPair(c4, "BC", 0)
  BY Zenon
<1>22. IsMachine(t1) /\ AsZ80(t1, n, on) = c1
  BY <1>3, <1>8, <1>12, <1>17, PutKeeps, PutView
<1>23. IsMachine(t2) /\ AsZ80(t2, n, on) = c2
  BY <1>8, <1>13, <1>18, <1>22, PutKeeps, PutView
<1>24. IsMachine(t3) /\ AsZ80(t3, n, on) = c3
  BY <1>1, <1>10, <1>11, <1>14, <1>19, <1>23, NumberKept, PutView
<1>25. IsMachine(t4) /\ AsZ80(t4, n, on) = c4
  BY <1>1, <1>10, <1>11, <1>15, <1>20, <1>24, NumberKept, PutView
<1>26. AsZ80(t5, n, on) = c5
  BY <1>1, <1>11, <1>16, <1>21, <1>25, PutView
<1>27. AsZ80(t5, k, on) = To(c5, k)
  BY <1>26, Follow
<1>28. Copied(s, i) = t5
  <2>1. t2 = [s EXCEPT !.mem = m, !.flags = f]
    BY <1>12, <1>13 DEF PutFlags, PutMem
  <2> QED BY <1>4, <1>7, <1>9, <1>14, <1>15, <1>16, <2>1 DEF Copied
<1>29. /\ c.flags = s.flags /\ c.mem = s.mem
       /\ Processor!PairOf(c.regs, "HL") = h /\ Processor!PairOf(c.regs, "DE") = e
       /\ Processor!PairOf(c.regs, "BC") = get_reg16(s, "BC").value
  BY <1>1, <1>3, <1>4, Reading, SameMemory
<1>30. Processor!BlockLength(c) = j
  BY <1>4, <1>29 DEF Processor!BlockLength, BlockCount
<1>31. Processor!Block(c, i, k) = Processor!Pc(c5, k)
  <2>1. PICK N : N = WithPair(WithPair(WithPair(c.regs, "HL", hl), "DE", de), "BC", 0)
    BY Zenon
  <2>2. c5 = [c EXCEPT !.mem = m, !.regs = N, !.flags = f]
    <3>1. c2 = [[c EXCEPT !.mem = m] EXCEPT !.flags = f]
      BY <1>17, <1>18, Zenon DEF PutMem, PutFlags
    <3>2. c2.regs = c.regs
      BY <3>1
    <3>3. PICK N1, N2 : N1 = WithPair(c.regs, "HL", hl) /\ N2 = WithPair(N1, "DE", de)
      BY Zenon
    <3>4. c3 = [c2 EXCEPT !.regs = N1]
      BY <1>19, <3>2, <3>3, Zenon DEF PutPair
    <3>5. c4 = [c3 EXCEPT !.regs = WithPair(c3.regs, "DE", de)]
      BY <1>20, Zenon DEF PutPair
    <3>6. c5 = [c4 EXCEPT !.regs = WithPair(c4.regs, "BC", 0)]
      BY <1>21, Zenon DEF PutPair
    <3>7. N = WithPair(N2, "BC", 0)
      BY <2>1, <3>3, Zenon
    <3>8. c = Cpu(RegistersOf(s.regs, s.tuple_regs16), s.flags, s.alt_a, s.alt_flags, Addresses(s.alt_regs, s.alt_tuple_regs16),
                  Plain(s.stack_list), s.mem, s.io_writes, n, on)
      BY <1>3, View, Zenon
    <3>9. c3.regs = N1
      BY <3>1, <3>4, <3>8 DEF Cpu
    <3>10. c4 = [c3 EXCEPT !.regs = N2] /\ c4.regs = N2
      BY <3>1, <3>3, <3>4, <3>5, <3>8, <3>9 DEF Cpu
    <3>11. c5 = [c4 EXCEPT !.regs = N]
      BY <3>6, <3>7, <3>10, Zenon
    <3> QED BY <3>1, <3>4, <3>10, <3>11
  <2>3. Processor!Block(c, i, k) = Processor!Pc([c EXCEPT !.mem = m, !.regs = N, !.flags = f], k)
    <3>1. Processor!BlockMove(c.mem, h, e, j, d) = m
      BY <1>7, <1>29, SameBlockMove
    <3>2. Processor!WithPair(Processor!WithPair(Processor!WithPair(c.regs, "HL", hl), "DE", de), "BC", 0) = N
      BY <2>1, SameMemory
    <3>3. [c.flags EXCEPT !.H = 0, !.N = 0, !.PV = 0] = f
      BY <1>7, <1>29
    <3>4. PICK H, D, J, B : /\ H = Processor!PairOf(c.regs, "HL") /\ D = Processor!PairOf(c.regs, "DE")
                            /\ J = Processor!BlockLength(c) /\ B = IF i.mn = "ldir" THEN 1 ELSE -1
      BY Zenon
    <3>5. H = h /\ D = e /\ J = j /\ B = d
      BY <1>4, <1>29, <1>30, <3>4, Zenon
    <3>6. PICK u, w : u = (H + B * J) % 65536 /\ w = (D + B * J) % 65536
      OBVIOUS
    <3>7. u = hl /\ w = de
      BY <1>9, <3>5, <3>6
    <3>a. Processor!Block(c, i, k) =
          Processor!Pc([c EXCEPT !.mem = Processor!BlockMove(c.mem, H, D, J, B),
                                 !.regs = Processor!WithPair(Processor!WithPair(Processor!WithPair(c.regs, "HL", u), "DE", w), "BC", 0),
                                 !.flags = [c.flags EXCEPT !.H = 0, !.N = 0, !.PV = 0]], k)
      BY <3>4, <3>6 DEF Processor!Block
    <3>8. Processor!Block(c, i, k) =
          Processor!Pc([c EXCEPT !.mem = Processor!BlockMove(c.mem, h, e, j, d),
                                 !.regs = Processor!WithPair(Processor!WithPair(Processor!WithPair(c.regs, "HL", hl), "DE", de), "BC", 0),
                                 !.flags = [c.flags EXCEPT !.H = 0, !.N = 0, !.PV = 0]], k)
      BY <3>5, <3>7, <3>a, Zenon
    <3> QED BY <3>1, <3>2, <3>3, <3>8, Zenon
  <2> QED BY <2>2, <2>3, Zenon
<1>32. Processor!Pc(c5, k) = To(c5, k)
  BY Steps
<1> QED BY <1>3, <1>4, <1>27, <1>28, <1>30, <1>31, <1>32, Zenon

\* Which branch of the processor an instruction takes.
LEMMA AfterIs ==
  ASSUME NEW c, NEW i
  PROVE  /\ i.mn \in LoadOps  => Processor!After(c, i) = Processor!Load(c, i, c.pc + 1)
         /\ i.mn \in StackOps => Processor!After(c, i) = Processor!StackOp(c, i, c.pc + 1)
         /\ i.mn \in CountOps => Processor!After(c, i) = Processor!Count(c, i, c.pc + 1)
         /\ i.mn \in SumOps   => Processor!After(c, i) = Processor!Arithmetic(c, i, c.pc + 1)
         /\ i.mn \in BitOps   => Processor!After(c, i) = Processor!BitOp(c, i, c.pc + 1)
         /\ i.mn \in SwapOps  => Processor!After(c, i) = Processor!Exchange(c, i, c.pc + 1)
         /\ i.mn \in BlockOps => Processor!After(c, i) = Processor!Block(c, i, c.pc + 1)
         /\ i.mn \in JumpOps  => Processor!After(c, i) = Processor!Jump(c, i, c.pc + 1)
         /\ i.mn = "out" => Processor!After(c, i) =
              Processor!Pc([c EXCEPT !.io_writes = Append(c.io_writes, <<i.n, c.regs["A"]>>)], c.pc + 1)
<1>1. PICK L, T, C, S, B, W, K, J :
        /\ L = LoadOps /\ T = StackOps /\ C = CountOps /\ S = SumOps /\ B = BitOps /\ W = SwapOps /\ K = BlockOps /\ J = JumpOps
  BY Zenon
<1>2. PICK l, t, n, a, b, w, k, j, o :
        /\ l = Processor!Load(c, i, c.pc + 1) /\ t = Processor!StackOp(c, i, c.pc + 1) /\ n = Processor!Count(c, i, c.pc + 1)
        /\ a = Processor!Arithmetic(c, i, c.pc + 1) /\ b = Processor!BitOp(c, i, c.pc + 1)
        /\ w = Processor!Exchange(c, i, c.pc + 1) /\ k = Processor!Block(c, i, c.pc + 1) /\ j = Processor!Jump(c, i, c.pc + 1)
        /\ o = Processor!Pc([c EXCEPT !.io_writes = Append(c.io_writes, <<i.n, c.regs["A"]>>)], c.pc + 1)
  BY Zenon
<1>3. Processor!After(c, i) =
        CASE i.mn \in L -> l [] i.mn \in T -> t [] i.mn \in C -> n [] i.mn \in S -> a [] i.mn \in B -> b
          [] i.mn \in W -> w [] i.mn \in K -> k [] i.mn \in J -> j [] i.mn = "out" -> o
  BY <1>1, <1>2, SameNames, Zenon DEF Processor!After
<1>4. /\ i.mn \in L => Processor!After(c, i) = l
      /\ i.mn \in T => Processor!After(c, i) = t
      /\ i.mn \in C => Processor!After(c, i) = n
      /\ i.mn \in S => Processor!After(c, i) = a
      /\ i.mn \in B => Processor!After(c, i) = b
      /\ i.mn \in W => Processor!After(c, i) = w
      /\ i.mn \in K => Processor!After(c, i) = k
      /\ i.mn \in J => Processor!After(c, i) = j
      /\ i.mn = "out" => Processor!After(c, i) = o
  BY <1>1, <1>3 DEF LoadOps, StackOps, CountOps, SumOps, BitOps, SwapOps, BlockOps, JumpOps
<1> QED BY <1>1, <1>2, <1>4, Zenon

LEMMA JumpView ==
  ASSUME NEW s, IsMachine(s), NEW i, WellFormed(i, LineCount), NEW n \in 0..LineCount, NEW on
  PROVE  LET c == AsZ80(s, n, on) IN
         /\ i.mn = "jphl" => AsZ80(s, get_reg16(s, "HL").value, on) = Processor!Jump(c, i, n + 1)
         /\ i.mn = "jp" => AsZ80(s, i.n, on) = Processor!Jump(c, i, n + 1)
         /\ i.mn \in {"jpc", "jr"} =>
              AsZ80(s, IF check_cond(s.flags, i.x) THEN i.n ELSE n + 1, on) = Processor!Jump(c, i, n + 1)
         /\ i.mn = "djnz" /\ "B" \notin Marked(s.tuple_regs16) => \A b : b = (s.regs["B"] - 1) % 256 =>
              AsZ80(PutReg(s, "B", b), IF b # 0 THEN i.n ELSE n + 1, on) = Processor!Jump(c, i, n + 1)
<1>1. PICK c : c = AsZ80(s, n, on)
  BY Zenon
<1>2. /\ c.flags = s.flags
      /\ \A p \in Pairs : Processor!PairOf(c.regs, p) = get_reg16(s, p).value
      /\ \A r \in Reg8 : r \notin Marked(s.tuple_regs16) => c.regs[r] = s.regs[r]
  BY <1>1, Reading, SameMemory
<1>3. \A k : AsZ80(s, k, on) = Processor!Pc(c, k)
  BY <1>1, PutView, Steps
<1>4. ASSUME i.mn = "jphl" PROVE AsZ80(s, get_reg16(s, "HL").value, on) = Processor!Jump(c, i, n + 1)
  <2>1. Processor!PairOf(c.regs, "HL") = get_reg16(s, "HL").value
    BY <1>2 DEF Pairs
  <2>2. Processor!Jump(c, i, n + 1) = Processor!Pc(c, get_reg16(s, "HL").value)
    BY <1>4, <2>1 DEF Processor!Jump
  <2> QED BY <1>3, <2>2
<1>5. ASSUME i.mn = "jp" PROVE AsZ80(s, i.n, on) = Processor!Jump(c, i, n + 1)
  BY <1>3, <1>5 DEF Processor!Jump
<1>6. ASSUME i.mn \in {"jpc", "jr"}
      PROVE  AsZ80(s, IF check_cond(s.flags, i.x) THEN i.n ELSE n + 1, on) = Processor!Jump(c, i, n + 1)
  <2>1. Processor!check_cond(c.flags, i.x) = check_cond(s.flags, i.x)
    BY <1>2, SameTests
  <2>2. PICK k : k = IF check_cond(s.flags, i.x) THEN i.n ELSE n + 1
    BY Zenon
  <2>3. Processor!Jump(c, i, n + 1) = Processor!Pc(c, k)
    BY <1>6, <2>1, <2>2 DEF Processor!Jump
  <2> QED BY <1>3, <2>2, <2>3, Zenon
<1>7. ASSUME i.mn = "djnz", "B" \notin Marked(s.tuple_regs16), NEW b, b = (s.regs["B"] - 1) % 256
      PROVE  AsZ80(PutReg(s, "B", b), IF b # 0 THEN i.n ELSE n + 1, on) = Processor!Jump(c, i, n + 1)
  <2>1. "B" \in Reg8 /\ s.regs["B"] \in Byte
    BY Parts DEF IsRegs, Reg8
  <2>2. b \in Byte
    BY <1>7, <2>1, ByteDef
  <2>3. PICK k : k = IF b # 0 THEN i.n ELSE n + 1
    BY Zenon
  <2>4. PICK d : d = PutReg(c, "B", b)
    BY Zenon
  <2>5. AsZ80(PutReg(s, "B", b), n, on) = d
    BY <1>1, <1>7, <2>1, <2>2, <2>4, RegView
  <2>6. AsZ80(PutReg(s, "B", b), k, on) = To(d, k)
    BY <2>5, Follow
  <2>7. b = (c.regs["B"] - 1) % 256
    BY <1>2, <1>7, <2>1
  <2>8. Processor!Jump(c, i, n + 1) = Processor!Pc(d, k)
    BY <1>7, <2>3, <2>4, <2>7 DEF Processor!Jump, PutReg
  <2> QED BY <2>3, <2>6, <2>8, Steps, Zenon
<1> QED BY <1>1, <1>4, <1>5, <1>6, <1>7, Zenon

LEMMA CallView ==
  ASSUME NEW s, IsMachine(s), NEW i, i.mn = "call", NEW n, n + 1 \in 0..LineCount, NEW on
  PROVE  AsZ80(push(s, RETIDX(n + 1)), i.n, on) = Processor!Jump(AsZ80(s, n, on), i, n + 1)
<1>1. RETIDX(n + 1) \in Values /\ RETIDX(n + 1).value = n + 1
  BY Tags DEF Values
<1>2. AsZ80(push(s, RETIDX(n + 1)), n, on) = Processor!Push(AsZ80(s, n, on), n + 1)
  BY <1>1, PushView
<1>3. AsZ80(push(s, RETIDX(n + 1)), i.n, on) = To(Processor!Push(AsZ80(s, n, on), n + 1), i.n)
  BY <1>2, Follow
<1>4. Processor!Jump(AsZ80(s, n, on), i, n + 1) = Processor!Pc(Processor!Push(AsZ80(s, n, on), n + 1), i.n)
  BY DEF Processor!Jump
<1> QED BY <1>3, <1>4, Steps, Zenon

LEMMA RetView ==
  ASSUME NEW s, IsMachine(s), NEW i, i.mn \in {"ret", "retc"}, NEW n, NEW k, NEW on
  PROVE  /\ (i.mn = "retc" /\ ~check_cond(s.flags, i.x)) => AsZ80(s, k, on) = Processor!Jump(AsZ80(s, n, on), i, k)
         /\ (i.mn = "ret" \/ check_cond(s.flags, i.x)) /\ s.stack_list # <<>> =>
              AsZ80(pop(s), Top(s).value, on) = Processor!Jump(AsZ80(s, n, on), i, k)
<1>1. PICK c : c = AsZ80(s, n, on)
  BY Zenon
<1>2. /\ c.flags = s.flags
      /\ s.stack_list # <<>> => c.stack[Len(c.stack)] = Top(s).value
  BY <1>1, Reading
<1>3. Processor!check_cond(c.flags, i.x) = check_cond(s.flags, i.x)
  BY <1>2, SameTests
<1>4. ASSUME i.mn = "retc", ~check_cond(s.flags, i.x)
      PROVE  AsZ80(s, k, on) = Processor!Jump(c, i, k)
  <2>1. Processor!Jump(c, i, k) = Processor!Pc(c, k)
    BY <1>3, <1>4 DEF Processor!Jump
  <2>2. AsZ80(s, k, on) = To(c, k)
    BY <1>1, PutView
  <2> QED BY <2>1, <2>2, Steps, Zenon
<1>5. ASSUME i.mn = "ret" \/ check_cond(s.flags, i.x), s.stack_list # <<>>
      PROVE  AsZ80(pop(s), Top(s).value, on) = Processor!Jump(c, i, k)
  <2>1. AsZ80(pop(s), n, on) = Processor!Popped(c)
    BY <1>1, <1>5, PopView
  <2>2. AsZ80(pop(s), Top(s).value, on) = To(Processor!Popped(c), Top(s).value)
    BY <2>1, Follow
  <2>3. Processor!Top(c) = Top(s).value
    BY <1>2, <1>5 DEF Processor!Top
  <2>4. Processor!Jump(c, i, k) = Processor!Pc(Processor!Popped(c), Processor!Top(c))
    BY <1>3, <1>5 DEF Processor!Jump
  <2> QED BY <2>2, <2>3, <2>4, Steps, Zenon
<1> QED BY <1>1, <1>4, <1>5, Zenon

LEMMA OutView ==
  ASSUME NEW s, IsMachine(s), NEW io, NEW n, NEW k, NEW on
  PROVE  AsZ80([s EXCEPT !.io_writes = io], k, on) = Processor!Pc([AsZ80(s, n, on) EXCEPT !.io_writes = io], k)
<1>1. AsZ80([s EXCEPT !.io_writes = io], n, on) = [AsZ80(s, n, on) EXCEPT !.io_writes = io]
  BY FieldPut
<1>2. AsZ80([s EXCEPT !.io_writes = io], k, on) = To([AsZ80(s, n, on) EXCEPT !.io_writes = io], k)
  BY <1>1, Follow
<1> QED BY <1>2, Steps, Zenon

LEMMA ScriptView ==
  ASSUME NEW s, IsMachine(s), NEW b \in Byte, NEW v \in Word, NEW n, NEW k, NEW on
  PROVE  AsZ80(set_reg16(PutReg(s, "A", b), "HL", Num(v)), k, on) =
           Processor!SetPair(PutReg(AsZ80(s, n, on), "A", b), "HL", v, k)
<1>1. "A" \in Reg8 /\ "A" \notin Marked(s.tuple_regs16) /\ "HL" \in Pairs /\ Num(v) \in Values /\ Num(v).value = v
  BY AccumulatorFree, Tags DEF Pairs, Values
<1>2. PICK t : t = PutReg(s, "A", b)
  BY Zenon
<1>3. PICK d : d = PutReg(AsZ80(s, n, on), "A", b)
  BY Zenon
<1>4. IsMachine(t) /\ AsZ80(t, n, on) = d
  BY <1>1, <1>2, <1>3, PutKeeps, RegView
<1>5. AsZ80(set_reg16(t, "HL", Num(v)), n, on) = PutPair(d, "HL", v)
  BY <1>1, <1>4, PutView
<1>6. AsZ80(set_reg16(t, "HL", Num(v)), k, on) = To(PutPair(d, "HL", v), k)
  BY <1>5, Follow
<1> QED BY <1>2, <1>3, <1>6, Steps, Zenon

-----------------------------------------------------------------------------
(***************************************************************************)
(* I. Every step of the interpreter is a step of the processor.            *)
(***************************************************************************)
\* The processor the interpreter stands for.
Shown == AsZ80(sim, IF outcome = "returned" THEN Trap ELSE idx, outcome = "running")

LEMMA ShownRunning ==
  ASSUME TypeOK, outcome = "running"
  PROVE  /\ Shown = AsZ80(sim, idx, TRUE) /\ Shown.running = TRUE /\ Shown.pc = idx
         /\ Shown.flags = sim.flags /\ (Shown.stack = <<>> <=> sim.stack_list = <<>>)
<1>1. Shown = AsZ80(sim, idx, TRUE)
  BY Zenon DEF Shown
<1>2. PICK s, n, y : s = sim /\ n = idx /\ y = TRUE
  BY Zenon
<1>3. IsMachine(s)
  BY <1>2, Zenon DEF TypeOK
<1>4. PICK c : c = AsZ80(s, n, y)
  BY Zenon
<1>5. c.running = y /\ c.pc = n /\ c.flags = s.flags /\ (c.stack = <<>> <=> s.stack_list = <<>>)
  BY <1>3, <1>4, Reading
<1> QED BY <1>1, <1>2, <1>4, <1>5, Zenon

LEMMA FetchView ==
  ASSUME TypeOK, NEW i, Fetch(i)
  PROVE  Processor!Fetch(i)
<1>1. outcome = "running" /\ idx < LineCount /\ idx \in Nat /\ LineCount \in Nat
  BY SimAssumption, WordDef DEF Fetch, TypeOK
<1>2. Shown.pc = idx /\ idx \in 0..(LineCount - 1)
  <2>1. Shown.pc = idx
    BY <1>1, ShownRunning
  <2> QED BY <1>1, <2>1
<1>3. i = (IF idx \in DOMAIN prog THEN prog[idx] ELSE i)
  BY DEF Fetch
<1>4. prog' = [k \in DOMAIN prog \cup {idx} |-> IF k = idx THEN i ELSE prog[k]]
  BY DEF Fetch, With
<1>5. PICK c : c = Shown
  BY Zenon
<1>6. /\ c.pc \in 0..(LineCount - 1)
      /\ i = (IF c.pc \in DOMAIN prog THEN prog[c.pc] ELSE i)
      /\ prog' = [k \in DOMAIN prog \cup {c.pc} |-> IF k = c.pc THEN i ELSE prog[k]]
  BY <1>2, <1>3, <1>4, <1>5
<1> QED BY <1>5, <1>6, Zenon DEF Processor!Fetch, Shown

LEMMA Executes ==
  ASSUME TypeOK, NEW i \in Pool, Fetch(i), i.mn # "callout",
         i.mn \in PopOps \/ (i.mn = "retc" /\ check_cond(sim.flags, i.x)) => sim.stack_list # <<>>,
         i.mn \in BlockOps => BlockCount(sim) <= MaxBlock /\ Processor!BlockLength(Shown) = BlockCount(sim),
         Processor!After(Shown, i) = AsZ80(sim', IF outcome' = "returned" THEN Trap ELSE idx', TRUE),
         (outcome' = "running" /\ idx' \in Word) \/ outcome' = "returned"
  PROVE  Processor!Execute
<1>1. PICK c : c = Shown
  BY Zenon
<1>2. PICK d : d = Processor!After(c, i)
  BY Zenon
<1>3. PICK e : e = AsZ80(sim', IF outcome' = "returned" THEN Trap ELSE idx', outcome' = "running")
  BY Zenon
<1>4. /\ c.running = TRUE /\ c.flags = sim.flags /\ (c.stack = <<>> <=> sim.stack_list = <<>>)
  BY <1>1, ShownRunning DEF Fetch
<1>5. Processor!Fetch(i)
  BY FetchView
<1>6. i.mn \in Processor!PopOps \/ (i.mn = "retc" /\ Processor!check_cond(c.flags, i.x)) => c.stack # <<>>
  BY <1>4, SameNames, SameTests
<1>7. i.mn \in Processor!BlockOps => Processor!BlockLength(c) <= MaxBlock
  BY <1>1, SameNames
<1>8. PICK n : n = IF outcome' = "returned" THEN Trap ELSE idx'
  BY Zenon
<1>9. PICK on : on = (n # Trap)
  BY Zenon
<1>10. on = (outcome' = "running")
  BY <1>8, <1>9, SimAssumption
<1>11. d = AsZ80(sim', n, TRUE) /\ e = AsZ80(sim', n, on)
  BY <1>1, <1>2, <1>3, <1>8, <1>10, Zenon
<1>12. PICK s, y : s = sim' /\ y = TRUE
  BY Zenon
<1>13. d.pc = n /\ e = [d EXCEPT !.running = on]
  <2>1. AsZ80(s, n, on) = [AsZ80(s, n, y) EXCEPT !.running = on]
    BY Moves
  <2>2. AsZ80(s, n, y).pc = n
    BY View, CpuFields
  <2>3. d.pc = n
    BY <1>11, <1>12, <2>2, Zenon
  <2> QED BY <1>11, <1>12, <2>1, <2>3, Zenon
<1>14. e = [d EXCEPT !.running = (d.pc # Trap)]
  BY <1>9, <1>13, Zenon
<1>15. IF i.mn = "callout" THEN \E f \in {Scripts[k] : k \in DOMAIN Scripts} : e = Processor!Answered(c, f)
       ELSE e = [d EXCEPT !.running = d.pc # Trap]
  BY <1>14, Zenon
<1> QED BY <1>1, <1>2, <1>3, <1>4, <1>5, <1>6, <1>7, <1>15, ZenonT(60) DEF Processor!Execute, Shown

LEMMA Follows ==
  ASSUME TypeOK, NEW i \in Pool, NEW ops, Runs(i, ops), i.mn # "callout",
         i.mn \in PopOps \/ (i.mn = "retc" /\ check_cond(sim.flags, i.x)) => sim.stack_list # <<>>,
         i.mn \in BlockOps => BlockCount(sim) <= MaxBlock /\ Processor!BlockLength(Shown) = BlockCount(sim),
         NEW s, NEW n \in Word, Becomes(s, n),
         Processor!After(Shown, i) = AsZ80(s, n, TRUE)
  PROVE  Processor!Execute
<1>1. sim' = s /\ idx' = n /\ outcome' = outcome
  BY Zenon DEF Becomes
<1>2. Fetch(i) /\ outcome = "running"
  BY Zenon DEF Runs, Fetch
<1>3. PICK m : m = IF outcome' = "returned" THEN Trap ELSE idx'
  BY Zenon
<1>4. m = n /\ outcome' = "running"
  BY <1>1, <1>2, <1>3
<1>5. Processor!After(Shown, i) = AsZ80(sim', m, TRUE)
  BY <1>1, <1>4, Zenon
<1> QED BY <1>1, <1>2, <1>3, <1>4, <1>5, Executes, Zenon

\* What the views of the instructions need.
LEMMA Apt ==
  ASSUME TypeOK, ~mixed', NEW i \in Pool, NEW ops, Runs(i, ops)
  PROVE  /\ IsMachine(sim) /\ WellFormed(i, LineCount) /\ i.mn \in ops /\ Usable(sim, i) /\ ~Raises(i)
         /\ HalvesUsed(i) \cap Marked(sim.tuple_regs16) = {}
         /\ idx \in 0..LineCount /\ idx + 1 \in 0..LineCount /\ idx + 1 \in Word /\ 0..LineCount \subseteq Word
         /\ Shown.pc = idx
         /\ \E y : y = TRUE /\ Shown = AsZ80(sim, idx, y)
<1>1. /\ IsMachine(sim) /\ WellFormed(i, LineCount) /\ i.mn \in ops /\ Usable(sim, i) /\ ~Raises(i)
      /\ outcome = "running" /\ idx + 1 \in 0..LineCount /\ 0..LineCount \subseteq Word
  BY Running
<1>2. HalvesUsed(i) \cap Marked(sim.tuple_regs16) = {}
  BY Zenon DEF Runs
<1>3. Shown = AsZ80(sim, idx, TRUE) /\ Shown.pc = idx
  BY <1>1, ShownRunning
<1>4. idx \in 0..LineCount /\ idx + 1 \in Word
  <2>1. idx \in Nat /\ LineCount \in Nat
    BY SimAssumption, WordDef DEF TypeOK
  <2> QED BY <1>1, <2>1
<1> QED BY <1>1, <1>2, <1>3, <1>4, Zenon

LEMMA LdSteps ==
  ASSUME TypeOK, ~mixed', Ld
  PROVE  Processor!Execute
<1>1. PICK i \in Pool : Runs(i, LoadOps) /\ Becomes(Loaded(sim, i), idx + 1)
  BY Zenon DEF Ld
<1>2. /\ IsMachine(sim) /\ WellFormed(i, LineCount) /\ i.mn \in LoadOps /\ Usable(sim, i)
      /\ HalvesUsed(i) \cap Marked(sim.tuple_regs16) = {} /\ idx + 1 \in Word /\ Shown.pc = idx
  BY <1>1, Apt
<1>3. PICK y : y = TRUE /\ Shown = AsZ80(sim, idx, y)
  BY <1>1, Apt
<1>4. PICK n, k : n = idx /\ k = idx + 1
  OBVIOUS
<1>5. AsZ80(Loaded(sim, i), k, y) = Processor!Load(AsZ80(sim, n, y), i, k)
  BY <1>2, LoadView
<1>6. Processor!After(Shown, i) = Processor!Load(Shown, i, Shown.pc + 1)
  BY <1>2, AfterIs
<1>7. Processor!After(Shown, i) = AsZ80(Loaded(sim, i), k, TRUE)
  BY <1>2, <1>3, <1>4, <1>5, <1>6, Zenon
<1>8. i.mn # "callout" /\ i.mn # "retc" /\ i.mn \notin PopOps /\ i.mn \notin BlockOps
  BY <1>2 DEF LoadOps, PopOps, BlockOps
<1> QED BY <1>1, <1>2, <1>4, <1>7, <1>8, Follows, Zenon

LEMMA IncDecSteps ==
  ASSUME TypeOK, ~mixed', IncDec
  PROVE  Processor!Execute
<1>1. PICK i \in Pool : Runs(i, CountOps) /\ Becomes(Counted(sim, i), idx + 1)
  BY Zenon DEF IncDec
<1>2. /\ IsMachine(sim) /\ WellFormed(i, LineCount) /\ i.mn \in CountOps /\ Usable(sim, i) /\ ~Raises(i)
      /\ HalvesUsed(i) \cap Marked(sim.tuple_regs16) = {} /\ idx + 1 \in Word /\ Shown.pc = idx
  BY <1>1, Apt
<1>3. PICK y : y = TRUE /\ Shown = AsZ80(sim, idx, y)
  BY <1>1, Apt
<1>4. PICK n, k : n = idx /\ k = idx + 1
  OBVIOUS
<1>5. AsZ80(Counted(sim, i), k, y) = Processor!Count(AsZ80(sim, n, y), i, k)
  BY <1>2, CountView
<1>6. Processor!After(Shown, i) = Processor!Count(Shown, i, Shown.pc + 1)
  BY <1>2, AfterIs
<1>7. Processor!After(Shown, i) = AsZ80(Counted(sim, i), k, TRUE)
  BY <1>2, <1>3, <1>4, <1>5, <1>6, Zenon
<1>8. i.mn # "callout" /\ i.mn # "retc" /\ i.mn \notin PopOps /\ i.mn \notin BlockOps
  BY <1>2 DEF CountOps, PopOps, BlockOps
<1> QED BY <1>1, <1>2, <1>4, <1>7, <1>8, Follows, Zenon

LEMMA ArithmeticSteps ==
  ASSUME TypeOK, ~mixed', Arithmetic
  PROVE  Processor!Execute
<1>1. PICK i \in Pool : Runs(i, SumOps) /\ Becomes(Summed(sim, i), idx + 1)
  BY Zenon DEF Arithmetic
<1>2. /\ IsMachine(sim) /\ WellFormed(i, LineCount) /\ i.mn \in SumOps /\ Usable(sim, i) /\ ~Raises(i)
      /\ HalvesUsed(i) \cap Marked(sim.tuple_regs16) = {} /\ idx + 1 \in Word /\ Shown.pc = idx
  BY <1>1, Apt
<1>3. PICK y : y = TRUE /\ Shown = AsZ80(sim, idx, y)
  BY <1>1, Apt
<1>4. PICK n, k : n = idx /\ k = idx + 1
  OBVIOUS
<1>5. AsZ80(Summed(sim, i), k, y) = Processor!Arithmetic(AsZ80(sim, n, y), i, k)
  BY <1>2, SumView
<1>6. Processor!After(Shown, i) = Processor!Arithmetic(Shown, i, Shown.pc + 1)
  BY <1>2, AfterIs
<1>7. Processor!After(Shown, i) = AsZ80(Summed(sim, i), k, TRUE)
  BY <1>2, <1>3, <1>4, <1>5, <1>6, Zenon
<1>8. i.mn # "callout" /\ i.mn # "retc" /\ i.mn \notin PopOps /\ i.mn \notin BlockOps
  BY <1>2 DEF SumOps, PopOps, BlockOps
<1> QED BY <1>1, <1>2, <1>4, <1>7, <1>8, Follows, Zenon

LEMMA BitsAndShiftsSteps ==
  ASSUME TypeOK, ~mixed', BitsAndShifts
  PROVE  Processor!Execute
<1>1. PICK i \in Pool : Runs(i, BitOps) /\ Becomes(Shifted(sim, i), idx + 1)
  BY Zenon DEF BitsAndShifts
<1>2. /\ IsMachine(sim) /\ WellFormed(i, LineCount) /\ i.mn \in BitOps /\ Usable(sim, i) /\ ~Raises(i)
      /\ HalvesUsed(i) \cap Marked(sim.tuple_regs16) = {} /\ idx + 1 \in Word /\ Shown.pc = idx
  BY <1>1, Apt
<1>3. PICK y : y = TRUE /\ Shown = AsZ80(sim, idx, y)
  BY <1>1, Apt
<1>4. PICK n, k : n = idx /\ k = idx + 1
  OBVIOUS
<1>5. AsZ80(Shifted(sim, i), k, y) = Processor!BitOp(AsZ80(sim, n, y), i, k)
  BY <1>2, ShiftView
<1>6. Processor!After(Shown, i) = Processor!BitOp(Shown, i, Shown.pc + 1)
  BY <1>2, AfterIs
<1>7. Processor!After(Shown, i) = AsZ80(Shifted(sim, i), k, TRUE)
  BY <1>2, <1>3, <1>4, <1>5, <1>6, Zenon
<1>8. i.mn # "callout" /\ i.mn # "retc" /\ i.mn \notin PopOps /\ i.mn \notin BlockOps
  BY <1>2 DEF BitOps, PopOps, BlockOps
<1> QED BY <1>1, <1>2, <1>4, <1>7, <1>8, Follows, Zenon

LEMMA ExSteps ==
  ASSUME TypeOK, ~mixed', Ex
  PROVE  Processor!Execute
<1>1. PICK i \in Pool : Runs(i, SwapOps) /\ Becomes(Exchanged(sim, i), idx + 1)
  BY Zenon DEF Ex
<1>2. /\ IsMachine(sim) /\ WellFormed(i, LineCount) /\ i.mn \in SwapOps /\ Usable(sim, i) /\ ~Raises(i)
      /\ HalvesUsed(i) \cap Marked(sim.tuple_regs16) = {} /\ idx + 1 \in Word /\ Shown.pc = idx
  BY <1>1, Apt
<1>3. PICK y : y = TRUE /\ Shown = AsZ80(sim, idx, y)
  BY <1>1, Apt
<1>4. PICK n, k : n = idx /\ k = idx + 1
  OBVIOUS
<1>5. AsZ80(Exchanged(sim, i), k, y) = Processor!Exchange(AsZ80(sim, n, y), i, k)
  BY <1>2, ExchangeView
<1>6. Processor!After(Shown, i) = Processor!Exchange(Shown, i, Shown.pc + 1)
  BY <1>2, AfterIs
<1>7. Processor!After(Shown, i) = AsZ80(Exchanged(sim, i), k, TRUE)
  BY <1>2, <1>3, <1>4, <1>5, <1>6, Zenon
<1>8. i.mn # "callout" /\ i.mn # "retc" /\ i.mn \notin PopOps /\ i.mn \notin BlockOps
  BY <1>2 DEF SwapOps, PopOps, BlockOps
<1> QED BY <1>1, <1>2, <1>4, <1>7, <1>8, Follows, Zenon

LEMMA PushPopSteps ==
  ASSUME TypeOK, ~mixed', PushPop
  PROVE  Processor!Execute
<1>1. PICK i \in Pool : Runs(i, StackOps) /\ (Pops(i) => sim.stack_list # <<>>) /\ Becomes(Stacked(sim, i), idx + 1)
  BY Zenon DEF PushPop
<1>2. /\ IsMachine(sim) /\ WellFormed(i, LineCount) /\ i.mn \in StackOps /\ Usable(sim, i) /\ ~Raises(i)
      /\ HalvesUsed(i) \cap Marked(sim.tuple_regs16) = {} /\ idx + 1 \in Word /\ Shown.pc = idx
  BY <1>1, Apt
<1>3. PICK y : y = TRUE /\ Shown = AsZ80(sim, idx, y)
  BY <1>1, Apt
<1>4. PICK n, k : n = idx /\ k = idx + 1
  OBVIOUS
<1>5. i.mn \in PopOps => sim.stack_list # <<>>
  BY <1>1 DEF Pops
<1>6. i.mn = "popaf" => ~IsMarker(Top(sim))
  BY <1>2, <1>5 DEF Raises, PopOps
<1>7. AsZ80(Stacked(sim, i), k, y) = Processor!StackOp(AsZ80(sim, n, y), i, k)
  BY <1>2, <1>5, <1>6, StackView
<1>8. Processor!After(Shown, i) = Processor!StackOp(Shown, i, Shown.pc + 1)
  BY <1>2, AfterIs
<1>9. Processor!After(Shown, i) = AsZ80(Stacked(sim, i), k, TRUE)
  BY <1>2, <1>3, <1>4, <1>7, <1>8, Zenon
<1>10. i.mn # "callout" /\ i.mn # "retc" /\ i.mn \notin BlockOps
  BY <1>2 DEF StackOps, PopOps, BlockOps
<1> QED BY <1>1, <1>2, <1>4, <1>5, <1>9, <1>10, Follows, Zenon

LEMMA LdirLddrSteps ==
  ASSUME TypeOK, ~mixed', LdirLddr
  PROVE  Processor!Execute
<1>1. PICK i \in Pool : Runs(i, BlockOps) /\ BlockCount(sim) <= MaxBlock /\ Becomes(Copied(sim, i), idx + 1)
  BY Zenon DEF LdirLddr
<1>2. /\ IsMachine(sim) /\ WellFormed(i, LineCount) /\ i.mn \in BlockOps /\ Usable(sim, i) /\ ~Raises(i)
      /\ HalvesUsed(i) \cap Marked(sim.tuple_regs16) = {} /\ idx + 1 \in Word /\ Shown.pc = idx
  BY <1>1, Apt
<1>3. PICK y : y = TRUE /\ Shown = AsZ80(sim, idx, y)
  BY <1>1, Apt
<1>4. PICK n, k : n = idx /\ k = idx + 1
  OBVIOUS
<1>5. AsZ80(Copied(sim, i), k, y) = Processor!Block(AsZ80(sim, n, y), i, k)
  BY <1>2, BlockView
<1>6. Processor!BlockLength(Shown) = BlockCount(sim)
  <2>1. Processor!BlockLength(AsZ80(sim, n, y)) = BlockCount(sim)
    BY <1>2, BlockView
  <2> QED BY <1>3, <1>4, <2>1, Zenon
<1>7. Processor!After(Shown, i) = Processor!Block(Shown, i, Shown.pc + 1)
  BY <1>2, AfterIs
<1>8. Processor!After(Shown, i) = AsZ80(Copied(sim, i), k, TRUE)
  BY <1>2, <1>3, <1>4, <1>5, <1>7, Zenon
<1>9. i.mn # "callout" /\ i.mn # "retc" /\ i.mn \notin PopOps
  BY <1>2 DEF BlockOps, PopOps, BlockOps
<1> QED BY <1>1, <1>2, <1>4, <1>6, <1>8, <1>9, Follows, Zenon

LEMMA OutSteps ==
  ASSUME TypeOK, ~mixed', Out
  PROVE  Processor!Execute
<1>1. PICK i \in Pool : Runs(i, {"out"}) /\ Becomes([sim EXCEPT !.io_writes = Append(@, <<i.n, sim.regs.A>>)], idx + 1)
  BY Zenon DEF Out
<1>2. /\ IsMachine(sim) /\ i.mn \in {"out"} /\ idx + 1 \in Word /\ Shown.pc = idx
  BY <1>1, Apt
<1>3. PICK y : y = TRUE /\ Shown = AsZ80(sim, idx, y)
  BY <1>1, Apt
<1>4. PICK n, k, c : n = idx /\ k = idx + 1 /\ c = Shown
  OBVIOUS
<1>5. c.io_writes = sim.io_writes /\ c.regs["A"] = sim.regs["A"]
  <2>1. c = AsZ80(sim, n, y)
    BY <1>3, <1>4, Zenon
  <2> QED BY <1>2, <2>1, Reading, AccumulatorFree
<1>6. PICK io : io = Append(sim.io_writes, <<i.n, sim.regs["A"]>>)
  BY Zenon
<1>7. PICK s : s = [sim EXCEPT !.io_writes = io]
  BY Zenon
<1>8. AsZ80(s, k, y) = Processor!Pc([AsZ80(sim, n, y) EXCEPT !.io_writes = io], k)
  BY <1>2, <1>7, OutView
<1>9. Processor!After(c, i) = Processor!Pc([c EXCEPT !.io_writes = io], c.pc + 1)
  <2>1. Processor!After(c, i) = Processor!Pc([c EXCEPT !.io_writes = Append(c.io_writes, <<i.n, c.regs["A"]>>)], c.pc + 1)
    BY <1>2, AfterIs
  <2> QED BY <1>5, <1>6, <2>1, Zenon
<1>10. Processor!After(Shown, i) = AsZ80(s, k, TRUE)
  BY <1>2, <1>3, <1>4, <1>8, <1>9, Zenon
<1>11. i.mn # "callout" /\ i.mn # "retc" /\ i.mn \notin PopOps /\ i.mn \notin BlockOps
  BY <1>2 DEF PopOps, BlockOps
<1>12. Becomes(s, idx + 1)
  BY <1>1, <1>6, <1>7, Zenon
<1> QED BY <1>1, <1>2, <1>4, <1>10, <1>11, <1>12, Follows, Zenon

LEMMA CallSteps ==
  ASSUME TypeOK, ~mixed', Call
  PROVE  Processor!Execute
<1>1. PICK i \in Pool : Runs(i, {"call"}) /\ Becomes(push(sim, RETIDX(idx + 1)), i.n)
  BY Zenon DEF Call
<1>2. /\ IsMachine(sim) /\ WellFormed(i, LineCount) /\ i.mn = "call" /\ idx + 1 \in 0..LineCount /\ Shown.pc = idx
      /\ 0..LineCount \subseteq Word
  BY <1>1, Apt
<1>3. PICK y : y = TRUE /\ Shown = AsZ80(sim, idx, y)
  BY <1>1, Apt
<1>4. PICK n, s : n = idx /\ s = push(sim, RETIDX(idx + 1))
  OBVIOUS
<1>5. AsZ80(s, i.n, y) = Processor!Jump(AsZ80(sim, n, y), i, n + 1)
  BY <1>2, <1>4, CallView
<1>6. i.mn \in JumpOps /\ i.mn # "callout" /\ i.mn # "retc" /\ i.mn \notin PopOps /\ i.mn \notin BlockOps
  BY <1>2 DEF JumpOps, PopOps, BlockOps
<1>7. Processor!After(Shown, i) = Processor!Jump(Shown, i, Shown.pc + 1)
  BY <1>6, AfterIs
<1>8. Processor!After(Shown, i) = AsZ80(s, i.n, TRUE)
  BY <1>2, <1>3, <1>4, <1>5, <1>7, Zenon
<1>9. i.n \in Word
  BY <1>2 DEF WellFormed, LabelOps
<1> QED BY <1>1, <1>4, <1>6, <1>8, <1>9, Follows, Zenon

LEMMA JumpSteps ==
  ASSUME TypeOK, ~mixed', JumpTo
  PROVE  Processor!Execute
<1>1. PICK i \in Pool :
        /\ Runs(i, {"jphl", "jp", "jpc", "jr", "djnz"})
        /\ LET b == (sim.regs.B - 1) % 256 IN
           IF i.mn = "djnz"
           THEN Becomes([sim EXCEPT !.regs.B = b], IF b # 0 THEN i.n ELSE idx + 1)
           ELSE Becomes(sim, CASE i.mn = "jphl" -> get_reg16(sim, "HL").value
                               [] i.mn = "jp" -> i.n
                               [] OTHER -> IF check_cond(sim.flags, i.x) THEN i.n ELSE idx + 1)
  BY DEF JumpTo
<1>2. /\ IsMachine(sim) /\ WellFormed(i, LineCount) /\ i.mn \in {"jphl", "jp", "jpc", "jr", "djnz"} /\ ~Raises(i)
      /\ idx \in 0..LineCount /\ idx + 1 \in Word /\ Shown.pc = idx /\ 0..LineCount \subseteq Word
      /\ HalvesUsed(i) \cap Marked(sim.tuple_regs16) = {}
  BY <1>1, Apt
<1>3. PICK y : y = TRUE /\ Shown = AsZ80(sim, idx, y)
  BY <1>1, Apt
<1>4. PICK n, k : n = idx /\ k = idx + 1
  OBVIOUS
<1>5. i.mn \in JumpOps /\ i.mn # "callout" /\ i.mn # "retc" /\ i.mn \notin PopOps /\ i.mn \notin BlockOps
  BY <1>2 DEF JumpOps, PopOps, BlockOps
<1>6. Processor!After(Shown, i) = Processor!Jump(AsZ80(sim, n, y), i, n + 1)
  <2>1. Processor!After(Shown, i) = Processor!Jump(Shown, i, Shown.pc + 1)
    BY <1>5, AfterIs
  <2> QED BY <1>2, <1>3, <1>4, <2>1, Zenon
<1>7. i.mn # "jphl" => i.n \in Word
  BY <1>2 DEF WellFormed, LabelOps
<1>8. PICK s, m : Becomes(s, m) /\ m \in Word /\ AsZ80(s, m, y) = Processor!Jump(AsZ80(sim, n, y), i, n + 1)
  <2>1. CASE i.mn = "jphl"
    <3>1. PICK m : m = get_reg16(sim, "HL").value
      BY Zenon
    <3>2. m \in Word
      <4>1. get_reg16(sim, "HL") \in Values /\ get_reg16(sim, "HL").kind # "HALT"
        BY <1>2, <2>1, GetReg DEF Raises, Pairs
      <4> QED BY <3>1, <4>1, Address
    <3>3. Becomes(sim, m)
      BY <1>1, <2>1, <3>1
    <3>4. AsZ80(sim, m, y) = Processor!Jump(AsZ80(sim, n, y), i, n + 1)
      BY <1>2, <1>4, <2>1, <3>1, JumpView
    <3> QED BY <3>2, <3>3, <3>4
  <2>2. CASE i.mn = "jp"
    <3>1. Becomes(sim, i.n)
      BY <1>1, <2>2
    <3>2. AsZ80(sim, i.n, y) = Processor!Jump(AsZ80(sim, n, y), i, n + 1)
      BY <1>2, <1>4, <2>2, JumpView
    <3> QED BY <1>7, <2>2, <3>1, <3>2
  <2>3. CASE i.mn \in {"jpc", "jr"}
    <3>1. PICK m : m = IF check_cond(sim.flags, i.x) THEN i.n ELSE n + 1
      BY Zenon
    <3>2. m \in Word
      BY <1>2, <1>4, <1>7, <2>3, <3>1
    <3>3. Becomes(sim, m)
      BY <1>1, <1>4, <2>3, <3>1
    <3>4. AsZ80(sim, m, y) = Processor!Jump(AsZ80(sim, n, y), i, n + 1)
      BY <1>2, <1>4, <2>3, <3>1, JumpView
    <3> QED BY <3>2, <3>3, <3>4
  <2>4. CASE i.mn = "djnz"
    <3>1. PICK b : b = (sim.regs["B"] - 1) % 256
      OBVIOUS
    <3>2. PICK m : m = IF b # 0 THEN i.n ELSE n + 1
      BY Zenon
    <3>3. m \in Word
      BY <1>2, <1>4, <1>7, <2>4, <3>2
    <3>4. Becomes(PutReg(sim, "B", b), m)
      BY <1>1, <1>4, <2>4, <3>1, <3>2 DEF PutReg
    <3>5. "B" \notin Marked(sim.tuple_regs16)
      BY <1>2, <2>4 DEF HalvesUsed, CountOps, SumOps, BitOps
    <3>6. AsZ80(PutReg(sim, "B", b), m, y) = Processor!Jump(AsZ80(sim, n, y), i, n + 1)
      BY <1>2, <1>4, <2>4, <3>1, <3>2, <3>5, JumpView
    <3> QED BY <3>3, <3>4, <3>6
  <2> QED BY <1>2, <2>1, <2>2, <2>3, <2>4
<1>9. Processor!After(Shown, i) = AsZ80(s, m, TRUE)
  BY <1>3, <1>6, <1>8, Zenon
<1> QED BY <1>1, <1>5, <1>8, <1>9, Follows, Zenon

LEMMA RetSteps ==
  ASSUME TypeOK, ~mixed', Ret
  PROVE  Processor!Execute
<1>1. PICK i \in Pool :
        /\ Runs(i, {"ret", "retc"})
        /\ Pops(i) => sim.stack_list # <<>>
        /\ IF ~Pops(i) THEN Becomes(sim, idx + 1)
           ELSE IF Top(sim).kind = "RETIDX" THEN Becomes(pop(sim), Top(sim).value)
           ELSE /\ sim' = pop(sim)
                /\ outcome' = "returned"
                /\ step_count' = step_count + 1
                /\ UNCHANGED <<idx, runs, script_pos>>
  BY DEF Ret
<1>2. /\ IsMachine(sim) /\ i.mn \in {"ret", "retc"} /\ ~Raises(i) /\ idx + 1 \in Word /\ Shown.pc = idx
  BY <1>1, Apt
<1>3. PICK y : y = TRUE /\ Shown = AsZ80(sim, idx, y)
  BY <1>1, Apt
<1>4. PICK n, k : n = idx /\ k = idx + 1
  OBVIOUS
<1>5. /\ i.mn \in JumpOps /\ i.mn # "callout" /\ i.mn \notin BlockOps
      /\ Pops(i) <=> i.mn = "ret" \/ check_cond(sim.flags, i.x)
      /\ i.mn \in PopOps \/ (i.mn = "retc" /\ check_cond(sim.flags, i.x)) => sim.stack_list # <<>>
  <2>1. i.mn \in JumpOps /\ i.mn # "callout" /\ i.mn \notin BlockOps /\ (i.mn \in PopOps <=> i.mn = "ret")
    BY <1>2 DEF JumpOps, PopOps, BlockOps
  <2> QED BY <1>1, <1>2, <2>1 DEF Pops
<1>6. Processor!After(Shown, i) = Processor!Jump(AsZ80(sim, n, y), i, k)
  <2>1. Processor!After(Shown, i) = Processor!Jump(Shown, i, Shown.pc + 1)
    BY <1>5, AfterIs
  <2> QED BY <1>2, <1>3, <1>4, <2>1, Zenon
<1>7. CASE ~Pops(i)
  <2>1. AsZ80(sim, k, y) = Processor!Jump(AsZ80(sim, n, y), i, k)
    BY <1>2, <1>5, <1>7, RetView
  <2>2. Processor!After(Shown, i) = AsZ80(sim, k, TRUE)
    BY <1>3, <1>6, <2>1, Zenon
  <2>3. Becomes(sim, k) /\ k \in Word
    BY <1>1, <1>2, <1>4, <1>7
  <2> QED BY <1>1, <1>5, <2>2, <2>3, Follows, Zenon
<1>8. CASE Pops(i)
  <2>1. sim.stack_list # <<>>
    BY <1>1, <1>8
  <2>2. PICK s, v : s = pop(sim) /\ v = Top(sim)
    BY Zenon
  <2>3. v \in Values
    BY <1>2, <2>1, <2>2, PopKeeps
  <2>4. AsZ80(s, v.value, y) = Processor!Jump(AsZ80(sim, n, y), i, k)
    <3>1. AsZ80(pop(sim), Top(sim).value, y) = Processor!Jump(AsZ80(sim, n, y), i, k)
      BY <1>2, <1>5, <1>8, <2>1, RetView
    <3> QED BY <2>2, <3>1, Zenon
  <2>5. Processor!After(Shown, i) = AsZ80(s, v.value, TRUE)
    BY <1>3, <1>6, <2>4, Zenon
  <2>6. CASE v.kind = "RETIDX"
    <3>1. v.value \in Word
      BY <2>3, <2>6, Address
    <3>2. Becomes(s, v.value)
      BY <1>1, <1>8, <2>2, <2>6
    <3> QED BY <1>1, <1>5, <2>5, <3>1, <3>2, Follows, Zenon
  <2>7. CASE v.kind # "RETIDX"
    <3>1. sim' = s /\ outcome' = "returned"
      BY <1>1, <1>8, <2>2, <2>7
    <3>2. v.value = Trap
      <4>1. IsMarker(v)
        BY <1>2, <1>8, <2>1, <2>2 DEF Raises
      <4> QED BY <2>3, <2>7, <4>1, Tags, ValueOrMarker
    <3>3. Processor!After(Shown, i) = AsZ80(sim', IF outcome' = "returned" THEN Trap ELSE idx', TRUE)
      BY <2>5, <3>1, <3>2, Zenon
    <3>4. Fetch(i)
      BY <1>1, Zenon DEF Runs
    <3> QED BY <1>5, <3>1, <3>3, <3>4, Executes, Zenon
  <2> QED BY <2>6, <2>7, Zenon
<1> QED BY <1>7, <1>8, Zenon

LEMMA ScriptSteps ==
  ASSUME TypeOK, ~mixed', CallScripted
  PROVE  Processor!Execute
<1>1. PICK j : j = IF script_pos < Len(Scripts) THEN script_pos + 1 ELSE Len(Scripts)
  BY Zenon
<1>2. PICK i \in Pool :
        /\ Runs(i, {"callout"})
        /\ sim' = set_reg16([sim EXCEPT !.regs.A = Scripts[j].A], "HL", Num(Scripts[j].HL))
        /\ idx' = idx + 1
        /\ outcome' = outcome
  BY <1>1, Zenon DEF CallScripted
<1>3. /\ IsMachine(sim) /\ i.mn = "callout" /\ idx + 1 \in Word /\ Shown.pc = idx
  BY <1>2, Apt
<1>4. PICK y : y = TRUE /\ Shown = AsZ80(sim, idx, y)
  BY <1>2, Apt
<1>5. j \in DOMAIN Scripts
  BY <1>1, SimAssumption DEF TypeOK
<1>6. PICK e : e = Scripts[j]
  BY Zenon
<1>7. e.A \in Byte /\ e.HL \in Word
  <2>1. PICK E : E = [A : Byte, HL : Word]
    BY Zenon
  <2>2. Scripts \in Seq(E)
    BY <2>1, SimAssumption, Zenon
  <2>3. e \in E
    BY <1>5, <1>6, <2>2
  <2> QED BY <2>1, <2>3
<1>8. PICK n, k, c : n = idx /\ k = idx + 1 /\ c = Shown
  OBVIOUS
<1>9. Fetch(i) /\ outcome = "running"
  BY <1>2, Zenon DEF Runs, Fetch
<1>10. Processor!Fetch(i)
  BY <1>9, FetchView
<1>11. PICK z : z = AsZ80(sim', IF outcome' = "returned" THEN Trap ELSE idx', outcome' = "running")
  BY Zenon
<1>12. z = AsZ80(sim', k, y)
  BY <1>2, <1>4, <1>8, <1>9, <1>11
<1>13. z = Processor!SetPair(PutReg(c, "A", e.A), "HL", e.HL, k)
  <2>1. AsZ80(set_reg16(PutReg(sim, "A", e.A), "HL", Num(e.HL)), k, y) =
          Processor!SetPair(PutReg(AsZ80(sim, n, y), "A", e.A), "HL", e.HL, k)
    BY <1>3, <1>7, ScriptView
  <2>2. sim' = set_reg16(PutReg(sim, "A", e.A), "HL", Num(e.HL))
    BY <1>2, <1>6, Zenon DEF PutReg
  <2> QED BY <1>4, <1>8, <1>12, <2>1, <2>2, Zenon
<1>14. k = c.pc + 1 /\ c.running = TRUE
  BY <1>3, <1>8, <1>9, ShownRunning
<1>15. e \in {Scripts[m] : m \in DOMAIN Scripts}
  BY <1>5, <1>6, Zenon
<1>16. /\ i.mn \notin Processor!PopOps /\ i.mn \notin Processor!BlockOps /\ i.mn # "retc"
  BY <1>3 DEF Processor!PopOps, Processor!BlockOps
<1>17. z = Processor!Answered(c, e)
  BY <1>13, <1>14, Zenon DEF PutReg, Processor!Answered
<1>18. \E f \in {Scripts[m] : m \in DOMAIN Scripts} : z = Processor!Answered(c, f)
  BY <1>15, <1>17, Zenon
<1>19. /\ i.mn \in Processor!PopOps \/ (i.mn = "retc" /\ Processor!check_cond(c.flags, i.x)) => c.stack # <<>>
       /\ i.mn \in Processor!BlockOps => Processor!BlockLength(c) <= MaxBlock
  BY <1>16, Zenon
<1>20. PICK q : q = Processor!After(c, i)
  BY Zenon
<1>21. IF i.mn = "callout"
       THEN \E f \in {Scripts[m] : m \in DOMAIN Scripts} : z = Processor!Answered(c, f)
       ELSE z = [q EXCEPT !.running = q.pc # Trap]
  BY <1>3, <1>18, Zenon
<1> QED BY <1>8, <1>10, <1>11, <1>14, <1>19, <1>20, <1>21, Zenon DEF Processor!Execute, Shown

LEMMA StoppingSteps ==
  ASSUME TypeOK, Stopping
  PROVE  Processor!GiveUp
<1>1. PICK how \in {"halted", "error", "cut", "step_limit"} :
        Ends(how) /\ outcome = "running" /\ (UNCHANGED prog \/ \E i \in Pool : Fetch(i))
  BY DEF Stopping, Underflow, Raise, Cut, RunOff, StepLimit, Fetch
<1>2. UNCHANGED prog \/ \E i \in Pool : Processor!Fetch(i)
  <2>1. CASE UNCHANGED prog
    BY <2>1
  <2>2. CASE \E i \in Pool : Fetch(i)
    <3>1. PICK i \in Pool : Fetch(i)
      BY <2>2
    <3>2. Processor!Fetch(i)
      BY <3>1, FetchView
    <3> QED BY <3>2
  <2> QED BY <1>1, <2>1, <2>2
<1>3. PICK c, e : c = Shown /\ e = AsZ80(sim', IF outcome' = "returned" THEN Trap ELSE idx', outcome' = "running")
  BY Zenon
<1>4. PICK y, x, s, n : y = TRUE /\ x = FALSE /\ s = sim /\ n = idx
  BY Zenon
<1>5. c = AsZ80(s, n, y) /\ c.running = TRUE
  BY <1>1, <1>3, <1>4, ShownRunning
<1>6. outcome' # "returned" /\ (outcome' = "running") = FALSE /\ sim' = sim /\ idx' = idx
  BY <1>1 DEF Ends
<1>7. e = AsZ80(s, n, x)
  BY <1>3, <1>4, <1>6, Zenon
<1>8. AsZ80(s, n, x) = [AsZ80(s, n, y) EXCEPT !.running = x]
  BY Moves
<1>9. e = [c EXCEPT !.running = FALSE]
  BY <1>4, <1>5, <1>7, <1>8, Zenon
<1> QED BY <1>2, <1>3, <1>5, <1>9, Zenon DEF Processor!GiveUp, Shown

\* The processor between runs, about to start at a line.
LEMMA StartView ==
  \A s, n, off, entry : \E y : y = TRUE /\ AsZ80(s, entry, y) = Processor!Started(AsZ80(s, n, off), entry)
<1> SUFFICES ASSUME NEW s, NEW n, NEW off, NEW entry
             PROVE  \E y : y = TRUE /\ AsZ80(s, entry, y) = Processor!Started(AsZ80(s, n, off), entry)
  OBVIOUS
<1>1. PICK c, d, y : c = AsZ80(s, n, off) /\ d = [c EXCEPT !.pc = entry] /\ y = TRUE
  BY Zenon
<1>2. AsZ80(s, entry, off) = d
  <2>1. AsZ80(s, entry, off) = [AsZ80(s, n, off) EXCEPT !.pc = entry]
    BY Moves
  <2> QED BY <1>1, <2>1, Zenon
<1>3. AsZ80(s, entry, y) = [d EXCEPT !.running = y]
  <2>1. AsZ80(s, entry, y) = [AsZ80(s, entry, off) EXCEPT !.running = y]
    BY Moves
  <2> QED BY <1>2, <2>1, Zenon
<1>4. Processor!Started(c, entry) = [d EXCEPT !.running = TRUE]
  <2>1. Processor!Started(c, entry) = [c EXCEPT !.pc = entry, !.running = TRUE]
    BY Zenon DEF Processor!Started
  <2>2. [c EXCEPT !.pc = entry, !.running = y] = [[c EXCEPT !.pc = entry] EXCEPT !.running = y]
    OBVIOUS
  <2> QED BY <1>1, <2>1, <2>2, Zenon
<1> QED BY <1>1, <1>3, <1>4, Zenon

LEMMA StartSteps ==
  ASSUME TypeOK, NEW entry \in Entries, run(entry) \/ replay(entry)
  PROVE  Processor!Next
<1>1. PICK n, off, y : n = (IF outcome = "returned" THEN Trap ELSE idx) /\ off = (outcome = "running") /\ y = TRUE
  BY Zenon
<1>2. PICK c, e : c = Shown /\ e = AsZ80(sim', IF outcome' = "returned" THEN Trap ELSE idx', outcome' = "running")
  BY Zenon
<1>3. Idle /\ Starts(entry) /\ prog' = prog /\ outcome' = "running" /\ idx' = entry /\ outcome # "running"
  BY DEF run, replay, Starts, Idle
<1>4. PICK s : s = sim
  BY Zenon
<1>5. IsMachine(s) /\ c = AsZ80(s, n, off)
  BY <1>1, <1>2, <1>4, Zenon DEF TypeOK, Shown
<1>6. e = AsZ80(sim', entry, y)
  BY <1>1, <1>2, <1>3
<1>7. ~c.running
  <2>1. c.running = off
    BY <1>5, Reading
  <2> QED BY <1>1, <1>3, <2>1
<1>8. e = Processor!Started(Processor!Push(c, Trap), entry) \/ e = Processor!Started(Processor!PutAway(c), entry)
  <2>1. CASE run(entry)
    <3>1. PICK t : t = push(s, HALT)
      BY Zenon
    <3>2. sim' = t
      BY <1>4, <2>1, <3>1 DEF run
    <3>3. HALT \in Values /\ HALT.value = Trap
      BY Tags DEF Values
    <3>4. AsZ80(t, n, off) = Processor!Push(c, Trap)
      BY <1>5, <3>1, <3>3, PushView
    <3>5. PICK yes : yes = TRUE /\ AsZ80(t, entry, yes) = Processor!Started(AsZ80(t, n, off), entry)
      BY StartView
    <3> QED BY <1>1, <1>6, <3>2, <3>4, <3>5, Zenon
  <2>2. CASE replay(entry)
    <3>1. PICK m : m = [a \in DOMAIN s.mem \cap Ranges |-> s.mem[a]]
      BY Zenon
    <3>2. sim' = PutMem(s, m) /\ IsMemory(m)
      BY <1>4, <1>5, <2>2, <3>1, ReplayKeeps DEF replay
    <3>3. c.mem = s.mem
      BY <1>5, Reading
    <3>4. PICK t : t = PutMem(s, m)
      BY Zenon
    <3>5. AsZ80(t, n, off) = PutMem(c, m)
      BY <1>5, <3>2, <3>4, PutView
    <3>6. PutMem(c, m) = Processor!PutAway(c)
      BY <3>1, <3>3, Zenon DEF PutMem, Processor!PutAway
    <3>7. PICK yes : yes = TRUE /\ AsZ80(t, entry, yes) = Processor!Started(AsZ80(t, n, off), entry)
      BY StartView
    <3> QED BY <1>1, <1>6, <3>2, <3>4, <3>5, <3>6, <3>7, Zenon
  <2> QED BY <2>1, <2>2
<1>9. Processor!CallRoutine(entry)
  BY <1>2, <1>3, <1>7, <1>8, Zenon DEF Processor!CallRoutine, Shown
<1>10. entry \in 0..(LineCount - 1)
  BY SimAssumption
<1> QED BY <1>9, <1>10, Zenon DEF Processor!Next

LEMMA NextSteps == TypeOK /\ Next => mixed' \/ Processor!Next
<1> SUFFICES ASSUME TypeOK, Next, ~mixed' PROVE Processor!Next
  BY Zenon
<1>1. CASE Instruction
  <2>1. Processor!Execute
    BY <1>1, LdSteps, PushPopSteps, IncDecSteps, ArithmeticSteps, BitsAndShiftsSteps, ExSteps, LdirLddrSteps,
       JumpSteps, CallSteps, ScriptSteps, RetSteps, OutSteps, Zenon DEF Instruction
  <2> QED BY <2>1, Zenon DEF Processor!Next
<1>2. CASE Stopping
  BY <1>2, StoppingSteps, Zenon DEF Processor!Next
<1>3. CASE \E entry \in Entries : run(entry) \/ replay(entry)
  BY <1>3, StartSteps, Zenon
<1> QED BY <1>1, <1>2, <1>3, Zenon DEF Next

(* The interpreter honours the Z80, for every program over the modelled    *)
(* instructions, machine, script, snapshot range and bound: read through   *)
(* the mapping that gives every marker the address it stands for, each of  *)
(* its steps is a step of the processor, until a half of a marked pair is  *)
(* used alone.                                                             *)
THEOREM Refinement == Spec => HonoursZ80
<1>1. TypeOK /\ [Next]_vars => [mixed' \/ Processor!Next]_vars
  BY NextSteps, Zenon
<1> QED BY <1>1, TypeCorrect, PTL DEF Spec, HonoursZ80

-----------------------------------------------------------------------------

(***************************************************************************)
(* J. The arithmetic does what the manual says.                            *)
(***************************************************************************)

\* The same result, and the same value of each flag named.
Agrees(r, m, names) == r.result = m.result /\ \A n \in names : r.flags[n] = m.flags[n]

LEMMA SignBit8 == \A v \in Byte : Bit(v, 7) = Ind(v >= 128)
<1> SUFFICES ASSUME NEW v \in Byte PROVE Bit(v, 7) = Ind(v >= 128)
  OBVIOUS
<1>1. Bit(v, 7) = (v \div 128) % 2
  BY DEF Bit
<1>2. v \in Int /\ 0 <= v /\ v <= 255
  BY ByteDef
<1>3. CASE v >= 128
  BY <1>1, <1>2, <1>3 DEF Ind
<1>4. CASE v < 128
  BY <1>1, <1>2, <1>4 DEF Ind
<1> QED BY <1>2, <1>3, <1>4

LEMMA SignBit16 == \A v \in Word : Bit(v, 15) = Ind(v >= 32768)
<1> SUFFICES ASSUME NEW v \in Word PROVE Bit(v, 15) = Ind(v >= 32768)
  OBVIOUS
<1>1. Bit(v, 15) = (v \div 32768) % 2
  BY DEF Bit
<1>2. v \in Int /\ 0 <= v /\ v <= 65535
  BY WordDef
<1>3. CASE v >= 32768
  BY <1>1, <1>2, <1>3 DEF Ind
<1>4. CASE v < 32768
  BY <1>1, <1>2, <1>4 DEF Ind
<1> QED BY <1>2, <1>3, <1>4

\* A sum's bit above its low part of `m` is the parts' bits and the carry.
LEMMA CarryBit ==
  ASSUME NEW h \in Nat, NEW g \in Nat, NEW k \in {0, 1}
  PROVE  ((h % 2) + (g % 2) + ((h + g + k) % 2)) % 2 = k
OBVIOUS

LEMMA BorrowBit ==
  ASSUME NEW h \in Nat, NEW g \in Nat, NEW k \in {0, 1}
  PROVE  ((h % 2) + (g % 2) + ((h - g - k) % 2)) % 2 = k
OBVIOUS

LEMMA Parted ==
  /\ \A v \in Nat : v \div 16 \in Nat /\ v % 16 \in 0..15 /\ v = 16 * (v \div 16) + (v % 16)
  /\ \A v \in Nat : v \div 4096 \in Nat /\ v % 4096 \in Nat /\ v % 4096 <= 4095 /\ v = 4096 * (v \div 4096) + (v % 4096)
<1>1. \A v \in Nat : v \div 16 \in Nat /\ v % 16 \in 0..15 /\ v = 16 * (v \div 16) + (v % 16)
  OBVIOUS
<1>2. \A v \in Nat : v \div 4096 \in Nat /\ v % 4096 \in Nat /\ v % 4096 <= 4095 /\ v = 4096 * (v \div 4096) + (v % 4096)
  OBVIOUS
<1> QED BY <1>1, <1>2

LEMMA HalfCarry8 ==
  ASSUME NEW l \in Byte, NEW r \in Byte, NEW c \in {0, 1}
  PROVE  /\ CarryInto(l, r, (l + r + c) % 256, 4) = Ind((l % 16) + (r % 16) + c > 15)
         /\ CarryInto(l, r, (l - r - c) % 256, 4) = Ind(l % 16 < (r % 16) + c)
<1>1. ASSUME NEW v \in Int PROVE Bit(v, 4) = (v \div 16) % 2
  BY DEF Bit
<1>2. PICK h, a, g, b : h = l \div 16 /\ a = l % 16 /\ g = r \div 16 /\ b = r % 16
  OBVIOUS
<1>0. l \in Nat /\ r \in Nat
  BY ByteDef
<1>3. h \in Nat /\ a \in 0..15 /\ l = 16 * h + a
  BY <1>0, <1>2, Parted
<1>4. g \in Nat /\ b \in 0..15 /\ r = 16 * g + b
  BY <1>0, <1>2, Parted
<1>5. PICK t, s : t = (l + r + c) % 256 /\ s = (l - r - c) % 256
  OBVIOUS
<1>6. PICK k : k = Ind(a + b + c > 15)
  OBVIOUS
<1>7. k \in {0, 1} /\ (t \div 16) % 2 = (h + g + k) % 2 /\ t \in Int
  <2>1. CASE a + b + c > 15
    BY <1>3, <1>4, <1>5, <1>6, <2>1 DEF Ind
  <2>2. CASE ~(a + b + c > 15)
    BY <1>3, <1>4, <1>5, <1>6, <2>2 DEF Ind
  <2> QED BY <2>1, <2>2
<1>8. PICK j : j = Ind(a < b + c)
  OBVIOUS
<1>9. j \in {0, 1} /\ (s \div 16) % 2 = (h - g - j) % 2 /\ s \in Int
  <2>1. CASE a < b + c
    BY <1>3, <1>4, <1>5, <1>8, <2>1 DEF Ind
  <2>2. CASE ~(a < b + c)
    BY <1>3, <1>4, <1>5, <1>8, <2>2 DEF Ind
  <2> QED BY <2>1, <2>2
<1>10. Bit(l, 4) = h % 2 /\ Bit(r, 4) = g % 2 /\ Bit(t, 4) = (h + g + k) % 2 /\ Bit(s, 4) = (h - g - j) % 2
  BY <1>1, <1>2, <1>7, <1>9, ByteDef
<1>11. CarryInto(l, r, t, 4) = k
  BY <1>3, <1>4, <1>7, <1>10, CarryBit DEF CarryInto
<1>12. CarryInto(l, r, s, 4) = j
  BY <1>3, <1>4, <1>9, <1>10, BorrowBit DEF CarryInto
<1> QED BY <1>2, <1>5, <1>6, <1>8, <1>11, <1>12

LEMMA HalfCarry16 ==
  ASSUME NEW l \in Word, NEW r \in Word, NEW c \in {0, 1}
  PROVE  /\ CarryInto(l, r, (l + r + c) % 65536, 12) = Ind((l % 4096) + (r % 4096) + c > 4095)
         /\ CarryInto(l, r, (l - r - c) % 65536, 12) = Ind(l % 4096 < (r % 4096) + c)
<1>1. ASSUME NEW v \in Int PROVE Bit(v, 12) = (v \div 4096) % 2
  BY DEF Bit
<1>2. PICK h, a, g, b : h = l \div 4096 /\ a = l % 4096 /\ g = r \div 4096 /\ b = r % 4096
  OBVIOUS
<1>0. l \in Nat /\ r \in Nat
  BY WordDef
<1>3. h \in Nat /\ a \in Nat /\ a <= 4095 /\ l = 4096 * h + a
  BY <1>0, <1>2, Parted
<1>4. g \in Nat /\ b \in Nat /\ b <= 4095 /\ r = 4096 * g + b
  BY <1>0, <1>2, Parted
<1>5. PICK t, s : t = (l + r + c) % 65536 /\ s = (l - r - c) % 65536
  OBVIOUS
<1>6. PICK k : k = Ind(a + b + c > 4095)
  OBVIOUS
<1>7. k \in {0, 1} /\ (t \div 4096) % 2 = (h + g + k) % 2 /\ t \in Int
  <2>1. CASE a + b + c > 4095
    BY SMTT(60), <1>3, <1>4, <1>5, <1>6, <2>1 DEF Ind
  <2>2. CASE ~(a + b + c > 4095)
    BY SMTT(60), <1>3, <1>4, <1>5, <1>6, <2>2 DEF Ind
  <2> QED BY <2>1, <2>2
<1>8. PICK j : j = Ind(a < b + c)
  OBVIOUS
<1>9. j \in {0, 1} /\ (s \div 4096) % 2 = (h - g - j) % 2 /\ s \in Int
  <2>1. CASE a < b + c
    BY SMTT(60), <1>3, <1>4, <1>5, <1>8, <2>1 DEF Ind
  <2>2. CASE ~(a < b + c)
    BY SMTT(60), <1>3, <1>4, <1>5, <1>8, <2>2 DEF Ind
  <2> QED BY <2>1, <2>2
<1>10. Bit(l, 12) = h % 2 /\ Bit(r, 12) = g % 2 /\ Bit(t, 12) = (h + g + k) % 2 /\ Bit(s, 12) = (h - g - j) % 2
  <2>1. l \in Int /\ r \in Int
    BY <1>0
  <2>2. Bit(l, 12) = h % 2 /\ Bit(r, 12) = g % 2
    BY <1>1, <1>2, <2>1
  <2>3. Bit(t, 12) = (h + g + k) % 2
    BY <1>1, <1>7
  <2>4. Bit(s, 12) = (h - g - j) % 2
    BY <1>1, <1>9
  <2> QED BY <2>2, <2>3, <2>4
<1>11. CarryInto(l, r, t, 12) = k
  BY <1>3, <1>4, <1>7, <1>10, CarryBit DEF CarryInto
<1>12. CarryInto(l, r, s, 12) = j
  BY <1>3, <1>4, <1>9, <1>10, BorrowBit DEF CarryInto
<1> QED BY <1>2, <1>5, <1>6, <1>8, <1>11, <1>12

LEMMA SignedByte ==
  \A v \in Byte : Signed(v, 8) = (IF v < 128 THEN v ELSE v - 256) /\ Ind(Signed(v, 8) < 0) = Bit(v, 7)
<1> SUFFICES ASSUME NEW v \in Byte
             PROVE  Signed(v, 8) = (IF v < 128 THEN v ELSE v - 256) /\ Ind(Signed(v, 8) < 0) = Bit(v, 7)
  OBVIOUS
<1>1. Signed(v, 8) = IF v < 128 THEN v ELSE v - 256
  BY DEF Signed
<1>2. Bit(v, 7) = Ind(v >= 128)
  BY SignBit8
<1>3. v \in Int /\ 0 <= v /\ v <= 255
  BY ByteDef
<1>4. Signed(v, 8) < 0 <=> v >= 128
  BY <1>1, <1>3
<1> QED BY <1>1, <1>2, <1>4 DEF Ind

LEMMA SignedWord ==
  \A v \in Word : Signed(v, 16) = (IF v < 32768 THEN v ELSE v - 65536) /\ Ind(Signed(v, 16) < 0) = Bit(v, 15)
<1> SUFFICES ASSUME NEW v \in Word
             PROVE  Signed(v, 16) = (IF v < 32768 THEN v ELSE v - 65536) /\ Ind(Signed(v, 16) < 0) = Bit(v, 15)
  OBVIOUS
<1>1. Signed(v, 16) = IF v < 32768 THEN v ELSE v - 65536
  BY DEF Signed
<1>2. Bit(v, 15) = Ind(v >= 32768)
  BY SignBit16
<1>3. v \in Int /\ 0 <= v /\ v <= 65535
  BY WordDef
<1>4. Signed(v, 16) < 0 <=> v >= 32768
  BY <1>1, <1>3
<1> QED BY <1>1, <1>2, <1>4 DEF Ind

LEMMA Overflow8 ==
  ASSUME NEW l \in Byte, NEW r \in Byte, NEW c \in {0, 1}
  PROVE  LET s == (l + r + c) % 256
             d == (l - r - c) % 256
         IN /\ Ind(Bit(l, 7) = Bit(r, 7) /\ Bit(l, 7) # Bit(s, 7)) = Ind(Overflows(Signed(l, 8) + Signed(r, 8) + c, 8))
            /\ Ind(Bit(l, 7) # Bit(r, 7) /\ Bit(l, 7) # Bit(d, 7)) = Ind(Overflows(Signed(l, 8) - Signed(r, 8) - c, 8))
<1>1. PICK s, d, x, y : s = (l + r + c) % 256 /\ d = (l - r - c) % 256 /\ x = Signed(l, 8) /\ y = Signed(r, 8)
  OBVIOUS
<1>2. l \in 0..255 /\ r \in 0..255
  BY ByteDef
<1>3. s \in Byte /\ d \in Byte
  BY <1>1, <1>2, Wraps
<1>4. x = (IF l < 128 THEN l ELSE l - 256) /\ y = (IF r < 128 THEN r ELSE r - 256)
  BY <1>1, SignedByte
<1>5. Bit(l, 7) = Ind(l >= 128) /\ Bit(r, 7) = Ind(r >= 128) /\ Bit(s, 7) = Ind(s >= 128) /\ Bit(d, 7) = Ind(d >= 128)
  BY <1>3, SignBit8
<1>6. x + y + c \in Int /\ x - y - c \in Int
  BY <1>2, <1>4
<1>7. (Overflows(x + y + c, 8) <=> x + y + c < -128 \/ x + y + c >= 128)
      /\ (Overflows(x - y - c, 8) <=> x - y - c < -128 \/ x - y - c >= 128)
  BY <1>6 DEF Overflows
<1>8. (Bit(l, 7) = Bit(r, 7) /\ Bit(l, 7) # Bit(s, 7)) <=> Overflows(x + y + c, 8)
  BY <1>1, <1>2, <1>4, <1>5, <1>7 DEF Ind
<1>9. (Bit(l, 7) # Bit(r, 7) /\ Bit(l, 7) # Bit(d, 7)) <=> Overflows(x - y - c, 8)
  BY <1>1, <1>2, <1>4, <1>5, <1>7 DEF Ind
<1> QED BY <1>1, <1>8, <1>9 DEF Ind

LEMMA SameFields ==
  ASSUME NEW u \in Flags, NEW v, NEW h, NEW p, NEW n, NEW c
  PROVE  Agrees([result |-> v, flags |-> [u EXCEPT !.H = h, !.PV = p, !.N = n, !.C = c]],
                [result |-> v, flags |-> [S |-> u.S, Z |-> u.Z, N |-> n, H |-> h, PV |-> p, C |-> c]], FlagNames)
<1>1. PICK x, y : /\ x = [u EXCEPT !.H = h, !.PV = p, !.N = n, !.C = c]
                  /\ y = [S |-> u.S, Z |-> u.Z, N |-> n, H |-> h, PV |-> p, C |-> c]
  OBVIOUS
<1>2. x["S"] = y["S"] /\ x["Z"] = y["Z"] /\ x["N"] = y["N"] /\ x["H"] = y["H"] /\ x["PV"] = y["PV"] /\ x["C"] = y["C"]
  BY <1>1 DEF Flags, FlagNames
<1>3. \A name \in FlagNames : x[name] = y[name]
  BY <1>2 DEF FlagNames
<1> QED BY Zenon, <1>1, <1>3 DEF Agrees

LEMMA SzpFields ==
  ASSUME NEW f \in Flags, NEW v \in Int
  PROVE  /\ set_szp(f, v) \in Flags /\ set_szp(f, v).C = f.C
         /\ set_szp(f, v).S = Bit(v, 7) /\ set_szp(f, v).Z = Ind(v = 0)
<1>1. set_szp(f, v) \in Flags
  BY SzpFlags
<1>2. set_szp(f, v).C = f.C /\ set_szp(f, v).S = Bit(v, 7) /\ set_szp(f, v).Z = Ind(v = 0)
  BY DEF set_szp, Flags, FlagNames
<1> QED BY <1>1, <1>2

LEMMA AddsAsManual8 ==
  ASSUME NEW f \in Flags, NEW l \in Byte, NEW r \in Byte, NEW c \in {0, 1}
  PROVE  /\ Agrees(add8_flags(f, l, r, c), ManualSum(f, l, r, c, 8), FlagNames)
         /\ Agrees(sub8_flags(f, l, r, c), ManualDifference(f, l, r, c, 8), FlagNames)
<1>1. l \in 0..255 /\ r \in 0..255
  BY ByteDef
<1>2. PICK s, d : s = (l + r + c) % 256 /\ d = (l - r - c) % 256
  OBVIOUS
<1>3. s \in Byte /\ d \in Byte
  BY <1>1, <1>2, Wraps
<1>4. PICK hs, hd, ps, pd :
        /\ hs = Ind((l % 16) + (r % 16) + c > 15) /\ hd = Ind(l % 16 < (r % 16) + c)
        /\ ps = Ind(Bit(l, 7) = Bit(r, 7) /\ Bit(l, 7) # Bit(s, 7)) /\ pd = Ind(Bit(l, 7) # Bit(r, 7) /\ Bit(l, 7) # Bit(d, 7))
  OBVIOUS
<1>5. /\ hs = CarryInto(l, r, s, 4) /\ hd = CarryInto(l, r, d, 4)
      /\ ps = Ind(Overflows(Signed(l, 8) + Signed(r, 8) + c, 8)) /\ pd = Ind(Overflows(Signed(l, 8) - Signed(r, 8) - c, 8))
  BY <1>2, <1>4, HalfCarry8, Overflow8
<1>6. Ind(Signed(s, 8) < 0) = Bit(s, 7) /\ Ind(Signed(d, 8) < 0) = Bit(d, 7)
  BY <1>3, SignedByte
<1>7. Ind(l + r + c > 255) = (l + r + c) \div 256 /\ Ind(l - r - c < 0) = Ind(l < r + c)
  BY <1>1 DEF Ind
<1>8. 2^8 = 256 /\ 8 - 4 = 4
  OBVIOUS
<1>9. add8_flags(f, l, r, c) = [result |-> s, flags |-> [set_szp(f, s) EXCEPT !.H = hs, !.PV = ps, !.N = 0, !.C = Ind(l + r + c > 255)]]
  BY <1>2, <1>4 DEF add8_flags
<1>10. sub8_flags(f, l, r, c) = [result |-> d, flags |-> [set_szp(f, d) EXCEPT !.H = hd, !.PV = pd, !.N = 1, !.C = Ind(l - r - c < 0)]]
  BY <1>2, <1>4 DEF sub8_flags
<1>11. ManualSum(f, l, r, c, 8) =
         [result |-> s, flags |-> [S |-> Bit(s, 7), Z |-> Ind(s = 0), N |-> 0, H |-> hs, PV |-> ps, C |-> Ind(l + r + c > 255)]]
  BY <1>2, <1>5, <1>6, <1>7, <1>8 DEF ManualSum
<1>12. ManualDifference(f, l, r, c, 8) =
         [result |-> d, flags |-> [S |-> Bit(d, 7), Z |-> Ind(d = 0), N |-> 1, H |-> hd, PV |-> pd, C |-> Ind(l - r - c < 0)]]
  BY <1>2, <1>5, <1>6, <1>7, <1>8 DEF ManualDifference
<1>13. PICK o, q : o = Ind(l + r + c > 255) /\ q = Ind(l - r - c < 0)
  OBVIOUS
<1>14. PICK u, w : u = set_szp(f, s) /\ w = set_szp(f, d)
  OBVIOUS
<1>15. u \in Flags /\ u.S = Bit(s, 7) /\ u.Z = Ind(s = 0)
  BY <1>3, <1>14, ByteDef, SzpFields
<1>16. w \in Flags /\ w.S = Bit(d, 7) /\ w.Z = Ind(d = 0)
  BY <1>3, <1>14, ByteDef, SzpFields
<1>17. Agrees(add8_flags(f, l, r, c), ManualSum(f, l, r, c, 8), FlagNames)
  <2>1. add8_flags(f, l, r, c) = [result |-> s, flags |-> [u EXCEPT !.H = hs, !.PV = ps, !.N = 0, !.C = o]]
    BY <1>9, <1>13, <1>14
  <2>2. ManualSum(f, l, r, c, 8) = [result |-> s, flags |-> [S |-> u.S, Z |-> u.Z, N |-> 0, H |-> hs, PV |-> ps, C |-> o]]
    BY <1>11, <1>13, <1>15
  <2>3. Agrees([result |-> s, flags |-> [u EXCEPT !.H = hs, !.PV = ps, !.N = 0, !.C = o]],
               [result |-> s, flags |-> [S |-> u.S, Z |-> u.Z, N |-> 0, H |-> hs, PV |-> ps, C |-> o]], FlagNames)
    BY Zenon, <1>15, SameFields
  <2> QED BY Zenon, <2>1, <2>2, <2>3
<1>18. Agrees(sub8_flags(f, l, r, c), ManualDifference(f, l, r, c, 8), FlagNames)
  <2>1. sub8_flags(f, l, r, c) = [result |-> d, flags |-> [w EXCEPT !.H = hd, !.PV = pd, !.N = 1, !.C = q]]
    BY <1>10, <1>13, <1>14
  <2>2. ManualDifference(f, l, r, c, 8) = [result |-> d, flags |-> [S |-> w.S, Z |-> w.Z, N |-> 1, H |-> hd, PV |-> pd, C |-> q]]
    BY <1>12, <1>13, <1>16
  <2>3. Agrees([result |-> d, flags |-> [w EXCEPT !.H = hd, !.PV = pd, !.N = 1, !.C = q]],
               [result |-> d, flags |-> [S |-> w.S, Z |-> w.Z, N |-> 1, H |-> hd, PV |-> pd, C |-> q]], FlagNames)
    BY Zenon, <1>16, SameFields
  <2> QED BY Zenon, <2>1, <2>2, <2>3
<1> QED BY <1>17, <1>18

LEMMA Overflow16 ==
  ASSUME NEW l \in Word, NEW r \in Word, NEW c \in {0, 1}
  PROVE  LET s == (l + r + c) % 65536
             d == (l - r - c) % 65536
         IN /\ Ind(Bit(l, 15) = Bit(r, 15) /\ Bit(l, 15) # Bit(s, 15)) = Ind(Overflows(Signed(l, 16) + Signed(r, 16) + c, 16))
            /\ Ind(Bit(l, 15) # Bit(r, 15) /\ Bit(l, 15) # Bit(d, 15)) = Ind(Overflows(Signed(l, 16) - Signed(r, 16) - c, 16))
<1>1. PICK s, d, x, y : s = (l + r + c) % 65536 /\ d = (l - r - c) % 65536 /\ x = Signed(l, 16) /\ y = Signed(r, 16)
  OBVIOUS
<1>2. l \in Int /\ 0 <= l /\ l <= 65535 /\ r \in Int /\ 0 <= r /\ r <= 65535
  BY WordDef
<1>3. s \in Word /\ d \in Word
  BY <1>1, <1>2, Wraps
<1>4. x = (IF l < 32768 THEN l ELSE l - 65536) /\ y = (IF r < 32768 THEN r ELSE r - 65536)
  BY <1>1, SignedWord
<1>5. /\ Bit(l, 15) = Ind(l >= 32768) /\ Bit(r, 15) = Ind(r >= 32768)
      /\ Bit(s, 15) = Ind(s >= 32768) /\ Bit(d, 15) = Ind(d >= 32768)
  BY <1>3, SignBit16
<1>6. x + y + c \in Int /\ x - y - c \in Int
  BY <1>2, <1>4
<1>7. (Overflows(x + y + c, 16) <=> x + y + c < -32768 \/ x + y + c >= 32768)
      /\ (Overflows(x - y - c, 16) <=> x - y - c < -32768 \/ x - y - c >= 32768)
  BY <1>6 DEF Overflows
<1>8. (Bit(l, 15) = Bit(r, 15) /\ Bit(l, 15) # Bit(s, 15)) <=> Overflows(x + y + c, 16)
  BY <1>1, <1>2, <1>4, <1>5, <1>7 DEF Ind
<1>9. (Bit(l, 15) # Bit(r, 15) /\ Bit(l, 15) # Bit(d, 15)) <=> Overflows(x - y - c, 16)
  BY <1>1, <1>2, <1>4, <1>5, <1>7 DEF Ind
<1> QED BY <1>1, <1>8, <1>9 DEF Ind

LEMMA WordSum ==
  ASSUME NEW f \in Flags, NEW l \in Word, NEW r \in Word, NEW c \in {0, 1},
         NEW s, s = (l + r + c) % 65536, NEW hs, hs = Ind((l % 4096) + (r % 4096) + c > 4095),
         NEW ps, ps = Ind(Bit(l, 15) = Bit(r, 15) /\ Bit(l, 15) # Bit(s, 15)),
         NEW o, o = Ind(l + r + c > 65535)
  PROVE  ManualSum(f, l, r, c, 16) =
           [result |-> s, flags |-> [S |-> Bit(s, 15), Z |-> Ind(s = 0), N |-> 0, H |-> hs, PV |-> ps, C |-> o]]
<1>1. l \in Int /\ 0 <= l /\ l <= 65535 /\ r \in Int /\ 0 <= r /\ r <= 65535
  BY WordDef
<1>2. s \in Word
  BY <1>1, Wraps
<1>3. hs = CarryInto(l, r, s, 12)
  BY HalfCarry16
<1>4. ps = Ind(Overflows(Signed(l, 16) + Signed(r, 16) + c, 16))
  BY Overflow16
<1>5. Ind(Signed(s, 16) < 0) = Bit(s, 15)
  BY <1>2, SignedWord
<1>6. o = (l + r + c) \div 65536
  BY <1>1 DEF Ind
<1>7. 2^16 = 65536 /\ 16 - 4 = 12
  OBVIOUS
<1> QED BY <1>3, <1>4, <1>5, <1>6, <1>7 DEF ManualSum

LEMMA WordDifference ==
  ASSUME NEW f \in Flags, NEW l \in Word, NEW r \in Word, NEW c \in {0, 1},
         NEW d, d = (l - r - c) % 65536, NEW hd, hd = Ind(l % 4096 < (r % 4096) + c),
         NEW pd, pd = Ind(Bit(l, 15) # Bit(r, 15) /\ Bit(l, 15) # Bit(d, 15)),
         NEW o, o = Ind(l - r - c < 0)
  PROVE  ManualDifference(f, l, r, c, 16) =
           [result |-> d, flags |-> [S |-> Bit(d, 15), Z |-> Ind(d = 0), N |-> 1, H |-> hd, PV |-> pd, C |-> o]]
<1>1. l \in Int /\ 0 <= l /\ l <= 65535 /\ r \in Int /\ 0 <= r /\ r <= 65535
  BY WordDef
<1>2. d \in Word
  BY <1>1, Wraps
<1>3. hd = CarryInto(l, r, d, 12)
  BY HalfCarry16
<1>4. pd = Ind(Overflows(Signed(l, 16) - Signed(r, 16) - c, 16))
  BY Overflow16
<1>5. Ind(Signed(d, 16) < 0) = Bit(d, 15)
  BY <1>2, SignedWord
<1>6. o = Ind(l < r + c)
  BY <1>1 DEF Ind
<1>7. 2^16 = 65536 /\ 16 - 4 = 12
  OBVIOUS
<1> QED BY <1>3, <1>4, <1>5, <1>6, <1>7 DEF ManualDifference

LEMMA WordsAsManual ==
  ASSUME NEW f \in Flags, NEW l \in Word, NEW r \in Word
  PROVE  /\ adc16(f, l, r) = ManualSum(f, l, r, f.C, 16)
         /\ sbc16(f, l, r) = ManualDifference(f, l, r, f.C, 16)
<1>1. PICK c \in {0, 1} : c = f.C
  BY Carry
<1>2. PICK s, hs, ps, o :
        /\ s = (l + r + c) % 65536 /\ hs = Ind((l % 4096) + (r % 4096) + c > 4095)
        /\ ps = Ind(Bit(l, 15) = Bit(r, 15) /\ Bit(l, 15) # Bit(s, 15)) /\ o = Ind(l + r + c > 65535)
  OBVIOUS
<1>3. ManualSum(f, l, r, c, 16) =
        [result |-> s, flags |-> [S |-> Bit(s, 15), Z |-> Ind(s = 0), N |-> 0, H |-> hs, PV |-> ps, C |-> o]]
  BY <1>2, WordSum
<1>4. adc16(f, l, r) =
        [result |-> s, flags |-> [S |-> Bit(s, 15), Z |-> Ind(s = 0), N |-> 0, H |-> hs, PV |-> ps, C |-> o]]
  BY <1>1, <1>2 DEF adc16
<1>5. PICK d, hd, pd, b :
        /\ d = (l - r - c) % 65536 /\ hd = Ind(l % 4096 < (r % 4096) + c)
        /\ pd = Ind(Bit(l, 15) # Bit(r, 15) /\ Bit(l, 15) # Bit(d, 15)) /\ b = Ind(l - r - c < 0)
  OBVIOUS
<1>6. ManualDifference(f, l, r, c, 16) =
        [result |-> d, flags |-> [S |-> Bit(d, 15), Z |-> Ind(d = 0), N |-> 1, H |-> hd, PV |-> pd, C |-> b]]
  BY <1>5, WordDifference
<1>7. sbc16(f, l, r) =
        [result |-> d, flags |-> [S |-> Bit(d, 15), Z |-> Ind(d = 0), N |-> 1, H |-> hd, PV |-> pd, C |-> b]]
  BY <1>1, <1>5 DEF sbc16
<1> QED BY <1>1, <1>3, <1>4, <1>6, <1>7

\* ADD HL keeps S, Z and PV and takes the rest from the sum.
LEMMA AddsAsManual16 ==
  ASSUME NEW f \in Flags, NEW l \in Word, NEW r \in Word
  PROVE  /\ Agrees(add16(f, l, r), ManualSum(f, l, r, 0, 16), {"H", "N", "C"})
         /\ \A n \in {"S", "Z", "PV"} : add16(f, l, r).flags[n] = f[n]
<1>1. PICK s, hs, ps, o :
        /\ s = (l + r + 0) % 65536 /\ hs = Ind((l % 4096) + (r % 4096) + 0 > 4095)
        /\ ps = Ind(Bit(l, 15) = Bit(r, 15) /\ Bit(l, 15) # Bit(s, 15)) /\ o = Ind(l + r + 0 > 65535)
  OBVIOUS
<1>2. ManualSum(f, l, r, 0, 16) =
        [result |-> s, flags |-> [S |-> Bit(s, 15), Z |-> Ind(s = 0), N |-> 0, H |-> hs, PV |-> ps, C |-> o]]
  BY <1>1, WordSum
<1>3. s = (l + r) % 65536 /\ hs = Ind((l % 4096) + (r % 4096) > 4095) /\ o = Ind(l + r > 65535)
  BY <1>1, WordDef
<1>4. add16(f, l, r) = [result |-> s, flags |-> [f EXCEPT !.H = hs, !.C = o, !.N = 0]]
  BY <1>3 DEF add16
<1>5. PICK x, y : /\ x = [f EXCEPT !.H = hs, !.C = o, !.N = 0]
                  /\ y = [S |-> Bit(s, 15), Z |-> Ind(s = 0), N |-> 0, H |-> hs, PV |-> ps, C |-> o]
  OBVIOUS
<1>6. /\ x["H"] = y["H"] /\ x["N"] = y["N"] /\ x["C"] = y["C"]
      /\ x["S"] = f["S"] /\ x["Z"] = f["Z"] /\ x["PV"] = f["PV"]
  BY <1>5 DEF Flags, FlagNames
<1>7. add16(f, l, r).result = s /\ add16(f, l, r).flags = x
  BY <1>4, <1>5
<1>8. ManualSum(f, l, r, 0, 16).result = s /\ ManualSum(f, l, r, 0, 16).flags = y
  BY <1>2, <1>5
<1> QED BY <1>6, <1>7, <1>8 DEF Agrees

LEMMA AllButCarry ==
  ASSUME NEW u \in Flags, NEW v, NEW h, NEW p, NEW n, NEW c,
         NEW x, x = [result |-> v, flags |-> [u EXCEPT !.H = h, !.PV = p, !.N = n]],
         NEW y, y = [result |-> v, flags |-> [u EXCEPT !.H = h, !.PV = p, !.N = n, !.C = c]]
  PROVE  Agrees(x, y, FlagNames \ {"C"})
<1>1. PICK a, b : a = [u EXCEPT !.H = h, !.PV = p, !.N = n] /\ b = [u EXCEPT !.H = h, !.PV = p, !.N = n, !.C = c]
  OBVIOUS
<1>2. /\ a["S"] = b["S"] /\ a["Z"] = b["Z"] /\ a["H"] = b["H"] /\ a["PV"] = b["PV"] /\ a["N"] = b["N"]
  BY <1>1 DEF Flags, FlagNames
<1>3. \A name \in FlagNames \ {"C"} : a[name] = b[name]
  BY <1>2 DEF FlagNames
<1>4. x.result = y.result /\ x.flags = a /\ y.flags = b
  BY <1>1
<1> QED BY Zenon, <1>3, <1>4 DEF Agrees

\* INC and DEC leave C alone and otherwise add and subtract one.
LEMMA CountsAsManual ==
  ASSUME NEW f \in Flags, NEW v \in Byte
  PROVE  /\ Agrees(inc8(f, v), ManualSum(f, v, 1, 0, 8), FlagNames \ {"C"}) /\ inc8(f, v).flags.C = f.C
         /\ Agrees(dec8(f, v), ManualDifference(f, v, 1, 0, 8), FlagNames \ {"C"}) /\ dec8(f, v).flags.C = f.C
<1>1. v \in 0..255 /\ 1 \in Byte
  BY ByteDef
<1>2. PICK s, d : s = (v + 1) % 256 /\ d = (v - 1) % 256
  OBVIOUS
<1>3. s \in Byte /\ d \in Byte /\ s \in Int /\ d \in Int
  BY <1>1, <1>2, Wraps, ByteDef
<1>4. PICK u, w : u = set_szp(f, s) /\ w = set_szp(f, d)
  OBVIOUS
<1>5. u \in Flags /\ w \in Flags /\ u.C = f.C /\ w.C = f.C
  BY <1>3, <1>4, SzpFields
<1>6. PICK h, p, g, q : /\ h = Ind(v % 16 = 15) /\ p = Ind(v = 127)
                        /\ g = Ind(v % 16 = 0) /\ q = Ind(v = 128)
  OBVIOUS
<1>7. inc8(f, v) = [result |-> s, flags |-> [u EXCEPT !.H = h, !.PV = p, !.N = 0]]
  BY <1>2, <1>4, <1>6 DEF inc8
<1>8. dec8(f, v) = [result |-> d, flags |-> [w EXCEPT !.H = g, !.PV = q, !.N = 1]]
  BY <1>2, <1>4, <1>6 DEF dec8
<1>9. PICK k, b : k = Ind(v + 1 + 0 > 255) /\ b = Ind(v - 1 - 0 < 0)
  OBVIOUS
<1>10. (v % 16) + (1 % 16) + 0 > 15 <=> v % 16 = 15
  BY <1>1
<1>11. v % 16 < (1 % 16) + 0 <=> v % 16 = 0
  BY <1>1
<1>12. h = Ind((v % 16) + (1 % 16) + 0 > 15) /\ g = Ind(v % 16 < (1 % 16) + 0)
  BY <1>6, <1>10, <1>11 DEF Ind
<1>13. Bit(1, 7) = 0 /\ Bit(v, 7) = Ind(v >= 128) /\ Bit(s, 7) = Ind(s >= 128) /\ Bit(d, 7) = Ind(d >= 128)
  BY <1>1, <1>3, SignBit8 DEF Ind
<1>14. (Bit(v, 7) = Bit(1, 7) /\ Bit(v, 7) # Bit(s, 7)) <=> v = 127
  BY <1>1, <1>2, <1>13 DEF Ind
<1>15. (Bit(v, 7) # Bit(1, 7) /\ Bit(v, 7) # Bit(d, 7)) <=> v = 128
  BY <1>1, <1>2, <1>13 DEF Ind
<1>16. p = Ind(Bit(v, 7) = Bit(1, 7) /\ Bit(v, 7) # Bit(s, 7)) /\ q = Ind(Bit(v, 7) # Bit(1, 7) /\ Bit(v, 7) # Bit(d, 7))
  BY <1>6, <1>14, <1>15 DEF Ind
<1>17. s = (v + 1 + 0) % 256 /\ d = (v - 1 - 0) % 256
  BY <1>1, <1>2
<1>18. add8_flags(f, v, 1, 0) = [result |-> s, flags |-> [u EXCEPT !.H = h, !.PV = p, !.N = 0, !.C = k]]
  BY <1>4, <1>9, <1>12, <1>16, <1>17 DEF add8_flags
<1>19. sub8_flags(f, v, 1, 0) = [result |-> d, flags |-> [w EXCEPT !.H = g, !.PV = q, !.N = 1, !.C = b]]
  BY <1>4, <1>9, <1>12, <1>16, <1>17 DEF sub8_flags
<1>20. /\ Agrees(add8_flags(f, v, 1, 0), ManualSum(f, v, 1, 0, 8), FlagNames)
       /\ Agrees(sub8_flags(f, v, 1, 0), ManualDifference(f, v, 1, 0, 8), FlagNames)
  BY <1>1, AddsAsManual8
<1>21. Agrees(inc8(f, v), add8_flags(f, v, 1, 0), FlagNames \ {"C"}) /\ inc8(f, v).flags.C = f.C
  <2>1. PICK n : n = 0
    OBVIOUS
  <2>2. PICK x : x = [result |-> s, flags |-> [u EXCEPT !.H = h, !.PV = p, !.N = n]]
    OBVIOUS
  <2>3. PICK y : y = [result |-> s, flags |-> [u EXCEPT !.H = h, !.PV = p, !.N = n, !.C = k]]
    OBVIOUS
  <2>4. Agrees(x, y, FlagNames \ {"C"})
    BY Zenon, <1>5, <2>2, <2>3, AllButCarry
  <2>5. x = inc8(f, v) /\ y = add8_flags(f, v, 1, 0)
    BY Zenon, <1>7, <1>18, <2>1, <2>2, <2>3
  <2>6. inc8(f, v).flags.C = f.C
    <3>1. PICK a : a = [u EXCEPT !.H = h, !.PV = p, !.N = 0]
      OBVIOUS
    <3>2. inc8(f, v).flags = a
      BY <1>7, <3>1
    <3>3. a.C = u.C
      BY <1>5, <3>1 DEF Flags, FlagNames
    <3> QED BY <1>5, <3>2, <3>3
  <2> QED BY Zenon, <2>4, <2>5, <2>6
<1>22. Agrees(dec8(f, v), sub8_flags(f, v, 1, 0), FlagNames \ {"C"}) /\ dec8(f, v).flags.C = f.C
  <2>1. PICK n : n = 1
    OBVIOUS
  <2>2. PICK x : x = [result |-> d, flags |-> [w EXCEPT !.H = g, !.PV = q, !.N = n]]
    OBVIOUS
  <2>3. PICK y : y = [result |-> d, flags |-> [w EXCEPT !.H = g, !.PV = q, !.N = n, !.C = b]]
    OBVIOUS
  <2>4. Agrees(x, y, FlagNames \ {"C"})
    BY Zenon, <1>5, <2>2, <2>3, AllButCarry
  <2>5. x = dec8(f, v) /\ y = sub8_flags(f, v, 1, 0)
    BY Zenon, <1>8, <1>19, <2>1, <2>2, <2>3
  <2>6. dec8(f, v).flags.C = f.C
    <3>1. PICK a : a = [w EXCEPT !.H = g, !.PV = q, !.N = 1]
      OBVIOUS
    <3>2. dec8(f, v).flags = a
      BY <1>8, <3>1
    <3>3. a.C = w.C
      BY <1>5, <3>1 DEF Flags, FlagNames
    <3> QED BY <1>5, <3>2, <3>3
  <2> QED BY Zenon, <2>4, <2>5, <2>6
<1> QED BY Zenon, <1>20, <1>21, <1>22 DEF Agrees

\* The additions and subtractions of the arithmetic do what the manual says of
\* them: the result, and each flag the instruction changes - the sign of the
\* result read as a two's complement number, the carry out of the low half and
\* out of the top bit, and the overflow of the signed sum - while the flags it
\* keeps are kept (INC and DEC: C; ADD HL: S, Z and PV).
THEOREM ManualArithmetic ==
  \A f \in Flags :
    /\ \A l, r \in Byte, c \in {0, 1} :
         /\ Agrees(add8_flags(f, l, r, c), ManualSum(f, l, r, c, 8), FlagNames)
         /\ Agrees(sub8_flags(f, l, r, c), ManualDifference(f, l, r, c, 8), FlagNames)
    /\ \A v \in Byte :
         /\ Agrees(inc8(f, v), ManualSum(f, v, 1, 0, 8), FlagNames \ {"C"}) /\ inc8(f, v).flags.C = f.C
         /\ Agrees(dec8(f, v), ManualDifference(f, v, 1, 0, 8), FlagNames \ {"C"}) /\ dec8(f, v).flags.C = f.C
    /\ \A l, r \in Word :
         /\ Agrees(add16(f, l, r), ManualSum(f, l, r, 0, 16), {"H", "N", "C"})
         /\ \A n \in {"S", "Z", "PV"} : add16(f, l, r).flags[n] = f[n]
         /\ adc16(f, l, r) = ManualSum(f, l, r, f.C, 16)
         /\ sbc16(f, l, r) = ManualDifference(f, l, r, f.C, 16)
<1> SUFFICES ASSUME NEW f \in Flags
             PROVE  /\ \A l, r \in Byte, c \in {0, 1} :
                         /\ Agrees(add8_flags(f, l, r, c), ManualSum(f, l, r, c, 8), FlagNames)
                         /\ Agrees(sub8_flags(f, l, r, c), ManualDifference(f, l, r, c, 8), FlagNames)
                    /\ \A v \in Byte :
                         /\ Agrees(inc8(f, v), ManualSum(f, v, 1, 0, 8), FlagNames \ {"C"})
                         /\ inc8(f, v).flags.C = f.C
                         /\ Agrees(dec8(f, v), ManualDifference(f, v, 1, 0, 8), FlagNames \ {"C"})
                         /\ dec8(f, v).flags.C = f.C
                    /\ \A l, r \in Word :
                         /\ Agrees(add16(f, l, r), ManualSum(f, l, r, 0, 16), {"H", "N", "C"})
                         /\ \A n \in {"S", "Z", "PV"} : add16(f, l, r).flags[n] = f[n]
                         /\ adc16(f, l, r) = ManualSum(f, l, r, f.C, 16)
                         /\ sbc16(f, l, r) = ManualDifference(f, l, r, f.C, 16)
  BY Zenon
<1>1. ASSUME NEW l \in Byte, NEW r \in Byte, NEW c \in {0, 1}
      PROVE  /\ Agrees(add8_flags(f, l, r, c), ManualSum(f, l, r, c, 8), FlagNames)
             /\ Agrees(sub8_flags(f, l, r, c), ManualDifference(f, l, r, c, 8), FlagNames)
  BY Zenon, AddsAsManual8
<1>2. ASSUME NEW v \in Byte
      PROVE  /\ Agrees(inc8(f, v), ManualSum(f, v, 1, 0, 8), FlagNames \ {"C"}) /\ inc8(f, v).flags.C = f.C
             /\ Agrees(dec8(f, v), ManualDifference(f, v, 1, 0, 8), FlagNames \ {"C"}) /\ dec8(f, v).flags.C = f.C
  BY Zenon, CountsAsManual
<1>3. ASSUME NEW l \in Word, NEW r \in Word
      PROVE  /\ Agrees(add16(f, l, r), ManualSum(f, l, r, 0, 16), {"H", "N", "C"})
             /\ \A n \in {"S", "Z", "PV"} : add16(f, l, r).flags[n] = f[n]
             /\ adc16(f, l, r) = ManualSum(f, l, r, f.C, 16) /\ sbc16(f, l, r) = ManualDifference(f, l, r, f.C, 16)
  BY Zenon, AddsAsManual16, WordsAsManual
<1> QED BY Zenon, <1>1, <1>2, <1>3

=============================================================================
