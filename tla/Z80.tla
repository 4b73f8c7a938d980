--------------------------------- MODULE Z80 ----------------------------------
(***************************************************************************)
(* The processor that tools/z80sim stands for: registers are bytes, the    *)
(* stack holds words, and a code address is a word like any other.  Line i *)
(* of the program lies at address i.  The interpreter keeps code addresses *)
(* as markers beside the registers instead; Z80Sim shows that the two      *)
(* agree.                                                                  *)
(***************************************************************************)
EXTENDS Z80Arith, Sequences

CONSTANTS Pool,        \* the instructions a program is made of
          LineCount,   \* lines of the program
          Trap,        \* the caller of the routine under test: no address of the machine
          MaxBlock,    \* bound: the longest block a program copies
          Kept,        \* memory that survives being put away
          Effects      \* what scripted routines may do: [A |-> byte, HL |-> word]

VARIABLES prog,    \* the lines fetched so far
          z        \* the processor

(***************************************************************************)
(* One instruction.  `i` is the instruction, `next` the address after it.  *)
(***************************************************************************)
Pc(c, next) == [c EXCEPT !.pc = next]
SetPair(c, p, v, next) == Pc([c EXCEPT !.regs = WithPair(c.regs, p, v)], next)
Push(c, v) == [c EXCEPT !.stack = Append(c.stack, v), !.regs = [c.regs EXCEPT !.SP = (c.regs.SP - 2) % 65536]]
Popped(c) == [c EXCEPT !.stack = SubSeq(c.stack, 1, Len(c.stack) - 1),
                       !.regs = [c.regs EXCEPT !.SP = (c.regs.SP + 2) % 65536]]
Top(c) == c.stack[Len(c.stack)]

Load(c, i, next) ==
  CASE i.mn = "ld16n" -> SetPair(c, i.x, i.n, next)
    [] i.mn = "ld16l" -> SetPair(c, i.x, i.n, next)
    [] i.mn = "ld16m" -> SetPair(c, i.x, ReadWord(c.mem, i.n), next)
    [] i.mn = "st16"  -> Pc([c EXCEPT !.mem = WriteWord(@, i.n, PairOf(c.regs, i.x))], next)
    [] i.mn = "ld8n"  -> Pc([c EXCEPT !.regs[i.x] = i.n], next)
    [] i.mn = "ld8r"  -> Pc([c EXCEPT !.regs[i.x] = c.regs[i.y]], next)
    [] i.mn = "ld8m"  -> Pc([c EXCEPT !.regs[i.x] = ReadByte(c.mem, PairOf(c.regs, i.y))], next)
    [] i.mn = "st8"   -> Pc([c EXCEPT !.mem = WriteByte(@, PairOf(c.regs, i.x), c.regs[i.y])], next)

StackOp(c, i, next) ==
  CASE i.mn = "push"   -> Pc(Push(c, PairOf(c.regs, i.x)), next)
    [] i.mn = "pushaf" -> Pc(Push(c, 256 * c.regs.A + flags_byte(c.flags)), next)
    [] i.mn = "pop"    -> SetPair(Popped(c), i.x, Top(c), next)
    [] i.mn = "popaf"  -> Pc([Popped(c) EXCEPT !.regs.A = Top(c) \div 256,
                                              !.flags = set_flags_byte(Top(c) % 256)], next)

Count(c, i, next) ==
  CASE i.mn = "inc16" -> SetPair(c, i.x, (PairOf(c.regs, i.x) + 1) % 65536, next)
    [] i.mn = "dec16" -> SetPair(c, i.x, (PairOf(c.regs, i.x) - 1) % 65536, next)
    [] i.mn = "inc8"  -> LET r == inc8(c.flags, c.regs[i.x])
                         IN Pc([c EXCEPT !.regs[i.x] = r.result, !.flags = r.flags], next)
    [] i.mn = "dec8"  -> LET r == dec8(c.flags, c.regs[i.x])
                         IN Pc([c EXCEPT !.regs[i.x] = r.result, !.flags = r.flags], next)

Arithmetic(c, i, next) ==
  IF i.mn \in {"add16", "adc16", "sbc16"}
  THEN LET r == Sum16(c.flags, i.mn, PairOf(c.regs, "HL"), PairOf(c.regs, i.x))
       IN [SetPair(c, "HL", r.result, next) EXCEPT !.flags = r.flags]
  ELSE LET r == Alu8(c.flags, i.mn, c.regs.A, c.regs[i.x])
       IN Pc([c EXCEPT !.regs.A = r.result, !.flags = r.flags], next)

BitOp(c, i, next) ==
  CASE i.mn = "bit" -> Pc([c EXCEPT !.flags = bit8(@, i.n, c.regs[i.x])], next)
    [] i.mn \in {"set", "res"} -> Pc([c EXCEPT !.regs[i.x] = set_res(i.mn, i.n, @)], next)
    [] i.mn \in {"sla", "srl", "rl", "rr"} ->
         LET r == shift8(c.flags, i.mn, c.regs[i.x])
         IN Pc([c EXCEPT !.regs[i.x] = r.result, !.flags = r.flags], next)

Exchange(c, i, next) ==
  CASE i.mn = "exdehl" -> LET d == PairOf(c.regs, "DE") IN
                          SetPair(SetPair(c, "DE", PairOf(c.regs, "HL"), next), "HL", d, next)
    [] i.mn = "exaf"   -> Pc([c EXCEPT !.regs.A = c.alt_a, !.alt_a = c.regs.A,
                                       !.flags = c.alt_flags, !.alt_flags = c.flags], next)
    [] i.mn = "exx"    -> Pc([c EXCEPT !.alt = [p \in Pairs |-> PairOf(c.regs, p)],
                                       !.regs = WithPair(WithPair(WithPair(@, "BC", c.alt.BC),
                                                                  "DE", c.alt.DE), "HL", c.alt.HL)], next)

BlockLength(c) == IF PairOf(c.regs, "BC") = 0 THEN 65536 ELSE PairOf(c.regs, "BC")

Block(c, i, next) ==
  LET d     == IF i.mn = "ldir" THEN 1 ELSE -1
      count == BlockLength(c)
      moved(p) == (PairOf(c.regs, p) + d * count) % 65536
  IN Pc([c EXCEPT !.mem = BlockMove(c.mem, PairOf(c.regs, "HL"), PairOf(c.regs, "DE"), count, d),
                  !.regs = WithPair(WithPair(WithPair(c.regs, "HL", moved("HL")), "DE", moved("DE")), "BC", 0),
                  !.flags = [c.flags EXCEPT !.H = 0, !.N = 0, !.PV = 0]], next)

Jump(c, i, next) ==
  CASE i.mn = "jphl" -> Pc(c, PairOf(c.regs, "HL"))
    [] i.mn = "jp"   -> Pc(c, i.n)
    [] i.mn \in {"jpc", "jr"} -> Pc(c, IF check_cond(c.flags, i.x) THEN i.n ELSE next)
    [] i.mn = "djnz" -> LET b == (c.regs.B - 1) % 256
                        IN Pc([c EXCEPT !.regs.B = b], IF b # 0 THEN i.n ELSE next)
    [] i.mn = "call" -> Pc(Push(c, next), i.n)
    [] i.mn = "ret"  -> Pc(Popped(c), Top(c))
    [] i.mn = "retc" -> IF check_cond(c.flags, i.x) THEN Pc(Popped(c), Top(c)) ELSE Pc(c, next)

After(c, i) ==
  LET next == c.pc + 1 IN
  CASE i.mn \in LoadOps  -> Load(c, i, next)
    [] i.mn \in StackOps -> StackOp(c, i, next)
    [] i.mn \in CountOps -> Count(c, i, next)
    [] i.mn \in SumOps   -> Arithmetic(c, i, next)
    [] i.mn \in BitOps   -> BitOp(c, i, next)
    [] i.mn \in SwapOps  -> Exchange(c, i, next)
    [] i.mn \in BlockOps -> Block(c, i, next)
    [] i.mn \in JumpOps  -> Jump(c, i, next)
    [] i.mn = "out"      -> Pc([c EXCEPT !.io_writes = Append(@, <<i.n, c.regs.A>>)], next)

(* A scripted routine ran in place of its code: A and HL hold its answer. *)
Answered(c, e) == SetPair([c EXCEPT !.regs.A = e.A], "HL", e.HL, c.pc + 1)

(***************************************************************************)
(* Behaviour: a routine is called, executes line by line, and ends at its  *)
(* return to the trap.  A tool may give up at any time, and may put the    *)
(* machine away and take it out again while nothing runs.                  *)
(***************************************************************************)
Fetch(i) ==
  /\ z.pc \in 0..(LineCount - 1)
  /\ i = IF z.pc \in DOMAIN prog THEN prog[z.pc] ELSE i
  /\ prog' = [k \in DOMAIN prog \cup {z.pc} |-> IF k = z.pc THEN i ELSE prog[k]]

Execute == \E i \in Pool :
  /\ z.running
  /\ Fetch(i)
  /\ i.mn \in PopOps \/ (i.mn = "retc" /\ check_cond(z.flags, i.x)) => z.stack # <<>>
  /\ i.mn \in BlockOps => BlockLength(z) <= MaxBlock
  /\ IF i.mn = "callout"
     THEN \E e \in Effects : z' = Answered(z, e)
     ELSE LET c == After(z, i) IN z' = [c EXCEPT !.running = c.pc # Trap]

(* A caller that is no code calls a line of the routine, or the machine   *)
(* was put away and taken out again.                                       *)
Started(c, entry) == [c EXCEPT !.pc = entry, !.running = TRUE]
PutAway(c) == [c EXCEPT !.mem = [a \in DOMAIN c.mem \cap Kept |-> c.mem[a]]]

CallRoutine(entry) ==
  /\ ~z.running
  /\ z' = Started(Push(z, Trap), entry) \/ z' = Started(PutAway(z), entry)
  /\ UNCHANGED prog

GiveUp ==
  /\ z.running
  /\ z' = [z EXCEPT !.running = FALSE]
  /\ UNCHANGED prog \/ \E i \in Pool : Fetch(i)

Next == Execute \/ GiveUp \/ \E entry \in 0..(LineCount - 1) : CallRoutine(entry)

===============================================================================
