------------------------------- MODULE Z80Sim ---------------------------------
(***************************************************************************)
(* tools/z80sim: the source-level Z80 interpreter (sim.py), its snapshots  *)
(* (snapshot.py), a replay (replay_snapshot.py) and the capture of a       *)
(* debugger's state (sim_from_debugger.py).                                *)
(*                                                                         *)
(* The interpreter runs source lines, so code has no addresses.  A code    *)
(* address in a register pair or on the stack is a marker ("RETIDX", line) *)
(* kept beside the registers, in tuple_regs16, or in the logical stack.    *)
(* A marker used as a number makes the interpreter raise.                  *)
(*                                                                         *)
(* The program is any list of instructions of Pool: `prog` is the part of  *)
(* it that has been fetched.                                               *)
(***************************************************************************)
EXTENDS Z80Arith, Sequences

CONSTANTS Pool,        \* instructions
          LineCount,   \* lines of the program
          Entries,     \* the lines where a run may start
          MaxSteps,    \* max_steps of one run
          MaxRuns,     \* bound: runs
          MaxBlock,    \* bound: the longest block a program copies
          Seeds,       \* the machines a driver or a snapshot starts from
          Scripts,     \* set_script: a sequence of [A |-> byte, HL |-> word]
          Ranges,      \* the memory a snapshot takes: a set of addresses
          Trap         \* what a HALT marker stands for in the refinement

VARIABLES prog,         \* Program.lines, as far as it was fetched
          sim,          \* the Z80Sim object
          idx,          \* the line about to run
          step_count,   \* Interp.step_count
          script_pos,   \* Interp.script_pos of the scripted routine
          outcome,      \* "running", or how the last run ended
          runs,         \* how many runs were started
          mixed         \* history: a half of a marked pair was read or written alone

vars == <<prog, sim, idx, step_count, script_pos, outcome, runs, mixed>>

-----------------------------------------------------------------------------
(***************************************************************************)
(* Values: numbers and markers, in the form snapshot.py writes them.       *)
(***************************************************************************)
Num(v)    == [kind |-> "int", value |-> v]
RETIDX(i) == [kind |-> "RETIDX", value |-> i]
HALT      == [kind |-> "HALT", value |-> Trap]
IsMarker(v) == v.kind # "int"
Numbers == [kind : {"int"}, value : Word]
Markers == {RETIDX(i) : i \in 0..LineCount} \cup {HALT}

(* A Z80Sim object: bytes and words in range, markers beside pairs only,   *)
(* and RAM cells in memory only.                                           *)
IsOverlay(markers) == DOMAIN markers \subseteq Pairs /\ \A p \in DOMAIN markers : markers[p] \in Markers
IsMachine(s) ==
  /\ s = [regs |-> s.regs, flags |-> s.flags, alt_a |-> s.alt_a, alt_flags |-> s.alt_flags, alt_regs |-> s.alt_regs,
          tuple_regs16 |-> s.tuple_regs16, alt_tuple_regs16 |-> s.alt_tuple_regs16, stack_list |-> s.stack_list,
          mem |-> s.mem, io_writes |-> s.io_writes]
  /\ s.regs \in [Reg8 \cup {"SP"} -> Word] /\ \A r \in Reg8 : s.regs[r] \in Byte
  /\ s.flags \in Flags /\ s.alt_a \in Byte /\ s.alt_flags \in Flags /\ s.alt_regs \in [Reg8 \ {"A"} -> Byte]
  /\ IsOverlay(s.tuple_regs16) /\ IsOverlay(s.alt_tuple_regs16)
  /\ s.stack_list \in Seq(Numbers \cup Markers)
  /\ \A a \in DOMAIN s.mem : a \in Word /\ a >= RamStart /\ s.mem[a] \in Byte

(* The HALT marker is a tuple in the code: no number is equal to it.       *)
ASSUME SimAssumption ==
  /\ LineCount \in Word \ {0} /\ Entries \subseteq 0..(LineCount - 1) /\ MaxSteps \in Nat /\ MaxRuns \in Nat
  /\ MaxBlock \in Word /\ Trap \in Nat \ Word
  /\ \A i \in Pool : WellFormed(i, LineCount)
  /\ Scripts \in Seq([A : Byte, HL : Word]) /\ Scripts # <<>>
  /\ \A s \in Seeds : IsMachine(s)

Without(f, p) == [q \in DOMAIN f \ {p} |-> f[q]]
With(f, p, v) == [q \in DOMAIN f \cup {p} |-> IF q = p THEN v ELSE f[q]]

get_reg16(s, p) ==
  IF p \in DOMAIN s.tuple_regs16 THEN s.tuple_regs16[p] ELSE Num(PairOf(s.regs, p))

\* (Mutant of set_reg16: a number leaves the marker beside the pair.)
set_reg16Keeping(s, p, v) ==
  IF IsMarker(v) THEN [s EXCEPT !.tuple_regs16 = With(@, p, v)]
  ELSE [s EXCEPT !.regs = WithPair(@, p, v.value)]

set_reg16(s, p, v) ==
  IF IsMarker(v) THEN [s EXCEPT !.tuple_regs16 = With(@, p, v)]
  ELSE [s EXCEPT !.tuple_regs16 = Without(@, p), !.regs = WithPair(@, p, v.value)]

push(s, v) == [s EXCEPT !.regs.SP = (@ - 2) % 65536, !.stack_list = Append(@, v)]
pop(s) == [s EXCEPT !.regs.SP = (@ + 2) % 65536, !.stack_list = SubSeq(@, 1, Len(@) - 1)]
Top(s) == s.stack_list[Len(s.stack_list)]

NoMarkers == [p \in {} |-> HALT]

-----------------------------------------------------------------------------
(***************************************************************************)
(* Reading a line, and the ways a line can fail.                           *)
(***************************************************************************)
Fetch(i) ==
  /\ outcome = "running"
  /\ step_count < MaxSteps
  /\ idx < LineCount
  /\ i = IF idx \in DOMAIN prog THEN prog[idx] ELSE i
  /\ prog' = With(prog, idx, i)

PairsUsedAsNumbers(i) ==
  CASE i.mn \in {"st16", "inc16", "dec16"} -> {i.x}
    [] i.mn = "ld8m" -> {i.y}
    [] i.mn = "st8" -> {i.x}
    [] i.mn \in {"add16", "adc16", "sbc16"} -> {i.x, "HL"}
    [] i.mn \in {"ldir", "lddr"} -> Pairs
    [] OTHER -> {}

Pops(i) == i.mn \in PopOps \/ (i.mn = "retc" /\ check_cond(sim.flags, i.x))

(* The operand is a number where a marker is needed, or the other way.     *)
Raises(i) ==
  \/ PairsUsedAsNumbers(i) \cap DOMAIN sim.tuple_regs16 # {}
  \/ i.mn = "popaf" /\ sim.stack_list # <<>> /\ IsMarker(Top(sim))
  \/ i.mn = "jphl" /\ get_reg16(sim, "HL").kind = "HALT"
  \/ Pops(i) /\ i.mn \in {"ret", "retc"} /\ sim.stack_list # <<>> /\ ~IsMarker(Top(sim))
  \/ i.mn = "jr" /\ i.x \notin {"z", "nz", "c", "nc"}

Marked(markers) == {High[p] : p \in DOMAIN markers} \cup {Low[p] : p \in DOMAIN markers}
HalvesUsed(i) ==
  CASE i.mn = "ld8n" -> {i.x}
    [] i.mn = "ld8r" -> {i.x, i.y}
    [] i.mn = "ld8m" -> {i.x}
    [] i.mn = "st8" -> {i.y}
    [] i.mn \in CountOps \ {"inc16", "dec16"} -> {i.x}
    [] i.mn \in SumOps \ {"add16", "adc16", "sbc16"} -> {i.x}
    [] i.mn \in BitOps -> {i.x}
    [] i.mn = "djnz" -> {"B"}
    [] OTHER -> {}

(***************************************************************************)
(* The frame of every instruction that runs: the new machine and the line  *)
(* to go on with.                                                          *)
(***************************************************************************)
\* (Mutant of Becomes: only steps forward are counted.)
BecomesForward(s, next) ==
  /\ sim' = s
  /\ idx' = next
  /\ step_count' = IF next > idx THEN step_count + 1 ELSE step_count
  /\ UNCHANGED <<outcome, runs, script_pos>>

Becomes(s, next) ==
  /\ sim' = s
  /\ idx' = next
  /\ step_count' = step_count + 1
  /\ UNCHANGED <<outcome, runs, script_pos>>

Runs(i, ops) ==
  /\ i.mn \in ops
  /\ ~Raises(i)
  /\ Fetch(i)
  /\ mixed' = (mixed \/ HalvesUsed(i) \cap Marked(sim.tuple_regs16) # {})

-----------------------------------------------------------------------------
(***************************************************************************)
(* exec_instr, one action per branch, each with its effect on the machine. *)
(***************************************************************************)
Loaded(s, i) ==
  LET address(p) == get_reg16(s, p).value IN
  CASE i.mn = "ld16n" -> set_reg16(s, i.x, Num(i.n))
    [] i.mn = "ld16l" -> set_reg16(s, i.x, RETIDX(i.n))
    [] i.mn = "ld16m" -> set_reg16(s, i.x, Num(ReadWord(s.mem, i.n)))
    [] i.mn = "st16"  -> [s EXCEPT !.mem = WriteWord(@, i.n, address(i.x))]
    [] i.mn = "ld8n"  -> [s EXCEPT !.regs[i.x] = i.n]
    [] i.mn = "ld8r"  -> [s EXCEPT !.regs[i.x] = s.regs[i.y]]
    [] i.mn = "ld8m"  -> [s EXCEPT !.regs[i.x] = ReadByte(s.mem, address(i.y))]
    [] i.mn = "st8"   -> [s EXCEPT !.mem = WriteByte(@, address(i.x), s.regs[i.y])]
Ld == \E i \in Pool : Runs(i, LoadOps) /\ Becomes(Loaded(sim, i), idx + 1)

Stacked(s, i) ==
  CASE i.mn = "push"   -> push(s, get_reg16(s, i.x))
    [] i.mn = "pushaf" -> push(s, Num(256 * s.regs.A + flags_byte(s.flags)))
    [] i.mn = "pop"    -> set_reg16(pop(s), i.x, Top(s))
    [] i.mn = "popaf"  -> [pop(s) EXCEPT !.regs.A = Top(s).value \div 256,
                                         !.flags = set_flags_byte(Top(s).value % 256)]
PushPop == \E i \in Pool :
  /\ Runs(i, StackOps)
  /\ Pops(i) => sim.stack_list # <<>>
  /\ Becomes(Stacked(sim, i), idx + 1)

Counted(s, i) ==
  LET step == IF i.mn = "inc16" THEN 1 ELSE -1
      r    == IF i.mn = "inc8" THEN inc8(s.flags, s.regs[i.x]) ELSE dec8(s.flags, s.regs[i.x])
  IN IF i.mn \in {"inc16", "dec16"}
     THEN set_reg16(s, i.x, Num((get_reg16(s, i.x).value + step) % 65536))
     ELSE [s EXCEPT !.regs[i.x] = r.result, !.flags = r.flags]
IncDec == \E i \in Pool : Runs(i, CountOps) /\ Becomes(Counted(sim, i), idx + 1)

Summed(s, i) ==
  IF i.mn \in {"add16", "adc16", "sbc16"}
  THEN LET r == Sum16(s.flags, i.mn, get_reg16(s, "HL").value, get_reg16(s, i.x).value)
       IN [set_reg16(s, "HL", Num(r.result)) EXCEPT !.flags = r.flags]
  ELSE LET r == Alu8(s.flags, i.mn, s.regs.A, s.regs[i.x])
       IN [s EXCEPT !.regs.A = r.result, !.flags = r.flags]
Arithmetic == \E i \in Pool : Runs(i, SumOps) /\ Becomes(Summed(sim, i), idx + 1)

Shifted(s, i) ==
  LET r == shift8(s.flags, i.mn, s.regs[i.x]) IN
  CASE i.mn = "bit" -> [s EXCEPT !.flags = bit8(@, i.n, s.regs[i.x])]
    [] i.mn \in {"set", "res"} -> [s EXCEPT !.regs[i.x] = set_res(i.mn, i.n, @)]
    [] OTHER -> [s EXCEPT !.regs[i.x] = r.result, !.flags = r.flags]
BitsAndShifts == \E i \in Pool : Runs(i, BitOps) /\ Becomes(Shifted(sim, i), idx + 1)

(* EXX swaps the bytes and, apart from them, the markers. *)
Exchanged(s, i) ==
  CASE i.mn = "exdehl" -> set_reg16(set_reg16(s, "DE", get_reg16(s, "HL")), "HL", get_reg16(s, "DE"))
    [] i.mn = "exaf" ->
         [s EXCEPT !.regs.A = s.alt_a, !.alt_a = s.regs.A, !.flags = s.alt_flags, !.alt_flags = s.flags]
    [] i.mn = "exx" ->
         [s EXCEPT !.regs = [r \in DOMAIN s.regs |-> IF r \in DOMAIN s.alt_regs THEN s.alt_regs[r] ELSE s.regs[r]],
                   !.alt_regs = [r \in DOMAIN s.alt_regs |-> s.regs[r]],
                   !.tuple_regs16 = s.alt_tuple_regs16, !.alt_tuple_regs16 = s.tuple_regs16]
Ex == \E i \in Pool : Runs(i, SwapOps) /\ Becomes(Exchanged(sim, i), idx + 1)

BlockCount(s) == LET bc == get_reg16(s, "BC").value IN IF bc = 0 THEN 65536 ELSE bc
Copied(s, i) ==
  LET value(p) == get_reg16(s, p).value
      d        == IF i.mn = "ldir" THEN 1 ELSE -1
      moved(p) == Num((value(p) + d * BlockCount(s)) % 65536)
      copied   == [s EXCEPT !.mem = BlockMove(@, value("HL"), value("DE"), BlockCount(s), d),
                            !.flags = [@ EXCEPT !.H = 0, !.N = 0, !.PV = 0]]
  IN set_reg16(set_reg16(set_reg16(copied, "HL", moved("HL")), "DE", moved("DE")), "BC", Num(0))
LdirLddr == \E i \in Pool :
  /\ Runs(i, BlockOps)
  /\ BlockCount(sim) <= MaxBlock
  /\ Becomes(Copied(sim, i), idx + 1)

(* JP (HL) takes a plain number as a line: hooks keep line numbers in memory. *)
JumpTo == \E i \in Pool :
  /\ Runs(i, {"jphl", "jp", "jpc", "jr", "djnz"})
  /\ LET b == (sim.regs.B - 1) % 256 IN
     IF i.mn = "djnz"
     THEN Becomes([sim EXCEPT !.regs.B = b], IF b # 0 THEN i.n ELSE idx + 1)
     ELSE Becomes(sim, CASE i.mn = "jphl" -> get_reg16(sim, "HL").value
                         [] i.mn = "jp" -> i.n
                         [] OTHER -> IF check_cond(sim.flags, i.x) THEN i.n ELSE idx + 1)

Call == \E i \in Pool :
  /\ Runs(i, {"call"})
  /\ Becomes(push(sim, RETIDX(idx + 1)), i.n)

(* A scripted routine: the next entry of its script, or the last again. *)
CallScripted == \E i \in Pool :
  /\ Runs(i, {"callout"})
  /\ LET e == Scripts[IF script_pos < Len(Scripts) THEN script_pos + 1 ELSE Len(Scripts)]
     IN sim' = set_reg16([sim EXCEPT !.regs.A = e.A], "HL", Num(e.HL))
  /\ script_pos' = IF script_pos < Len(Scripts) THEN script_pos + 1 ELSE script_pos
  /\ idx' = idx + 1
  /\ step_count' = step_count + 1
  /\ UNCHANGED <<outcome, runs>>

(* Returning to the HALT marker ends the run. *)
Ret == \E i \in Pool :
  /\ Runs(i, {"ret", "retc"})
  /\ Pops(i) => sim.stack_list # <<>>
  /\ IF ~Pops(i) THEN Becomes(sim, idx + 1)
     ELSE IF Top(sim).kind = "RETIDX" THEN Becomes(pop(sim), Top(sim).value)
     ELSE /\ sim' = pop(sim)
          /\ outcome' = "returned"
          /\ step_count' = step_count + 1
          /\ UNCHANGED <<idx, runs, script_pos>>

Out == \E i \in Pool :
  /\ Runs(i, {"out"})
  /\ Becomes([sim EXCEPT !.io_writes = Append(@, <<i.n, sim.regs.A>>)], idx + 1)

-----------------------------------------------------------------------------
(***************************************************************************)
(* The other ends of a run.                                                *)
(***************************************************************************)
Ends(how) == outcome' = how /\ UNCHANGED <<sim, idx, step_count, script_pos, runs, mixed>>

(* The tools never look at a machine whose run raised an error, nor at the  *)
(* steps of one that underflowed.                                           *)
Underflow == \E i \in Pool :
  /\ Fetch(i) /\ Pops(i) /\ sim.stack_list = <<>>
  /\ Ends("halted")

Raise == \E i \in Pool : Fetch(i) /\ Raises(i) /\ Ends("error")

(* Bound: a block longer than MaxBlock is not followed. *)
Cut == \E i \in Pool :
  /\ Fetch(i) /\ i.mn \in BlockOps /\ ~Raises(i)
  /\ BlockCount(sim) > MaxBlock
  /\ Ends("cut")

(* Past the last line, where Program.lines has no entry. *)
RunOff == outcome = "running" /\ idx >= LineCount /\ Ends("error") /\ UNCHANGED prog

StepLimit == outcome = "running" /\ idx < LineCount /\ step_count >= MaxSteps /\ Ends("step_limit") /\ UNCHANGED prog

(***************************************************************************)
(* Between runs: a driver pushes the HALT marker and runs a routine, or a  *)
(* snapshot is replayed in a new simulator by a new interpreter, whose     *)
(* scripts start from their first entries.                                 *)
(***************************************************************************)
Idle == outcome \notin {"running", "cut", "error"} /\ runs < MaxRuns

Starts(entry) ==
  /\ idx' = entry
  /\ step_count' = 0
  /\ outcome' = "running"
  /\ runs' = runs + 1
  /\ UNCHANGED <<prog, mixed>>

run(entry) == Idle /\ Starts(entry) /\ sim' = push(sim, HALT) /\ UNCHANGED script_pos

capture_state(s) == [s EXCEPT !.mem = [a \in DOMAIN @ \cap Ranges |-> @[a]]]

(* The fields restore_state assigns, over those of a new Z80Sim. *)
restore_state(new, c) ==
  [new EXCEPT !.regs = c.regs, !.flags = c.flags, !.alt_a = c.alt_a, !.alt_flags = c.alt_flags,
              !.alt_regs = c.alt_regs, !.alt_tuple_regs16 = c.alt_tuple_regs16,
              !.stack_list = c.stack_list, !.tuple_regs16 = c.tuple_regs16,
              !.io_writes = c.io_writes, !.mem = c.mem]

NewSim ==
  [regs |-> [r \in Reg8 \cup {"SP"} |-> IF r = "SP" THEN 65280 ELSE 0],
   flags |-> [f \in FlagNames |-> 0], alt_a |-> 0, alt_flags |-> [f \in FlagNames |-> 0],
   alt_regs |-> [r \in Reg8 \ {"A"} |-> 0],
   tuple_regs16 |-> NoMarkers, alt_tuple_regs16 |-> NoMarkers,
   stack_list |-> <<>>, mem |-> [a \in {} |-> 0], io_writes |-> <<>>]

replay(entry) ==
  Idle /\ Starts(entry) /\ sim' = restore_state(NewSim, capture_state(sim)) /\ script_pos' = 0

(***************************************************************************)
(* sim_from_debugger: a real machine's registers, the captured memory, and *)
(* the HALT marker in place of the real stack.                             *)
(***************************************************************************)
build_state(regs, f, alt_a, alt_f, mem) ==
  push([NewSim EXCEPT !.regs = regs, !.flags = set_flags_byte(f), !.alt_a = alt_a,
                      !.alt_flags = set_flags_byte(alt_f), !.mem = mem], HALT)

-----------------------------------------------------------------------------
(* A step of Interp.run, and the whole tool. *)
Instruction ==
  \/ Ld \/ PushPop \/ IncDec \/ Arithmetic \/ BitsAndShifts \/ Ex \/ LdirLddr
  \/ JumpTo \/ Call \/ CallScripted \/ Ret \/ Out
Stopping == Underflow \/ Raise \/ Cut \/ RunOff \/ StepLimit
Next == Instruction \/ Stopping \/ \E entry \in Entries : run(entry) \/ replay(entry)

Init ==
  /\ prog = [k \in {} |-> 0]
  /\ sim \in Seeds
  /\ idx = 0 /\ step_count = 0 /\ script_pos = 0 /\ runs = 0
  /\ outcome = "returned"
  /\ mixed = FALSE

(* The loop of Interp.run is sequential and never waits.                   *)
Spec == Init /\ [][Next]_vars /\ WF_vars(Instruction \/ Stopping)

-----------------------------------------------------------------------------
(* The simulator's object is one: every byte, word, flag and marker of it  *)
(* is in its range, markers lie beside pairs, and memory holds no ROM cell; *)
(* and the interpreter's line, count and script position are in theirs.    *)
TypeOK ==
  /\ IsMachine(sim)
  /\ idx \in Word /\ step_count \in 0..MaxSteps /\ script_pos \in 0..Len(Scripts)
  /\ outcome \in {"running", "returned", "halted", "step_limit", "cut", "error"} /\ mixed \in BOOLEAN

(***************************************************************************)
(* The interpreter does what the processor does, with markers read as the  *)
(* addresses they stand for, as long as no half of a marked pair is used   *)
(* alone.  A run may stop early; it may not go on wrongly.  This holds     *)
(* across snapshots, replays, EXX with markers on either side, and calls   *)
(* of scripted routines.                                                   *)
(***************************************************************************)
Addresses(regs, markers) == [p \in Pairs |-> IF p \in DOMAIN markers THEN markers[p].value
                                             ELSE PairOf(regs, p)]
RegistersOf(regs, markers) ==
  LET v == Addresses(regs, markers)
  IN  WithPair(WithPair(WithPair(regs, "BC", v["BC"]), "DE", v["DE"]), "HL", v["HL"])
AsZ80(s, pc, running) ==
  [regs |-> RegistersOf(s.regs, s.tuple_regs16), flags |-> s.flags, alt_a |-> s.alt_a, alt_flags |-> s.alt_flags,
   alt |-> Addresses(s.alt_regs, s.alt_tuple_regs16),
   stack |-> [k \in DOMAIN s.stack_list |-> s.stack_list[k].value],
   mem |-> s.mem, io_writes |-> s.io_writes, pc |-> pc, running |-> running]

Processor == INSTANCE Z80 WITH
  z <- AsZ80(sim, IF outcome = "returned" THEN Trap ELSE idx, outcome = "running"),
  Effects <- {Scripts[k] : k \in DOMAIN Scripts},
  Kept <- Ranges

HonoursZ80 == [][mixed' \/ Processor!Next]_vars

(* Every run ends: max_steps counts every instruction, also of a loop. *)
RunsEnd == outcome = "running" ~> outcome # "running"

(***************************************************************************)
(* sim.py's comment on markers: 8-bit writes to a pair clear its marker.   *)
(***************************************************************************)
HalfWriteSeen ==
  [][\A i \in Pool : idx \in DOMAIN prog' /\ prog'[idx] = i /\ i.mn = "ld8n" /\ step_count' = step_count + 1
       => \A p \in Pairs : i.x = High[p] => get_reg16(sim', p).value \div 256 = i.n]_vars

===============================================================================
