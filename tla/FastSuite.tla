----------------------------- MODULE FastSuite ------------------------------
(***************************************************************************)
(* The fixture suite (tools/run_all_tests_fast.py): one emulator per        *)
(* harness ROM, and in it one fixture after another -- reset, border latch, *)
(* boot to INJECT_POINT, program and module written into RAM, run, border   *)
(* read.  The harness ROM (rom/test_suite_inject.asm and its variants) is   *)
(* modelled by what it does to the cells that the verdict depends on.       *)
(* A debugger command may fail at any point of a fixture.                   *)
(***************************************************************************)
EXTENDS Integers, Sequences

CONSTANTS
  Fixtures,     \* the names, sorted: file stems of one directory
  RUN_STATE_TEST, RAM_EXTENSION_BIN, RAM_EXTENSION_CLEAR,
  Needs,        \* the fixtures whose program uses a module's keyword
  Oversized,    \* those whose module does not fit the module window
  EXPECTED_CYAN, EXPECTED_RED, EXPECTED_BLACK,
  MaxFaults     \* bound on the failing commands of a behaviour

ASSUME SuiteAssumption ==
  /\ Fixtures \in Seq({Fixtures[i] : i \in DOMAIN Fixtures})
  /\ \A i, j \in DOMAIN Fixtures : Fixtures[i] = Fixtures[j] => i = j
  /\ \A i \in DOMAIN Fixtures : Fixtures[i] \notin {"empty", "other", "none"}
  /\ RAM_EXTENSION_CLEAR \subseteq RAM_EXTENSION_BIN /\ Oversized \subseteq RAM_EXTENSION_BIN
  /\ MaxFaults \in Nat

VARIABLES
  shows,      \* the border that each program leaves when it is run to its end
  left,       \* the positions in Fixtures still to do
  variant,    \* the harness ROM of the group at work
  at,         \* the position of the fixture at work
  phase,      \* where run_one is, "between" two fixtures, or the exit status
  emulator,   \* TRUE: ZEsarUX runs
  pc,         \* "reset", an instruction of the snippet, "inject" or "hang"
  border,     \* the ULA latch
  armed,      \* breakpoint 1 is set at INJECT_POINT
  program,    \* the program in RAM: a fixture, "empty", or "other" bytes
  module,     \* the fixture whose module is in the window, or None
  registered, \* the module's keywords are known to the checker
  steps,      \* single steps made by reset_border
  verdicts,   \* printed, by fixture
  tried,      \* history: what the ROM did with the fixture's own program
  faults

progress == <<left, variant, at>>
machine == <<emulator, pc, border, armed, program, module, registered>>
report == <<verdicts, tried>>
vars == <<shows, left, variant, at, phase, machine, steps, report, faults>>

None == "none"
Names == {Fixtures[i] : i \in DOMAIN Fixtures}
Colours == {2, 4, 5, 7}
IsPass(v) == v \in {"PASS", "PASS cyan", "PASS rejected early", "PASS unloaded"}

-----------------------------------------------------------------------------
verdict_for(name, colour) ==
  CASE colour = 4 -> "PASS"
    [] colour = 5 /\ name \in EXPECTED_CYAN -> "PASS cyan"
    [] colour = 2 /\ name \in EXPECTED_RED -> "PASS rejected early"
    [] colour = 7 /\ name \in EXPECTED_BLACK -> "PASS unloaded"
    [] OTHER -> "FAIL"

harness_for(name) ==
  CASE name \in RUN_STATE_TEST -> "run twice"
    [] name \in RAM_EXTENSION_CLEAR \ RUN_STATE_TEST -> "clear"
    [] name \in RAM_EXTENSION_BIN \ (RUN_STATE_TEST \cup RAM_EXTENSION_CLEAR) -> "extension"
    [] OTHER -> "plain"

\* groups: the positions of the fixtures left that share a harness ROM.  The groups come in
\* the order of their first fixtures, the fixtures of a group in their own.
Group(v) == {i \in left : harness_for(Fixtures[i]) = v}

Init ==
  /\ shows \in [Names -> Colours]
  /\ left = DOMAIN Fixtures /\ variant = None /\ at = 0 /\ phase = "between"
  /\ emulator = FALSE /\ pc = "reset" /\ border = 7 /\ armed = FALSE
  /\ program = "empty" /\ module = None /\ registered = FALSE
  /\ steps = 0 /\ verdicts = <<>> /\ tried = [f \in Names |-> None] /\ faults = 0

fixture == Fixtures[at]

\* A new ZEsarUX for the next harness ROM; dbg.start() is outside the try.
StartGroup ==
  /\ phase = "between" /\ ~emulator
  /\ \E i \in left : (\A j \in left : i <= j) /\ variant' = harness_for(Fixtures[i])
  /\ \/ /\ emulator' = TRUE
        /\ border' \in Colours /\ pc' = "reset" /\ armed' = FALSE /\ program' = "other"
        /\ module' = None /\ registered' = FALSE /\ UNCHANGED <<phase, faults>>
     \/ /\ faults < MaxFaults /\ faults' = faults + 1 /\ phase' = "exit 1"
        /\ UNCHANGED machine
  /\ UNCHANGED <<shows, left, at, steps, report>>

\* finally: dbg.stop().
EndGroup ==
  /\ phase = "between" /\ emulator /\ Group(variant) = {}
  /\ emulator' = FALSE
  /\ UNCHANGED <<shows, progress, phase, pc, border, armed, program, module, registered,
                 steps, report, faults>>

\* reset_to_known_state() sets the registers; RAM and the border latch stay.
ResetKnown ==
  /\ phase = "between" /\ emulator
  /\ \E i \in Group(variant) : (\A j \in Group(variant) : i <= j) /\ at' = i
  /\ phase' = "snippet" /\ pc' = "reset"
  /\ UNCHANGED <<shows, left, variant, emulator, border, armed, program, module, registered,
                 steps, report, faults>>

\* The snippet LD A,7 / OUT (254),A / RET is written over the program area and entered.
EnterSnippet ==
  /\ phase = "snippet" /\ phase' = "stepping"
  /\ program' = "other" /\ pc' = "LD" /\ steps' = 0
  /\ UNCHANGED <<shows, progress, emulator, border, armed, module, registered, report, faults>>

\* (Mutant of snippet_ends: stop one step early.)
snippet_endsEarly(p) == p # "LD"

snippet_ends(p) == p = "reset"

\* One dbg.step(): the OUT writes the latch, the RET returns to where the reset left PC.
SnippetStep ==
  /\ phase = "stepping" /\ steps < 10 /\ steps' = steps + 1
  /\ pc' = [LD |-> "OUT", OUT |-> "RET", RET |-> "reset"][pc]
  /\ border' = IF pc = "OUT" THEN 7 ELSE border
  /\ phase' = IF snippet_ends(pc') THEN "arm" ELSE "stepping"
  /\ UNCHANGED <<shows, progress, emulator, armed, program, module, registered, report, faults>>

Arm ==
  /\ phase = "arm" /\ phase' = "boot" /\ armed' = TRUE
  /\ UNCHANGED <<shows, progress, emulator, pc, border, program, module, registered,
                 steps, report, faults>>

\* COLD_START up to INJECT_POINT: MEM_INIT empties the program and unregisters the module.
Boot ==
  /\ phase = "boot" /\ phase' = "write" /\ pc' = "inject"
  /\ program' = "empty" /\ registered' = FALSE
  /\ UNCHANGED <<shows, progress, emulator, border, armed, module, steps, report, faults>>

\* (Mutant of disarmed: the breakpoint is left in place.)
disarmedNot == armed

disarmed == FALSE

\* clear_breakpoint(1), then the program and PROG_END, then the module if it fits.
Write ==
  /\ phase = "write" /\ fixture \notin Oversized /\ phase' = "run"
  /\ armed' = disarmed /\ program' = fixture
  /\ module' = IF fixture \in RAM_EXTENSION_BIN THEN fixture ELSE module
  /\ UNCHANGED <<shows, progress, emulator, pc, border, registered, steps, report, faults>>

Report(v) ==
  /\ phase' = "between"
  /\ verdicts' = Append(verdicts, <<fixture, v>>)
  /\ left' = left \ {at}
  /\ UNCHANGED <<shows, variant, at, steps>>

\* ValueError: the module exceeds its window.
ModuleTooBig ==
  /\ phase = "write" /\ fixture \in Oversized /\ Report("EXCEPTION")
  /\ armed' = disarmed /\ program' = fixture
  /\ UNCHANGED <<emulator, pc, border, module, registered, tried, faults>>

\* From INJECT_POINT to BASIC_RUN: the extension harnesses call the module's installer, and
\* the clear variant then calls MEM_INIT, which also empties the program.
AtRun(v) ==
  CASE v = "clear" -> [program |-> "empty", registered |-> FALSE]
    [] v = "extension" -> [program |-> program, registered |-> TRUE]
    [] v \in {"plain", "run twice"} -> [program |-> program, registered |-> FALSE]

\* BASIC_RUN checks the program in RAM and runs it if the checker found nothing.  With the
\* breakpoint still armed at PC nothing is executed.
Run ==
  /\ phase = "run" /\ phase' = "read"
  /\ IF armed
     THEN UNCHANGED <<pc, border, program, registered, tried>>
     ELSE LET ram == AtRun(harness_for(fixture))
              rejected == ram.program \in Needs /\ ~ram.registered
          IN  /\ pc' = "hang"
              /\ program' = ram.program /\ registered' = ram.registered
              /\ border' = IF ram.program \in Names /\ ~rejected
                           THEN shows[ram.program] ELSE border
              /\ tried' = [tried EXCEPT ![fixture] =
                             CASE ram.program # fixture -> "not run"
                               [] ram.program = fixture /\ rejected -> "rejected"
                               [] OTHER -> "run"]
  /\ UNCHANGED <<shows, progress, emulator, armed, module, steps, verdicts, faults>>

ReadBorder ==
  /\ phase = "read" /\ Report(verdict_for(fixture, border))
  /\ UNCHANGED <<machine, tried, faults>>

\* Any debugger command may raise: FAIL, and on to the next fixture as things are.
Raises ==
  /\ phase \notin {"between", "exit 0", "exit 1"} /\ faults < MaxFaults
  /\ faults' = faults + 1 /\ Report("EXCEPTION")
  /\ UNCHANGED <<machine, tried>>

\* (Mutant of failed: an exception is printed and not counted.)
failedPrinted == \E i \in DOMAIN verdicts : verdicts[i][2] = "FAIL"

failed == \E i \in DOMAIN verdicts : ~IsPass(verdicts[i][2])
Exit ==
  /\ phase = "between" /\ ~emulator /\ left = {}
  /\ phase' = IF failed THEN "exit 1" ELSE "exit 0"
  /\ UNCHANGED <<shows, progress, machine, steps, report, faults>>
Stopped == phase \in {"exit 0", "exit 1"} /\ UNCHANGED vars

Next == StartGroup \/ EndGroup \/ ResetKnown \/ EnterSnippet \/ SnippetStep \/ Arm \/ Boot
          \/ Write \/ ModuleTooBig \/ Run \/ ReadBorder \/ Raises \/ Exit \/ Stopped
Spec == Init /\ [][Next]_vars

-----------------------------------------------------------------------------
TypeOK ==
  /\ shows \in [Names -> Colours]
  /\ left \subseteq DOMAIN Fixtures /\ at \in {0} \cup DOMAIN Fixtures
  /\ variant \in {None, "plain", "run twice", "extension", "clear"}
  /\ phase \in {"between", "snippet", "stepping", "arm", "boot", "write", "run", "read",
                "exit 0", "exit 1"}
  /\ emulator \in BOOLEAN /\ armed \in BOOLEAN /\ registered \in BOOLEAN
  /\ pc \in {"reset", "LD", "OUT", "RET", "inject", "hang"} /\ border \in Colours
  /\ program \in Names \cup {"empty", "other"} /\ module \in Names \cup {None}
  /\ steps \in 0 .. 10 /\ tried \in [Names -> {None, "rejected", "run", "not run"}]
  /\ verdicts \in Seq(Names \X {"PASS", "PASS cyan", "PASS rejected early",
                                "PASS unloaded", "FAIL", "EXCEPTION"})

\* The border that debug_suite_run.py reads: the same program in the same harness on an
\* emulator of its own, whose latch it resets in the same way.
OnAFreshMachine(f) ==
  IF harness_for(f) = "clear" \/ (f \in Needs /\ harness_for(f) # "extension")
  THEN 7 ELSE shows[f]

\* No fixture's verdict depends on the fixtures before it in the emulator (border latch,
\* breakpoint, program, module), nor on commands that failed under them: it is an exception
\* or the verdict that the fixture gets alone, and there is one for each.
VerdictIsItsOwn ==
  /\ \A i \in DOMAIN verdicts :
       LET f == verdicts[i][1] IN
       verdicts[i][2] \in {"EXCEPTION", verdict_for(f, OnAFreshMachine(f))}
  /\ \A i, j \in DOMAIN verdicts : verdicts[i][1] = verdicts[j][1] => i = j

\* Exit status 0 means that every fixture of every group got a verdict and passed, and that
\* the last emulator was stopped.
ZeroMeansAllPassed ==
  phase = "exit 0" =>
    /\ \A f \in Names : \E i \in DOMAIN verdicts :
         verdicts[i][1] = f /\ IsPass(verdicts[i][2])
    /\ ~emulator

\* docs/milestones/MILESTONE_01_RESULTS.md: the *_unloaded and *_new_clear fixtures "confirm
\* the whole-program checker correctly rejects" a keyword whose module is not registered.
RejectionWasTested ==
  \A i \in DOMAIN verdicts :
    verdicts[i][2] = "PASS unloaded" => tried[verdicts[i][1]] # "not run"
=============================================================================
