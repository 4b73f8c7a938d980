# 2068-Leap V2 in TLA+

2068-Leap V2 is a replacement ROM for the Timex TS2068, written in Z80 assembly: a HOME ROM (kernel,
virtual machine, compiler), an EXROM (shell, editor, tape, array store) and packages loaded from tape.
The user types program lines into an editor, RUN compiles them to bytecode, a virtual machine executes
it, and the variables it leaves behind stay usable in immediate statements. There is no operating system:
one foreground program, one keyboard interrupt 60 times a second, one tape, and 64K of memory that
everything shares. Around the ROM stands a set of Python tools: a source-level Z80 simulator, parallel
test runners that drive emulators, static checks of sources and images, tape writers and readers, and the
test suites of the production gate.

This directory models the ROM's shared memory, its store, its tape and its keyboard, and the tools whose
mistakes would let a broken ROM pass. All paths below are relative to the repository's root.

## 1. The system

### The ROM

| Component | State it keeps | Operations | What is hard |
|---|---|---|---|
| Shell and line store (`rom/exrom_v2_shell.asm`, `kernel/memory/memory.asm`) | program text, `PROG_END`, `VARS_START` | store, insert, delete a line; RUN, NEW, LOAD, SAVE, immediate statements | text grows into memory that a live session owns |
| Variable session (`docs/V2_SESSION_VARIABLES.md`, shell 663-850, `rom/exrom_v2_vm_core.asm` 661-863) | symbol table borders, table bases, `SESS_VALID`, `SESS_SAVE` | start, ensure, run an immediate statement, undo, end | partial failure at four points of a statement; BREAK while it is set up |
| Array Store (`rom/exrom_v2_arrstore.asm`) | entries in segment 2, `PAS_END`, `ARR2_END`, pointer slots | bind at RUN, DIM, LOAD/SAVE ... ARRAY, CLEAR, NEW | entries move when one is replaced; pointers must not outlive the move |
| Keyboard interrupt (`kernel/interrupt/interrupt.asm`) | debounce and repeat counters, `KBD_LASTK`/`KBD_KEYHIT`, `VM_HALTED`, `VM_ERROR_CODE` | one tick per frame; the foreground consumes keys and polls the halt cell | interleaving with every read-modify-write of the foreground |
| SAVE ... ALL (`rom/v2_saveall.asm`) | block 1 (program, cells, tables), block 2 (segment 2), CRCs | save, load in two blocks with checks in between | a load that fails halfway |
| Tape (`kernel/storage/storage.asm`, `tapeblock.asm`) | attempts, parity, failure class | send and receive blocks, find a header, verify | lost, damaged and foreign blocks; SPACE at any time |
| Compiler, virtual machine, numbers (`rom/exrom_v2_compiler.asm`, `exrom_v2_vm_core.asm`, `exrom_calc.asm`, ...) | bytecode, stacks, tables | compile, execute | sequential; every refusal has a code and a line |
| Extension registry (`kernel/extensions/ext_registry.asm`) | twelve slots with generations | register, clear, look up, call | calls compiled against a slot that was refilled |
| Bank switching (`kernel/bank/bank.asm`) | EXROM nesting depth, port image | page in, page out | errors that abandon nested calls |
| Graphics, sound, text I/O | pixels, ports | | sequential, no state that other parts depend on (but MODE 1's claim on segment 2, which `Session` has) |

### The tools

| Component | State it keeps | Operations | What is hard |
|---|---|---|---|
| Z80 simulator (`tools/z80sim`) | registers, markers for code addresses, logical stack, memory | one instruction, run, snapshot, replay | a marker lies beside a register pair, not in it: every exchange, POP and snapshot must move both |
| Test runners (`tools/qual/qrun.py`, `manual_run.py`) | workers, emulators, record file, queue | boot, run a case, record, report, count | workers that die, boots that fail, a wait that times out beside a late message |
| Fixture suite (`tools/run_all_tests_fast.py`) | one emulator after another, border latch, breakpoint | reset, inject, run, judge | what one fixture leaves in the emulator for the next |
| Source, build, package and tape tools (`tools/check_*.py`, `v2_abi.py`, `make_extension_tzx.py`, `tape_synth.py`, ...) | none | one pass over sources, images or samples | boundary arithmetic, scopes, edges of a control flow |
| Production gate and qualification (`tools/v2_prod*.py`, `v2_saveall_checks.py`, `tools/qual`) | none | some hundred cases with their expected outcome | what a case asserts of the ROM is only as right as the case |

### How they interact

- The shell, the compiler, the virtual machine and the array store call each other as subroutines and
  share cells of memory: `PROG_END`, the symbol table's borders, `ARRAYS_END`, `VM_CSP`, `VARS_START`,
  the table bases, `PAS_END`, `ARR2_END`. Each routine moves some of them and trusts the others.
- The keyboard interrupt talks to all of them through four cells: `KBD_LASTK`/`KBD_KEYHIT` (a one-key
  buffer) and `VM_HALTED`/`VM_ERROR_CODE`. The last two also carry run-time errors. A routine that tests
  `VM_HALTED` to learn whether a *callee failed* also sees a BREAK; most counterexamples of section 4 come
  from this.
- Tape commands replace what they load as a whole or not at all; they run at the prompt.
- The runners' processes share a queue and files; the main process learns of a dead worker only by a
  time-out. The simulator, the checks and the suites meet in the gate's exit status.

### What makes each component correct

- **Session**: at any time each byte of the pool and of segment 2 belongs to one of program text, symbol
  table, arena, control stack, tables, store, overflow arrays, attribute file; a refused immediate
  statement changes nothing; arrays survive until replaced.
- **Array Store**: a chain of whole entries ending at `PAS_END`, one per name; a slot leads to the array
  of its own name and size; the store does not move while a slot into it can be used.
- **Keyboard**: a key is latched when due, returned once; BREAK stops any running program.
- **Tape and SAVE ... ALL**: after a load either everything or a documented part is there, never a
  mixture; what was saved comes back; the failure class reported is the one that decides how much memory
  is still good; VERIFY says the truth and changes nothing.
- **Simulator**: a run goes where a Z80 goes.
- **Runners, suites, gate**: an exit status 0 is earned; a verdict is the fixture's own.
- **Tools**: what is accepted is safe, what is written reads back.

Components and how far each is modelled are listed in `PROJECT.json`, and so are the hazards: the places
where these properties could fail and a test would hardly look.

## 2. The modules

| Module | What it is |
|---|---|
| `Session` | border cells of the pool and of segment 2, and every command and statement that moves one |
| `SessionContract` | the session as its user knows it: names, arrays, store, without addresses |
| `SessionProofs`, `SessionRefinement` | its invariants for every layout; `Session` implements `SessionContract` |
| `ArrayStore` | segment 2 and the arena cell by cell: entries, descriptors, elements, slots |
| `ArrayMap` | arrays as values of names, without memory; what `ArrayStore` implements |
| `ArrayStoreProofs` | its invariants and the refinement, for every size of the segment |
| `Keyboard`, `KeyboardProofs` | the frame interrupt beside the editor, the readers of keys and the VM's polls |
| `LeapMachine` | program, session, arrays, store and packages, with the contents: RUN, immediate statements, NEW |
| `LeapTape` | SAVE, LOAD and VERIFY of programs, sessions, arrays, packages and ranges of memory |
| `Leap`, `LeapProofs` | a user at that machine with a tape that may be damaged, cut, edited or foreign; what is sound for every program, array and tape |
| `Z80Arith`, `Z80` | the simulator's arithmetic beside the manual's; a Z80 whose code addresses are words |
| `Z80Sim`, `Z80SimProofs` | the interpreter with its markers; it implements `Z80` |
| `Runner`, `RunnerProofs` | worker processes, emulators, records, queue and main process, with faults |
| `FastSuite`, `FastSuiteProofs` | the fixture suite, one emulator per harness ROM, with failing debugger commands |
| `Tools` | the command-line tools as one-step programs; what each result is for |
| `TapeTools`, `PackageAbi`, `AsmSource`, `BuildChecks` | their algorithms |
| `Production`, `ProdArrays`, `ProdRegress`, `ProdSaveAll`, `ProdCode`, `Gate` | the production suites' cases, on `LeapMachine` and `LeapTape` with the shipped sizes |
| `Values`, `Compiler`, `VM` | numbers and strings, source lines to bytecode, bytecode to output |
| `Qualify`, `Corpus`, `VmEdge`, `Lifecycle` | the language corpus and its kin, run by `Compiler` and `VM` |
| `MC...` | the small instances (`Keyboard` needs its configuration only) |

**Session.** Variables have the names of the cells. Three are observers that no action's guard depends on,
except as noted: `ARRSYM` (the symbol table declares an array), `carved` (the tables were laid out for this
symbol table; the code's counterpart is that VM_INIT or VM_INIT_SESSION went through without error 64) and
`displaced` (values were moved and the bases put back). `tab` is the size of the tables that SYM_COUNTS
computes. `SESS_SAVE` counts only between compiling an immediate statement and running or undoing it.
`phase` cuts the shell's loop at the points where another path can be taken: `prompt`, `ensured`,
`compiled` and `run`. One action is one command or one executed statement: `StoreLine`, `DeleteLine`,
`InsertBlank` (V2_STORE_EDIT, V2_NAV), `RunStored`, `CompileError` (V2_RUN_PROGRAM), `EnsureSession`,
`RunAlone`, `ImmCompile`, `ImmCarve`, `ImmUndo`, `ImmBreak` (V2_RUN_IMMEDIATE, V2_SESSION_UNDO), `Dim`,
`PushFrame`, `PopFrames`, `ClearStatement`, `SetMode`, `Stop` (the opcodes that move a border), `New` and
the LOAD commands with their failure paths. What a compile adds is any size from the constants.
`BreakMidStart` says whether the interrupt may accept BREAK while RUN or an immediate statement is being
set up. The code always allows that; FALSE shows what the code guarantees when it does not happen.

**ArrayStore.** A cell of memory is an entry's length and key, a descriptor's header, an element, or `Free`.
Bytes given up become `Free`, so that a later read of one is visible. `ARR_FIND`'s walk along the chain is a
recursive function over addresses, `Ldir` is the Z80's block move with its overlap behaviour, and
`LoadArray` is the whole of LOAD ... ARRAY: end the session, stage, validate, delete the old entry, close
the gap, append. `slot` and `decl` are the pointer slots and the declared sizes; they are left stale where
the code leaves them stale, and `Reachable` says when a program can use them. The arena's borders are fixed
here; moving them is `Session`'s. `BreakInStatement` lets BREAK be accepted inside DIM and CLEAR.

**Keyboard.** `KBD_ISR_TICK` is one interrupt and one step. The foreground's steps end wherever the
interrupt could see or change a shared cell in between: reading `KBD_LASTK` and clearing `KBD_KEYHIT` are
two steps, so are the stores of an error's code and of the halt, VM_INIT_REGS's two clears, a PAUSE's test
and its HALT. `seen` and `fresh` are history: how many ticks in a row the tracked key has been seen, and
whether the latched acceptance has been read.

**LeapMachine, LeapTape, Leap.** Where `Session` has borders and no contents and `ArrayStore` has bytes and
one table of arrays, these three have the contents: a machine is a record of program, variables, declared
names, arrays (in the pool, in segment 2, or in the store), store, packages and messages. A command is an
operator from machines to machines, written after its routine (V2_RUN_PROGRAM, V2_RUN_IMMEDIATE,
V2_LOAD_ARRAY, SA_BUILD, SA_RESTORE, SA_FINISH, STORAGE_LOAD, ...). A tape is a sequence of blocks, each
whole or ended "early" (before the first byte is stored) or "late", with SPACE down or not. The small
language has the statements that touch what is modelled; a string is its length; sizes of symbols, tables
and bytecode are averages given as constants. `Leap` adds the user: `Type`, `RunIt`, `Say`, `NewIt`, `Save`,
`Play`, `LoadExt`; `rec` remembers what was recorded. The production suites use the same operators with the
shipped sizes, so that what the repository's tests assert of the ROM is checked of the model.

**Z80Sim.** The program is the part of the listing that was executed so far: a line's instruction is chosen
from `Pool` when it is first reached, which covers every program of `LineCount` lines. The interpreter keeps
a code address as a marker beside a register pair or in the logical stack; `Z80` keeps all of them as words.
`mixed` marks the runs that used half of a marked pair alone, where the tool raises or documents its limit.
`Trap` is the return address of the caller: no Z80 word (the code's HALT marker equals no number).

**Runner, FastSuite.** Each worker's loop is cut at every call that can fail (boot, case, reboot, write,
put); faults are a boot that fails, a broken connection, a failing package machine, a killed worker.
`FastSuite` lets any debugger command fail at any point of a fixture.

**Tools.** A job names a tool and its input; the tool's action leaves the result, the invariants compare the
result with what it is for: a decoder's reading of a tape, an execution of the accepted code over the
listing's edges, the cells a layout may use.

## 3. What is model-checked

All runs use two workers and finish in under three minutes.

| Run | States | What it shows |
|---|---|---|
| `session` | 422,842 | no BREAK during set-up: `TypeOK`, `SessionInv` (order of borders in every session), `RunInv` and `SegmentTwo` (the same, stronger, while bytecode runs), and `HonoursContract` (refinement of `SessionContract`) |
| `break_mid_start` | 526,772 | with BREAK: the pool's borders are still in order |
| `array_store` | 64,723 | with BREAK: `StoreSound`, `SlotsSound`, `StoreNeverMoves`, `DimZeroFills`, and `HonoursMap` (refinement of `ArrayMap`) |
| `keyboard` | 370,320 | `ReadOnce`, `LatchedWhenDue`, and `FreshBreakStops` under fairness |
| `leap` | 26,735 | `SessionSound`, `FailedLoadSafe`, `RoundTrip`, `VerifyHonest`, `StoreOnlyBy`, each state with every tape an accident or an editor can make of the one recorded |
| `z80sim` | 210,241 | `HonoursZ80` (refinement of `Z80`), `RunsEnd` under fairness |
| `runner` | 409,953 | `OneRecordPerCase`, `ExitZeroIsEarned`, `NothingLeftRunning`, and `MainEnds` under fairness |
| `fast_suite` | 660,480 | `VerdictIsItsOwn`, `ZeroMeansAllPassed` |
| `tools` | 124,236 | tapes read back, accepted packages, builds and sources are safe, every modelled case of the suites passes |
| `edit_in_session`, `append_full`, `provenance_runs` | | findings: see below |

**Bounds.** *Session*: a pool of ten bytes and a segment of three; lines of one byte, symbols of zero or one,
tables of zero or one beside one byte of temporaries, arrays of one or two, frames of one. Each pair of
neighbouring regions can touch, fit exactly and fail to fit, an array can fall in the arena or overflow,
MODE 1 can find room or not, tables can be refused at RUN and at an immediate statement. The tapes are a
full session, one saved after a refused RUN, and an empty one. The properties only compare borders, so
larger sizes repeat these cases; the theorems confirm it. *Array Store*: two names of one or two elements,
two values, seven cells: an entry of two and one of one fit, two of two do not, and replacing either by the
other size moves the rest up or down; the arena has room for one array, so a second one overflows.
*Keyboard*: SPACE, ENTER and CAPS SHIFT (three are needed for a second key to disturb a tracked one with the
shift held); debounce 2, first repeat 3, next repeats 2, all different in effect; PAUSE of one or two frames.
*Leap*: a numeric and a string array, three programs and two immediate statements. The pool holds the first
program's array, and then not the slot of the statement's string array (error 64 and an undo) unless CLEAR is
said first; the second program's tables find no room at RUN, yet SAVE ... ALL has room for its session; the
third needs a package and without it fails to compile after its DIM, and with the string array leaves
SAVE ... ALL no room. Segment 2 takes an entry of each array but not the numeric one with its second shape.
`FUEL` bounds the statements of a run, none of these programs reaches it. *Z80Sim*: four lines, 22 instructions
with one of each kind that moves a marker, three steps, two runs or replays, one data cell at the RAM's
start; two instructions are needed to make a marker and lose it, a third to see it. *Runner*: two workers,
four cases, two faults: one for a machine, one for its replacement. *FastSuite*: five fixtures in three
harness ROMs, one per class of verdict, one fault. *Tools*: some sixty thousand inputs: programs of up to
five listing lines over all kinds of edges, sources of four lines, tapes of up to three bytes with every
fault option, layouts of three names; a pilot tone of four pulses instead of 3200 (only its comparison with
the decoder's minimum matters); and the suites' own cases.

Deadlock is checked in every run where the system has no end of its own; the simulator and the one-step
tools do end. `Runner` and `FastSuite` stutter at their exit status.

**Fairness.** `Session`, `ArrayStore`, `Leap` and `FastSuite` are safety specifications: nothing there must
happen, since the user may never type again. `Keyboard` has weak fairness of `KBD_ISR_TICK` (the frame
interrupt comes 60 times a second and the modelled code never disables it) and of `Foreground` (the
processor runs between interrupts, and between two polls of `VM_HALTED` the VM executes a bounded number of
opcodes, see VM_RUN in `rom/exrom_v2_vm_core.asm`). The user is under no obligation. `FreshBreakStops`
therefore says: if SPACE and CAPS SHIFT are down and no key is tracked yet, the program stops or the user
lets go. A program in INPUT is excepted, because INPUT reads keys by its own loop and looks at the halt cell
only after ENTER. `Z80Sim` has weak fairness of the running interpreter's step (a Python loop), `Runner` of
each worker and of the main process (operating-system processes that are scheduled; a killed worker takes no
more steps, and the queue's `get` has a time-out).

## 4. Where the code and its documents disagree

Three runs check one sentence of the documents or comments each, and TLC finds a run of the code that breaks
it; the quotations and lines are in `PROJECT.json`.

| Run | Property | What happens |
|---|---|---|
| `edit_in_session` | `SourceBelowSession` | inserting or deleting a blank line does not end the session, and the inserted line makes the text grow over the live symbol table |
| `append_full` | `ProgramBelowCode` | the fit check of an appended line omits its two length bytes; text can end above the pool |
| `provenance_runs` | `EveryRunIsListed` | a copied block that begins with a window of fill bytes is listed nowhere |

The modules state more such sentences. TLC refutes them in the same way, in the instance named; they are
not among the runs because each needs a window of microseconds, or says little more than one above.

| Property | Instance | What happens |
|---|---|---|
| `Session!StoreInsideSegment` | `MCSessionEditInSession.cfg` | a RUN refused with error 64 leaves a valid session with `ARR2_END` below `PAS_END` |
| `Session!ArraySlotsCurrent` | `MCSessionEditInSession.cfg` | after a failed compile SAVE ... ARRAY finds an array's symbol and reads another program's slot |
| `Session!ArraysAboveStore` | `MCSessionBreak.cfg` | BREAK between VM_INIT and ARR_RUN_INIT: later overflow arrays are put into the Array Store |
| `Session!ValuesInPlace` | `MCSessionBreak.cfg` | BREAK while an immediate statement's tables are moved: cells are put back, values are not |
| `ArrayStore!NeverLost` | `MCArrayStore.cfg` | BREAK while a session is set up: an immediate DIM is written over stored entries, or a statement runs on displaced slots |
| `Leap!SavedComesBack`, `Leap!VerifiedLoads` | `MCLeap.cfg` | after a RUN refused with error 64 SAVE ... ALL says SAVED and VERIFY says VERIFIED, and LOAD brings the program without variables |
| `Leap!StoreBelowEnd` | `MCLeap.cfg` | the same session, as long as it lives, has its store above the end of segment 2 |
| `ArrayStore!ElementsDefined` | `MCArrayStore.cfg` | BREAK inside DIM: the array exists but was not filled with zeros |
| `Keyboard!HeldBreakStops` | `Keyboard.cfg` | SPACE held first, CAPS SHIFT added: repeats carry BREAK's code and never stop the program |
| `Runner!OneEmulatorEach` | `MCRunner.cfg` with `Kind <- RunKind`, `Ids <- RunIds`, `Known <- RunKnown`, `NotFor = {}` | a boot that fails after its emulator started leaves it running beside the next one |
| `FastSuite!RejectionWasTested` | `MCFastSuite.cfg` | border 7 is both the idle default and the verdict of a rejected program: a fixture that never ran passes too |
| `Z80Sim!HalfWriteSeen` | `MCZ80Sim.cfg` with `MaxRuns = 1` | a load of half of a marked pair leaves the marker: the pair still reads as the address |

Three smaller ones were met while reading and are not properties of a run. EXT2_CLEAR_ALL's header says
that generations differ after it, and it resets EXT2_GEN_COUNTER to 0. V2_FIND_INDEX returns 0 for the
append line, not $FFFF, so V2_REDRAW_NAV's `.old_blank` branch is never taken for it. And the checks of the
source tools have limits that their models keep: a floating-point bracket can be jumped into, a routine can
fall through into one that raises, a label between the load of an error code and its raise hides it, a
global label with an instruction on its line is not one for check_asm, two images may give one name two
addresses, and the estimated instruction sizes of check_z80_opcodes err in both directions.

## 5. What is proved

TLAPS checks these theorems for every value of the constants that satisfies the named assumptions. TLC
evaluates the assumptions in every run.

| Module | Theorem | Statement |
|---|---|---|
| `SessionProofs` | `TypeCorrect`, `SessionSafe`, `RunSafe` | `[]TypeOK`, `[]SessionInv`, `[]RunInv`, with BREAK at any time |
| | `SegmentTwoSafe` | `~BreakMidStart => (Spec => []SegmentTwo)` |
| `SessionRefinement` | `HonoursItsContract` | `~BreakMidStart => (Spec => HonoursContract)` |
| `ArrayStoreProofs` | `TypeCorrect`, `ChainSound`, `SlotsSafe` | `[]TypeOK`, `[]StoreSound`, `[]SlotsSound`, up to phase `lost` |
| | `NeverMoves`, `ZeroFills` | `StoreNeverMoves`, `DimZeroFills` |
| | `ImplementsMap` | `Spec => HonoursMap`, up to phase `lost` |
| `KeyboardProofs` | `TypeCorrect`, `KeysReadOnce`, `LatchTiming` | `[]TypeOK`, `[]ReadOnce`, `LatchedWhenDue` |
| `LeapProofs` | `SessionIsSound`, `StoreIsKept` | `[]SessionSound`, `StoreOnlyBy` |
| | `FailedLoadIsSafe`, `WhatWasSavedComesBack`, `VerifyIsTrue` | `[]FailedLoadSafe`, `[]RoundTrip`, `[]VerifyHonest` |
| `Z80SimProofs` | `TypeCorrect`, `Refinement` | `[]TypeOK`, `Spec => HonoursZ80` |
| | `ManualArithmetic` | the simulator's flags and results are the manual's, for all operands |
| `RunnerProofs` | `TypeCorrect`, `OneRecord`, `ExitZero`, `NothingLeft` | `[]TypeOK`, `[]OneRecordPerCase`, `[]ExitZeroIsEarned`, `[]NothingLeftRunning` |
| `FastSuiteProofs` | `OwnVerdict`, `ZeroIsEarned` | `[]VerdictIsItsOwn`, `[]ZeroMeansAllPassed` |

**Session.** Assumptions: `LayoutAssumption` (the regions' order), `SizesAssumption` (sizes are positive where
the code makes them so; the capped tables cannot wrap below address 0), `BreakAssumption` (a Boolean),
`TapeAssumption` (tapes hold what SAVE ... ALL writes; `SessionInv` shows that every session there is to save
has this shape). The inductive invariant is
`IInv == TypeOK /\ SessionInv /\ RunInv /\ Segment /\ Pending /\ Running`. What the runs check is not
inductive alone: `SessionInv` is silent in phase `compiled`, when the symbol table has grown and the tables
have not, and ImmUndo then restores `SESS_SAVE`; `Pending` says that what was saved is a session's shape
around the present arena and that the new symbols stay below it. `Running` ties a program that runs without
a session (`RunAlone`) to the same shape. `TopOfTwo` is the lemma on which `Dim` and `SetMode` meet: arrays
end below the top of the mode they are made in, and MODE 1 is refused when they do not. `Segment` is
`SegmentTwo` with its first half, that the arrays begin above the store, only where no BREAK may come during
set-up; `SegmentTwoSafe` states it for that case because `ArraysAboveStore` is false of the other. The refinement maps
borders to sizes (`names`, `tables`, `arena`, `overflow`, `store`); `ImmCompile`, `ImmUndo` and edits without
a session stutter. It assumes `~BreakMidStart` and has to: with a BREAK between VM_INIT and ARR_RUN_INIT
`ArraysAboveStore` is refuted and the size `overflow` would be negative.

**ArrayStore.** Assumption: `StoreAssumption` (segment 2 lies below the arena, sizes are positive, 0 is a
value). The inductive invariant is `IInv \/ (TypeOK /\ phase = "lost")`: every step from `IInv` leads to `IInv`
or to phase `lost`, and only NEW leads out of that. `IInv` adds to `TypeOK` and the chain that a set-up that
was refused or displaced never has a program running (`Live`), that after a whole one the store ends before
the overflow arrays (`EndsInOrder`), that a name without declaration has no slot (`Undeclared`), that during a run the
declared names of the store are bound (`RunBound`: DIM adopts such an array), where each slot leads - to the
name's entry (`StoredSlots`) or to an array in the arena or above the store (`OrdinarySlots`) - and that
no two of these share a cell (`Apart`). `SlotsSound` follows from the last three. ARR_FIND's walk is a
recursive function over addresses: `WalkExists` shows from well-foundedness that such a walk has a value at
every address, and `Found` that it ends at the one entry of its name. The hard step is `LoadArray`:
`CutExists`, `CommitMoves` and `CommitStore` say what the two block moves leave, namely the entries below the
replaced one, those above it lower by its length, and the new one at the end. `ImplementsMap` abstracts
memory to functions from names to elements; one lemma per action maps it to a step of `ArrayMap` or to none.

**Keyboard.** Assumption: `TimingAssumption` (debounce above 1, repeat times that fit a byte). The inductive
invariant is `TypeOK /\ Buffer /\ Counts /\ Waiting`. `Counts` expresses the history `seen` through
`KBD_DEBOUNCE` and `KBD_REPEAT`; without it the property about ticks says nothing about counters. `Buffer`
makes `ReadOnce` inductive: between reading the code and clearing the flag, the flag is set and the latched
key may already be read, or be a newer one. `Waiting` bounds `frames` while a HALT waits.

**Leap.** Assumptions: `SizesAssumption` (sizes are natural numbers, MODE 1's attribute file lies in segment
2), `TapeAssumption` (a file's tail is not empty), `CodeAssumption`
(programs and statements are what the compiler accepts, programs fit the pool, an array's kind is numeric or
string). Programs, statements, arrays, packages and sizes are otherwise free; so are the tapes that
`FailedLoadSafe` and `VerifyHonest` quantify over. The inductive invariant is
`IInv == Machine(m) /\ TapeOK /\ Quiet`.
- `Machine(x)` is the state between two keystrokes: entries are sound, of different keys and fit segment 2;
  each array is declared and lies where its entry says, or every slot is stale; if there is a session, the
  program's arrays are among the declared ones, and either its borders fit and no slot is stale, or its tables
  did not (`unfit`) and it holds no array. `Exec(x)` is its counterpart inside a run, where the borders
  hold unconditionally and a mode may be on; RUN goes from `Machine` to `Exec` (binding arrays to entries),
  each statement keeps `Exec`, the end of the run returns to `Machine`.
- The five properties are not inductive alone. `SessionSound` needs that a stored string is shorter than its
  element (else the byte length of an entry is not a function of its shape), that an entry's count is below
  4096 (`valid` reads twelve bits), and that the bytes placed in segment 2 are finitely many, for
  `Overflow` counts them. `FailedLoadSafe`, `RoundTrip` and `VerifyHonest` speak of what a tape *does to any
  machine*, so the invariant must say what a tape *holds*: `TapeOK` says that the tape is the file of `rec`
  and that `rec` was a sound machine when it was recorded.
- A tape is then one of: without a whole header, of a later version, with a damaged second block (`Bad`); as
  recorded; or whole with changed contents, which the CRC, the identity words or the address chain betray
  (`Variant`: the CRC is an injective digest in the model). For each, one lemma says how the header search,
  the block receive and the checks answer, for LOAD, VERIFY and LOAD ... ARRAY alike.
- `StoreIsKept` is an action property: each command's lemma also says what happens to the store
  (`StoreStays`, `StoreKept`, `Restored`, `Entered`), in the same case analysis that keeps the invariant.

**Z80Sim.** Assumption: `SimAssumption` (the pool's instructions are well formed, `Trap` is no Z80 word). The
argument has four layers: the arithmetic (`ManualArithmetic`), the object that carries markers, the overlay
(what a register pair, the stack and memory read as once markers are replaced by addresses), and one view
lemma per group of instructions. They meet in `NextSteps`: a step of the interpreter is a step of `Z80` under
the overlay, or the run becomes `mixed`, where the tool itself raises or documents its limit. `HonoursZ80`
promises nothing after that.

**Runner.** Assumption: `RunnerAssumption` (identifiers are not repeated). The inductive invariant follows a
case from a worker's list to the file, the queue and the count: lists are disjoint (`Disjoint`), what is in a
list has no record but for the case whose message is about to be sent (`Unrecorded`), a message repeats its
record (`Messages`), and a status is counted at most as often as there are such records whose message was
taken (`Counted`). Exit status 0 needs as many messages as jobs, so by counting every job has its record. A
worker that is killed between record and message, or a time-out that ends the count early, can therefore not
produce a 0. `NothingLeft` rests on `Ending` (the main process ends after its workers) and `Accounted` (while
only connections broke, a worker has a handle of every emulator it started, and none when it is gone).

**FastSuite.** Assumption: `SuiteAssumption` (fixtures have different names). The inductive invariant says
for each step of a fixture what the emulator holds: the border latch is white from the reset snippet's second
step until the program runs (`LatchReset`), the program is empty and nothing is registered when a fixture is
injected (`Booted`), and the border shown at the end is that of a fresh machine (`Shown`). This is what makes
a verdict independent of the fixtures before it, whatever command failed in between.

**Only model-checked.** `Tools`' six invariants and `EveryRunIsListed`: the algorithms of `TapeTools`,
`PackageAbi`, `AsmSource`, `BuildChecks`, `Compiler` and `VM` are recursive, and what a recursive definition
computes for every input needs induction over its data, which is out of the prover's reach. The liveness
properties `FreshBreakStops`, `RunsEnd` and `MainEnds`: reasoning from fairness needs ENABLED. The
counterexamples of section 4 are TLC's.

## 6. What is not modelled

- *Of the language*: numbers are exact ratios, without the calculator's 40-bit rounding and its functions
  (SQR, SIN, LN), RND, USR, FREE and IN. Text is printed as characters without pixels. The depths at which
  the stacks overflow, the symbol tables' own memory and the gap below a session are unbounded in
  `Compiler` and `VM`; the cases of the qualification tools about these, and those that call package
  routines, are left out of `Corpus`, `Qualify`, `VmEdge` and `Lifecycle`. `Session` has the borders.
- *Of the memory*: in `Leap` only the slots of arrays make the run-time tables grow; the symbols and the other
  tables are an average given as a constant, so it says nothing about the exact byte at which a program stops
  fitting; `Session` says that for borders, `ArrayStore` for one table of arrays.
- *BREAK in `Leap`*: a run there ends by itself. What a BREAK makes of a session's borders is in `Session`, of
  slots and store in `ArrayStore`; a tape saved of such a session is not modelled. Nor is what a machine does
  in `ArrayStore`'s phase `lost`.
- *Machine code* called by USR and by packages, which can write anywhere.
- *Tape time*: a block is one step with a nondeterministic outcome; interrupts are off during a transfer. The
  edges of pulses are in `TapeTools`.
- *Keys* other than three: they take the same path.
- *Graphics, sound, character output*: they write pixels and ports, which nothing modelled reads.
- *Emulator drivers, document builders and measurement scripts* among the Python tools: most of the
  repository's Python. They send keys and read a screen, and keep no state of their own between two cases;
  what decides (queues, records, verdicts, expected outcomes) is modelled.
- *Version 1's interpreter and test programs*, which the production image does not assemble.

## 7. What remains

- The line store and the editor: records, ordinals, cursor, edit buffer, against a sequence of lines.
- The extension registry's slots and generations with calls compiled against them, and bank switching: the
  nesting counter and the errors that unwind it.
- VM_INIT_SESSION's move of overlapping tables byte by byte, against a reference copy.
- The control stack as frames that are popped whole, composed with `Session`'s borders.
- `ArrayStore`'s borders as a refinement of `Session`'s segment 2, and `Leap`'s machine as one of both.
