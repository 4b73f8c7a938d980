------------------------------ MODULE Session ------------------------------
(***************************************************************************)
(* The variable session of 2068-Leap V2 and the memory it is laid out in.  *)
(*                                                                         *)
(* The shell (rom/exrom_v2_shell.asm) is a loop: a line is stored, deleted *)
(* or inserted, or a command runs.  RUN compiles the stored program, and   *)
(* what it leaves behind -- symbol table, arrays, run-time tables -- stays *)
(* valid as the "session" in which immediate statements run, until an edit *)
(* or a LOAD ends it.  Program text, symbol table, array arena, control    *)
(* stack and run-time tables share one pool with no fixed borders, and the *)
(* persistent Array Store shares segment 2 with overflow arrays and with   *)
(* MODE 1's attribute file.  Every border is a 16-bit cell that one of a   *)
(* dozen routines moves; this module is those cells and those routines.    *)
(*                                                                         *)
(* Addresses are integers and keep the names of the source's cells.  What  *)
(* the bytes contain is left to ArrayStore; here a line, a symbol, a table *)
(* and an array are their sizes.                                           *)
(***************************************************************************)
EXTENDS Integers

CONSTANTS
  PROG_AREA_START,     \* first byte of the pool
  V2_SOURCE_END,       \* its top, where bytecode starts (VM_CODE_BASE)
  ARR2_BASE,           \* segment 2: first byte ...
  SECOND_DISPLAY_ADDR, \* ... first byte of MODE 1's attribute file ...
  ARR2_LIMIT,          \* ... and first byte past it
  SESS_GAP,            \* bytes kept free above the symbol table
  LineLens,            \* content lengths of stored lines (1..127)
  SymBytes,            \* sizes a compile's new symbol records can add up to
  TEMP_BYTES,          \* run-time table bytes of the temporaries alone
  TableBytes,          \* run-time table bytes of a program's symbols
  ArrayBytes,          \* sizes of array descriptors and of store entries
  FrameBytes,          \* sizes of control-stack frames
  ProgLens,            \* lengths of a program block on tape
  TapeSessions,        \* session cells of the SAVE ... ALL tapes at hand
  BreakMidStart        \* TRUE: the keyboard interrupt may accept BREAK while the
                       \* run-time tables are built (see StartVM and ImmBreak)

ASSUME LayoutAssumption ==
  /\ {PROG_AREA_START, V2_SOURCE_END, ARR2_BASE, SECOND_DISPLAY_ADDR,
      ARR2_LIMIT, SESS_GAP, TEMP_BYTES} \subseteq Nat
  /\ ARR2_BASE < SECOND_DISPLAY_ADDR /\ SECOND_DISPLAY_ADDR < ARR2_LIMIT
  /\ ARR2_LIMIT <= PROG_AREA_START /\ PROG_AREA_START < V2_SOURCE_END

\* The symbol-count caps bound the tables well below the pool's top address
\* (11,220 bytes against $A655): no address computed from them wraps.
ASSUME SizesAssumption ==
  /\ LineLens \subseteq Nat \ {0} /\ ArrayBytes \subseteq Nat \ {0}
  /\ FrameBytes \subseteq Nat \ {0} /\ ProgLens \subseteq Nat
  /\ SymBytes \subseteq Nat /\ 0 \in SymBytes
  /\ TableBytes \subseteq 0..(V2_SOURCE_END - TEMP_BYTES) /\ 0 \in TableBytes

ASSUME BreakAssumption == BreakMidStart \in BOOLEAN

VARIABLES
  PROG_END,        \* end of the program text
  SYM_BASE_V,      \* the compile symbol table ...
  SYM_END_V,       \* ... and its terminating 0
  SESS_ARENA_BASE, \* where the array arena starts
  ARRAYS_END,      \* where it ends
  VM_CSP,          \* control stack pointer (the stack grows down)
  VARS_START,      \* ceiling of text and arena
  RT_SYMTAB_PTR,   \* base of the lowest run-time table
  tab,             \* table bytes the current SYM_COUNTS call for
  PAS_END,         \* end of the Array Store
  ARR2_END,        \* next free byte of segment 2
  SESS_VALID,      \* TRUE while a session exists
  GFX_MODE,        \* video mode, 0 or 1
  SESS_SAVE,       \* cells saved before an immediate statement compiles
  phase,           \* what the shell is doing, see Phases
  ARRSYM,          \* observer: the symbol table declares an array
  carved,          \* observer: the tables were carved for this symbol table
  displaced        \* observer: the session's values are not where its tables are

pool    == <<PROG_END, SYM_BASE_V, SYM_END_V, SESS_ARENA_BASE, ARRAYS_END>>
tables  == <<VM_CSP, VARS_START, RT_SYMTAB_PTR, tab>>
segment == <<PAS_END, ARR2_END>>
ghosts  == <<ARRSYM, carved, displaced>>
vars    == <<pool, tables, segment, SESS_VALID, GFX_MODE, SESS_SAVE, phase, ghosts>>

(***************************************************************************)
(* "prompt": the editor or a command.  "ensured": V2_ENSURE_SESSION has    *)
(* started a session for the immediate statement that is about to compile. *)
(* "compiled": that statement is compiled, its tables are not carved yet.  *)
(* "run": the VM executes bytecode.                                        *)
(***************************************************************************)
Phases == {"prompt", "ensured", "compiled", "run"}

SavedCells == [SYM_BASE_V : Nat, SYM_END_V : Nat, RT_SYMTAB_PTR : Nat,
               tab : Nat, ARRSYM : BOOLEAN]

\* What is in SESS_SAVE counts only until the statement runs or is undone (SAVE
\* ... ALL uses the bytes as scratch); elsewhere they are taken to be zero.
NoSave == [SYM_BASE_V |-> 0, SYM_END_V |-> 0, RT_SYMTAB_PTR |-> 0, tab |-> 0,
           ARRSYM |-> FALSE]

\* The cells SAVE ... ALL puts on a tape, besides the program's end.
SessionCells == [PROG_END : Nat, SYM_BASE_V : Nat, SYM_END_V : Nat,
                 SESS_ARENA_BASE : Nat, ARRAYS_END : Nat, VM_CSP : Nat,
                 RT_SYMTAB_PTR : Nat, tab : Nat, PAS_END : Nat,
                 ARR2_END : Nat, ARRSYM : BOOLEAN, carved : BOOLEAN]

-----------------------------------------------------------------------------
\* Where VM_CARVE_PTRS puts the lowest table for symbols of t table bytes.
TableBase(t) == V2_SOURCE_END - TEMP_BYTES - t

\* ARR2_TOP: MODE 1's attribute file lies in the upper part of segment 2.
ARR2_TOP == IF GFX_MODE = 0 THEN ARR2_LIMIT ELSE SECOND_DISPLAY_ADDR

\* V2_CLEAR_ARRAYS, with the program ending at p and the store at s.  The table
\* bases and the control stack pointer are left as they are.
ClearArrays(p, s) ==
  /\ PROG_END' = p /\ SYM_BASE_V' = p /\ SYM_END_V' = p
  /\ ARRAYS_END' = p + 1
  /\ VARS_START' = V2_SOURCE_END
  /\ ARR2_END' = s
  /\ tab' = 0 /\ ARRSYM' = FALSE /\ carved' = FALSE /\ displaced' = FALSE
  /\ SESS_VALID' = FALSE

Undisturbed == UNCHANGED <<SESS_ARENA_BASE, VM_CSP, RT_SYMTAB_PTR, SESS_SAVE, GFX_MODE, phase>>

\* A line of the stored text with content length n, and what it takes up.
LINE_LEN_SIZE == 2
LineTotal(n) == IF n = 0 THEN 0 ELSE n + LINE_LEN_SIZE
StoredLine(n) == n \in LineLens /\ PROG_END - LineTotal(n) >= PROG_AREA_START

\* MEM_LINE_STORE: a line of length new over one of length old (0: appended);
\* the fit check counts contents, not length fields.
StoreFits(new, old, ceiling) == PROG_END + new - old <= ceiling
AfterStore(new, old) == PROG_END - LineTotal(old) + LineTotal(new)

-----------------------------------------------------------------------------
\* The text editor.

\* ENTER, or the cursor leaving an edited line (V2_STORE_EDIT).  PROGRAM FULL
\* keeps the text but has ended the session all the same.
StoreLine ==
  /\ phase = "prompt"
  /\ \E new \in LineLens, old \in LineLens \cup {0} :
       /\ old = 0 \/ StoredLine(old)
       /\ ClearArrays(IF StoreFits(new, old, V2_SOURCE_END)
                       THEN AfterStore(new, old) ELSE PROG_END, PAS_END)
  /\ Undisturbed /\ UNCHANGED PAS_END

\* V2_NAV.delete: the record goes, nothing else is touched.
DeleteLine ==
  /\ phase = "prompt"
  /\ \E old \in LineLens : StoredLine(old) /\ PROG_END' = PROG_END - LineTotal(old)
  /\ Undisturbed
  /\ UNCHANGED <<SYM_BASE_V, SYM_END_V, ARRAYS_END, VARS_START, tab, segment, SESS_VALID, ghosts>>

\* V2_NAV.insert on a line that is as stored: a blank record (MEM_LINE_INSERT).
\* (On an edited line V2_NAV_COMMIT stores it first: StoreLine, then this.)
BLANK_TOTAL == 1 + LINE_LEN_SIZE
InsertBlank ==
  /\ phase = "prompt"
  /\ \E old \in LineLens : StoredLine(old)
  /\ PROG_END + BLANK_TOTAL <= VARS_START
  /\ PROG_END' = PROG_END + BLANK_TOTAL
  /\ Undisturbed
  /\ UNCHANGED <<SYM_BASE_V, SYM_END_V, ARRAYS_END, VARS_START, tab, segment, SESS_VALID, ghosts>>

-----------------------------------------------------------------------------
\* Compiling and starting a program.

\* The symbols a compile adds to a table ending at from, which must stay below
\* limit (SYM_ADD); t and a: the table bytes and the array flag before it.
AddSymbols(from, limit, t, a) ==
  \E n \in SymBytes, t2 \in TableBytes, b \in BOOLEAN :
    /\ n = 0 => t2 = t /\ b = a
    /\ n > 0 => from + n < limit
    /\ t <= t2 /\ (a => b) /\ (b /\ ~a => t < t2)
    /\ SYM_END_V' = from + n /\ tab' = t2 /\ ARRSYM' = b

\* COMPILER_INIT and COMPILE_PROGRAM: a new table at the program's end.  An empty
\* program compiles, to nothing.
HasText == PROG_END > PROG_AREA_START
CompileStored ==
  /\ phase = "prompt"
  /\ SYM_BASE_V' = PROG_END
  /\ AddSymbols(PROG_END, V2_SOURCE_END, 0, FALSE)
  /\ SYM_END_V' > PROG_END => HasText
  /\ UNCHANGED <<PROG_END, PAS_END, SESS_SAVE, GFX_MODE>>

\* (Mutant of StartVM: ARR_RUN_INIT leaves segment 2 as VM_INIT set it.)
StartVMWithoutRunInit ==
  /\ SESS_ARENA_BASE' = SYM_END_V' + SESS_GAP + 1
  /\ ARRAYS_END' = SESS_ARENA_BASE'
  /\ RT_SYMTAB_PTR' = TableBase(tab')
  /\ VARS_START' = RT_SYMTAB_PTR'
  /\ ARR2_END' = ARR2_BASE /\ displaced' = FALSE
  /\ \/ /\ ARRAYS_END' <= RT_SYMTAB_PTR'
        /\ carved' = TRUE /\ VM_CSP' = RT_SYMTAB_PTR'
     \/ /\ ARRAYS_END' > RT_SYMTAB_PTR'
        /\ carved' = FALSE /\ VM_CSP' = VM_CSP

\* VM_INIT, then ARR_RUN_INIT unless the tables do not fit (error 64): then the
\* bases are lowered already, and the control stack and the tables stay stale.
\* ARR_RUN_INIT tells by VM_HALTED: a BREAK accepted since VM_INIT cleared it also
\* keeps it from putting overflow arrays above the Array Store.
StartVM ==
  /\ SESS_ARENA_BASE' = SYM_END_V' + SESS_GAP + 1
  /\ ARRAYS_END' = SESS_ARENA_BASE'
  /\ RT_SYMTAB_PTR' = TableBase(tab')
  /\ VARS_START' = RT_SYMTAB_PTR'
  /\ displaced' = FALSE
  /\ \/ /\ ARRAYS_END' <= RT_SYMTAB_PTR' /\ carved' = TRUE
        /\ VM_CSP' = RT_SYMTAB_PTR'
        /\ ARR2_END' = PAS_END \/ (BreakMidStart /\ ARR2_END' = ARR2_BASE)
     \/ /\ ARRAYS_END' > RT_SYMTAB_PTR' /\ carved' = FALSE
        /\ VM_CSP' = VM_CSP /\ ARR2_END' = ARR2_BASE

\* A compile error leaves the table as far as it got.
CompileError ==
  /\ HasText /\ CompileStored
  /\ SESS_VALID' = FALSE /\ carved' = FALSE /\ displaced' = FALSE /\ phase' = "prompt"
  /\ UNCHANGED <<SESS_ARENA_BASE, ARRAYS_END, VM_CSP, VARS_START, RT_SYMTAB_PTR, ARR2_END>>

\* What StartVM leaves can run; a stored array of another size (error 65) or a
\* BREAK still stops it first.
Startable == carved /\ ARR2_END = PAS_END

\* RUN.
RunStored ==
  /\ CompileStored /\ StartVM
  /\ SESS_VALID' = TRUE
  /\ phase' \in IF Startable' THEN {"run", "prompt"} ELSE {"prompt"}

\* V2_ENSURE_SESSION for an immediate statement or for SAVE ... ALL; an error of
\* StartVM is not looked at.
EnsureSession ==
  /\ ~SESS_VALID
  /\ CompileStored /\ StartVM
  /\ SESS_VALID' = TRUE
  /\ phase' \in {"ensured", "prompt"}

\* V2_RUN_IMMEDIATE.alone: the program does not compile, the statement does.
RunAlone ==
  /\ ~SESS_VALID /\ HasText
  /\ CompileStored /\ StartVM
  /\ SESS_VALID' = FALSE
  /\ phase' \in IF Startable' THEN {"run", "prompt"} ELSE {"prompt"}

\* (Mutant of ImmCompile: COMPILER_INIT_SESSION keeps the whole pool as limit.)
ImmCompileNoLimit ==
  /\ phase = "ensured" \/ (phase = "prompt" /\ SESS_VALID)
  /\ SESS_SAVE' = [SYM_BASE_V |-> SYM_BASE_V, SYM_END_V |-> SYM_END_V,
                   RT_SYMTAB_PTR |-> RT_SYMTAB_PTR, tab |-> tab, ARRSYM |-> ARRSYM]
  /\ AddSymbols(SYM_END_V, V2_SOURCE_END, tab, ARRSYM)
  /\ phase' = "compiled"
  /\ UNCHANGED <<PROG_END, SYM_BASE_V, SESS_ARENA_BASE, ARRAYS_END, VM_CSP, VARS_START,
                 RT_SYMTAB_PTR, segment, SESS_VALID, GFX_MODE, carved, displaced>>

\* V2_RUN_IMMEDIATE.session: the cells are saved and the statement compiled; its
\* symbols go into the gap below the arena.
ImmCompile ==
  /\ phase = "ensured" \/ (phase = "prompt" /\ SESS_VALID)
  /\ SESS_SAVE' = [SYM_BASE_V |-> SYM_BASE_V, SYM_END_V |-> SYM_END_V,
                   RT_SYMTAB_PTR |-> RT_SYMTAB_PTR, tab |-> tab, ARRSYM |-> ARRSYM]
  /\ AddSymbols(SYM_END_V, SESS_ARENA_BASE, tab, ARRSYM)
  /\ phase' = "compiled"
  /\ UNCHANGED <<PROG_END, SYM_BASE_V, SESS_ARENA_BASE, ARRAYS_END, VM_CSP, VARS_START,
                 RT_SYMTAB_PTR, segment, SESS_VALID, GFX_MODE, carved, displaced>>

\* V2_SESSION_UNDO: back to the cells saved before the statement compiled.
UndoCells ==
  /\ SYM_BASE_V' = SESS_SAVE.SYM_BASE_V /\ SYM_END_V' = SESS_SAVE.SYM_END_V
  /\ RT_SYMTAB_PTR' = SESS_SAVE.RT_SYMTAB_PTR /\ VARS_START' = SESS_SAVE.RT_SYMTAB_PTR
  /\ tab' = SESS_SAVE.tab /\ ARRSYM' = SESS_SAVE.ARRSYM
  /\ SESS_SAVE' = NoSave /\ phase' = "prompt"
  /\ UNCHANGED <<PROG_END, SESS_ARENA_BASE, ARRAYS_END, segment, SESS_VALID, GFX_MODE, carved>>

\* The statement was refused (a compile error, a definition, a size mismatch, or
\* no room for its slots).
ImmUndo ==
  /\ phase = "compiled"
  /\ UndoCells
  /\ UNCHANGED <<VM_CSP, displaced>>

\* BREAK is accepted while VM_INIT_SESSION moves the tables.  V2_RUN_IMMEDIATE
\* takes the halt for error 64 and undoes the cells; nothing moves the values of
\* a session whose tables had grown back.
ImmBreak ==
  /\ BreakMidStart /\ phase = "compiled"
  /\ ARRAYS_END <= TableBase(tab)
  /\ UndoCells
  /\ VM_CSP' = TableBase(tab)
  /\ displaced' = (displaced \/ tab # SESS_SAVE.tab)

\* (Mutant of ImmCarve: VM_CARVE_PTRS without its fit check.)
ImmCarveUnchecked ==
  /\ phase = "compiled"
  /\ RT_SYMTAB_PTR' = TableBase(tab)
  /\ VARS_START' = RT_SYMTAB_PTR' /\ VM_CSP' = RT_SYMTAB_PTR'
  /\ carved' = TRUE /\ SESS_SAVE' = NoSave /\ phase' = "run"
  /\ UNCHANGED <<pool, tab, segment, SESS_VALID, GFX_MODE, ARRSYM, displaced>>

\* VM_INIT_SESSION with room for the slots: the tables move down, the arena and
\* segment 2 stay, the control stack starts empty.
ImmCarve ==
  /\ phase = "compiled"
  /\ ARRAYS_END <= TableBase(tab)
  /\ RT_SYMTAB_PTR' = TableBase(tab)
  /\ VARS_START' = RT_SYMTAB_PTR' /\ VM_CSP' = RT_SYMTAB_PTR'
  /\ carved' = TRUE /\ SESS_SAVE' = NoSave /\ phase' = "run"
  /\ UNCHANGED <<pool, tab, segment, SESS_VALID, GFX_MODE, ARRSYM, displaced>>

-----------------------------------------------------------------------------
\* The running program.

\* DIM: the arena if the array ends below the control stack, else segment 2 if
\* it ends below the segment's top (VM_ARENA_FIT), else error 64 (Stop).
Dim ==
  /\ phase = "run"
  /\ \E n \in ArrayBytes :
       \/ /\ ARRAYS_END + n < VM_CSP
          /\ ARRAYS_END' = ARRAYS_END + n /\ UNCHANGED ARR2_END
       \/ /\ ARRAYS_END + n >= VM_CSP /\ ARR2_END + n < ARR2_TOP
          /\ ARR2_END' = ARR2_END + n /\ UNCHANGED ARRAYS_END
  /\ UNCHANGED <<PROG_END, SYM_BASE_V, SYM_END_V, SESS_ARENA_BASE, tables, PAS_END,
                 SESS_VALID, GFX_MODE, SESS_SAVE, phase, ghosts>>

\* FOR, CALL and parameter frames (VM_CS_ALLOC); no room is a run-time error.
PushFrame ==
  /\ phase = "run"
  /\ \E n \in FrameBytes : VM_CSP - n >= ARRAYS_END /\ VM_CSP' = VM_CSP - n
  /\ UNCHANGED <<pool, VARS_START, RT_SYMTAB_PTR, tab, segment, SESS_VALID, GFX_MODE,
                 SESS_SAVE, phase, ghosts>>

\* NEXT, RET and friends drop the frames above an older one.
PopFrames ==
  /\ phase = "run"
  /\ \E c \in (VM_CSP + 1)..VARS_START : VM_CSP' = c
  /\ UNCHANGED <<pool, VARS_START, RT_SYMTAB_PTR, tab, segment, SESS_VALID, GFX_MODE,
                 SESS_SAVE, phase, ghosts>>

\* CLEAR (MEM_CLEAR_V2, OP_CLEAR): arena and segment 2 restart, the store stays,
\* FOR frames above the innermost CALL are dropped.  ARR_RUN_INIT leaves segment
\* 2 as it is once a BREAK was accepted, which ends the run.
ClearStatement ==
  /\ phase = "run"
  /\ ARRAYS_END' = SESS_ARENA_BASE
  /\ \/ ARR2_END' = PAS_END /\ UNCHANGED <<GFX_MODE, phase>>
     \/ phase' = "prompt" /\ GFX_MODE' = 0 /\ UNCHANGED ARR2_END
  /\ \E c \in VM_CSP..VARS_START : VM_CSP' = c
  /\ UNCHANGED <<PROG_END, SYM_BASE_V, SYM_END_V, SESS_ARENA_BASE, VARS_START, RT_SYMTAB_PTR,
                 tab, PAS_END, SESS_VALID, SESS_SAVE, ghosts>>

\* GFX_SET_MODE: MODE 1 is refused (error 64: Stop) while segment 2 reaches into
\* the attribute file.
SetMode ==
  /\ phase = "run"
  /\ \/ GFX_MODE' = 0
     \/ GFX_MODE' = 1 /\ ARR2_END <= SECOND_DISPLAY_ADDR
  /\ UNCHANGED <<pool, tables, segment, SESS_VALID, SESS_SAVE, phase, ghosts>>

\* END, STOP, BREAK or an error; the editor resets the video mode.
Stop ==
  /\ phase = "run"
  /\ phase' = "prompt" /\ GFX_MODE' = 0
  /\ UNCHANGED <<pool, tables, segment, SESS_VALID, SESS_SAVE, ghosts>>

-----------------------------------------------------------------------------
\* NEW and the tape.

\* NEW empties the Array Store as well.
New ==
  /\ phase = "prompt"
  /\ ClearArrays(PROG_AREA_START, ARR2_BASE) /\ PAS_END' = ARR2_BASE
  /\ Undisturbed

\* (Mutants of LoadArray: no check of the store's room; the session survives.)
LoadArrayNoRoomCheck ==
  /\ phase = "prompt"
  /\ ClearArrays(PROG_END, PAS_END)
  /\ \E nl \in ArrayBytes : PAS_END' = PAS_END + nl
  /\ Undisturbed
LoadArrayInSession ==
  /\ phase = "prompt"
  /\ \E nl \in ArrayBytes : PAS_END + nl <= ARR2_LIMIT /\ PAS_END' = PAS_END + nl
  /\ Undisturbed
  /\ UNCHANGED <<PROG_END, SYM_BASE_V, SYM_END_V, ARRAYS_END, VARS_START, tab, ARR2_END,
                 SESS_VALID, ghosts>>

\* LOAD ... ARRAY: the live arrays go; then either nothing more happens, or an
\* entry of el bytes (0: none of that name) is replaced by one of nl bytes.
LoadArray ==
  /\ phase = "prompt"
  /\ ClearArrays(PROG_END, PAS_END)
  /\ \/ UNCHANGED PAS_END
     \/ \E nl \in ArrayBytes, el \in ArrayBytes \cup {0} :
          /\ ARR2_BASE <= PAS_END - el
          /\ PAS_END' = PAS_END - el + nl /\ PAS_END' <= ARR2_LIMIT
  /\ Undisturbed

\* LOAD of a plain program: loaded; or the pool was written and nothing in it can
\* be trusted, or the program is longer than the pool (MEM_INIT_V2).  A load that
\* wrote nothing changes nothing.
LoadProgram ==
  /\ phase = "prompt"
  /\ \E n \in ProgLens :
       ClearArrays(IF PROG_AREA_START + n <= V2_SOURCE_END
                   THEN PROG_AREA_START + n ELSE PROG_AREA_START, PAS_END)
  /\ Undisturbed /\ UNCHANGED PAS_END

\* LOAD ... EXT and ... CODE end the session and touch nothing else.
LoadExtOrCode ==
  /\ phase = "prompt"
  /\ SESS_VALID' = FALSE
  /\ UNCHANGED <<pool, tables, segment, GFX_MODE, SESS_SAVE, phase, ghosts>>

\* SA_CHAIN: the cells on a tape form one nondecreasing chain of addresses.
ChainHolds(c) ==
  /\ ARR2_BASE <= c.PAS_END /\ c.PAS_END <= c.ARR2_END /\ c.ARR2_END <= ARR2_LIMIT
  /\ c.PROG_END = c.SYM_BASE_V /\ c.SYM_BASE_V <= c.SYM_END_V
  /\ c.SYM_END_V <= c.SESS_ARENA_BASE /\ c.SESS_ARENA_BASE <= c.ARRAYS_END
  /\ c.ARRAYS_END <= c.RT_SYMTAB_PTR /\ c.RT_SYMTAB_PTR <= V2_SOURCE_END

\* The cells of a tape whose state turned out unusable have been installed when
\* the program alone is kept; the caller clears the arrays.
KeepProgramOnly(c, s) ==
  /\ ClearArrays(c.PROG_END, s) /\ PAS_END' = s
  /\ SESS_ARENA_BASE' = c.SESS_ARENA_BASE /\ VM_CSP' = c.VM_CSP
  /\ RT_SYMTAB_PTR' = c.RT_SYMTAB_PTR

\* The last check passed: SA_FINISH.
RestoreSession(c) ==
  /\ PROG_END' = c.PROG_END /\ SYM_BASE_V' = c.SYM_BASE_V /\ SYM_END_V' = c.SYM_END_V
  /\ SESS_ARENA_BASE' = c.SESS_ARENA_BASE /\ ARRAYS_END' = c.ARRAYS_END
  /\ RT_SYMTAB_PTR' = c.RT_SYMTAB_PTR /\ VARS_START' = c.RT_SYMTAB_PTR
  /\ VM_CSP' = c.RT_SYMTAB_PTR /\ tab' = c.tab
  /\ PAS_END' = c.PAS_END /\ ARR2_END' = c.ARR2_END
  /\ ARRSYM' = c.ARRSYM /\ carved' = c.carved /\ displaced' = FALSE /\ SESS_VALID' = TRUE

\* LOAD of a SAVE ... ALL tape.  Block 1 can be corrupt (MEM_INIT_V2) or from
\* another ROM (program only); its cells can fail the chain (the store is kept);
\* block 2 can fail (the store is lost); or the saved session becomes current.
LoadAll ==
  /\ phase = "prompt"
  /\ \E c \in TapeSessions :
       \/ /\ ClearArrays(PROG_AREA_START, PAS_END)
          /\ UNCHANGED <<PAS_END, SESS_ARENA_BASE, VM_CSP, RT_SYMTAB_PTR>>
       \/ /\ ClearArrays(c.PROG_END, PAS_END)
          /\ UNCHANGED <<PAS_END, SESS_ARENA_BASE, VM_CSP, RT_SYMTAB_PTR>>
       \/ ~ChainHolds(c) /\ KeepProgramOnly(c, PAS_END)
       \/ ChainHolds(c) /\ KeepProgramOnly(c, ARR2_BASE)
       \/ ChainHolds(c) /\ RestoreSession(c)
  /\ UNCHANGED <<SESS_SAVE, GFX_MODE, phase>>

-----------------------------------------------------------------------------
\* Cold start: MEM_COLD_INIT zeroes the cells, MEM_INIT and V2_EXROM_ENTRY set
\* the program's and the store's.
Init ==
  /\ PROG_END = PROG_AREA_START /\ ARRAYS_END = PROG_AREA_START
  /\ SYM_BASE_V = 0 /\ SYM_END_V = 0 /\ SESS_ARENA_BASE = 0
  /\ VM_CSP = 0 /\ RT_SYMTAB_PTR = 0 /\ tab = 0
  /\ VARS_START = V2_SOURCE_END
  /\ PAS_END = ARR2_BASE /\ ARR2_END = 0
  /\ SESS_VALID = FALSE /\ GFX_MODE = 0 /\ phase = "prompt"
  /\ SESS_SAVE = NoSave
  /\ ARRSYM = FALSE /\ carved = FALSE /\ displaced = FALSE

Edit == StoreLine \/ DeleteLine \/ InsertBlank
StartProgram == CompileError \/ RunStored \/ EnsureSession \/ RunAlone
Immediate == ImmCompile \/ ImmUndo \/ ImmBreak \/ ImmCarve
RunStep == Dim \/ PushFrame \/ PopFrames \/ ClearStatement \/ SetMode \/ Stop
TapeCommand == LoadArray \/ LoadProgram \/ LoadExtOrCode \/ LoadAll

Next == Edit \/ StartProgram \/ Immediate \/ RunStep \/ New \/ TapeCommand

Spec == Init /\ [][Next]_vars

-----------------------------------------------------------------------------
\* Properties.

\* The type invariant, in two halves; the Array Store stays inside segment 2.
CellsOK ==
  /\ PROG_END \in Nat /\ SYM_BASE_V \in Nat /\ SYM_END_V \in Nat
  /\ SESS_ARENA_BASE \in Nat /\ ARRAYS_END \in Nat /\ VM_CSP \in Nat
  /\ VARS_START \in Nat /\ RT_SYMTAB_PTR \in Nat /\ tab \in Nat
  /\ PAS_END \in ARR2_BASE..ARR2_LIMIT /\ ARR2_END \in 0..ARR2_LIMIT
  /\ GFX_MODE \in {0, 1} /\ phase \in Phases

FlagsOK ==
  /\ SESS_VALID \in BOOLEAN /\ ARRSYM \in BOOLEAN /\ carved \in BOOLEAN
  /\ displaced \in BOOLEAN
  /\ SESS_SAVE \in SavedCells

TypeOK == CellsOK /\ FlagsOK

\* The cells a SAVE ... ALL of the current session would write.
LiveCells ==
  [PROG_END |-> PROG_END, SYM_BASE_V |-> SYM_BASE_V, SYM_END_V |-> SYM_END_V,
   SESS_ARENA_BASE |-> SESS_ARENA_BASE, ARRAYS_END |-> ARRAYS_END, VM_CSP |-> VM_CSP,
   RT_SYMTAB_PTR |-> RT_SYMTAB_PTR, tab |-> tab, PAS_END |-> PAS_END,
   ARR2_END |-> ARR2_END, ARRSYM |-> ARRSYM, carved |-> carved]

\* Two ends in segment 2 are in order -- as long as no BREAK can keep ARR_RUN_INIT
\* from putting overflow arrays above the Array Store.
Below(s, e) == BreakMidStart \/ s <= e

\* What is true of the cells of every session, RUN's refusal included: a session
\* whose tables did not fit has them below its (empty) arena's end.
SessionShape(c) ==
  /\ c.SYM_BASE_V <= c.SYM_END_V /\ c.SYM_END_V < c.SESS_ARENA_BASE
  /\ c.SESS_ARENA_BASE <= c.ARRAYS_END
  /\ c.tab \in TableBytes /\ c.RT_SYMTAB_PTR = TableBase(c.tab)
  /\ c.PAS_END \in ARR2_BASE..ARR2_LIMIT /\ c.ARR2_END \in ARR2_BASE..ARR2_LIMIT
  /\ c.carved <=> c.ARRAYS_END <= c.RT_SYMTAB_PTR
  /\ c.carved => /\ c.ARRAYS_END <= c.VM_CSP /\ c.VM_CSP <= c.RT_SYMTAB_PTR
                 /\ Below(c.PAS_END, c.ARR2_END)

\* Every tape at hand was written by SAVE ... ALL.  (SessionInv shows that what it
\* writes satisfies this.)
ASSUME TapeAssumption ==
  TapeSessions \subseteq {c \in SessionCells : SessionShape(c)}

\* The session's borders.  Whenever a session exists and no statement is being
\* compiled into it, symbol table, arena, control stack and run-time tables lie
\* in this order without overlap, and the tables are those its symbols need --
\* after a run, an undone or a refused statement, and a LOAD of a session alike.
SessionInv ==
  SESS_VALID /\ phase # "compiled" => SessionShape(LiveCells) /\ VARS_START = RT_SYMTAB_PTR

\* While bytecode runs (in a session or alone) every array and every frame has
\* its own bytes: arena below control stack below tables ...
RunInv ==
  phase = "run" =>
    /\ SYM_END_V < SESS_ARENA_BASE /\ SESS_ARENA_BASE <= ARRAYS_END
    /\ ARRAYS_END <= VM_CSP /\ VM_CSP <= VARS_START
    /\ VARS_START = TableBase(tab) /\ carved

\* ... and overflow arrays lie between the Array Store and the segment's top,
\* which MODE 1 lowers under them only when they leave room -- unless a BREAK was
\* accepted while the tables were built (ArraysAboveStore, below).
SegmentTwo ==
  phase = "run" => PAS_END <= ARR2_END /\ ARR2_END <= ARR2_TOP

\* The session as its user sees it.  Until an immediate statement is accepted it
\* is what SESS_SAVE says: its half-added symbols are nobody's.
Names == IF phase = "compiled" THEN SESS_SAVE.SYM_END_V - SESS_SAVE.SYM_BASE_V
         ELSE SYM_END_V - SYM_BASE_V
Tables == IF phase = "compiled" THEN SESS_SAVE.tab ELSE tab
Arena == ARRAYS_END - SESS_ARENA_BASE
Overflow == IF carved THEN ARR2_END - PAS_END ELSE 0

SessionView ==
  IF SESS_VALID
  THEN [names |-> Names, tables |-> Tables, arena |-> Arena, overflow |-> Overflow]
  ELSE [names |-> 0, tables |-> 0, arena |-> 0, overflow |-> 0]

TapeView(c) ==
  [session |-> [names    |-> c.SYM_END_V - c.SYM_BASE_V,
                tables   |-> c.tab,
                arena    |-> c.ARRAYS_END - c.SESS_ARENA_BASE,
                overflow |-> c.ARR2_END - c.PAS_END],
   store   |-> c.PAS_END - ARR2_BASE]

Contract == INSTANCE SessionContract
  WITH live <- SESS_VALID, session <- SessionView, store <- PAS_END - ARR2_BASE,
       Saved <- {TapeView(c) : c \in {t \in TapeSessions : ChainHolds(t)}}

\* The lifecycle of docs/V2_SESSION_VARIABLES.md: a refused statement leaves the
\* session exactly as it was, arrays survive until they are replaced, the store
\* changes only when the session ends, and a LOAD restores all of it or nothing.
HonoursContract == Contract!Spec

-----------------------------------------------------------------------------
\* What the documents say of the program and the code does not keep (see the
\* findings in the README).

\* "source text can never overwrite live array descriptors": the program's text
\* ends where a live session's symbol table begins.
SourceBelowSession == SESS_VALID => PROG_END <= SYM_BASE_V

\* "Ceiling is VARS_START": the stored text ends at or below the bytecode area.
ProgramBelowCode == PROG_END <= V2_SOURCE_END

\* "ARR2_END >= PAS_END at all times", asked of live sessions only.
StoreInsideSegment == SESS_VALID => PAS_END <= ARR2_END

\* The store is kept and arrays are made above it, also when RUN was stopped by
\* BREAK: an immediate statement never has arrays inside the Array Store.
ArraysAboveStore == phase = "run" => PAS_END <= ARR2_END

\* "The session keeps its old tables": after a refused statement the values are
\* still where the tables are.
ValuesInPlace == SESS_VALID /\ phase = "prompt" => ~displaced

\* "SAVE ... ARRAY can never read stale ones": at the prompt, an array the symbol
\* table knows has a pointer slot that was carved for it.
ArraySlotsCurrent == phase = "prompt" /\ ARRSYM => carved
=============================================================================
