--------------------------- MODULE SessionProofs ---------------------------
(***************************************************************************)
(* Session's borders hold for every pool, every segment and every size of  *)
(* line, symbol, table, array and frame, and the session honours its        *)
(* contract.                                                                *)
(*                                                                         *)
(* The properties are not inductive alone: while an immediate statement is *)
(* compiled the symbol table runs ahead of the tables, and what makes      *)
(* V2_SESSION_UNDO right is what SESS_SAVE holds then (Pending).            *)
(***************************************************************************)
EXTENDS Session, TLAPS

\* While a statement is compiled into the session: the session as it was, with
\* more symbols, and the saved cells to go back to.
Pending ==
  /\ phase = "ensured" => SESS_VALID
  /\ phase # "run" => GFX_MODE = 0
  /\ phase = "compiled" =>
       /\ SESS_VALID
       /\ SESS_SAVE.SYM_BASE_V = SYM_BASE_V /\ SESS_SAVE.RT_SYMTAB_PTR = RT_SYMTAB_PTR
       /\ SYM_BASE_V <= SESS_SAVE.SYM_END_V /\ SESS_SAVE.SYM_END_V <= SYM_END_V
       /\ SYM_END_V < SESS_ARENA_BASE /\ SESS_ARENA_BASE <= ARRAYS_END
       /\ SESS_SAVE.tab <= tab /\ tab \in TableBytes
       /\ SESS_SAVE.tab \in TableBytes
       /\ RT_SYMTAB_PTR = TableBase(SESS_SAVE.tab) /\ VARS_START = RT_SYMTAB_PTR
       /\ ARR2_BASE <= ARR2_END
       /\ carved <=> ARRAYS_END <= RT_SYMTAB_PTR
       /\ carved => /\ ARRAYS_END <= VM_CSP /\ VM_CSP <= RT_SYMTAB_PTR
                    /\ Below(PAS_END, ARR2_END)

\* What a running program adds to RunInv.
Running ==
  phase = "run" =>
    tab \in TableBytes /\ RT_SYMTAB_PTR = TableBase(tab) /\ ARR2_BASE <= ARR2_END

\* SegmentTwo, as far as a BREAK while the tables are built leaves it.
Segment ==
  phase = "run" => Below(PAS_END, ARR2_END) /\ Below(ARR2_END, ARR2_TOP)

IInv == TypeOK /\ SessionInv /\ RunInv /\ Segment /\ Pending /\ Running

\* The assumptions in the form the steps use.
LEMMA Layout ==
  /\ PROG_AREA_START \in Nat /\ V2_SOURCE_END \in Nat /\ ARR2_BASE \in Nat
  /\ SECOND_DISPLAY_ADDR \in Nat /\ ARR2_LIMIT \in Nat /\ SESS_GAP \in Nat
  /\ TEMP_BYTES \in Nat
  /\ ARR2_BASE < SECOND_DISPLAY_ADDR /\ SECOND_DISPLAY_ADDR < ARR2_LIMIT
  /\ ARR2_LIMIT <= PROG_AREA_START /\ PROG_AREA_START < V2_SOURCE_END
  BY LayoutAssumption

LEMMA TableBaseType ==
  \A t \in TableBytes : t \in Nat /\ TableBase(t) \in Nat /\ TableBase(t) <= V2_SOURCE_END
  BY Layout, SizesAssumption DEF TableBase

LEMMA AddSymbolsAdds ==
  ASSUME NEW from \in Nat, NEW limit \in Nat, NEW t \in Nat, NEW a \in BOOLEAN,
         AddSymbols(from, limit, t, a)
  PROVE  /\ SYM_END_V' \in Nat /\ from <= SYM_END_V'
         /\ SYM_END_V' = from \/ SYM_END_V' < limit
         /\ tab' \in TableBytes /\ tab' \in Nat /\ t <= tab'
         /\ ARRSYM' \in BOOLEAN
<1>1. PICK n \in SymBytes, t2 \in TableBytes, b \in BOOLEAN :
        /\ n > 0 => from + n < limit
        /\ t <= t2
        /\ SYM_END_V' = from + n /\ tab' = t2 /\ ARRSYM' = b
  BY Zenon DEF AddSymbols
<1>2. n \in Nat /\ t2 \in Nat
  BY SizesAssumption, TableBaseType
<1>3. ARRSYM' \in BOOLEAN
  BY <1>1, Zenon
<1> QED BY <1>1, <1>2, <1>3

LEMMA BelowFacts ==
  /\ \A s \in Nat : Below(s, s)
  /\ \A s, e, t \in Nat : Below(s, e) /\ Below(e, t) => Below(s, t)
  /\ \A s, e \in Nat : s <= e => Below(s, e)
  BY DEF Below

LEMMA TopOfTwo == ARR2_TOP \in Nat /\ ARR2_TOP <= ARR2_LIMIT
  BY Layout DEF ARR2_TOP

LEMMA NoSaveType == NoSave \in SavedCells
  BY DEF NoSave, SavedCells

LEMMA InitInv == Init => IInv
<1> SUFFICES ASSUME Init PROVE IInv
  OBVIOUS
<1>1. CellsOK
  BY Layout DEF Init, CellsOK, Phases
<1>2. FlagsOK
  BY NoSaveType, Zenon DEF Init, FlagsOK
<1>3. SessionInv /\ RunInv /\ Segment /\ Pending /\ Running
  BY DEF Init, SessionInv, RunInv, Segment, Pending, Running
<1> QED BY <1>1, <1>2, <1>3 DEF IInv, TypeOK

\* SessionInv's shape, for the cells as they are.
Live ==
  /\ SYM_BASE_V <= SYM_END_V /\ SYM_END_V < SESS_ARENA_BASE
  /\ SESS_ARENA_BASE <= ARRAYS_END
  /\ tab \in TableBytes /\ RT_SYMTAB_PTR = TableBase(tab) /\ VARS_START = RT_SYMTAB_PTR
  /\ PAS_END \in ARR2_BASE..ARR2_LIMIT /\ ARR2_END \in ARR2_BASE..ARR2_LIMIT
  /\ carved <=> ARRAYS_END <= RT_SYMTAB_PTR
  /\ carved => /\ ARRAYS_END <= VM_CSP /\ VM_CSP <= RT_SYMTAB_PTR
               /\ Below(PAS_END, ARR2_END)

LEMMA LiveShape ==
  /\ SessionInv <=> (SESS_VALID /\ phase # "compiled" => Live)
  /\ SessionInv' <=> (SESS_VALID' /\ phase' # "compiled" => Live')
  BY DEF SessionInv, SessionShape, LiveCells, Live

-----------------------------------------------------------------------------
\* Everything that clears the arrays at the prompt.
LEMMA ClearKeeps ==
  ASSUME IInv, phase = "prompt", NEW p \in Nat, NEW s \in ARR2_BASE..ARR2_LIMIT,
         ClearArrays(p, s), PAS_END' \in ARR2_BASE..ARR2_LIMIT,
         SESS_ARENA_BASE' \in Nat, VM_CSP' \in Nat, RT_SYMTAB_PTR' \in Nat,
         UNCHANGED <<SESS_SAVE, GFX_MODE, phase>>
  PROVE  IInv'
<1>1. CellsOK'
  BY Layout DEF IInv, TypeOK, CellsOK, Phases, ClearArrays
<1>2. FlagsOK'
  BY Zenon DEF IInv, TypeOK, FlagsOK, ClearArrays
<1>3. SessionInv' /\ RunInv' /\ Segment' /\ Running'
  BY DEF SessionInv, RunInv, Segment, Running, ClearArrays
<1>4. Pending'
  BY DEF IInv, Pending, ClearArrays
<1> QED BY <1>1, <1>2, <1>3, <1>4 DEF IInv, TypeOK

-----------------------------------------------------------------------------
\* The editor.
LEMMA StoreLineKeeps == IInv /\ StoreLine => IInv'
<1> SUFFICES ASSUME IInv, StoreLine PROVE IInv'
  OBVIOUS
<1>1. PICK new \in LineLens, old \in LineLens \cup {0} :
        /\ old = 0 \/ StoredLine(old)
        /\ ClearArrays(IF StoreFits(new, old, V2_SOURCE_END)
                        THEN AfterStore(new, old) ELSE PROG_END, PAS_END)
  BY DEF StoreLine
<1>2. AfterStore(new, old) \in Nat
  BY <1>1, Layout, SizesAssumption
  DEF IInv, TypeOK, CellsOK, StoredLine, AfterStore, LineTotal, LINE_LEN_SIZE
<1> QED BY <1>1, <1>2, ClearKeeps DEF IInv, TypeOK, CellsOK, StoreLine, Undisturbed

\* The editor's two commands that leave the session alone move PROG_END only.
LEMMA NavKeeps == IInv /\ (DeleteLine \/ InsertBlank) => IInv'
<1> SUFFICES ASSUME IInv, DeleteLine \/ InsertBlank PROVE IInv'
  OBVIOUS
<1>1. PROG_END' \in Nat
  <2>1. CASE DeleteLine
    BY <2>1, Layout, SizesAssumption
    DEF IInv, TypeOK, CellsOK, DeleteLine, StoredLine, LineTotal, LINE_LEN_SIZE
  <2>2. CASE InsertBlank
    BY <2>2 DEF IInv, TypeOK, CellsOK, InsertBlank, BLANK_TOTAL, LINE_LEN_SIZE
  <2> QED BY <2>1, <2>2
<1>2. UNCHANGED <<SYM_BASE_V, SYM_END_V, SESS_ARENA_BASE, ARRAYS_END, tables, segment,
                  SESS_VALID, GFX_MODE, SESS_SAVE, phase, ghosts>>
  BY Zenon DEF DeleteLine, InsertBlank, Undisturbed, tables
<1> QED
  BY <1>1, <1>2
  DEF IInv, TypeOK, CellsOK, FlagsOK, SessionInv, SessionShape, LiveCells, RunInv,
      Segment, ARR2_TOP, Pending, Running, tables, segment, ghosts

-----------------------------------------------------------------------------
\* Compiling and starting a program.
LEMMA CompileStoredMakes ==
  ASSUME IInv, CompileStored
  PROVE  /\ phase = "prompt" /\ SYM_BASE_V' = PROG_END /\ SYM_BASE_V' \in Nat
         /\ SYM_END_V' \in Nat /\ SYM_BASE_V' <= SYM_END_V'
         /\ tab' \in TableBytes /\ tab' \in Nat
         /\ TableBase(tab') \in Nat
         /\ ARRSYM' \in BOOLEAN
         /\ UNCHANGED <<PROG_END, PAS_END, SESS_SAVE, GFX_MODE>>
<1>1. PROG_END \in Nat /\ V2_SOURCE_END \in Nat /\ 0 \in Nat /\ FALSE \in BOOLEAN
  BY Layout DEF IInv, TypeOK, CellsOK
<1>2. /\ SYM_END_V' \in Nat /\ PROG_END <= SYM_END_V'
      /\ tab' \in TableBytes /\ tab' \in Nat /\ ARRSYM' \in BOOLEAN
  BY <1>1, AddSymbolsAdds, Zenon DEF CompileStored
<1> QED BY <1>1, <1>2, TableBaseType DEF CompileStored

LEMMA CompileErrorKeeps == IInv /\ CompileError => IInv'
<1> SUFFICES ASSUME IInv, CompileError PROVE IInv'
  OBVIOUS
<1> USE CompileStoredMakes DEF CompileError
<1>1. CellsOK'
  BY DEF IInv, TypeOK, CellsOK, Phases
<1>2. FlagsOK'
  BY Zenon DEF IInv, TypeOK, FlagsOK
<1>3. SessionInv' /\ RunInv' /\ Segment' /\ Running' /\ Pending'
  BY DEF IInv, SessionInv, RunInv, Segment, Running, Pending
<1> QED BY <1>1, <1>2, <1>3 DEF IInv, TypeOK

\* VM_INIT gives every session its shape, whether or not the tables fit ...
LEMMA StartVMCells ==
  ASSUME IInv, CompileStored, StartVM
  PROVE  /\ SYM_BASE_V' \in Nat /\ SYM_END_V' \in Nat /\ SESS_ARENA_BASE' \in Nat
         /\ ARRAYS_END' \in Nat /\ VM_CSP' \in Nat /\ RT_SYMTAB_PTR' \in Nat
         /\ tab' \in Nat /\ VARS_START' = RT_SYMTAB_PTR'
         /\ PROG_END' \in Nat /\ PAS_END' \in ARR2_BASE..ARR2_LIMIT
         /\ ARR2_END' \in ARR2_BASE..ARR2_LIMIT
         /\ SYM_BASE_V' <= SYM_END_V' /\ SYM_END_V' < SESS_ARENA_BASE'
         /\ SESS_ARENA_BASE' <= ARRAYS_END'
         /\ tab' \in TableBytes /\ RT_SYMTAB_PTR' = TableBase(tab')
         /\ ARRAYS_END' <= RT_SYMTAB_PTR' => /\ ARRAYS_END' <= VM_CSP'
                                             /\ VM_CSP' <= RT_SYMTAB_PTR'
                                             /\ Below(PAS_END', ARR2_END')
<1>1. /\ SYM_BASE_V' \in Nat /\ SYM_END_V' \in Nat /\ SYM_BASE_V' <= SYM_END_V'
      /\ tab' \in TableBytes /\ tab' \in Nat /\ TableBase(tab') \in Nat
      /\ PROG_END' = PROG_END /\ PAS_END' = PAS_END
  BY CompileStoredMakes, Zenon
<1>2. SESS_ARENA_BASE' = SYM_END_V' + SESS_GAP + 1
  BY Zenon DEF StartVM
<1>3. ARRAYS_END' = SESS_ARENA_BASE' /\ RT_SYMTAB_PTR' = TableBase(tab')
      /\ VARS_START' = RT_SYMTAB_PTR'
  BY Zenon DEF StartVM
<1>4. \/ /\ ARRAYS_END' <= RT_SYMTAB_PTR' /\ VM_CSP' = RT_SYMTAB_PTR'
         /\ ARR2_END' = PAS_END \/ (BreakMidStart /\ ARR2_END' = ARR2_BASE)
      \/ ARRAYS_END' > RT_SYMTAB_PTR' /\ VM_CSP' = VM_CSP /\ ARR2_END' = ARR2_BASE
  BY Zenon DEF StartVM
<1>5. PROG_END \in Nat /\ VM_CSP \in Nat /\ PAS_END \in ARR2_BASE..ARR2_LIMIT
  BY Zenon DEF IInv, TypeOK, CellsOK
<1>6. SESS_ARENA_BASE' \in Nat /\ SYM_END_V' < SESS_ARENA_BASE'
  <2>1. SYM_END_V' \in Nat /\ SESS_GAP \in Nat
    BY <1>1, Layout, Zenon
  <2>2. \A a, g \in Nat : a + g + 1 \in Nat /\ a < a + g + 1
    OBVIOUS
  <2> QED BY <1>2, <2>1, <2>2, Zenon
<1>7. ARRAYS_END' \in Nat /\ SESS_ARENA_BASE' <= ARRAYS_END' /\ RT_SYMTAB_PTR' \in Nat
  BY <1>1, <1>3, <1>6
<1>8. VM_CSP' \in Nat
  BY <1>4, <1>5, <1>7, Zenon
<1>9. PAS_END' \in ARR2_BASE..ARR2_LIMIT /\ ARR2_END' \in ARR2_BASE..ARR2_LIMIT
  <2>1. ARR2_BASE \in ARR2_BASE..ARR2_LIMIT
    BY Layout
  <2> QED BY <1>1, <1>4, <1>5, <2>1, Zenon
<1>10. ARRAYS_END' <= RT_SYMTAB_PTR' => /\ ARRAYS_END' <= VM_CSP'
                                        /\ VM_CSP' <= RT_SYMTAB_PTR'
                                        /\ Below(PAS_END', ARR2_END')
  <2> SUFFICES ASSUME ARRAYS_END' <= RT_SYMTAB_PTR'
               PROVE  /\ ARRAYS_END' <= VM_CSP' /\ VM_CSP' <= RT_SYMTAB_PTR'
                      /\ Below(PAS_END', ARR2_END')
    OBVIOUS
  <2>1. ~(ARRAYS_END' > RT_SYMTAB_PTR')
    BY <1>7
  <2>2. /\ VM_CSP' = RT_SYMTAB_PTR'
        /\ ARR2_END' = PAS_END \/ (BreakMidStart /\ ARR2_END' = ARR2_BASE)
    BY <1>4, <2>1, Zenon
  <2>3. RT_SYMTAB_PTR' <= RT_SYMTAB_PTR'
    BY <1>7
  <2>4. PAS_END' \in Nat
    BY <1>9, Layout
  <2>5. Below(PAS_END', ARR2_END')
    BY <1>1, <2>2, <2>4, BelowFacts, Zenon DEF Below
  <2> QED BY <2>2, <2>3, <2>5, Zenon
<1> QED BY <1>1, <1>3, <1>5, <1>6, <1>7, <1>8, <1>9, <1>10, Zenon

LEMMA StartVMFlags ==
  ASSUME IInv, CompileStored, StartVM
  PROVE  /\ SESS_SAVE' = SESS_SAVE /\ GFX_MODE' = 0 /\ ARRSYM' \in BOOLEAN
         /\ carved' \in BOOLEAN /\ displaced' \in BOOLEAN
         /\ carved' => ARRAYS_END' <= RT_SYMTAB_PTR'
         /\ ~carved' => ARRAYS_END' > RT_SYMTAB_PTR'
<1>1. SESS_SAVE' = SESS_SAVE /\ GFX_MODE' = 0 /\ ARRSYM' \in BOOLEAN
  BY CompileStoredMakes, Zenon DEF IInv, Pending
<1>2. (carved' = TRUE \/ carved' = FALSE) /\ displaced' = FALSE
  BY Zenon DEF StartVM
<1>3. carved' => ARRAYS_END' <= RT_SYMTAB_PTR'
  BY Zenon DEF StartVM
<1>4. ~carved' => ARRAYS_END' > RT_SYMTAB_PTR'
  BY Zenon DEF StartVM
<1> QED BY <1>1, <1>2, <1>3, <1>4, Zenon

LEMMA StartVMLive ==
  ASSUME IInv, CompileStored, StartVM PROVE Live'
<1>1. carved' <=> ARRAYS_END' <= RT_SYMTAB_PTR'
  BY StartVMCells, StartVMFlags
<1> QED BY <1>1, StartVMCells, Zenon DEF Live

\* ... and a run only starts when they do.
LEMMA StartVMKeeps ==
  ASSUME IInv, CompileStored, StartVM, SESS_VALID' \in BOOLEAN,
         phase' \in {"ensured", "prompt"} \/ (carved' /\ phase' = "run"),
         phase' = "ensured" => SESS_VALID'
  PROVE  IInv'
<1>1. /\ phase' \in Phases /\ phase' # "compiled"
      /\ phase' = "run" => carved'
  BY DEF Phases
<1>2. CellsOK'
  <2>1. ARR2_END' \in 0..ARR2_LIMIT
    BY StartVMCells, Layout
  <2>2. VARS_START' \in Nat /\ GFX_MODE' \in {0, 1}
    BY StartVMCells, StartVMFlags, Zenon
  <2>3. /\ PROG_END' \in Nat /\ SYM_BASE_V' \in Nat /\ SYM_END_V' \in Nat
        /\ SESS_ARENA_BASE' \in Nat /\ ARRAYS_END' \in Nat /\ VM_CSP' \in Nat
        /\ RT_SYMTAB_PTR' \in Nat /\ tab' \in Nat /\ PAS_END' \in ARR2_BASE..ARR2_LIMIT
    BY StartVMCells, Zenon
  <2> QED BY <1>1, <2>1, <2>2, <2>3, Zenon DEF CellsOK
<1>3. FlagsOK'
  BY StartVMFlags, Zenon DEF IInv, TypeOK, FlagsOK
<1>4. SessionInv' /\ Pending'
  BY <1>1, StartVMLive, StartVMFlags, LiveShape DEF Pending
<1>5. Segment'
  <2>1. ARR2_TOP' = ARR2_LIMIT
    BY StartVMFlags, Zenon DEF ARR2_TOP
  <2>2. ARR2_END' \in Nat /\ ARR2_END' <= ARR2_LIMIT /\ ARR2_LIMIT \in Nat
    BY StartVMCells, Layout
  <2> QED BY <1>1, <2>1, <2>2, StartVMLive, BelowFacts, Zenon DEF Live, Segment
<1>6. ARR2_BASE <= ARR2_END'
  BY StartVMCells, Layout
<1>7. RunInv' /\ Running'
  BY <1>1, <1>6, StartVMLive, Zenon DEF Live, RunInv, Running
<1> QED BY <1>2, <1>3, <1>4, <1>5, <1>7 DEF IInv, TypeOK

LEMMA StartProgramKeeps == IInv /\ StartProgram => IInv'
<1> SUFFICES ASSUME IInv, StartProgram PROVE IInv'
  OBVIOUS
<1>1. CASE CompileError
  BY <1>1, CompileErrorKeeps
<1>2. CASE RunStored
  BY <1>2, StartVMKeeps, Zenon DEF RunStored, Startable
<1>3. CASE EnsureSession
  BY <1>3, StartVMKeeps, Zenon DEF EnsureSession
<1>4. CASE RunAlone
  BY <1>4, StartVMKeeps, Zenon DEF RunAlone, Startable
<1> QED BY <1>1, <1>2, <1>3, <1>4 DEF StartProgram

-----------------------------------------------------------------------------
\* Immediate statements.
LEMMA ImmCompileKeeps == IInv /\ ImmCompile => IInv'
<1> SUFFICES ASSUME IInv, ImmCompile PROVE IInv'
  OBVIOUS
<1>1. /\ SYM_END_V' \in Nat /\ SYM_END_V <= SYM_END_V' /\ SYM_END_V' < SESS_ARENA_BASE
      /\ tab' \in TableBytes /\ tab' \in Nat /\ tab <= tab' /\ ARRSYM' \in BOOLEAN
  <2>1. /\ SYM_END_V \in Nat /\ SESS_ARENA_BASE \in Nat /\ tab \in Nat /\ ARRSYM \in BOOLEAN
        /\ AddSymbols(SYM_END_V, SESS_ARENA_BASE, tab, ARRSYM)
    BY Zenon DEF IInv, TypeOK, CellsOK, FlagsOK, ImmCompile
  <2>2. SYM_END_V < SESS_ARENA_BASE
    BY LiveShape, Zenon DEF IInv, Pending, ImmCompile, Live
  <2>3. /\ SYM_END_V' \in Nat /\ SYM_END_V <= SYM_END_V'
        /\ SYM_END_V' = SYM_END_V \/ SYM_END_V' < SESS_ARENA_BASE
        /\ tab' \in TableBytes /\ tab' \in Nat /\ tab <= tab' /\ ARRSYM' \in BOOLEAN
    BY <2>1, AddSymbolsAdds, Zenon
  <2> QED BY <2>2, <2>3, Zenon
<1>2. /\ UNCHANGED <<PROG_END, SYM_BASE_V, SESS_ARENA_BASE, ARRAYS_END, VM_CSP, VARS_START,
                     RT_SYMTAB_PTR, PAS_END, ARR2_END, SESS_VALID, GFX_MODE, carved, displaced>>
      /\ phase' = "compiled" /\ SESS_VALID
  BY Zenon DEF ImmCompile, segment, IInv, Pending
<1>3. /\ SESS_SAVE' \in SavedCells
      /\ SESS_SAVE'.SYM_BASE_V = SYM_BASE_V /\ SESS_SAVE'.RT_SYMTAB_PTR = RT_SYMTAB_PTR
      /\ SESS_SAVE'.SYM_END_V = SYM_END_V /\ SESS_SAVE'.tab = tab
  BY DEF ImmCompile, SavedCells, IInv, TypeOK, CellsOK, FlagsOK
<1>4. Live
  BY LiveShape, Zenon DEF ImmCompile, IInv, Pending
<1>5. CellsOK'
  BY <1>1, <1>2 DEF IInv, TypeOK, CellsOK, Phases
<1>6. FlagsOK'
  BY <1>1, <1>2, <1>3, Zenon DEF IInv, TypeOK, FlagsOK
<1>7. SessionInv' /\ RunInv' /\ Segment' /\ Running'
  BY <1>2 DEF SessionInv, RunInv, Segment, Running
<1>8. Pending'
  <2>1. /\ SYM_BASE_V' <= SESS_SAVE'.SYM_END_V /\ SESS_SAVE'.SYM_END_V <= SYM_END_V'
        /\ SYM_END_V' < SESS_ARENA_BASE' /\ SESS_ARENA_BASE' <= ARRAYS_END'
        /\ SESS_SAVE'.tab <= tab' /\ tab' \in TableBytes /\ SESS_SAVE'.tab \in TableBytes
        /\ RT_SYMTAB_PTR' = TableBase(SESS_SAVE'.tab) /\ VARS_START' = RT_SYMTAB_PTR'
        /\ SESS_SAVE'.SYM_BASE_V = SYM_BASE_V' /\ SESS_SAVE'.RT_SYMTAB_PTR = RT_SYMTAB_PTR'
    BY <1>1, <1>2, <1>3, <1>4, Zenon DEF Live
  <2>2. ARR2_BASE <= ARR2_END'
    BY <1>2, <1>4, Layout DEF Live
  <2>3. /\ carved' <=> ARRAYS_END' <= RT_SYMTAB_PTR'
        /\ carved' => /\ ARRAYS_END' <= VM_CSP' /\ VM_CSP' <= RT_SYMTAB_PTR'
                      /\ Below(PAS_END', ARR2_END')
    BY <1>2, <1>4, Zenon DEF Live
  <2>4. phase' = "compiled" /\ SESS_VALID' /\ GFX_MODE' = 0
    <3>1. phase # "run"
      BY Zenon DEF ImmCompile
    <3> QED BY <1>2, <3>1, Zenon DEF IInv, Pending
  <2> QED BY <2>1, <2>2, <2>3, <2>4, Zenon DEF Pending
<1> QED BY <1>5, <1>6, <1>7, <1>8, Zenon DEF IInv, TypeOK

\* Going back to the saved cells gives the session its shape back.
LEMMA UndoKeeps ==
  ASSUME IInv, phase = "compiled", UndoCells, VM_CSP' \in Nat, displaced' \in BOOLEAN,
         carved => ARRAYS_END <= VM_CSP' /\ VM_CSP' <= RT_SYMTAB_PTR
  PROVE  IInv'
<1>1. /\ UNCHANGED <<PROG_END, SESS_ARENA_BASE, ARRAYS_END, PAS_END, ARR2_END,
                     SESS_VALID, GFX_MODE, carved>>
      /\ SYM_BASE_V' = SESS_SAVE.SYM_BASE_V /\ SYM_END_V' = SESS_SAVE.SYM_END_V
      /\ RT_SYMTAB_PTR' = SESS_SAVE.RT_SYMTAB_PTR /\ VARS_START' = SESS_SAVE.RT_SYMTAB_PTR
      /\ tab' = SESS_SAVE.tab /\ ARRSYM' = SESS_SAVE.ARRSYM
      /\ SESS_SAVE' = NoSave /\ phase = "compiled" /\ phase' = "prompt"
  BY Zenon DEF UndoCells, segment
<1>2. /\ SESS_SAVE.SYM_BASE_V \in Nat /\ SESS_SAVE.SYM_END_V \in Nat
      /\ SESS_SAVE.RT_SYMTAB_PTR \in Nat /\ SESS_SAVE.tab \in Nat
  BY DEF IInv, TypeOK, FlagsOK, SavedCells
<1>3. SESS_SAVE.ARRSYM \in BOOLEAN
  BY DEF IInv, TypeOK, FlagsOK, SavedCells
<1>4. Live'
  <2>1. /\ SESS_SAVE.SYM_BASE_V = SYM_BASE_V /\ SESS_SAVE.RT_SYMTAB_PTR = RT_SYMTAB_PTR
        /\ SYM_BASE_V <= SESS_SAVE.SYM_END_V /\ SESS_SAVE.SYM_END_V <= SYM_END_V
        /\ SYM_END_V < SESS_ARENA_BASE /\ SESS_ARENA_BASE <= ARRAYS_END
        /\ SESS_SAVE.tab \in TableBytes /\ RT_SYMTAB_PTR = TableBase(SESS_SAVE.tab)
        /\ ARR2_BASE <= ARR2_END
    BY <1>1, Zenon DEF IInv, Pending
  <2>2. /\ carved <=> ARRAYS_END <= RT_SYMTAB_PTR
        /\ carved => Below(PAS_END, ARR2_END)
    BY <1>1, Zenon DEF IInv, Pending
  <2>3. SESS_SAVE.SYM_END_V < SESS_ARENA_BASE
    BY <1>2, <2>1 DEF IInv, TypeOK, CellsOK
  <2>4. PAS_END \in ARR2_BASE..ARR2_LIMIT /\ ARR2_END \in ARR2_BASE..ARR2_LIMIT
    BY <2>1, Layout DEF IInv, TypeOK, CellsOK
  <2> QED BY <1>1, <2>1, <2>2, <2>3, <2>4, Zenon DEF Live
<1>5. CellsOK'
  BY <1>1, <1>2, Zenon DEF IInv, TypeOK, CellsOK, Phases
<1>6. FlagsOK'
  BY <1>1, <1>3, NoSaveType, Zenon DEF IInv, TypeOK, FlagsOK
<1>7. GFX_MODE' = 0
  BY <1>1, Zenon DEF IInv, Pending
<1>8. SessionInv' /\ RunInv' /\ Segment' /\ Running' /\ Pending'
  BY <1>1, <1>4, <1>7, LiveShape DEF RunInv, Segment, Running, Pending
<1> QED BY <1>5, <1>6, <1>8, Zenon DEF IInv, TypeOK

LEMMA ImmUndoKeeps == IInv /\ ImmUndo => IInv'
<1> SUFFICES ASSUME IInv, ImmUndo PROVE IInv'
  OBVIOUS
<1>1. phase = "compiled" /\ UndoCells /\ VM_CSP' = VM_CSP /\ displaced' = displaced
  BY Zenon DEF ImmUndo
<1>2. /\ VM_CSP' \in Nat /\ displaced' \in BOOLEAN
      /\ carved => ARRAYS_END <= VM_CSP' /\ VM_CSP' <= RT_SYMTAB_PTR
  BY <1>1, Zenon DEF IInv, TypeOK, CellsOK, FlagsOK, Pending
<1> QED BY <1>1, <1>2, UndoKeeps, Zenon

LEMMA ImmBreakKeeps == IInv /\ ImmBreak => IInv'
<1> SUFFICES ASSUME IInv, ImmBreak PROVE IInv'
  OBVIOUS
<1>1. /\ phase = "compiled" /\ UndoCells /\ VM_CSP' = TableBase(tab)
      /\ ARRAYS_END <= TableBase(tab)
      /\ displaced' = (displaced \/ tab # SESS_SAVE.tab)
  BY Zenon DEF ImmBreak
<1>2. /\ SESS_SAVE.tab <= tab /\ tab \in TableBytes /\ SESS_SAVE.tab \in TableBytes
      /\ RT_SYMTAB_PTR = TableBase(SESS_SAVE.tab)
  BY <1>1, Zenon DEF IInv, Pending
<1>3. TableBase(tab) \in Nat /\ TableBase(tab) <= RT_SYMTAB_PTR
  BY <1>2, TableBaseType, Layout DEF TableBase
<1>4. displaced' \in BOOLEAN
  BY <1>1, Zenon
<1> QED BY <1>1, <1>3, <1>4, UndoKeeps, Zenon

\* An accepted statement runs between the same arrays and the lowered tables.
LEMMA ImmCarveKeeps == IInv /\ ImmCarve => IInv'
<1> SUFFICES ASSUME IInv, ImmCarve PROVE IInv'
  OBVIOUS
<1>1. /\ UNCHANGED <<PROG_END, SYM_BASE_V, SYM_END_V, SESS_ARENA_BASE, ARRAYS_END,
                     tab, PAS_END, ARR2_END, SESS_VALID, GFX_MODE, ARRSYM, displaced>>
      /\ ARRAYS_END <= TableBase(tab) /\ RT_SYMTAB_PTR' = TableBase(tab)
      /\ VARS_START' = RT_SYMTAB_PTR' /\ VM_CSP' = RT_SYMTAB_PTR'
      /\ carved' = TRUE /\ SESS_SAVE' = NoSave /\ phase = "compiled" /\ phase' = "run"
  BY Zenon DEF ImmCarve, pool, segment
<1>2. /\ SYM_BASE_V <= SESS_SAVE.SYM_END_V /\ SESS_SAVE.SYM_END_V <= SYM_END_V
      /\ SYM_END_V < SESS_ARENA_BASE /\ SESS_ARENA_BASE <= ARRAYS_END
      /\ SESS_SAVE.tab <= tab /\ tab \in TableBytes /\ SESS_SAVE.tab \in TableBytes
      /\ RT_SYMTAB_PTR = TableBase(SESS_SAVE.tab) /\ ARR2_BASE <= ARR2_END
      /\ SESS_VALID /\ GFX_MODE = 0
  BY <1>1, Zenon DEF IInv, Pending
<1>3. Below(PAS_END, ARR2_END)
  <2>1. TableBase(tab) <= RT_SYMTAB_PTR
    BY <1>2, TableBaseType, Layout DEF TableBase
  <2>2. ARRAYS_END <= RT_SYMTAB_PTR
    BY <1>1, <1>2, <2>1, TableBaseType DEF IInv, TypeOK, CellsOK
  <2> QED BY <1>1, <2>2, Zenon DEF IInv, Pending
<1>4. TableBase(tab) \in Nat
  BY <1>2, TableBaseType
<1>5. CellsOK'
  BY <1>1, <1>4, Zenon DEF IInv, TypeOK, CellsOK, Phases
<1>6. FlagsOK'
  BY <1>1, NoSaveType, Zenon DEF IInv, TypeOK, FlagsOK
<1>7. Live'
  <2>1. SYM_BASE_V <= SYM_END_V
    BY <1>2 DEF IInv, TypeOK, CellsOK, FlagsOK, SavedCells
  <2>2. PAS_END \in ARR2_BASE..ARR2_LIMIT /\ ARR2_END \in ARR2_BASE..ARR2_LIMIT
    BY <1>2, Layout DEF IInv, TypeOK, CellsOK
  <2>3. TableBase(tab) <= TableBase(tab)
    BY <1>4
  <2> QED BY <1>1, <1>2, <1>3, <2>1, <2>2, <2>3, Zenon DEF Live
<1>8. SessionInv'
  BY <1>7, LiveShape, Zenon
<1>9. RunInv' /\ Running'
  BY <1>1, <1>2, <1>7, Zenon DEF Live, RunInv, Running
<1>10. Segment'
  <2>1. ARR2_TOP' = ARR2_LIMIT
    BY <1>1, <1>2, Zenon DEF ARR2_TOP
  <2>2. ARR2_END \in Nat /\ ARR2_END <= ARR2_LIMIT /\ ARR2_LIMIT \in Nat
    BY Layout DEF IInv, TypeOK, CellsOK
  <2> QED BY <1>1, <1>3, <2>1, <2>2, BelowFacts, Zenon DEF Segment
<1>11. Pending'
  BY <1>1, <1>2, Zenon DEF Pending
<1> QED BY <1>5, <1>6, <1>8, <1>9, <1>10, <1>11, Zenon DEF IInv, TypeOK

-----------------------------------------------------------------------------
\* The running program moves three borders and the video mode.
LEMMA RunKeeps ==
  ASSUME IInv, phase = "run",
         UNCHANGED <<PROG_END, SYM_BASE_V, SYM_END_V, SESS_ARENA_BASE, VARS_START,
                     RT_SYMTAB_PTR, tab, PAS_END, SESS_VALID, SESS_SAVE, phase, ghosts>>,
         ARRAYS_END' \in Nat, VM_CSP' \in Nat, ARR2_END' \in Nat, GFX_MODE' \in {0, 1},
         SESS_ARENA_BASE <= ARRAYS_END', ARRAYS_END' <= VM_CSP', VM_CSP' <= VARS_START,
         ARR2_BASE <= ARR2_END', ARR2_END' <= ARR2_LIMIT,
         Below(PAS_END, ARR2_END'), Below(ARR2_END', ARR2_TOP')
  PROVE  IInv'
<1>2. /\ PAS_END \in ARR2_BASE..ARR2_LIMIT /\ ARR2_END' \in ARR2_BASE..ARR2_LIMIT
      /\ ARR2_END' \in 0..ARR2_LIMIT /\ ARR2_BASE <= PAS_END
  BY Layout DEF IInv, TypeOK, CellsOK
<1>3. /\ SYM_END_V < SESS_ARENA_BASE /\ VARS_START = TableBase(tab) /\ carved
      /\ tab \in TableBytes /\ RT_SYMTAB_PTR = TableBase(tab)
  BY Zenon DEF IInv, RunInv, Running
<1>4. /\ UNCHANGED <<PROG_END, SYM_BASE_V, SYM_END_V, SESS_ARENA_BASE, VARS_START,
                     RT_SYMTAB_PTR, tab, PAS_END, SESS_VALID, SESS_SAVE, phase>>
      /\ carved' = carved /\ ARRSYM' = ARRSYM /\ displaced' = displaced
  BY Zenon DEF ghosts
<1>5. CellsOK'
  BY <1>2, <1>4, Zenon DEF IInv, TypeOK, CellsOK
<1>6. FlagsOK'
  BY <1>4, Zenon DEF IInv, TypeOK, FlagsOK
<1>7. SessionInv'
  <2> SUFFICES ASSUME SESS_VALID' PROVE Live'
    BY LiveShape
  <2>1. SYM_BASE_V <= SYM_END_V
    <3>1. SESS_VALID /\ phase # "compiled"
      BY <1>4
    <3> QED BY <3>1, LiveShape, Zenon DEF IInv, Live
  <2>2. ARRAYS_END' <= RT_SYMTAB_PTR
    BY <1>3 DEF IInv, TypeOK, CellsOK
  <2> QED BY <1>2, <1>3, <1>4, <2>1, <2>2, Zenon DEF Live
<1>8. RunInv' /\ Running'
  BY <1>3, <1>4, Zenon DEF RunInv, Running
<1>9. Segment'
  BY <1>2, <1>4, Zenon DEF Segment
<1>10. Pending'
  BY <1>4 DEF Pending
<1> QED BY <1>5, <1>6, <1>7, <1>8, <1>9, <1>10, Zenon DEF IInv, TypeOK

LEMMA RunBorders ==
  ASSUME IInv, phase = "run"
  PROVE  /\ SESS_ARENA_BASE \in Nat /\ ARRAYS_END \in Nat /\ VM_CSP \in Nat
         /\ VARS_START \in Nat /\ PAS_END \in Nat /\ ARR2_END \in Nat
         /\ GFX_MODE \in {0, 1}
         /\ SESS_ARENA_BASE <= ARRAYS_END /\ ARRAYS_END <= VM_CSP /\ VM_CSP <= VARS_START
         /\ Below(PAS_END, ARR2_END) /\ Below(ARR2_END, ARR2_TOP)
         /\ ARR2_BASE <= ARR2_END /\ ARR2_END <= ARR2_LIMIT
<1>1. /\ SESS_ARENA_BASE <= ARRAYS_END /\ ARRAYS_END <= VM_CSP /\ VM_CSP <= VARS_START
      /\ Below(PAS_END, ARR2_END) /\ Below(ARR2_END, ARR2_TOP) /\ ARR2_BASE <= ARR2_END
  BY Zenon DEF IInv, RunInv, Segment, Running
<1>2. /\ SESS_ARENA_BASE \in Nat /\ ARRAYS_END \in Nat /\ VM_CSP \in Nat
      /\ VARS_START \in Nat /\ PAS_END \in Nat /\ ARR2_END \in Nat
      /\ GFX_MODE \in {0, 1} /\ ARR2_END <= ARR2_LIMIT
  BY Layout DEF IInv, TypeOK, CellsOK
<1> QED BY <1>1, <1>2, Zenon

LEMMA DimKeeps == IInv /\ Dim => IInv'
<1> SUFFICES ASSUME IInv, Dim PROVE IInv'
  OBVIOUS
<1>1. /\ phase = "run" /\ VM_CSP' = VM_CSP /\ GFX_MODE' = GFX_MODE
      /\ UNCHANGED <<PROG_END, SYM_BASE_V, SYM_END_V, SESS_ARENA_BASE, VARS_START,
                     RT_SYMTAB_PTR, tab, PAS_END, SESS_VALID, SESS_SAVE, phase, ghosts>>
  BY Zenon DEF Dim, tables
<1>2. PICK n \in ArrayBytes :
        \/ ARRAYS_END + n < VM_CSP /\ ARRAYS_END' = ARRAYS_END + n /\ ARR2_END' = ARR2_END
        \/ ARR2_END + n < ARR2_TOP /\ ARR2_END' = ARR2_END + n /\ ARRAYS_END' = ARRAYS_END
  BY Zenon DEF Dim
<1>3. n \in Nat
  BY SizesAssumption
<1>4. ARR2_TOP' = ARR2_TOP
  BY <1>1, Zenon DEF ARR2_TOP
<1>5. \A a, b, k \in Nat : a + k < b => a + k \in Nat /\ a <= a + k /\ a + k <= b
  OBVIOUS
<1>6. \A a, b, c \in Nat : a <= b /\ b <= c => a <= c
  OBVIOUS
<1>7. CASE ARRAYS_END + n < VM_CSP /\ ARRAYS_END' = ARRAYS_END + n /\ ARR2_END' = ARR2_END
  <2>1. /\ ARRAYS_END' \in Nat /\ ARRAYS_END <= ARRAYS_END' /\ ARRAYS_END' <= VM_CSP
    BY <1>1, <1>3, <1>5, <1>7, RunBorders, Zenon
  <2>2. SESS_ARENA_BASE <= ARRAYS_END'
    BY <1>1, <1>6, <2>1, RunBorders, Zenon
  <2> QED BY <1>1, <1>4, <1>7, <2>1, <2>2, RunBorders, RunKeeps, Zenon
<1>8. CASE ARR2_END + n < ARR2_TOP /\ ARR2_END' = ARR2_END + n /\ ARRAYS_END' = ARRAYS_END
  <2>1. /\ ARR2_END' \in Nat /\ ARR2_END <= ARR2_END' /\ ARR2_END' <= ARR2_TOP
    BY <1>1, <1>3, <1>5, <1>8, RunBorders, TopOfTwo, Zenon
  <2>2. /\ ARR2_BASE \in Nat /\ ARR2_LIMIT \in Nat /\ ARR2_TOP \in Nat
        /\ ARR2_TOP <= ARR2_LIMIT
    BY Layout, TopOfTwo, Zenon
  <2>3. ARR2_BASE <= ARR2_END' /\ ARR2_END' <= ARR2_LIMIT
    BY <1>1, <1>6, <2>1, <2>2, RunBorders, Zenon
  <2>4. Below(PAS_END, ARR2_END') /\ Below(ARR2_END', ARR2_TOP)
    BY <1>1, <2>1, <2>2, BelowFacts, RunBorders, Zenon
  <2> QED BY <1>1, <1>4, <1>8, <2>1, <2>3, <2>4, RunBorders, RunKeeps, Zenon
<1> QED BY <1>2, <1>7, <1>8

\* Frames come and go between the arena and the tables.
LEMMA FramesKeep == IInv /\ (PushFrame \/ PopFrames) => IInv'
<1> SUFFICES ASSUME IInv, PushFrame \/ PopFrames PROVE IInv'
  OBVIOUS
<1>1. /\ phase = "run" /\ ARRAYS_END' = ARRAYS_END /\ ARR2_END' = ARR2_END
      /\ GFX_MODE' = GFX_MODE
      /\ UNCHANGED <<PROG_END, SYM_BASE_V, SYM_END_V, SESS_ARENA_BASE, VARS_START,
                     RT_SYMTAB_PTR, tab, PAS_END, SESS_VALID, SESS_SAVE, phase, ghosts>>
  BY Zenon DEF PushFrame, PopFrames, pool, segment
<1>2. ARR2_TOP' = ARR2_TOP
  BY <1>1, Zenon DEF ARR2_TOP
<1>3. VM_CSP' \in Nat /\ ARRAYS_END <= VM_CSP' /\ VM_CSP' <= VARS_START
  <2>1. CASE PushFrame
    <3>1. PICK n \in FrameBytes : VM_CSP - n >= ARRAYS_END /\ VM_CSP' = VM_CSP - n
      BY <2>1, Zenon DEF PushFrame
    <3>2. n \in Nat
      BY SizesAssumption
    <3>3. \A a, c, k, v \in Nat : c <= v /\ c - k >= a =>
                                    c - k \in Nat /\ a <= c - k /\ c - k <= v
      OBVIOUS
    <3> QED BY <1>1, <3>1, <3>2, <3>3, RunBorders, Zenon
  <2>2. CASE PopFrames
    <3>1. PICK c \in (VM_CSP + 1)..VARS_START : VM_CSP' = c
      BY <2>2, Zenon DEF PopFrames
    <3>2. ARRAYS_END \in Nat /\ VM_CSP \in Nat /\ VARS_START \in Nat /\ ARRAYS_END <= VM_CSP
      BY <1>1, RunBorders, Zenon
    <3>3. c \in Nat /\ ARRAYS_END <= c /\ c <= VARS_START
      BY <3>2
    <3> QED BY <3>1, <3>3, Zenon
  <2> QED BY <2>1, <2>2
<1> QED BY <1>1, <1>2, <1>3, RunBorders, RunKeeps, Zenon

\* A run that ends, the arena and the control stack wherever they were.
LEMMA HaltKeeps ==
  ASSUME IInv, phase = "run", phase' = "prompt", GFX_MODE' = 0,
         UNCHANGED <<PROG_END, SYM_BASE_V, SYM_END_V, SESS_ARENA_BASE, VARS_START, RT_SYMTAB_PTR,
                     tab, PAS_END, ARR2_END, SESS_VALID, SESS_SAVE, ghosts>>,
         ARRAYS_END' \in Nat, VM_CSP' \in Nat,
         SESS_ARENA_BASE <= ARRAYS_END', ARRAYS_END' <= VM_CSP', VM_CSP' <= VARS_START
  PROVE  IInv'
<1>1. UNCHANGED <<PROG_END, SYM_BASE_V, SYM_END_V, SESS_ARENA_BASE, VARS_START, RT_SYMTAB_PTR,
                  tab, PAS_END, ARR2_END, SESS_VALID, SESS_SAVE, ARRSYM, carved, displaced>>
  BY Zenon DEF ghosts
<1>2. CellsOK'
  BY <1>1 DEF IInv, TypeOK, CellsOK, Phases
<1>3. FlagsOK'
  BY <1>1, Zenon DEF IInv, TypeOK, FlagsOK
<1>4. SESS_VALID => Live'
  <2>1. VARS_START = RT_SYMTAB_PTR /\ carved /\ VARS_START \in Nat
    BY Zenon DEF IInv, RunInv, Running, TypeOK, CellsOK
  <2>2. ARRAYS_END' <= RT_SYMTAB_PTR
    BY <2>1
  <2>3. SESS_VALID => Live
    BY LiveShape, Zenon DEF IInv
  <2> QED BY <1>1, <2>1, <2>2, <2>3, Zenon DEF Live
<1>5. SessionInv' /\ RunInv' /\ Segment' /\ Running' /\ Pending'
  BY <1>1, <1>4, LiveShape DEF RunInv, Segment, Running, Pending
<1> QED BY <1>2, <1>3, <1>5, Zenon DEF IInv, TypeOK

LEMMA ClearStatementKeeps == IInv /\ ClearStatement => IInv'
<1> SUFFICES ASSUME IInv, ClearStatement PROVE IInv'
  OBVIOUS
<1>1. /\ phase = "run" /\ ARRAYS_END' = SESS_ARENA_BASE
      /\ UNCHANGED <<PROG_END, SYM_BASE_V, SYM_END_V, SESS_ARENA_BASE, VARS_START,
                     RT_SYMTAB_PTR, tab, PAS_END, SESS_VALID, SESS_SAVE, ghosts>>
  BY Zenon DEF ClearStatement
<1>2. PICK c \in VM_CSP..VARS_START : VM_CSP' = c
  BY Zenon DEF ClearStatement
<1>3. /\ SESS_ARENA_BASE \in Nat /\ ARRAYS_END \in Nat /\ VM_CSP \in Nat
      /\ VARS_START \in Nat /\ SESS_ARENA_BASE <= ARRAYS_END /\ ARRAYS_END <= VM_CSP
  BY <1>1, RunBorders, Zenon
<1>4. VM_CSP' \in Nat /\ SESS_ARENA_BASE <= SESS_ARENA_BASE /\ SESS_ARENA_BASE <= VM_CSP'
      /\ VM_CSP' <= VARS_START
  BY <1>2, <1>3
<1>5. CASE ARR2_END' = PAS_END /\ GFX_MODE' = GFX_MODE /\ phase' = phase
  <2>1. Below(PAS_END, PAS_END) /\ Below(PAS_END, ARR2_TOP)
    BY <1>1, RunBorders, BelowFacts, TopOfTwo, Zenon
  <2>2. ARR2_TOP' = ARR2_TOP
    BY <1>5, Zenon DEF ARR2_TOP
  <2>3. ARR2_BASE <= PAS_END /\ PAS_END <= ARR2_LIMIT /\ PAS_END \in Nat
    BY Layout DEF IInv, TypeOK, CellsOK
  <2> QED BY <1>1, <1>4, <1>5, <2>1, <2>2, <2>3, RunBorders, RunKeeps, Zenon
<1>6. CASE phase' = "prompt" /\ GFX_MODE' = 0 /\ ARR2_END' = ARR2_END
  BY <1>1, <1>3, <1>4, <1>6, HaltKeeps, Zenon
<1> QED BY <1>5, <1>6, Zenon DEF ClearStatement

LEMMA SetModeKeeps == IInv /\ SetMode => IInv'
<1> SUFFICES ASSUME IInv, SetMode PROVE IInv'
  OBVIOUS
<1>1. /\ phase = "run" /\ ARRAYS_END' = ARRAYS_END /\ ARR2_END' = ARR2_END
      /\ VM_CSP' = VM_CSP
      /\ UNCHANGED <<PROG_END, SYM_BASE_V, SYM_END_V, SESS_ARENA_BASE, VARS_START,
                     RT_SYMTAB_PTR, tab, PAS_END, SESS_VALID, SESS_SAVE, phase, ghosts>>
  BY Zenon DEF SetMode, pool, tables, segment
<1>2. ARR2_END <= ARR2_LIMIT
  BY Layout DEF IInv, TypeOK, CellsOK
<1>3. GFX_MODE' \in {0, 1} /\ ARR2_TOP' \in Nat /\ ARR2_END <= ARR2_TOP'
  BY <1>2, Layout DEF SetMode, ARR2_TOP
<1>4. Below(ARR2_END, ARR2_TOP')
  BY <1>1, <1>3, RunBorders, BelowFacts, Zenon
<1> QED BY <1>1, <1>3, <1>4, RunBorders, RunKeeps, Zenon

LEMMA StopKeeps == IInv /\ Stop => IInv'
<1> SUFFICES ASSUME IInv, Stop PROVE IInv'
  OBVIOUS
<1>1. /\ UNCHANGED <<PROG_END, SYM_BASE_V, SYM_END_V, SESS_ARENA_BASE, ARRAYS_END, VM_CSP,
                     VARS_START, RT_SYMTAB_PTR, tab, PAS_END, ARR2_END, SESS_VALID,
                     SESS_SAVE, ghosts>>
      /\ phase = "run" /\ phase' = "prompt" /\ GFX_MODE' = 0
  BY Zenon DEF Stop, pool, tables, segment
<1> QED BY <1>1, RunBorders, HaltKeeps, Zenon

-----------------------------------------------------------------------------
\* NEW and the tape.
LEMMA TapeCells ==
  \A c \in TapeSessions :
    /\ c.PROG_END \in Nat /\ c.SYM_BASE_V \in Nat /\ c.SYM_END_V \in Nat
    /\ c.SESS_ARENA_BASE \in Nat /\ c.ARRAYS_END \in Nat /\ c.VM_CSP \in Nat
    /\ c.RT_SYMTAB_PTR \in Nat /\ c.tab \in Nat /\ c.PAS_END \in Nat /\ c.ARR2_END \in Nat
  BY TapeAssumption DEF SessionCells

LEMMA TapeFlags ==
  \A c \in TapeSessions : c.ARRSYM \in BOOLEAN /\ c.carved \in BOOLEAN
  BY TapeAssumption, Zenon DEF SessionCells

LEMMA TapeShape == \A c \in TapeSessions : SessionShape(c)
  BY TapeAssumption, Zenon

LEMMA ArrayTapeKeeps == IInv /\ (New \/ LoadArray \/ LoadProgram) => IInv'
<1> SUFFICES ASSUME IInv, New \/ LoadArray \/ LoadProgram PROVE IInv'
  OBVIOUS
<1>1. /\ phase = "prompt"
      /\ UNCHANGED <<SESS_ARENA_BASE, VM_CSP, RT_SYMTAB_PTR, SESS_SAVE, GFX_MODE, phase>>
  BY Zenon DEF New, LoadArray, LoadProgram, Undisturbed
<1>2. /\ SESS_ARENA_BASE' \in Nat /\ VM_CSP' \in Nat /\ RT_SYMTAB_PTR' \in Nat
      /\ PROG_END \in Nat /\ PAS_END \in ARR2_BASE..ARR2_LIMIT
  BY <1>1, Zenon DEF IInv, TypeOK, CellsOK
<1>3. /\ PROG_AREA_START \in Nat /\ ARR2_BASE \in ARR2_BASE..ARR2_LIMIT
  BY Layout
<1>4. CASE New
  <2>1. ClearArrays(PROG_AREA_START, ARR2_BASE) /\ PAS_END' \in ARR2_BASE..ARR2_LIMIT
    BY <1>3, <1>4, Zenon DEF New
  <2> QED BY <1>1, <1>2, <1>3, <2>1, ClearKeeps
<1>5. CASE LoadArray
  <2>1. ClearArrays(PROG_END, PAS_END)
    BY <1>5, Zenon DEF LoadArray
  <2>2. CASE PAS_END' = PAS_END
    BY <1>1, <1>2, <2>1, <2>2, ClearKeeps
  <2>3. CASE PAS_END' # PAS_END
    <3>1. PICK nl \in ArrayBytes, el \in ArrayBytes \cup {0} :
            /\ ARR2_BASE <= PAS_END - el
            /\ PAS_END' = PAS_END - el + nl /\ PAS_END' <= ARR2_LIMIT
      BY <1>5, <2>3, Zenon DEF LoadArray
    <3>2. nl \in Nat /\ el \in Nat
      BY SizesAssumption
    <3>3. PAS_END \in Nat
      BY <1>2, Layout
    <3>4. \A s, e, n, b, t \in Nat : b <= s - e /\ s - e + n <= t => s - e + n \in b..t
      OBVIOUS
    <3>5. ARR2_BASE \in Nat /\ ARR2_LIMIT \in Nat /\ PAS_END - el + nl <= ARR2_LIMIT
      BY <3>1, Layout, Zenon
    <3>6. PAS_END' \in ARR2_BASE..ARR2_LIMIT
      BY <3>1, <3>2, <3>3, <3>4, <3>5, Zenon
    <3> QED BY <1>1, <1>2, <2>1, <3>6, ClearKeeps, Zenon
  <2> QED BY <2>2, <2>3
<1>6. CASE LoadProgram
  <2>1. PAS_END' = PAS_END
    BY <1>6, Zenon DEF LoadProgram
  <2>2. PICK n \in ProgLens :
          ClearArrays(IF PROG_AREA_START + n <= V2_SOURCE_END
                      THEN PROG_AREA_START + n ELSE PROG_AREA_START, PAS_END)
    BY <1>6, Zenon DEF LoadProgram
  <2>3. (IF PROG_AREA_START + n <= V2_SOURCE_END
         THEN PROG_AREA_START + n ELSE PROG_AREA_START) \in Nat
    BY SizesAssumption, Layout
  <2> QED BY <1>1, <1>2, <2>1, <2>2, <2>3, ClearKeeps, Zenon
<1> QED BY <1>4, <1>5, <1>6

LEMMA LoadExtOrCodeKeeps == IInv /\ LoadExtOrCode => IInv'
<1> SUFFICES ASSUME IInv, LoadExtOrCode PROVE IInv'
  OBVIOUS
<1>1. /\ UNCHANGED <<PROG_END, SYM_BASE_V, SYM_END_V, SESS_ARENA_BASE, ARRAYS_END, VM_CSP,
                     VARS_START, RT_SYMTAB_PTR, tab, PAS_END, ARR2_END, GFX_MODE,
                     SESS_SAVE, phase, ARRSYM, carved, displaced>>
      /\ phase = "prompt" /\ SESS_VALID' = FALSE
  BY Zenon DEF LoadExtOrCode, pool, tables, segment, ghosts
<1>2. CellsOK'
  BY <1>1, Zenon DEF IInv, TypeOK, CellsOK
<1>3. FlagsOK'
  BY <1>1, Zenon DEF IInv, TypeOK, FlagsOK
<1>4. SessionInv' /\ RunInv' /\ Segment' /\ Running'
  BY <1>1 DEF SessionInv, RunInv, Segment, Running
<1>5. Pending'
  BY <1>1 DEF IInv, Pending
<1> QED BY <1>2, <1>3, <1>4, <1>5, Zenon DEF IInv, TypeOK

\* A restored session is as sound as the one that was saved.
LEMMA RestoreKeeps ==
  ASSUME IInv, phase = "prompt", NEW c \in TapeSessions, ChainHolds(c), RestoreSession(c),
         UNCHANGED <<SESS_SAVE, GFX_MODE, phase>>
  PROVE  IInv'
<1>1. /\ PROG_END' = c.PROG_END /\ SYM_BASE_V' = c.SYM_BASE_V /\ SYM_END_V' = c.SYM_END_V
      /\ SESS_ARENA_BASE' = c.SESS_ARENA_BASE /\ ARRAYS_END' = c.ARRAYS_END
      /\ RT_SYMTAB_PTR' = c.RT_SYMTAB_PTR /\ VARS_START' = c.RT_SYMTAB_PTR
      /\ VM_CSP' = c.RT_SYMTAB_PTR /\ tab' = c.tab
      /\ PAS_END' = c.PAS_END /\ ARR2_END' = c.ARR2_END
  BY Zenon DEF RestoreSession
<1>2. ARRSYM' = c.ARRSYM /\ carved' = c.carved /\ displaced' = FALSE /\ SESS_VALID' = TRUE
  BY Zenon DEF RestoreSession
<1>3. /\ c.SYM_BASE_V <= c.SYM_END_V /\ c.SYM_END_V < c.SESS_ARENA_BASE
      /\ c.SESS_ARENA_BASE <= c.ARRAYS_END
      /\ c.tab \in TableBytes /\ c.RT_SYMTAB_PTR = TableBase(c.tab)
      /\ c.PAS_END \in ARR2_BASE..ARR2_LIMIT /\ c.ARR2_END \in ARR2_BASE..ARR2_LIMIT
      /\ c.ARRAYS_END <= c.RT_SYMTAB_PTR
  BY TapeShape, Zenon DEF SessionShape, ChainHolds
<1>4. c.carved /\ Below(c.PAS_END, c.ARR2_END)
  BY <1>3, TapeShape, Zenon DEF SessionShape
<1>5. c.RT_SYMTAB_PTR <= c.RT_SYMTAB_PTR /\ c.ARR2_END \in 0..ARR2_LIMIT
  BY <1>3, TapeCells, Layout
<1>6. CellsOK'
  BY <1>1, <1>3, <1>5, TapeCells, Zenon DEF IInv, TypeOK, CellsOK
<1>7. FlagsOK'
  BY <1>2, TapeFlags, Zenon DEF IInv, TypeOK, FlagsOK
<1>8. Live'
  <2>1. carved'
    BY <1>2, <1>4, Zenon
  <2> QED BY <1>1, <1>3, <1>4, <1>5, <2>1, Zenon DEF Live
<1>9. SessionInv'
  BY <1>8, LiveShape, Zenon
<1>10. RunInv' /\ Segment' /\ Running'
  BY DEF RunInv, Segment, Running
<1>11. Pending'
  BY DEF IInv, Pending
<1> QED BY <1>6, <1>7, <1>9, <1>10, <1>11, Zenon DEF IInv, TypeOK

LEMMA LoadAllKeeps == IInv /\ LoadAll => IInv'
<1> SUFFICES ASSUME IInv, LoadAll PROVE IInv'
  OBVIOUS
<1>1. phase = "prompt" /\ UNCHANGED <<SESS_SAVE, GFX_MODE, phase>>
  BY Zenon DEF LoadAll
<1>2. /\ PAS_END \in ARR2_BASE..ARR2_LIMIT /\ SESS_ARENA_BASE \in Nat
      /\ VM_CSP \in Nat /\ RT_SYMTAB_PTR \in Nat
  BY Zenon DEF IInv, TypeOK, CellsOK
<1>3. PROG_AREA_START \in Nat /\ ARR2_BASE \in ARR2_BASE..ARR2_LIMIT
  BY Layout
<1>4. PICK c \in TapeSessions :
        \/ /\ ClearArrays(PROG_AREA_START, PAS_END)
           /\ UNCHANGED <<PAS_END, SESS_ARENA_BASE, VM_CSP, RT_SYMTAB_PTR>>
        \/ /\ ClearArrays(c.PROG_END, PAS_END)
           /\ UNCHANGED <<PAS_END, SESS_ARENA_BASE, VM_CSP, RT_SYMTAB_PTR>>
        \/ KeepProgramOnly(c, PAS_END)
        \/ KeepProgramOnly(c, ARR2_BASE)
        \/ ChainHolds(c) /\ RestoreSession(c)
  BY Zenon DEF LoadAll
<1>5. c.PROG_END \in Nat /\ c.SESS_ARENA_BASE \in Nat /\ c.VM_CSP \in Nat
      /\ c.RT_SYMTAB_PTR \in Nat
  BY TapeCells, Zenon
<1>6. ASSUME NEW p \in Nat, ClearArrays(p, PAS_END),
             UNCHANGED <<PAS_END, SESS_ARENA_BASE, VM_CSP, RT_SYMTAB_PTR>>
      PROVE  IInv'
  BY <1>1, <1>2, <1>6, ClearKeeps
<1>7. ASSUME NEW s \in ARR2_BASE..ARR2_LIMIT, KeepProgramOnly(c, s)
      PROVE  IInv'
  <2>1. /\ ClearArrays(c.PROG_END, s) /\ PAS_END' \in ARR2_BASE..ARR2_LIMIT
        /\ SESS_ARENA_BASE' \in Nat /\ VM_CSP' \in Nat /\ RT_SYMTAB_PTR' \in Nat
    BY <1>5, <1>7, Zenon DEF KeepProgramOnly
  <2> QED BY <1>1, <1>5, <2>1, ClearKeeps, Zenon
<1>8. CASE ChainHolds(c) /\ RestoreSession(c)
  BY <1>1, <1>8, RestoreKeeps, Zenon
<1> QED BY <1>2, <1>3, <1>4, <1>5, <1>6, <1>7, <1>8, Zenon

-----------------------------------------------------------------------------
\* Every step of the shell and of the program keeps the invariant.
LEMMA NextInv == IInv /\ [Next]_vars => IInv'
<1> SUFFICES ASSUME IInv, [Next]_vars PROVE IInv'
  OBVIOUS
<1>1. CASE Edit
  BY <1>1, StoreLineKeeps, NavKeeps DEF Edit
<1>2. CASE StartProgram
  BY <1>2, StartProgramKeeps
<1>3. CASE Immediate
  BY <1>3, ImmCompileKeeps, ImmUndoKeeps, ImmBreakKeeps, ImmCarveKeeps DEF Immediate
<1>4. CASE RunStep
  BY <1>4, DimKeeps, FramesKeep, ClearStatementKeeps, SetModeKeeps, StopKeeps DEF RunStep
<1>5. CASE New \/ TapeCommand
  BY <1>5, ArrayTapeKeeps, LoadExtOrCodeKeeps, LoadAllKeeps DEF TapeCommand
<1>6. CASE UNCHANGED vars
  <2>1. UNCHANGED <<PROG_END, SYM_BASE_V, SYM_END_V, SESS_ARENA_BASE, ARRAYS_END, VM_CSP,
                    VARS_START, RT_SYMTAB_PTR, tab, PAS_END, ARR2_END, SESS_VALID, GFX_MODE,
                    SESS_SAVE, phase, ARRSYM, carved, displaced>>
    BY <1>6, Zenon DEF vars, pool, tables, segment, ghosts
  <2>2. SessionInv'
    BY <2>1, LiveShape, Zenon DEF IInv, Live
  <2> QED BY <2>1, <2>2, Zenon
      DEF IInv, TypeOK, CellsOK, FlagsOK, RunInv, Segment, ARR2_TOP, Pending, Running
<1> QED BY <1>1, <1>2, <1>3, <1>4, <1>5, <1>6 DEF Next

\* The cells have their types and the Array Store stays inside segment 2.
THEOREM TypeCorrect == Spec => []TypeOK
<1>1. IInv => TypeOK
  BY Zenon DEF IInv
<1> QED BY <1>1, InitInv, NextInv, PTL DEF Spec

\* No session's borders ever cross, through every edit, RUN, immediate
\* statement, undo and LOAD.
THEOREM SessionSafe == Spec => []SessionInv
<1>1. IInv => SessionInv
  BY Zenon DEF IInv
<1> QED BY <1>1, InitInv, NextInv, PTL DEF Spec

\* Arrays, control stack and tables never meet in the pool while bytecode runs.
THEOREM RunSafe == Spec => []RunInv
<1>1. IInv => RunInv
  BY Zenon DEF IInv
<1> QED BY <1>1, InitInv, NextInv, PTL DEF Spec

\* In segment 2 the stored arrays, the overflow arrays of a run and MODE 1's
\* attributes never overlap, whatever was loaded, dropped or restored -- as long
\* as no BREAK is accepted while a run's tables are built: then ARR_RUN_INIT
\* leaves the end of segment 2 below the store (ArraysAboveStore fails).
THEOREM SegmentTwoSafe == ~BreakMidStart => (Spec => []SegmentTwo)
<1> SUFFICES ASSUME ~BreakMidStart PROVE Spec => []SegmentTwo
  OBVIOUS
<1>1. IInv => SegmentTwo
  BY Zenon DEF IInv, Segment, SegmentTwo, Below
<1> QED BY <1>1, InitInv, NextInv, PTL DEF Spec
=============================================================================
