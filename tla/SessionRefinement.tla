------------------------- MODULE SessionRefinement -------------------------
(***************************************************************************)
(* Session implements SessionContract: every step of the shell, of an      *)
(* immediate statement, of the running program and of the tape is a step   *)
(* of the contract or leaves what the user sees alone.                      *)
(***************************************************************************)
EXTENDS SessionProofs

\* What the contract's variables are, with and without a session.
LEMMA ViewFields ==
  /\ SESS_VALID => /\ SessionView.names = Names /\ SessionView.tables = Tables
                   /\ SessionView.arena = Arena /\ SessionView.overflow = Overflow
  /\ SESS_VALID' => /\ SessionView'.names = Names' /\ SessionView'.tables = Tables'
                    /\ SessionView'.arena = Arena' /\ SessionView'.overflow = Overflow'
  BY DEF SessionView

LEMMA ViewType ==
  /\ SESS_VALID /\ Names \in Nat /\ Tables \in Nat /\ Arena \in Nat /\ Overflow \in Nat
       => SessionView \in Contract!Sessions
  /\ SESS_VALID' /\ Names' \in Nat /\ Tables' \in Nat /\ Arena' \in Nat /\ Overflow' \in Nat
       => SessionView' \in Contract!Sessions
  BY DEF SessionView, Contract!Sessions

\* The sizes are sizes: no border is above the one that follows it.
Sizes == Names \in Nat /\ Tables \in Nat /\ Arena \in Nat /\ Overflow \in Nat

LEMMA LiveSizes == ~BreakMidStart /\ IInv /\ Live /\ phase # "compiled" => Sizes
<1> SUFFICES ASSUME ~BreakMidStart, IInv, Live, phase # "compiled" PROVE Sizes
  OBVIOUS
<1>1. /\ SYM_BASE_V \in Nat /\ SYM_END_V \in Nat /\ SESS_ARENA_BASE \in Nat
      /\ ARRAYS_END \in Nat /\ tab \in Nat /\ PAS_END \in Nat /\ ARR2_END \in Nat
  BY Layout DEF IInv, TypeOK, CellsOK
<1>2. SYM_BASE_V <= SYM_END_V /\ SESS_ARENA_BASE <= ARRAYS_END
  BY Zenon DEF Live
<1>3. Names \in Nat /\ Tables \in Nat /\ Arena \in Nat
  BY <1>1, <1>2 DEF Names, Tables, Arena
<1>4. Overflow \in Nat
  <2>1. CASE carved
    <3>1. PAS_END <= ARR2_END
      BY <2>1, Zenon DEF Live, Below
    <3> QED BY <1>1, <2>1, <3>1 DEF Overflow
  <2>2. CASE ~carved
    BY <2>2 DEF Overflow
  <2> QED BY <2>1, <2>2
<1> QED BY <1>3, <1>4 DEF Sizes

LEMMA LiveSizesNext == (~BreakMidStart /\ IInv /\ Live /\ phase # "compiled" => Sizes)'
  BY LiveSizes, PTL

Store == PAS_END - ARR2_BASE

LEMMA StoreSize == IInv => Store \in Nat
  BY Layout DEF IInv, TypeOK, CellsOK, Store

LEMMA StoreSizeNext == (IInv => Store \in Nat)'
  BY StoreSize, PTL

\* Anything that leaves no session behind.
LEMMA Ends ==
  ASSUME IInv', SESS_VALID' = FALSE
  PROVE  [Contract!Next]_(Contract!vars)
<1>1. (PAS_END - ARR2_BASE)' \in Nat
  BY StoreSizeNext, Zenon DEF Store
<1> QED BY <1>1, Zenon DEF Contract!Next, Contract!EndSession

\* RUN and V2_ENSURE_SESSION start with empty arrays.
LEMMA StartRefines ==
  ASSUME ~BreakMidStart, IInv, IInv', CompileStored, StartVM, SESS_VALID' = TRUE, phase' # "compiled"
  PROVE  Contract!StartSession
<1>1. Live'
  BY StartVMLive
<1>2. Sizes'
  BY <1>1, LiveSizesNext, Zenon
<1>3. SessionView' \in Contract!Sessions
  BY <1>2, ViewType, Zenon DEF Sizes
<1>4. /\ ARRAYS_END' = SESS_ARENA_BASE' /\ SESS_ARENA_BASE' \in Nat
      /\ PAS_END' = PAS_END
  BY CompileStoredMakes, StartVMCells, Zenon DEF StartVM
<1>5. SessionView'.arena = 0
  <2>1. \A n \in Nat : n - n = 0
    OBVIOUS
  <2>2. Arena' = 0
    BY <1>4, <2>1, Zenon DEF Arena
  <2> QED BY <2>2, ViewFields, Zenon
<1>6. SessionView'.overflow = 0
  <2>1. CASE carved' = TRUE
    <3>1. ARR2_END' = PAS_END'
      BY <1>4, <2>1, Zenon DEF StartVM
    <3>2. ARR2_END' - PAS_END' = 0
      BY <3>1, StartVMCells, Layout
    <3>3. Overflow' = 0
      BY <2>1, <3>2, Zenon DEF Overflow
    <3> QED BY <3>3, ViewFields, Zenon
  <2>2. CASE carved' = FALSE
    <3>1. Overflow' = 0
      BY <2>2, Zenon DEF Overflow
    <3> QED BY <3>1, ViewFields, Zenon
  <2> QED BY <2>1, <2>2, Zenon DEF StartVM
<1>7. (PAS_END - ARR2_BASE)' = PAS_END - ARR2_BASE
  BY <1>4
<1> QED BY <1>3, <1>5, <1>6, <1>7, Zenon DEF Contract!StartSession

\* Two states that look the same to the user.
LEMMA Stutters ==
  ASSUME SESS_VALID' = SESS_VALID, SessionView' = SessionView, PAS_END' = PAS_END
  PROVE  [Contract!Next]_(Contract!vars)
<1>1. (PAS_END - ARR2_BASE)' = PAS_END - ARR2_BASE
  BY Zenon
<1> QED BY <1>1, Zenon DEF Contract!vars

LEMMA SameView ==
  ASSUME SESS_VALID' = SESS_VALID,
         SESS_VALID => /\ Names' = Names /\ Tables' = Tables
                       /\ Arena' = Arena /\ Overflow' = Overflow
  PROVE  SessionView' = SessionView
<1>1. CASE SESS_VALID
  BY <1>1 DEF SessionView
<1>2. CASE ~SESS_VALID
  BY <1>2 DEF SessionView
<1> QED BY <1>1, <1>2

\* While it compiles, and after its undo, a statement has changed nothing.
LEMMA ImmCompileStutters ==
  ASSUME IInv, ImmCompile PROVE [Contract!Next]_(Contract!vars)
<1>1. /\ UNCHANGED <<SYM_BASE_V, ARRAYS_END, SESS_ARENA_BASE, PAS_END, ARR2_END, SESS_VALID,
                     carved>>
      /\ phase # "compiled" /\ phase' = "compiled"
  <2>1. phase # "compiled"
    BY Zenon DEF ImmCompile
  <2> QED BY <2>1, Zenon DEF ImmCompile, segment
<1>2. /\ SESS_SAVE'.SYM_BASE_V = SYM_BASE_V
      /\ SESS_SAVE'.SYM_END_V = SYM_END_V /\ SESS_SAVE'.tab = tab
  BY DEF ImmCompile
<1>3. Names' = Names /\ Tables' = Tables
  BY <1>1, <1>2, Zenon DEF Names, Tables
<1>4. Arena' = Arena /\ Overflow' = Overflow
  BY <1>1, Zenon DEF Arena, Overflow
<1> QED BY <1>1, <1>3, <1>4, SameView, Stutters, Zenon

LEMMA ImmUndoStutters ==
  ASSUME IInv, ImmUndo PROVE [Contract!Next]_(Contract!vars)
<1>1. /\ UNCHANGED <<ARRAYS_END, SESS_ARENA_BASE, PAS_END, ARR2_END, SESS_VALID, carved>>
      /\ SYM_BASE_V' = SESS_SAVE.SYM_BASE_V /\ SYM_END_V' = SESS_SAVE.SYM_END_V
      /\ tab' = SESS_SAVE.tab /\ phase = "compiled" /\ phase' # "compiled"
  <2>1. phase' # "compiled"
    BY Zenon DEF ImmUndo, UndoCells
  <2> QED BY <2>1, Zenon DEF ImmUndo, UndoCells, segment
<1>2. Names' = Names /\ Tables' = Tables
  BY <1>1, Zenon DEF Names, Tables
<1>3. Arena' = Arena /\ Overflow' = Overflow
  BY <1>1, Zenon DEF Arena, Overflow
<1> QED BY <1>1, <1>2, <1>3, SameView, Stutters, Zenon

\* Accepting it adds its names and its tables and keeps every array.
LEMMA ImmCarveAccepts ==
  ASSUME ~BreakMidStart, IInv, IInv', ImmCarve PROVE Contract!AcceptStatement
<1>1. /\ UNCHANGED <<SYM_BASE_V, SYM_END_V, SESS_ARENA_BASE, ARRAYS_END, tab, PAS_END,
                     ARR2_END, SESS_VALID>>
      /\ ARRAYS_END <= TableBase(tab)
      /\ carved' = TRUE /\ phase = "compiled" /\ phase' = "run"
  BY Zenon DEF ImmCarve, pool, segment
<1>2. /\ SYM_BASE_V = SESS_SAVE.SYM_BASE_V /\ SESS_SAVE.SYM_END_V <= SYM_END_V
      /\ SYM_BASE_V <= SESS_SAVE.SYM_END_V
      /\ SESS_SAVE.tab <= tab /\ tab \in TableBytes /\ SESS_SAVE.tab \in TableBytes
      /\ RT_SYMTAB_PTR = TableBase(SESS_SAVE.tab) /\ SESS_VALID
  BY <1>1, Zenon DEF IInv, Pending
<1>3. SESS_VALID' = TRUE /\ SESS_VALID'
  BY <1>1, <1>2, Zenon DEF IInv, TypeOK, FlagsOK
<1>4. carved
  <2>1. TableBase(tab) <= RT_SYMTAB_PTR
    BY <1>2, TableBaseType, Layout DEF TableBase
  <2>2. ARRAYS_END <= RT_SYMTAB_PTR
    BY <1>1, <1>2, <2>1, TableBaseType DEF IInv, TypeOK, CellsOK
  <2> QED BY <1>1, <2>2, Zenon DEF IInv, Pending
<1>5. Live'
  BY <1>1, <1>3, LiveShape, Zenon DEF IInv
<1>6. Sizes' /\ SessionView' \in Contract!Sessions
  BY <1>1, <1>3, <1>5, LiveSizesNext, ViewType, Zenon DEF Sizes
<1>7. Names <= Names' /\ Tables <= Tables'
  <2>1. /\ Names = SESS_SAVE.SYM_END_V - SESS_SAVE.SYM_BASE_V /\ Tables = SESS_SAVE.tab
        /\ Names' = SYM_END_V - SYM_BASE_V /\ Tables' = tab
    BY <1>1, Zenon DEF Names, Tables
  <2>2. \A a, b, c \in Nat : a <= b => a - c <= b - c
    OBVIOUS
  <2>3. SYM_BASE_V \in Nat /\ SYM_END_V \in Nat /\ SESS_SAVE.SYM_END_V \in Nat
    BY DEF IInv, TypeOK, CellsOK, FlagsOK, SavedCells
  <2> QED BY <1>2, <2>1, <2>2, <2>3, Zenon
<1>8. Arena' = Arena /\ Overflow' = Overflow
  BY <1>1, <1>4, Zenon DEF Arena, Overflow
<1>9. (PAS_END - ARR2_BASE)' = PAS_END - ARR2_BASE
  BY <1>1, Zenon
<1> QED BY <1>2, <1>3, <1>6, <1>7, <1>8, <1>9, ViewFields, Zenon DEF Contract!AcceptStatement

\* The running program changes arrays and nothing else.
LEMMA RunRefines ==
  ASSUME ~BreakMidStart, IInv, IInv', RunStep PROVE [Contract!Next]_(Contract!vars)
<1>1. /\ UNCHANGED <<SYM_BASE_V, SYM_END_V, tab, PAS_END, SESS_VALID>>
      /\ phase = "run" /\ phase' # "compiled"
  <2>1. phase' \in {"run", "prompt"}
    BY Zenon DEF RunStep, Dim, PushFrame, PopFrames, ClearStatement, SetMode, Stop
  <2>2. UNCHANGED <<SYM_BASE_V, SYM_END_V, tab, PAS_END, SESS_VALID>> /\ phase = "run"
    BY Zenon DEF RunStep, Dim, PushFrame, PopFrames, ClearStatement, SetMode, Stop,
                 pool, tables, segment
  <2> QED BY <2>1, <2>2, Zenon
<1>2. (PAS_END - ARR2_BASE)' = PAS_END - ARR2_BASE
  BY <1>1, Zenon
<1>3. CASE SESS_VALID
  <2>1. SESS_VALID'
    BY <1>1, <1>3
  <2>2. Live'
    BY <1>1, <2>1, LiveShape, Zenon DEF IInv
  <2>3. SessionView' \in Contract!Sessions
    BY <1>1, <2>1, <2>2, LiveSizesNext, ViewType, Zenon DEF Sizes
  <2>4. Names' = Names /\ Tables' = Tables
    <3>1. phase # "compiled"
      BY <1>1, Zenon
    <3> QED BY <1>1, <3>1, Zenon DEF Names, Tables
  <2>5. Contract!UseArrays
    BY <1>2, <1>3, <2>1, <2>3, <2>4, ViewFields, Zenon DEF Contract!UseArrays
  <2> QED BY <2>5, Zenon DEF Contract!Next
<1>4. CASE ~SESS_VALID
  <2>1. SessionView' = SessionView
    BY <1>1, <1>4, SameView, Zenon
  <2> QED BY <1>1, <2>1, Stutters, Zenon
<1> QED BY <1>3, <1>4

\* LOAD gives back the whole of what SAVE wrote.
LEMMA RestoreRefines ==
  ASSUME IInv, phase' = "prompt", NEW c \in TapeSessions, ChainHolds(c), RestoreSession(c)
  PROVE  Contract!RestoreSaved
<1>1. /\ SYM_BASE_V' = c.SYM_BASE_V /\ SYM_END_V' = c.SYM_END_V
      /\ SESS_ARENA_BASE' = c.SESS_ARENA_BASE /\ ARRAYS_END' = c.ARRAYS_END
      /\ tab' = c.tab /\ PAS_END' = c.PAS_END /\ ARR2_END' = c.ARR2_END
  BY Zenon DEF RestoreSession
<1>2. carved' = c.carved /\ SESS_VALID' = TRUE
  BY Zenon DEF RestoreSession
<1>3. c.carved
  BY TapeShape, Zenon DEF SessionShape, ChainHolds
<1>4. carved'
  BY <1>2, <1>3, Zenon
<1>5. /\ Names' = c.SYM_END_V - c.SYM_BASE_V /\ Tables' = c.tab
      /\ Arena' = c.ARRAYS_END - c.SESS_ARENA_BASE /\ Overflow' = c.ARR2_END - c.PAS_END
  BY <1>1, <1>4, Zenon DEF Names, Tables, Arena, Overflow
<1>6. SessionView' = [names |-> Names', tables |-> Tables', arena |-> Arena',
                      overflow |-> Overflow']
  BY <1>2 DEF SessionView
<1>7. TapeView(c).session = SessionView'
  BY <1>5, <1>6 DEF TapeView
<1>8. TapeView(c).store = (PAS_END - ARR2_BASE)'
  BY <1>1 DEF TapeView
<1>9. TapeView(c) \in {TapeView(t) : t \in {x \in TapeSessions : ChainHolds(x)}}
  BY Zenon
<1> QED BY <1>2, <1>7, <1>8, <1>9, Zenon DEF Contract!RestoreSaved

LEMMA InitRefines == Init => Contract!Init
  BY Layout DEF Init, Contract!Init

LEMMA NextRefines ==
  ~BreakMidStart /\ IInv /\ IInv' /\ [Next]_vars => [Contract!Next]_(Contract!vars)
<1> SUFFICES ASSUME ~BreakMidStart, IInv, IInv', [Next]_vars
             PROVE [Contract!Next]_(Contract!vars)
  OBVIOUS
<1>1. CASE StoreLine
  BY <1>1, Ends, Zenon DEF StoreLine, ClearArrays
<1>2. CASE DeleteLine \/ InsertBlank
  <2>1. UNCHANGED <<SYM_BASE_V, SYM_END_V, SESS_ARENA_BASE, ARRAYS_END, tab, PAS_END, ARR2_END,
                    SESS_VALID, SESS_SAVE, phase, carved>>
    BY <1>2, Zenon DEF DeleteLine, InsertBlank, Undisturbed, segment, ghosts
  <2>2. SessionView' = SessionView
    BY <2>1, SameView, Zenon DEF Names, Tables, Arena, Overflow
  <2> QED BY <2>1, <2>2, Stutters, Zenon
<1>3. CASE CompileError \/ RunAlone
  BY <1>3, Ends, Zenon DEF CompileError, RunAlone
<1>4. CASE RunStored \/ EnsureSession
  <2>1. phase' \in {"run", "prompt", "ensured"}
    BY <1>4 DEF RunStored, EnsureSession
  <2>2. phase' # "compiled"
    BY <2>1, Zenon
  <2>3. CompileStored /\ StartVM /\ SESS_VALID' = TRUE
    BY <1>4, Zenon DEF RunStored, EnsureSession
  <2> QED BY <2>2, <2>3, StartRefines, Zenon DEF Contract!Next
<1>5. CASE Immediate
  BY <1>5, ImmCompileStutters, ImmUndoStutters, ImmCarveAccepts, Zenon
  DEF Immediate, ImmBreak, Contract!Next
<1>6. CASE RunStep
  BY <1>6, RunRefines, Zenon
<1>7. CASE New \/ LoadArray \/ LoadProgram \/ LoadExtOrCode
  BY <1>7, Ends, Zenon DEF New, LoadArray, LoadProgram, LoadExtOrCode, ClearArrays
<1>8. CASE LoadAll
  <2>1. PICK c \in TapeSessions :
          \/ \E p, s : ClearArrays(p, s)
          \/ ChainHolds(c) /\ RestoreSession(c)
    BY <1>8, Zenon DEF LoadAll, KeepProgramOnly
  <2>2. CASE \E p, s : ClearArrays(p, s)
    BY <2>2, Ends, Zenon DEF ClearArrays
  <2>3. CASE ChainHolds(c) /\ RestoreSession(c)
    <3>1. phase' = "prompt"
      BY <1>8, Zenon DEF LoadAll
    <3> QED BY <2>3, <3>1, RestoreRefines, Zenon DEF Contract!Next
  <2> QED BY <2>1, <2>2, <2>3
<1>9. CASE UNCHANGED vars
  <2>1. UNCHANGED <<SYM_BASE_V, SYM_END_V, SESS_ARENA_BASE, ARRAYS_END, tab, PAS_END, ARR2_END,
                    SESS_VALID, SESS_SAVE, phase, carved>>
    BY <1>9, Zenon DEF vars, pool, tables, segment, ghosts
  <2>2. SessionView' = SessionView
    BY <2>1, SameView, Zenon DEF Names, Tables, Arena, Overflow
  <2> QED BY <2>1, <2>2, Stutters, Zenon
<1> QED BY <1>1, <1>2, <1>3, <1>4, <1>5, <1>6, <1>7, <1>8, <1>9
        DEF Next, Edit, StartProgram, TapeCommand

\* The session's lifecycle is the documented one: statements add names or do
\* nothing, arrays stay, the store changes only between sessions, and a LOAD
\* restores a whole session or none -- unless BREAK can be accepted while the
\* tables are built (ArraysAboveStore fails then: see the README).
THEOREM HonoursItsContract == ~BreakMidStart => (Spec => HonoursContract)
<1> SUFFICES ASSUME ~BreakMidStart PROVE Spec => HonoursContract
  OBVIOUS
<1>1. Spec => []IInv
  BY InitInv, NextInv, PTL DEF Spec
<1>2. IInv /\ IInv' /\ [Next]_vars => [Contract!Next]_(Contract!vars)
  BY NextRefines, Zenon
<1> QED BY <1>1, <1>2, InitRefines, PTL DEF Spec, HonoursContract, Contract!Spec
=============================================================================
