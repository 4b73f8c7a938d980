----------------------------- MODULE ArrayStore -----------------------------
(***************************************************************************)
(* The persistent Array Store (rom/exrom_v2_arrstore.asm) byte by byte: a  *)
(* chain of entries in segment 2, found by walking it; the pointer slots   *)
(* through which a program reaches its arrays; and the three places array   *)
(* bytes live -- the store, the segment above it, and the pool's arena.    *)
(*                                                                         *)
(* A cell of memory is a tuple: <<"entry", length, name>> stands for an     *)
(* entry's length field and key, <<"dim", count>> for a descriptor's header, *)
(* <<"value", v>> for an element, Free for a byte that belongs to no one.  *)
(* The code does not clear the bytes it gives up; here they become Free, so *)
(* that reading one shows.                                                 *)
(*                                                                         *)
(* MODE 1, the control stack and the session's other borders are Session's. *)
(***************************************************************************)
EXTENDS Integers

CONSTANTS
  ARR2_BASE, ARR2_LIMIT,     \* segment 2
  ArenaBase, VM_CSP,         \* the pool's arena, empty, and the control stack
  V2_CODE_LIMIT,             \* the pool's end: an entry is staged below it
  Names,                     \* array names (with their kinds)
  Sizes,                     \* element counts
  Values,                    \* element values; 0 is one of them
  BreakInStatement           \* TRUE: the interrupt may accept BREAK within DIM and CLEAR
                             \* (within the set-up of a run or a statement it always may)

ASSUME StoreAssumption ==
  /\ {ARR2_BASE, ARR2_LIMIT, ArenaBase, VM_CSP, V2_CODE_LIMIT} \subseteq Nat
  /\ 0 < ARR2_BASE /\ ARR2_BASE < ARR2_LIMIT /\ ARR2_LIMIT <= ArenaBase
  /\ ArenaBase <= VM_CSP /\ VM_CSP <= V2_CODE_LIMIT
  /\ Sizes \subseteq Nat \ {0} /\ 0 \in Values /\ Values \subseteq Int
  /\ BreakInStatement \in BOOLEAN

VARIABLES
  mem,         \* segment 2 and the pool
  PAS_END,     \* end of the Array Store
  ARR2_END,    \* next free byte of segment 2
  ARRAYS_END,  \* next free byte of the arena
  decl,        \* the symbol table: declared element count of a name, or 0
  slot,        \* the pointer slots: descriptor address, or 0
  SESS_VALID,  \* TRUE while a session exists
  setup,       \* (history) how the session's set-up ended: "whole"; "broken" or "refused",
               \* ARR_RUN_INIT returned at its test; "displaced", the tables have moved
               \* and V2_SESSION_UNDO took back their bases
  phase        \* "prompt", "run" while the VM executes, or "lost": a DIM has written over
               \* the store, or a statement uses displaced slots.  What follows "lost", up
               \* to the next NEW, is not modelled.

vars == <<mem, PAS_END, ARR2_END, ARRAYS_END, decl, slot, SESS_VALID, setup, phase>>

Segment == ARR2_BASE..(ARR2_LIMIT - 1)
Pool == ArenaBase..(V2_CODE_LIMIT - 1)

Free == <<"free">>
Entry(n, k) == <<"entry", k, n>>
Dimension(k) == <<"dim", k>>
Element(v) == <<"value", v>>

\* Cells of an entry's key and of a descriptor's header.
KEY == 1
ARR_DESC_DATA_OFF == 1

-----------------------------------------------------------------------------
\* LDIR of k bytes from src to dst: upwards, byte by byte, so that a block
\* moved up over itself repeats its beginning.
Ldir(m, src, dst, k) ==
  [a \in DOMAIN m |->
     IF a \notin dst..(dst + k - 1) THEN m[a]
     ELSE IF dst <= src \/ src + k <= dst THEN m[src + (a - dst)]
     ELSE m[src + ((a - dst) % (dst - src))]]

\* Cells that no longer belong to anyone.
Freed(m, S) == [a \in DOMAIN m |-> IF a \in S THEN Free ELSE m[a]]

\* ARR_NEXT and ARR_FIND: the first entry of name n, or 0 at the store's end.
IsEntry(a) == a \in Segment /\ mem[a][1] = "entry"
ARR_FIND(n) ==
  LET from[a \in Nat] ==
        IF a >= PAS_END \/ ~IsEntry(a) THEN 0
        ELSE IF mem[a][3] = n THEN a
        ELSE from[a + mem[a][2]]
  IN  from[ARR2_BASE]

InStore(n) == ARR_FIND(n) # 0
Descriptor(n) == ARR_FIND(n) + KEY
StoredCount(n) == mem[Descriptor(n)][2]

\* ARR_RUN_BIND: every declared array that is in the store gets its slot.
Bound(d, s) == [n \in Names |-> IF d[n] # 0 /\ InStore(n) THEN Descriptor(n) ELSE s[n]]
Mismatched(d) == {n \in Names : d[n] # 0 /\ InStore(n) /\ StoredCount(n) # d[n]}

NoSlots == [n \in Names |-> 0]
NoNames == [n \in Names |-> 0]
AboveStore == Freed(mem, Pool \cup (PAS_END..(ARR2_LIMIT - 1)))

\* V2_CLEAR_ARRAYS: ordinary arrays and symbols go, the store stays.  (Slots are
\* carved anew before they are used again.)
ClearArrays(m, s) ==
  /\ mem' = m /\ PAS_END' = s
  /\ ARR2_END' = s /\ ARRAYS_END' = ArenaBase
  /\ decl' = NoNames /\ slot' = NoSlots
  /\ SESS_VALID' = FALSE /\ setup' = "whole"

EndSession ==
  /\ phase = "prompt"
  /\ ClearArrays(AboveStore, PAS_END)
  /\ UNCHANGED phase

New ==
  /\ phase \in {"prompt", "lost"}
  /\ ClearArrays(Freed(mem, Segment \cup Pool), ARR2_BASE)
  /\ phase' = "prompt"

-----------------------------------------------------------------------------
\* LOAD ... ARRAY.  The entry is staged in the emptied pool; the store changes
\* only when a valid body that fits has been received.
Total(k) == KEY + ARR_DESC_DATA_OFF + k

\* V2_LOAD_ARRAY.find: where the entry goes once one of the same name is gone.
Target(n) == IF InStore(n) THEN PAS_END - mem[ARR_FIND(n)][2] ELSE PAS_END

\* (Mutant of Fits: only the staging pool is asked.)
FitsInPool(n, k) == ArenaBase + Total(k) <= V2_CODE_LIMIT

\* The longest body with room in the store, and in the pool while it is staged.
Fits(n, k) ==
  /\ Target(n) + Total(k) <= ARR2_LIMIT
  /\ ArenaBase + Total(k) <= V2_CODE_LIMIT

Staged(n, body, k) ==
  [a \in DOMAIN mem |->
     IF a = ArenaBase THEN Entry(n, Total(k))
     ELSE IF a = ArenaBase + KEY THEN Dimension(k)
     ELSE IF a \in (ArenaBase + KEY + 1)..(ArenaBase + KEY + k)
          THEN Element(body[a - ArenaBase - KEY])
     ELSE mem[a]]

\* The old entry of the name is closed over, the staged one goes to the end.
Commit(n, body, k) ==
  LET old == ARR_FIND(n)
      X == Target(n)
      closed == IF old = 0 \/ old = X THEN Staged(n, body, k)
                ELSE Ldir(Staged(n, body, k), PAS_END - (X - old), old, X - old)
  IN  ClearArrays(Freed(Ldir(closed, ArenaBase, X, Total(k)),
                        Pool \cup ((X + Total(k))..(ARR2_LIMIT - 1))),
                  X + Total(k))

\* (Mutant of LoadArray: the new entry is added without closing over the old.)
LoadArrayAppends ==
  /\ phase = "prompt"
  /\ \E n \in Names, k \in Sizes : \E body \in [1..k -> Values] :
       /\ PAS_END + Total(k) <= ARR2_LIMIT
       /\ ClearArrays(Freed(Ldir(Staged(n, body, k), ArenaBase, PAS_END, Total(k)), Pool),
                      PAS_END + Total(k))
  /\ UNCHANGED phase

\* (Mutant of LoadArray: the old entry is not closed over.)
LoadArrayNoMove ==
  /\ phase = "prompt"
  /\ \E n \in Names, k \in Sizes : \E body \in [1..k -> Values] :
       /\ Fits(n, k)
       /\ ClearArrays(Freed(Ldir(Staged(n, body, k), ArenaBase, Target(n), Total(k)), Pool),
                      Target(n) + Total(k))
  /\ UNCHANGED phase

\* V2_LOAD_ARRAY.  No room (ARRAY STORE FULL), an aborted or damaged tape or a
\* malformed body: the session has ended and the store is as it was.
LoadArray ==
  /\ phase = "prompt"
  /\ \E n \in Names, k \in Sizes :
       \/ ClearArrays(AboveStore, PAS_END)
       \/ Fits(n, k) /\ \E body \in [1..k -> Values] : Commit(n, body, k)
  /\ UNCHANGED phase

-----------------------------------------------------------------------------
\* Programs and immediate statements.

\* (Mutant of Start: ARR_RUN_INIT forgets ARR2_END.)
StartAtBase ==
  /\ phase = "prompt"
  /\ \E d \in [Names -> {0} \cup Sizes] :
       /\ Mismatched(d) = {} /\ slot' = Bound(d, NoSlots) /\ decl' = d
  /\ mem' = AboveStore /\ ARR2_END' = ARR2_BASE /\ ARRAYS_END' = ArenaBase
  /\ SESS_VALID' = TRUE /\ setup' = "whole" /\ phase' = "run"
  /\ UNCHANGED PAS_END

\* VM_INIT, then ARR_RUN_INIT.  A declared count that differs from the stored one
\* stops it (error 65) with some names bound and others not.  A BREAK accepted after
\* VM_INIT_REGS, or tables that VM_CARVE_PTRS has no room for (error 64), make
\* ARR_RUN_INIT return at its test: segment 2 begins where VM_INIT left it, at
\* ARR2_BASE, below the store's end, and nothing is bound.
SetUp(d) ==
  \/ /\ Mismatched(d) = {} /\ slot' = Bound(d, NoSlots)
     /\ ARR2_END' = PAS_END /\ setup' = "whole" /\ phase' \in {"run", "prompt"}
  \/ /\ Mismatched(d) # {}
     /\ \E B \in SUBSET (Names \ Mismatched(d)) :
          slot' = [n \in Names |-> IF n \in B THEN Bound(d, NoSlots)[n] ELSE 0]
     /\ ARR2_END' = PAS_END /\ setup' = "whole" /\ phase' = "prompt"
  \/ /\ slot' = NoSlots /\ ARR2_END' = ARR2_BASE
     /\ setup' \in {"broken", "refused"} /\ phase' = "prompt"

\* RUN, or V2_ENSURE_SESSION and a statement that runs alone (no session is left):
\* fresh slots.  SESS_VALID is set before VM_INIT and stays set however that ends.
Start ==
  /\ phase = "prompt"
  /\ \E d \in [Names -> {0} \cup Sizes] : decl' = d /\ SetUp(d)
  /\ mem' = AboveStore /\ ARRAYS_END' = ArenaBase
  /\ SESS_VALID' \in {TRUE, SESS_VALID}
  /\ UNCHANGED PAS_END

\* An immediate statement in a session: it may declare new names (declaring one
\* again is error 38).  ARR_RUN_CHECK refuses it while any declared count differs
\* from the stored one; else the slots are carved, the new ones empty, and bound:
\* after a broken set-up that binds every stored name again, but ARR2_END stays
\* where it is.  In a refused session VM_CARVE_PTRS refuses it again, and what it
\* refuses in another changes nothing here.  A BREAK after VM_INIT_SESSION's
\* VM_INIT_REGS makes the shell undo a statement whose tables have moved.
ImmediateStatement ==
  /\ phase = "prompt" /\ SESS_VALID
  /\ \E d \in [Names -> {0} \cup Sizes] :
       /\ \A n \in Names : decl[n] # 0 => d[n] = decl[n]
       /\ Mismatched(d) = {}
       /\ \/ /\ setup \in {"whole", "broken"}
             /\ decl' = d /\ slot' = Bound(d, slot) /\ phase' = "run"
             /\ UNCHANGED setup
          \/ /\ setup \in {"whole", "broken"} /\ d # decl /\ decl # NoNames
             /\ setup' = "displaced" /\ UNCHANGED <<decl, slot, phase>>
          \/ /\ setup = "displaced" /\ phase' = "lost"
             /\ UNCHANGED <<decl, slot, setup>>
  /\ UNCHANGED <<mem, PAS_END, ARR2_END, ARRAYS_END, SESS_VALID>>

\* DIM of a name whose slot leads into the store adopts the stored array; else a
\* new array is made in the arena, or in segment 2 when the control stack (here:
\* anywhere above the arena) leaves no room, and filled with zeros -- unless a
\* BREAK is pending, which ARR_DIM takes for a failed allocation.
Adopted(n) == slot[n] \in ARR2_BASE..(PAS_END - 1)

NewArray(k, at, fill) ==
  [a \in DOMAIN mem |-> IF a = at THEN Dimension(k)
                        ELSE IF a \in (at + 1)..(at + k) THEN fill ELSE mem[a]]

Allocate(n, fill) ==
  LET k == decl[n]  size == ARR_DESC_DATA_OFF + k IN
  \/ /\ ARRAYS_END + size < VM_CSP
     /\ mem' = NewArray(k, ARRAYS_END, fill)
     /\ slot' = [slot EXCEPT ![n] = ARRAYS_END]
     /\ ARRAYS_END' = ARRAYS_END + size /\ UNCHANGED ARR2_END
  \/ /\ ARR2_END + size < ARR2_LIMIT
     /\ mem' = NewArray(k, ARR2_END, fill)
     /\ slot' = [slot EXCEPT ![n] = ARR2_END]
     /\ ARR2_END' = ARR2_END + size /\ UNCHANGED ARRAYS_END

\* (Mutants of Dim: no zero fill; a stored array is not adopted.)
DimNoFill ==
  /\ phase = "run"
  /\ \E n \in {m \in Names : decl[m] # 0 /\ ~Adopted(m)} : Allocate(n, Free)
  /\ UNCHANGED <<PAS_END, decl, SESS_VALID, setup, phase>>
DimNoAdopt ==
  /\ phase = "run"
  /\ \E n \in {m \in Names : decl[m] # 0} : Allocate(n, Element(0))
  /\ UNCHANGED <<PAS_END, decl, SESS_VALID, setup, phase>>

\* After a broken set-up an array in segment 2 begins below PAS_END.
OverStore == setup = "broken" /\ ARR2_END < PAS_END /\ ARR2_END' # ARR2_END

Dim ==
  /\ phase = "run"
  /\ \E n \in {m \in Names : decl[m] # 0 /\ ~Adopted(m)} :
       \/ Allocate(n, Element(0)) /\ phase' = IF OverStore THEN "lost" ELSE phase
       \/ /\ BreakInStatement /\ Allocate(n, Free)
          /\ phase' = IF OverStore THEN "lost" ELSE "prompt"
  /\ UNCHANGED <<PAS_END, decl, SESS_VALID, setup>>

\* An element is assigned in place.
ArrStore ==
  /\ phase = "run"
  /\ \E n \in Names, v \in Values :
       /\ decl[n] # 0 /\ slot[n] # 0
       /\ \E i \in 1..decl[n] : mem' = [mem EXCEPT ![slot[n] + i] = Element(v)]
  /\ UNCHANGED <<PAS_END, ARR2_END, ARRAYS_END, decl, slot, SESS_VALID, setup, phase>>

\* CLEAR: the slots are emptied and the store is bound again, segment 2 begins above
\* it -- unless a BREAK is pending, for which ARR_RUN_INIT does nothing.
ClearStatement ==
  /\ phase = "run"
  /\ mem' = AboveStore /\ ARRAYS_END' = ArenaBase
  /\ \/ /\ ARR2_END' = PAS_END /\ slot' = Bound(decl, NoSlots)
        /\ setup' = "whole" /\ UNCHANGED phase
     \/ /\ BreakInStatement /\ slot' = NoSlots /\ phase' = "prompt"
        /\ UNCHANGED <<ARR2_END, setup>>
  /\ UNCHANGED <<PAS_END, decl, SESS_VALID>>

Stop ==
  /\ phase = "run" /\ phase' = "prompt"
  /\ UNCHANGED <<mem, PAS_END, ARR2_END, ARRAYS_END, decl, slot, SESS_VALID, setup>>

-----------------------------------------------------------------------------
Init ==
  /\ mem = [a \in Segment \cup Pool |-> Free]
  /\ PAS_END = ARR2_BASE /\ ARR2_END = ARR2_BASE /\ ARRAYS_END = ArenaBase
  /\ decl = NoNames /\ slot = NoSlots
  /\ SESS_VALID = FALSE /\ setup = "whole" /\ phase = "prompt"

Next ==
  \/ EndSession \/ New \/ LoadArray
  \/ Start \/ ImmediateStatement
  \/ Dim \/ ArrStore \/ ClearStatement \/ Stop

Spec == Init /\ [][Next]_vars

-----------------------------------------------------------------------------
\* Properties.

Cells == {Free} \cup {Entry(n, Total(k)) : n \in Names, k \in Sizes}
         \cup {Dimension(k) : k \in Sizes} \cup {Element(v) : v \in Values}

TypeOK ==
  /\ mem \in [Segment \cup Pool -> Cells]
  /\ PAS_END \in ARR2_BASE..ARR2_LIMIT /\ ARR2_END \in ARR2_BASE..ARR2_LIMIT
  /\ ARRAYS_END \in ArenaBase..VM_CSP
  /\ decl \in [Names -> {0} \cup Sizes] /\ slot \in [Names -> {0} \cup Segment \cup Pool]
  /\ SESS_VALID \in BOOLEAN /\ phase \in {"prompt", "run", "lost"}
  /\ setup \in {"whole", "broken", "refused", "displaced"}

\* A whole array at a: a header of count k and k cells of one of these kinds.
ArrayAt(a, k, Kinds) ==
  /\ mem[a] = Dimension(k)
  /\ \A i \in 1..k : mem[a + i][1] \in Kinds

\* The store is a chain of whole entries that ends exactly at PAS_END, with no
\* name twice -- after any order of loads, replacements, refused loads, set-ups that
\* BREAK stops and writes, up to a DIM that a broken set-up leads into it.
EntryAddresses == {a \in ARR2_BASE..(PAS_END - 1) : IsEntry(a)}
Chained ==
  /\ PAS_END # ARR2_BASE => ARR2_BASE \in EntryAddresses
  /\ \A a \in EntryAddresses :
       /\ ArrayAt(a + KEY, mem[a][2] - Total(0), {"value"})
       /\ a + mem[a][2] \in EntryAddresses \cup {PAS_END}
       /\ \A b \in EntryAddresses \ {a} : mem[b][3] # mem[a][3]
StoreSound == phase # "lost" => Chained

\* A program, or a statement in a session, that follows a slot finds an array of
\* the declared size; a stored array is reached through its entry and nothing
\* else; and no two names share a byte.  In a session whose tables were refused or
\* have been displaced no statement comes to follow one.
Reachable ==
  IF phase = "run" \/ (SESS_VALID /\ setup \in {"whole", "broken"})
  THEN {n \in Names : decl[n] # 0 /\ slot[n] # 0} ELSE {}
SafeSlots ==
  \A n \in Reachable :
    /\ ArrayAt(slot[n], decl[n], {"value", "free"})
    /\ InStore(n) => slot[n] = Descriptor(n)
    /\ ~InStore(n) => slot[n] \notin ARR2_BASE..(PAS_END - 1)
    /\ \A m \in Reachable \ {n} : slot[m] \notin slot[n]..(slot[n] + decl[n])
SlotsSound == phase # "lost" => SafeSlots

\* "The store never moves or changes size during a RUN", nor between the
\* statements of a session; it changes only when the session has ended.  The one
\* exception is the step to "lost".
StorePut ==
  /\ PAS_END' = PAS_END
  /\ \A a \in EntryAddresses : mem'[a] = mem[a] /\ mem'[a + KEY] = mem[a + KEY]
StoreNeverMoves ==
  [][phase' # "lost" /\ (phase = "run" \/ SESS_VALID') => StorePut]_vars

\* The same with no exception: no program ever gets at what others own.
NeverLost == phase # "lost"

\* What the user sees: contents, without addresses.
None == <<>>
Elements(a, k) == [i \in 1..k |-> mem[a + i]]
Stored == [n \in Names |-> IF InStore(n) THEN Elements(Descriptor(n), StoredCount(n)) ELSE None]
Ordinary == [n \in Names |-> IF n \in Reachable /\ ~InStore(n)
                             THEN Elements(slot[n], decl[n]) ELSE None]

\* What a DIM makes: zeros, or what lay there when BREAK stops it half-way.
FreshArrays(k) == {[i \in 1..k |-> Element(0)]}
                  \cup IF BreakInStatement THEN {[i \in 1..k |-> Free]} ELSE {}

Map == INSTANCE ArrayMap
  WITH stored <- Stored, ordinary <- Ordinary,
       Bodies <- UNION {[1..k -> {Element(v) : v \in Values}] : k \in Sizes},
       Fresh <- UNION {FreshArrays(k) : k \in Sizes}

\* Loading, replacing, adopting, clearing and writing arrays does to contents what
\* ArrayMap says: one name at a time, all of it or nothing, and stored arrays
\* outlive every run -- until a broken or displaced set-up has led to "lost".
HonoursMap == Map!Init /\ [][phase = "lost" \/ phase' = "lost" \/ Map!Next]_(Map!vars)

\* "DIM zero-fills": while a program goes on, no element becomes readable that holds
\* a byte left by someone else.
Undefined == {e \in Reachable \X (1..ARR2_LIMIT) :
                e[2] <= decl[e[1]] /\ mem[slot[e[1]] + e[2]] = Free}
DimZeroFills == [][phase' = "run" => Undefined' \subseteq Undefined]_vars

\* The same with no exception: an element that can be read has been written.
ElementsDefined == Undefined = {}
=============================================================================
