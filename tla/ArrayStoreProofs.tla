-------------------------- MODULE ArrayStoreProofs --------------------------
(***************************************************************************)
(* What ArrayStore promises of the Array Store, proved for every size of   *)
(* the segment and the arena, every set of names, of sizes and of values.  *)
(***************************************************************************)
EXTENDS ArrayStore, WellFoundedInduction, TLAPS

-----------------------------------------------------------------------------
\* Walking upwards through the natural numbers.

\* A set of natural numbers that is not empty has a least one.
LEMMA LeastNat ==
  ASSUME NEW T, T \subseteq Nat, T # {}
  PROVE  \E x \in T : \A y \in T : x <= y
<1> DEFINE R == {ss \in Nat \X Nat : ss[1] < ss[2]}
<1>1. IsWellFoundedOn(R, Nat)
  BY NatLessThanWellFounded DEF OpToRel
<1>2. PICK x \in T : \A y \in T : ~ (<<y, x>> \in R)
  <2> HIDE DEF R
  <2> QED BY <1>1, WFMin
<1>3. \A y \in T : x <= y
  <2> SUFFICES ASSUME NEW y \in T, y < x PROVE FALSE
    OBVIOUS
  <2>1. <<y, x>> \in Nat \X Nat
    OBVIOUS
  <2>2. <<y, x>> \in R
    BY <2>1
  <2> QED BY <2>2, <1>2
<1> QED BY <1>3

\* A walk that goes up at every step and stops above N defines a function.
WalkOf(g, S, Stops, result, next) ==
  \A a \in S : g[a] = IF a \in Stops THEN result[a] ELSE g[next[a]]

LEMMA WalkExists ==
  ASSUME NEW N \in Nat, NEW Stops, NEW result, NEW next \in [Nat -> Nat],
         \A a \in Nat : a >= N => a \in Stops,
         \A a \in Nat : next[a] > a
  PROVE  \E g : WalkOf(g, Nat, Stops, result, next) /\ g = [a \in Nat |-> g[a]]
<1> DEFINE Top(k) == {a \in Nat : a + k >= N}
           Bad == {k \in Nat : ~ \E g : WalkOf(g, Top(k), Stops, result, next)}
<1>1. Bad = {}
  <2> SUFFICES ASSUME Bad # {} PROVE FALSE
    OBVIOUS
  <2>1. PICK k \in Bad : \A j \in Bad : k <= j
    <3>1. Bad \subseteq Nat
      OBVIOUS
    <3> HIDE DEF Bad
    <3> QED BY <3>1, LeastNat
  <2>2. k # 0
    <3>1. WalkOf([a \in Nat |-> result[a]], Top(0), Stops, result, next)
      BY DEF WalkOf
    <3> QED BY <3>1
  <2>3. k - 1 \in Nat /\ k - 1 \notin Bad
    <3>1. k \in Nat
      OBVIOUS
    <3> HIDE DEF Bad
    <3> QED BY <2>1, <2>2, <3>1
  <2>4. PICK g : WalkOf(g, Top(k - 1), Stops, result, next)
    BY <2>3
  <2> DEFINE h == [a \in Nat |-> IF a + k - 1 >= N THEN g[a]
                                 ELSE IF a \in Stops THEN result[a] ELSE g[next[a]]]
  <2>5. WalkOf(h, Top(k), Stops, result, next)
    <3> SUFFICES ASSUME NEW a \in Top(k)
                 PROVE  h[a] = IF a \in Stops THEN result[a] ELSE h[next[a]]
      BY DEF WalkOf
    <3>1. a \in Nat /\ next[a] \in Nat /\ next[a] > a /\ next[a] + k - 1 >= N
      BY <2>3
    <3>2. h[next[a]] = g[next[a]]
      BY <3>1
    <3>3. CASE a + k - 1 >= N
      <4>1. a \in Top(k - 1)
        BY <3>1, <3>3, <2>3
      <4>2. h[a] = g[a]
        BY <3>1, <3>3
      <4>3. g[a] = IF a \in Stops THEN result[a] ELSE g[next[a]]
        BY <4>1, <2>4 DEF WalkOf
      <4> HIDE DEF h
      <4> QED BY <4>2, <4>3, <3>2
    <3>4. CASE ~(a + k - 1 >= N)
      <4>1. h[a] = IF a \in Stops THEN result[a] ELSE g[next[a]]
        BY <3>1, <3>4
      <4> HIDE DEF h
      <4> QED BY <4>1, <3>2
    <3> QED BY <3>3, <3>4
  <2> QED BY <2>5
<1>2. N \in Nat /\ Top(N) = Nat
  OBVIOUS
<1>3. PICK g : WalkOf(g, Nat, Stops, result, next)
  <2>1. \E g : WalkOf(g, Top(N), Stops, result, next)
    BY <1>1
  <2> QED BY <2>1, <1>2
<1> DEFINE f == [a \in Nat |-> g[a]]
<1>4. WalkOf(f, Nat, Stops, result, next) /\ f = [a \in Nat |-> f[a]]
  BY <1>3 DEF WalkOf
<1> QED BY <1>4

-----------------------------------------------------------------------------
\* Cells, and the store as a chain of entries.

LEMMA Tags ==
  /\ Free[1] = "free"
  /\ \A n, k : Entry(n, k)[1] = "entry" /\ Entry(n, k)[2] = k /\ Entry(n, k)[3] = n
  /\ \A k : Dimension(k)[1] = "dim" /\ Dimension(k)[2] = k
  /\ \A v : Element(v)[1] = "value" /\ Element(v) # Free
  BY DEF Free, Entry, Dimension, Element

LEMMA Counts ==
  \A k \in Sizes : k \in Nat /\ k >= 1 /\ Total(k) = k + 2 /\ Total(k) \in Nat
  BY StoreAssumption DEF Total, KEY, ARR_DESC_DATA_OFF

LEMMA CellKinds ==
  ASSUME NEW c \in Cells
  PROVE  /\ c[1] \in {"free", "entry", "dim", "value"}
         /\ c[1] = "entry" =>
              /\ c[3] \in Names
              /\ \E k \in Sizes : c[2] = Total(k) /\ c = Entry(c[3], Total(k))
         /\ c[1] = "dim" => c[2] \in Sizes /\ c = Dimension(c[2])
         /\ c[1] = "value" => \E v \in Values : c = Element(v)
         /\ c[1] = "free" => c = Free
<1>1. CASE c = Free
  BY <1>1, Tags
<1>2. CASE \E n \in Names, k \in Sizes : c = Entry(n, Total(k))
  BY <1>2, Tags
<1>3. CASE \E k \in Sizes : c = Dimension(k)
  BY <1>3, Tags
<1>4. CASE \E v \in Values : c = Element(v)
  BY <1>4, Tags
<1>5. \/ c = Free
      \/ \E n \in Names, k \in Sizes : c = Entry(n, Total(k))
      \/ \E k \in Sizes : c = Dimension(k)
      \/ \E v \in Values : c = Element(v)
  BY DEF Cells
<1> QED BY <1>1, <1>2, <1>3, <1>4, <1>5

\* The walk of ARR_FIND, one step at a time.
LEMMA FindUnfolds ==
  ASSUME TypeOK, NEW n
  PROVE  \E f : /\ ARR_FIND(n) = f[ARR2_BASE]
                /\ \A a \in Nat :
                     f[a] = IF a >= PAS_END \/ ~IsEntry(a) THEN 0
                            ELSE IF mem[a][3] = n THEN a ELSE f[a + mem[a][2]]
<1> DEFINE body(g) == [a \in Nat |-> IF a >= PAS_END \/ ~IsEntry(a) THEN 0
                                     ELSE IF mem[a][3] = n THEN a ELSE g[a + mem[a][2]]]
           from == CHOOSE g : g = body(g)
           Stops == {a \in Nat : a >= PAS_END \/ ~IsEntry(a) \/ mem[a][3] = n}
           result == [a \in Nat |-> IF a >= PAS_END \/ ~IsEntry(a) THEN 0 ELSE a]
           next == [a \in Nat |-> IF a \in Stops THEN a + 1 ELSE a + mem[a][2]]
<1>1. ARR_FIND(n) = from[ARR2_BASE]
  BY DEF ARR_FIND
<1>2. PAS_END \in Nat /\ ARR2_BASE \in Nat
  BY StoreAssumption DEF TypeOK
<1>3. \A a \in Nat : IsEntry(a) => mem[a][2] \in Nat /\ mem[a][2] > 0
  <2> SUFFICES ASSUME NEW a \in Nat, IsEntry(a) PROVE mem[a][2] \in Nat /\ mem[a][2] > 0
    OBVIOUS
  <2>1. mem[a] \in Cells /\ mem[a][1] = "entry"
    BY Zenon DEF IsEntry, TypeOK
  <2> QED BY <2>1, CellKinds, Counts
<1>4. next \in [Nat -> Nat] /\ \A a \in Nat : next[a] > a
  BY <1>3
<1>5. \E g : g = body(g)
  <2>1. \A a \in Nat : a >= PAS_END => a \in Stops
    OBVIOUS
  <2>2. PICK g : WalkOf(g, Nat, Stops, result, next) /\ g = [a \in Nat |-> g[a]]
    <3> HIDE DEF Stops, result, next
    <3>1. ASSUME NEW N \in Nat, NEW S, NEW r, NEW q \in [Nat -> Nat],
                 \A a \in Nat : a >= N => a \in S, \A a \in Nat : q[a] > a
          PROVE  \E g : WalkOf(g, Nat, S, r, q) /\ g = [a \in Nat |-> g[a]]
      BY ZenonT(60), <3>1, WalkExists
    <3>2. PAS_END \in Nat /\ next \in [Nat -> Nat]
      BY <1>2, <1>4
    <3>3. \A a \in Nat : next[a] > a
      BY <1>4
    <3> QED BY ZenonT(60), <3>1, <3>2, <3>3, <2>1
  <2>3. \A a \in Nat : g[a] = IF a \in Stops THEN result[a] ELSE g[next[a]]
    <3> HIDE DEF Stops, result, next
    <3> QED BY <2>2 DEF WalkOf
  <2>4. \A a \in Nat : g[a] = body(g)[a]
    BY <2>3
  <2>5. body(g) = [a \in Nat |-> body(g)[a]]
    OBVIOUS
  <2>6. [a \in Nat |-> g[a]] = [a \in Nat |-> body(g)[a]]
    BY <2>4
  <2> HIDE DEF body
  <2> QED BY <2>2, <2>5, <2>6
<1>6. from = body(from)
  <2> HIDE DEF body
  <2> QED BY <1>5
<1>7. \A a \in Nat : from[a] = body(from)[a]
  <2> HIDE DEF from, body
  <2> QED BY <1>6
<1> HIDE DEF from
<1> QED BY <1>1, <1>7

\* An entry is whole, ends where the next begins, and no other begins within it.
WholeEntry(a, k) ==
  /\ k \in Sizes /\ mem[a] = Entry(mem[a][3], Total(k)) /\ mem[a][2] = Total(k)
  /\ mem[a][3] \in Names
  /\ mem[a + KEY] = Dimension(k)
  /\ \A i \in 1..k : mem[a + KEY + i][1] = "value"
  /\ a + Total(k) \in EntryAddresses \cup {PAS_END} /\ a + Total(k) <= PAS_END
  /\ \A b \in EntryAddresses : b <= a \/ b >= a + Total(k)

LEMMA EntryIsWhole ==
  TypeOK /\ Chained => \A a \in EntryAddresses : \E k \in Sizes : WholeEntry(a, k)
<1> SUFFICES ASSUME TypeOK, Chained, NEW a \in EntryAddresses
             PROVE  \E k \in Sizes : WholeEntry(a, k)
  OBVIOUS
<1>1. a \in Nat /\ PAS_END \in Nat /\ a < PAS_END /\ IsEntry(a)
  BY StoreAssumption DEF TypeOK, EntryAddresses
<1>2. mem[a] \in Cells /\ mem[a][1] = "entry"
  BY <1>1, Zenon DEF IsEntry, TypeOK
<1>3. PICK k \in Sizes : mem[a][2] = Total(k) /\ mem[a] = Entry(mem[a][3], Total(k))
  BY <1>2, CellKinds
<1>4. mem[a][3] \in Names
  BY <1>2, CellKinds
<1>5. k \in Nat /\ k >= 1 /\ Total(k) = k + 2 /\ mem[a][2] - Total(0) = k
  BY <1>3, Counts DEF Total, KEY, ARR_DESC_DATA_OFF
<1>6. ArrayAt(a + KEY, k, {"value"}) /\ a + Total(k) \in EntryAddresses \cup {PAS_END}
  BY <1>3, <1>5, Zenon DEF Chained
<1>7. mem[a + KEY] = Dimension(k) /\ \A i \in 1..k : mem[a + KEY + i][1] = "value"
  BY <1>6 DEF ArrayAt
<1>8. a + Total(k) <= PAS_END
  BY <1>1, <1>5, <1>6 DEF EntryAddresses
<1>9. \A b \in EntryAddresses : b <= a \/ b >= a + Total(k)
  <2> SUFFICES ASSUME NEW b \in EntryAddresses, b > a, b < a + Total(k) PROVE FALSE
    BY <1>1, <1>5, StoreAssumption DEF EntryAddresses
  <2>1. b \in Nat /\ mem[b][1] = "entry"
    BY StoreAssumption DEF EntryAddresses, IsEntry
  <2>2. CASE b = a + KEY
    BY <2>1, <2>2, <1>7, Tags
  <2>3. CASE b # a + KEY
    <3>1. b - a - 1 \in 1..k /\ b = a + KEY + (b - a - 1)
      BY <2>1, <2>3, <1>1, <1>5 DEF KEY
    <3> QED BY <3>1, <2>1, <1>7
  <2> QED BY <2>2, <2>3
<1> QED BY <1>3, <1>4, <1>6, <1>7, <1>8, <1>9, Zenon DEF WholeEntry

\* ARR_FIND finds the one entry of a name, wherever it is in the chain.
LEMMA Found ==
  TypeOK /\ Chained =>
    \A n \in Names :
      \/ ARR_FIND(n) = 0 /\ \A a \in EntryAddresses : mem[a][3] # n
      \/ ARR_FIND(n) \in EntryAddresses /\ mem[ARR_FIND(n)][3] = n
<1> SUFFICES ASSUME TypeOK, Chained, NEW n \in Names
             PROVE  \/ ARR_FIND(n) = 0 /\ \A a \in EntryAddresses : mem[a][3] # n
                    \/ ARR_FIND(n) \in EntryAddresses /\ mem[ARR_FIND(n)][3] = n
  OBVIOUS
<1>1. PICK f : /\ ARR_FIND(n) = f[ARR2_BASE]
               /\ \A a \in Nat :
                    f[a] = IF a >= PAS_END \/ ~IsEntry(a) THEN 0
                           ELSE IF mem[a][3] = n THEN a ELSE f[a + mem[a][2]]
  BY FindUnfolds
<1> DEFINE Good(a) == \/ f[a] = 0 /\ \A b \in EntryAddresses : b >= a => mem[b][3] # n
                      \/ f[a] \in EntryAddresses /\ mem[f[a]][3] = n
           Bad == {d \in Nat : \E a \in EntryAddresses \cup {PAS_END} :
                                 a + d = PAS_END /\ ~Good(a)}
<1>2. PAS_END \in Nat /\ ARR2_BASE \in Nat /\ ARR2_BASE <= PAS_END
  BY StoreAssumption DEF TypeOK
<1>3. \A a \in EntryAddresses : a \in Nat /\ a >= ARR2_BASE /\ a < PAS_END /\ IsEntry(a)
  BY <1>2 DEF EntryAddresses
<1>4. Bad = {}
  <2> SUFFICES ASSUME Bad # {} PROVE FALSE
    OBVIOUS
  <2>1. PICK d \in Bad : \A e \in Bad : d <= e
    <3>1. Bad \subseteq Nat
      OBVIOUS
    <3> HIDE DEF Bad
    <3> QED BY <3>1, LeastNat
  <2>2. PICK a \in EntryAddresses \cup {PAS_END} : a + d = PAS_END /\ ~Good(a)
    OBVIOUS
  <2>3. a # PAS_END
    <3>1. ASSUME a = PAS_END PROVE Good(a)
      BY <3>1, <1>1, <1>2, <1>3
    <3> QED BY <3>1, <2>2
  <2>4. a \in EntryAddresses /\ a \in Nat /\ IsEntry(a) /\ a < PAS_END
    BY <2>3, <1>3
  <2>5. f[a] = IF mem[a][3] = n THEN a ELSE f[a + mem[a][2]]
    BY <2>4, <1>1, <1>2
  <2>6. mem[a][3] # n
    <3>1. ASSUME mem[a][3] = n PROVE Good(a)
      BY <3>1, <2>4, <2>5
    <3> QED BY <3>1, <2>2
  <2>7. PICK k \in Sizes : WholeEntry(a, k)
    BY <2>4, EntryIsWhole
  <2>8. k \in Nat /\ Total(k) = k + 2 /\ mem[a][2] = Total(k)
    BY <2>7, Counts DEF WholeEntry
  <2> DEFINE z == a + Total(k)
  <2>9. z \in EntryAddresses \cup {PAS_END} /\ z \in Nat /\ z <= PAS_END /\ z > a
    BY <2>4, <2>7, <2>8 DEF WholeEntry
  <2>10. ~Good(z)
    <3>1. f[a] = f[z]
      BY <2>5, <2>6, <2>8
    <3>2. \A b \in EntryAddresses : b >= a => b = a \/ b >= z
      BY <2>4, <2>7, <1>3 DEF WholeEntry
    <3> HIDE DEF z
    <3> QED BY <3>1, <3>2, <2>2, <2>6
  <2>11. PAS_END - z \in Nat /\ PAS_END - z < d /\ z + (PAS_END - z) = PAS_END /\ d \in Nat
    <3>1. d \in Nat
      OBVIOUS
    <3> HIDE DEF z, Bad, Good
    <3> QED BY <3>1, <2>2, <2>4, <2>9, <1>2
  <2>12. PAS_END - z \in Bad
    <3> HIDE DEF z, Good
    <3> QED BY <2>9, <2>10, <2>11
  <2> HIDE DEF Bad, z
  <2> QED BY <2>1, <2>11, <2>12
<1>5. Good(ARR2_BASE)
  <2>1. ARR2_BASE \in EntryAddresses \cup {PAS_END}
    BY DEF Chained
  <2>2. PAS_END - ARR2_BASE \in Nat /\ ARR2_BASE + (PAS_END - ARR2_BASE) = PAS_END
    BY <1>2
  <2> HIDE DEF Good
  <2> QED BY <2>1, <2>2, <1>4
<1> QED BY <1>1, <1>3, <1>5

LEMMA FoundNext ==
  (TypeOK /\ Chained =>
     \A n \in Names :
       \/ ARR_FIND(n) = 0 /\ \A a \in EntryAddresses : mem[a][3] # n
       \/ ARR_FIND(n) \in EntryAddresses /\ mem[ARR_FIND(n)][3] = n)'
  BY Found, PTL

\* A stored array: a descriptor and elements inside the store, apart from the others.
StoredArray(n) ==
  /\ StoredCount(n) \in Sizes /\ Descriptor(n) \in Nat
  /\ ARR2_BASE < Descriptor(n) /\ Descriptor(n) + StoredCount(n) < PAS_END
  /\ mem[Descriptor(n)] = Dimension(StoredCount(n))
  /\ \A i \in 1..StoredCount(n) : mem[Descriptor(n) + i][1] = "value"
  /\ \A m \in Names \ {n} : InStore(m) =>
       Descriptor(m) \notin Descriptor(n)..(Descriptor(n) + StoredCount(n))

LEMMA StoredArrays ==
  TypeOK /\ Chained => \A n \in Names : InStore(n) => StoredArray(n)
<1> SUFFICES ASSUME TypeOK, Chained, NEW n \in Names, InStore(n)
             PROVE  StoredArray(n)
  OBVIOUS
<1> DEFINE a == ARR_FIND(n)
<1>1. a \in EntryAddresses /\ mem[a][3] = n
  BY Found, Zenon DEF InStore
<1>2. PICK k \in Sizes : WholeEntry(a, k)
  BY <1>1, EntryIsWhole
<1>3. a \in Nat /\ ARR2_BASE <= a /\ a < PAS_END /\ PAS_END \in Nat /\ ARR2_BASE \in Nat
  BY <1>1, StoreAssumption DEF TypeOK, EntryAddresses
<1>4. k \in Nat /\ Total(k) = k + 2 /\ a + Total(k) <= PAS_END
  BY <1>2, Counts DEF WholeEntry
<1>5. Descriptor(n) = a + 1 /\ mem[a + 1] = Dimension(k) /\ StoredCount(n) = k
  BY <1>2, Tags DEF WholeEntry, Descriptor, StoredCount, KEY
<1>6. \A i \in 1..k : mem[a + 1 + i][1] = "value"
  BY <1>2 DEF WholeEntry, KEY
<1>7. ASSUME NEW m \in Names \ {n}, InStore(m)
      PROVE  Descriptor(m) \notin (a + 1)..(a + 1 + k)
  <2>1. ARR_FIND(m) \in EntryAddresses /\ mem[ARR_FIND(m)][3] = m
    BY <1>7, Found, Zenon DEF InStore
  <2>2. ARR_FIND(m) # a
    BY <2>1, <1>1
  <2>3. ARR_FIND(m) \in Nat /\ (ARR_FIND(m) <= a \/ ARR_FIND(m) >= a + Total(k))
    BY <2>1, <1>2, StoreAssumption DEF WholeEntry, EntryAddresses
  <2> HIDE DEF a
  <2> QED BY <2>2, <2>3, <1>3, <1>4 DEF Descriptor, KEY
<1> HIDE DEF a
<1> QED BY <1>2, <1>3, <1>4, <1>5, <1>6, <1>7 DEF StoredArray

-----------------------------------------------------------------------------
\* The inductive invariant.  SlotsSound says what a program may rely on; that no
\* step destroys it rests on where the slots lead: a bound name to its entry, any
\* other to an array below ARRAYS_END or between the store and ARR2_END.

EndsInOrder == setup = "whole" => PAS_END <= ARR2_END

\* Only a session whose set-up came to its end, or was broken off by BREAK, runs.
Live == phase # "lost" /\ (phase = "run" => setup \in {"whole", "broken"})

\* A name without declaration has no slot: one declared later starts empty.
Undeclared == \A n \in Names : decl[n] = 0 => slot[n] = 0

\* While a program runs every declared name of the store is bound: DIM adopts it.
RunBound == phase = "run" =>
  \A n \in Names : decl[n] # 0 /\ InStore(n) => slot[n] = Descriptor(n)

StoredSlots == \A n \in Reachable : InStore(n) =>
  slot[n] = Descriptor(n) /\ decl[n] = StoredCount(n)

InArena(n) == ArenaBase <= slot[n] /\ slot[n] + decl[n] < ARRAYS_END
InOverflow(n) == PAS_END <= slot[n] /\ slot[n] + decl[n] < ARR2_END
OrdinarySlots == \A n \in Reachable : ~InStore(n) =>
  (InArena(n) \/ InOverflow(n)) /\ ArrayAt(slot[n], decl[n], {"value", "free"})

Apart == \A n, m \in Reachable :
  n # m /\ ~InStore(n) /\ ~InStore(m) => slot[m] \notin slot[n]..(slot[n] + decl[n])

IInv == /\ TypeOK /\ Live /\ Chained /\ EndsInOrder /\ Undeclared /\ RunBound
        /\ StoredSlots /\ OrdinarySlots /\ Apart

\* Until the store is lost; then the state is typed and NEW makes a new one.
Unlost == IInv \/ (TypeOK /\ phase = "lost")

\* While the program goes on no unwritten element of an ordinary array appears.
NoNewHoles == phase' = "run" =>
  \A n \in Reachable' : ~InStore(n)' => \A i \in 1..decl'[n] :
    mem'[slot'[n] + i] = Free => n \in Reachable /\ i <= decl[n] /\ mem[slot[n] + i] = Free

\* Nothing below PAS_END is written.
Frozen ==
  /\ PAS_END' = PAS_END
  /\ \A a \in ARR2_BASE..(PAS_END - 1) : mem'[a] = mem[a]

\* One element has been assigned.
Written(n, i, v) ==
  /\ slot[n] + i \in Segment \cup Pool /\ mem'[slot[n] + i] = Element(v)
  /\ \A a \in Segment \cup Pool : a # slot[n] + i => mem'[a] = mem[a]

\* A new array has been made.
Dimmed(n, fill, at) ==
  /\ decl[n] \in Sizes /\ ~InStore(n) /\ at # 0
  /\ \/ fill = Element(0) /\ phase' = phase
     \/ fill = Free /\ phase' = "prompt" /\ BreakInStatement
  /\ slot'[n] = at /\ \A i \in 1..decl[n] : mem'[at + i] = fill
  /\ \A m \in Names : m # n => slot'[m] = slot[m]
  /\ \A m \in Reachable' : m # n /\ ~InStore(m) =>
       \A i \in 1..decl[m] : mem'[slot[m] + i] = mem[slot[m] + i]

LEMMA Borders ==
  /\ ARR2_BASE \in Nat /\ ARR2_LIMIT \in Nat /\ ArenaBase \in Nat /\ VM_CSP \in Nat
  /\ V2_CODE_LIMIT \in Nat /\ 0 < ARR2_BASE /\ ARR2_BASE < ARR2_LIMIT
  /\ ARR2_LIMIT <= ArenaBase /\ ArenaBase <= VM_CSP /\ VM_CSP <= V2_CODE_LIMIT
  BY StoreAssumption

LEMMA Ends ==
  TypeOK => /\ PAS_END \in Nat /\ ARR2_BASE <= PAS_END /\ PAS_END <= ARR2_LIMIT
            /\ ARR2_END \in Nat /\ ARR2_BASE <= ARR2_END /\ ARR2_END <= ARR2_LIMIT
            /\ ARRAYS_END \in Nat /\ ArenaBase <= ARRAYS_END /\ ARRAYS_END <= VM_CSP
  BY Borders DEF TypeOK

LEMMA SlotTypes ==
  TypeOK => \A n \in Names : slot[n] \in Nat /\ decl[n] \in Nat
                             /\ (decl[n] # 0 => decl[n] \in Sizes)
<1> SUFFICES ASSUME TypeOK, NEW n \in Names
             PROVE  slot[n] \in Nat /\ decl[n] \in Nat /\ (decl[n] # 0 => decl[n] \in Sizes)
  OBVIOUS
<1>1. slot[n] \in {0} \cup Segment \cup Pool /\ decl[n] \in {0} \cup Sizes
  BY Zenon DEF TypeOK
<1> QED BY <1>1, Borders, Counts DEF Segment, Pool

LEMMA SlotTypesNext ==
  (TypeOK => \A n \in Names : slot[n] \in Nat /\ decl[n] \in Nat
                              /\ (decl[n] # 0 => decl[n] \in Sizes))'
  BY SlotTypes, PTL

LEMMA OrdinaryCells ==
  TypeOK => \A n \in Names : InArena(n) \/ InOverflow(n) =>
    \A a \in slot[n]..(slot[n] + decl[n]) :
      a \in Segment \cup Pool /\ a \in Nat /\ a >= PAS_END
<1> SUFFICES ASSUME TypeOK, NEW n \in Names, InArena(n) \/ InOverflow(n),
                    NEW a \in slot[n]..(slot[n] + decl[n])
             PROVE  a \in Segment \cup Pool /\ a \in Nat /\ a >= PAS_END
  OBVIOUS
<1>1. slot[n] \in Nat /\ decl[n] \in Nat
  BY SlotTypes
<1> QED BY <1>1, Ends, Borders DEF InArena, InOverflow, Segment, Pool

LEMMA SlotsAreSound == IInv => SafeSlots
<1> SUFFICES ASSUME IInv, NEW n \in Reachable
             PROVE  /\ ArrayAt(slot[n], decl[n], {"value", "free"})
                    /\ InStore(n) => slot[n] = Descriptor(n)
                    /\ ~InStore(n) => slot[n] \notin ARR2_BASE..(PAS_END - 1)
                    /\ \A m \in Reachable \ {n} : slot[m] \notin slot[n]..(slot[n] + decl[n])
  BY DEF SafeSlots
<1> USE DEF IInv
<1>1. n \in Names /\ \A m \in Reachable : m \in Names
  BY DEF Reachable
<1>2. CASE InStore(n)
  <2>1. StoredArray(n) /\ slot[n] = Descriptor(n) /\ decl[n] = StoredCount(n)
    BY <1>1, <1>2, StoredArrays DEF StoredSlots
  <2>2. ArrayAt(slot[n], decl[n], {"value", "free"})
    BY <2>1 DEF ArrayAt, StoredArray
  <2>3. ASSUME NEW m \in Reachable \ {n} PROVE slot[m] \notin slot[n]..(slot[n] + decl[n])
    <3>1. CASE InStore(m)
      <4>1. slot[m] = Descriptor(m)
        BY <3>1 DEF StoredSlots
      <4> QED BY <4>1, <2>1, <1>1, <3>1 DEF StoredArray
    <3>2. CASE ~InStore(m)
      <4>1. InArena(m) \/ InOverflow(m)
        BY <3>2, Zenon DEF OrdinarySlots
      <4> QED BY <4>1, <2>1, <1>1, Ends, Borders, SlotTypes, Counts
              DEF StoredArray, InArena, InOverflow
    <3> QED BY <3>1, <3>2
  <2> QED BY <1>2, <2>1, <2>2, <2>3
<1>3. CASE ~InStore(n)
  <2>1. ArrayAt(slot[n], decl[n], {"value", "free"}) /\ (InArena(n) \/ InOverflow(n))
    BY <1>3, Zenon DEF OrdinarySlots
  <2>2. slot[n] >= PAS_END /\ slot[n] \in Nat /\ decl[n] \in Nat
    BY <2>1, <1>1, Ends, Borders, SlotTypes DEF InArena, InOverflow
  <2>3. ASSUME NEW m \in Reachable \ {n} PROVE slot[m] \notin slot[n]..(slot[n] + decl[n])
    <3>1. CASE InStore(m)
      <4>1. StoredArray(m) /\ slot[m] = Descriptor(m)
        BY <3>1, <1>1, StoredArrays DEF StoredSlots
      <4> QED BY <4>1, <2>2, Ends, Counts DEF StoredArray
    <3>2. CASE ~InStore(m)
      BY <3>2, <1>3 DEF Apart
    <3> QED BY <3>1, <3>2
  <2> QED BY <1>3, <2>1, <2>2, <2>3, Ends
<1> QED BY <1>2, <1>3

-----------------------------------------------------------------------------
\* Steps that leave the chain alone.

\* In the store only elements are written, and PAS_END stays.
Untouched ==
  /\ PAS_END' = PAS_END
  /\ \A a \in ARR2_BASE..(PAS_END - 1) :
       mem'[a] = mem[a] \/ (mem[a][1] = "value" /\ mem'[a][1] = "value")

LEMMA EntriesKept ==
  ASSUME TypeOK, Chained, Untouched
  PROVE  /\ EntryAddresses' = EntryAddresses
         /\ \A a \in EntryAddresses :
              /\ mem'[a] = mem[a] /\ mem'[a + KEY] = mem[a + KEY]
              /\ \A i \in 1..(mem[a][2] - Total(0)) : mem'[a + KEY + i][1] = "value"
<1>1. \A a \in ARR2_BASE..(PAS_END - 1) : a \in Segment
  BY Ends, Borders DEF Segment
<1>2. \A a \in ARR2_BASE..(PAS_END - 1) :
        mem[a][1] # "value" => mem'[a] = mem[a]
  BY Zenon DEF Untouched
<1>3. \A a \in ARR2_BASE..(PAS_END - 1) : mem'[a][1] = mem[a][1]
  BY DEF Untouched
<1>4. EntryAddresses' = EntryAddresses
  BY <1>1, <1>3 DEF EntryAddresses, IsEntry, Untouched
<1>5. ASSUME NEW a \in EntryAddresses
      PROVE  /\ mem'[a] = mem[a] /\ mem'[a + KEY] = mem[a + KEY]
             /\ \A i \in 1..(mem[a][2] - Total(0)) : mem'[a + KEY + i][1] = "value"
  <2>1. PICK k \in Sizes : WholeEntry(a, k)
    BY EntryIsWhole
  <2>2. k \in Nat /\ Total(k) = k + 2 /\ mem[a][2] - Total(0) = k
    BY <2>1, Counts DEF WholeEntry, Total, KEY, ARR_DESC_DATA_OFF
  <2>3. a \in Nat /\ ARR2_BASE <= a /\ a + k + 1 < PAS_END /\ mem[a][1] = "entry"
    BY <2>1, <2>2, Ends, Borders DEF WholeEntry, EntryAddresses, IsEntry
  <2>4. mem'[a] = mem[a]
    BY <1>2, <2>3, <2>2, Ends, Borders
  <2>5. mem'[a + KEY] = mem[a + KEY]
    <3>1. mem[a + KEY][1] = "dim"
      BY <2>1, Tags DEF WholeEntry
    <3>2. a + KEY \in ARR2_BASE..(PAS_END - 1)
      BY <2>2, <2>3, Ends, Borders DEF KEY
    <3> QED BY <1>2, <3>1, <3>2
  <2>6. \A i \in 1..k : mem'[a + KEY + i][1] = "value"
    <3> SUFFICES ASSUME NEW i \in 1..k PROVE mem'[a + KEY + i][1] = "value"
      OBVIOUS
    <3>1. a + KEY + i \in ARR2_BASE..(PAS_END - 1)
      BY <2>2, <2>3, Ends, Borders DEF KEY
    <3>2. mem[a + KEY + i][1] = "value"
      BY <2>1 DEF WholeEntry
    <3> QED BY <1>3, <3>1, <3>2
  <2> QED BY <2>2, <2>4, <2>5, <2>6
<1> QED BY <1>4, <1>5

LEMMA StoreKept ==
  ASSUME TypeOK, Chained, Untouched
  PROVE  Chained'
<1>1. EntryAddresses' = EntryAddresses /\ PAS_END' = PAS_END
  BY EntriesKept DEF Untouched
<1>2. PAS_END' # ARR2_BASE => ARR2_BASE \in EntryAddresses'
  BY <1>1, Zenon DEF Chained
<1>3. ASSUME NEW a \in EntryAddresses'
      PROVE  /\ ArrayAt(a + KEY, mem[a][2] - Total(0), {"value"})'
             /\ a + mem'[a][2] \in EntryAddresses' \cup {PAS_END'}
             /\ \A b \in EntryAddresses' \ {a} : mem'[b][3] # mem'[a][3]
  <2>1. a \in EntryAddresses /\ mem'[a] = mem[a]
    BY <1>1, EntriesKept, Zenon
  <2>2. ArrayAt(a + KEY, mem[a][2] - Total(0), {"value"})
    BY <2>1, Zenon DEF Chained
  <2>3. ArrayAt(a + KEY, mem[a][2] - Total(0), {"value"})'
    BY <2>1, <2>2, EntriesKept DEF ArrayAt
  <2>4. a + mem'[a][2] \in EntryAddresses' \cup {PAS_END'}
    BY <2>1, <1>1, Zenon DEF Chained
  <2>5. \A b \in EntryAddresses' \ {a} : mem'[b][3] # mem'[a][3]
    <3>1. \A b \in EntryAddresses : mem'[b] = mem[b]
      BY EntriesKept, Zenon
    <3>2. \A b \in EntryAddresses \ {a} : mem[b][3] # mem[a][3]
      BY <2>1, Zenon DEF Chained
    <3> QED BY <3>1, <3>2, <2>1, <1>1, Zenon
  <2> QED BY <2>3, <2>4, <2>5
<1> QED BY <1>2, <1>3 DEF Chained

\* A name is then found where it was.
LEMMA SamePlaces ==
  ASSUME TypeOK, Chained, Untouched, TypeOK'
  PROVE  \A n \in Names : /\ ARR_FIND(n)' = ARR_FIND(n)
                          /\ InStore(n)' = InStore(n)
                          /\ Descriptor(n)' = Descriptor(n)
                          /\ InStore(n) => StoredCount(n)' = StoredCount(n)
<1> SUFFICES ASSUME NEW n \in Names
             PROVE  /\ ARR_FIND(n)' = ARR_FIND(n)
                    /\ InStore(n)' = InStore(n)
                    /\ Descriptor(n)' = Descriptor(n)
                    /\ InStore(n) => StoredCount(n)' = StoredCount(n)
  OBVIOUS
<1>1. /\ EntryAddresses' = EntryAddresses
      /\ \A a \in EntryAddresses : mem'[a] = mem[a] /\ mem'[a + KEY] = mem[a + KEY]
  BY EntriesKept, Zenon
<1>2. \/ ARR_FIND(n) = 0 /\ \A a \in EntryAddresses : mem[a][3] # n
      \/ ARR_FIND(n) \in EntryAddresses /\ mem[ARR_FIND(n)][3] = n
  BY Found, Zenon
<1>3. \/ ARR_FIND(n)' = 0 /\ \A a \in EntryAddresses' : mem'[a][3] # n
      \/ ARR_FIND(n)' \in EntryAddresses' /\ mem'[ARR_FIND(n)'][3] = n
  BY FoundNext, StoreKept, Zenon
<1>4. \A a \in EntryAddresses, b \in EntryAddresses : mem[a][3] = mem[b][3] => a = b
  BY Zenon DEF Chained
<1>5. ARR_FIND(n)' = ARR_FIND(n)
  <2> DEFINE a == ARR_FIND(n)
             b == ARR_FIND(n)'
  <2>1. a \in EntryAddresses /\ b \in EntryAddresses' => mem[a][3] = mem[b][3]
    BY <1>1, <1>2, <1>3, Zenon
  <2>2. a \in EntryAddresses <=> b \in EntryAddresses'
    BY <1>1, <1>2, <1>3, Zenon
  <2> QED BY <2>1, <2>2, <1>1, <1>2, <1>3, <1>4, Zenon
<1>6. InStore(n)' = InStore(n) /\ Descriptor(n)' = Descriptor(n)
  BY <1>5, Zenon DEF InStore, Descriptor
<1>7. InStore(n) => StoredCount(n)' = StoredCount(n)
  <2>1. InStore(n) => ARR_FIND(n) \in EntryAddresses
    BY <1>2, Zenon DEF InStore
  <2>2. InStore(n) => mem'[Descriptor(n)] = mem[Descriptor(n)]
    BY <2>1, <1>1, Zenon DEF Descriptor
  <2> QED BY <2>2, <1>6, Zenon DEF StoredCount
<1> QED BY <1>5, <1>6, <1>7

\* Bytes above the store may be given up.
LEMMA AboveStoreUntouched ==
  ASSUME TypeOK, mem' = AboveStore, PAS_END' = PAS_END
  PROVE  Untouched /\ mem' \in [Segment \cup Pool -> Cells]
<1>1. mem \in [Segment \cup Pool -> Cells] /\ DOMAIN mem = Segment \cup Pool
  BY Zenon DEF TypeOK
<1>2. ASSUME NEW a \in ARR2_BASE..(PAS_END - 1) PROVE mem'[a] = mem[a]
  <2>1. a \in DOMAIN mem /\ a \notin Pool \cup (PAS_END..(ARR2_LIMIT - 1))
    BY <1>1, Ends, Borders DEF Segment, Pool
  <2> QED BY <2>1 DEF AboveStore, Freed
<1>3. mem' \in [Segment \cup Pool -> Cells]
  BY <1>1 DEF AboveStore, Freed, Cells
<1> QED BY <1>2, <1>3 DEF Untouched

\* A fresh start: every slot that leads anywhere leads to a stored array.
LEMMA OnlyStored ==
  ASSUME TypeOK',
         \A n \in Names : slot'[n] # 0 =>
           InStore(n)' /\ slot'[n] = Descriptor(n)' /\ decl'[n] = StoredCount(n)'
  PROVE  StoredSlots' /\ OrdinarySlots' /\ Apart'
  BY DEF StoredSlots, OrdinarySlots, Apart, Reachable

-----------------------------------------------------------------------------
\* Each action keeps the invariant.

\* V2_CLEAR_ARRAYS leaves no name declared, so nothing is reachable.
LEMMA ClearArraysInv ==
  ASSUME NEW m, NEW e, ClearArrays(m, e), phase' = "prompt",
         m \in [Segment \cup Pool -> Cells], e \in ARR2_BASE..ARR2_LIMIT
  PROVE  /\ TypeOK' /\ Live' /\ EndsInOrder' /\ Undeclared' /\ RunBound'
         /\ StoredSlots' /\ OrdinarySlots' /\ Apart'
<1> USE DEF ClearArrays
<1>1. TypeOK'
  <2>1. NoNames \in [Names -> {0} \cup Sizes]
    BY DEF NoNames
  <2>2. NoSlots \in [Names -> {0} \cup Segment \cup Pool]
    BY DEF NoSlots
  <2>3. ArenaBase \in ArenaBase..VM_CSP
    BY Borders
  <2> QED BY <2>1, <2>2, <2>3 DEF TypeOK
<1>2. Live' /\ EndsInOrder' /\ Undeclared' /\ RunBound'
  BY Borders DEF Live, EndsInOrder, Undeclared, RunBound, NoSlots
<1>3. \A n \in Names : slot'[n] = 0
  BY DEF NoSlots
<1> QED BY <1>1, <1>2, <1>3, OnlyStored

LEMMA EndSessionInv == ASSUME IInv, EndSession PROVE IInv'
<1>1. AboveStore \in [Segment \cup Pool -> Cells] /\ Untouched
  BY AboveStoreUntouched DEF IInv, EndSession, ClearArrays
<1>2. Chained'
  BY <1>1, StoreKept DEF IInv
<1>3. PAS_END \in ARR2_BASE..ARR2_LIMIT /\ phase' = "prompt"
  BY DEF IInv, TypeOK, EndSession
<1> QED BY <1>1, <1>2, <1>3, ClearArraysInv DEF IInv, EndSession

LEMMA NewInv == ASSUME TypeOK, New PROVE IInv'
<1> DEFINE m == Freed(mem, Segment \cup Pool)
<1>1. m \in [Segment \cup Pool -> Cells]
  BY DEF TypeOK, Freed, Cells
<1>2. ARR2_BASE \in ARR2_BASE..ARR2_LIMIT /\ phase' = "prompt"
  BY Borders DEF New
<1>3. PAS_END' = ARR2_BASE
  BY DEF New, ClearArrays
<1>4. EntryAddresses' = {}
  BY <1>3, Borders DEF EntryAddresses
<1>5. Chained'
  BY <1>3, <1>4 DEF Chained
<1>6. ClearArrays(m, ARR2_BASE)
  BY DEF New
<1> HIDE DEF m
<1> QED BY <1>1, <1>2, <1>5, <1>6, ClearArraysInv DEF IInv

\* The end of a run, a statement undone, and a step that changes nothing.
LEMMA IdleInv ==
  ASSUME IInv, phase' = phase \/ phase' = "prompt",
         mem' = mem, PAS_END' = PAS_END, ARR2_END' = ARR2_END, ARRAYS_END' = ARRAYS_END,
         decl' = decl, slot' = slot, SESS_VALID' = SESS_VALID,
         setup' = setup \/ (setup' = "displaced" /\ phase' = "prompt")
  PROVE  IInv' /\ Untouched /\ NoNewHoles
<1>1. /\ mem' = mem /\ PAS_END' = PAS_END /\ ARR2_END' = ARR2_END /\ ARRAYS_END' = ARRAYS_END
      /\ decl' = decl /\ slot' = slot /\ SESS_VALID' = SESS_VALID
      /\ setup' = setup \/ (setup' = "displaced" /\ phase' = "prompt")
      /\ phase' = phase \/ phase' = "prompt"
  OBVIOUS
<1>2. TypeOK'
  BY <1>1 DEF IInv, TypeOK
<1>3. Untouched
  BY <1>1 DEF Untouched
<1>4. Chained' /\ \A n \in Names : /\ InStore(n)' = InStore(n)
                                   /\ Descriptor(n)' = Descriptor(n)
                                   /\ InStore(n) => StoredCount(n)' = StoredCount(n)
  BY <1>2, <1>3, StoreKept, SamePlaces DEF IInv
<1>5. Live' /\ EndsInOrder' /\ Undeclared' /\ RunBound'
  <2>1. Live' /\ EndsInOrder' /\ Undeclared'
    BY <1>1 DEF IInv, Live, EndsInOrder, Undeclared
  <2>2. RunBound'
    BY <1>1, <1>4 DEF IInv, RunBound
  <2> QED BY <2>1, <2>2
<1>6. \A n \in Reachable' : n \in Reachable /\ n \in Names
  BY <1>1 DEF Reachable
<1>7. StoredSlots'
  BY <1>1, <1>4, <1>6 DEF IInv, StoredSlots
<1>8. OrdinarySlots'
  BY <1>1, <1>4, <1>6 DEF IInv, OrdinarySlots, InArena, InOverflow, ArrayAt
<1>9. Apart'
  BY <1>1, <1>4, <1>6 DEF IInv, Apart
<1>10. NoNewHoles
  <2> SUFFICES ASSUME NEW n \in Reachable', NEW i \in 1..decl'[n], mem'[slot'[n] + i] = Free
               PROVE  n \in Reachable /\ i <= decl[n] /\ mem[slot[n] + i] = Free
    BY Zenon DEF NoNewHoles
  <2>1. n \in Reachable /\ decl[n] \in Nat
    BY <1>6, SlotTypes DEF IInv
  <2> QED BY <1>1, <2>1
<1> QED BY <1>3, <1>10, <1>2, <1>4, <1>5, <1>7, <1>8, <1>9 DEF IInv

\* ARR_RUN_BIND's slots are addresses of segment 2.
LEMMA BoundType ==
  ASSUME TypeOK, Chained, NEW d, NEW s \in [Names -> {0} \cup Segment \cup Pool]
  PROVE  Bound(d, s) \in [Names -> {0} \cup Segment \cup Pool]
<1>1. ASSUME NEW n \in Names, InStore(n) PROVE Descriptor(n) \in Segment
  BY <1>1, StoredArrays, Ends, Borders, Counts DEF StoredArray, Segment
<1> QED BY <1>1 DEF Bound

LEMMA StartInv == ASSUME IInv, Start PROVE IInv' /\ Untouched /\ NoNewHoles
<1>1. PICK d \in [Names -> {0} \cup Sizes] : decl' = d /\ SetUp(d)
  BY Zenon DEF Start
<1>2. /\ mem' = AboveStore /\ ARRAYS_END' = ArenaBase
      /\ SESS_VALID' \in {TRUE, SESS_VALID} /\ PAS_END' = PAS_END
  BY Zenon DEF Start
<1>3. TypeOK /\ Chained
  BY Zenon DEF IInv
<1>4. Untouched /\ mem' \in [Segment \cup Pool -> Cells]
  BY <1>2, <1>3, AboveStoreUntouched
<1>5. NoSlots \in [Names -> {0} \cup Segment \cup Pool]
  BY DEF NoSlots
<1>6. Bound(d, NoSlots) \in [Names -> {0} \cup Segment \cup Pool]
  BY <1>3, <1>5, BoundType
<1>7. TypeOK'
  <2>1. slot' \in [Names -> {0} \cup Segment \cup Pool]
    BY <1>1, <1>5, <1>6 DEF SetUp
  <2>2. /\ phase' \in {"prompt", "run", "lost"} /\ SESS_VALID' \in BOOLEAN
        /\ setup' \in {"whole", "broken", "refused", "displaced"}
    BY <1>1, <1>2, <1>3 DEF TypeOK, SetUp
  <2>3. /\ PAS_END' \in ARR2_BASE..ARR2_LIMIT /\ ARR2_END' \in ARR2_BASE..ARR2_LIMIT
        /\ ARRAYS_END' \in ArenaBase..VM_CSP
    BY <1>1, <1>2, <1>3, Borders DEF TypeOK, SetUp
  <2> QED BY <1>1, <1>4, <2>1, <2>2, <2>3 DEF TypeOK
<1>8. Chained' /\ \A n \in Names : /\ InStore(n)' = InStore(n)
                                   /\ Descriptor(n)' = Descriptor(n)
                                   /\ InStore(n) => StoredCount(n)' = StoredCount(n)
  BY <1>3, <1>4, <1>7, StoreKept, SamePlaces
<1>9. \A n \in Names : slot'[n] # 0 =>
        /\ InStore(n) /\ slot'[n] = Descriptor(n) /\ d[n] # 0 /\ d[n] = StoredCount(n)
  BY <1>1 DEF SetUp, Bound, NoSlots, Mismatched
<1>10. Live' /\ EndsInOrder' /\ Undeclared'
  BY <1>1, <1>2, <1>9, Ends, <1>3 DEF SetUp, Live, EndsInOrder, Undeclared
<1>11. RunBound'
  BY <1>1, <1>8 DEF SetUp, RunBound, Bound
<1>12. \A n \in Names : slot'[n] # 0 =>
         InStore(n)' /\ slot'[n] = Descriptor(n)' /\ decl'[n] = StoredCount(n)'
  BY <1>1, <1>8, <1>9
<1>13. NoNewHoles
  BY <1>12 DEF NoNewHoles, Reachable
<1> QED BY <1>4, <1>13, <1>7, <1>8, <1>10, <1>11, <1>12, OnlyStored DEF IInv

\* What an immediate statement does: it runs; it is undone after the tables have
\* moved; or it uses displaced slots.
StatementRuns ==
  /\ setup \in {"whole", "broken"} /\ setup' = setup /\ SESS_VALID
  /\ \E d \in [Names -> {0} \cup Sizes] :
       /\ \A n \in Names : decl[n] # 0 => d[n] = decl[n]
       /\ Mismatched(d) = {}
       /\ decl' = d /\ slot' = Bound(d, slot)
  /\ phase' = "run" /\ mem' = mem /\ PAS_END' = PAS_END /\ ARR2_END' = ARR2_END
  /\ ARRAYS_END' = ARRAYS_END /\ SESS_VALID' = SESS_VALID

StatementUndone ==
  /\ phase = "prompt" /\ phase' = phase /\ setup' = "displaced"
  /\ mem' = mem /\ PAS_END' = PAS_END /\ ARR2_END' = ARR2_END /\ ARRAYS_END' = ARRAYS_END
  /\ decl' = decl /\ slot' = slot /\ SESS_VALID' = SESS_VALID

StatementLost ==
  /\ phase' = "lost" /\ setup' = setup
  /\ mem' = mem /\ PAS_END' = PAS_END /\ ARR2_END' = ARR2_END /\ ARRAYS_END' = ARRAYS_END
  /\ decl' = decl /\ slot' = slot /\ SESS_VALID' = SESS_VALID

LEMMA StatementCases ==
  ImmediateStatement => StatementRuns \/ StatementUndone \/ StatementLost
<1> SUFFICES ASSUME ImmediateStatement PROVE StatementRuns \/ StatementUndone \/ StatementLost
  OBVIOUS
<1>1. /\ phase = "prompt" /\ SESS_VALID
      /\ mem' = mem /\ PAS_END' = PAS_END /\ ARR2_END' = ARR2_END
      /\ ARRAYS_END' = ARRAYS_END /\ SESS_VALID' = SESS_VALID
  BY DEF ImmediateStatement
<1>2. PICK d \in [Names -> {0} \cup Sizes] :
        /\ \A n \in Names : decl[n] # 0 => d[n] = decl[n]
        /\ Mismatched(d) = {}
        /\ \/ /\ setup \in {"whole", "broken"}
              /\ decl' = d /\ slot' = Bound(d, slot) /\ phase' = "run" /\ setup' = setup
           \/ /\ setup' = "displaced"
              /\ decl' = decl /\ slot' = slot /\ phase' = phase
           \/ /\ phase' = "lost"
              /\ decl' = decl /\ slot' = slot /\ setup' = setup
  BY Zenon DEF ImmediateStatement
<1> QED BY <1>1, <1>2, Zenon DEF StatementRuns, StatementUndone, StatementLost

LEMMA StatementRunsInv == ASSUME IInv, StatementRuns PROVE IInv' /\ Untouched /\ NoNewHoles
<1>1. PICK d \in [Names -> {0} \cup Sizes] :
        /\ \A n \in Names : decl[n] # 0 => d[n] = decl[n]
        /\ Mismatched(d) = {}
        /\ decl' = d /\ slot' = Bound(d, slot)
  BY Zenon DEF StatementRuns
<1>2. /\ mem' = mem /\ PAS_END' = PAS_END /\ ARR2_END' = ARR2_END
      /\ ARRAYS_END' = ARRAYS_END /\ SESS_VALID' = SESS_VALID
      /\ phase' = "run" /\ SESS_VALID /\ setup' = setup /\ setup \in {"whole", "broken"}
  BY DEF StatementRuns
<1>3. TypeOK /\ Chained
  BY Zenon DEF IInv
<1>4. slot' \in [Names -> {0} \cup Segment \cup Pool]
  <2>1. slot \in [Names -> {0} \cup Segment \cup Pool]
    BY <1>3, Zenon DEF TypeOK
  <2> QED BY <1>1, <1>3, <2>1, BoundType
<1>5. TypeOK'
  BY <1>1, <1>2, <1>3, <1>4 DEF TypeOK
<1>6. Untouched
  BY <1>2 DEF Untouched
<1>7. Chained' /\ \A n \in Names : /\ InStore(n)' = InStore(n)
                                   /\ Descriptor(n)' = Descriptor(n)
                                   /\ InStore(n) => StoredCount(n)' = StoredCount(n)
  BY <1>3, <1>5, <1>6, StoreKept, SamePlaces
<1>8. ASSUME NEW n \in Names, d[n] # 0, InStore(n)
      PROVE  slot'[n] = Descriptor(n) /\ d[n] = StoredCount(n)
  BY <1>8, <1>1 DEF Bound, Mismatched
<1>9. ASSUME NEW n \in Names, ~(d[n] # 0 /\ InStore(n)) PROVE slot'[n] = slot[n]
  BY <1>9, <1>1 DEF Bound
<1>10. Live' /\ EndsInOrder'
  BY <1>2 DEF IInv, Live, EndsInOrder
<1>11. Undeclared'
  <2> SUFFICES ASSUME NEW n \in Names, decl'[n] = 0 PROVE slot'[n] = 0
    BY DEF Undeclared
  <2>1. d[n] = 0 /\ decl[n] = 0
    BY <1>1
  <2> QED BY <2>1, <1>9 DEF IInv, Undeclared
<1>12. RunBound'
  BY <1>1, <1>7, <1>8 DEF RunBound
<1>13. StoredSlots'
  BY <1>1, <1>7, <1>8 DEF StoredSlots, Reachable
<1>14. \A n \in Reachable' : ~InStore(n)' =>
         n \in Reachable /\ ~InStore(n) /\ slot'[n] = slot[n] /\ decl'[n] = decl[n]
  <2> SUFFICES ASSUME NEW n \in Reachable', ~InStore(n)'
               PROVE  n \in Reachable /\ ~InStore(n) /\ slot'[n] = slot[n] /\ decl'[n] = decl[n]
    OBVIOUS
  <2>1. n \in Names /\ slot'[n] # 0
    BY DEF Reachable
  <2>2. ~InStore(n) /\ slot'[n] = slot[n]
    BY <2>1, <1>7, <1>9
  <2>3. decl[n] # 0
    BY <2>1, <2>2 DEF IInv, Undeclared
  <2> QED BY <2>1, <2>2, <2>3, <1>1, <1>2 DEF Reachable
<1>15. OrdinarySlots'
  BY <1>2, <1>14 DEF IInv, OrdinarySlots, InArena, InOverflow, ArrayAt
<1>16. Apart'
  BY <1>14 DEF IInv, Apart
<1>17. NoNewHoles
  <2> SUFFICES ASSUME NEW n \in Reachable', ~InStore(n)', NEW i \in 1..decl'[n],
                      mem'[slot'[n] + i] = Free
               PROVE  n \in Reachable /\ i <= decl[n] /\ mem[slot[n] + i] = Free
    BY Zenon DEF NoNewHoles
  <2>1. n \in Reachable /\ slot'[n] = slot[n] /\ decl'[n] = decl[n] /\ n \in Names
    BY <1>14 DEF Reachable
  <2> QED BY <2>1, <1>2, <1>3, SlotTypes
<1> QED BY <1>6, <1>17, <1>5, <1>7, <1>10, <1>11, <1>12, <1>13, <1>15, <1>16 DEF IInv

LEMMA ImmediateStatementInv ==
  ASSUME IInv, ImmediateStatement, phase' # "lost"
  PROVE  IInv' /\ Untouched /\ NoNewHoles
<1>1. CASE StatementRuns
  BY <1>1, StatementRunsInv
<1>2. CASE StatementUndone
  <2>1. /\ phase' = phase /\ phase' = "prompt" /\ setup' = "displaced"
        /\ mem' = mem /\ PAS_END' = PAS_END /\ ARR2_END' = ARR2_END
        /\ ARRAYS_END' = ARRAYS_END /\ decl' = decl /\ slot' = slot
        /\ SESS_VALID' = SESS_VALID
    BY <1>2 DEF StatementUndone
  <2> QED BY <2>1, IdleInv
<1>3. ~StatementLost
  BY DEF StatementLost
<1> QED BY <1>1, <1>2, <1>3, StatementCases

LEMMA ClearStatementInv == ASSUME IInv, ClearStatement PROVE IInv' /\ Untouched /\ NoNewHoles
<1>1. /\ phase = "run" /\ mem' = AboveStore /\ ARRAYS_END' = ArenaBase
      /\ PAS_END' = PAS_END /\ decl' = decl /\ SESS_VALID' = SESS_VALID
      /\ \/ /\ ARR2_END' = PAS_END /\ slot' = Bound(decl, NoSlots) /\ phase' = phase
            /\ setup' = "whole"
         \/ /\ slot' = NoSlots /\ phase' = "prompt" /\ ARR2_END' = ARR2_END
            /\ setup' = setup
  BY DEF ClearStatement
<1>2. TypeOK /\ Chained
  BY Zenon DEF IInv
<1>3. Untouched /\ mem' \in [Segment \cup Pool -> Cells]
  BY <1>1, <1>2, AboveStoreUntouched
<1>4. NoSlots \in [Names -> {0} \cup Segment \cup Pool]
  BY DEF NoSlots
<1>5. Bound(decl, NoSlots) \in [Names -> {0} \cup Segment \cup Pool]
  BY <1>2, <1>4, BoundType
<1>6. TypeOK'
  <2>1. PAS_END \in ARR2_BASE..ARR2_LIMIT /\ ARR2_END \in ARR2_BASE..ARR2_LIMIT
        /\ ArenaBase \in ArenaBase..VM_CSP
    BY <1>2, Borders DEF TypeOK
  <2> QED BY <1>1, <1>2, <1>3, <1>4, <1>5, <2>1 DEF TypeOK
<1>7. Chained' /\ \A n \in Names : /\ InStore(n)' = InStore(n)
                                   /\ Descriptor(n)' = Descriptor(n)
                                   /\ InStore(n) => StoredCount(n)' = StoredCount(n)
  BY <1>2, <1>3, <1>6, StoreKept, SamePlaces
<1>8. \A n \in Names : decl[n] # 0 /\ InStore(n) => decl[n] = StoredCount(n)
  <2> SUFFICES ASSUME NEW n \in Names, decl[n] # 0, InStore(n) PROVE decl[n] = StoredCount(n)
    OBVIOUS
  <2>1. slot[n] = Descriptor(n) /\ Descriptor(n) # 0
    BY <1>1, <1>2, StoredArrays, Borders DEF IInv, RunBound, StoredArray
  <2>2. n \in Reachable
    BY <1>1, <2>1 DEF Reachable
  <2> QED BY <2>2 DEF IInv, StoredSlots
<1>9. \A n \in Names : slot'[n] # 0 =>
        /\ InStore(n) /\ slot'[n] = Descriptor(n) /\ decl[n] # 0 /\ decl[n] = StoredCount(n)
  BY <1>1, <1>8 DEF Bound, NoSlots
<1>10. Live' /\ EndsInOrder' /\ Undeclared'
  BY <1>1, <1>2, <1>9, Ends DEF IInv, Live, EndsInOrder, Undeclared
<1>11. RunBound'
  BY <1>1, <1>7 DEF RunBound, Bound
<1>12. \A n \in Names : slot'[n] # 0 =>
         InStore(n)' /\ slot'[n] = Descriptor(n)' /\ decl'[n] = StoredCount(n)'
  BY <1>1, <1>7, <1>9
<1>13. NoNewHoles
  BY <1>12 DEF NoNewHoles, Reachable
<1> QED BY <1>3, <1>13, <1>6, <1>7, <1>10, <1>11, <1>12, OnlyStored DEF IInv

LEMMA ArrStoreInv ==
  ASSUME IInv, ArrStore
  PROVE  /\ IInv' /\ Untouched /\ NoNewHoles
         /\ \E n \in Reachable, v \in Values : \E i \in 1..decl[n] : Written(n, i, v)
<1>1. PICK n \in Names, v \in Values :
        /\ decl[n] # 0 /\ slot[n] # 0
        /\ \E i \in 1..decl[n] : mem' = [mem EXCEPT ![slot[n] + i] = Element(v)]
  BY Zenon DEF ArrStore
<1>2. PICK i \in 1..decl[n] : mem' = [mem EXCEPT ![slot[n] + i] = Element(v)]
  BY <1>1, Zenon
<1>3. /\ PAS_END' = PAS_END /\ ARR2_END' = ARR2_END /\ ARRAYS_END' = ARRAYS_END
      /\ decl' = decl /\ slot' = slot /\ SESS_VALID' = SESS_VALID
      /\ phase' = phase /\ phase = "run" /\ setup' = setup
  BY Zenon DEF ArrStore
<1>4. TypeOK /\ Chained
  BY Zenon DEF IInv
<1>5. TypeOK'
  <2>1. mem' \in [Segment \cup Pool -> Cells]
    <3>1. Element(v) \in Cells
      BY DEF Cells
    <3> QED BY <1>2, <1>4, <3>1 DEF TypeOK
  <2> QED BY <2>1, <1>3, <1>4, Zenon DEF TypeOK
<1>6. n \in Reachable /\ slot[n] \in Nat /\ decl[n] \in Nat /\ i \in Nat
  BY <1>1, <1>3, <1>4, SlotTypes DEF Reachable
<1> DEFINE w == slot[n] + i
<1>7. /\ w \in Segment \cup Pool /\ w \in Nat
      /\ \/ InStore(n) /\ mem[w][1] = "value"
         \/ ~InStore(n) /\ w >= PAS_END
  <2>1. CASE InStore(n)
    <3>1. StoredArray(n) /\ slot[n] = Descriptor(n) /\ decl[n] = StoredCount(n)
      BY <2>1, <1>4, <1>6, StoredArrays DEF IInv, StoredSlots
    <3>2. w \in Segment /\ w \in Nat
      BY <3>1, <1>4, <1>6, Ends, Borders DEF StoredArray, Segment
    <3> QED BY <2>1, <3>1, <3>2 DEF StoredArray
  <2>2. CASE ~InStore(n)
    <3>1. InArena(n) \/ InOverflow(n)
      BY <2>2, <1>6, Zenon DEF IInv, OrdinarySlots
    <3>2. w \in slot[n]..(slot[n] + decl[n])
      BY <1>6
    <3> QED BY <2>2, <3>1, <3>2, <1>4, <1>6, OrdinaryCells
  <2> QED BY <2>1, <2>2
<1>8. /\ \A a \in Segment \cup Pool : a # w => mem'[a] = mem[a]
      /\ mem'[w] = Element(v)
  <2>1. DOMAIN mem = Segment \cup Pool
    BY <1>4, Zenon DEF TypeOK
  <2> QED BY <1>2, <1>7, <2>1
<1> HIDE DEF w
<1>9. Untouched
  <2>1. \A a \in ARR2_BASE..(PAS_END - 1) :
          mem'[a] = mem[a] \/ (mem[a][1] = "value" /\ mem'[a][1] = "value")
    <3> SUFFICES ASSUME NEW a \in ARR2_BASE..(PAS_END - 1), mem'[a] # mem[a]
                 PROVE  mem[a][1] = "value" /\ mem'[a][1] = "value"
      OBVIOUS
    <3>1. a \in Segment /\ a < PAS_END
      BY <1>4, Ends, Borders DEF Segment
    <3>2. a = w
      BY <1>8, <3>1
    <3> QED BY <3>1, <3>2, <1>7, <1>8, <1>4, Tags, Ends
  <2> QED BY <1>3, <2>1 DEF Untouched
<1>10. Chained' /\ \A m \in Names : /\ InStore(m)' = InStore(m)
                                    /\ Descriptor(m)' = Descriptor(m)
                                    /\ InStore(m) => StoredCount(m)' = StoredCount(m)
  BY <1>4, <1>5, <1>9, StoreKept, SamePlaces
<1>11. Reachable' = Reachable /\ \A m \in Reachable : m \in Names
  BY <1>3 DEF Reachable
<1>12. Live' /\ EndsInOrder' /\ Undeclared' /\ RunBound' /\ StoredSlots'
  BY <1>3, <1>10, <1>11 DEF IInv, Live, EndsInOrder, Undeclared, RunBound, StoredSlots
<1>13. ASSUME NEW m \in Reachable, ~InStore(m)
       PROVE  /\ InArena(m)' \/ InOverflow(m)'
              /\ ArrayAt(slot[m], decl[m], {"value", "free"})'
  <2>1. (InArena(m) \/ InOverflow(m)) /\ ArrayAt(slot[m], decl[m], {"value", "free"})
    BY <1>13, Zenon DEF IInv, OrdinarySlots
  <2>2. slot[m] \in Nat /\ decl[m] \in Nat
    BY <1>4, <1>11, SlotTypes
  <2>3. slot[m] # w
    <3>1. w # slot[n] /\ w \in slot[n]..(slot[n] + decl[n])
      BY <1>6 DEF w
    <3>2. CASE m # n /\ ~InStore(n)
      <4>1. slot[m] \notin slot[n]..(slot[n] + decl[n])
        BY <3>2, <1>6, <1>13, Zenon DEF IInv, Apart
      <4> QED BY <4>1, <3>1
    <3>3. CASE m # n /\ InStore(n)
      <4>1. StoredArray(n) /\ slot[n] = Descriptor(n) /\ decl[n] = StoredCount(n)
        BY <3>3, <1>4, <1>6, StoredArrays DEF IInv, StoredSlots
      <4>2. w < PAS_END
        BY <4>1, <3>1, <1>6, <1>4, Ends DEF StoredArray
      <4>3. slot[m] >= PAS_END
        BY <2>1, <2>2, <1>4, Ends, Borders DEF InArena, InOverflow
      <4> QED BY <4>2, <4>3, <2>2, <1>7, <1>4, Ends
    <3> QED BY <3>1, <3>2, <3>3
  <2>4. \A a \in slot[m]..(slot[m] + decl[m]) : a \in Segment \cup Pool
    BY <2>1, <1>4, <1>11, OrdinaryCells
  <2>5. mem'[slot[m]] = Dimension(decl[m])
    <3>1. slot[m] \in slot[m]..(slot[m] + decl[m])
      BY <2>2
    <3> QED BY <2>1, <2>3, <2>4, <3>1, <1>8 DEF ArrayAt
  <2>6. \A j \in 1..decl[m] : mem'[slot[m] + j][1] \in {"value", "free"}
    <3> SUFFICES ASSUME NEW j \in 1..decl[m] PROVE mem'[slot[m] + j][1] \in {"value", "free"}
      OBVIOUS
    <3>1. slot[m] + j \in slot[m]..(slot[m] + decl[m])
      BY <2>2
    <3>2. mem'[slot[m] + j] \in {mem[slot[m] + j], Element(v)}
      BY <2>4, <3>1, <1>8
    <3> QED BY <2>1, <3>2, Tags DEF ArrayAt
  <2> QED BY <2>1, <2>5, <2>6, <1>3 DEF ArrayAt, InArena, InOverflow
<1>14. OrdinarySlots'
  BY <1>3, <1>10, <1>11, <1>13 DEF OrdinarySlots, ArrayAt
<1>15. Apart'
  BY <1>3, <1>10, <1>11 DEF IInv, Apart
<1>16. NoNewHoles
  <2> SUFFICES ASSUME NEW m \in Reachable', ~InStore(m)', NEW j \in 1..decl'[m],
                      mem'[slot'[m] + j] = Free
               PROVE  m \in Reachable /\ j <= decl[m] /\ mem[slot[m] + j] = Free
    BY Zenon DEF NoNewHoles
  <2>1. m \in Reachable /\ m \in Names /\ slot'[m] = slot[m] /\ decl'[m] = decl[m] /\ ~InStore(m)
    BY <1>3, <1>10, <1>11
  <2>2. slot[m] \in Nat /\ decl[m] \in Nat /\ j \in 1..decl[m]
    BY <2>1, <1>4, SlotTypes
  <2>3. slot[m] + j \in Segment \cup Pool
    <3>1. InArena(m) \/ InOverflow(m)
      BY <2>1, Zenon DEF IInv, OrdinarySlots
    <3>2. slot[m] + j \in slot[m]..(slot[m] + decl[m])
      BY <2>2
    <3> QED BY <2>1, <3>1, <3>2, <1>4, OrdinaryCells
  <2>4. mem[slot[m] + j] = Free
    BY <2>1, <2>3, <1>8, Tags
  <2> QED BY <2>1, <2>2, <2>4
<1>17. Written(n, i, v)
  BY <1>7, <1>8 DEF w, Written
<1> QED BY <1>6, <1>17, <1>9, <1>16, <1>5, <1>10, <1>12, <1>14, <1>15 DEF IInv

\* ARR_DIM's two places, arena and overflow, are above everything in use --
\* unless a broken set-up has left ARR2_END in the store, and then it is lost.
LEMMA DimInv ==
  ASSUME IInv, Dim, phase' # "lost"
  PROVE  /\ IInv' /\ Untouched /\ NoNewHoles /\ Frozen
         /\ \E n \in Names, fill \in {Element(0), Free}, at \in Nat : Dimmed(n, fill, at)
<1>1. PICK n \in {m \in Names : decl[m] # 0 /\ ~Adopted(m)} :
        /\ ~OverStore
        /\ \/ Allocate(n, Element(0)) /\ phase' = phase
           \/ BreakInStatement /\ Allocate(n, Free) /\ phase' = "prompt"
  BY DEF Dim
<1>2. PICK fill \in {Element(0), Free} :
        /\ Allocate(n, fill) /\ (phase' = "run" => fill = Element(0))
        /\ \/ fill = Element(0) /\ phase' = phase
           \/ fill = Free /\ phase' = "prompt" /\ BreakInStatement
  BY <1>1
<1>3. /\ phase = "run" /\ phase' \in {"prompt", "run"} /\ PAS_END' = PAS_END
      /\ decl' = decl /\ SESS_VALID' = SESS_VALID /\ setup' = setup
      /\ setup \in {"whole", "broken"} /\ phase' # "lost"
  BY <1>1 DEF Dim, IInv, Live
<1>4. TypeOK /\ Chained
  BY Zenon DEF IInv
<1> DEFINE k == decl[n]
<1>5. n \in Names /\ k \in Sizes /\ k \in Nat /\ k >= 1
  BY <1>1, <1>4, SlotTypes, Counts
<1>6. ~InStore(n)
  <2> SUFFICES ASSUME InStore(n) PROVE FALSE
    OBVIOUS
  <2>1. slot[n] = Descriptor(n) /\ decl[n] # 0
    BY <1>1, <1>3 DEF IInv, RunBound
  <2>2. StoredArray(n)
    BY <1>4, <1>5, StoredArrays
  <2>3. slot[n] \in ARR2_BASE..(PAS_END - 1)
    BY <2>1, <2>2, <1>4, Ends, Borders, Counts DEF StoredArray
  <2> QED BY <2>3, <1>1 DEF Adopted
<1>7. PICK at \in Nat :
        /\ mem' = NewArray(k, at, fill) /\ slot' = [slot EXCEPT ![n] = at]
        /\ \/ /\ at = ARRAYS_END /\ at + 1 + k < VM_CSP
              /\ ARRAYS_END' = at + 1 + k /\ ARR2_END' = ARR2_END
           \/ /\ at = ARR2_END /\ at + 1 + k < ARR2_LIMIT
              /\ ARR2_END' = at + 1 + k /\ ARRAYS_END' = ARRAYS_END
  <2>1. ARRAYS_END \in Nat /\ ARR2_END \in Nat
    BY <1>4, Ends
  <2>2. \/ /\ mem' = NewArray(k, ARRAYS_END, fill) /\ slot' = [slot EXCEPT ![n] = ARRAYS_END]
           /\ ARRAYS_END + (1 + k) < VM_CSP
           /\ ARRAYS_END' = ARRAYS_END + (1 + k) /\ ARR2_END' = ARR2_END
        \/ /\ mem' = NewArray(k, ARR2_END, fill) /\ slot' = [slot EXCEPT ![n] = ARR2_END]
           /\ ARR2_END + (1 + k) < ARR2_LIMIT
           /\ ARR2_END' = ARR2_END + (1 + k) /\ ARRAYS_END' = ARRAYS_END
    BY <1>2 DEF Allocate, ARR_DESC_DATA_OFF
  <2>3. ARRAYS_END + (1 + k) = ARRAYS_END + 1 + k /\ ARR2_END + (1 + k) = ARR2_END + 1 + k
    BY <2>1, <1>5
  <2> HIDE DEF k
  <2> QED BY <2>1, <2>2, <2>3
<1> HIDE DEF k
<1>8. /\ at >= PAS_END /\ at # 0 /\ at \in Segment \cup Pool
      /\ ARR2_END' \in ARR2_BASE..ARR2_LIMIT /\ ARRAYS_END' \in ArenaBase..VM_CSP
      /\ ARR2_END' >= ARR2_END /\ ARRAYS_END' >= ARRAYS_END
  <2>1. at = ARRAYS_END \/ PAS_END <= ARR2_END
    <3>1. CASE setup = "whole"
      BY <3>1 DEF IInv, EndsInOrder
    <3>2. CASE setup = "broken" /\ at # ARRAYS_END
      BY <3>2, <1>1, <1>4, <1>5, <1>7, Ends DEF OverStore
    <3> QED BY <3>1, <3>2, <1>3
  <2> QED BY <2>1, <1>4, <1>5, <1>7, Ends, Borders DEF Segment, Pool
<1>9. TypeOK'
  <2>1. Element(0) \in Cells /\ Free \in Cells /\ Dimension(k) \in Cells
    BY <1>5, StoreAssumption DEF Cells
  <2>2. mem \in [Segment \cup Pool -> Cells]
    BY <1>4, Zenon DEF TypeOK
  <2>3. mem' \in [Segment \cup Pool -> Cells]
    BY <2>1, <2>2, <1>2, <1>7 DEF NewArray
  <2>4. slot' \in [Names -> {0} \cup Segment \cup Pool]
    BY <1>4, <1>7, <1>8 DEF TypeOK
  <2> QED BY <2>3, <2>4, <1>3, <1>4, <1>8 DEF TypeOK
<1>10. DOMAIN mem = Segment \cup Pool
  BY <1>4, Zenon DEF TypeOK
<1>11. \A a \in Segment \cup Pool : a < at \/ a > at + k => mem'[a] = mem[a]
  BY <1>7, <1>8, <1>10, <1>5, Borders DEF NewArray, Segment, Pool
<1>12. Untouched /\ Frozen
  <2>1. \A a \in ARR2_BASE..(PAS_END - 1) : mem'[a] = mem[a]
    BY <1>4, <1>8, <1>11, Ends, Borders DEF Segment
  <2> QED BY <2>1, <1>3 DEF Untouched, Frozen
<1>13. Chained' /\ \A m \in Names : /\ InStore(m)' = InStore(m)
                                    /\ Descriptor(m)' = Descriptor(m)
                                    /\ InStore(m) => StoredCount(m)' = StoredCount(m)
  BY <1>4, <1>9, <1>12, StoreKept, SamePlaces
<1>14. slot'[n] = at /\ \A m \in Names : m # n => slot'[m] = slot[m]
  BY <1>4, <1>5, <1>7 DEF TypeOK
<1>15. \A m \in Reachable' : m \in Names /\ (m # n => m \in Reachable)
  BY <1>3, <1>14 DEF Reachable
<1>16. Live' /\ EndsInOrder' /\ Undeclared' /\ RunBound' /\ StoredSlots'
  <2>1. Live' /\ EndsInOrder'
    BY <1>3, <1>4, <1>8, Ends DEF IInv, Live, EndsInOrder
  <2>2. Undeclared'
    BY <1>1, <1>3, <1>14 DEF IInv, Undeclared
  <2>3. RunBound'
    BY <1>3, <1>6, <1>13, <1>14 DEF IInv, RunBound
  <2>4. StoredSlots'
    BY <1>3, <1>6, <1>13, <1>14, <1>15 DEF IInv, StoredSlots
  <2> QED BY <2>1, <2>2, <2>3, <2>4
<1>17. ASSUME NEW m \in Reachable', m # n, ~InStore(m)
       PROVE  /\ InArena(m)' \/ InOverflow(m)'
              /\ ArrayAt(slot[m], decl[m], {"value", "free"})'
              /\ at \notin slot[m]..(slot[m] + decl[m])
              /\ slot[m] \notin at..(at + k)
              /\ \A a \in slot[m]..(slot[m] + decl[m]) : mem'[a] = mem[a]
  <2>1. m \in Names /\ m \in Reachable /\ slot'[m] = slot[m]
    BY <1>14, <1>15, <1>17
  <2>2. (InArena(m) \/ InOverflow(m)) /\ ArrayAt(slot[m], decl[m], {"value", "free"})
    BY <1>17, <2>1, Zenon DEF IInv, OrdinarySlots
  <2>3. slot[m] \in Nat /\ decl[m] \in Nat
    BY <1>4, <2>1, SlotTypes
  <2>4. slot[m] + decl[m] < at \/ slot[m] > at + k
    BY <2>2, <2>3, <1>4, <1>5, <1>7, Ends, Borders DEF InArena, InOverflow
  <2>5. \A a \in slot[m]..(slot[m] + decl[m]) : mem'[a] = mem[a]
    <3> SUFFICES ASSUME NEW a \in slot[m]..(slot[m] + decl[m]) PROVE mem'[a] = mem[a]
      OBVIOUS
    <3>1. a \in Segment \cup Pool
      BY <2>2, <2>3, <1>4, Ends, Borders DEF InArena, InOverflow, Segment, Pool
    <3>2. a < at \/ a > at + k
      BY <2>3, <2>4, <1>5
    <3> QED BY <3>1, <3>2, <1>11
  <2>6. ArrayAt(slot[m], decl[m], {"value", "free"})'
    <3>1. slot[m] \in slot[m]..(slot[m] + decl[m])
      BY <2>3
    <3>2. \A j \in 1..decl[m] : slot[m] + j \in slot[m]..(slot[m] + decl[m])
      BY <2>3
    <3>3. mem'[slot[m]] = Dimension(decl[m])
      BY <2>2, <2>5, <3>1 DEF ArrayAt
    <3>4. \A j \in 1..decl[m] : mem'[slot[m] + j][1] \in {"value", "free"}
      BY <2>2, <2>5, <3>2 DEF ArrayAt
    <3> QED BY <3>3, <3>4, <2>1, <1>3 DEF ArrayAt
  <2>7. InArena(m)' \/ InOverflow(m)'
    BY <2>1, <2>2, <2>3, <1>3, <1>4, <1>8, Ends DEF InArena, InOverflow
  <2>8. at \notin slot[m]..(slot[m] + decl[m]) /\ slot[m] \notin at..(at + k)
    BY <2>3, <2>4, <1>5
  <2> QED BY <2>5, <2>6, <2>7, <2>8
<1>18. /\ InArena(n)' \/ InOverflow(n)'
       /\ ArrayAt(slot[n], decl[n], {"value", "free"})'
       /\ \A j \in 1..k : mem'[at + j] = fill
  <2>1. InArena(n)' \/ InOverflow(n)'
    BY <1>3, <1>4, <1>5, <1>7, <1>8, <1>14, Ends DEF InArena, InOverflow, k
  <2>2. \A j \in 1..k : at + j \in Segment \cup Pool
    BY <1>4, <1>5, <1>7, Ends, Borders DEF Segment, Pool
  <2>3. mem'[at] = Dimension(k)
    BY <1>7, <1>8, <1>10 DEF NewArray
  <2>4. \A j \in 1..k : mem'[at + j] = fill
    BY <1>5, <1>7, <2>2, <1>10 DEF NewArray
  <2>5. fill[1] \in {"value", "free"}
    BY <1>2, Tags
  <2> QED BY <2>1, <2>3, <2>4, <2>5, <1>3, <1>14 DEF ArrayAt, k
<1>19. OrdinarySlots'
  <2> SUFFICES ASSUME NEW m \in Reachable', ~InStore(m)'
               PROVE  /\ InArena(m)' \/ InOverflow(m)'
                      /\ ArrayAt(slot[m], decl[m], {"value", "free"})'
    BY Zenon DEF OrdinarySlots
  <2>1. ~InStore(m)
    BY <1>13, <1>15
  <2> QED BY <2>1, <1>17, <1>18
<1>20. Apart'
  <2> SUFFICES ASSUME NEW m \in Reachable', NEW p \in Reachable',
                      m # p, ~InStore(m)', ~InStore(p)'
               PROVE  slot'[p] \notin slot'[m]..(slot'[m] + decl'[m])
    BY Zenon DEF Apart
  <2>1. ~InStore(m) /\ ~InStore(p)
    BY <1>13, <1>15
  <2>2. CASE m = n
    BY <2>1, <2>2, <1>3, <1>14, <1>15, <1>17 DEF k
  <2>3. CASE p = n
    BY <2>1, <2>3, <1>3, <1>14, <1>15, <1>17
  <2>4. CASE m # n /\ p # n
    <3>1. slot[p] \notin slot[m]..(slot[m] + decl[m])
      BY <2>1, <2>4, <1>15, Zenon DEF IInv, Apart
    <3> QED BY <3>1, <2>4, <1>3, <1>14, <1>15
  <2> QED BY <2>2, <2>3, <2>4
<1>21. NoNewHoles
  <2> SUFFICES ASSUME phase' = "run", NEW m \in Reachable', ~InStore(m)', NEW j \in 1..decl'[m],
                      mem'[slot'[m] + j] = Free
               PROVE  m \in Reachable /\ j <= decl[m] /\ mem[slot[m] + j] = Free
    BY Zenon DEF NoNewHoles
  <2>1. m \in Names /\ ~InStore(m) /\ decl'[m] = decl[m]
    BY <1>3, <1>13, <1>15
  <2>2. CASE m = n
    <3>1. mem'[at + j] = Element(0)
      BY <2>1, <2>2, <1>2, <1>18 DEF k
    <3> QED BY <2>2, <3>1, <1>14, Tags
  <2>3. CASE m # n
    <3>1. m \in Reachable /\ slot'[m] = slot[m]
      BY <2>1, <2>3, <1>14, <1>15
    <3>2. slot[m] + j \in slot[m]..(slot[m] + decl[m]) /\ j <= decl[m]
      BY <2>1, <1>4, SlotTypes
    <3>3. mem'[slot[m] + j] = mem[slot[m] + j]
      BY <2>1, <2>3, <3>2, <1>17
    <3> QED BY <3>1, <3>2, <3>3
  <2> QED BY <2>2, <2>3
<1>22. Dimmed(n, fill, at)
  <2>1. ASSUME NEW m \in Reachable', m # n, ~InStore(m), NEW i \in 1..decl[m]
        PROVE  mem'[slot[m] + i] = mem[slot[m] + i]
    <3>1. slot[m] + i \in slot[m]..(slot[m] + decl[m])
      BY <2>1, <1>4, <1>15, SlotTypes
    <3> QED BY <2>1, <3>1, <1>17
  <2> QED BY <2>1, <1>2, <1>5, <1>6, <1>8, <1>14, <1>18 DEF Dimmed, k
<1> QED BY <1>22, <1>5, <1>2, <1>12, <1>21, <1>9, <1>13, <1>16, <1>19, <1>20 DEF IInv

-----------------------------------------------------------------------------
\* LOAD ... ARRAY: what V2_LOAD_ARRAY's moves leave in memory.

LEMMA LdirDown ==
  ASSUME NEW m, NEW src \in Nat, NEW dst \in Nat, NEW k \in Nat, dst <= src
  PROVE  /\ DOMAIN Ldir(m, src, dst, k) = DOMAIN m
         /\ \A a \in DOMAIN m :
              Ldir(m, src, dst, k)[a] =
                IF a \in dst..(dst + k - 1) THEN m[src + (a - dst)] ELSE m[a]
  BY DEF Ldir

\* The chain falls into what lies below the old entry, the old entry of L cells (none,
\* at the chain's end, if the name is new), and what lies above it.
Cut(n, c, L) ==
  /\ c \in EntryAddresses \cup {PAS_END} /\ c + L \in EntryAddresses \cup {PAS_END}
  /\ \A b \in EntryAddresses : mem[b][3] # n => b < c \/ b >= c + L
  /\ \A b \in EntryAddresses : mem[b][3] = n => b = c /\ L > 0

\* The old entry is closed over, the new one follows, the rest of memory is free.
After(n, k, body, c, L) ==
  LET X == PAS_END - L IN
  /\ PAS_END' = X + Total(k)
  /\ DOMAIN mem' = Segment \cup Pool
  /\ \A a \in Pool : mem'[a] = Free
  /\ \A a \in Segment :
       mem'[a] = IF a < c THEN mem[a]
                 ELSE IF a < X THEN mem[a + L]
                 ELSE IF a = X THEN Entry(n, Total(k))
                 ELSE IF a = X + 1 THEN Dimension(k)
                 ELSE IF a < X + Total(k) THEN Element(body[a - X - 1])
                 ELSE Free

\* The entry at b is the one at z in the next state, key, header and elements.
Kept(b, z) ==
  /\ mem'[z] = mem[b] /\ mem'[z + KEY] = mem[b + KEY]
  /\ \A i \in 1..(mem[b][2] - Total(0)) : mem'[z + KEY + i] = mem[b + KEY + i]

LEMMA CutExists ==
  ASSUME TypeOK, Chained, NEW n \in Names
  PROVE  \E c \in Nat, L \in Nat :
           /\ Cut(n, c, L) /\ ARR2_BASE <= c /\ c + L <= PAS_END
           /\ Target(n) = PAS_END - L
           /\ \/ ARR_FIND(n) = 0 /\ c = PAS_END /\ L = 0
              \/ ARR_FIND(n) = c /\ c # 0
<1>1. PAS_END \in Nat /\ ARR2_BASE \in Nat /\ ARR2_BASE > 0 /\ ARR2_BASE <= PAS_END
  BY Ends, Borders
<1>2. CASE ARR_FIND(n) = 0
  <2>1. \A b \in EntryAddresses : mem[b][3] # n
    BY <1>1, <1>2, Found DEF EntryAddresses
  <2>2. Cut(n, PAS_END, 0)
    BY <2>1, <1>1 DEF Cut, EntryAddresses
  <2>3. Target(n) = PAS_END - 0
    BY <1>1, <1>2 DEF Target, InStore
  <2> QED BY <1>1, <1>2, <2>2, <2>3
<1>3. CASE ARR_FIND(n) # 0
  <2> DEFINE c == ARR_FIND(n)
  <2>1. c \in EntryAddresses /\ mem[c][3] = n
    BY <1>3, Found
  <2>2. PICK k \in Sizes : WholeEntry(c, k)
    BY <2>1, EntryIsWhole
  <2>3. k \in Nat /\ Total(k) \in Nat /\ Total(k) = k + 2 /\ mem[c][2] = Total(k)
    BY <2>2, Counts DEF WholeEntry
  <2>4. c \in Nat /\ ARR2_BASE <= c /\ c + Total(k) <= PAS_END
    BY <2>1, <2>2, <1>1 DEF WholeEntry, EntryAddresses
  <2>5. Cut(n, c, Total(k))
    <3>1. \A b \in EntryAddresses : mem[b][3] = n => b = c
      BY <2>1, Zenon DEF Chained
    <3>2. \A b \in EntryAddresses : b \in Nat /\ (b <= c \/ b >= c + Total(k))
      BY <2>2, <1>1 DEF WholeEntry, EntryAddresses
    <3>3. \A b \in EntryAddresses : mem[b][3] # n => b # c
      BY <2>1
    <3>4. c + Total(k) \in EntryAddresses \cup {PAS_END}
      BY <2>2 DEF WholeEntry
    <3> HIDE DEF c
    <3> QED BY <2>1, <2>3, <2>4, <3>1, <3>2, <3>3, <3>4 DEF Cut
  <2>6. Target(n) = PAS_END - Total(k)
    BY <2>3, <1>3 DEF Target, InStore
  <2> QED BY <1>3, <2>3, <2>4, <2>5, <2>6
<1> QED BY <1>2, <1>3

LEMMA CommitMoves ==
  ASSUME TypeOK, Chained, NEW n \in Names, NEW k \in Sizes, NEW body \in [1..k -> Values],
         Fits(n, k), Commit(n, body, k)
  PROVE  \E c \in Nat, L \in Nat :
           /\ Cut(n, c, L) /\ After(n, k, body, c, L)
           /\ ARR2_BASE <= c /\ c + L <= PAS_END /\ PAS_END - L + Total(k) <= ARR2_LIMIT
<1>1. PICK c \in Nat, L \in Nat :
        /\ Cut(n, c, L) /\ ARR2_BASE <= c /\ c + L <= PAS_END
        /\ Target(n) = PAS_END - L
        /\ \/ ARR_FIND(n) = 0 /\ c = PAS_END /\ L = 0
           \/ ARR_FIND(n) = c /\ c # 0
  BY CutExists
<1> DEFINE X == PAS_END - L
           staged == Staged(n, body, k)
           closed == IF ARR_FIND(n) = 0 \/ ARR_FIND(n) = X THEN staged
                     ELSE Ldir(staged, PAS_END - (X - ARR_FIND(n)), ARR_FIND(n),
                               X - ARR_FIND(n))
           moved == Ldir(closed, ArenaBase, X, Total(k))
           freed == Pool \cup ((X + Total(k))..(ARR2_LIMIT - 1))
<1>2. mem' = Freed(moved, freed) /\ PAS_END' = X + Total(k)
  BY <1>1 DEF Commit, ClearArrays
<1>3. k \in Nat /\ k >= 1 /\ Total(k) = k + 2 /\ Total(k) \in Nat
  BY Counts
<1>4. /\ X \in Nat /\ c <= X /\ X <= PAS_END /\ X + Total(k) <= ARR2_LIMIT
      /\ ArenaBase + Total(k) <= V2_CODE_LIMIT /\ X <= ArenaBase
  BY <1>1, <1>3, Ends, Borders DEF Fits
<1>5. DOMAIN staged = Segment \cup Pool
  BY DEF Staged, TypeOK
<1>6. \A a \in Segment : staged[a] = mem[a]
  <2>1. \A a \in Segment : a \in DOMAIN mem /\ a < ArenaBase
    BY Borders DEF TypeOK, Segment
  <2> QED BY <2>1, Borders, <1>3 DEF Staged, Segment, KEY
<1>7. \A j \in 0..(Total(k) - 1) :
        staged[ArenaBase + j] = IF j = 0 THEN Entry(n, Total(k))
                                ELSE IF j = 1 THEN Dimension(k) ELSE Element(body[j - 1])
  <2> SUFFICES ASSUME NEW j \in 0..(Total(k) - 1)
               PROVE  staged[ArenaBase + j] = IF j = 0 THEN Entry(n, Total(k))
                                              ELSE IF j = 1 THEN Dimension(k)
                                              ELSE Element(body[j - 1])
    OBVIOUS
  <2>1. ArenaBase + j \in DOMAIN mem
    BY <1>3, <1>4, Borders DEF TypeOK, Pool
  <2>2. CASE j = 0
    BY <2>1, <2>2, Borders DEF Staged
  <2>3. CASE j = 1
    BY <2>1, <2>3, Borders DEF Staged, KEY
  <2>4. CASE j > 1
    <3>1. \A a \in DOMAIN mem :
            /\ a # ArenaBase /\ a # ArenaBase + KEY
            /\ a \in (ArenaBase + KEY + 1)..(ArenaBase + KEY + k)
            => staged[a] = Element(body[a - ArenaBase - KEY])
      BY Zenon DEF Staged
    <3> DEFINE z == ArenaBase + j
    <3>2. z \in DOMAIN mem /\ z # ArenaBase /\ z # ArenaBase + KEY
          /\ z \in (ArenaBase + KEY + 1)..(ArenaBase + KEY + k) /\ z - ArenaBase - KEY = j - 1
      BY <2>1, <2>4, <1>3, Borders DEF KEY
    <3> HIDE DEF staged, z
    <3>3. staged[z] = Element(body[j - 1])
      BY <3>1, <3>2
    <3> QED BY <2>4, <3>3 DEF z
  <2> QED BY <2>2, <2>3, <2>4, <1>3
<1> HIDE DEF staged
<1>8. /\ DOMAIN closed = Segment \cup Pool
      /\ \A a \in Pool : closed[a] = staged[a]
      /\ \A a \in Segment :
           closed[a] = IF c <= a /\ a < X THEN mem[a + L] ELSE mem[a]
  <2>1. CASE ARR_FIND(n) = 0
    BY <2>1, <1>1, <1>4, <1>5, <1>6, Borders, Ends DEF Segment
  <2>2. CASE ARR_FIND(n) # 0 /\ c = X
    BY <2>2, <1>1, <1>4, <1>5, <1>6, Borders DEF Segment
  <2>3. CASE ARR_FIND(n) # 0 /\ c # X
    <3>1. ARR_FIND(n) = c /\ PAS_END - (X - c) = c + L
      BY <2>3, <1>1, <1>4, Ends
    <3>2. closed = Ldir(staged, c + L, c, X - c)
      BY <2>3, <3>1
    <3>3. X - c \in Nat /\ c + L \in Nat /\ c <= c + L
      BY <1>4
    <3> HIDE DEF closed, X
    <3>4. /\ DOMAIN closed = Segment \cup Pool
          /\ \A a \in Segment \cup Pool :
               closed[a] = IF a \in c..(c + (X - c) - 1) THEN staged[(c + L) + (a - c)]
                           ELSE staged[a]
      <4>1. \A src, dst, q \in Nat : dst <= src =>
              /\ DOMAIN Ldir(staged, src, dst, q) = DOMAIN staged
              /\ \A a \in DOMAIN staged :
                   Ldir(staged, src, dst, q)[a] =
                     IF a \in dst..(dst + q - 1) THEN staged[src + (a - dst)] ELSE staged[a]
        BY LdirDown
      <4>2. /\ DOMAIN Ldir(staged, c + L, c, X - c) = DOMAIN staged
            /\ \A a \in DOMAIN staged :
                 Ldir(staged, c + L, c, X - c)[a] =
                   IF a \in c..(c + (X - c) - 1) THEN staged[(c + L) + (a - c)] ELSE staged[a]
        BY SMTT(60), <4>1, <3>3, Zenon
      <4> QED BY <4>2, <3>2, <1>5, Zenon
    <3>5. \A a \in Pool : closed[a] = staged[a]
      BY <3>4, <1>4, Borders DEF Pool
    <3>6. ASSUME NEW a \in Segment
          PROVE  closed[a] = IF c <= a /\ a < X THEN mem[a + L] ELSE mem[a]
      <4>1. a \in Nat /\ staged[a] = mem[a]
        BY <1>6, Borders DEF Segment
      <4>2. CASE c <= a /\ a < X
        <5>1. a + L \in Segment /\ (c + L) + (a - c) = a + L
          BY SMTT(60), <4>1, <4>2, <1>4, Ends, Borders DEF Segment, X
        <5> QED BY <3>4, <4>1, <4>2, <5>1, <1>4, <1>6
      <4>3. CASE ~(c <= a /\ a < X)
        BY <3>4, <4>1, <4>3, <1>4
      <4> QED BY <4>2, <4>3
    <3> QED BY <3>4, <3>5, <3>6
  <2> QED BY <2>1, <2>2, <2>3
<1> HIDE DEF closed
<1>9. /\ DOMAIN moved = Segment \cup Pool
      /\ \A a \in Segment \cup Pool :
           moved[a] = IF a \in X..(X + Total(k) - 1) THEN closed[ArenaBase + (a - X)]
                      ELSE closed[a]
  <2>1. \A src, dst, q \in Nat : dst <= src =>
          /\ DOMAIN Ldir(closed, src, dst, q) = DOMAIN closed
          /\ \A a \in DOMAIN closed :
               Ldir(closed, src, dst, q)[a] =
                 IF a \in dst..(dst + q - 1) THEN closed[src + (a - dst)] ELSE closed[a]
    BY LdirDown
  <2>2. /\ DOMAIN Ldir(closed, ArenaBase, X, Total(k)) = DOMAIN closed
        /\ \A a \in DOMAIN closed :
             Ldir(closed, ArenaBase, X, Total(k))[a] =
               IF a \in X..(X + Total(k) - 1) THEN closed[ArenaBase + (a - X)] ELSE closed[a]
    <3>1. ArenaBase \in Nat /\ X \in Nat /\ Total(k) \in Nat /\ X <= ArenaBase
      BY <1>3, <1>4, Borders
    <3>2. ASSUME NEW x \in Nat, NEW q \in Nat, x <= ArenaBase
          PROVE  /\ DOMAIN Ldir(closed, ArenaBase, x, q) = DOMAIN closed
                 /\ \A a \in DOMAIN closed :
                      Ldir(closed, ArenaBase, x, q)[a] =
                        IF a \in x..(x + q - 1) THEN closed[ArenaBase + (a - x)] ELSE closed[a]
      BY <2>1, <3>1, <3>2
    <3> HIDE DEF X
    <3> QED BY <3>1, <3>2
  <2> QED BY <2>2, <1>8, Zenon
<1> HIDE DEF moved, X
<1>10. /\ DOMAIN mem' = Segment \cup Pool
       /\ \A a \in Segment \cup Pool : mem'[a] = IF a \in freed THEN Free ELSE moved[a]
  BY <1>2, <1>9 DEF Freed
<1>11. \A a \in Pool : mem'[a] = Free
  BY <1>10
<1>12. ASSUME NEW a \in Segment
       PROVE  mem'[a] = IF a < c THEN mem[a]
                        ELSE IF a < X THEN mem[a + L]
                        ELSE IF a = X THEN Entry(n, Total(k))
                        ELSE IF a = X + 1 THEN Dimension(k)
                        ELSE IF a < X + Total(k) THEN Element(body[a - X - 1])
                        ELSE Free
  <2>1. a \in Nat /\ a < ARR2_LIMIT /\ a \notin Pool
    BY Borders DEF Segment, Pool
  <2>2. CASE a < X
    <3>1. mem'[a] = closed[a]
      BY <2>1, <2>2, <1>3, <1>4, <1>9, <1>10
    <3> QED BY <3>1, <2>1, <2>2, <1>4, <1>8
  <2>3. CASE X <= a /\ a < X + Total(k)
    <3>1. mem'[a] = closed[ArenaBase + (a - X)]
      BY <2>1, <2>3, <1>3, <1>4, <1>9, <1>10
    <3>2. a - X \in 0..(Total(k) - 1) /\ ArenaBase + (a - X) \in Pool
      BY <2>1, <2>3, <1>3, <1>4, Borders DEF Pool
    <3>3. mem'[a] = IF a - X = 0 THEN Entry(n, Total(k))
                    ELSE IF a - X = 1 THEN Dimension(k) ELSE Element(body[a - X - 1])
      BY <3>1, <3>2, <1>7, <1>8
    <3> QED BY <3>3, <2>1, <2>3, <1>3, <1>4
  <2>4. CASE a >= X + Total(k)
    <3>1. mem'[a] = Free
      BY SMTT(60), <2>1, <2>4, <1>3, <1>4, <1>10, Borders
    <3> QED BY <3>1, <2>1, <2>4, <1>3, <1>4
  <2> QED BY <2>1, <2>2, <2>3, <2>4, <1>3, <1>4
<1>13. After(n, k, body, c, L)
  BY <1>2, <1>10, <1>11, <1>12 DEF After, X
<1> QED BY <1>1, <1>4, <1>13 DEF X

\* The chain after a LOAD: the entries below the cut, those above it L cells lower,
\* and the new one at the end.
LEMMA CommitStore ==
  ASSUME TypeOK, Chained, NEW n \in Names, NEW k \in Sizes, NEW body \in [1..k -> Values],
         NEW c \in Nat, NEW L \in Nat, Cut(n, c, L), After(n, k, body, c, L),
         ARR2_BASE <= c, c + L <= PAS_END, PAS_END - L + Total(k) <= ARR2_LIMIT
  PROVE  /\ Chained'
         /\ \A b \in EntryAddresses : mem[b][3] # n => \E z \in EntryAddresses' : Kept(b, z)
         /\ \A z \in EntryAddresses' : mem'[z][3] # n =>
              \E b \in EntryAddresses : mem[b][3] = mem'[z][3]
         /\ \E z \in EntryAddresses' :
              /\ mem'[z] = Entry(n, Total(k))
              /\ \A i \in 1..k : mem'[z + KEY + i] = Element(body[i])
<1> DEFINE X == PAS_END - L
<1>1. k \in Nat /\ k >= 1 /\ Total(k) = k + 2 /\ Total(k) \in Nat /\ Total(0) = 2
  BY Counts DEF Total, KEY, ARR_DESC_DATA_OFF
<1>2. X \in Nat /\ c <= X /\ X <= PAS_END /\ X + Total(k) <= ARR2_LIMIT
  BY Ends, Borders
<1>3. PAS_END' = X + Total(k)
  BY DEF After
<1>4. /\ \A a \in Segment : a < c => mem'[a] = mem[a]
      /\ \A a \in Segment : a >= c /\ a < X => mem'[a] = mem[a + L]
  BY <1>2, Borders DEF After, Segment
<1>5. /\ mem'[X] = Entry(n, Total(k)) /\ mem'[X + 1] = Dimension(k)
      /\ \A i \in 1..k : mem'[X + 1 + i] = Element(body[i])
  <2>1. X \in Segment /\ X + 1 \in Segment /\ \A i \in 1..k : X + 1 + i \in Segment
    <3> HIDE DEF X
    <3> QED BY <1>1, <1>2, Ends, Borders DEF Segment
  <2>2. \A a \in Segment :
          mem'[a] = IF a < c THEN mem[a]
                    ELSE IF a < X THEN mem[a + L]
                    ELSE IF a = X THEN Entry(n, Total(k))
                    ELSE IF a = X + 1 THEN Dimension(k)
                    ELSE IF a < X + Total(k) THEN Element(body[a - X - 1])
                    ELSE Free
    BY Zenon DEF After
  <2> HIDE DEF X
  <2>3. mem'[X] = Entry(n, Total(k)) /\ mem'[X + 1] = Dimension(k)
    BY <2>1, <2>2, <1>2
  <2>4. ASSUME NEW i \in 1..k PROVE mem'[X + 1 + i] = Element(body[i])
    <3> DEFINE a == X + 1 + i
    <3>1. a \in Segment
      BY <2>1
    <3>2. ~(a < c) /\ ~(a < X) /\ a # X /\ a # X + 1 /\ a < X + Total(k) /\ a - X - 1 = i
      BY <1>1, <1>2
    <3> HIDE DEF a
    <3>3. mem'[a] = Element(body[i])
      BY <2>2, <3>1, <3>2
    <3> QED BY <3>3 DEF a
  <2> QED BY <2>3, <2>4
<1> HIDE DEF X
<1>6. \A a \in EntryAddresses : a \in Nat /\ ARR2_BASE <= a /\ a < PAS_END /\ mem[a][1] = "entry"
  BY Ends, Borders DEF EntryAddresses, IsEntry
<1>7. \A a \in ARR2_BASE..(PAS_END - 1) : mem[a][1] = "entry" => a \in EntryAddresses
  BY Ends, Borders DEF EntryAddresses, IsEntry, Segment
<1>8. \A a \in ARR2_BASE..(PAS_END' - 1) : a \in Segment
  BY <1>1, <1>2, <1>3, Ends, Borders DEF Segment
\* Where each entry of the new chain comes from.
<1>9. ASSUME NEW a \in EntryAddresses'
      PROVE  /\ a \in Nat /\ ARR2_BASE <= a /\ a < PAS_END'
             /\ \/ a < c /\ a \in EntryAddresses
                \/ c <= a /\ a < X /\ a + L \in EntryAddresses
                \/ a = X
  <2>1. a \in ARR2_BASE..(PAS_END' - 1) /\ mem'[a][1] = "entry"
    BY Zenon DEF EntryAddresses, IsEntry
  <2>2. a \in Nat /\ ARR2_BASE <= a /\ a < PAS_END' /\ a \in Segment
    BY <2>1, <1>1, <1>2, <1>3, <1>8, Borders
  <2>3. CASE a < c
    <3>1. mem[a][1] = "entry" /\ a \in ARR2_BASE..(PAS_END - 1)
      BY <2>1, <2>2, <2>3, <1>2, <1>4, Ends, Borders
    <3> QED BY <2>2, <2>3, <3>1, <1>7
  <2>4. CASE c <= a /\ a < X
    <3>1. mem[a + L][1] = "entry"
      BY <2>1, <2>2, <2>4, <1>4
    <3>2. a + L \in ARR2_BASE..(PAS_END - 1)
      BY <2>2, <2>4, Ends, Borders DEF X
    <3> QED BY <2>2, <2>4, <3>1, <3>2, <1>7
  <2>5. CASE a > X
    <3>1. CASE a = X + 1
      <4>1. mem'[a][1] = "dim"
        BY <3>1, <1>5, Tags
      <4> QED BY <4>1, <2>1
    <3>2. CASE a > X + 1
      <4> DEFINE i == a - X - 1
      <4>1. i \in 1..k /\ a = X + 1 + i
        BY <2>2, <3>2, <1>1, <1>2, <1>3
      <4> HIDE DEF i
      <4>2. mem'[a] = Element(body[i])
        BY <4>1, <1>5
      <4>3. mem'[a][1] = "value"
        BY <4>2, Tags
      <4> QED BY <4>3, <2>1
    <3> QED BY <2>2, <2>5, <3>1, <3>2, <1>2
  <2> QED BY <2>2, <2>3, <2>4, <2>5, <1>2
\* And that each one is there.
<1>10. /\ \A a \in EntryAddresses : a < c => a \in EntryAddresses'
       /\ \A a \in EntryAddresses : c + L <= a => a - L \in EntryAddresses'
       /\ X \in EntryAddresses'
  <2>1. ASSUME NEW a \in Nat, ARR2_BASE <= a, a < PAS_END', mem'[a][1] = "entry"
        PROVE  a \in EntryAddresses'
    <3>1. a \in ARR2_BASE..(PAS_END' - 1)
      BY <2>1, <1>1, <1>2, <1>3, Borders
    <3> QED BY <3>1, <2>1, <1>8, Zenon DEF EntryAddresses, IsEntry
  <2>2. ASSUME NEW a \in EntryAddresses, a < c PROVE a \in EntryAddresses'
    <3>1. a \in Segment /\ a < PAS_END'
      BY SMTT(60), <2>2, <1>1, <1>2, <1>3, <1>6, Ends, Borders DEF Segment
    <3>2. mem'[a][1] = "entry"
      BY <2>2, <3>1, <1>4, <1>6
    <3> QED BY <2>1, <3>1, <3>2, <1>6
  <2>3. ASSUME NEW a \in EntryAddresses, c + L <= a PROVE a - L \in EntryAddresses'
    <3> DEFINE z == a - L
    <3>1. z \in Nat /\ ARR2_BASE <= z /\ c <= z /\ z < X /\ z + L = a
      BY <2>3, <1>6, Ends, Borders DEF X
    <3>2. z \in Segment /\ z < PAS_END'
      BY <3>1, <1>1, <1>2, <1>3, Borders DEF Segment
    <3> HIDE DEF z
    <3>3. mem'[z] = mem[a]
      BY <3>1, <3>2, <1>4
    <3>4. z \in EntryAddresses'
      BY <2>1, <3>1, <3>2, <3>3, <1>6
    <3> QED BY <3>4 DEF z
  <2>4. X \in EntryAddresses'
    BY SMTT(60), <2>1, <1>1, <1>2, <1>3, <1>5, Tags, Borders
  <2> QED BY <2>2, <2>3, <2>4
\* An entry that ends at the cut is followed by the one behind the old entry.
<1>11. c \in EntryAddresses'
  <2>1. c + L \in EntryAddresses \cup {PAS_END}
    BY Zenon DEF Cut
  <2>2. CASE c + L \in EntryAddresses
    <3>1. (c + L) - L = c
      OBVIOUS
    <3> QED BY <2>2, <3>1, <1>10
  <2>3. CASE c + L = PAS_END
    <3>1. c = X
      BY <2>3, Ends DEF X
    <3> QED BY <3>1, <1>10
  <2> QED BY <2>1, <2>2, <2>3
<1>12. PAS_END' # ARR2_BASE => ARR2_BASE \in EntryAddresses'
  <2>1. CASE c = ARR2_BASE
    BY <2>1, <1>11
  <2>2. CASE c # ARR2_BASE
    <3>1. ARR2_BASE < c /\ PAS_END # ARR2_BASE
      BY <2>2, Ends, Borders
    <3>2. ARR2_BASE \in EntryAddresses
      BY <3>1, Zenon DEF Chained
    <3> QED BY <3>1, <3>2, <1>10
  <2> QED BY <2>1, <2>2
\* An entry that was whole is whole where it is now.
<1> DEFINE Whole(z) == \E q \in Sizes :
             /\ mem'[z][2] = Total(q) /\ mem'[z + KEY] = Dimension(q)
             /\ \A i \in 1..q : mem'[z + KEY + i][1] = "value"
             /\ z + Total(q) \in EntryAddresses' \cup {PAS_END'}
<1>13. ASSUME NEW a \in EntryAddresses, NEW s \in {0, L},
              (a < c /\ s = 0) \/ (c + L <= a /\ s = L)
       PROVE  mem'[a - s] = mem[a] /\ Whole(a - s) /\ Kept(a, a - s)
  <2>1. PICK q \in Sizes : WholeEntry(a, q)
    BY EntryIsWhole
  <2>2. /\ q \in Nat /\ q >= 1 /\ Total(q) = q + 2 /\ mem[a][2] = q + 2
        /\ mem[a][2] - Total(0) = q /\ a + (q + 2) <= PAS_END
    <3>1. q \in Nat /\ q >= 1 /\ Total(q) = q + 2
      BY Counts
    <3>2. mem[a][2] = Total(q) /\ a + Total(q) <= PAS_END
      BY <2>1, Zenon DEF WholeEntry
    <3>3. mem[a][2] = q + 2 /\ a + (q + 2) <= PAS_END
      BY <3>1, <3>2, Zenon
    <3>4. (q + 2) - 2 = q
      BY <3>1
    <3> QED BY <3>1, <3>3, <3>4, <1>1, Zenon
  <2>3. /\ a \in Nat /\ ARR2_BASE <= a /\ a - s \in Nat /\ s \in Nat /\ a - s >= ARR2_BASE
        /\ \/ a < c /\ s = 0 /\ a + (q + 2) <= c
           \/ c + L <= a /\ s = L /\ a - s + (q + 2) <= X
    <3>1. a < c => a + (q + 2) <= c
      <4>1. a + (q + 2) \in EntryAddresses \cup {PAS_END}
            /\ \A b \in EntryAddresses : b <= a \/ b >= a + (q + 2)
        BY <2>1, <2>2 DEF WholeEntry
      <4>2. c \in EntryAddresses \cup {PAS_END}
        BY Zenon DEF Cut
      <4> QED BY <4>1, <4>2, <2>2, <1>6, Ends
    <3>2. a \in Nat /\ ARR2_BASE <= a
      BY <1>6
    <3>3. CASE a < c /\ s = 0
      BY <3>1, <3>2, <3>3, Borders
    <3>4. CASE c + L <= a /\ s = L
      <4>1. a - L \in Nat /\ a - L >= c /\ a - L + (q + 2) <= PAS_END - L
        BY SMTT(60), <3>2, <3>4, <2>2, Ends
      <4> QED BY <4>1, <3>2, <3>4, Borders DEF X
    <3> QED BY <1>13, <3>3, <3>4
  <2>4. ASSUME NEW j \in 0..(q + 1) PROVE mem'[a - s + j] = mem[a + j]
    <3> DEFINE z == a - s + j
    <3>1. z \in Segment /\ z + s = a + j
      BY SMTT(60), <2>2, <2>3, <1>2, Ends, Borders DEF Segment
    <3>2. (z < c /\ s = 0) \/ (c <= z /\ z < X /\ s = L)
      BY <2>2, <2>3, <1>2
    <3> HIDE DEF z
    <3>3. mem'[z] = mem[z + s]
      <4>1. CASE z < c /\ s = 0
        <5>1. z + s = z
          BY <4>1, <3>1, Borders DEF Segment
        <5> QED BY <4>1, <5>1, <3>1, <1>4
      <4>2. CASE c <= z /\ z < X /\ s = L
        BY <4>2, <3>1, <1>4
      <4> QED BY <3>2, <4>1, <4>2
    <3> QED BY <3>1, <3>3 DEF z
  <2>5. mem'[a - s] = mem[a]
    <3>1. 0 \in 0..(q + 1) /\ a - s + 0 = a - s /\ a + 0 = a
      BY <2>2, <2>3
    <3> QED BY <3>1, <2>4
  <2>6. mem'[a - s + KEY] = Dimension(q)
    <3>1. 1 \in 0..(q + 1)
      BY <2>2
    <3> QED BY <3>1, <2>1, <2>4 DEF WholeEntry, KEY
  <2>7. ASSUME NEW i \in 1..q PROVE mem'[a - s + KEY + i][1] = "value"
    <3>1. 1 + i \in 0..(q + 1) /\ a - s + KEY + i = a - s + (1 + i) /\ a + KEY + i = a + (1 + i)
      BY <2>2, <2>3 DEF KEY
    <3>2. mem[a + KEY + i][1] = "value"
      BY <2>1 DEF WholeEntry
    <3> QED BY <3>1, <3>2, <2>4
  <2>8. a - s + Total(q) \in EntryAddresses' \cup {PAS_END'}
    <3>1. a + (q + 2) \in EntryAddresses \cup {PAS_END}
      BY <2>1, <2>2 DEF WholeEntry
    <3>2. CASE a < c /\ s = 0
      <4>1. a + (q + 2) <= c /\ a - s + Total(q) = a + (q + 2)
        BY <3>2, <2>2, <2>3
      <4>2. CASE a + (q + 2) = c
        BY <4>1, <4>2, <1>11
      <4>3. CASE a + (q + 2) # c
        <5>1. a + (q + 2) < c /\ a + (q + 2) \in EntryAddresses
          BY SMTT(60), <4>1, <4>3, <3>1, <2>2, <2>3, <1>2, Ends
        <5> QED BY <4>1, <5>1, <1>10
      <4> QED BY <4>2, <4>3
    <3>3. CASE c + L <= a /\ s = L
      <4>1. a - s + Total(q) = (a + (q + 2)) - L /\ c + L <= a + (q + 2)
        BY <3>3, <2>2, <2>3
      <4>2. CASE a + (q + 2) \in EntryAddresses
        BY <4>1, <4>2, <1>10
      <4>3. CASE a + (q + 2) = PAS_END
        <5>1. a - s + Total(q) = X
          BY <4>1, <4>3 DEF X
        <5> QED BY <5>1, <1>10
      <4> QED BY <3>1, <4>2, <4>3
    <3> QED BY <1>13, <3>2, <3>3
  <2>9. Whole(a - s)
    BY <2>2, <2>5, <2>6, <2>7, <2>8, Zenon
  <2>10. Kept(a, a - s)
    <3>1. mem'[a - s + KEY] = mem[a + KEY]
      BY <2>1, <2>6 DEF WholeEntry
    <3>2. \A i \in 1..q : mem'[a - s + KEY + i] = mem[a + KEY + i]
      <4> SUFFICES ASSUME NEW i \in 1..q PROVE mem'[a - s + KEY + i] = mem[a + KEY + i]
        OBVIOUS
      <4>1. 1 + i \in 0..(q + 1) /\ a - s + KEY + i = a - s + (1 + i) /\ a + KEY + i = a + (1 + i)
        BY <2>2, <2>3 DEF KEY
      <4> QED BY <4>1, <2>4
    <3> QED BY <2>2, <2>5, <3>1, <3>2 DEF Kept
  <2> QED BY <2>5, <2>9, <2>10
<1>14. Whole(X) /\ mem'[X][3] = n
  <2>1. mem'[X][2] = Total(k) /\ mem'[X][3] = n
    BY <1>5, Tags
  <2>2. mem'[X + KEY] = Dimension(k) /\ \A i \in 1..k : mem'[X + KEY + i][1] = "value"
    BY <1>5, Tags DEF KEY
  <2>3. X + Total(k) \in EntryAddresses' \cup {PAS_END'}
    BY <1>3
  <2> QED BY <2>1, <2>2, <2>3, Zenon
<1> HIDE DEF Whole
\* b in the old chain is a in the new one.
<1> DEFINE Moved(a, b) == /\ b \in EntryAddresses /\ mem'[a] = mem[b] /\ mem[b][3] # n
                          /\ (b < c /\ a = b) \/ (c + L <= b /\ b = a + L)
<1>15. ASSUME NEW a \in EntryAddresses'
       PROVE  Whole(a) /\ (a = X \/ \E b : Moved(a, b))
  <2>1. CASE a < c /\ a \in EntryAddresses
    <3>1. a - 0 = a
      BY <1>9
    <3>2. mem'[a - 0] = mem[a] /\ Whole(a - 0)
      BY <2>1, <1>13
    <3>3. mem[a][3] # n
      BY <2>1, <1>9 DEF Cut
    <3>4. Moved(a, a)
      BY <2>1, <3>1, <3>2, <3>3
    <3> HIDE DEF Moved
    <3> QED BY <3>1, <3>2, <3>4
  <2>2. CASE c <= a /\ a < X /\ a + L \in EntryAddresses
    <3>1. (a + L) - L = a /\ c + L <= a + L
      BY <2>2, <1>9
    <3>2. mem'[a] = mem[a + L] /\ Whole(a)
      BY <2>2, <3>1, <1>13
    <3>3. mem[a + L][3] # n
      BY <2>2, <1>9 DEF Cut
    <3>4. Moved(a, a + L)
      BY <2>2, <3>1, <3>2, <3>3
    <3> HIDE DEF Moved
    <3> QED BY <3>2, <3>4
  <2>3. CASE a = X
    BY <2>3, <1>14
  <2> QED BY <2>1, <2>2, <2>3, <1>9
<1>16. ASSUME NEW a \in EntryAddresses', NEW a2 \in EntryAddresses', a2 # a
       PROVE  mem'[a2][3] # mem'[a][3]
  <2>1. \A b \in EntryAddresses, b2 \in EntryAddresses : mem[b][3] = mem[b2][3] => b = b2
    BY Zenon DEF Chained
  <2>2. \A b, b2 : Moved(a, b) /\ Moved(a2, b2) => b # b2
    BY <1>6, <1>9, <1>16
  <2>3. /\ a = X \/ \E b : Moved(a, b)
        /\ a2 = X \/ \E b : Moved(a2, b)
    BY <1>15
  <2>4. \A z, b : Moved(z, b) => mem'[z][3] # n /\ mem'[z][3] = mem[b][3] /\ b \in EntryAddresses
    OBVIOUS
  <2> HIDE DEF Moved
  <2>5. CASE a = X
    BY <2>3, <2>4, <2>5, <1>14, <1>16
  <2>6. CASE a2 = X
    BY <2>3, <2>4, <2>6, <1>14, <1>16
  <2>7. CASE a # X /\ a2 # X
    <3>1. PICK b : Moved(a, b)
      BY <2>3, <2>7
    <3>2. PICK b2 : Moved(a2, b2)
      BY <2>3, <2>7
    <3>3. b # b2 /\ b \in EntryAddresses /\ b2 \in EntryAddresses
      BY <2>2, <2>4, <3>1, <3>2
    <3>4. mem[b][3] # mem[b2][3]
      BY <2>1, <3>3
    <3> QED BY <2>4, <3>1, <3>2, <3>4
  <2> QED BY <2>5, <2>6, <2>7
<1>17. ASSUME NEW a \in EntryAddresses'
       PROVE  /\ ArrayAt(a + KEY, mem[a][2] - Total(0), {"value"})'
              /\ a + mem'[a][2] \in EntryAddresses' \cup {PAS_END'}
  <2>1. PICK q \in Sizes :
          /\ mem'[a][2] = Total(q) /\ mem'[a + KEY] = Dimension(q)
          /\ \A i \in 1..q : mem'[a + KEY + i][1] = "value"
          /\ a + Total(q) \in EntryAddresses' \cup {PAS_END'}
    BY <1>15 DEF Whole
  <2>2. mem'[a][2] - Total(0) = q
    BY <2>1, <1>1, Counts
  <2> QED BY <2>1, <2>2 DEF ArrayAt
<1>18. Chained'
  BY <1>12, <1>16, <1>17 DEF Chained
<1>19. ASSUME NEW b \in EntryAddresses, mem[b][3] # n
       PROVE  \E z \in EntryAddresses' : Kept(b, z)
  <2>1. CASE b < c
    <3>1. b - 0 = b
      BY <1>6
    <3>2. Kept(b, b - 0)
      BY <2>1, <1>13
    <3> QED BY <2>1, <3>1, <3>2, <1>10
  <2>2. CASE c + L <= b
    <3>1. Kept(b, b - L)
      BY <2>2, <1>13
    <3> QED BY <2>2, <3>1, <1>10
  <2>3. b < c \/ b >= c + L
    BY <1>19, Zenon DEF Cut
  <2> QED BY <2>1, <2>2, <2>3, <1>6
<1>20. \A z \in EntryAddresses' : mem'[z][3] # n => \E b \in EntryAddresses : mem[b][3] = mem'[z][3]
  BY <1>14, <1>15
<1>21. /\ X \in EntryAddresses' /\ mem'[X] = Entry(n, Total(k))
       /\ \A i \in 1..k : mem'[X + KEY + i] = Element(body[i])
  BY <1>5, <1>10 DEF KEY
<1> QED BY <1>18, <1>19, <1>20, <1>21

LEMMA LoadArrayInv == ASSUME IInv, LoadArray PROVE IInv'
<1>1. PICK n \in Names, k \in Sizes :
        \/ ClearArrays(AboveStore, PAS_END)
        \/ Fits(n, k) /\ \E body \in [1..k -> Values] : Commit(n, body, k)
  BY Zenon DEF LoadArray
<1>2. phase' = "prompt" /\ phase = "prompt"
  BY DEF LoadArray
<1>3. TypeOK /\ Chained
  BY Zenon DEF IInv
<1>4. CASE ClearArrays(AboveStore, PAS_END)
  <2>1. EndSession
    BY <1>2, <1>4, Zenon DEF EndSession
  <2> QED BY <2>1, EndSessionInv
<1>5. CASE Fits(n, k) /\ \E body \in [1..k -> Values] : Commit(n, body, k)
  <2>1. PICK body \in [1..k -> Values] : Commit(n, body, k)
    BY <1>5
  <2>2. PICK c \in Nat, L \in Nat :
          /\ Cut(n, c, L) /\ After(n, k, body, c, L)
          /\ ARR2_BASE <= c /\ c + L <= PAS_END /\ PAS_END - L + Total(k) <= ARR2_LIMIT
    BY <1>3, <1>5, <2>1, CommitMoves
  <2>3. Chained'
    BY <1>3, <2>2, CommitStore
  <2>4. ClearArrays(mem', PAS_END')
    BY <2>1 DEF Commit, ClearArrays
  <2>5. /\ k \in Nat /\ Total(k) = k + 2 /\ PAS_END - L \in Nat /\ c <= PAS_END - L
        /\ PAS_END' = (PAS_END - L) + Total(k) /\ PAS_END' \in ARR2_BASE..ARR2_LIMIT
    BY SMTT(60), <1>3, <2>2, Counts, Ends, Borders DEF After
  <2>6. mem' \in [Segment \cup Pool -> Cells]
    <3>1. DOMAIN mem' = Segment \cup Pool /\ mem' = [a \in DOMAIN mem' |-> mem'[a]]
      <4>1. DOMAIN mem' = Segment \cup Pool
        BY <2>2 DEF After
      <4>2. mem' = Freed(Ldir(IF ARR_FIND(n) = 0 \/ ARR_FIND(n) = Target(n)
                              THEN Staged(n, body, k)
                              ELSE Ldir(Staged(n, body, k),
                                        PAS_END - (Target(n) - ARR_FIND(n)), ARR_FIND(n),
                                        Target(n) - ARR_FIND(n)),
                              ArenaBase, Target(n), Total(k)),
                         Pool \cup ((Target(n) + Total(k))..(ARR2_LIMIT - 1)))
        BY <2>1 DEF Commit, ClearArrays
      <4> QED BY <4>1, <4>2 DEF Freed
    <3>2. \A a \in Pool : mem'[a] \in Cells
      BY <2>2 DEF After, Cells
    <3>3. ASSUME NEW a \in Segment PROVE mem'[a] \in Cells
      <4> DEFINE X == PAS_END - L
      <4>1. mem'[a] = IF a < c THEN mem[a]
                      ELSE IF a < X THEN mem[a + L]
                      ELSE IF a = X THEN Entry(n, Total(k))
                      ELSE IF a = X + 1 THEN Dimension(k)
                      ELSE IF a < X + Total(k) THEN Element(body[a - X - 1])
                      ELSE Free
        BY <2>2, Zenon DEF After
      <4>2. a \in Nat /\ ARR2_BASE <= a
        BY Borders DEF Segment
      <4>3. mem[a] \in Cells
        BY <1>3 DEF TypeOK
      <4>4. a >= c /\ a < X => mem[a + L] \in Cells
        <5>1. a >= c /\ a < X => a + L \in Segment
          BY <4>2, <2>2, <1>3, Ends, Borders DEF Segment
        <5> QED BY <5>1, <1>3 DEF TypeOK
      <4>5. Entry(n, Total(k)) \in Cells /\ Dimension(k) \in Cells /\ Free \in Cells
        BY DEF Cells
      <4>6. a > X + 1 /\ a < X + Total(k) => Element(body[a - X - 1]) \in Cells
        <5>1. a > X + 1 /\ a < X + Total(k) => a - X - 1 \in 1..k
          BY <4>2, <2>5
        <5>2. a > X + 1 /\ a < X + Total(k) => body[a - X - 1] \in Values
          BY <5>1
        <5> QED BY <5>2 DEF Cells
      <4>7. X \in Nat /\ c \in Nat
        BY <2>5
      <4> HIDE DEF X
      <4> QED BY <4>1, <4>2, <4>3, <4>4, <4>5, <4>6, <4>7
    <3> QED BY <3>1, <3>2, <3>3
  <2> QED BY <1>2, <2>3, <2>4, <2>5, <2>6, ClearArraysInv DEF IInv
<1> QED BY <1>1, <1>4, <1>5

-----------------------------------------------------------------------------
LEMMA InitInv == Init => IInv
<1> SUFFICES ASSUME Init PROVE IInv
  OBVIOUS
<1>1. TypeOK
  <2>1. mem \in [Segment \cup Pool -> Cells]
    BY DEF Init, Cells
  <2>2. decl \in [Names -> {0} \cup Sizes] /\ slot \in [Names -> {0} \cup Segment \cup Pool]
    BY DEF Init, NoNames, NoSlots
  <2>3. /\ PAS_END \in ARR2_BASE..ARR2_LIMIT /\ ARR2_END \in ARR2_BASE..ARR2_LIMIT
        /\ ARRAYS_END \in ArenaBase..VM_CSP
    BY Borders DEF Init
  <2>4. /\ SESS_VALID \in BOOLEAN /\ phase \in {"prompt", "run", "lost"}
        /\ setup \in {"whole", "broken", "refused", "displaced"}
    BY DEF Init
  <2> QED BY <2>1, <2>2, <2>3, <2>4, Zenon DEF TypeOK
<1>2. EntryAddresses = {}
  BY Borders DEF Init, EntryAddresses
<1>3. Chained
  BY <1>2 DEF Init, Chained
<1>4. Live /\ EndsInOrder /\ Undeclared /\ RunBound
  BY Borders DEF Init, Live, EndsInOrder, Undeclared, RunBound, NoSlots
<1>5. StoredSlots /\ OrdinarySlots /\ Apart
  BY DEF Init, StoredSlots, OrdinarySlots, Apart, Reachable
<1> QED BY <1>1, <1>3, <1>4, <1>5 DEF IInv

\* One step that loses nothing: the invariant is kept; the store is touched, and
\* ordinary elements that nobody wrote appear, only when no program runs and no session
\* goes on.
LEMMA StepInv ==
  ASSUME IInv, [Next]_vars, phase' # "lost"
  PROVE  /\ IInv'
         /\ phase = "run" \/ SESS_VALID' => Untouched
         /\ NoNewHoles
<1>1. CASE EndSession \/ New \/ LoadArray
  <2>1. phase # "run" /\ phase' = "prompt"
    BY <1>1 DEF EndSession, New, LoadArray
  <2>2. SESS_VALID' = FALSE
    BY <1>1 DEF EndSession, New, LoadArray, ClearArrays, Commit
  <2>3. IInv'
    BY <1>1, EndSessionInv, NewInv, LoadArrayInv DEF IInv
  <2> QED BY <2>1, <2>2, <2>3 DEF NoNewHoles
<1>2. CASE Start \/ ImmediateStatement \/ Dim \/ ArrStore \/ ClearStatement
  BY <1>2, StartInv, ImmediateStatementInv, DimInv, ArrStoreInv, ClearStatementInv
<1>3. CASE Stop
  <2>1. /\ mem' = mem /\ PAS_END' = PAS_END /\ ARR2_END' = ARR2_END
        /\ ARRAYS_END' = ARRAYS_END /\ decl' = decl /\ slot' = slot
        /\ SESS_VALID' = SESS_VALID /\ phase' = "prompt" /\ setup' = setup
    BY <1>3 DEF Stop
  <2> QED BY <2>1, IdleInv
<1>4. CASE UNCHANGED vars
  <2>1. /\ mem' = mem /\ PAS_END' = PAS_END /\ ARR2_END' = ARR2_END
        /\ ARRAYS_END' = ARRAYS_END /\ decl' = decl /\ slot' = slot
        /\ SESS_VALID' = SESS_VALID /\ phase' = phase /\ setup' = setup
    BY <1>4 DEF vars
  <2> QED BY <2>1, IdleInv
<1> QED BY <1>1, <1>2, <1>3, <1>4 DEF Next

\* A step that loses the store leaves memory typed.
LEMMA LosingStep ==
  ASSUME IInv, Next, phase' = "lost"
  PROVE  TypeOK'
<1>1. TypeOK
  BY DEF IInv
<1>2. CASE ImmediateStatement
  <2>1. StatementLost
    BY <1>1, <1>2, StatementCases DEF StatementRuns, StatementUndone
  <2> QED BY <1>1, <2>1 DEF TypeOK, StatementLost
<1>3. CASE Dim
  <2>1. PICK n \in Names, fill \in {Element(0), Free} : decl[n] # 0 /\ Allocate(n, fill)
    BY <1>3 DEF Dim
  <2>2. /\ PAS_END' = PAS_END /\ decl' = decl /\ SESS_VALID' = SESS_VALID
        /\ setup' = setup
    BY <1>3 DEF Dim
  <2>3. decl[n] \in Sizes /\ decl[n] \in Nat /\ decl[n] >= 1
    BY <1>1, <2>1, SlotTypes, Counts
  <2>4. PICK at \in Nat :
          /\ mem' = NewArray(decl[n], at, fill) /\ slot' = [slot EXCEPT ![n] = at]
          /\ at \in Segment \cup Pool
          /\ ARR2_END' \in ARR2_BASE..ARR2_LIMIT /\ ARRAYS_END' \in ArenaBase..VM_CSP
    <3> DEFINE size == ARR_DESC_DATA_OFF + decl[n]
    <3>0. size \in Nat /\ size >= 2
      BY <2>3 DEF ARR_DESC_DATA_OFF
    <3>1. CASE /\ ARRAYS_END + size < VM_CSP
               /\ mem' = NewArray(decl[n], ARRAYS_END, fill)
               /\ slot' = [slot EXCEPT ![n] = ARRAYS_END]
               /\ ARRAYS_END' = ARRAYS_END + size /\ ARR2_END' = ARR2_END
      <4> HIDE DEF size
      <4>1. ARRAYS_END \in Nat /\ ARRAYS_END \in Segment \cup Pool
        BY <3>0, <3>1, <1>1, Ends, Borders DEF Pool
      <4>2. ARR2_END' \in ARR2_BASE..ARR2_LIMIT /\ ARRAYS_END' \in ArenaBase..VM_CSP
        BY <3>0, <3>1, <1>1, Ends, Borders
      <4> QED BY <3>1, <4>1, <4>2
    <3>2. CASE /\ ARR2_END + size < ARR2_LIMIT
               /\ mem' = NewArray(decl[n], ARR2_END, fill)
               /\ slot' = [slot EXCEPT ![n] = ARR2_END]
               /\ ARR2_END' = ARR2_END + size /\ ARRAYS_END' = ARRAYS_END
      <4> HIDE DEF size
      <4>1. ARR2_END \in Nat /\ ARR2_END \in Segment \cup Pool
        BY <3>0, <3>2, <1>1, Ends, Borders DEF Segment
      <4>2. ARR2_END' \in ARR2_BASE..ARR2_LIMIT /\ ARRAYS_END' \in ArenaBase..VM_CSP
        BY <3>0, <3>2, <1>1, Ends, Borders
      <4> QED BY <3>2, <4>1, <4>2
    <3> QED BY <2>1, <3>1, <3>2 DEF Allocate
  <2>5. mem' \in [Segment \cup Pool -> Cells]
    <3>1. Element(0) \in Cells /\ Free \in Cells /\ Dimension(decl[n]) \in Cells
      BY <2>3, StoreAssumption DEF Cells
    <3>2. mem \in [Segment \cup Pool -> Cells]
      BY <1>1, Zenon DEF TypeOK
    <3> QED BY <2>4, <3>1, <3>2 DEF NewArray
  <2>6. slot' \in [Names -> {0} \cup Segment \cup Pool]
    BY <1>1, <2>4 DEF TypeOK
  <2> QED BY <1>1, <2>2, <2>4, <2>5, <2>6 DEF TypeOK
<1>4. ~(EndSession \/ New \/ LoadArray \/ Start \/ ArrStore \/ ClearStatement \/ Stop)
  BY DEF EndSession, New, LoadArray, Start, SetUp, ArrStore, ClearStatement, Stop,
         IInv, Live
<1> QED BY <1>2, <1>3, <1>4 DEF Next

LEMMA StepUnlost == Unlost /\ [Next]_vars => Unlost'
<1> SUFFICES ASSUME Unlost, [Next]_vars PROVE Unlost'
  OBVIOUS
<1>1. CASE IInv /\ phase' # "lost"
  BY <1>1, StepInv DEF Unlost
<1>2. CASE IInv /\ phase' = "lost"
  <2>1. Next
    BY <1>2 DEF vars, IInv, Live
  <2> QED BY <1>2, <2>1, LosingStep DEF Unlost
<1>3. CASE TypeOK /\ phase = "lost"
  <2>1. CASE New
    BY <1>3, <2>1, NewInv DEF Unlost
  <2>2. CASE UNCHANGED vars
    BY <1>3, <2>2 DEF Unlost, TypeOK, vars
  <2>3. ~(EndSession \/ LoadArray \/ Start \/ ImmediateStatement \/ Dim \/ ArrStore
          \/ ClearStatement \/ Stop)
    BY <1>3 DEF EndSession, LoadArray, Start, ImmediateStatement, Dim, ArrStore,
                ClearStatement, Stop
  <2> QED BY <2>1, <2>2, <2>3 DEF Next
<1> QED BY <1>1, <1>2, <1>3 DEF Unlost

THEOREM Inductive == Spec => []Unlost
<1>1. Init => Unlost
  BY InitInv DEF Unlost
<1> QED BY <1>1, StepUnlost, PTL DEF Spec

\* Memory holds cells, the borders of segment 2 and of the arena stay within them, and
\* every slot is empty or an address in one of them.
THEOREM TypeCorrect == Spec => []TypeOK
<1>1. Unlost => TypeOK
  BY DEF Unlost, IInv
<1> QED BY Inductive, <1>1, PTL

\* The store is a chain of whole entries that ends exactly at PAS_END, with no name
\* twice, after any order of loads, replacements, refused loads, set-ups that BREAK
\* stops, runs and writes -- until a DIM after a broken set-up has been led into it.
THEOREM ChainSound == Spec => []StoreSound
<1>1. Unlost => StoreSound
  BY DEF Unlost, IInv, StoreSound
<1> QED BY Inductive, <1>1, PTL

\* Every slot a program or a statement can follow leads to an array of the declared
\* size, a stored array through its entry, and no two names share a byte.
THEOREM SlotsSafe == Spec => []SlotsSound
<1>1. Unlost => SlotsSound
  BY SlotsAreSound DEF Unlost, SlotsSound
<1> QED BY Inductive, <1>1, PTL

\* No step of a run or of a session moves an entry or changes its size, but the DIM
\* after a broken set-up that writes over the store.
THEOREM NeverMoves == Spec => StoreNeverMoves
<1>1. ASSUME Unlost, [Next]_vars
      PROVE  [phase' # "lost" /\ (phase = "run" \/ SESS_VALID') => StorePut]_vars
  <2> SUFFICES ASSUME phase' # "lost", phase = "run" \/ SESS_VALID', ~UNCHANGED vars
               PROVE  StorePut
    OBVIOUS
  <2>1. IInv
    <3> SUFFICES ASSUME phase = "lost" PROVE FALSE
      BY <1>1 DEF Unlost
    <3>1. New
      BY <1>1 DEF Next, EndSession, LoadArray, Start, ImmediateStatement, Dim, ArrStore,
                  ClearStatement, Stop
    <3> QED BY <3>1 DEF New, ClearArrays
  <2>2. Untouched
    BY <1>1, <2>1, StepInv
  <2>3. TypeOK /\ Chained
    BY <2>1, Zenon DEF IInv
  <2> QED BY <2>2, <2>3, EntriesKept DEF StorePut, Untouched
<1> QED BY Inductive, <1>1, PTL DEF Spec, StoreNeverMoves

LEMMA StoredArraysNext ==
  (TypeOK /\ Chained => \A n \in Names : InStore(n) => StoredArray(n))'
  BY StoredArrays, PTL

\* While the program goes on, no element becomes readable that nobody has written.
THEOREM ZeroFills == Spec => DimZeroFills
<1>1. ASSUME Unlost, [Next]_vars
      PROVE  [phase' = "run" => Undefined' \subseteq Undefined]_vars
  <2> SUFFICES ASSUME phase' = "run", ~UNCHANGED vars, NEW e \in Undefined'
               PROVE  e \in Undefined
    OBVIOUS
  <2>0. IInv
    <3> SUFFICES ASSUME phase = "lost" PROVE FALSE
      BY <1>1 DEF Unlost
    <3>1. New
      BY <1>1 DEF Next, EndSession, LoadArray, Start, ImmediateStatement, Dim, ArrStore,
                  ClearStatement, Stop
    <3> QED BY <3>1 DEF New
  <2>1. IInv' /\ NoNewHoles
    BY <1>1, <2>0, StepInv
  <2>2. /\ e \in Reachable' \X (1..ARR2_LIMIT) /\ e[2] <= decl'[e[1]]
        /\ mem'[slot'[e[1]] + e[2]] = Free
    BY DEF Undefined
  <2>3. e[1] \in Reachable' /\ e[1] \in Names /\ e[2] \in Nat /\ e[2] \in 1..ARR2_LIMIT
    BY <2>2, Borders DEF Reachable
  <2>4. decl'[e[1]] \in Nat
    BY <2>1, <2>3, SlotTypesNext DEF IInv
  <2>5. ~InStore(e[1])'
    <3> SUFFICES ASSUME InStore(e[1])' PROVE FALSE
      OBVIOUS
    <3>1. StoredArray(e[1])' /\ slot'[e[1]] = Descriptor(e[1])' /\ decl'[e[1]] = StoredCount(e[1])'
      BY <2>1, <2>3, StoredArraysNext DEF IInv, StoredSlots
    <3>2. mem'[slot'[e[1]] + e[2]][1] = "value"
      BY <2>2, <2>3, <2>4, <3>1 DEF StoredArray
    <3> QED BY <2>2, <3>2, Tags
  <2>6. e[1] \in Reachable /\ e[2] <= decl[e[1]] /\ mem[slot[e[1]] + e[2]] = Free
    BY <2>1, <2>2, <2>3, <2>4, <2>5 DEF NoNewHoles
  <2>7. e \in Reachable \X (1..ARR2_LIMIT)
    BY <2>2, <2>3, <2>6
  <2> QED BY <2>6, <2>7 DEF Undefined
<1> QED BY Inductive, <1>1, PTL DEF Spec, DimZeroFills

-----------------------------------------------------------------------------
\* ArrayStore implements ArrayMap: every step changes the contents of arrays the way
\* the map says, or leaves them alone.

\* What the map sees of an entry: its name and its elements.
Block(b) == [i \in 1..(mem[b][2] - Total(0)) |-> mem[b + KEY + i]]

LEMMA Contents ==
  TypeOK /\ Chained =>
    /\ \A b \in EntryAddresses :
         /\ mem[b][3] \in Names /\ InStore(mem[b][3]) /\ Stored[mem[b][3]] = Block(b)
         /\ mem[b][2] - Total(0) \in Nat \ {0}
    /\ \A n \in Names :
         /\ InStore(n) => \E b \in EntryAddresses : mem[b][3] = n
         /\ ~InStore(n) => Stored[n] = None
<1> SUFFICES ASSUME TypeOK, Chained
             PROVE  /\ \A b \in EntryAddresses :
                         /\ mem[b][3] \in Names /\ InStore(mem[b][3])
                         /\ Stored[mem[b][3]] = Block(b)
                         /\ mem[b][2] - Total(0) \in Nat \ {0}
                    /\ \A n \in Names :
                         /\ InStore(n) => \E b \in EntryAddresses : mem[b][3] = n
                         /\ ~InStore(n) => Stored[n] = None
  OBVIOUS
<1>1. ASSUME NEW b \in EntryAddresses
      PROVE  /\ mem[b][3] \in Names /\ InStore(mem[b][3]) /\ Stored[mem[b][3]] = Block(b)
             /\ mem[b][2] - Total(0) \in Nat \ {0}
  <2>1. PICK k \in Sizes : WholeEntry(b, k)
    BY EntryIsWhole
  <2>2. /\ k \in Nat \ {0} /\ mem[b][2] - Total(0) = k /\ mem[b][3] \in Names
        /\ mem[b + KEY][2] = k
    BY <2>1, Counts, Tags DEF WholeEntry, Total, KEY, ARR_DESC_DATA_OFF
  <2>3. b # 0
    BY Ends, Borders DEF EntryAddresses
  <2> DEFINE n == mem[b][3]
  <2>4. ARR_FIND(n) = b
    <3>1. \/ ARR_FIND(n) = 0 /\ \A a \in EntryAddresses : mem[a][3] # n
          \/ ARR_FIND(n) \in EntryAddresses /\ mem[ARR_FIND(n)][3] = n
      BY <2>2, Found, Zenon
    <3>2. \A a \in EntryAddresses : mem[a][3] = n => a = b
      BY Zenon DEF Chained
    <3> QED BY <3>1, <3>2
  <2>5. InStore(n) /\ Descriptor(n) = b + KEY /\ StoredCount(n) = k
    BY <2>2, <2>3, <2>4 DEF InStore, Descriptor, StoredCount
  <2>6. Stored[n] = Elements(b + KEY, k)
    <3> HIDE DEF n
    <3>1. n \in Names
      BY <2>2 DEF n
    <3> QED BY <2>5, <3>1 DEF Stored
  <2>7. Elements(b + KEY, k) = Block(b)
    BY <2>2 DEF Elements, Block
  <2> QED BY <2>2, <2>5, <2>6, <2>7
<1>2. ASSUME NEW n \in Names
      PROVE  /\ InStore(n) => \E b \in EntryAddresses : mem[b][3] = n
             /\ ~InStore(n) => Stored[n] = None
  <2>1. InStore(n) => \E b \in EntryAddresses : mem[b][3] = n
    BY Found, Zenon DEF InStore
  <2>2. ~InStore(n) => Stored[n] = None
    BY Zenon DEF Stored
  <2> QED BY <2>1, <2>2
<1> QED BY <1>1, <1>2

LEMMA ContentsNext ==
  (TypeOK /\ Chained =>
    /\ \A b \in EntryAddresses :
         /\ mem[b][3] \in Names /\ InStore(mem[b][3]) /\ Stored[mem[b][3]] = Block(b)
         /\ mem[b][2] - Total(0) \in Nat \ {0}
    /\ \A n \in Names :
         /\ InStore(n) => \E b \in EntryAddresses : mem[b][3] = n
         /\ ~InStore(n) => Stored[n] = None)'
  BY Contents, PTL

\* A kept entry has the same name and the same elements.
LEMMA KeptContents ==
  ASSUME TypeOK, Chained, TypeOK', Chained',
         NEW b \in EntryAddresses, NEW z \in EntryAddresses', Kept(b, z)
  PROVE  Stored'[mem[b][3]] = Stored[mem[b][3]]
<1>1. mem'[z][3] = mem[b][3] /\ Stored[mem[b][3]] = Block(b)
  BY Contents DEF Kept
<1>2. Stored'[mem'[z][3]] = Block(z)'
  BY ContentsNext
<1>3. Block(z)' = Block(b)
  BY DEF Block, Kept
<1> QED BY <1>1, <1>2, <1>3

LEMMA FrozenContents ==
  ASSUME IInv, IInv', Frozen
  PROVE  Stored' = Stored
<1>1. Untouched
  BY DEF Frozen, Untouched
<1>2. TypeOK /\ Chained /\ TypeOK' /\ Chained'
  BY Zenon DEF IInv
<1>3. \A n \in Names : InStore(n)' = InStore(n)
  BY <1>1, <1>2, SamePlaces
<1>4. ASSUME NEW n \in Names PROVE Stored'[n] = Stored[n]
  <2>1. CASE InStore(n)
    <3>1. PICK b \in EntryAddresses : mem[b][3] = n
      BY <2>1, <1>2, Contents
    <3>2. b \in EntryAddresses'
      BY <1>1, <1>2, EntriesKept
    <3>3. Kept(b, b)
      <4>1. PICK k \in Sizes : WholeEntry(b, k)
        BY <1>2, EntryIsWhole
      <4>2. /\ k \in Nat /\ b \in Nat /\ ARR2_BASE <= b /\ b + (k + 2) <= PAS_END
            /\ mem[b][2] - Total(0) = k
        BY <4>1, <1>2, Counts, Ends, Borders
           DEF WholeEntry, Total, KEY, ARR_DESC_DATA_OFF, EntryAddresses
      <4>3. \A j \in 0..(k + 1) : mem'[b + j] = mem[b + j]
        <5> SUFFICES ASSUME NEW j \in 0..(k + 1) PROVE mem'[b + j] = mem[b + j]
          OBVIOUS
        <5>1. b + j \in ARR2_BASE..(PAS_END - 1)
          BY <4>2, <1>2, Ends, Borders
        <5> QED BY <5>1 DEF Frozen
      <4>4. \A i \in 1..k : b + KEY + i = b + (1 + i) /\ 1 + i \in 0..(k + 1)
        BY <4>2 DEF KEY
      <4>5. b = b + 0 /\ 0 \in 0..(k + 1) /\ b + KEY = b + 1 /\ 1 \in 0..(k + 1)
        BY <4>2 DEF KEY
      <4> QED BY <4>2, <4>3, <4>4, <4>5 DEF Kept
    <3> QED BY <3>1, <3>2, <3>3, <1>2, KeptContents
  <2>2. CASE ~InStore(n)
    BY <2>2, <1>2, <1>3, Contents, ContentsNext
  <2> QED BY <2>1, <2>2
<1> QED BY <1>4 DEF Stored

\* When every slot leads into the store, or nothing is reachable, the map has no
\* ordinary array.
LEMMA NothingOrdinary ==
  ASSUME \A n \in Reachable' : InStore(n)'
  PROVE  Ordinary' = Map!Nothing
  BY DEF Ordinary, Map!Nothing, None

LEMMA MapInit == IInv /\ Init => Map!Init
<1> SUFFICES ASSUME IInv, Init PROVE Map!Init
  OBVIOUS
<1>1. EntryAddresses = {}
  BY Borders DEF Init, EntryAddresses
<1>2. \A n \in Names : ~InStore(n)
  BY <1>1, Found DEF IInv, InStore
<1>3. Stored = Map!Nothing
  BY <1>2 DEF Stored, Map!Nothing, None
<1>4. Ordinary = Map!Nothing
  BY DEF Init, Reachable, Ordinary, Map!Nothing, None
<1> QED BY <1>3, <1>4 DEF Map!Init, Map!Nothing

\* Start, CLEAR and a session that ends: ordinary arrays go, the store stays.
LEMMA Discards ==
  ASSUME IInv, IInv', Frozen, \A n \in Reachable' : InStore(n)'
  PROVE  Map!Discard
<1>1. Stored' = Stored
  BY FrozenContents
<1>2. Ordinary' = Map!Nothing
  BY NothingOrdinary
<1> QED BY <1>1, <1>2 DEF Map!Discard

LEMMA AboveStoreFrozen ==
  ASSUME TypeOK, mem' = AboveStore, PAS_END' = PAS_END
  PROVE  Frozen
<1>1. DOMAIN mem = Segment \cup Pool
  BY Zenon DEF TypeOK
<1>2. ASSUME NEW a \in ARR2_BASE..(PAS_END - 1) PROVE mem'[a] = mem[a]
  <2>1. a \in DOMAIN mem /\ a \notin Pool \cup (PAS_END..(ARR2_LIMIT - 1))
    BY <1>1, Ends, Borders DEF Segment, Pool
  <2> QED BY <2>1 DEF AboveStore, Freed
<1> QED BY <1>2 DEF Frozen

LEMMA EndSessionMap == ASSUME IInv, IInv', EndSession PROVE Map!Discard
<1>1. mem' = AboveStore /\ PAS_END' = PAS_END /\ \A n \in Names : slot'[n] = 0
  BY DEF EndSession, ClearArrays, NoSlots
<1>2. Frozen
  BY <1>1, AboveStoreFrozen DEF IInv
<1>3. Reachable' = {}
  BY <1>1 DEF Reachable
<1> QED BY <1>2, <1>3, Discards

LEMMA NewMap == ASSUME IInv, IInv', New PROVE Map!New
<1>1. PAS_END' = ARR2_BASE /\ \A n \in Names : slot'[n] = 0
  BY DEF New, ClearArrays, NoSlots
<1>2. EntryAddresses' = {}
  BY <1>1, Borders DEF EntryAddresses
<1>3. \A n \in Names : ~InStore(n)'
  BY <1>2, ContentsNext DEF IInv
<1>4. Stored' = Map!Nothing
  BY <1>3 DEF Stored, Map!Nothing, None
<1>5. Reachable' = {}
  BY <1>1 DEF Reachable
<1> QED BY <1>4, <1>5, NothingOrdinary DEF Map!New

LEMMA LoadArrayMap == ASSUME IInv, IInv', LoadArray PROVE Map!Discard \/ Map!Load
<1>1. PICK n \in Names, k \in Sizes :
        \/ ClearArrays(AboveStore, PAS_END)
        \/ Fits(n, k) /\ \E body \in [1..k -> Values] : Commit(n, body, k)
  BY Zenon DEF LoadArray
<1>2. TypeOK /\ Chained /\ TypeOK' /\ Chained'
  BY Zenon DEF IInv
<1>3. CASE ClearArrays(AboveStore, PAS_END)
  <2>1. EndSession
    BY <1>3, Zenon DEF EndSession, LoadArray
  <2> QED BY <2>1, EndSessionMap
<1>4. CASE Fits(n, k) /\ \E body \in [1..k -> Values] : Commit(n, body, k)
  <2>1. PICK body \in [1..k -> Values] : Commit(n, body, k)
    BY <1>4
  <2>2. PICK c \in Nat, L \in Nat :
          /\ Cut(n, c, L) /\ After(n, k, body, c, L)
          /\ ARR2_BASE <= c /\ c + L <= PAS_END /\ PAS_END - L + Total(k) <= ARR2_LIMIT
    BY <1>2, <1>4, <2>1, CommitMoves
  <2>3. /\ \A b \in EntryAddresses : mem[b][3] # n => \E z \in EntryAddresses' : Kept(b, z)
        /\ \A z \in EntryAddresses' : mem'[z][3] # n =>
             \E b \in EntryAddresses : mem[b][3] = mem'[z][3]
        /\ \E z \in EntryAddresses' :
             /\ mem'[z] = Entry(n, Total(k))
             /\ \A i \in 1..k : mem'[z + KEY + i] = Element(body[i])
    BY <1>2, <2>2, CommitStore
  <2> DEFINE new == [i \in 1..k |-> Element(body[i])]
  <2>4. Stored'[n] = new
    <3>1. PICK z \in EntryAddresses' :
             /\ mem'[z] = Entry(n, Total(k))
             /\ \A i \in 1..k : mem'[z + KEY + i] = Element(body[i])
      BY <2>3
    <3>2. mem'[z][3] = n /\ mem'[z][2] - Total(0) = k
      BY <3>1, Tags, Counts DEF Total, KEY, ARR_DESC_DATA_OFF
    <3>3. Block(z)' = new
      BY <3>1, <3>2 DEF Block
    <3> HIDE DEF new
    <3> QED BY <3>2, <3>3, <1>2, ContentsNext
  <2>5. ASSUME NEW m \in Names, m # n PROVE Stored'[m] = Stored[m]
    <3>1. CASE InStore(m)
      <4>1. PICK b \in EntryAddresses : mem[b][3] = m
        BY <3>1, <1>2, Contents
      <4>2. PICK z \in EntryAddresses' : Kept(b, z)
        BY <4>1, <2>3, <2>5
      <4> QED BY <4>1, <4>2, <1>2, KeptContents
    <3>2. CASE ~InStore(m)
      <4>1. \A b \in EntryAddresses : mem[b][3] # m
        BY <3>2, <1>2, Contents
      <4>2. ~InStore(m)'
        BY <4>1, <2>3, <2>5, <1>2, ContentsNext
      <4> QED BY <3>2, <4>2, <1>2, Contents, ContentsNext
    <3> QED BY <3>1, <3>2
  <2>6. Stored' = [Stored EXCEPT ![n] = new]
    <3> HIDE DEF new
    <3>1. Stored = [m \in Names |-> Stored[m]] /\ Stored' = [m \in Names |-> Stored'[m]]
      BY DEF Stored
    <3> QED BY <2>4, <2>5, <3>1
  <2>7. new \in UNION {[1..q -> {Element(v) : v \in Values}] : q \in Sizes}
    <3>1. new \in [1..k -> {Element(v) : v \in Values}]
      OBVIOUS
    <3> HIDE DEF new
    <3> QED BY <3>1
  <2>8. Ordinary' = Map!Nothing
    <3>1. \A m \in Names : slot'[m] = 0
      BY <2>1 DEF Commit, ClearArrays, NoSlots
    <3>2. Reachable' = {}
      BY <3>1 DEF Reachable
    <3> QED BY <3>2, NothingOrdinary
  <2> HIDE DEF new
  <2> QED BY <2>6, <2>7, <2>8, Zenon DEF Map!Load
<1> QED BY <1>1, <1>3, <1>4

LEMMA StartMap == ASSUME IInv, IInv', Start PROVE Map!Discard
<1>1. PICK d \in [Names -> {0} \cup Sizes] :
        /\ decl' = d
        /\ \/ slot' = Bound(d, NoSlots)
           \/ \E B \in SUBSET (Names \ Mismatched(d)) :
                slot' = [n \in Names |-> IF n \in B THEN Bound(d, NoSlots)[n] ELSE 0]
           \/ slot' = NoSlots
  BY Zenon DEF Start, SetUp
<1>2. mem' = AboveStore /\ PAS_END' = PAS_END
  BY DEF Start
<1>3. Frozen /\ Untouched
  BY <1>2, AboveStoreFrozen, AboveStoreUntouched DEF IInv
<1>4. \A n \in Names : slot'[n] # 0 => InStore(n)
  BY <1>1 DEF Bound, NoSlots
<1>5. \A n \in Reachable' : InStore(n)'
  BY <1>3, <1>4, SamePlaces DEF Reachable, IInv
<1> QED BY <1>3, <1>5, Discards

LEMMA ClearStatementMap == ASSUME IInv, IInv', ClearStatement PROVE Map!Discard
<1>1. mem' = AboveStore /\ PAS_END' = PAS_END /\ slot' \in {Bound(decl, NoSlots), NoSlots}
  BY DEF ClearStatement
<1>2. Frozen /\ Untouched
  BY <1>1, AboveStoreFrozen, AboveStoreUntouched DEF IInv
<1>3. \A n \in Names : slot'[n] # 0 => InStore(n)
  BY <1>1 DEF Bound, NoSlots
<1>4. \A n \in Reachable' : InStore(n)'
  BY <1>2, <1>3, SamePlaces DEF Reachable, IInv
<1> QED BY <1>2, <1>4, Discards

\* No array changes: the names that are reachable, where they lead and what is there.
LEMMA OrdinaryKept ==
  ASSUME \A n \in Names : (n \in Reachable' /\ ~InStore(n)') <=> (n \in Reachable /\ ~InStore(n)),
         \A n \in Reachable : ~InStore(n) => Elements(slot[n], decl[n])' = Elements(slot[n], decl[n])
  PROVE  Ordinary' = Ordinary
<1>1. \A n \in Names : Ordinary'[n] = Ordinary[n]
  BY DEF Ordinary
<1> QED BY <1>1 DEF Ordinary

LEMMA IdleMap ==
  ASSUME IInv, IInv', phase' = phase \/ phase' = "prompt",
         mem' = mem, PAS_END' = PAS_END, decl' = decl, slot' = slot, SESS_VALID' = SESS_VALID,
         setup' = setup \/ (setup' = "displaced" /\ phase' = "prompt")
  PROVE  [Map!Next]_(Map!vars)
<1>1. Frozen /\ Untouched
  BY DEF Frozen, Untouched
<1>2. Stored' = Stored
  BY <1>1, FrozenContents
<1>3. CASE phase' = "run" \/ (SESS_VALID /\ setup' \in {"whole", "broken"})
  <2>1. Reachable' = Reachable
    BY <1>3 DEF Reachable, IInv, Live
  <2>2. \A n \in Names : InStore(n)' = InStore(n)
    BY <1>1, SamePlaces DEF IInv
  <2>3. Ordinary' = Ordinary
    BY <2>1, <2>2, OrdinaryKept DEF Elements
  <2> QED BY <1>2, <2>3 DEF Map!vars
<1>4. CASE ~(phase' = "run" \/ (SESS_VALID /\ setup' \in {"whole", "broken"}))
  <2>1. Reachable' = {}
    BY <1>4 DEF Reachable
  <2> QED BY <1>1, <2>1, Discards DEF Map!Next
<1> QED BY <1>3, <1>4

LEMMA StatementRunsMap ==
  ASSUME IInv, IInv', StatementRuns PROVE [Map!Next]_(Map!vars)
<1>1. PICK d \in [Names -> {0} \cup Sizes] :
        /\ \A n \in Names : decl[n] # 0 => d[n] = decl[n]
        /\ decl' = d /\ slot' = Bound(d, slot)
  BY Zenon DEF StatementRuns
<1>2. /\ mem' = mem /\ PAS_END' = PAS_END /\ phase' = "run" /\ SESS_VALID
      /\ setup \in {"whole", "broken"}
  BY DEF StatementRuns
<1>3. Frozen /\ Untouched
  BY <1>2 DEF Frozen, Untouched
<1>4. Stored' = Stored
  BY <1>3, FrozenContents
<1>5. \A n \in Names : InStore(n)' = InStore(n)
  BY <1>3, SamePlaces DEF IInv
<1>6. \A n \in Names : ~InStore(n) => slot'[n] = slot[n]
  BY <1>1 DEF Bound
<1>7. \A n \in Names : ~InStore(n) /\ slot[n] # 0 => decl[n] # 0 /\ decl'[n] = decl[n]
  BY <1>1 DEF IInv, Undeclared
<1>8. \A n \in Names : (n \in Reachable' /\ ~InStore(n)') <=> (n \in Reachable /\ ~InStore(n))
  BY <1>2, <1>5, <1>6, <1>7 DEF Reachable
<1>9. ASSUME NEW n \in Reachable, ~InStore(n)
      PROVE  Elements(slot[n], decl[n])' = Elements(slot[n], decl[n])
  <2>1. slot'[n] = slot[n] /\ decl'[n] = decl[n]
    BY <1>6, <1>7, <1>9 DEF Reachable
  <2> QED BY <2>1, <1>2 DEF Elements
<1>10. Ordinary' = Ordinary
  BY <1>8, <1>9, OrdinaryKept
<1> QED BY <1>4, <1>10 DEF Map!vars

LEMMA ImmediateStatementMap ==
  ASSUME IInv, IInv', ImmediateStatement PROVE [Map!Next]_(Map!vars)
<1>1. CASE StatementRuns
  BY <1>1, StatementRunsMap
<1>2. CASE StatementUndone
  <2>1. /\ phase' = phase /\ phase' = "prompt" /\ setup' = "displaced"
        /\ mem' = mem /\ PAS_END' = PAS_END /\ decl' = decl /\ slot' = slot
        /\ SESS_VALID' = SESS_VALID
    BY <1>2 DEF StatementUndone
  <2> QED BY <2>1, IdleMap
<1>3. ~StatementLost
  BY DEF StatementLost, IInv, Live
<1> QED BY <1>1, <1>2, <1>3, StatementCases

LEMMA DimMap == ASSUME IInv, IInv', Dim PROVE [Map!Next]_(Map!vars)
<1>0. phase' # "lost"
  BY DEF IInv, Live
<1>1. Frozen /\ Untouched
  BY <1>0, DimInv
<1>2. PICK n \in Names, fill \in {Element(0), Free}, at \in Nat : Dimmed(n, fill, at)
  BY <1>0, DimInv
<1>3. /\ phase = "run" /\ decl' = decl /\ SESS_VALID' = SESS_VALID
      /\ setup' \in {"whole", "broken"}
  BY DEF Dim, IInv, Live
<1>4. Stored' = Stored
  BY <1>1, FrozenContents
<1>5. \A m \in Names : InStore(m)' = InStore(m)
  BY <1>1, SamePlaces DEF IInv
<1>6. CASE SESS_VALID \/ phase' = "run"
  <2> DEFINE z == [i \in 1..decl[n] |-> fill]
  <2>1. n \in Reachable' /\ \A m \in Names : m # n => (m \in Reachable' <=> m \in Reachable)
    <3>1. decl[n] # 0
      BY <1>2, Counts DEF Dimmed
    <3> QED BY <3>1, <1>2, <1>3, <1>6 DEF Dimmed, Reachable
  <2>2. Ordinary'[n] = z
    <3>1. Elements(slot[n], decl[n])' = z
      BY <1>2, <1>3 DEF Elements, Dimmed
    <3> HIDE DEF z
    <3> QED BY <3>1, <2>1, <1>2, <1>5 DEF Ordinary, Dimmed
  <2>3. ASSUME NEW m \in Names, m # n PROVE Ordinary'[m] = Ordinary[m]
    <3>1. CASE m \in Reachable' /\ ~InStore(m)
      <4>1. Elements(slot[m], decl[m])' = Elements(slot[m], decl[m])
        BY <3>1, <2>3, <1>2, <1>3 DEF Elements, Dimmed
      <4> QED BY <3>1, <4>1, <2>1, <2>3, <1>5 DEF Ordinary
    <3>2. CASE ~(m \in Reachable' /\ ~InStore(m))
      BY <3>2, <2>1, <2>3, <1>5 DEF Ordinary
    <3> QED BY <3>1, <3>2
  <2>4. Ordinary' = [Ordinary EXCEPT ![n] = z]
    <3> HIDE DEF z
    <3>1. Ordinary = [m \in Names |-> Ordinary[m]] /\ Ordinary' = [m \in Names |-> Ordinary'[m]]
      BY DEF Ordinary
    <3> QED BY <2>2, <2>3, <3>1
  <2>5. z \in UNION {FreshArrays(k) : k \in Sizes}
    <3>1. z \in FreshArrays(decl[n]) /\ decl[n] \in Sizes
      BY <1>2 DEF Dimmed, FreshArrays
    <3> HIDE DEF z
    <3> QED BY <3>1
  <2>6. Stored[n] = None
    BY <1>2, Contents DEF IInv, Dimmed
  <2> HIDE DEF z
  <2>7. Map!Make
    BY <2>4, <2>5, <2>6, <1>4, Zenon DEF Map!Make
  <2> QED BY <2>7 DEF Map!Next
<1>7. CASE ~(SESS_VALID \/ phase' = "run")
  <2>1. Reachable' = {}
    BY <1>3, <1>7 DEF Reachable
  <2> QED BY <1>1, <2>1, Discards DEF Map!Next
<1> QED BY <1>6, <1>7

LEMMA ArrStoreMap == ASSUME IInv, IInv', ArrStore PROVE Map!Assign
<1>1. PICK n \in Reachable, v \in Values : \E i \in 1..decl[n] : Written(n, i, v)
  BY ArrStoreInv
<1>2. PICK i \in 1..decl[n] : Written(n, i, v)
  BY <1>1
<1>3. /\ PAS_END' = PAS_END /\ decl' = decl /\ slot' = slot /\ SESS_VALID' = SESS_VALID
      /\ phase' = phase /\ Untouched /\ setup' = setup
  BY ArrStoreInv DEF ArrStore
<1>4. TypeOK /\ Chained /\ TypeOK' /\ Chained'
  BY Zenon DEF IInv
<1>5. \A m \in Names : /\ InStore(m)' = InStore(m) /\ Descriptor(m)' = Descriptor(m)
                       /\ InStore(m) => StoredCount(m)' = StoredCount(m)
  BY <1>3, <1>4, SamePlaces
<1>6. Reachable' = Reachable /\ \A m \in Reachable : m \in Names
  BY <1>3 DEF Reachable
<1>7. n \in Names /\ slot[n] \in Nat /\ decl[n] \in Nat /\ i \in Nat
  BY <1>4, <1>6, SlotTypes
<1>8. \A m \in Reachable : ~InStore(m) =>
        \A a \in slot[m]..(slot[m] + decl[m]) : a \in Segment \cup Pool /\ a \in Nat /\ a >= PAS_END
  BY <1>4, <1>6, OrdinaryCells DEF IInv, OrdinarySlots
<1>9. \A m \in Names : InStore(m) => StoredArray(m)
  BY <1>4, StoredArrays
<1>10. CASE InStore(n)
  <2>1. StoredArray(n) /\ slot[n] = Descriptor(n) /\ decl[n] = StoredCount(n)
    BY <1>7, <1>9, <1>10 DEF IInv, StoredSlots
  <2>2. slot[n] + i < PAS_END
    BY <2>1, <1>4, <1>7, Ends DEF StoredArray
  <2>3. ASSUME NEW m \in Reachable, ~InStore(m)
        PROVE  Elements(slot[m], decl[m])' = Elements(slot[m], decl[m])
    <3>1. ASSUME NEW j \in 1..decl[m] PROVE mem'[slot[m] + j] = mem[slot[m] + j]
      <4>1. slot[m] + j \in slot[m]..(slot[m] + decl[m])
        BY <1>4, <1>6, SlotTypes
      <4>2. slot[m] + j \in Segment \cup Pool /\ slot[m] + j # slot[n] + i
        BY <4>1, <2>2, <2>3, <1>4, <1>7, <1>8, Ends
      <4> QED BY <4>2, <1>2 DEF Written
    <3> QED BY <3>1, <1>3 DEF Elements
  <2>4. Ordinary' = Ordinary
    BY <2>3, <1>5, <1>6, OrdinaryKept
  <2>5. ASSUME NEW m \in Names, InStore(m), NEW j \in 1..StoredCount(m), m # n \/ j # i
        PROVE  mem'[Descriptor(m) + j] = mem[Descriptor(m) + j]
    <3>1. /\ StoredArray(m) /\ Descriptor(m) \in Nat /\ StoredCount(m) \in Nat
          /\ Descriptor(m) > ARR2_BASE /\ Descriptor(m) + StoredCount(m) < PAS_END
      BY <2>5, <1>9, Counts DEF StoredArray
    <3>2. Descriptor(m) + j \in Segment
      BY <3>1, <1>4, Ends, Borders DEF Segment
    <3>3. Descriptor(m) + j # slot[n] + i
      <4>1. CASE m = n
        BY <4>1, <3>1, <2>1, <2>5, <1>7
      <4>2. CASE m # n
        <5>1. /\ Descriptor(m) \notin slot[n]..(slot[n] + decl[n])
              /\ slot[n] \notin Descriptor(m)..(Descriptor(m) + StoredCount(m))
          BY <4>2, <2>1, <2>5, <3>1, <1>7, <1>10 DEF StoredArray
        <5> QED BY <5>1, <3>1, <1>7
      <4> QED BY <4>1, <4>2
    <3> QED BY <3>2, <3>3, <1>2 DEF Written
  <2>6. ASSUME NEW m \in Names, m # n PROVE Stored'[m] = Stored[m]
    <3>1. CASE InStore(m)
      <4>1. Elements(Descriptor(m), StoredCount(m))' = Elements(Descriptor(m), StoredCount(m))
        BY <3>1, <2>5, <2>6, <1>5 DEF Elements
      <4> QED BY <4>1, <3>1, <1>5 DEF Stored
    <3>2. CASE ~InStore(m)
      BY <3>2, <1>5 DEF Stored
    <3> QED BY <3>1, <3>2
  <2>7. /\ Stored[n] = [j \in 1..decl[n] |-> mem[slot[n] + j]]
        /\ Stored'[n] = [j \in 1..decl[n] |-> mem'[slot[n] + j]]
    <3>1. Stored[n] = Elements(slot[n], decl[n])
      BY <2>1, <1>7, <1>10 DEF Stored
    <3>2. Stored'[n] = Elements(Descriptor(n), StoredCount(n))'
      BY <1>5, <1>7, <1>10 DEF Stored
    <3> QED BY <3>1, <3>2, <2>1, <1>5, <1>7, <1>10 DEF Elements
  <2>8. \A j \in (1..decl[n]) \ {i} : Stored'[n][j] = Stored[n][j]
    BY <2>1, <2>5, <2>7, <1>7, <1>10
  <2>9. Map!OneElement(Stored, Stored')
    <3>1. Stored[n] # None /\ Stored'[n] # None /\ DOMAIN Stored[n] = 1..decl[n]
          /\ DOMAIN Stored'[n] = 1..decl[n]
      BY <2>7, <1>7 DEF None
    <3>2. \A m \in Names \ {n} : Stored'[m] = Stored[m]
      BY <2>6
    <3> QED BY <3>1, <3>2, <2>8, <1>7, Zenon DEF Map!OneElement
  <2> QED BY <2>4, <2>9 DEF Map!Assign
<1>11. CASE ~InStore(n)
  <2>1. slot[n] + i \in slot[n]..(slot[n] + decl[n]) /\ slot[n] + i >= PAS_END
    BY <1>7, <1>8, <1>11
  <2>2. Frozen
    <3>1. ASSUME NEW a \in ARR2_BASE..(PAS_END - 1) PROVE mem'[a] = mem[a]
      <4>1. a \in Segment /\ a # slot[n] + i
        BY <2>1, <1>4, <1>7, Ends, Borders DEF Segment
      <4> QED BY <4>1, <1>2 DEF Written
    <3> QED BY <3>1, <1>3 DEF Frozen
  <2>3. Stored' = Stored
    BY <2>2, FrozenContents
  <2>4. ASSUME NEW m \in Reachable, ~InStore(m), NEW j \in 1..decl[m], m # n \/ j # i
        PROVE  mem'[slot[m] + j] = mem[slot[m] + j]
    <3>1. slot[m] \in Nat /\ decl[m] \in Nat /\ slot[m] + j \in slot[m]..(slot[m] + decl[m])
      BY <1>4, <1>6, SlotTypes
    <3>2. slot[m] + j \in Segment \cup Pool
      BY <2>4, <3>1, <1>8
    <3>3. slot[m] + j # slot[n] + i
      <4>1. CASE m = n
        BY <4>1, <2>4, <1>7
      <4>2. CASE m # n
        <5>1. slot[m] \notin slot[n]..(slot[n] + decl[n]) /\ slot[n] \notin slot[m]..(slot[m] + decl[m])
          BY <4>2, <2>4, <1>11 DEF IInv, Apart
        <5> QED BY <5>1, <3>1, <1>7
      <4> QED BY <4>1, <4>2
    <3> QED BY <3>2, <3>3, <1>2 DEF Written
  <2>5. ASSUME NEW m \in Names, m # n PROVE Ordinary'[m] = Ordinary[m]
    <3>1. CASE m \in Reachable /\ ~InStore(m)
      <4>1. Elements(slot[m], decl[m])' = Elements(slot[m], decl[m])
        BY <3>1, <2>4, <2>5, <1>3 DEF Elements
      <4> QED BY <3>1, <4>1, <1>5, <1>6 DEF Ordinary
    <3>2. CASE ~(m \in Reachable /\ ~InStore(m))
      BY <3>2, <1>5, <1>6 DEF Ordinary
    <3> QED BY <3>1, <3>2
  <2>6. /\ Ordinary[n] = [j \in 1..decl[n] |-> mem[slot[n] + j]]
        /\ Ordinary'[n] = [j \in 1..decl[n] |-> mem'[slot[n] + j]]
    <3>1. Ordinary[n] = Elements(slot[n], decl[n]) /\ Ordinary'[n] = Elements(slot[n], decl[n])'
      BY <1>5, <1>6, <1>7, <1>11 DEF Ordinary
    <3> QED BY <3>1, <1>3 DEF Elements
  <2>7. \A j \in (1..decl[n]) \ {i} : Ordinary'[n][j] = Ordinary[n][j]
    BY <2>4, <2>6, <1>7, <1>11
  <2>8. Map!OneElement(Ordinary, Ordinary')
    <3>1. Ordinary[n] # None /\ Ordinary'[n] # None /\ DOMAIN Ordinary[n] = 1..decl[n]
          /\ DOMAIN Ordinary'[n] = 1..decl[n]
      BY <2>6, <1>7 DEF None
    <3>2. \A m \in Names \ {n} : Ordinary'[m] = Ordinary[m]
      BY <2>5
    <3> QED BY <3>1, <3>2, <2>7, <1>7, Zenon DEF Map!OneElement
  <2> QED BY <2>3, <2>8 DEF Map!Assign
<1> QED BY <1>10, <1>11

\* Loading, replacing, adopting, clearing and writing arrays does to their contents what
\* ArrayMap says: one name at a time, whole or not at all, and stored arrays outlive runs,
\* until a broken or displaced set-up has led to the loss of the store.
THEOREM ImplementsMap == Spec => HonoursMap
<1>1. Init => Map!Init
  BY InitInv, MapInit
<1>2. ASSUME IInv, IInv', [Next]_vars PROVE [Map!Next]_(Map!vars)
  <2>1. CASE EndSession \/ New \/ LoadArray \/ Start \/ ClearStatement
    BY <1>2, <2>1, EndSessionMap, NewMap, LoadArrayMap, StartMap, ClearStatementMap DEF Map!Next
  <2>2. CASE ImmediateStatement \/ Dim
    BY <1>2, <2>2, ImmediateStatementMap, DimMap
  <2>3. CASE ArrStore
    BY <1>2, <2>3, ArrStoreMap DEF Map!Next
  <2>4. CASE Stop
    <3>1. /\ mem' = mem /\ PAS_END' = PAS_END /\ decl' = decl /\ slot' = slot
          /\ SESS_VALID' = SESS_VALID /\ phase' = "prompt" /\ setup' = setup
      BY <2>4 DEF Stop
    <3> QED BY <3>1, <1>2, IdleMap
  <2>5. CASE UNCHANGED vars
    <3>1. /\ mem' = mem /\ PAS_END' = PAS_END /\ decl' = decl /\ slot' = slot
          /\ SESS_VALID' = SESS_VALID /\ phase' = phase /\ setup' = setup
      BY <2>5 DEF vars
    <3> QED BY <3>1, <1>2, IdleMap
  <2> QED BY <1>2, <2>1, <2>2, <2>3, <2>4, <2>5 DEF Next
<1>3. ASSUME Unlost, Unlost', [Next]_vars
      PROVE  [phase = "lost" \/ phase' = "lost" \/ Map!Next]_(Map!vars)
  <2>1. CASE phase = "lost" \/ phase' = "lost"
    BY <2>1
  <2>2. CASE phase # "lost" /\ phase' # "lost"
    <3>1. IInv /\ IInv'
      BY <1>3, <2>2 DEF Unlost
    <3> QED BY <1>2, <1>3, <3>1
  <2> QED BY <2>1, <2>2
<1> QED BY Inductive, <1>1, <1>3, PTL DEF Spec, HonoursMap
=============================================================================
