--------------------------------- MODULE Leap ---------------------------------
(***************************************************************************)
(* A user at the machine: typing a program, RUN, immediate statements, NEW, *)
(* and a tape that records one SAVE and is played back to LOAD and VERIFY,  *)
(* whole, cut short anywhere, or changed in a way its parity bytes miss.    *)
(* Nobody presses BREAK while a program runs.                               *)
(***************************************************************************)
EXTENDS LeapTape

CONSTANTS
  PROGS,      \* the programs that are typed
  SAYS,       \* the immediate statements
  KEYS,       \* the arrays that are saved and loaded, of names of one letter
  CASSETTES   \* package tapes

\* An array has elements, a string at least room for one character; a program that is typed fits the pool.
shaped(k, n, w) == k[2] \in {2, 3} /\ n \in Nat \ {0} /\ w \in Nat /\ (k[2] = 3 => w >= 2)
well_formed(code) ==
  /\ code \in Seq(ToSet(code))
  /\ \A st \in ToSet(code) : /\ st[1] = "dim" => shaped(st[2], st[3], st[4])
                             /\ st[1] = "rem" => st[2] \in Nat \ {0}
ASSUME CodeAssumption ==
  /\ \A code \in PROGS \cup SAYS : well_formed(code)
  /\ \A p \in PROGS : size(p) <= POOL
  /\ \A k \in KEYS : k[2] \in {2, 3}

VARIABLES m, tape, rec
vars == <<m, tape, rec>>

\* A message is gone with the next key.
quiet(x) == [x EXCEPT !.msg = "none", !.ce = 0, !.ve = 0]
\* rec: what a recording of this kind holds of a machine.
holds(kind, key, x) ==
  CASE kind = "program" -> [Boot EXCEPT !.prog = x.prog]
    [] kind = "array" -> [Boot EXCEPT !.store = <<entry(key, 1, IF key \in DOMAIN x.arr THEN body(x, key) ELSE found(x, key).body)>>]
    [] OTHER -> [quiet(x) EXCEPT !.package = None, !.grabbed = {}, !.ram = Boot.ram]
NoKey == <<"", 2>>
NoRecord == [kind |-> "none", key |-> NoKey, of |-> Boot]
Init == m = Boot /\ tape = <<>> /\ rec = NoRecord

becomes(x) == m' = quiet(x) /\ UNCHANGED <<tape, rec>>

-----------------------------------------------------------------------------
(* At the keyboard *)
Type == \E p \in PROGS : p # m.prog /\ becomes(Edit(m, p))
RunIt == becomes(Run(m))
Say == \E c \in SAYS : becomes(Immediate(m, c))
NewIt == becomes(New(m))

-----------------------------------------------------------------------------
(* Recording.  One that SPACE stops is the cassette of the last one cut short (cut, below). *)
records(r, kind, key) ==
  IF r.m.msg = "SAVED" THEN tape' = r.tape /\ rec' = [kind |-> kind, key |-> key, of |-> holds(kind, key, r.m)]
  ELSE UNCHANGED <<tape, rec>>
\* A slot of a table that was never laid out is read as it happens to be: as none, or as the address of other bytes.
misread(b) == {b, [b EXCEPT !.vals = updated(@, 0, 1)], [b EXCEPT !.dims = 0]}
readings(x, k) ==
  IF k \notin DOMAIN x.arr THEN {x}
  ELSE IF x.arr[k].at # "stale" THEN {x}
  ELSE {[x EXCEPT !.arr = Boot.arr]} \cup {[x EXCEPT !.arr = updated(@, k, [at |-> "stale", body |-> b])] : b \in misread(x.arr[k].body)}
SaveIt == LET r == SaveProgram(m, "f", 0) IN m' = quiet(r.m) /\ records(r, "program", NoKey)
SaveSession == LET r == SaveAll(m, "f", 0) IN m' = quiet(r.m) /\ records(r, "all", NoKey)
SaveOne == \E k \in KEYS : \E x \in readings(m, k) : m' = m /\ records(SaveArray(x, "f", k, 0), "array", k)
Save == SaveIt \/ SaveSession \/ SaveOne

-----------------------------------------------------------------------------
(* Playing.  What a tape can do: end block i early or late, with SPACE or without; bring other variables *)
(* under the same CRC; bring another second block; be written by other ROMs or a later version; bring an *)
(* array of another count.                                                                              *)
cut(i, how) == [tape EXCEPT ![i] = [@ EXCEPT !.cut = how]]
altered(i, d) == [tape EXCEPT ![i] = [@ EXCEPT !.data = d]]
recorded(i) == tape[i].data[2]
edited == altered(2, <<"all", [recorded(2) EXCEPT !.vars = updated(@, "x", 9)]>>)
stranger == altered(2, <<"all", sealed([recorded(2) EXCEPT !.rom = <<"other", <<>>>>])>>)
unchained == altered(2, <<"all", sealed([recorded(2) EXCEPT !.chain = FALSE])>>)
swapped == altered(3, <<"segment2", [store |-> <<>>, over |-> <<>>]>>)
later == altered(1, <<"header", [recorded(1) EXCEPT !.word = <<129, 2>>]>>)
miscounted(b) == [b EXCEPT !.count = @ + 8]
malformed == altered(2, <<"array", miscounted(recorded(2))>>)
Tapes ==
  {tape} \cup {cut(i, how) : i \in DOMAIN tape, how \in {"early", "late", "space", "held"}}
  \cup (IF rec.kind = "all" THEN {edited, stranger, unchained, swapped, SubSeq(tape, 1, 2), SubSeq(tape, 1, 2) \o tape} ELSE {})
  \cup (IF tape # <<>> THEN {later} ELSE {})
  \cup (IF rec.kind = "array" THEN {malformed} ELSE {})

Play ==
  \/ \E t \in Tapes : becomes(Load(m, t, "f").m)
  \/ becomes(Verify(m, tape, "f").m)
  \/ \E t \in Tapes, k \in KEYS : becomes(LoadArray(m, t, "f", k, 1).m)
LoadExt == \E c \in CASSETTES \cup {<<>>} : becomes(LoadPackage(m, c, "p").m)

Next == Type \/ RunIt \/ Say \/ NewIt \/ Save \/ Play \/ LoadExt
Spec == Init /\ [][Next]_vars

-----------------------------------------------------------------------------
(* Properties *)

\* The session, the store and the layout agree: entries are valid, of different keys and within segment 2; an array lies
\* in the store just when it has an entry, but for slots that are stale; in a session whose tables fit no slot is, the
\* declared arrays are bound to their entries from its start while the shapes agree, and the pool and segment 2 hold what
\* was placed in them; one that was refused holds nothing (VM_INIT, ARR_RUN_BIND, ARR_DIM, SA_RESTORE, V2_LOAD_ARRAY).
Overflow(x) == Cardinality(UNION {{k} \X (1 .. x.arr[k].body.len) : k \in placed(x, "seg2")})
SessionSound ==
  /\ bytes(m.store) <= SEG2
  /\ \A i, j \in DOMAIN m.store : valid(m.store[i].key[2], m.store[i].body) /\ (m.store[i].key = m.store[j].key => i = j)
  /\ \A k \in DOMAIN m.arr : m.arr[k].at # "stale" => (m.arr[k].at = "store" <=> stored(m, k) # {})
  /\ m.sess /\ ~unfit(m) =>
       /\ \A k \in DOMAIN m.arr : m.arr[k].at # "stale"
       /\ ~mismatch(m, m.decl) => \A d \in m.decl : stored(m, d[1]) # {} => d[1] \in DOMAIN m.arr
       /\ m.end2 \in bytes(m.store) + Overflow(m) .. SEG2
  /\ unfit(m) => m.end2 = 0 /\ m.arena = 0 /\ \A k \in DOMAIN m.arr : m.arr[k].at = "stale"

Shapes(s) == [i \in DOMAIN s |-> <<s[i].key, s[i].size>>]
Declared(x, k) == \E d \in x.decl : d[1] = k
\* No statement that runs to its end, and no tape, loses an entry: the store's entries change only by NEW, by a LOADed array that is valid, which leaves every other entry as it was and goes last, and
\* by a SAVE ... ALL tape, whose store they become, or none; an entry's values only in a session that declares it.
StoreOnlyBy ==
  [][\/ /\ Shapes(m'.store) = Shapes(m.store)
        /\ \A i \in DOMAIN m.store : m'.store[i] = m.store[i] \/ Declared(m', m.store[i].key)
     \/ NewIt
     \/ rec.kind = "all" /\ m'.store \in {<<>>, rec.of.store}
     \/ /\ rec.kind = "array"
        /\ \E k \in KEYS, b \in {rec.of.store[1].body, miscounted(rec.of.store[1].body)} :
             valid(k[2], b) /\ m'.store = without(m.store, k) \o <<entry(k, 1, b)>>]_vars

\* What a LOAD of tape t may make of a machine x: y.  The same of an array, and of VERIFY, which leaves v.
Safe(x, t, y) ==
  /\ y.msg \in {"LOAD_FAILED", "ABORTED", "BAD_VERSION"} => y.store = x.store /\ (y.prog = <<>> \/ quiet(y) = quiet(x))
  /\ y.msg = "BAD_VERSION" => quiet(y) = quiet(x)
  /\ y.msg = "LOADED" => y.prog = rec.of.prog /\ (rec.kind = "all" => holds("all", NoKey, y) = rec.of)
  /\ y.msg = "NO_VARS" =>
       /\ y.prog = rec.of.prog /\ ~y.sess
       /\ y.store = IF t[2] = tape[2] /\ x.registry = rec.of.registry /\ ~unfit(rec.of) THEN <<>> ELSE x.store
SafeArray(x, y) == y.prog = x.prog /\ (y.msg # "LOADED" => y.store = x.store)
Brings(x, y) ==
  /\ y.msg = "LOADED"
  /\ IF rec.kind = "all" THEN x.sess /\ holds("all", NoKey, y) = holds("all", NoKey, x) ELSE y.prog = x.prog
Honest(x, t, v, y) ==
  /\ quiet(v) = quiet(x)
  /\ IF rec.kind = "all" /\ unfit(x) THEN v.msg = "VERIFIED" => y.msg = "NO_VARS" /\ y.prog = x.prog
     ELSE v.msg = "VERIFIED" <=> Brings(x, y)

\* Whatever happens to the tape, a LOAD that says it failed keeps the Array Store, and the program or none of it; one
\* refused by its header keeps the session; one that says LOADED brings exactly what was recorded; one that brings the
\* program without its variables empties the store when its second block was listened to, in place, and only then (not
\* for a refused session's tape).  A failed LOAD of an array keeps every entry, the one it was to replace included.
FailedLoadSafe ==
  \A t \in Tapes :
    /\ Safe(m, t, Load(m, t, "f").m)
    /\ \A k \in KEYS : SafeArray(m, LoadArray(m, t, "f", k, 1).m)

\* What was recorded whole comes back on any machine: the program; the array, if it was one and the store's room allows;
\* the whole session, if its tables fitted and the same packages are registered, and else its program.
Returned(x) ==
  IF rec.kind = "program" THEN x = loaded([clear_arrays(m) EXCEPT !.prog = rec.of.prog])
  ELSE IF m.registry = rec.of.registry /\ ~unfit(rec.of) THEN x.msg = "LOADED" /\ holds("all", NoKey, x) = rec.of
  ELSE x.msg = "NO_VARS" /\ x.prog = rec.of.prog
ReturnedArray(k, b, x) ==
  IF b.len > room(m, k, 1) THEN x.msg = "STORE_FULL"
  ELSE IF valid(k[2], b) THEN x.msg = "LOADED" /\ found(x, k).body = b
  ELSE x.msg = "BAD_ARRAY"
RoundTrip ==
  /\ rec.kind \in {"program", "all"} => Returned(Load(m, tape, "f").m)
  /\ rec.kind = "array" => ReturnedArray(rec.key, rec.of.store[1].body, LoadArray(m, tape, "f", rec.key, 1).m)

\* VERIFY changes nothing, and says VERIFIED exactly when a LOAD of the same tape would bring back what is in memory; of a
\* session that was refused it says so of a tape that brings the program alone.
VerifyHonest == \A t \in Tapes : Honest(m, t, Verify(m, t, "f").m, Load(m, t, "f").m)

\* What the shell's messages say, and a refused RUN refutes (README, section 4): a SAVE ... ALL that said SAVED comes back
\* whole, one that VERIFY confirms can be loaded, and a session's store lies below segment 2's end.
SavedComesBack == rec.kind = "all" /\ m.registry = rec.of.registry => Load(m, tape, "f").m.msg = "LOADED"
VerifiedLoads == Verify(m, tape, "f").m.msg = "VERIFIED" => Load(m, tape, "f").m.msg = "LOADED"
StoreBelowEnd == m.sess => bytes(m.store) <= m.end2
=============================================================================
