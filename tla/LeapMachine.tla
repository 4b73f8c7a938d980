----------------------------- MODULE LeapMachine -----------------------------
(***************************************************************************)
(* The production machine between two keystrokes: the program, its          *)
(* variable session, the Array Store, the packages; and what RUN, an        *)
(* immediate statement and NEW do to them.  A program is a sequence of      *)
(* statements of a small language, tagged tuples; an expression is in       *)
(* postfix order, as it is compiled; a string is its length.  An array's    *)
(* body keeps only the elements that are not 0.  No BREAK is accepted here: *)
(* what one does while a session is set up, or between a DIM's steps, is    *)
(* modelled in Session and ArrayStore.                                      *)
(***************************************************************************)
EXTENDS Integers, Sequences, SequencesExt, FiniteSets, FiniteSetsExt

CONSTANTS
  POOL,     \* bytes of the program pool
  CODE,     \* bytes above the pool, up to V2_CODE_LIMIT
  SEG2,     \* bytes of segment 2
  MODE1,    \* of those, the bytes below MODE 1's attribute file
  TABLES,   \* bytes of symbols and run-time tables (an average), the slots of arrays left out
  LINE,     \* bytes of a statement's text (an average)
  FUEL      \* bound on the statements one run executes

\* MODE 1's attribute file lies in segment 2; no line is empty.
ASSUME SizesAssumption ==
  /\ {POOL, CODE, SEG2, MODE1, TABLES, FUEL} \subseteq Nat /\ LINE \in Nat \ {0}
  /\ MODE1 <= SEG2

MAX_ELEMENTS == 16384
STRING_MAX == 32      \* an element's length byte stays below
VALUE == 65536
SLOT == 2             \* bytes of an array's slot in its run-time table
Packages == [shapes |-> <<"CIRCLE", "FILL">>, mode |-> <<"MODE", "ULAPLUS", "PALETTE">>,
             sprite |-> <<"GRAB", "SHOW", "MOVE", "HIDE">>, printer |-> <<"LPRINT", "LPRINT$", "LLIST">>]
None == [words |-> <<>>, len |-> 0, carry |-> FALSE]

-----------------------------------------------------------------------------
(* Arrays.  A key is <<name, kind>>: the name with its case folded, 2 for numbers, 3 for strings. *)

updated(f, x, v) == [y \in DOMAIN f \cup {x} |-> IF y = x THEN v ELSE f[y]]
get(b, i) == IF i \in DOMAIN b.vals THEN b.vals[i] ELSE 0
\* A string is cut to the element's width.
clipped(k, b, v) ==
  LET most == IF b.width < STRING_MAX THEN b.width - 1 ELSE STRING_MAX - 1 IN IF k[2] = 2 \/ v \in 0 .. most THEN v ELSE most
put(b, i, v) ==
  [b EXCEPT !.vals = [j \in (DOMAIN b.vals \ {i}) \cup {k \in {i} : v # 0} |-> IF j = i THEN v ELSE b.vals[j]]]
array(kind, n, w) ==
  [dims |-> 1, count |-> n, width |-> w, vals |-> [i \in {} |-> 0], len |-> IF kind = 2 THEN 3 + 2 * n ELSE 4 + n * w]

\* ARR_VALIDATE: what a received body must be to become an entry of this kind.
valid(kind, b) ==
  /\ b.dims = 1 /\ b.count \in 1 .. 4095
  /\ IF kind = 2 THEN b.len = 3 + 2 * b.count
     ELSE /\ b.width >= 2 /\ b.len = 4 + b.count * b.width
          /\ \A i \in DOMAIN b.vals : b.vals[i] < STRING_MAX /\ b.vals[i] < b.width

\* Entries of the store, in order: the key, its bytes, the body.
entry(k, n, b) == [key |-> k, size |-> 4 + n + b.len, body |-> b]
sum_of(f, n) == LET sum[i \in 0 .. n] == IF i = 0 THEN 0 ELSE sum[i - 1] + f[i] IN sum[n]
bytes(entries) == sum_of([i \in DOMAIN entries |-> entries[i].size], Len(entries))
stored(m, k) == {i \in DOMAIN m.store : m.store[i].key = k}
found(m, k) == m.store[Min(stored(m, k))]

-----------------------------------------------------------------------------
(* The machine *)

\* arena, end2: bytes of the pool the session's arrays take, the end of segment 2.
Boot == [prog |-> <<>>, sess |-> FALSE, vars |-> [x \in {} |-> 0], decl |-> {}, arr |-> [k \in {} |-> 0], arena |-> 0, end2 |-> 0,
         store |-> <<>>, package |-> None, registry |-> <<>>, grabbed |-> {}, mode |-> 0, ram |-> [a \in {} |-> 0],
         msg |-> "none", ce |-> 0, ve |-> 0]

size(code) == sum_of([i \in DOMAIN code |-> IF code[i][1] = "rem" THEN code[i][2] ELSE LINE], Len(code))
show(m, text) == [m EXCEPT !.msg = text]

fresh(m) == [m EXCEPT !.vars = Boot.vars, !.arr = Boot.arr, !.arena = 0, !.end2 = bytes(m.store)]
keys_of(decl) == {d[1] : d \in decl}
\* The slots of tables that were never laid out hold whatever lies there.
stale(decl) ==
  [k \in keys_of(decl) |-> LET d == CHOOSE d \in decl : d[1] = k IN [at |-> "stale", body |-> array(k[2], d[2], d[3])]]
\* SYM_RESET: no symbols, so no session.
ended(m) == [m EXCEPT !.sess = FALSE, !.vars = Boot.vars, !.decl = {}, !.arr = Boot.arr]
(* (Mutant of clear_arrays: segment 2 is emptied to its base.) *)
clear_arrays_store(m) == fresh(ended([m EXCEPT !.store = <<>>]))
\* V2_CLEAR_ARRAYS: the arrays go as well, the Array Store stays.
clear_arrays(m) == fresh(ended(m))
\* MEM_INIT_V2: no program and no packages.
mem_init(m) == [clear_arrays(m) EXCEPT !.prog = <<>>, !.package = None, !.registry = <<>>]
New(m) == mem_init([m EXCEPT !.store = <<>>, !.msg = "none"])
Edit(m, prog) == [clear_arrays(m) EXCEPT !.prog = prog, !.msg = "none"]

\* What an array of the session holds, wherever it lies.
body(m, k) == IF m.arr[k].at = "store" THEN found(m, k).body ELSE m.arr[k].body
with_body(entries, i, b) == [entries EXCEPT ![i] = [@ EXCEPT !.body = b]]
set_body(m, k, b) ==
  IF m.arr[k].at = "store" THEN [m EXCEPT !.store = with_body(@, Min(stored(m, k)), b)]
  ELSE [m EXCEPT !.arr = updated(@, k, [at |-> m.arr[k].at, body |-> b])]
placed(m, where) == {k \in DOMAIN m.arr : m.arr[k].at = where}
pool_used(m) == size(m.prog) + TABLES + SLOT * Cardinality(m.decl) + m.arena
\* A session whose tables VM_INIT refused: its program never ran, and no statement runs in it.
unfit(m) == m.sess /\ pool_used(m) > POOL

-----------------------------------------------------------------------------
(* Expressions: their value, or -1 for a run-time error.  <<"v", x>> is a variable, <<"a", k>> an       *)
(* element whose number is on the stack (of a string array: its length).                             *)
element(m, k, i) ==
  IF k \notin DOMAIN m.arr THEN -1 ELSE IF i \notin 0 .. body(m, k).count - 1 THEN -1 ELSE get(body(m, k), i)
computed(op, a, b) ==
  CASE op = "+" -> (a + b) % VALUE
    [] op = "*" -> (a * b) % VALUE
    [] op = "=" -> IF a = b THEN 1 ELSE 0
    [] OTHER -> IF a < b THEN 1 ELSE 0
\* The operand stack, its top first, after one instruction.
operated(m, s, op) ==
  CASE op[1] = "n" -> <<op[2]>> \o s
    [] op[1] = "v" -> <<IF op[2] \in DOMAIN m.vars THEN m.vars[op[2]] ELSE 0>> \o s
    [] op[1] = "free" -> <<(IF m.mode = 1 THEN MODE1 ELSE SEG2) - m.end2>> \o s
    [] op[1] = "a" -> <<element(m, op[2], s[1])>> \o Tail(s)
    [] OTHER -> <<IF -1 \in {s[1], s[2]} THEN -1 ELSE computed(op[1], s[2], s[1])>> \o SubSeq(s, 3, Len(s))
eval(m, e) == LET stack[i \in 0 .. Len(e)] == IF i = 0 THEN <<>> ELSE operated(m, stack[i - 1], e[i]) IN stack[Len(e)][1]

-----------------------------------------------------------------------------
(* Compiling and binding *)

Dims(code) == {<<st[2], st[3], st[4]>> : st \in {x \in ToSet(code) : x[1] = "dim"}}
Package == UNION {ToSet(Packages[p]) : p \in DOMAIN Packages}
\* Where a compile stops: an unregistered word of a package is an unknown statement (error 2), an array that is
\* declared already is error 38.
rejected(m, known, code) ==
  {i \in DOMAIN code : \/ code[i][1] \in Package /\ code[i][1] \notin ToSet(m.registry)
                       \/ code[i][1] = "dim" /\ code[i][2] \in keys_of(known \cup Dims(SubSeq(code, 1, i - 1)))}
compile(m, known, code) ==
  LET at == rejected(m, known, code) IN IF at = {} THEN 0 ELSE IF code[Min(at)][1] = "dim" THEN 38 ELSE 2

\* ARR_RUN_CHECK: a declared array whose stored entry has another shape.
mismatch(m, decl) ==
  \E d \in decl : stored(m, d[1]) # {} /\
    LET b == found(m, d[1]).body IN b.count # d[2] \/ (d[1][2] = 3 /\ b.width # d[3])
Stored == [at |-> "store", body |-> array(2, 0, 0)]
\* (Mutant of bind: a stored array waits for its DIM.)
bind_nothing(m, decl) == m
\* ARR_RUN_BIND: the declared arrays that are in the store, before any statement runs.
bind(m, decl) ==
  LET ks == {d[1] : d \in {x \in decl : stored(m, x[1]) # {}}} IN
  [m EXCEPT !.arr = [k \in DOMAIN m.arr \cup ks |-> IF k \in ks THEN Stored ELSE m.arr[k]]]

\* ARR_DIM, VM_ARENA_FIT: a stored array as it is; else zeros in the pool, or in segment 2.
dim(m, k, n, w) ==
  LET b == array(k[2], n, w)
      top == IF m.mode = 1 THEN MODE1 ELSE SEG2
      place(at) == [m EXCEPT !.arr = updated(@, k, [at |-> at, body |-> b])]
  IN  IF stored(m, k) # {} THEN [m EXCEPT !.arr = updated(@, k, Stored)]
      ELSE IF n >= MAX_ELEMENTS THEN [m EXCEPT !.ve = 64]
      ELSE IF pool_used(m) + b.len < POOL THEN [place("pool") EXCEPT !.arena = @ + b.len]
      ELSE IF m.end2 + b.len < top THEN [place("seg2") EXCEPT !.end2 = @ + b.len] ELSE [m EXCEPT !.ve = 64]

\* A package's statement with one operand.
package(m, word, v) ==
  CASE word = "MODE" -> IF v > 1 THEN [m EXCEPT !.ve = 12]
                        ELSE IF v = 1 /\ m.end2 > MODE1 THEN [m EXCEPT !.ve = 64] ELSE [m EXCEPT !.mode = v]
    [] word = "ULAPLUS" -> IF v > 1 THEN [m EXCEPT !.ve = 13] ELSE m
    [] word = "PALETTE" -> IF v > 63 THEN [m EXCEPT !.ve = 14] ELSE m
    [] word = "GRAB" -> IF v > 7 THEN [m EXCEPT !.ve = 15] ELSE [m EXCEPT !.grabbed = @ \cup {v}]
    [] word = "SHOW" -> IF v \notin m.grabbed THEN [m EXCEPT !.ve = 17] ELSE m
    [] OTHER -> m

-----------------------------------------------------------------------------
(* Running *)

Label(code, x) == Min({i \in DOMAIN code : code[i] = <<"label", x>>})
assign(m, k, i, v) ==
  IF v = -1 \/ k \notin DOMAIN m.arr THEN [m EXCEPT !.ve = 1]
  ELSE IF i \notin 0 .. body(m, k).count - 1 THEN [m EXCEPT !.ve = 1]
  ELSE set_body(m, k, put(body(m, k), i, clipped(k, body(m, k), v)))
\* One statement: the machine after it.
statement(m, st) ==
  CASE st[1] = "let" -> LET v == eval(m, st[3]) IN
                        IF v = -1 THEN [m EXCEPT !.ve = 1] ELSE [m EXCEPT !.vars = updated(@, st[2], v)]
    [] st[1] = "dim" -> dim(m, st[2], st[3], st[4])
    [] st[1] = "set" -> assign(m, st[2], eval(m, st[3]), eval(m, st[4]))
    [] st[1] = "clear" -> bind(fresh(m), m.decl)
    [] st[1] = "poke" -> [m EXCEPT !.ram = updated(@, eval(m, st[2]), eval(m, st[3]) % 256)]
    [] st[1] \in Package -> package(m, st[1], st[2])
    [] OTHER -> m
follows(m, code, pc) ==
  LET st == code[pc] IN
  IF st[1] = "end" THEN Len(code) + 1
  ELSE IF st[1] = "goto" \/ (st[1] = "if" /\ eval(m, st[3]) # 0) THEN Label(code, st[2]) ELSE pc + 1
\* VM_RUN: a machine and the statement it is at, one statement later.
advanced(r, code) ==
  IF r.m.ve # 0 \/ r.pc \notin DOMAIN code THEN r
  ELSE [m |-> statement(r.m, code[r.pc]), pc |-> follows(r.m, code, r.pc)]
execute(m, code) ==
  LET run[i \in 0 .. FUEL] == IF i = 0 THEN [m |-> m, pc |-> 1] ELSE advanced(run[i - 1], code) IN run[FUEL].m

\* V2_RUNTIME_MSG; the editor that follows sets the standard video mode.
report(m) ==
  show([m EXCEPT !.mode = 0],
       CASE m.ve = 0 -> "none" [] m.ve = 64 -> "NOMEM" [] m.ve = 65 -> "ARRAY_SHAPE" [] OTHER -> "RUNTIME")
\* VM_INIT and ARR_RUN_INIT: the store bound, unless the tables do not fit (error 64: segment 2 is empty, its store
\* not counted) or a shape differs (65).
started(t) ==
  IF pool_used(t) > POOL THEN [t EXCEPT !.end2 = 0, !.ve = 64, !.arr = stale(t.decl)]
  ELSE IF mismatch(t, t.decl) THEN [t EXCEPT !.ve = 65] ELSE bind(t, t.decl)
(* (Mutant of session_start: the tables are not asked for room.) *)
session_start_roomy(m) ==
  LET s == [fresh(m) EXCEPT !.sess = TRUE, !.decl = Dims(m.prog), !.ce = 0, !.ve = 0] IN
  IF mismatch(s, s.decl) THEN [s EXCEPT !.ve = 65] ELSE bind(s, s.decl)
\* V2_SESSION_START: fresh variables for the program just compiled.  The session is valid before its tables are laid out.
session_start(m) == started([fresh(m) EXCEPT !.sess = TRUE, !.decl = Dims(m.prog), !.ce = 0, !.ve = 0])
\* A compile that fails leaves the symbols it got to, and no tables.
failed(m, code) ==
  LET decl == Dims(SubSeq(code, 1, Min(rejected(m, {}, code)) - 1)) IN [ended(m) EXCEPT !.decl = decl, !.arr = stale(decl)]
failed_compile(m, code) == show([failed(m, code) EXCEPT !.ce = compile(m, {}, code)], "SYNTAX")

Run(m) ==
  IF compile(m, {}, m.prog) # 0 THEN failed_compile(m, m.prog)
  ELSE report(execute(session_start(m), m.prog))

\* V2_ENSURE_SESSION
ensure_session(m) ==
  IF m.sess THEN m ELSE IF compile(m, {}, m.prog) # 0 THEN failed(m, m.prog) ELSE session_start(m)

\* A label defined by an immediate statement would point into code the next one overwrites (error 71).
refusal(s, code) ==
  IF compile(s, s.decl, code) # 0 THEN compile(s, s.decl, code)
  ELSE IF \E st \in ToSet(code) : st[1] = "label" THEN 71 ELSE 0
\* An immediate statement in the session s: its code precedes nothing, and reaches the program's labels.  One that does
\* not compile, that differs in a shape, or whose slots do not fit leaves the session as it was (V2_SESSION_UNDO).
in_session(s, code) ==
  LET t == [s EXCEPT !.decl = @ \cup Dims(code), !.ce = 0, !.ve = 0] IN
  IF refusal(s, code) # 0 THEN show([s EXCEPT !.ce = refusal(s, code)], "SYNTAX")
  ELSE IF mismatch(t, t.decl) THEN report([s EXCEPT !.ve = 65])
  ELSE IF pool_used(t) > POOL THEN report([s EXCEPT !.ve = 64])
  ELSE report(execute(bind(t, t.decl), code \o <<<<"end">>>> \o t.prog))
\* V2_RUN_IMMEDIATE.alone: the stored program does not compile.
alone(m, code) ==
  IF compile(m, {}, code) # 0 THEN failed_compile(m, code)
  ELSE report(execute(started([fresh(m) EXCEPT !.decl = Dims(code), !.ce = 0, !.ve = 0]), code))
\* V2_RUN_IMMEDIATE
Immediate(m, code) == LET s == ensure_session(m) IN IF s.sess THEN in_session(s, code) ELSE alone(s, code)
=============================================================================
