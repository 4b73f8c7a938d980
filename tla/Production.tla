------------------------------ MODULE Production ------------------------------
(***************************************************************************)
(* The production gate's harness: a shipped machine, the tapes it is given, *)
(* and what a case may do and look at.  The machine and its tape operations *)
(* are LeapMachine's and LeapTape's with the sizes of the shipped ROM.      *)
(***************************************************************************)
EXTENDS Integers, Sequences, SequencesExt, FiniteSets, FiniteSetsExt, Functions, TLC

(* The sizes of the shipped ROM: the pools, segment 2, and its share a Mode-1 session leaves. *)
POOL_SIZE == 9211
CODE_SIZE == 4011
SEG2_SIZE == 7424
MODE1_SIZE == 1280

INSTANCE LeapTape WITH POOL <- POOL_SIZE, CODE <- CODE_SIZE, SEG2 <- SEG2_SIZE, MODE1 <- MODE1_SIZE, TABLES <- 300, LINE <- 10, FUEL <- 60,
                       ZONE <- 302, OPS <- 10, TAIL <- 55, WINDOW <- 1024

(* Program text: statements and expressions (in postfix order) by short names. *)
n(v) == <<<<"n", v>>>>
v(x) == <<<<"v", x>>>>
plus(a, b) == a \o b \o <<<<"+">>>>
times(a, b) == a \o b \o <<<<"*">>>>
less(a, b) == a \o b \o <<<<"<">>>>
Free1 == <<<<"free">>>>
a_(x, e) == e \o <<<<"a", <<x, 2>>>>>>
len_(x, e) == e \o <<<<"a", <<x, 3>>>>>>
let(x, e) == <<"let", x, e>>
dims(x, k) == <<"dim", <<x, 2>>, k, 0>>
dim_str(x, k, w) == <<"dim", <<x, 3>>, k, w>>
set(x, i, e) == <<"set", <<x, 2>>, i, e>>
set_str(x, i, e) == <<"set", <<x, 3>>, i, e>>
label(x) == <<"label", x>>
goto(x) == <<"goto", x>>
iff(e, x) == <<"if", x, e>>
poke(a, e) == <<"poke", a, e>>
rem(k) == <<"rem", k>>
CLEAR == <<"clear">>
END == <<"end">>

(* Bodies and entries of the Array Store. *)
sparse(f) == [i \in {j \in DOMAIN f : f[j] # 0} |-> f[i]]
num(f, k) == [array(2, k, 0) EXCEPT !.vals = sparse(f)]
nums(s) == num([i \in 0 .. Len(s) - 1 |-> s[i + 1]], Len(s))
strd(w, s) == [array(3, Len(s), w) EXCEPT !.vals = sparse([i \in 0 .. Len(s) - 1 |-> s[i + 1]])]
bumps(k, seed) == num([i \in 0 .. k - 1 |-> (i * 7 + seed) % VALUE], k)
A5 == nums(<<0, 0, 33, 0, 0>>)
numeric(x, b) == entry(<<x, 2>>, 1, b)
string(x, b) == entry(<<x, 3>>, 1, b)
\* An entry of so many bytes whose body is zeros.
filler(total) == entry(<<"z", 2>>, 1, [array(2, 0, 0) EXCEPT !.dims = 0, !.len = total - 5])

(* A machine at the start of a case. *)
put_store(m, prog) == Edit(m, prog)
set_store(m, entries) == [m EXCEPT !.store = entries]
boot_store(entries, prog) == put_store(set_store(Boot, entries), prog)
install(m, p) == [m EXCEPT !.package = [words |-> Packages[p], len |-> 640, carry |-> FALSE], !.registry = Packages[p]]
wipe(m, at, data) == [m EXCEPT !.ram = [i \in {at + j : j \in DOMAIN data} |-> data[i - at]] @@ @]
run_prog(m, prog) == Run(put_store(m, prog))
fresh_run(prog) == run_prog(Boot, prog)
typed(m, code) == Immediate(m, code)
RECURSIVE typed_all(_, _)
typed_all(m, codes) == IF codes = <<>> THEN m ELSE typed_all(typed(m, Head(codes)), Tail(codes))

(* What a case reads back. *)
val(m, x) == IF x \in DOMAIN m.vars THEN m.vars[x] ELSE 0
vals(m, xs) == [i \in DOMAIN xs |-> val(m, xs[i])]
errors(m) == <<m.ce, m.ve>>
pas_end(m) == bytes(m.store)
\* An expression's value in the session: an immediate statement assigns it to a new variable.
num_of(m, e) == val(typed(m, <<let("pv", e)>>), "pv")
where(m, x) == IF <<x, 2>> \in DOMAIN m.arr THEN m.arr[<<x, 2>>].at ELSE "none"

(* Tapes. *)
cut(tape, i, how) == [tape EXCEPT ![i] = [@ EXCEPT !.cut = how]]
\* A data block that loses its bytes from one on (0 is the flag), ends after so many, has a wrong checksum.
dropout(tape, first) == cut(tape, 2, IF first <= 1 THEN "early" ELSE "late")
truncated(tape, sends) == cut(tape, 2, IF sends <= 1 THEN "early" ELSE "late")
bad_checksum(tape) == cut(tape, 2, "late")
flagged(tape, flag) == [tape EXCEPT ![2] = [@ EXCEPT !.flag = flag]]
reheaded(tape, h) == [tape EXCEPT ![1] = [@ EXCEPT !.data = <<"header", h>>]]
head_of(tape) == tape[1].data[2]
of_type(tape, type) == reheaded(tape, [head_of(tape) EXCEPT !.type = type])
worded(tape, w) == reheaded(tape, [head_of(tape) EXCEPT !.word = w])
newer(w) == <<w[1], w[2] + 1>>
older(w) == <<w[1], w[2] - 1>>
\* A package as its build leaves it, and its tape under the name of its words' first.
built(p) == [words |-> Packages[p], len |-> 640, carry |-> FALSE]
package_tape(name, p) == package_file(name, built(p))
RECURSIVE load_arrays(_, _, _)
\* One LOAD ... ARRAY after another, <<tape name, key>>: the machine, the tape, the messages.
load_arrays(m, tape, commands) ==
  IF commands = <<>> THEN [m |-> m, tape |-> tape, msgs |-> <<>>]
  ELSE LET c == Head(commands)
           s == LoadArray(m, tape, c[1], c[2], 1)
           t == load_arrays(s.m, s.tape, Tail(commands))
       IN  [t EXCEPT !.msgs = <<s.m.msg>> \o @]

\* LOAD or VERIFY "TEST" of a tape over a stored program.
tape_op(tape, existing, verify) ==
  LET m == put_store(Boot, existing)
      s == IF verify THEN Verify(m, tape, "TEST") ELSE Load(m, tape, "TEST")
  IN  [msg |-> s.m.msg, m |-> s.m, tape |-> s.tape, before |-> existing]
intact(r) == r.m.prog = r.before
empty(r) == r.m.prog = <<>>

\* run_cases over the cases' verdicts, those that are known defects named: the failed cases, the exit status.
run_cases(verdicts, xfail) ==
  LET bad == {c \in DOMAIN verdicts : verdicts[c] = (c \in xfail)} IN [bad |-> bad, exit |-> IF bad = {} THEN 0 ELSE 1]
=============================================================================
