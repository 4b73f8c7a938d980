------------------------------ MODULE ProdArrays ------------------------------
(***************************************************************************)
(* The Array Store's production suite (v2_prod_arrays.py): what a stored    *)
(* array survives, what LOAD ... ARRAY refuses, where segment 2 ends.  A    *)
(* case is true when it passes.                                             *)
(***************************************************************************)
EXTENDS Production

array_tape(name, b) == array_file(name, b)
ARR(b) == array_tape("ARR", b)
k(x) == <<x, 2>>
ks(x) == <<x, 3>>
load_array(m, tape, key) == LoadArray(m, tape, "ARR", key, 1).m
S6 == strd(6, <<0, 3>>)
READS == <<dims("a", 5), let("y", a_("a", n(2)))>>
stores(m, entries) == m.store = entries

(* A stored array is bound by the program that declares it. *)
d6 ==
  LET prog == <<goto("s"), dims("a", 5), label("s"), let("y", a_("a", n(2)))>>
      m == load_array(fresh_run(prog), ARR(A5), k("a"))
      r == run_prog(m, prog)
  IN  m.msg = "LOADED" /\ errors(r) = <<0, 0>> /\ val(r, "y") = 33
coldboot == pas_end(Boot) = 0
load_no_compile ==
  LET m == load_array(Boot, ARR(A5), k("a"))  r == run_prog(m, READS) IN
  m.msg = "LOADED" /\ m.store = <<numeric("a", A5)>> /\ errors(r) = <<0, 0>> /\ val(r, "y") = 33
adopt_num ==
  LET r == Run(boot_store(<<numeric("a", A5)>>, READS)) IN
  r.ve = 0 /\ val(r, "y") = 33 /\ stores(r, <<numeric("a", A5)>>) /\ where(r, "a") = "store"
repeat_runs ==
  LET r1 == Run(boot_store(<<numeric("a", A5)>>, READS \o <<set("a", n(2), n(44))>>))
      r2 == Run(r1)
      r3 == Run(r2)
  IN  <<val(r1, "y"), val(r2, "y"), val(r3, "y")>> = <<33, 44, 44>> /\ get(r3.store[1].body, 2) = 44
adopt_str ==
  LET r1 == Run(boot_store(<<string("s", S6)>>, <<dim_str("s", 2, 6), let("y", len_("s", n(1))), set_str("s", n(1), n(5))>>)) IN
  <<val(r1, "y"), val(Run(r1), "y")>> = <<3, 5>>
jump_over ==
  LET r == Run(boot_store(<<numeric("a", A5), string("s", S6)>>,
                          <<goto("t"), dims("a", 5), dim_str("s", 2, 6), label("t"),
                            let("y", a_("a", n(2))), let("z", len_("s", n(1)))>>))
  IN  r.ve = 0 /\ vals(r, <<"y", "z">>) = <<33, 3>>

\* A RUN refused because of a stored array's shape: error 65 before the first statement, the store kept.
mismatched(e, prog) ==
  LET r == Run(boot_store(<<e>>, <<let("y", n(7))>> \o prog)) IN r.ve = 65 /\ val(r, "y") = 0 /\ stores(r, <<e>>)
mismatch_size == mismatched(numeric("a", A5), <<dims("a", 6), let("y", n(8))>>)
mismatch_larger == mismatched(numeric("a", bumps(9, 0)), <<dims("a", 5)>>)
mismatch_width == mismatched(string("s", strd(7, <<0, 3>>)), <<dim_str("s", 2, 6)>>)
mismatch_jump == mismatched(numeric("a", A5), <<goto("t"), dims("a", 6), label("t"), let("z", a_("a", n(1)))>>)
session_dim_mismatch ==
  LET m == typed(Run(boot_store(<<numeric("b", A5)>>, <<let("x", n(7))>>)), <<dims("b", 6)>>)
      r == typed(m, <<let("y", times(v("x"), n(2)))>>)
  IN  m.ve = 65 /\ r.ve = 0 /\ vals(r, <<"x", "y">>) = <<7, 14>> /\ stores(r, <<numeric("b", A5)>>)
session_stored_array ==
  LET m == Run(boot_store(<<numeric("b", A5)>>, <<dims("b", 5), let("x", a_("b", n(2)))>>))
      r == typed_all(m, <<<<set("b", n(3), plus(v("x"), n(40)))>>, <<let("y", a_("b", n(3)))>>>>)
  IN  r.ve = 0 /\ val(r, "y") = val(r, "x") + 40 /\ get(r.store[1].body, 3) = val(r, "y")
message_65 == Run(boot_store(<<numeric("a", A5)>>, <<dims("a", 6)>>)).msg = "ARRAY_SHAPE"
kind_isolation ==
  LET r == Run(boot_store(<<numeric("a", A5)>>, <<dim_str("a", 2, 6), let("n", len_("a", n(1)))>> \o READS)) IN
  r.ve = 0 /\ vals(r, <<"n", "y">>) = <<0, 33>> /\ stores(r, <<numeric("a", A5)>>)
unrelated ==
  LET r == Run(boot_store(<<numeric("a", A5)>>, <<dims("b", 4), let("y", a_("b", n(2)))>>)) IN
  r.ve = 0 /\ val(r, "y") = 0 /\ stores(r, <<numeric("a", A5)>>)
immediate_dim == where(typed(boot_store(<<numeric("a", A5)>>, <<>>), <<dims("a", 5)>>), "a") = "store"
immediate_read == LET r == typed(boot_store(<<numeric("a", A5)>>, <<>>), READS) IN r.ve = 0 /\ val(r, "y") = 33

(* The store and the arrays that do not fit the pool share segment 2. *)
overflow_coexist ==
  LET r == Run(boot_store(<<numeric("a", A5)>>, <<dims("p", 3950), dims("q", 600), set("q", n(1), n(9)), let("y", a_("q", n(1)))>>)) IN
  r.ve = 0 /\ where(r, "q") = "seg2" /\ val(r, "y") = 9 /\ stores(r, <<numeric("a", A5)>>) /\ r.end2 >= pas_end(r)
overflow_exhaustion ==
  LET big == numeric("b", nums([i \in 1 .. 3678 |-> 0]))
      r == Run(boot_store(<<big>>, <<dims("p", 3900), dims("q", 600), set("q", n(1), n(9)), let("y", n(1))>>))
  IN  r.ve = 64 /\ val(r, "y") = 0 /\ stores(r, <<big>>) /\ r.end2 >= pas_end(r)

(* What keeps the store: everything but NEW. *)
edit_keeps == LET m == boot_store(<<numeric("a", A5)>>, <<let("q", n(1))>>) IN stores(m, <<numeric("a", A5)>>)
immediate_keeps == stores(typed(boot_store(<<numeric("a", A5)>>, <<>>), <<let("q", n(1))>>), <<numeric("a", A5)>>)
program_load_keeps ==
  LET m == Load(boot_store(<<numeric("a", A5)>>, <<>>), program_file("PROG", READS), "PROG").m IN
  m.msg = "LOADED" /\ stores(m, <<numeric("a", A5)>>) /\ val(Run(m), "y") = 33
failed_program_load ==
  LET m == Load(boot_store(<<numeric("a", A5)>>, <<let("k", n(1))>>), bad_checksum(program_file("PROG", READS)), "PROG").m IN
  m.msg = "LOAD_FAILED" /\ stores(m, <<numeric("a", A5)>>) /\ m.prog = <<>>
new_clears ==
  LET m == New(boot_store(<<numeric("a", A5), numeric("b", A5)>>, <<>>))  r == run_prog(m, READS) IN
  pas_end(m) = 0 /\ errors(r) = <<0, 0>> /\ val(r, "y") = 0

(* CLEAR. *)
d8_scalars == LET r == fresh_run(<<let("s", n(5)), CLEAR, let("y", plus(v("s"), n(1)))>>) IN
              errors(r) = <<0, 0>> /\ vals(r, <<"s", "y">>) = <<0, 1>>
d8_strings == LET r == fresh_run(<<let("a$", n(3)), CLEAR, let("n", v("a$")), let("m", n(7))>>) IN
              errors(r) = <<0, 0>> /\ vals(r, <<"n", "m">>) = <<0, 7>>
d8_pkg == LET r == run_prog(install(Boot, "shapes"), <<CLEAR, <<"CIRCLE", 100>>>>) IN errors(r) = <<0, 0>> /\ r.package.len # 0
d8_symbols ==
  LET r == fresh_run(<<let("a", n(1)), let("b", n(2)), CLEAR, let("c", n(3)), let("d", plus(v("c"), n(4))), let("e$", n(1)), let("f", v("e$"))>>) IN
  r.ve = 0 /\ vals(r, <<"a", "b", "c", "d", "f">>) = <<0, 0, 3, 7, 1>>
clear_keeps ==
  LET r == Run(boot_store(<<numeric("a", A5)>>,
                          <<dims("a", 5), set("a", n(1), n(5)), CLEAR, let("y", a_("a", n(2))), let("z", a_("a", n(1)))>>))
  IN  r.ve = 0 /\ vals(r, <<"y", "z">>) = <<33, 5>> /\ stores(r, <<numeric("a", nums(<<0, 5, 33, 0, 0>>))>>) /\ r.end2 >= pas_end(r)
\* Twice around a loop that CLEARs; the counter is in the stored f(0).
F3 == nums(<<0, 0, 0>>)
twice(b) ==
  <<dims("f", 3), label("top")>> \o b
  \o <<set("f", n(0), plus(a_("f", n(0)), n(1))), CLEAR, iff(less(a_("f", n(0)), n(2)), "top")>>
noted(e) == set("f", plus(a_("f", n(0)), n(1)), e)
clear_redim ==
  LET r == Run(boot_store(<<numeric("f", F3), numeric("a", A5)>>, twice(<<dims("a", 5), noted(a_("a", n(2))), set("a", n(2), n(9))>>))) IN
  r.ve = 0 /\ stores(r, <<numeric("f", nums(<<2, 33, 9>>)), numeric("a", nums(<<0, 0, 9, 0, 0>>))>>)
clear_ordinary ==
  LET r == Run(boot_store(<<numeric("f", F3)>>, twice(<<dims("b", 4), noted(a_("b", n(1))), set("b", n(1), n(8))>>))) IN
  errors(r) = <<0, 0>> /\ stores(r, <<numeric("f", nums(<<2, 0, 0>>))>>)
clear_ordinary_read == LET r == fresh_run(<<dims("b", 4), set("b", n(1), n(8)), CLEAR, let("y", a_("b", n(1)))>>) IN r.ce = 0 /\ r.ve # 0

(* DIM zeroes. *)
run_3(prog, x) == LET r1 == fresh_run(prog)  r2 == Run(r1) IN <<val(r1, x), val(r2, x), val(Run(r2), x)>>
d12_num_repeat == run_3(READS \o <<set("a", n(2), n(33))>>, "y") = <<0, 0, 0>>
d12_str_repeat == run_3(<<dim_str("s", 3, 32), let("n", len_("s", n(1))), set_str("s", n(1), n(5))>>, "n") = <<0, 0, 0>>
arr_nested_kind ==
  LET name(e) == len_("names", e)
      pick(e) == a_("pick", e)
      r == fresh_run(<<dim_str("names", 3, 32), dims("pick", 3), set_str("names", n(2), n(3)), set("pick", n(0), n(2)),
                       let("a", name(pick(n(0)))),
                       set_str("names", pick(n(0)), n(4)), let("b", name(n(2))),
                       set("pick", n(1), name(pick(n(0)))), let("c", pick(n(1))),
                       set("pick", plus(name(n(0)), n(2)), n(9)), let("d", pick(n(2))),
                       set_str("names", n(1), name(pick(n(0)))), let("e", name(n(1)))>>)
  IN  errors(r) = <<0, 0>> /\ vals(r, <<"a", "b", "c", "d", "e">>) = <<3, 4, 4, 9, 4>>
d12_overflow ==
  LET r == fresh_run(<<dims("p", 3950), dims("q", 600), let("y", a_("q", n(50))), let("z", a_("q", n(599)))>>) IN
  r.ve = 0 /\ where(r, "q") = "seg2" /\ vals(r, <<"y", "z">>) = <<0, 0>>

(* SAVE ... ARRAY. *)
save_live(prog, key) == SaveArray(fresh_run(prog), "ARR", key, 0)
MADE == <<dims("a", 5), set("a", n(2), n(33))>>
saved(s, b) ==
  /\ s.m.msg = "SAVED" /\ Len(s.tape) = 2 /\ s.tape[2].data = <<"array", b>>
  /\ <<head_of(s.tape).type, head_of(s.tape).word, head_of(s.tape).length>> = <<ARRAY, FORMAT, b.len>>
d13_numeric == saved(save_live(MADE, k("a")), A5) /\ A5.len = 13
d13_string == saved(save_live(<<dim_str("a", 2, 32), set_str("a", n(1), n(2))>>, ks("a")), strd(32, <<0, 2>>))
d13_plain_load ==
  LET m == put_store(Boot, READS)  r == Load(m, save_live(MADE, k("a")).tape, "ARR").m IN r.msg # "LOADED" /\ r.prog = READS
d13_roundtrip ==
  LET m == load_array(Boot, save_live(MADE, k("a")).tape, k("a")) IN
  m.msg = "LOADED" /\ stores(m, <<numeric("a", A5)>>) /\ val(run_prog(m, READS), "y") = 33
save_from_store ==
  LET r == Run(boot_store(<<numeric("t", A5), string("s", S6)>>, <<let("y", n(1))>>)) IN
  saved(SaveArray(r, "OUT", k("t"), 0), A5) /\ saved(SaveArray(r, "OUT", ks("s"), 0), S6)
save_unknown ==
  LET s == SaveArray(boot_store(<<numeric("a", A5)>>, <<>>), "OUT", k("x"), 0) IN s.m.msg = "ARRAY_NOT_DIMD" /\ s.tape = <<>>
save_after_edit ==
  LET m == Run(boot_store(<<numeric("a", A5)>>, <<dims("a", 5), set("a", n(3), n(77))>>)) IN
  saved(SaveArray(Edit(m, <<let("q", n(1))>>), "OUT", k("a"), 0), nums(<<0, 0, 33, 77, 0>>))

(* LOAD ... ARRAY refuses what is no array of the kind asked for. *)
B3 == nums(<<7, 8, 9>>)
STORED == boot_store(<<numeric("b", B3)>>, <<>>)
refused(tape, key, msg) == LET m == load_array(STORED, tape, key) IN m.msg = msg /\ stores(m, STORED.store)
d15_ctl_num == stores(load_array(Boot, ARR(A5), k("a")), <<numeric("a", A5)>>)
d15_ctl_str == stores(load_array(Boot, ARR(strd(32, <<1, 2, 0>>)), ks("a")), <<string("a", strd(32, <<1, 2, 0>>))>>)
BAD_NUMBERS == {[A5 EXCEPT !.dims = 7], [A5 EXCEPT !.dims = 0], [array(2, 0, 0) EXCEPT !.len = 3], [array(2, 100, 0) EXCEPT !.len = 11],
                [A5 EXCEPT !.len = 14], [A5 EXCEPT !.len = 2], strd(4, <<1, 1>>), [array(2, 32767, 0) EXCEPT !.len = 13]}
BAD_STRINGS == {bumps(3, 1), [array(3, 2, 0) EXCEPT !.len = 6], [array(3, 2, 1) EXCEPT !.len = 6], array(3, 0, 8), strd(60, <<40>>), strd(40, <<32>>),
                strd(4, <<4>>), strd(4, <<1, 0, 9>>), [array(3, 3, 8) EXCEPT !.len = 20], [array(3, 2, 8) EXCEPT !.len = 21],
                [array(3, 32768, 2) EXCEPT !.len = 12]}
d15 == /\ \A b \in BAD_NUMBERS : refused(ARR(b), k("a"), "BAD_ARRAY")
       /\ \A b \in BAD_STRINGS : refused(ARR(b), ks("a"), "BAD_ARRAY")
d15_boundary ==
  LET s == load_arrays(Boot, array_tape("S1", strd(33, <<31>>)) \o array_tape("S2", strd(255, <<0, 3>>)), <<<<"S1", ks("a")>>, <<"S2", ks("b")>>>>) IN
  s.msgs = <<"LOADED", "LOADED">> /\ stores(s.m, <<string("a", strd(33, <<31>>)), string("b", strd(255, <<0, 3>>))>>)
\* A count other than the DIM's is found at the next RUN.
other_count(b) ==
  LET m == load_array(Boot, ARR(b), k("a"))
      r == run_prog(m, <<let("w", n(4)), dims("a", 5), let("y", a_("a", n(4)))>>)
  IN  m.msg = "LOADED" /\ r.ve = 65 /\ vals(r, <<"w", "y">>) = <<0, 0>>
d15_short == other_count(nums(<<1, 2>>))
d15_long == other_count(bumps(100, 0))
d15_large ==
  \A c \in {8, 10, 100, 255, 256, 1000} :
    LET b == num([i \in 0 .. c - 1 |-> i * 3], c)
        m == load_array(Boot, ARR(b), k("a"))
        r == run_prog(m, <<dims("a", c), let("y", a_("a", n(c - 1)))>>)
    IN  m.msg = "LOADED" /\ r.ve = 0 /\ val(r, "y") = (c - 1) * 3
d16 == \A w \in {<<130, 0>>, <<0, 0>>} : refused(worded(ARR(A5), w), k("a"), "BAD_VERSION")
d16_ok == load_array(Boot, ARR(A5), k("a")).msg = "LOADED"

(* Replacement: the old entry goes once the new one is whole and valid; the new one is last. *)
tapes(bodies) == FlattenSeq([i \in DOMAIN bodies |-> array_tape(bodies[i][1], bodies[i][2])])
into(names) == [i \in DOMAIN names |-> <<names[i], k(names[i])>>]
loaded_store(bodies) == load_arrays(Boot, tapes(bodies), into([i \in DOMAIN bodies |-> bodies[i][1]]))
all_loaded(s) == \A i \in DOMAIN s.msgs : s.msgs[i] = "LOADED"
C2 == nums(<<4, 4>>)
A44 == nums(<<0, 0, 44, 0, 0>>)
replace_middle ==
  LET s == loaded_store(<<<<"a", A5>>, <<"b", B3>>, <<"c", C2>>, <<"a", A44>>>>)
      r == run_prog(s.m, <<dims("a", 5), dims("b", 3), dims("c", 2), let("x", a_("a", n(2))), let("y", a_("b", n(1))), let("z", a_("c", n(0)))>>)
  IN  all_loaded(s) /\ stores(s.m, <<numeric("b", B3), numeric("c", C2), numeric("a", A44)>>) /\ vals(r, <<"x", "y", "z">>) = <<44, 8, 4>>
replace_sizes ==
  /\ \A b \in {nums(<<1, 2>>), nums(<<9, 9, 9>>), bumps(40, 0)} :
       LET s == loaded_store(<<<<"b", B3>>, <<"x", nums(<<5>>)>>, <<"b", b>>>>) IN
       all_loaded(s) /\ stores(s.m, <<numeric("x", nums(<<5>>)), numeric("b", b)>>)
  /\ stores(loaded_store(<<<<"b", B3>>, <<"b", nums(<<1>>)>>>>).m, <<numeric("b", nums(<<1>>))>>)
replace_kind ==
  LET s == load_arrays(Boot, array_tape("N", A5) \o array_tape("S", strd(4, <<1>>)), <<<<"N", k("a")>>, <<"S", ks("a")>>>>) IN
  stores(s.m, <<numeric("a", A5), string("a", strd(4, <<1>>))>>)
compact_run ==
  LET s == loaded_store(<<<<"a", A5>>, <<"b", B3>>, <<"c", C2>>, <<"a", nums(<<0, 0, 55, 0, 0>>)>>>>)
      r == Run(run_prog(s.m, <<goto("t"), dims("a", 5), dims("b", 3), dims("c", 2), label("t"),
                               let("x", a_("a", n(2))), let("y", a_("b", n(2))), let("z", a_("c", n(1))),
                               set("a", n(0), n(1)), set("b", n(0), n(2)), set("c", n(0), n(3))>>))
  IN  /\ r.ve = 0 /\ vals(r, <<"x", "y", "z">>) = <<55, 9, 4>>
      /\ stores(r, <<numeric("b", nums(<<2, 8, 9>>)), numeric("c", nums(<<3, 4>>)), numeric("a", nums(<<1, 0, 55, 0, 0>>))>>)
failed_replace ==
  \A f \in {<<bad_checksum(array_tape("a", nums(<<1>>))), "LOAD_FAILED">>,
            <<array_tape("a", [array(2, 0, 0) EXCEPT !.len = 3]), "BAD_ARRAY">>} :
    LET s == load_arrays(Boot, tapes(<<<<"a", A5>>, <<"b", B3>>>>) \o f[1], into(<<"a", "b">>))
        m == LoadArray(s.m, s.tape, "a", k("a"), 1).m
    IN  m.msg = f[2] /\ stores(m, s.m.store)
failed_dropout ==
  LET m == load_array(put_store(STORED, <<let("k", n(1))>>), truncated(ARR(A5), 7), k("a")) IN
  m.msg = "LOAD_FAILED" /\ stores(m, STORED.store) /\ m.prog = <<let("k", n(1))>>

(* The store at its limit. *)
full_but(room_left) == boot_store(<<filler(SEG2_SIZE - room_left)>>, <<>>)
no_room(m, b) == LET r == load_array(m, ARR(b), k("a")) IN r.msg = "STORE_FULL" /\ stores(r, m.store)
full_header == \A left \in {5, 4, 1} : no_room(full_but(left), A5)
full_name31 ==
  LET m == full_but(8)  r == LoadArray(m, ARR(A5), "ARR", k("abcdefghijklmnopqrstuvwxyz01234"), 31).m IN r.msg = "STORE_FULL" /\ stores(r, m.store)
full_body == no_room(full_but(60), bumps(40, 1))
FULL == (SEG2_SIZE - 8) \div 2
exact_fit ==
  LET m == load_array(Boot, ARR(bumps(FULL, 0)), k("a")) IN
  m.msg = "LOADED" /\ pas_end(m) = SEG2_SIZE /\ no_room(Boot, bumps(FULL + 1, 0))
replace_full ==
  LET s == loaded_store(<<<<"a", bumps(FULL, 0)>>, <<"a", bumps(FULL, 5)>>>>) IN
  all_loaded(s) /\ pas_end(s.m) = SEG2_SIZE /\ stores(s.m, <<numeric("a", bumps(FULL, 5))>>)
NB == (SEG2_SIZE - 1400) \div 2
replace_larger_fits ==
  \A order \in {<<<<"a", bumps(100, 1)>>, <<"b", bumps(NB, 2)>>>>, <<<<"b", bumps(NB, 2)>>, <<"a", bumps(100, 1)>>>>} :
    LET s == loaded_store(order \o <<<<"b", bumps(NB + 300, 3)>>>>) IN
    all_loaded(s) /\ stores(s.m, <<numeric("a", bumps(100, 1)), numeric("b", bumps(NB + 300, 3))>>)
NR == (SEG2_SIZE - 216) \div 2 + 46
NH == SEG2_SIZE \div 2 + 300
oversize ==
  \A f \in {<<<<<<"a", bumps(100, 1)>>, <<"b", bumps(800, 2)>>>>, "b", NR>>, <<<<<<"a", bumps(100, 1)>>>>, "c", NR>>,
            <<<<<<"a", bumps(100, 1)>>>>, "h", NH>>} :
    LET m == loaded_store(f[1]).m
        r == LoadArray(m, array_tape(f[2], bumps(f[3], 3)), f[2], k(f[2]), 1).m
    IN  r.msg = "STORE_FULL" /\ stores(r, m.store)
replace_full_damaged ==
  LET m == load_array(Boot, ARR(bumps(FULL, 0)), k("a"))
      after(tape, msg) == LET r == load_array(m, tape, k("a")) IN r.msg = msg /\ stores(r, m.store)
  IN  after(bad_checksum(ARR(bumps(FULL, 9))), "LOAD_FAILED") /\ after(ARR([array(2, 0, 0) EXCEPT !.len = 3]), "BAD_ARRAY")
\* A program that nearly fills the pool; the loader receives the body above it.
LARGE == [i \in 1 .. 85 |-> rem(107)]
load_near_full_program ==
  LET m == load_array(put_store(Boot, LARGE), ARR(bumps(1000, 0)), k("a")) IN
  m.msg = "LOADED" /\ stores(m, <<numeric("a", bumps(1000, 0))>>) /\ m.prog = LARGE
load_longer_than_pool ==
  LET pool_room == POOL_SIZE + CODE_SIZE - (size(LARGE) + 1 + 4 + 1)
      over == bumps(pool_room \div 2 + 10, 1)
      fit == bumps(pool_room \div 2 - 10, 2)
      s == load_arrays(put_store(Boot, LARGE), ARR(over) \o ARR(fit), <<<<"ARR", k("a")>>, <<"ARR", k("a")>>>>)
  IN  s.msgs = <<"STORE_FULL", "LOADED">> /\ stores(s.m, <<numeric("a", fit)>>) /\ s.m.prog = LARGE

(* Segment 2 and MODE 1. *)
BIG_PROG == <<dims("p", 4000), dim_str("s", 100, 70), set_str("s", n(1), n(5)), set_str("s", n(99), n(8))>>
seg2_7k_roundtrip ==
  LET s == save_live(BIG_PROG, ks("s"))
      m == load_array(New(Boot), s.tape, ks("s"))
      r == run_prog(m, <<dim_str("s", 100, 70), let("a", len_("s", n(1))), let("b", len_("s", n(99))), let("c", len_("s", n(50)))>>)
  IN  s.tape[2].len = 7004 /\ m.msg = "LOADED" /\ pas_end(m) > MODE1_SIZE /\ errors(r) = <<0, 0>> /\ vals(r, <<"a", "b", "c">>) = <<5, 8, 0>>
mode_run(entries, prog) == run_prog(install(set_store(Boot, entries), "mode"), prog)
results(r, xs) == <<r.ce, r.ve>> \o vals(r, xs)
TRY == <<let("y", n(0)), <<"MODE", 1>>, let("y", n(1))>>
mode1_interlock ==
  /\ results(mode_run(<<>>, BIG_PROG \o TRY), <<"y">>) = <<0, 64, 0>>
  /\ results(mode_run(<<filler(MODE1_SIZE)>>, TRY), <<"y">>) = <<0, 0, 1>>
  /\ results(mode_run(<<filler(MODE1_SIZE + 1)>>, TRY), <<"y">>) = <<0, 64, 0>>
  /\ LET r == mode_run(<<>>, <<dims("p", 4000), dims("q", 500), <<"MODE", 1>>, set("q", n(499), n(7)), let("y", a_("q", n(499)))>>) IN
     results(r, <<"y">>) = <<0, 0, 7>> /\ where(r, "q") = "seg2"
mode1_dim_limit ==
  /\ results(mode_run(<<>>, <<let("x", n(0)), dims("p", 4000), <<"MODE", 1>>, let("x", Free1), dims("q", 1000), let("y", n(1))>>), <<"x", "y">>)
       = <<0, 64, MODE1_SIZE, 0>>
  /\ results(mode_run(<<>>, <<let("x", n(0)), dims("p", 4000), let("x", Free1), dims("q", 1000), set("q", n(999), n(5)), let("y", a_("q", n(999)))>>),
             <<"x", "y">>) = <<0, 0, SEG2_SIZE, 5>>
free1_size ==
  /\ results(fresh_run(<<let("x", Free1), dims("p", 4000), dims("q", 500), let("y", Free1)>>), <<"x", "y">>) = <<0, 0, SEG2_SIZE, SEG2_SIZE - 1003>>
  /\ val(Run(boot_store(<<filler(100)>>, <<let("x", Free1)>>)), "x") = SEG2_SIZE - 100
store_at_limit ==
  LET m == boot_store(<<numeric("a", A5), filler(SEG2_SIZE - numeric("a", A5).size)>>, READS \o <<let("x", Free1), dims("p", 4000), dims("q", 600)>>)
      r == Run(m)
      l == load_array(m, ARR(A5), k("b"))
  IN  pas_end(m) = SEG2_SIZE /\ r.ve = 64 /\ vals(r, <<"y", "x">>) = <<33, 0>> /\ stores(r, m.store) /\ l.msg = "STORE_FULL"

cases ==
  [d6 |-> d6, coldboot |-> coldboot, load_no_compile |-> load_no_compile, adopt_num |-> adopt_num, repeat_runs |-> repeat_runs,
   adopt_str |-> adopt_str, jump_over |-> jump_over, mismatch_size |-> mismatch_size, mismatch_larger |-> mismatch_larger,
   mismatch_width |-> mismatch_width, mismatch_jump |-> mismatch_jump, session_dim_mismatch |-> session_dim_mismatch,
   session_stored_array |-> session_stored_array, message_65 |-> message_65, kind_isolation |-> kind_isolation, unrelated |->
   unrelated, immediate_dim |-> immediate_dim, immediate_read |-> immediate_read, overflow_coexist |-> overflow_coexist,
   overflow_exhaustion |-> overflow_exhaustion, edit_keeps |-> edit_keeps, immediate_keeps |-> immediate_keeps,
   program_load_keeps |-> program_load_keeps, failed_program_load |-> failed_program_load, new_clears |-> new_clears, d8_scalars
   |-> d8_scalars, d8_strings |-> d8_strings, d8_pkg |-> d8_pkg, d8_symbols |-> d8_symbols, clear_keeps |-> clear_keeps,
   clear_redim |-> clear_redim, clear_ordinary |-> clear_ordinary, clear_ordinary_read |-> clear_ordinary_read, d12_num_repeat
   |-> d12_num_repeat, d12_str_repeat |-> d12_str_repeat, arr_nested_kind |-> arr_nested_kind, d12_overflow |-> d12_overflow,
   d13_numeric |-> d13_numeric, d13_string |-> d13_string, d13_plain_load |-> d13_plain_load, d13_roundtrip |-> d13_roundtrip,
   save_from_store |-> save_from_store, save_unknown |-> save_unknown, save_after_edit |-> save_after_edit, d15_ctl_num |->
   d15_ctl_num, d15_ctl_str |-> d15_ctl_str, d15 |-> d15, d15_boundary |-> d15_boundary, d15_short |-> d15_short, d15_long |->
   d15_long, d15_large |-> d15_large, d16 |-> d16, d16_ok |-> d16_ok, replace_middle |-> replace_middle, replace_sizes |->
   replace_sizes, replace_kind |-> replace_kind, compact_run |-> compact_run, failed_replace |-> failed_replace, failed_dropout
   |-> failed_dropout, full_header |-> full_header, full_name31 |-> full_name31, full_body |-> full_body, exact_fit |->
   exact_fit, replace_full |-> replace_full, replace_larger_fits |-> replace_larger_fits, oversize |-> oversize,
   replace_full_damaged |-> replace_full_damaged, load_near_full_program |-> load_near_full_program, load_longer_than_pool |->
   load_longer_than_pool, seg2_7k_roundtrip |-> seg2_7k_roundtrip, mode1_interlock |-> mode1_interlock, mode1_dim_limit |->
   mode1_dim_limit, free1_size |-> free1_size, store_at_limit |-> store_at_limit]
=============================================================================
