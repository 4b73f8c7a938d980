----------------------------- MODULE ProdSaveAll -----------------------------
(***************************************************************************)
(* The SAVE ... ALL suite (v2_saveall_checks.py): what a session's tape     *)
(* brings back on a fresh machine, and what a LOAD or a VERIFY refuses.  A  *)
(* case is true when it passes.                                             *)
(***************************************************************************)
EXTENDS Production

PROG ==
  <<let("x", n(5)), let("y$", n(5)), let("z", n(2)), dims("a", 4), set("a", n(2), n(77)), dim_str("s", 3, 32),
    set_str("s", n(1), n(3)), let("big", n(40000)), END, label("again"), let("x", plus(v("x"), n(1)))>>
IMM == <<<<let("w", n(9))>>, <<let("t$", n(3))>>>>
BIGPROG == <<dims("big", 3600), dims("o", 900), set("o", n(899), n(31)), dims("b", 5), set("b", n(3), n(12))>>

(* A session and its tape. *)
session(m, prog, immediates) == typed_all(run_prog(m, prog), immediates)
session_save(prog, immediates) == SaveAll(session(Boot, prog, immediates), "ALLT", 0)
tape_of(prog, immediates) == session_save(prog, immediates).tape
load(m, tape) == Load(m, tape, "ALLT").m
verify_with(tape, prog, immediates) == Verify(session(Boot, prog, immediates), tape, "ALLT").m

\* Block 1 with other cells: as a damaged byte leaves it, and with its CRC computed again (refresh_crc).
rewritten(tape, x) == [tape EXCEPT ![2] = [@ EXCEPT !.data = <<"all", x>>]]
cells(tape) == tape[2].data[2]
refreshed(tape, x) == rewritten(tape, sealed(x))
other_rom(tape) == refreshed(tape, [cells(tape) EXCEPT !.rom = <<"another", <<>>>>])
\* Block 2 with another store in it, its transport checksum good.
flipped(tape) == [tape EXCEPT ![3] = [@ EXCEPT !.data = <<"segment2", [@[2] EXCEPT !.store = <<numeric("f", A5)>>]>>]]
one_block(tape) == SubSeq(tape, 1, 2)
PREPARED == set_store(Boot, <<numeric("q", nums(<<5, 6>>))>>)

sa_roundtrip ==
  LET s == session_save(PROG, IMM)  m == load(Boot, s.tape) IN
  /\ s.m.msg = "SAVED" /\ head_of(s.tape).proglen < s.tape[2].len /\ m.msg = "LOADED" /\ m.prog = PROG
  /\ vals(m, <<"x", "w", "z", "big">>) = <<5, 9, 2, 40000>> /\ num_of(m, plus(v("y$"), v("t$"))) = 8
  /\ num_of(m, plus(a_("a", n(2)), len_("s", n(1)))) = 80 /\ val(typed(m, <<goto("again")>>), "x") = 6
sa_plain ==
  LET s == SaveProgram(session(Boot, PROG, IMM), "ALLT", 0)  m == load(Boot, s.tape) IN
  s.m.msg = "SAVED" /\ head_of(s.tape).proglen = s.tape[2].len /\ m.msg = "LOADED" /\ num_of(m, v("x")) = 0
sa_store ==
  LET m == load(Boot, tape_of(BIGPROG, <<<<dims("m", 2)>>, <<set("m", n(1), n(4))>>>>)) IN
  m.msg = "LOADED" /\ <<num_of(m, a_("o", n(899))), num_of(m, a_("b", n(3))), num_of(m, a_("m", n(1)))>> = <<31, 12, 4>>
sa_no_session ==
  LET s == SaveAll(put_store(Boot, <<let("x", n(5))>>), "ALLT", 0)  m == load(Boot, s.tape) IN
  s.m.msg = "SAVED" /\ m.msg = "LOADED" /\ num_of(m, v("x")) = 0
sa_verify ==
  LET m == verify_with(tape_of(PROG, IMM), PROG, IMM) IN m.msg = "VERIFIED" /\ num_of(m, plus(v("x"), v("w"))) = 14

(* Block 1 is refused whole, or its program only is loaded. *)
no_variables(m, prog) == m.msg = "NO_VARS" /\ m.prog = prog
sa_crc ==
  LET t == tape_of(PROG, IMM)
      m == load(Boot, rewritten(t, [cells(t) EXCEPT !.vars["x"] = 4]))
  IN  m.msg = "LOAD_FAILED" /\ m.prog = <<>>
sa_other_rom ==
  LET m == load(Boot, other_rom(tape_of(PROG, IMM))) IN no_variables(m, PROG) /\ num_of(m, v("x")) = 0
sa_bad_chain ==
  LET prog == <<dims("b", 5), set("b", n(1), n(3))>>
      t == tape_of(prog, <<>>)
      m == load(Boot, refreshed(t, [cells(t) EXCEPT !.end2 = SEG2_SIZE + 1]))
  IN  m.msg = "NO_VARS" /\ pas_end(m) = 0
sa_bad_pointer ==
  LET t == tape_of(<<dims("a", 4), set("a", n(1), n(3))>>, <<>>) IN
  load(Boot, refreshed(t, [cells(t) EXCEPT !.arr[<<"a", 2>>].at = "screen"])).msg = "NO_VARS"
sa_package_mismatch ==
  LET prog == <<let("x", n(4)), <<"CIRCLE", 10>>>>
      s == SaveAll(session(install(Boot, "shapes"), prog, <<>>), "ALLT", 0)
  IN  s.m.msg = "SAVED" /\ no_variables(load(Boot, s.tape), prog)
sa_package_same ==
  LET prog == <<let("x", n(4)), END, label("dot"), <<"CIRCLE", 20>>>>
      s == SaveAll(session(install(Boot, "shapes"), prog, <<>>), "ALLT", 0)
      m == load(install(Boot, "shapes"), s.tape)
  IN  m.msg = "LOADED" /\ num_of(m, v("x")) = 4 /\ typed(m, <<goto("dot")>>).ve = 0
sa_seg2_7k ==
  LET s == session_save(<<dims("p", 4000), dim_str("s", 100, 70), set_str("s", n(1), n(5)), set_str("s", n(99), n(8)), set("p", n(3999), n(9))>>, <<>>)
      m == load(Boot, s.tape)
  IN  /\ s.m.msg = "SAVED" /\ s.tape[3].len >= 7000 /\ m.msg = "LOADED" /\ m.end2 > MODE1_SIZE
      /\ <<num_of(m, len_("s", n(1))), num_of(m, len_("s", n(99))), num_of(m, a_("p", n(3999)))>> = <<5, 8, 9>>

(* Two blocks. *)
sa_two_blocks ==
  LET m == session(Boot, BIGPROG, <<>>)
      s == SaveAll(m, "ALLT", 0)
      h == head_of(s.tape)
  IN  /\ s.m.msg = "SAVED" /\ [i \in 1 .. 3 |-> s.tape[i].flag] = <<0, 255, 255>>
      /\ s.tape[3].data[2] = segment2(m) /\ s.tape[3].len = m.end2 /\ m.end2 > 0 /\ h.length = s.tape[2].len
      /\ cells(s.tape).seg2 = segment2(m) /\ cells(s.tape).crc = digest(cells(s.tape)) /\ h.word = FORMAT /\ h.proglen < s.tape[2].len
\* SPACE in the silence between the blocks.
sa_gap_space ==
  LET s == SaveAll(session(Boot, PROG, <<>>), "ALLT", 3) IN
  s.m.msg = "ABORTED" /\ Len(s.tape) = 2 /\ num_of(s.m, plus(v("x"), n(1))) = 6
sa_minor_rules ==
  LET t == one_block(tape_of(PROG, IMM)) IN
  /\ no_variables(load(Boot, worded(other_rom(t), older(FORMAT))), PROG)
  /\ load(Boot, worded(t, newer(FORMAT))).msg = "BAD_VERSION"
sa_other_rom_keeps_store ==
  LET m == load(PREPARED, other_rom(tape_of(BIGPROG, <<>>))) IN m.msg = "NO_VARS" /\ m.store = PREPARED.store
block2_failure(tape) == LET m == load(PREPARED, tape) IN no_variables(m, BIGPROG) /\ pas_end(m) = 0
sa_block2_crc == block2_failure(flipped(tape_of(BIGPROG, <<>>)))
sa_block2_parity == block2_failure(cut(tape_of(BIGPROG, <<>>), 3, "late"))
sa_block2_missing == block2_failure(one_block(tape_of(BIGPROG, <<>>)))
sa_verify_block2 ==
  LET t == tape_of(BIGPROG, <<>>) IN
  \A tape \in {flipped(t), one_block(t)} :
    LET m == verify_with(tape, BIGPROG, <<>>) IN m.msg = "VERIFY_FAILED" /\ num_of(m, a_("o", n(899))) = 31
sa_verify_block2_ok ==
  LET t == tape_of(BIGPROG, <<>>)  m == verify_with(t, BIGPROG, <<>>) IN
  t[3].len > 0 /\ m.msg = "VERIFIED" /\ num_of(m, a_("o", n(899))) = 31
\* The tape's entries replace the store present before the LOAD.
sa_store_entries ==
  LET S == numeric("s", nums(<<10, 20, 30>>))
      s == SaveAll(session(set_store(Boot, <<S>>), <<dims("s", 3), set("s", n(2), plus(a_("s", n(1)), n(69)))>>, <<>>), "ALLT", 0)
      m == load(PREPARED, s.tape)
  IN  m.msg = "LOADED" /\ pas_end(m) = S.size /\ num_of(m, a_("s", n(2))) = 89 /\ get(m.store[1].body, 2) = 89

cases ==
  [sa_roundtrip |-> sa_roundtrip, sa_plain |-> sa_plain, sa_store |-> sa_store, sa_no_session |-> sa_no_session, sa_verify |-> sa_verify,
   sa_crc |-> sa_crc, sa_other_rom |-> sa_other_rom, sa_bad_chain |-> sa_bad_chain, sa_bad_pointer |-> sa_bad_pointer,
   sa_package_mismatch |-> sa_package_mismatch, sa_package_same |-> sa_package_same, sa_seg2_7k |-> sa_seg2_7k,
   sa_two_blocks |-> sa_two_blocks, sa_gap_space |-> sa_gap_space, sa_minor_rules |-> sa_minor_rules,
   sa_other_rom_keeps_store |-> sa_other_rom_keeps_store, sa_block2_crc |-> sa_block2_crc, sa_block2_parity |-> sa_block2_parity,
   sa_block2_missing |-> sa_block2_missing, sa_verify_block2 |-> sa_verify_block2, sa_verify_block2_ok |-> sa_verify_block2_ok,
   sa_store_entries |-> sa_store_entries]
=============================================================================
