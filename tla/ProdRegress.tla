----------------------------- MODULE ProdRegress -----------------------------
(***************************************************************************)
(* The production regression suite (v2_prod_regress.py): what a LOAD or a   *)
(* VERIFY of every kind of bad tape leaves, SAVE, the packages.  A case is  *)
(* true when it passes.                                                     *)
(***************************************************************************)
EXTENDS Production

PROG == <<let("x", n(1)), let("y", n(2)), let("z", plus(v("x"), v("y"))), let("w", times(v("z"), n(2))), let("q", plus(v("w"), n(1)))>>
OLD == <<let("a", n(7)), let("b", n(8)), let("c", plus(v("a"), v("b"))), let("d", times(v("c"), n(3))), let("e", plus(v("d"), n(9)))>>
TEST == program_file("TEST", PROG)
loads(tape) == tape_op(tape, OLD, FALSE)
verifies(tape) == tape_op(tape, PROG, TRUE)
lost(tape, msg) == LET r == loads(tape) IN r.msg = msg /\ empty(r)
kept(tape, msg) == LET r == loads(tape) IN r.msg = msg /\ intact(r)
differs(tape) == LET r == verifies(tape) IN r.msg = "VERIFY_FAILED" /\ intact(r)

tape_load_ok == LET r == loads(TEST) IN r.msg = "LOADED" /\ r.m.prog = PROG

(* D1: a failure before the first stored byte leaves the program, one after it none. *)
d1_dropout == lost(dropout(TEST, 20), "LOAD_FAILED")
d1_truncated == lost(truncated(TEST, 24), "LOAD_FAILED")
d1_flag == kept(flagged(TEST, 0), "LOAD_FAILED")
d1_dropout_early == kept(dropout(TEST, 0), "LOAD_FAILED")
d1_checksum == lost(bad_checksum(TEST), "LOAD_FAILED")
d1_space == lost(cut(TEST, 2, "held"), "ABORTED")
d1_space_header == kept(cut(TEST, 1, "space"), "ABORTED")
d1_recovers ==
  LET r == loads(truncated(TEST, 24) \o TEST)
      s == Load(r.m, r.tape, "TEST")
  IN  r.msg = "LOAD_FAILED" /\ empty(r) /\ s.m.msg = "LOADED" /\ s.m.prog = PROG
d1_wrong_name == kept(program_file("OTHER", PROG), "LOAD_FAILED")
d1_wrong_type == kept(of_type(TEST, EXTENSION), "LOAD_FAILED")
d1_header_truncated == kept(SubSeq(cut(TEST, 1, "late"), 1, 1), "LOAD_FAILED")

(* D2: VERIFY compares everything and changes nothing. *)
d2_identical == LET r == verifies(TEST) IN r.msg = "VERIFIED" /\ intact(r)
d2_mismatch == differs(program_file("TEST", OLD))
d2_last_byte == differs(program_file("TEST", [PROG EXCEPT ![5] = let("q", plus(v("w"), n(0)))]))
d2_checksum == differs(bad_checksum(TEST))
d2_truncated == differs(truncated(TEST, 24))
d2_dropout == differs(dropout(TEST, 20))
d2_shorter == differs(program_file("TEST", SubSeq(PROG, 1, 3)))
d2_longer == LET r == tape_op(TEST, SubSeq(PROG, 1, 3), TRUE) IN r.msg = "VERIFY_FAILED" /\ intact(r)
d2_wrong_type == differs(of_type(TEST, EXTENSION))
d2_wrong_name == differs(program_file("OTHER", PROG))
d2_space == LET r == verifies(cut(TEST, 2, "held")) IN r.msg = "ABORTED" /\ intact(r)

(* SAVE. *)
saves(space) == SaveProgram(put_store(Boot, PROG), "PROG", space)
save_header ==
  LET s == saves(0)  h == head_of(s.tape) IN
  /\ [i \in DOMAIN s.tape |-> s.tape[i].flag] = <<0, 255>>
  /\ <<h.type, h.name, h.length, h.word>> = <<PROGRAM, "PROG", size(PROG), FORMAT>>
  /\ s.tape[2].data = <<"text", PROG>> /\ s.m.msg = "SAVED"
save_space_header == LET s == saves(1) IN s.m.msg = "ABORTED" /\ Len(s.tape) = 1
save_space_data == LET s == saves(2) IN s.m.msg = "ABORTED" /\ Len(s.tape) = 2 /\ s.tape[2].cut # "no"

(* Packages. *)
pkg_run(p, prog) == errors(run_prog(install(Boot, p), prog))
pkg_sprite ==
  /\ pkg_run("sprite", <<<<"GRAB", 0>>, <<"SHOW", 0>>, <<"MOVE", 0>>, <<"HIDE", 0>>>>) = <<0, 0>>
  /\ pkg_run("sprite", <<<<"SHOW", 1>>>>)[2] = 17 /\ pkg_run("sprite", <<<<"GRAB", 9>>>>)[2] = 15
pkg_mode_errors ==
  [i \in 1 .. 3 |-> pkg_run("mode", <<<<<<"MODE", 5>>, <<"ULAPLUS", 3>>, <<"PALETTE", 64>>>>[i]>>)[2]] = <<12, 13, 14>>
pkg_mode_return ==
  LET m == run_prog(install(Boot, "mode"), <<<<"MODE", 1>>, <<"MODE", 0>>>>) IN errors(m) = <<0, 0>> /\ m.mode = 0
pkg_printer == install(Boot, "printer").registry = <<"LPRINT", "LPRINT$", "LLIST">>
pkg_new ==
  LET m == install(Boot, "shapes") IN m.registry = <<"CIRCLE", "FILL">> /\ New(m).registry = <<>> /\ New(m).package.len = 0

\* No package is left.
uninstalled(m) == m.registry = <<>> /\ m.package.len = 0
pkg_load(tape, name) == LoadPackage(Boot, tape, name).m
abi_pkg_tape_ok ==
  LET m == pkg_load(package_tape("SHAPES", "shapes"), "SHAPES")
      r == run_prog(m, <<<<"CIRCLE", 128>>, <<"FILL", 128>>>>)
  IN  m.msg = "LOADED" /\ m.registry = <<"CIRCLE", "FILL">> /\ m.package = built("shapes") /\ errors(r) = <<0, 0>>
d1_pkg_truncated ==
  LET m == pkg_load(truncated(package_tape("SHAPES", "shapes"), 200), "SHAPES") IN m.msg = "LOAD_FAILED" /\ uninstalled(m)
d1_pkg_space ==
  LET m == pkg_load(cut(package_tape("SHAPES", "shapes"), 2, "held"), "SHAPES") IN m.msg = "ABORTED" /\ uninstalled(m)
\* Header words of a package tape, and of a program tape, that this ROM refuses.
PKG_WORDS == {<<0, 1>>, <<0, 0>>, <<131, 0>>, newer(ABI), <<2, 0>>, <<129, 0>>}
PROG_WORDS == {<<128, 0>>, <<0, 0>>, <<130, 0>>, newer(FORMAT), <<1, 0>>}
mk_reject_pkg ==
  \A w \in PKG_WORDS :
    LET m == pkg_load(worded(package_tape("SHAPES", "shapes"), w), "SHAPES") IN m.msg = "BAD_VERSION" /\ uninstalled(m)
mk_reject_prog ==
  \A w \in PROG_WORDS : \A verify \in BOOLEAN :
    LET r == tape_op(worded(TEST, w), OLD, verify) IN r.msg = "BAD_VERSION" /\ intact(r)
abi_prog_older_minor == LET r == loads(worded(TEST, older(FORMAT))) IN r.msg = "LOADED" /\ r.m.prog = PROG
abi_save_program == LET s == saves(0) IN <<head_of(s.tape).type, head_of(s.tape).word>> = <<PROGRAM, FORMAT>> /\ s.m.msg = "SAVED"
abi_save_package ==
  LET s == SavePackage(install(Boot, "shapes"), "SH", 0) IN
  /\ <<head_of(s.tape).type, head_of(s.tape).word>> = <<EXTENSION, ABI>>
  /\ s.tape[2].data = <<"package", built("shapes")>> /\ s.m.msg = "SAVED"
abi_roundtrip == LET r == loads(SaveProgram(put_store(Boot, PROG), "TEST", 0).tape) IN r.msg = "LOADED" /\ r.m.prog = PROG
abi_pkg_roundtrip ==
  LET m == pkg_load(SavePackage(install(Boot, "mode"), "MD", 0).tape, "MD") IN
  m.msg = "LOADED" /\ m.registry = <<"MODE", "ULAPLUS", "PALETTE">> /\ run_prog(m, <<<<"MODE", 5>>>>).ve = 12

cases ==
  [tape_load_ok |-> tape_load_ok, d1_dropout |-> d1_dropout, d1_truncated |-> d1_truncated, d1_flag |-> d1_flag,
   d1_dropout_early |-> d1_dropout_early, d1_checksum |-> d1_checksum, d1_space |-> d1_space, d1_space_header |-> d1_space_header,
   d1_recovers |-> d1_recovers, d1_wrong_name |-> d1_wrong_name, d1_wrong_type |-> d1_wrong_type,
   d1_header_truncated |-> d1_header_truncated, d2_identical |-> d2_identical, d2_mismatch |-> d2_mismatch,
   d2_last_byte |-> d2_last_byte, d2_checksum |-> d2_checksum, d2_truncated |-> d2_truncated, d2_dropout |-> d2_dropout,
   d2_shorter |-> d2_shorter, d2_longer |-> d2_longer, d2_wrong_type |-> d2_wrong_type, d2_wrong_name |-> d2_wrong_name,
   d2_space |-> d2_space, save_header |-> save_header, save_space_header |-> save_space_header, save_space_data |-> save_space_data,
   pkg_sprite |-> pkg_sprite, pkg_mode_errors |-> pkg_mode_errors, pkg_mode_return |-> pkg_mode_return, pkg_printer |-> pkg_printer,
   pkg_new |-> pkg_new, abi_pkg_tape_ok |-> abi_pkg_tape_ok, d1_pkg_truncated |-> d1_pkg_truncated, d1_pkg_space |-> d1_pkg_space,
   mk_reject_pkg |-> mk_reject_pkg, mk_reject_prog |-> mk_reject_prog, abi_prog_older_minor |-> abi_prog_older_minor,
   abi_save_program |-> abi_save_program, abi_save_package |-> abi_save_package, abi_roundtrip |-> abi_roundtrip,
   abi_pkg_roundtrip |-> abi_pkg_roundtrip]
=============================================================================
