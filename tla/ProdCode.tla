------------------------------- MODULE ProdCode -------------------------------
(***************************************************************************)
(* The CODE suite (v2_prod_code.py): SAVE, LOAD and VERIFY of a range of    *)
(* memory.  A case is true when it passes.                                  *)
(***************************************************************************)
EXTENDS Production

START == 30720
N == 256
DATA == [i \in 0 .. N - 1 |-> (i * 29 + 7) % 256]
ZEROS == [i \in 0 .. N - 1 |-> 0]
PROG == <<let("x", n(1)), let("y", plus(v("x"), n(1)))>>

\* A CODE tape as the ROM writes it, of data that starts at the given address.
code_tape(name, data, start) == SaveCode(wipe(Boot, start, data), name, start, Cardinality(DOMAIN data), 0).tape
saved_blob == code_tape("BLOB", DATA, START)
bytes_at(m, at) == [i \in 0 .. N - 1 |-> IF at + i \in DOMAIN m.ram THEN m.ram[at + i] ELSE 0]
load_code(m, tape, name, at) == LoadCode(m, tape, name, at, 0)
\* The session's machine: a program run, one stored array, the mode package.
ENTRY == <<numeric("q", nums(<<5, 6>>))>>
SESSION == run_prog(set_store(install(Boot, "mode"), ENTRY), PROG)
kept(m) == m.prog = PROG /\ m.store = ENTRY /\ m.registry = <<"MODE", "ULAPLUS", "PALETTE">>

save_header ==
  LET h == head_of(saved_blob) IN
  /\ Len(saved_blob) = 2 /\ saved_blob[1].flag = 0 /\ saved_blob[2].flag = 255
  /\ <<h.type, h.name, h.length, h.word, h.proglen>> = <<CODE_TYPE, "BLOB", N, FORMAT, START>>
  /\ saved_blob[2].data[2] = sparse(DATA)
roundtrip ==
  LET r == load_code(wipe(SESSION, START, ZEROS), saved_blob, "BLOB", 0).m IN
  SESSION.sess /\ r.msg = "LOADED" /\ bytes_at(r, START) = DATA /\ ~r.sess /\ kept(r)
load_other_start ==
  LET other == START + 512
      r == load_code(wipe(wipe(Boot, START, ZEROS), other, ZEROS), saved_blob, "BLOB", other).m
  IN  r.msg = "LOADED" /\ bytes_at(r, other) = DATA /\ bytes_at(r, START) = ZEROS

\* VERIFYs one after another, each after a change of one byte or none: the messages, each machine kept.
bumped(m, i) == [m EXCEPT !.ram[START + i] = (@ + 128) % 256]
verify ==
  LET a == VerifyCode(wipe(Boot, START, DATA), saved_blob \o saved_blob, "BLOB", 0, 0)
      bad == bumped(a.m, 100)
      b == VerifyCode(bad, a.tape, "BLOB", 0, 0)
  IN  <<a.m.msg, b.m.msg>> = <<"VERIFIED", "VERIFY_FAILED">> /\ bytes_at(b.m, START) = bytes_at(bad, START)
verify_keeps_session ==
  LET a == VerifyCode(wipe(SESSION, START, DATA), saved_blob \o saved_blob, "BLOB", 0, 0)
      bad == bumped(a.m, 7)
      b == VerifyCode(bad, a.tape, "BLOB", 0, 0)
      c == VerifyCode(b.m, b.tape, "BLOB", 0, 0)   \* the tape has run out
  IN  /\ <<a.m.msg, b.m.msg, c.m.msg>> = <<"VERIFIED", "VERIFY_FAILED", "VERIFY_FAILED">>
      /\ \A m \in {a.m, b.m, c.m} : m.sess /\ kept(m)
      /\ bytes_at(c.m, START) = bytes_at(bad, START)
verify_empty_name ==
  LET a == VerifyCode(put_store(Boot, PROG), program_file("PROG", <<let("k", n(1))>>), "", 0, 0)
      b == Load(a.m, a.tape, "PROG")
  IN  a.m.msg = "SYNTAX" /\ b.m.msg = "LOADED" /\ b.m.prog = <<let("k", n(1))>>
type_isolation ==
  LET a == Load(put_store(Boot, PROG), saved_blob, "BLOB").m
      b == load_code(wipe(Boot, START, ZEROS), program_file("PROG", <<let("k", n(1))>>), "PROG", START).m
  IN  a.msg = "LOAD_FAILED" /\ a.prog = PROG /\ b.msg = "LOAD_FAILED" /\ bytes_at(b, START) = ZEROS
\* 65400 + 256 passes 65536; a block that ends exactly there fits.
too_long ==
  LET top == [i \in 0 .. 15 |-> DATA[i]]
      a == load_code(Boot, code_tape("HIGH", DATA, 65400), "HIGH", 0).m
      b == load_code(Boot, saved_blob, "BLOB", 65400).m
      c == load_code(Boot, code_tape("TOP", top, 65520), "TOP", 0).m
  IN  <<a.msg, b.msg, c.msg>> = <<"LOAD_FAILED", "LOAD_FAILED", "LOADED">> /\ a.ram = Boot.ram /\ b.ram = Boot.ram
      /\ \A i \in 0 .. 15 : c.ram[65520 + i] = DATA[i]
bad_version ==
  LET r == load_code(wipe(Boot, START, ZEROS), worded(saved_blob, <<130, 0>>), "BLOB", 0).m IN
  r.msg = "BAD_VERSION" /\ bytes_at(r, START) = ZEROS

cases ==
  [save_header |-> save_header, roundtrip |-> roundtrip, load_other_start |-> load_other_start, verify |-> verify,
   verify_keeps_session |-> verify_keeps_session, verify_empty_name |-> verify_empty_name, type_isolation |-> type_isolation,
   too_long |-> too_long, bad_version |-> bad_version]
=============================================================================
