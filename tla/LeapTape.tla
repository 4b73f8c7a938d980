------------------------------- MODULE LeapTape -------------------------------
(***************************************************************************)
(* SAVE, LOAD and VERIFY of the production machine.  A tape is a sequence   *)
(* of blocks; a block that is damaged, or during which SPACE is held, says  *)
(* so in cut.  A CRC is the data it is computed over: two are equal when    *)
(* the data is.                                                             *)
(***************************************************************************)
EXTENDS LeapMachine

CONSTANTS
  ZONE, OPS,  \* bytes of the compile zone, and of a statement's bytecode (an average)
  TAIL,       \* bytes of the session's cells and the three CRCs
  WINDOW      \* bytes of the package window

ASSUME TapeAssumption == {ZONE, OPS, WINDOW} \subseteq Nat /\ TAIL \in Nat \ {0}

ATTEMPTS == 15
FORMAT == <<129, 1>>      \* the version words, <<high byte, minor>>
ABI == <<130, 1>>
PROGRAM == 0
CODE_TYPE == 3
EXTENSION == 4
ARRAY == 8
word(type) == IF type = EXTENSION THEN ABI ELSE FORMAT

-----------------------------------------------------------------------------
(* Blocks.  cut: "no", or what ends the block before it is whole: "early" before its first byte is   *)
(* stored, "late" after, "space" and "held" the same with SPACE down.                               *)

block(flag, data, len) == [flag |-> flag, data |-> data, len |-> len, cut |-> "no"]
header(type, name, len, proglen) ==
  block(0, <<"header", [type |-> type, name |-> name, length |-> len, word |-> word(type), proglen |-> proglen]>>, 17)
file(type, name, data, len, proglen) == <<header(type, name, len, proglen), block(255, data, len)>>
program_file(name, prog) == file(PROGRAM, name, <<"text", prog>>, size(prog), size(prog))
array_file(name, b) == file(ARRAY, name, <<"array", b>>, b.len, b.len)
package_file(name, p) == file(EXTENSION, name, <<"package", p>>, p.len, p.len)

Early == {"early", "space"}
Pressed == {"space", "held"}

NoHeader == [type |-> -1, name |-> "", length |-> 0, word |-> <<0, 0>>, proglen |-> 0]
outcome(class, abort, h, data, tape) == [class |-> class, abort |-> abort, header |-> h, data |-> data, tape |-> tape]
failure(class, b, tape) == outcome(class, b.cut \in Pressed, NoHeader, <<"none">>, tape)
Silence == [block(0, <<"none">>, 0) EXCEPT !.cut = "early"]
rest(tape) == IF tape = <<>> THEN <<>> ELSE Tail(tape)

\* What a LOAD asks STORAGE_LOAD for; start is CODE's (0: the tape's), max 0 "up to the end of memory".
request(type, name, max, start, verify) == [type |-> type, name |-> name, max |-> max, start |-> start, verify |-> verify]
\* The empty name is any program's.
named(q, h) == h.type = q.type /\ (h.name = q.name \/ (q.name = "" /\ q.type = PROGRAM))
destination(q, h) == IF q.start = 0 /\ q.max = 0 THEN h.proglen ELSE q.start
bound(q, h) ==
  IF q.type # CODE_TYPE \/ q.max # 0 THEN q.max
  ELSE IF destination(q, h) = 0 THEN 65535 ELSE 65536 - destination(q, h)

\* The header search: a block that is no whole header, or another file's, costs an attempt; SPACE ends it.
wanted(b, q) == b.cut = "no" /\ b.flag = 0 /\ b.data[1] = "header" /\ named(q, b.data[2])
seek(tape, q) ==
  LET last == Min({ATTEMPTS, Len(tape)})
      stops == {i \in 1 .. last : tape[i].cut \in Pressed \/ wanted(tape[i], q)}
      i == Min(stops)
  IN  IF stops = {} THEN [found |-> FALSE, block |-> Silence, tape |-> SubSeq(tape, last + 1, Len(tape))]
      ELSE [found |-> wanted(tape[i], q), block |-> tape[i], tape |-> SubSeq(tape, i + 1, Len(tape))]

\* One data block of len bytes: "ok", or how it failed.
received(tape, len) ==
  IF tape = <<>> THEN "early"
  ELSE LET b == Head(tape) IN
       IF b.flag # 255 THEN "early" ELSE IF b.cut # "no" THEN b.cut ELSE IF b.len # len THEN "late" ELSE "ok"

\* STORAGE_LOAD: the header, then the data block.  "clean": nothing was stored; "touched": some of the
\* destination was; "version", "long": the file is refused by its header.
storage_load(tape, q) ==
  LET s == seek(tape, q)
      h == s.block.data[2]
      got == received(s.tape, h.length)
  IN  IF ~s.found THEN failure("clean", s.block, s.tape)
      ELSE IF h.word[1] # word(q.type)[1] \/ h.word[2] > word(q.type)[2] THEN failure("version", Silence, s.tape)
      ELSE IF h.length > bound(q, h) THEN failure("long", Silence, s.tape)
      ELSE IF got = "ok" THEN outcome("ok", FALSE, h, Head(s.tape).data, Tail(s.tape))
      ELSE failure(IF q.verify \/ got \in Early THEN "clean" ELSE "touched",
                   IF s.tape = <<>> THEN Silence ELSE Head(s.tape), rest(s.tape))

\* A machine and what is left of its tape.
on(m, tape) == [m |-> m, tape |-> tape]
\* What a failure is called.
reason(r, what) == CASE r.class = "version" -> "BAD_VERSION" [] r.abort -> "ABORTED" [] OTHER -> what

-----------------------------------------------------------------------------
(* SAVE *)

\* SPACE goes down during stage space of the file (0: not at all): the blocks sent, the aborted one in part.
\* The third stage of a SAVE ... ALL is the gap.
sent(m, blocks, space) ==
  LET whole == CASE space = 0 -> Len(blocks) [] space > 2 -> 2 [] OTHER -> space - 1
      part == IF space \in {0, 3} THEN <<>> ELSE <<[blocks[whole + 1] EXCEPT !.cut = "late"]>>
  IN  on(show(m, IF space = 0 THEN "SAVED" ELSE "ABORTED"), SubSeq(blocks, 1, whole) \o part)

\* What the image's CRCs are computed over.
digest(x) == <<x.prog, x.vars, x.decl, x.arr, x.arena, x.end2, x.pas, x.chain, x.seg2, x.rom>>
sealed(x) == [x EXCEPT !.crc = digest(x)]
identity(m) == <<"rom", m.registry>>
\* Block 2: what lies below segment 2's end, nothing in a refused session.
segment2(m) ==
  IF unfit(m) THEN [store |-> <<>>, over |-> Boot.arr]
  ELSE [store |-> m.store, over |-> [k \in placed(m, "seg2") |-> m.arr[k].body]]
\* In the image an array of segment 2 is its place only; the chain: each address of the session at most the next.
pointers(m) == [k \in DOMAIN m.arr |-> IF m.arr[k].at = "pool" THEN m.arr[k] ELSE [m.arr[k] EXCEPT !.body = Stored.body]]
image(m) ==
  sealed([prog |-> m.prog, vars |-> m.vars, decl |-> m.decl, arr |-> pointers(m), arena |-> m.arena, end2 |-> m.end2,
          pas |-> bytes(m.store), chain |-> ~unfit(m), seg2 |-> segment2(m), rom |-> identity(m), crc |-> <<>>])
\* Program, symbols, arena; the tables, zone and bytecode moved down to it; the tail.
image_length(x) == pool_used(x) + ZONE + OPS * Len(x.prog) + TAIL
builds(m) == image_length(m) <= POOL + CODE    \* SA_BUILD's room
block1(m) == <<"all", image(m)>>
block2(m) == <<"segment2", segment2(m)>>

SaveProgram(m, name, space) == sent(m, program_file(name, m.prog), space)
SaveAll(m, name, space) ==
  LET s == ensure_session(m) IN
  IF ~s.sess THEN on(failed_compile(m, m.prog), <<>>)
  ELSE IF ~builds(s) THEN on(show(s, "NOMEM"), <<>>)
  ELSE sent(s, file(PROGRAM, name, block1(s), image_length(s), size(s.prog)) \o <<block(255, block2(s), s.end2)>>, space)
SavePackage(m, name, space) ==
  IF m.package.len = 0 THEN on(show(m, "NO_PACKAGE"), <<>>) ELSE sent(m, package_file(name, m.package), space)
\* V2_SAVE_ARRAY: the live array, else the stored one.
SaveArray(m, name, k, space) ==
  IF k \in DOMAIN m.arr THEN sent(m, array_file(name, body(m, k)), space)
  ELSE IF stored(m, k) # {} THEN sent(m, array_file(name, found(m, k).body), space)
  ELSE on(show(m, "ARRAY_NOT_DIMD"), <<>>)
\* SAVE ... CODE: the bytes that are not 0, from the start.
range(m, start, len) ==
  LET a == {i \in DOMAIN m.ram : i >= start /\ i < start + len /\ m.ram[i] # 0} IN [i \in {x - start : x \in a} |-> m.ram[i + start]]
SaveCode(m, name, start, len, space) ==
  IF len = 0 THEN on(show(m, "SYNTAX"), <<>>)
  ELSE sent(m, file(CODE_TYPE, name, <<"bytes", range(m, start, len)>>, len, start), space)

-----------------------------------------------------------------------------
(* LOAD of a program or a session *)

loaded(m) == show(m, "LOADED")
program_only(m, prog) == show([clear_arrays(m) EXCEPT !.prog = prog], "NO_VARS")
emptied(m) == show(mem_init(m), "LOAD_FAILED")
is_all(h) == h.proglen < h.length

\* SA_RESTORE's checks after the block's CRC: the identity, the chain of addresses, the partition, the pointers.
usable(m, r) ==
  LET x == r.data[2] IN
  /\ x.rom = identity(m)
  /\ x.chain /\ x.pas <= x.end2 /\ x.end2 <= SEG2
  /\ \A k \in DOMAIN x.arr : x.arr[k].at \in {"pool", "seg2", "store"}
  /\ r.header.length = image_length(x)

\* (Mutant of restored: the end of segment 2 is not among the cells.)
restored_end2(m, x, s) ==
  [m EXCEPT !.prog = x.prog, !.sess = TRUE, !.vars = x.vars, !.decl = x.decl, !.arena = x.arena, !.store = s.store,
            !.arr = [k \in DOMAIN x.arr |-> IF k \in DOMAIN s.over THEN [x.arr[k] EXCEPT !.body = s.over[k]] ELSE x.arr[k]]]
restored(m, x, s) ==
  [m EXCEPT !.prog = x.prog, !.sess = TRUE, !.vars = x.vars, !.decl = x.decl, !.arena = x.arena, !.end2 = x.end2, !.store = s.store,
            !.arr = [k \in DOMAIN x.arr |-> IF k \in DOMAIN s.over THEN [x.arr[k] EXCEPT !.body = s.over[k]] ELSE x.arr[k]]]
(* (Mutant of finish: the Array Store is kept whatever arrived.) *)
finish_keeping(m, x, tape) ==
  IF received(tape, x.end2) # "ok" THEN program_only(m, x.prog)
  ELSE IF Head(tape).data[2] # x.seg2 THEN program_only(m, x.prog)
  ELSE loaded(restored(m, x, Head(tape).data[2]))
\* Block 2 and SA_FINISH: segment 2 is received in place, so a failure empties the Array Store.
finish(m, x, tape) ==
  IF received(tape, x.end2) # "ok" THEN program_only([m EXCEPT !.store = <<>>], x.prog)
  ELSE IF Head(tape).data[2] # x.seg2 THEN program_only([m EXCEPT !.store = <<>>], x.prog)
  ELSE loaded(restored(m, x, Head(tape).data[2]))

\* (Mutant of restore: the block's CRC is not compared.)
restore_unchecked(m, r) ==
  IF usable(m, r) THEN on(finish(m, r.data[2], r.tape), rest(r.tape)) ELSE on(program_only(m, r.data[2].prog), r.tape)
\* SA_RESTORE of block 1, then block 2.
restore(m, r) ==
  LET x == r.data[2] IN
  IF r.header.length - r.header.proglen < TAIL THEN on(program_only(m, x.prog), r.tape)
  ELSE IF x.crc # digest(x) THEN on(emptied(m), r.tape)
  ELSE IF usable(m, r) THEN on(finish(m, x, r.tape), rest(r.tape)) ELSE on(program_only(m, x.prog), r.tape)

Load(m, tape, name) ==
  LET r == storage_load(tape, request(PROGRAM, name, POOL + CODE, 0, FALSE)) IN
  CASE r.class = "ok" /\ is_all(r.header) -> restore(m, r)
    [] r.class = "ok" /\ ~is_all(r.header) ->
         on(IF r.header.length > POOL THEN emptied(m) ELSE loaded([clear_arrays(m) EXCEPT !.prog = r.data[2]]), r.tape)
    [] r.class = "touched" -> on(show(mem_init(m), reason(r, "LOAD_FAILED")), r.tape)
    [] OTHER -> on(show(m, reason(r, "LOAD_FAILED")), r.tape)

-----------------------------------------------------------------------------
(* VERIFY *)

\* Memory from the program's start: its text; with a session that can be laid out, the image SAVE ... ALL sends.
matches(m, data) ==
  CASE data[1] = "text" -> IsPrefix(data[2], m.prog)
    [] data[1] = "all" -> m.sess /\ builds(m) /\ data = block1(m)
    [] OTHER -> FALSE

\* (Mutant of second: the second block is received, not compared.)
second_received(m, r) ==
  LET got == received(r.tape, m.end2) IN IF got \in Pressed THEN "ABORTED" ELSE IF got # "ok" THEN "VERIFY_FAILED" ELSE "VERIFIED"
\* V2_RECV_S against segment 2 in place.
second(m, r) ==
  LET got == received(r.tape, m.end2) IN
  IF got \in Pressed THEN "ABORTED" ELSE IF got # "ok" \/ Head(r.tape).data # block2(m) THEN "VERIFY_FAILED" ELSE "VERIFIED"
\* V2_VERIFY (whatever kind is asked for, but CODE): the tape is compared as it plays.
Verify(m, tape, name) ==
  LET r == storage_load(tape, request(PROGRAM, name, POOL + CODE, 0, TRUE)) IN
  IF r.class # "ok" THEN on(show(m, reason(r, "VERIFY_FAILED")), r.tape)
  ELSE IF ~matches(m, r.data) \/ r.header.proglen # size(m.prog) THEN on(show(m, "VERIFY_FAILED"), r.tape)
  ELSE IF is_all(r.header) THEN on(show(m, second(m, r)), rest(r.tape)) ELSE on(show(m, "VERIFIED"), r.tape)

-----------------------------------------------------------------------------
(* LOAD of an array, of a package and of a range of memory *)

\* The store once the entry of k, if there is one, is taken out and the gap closed.
without(s, k) == LET of == {i \in DOMAIN s : s[i].key = k} IN IF of = {} THEN s ELSE RemoveAt(s, Min(of))
old_size(m, k) == IF stored(m, k) = {} THEN 0 ELSE found(m, k).size
\* The room for the body: what the store has once the old entry is gone, and what the pool has.
room(m, k, n) == Min({SEG2 - 4 - n - (bytes(m.store) - old_size(m, k)), POOL + CODE - (size(m.prog) + 1 + 4 + n)})

\* (Mutant of LoadArray: the old entry goes as soon as there is room for the new one.)
load_array_eager(m, tape, name, k, n) ==
  LET c == clear_arrays(m)
      less == [c EXCEPT !.store = without(@, k)]
      r == storage_load(tape, request(ARRAY, name, room(c, k, n), 0, FALSE))
  IN  IF room(c, k, n) < 0 THEN on(show(c, "STORE_FULL"), tape)
      ELSE CASE r.class = "ok" -> on(IF valid(k[2], r.data[2]) THEN loaded([less EXCEPT !.store = @ \o <<entry(k, n, r.data[2])>>])
                                     ELSE show(less, "BAD_ARRAY"), r.tape)
             [] r.class = "long" -> on(show(less, "STORE_FULL"), r.tape)
             [] OTHER -> on(show(less, reason(r, "LOAD_FAILED")), r.tape)
\* V2_LOAD_ARRAY (n: the name's length): the session ends first; the new entry is received in the pool and
\* goes last in the store once it is valid.
LoadArray(m, tape, name, k, n) ==
  LET c == clear_arrays(m)
      r == storage_load(tape, request(ARRAY, name, room(c, k, n), 0, FALSE))
      new == [c EXCEPT !.store = without(@, k) \o <<entry(k, n, r.data[2])>>]
  IN  IF room(c, k, n) < 0 THEN on(show(c, "STORE_FULL"), tape)
      ELSE CASE r.class = "ok" -> on(IF valid(k[2], r.data[2]) THEN loaded(new) ELSE show(c, "BAD_ARRAY"), r.tape)
             [] r.class = "long" -> on(show(c, "STORE_FULL"), r.tape)
             [] OTHER -> on(show(c, reason(r, "LOAD_FAILED")), r.tape)

\* LOAD ... EXT: the session ends and the registry is cleared before the tape is looked for.
LoadPackage(m, tape, name) ==
  LET c == [m EXCEPT !.sess = FALSE, !.registry = <<>>]
      r == storage_load(tape, request(EXTENSION, name, WINDOW, 0, FALSE))
      p == r.data[2]
  IN  IF name = "" THEN on(show(m, "SYNTAX"), tape)
      ELSE IF r.class = "ok" /\ ~p.carry
      THEN on(loaded([c EXCEPT !.package = p, !.registry = p.words, !.grabbed = {}]), r.tape)
      ELSE on(show([c EXCEPT !.package = None], reason(r, "LOAD_FAILED")), r.tape)

\* LOAD ... CODE ends the session; a block that fails after its first byte leaves what it stored.
written(m, at, len, vals) ==
  LET new == {at + i : i \in DOMAIN vals}
      kept == {a \in DOMAIN m.ram : a < at \/ a >= at + len}
  IN  [m EXCEPT !.ram = [a \in new \cup kept |-> IF a \in new THEN vals[a - at] ELSE @[a]]]
LoadCode(m, tape, name, start, len) ==
  LET c == [m EXCEPT !.sess = FALSE]
      r == storage_load(tape, request(CODE_TYPE, name, len, start, FALSE))
      q == request(CODE_TYPE, name, len, start, FALSE)
  IN  IF name = "" THEN on(show(m, "SYNTAX"), tape)
      ELSE IF r.class = "ok" THEN on(loaded(written(c, destination(q, r.header), r.header.length, r.data[2])), r.tape)
      ELSE on(show(c, reason(r, "LOAD_FAILED")), r.tape)
VerifyCode(m, tape, name, start, len) ==
  LET q == request(CODE_TYPE, name, len, start, TRUE)
      r == storage_load(tape, q)
  IN  IF name = "" THEN on(show(m, "SYNTAX"), tape)
      ELSE IF r.class # "ok" THEN on(show(m, reason(r, "VERIFY_FAILED")), r.tape)
      ELSE on(show(m, IF r.data[2] = range(m, destination(q, r.header), r.header.length) THEN "VERIFIED" ELSE "VERIFY_FAILED"), r.tape)
=============================================================================
