----------------------------- MODULE BuildChecks ----------------------------
(***************************************************************************)
(* The static checks of `make check` that read the build or a source: the   *)
(* RAM layout and its aliases, the three built-in function tables, the runs *)
(* of bytes shared with a stock ROM, illegal or out-of-range instructions   *)
(* and the pre-flight check of BASIC programs.  A listing line, a source    *)
(* line and a BASIC line are records of what the check reads from them.     *)
(***************************************************************************)
EXTENDS Integers, Sequences, SequencesExt, FiniteSets, FiniteSetsExt, Functions

RECURSIVE closure(_, _)
None == "none"
Inside(a, lo, hi) == lo <= a /\ a < hi
Overlaps(a, n, lo, hi) == a < hi /\ lo < a + n

-----------------------------------------------------------------------------
(* check_ram_layout.py *)

\* Two symbol files: the first definition of a name counts.
symbols(home, exrom) ==
  [n \in DOMAIN home \cup DOMAIN exrom |-> IF n \in DOMAIN home THEN home[n] ELSE exrom[n]]

\* A listing line: [addr, skipped, emits, equ, names], equ the name defined or None.
deps(lines) ==
  [n \in {l.equ : l \in ToSet(lines)} |->
     UNION {l.names : l \in {x \in ToSet(lines) : x.equ = n /\ ~x.skipped}}]
closure(names, d) ==
  LET more == names \cup UNION {d[n] : n \in names \cap DOMAIN d} IN
  IF more = names THEN names ELSE closure(more, d)
\* (Mutant of referenced: the names in a definition are not followed.)
referencedDirectly(lines) ==
  UNION {l.names : l \in {x \in ToSet(lines) : x.equ = None /\ ~x.skipped /\ x.emits}}

referenced(lines) ==
  LET rom(l) == l.addr < 16384 \/ Inside(l.addr, 49152, 57344)
      used == UNION {l.names : l \in {x \in ToSet(lines) : x.equ = None /\ ~x.skipped /\ x.emits /\ rom(x)}}
      d == deps(lines)
  IN  closure(used, [n \in DOMAIN d \ {None} |-> d[n]])

POOL_BOUNDS == {"PROG_AREA_START", "V2_SOURCE_END", "VM_CODE_BASE", "V2_CODE_BASE", "V2_CODE_LIMIT"}
ZONE_CELLS == {"V2_ZONE_BASE", "V2_SOURCE_STAGE", "CHUNK_BUF", "CHUNK_NEXT_REC", "CHUNK_FILL_PTR",
               "LEX_LINE", "STMT_IDENT_NAME_BUF"}
SEG_OK == {"ARR2_BASE", "ARR2_LIMIT", "SECOND_DISPLAY_ADDR"}

\* Whether main reports no error; pins: <<name, address, size>>, the scratch area among them.
layout_ok(S, used, pins) ==
  LET pool_lo == S["PROG_AREA_START"]   code == S["VM_CODE_BASE"]   limit == S["V2_CODE_LIMIT"]
      zone_lo == S["V2_ZONE_BASE"]      zone_hi == zone_lo + S["V2_ZONE_SIZE"]
      seg_lo == S["ARR2_BASE"]          seg_hi == S["ARR2_LIMIT"]
      ram == {n \in DOMAIN S \cap used : Inside(S[n], 32768, 65536)}
  IN  /\ S["V2_SOURCE_END"] = code /\ limit - code = S["V2_CODE_SIZE"] /\ zone_lo >= limit
      /\ \A n \in ram : /\ Inside(S[n], pool_lo, limit) => n \in POOL_BOUNDS
                        /\ Inside(S[n], zone_lo, zone_hi) => n \in ZONE_CELLS
      /\ 23296 <= seg_lo /\ seg_lo < seg_hi /\ seg_hi <= 30720 /\ seg_hi <= pool_lo
      /\ \A n \in DOMAIN S \cap used : Inside(S[n], seg_lo, seg_hi) => n \in SEG_OK
      /\ \A p \in pins : ~Overlaps(p[2], p[3], zone_lo, zone_hi) /\ ~Overlaps(p[2], p[3], pool_lo, limit)
SCRATCH == 11

\* check_ram_aliases.py
aliases_ok(S) ==
  /\ S["STATUS_BUF"] = S["TOKEN_BUF"] /\ S["EDIT_LABEL_COPY"] = S["TOKEN_BUF"]
  /\ S["MULTI_STMT_BUF"] = S["TOKEN_BUF"]
  /\ ~Overlaps(S["STORAGE_LOAD_NAME_BUF"], 10, S["STATUS_BUF"], S["STATUS_BUF"] + 32)
  /\ ~Overlaps(S["STR_FUNC_POOL"], 128, S["EDIT_LINE_BUF"], S["EDIT_LINE_BUF"] + 128)

-----------------------------------------------------------------------------
(* check_builtin_tables.py: rows [len, name, argc, idx, at], the VM's labels, the decompiler's *)
(* rows [name, argc, at]; at: [dollar, bits], the returned string's bit and the type bits.     *)

counted(rows) == SelectSeq(rows, LAMBDA r : r.len = r.true_len)
table(rows) ==
  LET found == counted(rows) IN
  [i \in {r.idx : r \in ToSet(found)} |-> found[Max({k \in DOMAIN found : found[k].idx = i})]]
tables_ok(rows, count, jump, drows) ==
  LET t == table(rows)  n == Cardinality(DOMAIN t) IN
  /\ count = n /\ DOMAIN t = 0 .. n - 1
  /\ Len(jump) = n /\ \A k \in DOMAIN jump : jump[k] = k - 1
  /\ Len(drows) = n
  /\ \A i \in DOMAIN t : i < Len(drows) =>
       LET d == drows[i + 1] IN
       d.name = <<t[i].name, t[i].at.dollar>> /\ d.argc = t[i].argc /\ d.bits = t[i].at.bits

-----------------------------------------------------------------------------
(* check_provenance.py *)

Fill(w) == \A x \in DOMAIN w : w[x] = w[1]
Same(img, i, rom, j, n) == \A x \in 0 .. n - 1 : img[i + x] = rom[j + x]
common(img, i, rom, j, n) ==
  Max({k \in n .. Min({Len(img) - i, Len(rom) - j}) + 1 : Same(img, i, rom, j, k)})
\* The runs of at least n bytes: where a window that is not fill is common, and the byte before
\* it is not.
runs(img, rom, n) ==
  LET places == (1 .. Len(img) - n + 1) \X (1 .. Len(rom) - n + 1)
      at == {p \in places : Same(img, p[1], rom, p[2], n) /\ ~Fill(SubSeq(rom, p[2], p[2] + n - 1))}
      starts == {p \in at : p[1] = 1 \/ p[2] = 1 \/ img[p[1] - 1] # rom[p[2] - 1]}
  IN  {<<p[1], p[2], common(img, p[1], rom, p[2], n)>> : p \in starts}

\* The length of a run without the repeated bytes at its ends.
trimmed(data) ==
  LET lead == Max({k \in DOMAIN data : \A x \in 1 .. k : data[x] = data[1]})
      last == Min({z \in lead .. Len(data) : \A x \in z .. Len(data) : data[x] = Last(data)})
  IN  last - lead + 1
\* labels: <<address, name>>; the routine of an address.
where(labels, a) ==
  LET before == {l \in labels : l[1] <= a} IN
  IF before = {} THEN "?" ELSE (CHOOSE l \in before : \A m \in before : m[1] <= l[1])[2]
\* The runs not accounted for; ALLOWED: <<routine, length>>.
unaccounted(img, rom, n, labels, ALLOWED) ==
  {r \in runs(img, rom, n) : /\ <<where(labels, r[1]), r[3]>> \notin ALLOWED
                             /\ trimmed(SubSeq(img, r[1], r[1] + r[3] - 1)) >= n}

-----------------------------------------------------------------------------
(* check_z80_opcodes.py: a line [label, local, mnem, dst, src, to]; an operand is given by its   *)
(* kind: "a", "b" (b to e), "h" (h, l), "rr", "hl", "ix", "(hl)", "(bc)", "(de)", "(ix+d)",       *)
(* "(nn)", "n", "name" or None.                                                                  *)

check_de_bc_indirect(lines) ==
  {i \in DOMAIN lines : lines[i].mnem = "ld" /\
     \/ lines[i].dst \in {"(de)", "(bc)"} /\ lines[i].src # "a"
     \/ lines[i].src \in {"(de)", "(bc)"} /\ lines[i].dst # "a"}

ALU_MNEMONICS == {"add", "adc", "sub", "sbc", "and", "or", "xor", "cp"}
Memory == {"(hl)", "(bc)", "(de)", "(ix+d)", "(nn)"}
check_alu_absolute_operand(lines) ==
  LET operand(l) == IF l.src # None THEN l.src ELSE l.dst IN
  {i \in DOMAIN lines : /\ lines[i].mnem \in ALU_MNEMONICS
                        /\ ~(lines[i].dst = "hl" /\ lines[i].src # None)
                        /\ operand(lines[i]) \in Memory \ {"(hl)", "(ix+d)"}}

OneByte == {"nop", "ret", "ldir", "scf", "rla"}
ld_size(dst, src) ==
  CASE "(ix+d)" \in {dst, src} -> 3
    [] "(ix+d)" \notin {dst, src} /\ "(nn)" \in {dst, src} -> 3
    [] dst \in {"rr", "hl"} /\ src \notin Memory -> 3
    [] dst = "ix" /\ src # "(nn)" -> 4
    [] dst \in {"a", "b", "h"} /\ src = "n" -> 2
    [] OTHER -> 1
instr_size(l) ==
  CASE l.mnem \in OneByte \cup {"push", "pop"} -> 1
    [] l.mnem \in {"inc", "dec"} -> IF l.dst = "(ix+d)" THEN 3 ELSE 1
    [] l.mnem = "ld" -> ld_size(l.dst, l.src)
    [] l.mnem \in ALU_MNEMONICS ->
         CASE l.dst = "hl" \/ l.dst = "h" -> 1
           [] "(ix+d)" \in {l.dst, l.src} -> 3
           [] l.src = None /\ l.dst \in {"n", "a", "b"} -> 2   \* b is a hexadecimal digit
           [] OTHER -> 1
    [] l.mnem \in {"srl", "bit", "djnz", "jr"} -> 2
    [] l.mnem = "jp" -> IF l.dst = "(hl)" THEN 1 ELSE 3
    [] OTHER -> 3
Data == {None, "db", "dw", "ds", "org"}

offsets(lines, size(_)) ==
  FoldLeft(LAMBDA acc, l : Append(acc, Last(acc) + IF l.mnem \in Data THEN 0 ELSE size(l)), <<0>>, lines)
scope_at(lines, i) ==
  LET globals == {j \in 1 .. i : lines[j].label # None /\ ~lines[j].local} IN
  IF globals = {} THEN None ELSE lines[Max(globals)].label
\* The line a reference from line i names: its own routine's label, or a global one.
target(lines, i) ==
  LET named(s, n) == {j \in DOMAIN lines : lines[j].label = n /\ scope_at(lines, j) = s}
      own == named(scope_at(lines, i), lines[i].to)
      any == named(lines[i].to, lines[i].to)
      at == offsets(lines, instr_size)
  IN  IF own # {} /\ at[Max(own)] # 0 THEN Max(own)
      ELSE IF any # {} THEN Max(any) ELSE 0
Jumps(lines) == {i \in DOMAIN lines : lines[i].mnem \in {"jr", "djnz"}}
\* The lines reported: out of range, or within ten bytes of the limit.
check_jr_range(lines) ==
  LET at == offsets(lines, instr_size) IN
  {i \in Jumps(lines) : target(lines, i) # 0 /\ at[target(lines, i)] - (at[i] + 2) \notin -118 .. 117}

-----------------------------------------------------------------------------
(* check_basic_source.py: a line [comment, dims, uses, fors, next, indexed, label]: the DIMs and  *)
(* FOR loops from 1 as pairs, the literal accesses <<array, index>>, the accesses by a variable   *)
(* <<array, variable>>, the length of the name defined or 0.                                     *)

bounds(lines) ==
  LET dims == FlattenSeq([i \in DOMAIN lines |-> lines[i].dims]) IN
  [a \in {d[1] : d \in ToSet(dims)} |-> dims[Max({k \in DOMAIN dims : dims[k][1] = a})][2]]
literal_findings(lines) ==
  LET b == bounds(lines)
      wrong(l) == {u \in l.uses : u[1] \in DOMAIN b /\ u[2] >= b[u[1]]}
  IN  UNION {{<<i, u>> : u \in wrong(lines[i])} : i \in {j \in DOMAIN lines : lines[j].dims = <<>>}}
loop_findings(lines) ==
  LET b == bounds(lines)
      found(i, stack) ==
        IF stack = <<>> THEN {}
        ELSE {<<i, a>> : a \in {x \in DOMAIN b : b[x] = Last(stack)[2] /\ <<x, Last(stack)[1]>> \in lines[i].indexed}}
      step(acc, i) ==
        LET stack == acc.stack \o lines[i].fors IN
        IF lines[i].next /\ stack # <<>> THEN [acc EXCEPT !.stack = Front(stack)]
        ELSE [stack |-> stack, found |-> acc.found \cup found(i, stack)]
  IN  FoldLeft(step, [stack |-> <<>>, found |-> {}], [i \in DOMAIN lines |-> i]).found

LABEL_TABLE_MAXLEN == 128
LABEL_COUNT_SIZE == 2
LABEL_NAMELEN_SIZE == 1
LABEL_POS_SIZE == 2
\* (Mutant of label_total: the count at the head of the table is forgotten.)
label_totalNoCount(lines) ==
  FoldLeft(LAMBDA t, l : IF l.label = 0 THEN t ELSE t + LABEL_NAMELEN_SIZE + l.label + LABEL_POS_SIZE, 0, lines)

label_total(lines) ==
  FoldLeft(LAMBDA t, l : IF l.label = 0 THEN t ELSE t + LABEL_NAMELEN_SIZE + l.label + LABEL_POS_SIZE,
           LABEL_COUNT_SIZE, lines)
check_label_budget(lines) == label_total(lines) > LABEL_TABLE_MAXLEN

BlankLine == [comment |-> FALSE, dims |-> <<>>, uses |-> {}, fors |-> <<>>, next |-> FALSE, indexed |-> {}, label |-> 0]
\* The number of findings; comments are blanked first.
check_source(text) ==
  LET lines == [i \in DOMAIN text |-> IF text[i].comment THEN BlankLine ELSE text[i]]
      b == bounds(lines)
  IN  (IF DOMAIN b = {} THEN 0 ELSE Cardinality(literal_findings(lines)) + Cardinality(loop_findings(lines)))
        + (IF check_label_budget(lines) THEN 1 ELSE 0)

\* test_check_basic_source.py: programs and the number of findings expected.
BasicTests ==
  LET dim(n) == [BlankLine EXCEPT !.dims = <<<<"A", n>>>>, !.uses = {<<"A", n>>}]
      use(i) == [BlankLine EXCEPT !.uses = {<<"A", i>>}]
      for1(n) == [BlankLine EXCEPT !.fors = <<<<"I", n>>>>]
      by(v) == [BlankLine EXCEPT !.indexed = {<<"A", v>>}]
      next == [BlankLine EXCEPT !.next = TRUE]
      label(n) == [BlankLine EXCEPT !.label = n]
  IN  {<<<<dim(3), use(10)>>, 1>>, <<<<dim(3), use(0), use(2)>>, 0>>, <<<<dim(3)>>, 0>>,
       <<<<dim(5), for1(5), by("I"), next>>, 1>>, <<<<dim(5), BlankLine, by("I"), next>>, 0>>,
       <<[i \in 1 .. LABEL_TABLE_MAXLEN \div 4 + 5 |-> label(9)], 1>>, <<<<label(4), BlankLine>>, 0>>,
       <<<<[dim(15) EXCEPT !.comment = TRUE], dim(15), [dim(9) EXCEPT !.dims = <<<<"B", 9>>>>], use(12)>>, 0>>,
       <<<<BlankLine, BlankLine, dim(3), BlankLine, use(0), BlankLine>>, 0>>,
       <<<<[BlankLine EXCEPT !.comment = TRUE], label(4)>>, 0>>}
=============================================================================
