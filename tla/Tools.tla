-------------------------------- MODULE Tools --------------------------------
(***************************************************************************)
(* The command-line tools as one-step programs: a job names a tool and its  *)
(* input, the tool's action leaves the result.  The tools' algorithms are   *)
(* in the modules instantiated here; the invariants compare each result     *)
(* with what the result is for: what a decoder reads back, what an          *)
(* execution of the accepted code does, which cells the build may use.      *)
(***************************************************************************)
EXTENDS Integers, Sequences, SequencesExt, FiniteSets, FiniteSetsExt, Functions

CONSTANTS
  Inputs(_),      \* the inputs of each tool
  Exit(_, _),     \* the production gate and the qualification runs: the exit status of a suite for one of its cases
  PILOT_PULSES, MIN_PILOT

VARIABLES job, result
vars == <<job, result>>

T == INSTANCE TapeTools
A == INSTANCE PackageAbi
S == INSTANCE AsmSource
B == INSTANCE BuildChecks

Pending == <<>>
Tasks == {"extension", "program", "distorted", "rwa", "records",
          "service", "fp service", "pins", "minor", "package", "exports", "errors",
          "labels", "extract", "listing", "equs",
          "layout", "aliases", "tables", "provenance", "opcodes", "ranges", "basic", "budget", "case"}

Init == /\ \E t \in Tasks : \E x \in Inputs(t) : job = <<t, x>>
        /\ result = Pending

in == job[2]
out == result[1]
Does(task, o) == job[1] = task /\ result = Pending /\ result' = <<o>> /\ UNCHANGED job
Done(task) == job[1] = task /\ result # Pending

-----------------------------------------------------------------------------
(* Tapes *)

NAME == <<86, 32>>   \* two characters stand for the ten of a header
AUTO == 32768        \* the autostart field of a program

rwa_tape == T!block(T!NoTape, T!framed(0, in.source), T!None, T!None)

MakeExtension == Does("extension", T!extension_tzx(NAME, in.module, in.word))
ProgramTape == Does("program", T!pack(T!program_tape(NAME, in.source, in.options).runs))
TapeFor == Does("distorted", T!pack(T!tape_for(NAME, in.source, AUTO, in.d).runs))
WriteRwa == Does("rwa", T!to_rwa(rwa_tape, in.lead))
EncodeProgram == Does("records", T!encode_program(T!listed(in.lines, LAMBDA l : l = <<>>), in.limit))

\* The two blocks a tape was made to carry.
program_blocks(source) ==
  <<T!framed(0, T!header_payload(0, NAME, Len(source), AUTO, Len(source))), T!framed(255, source)>>

\* The lines the line store's walk finds in a run of records: a length word, then as many bytes.
RECURSIVE walked(_)
walked(bytes) ==
  IF bytes = <<>> THEN <<>>
  ELSE LET n == bytes[1] + 256 * bytes[2] IN
       <<SubSeq(bytes, 3, n + 1)>> \o walked(SubSeq(bytes, n + 3, Len(bytes)))

(* What a tape tool writes is read back as what was put in: an extension tape decodes to its two  *)
(* blocks and is no valid program; a program tape is a valid fixture exactly when no fault was    *)
(* asked for; a distorted tape is decoded right or not at all; every pulse of a sampled tape ends *)
(* within one sample of its time; the records of a program walk back to its lines.                *)
TapesReadBack ==
  /\ Done("extension") =>
       /\ T!decode_blocks(T!sample_runs(out)) =
            <<T!framed(0, T!header_payload(4, NAME, Len(in.module), in.word, Len(in.module))),
              T!framed(255, in.module)>>
       /\ ~T!fixture_valid(out, NAME, in.module, AUTO)
  /\ Done("program") =>
       (T!fixture_valid(out, NAME, in.source, AUTO) <=>
          LET o == in.options  n == Len(in.source) IN
          /\ o.htype = 0 /\ o.autostart = AUTO /\ o.data_flag = 255 /\ ~o.bad_checksum
          /\ o.header_length \in {T!None, [n |-> n]}
          /\ o.dropout = T!None \/ o.dropout.count = 0 \/ o.dropout.first >= n + 2
          /\ o.truncate_after = T!None \/ o.truncate_after.n >= n + 2)
  /\ Done("distorted") =>
       T!decode_blocks(T!sample_runs(out)) \in {T!Failed, program_blocks(in.source)}
  /\ Done("rwa") =>
       LET runs == rwa_tape.runs
           near(at, till) == at * 1040 - till * 2940 \in 0 .. 2939
           step(acc, i) == LET at == acc.at + runs[i][2]  till == acc.till + out[i + 1][2]
                           IN  [at |-> at, till |-> till, ok |-> acc.ok /\ near(at, till)]
       IN  /\ Len(out) = Len(runs) + 1
           /\ FoldLeft(step, [at |-> in.lead, till |-> out[1][2], ok |-> near(in.lead, out[1][2])],
                       [i \in DOMAIN runs |-> i]).ok
  /\ Done("records") =>
       LET lines == SelectSeq(in.lines, LAMBDA l : l # <<>>) IN
       IF \A i \in DOMAIN lines : Len(lines[i]) <= in.limit
       THEN out # T!Failed /\ walked(out) = lines
       ELSE out = T!Failed

-----------------------------------------------------------------------------
(* The package interface *)

\* The cells of the calculator's service: the paging routines, the trampoline, the EXROM routine.
FP == [page_in |-> 6, page_out |-> 7, trampoline |-> 8, exrom_call |-> 9]

CheckService == Does("service", A!closure(in.root, in.ins, {}, FALSE).bad)
CheckFpService == Does("fp service", A!check_fp_service({in.root}, in.ins, FP))
CheckPins == Does("pins", A!pins_bad(in.pins, in.scratch, in.hsym))
PackageWord == Does("minor", A!package_word(A!Abi(in.abi), in.tree, in.source))
CheckPackage == Does("package",
  [code |-> A!package_bad(in.code, in.ins, in.first .. in.first + Len(in.services) - 1, in.allowed),
   slots |-> A!slots_bad(in.home, in.services, in.first, in.reserved, in.hsym, in.trap)])
PackageNames == Does("exports", A!package_names(in.module, in.table, in.exports))
CheckErrorCodes == Does("errors", A!error_failures(in.lines, in.ok))

\* A processor that runs the cells from a root: [pc, stack, paged].  The EXROM's code and the
\* paging routines run and return, the calculator pages for itself, the trampoline calls a stub.
Steps(ins, c) ==
  LET i == ins[c.pc]
      go(pcs) == {[c EXCEPT !.pc = p] : p \in pcs}
      call(p) == {[c EXCEPT !.pc = p, !.stack = <<c.pc + 1>> \o @]}
      ret(paged) == IF c.stack = <<>> THEN {} ELSE {[pc |-> Head(c.stack), stack |-> Tail(c.stack), paged |-> paged]}
  IN  CASE c.pc = FP.page_in -> ret(TRUE)
        [] c.pc = FP.page_out -> ret(FALSE)
        [] c.pc >= A!CHUNK6 \/ c.pc = FP.trampoline \/ i.op = "ret" -> ret(c.paged)
        [] i.op = "calc" -> go({c.pc + 2})
        [] i.op \in {"call", "rst"} -> call(i.to)
        [] i.op = "jp" -> go({i.to})
        [] i.op = "jr cc" -> go({i.to, c.pc + 1})
        [] OTHER -> go({c.pc + 1})
\* The processor is lost: in the EXROM's window without the EXROM, where nothing is listed or at
\* a jump that cannot be followed.
Lost(ins, c) ==
  \/ c.pc >= A!CHUNK6 /\ ~c.paged
  \/ c.pc < A!CHUNK6 /\ c.pc \notin DOMAIN ins
  \/ c.pc < A!CHUNK6 /\ c.pc \in DOMAIN ins /\
       (ins[c.pc].op = "jp (hl)" \/ (ins[c.pc].op = "mem" /\ ins[c.pc].to >= A!CHUNK6))
DEPTH == 2   \* calls followed into one another
RECURSIVE Reached(_, _, _)
Reached(ins, seen, new) ==
  IF new = {} THEN seen
  ELSE LET more == UNION {Steps(ins, c) : c \in {d \in new : ~Lost(ins, d) /\ Len(d.stack) <= DEPTH}}
       IN  Reached(ins, seen \cup new, more \ (seen \cup new))
Runs(ins, root) == Reached(ins, {}, {[pc |-> root, stack |-> <<>>, paged |-> FALSE]})
NeverLost(ins, root) == \A c \in Runs(ins, root) : ~Lost(ins, c)

\* What check_fp_service does not look at: a way to the bracketed call past the paging.
Straight(ins, root) ==
  \A a \in {b \in DOMAIN ins : ins[b] = [op |-> "call", to |-> FP.exrom_call]} :
    /\ root # a
    /\ \A b \in DOMAIN ins : (ins[b].op = "mem" \/ ins[b].to # a) /\ (ins[b].op = "calc" => b + 2 # a)

\* Executions of a package's lines from its entries: <<line, what A holds>>.
ErrorRuns(lines) ==
  LET routines == A!raise_routines(lines)
      at(name) == CHOOSE k \in DOMAIN lines : lines[k].label = name
      entries == {<<k, -1>> : k \in {j \in DOMAIN lines : lines[j].label # "" /\ lines[j].label \notin routines}}
      next(e) == LET l == lines[e[1]] IN
        CASE l.ins = "ret" -> {}
          [] l.ins = "ld" -> {<<e[1] + 1, l.code>>}
          [] l.ins = "go" -> {<<e[1] + 1, e[2]>>, <<at(l.to), e[2]>>}
          [] l.ins = "other" -> {<<e[1] + 1, -1>>}
          [] OTHER -> {<<e[1] + 1, e[2]>>}
      more(s) == s \cup UNION {{x \in next(e) : x[1] <= Len(lines)} : e \in s}
      close[n \in Nat] == IF n = 0 THEN entries ELSE more(close[n - 1])
  IN  close[2 * Len(lines)]

\* The files a source includes, directly or not.
Included(tree, source) ==
  LET more(s) == s \cup {l.file : l \in {m \in UNION {ToSet(tree[f]) : f \in s} : m.kind = "include"}}
      close[n \in Nat] == IF n = 0 THEN {source} ELSE more(close[n - 1])
  IN  close[Cardinality(DOMAIN tree)]

(* What the interface check accepts is safe to run: a service it finds independent of the EXROM  *)
(* never runs into the EXROM's window while the EXROM is paged out, nor to a place nobody listed, *)
(* nor does the calculator's service when nothing transfers straight to its bracketed call (the    *)
(* check does not look at that); pinned cells do not overlap, not only neighbours;                *)
(* a package's way out of its own code leads to a routine of the service list; every error a      *)
(* package's lines store has an allowed code; the minor is that of the newest thing named in any  *)
(* included file; the names are those of the export table.                                       *)
PackagesAreSafe ==
  /\ Done("service") /\ out = {} => NeverLost(in.ins, in.root)
  /\ Done("fp service") /\ out /\ Straight(in.ins, in.root) => NeverLost(in.ins, in.root)
  /\ Done("pins") /\ out = {} =>
       LET cells == [i \in DOMAIN in.pins |-> in.pins[i][2] .. in.pins[i][2] + in.pins[i][3] - 1]
       IN  /\ \A i, j \in DOMAIN cells : i # j => cells[i] \cap cells[j] = {}
           /\ \A i \in DOMAIN cells : cells[i] \cap (in.scratch[1] .. in.scratch[2] - 1) = {}
  /\ Done("minor") =>
       LET words == UNION {l.words : l \in {m \in UNION {ToSet(in.tree[f]) : f \in Included(in.tree, in.source)} :
                                           m.kind = "code"}}
       IN  out = 512 + Max({0} \cup {A!since(A!Abi(in.abi), w) : w \in words})
  /\ Done("package") /\ out.code = {} /\ out.slots = {} =>
       \A a \in in.code : \A t \in A!decode(a, in.ins).targets \ (in.code \cup {0}) :
         \E s \in ToSet(in.services) : in.home[t] = [op |-> "jp", to |-> in.hsym[s[2]]]
  /\ Done("exports") => out = in.names
  /\ Done("errors") /\ out = {} =>
       \A e \in ErrorRuns(in.lines) : in.lines[e[1]].ins \in {"store", "raise"} => e[2] \in in.ok

-----------------------------------------------------------------------------
(* Assembler sources *)

CheckAsm == Does("labels", [fails |-> S!main_fails(in.lines),
                            review |-> S!check_stack_ordering_fingerprint(in.lines, {})])
ExtractRoutine == Does("extract", S!load_file("copy", S!extract("src", in.lines, in.start, in.end, TRUE)))
LoadListing == Does("listing", {S!assembled_address(in.listing, f, n, in.text) : <<f, n>> \in in.asked})
JoinEqus == Does("equs", S!join_equs(in.equs, in.vars))

Rows(lines) == S!load_file("src", S!unmarked(lines)).rows
\* The routine a line of a file belongs to: the last global label up to it.
Routine(lines, n) == S!scope_of(lines, n)
\* The first pop of a routine that nothing of its own was pushed for, by running its depth.
PopsCaller(lines, r) ==
  \E i \in r.start + 1 .. r.end - 1 :
    /\ lines[i].kind = "code" /\ lines[i].ins = "pop"
    /\ \A j \in r.start + 1 .. i - 1 : lines[j].kind = "code" => lines[j].ins \notin {"push", "pop"}

\* The file an entry of a listing belongs to: the last one opened before it and still open.
OpenAt(listing, i) ==
  LET depth(k) == Cardinality({j \in 1 .. k : listing[j].is = "open"}) - Cardinality({j \in 1 .. k : listing[j].is = "close"})
      opens == {k \in 1 .. i - 1 : listing[k].is = "open" /\ \A j \in k .. i : depth(j) >= depth(k)}
  IN  IF opens = {} THEN {} ELSE {listing[Max(opens)].file}

(* A source that check_asm accepts assembles the way the simulator reads it: every reference to a *)
(* local label, loaded, resolves to a label of the routine it stands in, and a routine reported   *)
(* for review pops its caller's word; a routine copied out and loaded has the rows of the         *)
(* original, from the same places and in the same scopes; an address found in a listing belongs   *)
(* to the file that was asked for, when no two files share a base name; the constants read from a *)
(* source satisfy the equations that define them.                                                 *)
SourcesAreRead ==
  /\ Done("labels") =>
       /\ ~out.fails =>
            LET p == S!load_file("src", S!unmarked(in.lines)) IN
            \A row \in {x \in ToSet(p.rows) : x.ins = "jump"} :
              LET at == S!resolve_label(p, row.scope, row.to, TRUE) IN
              /\ at # 0 /\ p.rows[at].label = row.to
              /\ Routine(in.lines, p.rows[at].place[2]) = Routine(in.lines, row.place[2])
       /\ \A n \in out.review : \E r \in ToSet(S!parse_routines(in.lines)) : r.name = n /\ PopsCaller(in.lines, r)
  /\ Done("extract") =>
       out.rows = SelectSeq(Rows(in.lines), LAMBDA row : row.place[2] \in S!captured(in.lines, in.start, in.end))
  /\ Done("listing") /\ (\A f, g \in in.files : f.base = g.base => f = g) =>
       \A q \in in.asked : \A a \in S!assembled_address(in.listing, q[1], q[2], in.text) :
         \E i \in DOMAIN in.listing : in.listing[i].is = "line" /\ in.listing[i].address = a /\ OpenAt(in.listing, i) = {q[1]}
  /\ Done("equs") =>
       \A x \in DOMAIN out :
         IF x \in DOMAIN in.vars THEN out[x] = in.vars[x]
         ELSE \E k \in DOMAIN in.equs : in.equs[k][1] = x /\ S!parse_val(in.equs[k][2], out) = {out[x]}

-----------------------------------------------------------------------------
(* The build's checks *)

CheckRamLayout == Does("layout",
  B!layout_ok(B!symbols(in.home.syms, in.exrom.syms), B!referenced(in.home.lines \o in.exrom.lines), in.pins))
CheckRamAliases == Does("aliases", B!aliases_ok(in.syms))
CheckBuiltinTables == Does("tables", B!tables_ok(in.rows, in.count, in.jump, in.drows))
CheckProvenance == Does("provenance",
  [listed |-> B!runs(in.img, in.rom, in.min), bad |-> B!unaccounted(in.img, in.rom, in.min, in.labels, in.allowed)])

\* A name counts as used when every set of names that has the operands of the emitted code and,
\* with a name, those in its definition, has it.
Used(lines) ==
  LET code == {l \in ToSet(lines) : ~l.skipped}
      direct == UNION {l.names : l \in {x \in code : x.equ = B!None /\ x.emits}}
      names == UNION {l.names : l \in code}
      closed(U) == \A l \in code : l.equ \in U => l.names \subseteq U
  IN  {n \in names : \A U \in SUBSET names : direct \subseteq U /\ closed(U) => n \in U}
\* The blocks that image and stock ROM share and that cannot be made longer, <<at, in the ROM, length>>.
Shared(img, rom) ==
  {<<i, j, k>> \in (DOMAIN img) \X (DOMAIN rom) \X (DOMAIN img) :
     /\ i + k - 1 <= Len(img) /\ j + k - 1 <= Len(rom) /\ B!Same(img, i, rom, j, k)
     /\ i = 1 \/ j = 1 \/ img[i - 1] # rom[j - 1]
     /\ i + k > Len(img) \/ j + k > Len(rom) \/ img[i + k] # rom[j + k]}
Copied(r) == SubSeq(in.img, r[1], r[1] + r[3] - 1)

(* What the build's checks accept is what they are there for.  No cell that either image's code    *)
(* names, or that a name it uses is defined from, lies in the pool, the bytecode, the compile zone *)
(* or array segment 2, and no pinned cell in the first three (when the images give a name they     *)
(* share one address, and the pool is above $8000); the buffers that may not share bytes do not;   *)
(* the three built-in tables describe one function at each index (when no two of the compiler's    *)
(* rows have one index); every block copied from a stock ROM that does not begin with a window of  *)
(* fill is a recorded one or mostly fill.                                                          *)
BuildIsSafe ==
  /\ Done("layout") /\ out =>
       LET own(image) == image.syms
           agree == \A n \in DOMAIN own(in.home) \cap DOMAIN own(in.exrom) : own(in.home)[n] = own(in.exrom)[n]
           S_ == own(in.home)
           pool == S_["PROG_AREA_START"] .. S_["V2_CODE_LIMIT"] - 1
           zone == S_["V2_ZONE_BASE"] .. S_["V2_ZONE_BASE"] + S_["V2_ZONE_SIZE"] - 1
           segment2 == S_["ARR2_BASE"] .. S_["ARR2_LIMIT"] - 1
       IN  agree /\ S_["PROG_AREA_START"] >= 32768 =>
             /\ \A image \in {in.home, in.exrom} :
                  \A n \in Used(image.lines) \cap DOMAIN own(image) :
                    /\ own(image)[n] \in pool => n \in B!POOL_BOUNDS
                    /\ own(image)[n] \in zone => n \in B!ZONE_CELLS
                    /\ own(image)[n] \in segment2 => n \in B!SEG_OK
             /\ \A p \in in.pins : \A c \in p[2] .. p[2] + p[3] - 1 : c \notin pool /\ c \notin zone
             /\ pool \cap zone = {} /\ pool \cap segment2 = {}
  /\ Done("aliases") =>
       LET cells(n, len) == in.syms[n] .. in.syms[n] + len - 1 IN
       out => /\ cells("STORAGE_LOAD_NAME_BUF", 10) \cap cells("STATUS_BUF", 32) = {}
              /\ cells("STR_FUNC_POOL", 128) \cap cells("EDIT_LINE_BUF", 128) = {}
              /\ \A n \in {"STATUS_BUF", "EDIT_LABEL_COPY", "MULTI_STMT_BUF"} : cells(n, 1) = cells("TOKEN_BUF", 1)
  /\ Done("tables") /\ out =>
       LET rows == B!counted(in.rows) IN
       (\A k, m \in DOMAIN rows : rows[k].idx = rows[m].idx => k = m) =>
         /\ Len(rows) = in.count
         /\ \A k \in DOMAIN rows :
              LET i == rows[k].idx + 1 IN
              /\ i <= in.count /\ in.jump[i] = rows[k].idx
              /\ in.drows[i] = [name |-> <<rows[k].name, rows[k].at.dollar>>, argc |-> rows[k].argc, bits |-> rows[k].at.bits]
  /\ Done("provenance") /\ out.bad = {} =>
       \A r \in Shared(in.img, in.rom) : r[3] >= in.min =>
         \/ B!Fill(SubSeq(in.img, r[1], r[1] + in.min - 1))
         \/ <<B!where(in.labels, r[1]), r[3]>> \in in.allowed
         \/ B!trimmed(Copied(r)) < in.min

(* "Every run of MIN (12) or more bytes that a production image ... shares byte for byte with a    *)
(* stock ROM is listed" (check_provenance.py:4), a run that is mostly one byte repeated apart.     *)
EveryRunIsListed ==
  Done("provenance") =>
    \A r \in Shared(in.img, in.rom) : r[3] >= in.min /\ B!trimmed(Copied(r)) >= in.min => r \in out.listed

-----------------------------------------------------------------------------
(* Instructions and BASIC programs *)

CheckOpcodes == Does("opcodes", B!check_de_bc_indirect(in.lines) \cup B!check_alu_absolute_operand(in.lines))
CheckJrRange == Does("ranges", B!check_jr_range(in.lines))
CheckBasicSource == Does("basic", [n |-> B!check_source(in.lines), literal |-> B!literal_findings(in.lines)])
CheckLabelBudget == Does("budget", B!check_label_budget(in.lines))

\* The processor's loads and 8-bit operations, by operand kind.
Registers == {"a", "b", "h"}
Exists(l) ==
  IF l.mnem = "ld"
  THEN \/ l.dst \in Registers /\ l.src \in Registers \cup {"n", "(hl)", "(ix+d)"}
       \/ l.dst \in {"(hl)", "(ix+d)"} /\ l.src \in Registers \cup {"n"}
       \/ l.dst = "a" /\ l.src \in {"(bc)", "(de)", "(nn)"}
       \/ l.dst \in {"(bc)", "(de)", "(nn)"} /\ l.src = "a"
       \/ l.dst \in {"rr", "hl", "ix"} /\ l.src \in {"n", "(nn)"}
       \/ l.dst = "(nn)" /\ l.src \in {"rr", "hl", "ix"}
  ELSE \/ l.src \in Registers \cup {"n", "(hl)", "(ix+d)"} /\ l.dst = "a"
       \/ l.dst \in Registers \cup {"n", "(hl)", "(ix+d)"} /\ l.src = B!None
\* The bytes an assembler gives the instructions the range check is run on.
Bytes(l) ==
  CASE l.mnem \in {"ldir", "jr", "djnz"} -> 2
    [] l.mnem = "ld" /\ l.dst = "hl" -> 3
    [] l.mnem \in {"add", "xor"} -> IF "n" \in {l.dst, l.src} THEN 2 ELSE 1
    [] l.mnem = "inc" -> IF l.dst = "ix" THEN 2 ELSE 1
    [] OTHER -> 3
\* The label table as MEM_LABEL_ADD fills it with distinct names: the labels refused.
Refused(lengths) ==
  FoldLeft(LAMBDA t, n : IF t.used + n + 3 > B!LABEL_TABLE_MAXLEN THEN [t EXCEPT !.refused = TRUE]
                         ELSE [t EXCEPT !.used = @ + n + 3],
           [used |-> 2, refused |-> FALSE], lengths).refused

(* A source that passes can be assembled and run.  A load by (DE) or (BC) and an 8-bit operation   *)
(* of A with memory is reported exactly when the processor has none; a jump that is not reported reaches  *)
(* its label (one at offset 0 and not global is not looked up) wherever the estimated sizes err by *)
(* ten bytes at most over its distance; the label budget is reported exactly when the ROM's table  *)
(* refuses one of distinct labels; an access by a literal is reported exactly when it fails (in a  *)
(* program that dimensions no array twice, and before it is used); the tool's own tests hold.      *)
SourcesAreLegal ==
  /\ Done("opcodes") =>
       \A i \in DOMAIN in.lines :
         LET l == in.lines[i] IN
         /\ {l.dst, l.src} \cap (IF l.mnem = "ld" THEN {"(bc)", "(de)"} ELSE B!Memory) # {}
         /\ l.mnem = "ld" \/ l.dst = "a" \/ l.src = B!None
         => (i \in out <=> ~Exists(l))
  /\ Done("ranges") =>
       LET guess == B!offsets(in.lines, B!instr_size)   at == B!offsets(in.lines, Bytes) IN
       \A i \in B!Jumps(in.lines) \ out :
         LET to == B!target(in.lines, i)
             real == at[to] - at[i]
             err == real - (guess[to] - guess[i])
         IN  to # 0 /\ err \in -10 .. 10 => real - 2 \in -128 .. 127
  /\ Done("basic") =>
       /\ \A t \in B!BasicTests : in.lines = t[1] => out.n = t[2]
       /\ LET dims(i) == in.lines[i].dims
              dimmed(a) == {i \in DOMAIN in.lines : a \in {d[1] : d \in ToSet(dims(i))}}
              once == \A i \in DOMAIN in.lines :
                        /\ dims(i) # <<>> => \A d \in ToSet(dims(i)) : dimmed(d[1]) = {i}
                        /\ \A u \in in.lines[i].uses : dimmed(u[1]) # {} /\ \A k \in dimmed(u[1]) : k <= i
          IN  once => out.literal =
                UNION {{<<i, u>> : u \in {x \in in.lines[i].uses :
                          \E k \in 1 .. i - 1 : \E d \in ToSet(dims(k)) : d[1] = x[1] /\ x[2] >= d[2]}} :
                       i \in {j \in DOMAIN in.lines : dims(j) = <<>>}}
  /\ Done("budget") => (out <=> Refused([i \in DOMAIN in.lines |-> in.lines[i].label]))

-----------------------------------------------------------------------------
(* The production gate and the qualification runs *)

RunCase == Does("case", Exit(in[1], in[2]))

(* Every case of the four suites holds of the machine: what the project's own production tests        *)
(* expect of messages, error codes, variables, stored entries, tape blocks and free memory, for every *)
(* RUN, immediate statement, SAVE, LOAD and VERIFY they make on the shipped sizes.  So does every      *)
(* case of the language's qualification: the compiler refuses a program where and as the corpus says, *)
(* and the virtual machine shows what it says or stops with its error; and a session keeps and loses  *)
(* its variables over RUN, statements, edits and NEW as the scenarios say.                            *)
ProductionCasesHold == Done("case") => out # 1

Next ==
  \/ MakeExtension \/ ProgramTape \/ TapeFor \/ WriteRwa \/ EncodeProgram
  \/ CheckService \/ CheckFpService \/ CheckPins \/ PackageWord \/ CheckPackage \/ PackageNames \/ CheckErrorCodes
  \/ CheckAsm \/ ExtractRoutine \/ LoadListing \/ JoinEqus
  \/ CheckRamLayout \/ CheckRamAliases \/ CheckBuiltinTables \/ CheckProvenance
  \/ CheckOpcodes \/ CheckJrRange \/ CheckBasicSource \/ CheckLabelBudget \/ RunCase
Spec == Init /\ [][Next]_vars
=============================================================================
