------------------------------- MODULE MCTools -------------------------------
(* Inputs for the tools. *)
EXTENDS Tools, TLC

G == INSTANCE Gate
CONSTANT Verdicts
MCVerdicts == LET suites == G!Suites
                  corpora == G!Corpora
                  sessions == G!Life!Scenarios
              IN [s \in DOMAIN suites |-> [c \in DOMAIN suites[s] |-> G!run_suite(suites[s], c)]]
                 @@ [s \in DOMAIN corpora |-> [g \in DOMAIN corpora[s] |-> G!Life!qrun(corpora[s][g])]]
                 @@ ("sessions" :> [g \in DOMAIN sessions |-> G!Life!qlifecycle(sessions[g])])
MCExit(s, c) == Verdicts[s][c]
Selections == UNION {{<<s, c>> : c \in DOMAIN Verdicts[s]} : s \in DOMAIN Verdicts}

Sources == {<<>>, <<0>>, <<255, 1>>, <<13, 0, 170>>}
none == T!None
Faults == {[htype |-> h, header_length |-> l, autostart |-> a, data_flag |-> f, bad_checksum |-> c,
            dropout |-> d, truncate_after |-> t] :
             h \in {0, 3}, l \in {none, [n |-> 2], [n |-> 1]}, a \in {AUTO, 1}, f \in {255, 0}, c \in BOOLEAN,
             d \in {none, [first |-> 0, count |-> 1], [first |-> 2, count |-> 0], [first |-> 3, count |-> 1],
                    [first |-> 4, count |-> 1]},
             t \in {none, [n |-> 0], [n |-> 1], [n |-> 3], [n |-> 4]}}
\* The options that differ from the default.
faulty(o) == {k \in DOMAIN o : o[k] # T!nominal(AUTO)[k]}

op(name, to) == [op |-> name, to |-> to]
Plain == op("other", 0)
Listing(cells) == [a \in 2 .. 8 |-> IF a - 1 \in DOMAIN cells THEN cells[a - 1] ELSE op("ret", 0)]
ServiceOps == {op("ret", 0), Plain, op("call", 3), op("call", 9), op("jp", 9), op("jr cc", 4), op("rst", 1),
               op("jp (hl)", 0), op("mem", 10), op("mem", 3), op("jp", 20)}
FpOps == {op("call", FP.page_in), op("call", FP.page_out), op("call", FP.exrom_call), op("ret", 0), Plain,
          op("jr cc", 4), op("calc", 0)}

PackageOps == {op("ret", 0), op("call", 1), op("call cc", 2), op("jp", 3), op("jr", 20), op("mem", 5), op("mem", 6), op("jp", 0)}
Pins == {<<"P", a, n>> : a \in 0 .. 2, n \in 1 .. 2}
AbiLines == <<[kind |-> "svc", name |-> "OUTSIDE", home |-> "h", since |-> 3],
              [kind |-> "equ", name |-> "PKG_ABI_WORD", value |-> 513],
              [kind |-> "macro", name |-> "PKG_SVC_LIST"],
              [kind |-> "svc", name |-> "OLD", home |-> "h1", since |-> 0],
              [kind |-> "svc", name |-> "NEW", home |-> "h2", since |-> 1],
              [kind |-> "endm"], [kind |-> "macro", name |-> "PKG_PIN_LIST"],
              [kind |-> "pin", name |-> "CELL", addr |-> 5, size |-> 1, since |-> 2], [kind |-> "endm"]>>
Include(f) == [kind |-> "include", file |-> f]
Words(ws) == [kind |-> "code", words |-> ws]
FileLines == {<<>>, <<Words({"OLD"})>>, <<Words({"CELL"}), Include("a")>>, <<Include("b"), Words({"NEW", "OUTSIDE"})>>,
              <<Include("b"), Include("a"), Words({"EXT_KIND_FN"})>>}

Entry(name) == <<name, 1, 2, 3, 4>>
Table(names) == FlattenSeq([i \in DOMAIN names |-> Entry(names[i])])
Names == {<<>>, <<-1>>, <<-1, -2>>, <<-3, -1, -2>>}

line(label, ins, code, to) == [label |-> label, local |-> FALSE, ins |-> ins, code |-> code, to |-> to]
RaiseLines == {line("", "ld", 5, ""), line("", "ld", 70, ""), line("", "store", 0, ""), line("", "raise", 0, ""),
               line("", "go", 0, "FAIL"), line("", "other", 0, "")}
Routines == {<<line("FAIL", "none", 0, ""), line("", "store", 0, "")>>, <<line("FAIL", "store", 0, "")>>,
             <<line("FAIL", "ld", 5, ""), line("", "store", 0, "")>>,
             <<line("FAIL", "other", 0, ""), line("", "store", 0, "")>>}

asm(kind, name, local, ins, to) == [kind |-> kind, name |-> name, local |-> local, ins |-> ins, to |-> to]
AsmLines == {asm("label", "A", FALSE, "none", ""), asm("label", "B", FALSE, "none", ""),
             asm("label", "x", TRUE, "none", ""), asm("label", "y", TRUE, "jump", "x"),
             asm("code", "none", FALSE, "jump", "x"), asm("code", "none", FALSE, "pop", ""),
             asm("code", "none", FALSE, "push", ""), asm("comment", "none", FALSE, "none", ""),
             asm("blank", "none", FALSE, "none", "")}
Files == {[dir |-> "rom", base |-> "a"], [dir |-> "inc", base |-> "b"], [dir |-> "old", base |-> "a"]}
listed(n) == [is |-> "line", line |-> n, address |-> 0, text |-> "t"]
ListingLines == {[is |-> "open", file |-> f] : f \in Files} \cup {[is |-> "close"], listed(1), listed(2)}
Addressed(l) == [i \in DOMAIN l |-> IF l[i].is = "line" THEN [l[i] EXCEPT !.address = i] ELSE l[i]]
FilesOf(l) == {l[i].file : i \in {j \in DOMAIN l : l[j].is = "open"}}
Terms == {<<[sign |-> 1, value |-> 4]>>, <<[sign |-> 1, name |-> "P"], [sign |-> 1, value |-> 1]>>,
          <<[sign |-> 1, name |-> "Q"], [sign |-> -1, name |-> "P"]>>, <<[sign |-> 1, name |-> "R"]>>}

Bounds == [PROG_AREA_START |-> 32772, VM_CODE_BASE |-> 32774, V2_SOURCE_END |-> 32774, V2_CODE_LIMIT |-> 32776,
           V2_CODE_SIZE |-> 2, V2_ZONE_BASE |-> 32778, V2_ZONE_SIZE |-> 2, ARR2_BASE |-> 23296, ARR2_LIMIT |-> 23298]
Layouts == {Bounds, [Bounds EXCEPT !["V2_ZONE_BASE"] = 32775], [Bounds EXCEPT !["V2_SOURCE_END"] = 32773],
            [Bounds EXCEPT !["PROG_AREA_START"] = 32766], [Bounds EXCEPT !["ARR2_LIMIT"] = 30721]}
code(names) == [addr |-> 49152, skipped |-> FALSE, emits |-> TRUE, equ |-> "none", names |-> names]
equ(n, names) == [addr |-> 0, skipped |-> FALSE, emits |-> FALSE, equ |-> n, names |-> names]
ListedCode == {<<code({"X"})>>, <<code({"Y"}), equ("Y", {"X"})>>, <<[code({"X"}) EXCEPT !.skipped = TRUE]>>,
               <<equ("Y", {"Z", "X"}), equ("Z", {"Y"}), code({"Z"})>>, <<code({"VM_CODE_BASE"}), equ("Y", {"X"})>>}
Cells == {23295, 23296, 23297, 32767, 32772, 32775, 32776, 32778, 32780}

Kept == [TOKEN_BUF |-> 0, STATUS_BUF |-> 0, EDIT_LABEL_COPY |-> 0, MULTI_STMT_BUF |-> 0,
         EDIT_LINE_BUF |-> 200, STR_FUNC_POOL |-> 400, STORAGE_LOAD_NAME_BUF |-> 40]
fn(name, argc, idx) == [len |-> 3, true_len |-> 3, name |-> name, argc |-> argc, idx |-> idx,
                        at |-> [dollar |-> FALSE, bits |-> argc % 3]]
Rows3 == {fn("SIN", 1, 0), fn("SIN", 1, 1), fn("LEN", 2, 1), fn("LEN", 2, 2), [fn("MID", 3, 1) EXCEPT !.len = 4]}
drow(name, argc) == [name |-> <<name, FALSE>>, argc |-> argc, bits |-> argc % 3]

ins(m, d, s) == [label |-> "none", local |-> FALSE, mnem |-> m, dst |-> d, src |-> s, to |-> "none"]
Operands == {"a", "b", "h", "rr", "hl", "ix", "(hl)", "(bc)", "(de)", "(ix+d)", "(nn)", "n"}
jump(m, to) == [ins(m, "none", "none") EXCEPT !.to = to]
named(l, n, local) == [l EXCEPT !.label = n, !.local = local]
Fillers == {ins("ldir", "none", "none"), ins("add", "a", "n"), ins("xor", "a", "none"), ins("inc", "ix", "none")}
copies(l, n) == [i \in 1 .. n |-> l]
Body(f, n, k) == copies(ins("ld", "hl", "n"), n) \o copies(f, k)

BASIC == {[B!BlankLine EXCEPT !.dims = <<<<"A", 2>>>>, !.uses = {<<"A", 2>>}],
          [B!BlankLine EXCEPT !.dims = <<<<"A", 3>>, <<"B", 2>>>>, !.uses = {<<"A", 3>>, <<"B", 2>>}],
          [B!BlankLine EXCEPT !.uses = {<<"A", 1>>, <<"B", 2>>}], [B!BlankLine EXCEPT !.uses = {<<"A", 2>>}],
          [B!BlankLine EXCEPT !.fors = <<<<"I", 2>>>>], [B!BlankLine EXCEPT !.next = TRUE],
          [B!BlankLine EXCEPT !.indexed = {<<"A", "I">>}]}

MCInputs(t) ==
  CASE t = "extension" -> {[module |-> m, word |-> w] : m \in Sources, w \in {1, 512}}
    [] t = "program" -> {[source |-> <<255, 1>>, options |-> o] : o \in {f \in Faults : Cardinality(faulty(f)) <= 2}}
    [] t = "distorted" ->
         {[source |-> <<129>>, d |-> [speed |-> s, bits |-> b, jitter |-> j, pilot |-> p, gap |-> g]] :
            s \in {75, 95, 100, 105, 125}, b \in {80, 100, 120, 190}, j \in {<<0, 0>>, <<10, -10>>, <<-5, 5>>},
            p \in {2, 4}, g \in {0, 441}}
    [] t = "rwa" -> {[source |-> s, lead |-> n] : s \in Sources, n \in {0, 7, 1000}}
    [] t = "records" -> {[lines |-> l, limit |-> 2] : l \in SeqOf({<<>>, <<65>>, <<13, 0>>, <<1, 2, 3>>}, 3)}
    [] t = "service" -> {[root |-> 2, ins |-> Listing(c)] : c \in TupleOf(ServiceOps, 3)}
    [] t = "fp service" -> {[root |-> r, ins |-> Listing(c)] : r \in {2, 3}, c \in TupleOf(FpOps, 4)}
    [] t = "pins" -> {[pins |-> ps, scratch |-> s, hsym |-> [P |-> h]] :
                        ps \in SeqOf(Pins, 2), s \in {<<2, 4>>, <<4, 4>>}, h \in {1, 2}}
    [] t = "minor" -> {[abi |-> AbiLines, tree |-> tree, source |-> "p"] : tree \in [{"p", "a", "b"} -> FileLines]}
    [] t = "package" -> {[code |-> {20, 21}, ins |-> (20 :> i) @@ (21 :> j), home |-> <<h, op("jp", 7), op("jp", 9)>>,
                          services |-> sv, first |-> 1, reserved |-> 3, hsym |-> [r1 |-> 6, r2 |-> 7], trap |-> 9,
                          allowed |-> {5}] :
                           i \in PackageOps, j \in PackageOps, h \in {op("jp", 6), op("jp", 7), op("ret", 0)},
                           sv \in {<<<<"S1", "r1">>, <<"S2", "r2">>>>, <<<<"S1", "r1">>>>}}
    [] t = "exports" -> {[module |-> <<33, 3, 0, 195>> \o Table(n) \o tail, table |-> 4, exports |-> TRUE, names |-> n] :
                           n \in Names, tail \in {<<>>, <<0, -5>>}}
                        \cup {[module |-> <<7>> \o Table(n), table |-> 4, exports |-> FALSE, names |-> n] : n \in Names}
    [] t = "errors" -> {[lines |-> <<line("MAIN", "none", 0, "")>> \o b \o <<line("", "ret", 0, "")>> \o f
                                    \o <<line("", "ret", 0, "")>>, ok |-> {5}] :
                          b \in TupleOf(RaiseLines, 3), f \in Routines}
    [] t = "labels" -> {[lines |-> l] : l \in TupleOf(AsmLines, 4)}
    [] t = "extract" -> {[lines |-> l, start |-> "A", end |-> e] : l \in TupleOf(AsmLines, 4), e \in {"none", "B"}}
    [] t = "listing" -> {[listing |-> Addressed(l), files |-> FilesOf(l), asked |-> FilesOf(l) \X {1, 2}, text |-> "t"] :
                           l \in TupleOf(ListingLines, 5)}
    [] t = "equs" -> {[equs |-> <<<<"P", a>>, <<"Q", b>>, <<n, c>>>>, vars |-> v] :
                        a \in Terms, b \in Terms, c \in Terms, n \in {"P", "R"}, v \in {<<>>, [Q |-> 9]}}
    [] t = "layout" -> {[home |-> [syms |-> S_ @@ [X |-> x, Y |-> 0, Z |-> 1], lines |-> h],
                         exrom |-> [syms |-> [X |-> y] @@ S_, lines |-> e], pins |-> {<<"P", p, 2>>, <<"S", 32790, B!SCRATCH>>}] :
                           S_ \in Layouts, x \in Cells, y \in {32776, 32778}, h \in ListedCode, e \in ListedCode,
                           p \in {32770, 32771, 32776, 32779}}
    [] t = "aliases" -> {[syms |-> [Kept EXCEPT ![n] = v]] : n \in DOMAIN Kept, v \in {0, 1, 22, 23, 31, 32, 72, 73, 272, 328, 527}}
    [] t = "tables" -> {[rows |-> r, count |-> c, jump |-> j, drows |-> d] :
                          r \in SeqOf(Rows3, 3), c \in 1 .. 3, j \in {<<0>>, <<0, 1>>, <<1, 0>>, <<0, 1, 2>>},
                          d \in {<<drow("SIN", 1)>>, <<drow("SIN", 1), drow("LEN", 2)>>, <<drow("SIN", 1), drow("SIN", 1)>>,
                               <<drow("SIN", 1), drow("LEN", 5)>>}}
    [] t = "provenance" -> {[img |-> i, rom |-> r, min |-> 2, labels |-> {<<1, "START">>, <<3, "NEXT">>}, allowed |-> {<<"START", 2>>}] :
                              i \in TupleOf(1 .. 3, 4), r \in TupleOf(1 .. 3, 4)}
    [] t = "opcodes" -> {[lines |-> <<ins(o, d, s)>>] : o \in {"ld", "add"}, d \in Operands \ {"none"}, s \in Operands}
                        \cup {[lines |-> <<ins("cp", d, "none")>>] : d \in Operands}
    [] t = "ranges" -> {[lines |-> <<ins("call", "none", "none"), named(ins("none", "none", "none"), ".x", TRUE)>>
                                   \o Body(f, n, k) \o <<jump("djnz", ".x"), jump("jr", "FAR")>> \o Body(f, n, k)
                                   \o <<named(ins("none", "none", "none"), "FAR", FALSE)>>] :
                          f \in Fillers, n \in 36 .. 42, k \in {0, 6, 10, 14}}
    [] t = "basic" -> {[lines |-> l] : l \in TupleOf(BASIC, 4) \cup {x[1] : x \in B!BasicTests}}
    [] t = "budget" -> {[lines |-> [i \in 1 .. n |-> [B!BlankLine EXCEPT !.label = k]]] : n \in 0 .. 22, k \in 3 .. 9}
    [] t = "case" -> Selections
=============================================================================
