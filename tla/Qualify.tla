-------------------------------- MODULE Qualify --------------------------------
(***************************************************************************)
(* The expectations of the qualification corpus (tools/qual/qexpect.py): a  *)
(* program is compiled and run, and what it shows or how it ends is checked.*)
(* Numbers are exact here, so the tolerance for the last bit is left out.   *)
(***************************************************************************)
EXTENDS VM

RECURSIVE trimmed(_), shown(_)
trimmed(s) == IF s # "" /\ char(s, Len(s)) = " " THEN trimmed(SubSeq(s, 1, Len(s) - 1)) ELSE s
shown(rows) == IF rows # <<>> /\ rows[Len(rows)] = "" THEN shown(SubSeq(rows, 1, Len(rows) - 1)) ELSE rows
text_of(s) == shown([r \in 1 .. 24 |-> trimmed(s.rows[r - 1].text)])
\* ce, line: the compile error and where; ve: the run's error; rows: the screen, without its empty end; vm: the machine.
result(lines, keys) ==
  LET c == V2_COMPILE_AT_BASE(lines)
      s == VM_RUN(VM_INIT(c.code, keys, ScreenOff), 16)
  IN IF c.err # 0 THEN [ce |-> c.err, line |-> c.line, ve |-> 0, ok |-> TRUE, rows |-> <<>>]
     ELSE [ce |-> 0, line |-> 0, ve |-> s.err, ok |-> s.status \in {"halted", "error"},
           rows |-> text_of(s), vm |-> s]

\* The texts a printed number may have: plain, with four decimals rounded half away from zero, or either.
I(n) == {ToString(n)}
fmt_float(p, q) ==
  LET a == abs(p)
      rest == (a % q) * 10000
      down == rest \div q
      parts == IF 2 * (rest % q) >= q THEN down + 1 ELSE down
      text == ToString((a \div q) + (parts \div 10000)) \o "." \o SubSeq(ToString(10000 + (parts % 10000)), 2, 5)
  IN IF p < 0 THEN "-" \o text ELSE text
F(p, q) == {fmt_float(p, q)}
Num(n) == {ToString(n), fmt_float(n, 1)}

\* A case: a program, the lines typed at its INPUTs, and what is expected of the run.
program(lines, keys, want) == [lines |-> lines, keys |-> keys, want |-> want]
shows(items) == [is |-> "shows", rows |-> items]
exactly(rows) == [i \in DOMAIN rows |-> {rows[i]}]
Out(lines, rows) == program(lines, <<>>, shows(exactly(rows)))
OutKeys(lines, keys, rows) == program(lines, keys, shows(exactly(rows)))
\* Each row is one of the texts of its item.
Lines(lines, items) == program(lines, <<>>, shows(items))
Prints(lines, item) == Lines(lines, <<item>>)
arith(expr, item) == Prints(<<"PRINT " \o expr>>, item)
refused(lines, codes, where) == program(lines, <<>>, [is |-> "refused", codes |-> codes, where |-> where])
CErr(lines, code) == refused(lines, {code}, 0 .. 200)
CErrAt(lines, code, line) == refused(lines, {code}, {line})
CErrAny(lines) == refused(lines, 1 .. 255, 0 .. 200)
RErrs(lines, codes) == program(lines, <<>>, [is |-> "fails", codes |-> codes])
RErr(lines, code) == RErrs(lines, {code})
AnyErr(lines) == program(lines, <<>>, [is |-> "any error"])
OkOrErr(lines, rows) == program(lines, <<>>, [is |-> "shows or error", rows |-> rows])
\* The predicates of single cases: a row of the screen, its first attribute, an array after a store that failed.
row_is(lines, n, text) == program(lines, <<>>, [is |-> "row", row |-> n, text |-> text])
attr0(lines, values) == program(lines, <<>>, [is |-> "attribute", values |-> values])
keeps(lines, x, values) == program(lines, <<>>, [is |-> "keeps", array |-> x, values |-> values, codes |-> {10}])
stores(lines, x, values) == program(lines, <<>>, [is |-> "keeps", array |-> x, values |-> values, codes |-> 0 .. 255])
keeps_texts(lines, x, values) == program(lines, <<>>, [is |-> "keeps texts", array |-> x, values |-> values])
ends(lines, rows, ce, ve) == program(lines, <<>>, [is |-> "ends", rows |-> rows, ce |-> ce, ve |-> ve])
waits_or(lines, row) == program(lines, <<>>, [is |-> "waits", row |-> row])

\* The relational operators, by the orders of the two operands they accept.
order(p) == IF p[1] < p[2] THEN "lt" ELSE IF p[1] = p[2] THEN "eq" ELSE "gt"
Ops == <<<<"<", {"lt"}>>, <<"<=", {"lt", "eq"}>>, <<"=", {"eq"}>>, <<">=", {"eq", "gt"}>>, <<">", {"gt"}>>, <<"<>", {"lt", "gt"}>>>>

clean(r) == r.ce = 0 /\ r.ve = 0 /\ r.ok
elements(a, none) == [i \in 1 .. a.count |-> get(a.vals, i - 1, none)[2]]
check(case) ==
  LET e == case.want
      r == result(case.lines, case.keys)
  IN CASE e.is = "shows" -> clean(r) /\ Len(r.rows) = Len(e.rows) /\ \A i \in DOMAIN e.rows : r.rows[i] \in e.rows[i]
       [] e.is = "refused" -> r.ce \in e.codes /\ r.line \in e.where
       [] e.is = "fails" -> r.ce = 0 /\ r.ve \in e.codes /\ r.ok
       [] e.is = "any error" -> (r.ce # 0 \/ r.ve # 0) /\ r.ok
       [] e.is = "shows or error" -> r.ok /\ (r.ce # 0 \/ r.ve # 0 \/ r.rows = e.rows)
       [] e.is = "row" -> clean(r) /\ r.rows[e.row] = e.text
       [] e.is = "attribute" -> r.ce = 0 /\ attr_at(r.vm, 0, 0) \in e.values
       [] e.is = "keeps" -> r.ce = 0 /\ r.ve \in e.codes /\ (r.ve = 0 \/ elements(r.vm.arrs[e.array], INT(0)) = e.values)
       [] e.is = "keeps texts" -> r.ce = 0 /\ r.ve = 10 /\ elements(r.vm.sarrs[e.array], STR("")) = e.values
       [] e.is = "ends" -> r.ce = e.ce /\ r.ve = e.ve /\ r.ok /\ r.rows = e.rows
       [] e.is = "waits" -> r.ve # 0 \/ (r.vm.status = "wait" /\ r.rows = <<>>) \/ (clean(r) /\ r.rows = <<e.row>>)

\* A run of the corpus (qrun.py): the status of a case, and the exit status of the run; no defect is marked in this version.
status(case, known) == IF check(case) THEN IF known THEN "XPASS" ELSE "PASS" ELSE IF known THEN "XFAIL" ELSE "FAIL"
failing(cases) == SelectSeq(cases, LAMBDA case : status(case, FALSE) \in {"FAIL", "XPASS"})
qrun(cases) == IF failing(cases) # <<>> THEN 1 ELSE 0
=============================================================================
