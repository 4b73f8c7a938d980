----------------------------- MODULE AsmSource ------------------------------
(***************************************************************************)
(* The tools that read assembler sources: extract_routine.py copies a       *)
(* routine out of a file, z80sim/sim.py's Program loads it and correlates   *)
(* it with an assembler listing, check_asm.py checks labels and stack use.  *)
(* A source line is a record                                               *)
(*   [kind, name, local, ins, to]                                          *)
(* kind: "blank", "comment", "equ", "label" (with or without an            *)
(* instruction after it) or "code"; ins: "none", "push", "pop", "call",    *)
(* "jump" (a jr, jp or call to the local label `to`) or another name.      *)
(***************************************************************************)
EXTENDS Integers, Sequences, SequencesExt, FiniteSets, FiniteSetsExt, Functions

None == "none"
IsGlobal(l) == l.kind = "label" /\ ~l.local
IsLocal(l) == l.kind = "label" /\ l.local

-----------------------------------------------------------------------------
(* extract_routine.py *)

\* The lines from the start label up to the end label or, without one, to the next other
\* global label; 0 when the start label is missing.
captured(lines, start, end) ==
  LET starts == {i \in DOMAIN lines : IsGlobal(lines[i]) /\ lines[i].name = start}
      from == Min(starts)
      ends == {i \in from + 1 .. Len(lines) : IsGlobal(lines[i]) /\
                 IF end # None THEN lines[i].name = end ELSE lines[i].name # start}
  IN  IF starts = {} THEN {} ELSE from .. (Min(ends \cup {Len(lines) + 1}) - 1)

\* Comment lines go; every other line that is not blank is preceded by a marker with its
\* place.  Elements: [marker |-> place] or [line |-> source line].
extract(path, lines, start, end, with_locations) ==
  LET body == captured(lines, start, end)
      kept == SelectSeq([i \in DOMAIN lines |-> i], LAMBDA i : i \in body /\ lines[i].kind # "comment")
      copy(i) == IF with_locations /\ lines[i].kind # "blank"
                 THEN <<[is |-> "marker", place |-> <<path, i>>], [is |-> "line", line |-> lines[i]]>>
                 ELSE <<[is |-> "line", line |-> lines[i]]>>
  IN  FlattenSeq([k \in DOMAIN kept |-> copy(kept[k])])
unmarked(lines) == [i \in DOMAIN lines |-> [is |-> "line", line |-> lines[i]]]

-----------------------------------------------------------------------------
(* sim.py, Program.load_file: rows [scope, label, ins, to, place]. *)

NoProgram == [rows |-> <<>>, scope |-> None, override |-> <<>>, index |-> <<>>, equs |-> <<>>]

\* One line of the file; a marker gives the next line that is not blank its place.  A global
\* label with an instruction after it is read as an instruction.
load_line(path, p, n, e) ==
  IF e.is = "marker" THEN [p EXCEPT !.override = e.place]
  ELSE IF e.line.kind = "blank" THEN p
  ELSE LET l == e.line
           q == [p EXCEPT !.override = <<>>]
           place == IF p.override # <<>> THEN p.override ELSE <<path, n>>
           row(s, label, ins) == [scope |-> s, label |-> label, ins |-> ins, to |-> l.to, place |-> place]
       IN  CASE l.kind = "comment" -> q
             [] l.kind = "equ" -> [q EXCEPT !.equs = Append(@, <<l.name, l.to>>)]
             [] IsGlobal(l) /\ l.ins = None ->
                  [q EXCEPT !.rows = Append(@, row(l.name, l.name, None)), !.scope = l.name,
                            !.index = Append(@, <<<<None, l.name>>, Len(p.rows) + 1>>)]
             [] IsLocal(l) ->
                  [q EXCEPT !.rows = Append(@, row(p.scope, l.name, l.ins)),
                            !.index = Append(@, <<<<p.scope, l.name>>, Len(p.rows) + 1>>)]
             [] OTHER -> [q EXCEPT !.rows = Append(@, row(p.scope, None, IF IsGlobal(l) THEN "unknown" ELSE l.ins))]
load_file(path, elements) ==
  FoldLeftDomain(LAMBDA p, n : load_line(path, p, n, elements[n]), NoProgram, elements)

\* SYSVARS after the file: each EQU in order, if its terms [sign, name] or [sign, value] have
\* values by then; a name already there keeps its value.
parse_val(terms, vars) ==
  LET value(t) == CASE "value" \in DOMAIN t -> {t.value}
                    [] "value" \notin DOMAIN t /\ t.name \in DOMAIN vars -> {vars[t.name]}
                    [] OTHER -> {}
      term(acc, t) == {a + t.sign * v : a \in acc, v \in value(t)}
  IN  FoldLeft(term, {0}, terms)
join_equs(equs, vars) ==
  LET join(acc, e) == IF e[1] \in DOMAIN acc \/ parse_val(e[2], acc) = {} THEN acc
                      ELSE [x \in DOMAIN acc \cup {e[1]} |->
                              IF x = e[1] THEN CHOOSE v \in parse_val(e[2], acc) : TRUE ELSE acc[x]]
  IN  FoldLeft(join, vars, equs)

\* The last definition of a label counts; 0 stands for the KeyError.
resolve_label(p, scope, name, local) ==
  LET at == {i \in DOMAIN p.index : p.index[i][1] = <<IF local THEN scope ELSE None, name>>}
  IN  IF at = {} THEN 0 ELSE p.index[Max(at)][2]

-----------------------------------------------------------------------------
(* sim.py, load_listing: a listing is a sequence of [is |-> "open", file], "close" and *)
(* [is |-> "line", line, address, text]; a file is [dir, base].                        *)

NoFile == [dir |-> None, base |-> None]
listing_entries(listing) ==
  LET step(acc, e) ==
        CASE e.is = "open" -> [acc EXCEPT !.stack = Append(@, acc.file), !.file = e.file]
          [] e.is = "close" ->
               [acc EXCEPT !.file = IF acc.stack = <<>> THEN NoFile ELSE Last(acc.stack),
                           !.stack = IF @ = <<>> THEN <<>> ELSE Front(@)]
          [] e.is = "line" /\ acc.file # NoFile ->
               [acc EXCEPT !.entries = @ \cup {<<acc.file.base, e.line, e.text, e.address>>}]
          [] OTHER -> acc
  IN  FoldLeft(step, [file |-> NoFile, stack |-> <<>>, entries |-> {}], listing).entries
\* The address of a row, when exactly one is listed for its file name, line and text.
assembled_address(listing, file, line, text) ==
  LET found == {e[4] : e \in {x \in listing_entries(listing) : <<x[1], x[2], x[3]>> = <<file.base, line, text>>}}
  IN  IF Cardinality(found) = 1 THEN found ELSE {}

-----------------------------------------------------------------------------
(* check_asm.py *)

parse_routines(lines) ==
  LET starts == SelectSeq([i \in DOMAIN lines |-> i], LAMBDA i : IsGlobal(lines[i]))
  IN  [k \in DOMAIN starts |->
         [name |-> lines[starts[k]].name, start |-> starts[k],
          end |-> IF k = Len(starts) THEN Len(lines) + 1 ELSE starts[k + 1]]]

check_duplicate_labels(lines) ==
  {i \in DOMAIN lines : IsGlobal(lines[i]) /\
     \E j \in 1 .. i - 1 : IsGlobal(lines[j]) /\ lines[j].name = lines[i].name}

\* The local labels of the last routine of that name.
scope_locals(lines, name) ==
  LET rs == {r \in ToSet(parse_routines(lines)) : r.name = name}
      last == CHOOSE r \in rs : \A q \in rs : q.start <= r.start
  IN  IF rs = {} THEN {} ELSE {lines[i].name : i \in {j \in last.start .. last.end - 1 : IsLocal(lines[j])}}
scope_of(lines, i) ==
  LET before == {j \in 1 .. i : IsGlobal(lines[j])} IN
  IF before = {} THEN None ELSE lines[Max(before)].name
\* (Mutant of check_local_label_scope: any label of the file will do.)
check_local_label_scopeAny(lines) ==
  {i \in DOMAIN lines : lines[i].ins = "jump" /\ ~\E j \in DOMAIN lines : lines[j].name = lines[i].to}

\* A line with a global label is not looked into.
check_local_label_scope(lines) ==
  {i \in DOMAIN lines : /\ lines[i].ins = "jump" /\ ~IsGlobal(lines[i])
                        /\ lines[i].to \notin scope_locals(lines, scope_of(lines, i))}

LOOK == 14  \* lines of a routine that are looked at after its label
check_stack_ordering_fingerprint(lines, audited) ==
  {r.name : r \in {q \in ToSet(parse_routines(lines)) :
     /\ q.name \notin audited
     /\ \E i \in q.start + 1 .. Min({q.start + LOOK, q.end - 1}) :
          /\ lines[i].kind = "code" /\ lines[i].ins = "pop"
          /\ \A j \in q.start + 1 .. i - 1 : ~(lines[j].kind = "code" /\ lines[j].ins \in {"push", "pop"})}}

main_fails(lines) == check_duplicate_labels(lines) # {} \/ check_local_label_scope(lines) # {}
=============================================================================
