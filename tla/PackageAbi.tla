----------------------------- MODULE PackageAbi -----------------------------
(***************************************************************************)
(* The package interface's static checks: tools/v2_abi.py reads the ABI     *)
(* file and finds the minor a package needs, make_extension_tzx.py finds    *)
(* the names a package registers,                                           *)
(* check_package_abi.py compares the built images with the file.  A listing *)
(* is a function from addresses to instructions, a source a sequence of     *)
(* lines; text is abstracted to what the checks read from it.               *)
(***************************************************************************)
EXTENDS Integers, Sequences, SequencesExt, FiniteSets, FiniteSetsExt, Functions

RECURSIVE needs(_, _, _, _), closing(_, _, _, _)

-----------------------------------------------------------------------------
(* v2_abi.py: lines of include/v2_package_abi.inc, each with the minor its comment names. *)

NoAbi == [in_macro |-> "none", services |-> <<>>, consts |-> <<>>, pins |-> <<>>,
          svc_minor |-> <<>>, pin_minor |-> <<>>, env |-> <<>>]

\* svc_minor, pin_minor and env are lists of pairs: a later pair for a name wins.
abi_line(abi, l) ==
  CASE l.kind = "macro" -> [abi EXCEPT !.in_macro = l.name]
    [] l.kind = "endm" -> [abi EXCEPT !.in_macro = "none"]
    [] l.kind = "equ" /\ abi.in_macro = "none" -> [abi EXCEPT !.env = Append(@, <<l.name, l.value>>)]
    [] l.kind = "svc" /\ abi.in_macro = "PKG_SVC_LIST" ->
         [abi EXCEPT !.services = Append(@, <<l.name, l.home>>),
                     !.svc_minor = Append(@, <<l.name, l.since>>)]
    [] l.kind = "const" /\ abi.in_macro = "PKG_CONST_LIST" ->
         [abi EXCEPT !.consts = Append(@, <<l.name, l.value>>)]
    [] l.kind = "pin" /\ abi.in_macro = "PKG_PIN_LIST" ->
         [abi EXCEPT !.pins = Append(@, <<l.name, l.addr, l.size>>),
                     !.pin_minor = Append(@, <<l.name, l.since>>)]
    [] OTHER -> abi
Abi(lines) == FoldLeft(abi_line, NoAbi, lines)

latest(pairs, name, default) ==
  LET at == {i \in DOMAIN pairs : pairs[i][1] = name} IN
  IF at = {} THEN default ELSE pairs[Max(at)][2]
\* svc_minor, updated with pin_minor and the signature constants.
MINOR_CONSTS == <<<<"EXT_KIND_FN", 1>>, <<"EXT_KIND_STR", 1>>, <<"EXT_SIG_FLOAT", 1>>>>
since(abi, word) == latest(abi.svc_minor \o abi.pin_minor \o MINOR_CONSTS, word, 0)

\* The work list of needed_minor: `todo` is popped from its end.
needs(abi, tree, todo, acc) ==
  IF todo = <<>> THEN acc.need
  ELSE LET f == Last(todo) IN
       IF f \in acc.seen THEN needs(abi, tree, Front(todo), acc)
       ELSE LET found == SelectSeq(tree[f], LAMBDA l : l.kind = "include")
                words == UNION {l.words : l \in {m \in ToSet(tree[f]) : m.kind = "code"}}
            IN  needs(abi, tree, Front(todo) \o [i \in DOMAIN found |-> found[i].file],
                      [seen |-> acc.seen \cup {f},
                       need |-> Max({acc.need} \cup {since(abi, w) : w \in words})])
needed_minor(abi, tree, source) == needs(abi, tree, <<source>>, [seen |-> {}, need |-> 0])
package_word(abi, tree, source) ==
  256 * (latest(abi.env, "PKG_ABI_WORD", 0) \div 256) + needed_minor(abi, tree, source)

-----------------------------------------------------------------------------
(* make_extension_tzx.py: names *)

\* module: cells from 0 on, a name with its NUL or a byte in each; the export table when the code begins
\* with ld hl,table / jp EXT2_EXPORTS, else every string that looks like a name.
RECURSIVE entries(_, _)
entries(module, i) ==
  IF i < 0 \/ i >= Len(module) \/ module[i + 1] = 0 THEN <<>>
  ELSE <<module[i + 1]>> \o entries(module, i + 5)
package_names(module, table, exports) ==
  IF exports THEN entries(module, table)
  ELSE SelectSeq(module, LAMBDA c : c \notin 0 .. 255)

-----------------------------------------------------------------------------
(* check_package_abi.py: control flow.  An instruction is one cell long:        *)
(* [op, to] with `to` the operand of a transfer or a memory reference.         *)

LOW == 2        \* addresses below are the low ROM ($0100)
CHUNK6 == 9     \* addresses from here on are chunk 6 ($C000-$DFFF)

Conditional == {"call cc", "jp cc", "jr cc", "djnz"}
Transfers == Conditional \cup {"call", "jp", "jr", "rst", "calc"}
Dynamic == {"jp (hl)", "jp (ix)"}
Terminal == {"jp", "jr", "ret", "reti"} \cup Dynamic
decode(addr, ins) ==
  LET i == ins[addr] IN
  [next |-> IF i.op \in Terminal THEN {} ELSE {addr + 1},
   targets |-> IF i.op \in Transfers THEN {i.to} ELSE {},
   refs |-> IF i.op = "mem" THEN {i.to} ELSE {},
   dyn |-> i.op \in Dynamic]

\* What closure() appends to bad at one instruction.  With the image given, "calc" (RST $28) is
\* the calculator, which resumes after its literals (here: after the next cell).
bad_at(a, d, targets) ==
  {<<"indirect jump", a>> : x \in IF d.dyn THEN {1} ELSE {}}
    \cup {<<"transfers into chunk 6 (EXROM)", a, t>> : t \in {u \in targets : u >= CHUNK6}}
    \cup {<<"low-ROM vector", a, t>> : t \in {u \in targets : u < LOW /\ u # 0 /\ u # a}}
    \cup {<<"data reference into chunk 6", a, r>> : r \in {u \in d.refs : u >= CHUNK6}}
closing(work, ins, stop, acc) ==
  IF work = {} THEN acc
  ELSE LET a == CHOOSE x \in work : TRUE  rest == work \ {a} IN
       CASE a \in acc.seen \cup stop -> closing(rest, ins, stop, acc)
         [] a \notin acc.seen \cup stop /\ a \notin DOMAIN ins ->
              closing(rest, ins, stop \cup {a},
                      [acc EXCEPT !.bad = @ \cup {<<"no listed instruction", a>>}])
         [] OTHER ->
              LET d == decode(a, ins)
                  calc == acc.image /\ ins[a].op = "calc"
                  targets == IF calc THEN {} ELSE d.targets
              IN  closing(rest \cup targets \cup (IF calc THEN {a + 2} ELSE d.next), ins, stop,
                          [acc EXCEPT !.seen = @ \cup {a},
                                      !.bad = @ \cup bad_at(a, d, targets)])
closure(entry, ins, stop, image) ==
  closing({entry}, ins, stop, [seen |-> {}, bad |-> {}, image |-> image])

\* check_fp_service: from the service and the calculator stubs the EXROM may be reached through
\* RST $28 and through the one call between BANK_PAGE_EXROM_IN and _OUT.
fp_bad(roots, ins, trampoline, exrom_call) ==
  UNION {closure(r, ins, {trampoline, exrom_call}, TRUE).bad : r \in roots}
fp_calls(roots, ins, trampoline, exrom_call) ==
  {b[2] : b \in {x \in fp_bad(roots, ins, trampoline, exrom_call) :
                   x[1] = "transfers into chunk 6 (EXROM)" /\ x[3] = exrom_call}}
\* (Mutant of bracketed: a paging call after it is enough.)
bracketedAfter(a, ins, page_in, page_out) ==
  \E k \in {a + 1, a + 2} : k \in DOMAIN ins /\ ins[k] = [op |-> "call", to |-> page_out]

bracketed(a, ins, page_in, page_out) ==
  /\ a - 1 \in DOMAIN ins /\ ins[a - 1] = [op |-> "call", to |-> page_in]
  /\ \E k \in {a + 1, a + 2} : k \in DOMAIN ins /\ ins[k] = [op |-> "call", to |-> page_out]
check_fp_service(roots, ins, f) ==
  LET calls == fp_calls(roots, ins, f.trampoline, f.exrom_call) IN
  /\ \A b \in fp_bad(roots, ins, f.trampoline, f.exrom_call) :
       b[1] = "transfers into chunk 6 (EXROM)" /\ b[3] = f.exrom_call
  /\ calls # {} /\ \A a \in calls : bracketed(a, ins, f.page_in, f.page_out)

\* Rule 5: what a package's code may transfer to and refer to.
package_bad(code, ins, slots, allowed) ==
  {a \in code : \/ \E t \in decode(a, ins).targets : t \notin code /\ t \notin slots /\ t # 0
                \/ \E r \in decode(a, ins).refs : r \notin allowed}

\* Rule 1: home is the image; a slot is `jp routine`, every reserved one a jump to the trap.
slots_bad(home, services, first, reserved, hsym, trap) ==
  {i \in DOMAIN services : home[first + i - 1] # [op |-> "jp", to |-> hsym[services[i][2]]]}
    \cup {i \in Len(services) + 1 .. reserved : home[first + i - 1] # [op |-> "jp", to |-> trap]}

\* Rules 2 and 3: pins that moved, and neighbours (sorted by address) that overlap.
ranges_of(pins, scratch) ==
  SortSeq([i \in DOMAIN pins |-> <<pins[i][2], pins[i][2] + pins[i][3]>>] \o <<scratch>>,
          LAMBDA p, q : p[1] < q[1] \/ (p[1] = q[1] /\ p[2] < q[2]))
pins_bad(pins, scratch, hsym) ==
  LET rs == ranges_of(pins, scratch) IN
  {<<"moved", i>> : i \in {j \in DOMAIN pins : hsym[pins[j][1]] # pins[j][2]}}
    \cup {<<"overlap", i>> : i \in {j \in 1 .. Len(rs) - 1 : rs[j + 1][1] < rs[j][2]}}

-----------------------------------------------------------------------------
(* Rule 7, check_error_codes: lines [label, local, ins]; ins is "none", "ld" (ld a,code), *)
(* "store" (ld (VM_ERROR_CODE),a), "raise" (a transfer to VM_RAISE_ERROR), "go" (a        *)
(* transfer to a named routine) or "other".                                               *)

instructions(lines) == SelectSeq(lines, LAMBDA l : l.label # "" \/ l.ins # "none")
\* The global labels whose first instruction is the store.
raise_routines(lines) ==
  LET ls == instructions(lines)
      first(i) == IF ls[i].ins # "none" \/ i = Len(ls) THEN ls[i].ins ELSE ls[i + 1].ins
  IN  {ls[i].label : i \in {j \in DOMAIN ls : ls[j].label # "" /\ ~ls[j].local /\ first(j) = "store"}}

\* The index of the last line before k that holds an instruction, or 0.
prev_of(lines, k) == Max({0} \cup {i \in 1 .. k - 1 : lines[i].ins # "none"})
\* The routine whose first instruction line k holds: the last global label since the one before.
entry_of(lines, k) ==
  LET labels == {i \in prev_of(lines, k) + 1 .. k : lines[i].label # "" /\ ~lines[i].local} IN
  IF labels = {} THEN "" ELSE lines[Max(labels)].label
raises(lines, k) ==
  \/ lines[k].ins = "store" /\ entry_of(lines, k) \notin raise_routines(lines)
  \/ lines[k].ins = "raise"
  \/ lines[k].ins = "go" /\ lines[k].to \in raise_routines(lines)
error_failures(lines, ok) ==
  {k \in DOMAIN lines : raises(lines, k) /\
     LET p == prev_of(lines, k) IN p = 0 \/ lines[p].ins # "ld" \/ lines[p].code \notin ok}
=============================================================================
