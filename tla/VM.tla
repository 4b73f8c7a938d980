---------------------------------- MODULE VM ----------------------------------
(***************************************************************************)
(* The V2 bytecode machine running one compiled program: operand stack,     *)
(* control stack, variables, arrays, and the screen it writes.  Text rows   *)
(* and pixels are kept apart (printing a character sets no pixel here), and *)
(* the program text's own share of the memory pool is left out.  Functions  *)
(* of the calculator (SQR, SIN, RND...) and USR, IN, FREE have no arm.      *)
(***************************************************************************)
EXTENDS Compiler

OPERANDS == 41          \* what the operand stack holds
POOL == 9211            \* bytes shared by arrays (up) and the control stack (down)
SEGMENT2 == 7424        \* bytes of the second array segment
ATTR_DEFAULT == 56
FrameSize == [for |-> 12, call |-> 3, param |-> 9]
blank_row(attr) == [text |-> "", base |-> attr, attrs |-> Nothing]
DefaultLook == [ink |-> 0, paper |-> 7, bright |-> 0, flash |-> 0, over |-> 0, inverse |-> 0]
ScreenOff == [row |-> 0, col |-> 0, rows |-> [r \in 0 .. 23 |-> blank_row(ATTR_DEFAULT)], look |-> DefaultLook, pixels |-> {}]
\* Operands and control frames have their top last; keys are the texts typed, each up to its ENTER.
VM_INIT(code, keys, screen) ==
  [code |-> code, pc |-> 1, st |-> <<>>, vars |-> Nothing, svars |-> Nothing, arrs |-> Nothing, sarrs |-> Nothing,
   main |-> 0, seg2 |-> 0, cs |-> <<>>, used |-> 0, mem |-> Nothing, keys |-> keys, err |-> 0, status |-> "run",
   row |-> screen.row, col |-> screen.col, rows |-> screen.rows, look |-> screen.look, pixels |-> screen.pixels]

VM_RAISE(s, code) == [s EXCEPT !.err = code, !.status = "error"]
get(f, x, default) == IF x \in DOMAIN f THEN f[x] ELSE default
set(f, x, val) == (x :> val) @@ f
VM_PUSH(s, val) == [s EXCEPT !.st = Append(@, val)]
truth(b) == INT(IF b THEN 1 ELSE 0)
jump(s, i) == [s EXCEPT !.pc = i.to]
byte(n) == n % 256
clamp(n, lo, hi) == IF n < lo THEN lo ELSE IF n > hi THEN hi ELSE n
VM_POP_COERCE_INT(a) == clamp(truncated(a), -INT_MAX - 1, INT_MAX)

(* The control stack. *)
VM_CS_ALLOC(s, frame) ==
  LET top == s.used + FrameSize[frame.kind] IN
  IF top + s.main > POOL THEN VM_RAISE(s, 6) ELSE [s EXCEPT !.cs = Append(@, frame @@ [top |-> top]), !.used = top]
\* Down to its first n frames.
cs_cut(s, n) == [s EXCEPT !.cs = SubSeq(@, 1, n), !.used = IF n = 0 THEN 0 ELSE s.cs[n].top]
RECURSIVE VM_CS_UNWIND(_, _), VM_FIND_FOR(_, _, _)
\* The highest frame at or below n that is no loop; the loop on x among the frames above it (0: none).
VM_CS_UNWIND(cs, n) == IF n = 0 \/ cs[n].kind # "for" THEN n ELSE VM_CS_UNWIND(cs, n - 1)
VM_FIND_FOR(cs, n, x) == IF n = 0 \/ cs[n].kind # "for" THEN 0 ELSE IF cs[n].var = x THEN n ELSE VM_FIND_FOR(cs, n - 1, x)
\* Return through a frame of this kind.
popped(s, kind, Return(_, _)) ==
  LET n == VM_CS_UNWIND(s.cs, Len(s.cs)) IN
  IF n = 0 \/ s.cs[n].kind # kind THEN VM_RAISE(s, 7) ELSE Return(cs_cut(s, n - 1), s.cs[n])

OP_CALL(s, i) == LET t == VM_CS_ALLOC(s, [kind |-> "call", ret |-> s.pc]) IN IF t.err # 0 THEN t ELSE jump(t, i)
OP_RET(s) == popped(s, "call", LAMBDA t, frame : [t EXCEPT !.pc = frame.ret])
OP_PARAM_BIND(s, x, a) ==
  LET t == VM_CS_ALLOC(s, [kind |-> "param", saved |-> get(s.vars, x, INT(0))])
  IN IF t.err # 0 THEN t ELSE [t EXCEPT !.vars = set(@, x, a)]
OP_PARAM_UNBIND(s, x) == popped(s, "param", LAMBDA t, frame : [t EXCEPT !.vars = set(@, x, frame.saved)])

past(val, limit, step) == IF sign(step) < 0 THEN compare(val, limit) < 0 ELSE compare(val, limit) > 0
OP_FOR_INIT(s, i, start, limit, step) ==
  LET old == VM_FIND_FOR(s.cs, Len(s.cs), i.v)
      t == VM_CS_ALLOC(IF old = 0 THEN s ELSE cs_cut(s, old - 1), [kind |-> "for", var |-> i.v, limit |-> limit, step |-> step])
      u == [t EXCEPT !.vars = set(@, i.v, start)]
  IN IF t.err # 0 THEN t ELSE IF past(start, limit, step) THEN jump(u, i) ELSE u
OP_FOR_NEXT(s, i) ==
  LET n == VM_FIND_FOR(s.cs, Len(s.cs), i.v)
      frame == s.cs[n]
      val == add(get(s.vars, i.v, INT(0)), frame.step)
      t == [cs_cut(s, n) EXCEPT !.vars = set(@, i.v, val)]
  IN IF n = 0 THEN VM_RAISE(s, 7) ELSE IF past(val, frame.limit, frame.step) THEN t ELSE jump(t, i)
OP_FOR_POP(s) == IF s.cs = <<>> \/ s.cs[Len(s.cs)].kind # "for" THEN VM_RAISE(s, 7) ELSE cs_cut(s, Len(s.cs) - 1)
\* CLEAR: no variable, no array, and no loop of the running routine.
OP_CLEAR(s) == [cs_cut(s, VM_CS_UNWIND(s.cs, Len(s.cs))) EXCEPT !.vars = Nothing, !.svars = Nothing, !.arrs = Nothing, !.sarrs = Nothing,
                                                                !.main = 0, !.seg2 = 0]

(* Arrays: a DIM takes room in the pool, else in segment 2; the elements not stored yet are zero or empty. *)
VM_ARENA_FIT(s, need) == CASE s.main + need < POOL - s.used -> [s EXCEPT !.main = @ + need]
                           [] s.main + need >= POOL - s.used /\ s.seg2 + need < SEGMENT2 -> [s EXCEPT !.seg2 = @ + need]
                           [] OTHER -> VM_RAISE(s, 64)
ARENA_ALLOC_NUMERIC(s, x, count) ==
  LET t == VM_ARENA_FIT(s, 3 + 2 * count)
  IN IF t.err # 0 THEN t ELSE [t EXCEPT !.arrs = set(@, x, [count |-> count, vals |-> Nothing])]
ARENA_ALLOC_STRING(s, x, count, width) ==
  LET t == VM_ARENA_FIT(s, 4 + count * width)
  IN IF t.err # 0 THEN t ELSE [t EXCEPT !.sarrs = set(@, x, [count |-> count, width |-> width, vals |-> Nothing])]
\* Why element a of array x of this map may not be touched (0: it may).
VM_ARR_VALIDATE_INDEX(arrs, x, a) == IF a[1] # "i" THEN 11 ELSE IF x \notin DOMAIN arrs \/ a[2] \notin 0 .. arrs[x].count - 1 THEN 10 ELSE 0
OP_ARR_LOAD(s, x, a) == LET err == VM_ARR_VALIDATE_INDEX(s.arrs, x, a)
                        IN IF err # 0 THEN VM_RAISE(s, err) ELSE VM_PUSH(s, get(s.arrs[x].vals, a[2], INT(0)))
OP_ARR_STORE(s, x, a, val) ==
  LET err == IF val[1] # "i" THEN 11 ELSE VM_ARR_VALIDATE_INDEX(s.arrs, x, a)
  IN IF err # 0 THEN VM_RAISE(s, err) ELSE [s EXCEPT !.arrs[x].vals = set(@, a[2], val)]
OP_STRARR_LOAD(s, x, a) == LET err == VM_ARR_VALIDATE_INDEX(s.sarrs, x, a)
                           IN IF err # 0 THEN VM_RAISE(s, err) ELSE VM_PUSH(s, get(s.sarrs[x].vals, a[2], STR("")))
OP_STRARR_STORE(s, x, a, val) ==
  LET err == VM_ARR_VALIDATE_INDEX(s.sarrs, x, a)
  IN IF err # 0 THEN VM_RAISE(s, err) ELSE [s EXCEPT !.sarrs[x].vals = set(@, a[2], STR(cut(val[2], s.sarrs[x].width - 1)))]

(* The screen. *)
VM_COMPUTE_PRINT_ATTR(look) ==
  LET ink == IF look.inverse = 1 THEN look.paper ELSE look.ink
      paper == IF look.inverse = 1 THEN look.ink ELSE look.paper
  IN paper * 8 + ink + 64 * look.bright + 128 * look.flash
GFX_SCROLL_OUTPUT_UP(s) ==
  [s EXCEPT !.rows = [r \in 0 .. 23 |-> IF r = 23 THEN blank_row(ATTR_DEFAULT) ELSE s.rows[r + 1]],
            !.pixels = {<<p[1], p[2] - 8>> : p \in {q \in s.pixels : q[2] >= 8}}]
VM_ADVANCE_OUTPUT_ROW(s) == IF s.row = 23 THEN GFX_SCROLL_OUTPUT_UP([s EXCEPT !.col = 0]) ELSE [s EXCEPT !.col = 0, !.row = @ + 1]
padded(text, n) == text \o (IF Len(text) < n THEN repeated(" ", n - Len(text)) ELSE "")
RECURSIVE GFX_PRINT_STRING_ATTR(_, _)
\* As much as the row takes, the rest on the next.
GFX_PRINT_STRING_ATTR(s, text) ==
  LET old == s.rows[s.row]
      n == IF Len(text) < 32 - s.col THEN Len(text) ELSE 32 - s.col
      after == s.col + n
      new == [text |-> SubSeq(padded(old.text, s.col), 1, s.col) \o cut(text, n) \o SubSeq(old.text, after + 1, Len(old.text)),
              base |-> old.base, attrs |-> [c \in s.col .. after - 1 |-> VM_COMPUTE_PRINT_ATTR(s.look)] @@ old.attrs]
      t == [s EXCEPT !.rows[s.row] = new, !.col = after]
  IN IF text = "" THEN s
     ELSE IF after < 32 THEN t ELSE GFX_PRINT_STRING_ATTR(VM_ADVANCE_OUTPUT_ROW(t), SubSeq(text, n + 1, Len(text)))
OP_PRINT_COMMA(s) == IF s.col >= 16 THEN VM_ADVANCE_OUTPUT_ROW(s) ELSE [s EXCEPT !.col = 16]
OP_CLS(s) == [s EXCEPT !.rows = [r \in 0 .. 23 |-> blank_row(VM_COMPUTE_PRINT_ATTR(s.look))], !.pixels = {}, !.row = 0, !.col = 0]
OP_AT(s, row, col) == [s EXCEPT !.row = clamp(byte(row), 0, 23), !.col = byte(col) % 32]
attr_at(s, row, col) == get(s.rows[row].attrs, col, s.rows[row].base)
VM_CLAMP_COORD_X(a) == clamp(VM_POP_COERCE_INT(a), 0, 255)
VM_CLAMP_COORD_Y(a) == clamp(VM_POP_COERCE_INT(a), 0, 191)
\* The points set (inverted under OVER 1), and the colours of their cells.
GFX_WRITE_PIXELS(s, points) ==
  LET cells == {<<p[2] \div 8, p[1] \div 8>> : p \in points}
      coloured(r) == [col \in {c[2] : c \in {d \in cells : d[1] = r}} |-> VM_COMPUTE_PRINT_ATTR(s.look)]
  IN [s EXCEPT !.pixels = IF s.look.over = 1 THEN (@ \ points) \cup (points \ @) ELSE @ \cup points,
               !.rows = [r \in 0 .. 23 |-> [s.rows[r] EXCEPT !.attrs = coloured(r) @@ @]]]
\* The points of a line, one per step along its longer axis.
GFX_LINE(p, q) ==
  LET dx == abs(q[1] - p[1]) dy == abs(q[2] - p[2])
      n == IF dx >= dy THEN dx ELSE dy
      minor(k) == IF n = 0 THEN 0 ELSE ((n \div 2) + k * (IF dx >= dy THEN dy ELSE dx)) \div n
      towards(from, to, d) == IF to < from THEN from - d ELSE from + d
  IN {<<towards(p[1], q[1], IF dx >= dy THEN k ELSE minor(k)), towards(p[2], q[2], IF dx >= dy THEN minor(k) ELSE k)>> : k \in 0 .. n}
OP_LINE(s, x1, y1, x2, y2) ==
  GFX_WRITE_PIXELS(s, GFX_LINE(<<VM_CLAMP_COORD_X(x1), VM_CLAMP_COORD_Y(y1)>>, <<VM_CLAMP_COORD_X(x2), VM_CLAMP_COORD_Y(y2)>>))

(* Input: a text of keys.txt up to ENTER, echoed; with none left the machine waits. *)
VM_NUM(text) == IF text = "" THEN INT(0)
                ELSE IF char(text, 1) = "-" THEN negative(NUM_PARSE(text, 2).val) ELSE NUM_PARSE(text, 1).val
typed(s, Take(_, _), limit) ==
  IF s.keys = <<>> THEN [s EXCEPT !.status = "wait"]
  ELSE LET text == cut(s.keys[1], limit)
       IN VM_ADVANCE_OUTPUT_ROW(GFX_PRINT_STRING_ATTR(Take([s EXCEPT !.keys = Tail(@)], text), text))
OP_INPUT_NUM(s, x) == typed(s, LAMBDA t, text : [t EXCEPT !.vars = set(@, x, VM_NUM(text))], 20)
OP_INPUT_STR(s, x) == typed(s, LAMBDA t, text : [t EXCEPT !.svars = set(@, x, STR(text))], STR_MAX)
OP_PAUSE(s, n) == IF n # 0 THEN s ELSE IF s.keys = <<>> THEN [s EXCEPT !.status = "wait"] ELSE [s EXCEPT !.keys = Tail(@)]

(* Functions: the value of f on its arguments, or the error. *)
VM_POP_ADDR(a) == LET n == truncated(a) IN IF n \in -32768 .. 65535 THEN n % 65536 ELSE -1
numeric_fn(s, f, a, n) ==
  CASE f = "ABS" -> IF a[1][1] = "i" THEN promoted(abs(a[1][2])) ELSE FLOAT(<<abs(a[1][2]), a[1][3]>>)
    [] f = "SGN" -> INT(sign(a[1]))
    [] f = "INT" -> promoted(truncated(a[1]))
    [] f = "MOD" -> remainder(a[1], a[2])
    [] f = "DIV" -> quotient(a[1], a[2])
    [] f = "POINT" -> truth(<<VM_CLAMP_COORD_X(a[1]), VM_CLAMP_COORD_Y(a[2])>> \in s.pixels)
    [] f = "ATTR" -> INT(IF n[1] \in 0 .. 23 /\ n[2] \in 0 .. 31 THEN attr_at(s, n[1], n[2]) ELSE 0)
    [] f = "PEEK" -> INT(get(s.mem, VM_POP_ADDR(a[1]), 0))
    [] f = "STICK" -> INT(0)
    [] f = "LEN" -> INT(Len(a[1][2]))
    [] f = "CODE" -> INT(IF a[1][2] = "" THEN 0 ELSE Codes[char(a[1][2], 1)])
    [] f = "VAL" -> VM_NUM(a[1][2])
tail(text, from) == SubSeq(text, from, Len(text))
string_fn(s, f, a, n) ==
  CASE f = "CHR" -> chr(n[1])
    [] f = "STR" -> cut(VM_NUM_TO_TEXT(a[1]), STR_MAX)
    [] f = "UPPER" -> mapped(FOLD_UPPER, a[1][2])
    [] f = "LOWER" -> mapped(FOLD_LOWER, a[1][2])
    [] f = "LEFT" -> cut(a[1][2], n[2])
    [] f = "RIGHT" -> tail(a[1][2], clamp(Len(a[1][2]) - n[2], 0, Len(a[1][2])) + 1)
    [] f = "MID" -> cut(tail(a[1][2], clamp(n[2], 1, 255)), n[3])
    [] f = "INKEY" -> ""
fn_error(f, a, n) ==
  CASE f \in {"MOD", "DIV"} /\ zero(a[2]) -> 5
    [] f = "CHR" /\ n[1] \notin 0 .. 255 -> 15
    [] f = "PEEK" /\ VM_POP_ADDR(a[1]) = -1 -> 15
    [] f = "STICK" /\ n[1] \notin 1 .. 2 -> 15
    [] OTHER -> 0
OP_CALL_FN(s, f, a) ==
  LET n == [i \in DOMAIN a |-> IF a[i][1] = "s" THEN 0 ELSE clamp(VM_POP_COERCE_INT(a[i]), IF f \in DOMAIN StringFns \ {"CHR"} THEN 0 ELSE -32768, 32767)]
      err == fn_error(f, a, n)
  IN IF err # 0 THEN VM_RAISE(s, err)
     ELSE VM_PUSH(s, IF f \in DOMAIN StringFns THEN STR(string_fn(s, f, a, n)) ELSE numeric_fn(s, f, a, n))

(* One instruction: its operands are taken off first. *)
arity(i) ==
  CASE i.op = "CALL_FN" -> i.v[2]
    [] i.op = "LINE" -> 4
    [] i.op = "FOR_INIT" -> 3
    [] i.op \in {"ADD", "SUB", "MUL", "DIV", "LT", "LE", "EQ", "GE", "GT", "NE", "ARR_STORE", "STRARR_STORE", "STR_CONCAT", "STR_EQ",
                 "STR_LT", "STR_GT"} \cup TwoArguments -> 2
    [] i.op \in {"STORE", "STORE_STR", "NOT", "AND_SC", "OR_SC", "JMPZ", "PARAM_BIND", "ARR_LOAD", "STRARR_LOAD", "PRINT_NUM",
                 "PRINT_STR"} \cup OneArgument -> 1
    [] OTHER -> 0
Arithmetic == {"ADD", "SUB", "MUL", "DIV", "NOT"} \cup {Compares[l] : l \in DOMAIN Compares}
arithmetic(o, a) ==
  CASE o = "ADD" -> add(a[1], a[2])
    [] o = "SUB" -> sub(a[1], a[2])
    [] o = "MUL" -> mul(a[1], a[2])
    [] o = "DIV" -> div(a[1], a[2])
    [] o = "NOT" -> truth(zero(a[1]))
    [] o = "LT" -> truth(compare(a[1], a[2]) < 0)
    [] o = "LE" -> truth(compare(a[1], a[2]) <= 0)
    [] o = "EQ" -> truth(compare(a[1], a[2]) = 0)
    [] o = "GE" -> truth(compare(a[1], a[2]) >= 0)
    [] o = "GT" -> truth(compare(a[1], a[2]) > 0)
    [] o = "NE" -> truth(compare(a[1], a[2]) # 0)
string_op(o, x, y) ==
  CASE o = "STR_CONCAT" -> STR(cut(x \o y, STR_MAX))
    [] o = "STR_EQ" -> truth(x = y)
    [] o = "STR_LT" -> truth(str_compare(x, y) < 0)
    [] o = "STR_GT" -> truth(str_compare(x, y) > 0)
Looks == [INK |-> 8, PAPER |-> 8, FLASH |-> 2, BRIGHT |-> 2, OVER |-> 2, INVERSE |-> 2]
LookField == [INK |-> "ink", PAPER |-> "paper", FLASH |-> "flash", BRIGHT |-> "bright", OVER |-> "over", INVERSE |-> "inverse"]
beep_error(seconds, pitch) == sign(seconds) < 0 \/ compare(seconds, INT(273)) > 0 \/ VM_POP_COERCE_INT(pitch) \notin -60 .. 69
output(s, o, a, n) ==
  CASE o = "PRINT_NUM" -> GFX_PRINT_STRING_ATTR(s, VM_NUM_TO_TEXT(a[1]))
    [] o = "PRINT_STR" -> GFX_PRINT_STRING_ATTR(s, a[1][2])
    [] o = "NL" -> VM_ADVANCE_OUTPUT_ROW(s)
    [] o = "PRINT_COMMA" -> OP_PRINT_COMMA(s)
    [] o = "CLS" -> OP_CLS(s)
    [] o = "AT" -> OP_AT(s, n[1], n[2])
    [] o = "TAB" -> [s EXCEPT !.col = byte(n[1]) % 32]
    [] o \in DOMAIN Looks -> [s EXCEPT !.look[LookField[o]] = n[1] % Looks[o]]
    [] o = "PLOT" -> GFX_WRITE_PIXELS(s, {<<VM_CLAMP_COORD_X(a[1]), VM_CLAMP_COORD_Y(a[2])>>})
    [] o = "LINE" -> OP_LINE(s, a[1], a[2], a[3], a[4])
    [] o = "POKE" -> IF VM_POP_ADDR(a[1]) = -1 THEN VM_RAISE(s, 15) ELSE [s EXCEPT !.mem = set(@, VM_POP_ADDR(a[1]), byte(n[2]))]
    [] o = "SOUND" -> IF byte(n[1]) >= 17 THEN VM_RAISE(s, 8) ELSE s
    [] o = "BEEP" -> IF beep_error(a[1], a[2]) THEN VM_RAISE(s, 15) ELSE s
    [] o = "PAUSE" -> OP_PAUSE(s, n[1])
    [] o \in {"BORDER", "RANDOMISE", "OUT"} -> s
Outputs == {"PRINT_NUM", "PRINT_STR", "NL", "PRINT_COMMA", "CLS", "LINE"} \cup OneArgument \cup (TwoArguments)
effect(s, i, a) ==
  LET o == i.op x == i.v IN
  CASE o = "PUSH" -> VM_PUSH(s, x)
    [] o = "LOAD" -> VM_PUSH(s, get(s.vars, x, INT(0)))
    [] o = "LOAD_STR" -> VM_PUSH(s, get(s.svars, x, STR("")))
    [] o = "STORE" -> [s EXCEPT !.vars = set(@, x, a[1])]
    [] o = "STORE_STR" -> [s EXCEPT !.svars = set(@, x, a[1])]
    [] o = "DIV" /\ zero(a[2]) -> VM_RAISE(s, 5)
    [] o \in Arithmetic /\ ~(o = "DIV" /\ zero(a[2])) -> VM_PUSH(s, arithmetic(o, a))
    [] o \in {"STR_CONCAT", "STR_EQ", "STR_LT", "STR_GT"} -> VM_PUSH(s, string_op(o, a[1][2], a[2][2]))
    [] o = "AND_SC" -> IF zero(a[1]) THEN jump(VM_PUSH(s, INT(0)), i) ELSE s
    [] o = "OR_SC" -> IF zero(a[1]) THEN s ELSE jump(VM_PUSH(s, INT(1)), i)
    [] o = "JMP" -> jump(s, i)
    [] o = "JMPZ" -> IF zero(a[1]) THEN jump(s, i) ELSE s
    [] o = "FOR_INIT" -> OP_FOR_INIT(s, i, a[1], a[2], a[3])
    [] o = "FOR_NEXT" -> OP_FOR_NEXT(s, i)
    [] o = "FOR_POP" -> OP_FOR_POP(s)
    [] o = "CALL" -> OP_CALL(s, i)
    [] o = "RET" -> OP_RET(s)
    [] o = "PARAM_BIND" -> OP_PARAM_BIND(s, x, a[1])
    [] o = "PARAM_UNBIND" -> OP_PARAM_UNBIND(s, x)
    [] o = "DIM" -> ARENA_ALLOC_NUMERIC(s, x[1], x[2])
    [] o = "DIM_STR" -> ARENA_ALLOC_STRING(s, x[1], x[2], x[3])
    [] o = "ARR_LOAD" -> OP_ARR_LOAD(s, x, a[1])
    [] o = "ARR_STORE" -> OP_ARR_STORE(s, x, a[1], a[2])
    [] o = "STRARR_LOAD" -> OP_STRARR_LOAD(s, x, a[1])
    [] o = "STRARR_STORE" -> OP_STRARR_STORE(s, x, a[1], a[2])
    [] o = "INPUT_NUM" -> OP_INPUT_NUM(s, x)
    [] o = "INPUT_STR" -> OP_INPUT_STR(s, x)
    [] o = "CALL_FN" -> OP_CALL_FN(s, x[1], a)
    [] o = "CLEAR" -> OP_CLEAR(s)
    [] o = "HALT" -> [s EXCEPT !.status = "halted"]
    [] o \in Outputs -> output(s, o, a, [k \in DOMAIN a |-> IF a[k][1] = "s" THEN 0 ELSE VM_POP_COERCE_INT(a[k])])
VM_STEP(s) ==
  LET i == s.code[s.pc] n == arity(i) d == Len(s.st)
      t == effect([s EXCEPT !.pc = @ + 1, !.st = SubSeq(@, 1, d - n)], i, SubSeq(s.st, d - n + 1, d))
  IN IF d < n THEN VM_RAISE(s, 3) ELSE IF Len(t.st) > OPERANDS THEN VM_RAISE(t, 2) ELSE t
RECURSIVE VM_RUN(_, _)
\* Until the machine stops, at most 2^k instructions.
VM_RUN(s, k) == IF s.status # "run" THEN s ELSE IF k = 0 THEN VM_STEP(s) ELSE VM_RUN(VM_RUN(s, k - 1), k - 1)
=============================================================================
