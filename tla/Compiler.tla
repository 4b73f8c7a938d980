------------------------------- MODULE Compiler -------------------------------
(***************************************************************************)
(* The one-pass V2 compiler: source lines to tokens, tokens to bytecode.    *)
(* An instruction has an operand v and a target to, an index into the code. *)
(* A compare fused with its jump and an addition fused with its store are   *)
(* the two instructions they stand for.  Symbols are found by name; the     *)
(* memory they take and the compiler's own stack depth are not bounded.     *)
(***************************************************************************)
EXTENDS Values, SequencesExt

Keywords == {"GOTO", "IF", "TO", "THEN", "FOR", "NEXT", "PROC", "ENDP", "CALL", "CLS", "BORDER", "INK", "PAPER", "PLOT",
             "LINE", "BEEP", "SOUND", "POKE", "PAUSE", "RANDOMISE", "PRINT", "LPRINT", "END", "STOP", "REM", "AND", "OR",
             "NOT", "ELSE", "ENDIF", "DIM", "INPUT", "STEP", "EXIT", "DEF", "FN", "FLASH", "BRIGHT", "OVER", "INVERSE",
             "AT", "TAB", "CLEAR", "OUT"}
\* The argument kinds of each function: n(umber) or s(tring).
NumericFns == [f \in {"ABS", "SGN", "RND", "INT", "PEEK", "USR", "SQR", "RAD", "DEG", "SIN", "COS", "TAN", "IN", "STICK"} |-> "n"]
              @@ [f \in {"MOD", "DIV", "POINT", "ATTR"} |-> "nn"] @@ [f \in {"LEN", "CODE", "VAL"} |-> "s"]
              @@ [f \in {"PI", "FREE"} |-> ""]
StringFns == [CHR |-> "n", STR |-> "n", UPPER |-> "s", LOWER |-> "s", LEFT |-> "sn", RIGHT |-> "sn", MID |-> "snn", INKEY |-> ""]
IDENT_MAX_LEN == 31

(* Tokens: t is the kind (a keyword or a mark is its own kind), x its value. *)
tok(t, x, line) == [t |-> t, x |-> x, line |-> line]
Doubles == {"<=", "<>", ">="}
Marks == {":", "=", "+", "-", "*", "/", "(", ")", "<", ">", ",", ";"}

LEX_SCAN_NUMBER(s, i, line) ==
  LET scan == NUM_PARSE(s, i) val == scan.val
      fits == val[1] = "i" \/ (val[3] = 1 /\ val[2] <= 65535 /\ run_of("number", s, i) >= scan.next - 1)
  IN [tok |-> IF fits THEN tok("num", exact(val)[1], line) ELSE tok("flt", val, line), next |-> scan.next]
\* A letter, then letters and digits; a $ after them makes a string name, which is never a keyword.
LEX_SCAN_IDENT(s, i, line) ==
  LET j == run_of("name", s, i)
      name == mapped(FOLD_UPPER, SubSeq(s, i, j - 1))
  IN IF j <= Len(s) /\ char(s, j) = "$" THEN [tok |-> tok("sid", name, line), next |-> j + 1]
     ELSE [tok |-> tok(IF name \in Keywords THEN name ELSE "id", name, line), next |-> j]
LEX_SCAN_STRING(s, i, line) ==
  LET closing == {j \in i + 1 .. Len(s) : char(s, j) = "\""}
  IN IF closing = {} THEN [tok |-> tok("unterminated", "", line), next |-> Len(s) + 1]
     ELSE LET j == CHOOSE k \in closing : \A l \in closing : k <= l
          IN [tok |-> tok("str", SubSeq(s, i + 1, j - 1), line), next |-> j + 1]
LEX_NEXT_TOKEN_CORE(s, i, line) ==
  LET two == IF i < Len(s) THEN SubSeq(s, i, i + 1) ELSE "" IN
  IF is_digit(s, i) THEN LEX_SCAN_NUMBER(s, i, line)
  ELSE IF is_letter(s, i) THEN LEX_SCAN_IDENT(s, i, line)
  ELSE IF char(s, i) = "\"" THEN LEX_SCAN_STRING(s, i, line)
  ELSE IF two \in Doubles THEN [tok |-> tok(two, "", line), next |-> i + 2]
  ELSE [tok |-> tok(IF char(s, i) \in Marks THEN char(s, i) ELSE "?", "", line), next |-> i + 1]
RECURSIVE line_tokens(_, _, _)
\* The end of a line is a separator, unless the line already ends in a colon.
line_tokens(s, i, line) ==
  IF i > Len(s) THEN IF s # "" /\ char(s, Len(s)) = ":" THEN <<>> ELSE <<tok(":", "newline", line)>>
  ELSE IF char(s, i) = " " THEN line_tokens(s, i + 1, line)
  ELSE LET l == LEX_NEXT_TOKEN_CORE(s, i, line) IN <<l.tok>> \o line_tokens(s, l.next, line)
tokens(lines) == FlattenSeq([n \in DOMAIN lines |-> line_tokens(lines[n], 1, n - 1)]) \o <<tok("eof", "", Len(lines))>>

(* The compiler: the tokens, its place in them, the code, symbols, open loops and the first error. *)
Nothing == [x \in {} |-> 0]
COMPILER_INIT(toks) == [toks |-> toks, p |-> 1, code |-> <<>>, refs |-> {}, labels |-> Nothing, arrays |-> Nothing, strings |-> Nothing,
                        fors |-> <<>>, err |-> 0, line |-> 0]
now(c) == c.toks[c.p]
T(c) == now(c).t
\* The first error stays, with its line; nothing after it is read.
raised_at(c, code, line) == IF c.err # 0 THEN c ELSE [c EXCEPT !.err = code, !.line = line, !.p = Len(c.toks)]
COMPILE_RAISE_ERROR(c, code) == raised_at(c, code, now(c).line)
LEX_NEXT_TOKEN(c) == LET d == [c EXCEPT !.p = IF @ < Len(c.toks) THEN @ + 1 ELSE @]
                     IN IF T(d) = "unterminated" THEN COMPILE_RAISE_ERROR(d, 64) ELSE d
expect(c, t, code) == IF T(c) = t THEN LEX_NEXT_TOKEN(c) ELSE COMPILE_RAISE_ERROR(c, code)
emit(c, op, v) == [c EXCEPT !.code = Append(@, [op |-> op, v |-> v, to |-> 0])]
op(c, name) == emit(c, name, 0)
COMPILE_RELATIVE_OFFSET(c) == Len(c.code) + 1
patched(c, at) == IF c.err # 0 THEN c ELSE [c EXCEPT !.code[at].to = COMPILE_RELATIVE_OFFSET(c)]
\* A name too long is an error where it is looked up or kept.
named(c) == IF Len(now(c).x) > IDENT_MAX_LEN THEN COMPILE_RAISE_ERROR(c, 61) ELSE c

LABEL_REF(c, name) == [c EXCEPT !.refs = @ \cup {<<Len(c.code), name>>}]
LABEL_DEFINE(c, name) == IF c.err # 0 THEN c
                         ELSE IF name \in DOMAIN c.labels THEN COMPILE_RAISE_ERROR(c, 57)
                         ELSE [c EXCEPT !.labels = @ @@ (name :> COMPILE_RELATIVE_OFFSET(c))]
LABEL_CHECK_ALL(c) ==
  IF c.err # 0 THEN c
  ELSE IF \E r \in c.refs : r[2] \notin DOMAIN c.labels THEN COMPILE_RAISE_ERROR(c, 7)
  ELSE [c EXCEPT !.code = [i \in DOMAIN c.code |-> LET names == {r[2] : r \in {q \in c.refs : q[1] = i}}
                                                   IN IF names = {} THEN c.code[i]
                                                      ELSE [c.code[i] EXCEPT !.to = c.labels[CHOOSE x \in names : TRUE]]]]

(* Expressions. *)
RECURSIVE COMPILE_EXPR(_), or_tail(_), and_tail(_), COMPILE_BOOL_NOT(_), additive_tail(_), term_tail(_), COMPILE_FACTOR(_),
          arguments(_, _, _), COMPILE_STR_EXPR(_), str_tail(_)

COMPILE_SC_TAIL(c, at) == patched(op(op(c, "NOT"), "NOT"), at)
Compares == [l \in {"<", "<=", "=", ">=", ">", "<>"} |->
               CASE l = "<" -> "LT" [] l = "<=" -> "LE" [] l = "=" -> "EQ" [] l = ">=" -> "GE" [] l = ">" -> "GT" [] OTHER -> "NE"]
COMPILE_TERM(c) == term_tail(COMPILE_FACTOR(c))
term_tail(c) == IF T(c) \notin {"*", "/"} THEN c
                ELSE term_tail(op(COMPILE_FACTOR(LEX_NEXT_TOKEN(c)), IF T(c) = "*" THEN "MUL" ELSE "DIV"))
COMPILE_ADDITIVE(c) == additive_tail(COMPILE_TERM(c))
additive_tail(c) == IF T(c) \notin {"+", "-"} THEN c
                    ELSE additive_tail(op(COMPILE_TERM(LEX_NEXT_TOKEN(c)), IF T(c) = "+" THEN "ADD" ELSE "SUB"))
COMPILE_RELATIONAL(c) == LET d == COMPILE_ADDITIVE(c)
                         IN IF T(d) \in DOMAIN Compares THEN op(COMPILE_ADDITIVE(LEX_NEXT_TOKEN(d)), Compares[T(d)]) ELSE d
COMPILE_BOOL_NOT(c) == IF T(c) = "NOT" THEN op(COMPILE_BOOL_NOT(LEX_NEXT_TOKEN(c)), "NOT") ELSE COMPILE_RELATIONAL(c)
and_tail(c) == IF T(c) # "AND" THEN c
               ELSE LET d == op(LEX_NEXT_TOKEN(c), "AND_SC") IN and_tail(COMPILE_SC_TAIL(COMPILE_BOOL_NOT(d), Len(d.code)))
COMPILE_BOOL_AND(c) == and_tail(COMPILE_BOOL_NOT(c))
or_tail(c) == IF T(c) # "OR" THEN c
              ELSE LET d == op(LEX_NEXT_TOKEN(c), "OR_SC") IN or_tail(COMPILE_SC_TAIL(COMPILE_BOOL_AND(d), Len(d.code)))
COMPILE_EXPR(c) == or_tail(COMPILE_BOOL_AND(c))

COMPILE_NUMBER_LITERAL(c, n) == LEX_NEXT_TOKEN(emit(c, "PUSH", promoted(n)))
COMPILE_IDENT_LOAD(c) == LEX_NEXT_TOKEN(emit(named(c), "LOAD", now(c).x))
arguments(c, kinds, left) ==
  IF left = 0 THEN c
  ELSE LET d == IF char(kinds, Len(kinds) - left + 1) = "s" THEN COMPILE_STR_EXPR(c) ELSE COMPILE_EXPR(c)
       IN IF left = 1 THEN d ELSE arguments(expect(d, ",", 30), kinds, left - 1)
fn_call(c, kinds) ==
  LET d == expect(LEX_NEXT_TOKEN(c), "(", 29)
      args == IF now(c).x = "FREE" /\ T(d) # ")" THEN "n" ELSE kinds
  IN emit(expect(arguments(d, args, Len(args)), ")", 31), "CALL_FN", <<now(c).x, Len(args)>>)
udf_call(c) ==
  LET name == LEX_NEXT_TOKEN(c)
      arg == COMPILE_EXPR(expect(LEX_NEXT_TOKEN(named(name)), "(", 51))
  IN IF T(name) # "id" THEN COMPILE_RAISE_ERROR(name, 50)
     ELSE LABEL_REF(op(expect(arg, ")", 53), "CALL"), now(name).x)
COMPILE_ARR_READ_COMMON(c, name) == emit(expect(COMPILE_EXPR(expect(LEX_NEXT_TOKEN(c), "(", 40)), ")", 41), name, now(c).x)
COMPILE_DIMN(c) ==
  LET d == expect(LEX_NEXT_TOKEN(c), "(", 46)
  IN IF d.err # 0 \/ T(d) # "id" \/ now(d).x \notin DOMAIN d.arrays THEN COMPILE_RAISE_ERROR(d, 47)
     ELSE emit(expect(LEX_NEXT_TOKEN(d), ")", 48), "PUSH", INT(d.arrays[now(d).x]))

\* A comparison of strings: each is an equality, an order, or the negation of one.
StrCompares == [l \in DOMAIN Compares |-> CASE l \in {"=", "<>"} -> "STR_EQ" [] l \in {"<", ">="} -> "STR_LT" [] OTHER -> "STR_GT"]
COMPILE_STR_REL_TAIL(c) ==
  LET d == op(COMPILE_STR_EXPR(LEX_NEXT_TOKEN(c)), StrCompares[T(c)]) IN IF T(c) \in {"<>", ">=", "<="} THEN op(d, "NOT") ELSE d
COMPILE_STR_RELATION(c) == LET d == COMPILE_STR_EXPR(c)
                           IN IF T(d) \in DOMAIN Compares THEN COMPILE_STR_REL_TAIL(d) ELSE COMPILE_RAISE_ERROR(d, 3)
COMPILE_STR_FACTOR(c) ==
  LET x == now(c).x IN
  CASE T(c) = "str" -> IF Len(x) > STR_MAX THEN COMPILE_RAISE_ERROR(c, 70) ELSE LEX_NEXT_TOKEN(emit(c, "PUSH", STR(x)))
    [] T(c) = "sid" -> IF x \in DOMAIN StringFns THEN fn_call(c, StringFns[x])
                       ELSE IF x \in DOMAIN c.strings THEN COMPILE_ARR_READ_COMMON(c, "STRARR_LOAD")
                       ELSE LEX_NEXT_TOKEN(emit(named(c), "LOAD_STR", x))
    [] OTHER -> COMPILE_RAISE_ERROR(c, 3)
str_tail(c) == IF T(c) = "+" THEN str_tail(op(COMPILE_STR_FACTOR(LEX_NEXT_TOKEN(c)), "STR_CONCAT")) ELSE c
COMPILE_STR_EXPR(c) == str_tail(COMPILE_STR_FACTOR(c))

unary_minus(c) == LET d == LEX_NEXT_TOKEN(c) IN
                  IF T(d) = "num" /\ now(d).x <= INT_MAX + 1 THEN COMPILE_NUMBER_LITERAL(d, -now(d).x)
                  ELSE op(COMPILE_FACTOR(emit(d, "PUSH", INT(0))), "SUB")
ident(c) == LET x == now(c).x IN
            IF x = "DIMN" THEN COMPILE_DIMN(c)
            ELSE IF x \in DOMAIN NumericFns THEN fn_call(c, NumericFns[x])
            ELSE IF x \in DOMAIN c.arrays /\ T(LEX_NEXT_TOKEN(c)) = "(" THEN COMPILE_ARR_READ_COMMON(c, "ARR_LOAD")
            ELSE COMPILE_IDENT_LOAD(c)
COMPILE_FACTOR(c) ==
  CASE T(c) = "-" -> unary_minus(c)
    [] T(c) = "(" -> expect(COMPILE_EXPR(LEX_NEXT_TOKEN(c)), ")", 66)
    [] T(c) = "num" -> COMPILE_NUMBER_LITERAL(c, now(c).x)
    [] T(c) = "flt" -> LEX_NEXT_TOKEN(emit(c, "PUSH", now(c).x))
    [] T(c) = "id" -> ident(c)
    [] T(c) = "FN" -> udf_call(c)
    [] T(c) \in {"str", "sid"} -> COMPILE_STR_RELATION(c)
    [] OTHER -> COMPILE_RAISE_ERROR(c, 3)

(* Statements. *)
Stops == {"eof", "ENDP", "ELSE", "ENDIF"}
Ends == Stops \cup {":"}
OneArgument == {"BORDER", "INK", "PAPER", "FLASH", "BRIGHT", "OVER", "INVERSE", "TAB", "PAUSE", "RANDOMISE"}
TwoArguments == {"AT", "PLOT", "OUT", "BEEP", "SOUND", "POKE"}
RECURSIVE COMPILE_PRINT(_), COMPILE_STATEMENT_LIST(_, _)

COMPILE_2ARG_STMT(c) == op(COMPILE_EXPR(expect(COMPILE_EXPR(LEX_NEXT_TOKEN(c)), ",", 22)), T(c))
COMPILE_LINE(c) ==
  LET x1 == expect(COMPILE_EXPR(LEX_NEXT_TOKEN(c)), ",", 23)
      y1 == expect(COMPILE_EXPR(x1), "TO", 24)
  IN op(COMPILE_EXPR(expect(COMPILE_EXPR(y1), ",", 25)), "LINE")

print_item(c) ==
  IF T(c) \notin {"str", "sid"} THEN op(COMPILE_EXPR(c), "PRINT_NUM")
  ELSE LET d == COMPILE_STR_EXPR(c)
       IN IF T(d) \in DOMAIN Compares THEN op(COMPILE_STR_REL_TAIL(d), "PRINT_NUM") ELSE op(d, "PRINT_STR")
print_more(c) == IF T(c) \in Ends THEN c ELSE COMPILE_PRINT(c)
\* From the item on: a separator at the end of the statement keeps the line open.
COMPILE_PRINT(c) ==
  IF T(c) \in Ends THEN op(c, "NL")
  ELSE LET d == print_item(c)
       IN CASE T(d) = "," -> print_more(op(LEX_NEXT_TOKEN(d), "PRINT_COMMA"))
            [] T(d) = ";" -> print_more(LEX_NEXT_TOKEN(d))
            [] OTHER -> op(d, "NL")

COMPILE_BRANCH_TARGET(c) == LEX_NEXT_TOKEN(LABEL_REF(named(c), now(c).x))
COMPILE_GOTO(c) == LET d == op(LEX_NEXT_TOKEN(c), "JMP")
                   IN IF T(d) = "id" THEN COMPILE_BRANCH_TARGET(d) ELSE COMPILE_RAISE_ERROR(d, 12)
COMPILE_IF_BLOCK(c, skip) ==
  LET d == COMPILE_STATEMENT_LIST(c, 9)
      jump == op(d, "JMP")
      else == COMPILE_STATEMENT_LIST(LEX_NEXT_TOKEN(patched(jump, skip)), 9)
  IN IF T(d) = "ELSE" THEN LEX_NEXT_TOKEN(patched(IF T(else) = "ENDIF" THEN else ELSE COMPILE_RAISE_ERROR(else, 9), Len(jump.code)))
     ELSE IF T(d) = "ENDIF" THEN LEX_NEXT_TOKEN(patched(d, skip))
     ELSE COMPILE_RAISE_ERROR(d, 9)
COMPILE_IF(c) ==
  LET d == op(COMPILE_EXPR(LEX_NEXT_TOKEN(c)), "JMPZ")
      then == expect(d, "THEN", 8)
  IN IF T(then) = "GOTO" THEN patched(COMPILE_GOTO(then), Len(d.code)) ELSE COMPILE_IF_BLOCK(then, Len(d.code))

\* The loops open in the text, innermost last: the variable, the top of the body and the jumps to patch with the exit.
COMPILE_FOR(c) ==
  LET name == LEX_NEXT_TOKEN(c)
      start == COMPILE_EXPR(expect(LEX_NEXT_TOKEN(named(name)), "=", 2))
      limit == COMPILE_EXPR(expect(start, "TO", 11))
      step == IF T(limit) = "STEP" THEN COMPILE_EXPR(LEX_NEXT_TOKEN(limit)) ELSE emit(limit, "PUSH", INT(1))
      init == emit(step, "FOR_INIT", now(name).x)
  IN IF T(name) # "id" THEN COMPILE_RAISE_ERROR(name, 10)
     ELSE [init EXCEPT !.fors = Append(@, [var |-> now(name).x, top |-> COMPILE_RELATIVE_OFFSET(init),
                                           exits |-> {Len(init.code)}, line |-> now(c).line])]
COMPILE_EXIT_FOR(c) ==
  LET d == LEX_NEXT_TOKEN(c) e == op(d, "JMP")
  IN IF T(d) # "FOR" THEN COMPILE_RAISE_ERROR(d, 44)
     ELSE IF c.fors = <<>> THEN COMPILE_RAISE_ERROR(d, 63)
     ELSE LEX_NEXT_TOKEN([e EXCEPT !.fors[Len(e.fors)].exits = @ \cup {Len(e.code)}])
close_for(c, frame) ==
  LET d == emit(c, "FOR_NEXT", frame.var)
      e == [d EXCEPT !.code[Len(d.code)].to = frame.top]
      exit == COMPILE_RELATIVE_OFFSET(e)
  IN op([e EXCEPT !.code = [i \in DOMAIN @ |-> IF i \in frame.exits THEN [@[i] EXCEPT !.to = exit] ELSE @[i]],
                  !.fors = SubSeq(@, 1, Len(@) - 1)], "FOR_POP")
COMPILE_NEXT(c) ==
  LET d == LEX_NEXT_TOKEN(c) IN
  IF c.fors = <<>> THEN COMPILE_RAISE_ERROR(d, 56)
  ELSE LET frame == c.fors[Len(c.fors)]
       IN IF T(d) # "id" THEN close_for(d, frame)
          ELSE IF now(d).x # frame.var THEN COMPILE_RAISE_ERROR(d, 56)
          ELSE close_for(LEX_NEXT_TOKEN(d), frame)

\* PROC and DEF FN: code that falls into it jumps over it.
parameter(c, errors) ==
  LET d == expect(c, "(", errors[1])
  IN IF T(d) # "id" THEN COMPILE_RAISE_ERROR(d, errors[2]) ELSE expect(LEX_NEXT_TOKEN(named(d)), ")", errors[3])
COMPILE_PROC(c) ==
  LET name == LEX_NEXT_TOKEN(c)
      jump == op(LEX_NEXT_TOKEN(named(name)), "JMP")
      param == now(LEX_NEXT_TOKEN(jump)).x
      head == parameter(jump, <<18, 19, 20>>)
      start == emit(LABEL_DEFINE(head, now(name).x), "PARAM_BIND", param)
      end == COMPILE_STATEMENT_LIST(LEX_NEXT_TOKEN(start), 9)
  IN IF T(name) # "id" THEN COMPILE_RAISE_ERROR(name, 17)
     ELSE IF T(head) # ":" THEN COMPILE_RAISE_ERROR(head, 21)
     ELSE IF T(end) # "ENDP" THEN COMPILE_RAISE_ERROR(end, 16)
     ELSE LEX_NEXT_TOKEN(patched(op(emit(end, "PARAM_UNBIND", param), "RET"), Len(jump.code)))
COMPILE_DEF_FN(c) ==
  LET name == expect(LEX_NEXT_TOKEN(c), "FN", 49)
      jump == op(LEX_NEXT_TOKEN(named(name)), "JMP")
      param == now(LEX_NEXT_TOKEN(jump)).x
      head == parameter(jump, <<51, 52, 53>>)
      start == emit(LABEL_DEFINE(head, now(name).x), "PARAM_BIND", param)
  IN IF T(name) # "id" THEN COMPILE_RAISE_ERROR(name, 50)
     ELSE IF T(head) # "=" THEN COMPILE_RAISE_ERROR(head, 54)
     ELSE patched(op(emit(COMPILE_EXPR(LEX_NEXT_TOKEN(start)), "PARAM_UNBIND", param), "RET"), Len(jump.code))
COMPILE_CALL_STMT(c) ==
  LET name == LEX_NEXT_TOKEN(c)
      arg == COMPILE_EXPR(expect(LEX_NEXT_TOKEN(named(name)), "(", 14))
  IN IF T(name) # "id" THEN COMPILE_RAISE_ERROR(name, 13)
     ELSE LABEL_REF(op(expect(arg, ")", 15), "CALL"), now(name).x)

STRARR_DEFAULT_WIDTH == 16
dimension(c) == IF T(c) # "num" THEN COMPILE_RAISE_ERROR(c, 34)
                ELSE IF now(c).x = 0 THEN COMPILE_RAISE_ERROR(c, 35) ELSE LEX_NEXT_TOKEN(c)
width_of(c) == IF T(c) = "num" /\ now(c).x \in 2 .. 255 THEN LEX_NEXT_TOKEN(c) ELSE COMPILE_RAISE_ERROR(c, 34)
COMPILE_DIM(c) ==
  LET name == LEX_NEXT_TOKEN(c)
      x == now(name).x
      size == expect(LEX_NEXT_TOKEN(named(name)), "(", 33)
      count == now(size).x
      d == dimension(size)
      wide == T(name) = "sid" /\ T(d) = ","
      e == expect(IF wide THEN width_of(LEX_NEXT_TOKEN(d)) ELSE d, ")", 37)
      width == IF wide THEN now(LEX_NEXT_TOKEN(d)).x ELSE STRARR_DEFAULT_WIDTH
      arrays == IF T(name) = "id" THEN e.arrays ELSE e.strings
  IN IF T(name) \notin {"id", "sid"} THEN COMPILE_RAISE_ERROR(name, 32)
     ELSE IF e.err # 0 \/ x \in DOMAIN arrays THEN COMPILE_RAISE_ERROR(e, 38)
     ELSE IF T(name) = "id" THEN emit([e EXCEPT !.arrays = @ @@ (x :> count)], "DIM", <<x, count>>)
     ELSE emit([e EXCEPT !.strings = @ @@ (x :> count)], "DIM_STR", <<x, count, width>>)

COMPILE_ARR_ASSIGN_COMMON(c, x, kind) ==
  LET d == expect(expect(COMPILE_EXPR(LEX_NEXT_TOKEN(c)), ")", 41), "=", 2)
  IN IF x \notin DOMAIN (IF kind = "id" THEN c.arrays ELSE c.strings) THEN COMPILE_RAISE_ERROR(c, 42)
     ELSE IF kind = "id" THEN emit(COMPILE_EXPR(d), "ARR_STORE", x) ELSE emit(COMPILE_STR_EXPR(d), "STRARR_STORE", x)
COMPILE_ASSIGN_CONTINUED(c, x, kind) ==
  LET d == expect(c, "=", 2)
  IN IF T(c) = "(" THEN COMPILE_ARR_ASSIGN_COMMON(c, x, kind)
     ELSE IF kind = "id" THEN emit(COMPILE_EXPR(d), "STORE", x) ELSE emit(COMPILE_STR_EXPR(d), "STORE_STR", x)
\* A name before a colon on its line is a label, otherwise a target.
ident_stmt(c) ==
  LET d == LEX_NEXT_TOKEN(named(c))
  IN IF T(c) = "id" /\ T(d) = ":"
     THEN IF now(d).x = "newline" THEN COMPILE_RAISE_ERROR(d, 64) ELSE LABEL_DEFINE(d, now(c).x)
     ELSE COMPILE_ASSIGN_CONTINUED(d, now(c).x, T(c))
COMPILE_INPUT(c) ==
  LET d == LEX_NEXT_TOKEN(c)
      prompt == op(COMPILE_STR_EXPR(d), "PRINT_STR")
      target == IF T(d) # "str" THEN d
                ELSE IF T(prompt) \in {";", ","} THEN LEX_NEXT_TOKEN(prompt) ELSE COMPILE_RAISE_ERROR(prompt, 22)
  IN IF T(target) \notin {"id", "sid"} THEN COMPILE_RAISE_ERROR(target, 43)
     ELSE emit(LEX_NEXT_TOKEN(named(target)), IF T(target) = "id" THEN "INPUT_NUM" ELSE "INPUT_STR", now(target).x)

RECURSIVE rem_scan(_)
\* To the first token past the line's end.
rem_scan(c) == LET d == [c EXCEPT !.p = @ + 1] IN
               IF T(d) = "eof" \/ now(d).line # now(c).line \/ (T(d) = ":" /\ now(d).x = "newline") THEN LEX_NEXT_TOKEN(c) ELSE rem_scan(d)
statement(c) ==
  CASE T(c) \in OneArgument -> op(COMPILE_EXPR(LEX_NEXT_TOKEN(c)), T(c))
    [] T(c) \in TwoArguments -> COMPILE_2ARG_STMT(c)
    [] T(c) \in {"CLS", "CLEAR"} -> op(LEX_NEXT_TOKEN(c), T(c))
    [] T(c) \in {"END", "STOP"} -> op(LEX_NEXT_TOKEN(c), "HALT")
    [] T(c) = "LINE" -> COMPILE_LINE(c)
    [] T(c) = "PRINT" -> COMPILE_PRINT(LEX_NEXT_TOKEN(c))
    [] T(c) = "LPRINT" -> COMPILE_RAISE_ERROR(LEX_NEXT_TOKEN(c), 32)
    [] T(c) = "GOTO" -> COMPILE_GOTO(c)
    [] T(c) = "IF" -> COMPILE_IF(c)
    [] T(c) = "FOR" -> COMPILE_FOR(c)
    [] T(c) = "EXIT" -> COMPILE_EXIT_FOR(c)
    [] T(c) = "NEXT" -> COMPILE_NEXT(c)
    [] T(c) = "PROC" -> COMPILE_PROC(c)
    [] T(c) = "CALL" -> COMPILE_CALL_STMT(c)
    [] T(c) = "DEF" -> COMPILE_DEF_FN(c)
    [] T(c) = "DIM" -> COMPILE_DIM(c)
    [] T(c) = "INPUT" -> COMPILE_INPUT(c)
    [] T(c) \in {"id", "sid"} -> ident_stmt(c)
    [] OTHER -> COMPILE_RAISE_ERROR(c, 64)
after_stmt(c) == IF T(c) = ":" THEN LEX_NEXT_TOKEN(c) ELSE IF T(c) \in Stops THEN c ELSE COMPILE_RAISE_ERROR(c, 64)
next_statement(c) == IF T(c) = ":" THEN LEX_NEXT_TOKEN(c)
                     ELSE IF T(c) = "REM" THEN rem_scan(c)
                     ELSE after_stmt(statement(c))
\* Statements up to a token that ends the list, at most 2^k of them.
COMPILE_STATEMENT_LIST(c, k) == IF T(c) \in Stops THEN c
                                ELSE IF k = 0 THEN next_statement(c)
                                ELSE COMPILE_STATEMENT_LIST(COMPILE_STATEMENT_LIST(c, k - 1), k - 1)
\* The whole text: the code, or the first error and its line.
COMPILE_PROGRAM(start) ==
  LET c == COMPILE_STATEMENT_LIST(start, 10)
  IN IF T(c) # "eof" THEN COMPILE_RAISE_ERROR(c, 64)
     ELSE IF c.fors # <<>> THEN raised_at(c, 65, c.fors[Len(c.fors)].line)
     ELSE LABEL_CHECK_ALL(op(c, "HALT"))
V2_COMPILE_AT_BASE(lines) == COMPILE_PROGRAM(COMPILER_INIT(<<tok(":", "newline", 0)>> \o tokens(lines)))
=============================================================================
