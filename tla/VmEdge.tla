-------------------------------- MODULE VmEdge --------------------------------
(***************************************************************************)
(* The edge cases of the virtual machine (tools/qual/qvmedge.py): FOR/NEXT  *)
(* at the ends of the number range, loops left by GOTO and EXIT FOR, the    *)
(* comparisons of an IF in each of their forms, v = v + k.  The cases at    *)
(* the operand stack's limit nest deeper than TLC evaluates.                *)
(***************************************************************************)
EXTENDS Qualify

\* How PRINT shows p/q: a whole number in the integer range plainly, anything else with four decimals.
num(p, q) == IF p % q = 0 /\ p \div q \in -32768 .. 32767 THEN ToString(p \div q) ELSE fmt_float(p, q)
nums(vs) == [i \in DOMAIN vs |-> num(vs[i], 1)]
edge(lines, rows) == ends(lines, rows, 0, 0)
\* The values a whole-number FOR passes through.
RECURSIVE for_run(_, _, _)
for_run(v, limit, step) == IF IF step > 0 THEN v <= limit ELSE v >= limit THEN <<v>> \o for_run(v + step, limit, step) ELSE <<v>>

Loops == <<<<32760, 32767, 1>>, <<-32760, -32768, -1>>, <<1, 10, 3>>, <<10, 1, -3>>, <<32765, 32767, 2>>, <<-32768, 32767, 32767>>,
           <<32767, -32768, -32768>>, <<-5, -2, 1>>, <<5, 1, 1>>>>
for_values ==
  [k \in DOMAIN Loops |-> LET l == Loops[k] IN
     edge(<<"FOR i = " \o ToString(l[1]) \o " TO " \o ToString(l[2]) \o (IF l[3] = 1 THEN "" ELSE " STEP " \o ToString(l[3])),
            "PRINT i", "NEXT i", "PRINT i">>, nums(for_run(l[1], l[2], l[3])))]

for_bodies ==
  <<edge(<<"FOR i = 1 TO 9", "i = i + 1", "PRINT i", "NEXT i", "PRINT i">>, nums(<<2, 4, 6, 8, 10, 11>>)),
    edge(<<"FOR i = 1 TO 3", "i = 2.5", "PRINT i", "NEXT i", "PRINT i">>, <<num(5, 2), num(7, 2)>>),
    edge(<<"FOR i = 1 TO 10", "i = i + 2", "PRINT i", "NEXT i">>, nums(<<3, 6, 9, 12>>)),
    edge(<<"n = 2.5", "FOR i = 1 TO n", "PRINT i", "NEXT i", "PRINT i">>, nums(<<1, 2, 3>>)),
    edge(<<"FOR i = 0.5 TO 3", "PRINT i", "NEXT i", "PRINT i">>, <<num(1, 2), num(3, 2), num(5, 2), num(7, 2)>>),
    edge(<<"FOR i = 1 TO 4", "FOR j = 1 TO 2", "GOTO nx", "NEXT j", "nx:", "PRINT i; j", "NEXT i", "PRINT i">>,
         <<"11", "21", "31", "41", "5">>),
    edge(<<"FOR i = 1 TO 3", "FOR j = i TO 3", "PRINT i; j", "NEXT j", "NEXT i", "PRINT i; j">>,
         <<"11", "12", "13", "22", "23", "33", "44">>),
    edge(<<"k = 0", "top:", "FOR i = 1 TO 2", "k = k + 1", "IF k = 1 THEN GOTO top", "NEXT i", "PRINT i; k">>, <<"33">>),
    edge(<<"FOR i = 1 TO 9", "IF i = 4 THEN", "EXIT FOR", "ENDIF", "NEXT i", "PRINT i">>, <<"4">>),
    edge(<<"k = 0", "FOR i = 1 TO 2 STEP 0", "k = k + 1", "IF k = 50 THEN", "EXIT FOR", "ENDIF", "NEXT i", "PRINT i; k">>, <<"150">>)>>

\* NEXT reached with no loop open, whatever the variable holds.
Before == <<<<"x = 0">>, <<"x = 0.5">>, <<"y = 0.5", "x = 0">>>>
no_loop ==
  <<ends(<<"FOR i = 1 TO 3", "CALL p(0)", "NEXT i", "END", "PROC p(n):", "NEXT i", "ENDP">>, <<>>, 56, 0)>>
  \o [k \in DOMAIN Before |->
        ends(Before[k] \o <<"GOTO inside", "FOR x = 1 TO 3", "inside:", "NEXT x", "PRINT \"n\"">>, <<>>, 0, 7)]

\* A pair of sources and their values, as ratios.
Pairs == <<<<"3", "5", 3, 5, 1>>, <<"2.5", "5.5", 5, 11, 2>>, <<"3", "3.0", 3, 3, 1>>, <<"-7", "2", -7, 2, 1>>, <<"4", "4", 4, 4, 1>>,
           <<"32767", "-32768", 32767, -32768, 1>>>>
only(b, rows) == IF b THEN rows ELSE <<>>
if_block(p, o) ==
  LET f(a, b) == order(<<a, b>>) \in o[2] IN
  edge(<<"a = " \o p[1], "b = " \o p[2], "IF a " \o o[1] \o " b THEN", "PRINT \"t\"", "ELSE", "PRINT \"f\"", "ENDIF",
         "IF b " \o o[1] \o " a THEN", "PRINT \"t2\"", "ENDIF", "IF a " \o o[1] \o " 4 THEN", "PRINT \"t3\"", "ENDIF">>,
       <<IF f(p[3], p[4]) THEN "t" ELSE "f">> \o only(f(p[4], p[3]), <<"t2">>) \o only(f(p[3], 4 * p[5]), <<"t3">>))
if_goto(p, o) ==
  LET f(a, b) == order(<<a, b>>) \in o[2] IN
  edge(<<"a = " \o p[1], "b = " \o p[2], "IF a " \o o[1] \o " b THEN GOTO yes", "PRINT \"no\"", "GOTO done", "yes:", "PRINT \"yes\"",
         "done:", "IF b " \o o[1] \o " a THEN GOTO y2", "PRINT \"n2\"", "y2:", "PRINT \"e\"">>,
       <<IF f(p[3], p[4]) THEN "yes" ELSE "no">> \o only(~f(p[4], p[3]), <<"n2">>) \o <<"e">>)
branches == [k \in 1 .. 36 |-> if_block(Pairs[((k - 1) \div 6) + 1], Ops[(k % 6) + 1])]
            \o [k \in 1 .. 36 |-> if_goto(Pairs[((k - 1) \div 6) + 1], Ops[(k % 6) + 1])]

conditions ==
  <<edge(<<"a = 1", "b = 2", "IF a < b AND b < 3 THEN", "PRINT \"and\"", "ENDIF", "IF a > b OR b = 2 THEN", "PRINT \"or\"", "ENDIF",
           "IF NOT a = b THEN", "PRINT \"not\"", "ENDIF">>, <<"and", "or", "not">>),
    edge(<<"a = 1", "b = 2", "IF (a < b) THEN", "PRINT \"p\"", "ENDIF", "IF (a > b) THEN GOTO z", "PRINT \"q\"", "z:">>, <<"p", "q">>),
    edge(<<"a = 1", "b = 2", "c = a < b", "PRINT c", "PRINT a = b", "IF c THEN", "PRINT \"c\"", "ENDIF">>, <<"1", "0", "c">>),
    edge(<<"a$ = \"x\"", "b$ = \"y\"", "IF a$ < b$ THEN", "PRINT \"s\"", "ENDIF", "IF a$ = b$ THEN GOTO z", "PRINT \"u\"", "z:">>,
         <<"s", "u">>),
    edge(<<"DEF FN f(x) = x + 1", "IF FN f(2) = 3 THEN", "PRINT \"fn\"", "ENDIF">>, <<"fn">>),
    edge(<<"a = 2", "IF a > 1 THEN", "IF a < 3 THEN", "PRINT \"in\"", "ELSE", "PRINT \"no\"", "ENDIF", "ENDIF">>, <<"in">>),
    edge(<<"n = 0", "top:", "n = n + 1", "IF n = 3 THEN GOTO done", "GOTO top", "done:", "PRINT n">>, <<"3">>),
    edge(<<"i = 0", "top:", "i = i + 1", "IF i < 300 THEN GOTO top", "PRINT i">>, <<"300">>),
    edge(<<"i = 0", "s = 0", "top:", "IF i < 100 THEN", "i = i + 1", "s = s + i", "GOTO top", "ENDIF", "PRINT i; s">>, <<"1005050">>)>>

additions ==
  <<edge(<<"x = 5", "x = x + 1", "PRINT x", "x = x - 3", "PRINT x", "x = x + 127", "PRINT x", "x = x - 127", "PRINT x", "x = x + 0",
           "x = x - 0", "PRINT x">>, nums(<<6, 3, 130, 3, 3>>)),
    edge(<<"x = 5", "x = x - (-128)", "PRINT x", "x = x + (-128)", "PRINT x", "x = x - 128", "PRINT x", "x = x + 128", "PRINT x",
           "x = x - -127", "PRINT x">>, nums(<<133, 5, -123, 5, 132>>)),
    edge(<<"x = 32766", "x = x + 1", "PRINT x", "x = x + 1", "PRINT x", "x = x + 1", "PRINT x">>, nums(<<32767, 32768, 32769>>)),
    edge(<<"x = -32767", "x = x - 1", "PRINT x", "x = x - 1", "PRINT x", "x = x - 1", "PRINT x">>, nums(<<-32768, -32769, -32770>>)),
    edge(<<"x = 0.5", "x = x + 1", "PRINT x", "x = x - 2", "PRINT x", "x = x + 3", "PRINT x">>, <<num(3, 2), num(-1, 2), num(5, 2)>>),
    edge(<<"x = 7", "y = 5", "x = x + y", "PRINT x", "y = -20", "x = x + y", "PRINT x", "x = x + x", "PRINT x">>, nums(<<12, -8, -16>>)),
    edge(<<"x = 30000", "y = 5000", "x = x + y", "PRINT x", "x = x + y", "PRINT x">>, nums(<<35000, 40000>>)),
    edge(<<"x = 7", "y = 0.25", "x = x + y", "PRINT x", "y = 3", "x = x + y", "PRINT x">>, <<num(29, 4), num(41, 4)>>),
    edge(<<"x = 7", "y = 5", "x = x - y", "PRINT x">>, nums(<<2>>)),
    edge(<<"x = 5", "x = x + 1000", "PRINT x", "x = x - 1000", "PRINT x">>, nums(<<1005, 5>>)),
    edge(<<"x = 5", "y = 2", "x = y + 1", "PRINT x", "x = 1 + x", "PRINT x", "x = x * 2", "PRINT x", "x = (x + 1)", "PRINT x",
           "x = x + 1 + 1", "PRINT x">>, nums(<<3, 4, 8, 9, 11>>)),
    edge(<<"s = 0", "CALL p(5)", "PRINT s", "END", "PROC p(n):", "s = s + n", "n = n + 1", "s = s + n", "ENDP">>, nums(<<11>>))>>

\* The odd primes up to 2 * size + 3, counted without a sieve.
primes(size) == Cardinality({i \in 0 .. size : \A d \in 2 .. i : (2 * i + 3) % d # 0})
sieve == <<edge(<<"s = 100", "DIM g(101)", "c = 0", "FOR i = 0 TO s", "g(i) = 1", "NEXT i", "FOR i = 0 TO s", "IF g(i) = 0 THEN GOTO skip",
                  "r = i + i + 3", "k = i + r", "IF k > s THEN GOTO noclear", "clearloop:", "g(k) = 0", "k = k + r",
                  "IF k <= s THEN GOTO clearloop", "noclear:", "c = c + 1", "skip:", "NEXT i", "PRINT c">>, nums(<<primes(100)>>))>>

\* A variable against a constant, under every operator, in both forms of IF; the values are halves.
IFK_VALUES == <<<<"-32767 - 1", -65536>>, <<"-129", -258>>, <<"-1", -2>>, <<"0", 0>>, <<"5", 10>>, <<"127", 254>>, <<"128", 256>>,
                <<"32767", 65534>>, <<"2.5", 5>>, <<"-0.5", -1>>, <<"40000", 80000>>, <<"2.5 + 2.5", 10>>>>
IFK_CONSTS == <<<<"0", 0>>, <<"5", 10>>, <<"127", 254>>, <<"128", 256>>, <<"1000", 2000>>, <<"32767", 65534>>, <<"-1", -2>>, <<"4.5", 9>>>>
ifk(x, k) ==
  LET test(j) == "IF x " \o Ops[j][1] \o " " \o k[1] \o " THEN"
      mark(j) == ToString(j - 1) \o ":"
      block(j) == <<test(j), "PRINT \"1\";", "ELSE", "PRINT \"0\";", "ENDIF">>
      branch(j) == <<test(j) \o " GOTO y" \o ToString(j - 1), "PRINT \"0\";", "GOTO n" \o ToString(j - 1), "y" \o mark(j), "PRINT \"1\";",
                   "n" \o mark(j)>>
      result_of(j) == IF order(<<x[2], k[2]>>) \in Ops[j][2] THEN "1" ELSE "0"
      both == result_of(1) \o result_of(2) \o result_of(3) \o result_of(4) \o result_of(5) \o result_of(6)
  IN edge(<<"x = " \o x[1]>> \o FlattenSeq([j \in 1 .. 6 |-> block(j)]) \o <<"PRINT">> \o FlattenSeq([j \in 1 .. 6 |-> branch(j)]) \o <<"PRINT">>,
          <<both, both>>)
against_constants == [n \in 1 .. 96 |-> ifk(IFK_VALUES[((n - 1) \div 8) + 1], IFK_CONSTS[((n - 1) % 8) + 1])]

loops_of_ifs ==
  <<edge(<<"x = 0", "n = 0", "top:", "n = n + 1", "x = x + 0.5", "IF n = 4 THEN", "x = 2", "ENDIF", "IF x < 3 THEN GOTO top", "PRINT n">>,
         <<"6">>),
    edge(<<"i = 300", "top:", "i = i - 1", "IF i > 5 THEN GOTO top", "PRINT i">>, <<"5">>),
    edge(<<"i = 0", "top:", "i = i + 7", "IF i <= 2000 THEN GOTO top", "PRINT i">>, <<"2002">>),
    edge(<<"a = 1", "b = 2", "c = 3", "d = 4", "DIM g(3)", "g(1) = 9", "IF c + d < 8 THEN", "PRINT \"a\";", "ENDIF", "IF d < 5 + c THEN",
           "PRINT \"b\";", "ENDIF", "IF 5 > d THEN", "PRINT \"c\";", "ENDIF", "IF a < d THEN", "PRINT \"d\";", "ENDIF",
           "IF a < 2 AND d > 3 THEN", "PRINT \"e\";", "ENDIF", "IF g(1) > 8 THEN", "PRINT \"f\";", "ENDIF", "IF (d) = 4 THEN",
           "PRINT \"g\";", "ENDIF", "PRINT">>, <<"abcdefg">>),
    edge(<<"s = 0", "CALL p(1)", "PRINT s", "END", "PROC p(n):", "s = s + n", "IF n < 12 THEN", "CALL p(n + 1)", "ENDIF", "ENDP">>,
         <<"78">>)>>

cases == [for_values |-> for_values, for_bodies |-> for_bodies, no_loop |-> no_loop, branches |-> branches, conditions |-> conditions,
          additions |-> additions, sieve |-> sieve, against_constants |-> against_constants, loops_of_ifs |-> loops_of_ifs]
=============================================================================
