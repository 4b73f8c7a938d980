-------------------------------- MODULE Corpus --------------------------------
(***************************************************************************)
(* The conformance corpus (tools/qual/corpus.py), in four parts.  A definition*)
(* holds the cases of a group.                                              *)
(***************************************************************************)
EXTENDS Qualify

-----------------------------------------------------------------------------
\* Sections 1 to 5 of the conformance corpus (tools/qual/corpus.py): literals,
\* names, arithmetic, comparisons, functions.  A definition holds the cases of
\* a group; a case that needs what the model leaves out (a calculator function,
\* a number past TLC's, the random expressions) is not among them.

ints == <<0, 1, 7, 127, 128, 255, 256, 1000, 32766, 32767>>
large == <<32768, 40000, 65535, 65536, 99999, 100000>>
int(n) == IF n = -32768 THEN "(-32767-1)" ELSE ToString(n)
pairs == <<<<1, 2>>, <<2, 2>>, <<3, 2>>, <<-32768, 32767>>, <<32767, -32768>>>>

literals ==
  <<arith("-1", I(-1)), arith("-32767", I(-32767)), arith("-32768", Num(-32768)),
    Prints(<<"POKE 65000,77", "PRINT PEEK(65000)">>, I(77)), arith("0.5", F(1, 2))>>
  \o [i \in DOMAIN ints |-> arith(ToString(ints[i]), I(ints[i]))]
  \o [i \in DOMAIN large |-> arith(ToString(large[i]), Num(large[i]))]

decimals ==
  <<arith("1.25", F(5, 4)), arith("10.5", F(21, 2)), arith("3.1416", F(3927, 1250)), arith("0.0001*10000", F(1, 1)),
    OkOrErr(<<"PRINT 0.00001*10000*10">>, <<"1.0000">>), OkOrErr(<<"PRINT 0.000001*10000*10*10">>, <<"1.0000">>),
    arith("1.5000", F(3, 2)), arith("3.14159", F(314159, 100000)), arith("12345.678", F(6172839, 500)),
    arith("9999.5", F(19999, 2)), arith("3276.7", F(32767, 10)), arith("2.0", Num(2)), arith("5.", Num(5)),
    OkOrErr(<<"PRINT .5">>, <<"0.5000">>), CErrAny(<<"PRINT $FF">>), CErrAny(<<"PRINT 1E3">>),
    Out(<<"PRINT \"\"", "PRINT \"x\"">>, <<"", "x">>), Out(<<"PRINT \"Hello, World!\"">>, <<"Hello, World!">>),
    Out(<<"PRINT \"" \o repeated("A", 31) \o "\"">>, <<repeated("A", 31)>>),
    OkOrErr(<<"PRINT \"" \o repeated("B", 32) \o "\"">>, <<repeated("B", 32)>>),
    Out(<<"PRINT \"PRINT : GOTO x REM\"">>, <<"PRINT : GOTO x REM">>), CErr(<<"PRINT \"abc">>, 64), CErrAny(<<"PRINT \"a\"\"b\"">>)>>

lexical ==
  <<Out(<<"print 5", "Print 6", "pRiNt 7">>, <<"5", "6", "7">>), Prints(<<"abc = 3", "PRINT ABC + Abc">>, I(6)),
    Prints(<<"a1 = 4", "b22c = 5", "PRINT a1 * b22c">>, I(20)),
    Prints(<<repeated("v", 31) \o " = 9", "PRINT " \o repeated("v", 31)>>, I(9)), CErr(<<repeated("v", 32) \o " = 9">>, 61),
    CErrAny(<<"my_var = 1">>), Prints(<<"tomato = 2", "to1 = 3", "format = 4", "PRINT tomato + to1 + format">>, I(9)),
    CErrAny(<<"print = 3">>), CErrAny(<<"abs = 3", "PRINT abs">>), Out(<<"REM hello : PRINT 1", "PRINT \"after\"">>, <<"after">>),
    Prints(<<"x = 1 : REM comment", "PRINT x">>, I(1)), Out(<<"REM ends with colon:", "PRINT \"next\"">>, <<"next">>),
    Prints(<<"x = 1 : y = 2 : PRINT x + y">>, I(3)), Prints(<<"x = 1 :", "PRINT x">>, I(1)), CErr(<<"x = 1 ' comment">>, 64),
    CErrAny(<<"10 PRINT 1">>), CErrAny(<<"PRNT">>), CErrAny(<<"PRINT \"a\"", "CONT", "PRINT \"b\"">>), CErrAny(<<"x">>),
    CErr(<<"x = 1 2">>, 64), CErrAny(<<"x = 1 ? 2">>)>>

\* The ten parentheses of one case are four here.
integer_arithmetic ==
  <<arith("2+3", I(5)), arith("2-7", I(-5)), arith("6*7", I(42)), arith("84/4", I(21)), arith("7/2", F(7, 2)),
    arith("-7/2", F(-7, 2)), arith("1/3", F(1, 3)), arith("2/3", F(2, 3)), arith("2+3*4", I(14)), arith("(2+3)*4", I(20)),
    arith("20-6-4", I(10)), arith("100/10/5", I(2)), arith("2*3+4*5-6/3", I(24)), arith("-2*3", I(-6)), arith("2*-3", I(-6)),
    arith("2--3", I(5)), arith("-(2+3)", I(-5)), arith("--5", I(5)), arith("((((1+2))))*3", I(9)), arith("32767", I(32767)),
    arith("-32767-1", I(-32768)), arith("32767+1", F(32768, 1)), arith("-32767-2", F(-32769, 1)), arith("30000*3", F(90000, 1)),
    arith("181*182", F(32942, 1)), arith("-256*128", Num(-32768)), arith("-256*129", F(-33024, 1)), arith("32767+1-1", Num(32767)),
    arith("(-32767-1)/-1", Num(32768)), arith("-(-32767-1)", Num(32768)), arith("(-32767-1)*-1", Num(32768)),
    RErr(<<"PRINT 1/0">>, 5), RErr(<<"z = 0", "PRINT 5/z">>, 5), RErr(<<"PRINT 1.5/0">>, 5), RErr(<<"z = 0.0", "PRINT 2/z">>, 5)>>

variables ==
  <<Lines(<<"a = 5", "b = a * 2", "a = b - a", "PRINT a", "PRINT b">>, <<I(5), I(10)>>),
    Prints(<<"x = 1", "x = x + x + x", "PRINT x">>, I(3)), arith("q + 1", I(1))>>

float_arithmetic ==
  <<arith("0.5+0.25", F(3, 4)), arith("1+0.5", F(3, 2)), arith("0.5*4", Num(2)), arith("1.5-2.75", F(-5, 4)),
    arith("-0.5", F(-1, 2)), arith("-0.0625", F(-1, 16)), arith("0.1+0.2", F(3, 10)), arith("1/3*3", Num(1)),
    arith("1.5+2.5*3.5", F(41, 4)), arith("1.5*2.5+3.5*4.5", F(39, 2)), arith("1.5*2.5+3.5*4.5+5.5*6.5", F(221, 4)),
    arith("(1.5+2.5)*(3.5+4.5)", Num(32)), arith("1/2+1/4", F(3, 4)), arith("1/2+1/4+1/8", F(7, 8)),
    arith("(1/2)*(1/4)+(1/8)*(1/16)", F(17, 128)), arith("2.5*(1.5+0.5*3.5)", F(65, 8)), arith("(0.5<0.75)", I(1)),
    arith("(0.5=0.5)", I(1)), arith("(1<1.5)", I(1)), arith("(2.5>=2.5)", I(1)), arith("40000.5", F(80001, 2)),
    arith("30000*3+0.5", F(180001, 2)), arith("-30000*3", F(-90000, 1)),
    Lines(<<"x = 2.5", "y = x * 2", "PRINT y", "PRINT x">>, <<Num(5), F(5, 2)>>),
    Prints(<<"x = 2.5", "x = 3", "PRINT x + 1">>, I(4)), Prints(<<"a = 0.5", "b = 0.25", "c = 0.125", "PRINT a + b + c">>, F(7, 8)),
    Prints(<<"x = 0", "FOR i = 1 TO 10", "x = x + 0.5", "NEXT i", "PRINT x">>, Num(5))>>

logic ==
  <<CErrAny(<<"x = 1 < 2 < 3">>), arith("(1 AND 1) + (1 AND 0) * 2 + (0 AND 1) * 4", I(1)),
    arith("(1 OR 0) + (0 OR 0) * 2 + (0 OR 1) * 4", I(5)), arith("(NOT 0) + (NOT 1) * 2 + (NOT 5) * 4", I(1)),
    arith("5 AND 3", I(1)), Out(<<"a = 1 : b = 2", "IF NOT a = b AND b = 2 THEN", "PRINT \"y\"", "ENDIF">>, <<"y">>),
    Out(<<"IF 1 = 1 OR 1 = 2 AND 2 = 3 THEN", "PRINT \"y\"", "ENDIF">>, <<"y">>), OkOrErr(<<"PRINT 1.5 AND 1">>, <<"1">>),
    Out(<<"y = 0", "IF y <> 0 AND 10 / y > 1 THEN", "PRINT \"x\"", "ENDIF", "PRINT \"ok\"">>, <<"ok">>)>>
  \o [k \in 1 .. 30 |-> LET o == Ops[(k % 6) + 1] p == pairs[(k % 5) + 1] IN
         Prints(<<"x = (" \o int(p[1]) \o " " \o o[1] \o " " \o int(p[2]) \o ")", "PRINT x">>, I(IF order(p) \in o[2] THEN 1 ELSE 0))]

functions ==
  <<arith("ABS(5)", I(5)), arith("ABS(-5)", I(5)), arith("ABS(0)", I(0)), arith("ABS(-2.5)", F(5, 2)), arith("ABS(2.5)", F(5, 2)),
    arith("SGN(7)", I(1)), arith("SGN(-7)", I(-1)), arith("SGN(0)", I(0)), arith("SGN(0.5)", I(1)), arith("SGN(-0.3)", I(-1)),
    arith("MOD(17,5)", I(2)), arith("MOD(-17,5)", I(-2)), arith("MOD(17,-5)", I(2)), arith("MOD(-32767-1,3)", I(-2)),
    arith("MOD(20,5)", I(0)), arith("DIV(17,5)", I(3)), arith("DIV(-17,5)", I(-3)), arith("DIV(-17,-5)", I(3)),
    arith("DIV(-32767-1,2)", I(-16384)), arith("INT(7)", I(7)), arith("INT(2.7)", I(2)), arith("INT(-2.7)", I(-2)),
    arith("INT(7/2)", I(3)), arith("INT(0.9999)", I(0))>>

function_edges ==
  <<arith("ABS(-32767-1)", Num(32768)), arith("DIV(-32767-1,-1)", Num(32768)), arith("INT(30000*3+0.5)", Num(90000)),
    arith("INT(-3.5)", I(-3)), arith("MOD(-7,3)", I(-1)), arith("DIV(-7,2)", I(-3)), RErr(<<"PRINT MOD(5,0)">>, 5),
    RErr(<<"PRINT DIV(5,0)">>, 5)>>

function_bytes ==
  <<OkOrErr(<<"PRINT MOD(7.5,2)">>, <<"1.5000">>), Prints(<<"POKE 40000,123", "PRINT PEEK(40000)">>, I(123)),
    Prints(<<"POKE 30000,300", "PRINT PEEK(30000)">>, I(44))>>

function_errors ==
  <<CErr(<<"PRINT FREE">>, 29), CErr(<<"PRINT PI">>, 29), CErrAny(<<"PRINT ABS()">>), CErrAny(<<"PRINT ABS(1,2)">>),
    CErrAny(<<"PRINT MOD(5)">>), CErrAny(<<"PRINT MOD(5,2,1)">>), CErrAny(<<"PRINT PI(1)">>), CErrAny(<<"PRINT LEFT$(\"abc\")">>),
    CErrAny(<<"PRINT MID$(\"abc\",2)">>), CErrAny(<<"PRINT LEN(5)">>), CErrAny(<<"PRINT ABS(\"x\")">>),
    CErrAny(<<"PRINT LEFT$(5,1)">>), arith("ABS(SGN(-5)*MOD(17,5)+DIV(9,2))", I(2)), arith("LEN(STR$(ABS(-123))+CHR$(65))", I(4))>>

NumberCases == [literals |-> literals, decimals |-> decimals, lexical |-> lexical, integer_arithmetic |-> integer_arithmetic,
         variables |-> variables, float_arithmetic |-> float_arithmetic, logic |-> logic, functions |-> functions,
         function_edges |-> function_edges, function_bytes |-> function_bytes, function_errors |-> function_errors]

-----------------------------------------------------------------------------
\* Sections 6 to 8 of the conformance corpus: strings, PRINT and the screen
\* statements, graphics.

string_values ==
  <<Out(<<"a$ = \"hello\"", "PRINT a$">>, <<"hello">>), Out(<<"a$ = \"foo\"", "b$ = a$ + \"bar\"", "PRINT b$">>, <<"foobar">>),
    Out(<<"PRINT \"a\" + \"b\" + \"c\"">>, <<"abc">>),
    Out(<<"a$ = \"x\" : b$ = \"y\" : c$ = \"z\"", "PRINT a$ + b$ + c$ + a$">>, <<"xyzx">>),
    Out(<<"a$ = \"" \o repeated("a", 20) \o "\"", "b$ = a$ + a$", "PRINT LEN(b$)">>, <<"31">>),
    Out(<<"a$ = \"\"", "PRINT LEN(a$)">>, <<"0">>), Out(<<"PRINT LEN(z$)">>, <<"0">>), Out(<<"PRINT LEN(\"foobar\")">>, <<"6">>),
    Out(<<"PRINT CODE(\"A\")">>, <<"65">>), Out(<<"PRINT CODE(\"\")">>, <<"0">>), Out(<<"PRINT CHR$(72) + CHR$(105)">>, <<"Hi">>),
    Out(<<"PRINT STR$(-123) + \"!\"">>, <<"-123!">>), Out(<<"PRINT STR$(2.5)">>, <<"2.5000">>),
    Out(<<"PRINT VAL(\"123\") + 1">>, <<"124">>), Out(<<"PRINT VAL(\"-45\")">>, <<"-45">>),
    Out(<<"PRINT VAL(\"1.5\") * 2">>, <<"3.0000">>), Out(<<"PRINT VAL(\"12abc34\")">>, <<"12">>),
    Out(<<"PRINT VAL(\"\")">>, <<"0">>), Prints(<<"PRINT VAL(\"99999\")">>, Num(99999)),
    Out(<<"PRINT UPPER$(\"Hello 1!\")">>, <<"HELLO 1!">>), Out(<<"PRINT LOWER$(\"Hello 1!\")">>, <<"hello 1!">>),
    Out(<<"PRINT LEFT$(\"abcdef\",3)">>, <<"abc">>),
    Out(<<"a$ = LEFT$(\"abc\",10)", "b$ = LEFT$(\"abc\",0)", "c$ = LEFT$(\"abc\",-2)", "PRINT a$ + \"!\" + b$ + \"!\" + c$ + \"!\"">>, <<"abc!!!">>),
    Out(<<"PRINT RIGHT$(\"abcdef\",2)">>, <<"ef">>), Out(<<"PRINT RIGHT$(\"abc\",9)">>, <<"abc">>),
    Out(<<"PRINT MID$(\"hello\",2,3)">>, <<"ell">>), Out(<<"PRINT MID$(\"hello\",4,10)">>, <<"lo">>),
    OkOrErr(<<"PRINT MID$(\"hello\",0,2)">>, <<"he">>), Out(<<"m$ = MID$(\"hello\",9,2)", "PRINT \"<\" + m$ + \">\"">>, <<"<>">>),
    Out(<<"PRINT \"<\" + MID$(\"hello\",2,3) + \">\"">>, <<"<ell>">>),
    Out(<<"PRINT LEFT$(\"abc\",10) + \"!\" + LEFT$(\"abc\",1)">>, <<"abc!a">>),
    Out(<<"PRINT UPPER$(\"a\") + LOWER$(\"B\")">>, <<"Ab">>), Out(<<"PRINT \"a\" + UPPER$(\"b\")">>, <<"aB">>),
    Out(<<"PRINT LEFT$(\"xyz\",1) + MID$(\"xyz\",2,1) + RIGHT$(\"xyz\",1)">>, <<"xyz">>),
    Out(<<"PRINT CHR$(65) + CHR$(66) + CHR$(67)">>, <<"ABC">>),
    Out(<<"PRINT LEFT$(\"ab\" + \"cd\",3) + RIGHT$(\"ef\" + \"gh\",2)">>, <<"abcgh">>),
    Out(<<"PRINT STR$(1) + STR$(2) + STR$(3)">>, <<"123">>),
    Out(<<"a$ = UPPER$(\"q\") + LOWER$(\"R\") + \"s\"", "PRINT a$">>, <<"Qrs">>)>>

string_compare ==
  <<Out(<<"a$ = \"abc\"", "IF a$ = \"abc\" THEN", "PRINT \"eq\"", "ENDIF">>, <<"eq">>),
    Out(<<"IF \"abc\" < \"abd\" THEN", "PRINT \"lt\"", "ENDIF">>, <<"lt">>),
    Out(<<"IF \"ab\" < \"abc\" THEN", "PRINT \"lt\"", "ENDIF">>, <<"lt">>),
    Out(<<"IF \"b\" < \"a\" THEN", "PRINT \"wrong\"", "ELSE", "PRINT \"ok\"", "ENDIF">>, <<"ok">>),
    Out(<<"IF \"a\" = \"A\" THEN", "PRINT \"same\"", "ELSE", "PRINT \"diff\"", "ENDIF">>, <<"diff">>),
    OkOrErr(<<"x = (\"a\" = \"a\")", "PRINT x">>, <<"1">>),
    Out(<<"a$ = \"x\"", "IF a$ = \"x\" AND 1 = 1 THEN", "PRINT \"y\"", "ENDIF">>, <<"y">>),
    CErrAny(<<"PRINT INSTR(\"hello\",\"ll\")">>), CErrAny(<<"a$ = \"hello\"", "PRINT a$(2 TO 3)">>),
    RErr(<<"PRINT CHR$(256)">>, 15), RErr(<<"PRINT CHR$(-1)">>, 15), CErrAny(<<"a$ = 5">>), CErrAny(<<"a = \"x\"">>),
    Prints(<<"k$ = INKEY$()", "PRINT LEN(k$)">>, I(0)), CErr(<<"k$ = INKEY$">>, 29),
    Out(<<"a$=\"1\":b$=\"2\":c$=\"3\":d$=\"4\":e$=\"5\":f$=\"6\"", "PRINT a$+b$+c$+d$+e$+f$">>, <<"123456">>)>>
  \o [k \in 1 .. 4 |-> LET o == <<"<>", ">", "<=", ">=">>[k] IN
         Out(<<"IF \"b\" " \o o \o " \"a\" THEN", "PRINT \"t\"", "ELSE", "PRINT \"f\"", "ENDIF">>, <<IF o = "<=" THEN "f" ELSE "t">>)]

printing ==
  <<Out(<<"PRINT 42">>, <<"42">>), Out(<<"PRINT -42">>, <<"-42">>), Out(<<"PRINT \"a\" + \"b\"">>, <<"ab">>),
    Out(<<"PRINT \"1\"", "PRINT \"2\"", "PRINT \"3\"">>, <<"1", "2", "3">>),
    Out(<<"a$ = \"" \o repeated("x", 20) \o "\"", "PRINT a$ + a$", "PRINT \"y\"">>, <<repeated("x", 31), "y">>),
    Out(<<"FOR i = 1 TO 30", "PRINT i", "NEXT i">>, [row \in 1 .. 23 |-> ToString(row + 7)]),
    Out(<<"PRINT \"a\"; 1; \"b\"; 2">>, <<"a1b2">>), Out(<<"PRINT \"ab\", \"cd\"">>, <<"ab              cd">>),
    Out(<<"PRINT \"x\";", "PRINT \"y\"">>, <<"xy">>), Out(<<"PRINT \"a\"", "PRINT", "PRINT \"b\"">>, <<"a", "", "b">>),
    Out(<<"PRINT \"a\", \"b\", \"c\"">>, <<"a               b", "c">>), Out(<<"PRINT 1.5; 2">>, <<"1.50002">>),
    Out(<<"IF 1 THEN", "PRINT \"y\"; 1", "ELSE", "PRINT \"n\"", "ENDIF">>, <<"y1">>),
    Out(<<"PRINT UPPER$(\"a\"); LOWER$(\"B\"); 1.5*2.5; 3.5*4.5">>, <<"Ab3.750015.7500">>),
    row_is(<<"AT 5,10", "PRINT \"X\"">>, 6, repeated(" ", 10) \o "X"),
    row_is(<<"AT 30,40", "PRINT \"Z\"">>, 23, repeated(" ", 8) \o "Z"),
    row_is(<<"TAB 7", "PRINT \"T\"">>, 1, repeated(" ", 7) \o "T"), CErrAny(<<"PRINT AT 1,1; \"x\"">>),
    Out(<<"PRINT \"gone\"", "CLS", "PRINT \"kept\"">>, <<"kept">>), attr0(<<"INK 2", "PAPER 5", "PRINT \"c\"">>, {42}),
    attr0(<<"BRIGHT 1", "FLASH 1", "PRINT \"c\"">>, 192 .. 255), attr0(<<"INVERSE 1", "PRINT \"A\"">>, {7}),
    Prints(<<"PLOT 0,191", "OVER 1", "PLOT 0,191", "PRINT POINT(0,191)">>, I(0)), Out(<<"BORDER 3", "PRINT \"b\"">>, <<"b">>),
    OkOrErr(<<"INK 9", "PRINT \"i\"">>, <<"i">>)>>

graphics ==
  <<Prints(<<"PLOT 10,20", "p = POINT(10,20) + POINT(11,20)", "CLS", "PRINT p">>, I(1)),
    Prints(<<"LINE 0,0 TO 100,50", "p = POINT(0,0) + POINT(100,50) + POINT(50,25)", "CLS", "PRINT p">>, I(3)),
    Out(<<"CLS", "LINE -10, 50 TO 100, 50", "LINE 120, -10 TO 120, 300", "LINE 300, 20 TO 200, 20", "p$ = STR$(POINT(0, 50)) + STR$(POINT(246, 50)) + STR$(POINT(120, 0)) + STR$(POINT(120, 191)) + STR$(POINT(255, 20)) + STR$(POINT(44, 20)) + STR$(POINT(150, 20))", "CLS", "PRINT p$">>, <<"1011100">>),
    OkOrErr(<<"PLOT 255,300", "p = POINT(255,191)", "CLS", "PRINT p">>, <<"1">>), arith("POINT(0,500)", I(0)),
    row_is(<<"INK 4", "PAPER 1", "AT 3,4", "PRINT \"q\"", "x = ATTR(3,4)", "AT 10,0", "PRINT x">>, 11, "12"),
    arith("ATTR(30,40)", I(0)), CErr(<<"PLOT 1">>, 22), CErr(<<"LINE 1,2,3,4">>, 24)>>

ScreenCases == [string_values |-> string_values, string_compare |-> string_compare, printing |-> printing, graphics |-> graphics]

-----------------------------------------------------------------------------
\* Sections 9 to 12 of the conformance corpus: control flow, procedures and
\* user functions, arrays, INPUT.

conditions ==
  <<Out(<<"x = 1", "IF x = 1 THEN GOTO yes", "PRINT \"no\"", "END", "yes:", "PRINT \"yes\"">>, <<"yes">>),
    Out(<<"x = 0", "IF x = 1 THEN GOTO yes", "PRINT \"no\"", "END", "yes:", "PRINT \"yes\"">>, <<"no">>),
    Out(<<"x = 5", "IF x > 3 THEN", "PRINT \"big\"", "ELSE", "PRINT \"small\"", "ENDIF">>, <<"big">>),
    Out(<<"x = 1", "IF x > 3 THEN", "PRINT \"big\"", "ELSE", "PRINT \"small\"", "ENDIF">>, <<"small">>),
    Out(<<"IF 0 THEN", "PRINT \"x\"", "ENDIF", "PRINT \"after\"">>, <<"after">>),
    Out(<<"a = 1 : b = 2", "IF a = 1 THEN", "IF b = 2 THEN", "PRINT \"11\"", "ELSE", "PRINT \"12\"", "ENDIF", "ELSE", "PRINT \"2\"", "ENDIF">>, <<"11">>),
    Out(<<"x = 2", "IF x = 1 THEN", "PRINT \"one\"", "ELSE IF x = 2 THEN", "PRINT \"two\"", "ELSE", "PRINT \"other\"", "ENDIF", "ENDIF">>, <<"two">>),
    CErrAny(<<"x = 2", "IF x = 1 THEN", "PRINT \"one\"", "ELSEIF x = 2 THEN", "PRINT \"two\"", "ENDIF">>),
    Out(<<"x = 2", "IF x = 1 THEN", "PRINT \"one\"", "ELSE", "IF x = 2 THEN", "PRINT \"two\"", "ENDIF", "ENDIF">>, <<"two">>),
    CErr(<<"IF 1 THEN PRINT 5", "PRINT \"after\"">>, 9), OkOrErr(<<"IF 1 THEN PRINT \"y\" ENDIF">>, <<"y">>),
    Out(<<"IF 1 THEN : PRINT \"y\" : ENDIF">>, <<"y">>), CErr(<<"IF 1 THEN", "PRINT \"x\"">>, 9), CErr(<<"IF 1 PRINT 1">>, 8),
    CErr(<<"PRINT \"a\"", "ELSE">>, 64),
    Out(<<"x = 0.5", "IF x THEN", "PRINT \"true\"", "ELSE", "PRINT \"false\"", "ENDIF">>, <<"true">>),
    Out(<<"x = 2.5", "y = 0.25", "IF y THEN", "PRINT \"true\"", "ELSE", "PRINT \"false\"", "ENDIF">>, <<"true">>),
    Out(<<"IF 0.5 THEN", "PRINT \"true\"", "ELSE", "PRINT \"false\"", "ENDIF">>, <<"true">>)>>

jumps ==
  <<Prints(<<"n = 0", "top:", "n = n + 1", "IF n < 5 THEN GOTO top", "PRINT n">>, I(5)), CErr(<<"GOTO nowhere">>, 7),
    CErr(<<"GOTO 10">>, 12), CErrAny(<<"a:", "a:", "PRINT 1">>), Out(<<"start: PRINT 1">>, <<"1">>),
    Prints(<<"x = 3", "x:", "PRINT x">>, I(3))>>

loops ==
  <<Prints(<<"s = 0", "FOR i = 1 TO 10", "s = s + i", "NEXT i", "PRINT s">>, I(55)),
    Prints(<<"FOR i = 1 TO 3", "NEXT i", "PRINT i">>, I(4)),
    Out(<<"FOR i = 1 TO 10 STEP 3", "PRINT i", "NEXT i">>, <<"1", "4", "7", "10">>),
    Prints(<<"s = 0", "FOR i = 10 TO 1 STEP -3", "s = s + i", "NEXT i", "PRINT s">>, I(22)),
    Out(<<"FOR i = 5 TO 1", "PRINT \"body\"", "NEXT i", "PRINT \"done\"">>, <<"done">>),
    Out(<<"FOR i = 1 TO 5 STEP -1", "PRINT \"body\"", "NEXT i", "PRINT \"done\"">>, <<"done">>),
    Out(<<"FOR i = 3 TO 3", "PRINT i", "NEXT i">>, <<"3">>),
    Prints(<<"n = 0", "FOR i = 32765 TO 32767", "n = n + 1", "NEXT i", "PRINT n">>, I(3)),
    Prints(<<"n = 0", "FOR i = -32766 TO -32767-1 STEP -1", "n = n + 1", "NEXT i", "PRINT n">>, I(3)),
    Prints(<<"n = 0", "FOR i = 0 TO 32767 STEP 20000", "n = n + 1", "NEXT i", "PRINT n">>, I(2)),
    Out(<<"FOR i = 1 TO 2.5", "PRINT i", "NEXT i">>, <<"1", "2">>),
    Prints(<<"n = 0", "FOR i = 1 TO 3 STEP 0.5", "n = n + 1", "NEXT i", "PRINT n">>, I(5)),
    Lines(<<"FOR i = 0.5 TO 2", "PRINT i", "NEXT i">>, <<F(1, 2), F(3, 2)>>),
    Prints(<<"m = 5/2", "n = 0", "FOR i = 1 TO m", "n = n + 1", "NEXT i", "PRINT n">>, I(2)),
    Prints(<<"n = 3", "c = 0", "FOR i = 1 TO n", "n = 10", "c = c + 1", "NEXT i", "PRINT c">>, I(3)),
    Prints(<<"s = 0", "FOR i = 1 TO 3", "FOR j = 1 TO 4", "s = s + i * j", "NEXT j", "NEXT i", "PRINT s">>, I(60)),
    OkOrErr(<<"FOR a = 1 TO 1", "FOR b = 1 TO 1", "FOR c = 1 TO 1", "FOR d = 1 TO 1", "FOR e = 1 TO 1", "FOR f = 1 TO 1", "FOR g = 1 TO 1", "FOR h = 1 TO 1", "FOR k = 1 TO 1", "PRINT \"deep\"", "NEXT k", "NEXT h", "NEXT g", "NEXT f", "NEXT e", "NEXT d", "NEXT c", "NEXT b", "NEXT a">>, <<"deep">>),
    CErr(<<"FOR i = 1 TO 2", "NEXT j">>, 56), CErrAny(<<"NEXT i">>), CErr(<<"FOR i = 1 TO 2", "PRINT \"x\"">>, 65),
    Out(<<"FOR i = 1 TO 2", "PRINT i", "NEXT">>, <<"1", "2">>),
    Out(<<"FOR i = 1 TO 100", "IF i > 3 THEN", "EXIT FOR", "ENDIF", "PRINT i", "NEXT i", "PRINT \"out\"">>, <<"1", "2", "3", "out">>),
    Out(<<"FOR i = 1 TO 2", "FOR j = 1 TO 5", "IF j = 2 THEN", "EXIT FOR", "ENDIF", "PRINT i * 10 + j", "NEXT j", "NEXT i">>, <<"11", "21">>),
    CErrAny(<<"EXIT FOR">>),
    Prints(<<"n = 0", "again:", "FOR i = 1 TO 10", "IF i = 2 THEN GOTO quit", "NEXT i", "quit:", "n = n + 1", "IF n < 50 THEN GOTO again", "PRINT n">>, I(50)),
    AnyErr(<<"GOTO inside", "FOR i = 1 TO 3", "inside:", "PRINT \"in\"", "NEXT i">>),
    AnyErr(<<"c = 0", "IF c THEN", "FOR i = 1 TO 3", "ENDIF", "NEXT i", "PRINT \"x\"">>),
    Prints(<<"n = 0", "FOR i = 1 TO 10", "i = i + 1", "n = n + 1", "NEXT i", "PRINT n">>, I(5)),
    OkOrErr(<<"n = 0", "FOR i = 1 TO 4", "i = i + 0.5", "n = n + 1", "NEXT i", "PRINT n">>, <<"3">>),
    Out(<<"PRINT \"a\"", "END", "PRINT \"b\"">>, <<"a">>), Out(<<"PRINT \"a\"", "STOP", "PRINT \"b\"">>, <<"a">>)>>

procedures ==
  <<Out(<<"CALL greet(3)", "END", "PROC greet(n):", "PRINT n * 2", "ENDP">>, <<"6">>),
    Out(<<"n = 7", "CALL p(1)", "PRINT n", "END", "PROC p(n):", "PRINT n", "ENDP">>, <<"1", "7">>),
    Prints(<<"g = 1", "CALL p(5)", "PRINT g", "END", "PROC p(x):", "g = g + x", "ENDP">>, I(6)),
    Prints(<<"s = 0", "CALL r(10)", "PRINT s", "END", "PROC r(n):", "s = s + n", "IF n > 0 THEN", "CALL r(n - 1)", "ENDIF", "ENDP">>, I(55)),
    Out(<<"CALL r(3)", "END", "PROC r(n):", "IF n > 0 THEN", "CALL r(n - 1)", "ENDIF", "PRINT n", "ENDP">>, <<"0", "1", "2", "3">>),
    Out(<<"CALL r(150)", "PRINT \"ok\"", "END", "PROC r(n):", "IF n > 0 THEN", "CALL r(n - 1)", "ENDIF", "ENDP">>, <<"ok">>),
    RErrs(<<"CALL r(1)", "END", "PROC r(n):", "CALL r(n + 1)", "ENDP">>, {2, 6}),
    Prints(<<"CALL p(2.5)", "END", "PROC p(x):", "PRINT x * 2", "ENDP">>, Num(5)),
    Prints(<<"a = 3", "CALL p(a * a + 1)", "END", "PROC p(x):", "PRINT x", "ENDP">>, I(10)),
    Prints(<<"DEF FN f(x) = x * 10", "CALL p(FN f(4))", "END", "PROC p(v):", "PRINT v", "ENDP">>, I(40)),
    Prints(<<"DEF FN sq(x) = x * x", "CALL show(FN sq(3) + FN sq(4))", "END", "PROC show(v):", "PRINT v", "ENDP">>, I(25)),
    CErr(<<"PROC p(x):", "PRINT x">>, 16), CErr(<<"PROC p(a,b):", "ENDP">>, 20), CErr(<<"PROC p():", "ENDP">>, 19),
    CErr(<<"CALL nope(1)">>, 7), CErr(<<"CALL p", "END", "PROC p(x):", "ENDP">>, 14),
    Out(<<"PRINT \"a\"", "PROC p(x):", "PRINT \"in\"", "ENDP", "PRINT \"b\"">>, <<"a", "b">>),
    AnyErr(<<"GOTO p", "END", "PROC p(x):", "PRINT x", "ENDP">>),
    OkOrErr(<<"CALL outer(1)", "PRINT \"end\"", "END", "PROC outer(a):", "PROC inner(b):", "PRINT b", "ENDP", "PRINT a", "ENDP">>, <<"1", "end">>),
    OkOrErr(<<"CALL p(5)", "PRINT \"end\"", "END", "PROC p(a):", "DEF FN d(x) = x * 2", "PRINT FN d(a)", "ENDP">>, <<"10", "end">>),
    CErrAny(<<"CALL p(1)", "END", "PROC p(x):", "IF x THEN", "ENDP", "ENDIF">>)>>

user_functions ==
  <<Prints(<<"DEF FN dbl(x) = x * 2", "PRINT FN dbl(21)">>, I(42)),
    Prints(<<"DEF FN half(x) = x / 2", "PRINT FN half(5)">>, F(5, 2)),
    Prints(<<"DEF FN a(x) = x + 1", "DEF FN b(x) = FN a(x) * 2", "PRINT FN b(3)">>, I(8)),
    Prints(<<"DEF FN fact(n) = n", "PRINT FN fact(5)">>, I(5)),
    Out(<<"x = 100", "DEF FN f(x) = x + 1", "PRINT FN f(1)", "PRINT x">>, <<"2", "100">>),
    Prints(<<"k = 3", "DEF FN f(x) = x * k", "PRINT FN f(5)">>, I(15)), CErr(<<"PRINT FN nope(1)">>, 7),
    CErrAny(<<"DEF FN f(a,b) = a + b">>), CErrAny(<<"DEF FN s$(x) = \"a\"">>),
    Prints(<<"DEF FN sq(x) = x * x", "PRINT FN sq(3) + FN sq(4) * 2">>, I(41)),
    Prints(<<"DEF FN inc(x) = x + 1", "PRINT FN inc(FN inc(FN inc(0)))">>, I(3)),
    Prints(<<"DEF FN t(n) = MOD(n,15)", "PRINT FN t(20)">>, I(5)),
    Prints(<<"DIM n(3)", "DEF FN t(n) = MOD(n,15)", "PRINT FN t(20)">>, I(5))>>

arrays ==
  <<Prints(<<"DIM a(5)", "a(0) = 10", "a(4) = 40", "PRINT a(0) + a(4)">>, I(50)),
    Prints(<<"DIM a(4)", "PRINT a(0) + a(1) + a(2) + a(3)">>, I(0)),
    Prints(<<"DIM a(5)", "a(1) = 3", "a(a(1)) = 99", "PRINT a(3)">>, I(99)),
    Prints(<<"DIM a(10)", "i = 2", "a(i * 3 + 1) = 7", "PRINT a(7)">>, I(7)), RErr(<<"DIM a(5)", "PRINT a(5)">>, 10),
    RErr(<<"DIM a(5)", "PRINT a(-1)">>, 10), RErr(<<"DIM a(5)", "a(5) = 1">>, 10), RErr(<<"DIM a(5)", "a(-1) = 1">>, 10),
    AnyErr(<<"DIM a(5)", "a(1.5) = 3">>), OkOrErr(<<"DIM a(5)", "a(1) = 2.5", "PRINT a(1)">>, <<"2.5000">>),
    AnyErr(<<"DIM a(2)", "a(0) = 30000 * 3">>), CErr(<<"DIM a(3)", "DIM a(3)">>, 38), CErr(<<"b(1) = 2">>, 42),
    CErrAny(<<"PRINT q(1)">>), CErr(<<"n = 5", "DIM a(n)">>, 34), CErr(<<"DIM a(0)">>, 35), CErrAny(<<"DIM a(3,3)">>),
    RErr(<<"DIM a(30000)">>, 64), Prints(<<"DIM scores(12)", "PRINT DIMN(scores)">>, I(12)),
    OkOrErr(<<"DIM n$(7)", "PRINT DIMN(n$)">>, <<"7">>), CErr(<<"PRINT DIMN(nope)">>, 47),
    OkOrErr(<<"DIM a(3)", "a = 5", "PRINT a">>, <<"5">>),
    Prints(<<"DIM a(2)", "DIM b(2)", "DIM c(2)", "DIM d(2)", "DIM e(2)", "a(1)=1:b(1)=2:c(1)=3:d(1)=4:e(1)=5", "PRINT a(1)+b(1)+c(1)+d(1)+e(1)">>, I(15)),
    Out(<<"DIM n$(3)", "n$(0) = \"RED\"", "n$(2) = UPPER$(\"blue\")", "PRINT n$(0) + n$(2)">>, <<"REDBLUE">>),
    Prints(<<"DIM n$(2)", "n$(0) = \"" \o repeated("w", 20) \o "\"", "PRINT LEN(n$(0))">>, I(15)),
    Out(<<"DIM n$(2,5)", "n$(1) = \"abcdefgh\"", "PRINT n$(1)">>, <<"abcd">>),
    Prints(<<"DIM n$(2,32)", "n$(1) = \"" \o repeated("z", 31) \o "\"", "PRINT LEN(n$(1))">>, I(31)), CErr(<<"DIM n$(2,1)">>, 34),
    OkOrErr(<<"DIM n$(2,200)", "n$(0) = \"ok\"", "PRINT n$(0)">>, <<"ok">>), RErr(<<"DIM n$(2)", "n$(2) = \"x\"">>, 10),
    RErr(<<"DIM n$(2)", "n$(-1) = \"x\"">>, 10), Prints(<<"DIM n$(2)", "PRINT LEN(n$(1))">>, I(0)),
    Prints(<<"DIM a(3)", "CALL p(2)", "PRINT a(2)", "END", "PROC p(i):", "a(i) = i * 11", "ENDP">>, I(22)),
    Prints(<<"DIM a(3)", "a(1) = 8", "DEF FN g(i) = a(i) * 2", "PRINT FN g(1)">>, I(16)),
    Prints(<<"DIM a(20)", "FOR i = 0 TO 19", "a(i) = i * i", "NEXT i", "s = 0", "FOR i = 0 TO 19", "s = s + a(i)", "NEXT i", "PRINT s">>, I(2470))>>

input ==
  <<OutKeys(<<"INPUT a", "PRINT a * 2">>, <<"21">>, <<"21", "42">>), OutKeys(<<"INPUT a", "PRINT a">>, <<"-5">>, <<"-5", "-5">>),
    OutKeys(<<"INPUT a$", "PRINT a$ + \"!\"">>, <<"hi there">>, <<"hi there", "hi there!">>),
    OutKeys(<<"INPUT a", "PRINT a + 1">>, <<"">>, <<"", "1">>),
    OutKeys(<<"INPUT a", "PRINT a">>, <<"99999">>, <<"99999", "99999.0000">>),
    OutKeys(<<"INPUT a", "PRINT a * 2">>, <<"1.5">>, <<"1.5", "3.0000">>),
    OutKeys(<<"INPUT \"N? \"; n", "PRINT n + 1">>, <<"4">>, <<"N? 4", "5">>),
    OutKeys(<<"INPUT \"V\", v$", "PRINT v$">>, <<"ab">>, <<"Vab", "ab">>), CErrAny(<<"DIM a(2)", "INPUT a(1)">>),
    OutKeys(<<"INPUT a", "INPUT b", "PRINT a + b">>, <<"3", "4">>, <<"3", "4", "7">>)>>

ProgramCases == [conditions |-> conditions, jumps |-> jumps, loops |-> loops, procedures |-> procedures, user_functions |-> user_functions,
         arrays |-> arrays, input |-> input]

-----------------------------------------------------------------------------
\* Sections 13 to 23 of the conformance corpus: hardware statements, CLEAR,
\* programs at a limit, where an error is reported, what an error leaves in
\* memory, absent keywords, floating-point loops.  Packages are not loaded.

same == <<<<"abc", "xyz", "F">>, <<"abc", "abc", "T">>, <<"y", "n", "F">>, <<"ab", "abc", "F">>, <<"", "", "T">>, <<"A", "a", "F">>>>
before == <<<<"abc", "abd", "T">>, <<"abd", "abc", "F">>, <<"b", "a", "F">>, <<"a", "b", "T">>, <<"zz", "aaa", "F">>, <<"aaa", "zz", "T">>,
            <<"ab", "abc", "T">>, <<"abc", "ab", "F">>>>
absent == <<"GOSUB x", "RETURN", "DATA 1,2", "READ a", "LET a = 1", "MERGE \"x\"", "x = 2 ^ 3", "x = 7 MOD 2", "x = HIT(1,2)",
            "x = ATN(1)", "x = EXP(1)", "a$ = SCREEN$(1,1)", "DRAW 10,10", "RANDOMIZE 3", "IF 1 THEN : ELSEIF 2 THEN : ENDIF">>

hardware ==
  <<Out(<<"BEEP 1,0", "PRINT \"b\"">>, <<"b">>), Out(<<"SOUND 8,15", "SOUND 8,0", "PRINT \"s\"">>, <<"s">>),
    RErr(<<"SOUND 20,1">>, 8), Out(<<"PAUSE 2", "PRINT \"p\"">>, <<"p">>), OutKeys(<<"PAUSE 0", "PRINT \"k\"">>, <<"x">>, <<"k">>),
    Out(<<"RANDOMISE 1", "RANDOMISE 0", "PRINT \"r\"">>, <<"r">>), CErrAny(<<"RANDOMIZE 1">>)>>

ports ==
  <<CErr(<<"OUT 1">>, 22), CErrAny(<<"PRINT IN()">>), arith("STICK(1) + STICK(2)", I(0)), AnyErr(<<"PRINT STICK(5)">>),
    CErrAny(<<"out = 1">>), CErrAny(<<"in = 1", "PRINT in">>)>>

clear_and_programs ==
  <<Out(<<"x = 5", "a$ = \"q\"", "CLEAR", "PRINT x", "PRINT LEN(a$)">>, <<"0", "0">>),
    OkOrErr(<<"DIM a(3)", "a(1) = 5", "CLEAR", "DIM a(3)", "PRINT a(1)">>, <<"0">>),
    OkOrErr(<<"FOR i = 1 TO 3", "CLEAR", "NEXT i", "PRINT \"x\"">>, <<"x">>), Out(<<"start:">>, <<>>), Out(<<>>, <<>>),
    Out(<<"", "PRINT \"a\"", "", "", "PRINT \"b\"", "">>, <<"a", "b">>),
    Out(<<"   PRINT \"a\"", "      PRINT \"b\"">>, <<"a", "b">>), Prints(<<"x = 1" \o repeated("+1", 39), "PRINT x">>, I(40)),
    Prints(<<"s = 0">> \o [k \in 1 .. 150 |-> "s = s + " \o ToString(k)] \o <<"PRINT s">>, I(11325)),
    Prints([k \in 1 .. 60 |-> "v" \o ToString(k - 1) \o " = " \o ToString(k - 1)] \o <<"PRINT v59 + v0 + v30">>, I(89))>>

error_lines ==
  <<CErrAt(<<"x = (1", "PRINT \"a\"">>, 66, 0), CErrAt(<<"a = 1", "b = 2", "c = 3", "d = 4 4", "e = 5">>, 64, 3),
    CErrAt(<<"a = 1", "FOR i = 1 TO 3", "b = 2">>, 65, 1), CErrAt(<<"a = 1", "PROC p(x):", "b = 2">>, 16, 3),
    CErrAt(<<"a = 1", "IF a THEN", "b = 2">>, 9, 3), CErr(<<"a = 1", "GOTO nope", "b = 2">>, 7)>>

memory_safety ==
  <<keeps(<<"DIM a(5)", "a(0) = 7", "a(5) = 99">>, "A", <<7, 0, 0, 0, 0>>),
    keeps(<<"DIM a(5)", "a(2) = 7", "a(7) = 99">>, "A", <<0, 0, 7, 0, 0>>),
    keeps(<<"DIM a(5)", "a(1) = 3", "a(-1) = 2">>, "A", <<0, 3, 0, 0, 0>>),
    stores(<<"x = 1 : y = 2 : z = 3", "DIM a(3)", "a(1) = 2.5">>, "A", <<0, 0, 0>>),
    keeps_texts(<<"DIM n$(2,4)", "n$(0) = \"ab\"", "n$(2) = \"XYZ\"">>, "N", <<"ab", "">>),
    keeps_texts(<<"DIM n$(2,4)", "n$(1) = \"cd\"", "n$(-1) = \"XYZ\"">>, "N", <<"", "cd">>),
    keeps(<<"DIM a(3)", "DIM b(3)", "b(0) = 5", "a(-1) = 30000">>, "A", <<0, 0, 0>>)>>

comparisons ==
  <<Out(<<"k$ = \"n\"", "IF k$ = \"y\" THEN", "PRINT \"quit\"", "ELSE", "PRINT \"stay\"", "ENDIF">>, <<"stay">>)>>
  \o [k \in DOMAIN same |-> LET p == same[k] IN
         Out(<<"a$ = \"" \o p[1] \o "\"", "IF a$ = \"" \o p[2] \o "\" THEN", "PRINT \"T\"", "ELSE", "PRINT \"F\"", "ENDIF">>, <<p[3]>>)]
  \o [k \in DOMAIN before |-> LET p == before[k] IN
         Out(<<"a$ = \"" \o p[1] \o "\"", "b$ = \"" \o p[2] \o "\"", "IF a$ < b$ THEN", "PRINT \"T\"", "ELSE", "PRINT \"F\"", "ENDIF">>, <<p[3]>>)]

float_logic ==
  <<Prints(<<"x = 0.5", "IF x AND 1 THEN", "PRINT \"y\"", "ENDIF">>, {"y"}),
    Prints(<<"IF 0.5 OR 0 THEN", "PRINT \"y\"", "ENDIF">>, {"y"}), arith("1 AND 2.5", I(1)), arith("NOT 2.5", I(0))>>

array_sizes ==
  [k \in 1 .. 5 |-> LET n == <<8000, 16000, 16500, 20000, 32767>>[k] at == "a(" \o ToString(n - 1) \o ")" IN
         OkOrErr(<<"DIM a(" \o ToString(n) \o ")", at \o " = 7", "PRINT " \o at>>, <<"7">>)]
  \o [k \in 1 .. 4 |-> LET p == <<<<1000, 32>>, <<3000, 32>>, <<2100, 32>>, <<300, 255>>>>[k] at == "s$(" \o ToString(p[1] - 1) \o ")" IN
         OkOrErr(<<"DIM s$(" \o ToString(p[1]) \o "," \o ToString(p[2]) \o ")", at \o " = \"end\"", "PRINT " \o at>>, <<"end">>)]

abandoned_loops ==
  <<Prints(<<"c = 0", "FOR i = 1 TO 3", "FOR j = 1 TO 10", "IF j = 2 THEN GOTO nexti", "NEXT j", "nexti:", "c = c + 1", "NEXT i", "PRINT c">>, I(3)),
    Prints(<<"c = 0", "FOR i = 1 TO 3", "FOR j = 1 TO 10 STEP 5", "IF j > 0 THEN GOTO nexti", "NEXT j", "nexti:", "c = c + 1", "NEXT i", "PRINT c">>, I(3)),
    Prints(<<"c = 0", "FOR i = 1 TO 3", "FOR j = 1 TO 10", "IF j = 2 THEN", "EXIT FOR", "ENDIF", "NEXT j", "c = c + 1", "NEXT i", "PRINT c">>, I(3))>>

unloaded ==
  <<CErr(<<"CIRCLE 100,100,20">>, 2), CErr(<<"MODE 1">>, 2)>>

string_records ==
  <<Out(<<"a$ = \"abcdefgh\"", "PRINT LEFT$(\"q\",1)">>, <<"q">>),
    Out(<<"x$ = \"zzzzzzzz\"", "y$ = \"w\"", "b$ = LEFT$(y$,1)", "PRINT b$">>, <<"w">>),
    Prints(<<"DIM a(3)", "a(0) = 7", "s$ = \"x\"", "t$ = \"" \o repeated("A", 31) \o "\"", "PRINT a(0)">>, I(7)),
    Prints(<<"DIM a(3)", "DIM b(3)", "b(0) = 5", "s$ = \"x\"", "t$ = \"" \o repeated("A", 31) \o "\"", "a(0) = 9", "PRINT b(0)">>, I(5)),
    Prints(<<"DIM a(3)", "a(0) = 7", "s$ = \"x\"", "t$ = \"A\" + \"" \o repeated("B", 30) \o "\"", "PRINT a(0)">>, I(7))>>

absent_keywords ==
  [k \in DOMAIN absent |-> CErrAny(<<absent[k]>>)]

tags ==
  <<waits_or(<<"x = 1", "PAUSE 1/2", "PRINT \"x\"">>, "x"), OkOrErr(<<"PRINT CHR$(65.6) + CHR$(130/2)">>, <<"AA">>),
    Out(<<"PRINT \"<\" + MID$(\"hello\",257,1) + \">\"">>, <<"<>">>), OkOrErr(<<"BORDER 2.5", "PRINT \"b\"">>, <<"b">>),
    waits_or(<<"PAUSE 0.5", "PRINT \"p\"">>, "p"),
    Out(<<"n = 5 / 2", "a$ = LEFT$(\"hello\", n)", "PRINT \"<\" + a$ + \">\"">>, <<"<he>">>),
    Out(<<"a$ = MID$(\"hello\",257,1)", "PRINT \"<\" + a$ + \">\"">>, <<"<>">>)>>

float_loops ==
  <<Prints(<<"n = 0", "FOR i = 0 TO 10 STEP 0.25", "n = n + 1", "NEXT i", "PRINT n">>, I(41)),
    Lines(<<"FOR x = 1 TO 0 STEP -0.25", "PRINT x", "NEXT x">>, <<I(1), F(3, 4), F(1, 2), F(1, 4), F(0, 1)>>),
    Lines(<<"FOR i = 1 TO 2.5", "PRINT i", "NEXT i">>, <<I(1), I(2)>>),
    Lines(<<"FOR i = 0.5 TO 3", "PRINT i", "NEXT i">>, <<F(1, 2), F(3, 2), F(5, 2)>>),
    Lines(<<"FOR i = 10 TO 1 STEP -2.5", "PRINT i", "NEXT i">>, <<I(10), F(15, 2), F(5, 1), F(5, 2)>>),
    Lines(<<"m = 32767 + 3", "FOR i = 32760 TO m STEP 4", "PRINT i", "NEXT i">>, <<I(32760), I(32764), F(32768, 1)>>),
    Lines(<<"m = 25000 * 4", "FOR i = 32766 TO m STEP 16384", "PRINT i", "NEXT i">>, <<I(32766), F(49150, 1), F(65534, 1), F(81918, 1), F(98302, 1)>>),
    Prints(<<"FOR i = 0.5 TO 2", "NEXT i", "PRINT i">>, F(5, 2)), Prints(<<"FOR i = 1 TO 3", "NEXT i", "PRINT i">>, I(4)),
    Lines(<<"FOR i = 1 TO 2", "FOR j = 0.5 TO 1 STEP 0.5", "PRINT i * 10 + j", "NEXT j", "NEXT i">>, <<F(21, 2), F(11, 1), F(41, 2), F(21, 1)>>),
    Prints(<<"FOR i = 0.5 TO 9", "IF i > 2 THEN", "EXIT FOR", "ENDIF", "NEXT i", "PRINT i">>, F(5, 2)),
    Lines(<<"FOR i = 0.5 TO 9", "IF i > 2 THEN", "GOTO done", "ENDIF", "NEXT i", "done:", "FOR k = 1 TO 2", "PRINT k", "NEXT k">>, <<I(1), I(2)>>),
    Lines(<<"FOR i = 1 TO 10", "i = i + 2.5", "PRINT i", "NEXT i">>, <<F(7, 2), F(7, 1), F(21, 2)>>),
    Lines(<<"x = 1.5", "FOR x = 1 TO 2", "PRINT x", "NEXT x">>, <<I(1), I(2)>>),
    Out(<<"FOR i = 2.5 TO 1", "PRINT i", "NEXT i", "PRINT \"z\"">>, <<"z">>),
    Out(<<"FOR i = 0.5 TO 1 STEP -0.5", "PRINT i", "NEXT i", "PRINT \"z\"">>, <<"z">>),
    Prints(<<"n = 0", "FOR i = 1 TO 2 STEP 0", "n = n + 1", "IF n > 5 THEN", "EXIT FOR", "ENDIF", "NEXT i", "PRINT n">>, I(6)),
    Prints(<<"n = 0", "FOR i = 1.5 TO 2 STEP 0.0", "n = n + 1", "IF n > 5 THEN", "EXIT FOR", "ENDIF", "NEXT i", "PRINT n">>, I(6)),
    Prints(<<"n = 0", "FOR i = 3 TO 2 STEP 0", "n = n + 1", "NEXT i", "PRINT n">>, I(0)),
    Lines(<<"a = 1 / 4", "b = 3 / 4", "s = 1 / 4", "FOR i = a TO b STEP s", "PRINT i", "NEXT i">>, <<F(1, 4), F(1, 2), F(3, 4)>>),
    Lines(<<"CALL p(1)", "END", "PROC p(a):", "FOR i = a TO a + 1 STEP 0.5", "PRINT i", "NEXT i", "ENDP">>, <<I(1), F(3, 2), F(2, 1)>>)>>

addresses ==
  <<Prints(<<"a = 30000", "POKE a + 3370, 77", "PRINT PEEK(33370)">>, I(77))>>

patterns ==
  <<Prints(<<"x = 40000", "PRINT x + 1">>, Num(40001))>>
  \o [k \in 1 .. 2 |-> LET v == <<32769, 40000>>[k] IN arith("-" \o ToString(v), Num(-v))]

LimitCases == [hardware |-> hardware, ports |-> ports, clear_and_programs |-> clear_and_programs, error_lines |-> error_lines,
         memory_safety |-> memory_safety, comparisons |-> comparisons, float_logic |-> float_logic, array_sizes |-> array_sizes,
         abandoned_loops |-> abandoned_loops, unloaded |-> unloaded, string_records |-> string_records, absent_keywords |-> absent_keywords,
         tags |-> tags, float_loops |-> float_loops, addresses |-> addresses, patterns |-> patterns]
===============================================================================
