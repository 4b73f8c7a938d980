------------------------------- MODULE Lifecycle -------------------------------
(***************************************************************************)
(* The variable session as the user sees it (tools/qual/qlifecycle.py):     *)
(* RUN, immediate statements and edits on one machine, never reset between  *)
(* the steps.  The session is the compiled program with its tables (c) and  *)
(* the machine that holds its values (s); Session models where they lie.    *)
(* No Array Store takes part, and the room for new variables is not bounded.*)
(***************************************************************************)
EXTENDS Qualify

NoSession == [valid |-> FALSE]
\* What a command does: the session after it, its errors and the screen.
outcome(session, ce, ve, rows) == [session |-> session, ce |-> ce, ve |-> ve, rows |-> rows]
V2_SESSION_START(c) == [valid |-> TRUE, c |-> c, s |-> VM_INIT(c.code, <<>>, ScreenOff)]
\* The run from instruction pc of the code; what it leaves is the session's.  The look and the screen are
\* reset by the shell, on the way back to the editor and by GFX_CLS before the run.
go(session, code, pc) ==
  LET s == VM_RUN([session.s EXCEPT !.code = code, !.pc = pc, !.st = <<>>, !.cs = <<>>, !.used = 0, !.err = 0, !.status = "run",
                                    !.row = 0, !.col = 0, !.rows = ScreenOff.rows, !.look = DefaultLook, !.pixels = {}], 12)
  IN outcome([session EXCEPT !.s = s], 0, s.err, text_of(s))

V2_RUN_STORED(store) ==
  LET c == V2_COMPILE_AT_BASE(store)
  IN IF c.err # 0 THEN outcome(NoSession, c.err, 0, <<>>) ELSE go(V2_SESSION_START(c), c.code, 1)
V2_ENSURE_SESSION(session, store) ==
  LET c == V2_COMPILE_AT_BASE(store)
  IN IF session.valid THEN session ELSE IF c.err # 0 THEN NoSession ELSE V2_SESSION_START(c)
\* The statement's code goes behind the program's and uses its tables.
COMPILER_INIT_SESSION(c, text) ==
  [c EXCEPT !.toks = SelectSeq(<<tok(":", "", 0)>> \o tokens(<<text>>), LAMBDA k : k.t # ":" \/ k.x # "newline"), !.p = 1, !.refs = {}]
\* A label, PROC or DEF FN of a statement is refused; a refused statement leaves no trace.
in_session(session, text) ==
  LET c == COMPILE_PROGRAM(COMPILER_INIT_SESSION(session.c, text))
      err == IF c.err # 0 THEN c.err ELSE IF c.labels # session.c.labels THEN 71 ELSE 0
  IN IF err # 0 THEN outcome(session, err, 0, <<>>)
     ELSE go([session EXCEPT !.c = [c EXCEPT !.code = session.c.code]], c.code, Len(session.c.code) + 1)
\* (Mutant of V2_RUN_IMMEDIATE: the statement's variables do not stay.)
V2_RUN_IMMEDIATE_Forgets(session, store, text) ==
  LET ensured == V2_ENSURE_SESSION(session, store)
  IN IF ensured.valid THEN [in_session(ensured, text) EXCEPT !.session = ensured]
     ELSE [V2_RUN_STORED(<<text>>) EXCEPT !.session = NoSession]
\* A statement runs alone when the program does not compile.
V2_RUN_IMMEDIATE(session, store, text) ==
  LET ensured == V2_ENSURE_SESSION(session, store)
  IN IF ensured.valid THEN in_session(ensured, text) ELSE [V2_RUN_STORED(<<text>>) EXCEPT !.session = NoSession]

\* A step and what it shows: the exact rows, or an error of a kind, or nothing that is looked at.
says(text, rows) == [does |-> "statement", text |-> text, ce |-> {0}, ve |-> {0}, rows |-> {rows}]
compile_error(text, codes) == [does |-> "statement", text |-> text, ce |-> codes, ve |-> {0}, rows |-> {<<>>}]
runs(rows) == [does |-> "RUN", text |-> "", ce |-> {0}, ve |-> {0}, rows |-> {rows}]
fails == [does |-> "RUN", text |-> "", ce |-> {0}, ve |-> 1 .. 255, rows |-> {<<>>}]
edit == [does |-> "EDIT", text |-> "", ce |-> {0}, ve |-> {0}, rows |-> {<<>>}]
new == [does |-> "NEW", text |-> "", ce |-> {0}, ve |-> {0}, rows |-> {<<>>}]
\* Without a store, or with one, the session from here: do the steps show what is expected of them?
RECURSIVE holds(_, _, _)
holds(session, store, steps) ==
  steps = <<>> \/
  LET e == Head(steps)
      r == CASE e.does = "statement" -> V2_RUN_IMMEDIATE(session, store, e.text)
             [] e.does = "RUN" -> V2_RUN_STORED(store)
             [] OTHER -> outcome(NoSession, 0, 0, <<>>)
  IN r.ce \in e.ce /\ r.ve \in e.ve /\ r.rows \in e.rows
     /\ holds(r.session, IF e.does = "NEW" THEN <<>> ELSE store, Tail(steps))
qlifecycle(scenarios) == IF SelectSeq(scenarios, LAMBDA s : ~holds(NoSession, s[1], s[2])) # <<>> THEN 1 ELSE 0

Loop == <<"n = 0", "top:", "n = n + 1", "PRINT n", "IF n < 3 THEN GOTO top", "END", "more:", "PRINT n * 10">>
scenarios_of_runs == <<
  <<<<"x = x + 1", "PRINT x">>, <<runs(<<"1">>), runs(<<"1">>)>>>>,
  <<<<"x = 5", "y$ = \"hi\"">>, <<runs(<<>>), says("PRINT x", <<"5">>), says("PRINT y$ + \"!\"", <<"hi!">>)>>>>,
  <<<<"x = 5">>, <<runs(<<>>), says("x = x + 2", <<>>), says("PRINT x", <<"7">>)>>>>,
  <<<<"PRINT x">>, <<says("x = 7", <<>>), runs(<<"0">>)>>>>,
  <<<<"x = 2">>, <<runs(<<>>), says("z = 40", <<>>), says("PRINT z + x", <<"42">>), says("n$ = \"ab\"", <<>>),
                   says("PRINT n$ + \"c\"", <<"abc">>), says("PRINT q", <<"0">>), says("PRINT e$ + \"!\"", <<"!">>)>>>>,
  <<<<"PRINT x">>, <<says("x = 3", <<>>), says("PRINT x * 2", <<"6">>)>>>>,
  <<<<>>, <<says("x = 3", <<>>), says("PRINT x", <<"3">>)>>>>,
  <<<<"x = 9", "y = x / 0", "x = 1">>, <<fails, says("PRINT x", <<"9">>)>>>>,
  <<<<"x = 3", "STOP", "x = 4">>, <<runs(<<>>), says("PRINT x", <<"3">>)>>>>,
  <<<<"FOR i = 1 TO 3", "s = s + i", "NEXT i", "END">>, <<runs(<<>>), says("PRINT s", <<"6">>), says("PRINT i", <<"4">>)>>>>,
  <<Loop, <<runs(<<"1", "2", "3">>), says("GOTO more", <<"30">>), says("GOTO top", <<"4">>), says("PRINT n", <<"4">>)>>>>,
  <<<<"x = 1">>, <<runs(<<>>), compile_error("GOTO nowhere", {7}), says("PRINT x", <<"1">>)>>>>>>
scenarios_of_ends == <<
  <<<<"x = 5">>, <<runs(<<>>), says("CLEAR", <<>>), says("PRINT x", <<"0">>), runs(<<>>), says("PRINT x", <<"5">>)>>>>,
  <<<<"x = 5">>, <<runs(<<>>), edit, says("PRINT x", <<"0">>)>>>>,
  <<<<"x = 5">>, <<runs(<<>>), new, says("PRINT x", <<"0">>)>>>>,
  <<<<"DIM a(3)", "a(1) = 5">>,
    <<runs(<<>>), says("PRINT a(1)", <<"5">>), says("a(2) = 6", <<>>), says("PRINT a(1) + a(2)", <<"11">>), says("DIM b(2)", <<>>),
      says("b(1) = 3", <<>>), says("PRINT b(1) + a(1)", <<"8">>), says("PRINT a(1)", <<"5">>)>>>>,
  <<<<"DIM n$(3)", "n$(1) = \"red\"">>,
    <<runs(<<>>), says("PRINT n$(1) + \"!\"", <<"red!">>), says("n$(2) = \"blue\"", <<>>), says("PRINT n$(1) + n$(2)", <<"redblue">>)>>>>,
  <<<<"x = 10">>, <<runs(<<>>), says("FOR i = 1 TO 3 : PRINT i + x : NEXT i", <<"11", "12", "13">>), says("PRINT i", <<"4">>)>>>>,
  <<<<"x = 5">>, <<runs(<<>>), compile_error("y = z +", 1 .. 255), says("PRINT x", <<"5">>), says("y = 2", <<>>), says("PRINT y + z", <<"2">>)>>>>,
  <<<<"x = 1">>, <<runs(<<>>), compile_error("here: PRINT 2", {71}), compile_error("PROC p(n): PRINT n : ENDP", {71}), says("PRINT x", <<"1">>)>>>>,
  <<<<"g = 1", "END", "PROC add(n):", "g = g + n", "ENDP">>, <<runs(<<>>), says("CALL add(4)", <<>>), says("PRINT g", <<"5">>)>>>>,
  <<<<"PRINT (">>, <<says("x = 3", <<>>), says("PRINT x", <<"0">>)>>>>>>
Scenarios == [runs |-> scenarios_of_runs, ends |-> scenarios_of_ends]
=============================================================================
