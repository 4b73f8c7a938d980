-------------------------- MODULE FastSuiteProofs ---------------------------
(***************************************************************************)
(* The fixture suite's verdicts, for any fixtures and any number of failing *)
(* debugger commands.                                                      *)
(***************************************************************************)
EXTENDS FastSuite, SequenceTheorems, TLAPS

Phases == {"between", "snippet", "stepping", "arm", "boot", "write", "run", "read",
           "exit 0", "exit 1"}
Within == {"snippet", "stepping", "arm", "boot", "write", "run", "read"}
Harnesses == {"plain", "run twice", "extension", "clear"}
Texts == {"PASS", "PASS cyan", "PASS rejected early", "PASS unloaded", "FAIL", "EXCEPTION"}

\* While a fixture is at work it is one that is left, and the emulator runs.
AtWork == phase \in Within => at \in left /\ emulator

\* The snippet writes the latch by its second step; from then on it holds border 7
\* until the program runs.
LatchReset ==
  /\ phase = "stepping" /\ pc \notin {"LD", "OUT"} => border = 7
  /\ phase \in {"arm", "boot", "write", "run"} => border = 7
Stepping == phase = "stepping" => <<pc, steps>> \in {<<"LD", 0>>, <<"OUT", 1>>, <<"RET", 2>>}

\* The machine that BASIC_RUN finds, whatever the fixtures before it left.
Booted == phase = "write" => program = "empty" /\ ~registered
Loaded == phase = "run" => ~armed /\ program = fixture /\ ~registered
Shown == phase = "read" => border = OnAFreshMachine(fixture)

\* The verdicts: one for each fixture that is done.
Judged(i, k) == verdicts[i][1] = Fixtures[k]
Done == DOMAIN Fixtures \ left
VerdictsSoFar ==
  /\ \A i \in DOMAIN verdicts : /\ \E k \in Done : Judged(i, k)
                                /\ \/ verdicts[i][2] = "EXCEPTION"
                                   \/ verdicts[i][2] = verdict_for(verdicts[i][1],
                                                         OnAFreshMachine(verdicts[i][1]))
  /\ \A k \in Done : \E i \in DOMAIN verdicts : Judged(i, k)
  /\ \A i, j \in DOMAIN verdicts : verdicts[i][1] = verdicts[j][1] => i = j

Exited == phase = "exit 0" => left = {} /\ ~failed /\ ~emulator

IInv == /\ TypeOK /\ AtWork /\ LatchReset /\ Stepping /\ Booted /\ Loaded /\ Shown
        /\ VerdictsSoFar /\ Exited

-----------------------------------------------------------------------------
LEMMA FixturesAre ==
  /\ \A k \in DOMAIN Fixtures : /\ Fixtures[k] \in Names
                                /\ Fixtures[k] \notin {"empty", "other", "none"}
  /\ \A i, j \in DOMAIN Fixtures : Fixtures[i] = Fixtures[j] => i = j
  BY SuiteAssumption DEF Names

LEMMA VerdictIsText == \A f, c : verdict_for(f, c) \in Texts
  BY DEF verdict_for, Texts

LEMMA HarnessType == \A f : harness_for(f) \in Harnesses
  BY DEF harness_for, Harnesses

\* The verdicts say nothing of what the machine does.
LEMMA VerdictsStay ==
  ASSUME VerdictsSoFar, UNCHANGED <<shows, left, verdicts>>
  PROVE  VerdictsSoFar'
  BY DEF VerdictsSoFar, Done, Judged, OnAFreshMachine

\* A verdict is printed: one more, and one fixture less.
LEMMA ReportStep ==
  ASSUME IInv, phase \in Within, NEW v \in Texts, Report(v),
         v = "EXCEPTION" \/ v = verdict_for(fixture, OnAFreshMachine(fixture))
  PROVE  /\ phase' = "between" /\ shows' = shows /\ steps' = steps
         /\ variant' = variant /\ at' = at
         /\ left' \subseteq DOMAIN Fixtures /\ verdicts' \in Seq(Names \X Texts)
         /\ VerdictsSoFar'
<1> DEFINE n == Len(verdicts)
<1> DEFINE f == Fixtures[at]
<1>1. /\ phase' = "between" /\ shows' = shows /\ steps' = steps
      /\ variant' = variant /\ at' = at /\ left' = left \ {at}
      /\ verdicts' = Append(verdicts, <<f, v>>)
  BY DEF Report, fixture
<1>2. at \in left /\ left \subseteq DOMAIN Fixtures /\ at \in DOMAIN Fixtures
  BY DEF IInv, AtWork, TypeOK
<1>3. f \in Names /\ <<f, v>> \in Names \X Texts
  BY <1>2, FixturesAre
<1>4. verdicts \in Seq(Names \X Texts)
  BY Zenon DEF IInv, TypeOK, Texts
<1>5. /\ verdicts' \in Seq(Names \X Texts) /\ n \in Nat
      /\ DOMAIN verdicts = 1 .. n /\ DOMAIN verdicts' = 1 .. (n + 1)
      /\ \A i \in 1 .. n : verdicts'[i] = verdicts[i]
      /\ verdicts'[n + 1] = <<f, v>>
  BY <1>1, <1>3, <1>4, AppendProperties
<1>6. \A i \in DOMAIN verdicts' : i = n + 1 \/ (i \in DOMAIN verdicts /\ verdicts'[i] = verdicts[i])
  BY <1>5
<1>7. /\ n + 1 \in DOMAIN verdicts' /\ verdicts'[n + 1][1] = f /\ verdicts'[n + 1][2] = v
      /\ \A i \in DOMAIN verdicts : i \in DOMAIN verdicts'
  BY <1>5
<1>8. Done' = Done \cup {at} /\ at \notin Done
  BY <1>1, <1>2 DEF Done
<1>9. \A g : OnAFreshMachine(g)' = OnAFreshMachine(g)
  BY <1>1 DEF OnAFreshMachine
<1> HIDE DEF n, f
<1>10. ASSUME NEW i \in DOMAIN verdicts'
       PROVE  /\ \E k \in Done' : verdicts'[i][1] = Fixtures[k]
              /\ \/ verdicts'[i][2] = "EXCEPTION"
                 \/ verdicts'[i][2] = verdict_for(verdicts'[i][1], OnAFreshMachine(verdicts'[i][1]))
  <2>1. CASE i = n + 1
    <3>1. verdicts'[i][1] = f /\ verdicts'[i][2] = v /\ at \in Done'
      BY <1>7, <1>8, <2>1
    <3>2. f = Fixtures[at] /\ (v = "EXCEPTION" \/ v = verdict_for(f, OnAFreshMachine(f)))
      BY DEF f, fixture
    <3>3. verdicts'[i][1] = Fixtures[at]
      BY <3>1, <3>2
    <3>4. CASE v = "EXCEPTION"
      BY <3>1, <3>3, <3>4
    <3>5. CASE v = verdict_for(f, OnAFreshMachine(f))
      BY <3>1, <3>3, <3>5
    <3> QED
      BY <3>2, <3>4, <3>5
  <2>2. CASE i \in DOMAIN verdicts /\ verdicts'[i] = verdicts[i]
    <3>1. PICK k \in Done : verdicts[i][1] = Fixtures[k]
      BY <2>2, Zenon DEF IInv, VerdictsSoFar, Judged
    <3>2. \/ verdicts[i][2] = "EXCEPTION"
          \/ verdicts[i][2] = verdict_for(verdicts[i][1], OnAFreshMachine(verdicts[i][1]))
      BY <2>2, Zenon DEF IInv, VerdictsSoFar
    <3>3. verdicts'[i] = verdicts[i] /\ k \in Done'
      BY <1>8, <2>2
    <3> QED
      BY <3>1, <3>2, <3>3
  <2> QED
    BY <1>6, <2>1, <2>2
<1>11. ASSUME NEW k \in Done' PROVE \E i \in DOMAIN verdicts' : verdicts'[i][1] = Fixtures[k]
  <2>1. CASE k = at
    BY <1>7, <2>1, Zenon DEF f
  <2>2. CASE k \in Done
    <3>1. PICK i \in DOMAIN verdicts : verdicts[i][1] = Fixtures[k]
      BY <2>2, Zenon DEF IInv, VerdictsSoFar, Judged
    <3>2. i \in DOMAIN verdicts' /\ verdicts'[i] = verdicts[i]
      BY <1>5, <1>7
    <3> QED
      BY <3>1, <3>2, Zenon
  <2> QED
    BY <1>8, <2>1, <2>2, Zenon
\* No verdict so far is on the fixture at work.
<1>12. \A i \in DOMAIN verdicts : verdicts[i][1] # f
  <2> SUFFICES ASSUME NEW i \in DOMAIN verdicts PROVE verdicts[i][1] # f
    OBVIOUS
  <2>1. PICK k \in Done : verdicts[i][1] = Fixtures[k]
    BY Zenon DEF IInv, VerdictsSoFar, Judged
  <2>2. k \in DOMAIN Fixtures /\ k # at
    BY <1>8 DEF Done
  <2> QED
    BY <1>2, <2>1, <2>2, FixturesAre, Zenon DEF f
<1>13. ASSUME NEW i \in DOMAIN verdicts', NEW j \in DOMAIN verdicts',
              verdicts'[i][1] = verdicts'[j][1]
       PROVE  i = j
  BY <1>6, <1>7, <1>12, <1>13, Zenon DEF IInv, VerdictsSoFar
<1>14. VerdictsSoFar'
  BY <1>9, <1>10, <1>11, <1>13 DEF VerdictsSoFar, Judged
<1>15. left' \subseteq DOMAIN Fixtures
  BY <1>1, <1>2
<1> QED
  BY <1>1, <1>5, <1>14, <1>15

\* After a report nothing is asked of the machine but its types.
LEMMA BetweenStep ==
  ASSUME TypeOK', VerdictsSoFar', phase' = "between"
  PROVE  IInv'
  BY DEF IInv, AtWork, LatchReset, Stepping, Booted, Loaded, Shown, Exited, Within

LEMMA StartGroupStep == ASSUME IInv, StartGroup PROVE IInv'
<1>1. /\ UNCHANGED <<shows, left, at, steps, verdicts, tried>>
      /\ \E i \in left : variant' = harness_for(Fixtures[i])
      /\ phase = "between"
  BY DEF StartGroup, report
<1>2. variant' \in {None, "plain", "run twice", "extension", "clear"}
  BY <1>1, HarnessType DEF Harnesses
<1>3. VerdictsSoFar'
  BY <1>1, VerdictsStay DEF IInv
<1>4. CASE /\ emulator' = TRUE
           /\ border' \in Colours /\ pc' = "reset" /\ armed' = FALSE /\ program' = "other"
           /\ module' = None /\ registered' = FALSE /\ UNCHANGED <<phase, faults>>
  <2>1. TypeOK'
    BY <1>1, <1>2, <1>4 DEF IInv, TypeOK
  <2> QED
    BY <1>1, <1>3, <1>4, <2>1, BetweenStep
<1>5. CASE faults' = faults + 1 /\ phase' = "exit 1" /\ UNCHANGED machine
  <2>1. TypeOK'
    BY <1>1, <1>2, <1>5 DEF IInv, TypeOK, machine
  <2> QED
    BY <1>3, <1>5, <2>1 DEF IInv, AtWork, LatchReset, Stepping, Booted, Loaded, Shown, Exited, Within
<1> QED
  BY <1>4, <1>5 DEF StartGroup

LEMMA EndGroupStep == ASSUME IInv, EndGroup PROVE IInv'
<1>1. /\ UNCHANGED <<shows, left, variant, at, phase, pc, border, armed, program, module,
                     registered, steps, verdicts, tried, faults>>
      /\ phase = "between" /\ emulator' = FALSE
  BY DEF EndGroup, progress, report
<1>2. TypeOK'
  BY ZenonT(60), <1>1 DEF IInv, TypeOK
<1>3. VerdictsSoFar'
  BY <1>1, VerdictsStay DEF IInv
<1> QED
  BY <1>1, <1>2, <1>3, BetweenStep

LEMMA ResetKnownStep == ASSUME IInv, ResetKnown PROVE IInv'
<1>1. /\ UNCHANGED <<shows, left, variant, emulator, border, armed, program, module,
                     registered, steps, verdicts, tried, faults>>
      /\ phase' = "snippet" /\ pc' = "reset" /\ emulator
      /\ at' \in left
  BY DEF ResetKnown, report, Group
<1>2. TypeOK'
  BY <1>1 DEF IInv, TypeOK
<1>3. VerdictsSoFar'
  BY <1>1, VerdictsStay DEF IInv
<1> QED
  BY <1>1, <1>2, <1>3
  DEF IInv, AtWork, LatchReset, Stepping, Booted, Loaded, Shown, Exited, Within

LEMMA EnterSnippetStep == ASSUME IInv, EnterSnippet PROVE IInv'
<1>1. /\ UNCHANGED <<shows, left, variant, at, emulator, border, armed, module,
                     registered, verdicts, tried, faults>>
      /\ phase = "snippet" /\ phase' = "stepping" /\ program' = "other" /\ pc' = "LD"
      /\ steps' = 0
  BY DEF EnterSnippet, progress, report
<1>2. TypeOK'
  <2>1. /\ 0 \in 0 .. 10 /\ "other" \in Names \cup {"empty", "other"} /\ "stepping" \in Phases
        /\ "LD" \in {"reset", "LD", "OUT", "RET", "inject", "hang"}
    BY DEF Phases
  <2> QED
    BY <1>1, <2>1, Zenon DEF IInv, TypeOK, Phases
<1>3. VerdictsSoFar'
  BY <1>1, VerdictsStay DEF IInv
<1> QED
  BY <1>1, <1>2, <1>3
  DEF IInv, AtWork, LatchReset, Stepping, Booted, Loaded, Shown, Exited, Within

\* A step of the snippet: only its second step matters to the latch, and only its last
\* one ends the stepping.
LEMMA SnippetStepStep == ASSUME IInv, SnippetStep PROVE IInv'
<1>1. /\ UNCHANGED <<shows, left, variant, at, emulator, armed, program, module,
                     registered, verdicts, tried, faults>>
      /\ phase = "stepping" /\ steps < 10 /\ steps' = steps + 1
      /\ pc' = [LD |-> "OUT", OUT |-> "RET", RET |-> "reset"][pc]
      /\ border' = IF pc = "OUT" THEN 7 ELSE border
      /\ phase' = IF pc' = "reset" THEN "arm" ELSE "stepping"
  BY DEF SnippetStep, progress, report, snippet_ends
<1>2. \/ pc = "LD" /\ steps = 0
      \/ pc = "OUT" /\ steps = 1
      \/ pc = "RET" /\ steps = 2
  BY <1>1 DEF IInv, Stepping
<1>3. pc # "LD" /\ pc # "OUT" => border = 7
  BY <1>1 DEF IInv, LatchReset
<1>4. \/ pc' = "OUT" /\ steps' = 1 /\ phase' = "stepping" /\ border' = border
      \/ pc' = "RET" /\ steps' = 2 /\ phase' = "stepping" /\ border' = 7
      \/ pc' = "reset" /\ steps' = 3 /\ phase' = "arm" /\ border' = 7
  BY <1>1, <1>2, <1>3
<1>5. TypeOK'
  <2>1. /\ steps' \in 0 .. 10 /\ phase' \in Phases
        /\ pc' \in {"reset", "LD", "OUT", "RET", "inject", "hang"}
    <3>1. 1 \in 0 .. 10 /\ 2 \in 0 .. 10 /\ 3 \in 0 .. 10
      OBVIOUS
    <3>2. steps' \in 0 .. 10
      BY <1>4, <3>1, Zenon
    <3>3. phase' \in Phases
      BY <1>4, Zenon DEF Phases
    <3> QED
      BY <1>4, <3>2, <3>3, Zenon
  <2>2. border \in Colours /\ 7 \in Colours
    BY DEF IInv, TypeOK, Colours
  <2>3. border' \in Colours
    BY <1>4, <2>2
  <2> QED
    BY <1>1, <2>1, <2>3, Zenon DEF IInv, TypeOK, Phases
<1>6. VerdictsSoFar'
  BY <1>1, VerdictsStay DEF IInv
<1>7. AtWork' /\ Booted' /\ Loaded' /\ Shown' /\ Exited'
  BY <1>1, <1>4 DEF IInv, AtWork, Booted, Loaded, Shown, Exited, Within
<1>8. LatchReset' /\ Stepping'
  BY <1>4 DEF LatchReset, Stepping
<1> QED
  BY <1>5, <1>6, <1>7, <1>8 DEF IInv

LEMMA ArmStep == ASSUME IInv, Arm PROVE IInv'
<1>1. /\ UNCHANGED <<shows, left, variant, at, emulator, pc, border, program, module,
                     registered, steps, verdicts, tried, faults>>
      /\ phase = "arm" /\ phase' = "boot" /\ armed' = TRUE
  BY DEF Arm, progress, report
<1>2. TypeOK'
  BY <1>1 DEF IInv, TypeOK
<1>3. VerdictsSoFar'
  BY <1>1, VerdictsStay DEF IInv
<1> QED
  BY <1>1, <1>2, <1>3
  DEF IInv, AtWork, LatchReset, Stepping, Booted, Loaded, Shown, Exited, Within

LEMMA BootStep == ASSUME IInv, Boot PROVE IInv'
<1>1. /\ UNCHANGED <<shows, left, variant, at, emulator, border, armed, module,
                     steps, verdicts, tried, faults>>
      /\ phase = "boot" /\ phase' = "write" /\ pc' = "inject" /\ program' = "empty"
      /\ registered' = FALSE
  BY DEF Boot, progress, report
<1>2. TypeOK'
  BY <1>1 DEF IInv, TypeOK
<1>3. VerdictsSoFar'
  BY <1>1, VerdictsStay DEF IInv
<1> QED
  BY <1>1, <1>2, <1>3
  DEF IInv, AtWork, LatchReset, Stepping, Booted, Loaded, Shown, Exited, Within

LEMMA WriteStep == ASSUME IInv, Write PROVE IInv'
<1>1. /\ UNCHANGED <<shows, left, variant, at, emulator, pc, border, registered,
                     steps, verdicts, tried, faults>>
      /\ phase = "write" /\ phase' = "run" /\ armed' = FALSE /\ program' = fixture
      /\ module' \in {fixture, module}
  BY DEF Write, progress, report, disarmed
<1>2. fixture \in Names /\ fixture' = fixture
  BY <1>1, FixturesAre DEF IInv, AtWork, TypeOK, Within, fixture
<1>3. TypeOK'
  BY <1>1, <1>2 DEF IInv, TypeOK
<1>4. VerdictsSoFar'
  BY <1>1, VerdictsStay DEF IInv
<1> QED
  BY <1>1, <1>2, <1>3, <1>4
  DEF IInv, AtWork, LatchReset, Stepping, Booted, Loaded, Shown, Exited, Within

LEMMA ModuleTooBigStep == ASSUME IInv, ModuleTooBig PROVE IInv'
<1>1. /\ phase = "write" /\ Report("EXCEPTION") /\ armed' = FALSE /\ program' = fixture
      /\ UNCHANGED <<emulator, pc, border, module, registered, tried, faults>>
  BY DEF ModuleTooBig, disarmed
<1>2. fixture \in Names
  BY <1>1, FixturesAre DEF IInv, AtWork, TypeOK, Within, fixture
<1>3. /\ phase' = "between" /\ shows' = shows /\ steps' = steps
      /\ variant' = variant /\ at' = at
      /\ left' \subseteq DOMAIN Fixtures /\ verdicts' \in Seq(Names \X Texts)
      /\ VerdictsSoFar'
  BY <1>1, ReportStep DEF Within, Texts
<1>4. TypeOK'
  BY <1>1, <1>2, <1>3 DEF IInv, TypeOK, Texts
<1> QED
  BY <1>3, <1>4, BetweenStep

\* The program is run with nothing of an earlier fixture in its way.
LEMMA RunStep == ASSUME IInv, Run PROVE IInv'
<1> DEFINE h == harness_for(fixture)
<1>1. /\ phase = "run" /\ ~armed /\ program = fixture /\ ~registered /\ border = 7
      /\ at \in left /\ emulator
  BY DEF Run, IInv, Loaded, LatchReset, AtWork, Within
<1>2. fixture \in Names /\ fixture \notin {"empty", "other", "none"} /\ h \in Harnesses
  BY <1>1, FixturesAre, HarnessType DEF IInv, TypeOK, fixture
<1>3. "empty" \notin Names
  BY FixturesAre DEF Names
<1>4. /\ UNCHANGED <<shows, left, variant, at, emulator, armed, module, steps, verdicts, faults>>
      /\ phase' = "read" /\ pc' = "hang"
      /\ program' = AtRun(h).program /\ registered' = AtRun(h).registered
      /\ border' = IF /\ AtRun(h).program \in Names
                      /\ ~(AtRun(h).program \in Needs /\ ~AtRun(h).registered)
                   THEN shows[AtRun(h).program] ELSE border
      /\ tried' \in {[tried EXCEPT ![fixture] = t] : t \in {None, "rejected", "run", "not run"}}
  <2>1. /\ UNCHANGED <<shows, left, variant, at, emulator, armed, module, steps, verdicts, faults>>
        /\ phase' = "read"
    BY DEF Run, progress
  <2>2. /\ pc' = "hang"
        /\ program' = AtRun(h).program /\ registered' = AtRun(h).registered
        /\ border' = IF /\ AtRun(h).program \in Names
                        /\ ~(AtRun(h).program \in Needs /\ ~AtRun(h).registered)
                     THEN shows[AtRun(h).program] ELSE border
    BY <1>1 DEF Run
  <2>3. \E t \in {None, "rejected", "run", "not run"} : tried' = [tried EXCEPT ![fixture] = t]
    BY <1>1 DEF Run
  <2> QED
    BY <2>1, <2>2, <2>3
<1>5. \/ h = "clear" /\ AtRun(h).program = "empty" /\ AtRun(h).registered = FALSE
      \/ h = "extension" /\ AtRun(h).program = fixture /\ AtRun(h).registered = TRUE
      \/ h \in {"plain", "run twice"} /\ AtRun(h).program = fixture /\ AtRun(h).registered = FALSE
  BY <1>1, <1>2 DEF AtRun, Harnesses
<1> HIDE DEF h
<1>6. border' = OnAFreshMachine(fixture)
  <2>1. CASE h = "clear" /\ AtRun(h).program = "empty"
    <3>1. border' = 7
      BY <1>1, <1>3, <1>4, <2>1
    <3> QED
      BY <2>1, <3>1 DEF h, OnAFreshMachine
  <2>2. CASE h = "extension" /\ AtRun(h).program = fixture /\ AtRun(h).registered = TRUE
    <3>1. border' = shows[fixture]
      BY <1>2, <1>4, <2>2
    <3> QED
      BY <2>2, <3>1 DEF h, OnAFreshMachine
  <2>3. CASE h \in {"plain", "run twice"} /\ AtRun(h).program = fixture /\ AtRun(h).registered = FALSE
    <3>1. border' = IF fixture \in Needs THEN 7 ELSE shows[fixture]
      BY <1>1, <1>2, <1>4, <2>3
    <3> QED
      BY <2>3, <3>1 DEF h, OnAFreshMachine
  <2> QED
    BY <1>5, <2>1, <2>2, <2>3
<1>7. program' \in Names \cup {"empty", "other"} /\ registered' \in BOOLEAN
  <2>1. AtRun(h).program \in Names \cup {"empty", "other"} /\ AtRun(h).registered \in BOOLEAN
    BY <1>2, <1>5, Zenon
  <2> QED
    BY <1>4, <2>1
<1>8. tried' \in [Names -> {None, "rejected", "run", "not run"}]
  BY <1>2, <1>4 DEF IInv, TypeOK
<1>9. border' \in Colours
  BY <1>2, <1>6 DEF IInv, TypeOK, OnAFreshMachine, Colours
<1>10. TypeOK'
  BY <1>4, <1>7, <1>8, <1>9 DEF IInv, TypeOK
<1>11. VerdictsSoFar'
  BY <1>4, VerdictsStay DEF IInv
<1>12. Shown'
  BY <1>4, <1>6 DEF Shown, OnAFreshMachine, fixture
<1> QED
  BY <1>1, <1>4, <1>10, <1>11, <1>12
  DEF IInv, AtWork, LatchReset, Stepping, Booted, Loaded, Exited, Within

LEMMA ReadBorderStep == ASSUME IInv, ReadBorder PROVE IInv'
<1> DEFINE v == verdict_for(fixture, border)
<1>1. /\ phase = "read" /\ Report(v) /\ border = OnAFreshMachine(fixture)
      /\ UNCHANGED <<emulator, pc, border, armed, program, module, registered, tried, faults>>
  BY DEF ReadBorder, machine, IInv, Shown
<1>2. v \in Texts /\ v = verdict_for(fixture, OnAFreshMachine(fixture))
  BY <1>1, VerdictIsText
<1> HIDE DEF v
<1>3. /\ phase' = "between" /\ shows' = shows /\ steps' = steps
      /\ variant' = variant /\ at' = at
      /\ left' \subseteq DOMAIN Fixtures /\ verdicts' \in Seq(Names \X Texts)
      /\ VerdictsSoFar'
  BY <1>1, <1>2, ReportStep DEF Within
<1>4. TypeOK'
  BY ZenonT(60), <1>1, <1>3 DEF IInv, TypeOK, Texts
<1> QED
  BY <1>3, <1>4, BetweenStep

LEMMA RaisesStep == ASSUME IInv, Raises PROVE IInv'
<1>1. /\ phase \in Within /\ Report("EXCEPTION")
      /\ UNCHANGED <<emulator, pc, border, armed, program, module, registered, tried>>
  BY DEF Raises, machine, IInv, TypeOK, Within
<1>2. /\ phase' = "between" /\ shows' = shows /\ steps' = steps
      /\ variant' = variant /\ at' = at
      /\ left' \subseteq DOMAIN Fixtures /\ verdicts' \in Seq(Names \X Texts)
      /\ VerdictsSoFar'
  BY <1>1, ReportStep DEF Texts
<1>3. TypeOK'
  BY ZenonT(60), <1>1, <1>2 DEF IInv, TypeOK, Texts
<1> QED
  BY <1>2, <1>3, BetweenStep

LEMMA ExitStep == ASSUME IInv, Exit PROVE IInv'
<1>1. /\ UNCHANGED <<shows, left, variant, at, emulator, pc, border, armed, program, module,
                     registered, steps, verdicts, tried, faults>>
      /\ ~emulator /\ left = {}
      /\ phase' = IF failed THEN "exit 1" ELSE "exit 0"
  BY DEF Exit, progress, machine, report
<1>2. TypeOK'
  BY ZenonT(60), <1>1 DEF IInv, TypeOK
<1>3. VerdictsSoFar'
  BY <1>1, VerdictsStay DEF IInv
<1>4. Exited'
  BY <1>1 DEF Exited, failed
<1> QED
  BY <1>1, <1>2, <1>3, <1>4
  DEF IInv, AtWork, LatchReset, Stepping, Booted, Loaded, Shown, Within

LEMMA InitIInv == Init => IInv
<1> SUFFICES ASSUME Init PROVE IInv
  OBVIOUS
<1>1. TypeOK
  <2>1. /\ <<>> \in Seq(Names \X Texts) /\ 0 \in 0 .. 10 /\ 7 \in Colours
        /\ "between" \in Phases
    BY DEF Colours, Phases
  <2> QED
    BY <2>1, Zenon DEF Init, TypeOK, Texts, Phases
<1>2. VerdictsSoFar
  BY DEF Init, VerdictsSoFar, Done
<1> QED
  BY <1>1, <1>2
  DEF Init, IInv, AtWork, LatchReset, Stepping, Booted, Loaded, Shown, Exited, Within

LEMMA NextIInv == IInv /\ [Next]_vars => IInv'
<1> SUFFICES ASSUME IInv, [Next]_vars PROVE IInv'
  OBVIOUS
<1>1. CASE UNCHANGED vars
  <2>1. /\ shows' = shows /\ left' = left /\ variant' = variant /\ at' = at /\ phase' = phase
        /\ emulator' = emulator /\ pc' = pc /\ border' = border /\ armed' = armed
        /\ program' = program /\ module' = module /\ registered' = registered
        /\ steps' = steps /\ verdicts' = verdicts /\ tried' = tried
    BY <1>1 DEF vars, machine, report
  <2>2. TypeOK'
    <3>1. /\ shows' \in [Names -> Colours] /\ left' \subseteq DOMAIN Fixtures
          /\ at' \in {0} \cup DOMAIN Fixtures
          /\ variant' \in {None, "plain", "run twice", "extension", "clear"}
          /\ phase' \in Phases
          /\ emulator' \in BOOLEAN /\ armed' \in BOOLEAN /\ registered' \in BOOLEAN
      BY <2>1, Zenon DEF IInv, TypeOK, Phases
    <3>2. /\ pc' \in {"reset", "LD", "OUT", "RET", "inject", "hang"} /\ border' \in Colours
          /\ program' \in Names \cup {"empty", "other"} /\ module' \in Names \cup {None}
          /\ steps' \in 0 .. 10 /\ tried' \in [Names -> {None, "rejected", "run", "not run"}]
          /\ verdicts' \in Seq(Names \X Texts)
      BY <2>1, Zenon DEF IInv, TypeOK, Texts
    <3> QED
      BY <3>1, <3>2, Zenon DEF TypeOK, Phases, Texts
  <2>3. VerdictsSoFar'
    BY <2>1, VerdictsStay DEF IInv
  <2>4. Loaded' /\ Shown' /\ Exited'
    BY <2>1 DEF IInv, Loaded, Shown, Exited, fixture, OnAFreshMachine, failed
  <2> QED
    BY <2>1, <2>2, <2>3, <2>4 DEF IInv, AtWork, LatchReset, Stepping, Booted
<1> QED
  BY <1>1, StartGroupStep, EndGroupStep, ResetKnownStep, EnterSnippetStep, SnippetStepStep,
     ArmStep, BootStep, WriteStep, ModuleTooBigStep, RunStep, ReadBorderStep, RaisesStep,
     ExitStep, Zenon DEF Next, Stopped

THEOREM Inductive == Spec => []IInv
  BY InitIInv, NextIInv, PTL DEF Spec

\* A fixture's verdict is its own (run_one, reset_border, verdict_for): whatever latch,
\* breakpoint, program or module the fixtures before it left, and wherever their commands
\* failed, it is the verdict of a fresh emulator or an exception; and there is only one.
THEOREM OwnVerdict == Spec => []VerdictIsItsOwn
<1>1. IInv => VerdictIsItsOwn
  BY DEF IInv, VerdictsSoFar, VerdictIsItsOwn
<1> QED
  BY <1>1, Inductive, PTL

\* Exit status 0: every fixture of every group was tried and passed, and no emulator is left.
THEOREM ZeroIsEarned == Spec => []ZeroMeansAllPassed
<1>1. ASSUME IInv, phase = "exit 0", NEW f \in Names
      PROVE  \E i \in DOMAIN verdicts : verdicts[i][1] = f /\ IsPass(verdicts[i][2])
  <2>1. left = {} /\ ~failed
    BY <1>1 DEF IInv, Exited
  <2>2. PICK k \in DOMAIN Fixtures : f = Fixtures[k]
    BY DEF Names
  <2>3. PICK i \in DOMAIN verdicts : verdicts[i][1] = f
    BY <1>1, <2>1, <2>2 DEF IInv, VerdictsSoFar, Done, Judged
  <2> QED
    BY <2>1, <2>3, Zenon DEF failed
<1>2. IInv => ZeroMeansAllPassed
  BY <1>1 DEF IInv, Exited, ZeroMeansAllPassed
<1> QED
  BY <1>2, Inductive, PTL
=============================================================================
