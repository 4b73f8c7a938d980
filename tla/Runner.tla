------------------------------- MODULE Runner -------------------------------
(***************************************************************************)
(* The parallel test runners (tools/qual/qrun.py and manual_run.py): each   *)
(* worker process boots an emulator, takes its share of the cases and       *)
(* writes one record and one queue message per case; the main process       *)
(* counts the messages and turns them into an exit status.                  *)
(*                                                                         *)
(* Faults: an emulator that does not boot, a connection that breaks, a      *)
(* worker that is killed.  manual_run.py also keeps a second emulator with  *)
(* a package loaded, and starts a third for a tape case (manual_tapes.py);  *)
(* qrun.py is the instance in which every case is of kind "run".            *)
(***************************************************************************)
EXTENDS Integers, Sequences, FiniteSets

CONSTANTS
  Cfgs,        \* the configurations (--cfg)
  PerCfg,      \* --workers-per-cfg
  Ids,         \* the case identifiers, in corpus order
  Kind,        \* of each case: "run", "package" or "tape"
  NotFor,      \* the <<cfg, case>> pairs with cfg \notin c.only
  Known,       \* those with a known-defect marker
  MaxFaults    \* bound on the faults of a behaviour

ASSUME RunnerAssumption ==
  /\ IsFiniteSet(Cfgs) /\ PerCfg \in Nat \ {0} /\ MaxFaults \in Nat
  \* manual_examples.py refuses an identifier that is used twice; corpus.py has none.
  /\ Ids \in Seq({Ids[i] : i \in DOMAIN Ids})
  /\ \A i, j \in DOMAIN Ids : Ids[i] = Ids[j] => i = j
  /\ \A i \in DOMAIN Ids : Kind[Ids[i]] \in {"run", "package", "tape"}

VARIABLES
  pc,        \* where each worker is
  todo,      \* its cases still to do
  m,         \* its machine, as the variable m knows it
  package,   \* manual_run._PKG: the machine with the package loaded
  running,   \* the emulators it can still stop
  orphans,   \* the number it started and has no handle of
  verdict,   \* status of the case at hand
  file,      \* the records of <out>/<cfg>.jsonl, by job
  queue,     \* messages on the way to the main process
  counts,    \* messages received, by status
  main,      \* where the main process is, then its exit status
  faults     \* the faults that happened

workerVars == <<pc, todo, m, package, running, orphans, verdict, file>>
mainVars == <<counts, main>>
vars == <<workerVars, queue, mainVars, faults>>

Workers == Cfgs \X (0 .. PerCfg - 1)
Cases == {Ids[i] : i \in DOMAIN Ids}
Jobs == Cfgs \X Cases
None == "none"
Good == {"PASS", "XFAIL", "N/A"}
Bad == {"FAIL", "XPASS", "BLOCKED"}
Machine == {None, "up", "broken", "closed"}

-----------------------------------------------------------------------------
\* (Mutant of ids_of: every worker starts at its index and does the rest.)
ids_ofRest(w) == SubSeq(Ids, w + 1, Len(Ids))

\* ids[w::n]
ids_of(w) == [k \in 1 .. ((Len(Ids) - w + PerCfg - 1) \div PerCfg)
                |-> Ids[w + 1 + (k - 1) * PerCfg]]

Init ==
  /\ pc = [w \in Workers |-> "boot"]
  /\ todo = [w \in Workers |-> ids_of(w[2])]
  /\ m = [w \in Workers |-> None] /\ package = [w \in Workers |-> None]
  /\ running = [w \in Workers |-> {}] /\ orphans = [w \in Workers |-> 0]
  /\ verdict = [w \in Workers |-> None]
  /\ file = [j \in Jobs |-> <<>>] /\ queue = <<>>
  /\ counts = [s \in Good \cup Bad |-> 0] /\ main = "get" /\ faults = <<>>

Fault(kind) == Len(faults) < MaxFaults /\ faults' = Append(faults, kind)

\* The emulators worker w has after starting one for `role`; an emulator that is up but
\* does not reach its key wait is left to itself, because start() raises.
Starts(w, role, kept) ==
  running' = [running EXCEPT ![w] = kept \cup {role}] /\ UNCHANGED <<orphans, faults>>
StartFails(w, kept) ==
  /\ \E launched \in {0, 1} : orphans' = [orphans EXCEPT ![w] = @ + launched]
  /\ running' = [running EXCEPT ![w] = kept]
  /\ Fault("start")

\* (Mutant of kept_by_boot: the old machine is not stopped, only forgotten.)
kept_by_bootAll(w) == running[w] \cup {"old"}

\* The closure boot() stops the old machine first, whatever state it is in.
kept_by_boot(w) == running[w] \ {"m"}

\* The first boot: its failure ends the worker.
Boot(w) ==
  /\ pc[w] = "boot"
  /\ \/ /\ Starts(w, "m", {})
        /\ m' = [m EXCEPT ![w] = "up"] /\ pc' = [pc EXCEPT ![w] = "next"]
     \/ /\ StartFails(w, {})
        /\ pc' = [pc EXCEPT ![w] = "gone"] /\ UNCHANGED m
  /\ UNCHANGED <<todo, package, verdict, file, queue, mainVars>>

\* boot() after a case that raised: a failure is noted in the record and the worker goes on.
Reboot(w) ==
  /\ pc[w] = "reboot" /\ pc' = [pc EXCEPT ![w] = "write"]
  /\ \/ Starts(w, "m", kept_by_boot(w)) /\ m' = [m EXCEPT ![w] = "up"]
     \/ StartFails(w, kept_by_boot(w)) /\ m' = [m EXCEPT ![w] = "closed"]
  /\ UNCHANGED <<todo, package, verdict, file, queue, mainVars>>

Job(w) == <<w[1], Head(todo[w])>>

\* "D10" is a failure whose only difference is the documented float-display truncation.
StatusOf(job, result) ==
  CASE result = "ok" -> IF job \in Known THEN "XPASS" ELSE "PASS"
    [] result # "ok" -> IF job \in Known \/ result = "D10" THEN "XFAIL" ELSE "FAIL"

NotApplicable(w) ==
  /\ Job(w) \in NotFor
  /\ verdict' = [verdict EXCEPT ![w] = "N/A"] /\ pc' = [pc EXCEPT ![w] = "write"]
  /\ UNCHANGED <<m, package, running, orphans, faults>>

Answers(w) ==
  /\ \E result \in {"ok", "bad", "D10"} :
       verdict' = [verdict EXCEPT ![w] = StatusOf(Job(w), result)]
  /\ pc' = [pc EXCEPT ![w] = "write"] /\ UNCHANGED m
Raises(w) ==
  /\ verdict' = [verdict EXCEPT ![w] = "BLOCKED"]
  /\ pc' = [pc EXCEPT ![w] = "reboot"]

\* The machine answers, or the case raises with the machine sound (it did not come back to
\* a key wait), or because the connection breaks.  A machine that is not up always raises.
OnMachine(w) ==
  /\ UNCHANGED <<package, running>>
  /\ \/ m[w] = "up" /\ Answers(w) /\ UNCHANGED <<orphans, faults>>
     \/ Raises(w) /\ UNCHANGED <<m, orphans, faults>>
     \/ m[w] = "up" /\ Raises(w) /\ Fault("connection")
        /\ m' = [m EXCEPT ![w] = "broken"] /\ UNCHANGED orphans
     \* run_tape_case: the emulator booted from the tape does not come up
     \/ /\ Kind[Head(todo[w])] = "tape" /\ m[w] = "up" /\ Raises(w)
        /\ Fault("start") /\ orphans' = [orphans EXCEPT ![w] = @ + 1] /\ UNCHANGED m

\* package_machine: started for the first case that wants it, and kept; the case runs on it.
OnPackageMachine(w) ==
  /\ UNCHANGED m
  /\ \/ /\ package[w] = None /\ Starts(w, "package", running[w])
        /\ package' = [package EXCEPT ![w] = "up"] /\ Answers(w)
     \/ /\ package[w] = None /\ StartFails(w, running[w])
        /\ Raises(w) /\ UNCHANGED package
     \/ /\ package[w] = "up" /\ Answers(w)
        /\ UNCHANGED <<package, running, orphans, faults>>
     \/ /\ package[w] # None /\ Raises(w)
        /\ UNCHANGED <<package, running, orphans, faults>>
     \/ /\ package[w] = "up" /\ Raises(w) /\ Fault("package")
        /\ package' = [package EXCEPT ![w] = "broken"] /\ UNCHANGED <<running, orphans>>

RunCase(w) ==
  /\ pc[w] = "next" /\ todo[w] # <<>>
  /\ \/ NotApplicable(w)
     \/ Job(w) \notin NotFor /\ Kind[Head(todo[w])] # "package" /\ OnMachine(w)
     \/ Job(w) \notin NotFor /\ Kind[Head(todo[w])] = "package" /\ OnPackageMachine(w)
  /\ UNCHANGED <<todo, file, queue, mainVars>>

\* The record is on disk before the message is on its way.
WriteRecord(w) ==
  /\ pc[w] = "write" /\ pc' = [pc EXCEPT ![w] = "put"]
  /\ file' = [file EXCEPT ![Job(w)] = Append(@, verdict[w])]
  /\ UNCHANGED <<todo, m, package, running, orphans, verdict, queue, mainVars, faults>>
Put(w) ==
  /\ pc[w] = "put" /\ pc' = [pc EXCEPT ![w] = "next"]
  /\ queue' = Append(queue, <<Job(w), verdict[w]>>)
  /\ todo' = [todo EXCEPT ![w] = Tail(@)] /\ verdict' = [verdict EXCEPT ![w] = None]
  /\ UNCHANGED <<m, package, running, orphans, file, mainVars, faults>>

\* (Mutant of stopped_at_end: the package machines are forgotten.)
stopped_at_endMachine == {"m"}

stopped_at_end == {"package", "m"}

\* The package machines are stopped, then m.  stop() always ends its emulator, and raises
\* if the connection is gone: then the machines after it are not stopped.
Quit(w) ==
  /\ pc[w] = "next" /\ todo[w] = <<>> /\ pc' = [pc EXCEPT ![w] = "gone"]
  /\ \/ running' = [running EXCEPT ![w] = @ \ stopped_at_end]
     \/ package[w] = "broken" /\ running' = [running EXCEPT ![w] = @ \ {"package"}]
  /\ UNCHANGED <<todo, m, package, orphans, verdict, file, queue, mainVars, faults>>

\* A message that the queue's feeder thread had not sent dies with the worker.
Kill(w) ==
  /\ pc[w] # "gone" /\ Fault("kill") /\ pc' = [pc EXCEPT ![w] = "gone"]
  /\ \/ UNCHANGED queue
     \/ /\ queue # <<>> /\ \E k \in DOMAIN ids_of(w[2]) :
             queue[Len(queue)][1] = <<w[1], ids_of(w[2])[k]>>
        /\ queue' = SubSeq(queue, 1, Len(queue) - 1)
  /\ UNCHANGED <<todo, m, package, running, orphans, verdict, file, mainVars>>

-----------------------------------------------------------------------------
AllGone == \A w \in Workers : pc[w] = "gone"
total == Len(Ids) * Cardinality(Cfgs)
done == counts["PASS"] + counts["XFAIL"] + counts["N/A"]
          + counts["FAIL"] + counts["XPASS"] + counts["BLOCKED"]

Get ==
  /\ main = "get" /\ done < total /\ queue # <<>>
  /\ counts' = [counts EXCEPT ![Head(queue)[2]] = @ + 1] /\ queue' = Tail(queue)
  /\ UNCHANGED <<workerVars, main, faults>>

\* q.get(timeout=1200) gives up; only then does the main process look at the workers.
Timeout ==
  /\ main = "get" /\ done < total /\ queue = <<>> /\ main' = "timed out"
  /\ UNCHANGED <<workerVars, queue, counts, faults>>

\* (Mutant of after_timeout: the main process waits on without looking.)
after_timeoutWait == "get"

after_timeout == IF AllGone THEN "join" ELSE "get"

LookAtWorkers ==
  /\ main = "timed out" /\ main' = after_timeout
  /\ UNCHANGED <<workerVars, queue, counts, faults>>
AllDone ==
  /\ main = "get" /\ done >= total /\ main' = "join"
  /\ UNCHANGED <<workerVars, queue, counts, faults>>

\* (Mutant of exit_status: cases that no worker reported are not counted.)
exit_statusReported == IF \E s \in Bad : counts[s] > 0 THEN "exit 1" ELSE "exit 0"

exit_status ==
  IF (\E s \in Bad : counts[s] > 0) \/ done < total THEN "exit 1" ELSE "exit 0"

Join ==
  /\ main = "join" /\ AllGone /\ main' = exit_status
  /\ UNCHANGED <<workerVars, queue, counts, faults>>

Worker(w) == Boot(w) \/ RunCase(w) \/ Reboot(w) \/ WriteRecord(w) \/ Put(w) \/ Quit(w)
Main == Get \/ Timeout \/ LookAtWorkers \/ AllDone \/ Join

Ended == main \in {"exit 0", "exit 1"}
Finished == Ended /\ UNCHANGED vars
Next == Main \/ Finished \/ \E w \in Workers : Worker(w) \/ Kill(w)

\* Every emulator command has a time limit and q.get has one, so no process stays in a step.
Fairness == WF_vars(Main) /\ \A w \in Workers : WF_vars(Worker(w))
Spec == Init /\ [][Next]_vars /\ Fairness

-----------------------------------------------------------------------------
TypeOK ==
  /\ pc \in [Workers -> {"boot", "next", "reboot", "write", "put", "gone"}]
  /\ todo \in [Workers -> Seq(Cases)]
  /\ m \in [Workers -> Machine] /\ package \in [Workers -> Machine]
  /\ running \in [Workers -> SUBSET {"m", "package"}] /\ orphans \in [Workers -> Nat]
  /\ verdict \in [Workers -> Good \cup Bad \cup {None}]
  /\ file \in [Jobs -> Seq(Good \cup Bad)] /\ queue \in Seq(Jobs \X (Good \cup Bad))
  /\ counts \in [Good \cup Bad -> Nat]
  /\ main \in {"get", "timed out", "join", "exit 0", "exit 1"}
  /\ faults \in Seq({"start", "connection", "package", "kill"})

\* One case, one record: no two workers do the same case, no case is done twice, and a case
\* the main process was told of is in the file with that status (qrun.py: "one record per
\* case"; the worker writes and flushes before it puts).
OneRecordPerCase ==
  /\ \A j \in Jobs : Len(file[j]) <= 1
  /\ \A i \in DOMAIN queue : file[queue[i][1]] = <<queue[i][2]>>
  /\ \A s \in Good \cup Bad : counts[s] <= Cardinality({j \in Jobs : file[j] = <<s>>})

\* Exit status 0 is a promise about every case of every configuration, whatever emulators
\* failed and whatever workers died: each was run and recorded, a case with a known-defect
\* marker failed as recorded, and every other passed or failed by the marked truncation only.
ExitZeroIsEarned ==
  main = "exit 0" =>
    \A j \in Jobs :
      /\ Len(file[j]) = 1
      /\ file[j][1] \in CASE j \in NotFor -> {"N/A"}
                         [] j \in Known \ NotFor -> {"XFAIL"}
                         [] OTHER -> {"PASS", "XFAIL"}

\* When no start failed, no worker was killed and no package machine broke, the run leaves
\* no emulator behind, however many cases raised and were followed by a reboot.
NothingLeftRunning ==
  Ended /\ (\A i \in DOMAIN faults : faults[i] = "connection") =>
    \A w \in Workers : running[w] = {} /\ orphans[w] = 0

\* The main process always comes to an exit status: also when workers die with cases left.
MainEnds == <>Ended

\* qrun.py: "Run the conformance corpus against one or more configurations, in parallel (one
\* emulator each)": a worker never has two.
OneEmulatorEach ==
  \A w \in Workers : Cardinality(running[w]) + orphans[w] <= 1
=============================================================================
