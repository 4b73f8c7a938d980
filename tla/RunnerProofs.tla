---------------------------- MODULE RunnerProofs ----------------------------
(***************************************************************************)
(* The runners' promises for any number of configurations, workers, cases   *)
(* and faults.                                                             *)
(***************************************************************************)
EXTENDS Runner, FiniteSetTheorems, SequenceTheorems, TLAPS

Places == {"boot", "next", "reboot", "write", "put", "gone"}
Status == Good \cup Bad
FaultKinds == {"start", "connection", "package", "kill"}

\* What a case can be recorded as.
Allowed(j) ==
  IF j \in NotFor THEN {"N/A"}
  ELSE IF j \in Known THEN {"XPASS", "XFAIL", "BLOCKED"}
  ELSE {"PASS", "XFAIL", "FAIL", "BLOCKED"}

\* The case at hand has a verdict, and at "put" that verdict is on disk.
AtHand ==
  \A w \in Workers :
    /\ pc[w] \in {"reboot", "write", "put"} => todo[w] # <<>> /\ verdict[w] \in Allowed(Job(w))
    /\ pc[w] = "put" => file[Job(w)] = <<verdict[w]>>

\* The cases still to do: no two alike, and none of them recorded yet, but for the
\* first one between its record and its message.
Todo(w, i) == <<w[1], todo[w][i]>>
Disjoint ==
  \A w, v \in Workers : \A i \in DOMAIN todo[w], k \in DOMAIN todo[v] :
    Todo(w, i) = Todo(v, k) => w = v /\ i = k
Unrecorded ==
  \A w \in Workers : \A i \in DOMAIN todo[w] :
    file[Todo(w, i)] = <<>> \/ (i = 1 /\ pc[w] \in {"put", "gone"})

Recorded(j) == file[j] = <<>> \/ \E s \in Allowed(j) : file[j] = <<s>>
Records == \A j \in Jobs : Recorded(j)

\* The messages under way: one for each case, as recorded, of cases done with.
Messages ==
  /\ \A i \in DOMAIN queue : file[queue[i][1]] = <<queue[i][2]>>
  /\ \A i, k \in DOMAIN queue : queue[i][1] = queue[k][1] => i = k
  /\ \A i \in DOMAIN queue, w \in Workers : \A k \in DOMAIN todo[w] :
       queue[i][1] # Todo(w, k)

\* The recorded cases whose message is neither under way nor about to be sent; the
\* main process has counted no others.
InQueue(j) == \E i \in DOMAIN queue : queue[i][1] = j
Told(s) == {j \in Jobs : /\ file[j] = <<s>> /\ ~InQueue(j)
                         /\ \A w \in Workers : pc[w] = "put" => Job(w) # j}
Counted == \A s \in Status : counts[s] <= Cardinality(Told(s))

\* The main process ends after its workers, with status 0 only on a full count.
Ending ==
  /\ Ended => AllGone
  /\ main = "exit 0" => done >= total /\ \A s \in Bad : counts[s] = 0

\* Only connections broke: every emulator is accounted for.
OnlyConnections == \A i \in DOMAIN faults : faults[i] = "connection"
Accounted ==
  OnlyConnections =>
    \A w \in Workers : /\ orphans[w] = 0 /\ package[w] # "broken"
                       /\ pc[w] = "gone" => running[w] = {}

IInv == /\ TypeOK /\ AtHand /\ Disjoint /\ Unrecorded /\ Records /\ Messages
        /\ Counted /\ Ending /\ Accounted

-----------------------------------------------------------------------------
\* Lemmas.

LEMMA WorkerIsPair ==
  ASSUME NEW w \in Workers
  PROVE  w[1] \in Cfgs /\ w[2] \in 0 .. PerCfg - 1 /\ w = <<w[1], w[2]>>
  BY DEF Workers

LEMMA IdsAre == /\ Ids \in Seq(Cases) /\ Len(Ids) \in Nat /\ DOMAIN Ids = 1 .. Len(Ids)
                /\ \A i, j \in 1 .. Len(Ids) : Ids[i] = Ids[j] => i = j
  BY RunnerAssumption DEF Cases

\* The stride that hands out the cases: a multiple and a remainder, in one way only.
LEMMA Stride ==
  ASSUME NEW P \in Nat \ {0}, NEW k \in Nat, NEW n \in Nat, k < n
  PROVE  k * P + P <= n * P
<1>1. n - k - 1 \in Nat
  OBVIOUS
<1>2. (n - k - 1) * P \in Nat
  BY <1>1
<1>3. (n - k - 1) * P = n * P - k * P - P
  OBVIOUS
<1> QED
  BY <1>2, <1>3

LEMMA OneRemainder ==
  ASSUME NEW P \in Nat \ {0}, NEW v \in 0 .. P - 1, NEW w \in 0 .. P - 1,
         NEW i \in Nat, NEW k \in Nat, v + 1 + i * P = w + 1 + k * P
  PROVE  v = w /\ i = k
<1>1. ~(i < k) /\ ~(k < i)
  BY Stride
<1> QED
  BY <1>1

LEMMA Quotient ==
  ASSUME NEW a \in Nat, NEW P \in Nat \ {0}
  PROVE  a \div P \in Nat /\ (a \div P) * P <= a
  OBVIOUS

\* ids[w::n] is a part of the identifiers ...
LEMMA ShareOfIds ==
  ASSUME NEW w \in 0 .. PerCfg - 1
  PROVE  /\ ids_of(w) \in Seq(Cases)
         /\ \A k \in DOMAIN ids_of(w) :
              /\ k \in Nat /\ k - 1 \in Nat /\ w + 1 + (k - 1) * PerCfg \in 1 .. Len(Ids)
              /\ ids_of(w)[k] = Ids[w + 1 + (k - 1) * PerCfg]
<1> DEFINE n == (Len(Ids) - w + PerCfg - 1) \div PerCfg
<1>1. PerCfg \in Nat \ {0} /\ Len(Ids) \in Nat
  BY RunnerAssumption, IdsAre
<1>2. Len(Ids) - w + PerCfg - 1 \in Nat
  BY <1>1
<1>3. n \in Nat /\ n * PerCfg <= Len(Ids) - w + PerCfg - 1
  BY <1>1, <1>2, Quotient
<1>4. ASSUME NEW k \in 1 .. n
      PROVE  k - 1 \in Nat /\ w + 1 + (k - 1) * PerCfg \in 1 .. Len(Ids)
  <2>1. k - 1 \in Nat /\ k - 1 < n
    BY <1>3
  <2>2. (k - 1) * PerCfg + PerCfg <= n * PerCfg
    BY <1>1, <1>3, <2>1, Stride
  <2>3. (k - 1) * PerCfg \in Nat
    BY <1>1, <2>1
  <2>4. n * PerCfg \in Nat
    BY <1>1, <1>3
  <2> HIDE DEF n
  <2> DEFINE a == (k - 1) * PerCfg
  <2> DEFINE b == n * PerCfg
  <2>5. a \in Nat /\ b \in Nat /\ a + PerCfg <= b /\ b <= Len(Ids) - w + PerCfg - 1
    BY <1>3, <2>2, <2>3, <2>4
  <2> HIDE DEF a, b
  <2>6. w + 1 + a \in 1 .. Len(Ids)
    BY <1>1, <2>5
  <2> QED
    BY <2>1, <2>6 DEF a
<1> HIDE DEF n
<1>5. ids_of(w) = [k \in 1 .. n |-> Ids[w + 1 + (k - 1) * PerCfg]]
  BY DEF ids_of, n
<1>6. ids_of(w) \in [1 .. n -> Cases]
  BY <1>4, <1>5, IdsAre DEF Cases
<1>7. ids_of(w) \in Seq(Cases)
  BY <1>3, <1>6, IsASeq
<1> QED
  BY <1>4, <1>5, <1>7

\* ... and no identifier is in two shares, or twice in one.
LEMMA SharesAreDisjoint ==
  ASSUME NEW v \in 0 .. PerCfg - 1, NEW w \in 0 .. PerCfg - 1,
         NEW i \in DOMAIN ids_of(v), NEW k \in DOMAIN ids_of(w), ids_of(v)[i] = ids_of(w)[k]
  PROVE  v = w /\ i = k
<1> DEFINE a == v + 1 + (i - 1) * PerCfg
<1> DEFINE b == w + 1 + (k - 1) * PerCfg
<1>1. /\ i \in Nat /\ i - 1 \in Nat /\ a \in 1 .. Len(Ids) /\ ids_of(v)[i] = Ids[a]
      /\ k \in Nat /\ k - 1 \in Nat /\ b \in 1 .. Len(Ids) /\ ids_of(w)[k] = Ids[b]
  BY ShareOfIds, Zenon
<1>2. a = b
  <2> HIDE DEF a, b
  <2> QED  BY <1>1, IdsAre, Zenon
<1>3. v = w /\ i - 1 = k - 1
  <2> DEFINE p == i - 1
  <2> DEFINE q == k - 1
  <2>1. p \in Nat /\ q \in Nat /\ v + 1 + p * PerCfg = w + 1 + q * PerCfg
    BY <1>1, <1>2
  <2>2. PerCfg \in Nat \ {0}
    BY RunnerAssumption
  <2> HIDE DEF p, q
  <2>3. v = w /\ p = q
    BY <2>1, <2>2, OneRemainder
  <2> QED
    BY <2>3 DEF p, q
<1> QED
  BY <1>1, <1>3

LEMMA JobsFinite == /\ IsFiniteSet(Jobs) /\ Cardinality(Jobs) = total
<1>1. IsFiniteSet(Cases) /\ Cardinality(Cases) = Len(Ids)
  <2> DEFINE f == [i \in 1 .. Len(Ids) |-> Ids[i]]
  <2>1. f \in Bijection(1 .. Len(Ids), Cases)
    BY IdsAre DEF Cases, Bijection, Injection, Surjection, IsInjective
  <2>2. IsFiniteSet(1 .. Len(Ids)) /\ Cardinality(1 .. Len(Ids)) = Len(Ids)
    BY IdsAre, FS_Interval
  <2> QED
    BY <2>1, <2>2, FS_Bijection DEF ExistsBijection
<1>2. IsFiniteSet(Cfgs)
  BY RunnerAssumption
<1>3. /\ IsFiniteSet(Cfgs \X Cases)
      /\ Cardinality(Cfgs \X Cases) = Cardinality(Cfgs) * Cardinality(Cases)
  BY <1>1, <1>2, FS_Product
<1>4. Cardinality(Cfgs) \in Nat /\ Len(Ids) \in Nat
  BY <1>2, IdsAre, FS_CardinalityType
<1> QED
  BY <1>1, <1>3, <1>4 DEF Jobs, total

LEMMA FaultStep ==
  ASSUME TypeOK, NEW k \in FaultKinds, Fault(k)
  PROVE  /\ faults' \in Seq(FaultKinds)
         /\ OnlyConnections' => OnlyConnections /\ k = "connection"
<1>1. faults \in Seq(FaultKinds) /\ faults' = Append(faults, k)
  BY DEF TypeOK, Fault, FaultKinds
<1>2. /\ Len(faults) \in Nat /\ faults' \in Seq(FaultKinds) /\ Len(faults') = Len(faults) + 1
      /\ \A i \in 1 .. Len(faults) : faults'[i] = faults[i]
      /\ faults'[Len(faults) + 1] = k
  BY <1>1, AppendProperties
<1>3. DOMAIN faults = 1 .. Len(faults) /\ DOMAIN faults' = 1 .. (Len(faults) + 1)
  BY <1>1, <1>2
<1>4. ASSUME OnlyConnections' PROVE OnlyConnections /\ k = "connection"
  <2>1. \A i \in 1 .. (Len(faults) + 1) : faults'[i] = "connection"
    BY <1>3, <1>4 DEF OnlyConnections
  <2>2. \A i \in 1 .. Len(faults) : i \in 1 .. (Len(faults) + 1)
    BY <1>2
  <2>3. Len(faults) + 1 \in 1 .. (Len(faults) + 1)
    BY <1>2
  <2> QED
    BY <1>2, <1>3, <2>1, <2>2, <2>3, Zenon DEF OnlyConnections
<1> QED
  BY <1>2, <1>4

\* What a step of worker w does to its emulators: types, and none is lost unless a
\* start failed.
Handles(w) ==
  /\ m' \in [Workers -> Machine] /\ package' \in [Workers -> Machine]
  /\ running' \in [Workers -> SUBSET {"m", "package"}] /\ orphans' \in [Workers -> Nat]
  /\ faults' \in Seq(FaultKinds)
  /\ \A v \in Workers \ {w} : running'[v] = running[v]
  /\ OnlyConnections' => /\ OnlyConnections /\ orphans' = orphans
                         /\ \A v \in Workers : package'[v] = "broken" => package[v] = "broken"

LEMMA StartsStep ==
  ASSUME TypeOK, NEW w \in Workers, NEW role \in {"m", "package"},
         NEW kept \in SUBSET {"m", "package"}, Starts(w, role, kept)
  PROVE  /\ running' \in [Workers -> SUBSET {"m", "package"}] /\ orphans' = orphans
         /\ faults' = faults /\ \A v \in Workers \ {w} : running'[v] = running[v]
<1>1. kept \cup {role} \in SUBSET {"m", "package"}
  OBVIOUS
<1> QED
  BY <1>1, Zenon DEF Starts, TypeOK

LEMMA StartFailsStep ==
  ASSUME TypeOK, NEW w \in Workers,
         NEW kept \in SUBSET {"m", "package"}, StartFails(w, kept)
  PROVE  /\ running' \in [Workers -> SUBSET {"m", "package"}] /\ orphans' \in [Workers -> Nat]
         /\ \A v \in Workers \ {w} : running'[v] = running[v]
         /\ faults' \in Seq(FaultKinds) /\ ~OnlyConnections'
<1>1. \A n \in Nat : n + 0 \in Nat /\ n + 1 \in Nat
  OBVIOUS
<1>2. PICK launched \in {0, 1} : orphans' = [orphans EXCEPT ![w] = @ + launched]
  BY Zenon DEF StartFails
<1>3. orphans[w] + launched \in Nat
  BY <1>1 DEF TypeOK
<1>4. orphans' \in [Workers -> Nat]
  BY <1>2, <1>3, Zenon DEF TypeOK
<1>5. "start" \in FaultKinds /\ "start" # "connection" /\ Fault("start")
  BY DEF FaultKinds, StartFails
<1>6. faults' \in Seq(FaultKinds) /\ ~OnlyConnections'
  BY <1>5, FaultStep
<1> QED
  BY <1>4, <1>6, Zenon DEF StartFails, TypeOK

LEMMA AllowedIsStatus == \A j : Allowed(j) \subseteq Status
  BY DEF Allowed, Status, Good, Bad

LEMMA StatusIsAllowed ==
  ASSUME NEW j, j \notin NotFor, NEW result \in {"ok", "bad", "D10"}
  PROVE  StatusOf(j, result) \in Allowed(j)
  BY DEF StatusOf, Allowed

\* The case at hand is given a verdict it may have.
Judged(w) ==
  \E p \in {"write", "reboot"}, s \in Allowed(Job(w)) :
    pc' = [pc EXCEPT ![w] = p] /\ verdict' = [verdict EXCEPT ![w] = s]

LEMMA AnswersStep ==
  ASSUME NEW w \in Workers, Job(w) \notin NotFor, Answers(w)
  PROVE  Judged(w) /\ m' = m
<1>1. PICK result \in {"ok", "bad", "D10"} :
        verdict' = [verdict EXCEPT ![w] = StatusOf(Job(w), result)]
  BY Zenon DEF Answers
<1>2. StatusOf(Job(w), result) \in Allowed(Job(w))
  BY StatusIsAllowed, Zenon
<1> QED
  BY <1>1, <1>2, Zenon DEF Answers, Judged

LEMMA RaisesStep ==
  ASSUME NEW w \in Workers, Job(w) \notin NotFor, Raises(w)
  PROVE  Judged(w)
<1>1. "BLOCKED" \in Allowed(Job(w))
  BY DEF Allowed
<1> QED
  BY <1>1, Zenon DEF Raises, Judged

LEMMA OnMachineStep ==
  ASSUME TypeOK, NEW w \in Workers, Job(w) \notin NotFor, OnMachine(w)
  PROVE  Judged(w) /\ Handles(w)
<1>1. package' = package /\ running' = running
  BY Zenon DEF OnMachine
<1>2. CASE m[w] = "up" /\ Answers(w) /\ UNCHANGED <<orphans, faults>>
  <2>1. Judged(w) /\ m' = m
    BY <1>2, AnswersStep, Zenon
  <2>2. OnlyConnections' <=> OnlyConnections
    BY <1>2 DEF OnlyConnections
  <2> QED
    BY <1>1, <1>2, <2>1, <2>2, Zenon DEF Handles, TypeOK, FaultKinds
<1>3. CASE Raises(w) /\ UNCHANGED <<m, orphans, faults>>
  <2>1. OnlyConnections' <=> OnlyConnections
    BY <1>3 DEF OnlyConnections
  <2> QED
    BY <1>1, <1>3, <2>1, RaisesStep, Zenon DEF Handles, TypeOK, FaultKinds
<1>4. CASE /\ m[w] = "up" /\ Raises(w) /\ Fault("connection")
           /\ m' = [m EXCEPT ![w] = "broken"] /\ UNCHANGED orphans
  <2>1. "connection" \in FaultKinds /\ "broken" \in Machine
    BY DEF FaultKinds, Machine
  <2>2. faults' \in Seq(FaultKinds) /\ (OnlyConnections' => OnlyConnections)
    BY <1>4, <2>1, FaultStep
  <2>3. m' \in [Workers -> Machine]
    BY <1>4, <2>1, Zenon DEF TypeOK
  <2> QED
    BY <1>1, <1>4, <2>2, <2>3, RaisesStep, Zenon DEF Handles, TypeOK
<1>5. CASE /\ Kind[Head(todo[w])] = "tape" /\ m[w] = "up" /\ Raises(w)
           /\ Fault("start") /\ orphans' = [orphans EXCEPT ![w] = @ + 1] /\ UNCHANGED m
  <2>1. "start" \in FaultKinds /\ "start" # "connection"
    BY DEF FaultKinds
  <2>2. faults' \in Seq(FaultKinds) /\ ~OnlyConnections'
    BY <1>5, <2>1, FaultStep
  <2>3. orphans[w] + 1 \in Nat
    <3>1. orphans[w] \in Nat
      BY Zenon DEF TypeOK
    <3> QED
      BY <3>1
  <2>4. orphans' \in [Workers -> Nat]
    BY <1>5, <2>3, Zenon DEF TypeOK
  <2> QED
    BY <1>1, <1>5, <2>2, <2>4, RaisesStep, Zenon DEF Handles, TypeOK
<1> QED
  BY <1>2, <1>3, <1>4, <1>5, Zenon DEF OnMachine

LEMMA OnPackageMachineStep ==
  ASSUME TypeOK, NEW w \in Workers, Job(w) \notin NotFor, OnPackageMachine(w)
  PROVE  Judged(w) /\ Handles(w)
<1>1. m' = m /\ running[w] \in SUBSET {"m", "package"}
  BY Zenon DEF OnPackageMachine, TypeOK
<1>2. CASE /\ package[w] = None /\ Starts(w, "package", running[w])
           /\ package' = [package EXCEPT ![w] = "up"] /\ Answers(w)
  <2>1. Judged(w)
    BY <1>2, AnswersStep, Zenon
  <2>2. /\ running' \in [Workers -> SUBSET {"m", "package"}] /\ orphans' = orphans
        /\ faults' = faults /\ \A v \in Workers \ {w} : running'[v] = running[v]
    BY <1>1, <1>2, StartsStep
  <2>3. OnlyConnections' <=> OnlyConnections
    BY <2>2 DEF OnlyConnections
  <2>4. "up" \in Machine /\ "up" # "broken"
    BY DEF Machine
  <2>5. /\ package' \in [Workers -> Machine]
        /\ \A v \in Workers : package'[v] = "broken" => package[v] = "broken"
    BY <1>2, <2>4, Zenon DEF TypeOK
  <2> QED
    BY <1>1, <2>1, <2>2, <2>3, <2>5, Zenon DEF Handles, TypeOK, FaultKinds
<1>3. CASE /\ package[w] = None /\ StartFails(w, running[w])
           /\ Raises(w) /\ UNCHANGED package
  <2>1. /\ running' \in [Workers -> SUBSET {"m", "package"}] /\ orphans' \in [Workers -> Nat]
        /\ \A v \in Workers \ {w} : running'[v] = running[v]
        /\ faults' \in Seq(FaultKinds) /\ ~OnlyConnections'
    BY <1>1, <1>3, StartFailsStep
  <2> QED
    BY <1>1, <1>3, <2>1, RaisesStep, Zenon DEF Handles, TypeOK
<1>4. CASE /\ package[w] = "up" /\ Answers(w)
           /\ UNCHANGED <<package, running, orphans, faults>>
  <2>1. OnlyConnections' <=> OnlyConnections
    BY <1>4 DEF OnlyConnections
  <2> QED
    BY <1>1, <1>4, <2>1, AnswersStep, Zenon DEF Handles, TypeOK, FaultKinds
<1>5. CASE /\ package[w] # None /\ Raises(w)
           /\ UNCHANGED <<package, running, orphans, faults>>
  <2>1. OnlyConnections' <=> OnlyConnections
    BY <1>5 DEF OnlyConnections
  <2> QED
    BY <1>1, <1>5, <2>1, RaisesStep, Zenon DEF Handles, TypeOK, FaultKinds
<1>6. CASE /\ package[w] = "up" /\ Raises(w) /\ Fault("package")
           /\ package' = [package EXCEPT ![w] = "broken"] /\ UNCHANGED <<running, orphans>>
  <2>1. "package" \in FaultKinds /\ "package" # "connection" /\ "broken" \in Machine
    BY DEF FaultKinds, Machine
  <2>2. faults' \in Seq(FaultKinds) /\ ~OnlyConnections'
    BY <1>6, <2>1, FaultStep
  <2>3. package' \in [Workers -> Machine]
    BY <1>6, <2>1, Zenon DEF TypeOK
  <2> QED
    BY <1>1, <1>6, <2>2, <2>3, RaisesStep, Zenon DEF Handles, TypeOK
<1> QED
  BY <1>2, <1>3, <1>4, <1>5, <1>6, Zenon DEF OnPackageMachine

\* A case is run: a verdict, or a verdict and a reboot; nothing is written yet.
LEMMA RunCaseStep ==
  ASSUME TypeOK, NEW w \in Workers, RunCase(w)
  PROVE  /\ Judged(w) /\ Handles(w) /\ pc[w] = "next" /\ todo[w] # <<>>
         /\ UNCHANGED <<todo, file, queue, mainVars>>
<1>1. CASE NotApplicable(w)
  <2>1. "N/A" \in Allowed(Job(w))
    BY <1>1 DEF NotApplicable, Allowed
  <2>2. Judged(w)
    BY <1>1, <2>1, Zenon DEF NotApplicable, Judged
  <2>3. UNCHANGED <<m, package, running, orphans, faults>>
    BY <1>1, Zenon DEF NotApplicable
  <2>4. OnlyConnections' <=> OnlyConnections
    BY <2>3 DEF OnlyConnections
  <2>5. Handles(w)
    BY <2>3, <2>4, Zenon DEF Handles, TypeOK, FaultKinds
  <2> QED
    BY <2>2, <2>5, Zenon DEF RunCase
<1> QED
  BY <1>1, OnMachineStep, OnPackageMachineStep, Zenon DEF RunCase

LEMMA ToldIsFinite ==
  ASSUME NEW s
  PROVE  IsFiniteSet(Told(s)) /\ Cardinality(Told(s)) \in Nat
<1>1. Told(s) \subseteq Jobs
  BY DEF Told
<1> QED
  BY <1>1, JobsFinite, FS_Subset, FS_CardinalityType

LEMMA SameTodo ==
  ASSUME Disjoint, todo' = todo
  PROVE  Disjoint'
<1> SUFFICES ASSUME NEW w \in Workers, NEW v \in Workers,
                    NEW i \in DOMAIN todo'[w], NEW k \in DOMAIN todo'[v],
                    Todo(w, i)' = Todo(v, k)'
             PROVE  w = v /\ i = k
  BY DEF Disjoint
<1>1. Todo(w, i) = Todo(v, k)
  BY DEF Todo
<1> QED
  BY <1>1, SMT DEF Disjoint

\* A step of a worker that neither writes nor sends keeps the books.
LEMMA QuietStep ==
  ASSUME IInv, NEW w \in Workers, NEW p \in Places \ {"put"}, pc[w] \notin {"put", "gone"},
         pc' = [pc EXCEPT ![w] = p], UNCHANGED <<todo, file, queue, mainVars>>
  PROVE  Disjoint' /\ Unrecorded' /\ Records' /\ Messages' /\ Counted' /\ Ending'
<1>1. pc \in [Workers -> Places]
  BY Zenon DEF IInv, TypeOK, Places
<1>2. \A v \in Workers : /\ pc'[v] = "put" <=> pc[v] = "put"
                         /\ pc[v] = "gone" => pc'[v] = "gone"
  BY <1>1, Zenon
<1>3. todo' = todo /\ file' = file /\ queue' = queue /\ counts' = counts /\ main' = main
  BY DEF mainVars
<1>4. Disjoint'
  BY <1>3, SameTodo DEF IInv
<1>5. Unrecorded'
  BY <1>2, <1>3, Zenon DEF IInv, Unrecorded, Todo
<1>6. Records'
  BY <1>3, Zenon DEF IInv, Records, Recorded
<1>7. Messages'
  BY <1>3 DEF IInv, Messages, Todo
<1>8. \A s : Told(s)' = Told(s)
  BY <1>2, <1>3, Zenon DEF Told, InQueue, Job
<1>9. Counted'
  BY <1>3, <1>8, Zenon DEF IInv, Counted
<1>10. ~Ended
  BY Zenon DEF IInv, Ending, AllGone
<1>11. ~Ended' /\ main' # "exit 0"
  BY <1>3, <1>10, Zenon DEF Ended
<1>12. Ending'
  BY <1>11, Zenon DEF Ending
<1> QED
  BY <1>4, <1>5, <1>6, <1>7, <1>9, <1>12

\* Keeping one's emulators keeps the account, unless the worker ends.
LEMMA HandlesAccounted ==
  ASSUME TypeOK, Accounted, NEW w \in Workers, Handles(w),
         \A v \in Workers : pc'[v] = "gone" => v # w /\ pc[v] = "gone"
  PROVE  Accounted'
  BY Zenon DEF Accounted, Handles

LEMMA BootStep ==
  ASSUME IInv, NEW w \in Workers, Boot(w) PROVE IInv'
<1>0. TypeOK /\ Accounted /\ AtHand
  BY DEF IInv
<1>1. UNCHANGED <<todo, package, verdict, file, queue, mainVars>> /\ pc[w] = "boot"
  BY Zenon DEF Boot
<1>a. pc \in [Workers -> Places]
  BY <1>0, Zenon DEF TypeOK, Places
<1>2. CASE Starts(w, "m", {}) /\ m' = [m EXCEPT ![w] = "up"] /\ pc' = [pc EXCEPT ![w] = "next"]
  <2>1. /\ running' \in [Workers -> SUBSET {"m", "package"}] /\ orphans' = orphans
        /\ faults' = faults /\ \A v \in Workers \ {w} : running'[v] = running[v]
    BY <1>0, <1>2, StartsStep
  <2>2. OnlyConnections' <=> OnlyConnections
    BY <2>1 DEF OnlyConnections
  <2>3. "up" \in Machine /\ "next" \in Places \ {"put"} /\ "next" # "gone"
    BY DEF Machine, Places
  <2>4. m' \in [Workers -> Machine] /\ pc' \in [Workers -> Places]
    BY <1>0, <1>a, <1>2, <2>3, Zenon DEF TypeOK
  <2>5. Handles(w)
    BY <1>0, <1>1, <2>1, <2>2, <2>4, Zenon DEF Handles, TypeOK, FaultKinds
  <2>6. \A v \in Workers : pc'[v] = "gone" => v # w /\ pc[v] = "gone"
    BY <1>a, <1>2, <2>3, Zenon
  <2>7. Accounted'
    BY <1>0, <2>5, <2>6, HandlesAccounted
  <2>8. Disjoint' /\ Unrecorded' /\ Records' /\ Messages' /\ Counted' /\ Ending'
    BY <1>1, <1>2, <2>3, QuietStep
  <2>9. AtHand'
    BY <1>0, <1>1, <1>a, <1>2, Zenon DEF AtHand, Job
  <2>10. TypeOK'
    BY <1>0, <1>1, <2>4, <2>5, Zenon DEF TypeOK, Handles, mainVars, Places, FaultKinds
  <2> QED
    BY <2>7, <2>8, <2>9, <2>10 DEF IInv
<1>3. CASE StartFails(w, {}) /\ pc' = [pc EXCEPT ![w] = "gone"] /\ UNCHANGED m
  <2>1. /\ running' \in [Workers -> SUBSET {"m", "package"}] /\ orphans' \in [Workers -> Nat]
        /\ faults' \in Seq(FaultKinds) /\ ~OnlyConnections'
    BY <1>0, <1>3, StartFailsStep
  <2>2. "gone" \in Places \ {"put"}
    BY DEF Places
  <2>3. Disjoint' /\ Unrecorded' /\ Records' /\ Messages' /\ Counted' /\ Ending'
    BY <1>1, <1>3, <2>2, QuietStep
  <2>4. pc' \in [Workers -> Places]
    BY <1>a, <1>3, <2>2, Zenon
  <2>5. AtHand'
    BY <1>0, <1>1, <1>a, <1>3, Zenon DEF AtHand, Job
  <2>6. TypeOK'
    BY <1>0, <1>1, <1>3, <2>1, <2>4, Zenon DEF TypeOK, mainVars, Places, FaultKinds
  <2> QED
    BY <2>1, <2>3, <2>5, <2>6 DEF IInv, Accounted
<1> QED
  BY <1>2, <1>3, Zenon DEF Boot

LEMMA RunStep ==
  ASSUME IInv, NEW w \in Workers, RunCase(w) PROVE IInv'
<1>0. TypeOK /\ Accounted /\ AtHand
  BY DEF IInv
<1>1. /\ Judged(w) /\ Handles(w) /\ pc[w] = "next" /\ todo[w] # <<>>
      /\ UNCHANGED <<todo, file, queue, mainVars>>
  BY <1>0, RunCaseStep, Zenon
<1>2. pc \in [Workers -> Places] /\ verdict \in [Workers -> Status \cup {None}]
  BY <1>0, Zenon DEF TypeOK, Places, Status
<1>3. PICK p \in {"write", "reboot"}, s \in Allowed(Job(w)) :
        pc' = [pc EXCEPT ![w] = p] /\ verdict' = [verdict EXCEPT ![w] = s]
  BY <1>1, Zenon DEF Judged
<1>4. p \in Places \ {"put"} /\ p \in Places /\ p # "gone" /\ p # "put"
  BY DEF Places
<1>5. s \in Status
  BY AllowedIsStatus, Zenon
<1>6. Disjoint' /\ Unrecorded' /\ Records' /\ Messages' /\ Counted' /\ Ending'
  BY <1>1, <1>3, <1>4, QuietStep
<1>7. pc' \in [Workers -> Places] /\ verdict' \in [Workers -> Status \cup {None}]
  BY <1>2, <1>3, <1>4, <1>5, Zenon
<1>8. TypeOK'
  BY <1>0, <1>1, <1>7, Zenon DEF TypeOK, Handles, mainVars, Places, FaultKinds, Status
<1>9. Accounted'
  <2>1. \A v \in Workers : pc'[v] = "gone" => v # w /\ pc[v] = "gone"
    BY <1>2, <1>3, <1>4, Zenon
  <2> QED
    BY <1>0, <1>1, <2>1, HandlesAccounted
<1>10. AtHand'
  BY <1>0, <1>1, <1>2, <1>3, <1>4, Zenon DEF AtHand, Job
<1> QED
  BY <1>6, <1>8, <1>9, <1>10 DEF IInv

LEMMA RebootStep ==
  ASSUME IInv, NEW w \in Workers, Reboot(w) PROVE IInv'
<1>0. TypeOK /\ Accounted /\ AtHand
  BY DEF IInv
<1>1. /\ UNCHANGED <<todo, package, verdict, file, queue, mainVars>> /\ pc[w] = "reboot"
      /\ pc' = [pc EXCEPT ![w] = "write"]
  BY Zenon DEF Reboot
<1>2. pc \in [Workers -> Places] /\ "write" \in Places \ {"put"} /\ "write" # "gone"
  BY <1>0 DEF TypeOK, Places
<1>3. Disjoint' /\ Unrecorded' /\ Records' /\ Messages' /\ Counted' /\ Ending'
  BY <1>1, <1>2, QuietStep
<1>4. pc' \in [Workers -> Places]
  BY <1>1, <1>2, Zenon
<1>5. kept_by_boot(w) \in SUBSET {"m", "package"}
  <2>1. running[w] \in SUBSET {"m", "package"}
    BY <1>0, Zenon DEF TypeOK
  <2> QED
    BY <2>1 DEF kept_by_boot
<1>6. Handles(w)
  <2>1. CASE Starts(w, "m", kept_by_boot(w)) /\ m' = [m EXCEPT ![w] = "up"]
    <3>1. /\ running' \in [Workers -> SUBSET {"m", "package"}] /\ orphans' = orphans
          /\ faults' = faults /\ \A v \in Workers \ {w} : running'[v] = running[v]
      BY <1>0, <1>5, <2>1, StartsStep
    <3>2. OnlyConnections' <=> OnlyConnections
      BY <3>1 DEF OnlyConnections
    <3>3. "up" \in Machine
      BY DEF Machine
    <3> QED
      BY <1>0, <1>1, <2>1, <3>1, <3>2, <3>3, Zenon DEF Handles, TypeOK, FaultKinds
  <2>2. CASE StartFails(w, kept_by_boot(w)) /\ m' = [m EXCEPT ![w] = "closed"]
    <3>1. /\ running' \in [Workers -> SUBSET {"m", "package"}] /\ orphans' \in [Workers -> Nat]
          /\ \A v \in Workers \ {w} : running'[v] = running[v]
          /\ faults' \in Seq(FaultKinds) /\ ~OnlyConnections'
      BY <1>0, <1>5, <2>2, StartFailsStep
    <3>2. "closed" \in Machine
      BY DEF Machine
    <3> QED
      BY <1>0, <1>1, <2>2, <3>1, <3>2, Zenon DEF Handles, TypeOK
  <2> QED
    BY <2>1, <2>2, Zenon DEF Reboot
<1>7. TypeOK'
  BY <1>0, <1>1, <1>4, <1>6, Zenon DEF TypeOK, Handles, mainVars, Places, FaultKinds
<1>8. Accounted'
  <2>1. \A v \in Workers : pc'[v] = "gone" => v # w /\ pc[v] = "gone"
    BY <1>1, <1>2, Zenon
  <2> QED
    BY <1>0, <1>6, <2>1, HandlesAccounted
<1>9. AtHand'
  BY <1>0, <1>1, <1>2, Zenon DEF AtHand, Job
<1> QED
  BY <1>3, <1>7, <1>8, <1>9 DEF IInv

\* The count stays good when no status loses a case that was told of.
LEMMA CountsKeep ==
  ASSUME TypeOK, Counted, counts' = counts, \A s : Told(s) \subseteq Told(s)'
  PROVE  Counted'
<1> SUFFICES ASSUME NEW s \in Status PROVE counts[s] <= Cardinality(Told(s)')
  BY DEF Counted
<1>1. Told(s)' \subseteq Jobs
  BY DEF Told
<1>2. IsFiniteSet(Told(s)') /\ Told(s) \in SUBSET Told(s)'
  BY <1>1, JobsFinite, FS_Subset
<1>3. /\ Cardinality(Told(s)') \in Nat /\ Cardinality(Told(s)) \in Nat
      /\ Cardinality(Told(s)) <= Cardinality(Told(s)')
  BY <1>2, FS_Subset, FS_CardinalityType
<1>4. counts[s] \in Nat /\ counts[s] <= Cardinality(Told(s))
  BY DEF TypeOK, Counted, Status
<1> QED
  BY <1>3, <1>4

\* The case at hand is the first one to do.
LEMMA HeadJob ==
  ASSUME TypeOK, NEW w \in Workers, todo[w] # <<>>
  PROVE  /\ 1 \in DOMAIN todo[w] /\ Job(w) = Todo(w, 1) /\ Job(w) \in Jobs
         /\ Tail(todo[w]) \in Seq(Cases)
         /\ \A i \in DOMAIN Tail(todo[w]) :
              i + 1 \in DOMAIN todo[w] /\ i + 1 # 1 /\ Tail(todo[w])[i] = todo[w][i + 1]
<1>1. todo[w] \in Seq(Cases) /\ w[1] \in Cfgs
  BY WorkerIsPair, Zenon DEF TypeOK
<1>2. /\ Head(todo[w]) \in Cases /\ Head(todo[w]) = todo[w][1]
      /\ Tail(todo[w]) \in Seq(Cases) /\ Len(Tail(todo[w])) = Len(todo[w]) - 1
      /\ \A i \in 1 .. Len(Tail(todo[w])) : Tail(todo[w])[i] = todo[w][i + 1]
  BY <1>1, HeadTailProperties
<1>3. /\ Len(todo[w]) \in Nat /\ Len(todo[w]) # 0 /\ DOMAIN todo[w] = 1 .. Len(todo[w])
      /\ DOMAIN Tail(todo[w]) = 1 .. Len(Tail(todo[w]))
  BY <1>1, <1>2, EmptySeq, LenProperties
<1>4. 1 \in DOMAIN todo[w]
  BY <1>3
<1>5. Job(w) = Todo(w, 1) /\ Job(w) \in Jobs
  BY <1>1, <1>2, Zenon DEF Job, Todo, Jobs
<1>6. \A i \in 1 .. (Len(todo[w]) - 1) : i + 1 \in 1 .. Len(todo[w]) /\ i + 1 # 1
  BY <1>3
<1> QED
  BY <1>2, <1>3, <1>4, <1>5, <1>6, Zenon

LEMMA RecordIsNotEmpty == \A s : <<>> # <<s>>
  OBVIOUS

LEMMA RecordLength == Len(<<>>) = 0 /\ \A s : Len(<<s>>) = 1 /\ <<s>>[1] = s
  OBVIOUS

LEMMA RecordIsItsStatus == \A s, t : <<s>> = <<t>> => s = t
  OBVIOUS

\* Two workers never have the same case at hand.
LEMMA OthersJob ==
  ASSUME TypeOK, Disjoint, NEW w \in Workers, NEW v \in Workers, v # w,
         todo[w] # <<>>, todo[v] # <<>>
  PROVE  Job(v) # Job(w)
<1>1. /\ 1 \in DOMAIN todo[w] /\ Job(w) = Todo(w, 1)
      /\ 1 \in DOMAIN todo[v] /\ Job(v) = Todo(v, 1)
  BY HeadJob, Zenon
<1>2. Todo(v, 1) # Todo(w, 1)
  BY <1>1, Zenon DEF Disjoint
<1> QED
  BY <1>1, <1>2

LEMMA WriteRecordStep ==
  ASSUME IInv, NEW w \in Workers, WriteRecord(w) PROVE IInv'
<1> DEFINE J == Job(w)
<1>0. /\ TypeOK /\ AtHand /\ Disjoint /\ Unrecorded /\ Records /\ Messages
      /\ Counted /\ Ending /\ Accounted
  BY DEF IInv
<1>1. /\ pc[w] = "write" /\ pc' = [pc EXCEPT ![w] = "put"]
      /\ file' = [file EXCEPT ![J] = Append(@, verdict[w])]
      /\ todo' = todo /\ m' = m /\ package' = package /\ running' = running
      /\ orphans' = orphans /\ verdict' = verdict /\ queue' = queue
      /\ counts' = counts /\ main' = main /\ faults' = faults
  BY DEF WriteRecord, mainVars
<1>2. pc \in [Workers -> Places] /\ "put" \in Places
  BY <1>0 DEF TypeOK, Places
<1>3. todo[w] # <<>> /\ verdict[w] \in Allowed(J) /\ verdict[w] \in Status
  BY <1>0, <1>1, AllowedIsStatus, Zenon DEF AtHand
<1>4. 1 \in DOMAIN todo[w] /\ J = Todo(w, 1) /\ J \in Jobs
  BY <1>0, <1>3, HeadJob, Zenon
<1>5. file[J] = <<>>
  BY <1>0, <1>1, <1>4, Zenon DEF Unrecorded
<1>6. Append(<<>>, verdict[w]) = <<verdict[w]>>
  OBVIOUS
<1>7. file \in [Jobs -> Seq(Status)]
  BY <1>0, Zenon DEF TypeOK, Status
<1>8. /\ file'[J] = <<verdict[w]>> /\ \A j \in Jobs : j # J => file'[j] = file[j]
      /\ <<verdict[w]>> \in Seq(Status)
  BY <1>1, <1>3, <1>4, <1>5, <1>6, <1>7
<1>9. file' \in [Jobs -> Seq(Status)]
  BY <1>1, <1>4, <1>5, <1>6, <1>7, <1>8, Zenon
<1>10. pc' \in [Workers -> Places] /\ pc'[w] = "put" /\ \A v \in Workers : v # w => pc'[v] = pc[v]
  BY <1>1, <1>2, Zenon
<1>11. TypeOK'
  BY <1>0, <1>1, <1>9, <1>10, Zenon DEF TypeOK, Places, Status
<1>12. \A v \in Workers : Job(v)' = Job(v) /\ \A i : Todo(v, i)' = Todo(v, i)
  BY <1>1 DEF Job, Todo
<1>13. AtHand'
  <2> SUFFICES ASSUME NEW v \in Workers
      PROVE /\ pc'[v] \in {"reboot", "write", "put"} => todo[v] # <<>> /\ verdict[v] \in Allowed(Job(v))
            /\ pc'[v] = "put" => file'[Job(v)] = <<verdict[v]>>
    BY <1>1, <1>12, Zenon DEF AtHand
  <2>1. CASE v = w
    BY <1>3, <1>8, <2>1, Zenon
  <2>2. CASE v # w
    <3>1. pc'[v] \in {"reboot", "write", "put"} => todo[v] # <<>> /\ verdict[v] \in Allowed(Job(v))
      BY <1>0, <1>10, <2>2, Zenon DEF AtHand
    <3>2. ASSUME pc'[v] = "put" PROVE file'[Job(v)] = <<verdict[v]>>
      <4>1. todo[v] # <<>> /\ file[Job(v)] = <<verdict[v]>>
        BY <1>0, <1>10, <2>2, <3>2, Zenon DEF AtHand
      <4>2. Job(v) \in Jobs /\ Job(v) # J
        BY <1>0, <1>3, <2>2, <4>1, HeadJob, OthersJob, Zenon
      <4> QED
        BY <1>8, <4>1, <4>2, Zenon
    <3> QED
      BY <3>1, <3>2
  <2> QED
    BY <2>1, <2>2
<1>14. Disjoint'
  BY <1>0, <1>1, SameTodo
<1>15. Unrecorded'
  <2> SUFFICES ASSUME NEW v \in Workers, NEW i \in DOMAIN todo[v]
      PROVE file'[Todo(v, i)] = <<>> \/ (i = 1 /\ pc'[v] \in {"put", "gone"})
    BY <1>1, <1>12 DEF Unrecorded
  <2>1. CASE Todo(v, i) = J
    <3>1. v = w /\ i = 1
      BY <1>0, <1>4, <2>1 DEF Disjoint
    <3> QED
      BY <1>10, <3>1, Zenon
  <2>2. CASE Todo(v, i) # J
    <3>1. file[Todo(v, i)] = <<>> \/ (i = 1 /\ pc[v] \in {"put", "gone"})
      BY <1>0, Zenon DEF Unrecorded
    <3>2. todo[v] \in Seq(Cases) /\ v[1] \in Cfgs
      BY <1>0, WorkerIsPair, Zenon DEF TypeOK
    <3>3. todo[v][i] \in Cases
      BY <3>2
    <3>4. Todo(v, i) \in Jobs
      BY <3>2, <3>3, Zenon DEF Todo, Jobs
    <3> QED
      BY <1>1, <1>8, <1>10, <2>2, <3>1, <3>4, Zenon
  <2> QED
    BY <2>1, <2>2
<1>16. Records'
  BY <1>0, <1>3, <1>8, Zenon DEF Records, Recorded
<1>17. \A i \in DOMAIN queue : queue[i][1] # J /\ file'[queue[i][1]] = file[queue[i][1]]
  <2> SUFFICES ASSUME NEW i \in DOMAIN queue
      PROVE queue[i][1] # J /\ file'[queue[i][1]] = file[queue[i][1]]
    OBVIOUS
  <2>1. queue[i][1] # J
    BY <1>0, <1>4 DEF Messages
  <2>2. queue[i] \in Jobs \X Status
    <3>1. queue \in Seq(Jobs \X Status)
      BY <1>0, Zenon DEF TypeOK, Status
    <3> QED
      BY <3>1
  <2>3. queue[i][1] \in Jobs
    BY <2>2
  <2> QED
    BY <1>8, <2>1, <2>3, Zenon
<1>18. Messages'
  <2>1. \A i \in DOMAIN queue' : file'[queue'[i][1]] = <<queue'[i][2]>>
    BY <1>0, <1>1, <1>17, Zenon DEF Messages
  <2>2. \A i, k \in DOMAIN queue' : queue'[i][1] = queue'[k][1] => i = k
    BY <1>0, <1>1, Zenon DEF Messages
  <2>3. \A i \in DOMAIN queue', v \in Workers : \A k \in DOMAIN todo'[v] : queue'[i][1] # Todo(v, k)'
    BY SMTT(60), <1>0, <1>1, <1>12, Zenon DEF Messages
  <2> QED
    BY <2>1, <2>2, <2>3, Zenon DEF Messages
<1>19. ASSUME NEW s PROVE Told(s) \subseteq Told(s)'
  <2> SUFFICES ASSUME NEW j \in Told(s) PROVE j \in Told(s)'
    OBVIOUS
  <2>1. /\ j \in Jobs /\ file[j] = <<s>> /\ ~InQueue(j)
        /\ \A v \in Workers : pc[v] = "put" => Job(v) # j
    BY Zenon DEF Told
  <2>2. j # J
    BY <1>5, <2>1, RecordIsNotEmpty, Zenon
  <2>3. file'[j] = <<s>> /\ ~InQueue(j)'
    BY <1>1, <1>8, <2>1, <2>2, Zenon DEF InQueue
  <2>4. \A v \in Workers : pc'[v] = "put" => Job(v)' # j
    BY <1>10, <1>12, <2>1, <2>2, Zenon
  <2> QED
    BY <2>1, <2>3, <2>4, Zenon DEF Told
<1>20. Counted'
  BY <1>0, <1>1, <1>19, CountsKeep
<1>21. Ending'
  BY <1>0, <1>1, <1>10, Zenon DEF Ending, Ended, AllGone
<1>22. Accounted'
  BY <1>0, <1>1, <1>10, Zenon DEF Accounted, OnlyConnections
<1> QED
  BY <1>11, <1>13, <1>14, <1>15, <1>16, <1>18, <1>20, <1>21, <1>22 DEF IInv

LEMMA PutStep ==
  ASSUME IInv, NEW w \in Workers, Put(w) PROVE IInv'
<1> DEFINE J == Job(w)
<1> DEFINE n == Len(queue)
<1>0. /\ TypeOK /\ AtHand /\ Disjoint /\ Unrecorded /\ Records /\ Messages
      /\ Counted /\ Ending /\ Accounted
  BY DEF IInv
<1>1. /\ pc[w] = "put" /\ pc' = [pc EXCEPT ![w] = "next"]
      /\ queue' = Append(queue, <<J, verdict[w]>>)
      /\ todo' = [todo EXCEPT ![w] = Tail(@)] /\ verdict' = [verdict EXCEPT ![w] = None]
      /\ m' = m /\ package' = package /\ running' = running
      /\ orphans' = orphans /\ file' = file
      /\ counts' = counts /\ main' = main /\ faults' = faults
  BY DEF Put, mainVars
<1>2. pc \in [Workers -> Places] /\ todo \in [Workers -> Seq(Cases)]
  BY <1>0 DEF TypeOK, Places
<1>3. /\ todo[w] # <<>> /\ verdict[w] \in Allowed(J) /\ verdict[w] \in Status
      /\ file[J] = <<verdict[w]>>
  BY <1>0, <1>1, AllowedIsStatus, Zenon DEF AtHand
<1>4. /\ 1 \in DOMAIN todo[w] /\ J = Todo(w, 1) /\ J \in Jobs
      /\ Tail(todo[w]) \in Seq(Cases)
      /\ \A i \in DOMAIN Tail(todo[w]) :
           i + 1 \in DOMAIN todo[w] /\ i + 1 # 1 /\ Tail(todo[w])[i] = todo[w][i + 1]
  BY <1>0, <1>3, HeadJob, Zenon
<1>5. queue \in Seq(Jobs \X Status) /\ <<J, verdict[w]>> \in Jobs \X Status
  BY <1>0, <1>3, <1>4, Zenon DEF TypeOK, Status
<1> HIDE DEF J
<1>6. /\ queue' \in Seq(Jobs \X Status) /\ n \in Nat
      /\ DOMAIN queue = 1 .. n /\ DOMAIN queue' = 1 .. (n + 1)
      /\ \A i \in 1 .. n : queue'[i] = queue[i]
      /\ queue'[n + 1] = <<J, verdict[w]>>
  BY <1>1, <1>5, AppendProperties
<1>7. \A i \in DOMAIN queue' : i \in DOMAIN queue \/ i = n + 1
  BY <1>6
<1>8. n + 1 \notin DOMAIN queue
  BY <1>6
<1>9. /\ pc' \in [Workers -> Places] /\ pc'[w] = "next" /\ todo'[w] = Tail(todo[w])
      /\ \A v \in Workers : v # w => pc'[v] = pc[v] /\ todo'[v] = todo[v] /\ verdict'[v] = verdict[v]
      /\ todo' \in [Workers -> Seq(Cases)]
  <2>1. "next" \in Places
    BY DEF Places
  <2>2. verdict \in [Workers -> Status \cup {None}]
    BY <1>0, Zenon DEF TypeOK, Status
  <2>3. pc' \in [Workers -> Places] /\ todo' \in [Workers -> Seq(Cases)]
    BY <1>1, <1>2, <1>4, <2>1, Zenon
  <2>4. pc'[w] = "next" /\ todo'[w] = Tail(todo[w])
    BY <1>1, <1>2, Zenon
  <2>5. \A v \in Workers : v # w => pc'[v] = pc[v] /\ todo'[v] = todo[v] /\ verdict'[v] = verdict[v]
    BY <1>1, <1>2, <2>2, Zenon
  <2> QED
    BY <2>3, <2>4, <2>5
<1>10. TypeOK'
  <2>1. verdict' \in [Workers -> Status \cup {None}]
    BY <1>0, <1>1, Zenon DEF TypeOK, Status
  <2> QED
    BY <1>0, <1>1, <1>6, <1>9, <2>1, Zenon DEF TypeOK, Places, Status
<1>11. AtHand'
  <2> SUFFICES ASSUME NEW v \in Workers
      PROVE /\ pc'[v] \in {"reboot", "write", "put"} => todo'[v] # <<>> /\ verdict'[v] \in Allowed(Job(v)')
            /\ pc'[v] = "put" => file[Job(v)'] = <<verdict'[v]>>
    BY <1>1 DEF AtHand
  <2>1. CASE v = w
    BY <1>9, <2>1
  <2>2. CASE v # w
    <3>1. Job(v)' = Job(v)
      BY <1>9, <2>2, Zenon DEF Job
    <3> QED
      BY <1>0, <1>9, <2>2, <3>1, Zenon DEF AtHand
  <2> QED
    BY <2>1, <2>2
\* What is still to do was to do before, and is not the case at hand.
<1>12. ASSUME NEW v \in Workers, NEW i \in DOMAIN todo'[v]
       PROVE  \E k \in DOMAIN todo[v] : /\ Todo(v, i)' = Todo(v, k)
                                        /\ k = IF v = w THEN i + 1 ELSE i
  <2>1. CASE v = w
    BY <1>4, <1>9, <2>1 DEF Todo
  <2>2. CASE v # w
    BY <1>9, <2>2, Zenon DEF Todo
  <2> QED
    BY <2>1, <2>2
<1>13. ASSUME NEW v \in Workers, NEW i \in DOMAIN todo'[v] PROVE Todo(v, i)' # J
  <2>1. PICK k \in DOMAIN todo[v] : Todo(v, i)' = Todo(v, k) /\ k = IF v = w THEN i + 1 ELSE i
    BY <1>12
  <2>2. v = w => k # 1
    BY <1>4, <1>9, <2>1
  <2>3. Todo(v, k) # Todo(w, 1)
    BY <1>0, <1>4, <2>2 DEF Disjoint
  <2> QED
    BY <1>4, <2>1, <2>3
<1>14. Disjoint'
  <2> SUFFICES ASSUME NEW v \in Workers, NEW u \in Workers,
                      NEW i \in DOMAIN todo'[v], NEW k \in DOMAIN todo'[u],
                      Todo(v, i)' = Todo(u, k)'
               PROVE v = u /\ i = k
    BY DEF Disjoint
  <2>1. PICK a \in DOMAIN todo[v] : Todo(v, i)' = Todo(v, a) /\ a = IF v = w THEN i + 1 ELSE i
    BY <1>12
  <2>2. PICK b \in DOMAIN todo[u] : Todo(u, k)' = Todo(u, b) /\ b = IF u = w THEN k + 1 ELSE k
    BY <1>12
  <2>3. Todo(v, a) = Todo(u, b)
    BY <2>1, <2>2
  <2>4. v = u /\ a = b
    BY <1>0, <2>3, SMT DEF Disjoint
  <2>5. i \in Int /\ k \in Int
    BY <1>9
  <2> QED
    BY <2>1, <2>2, <2>4, <2>5
<1>15. Unrecorded'
  <2> SUFFICES ASSUME NEW v \in Workers, NEW i \in DOMAIN todo'[v]
      PROVE file[Todo(v, i)'] = <<>> \/ (i = 1 /\ pc'[v] \in {"put", "gone"})
    BY <1>1 DEF Unrecorded
  <2>1. PICK k \in DOMAIN todo[v] : Todo(v, i)' = Todo(v, k) /\ k = IF v = w THEN i + 1 ELSE i
    BY <1>12
  <2>2. file[Todo(v, k)] = <<>> \/ (k = 1 /\ pc[v] \in {"put", "gone"})
    BY <1>0, Zenon DEF Unrecorded
  <2>3. v = w => k # 1
    BY <1>4, <1>9, <2>1
  <2> QED
    BY <1>9, <2>1, <2>2, <2>3
<1>16. Records'
  BY <1>0, <1>1, Zenon DEF Records, Recorded
<1>17. \A i \in DOMAIN queue : queue[i][1] # J
  BY <1>0, <1>4 DEF Messages
<1>18. Messages'
  <2>1. ASSUME NEW i \in DOMAIN queue' PROVE file[queue'[i][1]] = <<queue'[i][2]>>
    <3>1. CASE i = n + 1
      BY <1>3, <1>6, <3>1 DEF J
    <3>2. CASE i \in DOMAIN queue
      <4>1. queue'[i] = queue[i]
        BY <1>6, <3>2, Zenon
      <4> QED
        BY <1>0, <3>2, <4>1, Zenon DEF Messages
    <3> QED
      BY <1>7, <3>1, <3>2
  <2>2. ASSUME NEW i \in DOMAIN queue', NEW k \in DOMAIN queue', queue'[i][1] = queue'[k][1]
        PROVE i = k
    BY <1>0, <1>6, <1>7, <1>17, <2>2 DEF Messages
  <2>3. ASSUME NEW i \in DOMAIN queue', NEW v \in Workers, NEW k \in DOMAIN todo'[v]
        PROVE queue'[i][1] # Todo(v, k)'
    <3>1. CASE i = n + 1
      BY <1>6, <1>13, <3>1
    <3>2. CASE i \in DOMAIN queue
      <4>1. PICK a \in DOMAIN todo[v] : Todo(v, k)' = Todo(v, a)
        BY <1>12
      <4> QED
        BY <1>0, <1>6, <3>2, <4>1 DEF Messages
    <3> QED
      BY <1>7, <3>1, <3>2
  <2> QED
    BY <1>1, <2>1, <2>2, <2>3 DEF Messages
<1>19. ASSUME NEW s PROVE Told(s) \subseteq Told(s)'
  <2> SUFFICES ASSUME NEW j \in Told(s) PROVE j \in Told(s)'
    OBVIOUS
  <2>1. /\ j \in Jobs /\ file[j] = <<s>> /\ ~InQueue(j)
        /\ \A v \in Workers : pc[v] = "put" => Job(v) # j
    BY Zenon DEF Told
  <2>2. j # J
    BY <1>1, <2>1, Zenon DEF J
  <2>3. ~InQueue(j)'
    BY <1>6, <1>7, <2>1, <2>2 DEF InQueue
  <2>4. \A v \in Workers : pc'[v] = "put" => v # w /\ pc[v] = "put" /\ Job(v)' = Job(v)
    BY <1>9 DEF Job
  <2> QED
    BY <1>1, <2>1, <2>3, <2>4, Zenon DEF Told
<1>20. Counted'
  BY <1>0, <1>1, <1>19, CountsKeep
<1>21. Ending'
  BY <1>0, <1>1, <1>9, Zenon DEF Ending, Ended, AllGone
<1>22. Accounted'
  BY <1>0, <1>1, <1>9, Zenon DEF Accounted, OnlyConnections
<1> QED
  BY <1>10, <1>11, <1>14, <1>15, <1>16, <1>18, <1>20, <1>21, <1>22 DEF IInv

LEMMA QuitStep ==
  ASSUME IInv, NEW w \in Workers, Quit(w) PROVE IInv'
<1>0. TypeOK /\ Accounted /\ AtHand
  BY DEF IInv
<1>1. /\ pc[w] = "next" /\ pc' = [pc EXCEPT ![w] = "gone"]
      /\ UNCHANGED <<todo, m, package, orphans, verdict, file, queue, mainVars, faults>>
  BY Zenon DEF Quit
<1>2. pc \in [Workers -> Places] /\ "gone" \in Places \ {"put"}
  BY <1>0 DEF TypeOK, Places
<1>3. Disjoint' /\ Unrecorded' /\ Records' /\ Messages' /\ Counted' /\ Ending'
  BY <1>1, <1>2, QuietStep
<1>4. running \in [Workers -> SUBSET {"m", "package"}]
  BY <1>0, Zenon DEF TypeOK
<1>5. /\ running' \in [Workers -> SUBSET {"m", "package"}]
      /\ \A v \in Workers \ {w} : running'[v] = running[v]
      /\ running'[w] = {} \/ package[w] = "broken"
  <2>1. CASE running' = [running EXCEPT ![w] = @ \ stopped_at_end]
    <3>1. running[w] \ stopped_at_end = {}
      BY <1>4 DEF stopped_at_end
    <3> QED
      BY <1>4, <2>1, <3>1
  <2>2. CASE package[w] = "broken" /\ running' = [running EXCEPT ![w] = @ \ {"package"}]
    <3>1. running[w] \ {"package"} \in SUBSET {"m", "package"}
      BY <1>4
    <3> QED
      BY <1>4, <2>2, <3>1, Zenon
  <2> QED
    BY <2>1, <2>2, Zenon DEF Quit
<1>6. pc' \in [Workers -> Places] /\ pc'[w] = "gone" /\ \A v \in Workers : v # w => pc'[v] = pc[v]
  BY <1>1, <1>2, Zenon
<1>7. TypeOK'
  BY <1>0, <1>1, <1>5, <1>6, Zenon DEF TypeOK, mainVars, Places
<1>8. AtHand'
  BY <1>0, <1>1, <1>6, Zenon DEF AtHand, Job
<1>9. Accounted'
  BY <1>0, <1>1, <1>5, <1>6, Zenon DEF Accounted, OnlyConnections
<1> QED
  BY <1>3, <1>7, <1>8, <1>9 DEF IInv

\* Messages may be lost from the end.
LEMMA FewerMessages ==
  ASSUME Messages, file' = file, todo' = todo,
         \A i \in DOMAIN queue' : i \in DOMAIN queue /\ queue'[i] = queue[i]
  PROVE  Messages'
<1>1. \A i \in DOMAIN queue' : file'[queue'[i][1]] = <<queue'[i][2]>>
  BY Zenon DEF Messages
<1>2. ASSUME NEW i \in DOMAIN queue', NEW k \in DOMAIN queue', queue'[i][1] = queue'[k][1]
      PROVE  i = k
  <2>1. queue[i][1] = queue[k][1]
    BY <1>2
  <2> QED
    BY <2>1, Zenon DEF Messages
<1>3. ASSUME NEW i \in DOMAIN queue', NEW w \in Workers, NEW k \in DOMAIN todo'[w]
      PROVE  queue'[i][1] # Todo(w, k)'
  <2>1. i \in DOMAIN queue /\ queue'[i] = queue[i] /\ k \in DOMAIN todo[w]
    BY Zenon
  <2>2. queue[i][1] # Todo(w, k)
    BY <2>1, SMT DEF Messages
  <2> QED
    BY <2>1, <2>2, Zenon DEF Todo
<1> QED
  BY <1>1, <1>2, <1>3, Zenon DEF Messages

LEMMA KillStep ==
  ASSUME IInv, NEW w \in Workers, Kill(w) PROVE IInv'
<1>0. /\ TypeOK /\ AtHand /\ Disjoint /\ Unrecorded /\ Records /\ Messages
      /\ Counted /\ Ending /\ Accounted
  BY DEF IInv
<1>1. /\ pc[w] # "gone" /\ Fault("kill") /\ pc' = [pc EXCEPT ![w] = "gone"]
      /\ todo' = todo /\ m' = m /\ package' = package /\ running' = running
      /\ orphans' = orphans /\ verdict' = verdict /\ file' = file
      /\ counts' = counts /\ main' = main
  BY DEF Kill, mainVars
<1>2. pc \in [Workers -> Places] /\ "gone" \in Places
  BY <1>0 DEF TypeOK, Places
<1>3. faults' \in Seq(FaultKinds) /\ ~OnlyConnections'
  <2>1. "kill" \in FaultKinds /\ "kill" # "connection"
    BY DEF FaultKinds
  <2> QED
    BY <1>0, <1>1, <2>1, FaultStep
<1>4. queue \in Seq(Jobs \X Status)
  BY <1>0, Zenon DEF TypeOK, Status
<1>5. /\ queue' \in Seq(Jobs \X Status)
      /\ \A i \in DOMAIN queue' : i \in DOMAIN queue /\ queue'[i] = queue[i]
  <2>1. CASE queue' = queue
    BY <1>4, <2>1
  <2>2. CASE queue # <<>> /\ queue' = SubSeq(queue, 1, Len(queue) - 1)
    <3>1. Len(queue) \in Nat /\ DOMAIN queue = 1 .. Len(queue)
      BY <1>4
    <3>2. Len(queue) - 1 \in Int /\ \A i \in 1 .. (Len(queue) - 1) : queue[i] \in Jobs \X Status
      BY <1>4, <3>1
    <3>3. /\ queue' \in Seq(Jobs \X Status)
          /\ \A i \in 1 .. ((Len(queue) - 1) - 1 + 1) : queue'[i] = queue[1 + i - 1]
          /\ Len(queue') = IF 1 <= Len(queue) - 1 THEN (Len(queue) - 1) - 1 + 1 ELSE 0
      BY <2>2, <3>2, SubSeqProperties
    <3>4. DOMAIN queue' = 1 .. Len(queue')
      BY <3>3
    <3>5. DOMAIN queue' \subseteq 1 .. (Len(queue) - 1)
      <4>1. \A n \in Nat : \A k : k = (IF 1 <= n - 1 THEN (n - 1) - 1 + 1 ELSE 0)
                                => 1 .. k \subseteq 1 .. (n - 1)
        OBVIOUS
      <4> QED
        BY <3>1, <3>3, <3>4, <4>1, Zenon
    <3>6. ASSUME NEW i \in DOMAIN queue' PROVE i \in DOMAIN queue /\ queue'[i] = queue[i]
      <4>1. i \in 1 .. (Len(queue) - 1)
        BY <3>5
      <4>2. i \in 1 .. ((Len(queue) - 1) - 1 + 1) /\ 1 + i - 1 = i /\ i \in 1 .. Len(queue)
        BY <3>1, <4>1
      <4> QED
        BY <3>1, <3>3, <4>2
    <3> QED
      BY <3>3, <3>6
  <2> QED
    BY <2>1, <2>2, Zenon DEF Kill
<1>6. pc' \in [Workers -> Places] /\ pc'[w] = "gone" /\ \A v \in Workers : v # w => pc'[v] = pc[v]
  BY <1>1, <1>2, Zenon
<1>7. TypeOK'
  BY <1>0, <1>1, <1>3, <1>5, <1>6, Zenon DEF TypeOK, Places, Status, FaultKinds
<1>8. AtHand'
  BY <1>0, <1>1, <1>6, Zenon DEF AtHand, Job
<1>9. Disjoint'
  BY <1>0, <1>1, SameTodo
<1>10. Unrecorded'
  BY <1>0, <1>1, <1>6 DEF Unrecorded, Todo
<1>11. Records'
  BY <1>0, <1>1, Zenon DEF Records, Recorded
<1>12. Messages'
  BY <1>0, <1>1, <1>5, FewerMessages, Zenon
<1>13. ASSUME NEW s PROVE Told(s) \subseteq Told(s)'
  BY <1>1, <1>5, <1>6 DEF Told, InQueue, Job
<1>14. Counted'
  BY <1>0, <1>1, <1>13, CountsKeep
<1>15. Ending'
  BY <1>0, <1>1, Zenon DEF Ending, Ended, AllGone
<1>16. Accounted'
  BY <1>3, Zenon DEF Accounted
<1> QED
  BY <1>7, <1>8, <1>9, <1>10, <1>11, <1>12, <1>14, <1>15, <1>16 DEF IInv

\* The main process receives a message: one more case that was told of.
LEMMA GetStep ==
  ASSUME IInv, Get PROVE IInv'
<1>0. /\ TypeOK /\ AtHand /\ Disjoint /\ Unrecorded /\ Records /\ Messages
      /\ Counted /\ Ending /\ Accounted
  BY DEF IInv
<1>1. /\ main = "get" /\ queue # <<>>
      /\ counts' = [counts EXCEPT ![Head(queue)[2]] = @ + 1] /\ queue' = Tail(queue)
      /\ pc' = pc /\ todo' = todo /\ m' = m /\ package' = package /\ running' = running
      /\ orphans' = orphans /\ verdict' = verdict /\ file' = file
      /\ main' = main /\ faults' = faults
  BY DEF Get, workerVars
<1>2. queue \in Seq(Jobs \X Status) /\ counts \in [Status -> Nat]
  BY <1>0, Zenon DEF TypeOK, Status
<1>3. /\ Head(queue) \in Jobs \X Status /\ Head(queue) = queue[1]
      /\ queue' \in Seq(Jobs \X Status) /\ Len(queue') = Len(queue) - 1
      /\ \A i \in 1 .. Len(queue') : queue'[i] = queue[i + 1]
  BY <1>1, <1>2, HeadTailProperties
<1>4. /\ 1 \in DOMAIN queue
      /\ \A i \in DOMAIN queue' : /\ i \in Int /\ i + 1 # 1
                                  /\ i + 1 \in DOMAIN queue /\ queue'[i] = queue[i + 1]
  <2>1. Len(queue) \in Nat /\ Len(queue) # 0 /\ DOMAIN queue = 1 .. Len(queue)
    BY <1>1, <1>2, EmptySeq, LenProperties
  <2>2. DOMAIN queue' = 1 .. Len(queue')
    BY <1>3
  <2> QED
    BY <1>3, <2>1, <2>2
<1>5. PICK J \in Jobs, t \in Status : queue[1] = <<J, t>>
  BY <1>3
<1>6. queue[1][1] = J /\ queue[1][2] = t /\ Head(queue)[2] = t
  BY <1>3, <1>5
<1>7. /\ counts' \in [Status -> Nat] /\ counts'[t] = counts[t] + 1
      /\ \A s \in Status : s # t => counts'[s] = counts[s]
  BY <1>1, <1>2, <1>6
<1>8. TypeOK'
  BY <1>0, <1>1, <1>3, <1>7, Zenon DEF TypeOK, Status
<1>9. AtHand'
  BY <1>0, <1>1, Zenon DEF AtHand, Job
<1>10. Disjoint'
  BY <1>0, <1>1, SameTodo
<1>11. Unrecorded'
  BY <1>0, <1>1 DEF Unrecorded, Todo
<1>12. Records'
  BY <1>0, <1>1, Zenon DEF Records, Recorded
<1>13. Messages'
  <2>1. \A i, k \in Int : i + 1 = k + 1 => i = k
    OBVIOUS
  <2>2. ASSUME NEW i \in DOMAIN queue', NEW k \in DOMAIN queue', queue'[i][1] = queue'[k][1]
        PROVE i = k
    BY <1>0, <1>4, <2>1, <2>2 DEF Messages
  <2>3. \A i \in DOMAIN queue' : file'[queue'[i][1]] = <<queue'[i][2]>>
    BY SMTT(60), <1>0, <1>1, <1>4, Zenon DEF Messages
  <2>4. ASSUME NEW i \in DOMAIN queue', NEW w \in Workers, NEW k \in DOMAIN todo'[w]
        PROVE  queue'[i][1] # Todo(w, k)'
    <3>1. queue[i + 1][1] # Todo(w, k)
      BY <1>0, <1>1, <1>4, Zenon DEF Messages
    <3> QED
      BY <1>1, <1>4, <3>1 DEF Todo
  <2> QED
    BY <2>2, <2>3, <2>4, Zenon DEF Messages
<1>14. /\ file[J] = <<t>> /\ ~InQueue(J)' /\ InQueue(J)
       /\ \A v \in Workers : pc[v] = "put" => Job(v) # J
  <2>1. file[J] = <<t>> /\ InQueue(J)
    BY <1>0, <1>4, <1>6, Zenon DEF Messages, InQueue
  <2>2. ASSUME NEW i \in DOMAIN queue' PROVE queue'[i][1] # J
    BY <1>0, <1>4, <1>6 DEF Messages
  <2>3. ASSUME NEW v \in Workers, pc[v] = "put" PROVE Job(v) # J
    <3>1. todo[v] # <<>>
      BY <1>0, <2>3, Zenon DEF AtHand
    <3>2. 1 \in DOMAIN todo[v] /\ Job(v) = Todo(v, 1)
      BY <1>0, <3>1, HeadJob, Zenon
    <3> QED
      BY <1>0, <1>4, <1>6, <3>2 DEF Messages
  <2> QED
    BY <2>1, <2>2, <2>3, Zenon DEF InQueue
<1>15. \A s : Told(s) \subseteq Told(s)'
  BY <1>1, <1>4 DEF Told, InQueue, Job
<1>16. J \notin Told(t) /\ J \in Told(t)'
  BY <1>1, <1>14 DEF Told, Job
<1>17. Counted'
  <2> SUFFICES ASSUME NEW s \in Status PROVE counts'[s] <= Cardinality(Told(s)')
    BY DEF Counted
  <2>1. Told(s)' \subseteq Jobs /\ Told(s) \subseteq Jobs
    BY DEF Told
  <2>2. IsFiniteSet(Told(s)') /\ IsFiniteSet(Told(s))
    BY <2>1, JobsFinite, FS_Subset
  <2>3. Cardinality(Told(s)') \in Nat /\ Cardinality(Told(s)) \in Nat
    BY <2>2, FS_CardinalityType
  <2>4. counts[s] \in Nat /\ counts[s] <= Cardinality(Told(s))
    BY <1>0, <1>2, Zenon DEF Counted
  <2>5. CASE s = t
    <3>1. Cardinality(Told(s) \cup {J}) = Cardinality(Told(s)) + 1
      BY <1>16, <2>2, <2>5, FS_AddElement
    <3>2. Told(s) \cup {J} \in SUBSET Told(s)'
      BY <1>15, <1>16, <2>5
    <3>3. Cardinality(Told(s) \cup {J}) <= Cardinality(Told(s)')
      BY <2>2, <3>2, FS_Subset
    <3> QED
      BY <1>7, <2>3, <2>4, <2>5, <3>1, <3>3
  <2>6. CASE s # t
    <3>1. Cardinality(Told(s)) <= Cardinality(Told(s)')
      BY <1>15, <2>2, FS_Subset
    <3> QED
      BY <1>7, <2>3, <2>4, <2>6, <3>1
  <2> QED
    BY <2>5, <2>6
<1>18. Ending'
  BY <1>1 DEF Ending, Ended
<1>19. Accounted'
  BY <1>0, <1>1, Zenon DEF Accounted, OnlyConnections
<1> QED
  BY <1>8, <1>9, <1>10, <1>11, <1>12, <1>13, <1>17, <1>18, <1>19 DEF IInv

\* Only the main process moves.
LEMMA MainStep ==
  ASSUME IInv, UNCHANGED <<workerVars, queue, counts, faults>>,
         main' \in {"get", "timed out", "join", "exit 0", "exit 1"}, Ending'
  PROVE  IInv'
<1>1. /\ pc' = pc /\ todo' = todo /\ m' = m /\ package' = package /\ running' = running
      /\ orphans' = orphans /\ verdict' = verdict /\ file' = file /\ queue' = queue
      /\ counts' = counts /\ faults' = faults
  BY DEF workerVars
<1>2. TypeOK'
  BY <1>1, Zenon DEF IInv, TypeOK
<1>3. AtHand'
  BY <1>1, Zenon DEF IInv, AtHand, Job
<1>4. Disjoint'
  BY <1>1, SameTodo DEF IInv
<1>5. Unrecorded'
  BY <1>1 DEF IInv, Unrecorded, Todo
<1>6. Records'
  BY <1>1, Zenon DEF IInv, Records, Recorded
<1>7. Messages'
  <2>1. Messages /\ \A i \in DOMAIN queue' : i \in DOMAIN queue /\ queue'[i] = queue[i]
    BY <1>1, Zenon DEF IInv
  <2> QED
    BY <1>1, <2>1, FewerMessages, Zenon
<1>8. \A s : Told(s)' = Told(s)
  BY <1>1, Zenon DEF Told, InQueue, Job
<1>9. Counted'
  BY <1>1, <1>8, Zenon DEF IInv, Counted
<1>10. Accounted'
  BY <1>1, Zenon DEF IInv, Accounted, OnlyConnections
<1> QED
  BY <1>2, <1>3, <1>4, <1>5, <1>6, <1>7, <1>9, <1>10 DEF IInv

LEMMA JoinStep ==
  ASSUME IInv, Join PROVE IInv'
<1>1. main' = exit_status /\ AllGone /\ UNCHANGED <<workerVars, queue, counts, faults>>
  BY Zenon DEF Join
<1>2. main' \in {"exit 0", "exit 1"}
  BY <1>1 DEF exit_status
<1>3. AllGone' /\ done' = done /\ counts' = counts
  BY <1>1 DEF AllGone, workerVars, done
<1>4. main' = "exit 0" => ~(done < total) /\ ~(\E s \in Bad : counts[s] > 0)
  BY <1>1 DEF exit_status
<1>5. /\ \A s \in Status : counts[s] \in Nat
      /\ total \in Nat
  <2>1. counts \in [Status -> Nat]
    BY Zenon DEF IInv, TypeOK, Status
  <2> QED
    BY <2>1, JobsFinite, FS_CardinalityType
<1>6. done \in Nat
  BY <1>5 DEF done, Status, Good, Bad
<1>7. main' = "exit 0" => done >= total
  <2>1. \A a, b \in Nat : ~(a < b) => a >= b
    OBVIOUS
  <2> QED
    BY <1>4, <1>5, <1>6, <2>1, Zenon
<1>8. main' = "exit 0" => \A s \in Bad : counts[s] = 0
  <2>1. \A a \in Nat : ~(a > 0) => a = 0
    OBVIOUS
  <2> QED
    BY <1>4, <1>5, <2>1, Zenon DEF Status
<1>9. Ending'
  <2>1. total' = total
    BY DEF total
  <2> QED
    BY <1>3, <1>7, <1>8, <2>1 DEF Ending
<1> QED
  BY <1>1, <1>2, <1>9, MainStep

-----------------------------------------------------------------------------
LEMMA InitIInv == Init => IInv
<1> SUFFICES ASSUME Init PROVE IInv
  OBVIOUS
<1>1. /\ pc = [w \in Workers |-> "boot"] /\ todo = [w \in Workers |-> ids_of(w[2])]
      /\ m = [w \in Workers |-> None] /\ package = [w \in Workers |-> None]
      /\ running = [w \in Workers |-> {}] /\ orphans = [w \in Workers |-> 0]
      /\ verdict = [w \in Workers |-> None]
      /\ file = [j \in Jobs |-> <<>>] /\ queue = <<>>
      /\ counts = [s \in Status |-> 0] /\ main = "get" /\ faults = <<>>
  BY DEF Init, Status
<1>2. \A w \in Workers : w[1] \in Cfgs /\ w[2] \in 0 .. PerCfg - 1 /\ w = <<w[1], w[2]>>
  BY WorkerIsPair
<1>3. TypeOK
  <2>1. todo \in [Workers -> Seq(Cases)]
    BY <1>1, <1>2, ShareOfIds, Zenon
  <2>2. /\ <<>> \in Seq(Status) /\ <<>> \in Seq(FaultKinds) /\ <<>> \in Seq(Jobs \X Status)
        /\ 0 \in Nat /\ "boot" \in Places /\ None \in Machine
    BY DEF Places, Machine
  <2>3. "get" \in {"get", "timed out", "join", "exit 0", "exit 1"}
    OBVIOUS
  <2> QED
    BY <1>1, <2>1, <2>2, <2>3, Zenon DEF TypeOK, Places, Status, FaultKinds
<1>4. AtHand
  BY <1>1 DEF AtHand
<1>5. Disjoint
  <2> SUFFICES ASSUME NEW w \in Workers, NEW v \in Workers,
                      NEW i \in DOMAIN todo[w], NEW k \in DOMAIN todo[v],
                      Todo(w, i) = Todo(v, k)
               PROVE  w = v /\ i = k
    BY DEF Disjoint
  <2>1. todo[w] = ids_of(w[2]) /\ todo[v] = ids_of(v[2])
    BY <1>1
  <2>2. w[1] = v[1] /\ ids_of(w[2])[i] = ids_of(v[2])[k]
    BY <2>1 DEF Todo
  <2>3. /\ w[2] \in 0 .. PerCfg - 1 /\ v[2] \in 0 .. PerCfg - 1
        /\ i \in DOMAIN ids_of(w[2]) /\ k \in DOMAIN ids_of(v[2])
    BY <1>2, <2>1, Zenon
  <2>4. w[2] = v[2] /\ i = k
    BY <2>2, <2>3, SharesAreDisjoint
  <2> QED
    BY <1>2, <2>2, <2>4, Zenon
<1>6. \A w \in Workers : \A i \in DOMAIN todo[w] : Todo(w, i) \in Jobs
  <2> SUFFICES ASSUME NEW w \in Workers, NEW i \in DOMAIN todo[w] PROVE Todo(w, i) \in Jobs
    OBVIOUS
  <2>1. todo[w] \in Seq(Cases)
    BY <1>3, Zenon DEF TypeOK
  <2>2. todo[w][i] \in Cases
    BY <2>1
  <2> QED
    BY <1>2, <2>2, Zenon DEF Todo, Jobs
<1>7. Unrecorded /\ Records
  BY <1>1, <1>6, Zenon DEF Unrecorded, Records, Recorded
<1>8. Messages
  BY <1>1 DEF Messages
<1>9. Counted
  <2> SUFFICES ASSUME NEW s \in Status PROVE counts[s] <= Cardinality(Told(s))
    BY DEF Counted
  <2>1. counts[s] = 0 /\ Cardinality(Told(s)) \in Nat
    BY <1>1, ToldIsFinite
  <2> QED
    BY <2>1
<1>10. Ending
  BY <1>1 DEF Ending, Ended
<1>11. Accounted
  BY <1>1 DEF Accounted, None
<1> QED
  BY <1>3, <1>4, <1>5, <1>7, <1>8, <1>9, <1>10, <1>11 DEF IInv

LEMMA NextIInv == IInv /\ [Next]_vars => IInv'
<1> SUFFICES ASSUME IInv, [Next]_vars PROVE IInv'
  OBVIOUS
<1>0. main \in {"get", "timed out", "join", "exit 0", "exit 1"}
  BY DEF IInv, TypeOK
<1>1. CASE Get
  BY <1>1, GetStep
<1>2. CASE Timeout
  <2>1. main' = "timed out" /\ UNCHANGED <<workerVars, queue, counts, faults>>
    BY <1>2, Zenon DEF Timeout
  <2>2. Ending'
    BY <2>1 DEF Ending, Ended
  <2> QED
    BY <2>1, <2>2, MainStep
<1>3. CASE LookAtWorkers
  <2>1. main' \in {"get", "join"} /\ UNCHANGED <<workerVars, queue, counts, faults>>
    BY <1>3 DEF LookAtWorkers, after_timeout
  <2>2. Ending'
    BY <2>1 DEF Ending, Ended
  <2> QED
    BY <2>1, <2>2, MainStep
<1>4. CASE AllDone
  <2>1. main' = "join" /\ UNCHANGED <<workerVars, queue, counts, faults>>
    BY <1>4, Zenon DEF AllDone
  <2>2. Ending'
    BY <2>1 DEF Ending, Ended
  <2> QED
    BY <2>1, <2>2, MainStep
<1>5. CASE Join
  BY <1>5, JoinStep
<1>6. CASE UNCHANGED vars
  <2>1. UNCHANGED <<workerVars, queue, counts, faults>> /\ main' = main
    BY <1>6 DEF vars, mainVars
  <2>2. Ending'
    BY <2>1 DEF IInv, Ending, Ended, AllGone, workerVars, done, total
  <2> QED
    BY <1>0, <2>1, <2>2, MainStep
<1>7. ASSUME NEW w \in Workers, Worker(w) \/ Kill(w) PROVE IInv'
  <2>1. CASE Boot(w)
    BY <2>1, BootStep
  <2>2. CASE RunCase(w)
    BY <2>2, RunStep
  <2>3. CASE Reboot(w)
    BY <2>3, RebootStep
  <2>4. CASE WriteRecord(w)
    BY <2>4, WriteRecordStep
  <2>5. CASE Put(w)
    BY <2>5, PutStep
  <2>6. CASE Quit(w)
    BY <2>6, QuitStep
  <2>7. CASE Kill(w)
    BY <2>7, KillStep
  <2> QED
    BY <1>7, <2>1, <2>2, <2>3, <2>4, <2>5, <2>6, <2>7, Zenon DEF Worker
<1> QED
  BY <1>1, <1>2, <1>3, <1>4, <1>5, <1>6, <1>7, Zenon DEF Next, Main, Finished

THEOREM Inductive == Spec => []IInv
  BY InitIInv, NextIInv, PTL DEF Spec

\* The runner's variables keep their types, whatever faults occur.
THEOREM TypeCorrect == Spec => []TypeOK
<1>1. IInv => TypeOK
  BY DEF IInv
<1> QED
  BY <1>1, Inductive, PTL

\* The records of a status: at least as many as the main process has counted.
RecordedAs(s) == {j \in Jobs : file[j] = <<s>>}
LEMMA CountedIsRecorded ==
  ASSUME IInv, NEW s \in Status
  PROVE  /\ IsFiniteSet(RecordedAs(s)) /\ counts[s] \in Nat
         /\ Cardinality(RecordedAs(s)) \in Nat /\ counts[s] <= Cardinality(RecordedAs(s))
<1>1. RecordedAs(s) \subseteq Jobs /\ Told(s) \in SUBSET RecordedAs(s)
  BY DEF RecordedAs, Told
<1>2. IsFiniteSet(RecordedAs(s))
  BY <1>1, JobsFinite, FS_Subset
<1>3. /\ Cardinality(Told(s)) <= Cardinality(RecordedAs(s))
      /\ Cardinality(RecordedAs(s)) \in Nat /\ Cardinality(Told(s)) \in Nat
  BY <1>1, <1>2, FS_Subset, FS_CardinalityType, ToldIsFinite
<1>4. counts[s] \in Nat /\ counts[s] <= Cardinality(Told(s))
  BY DEF IInv, TypeOK, Counted, Status
<1> QED
  BY <1>2, <1>3, <1>4

\* One case, one record (qrun.py, manual_run.py): for any split of the cases over any
\* number of workers, no case is recorded twice, a message says what the record says, and
\* no status is counted more often than it was recorded.
THEOREM OneRecord == Spec => []OneRecordPerCase
<1>1. ASSUME IInv PROVE OneRecordPerCase
  <2>1. ASSUME NEW j \in Jobs PROVE Len(file[j]) <= 1
    <3>1. file[j] = <<>> \/ \E s : file[j] = <<s>>
      BY <1>1, Zenon DEF IInv, Records, Recorded
    <3>2. Len(file[j]) = 0 \/ Len(file[j]) = 1
      BY <3>1, RecordLength, Zenon
    <3>3. 0 <= 1 /\ 1 <= 1
      OBVIOUS
    <3> QED
      BY <3>2, <3>3, Zenon
  <2>2. \A i \in DOMAIN queue : file[queue[i][1]] = <<queue[i][2]>>
    BY <1>1, Zenon DEF IInv, Messages
  <2>3. \A s \in Good \cup Bad : counts[s] <= Cardinality({j \in Jobs : file[j] = <<s>>})
    BY <1>1, CountedIsRecorded, Zenon DEF RecordedAs, Status
  <2> QED
    BY <2>1, <2>2, <2>3 DEF OneRecordPerCase
<1> QED
  BY <1>1, Inductive, PTL

\* Exit status 0 is earned: it takes a full count of good records, and a full count of
\* distinct cases is all of them.
THEOREM ExitZero == Spec => []ExitZeroIsEarned
<1>1. ASSUME IInv, main = "exit 0" PROVE \A j \in Jobs : \E s \in Good : file[j] = <<s>>
  <2> DEFINE P == RecordedAs("PASS")
  <2> DEFINE X == RecordedAs("XFAIL")
  <2> DEFINE N == RecordedAs("N/A")
  <2>1. /\ done >= total /\ counts["FAIL"] = 0 /\ counts["XPASS"] = 0 /\ counts["BLOCKED"] = 0
    BY <1>1 DEF IInv, Ending, Bad
  <2>2. /\ IsFiniteSet(P) /\ counts["PASS"] \in Nat
        /\ Cardinality(P) \in Nat /\ counts["PASS"] <= Cardinality(P)
    BY <1>1, CountedIsRecorded DEF Status, Good
  <2>3. /\ IsFiniteSet(X) /\ counts["XFAIL"] \in Nat
        /\ Cardinality(X) \in Nat /\ counts["XFAIL"] <= Cardinality(X)
    BY <1>1, CountedIsRecorded DEF Status, Good
  <2>4. /\ IsFiniteSet(N) /\ counts["N/A"] \in Nat
        /\ Cardinality(N) \in Nat /\ counts["N/A"] <= Cardinality(N)
    BY <1>1, CountedIsRecorded DEF Status, Good
  <2>5. P \cap X = {} /\ (P \cup X) \cap N = {}
    BY DEF RecordedAs
  <2>6. P \cup X \cup N \in SUBSET Jobs
    BY DEF RecordedAs
  <2> HIDE DEF P, X, N
  <2>7. IsFiniteSet(P \cup X) /\ Cardinality(P \cup X) = Cardinality(P) + Cardinality(X)
    <3>1. Cardinality(P \cap X) = 0
      BY <2>5, FS_EmptySet
    <3> QED
      BY <2>2, <2>3, <3>1, FS_Union
  <2>8. /\ IsFiniteSet(P \cup X \cup N)
        /\ Cardinality(P \cup X \cup N) = Cardinality(P) + Cardinality(X) + Cardinality(N)
    <3>1. Cardinality((P \cup X) \cap N) = 0
      BY <2>5, FS_EmptySet
    <3>2. /\ IsFiniteSet((P \cup X) \cup N)
          /\ Cardinality((P \cup X) \cup N) = Cardinality(P \cup X) + Cardinality(N) - 0
      BY <2>4, <2>7, <3>1, FS_Union
    <3> QED
      BY <2>2, <2>3, <2>4, <2>7, <3>2
  <2>9. Cardinality(Jobs) = total /\ IsFiniteSet(Jobs) /\ Cardinality(Jobs) \in Nat
    BY JobsFinite, FS_CardinalityType
  <2>10. Cardinality(P \cup X \cup N) <= Cardinality(Jobs)
    BY <2>6, <2>9, FS_Subset
  <2>11. done = counts["PASS"] + counts["XFAIL"] + counts["N/A"]
    BY <2>1, <2>2, <2>3, <2>4 DEF done
  <2>12. Cardinality(P \cup X \cup N) = Cardinality(Jobs)
    <3>1. \A a, b, c, p, x, n, t \in Nat :
            /\ a <= p /\ b <= x /\ c <= n
            /\ a + b + c >= t /\ p + x + n <= t
            => p + x + n = t
      OBVIOUS
    <3>2. counts["PASS"] + counts["XFAIL"] + counts["N/A"] >= total
      BY <2>1, <2>11
    <3>3. Cardinality(P) + Cardinality(X) + Cardinality(N) <= total
      BY <2>8, <2>9, <2>10
    <3>4. Cardinality(P) + Cardinality(X) + Cardinality(N) = total
      BY <2>2, <2>3, <2>4, <2>9, <3>1, <3>2, <3>3, Zenon
    <3> QED
      BY <2>8, <2>9, <3>4
  <2>13. P \cup X \cup N = Jobs
    BY <2>6, <2>9, <2>12, FS_Subset
  <2> QED
    BY <2>13 DEF P, X, N, RecordedAs, Good
<1>2. ASSUME IInv PROVE ExitZeroIsEarned
  <2> SUFFICES ASSUME main = "exit 0", NEW j \in Jobs
               PROVE  /\ Len(file[j]) = 1
                      /\ file[j][1] \in CASE j \in NotFor -> {"N/A"}
                                          [] j \in Known \ NotFor -> {"XFAIL"}
                                          [] OTHER -> {"PASS", "XFAIL"}
    BY DEF ExitZeroIsEarned
  <2>1. PICK s \in Good : file[j] = <<s>>
    BY <1>1, <1>2
  <2>2. Len(file[j]) = 1 /\ file[j][1] = s
    BY <2>1, RecordLength, Zenon
  <2>3. file[j] # <<>>
    BY <2>1, RecordIsNotEmpty
  <2>4. PICK t \in Allowed(j) : file[j] = <<t>>
    BY <1>2, <2>3, Zenon DEF IInv, Records, Recorded
  <2>5. s = t
    BY <2>1, <2>4, RecordIsItsStatus
  <2>6. s \in Good /\ s \in Allowed(j)
    BY <2>4, <2>5
  <2> QED
    BY <2>2, <2>6 DEF Good, Allowed
<1> QED
  BY <1>2, Inductive, PTL

\* No emulator is left behind by a run in which nothing but connections failed: every
\* reboot stops the machine it replaces, and the end stops both machines.
THEOREM NothingLeft == Spec => []NothingLeftRunning
<1>1. IInv => NothingLeftRunning
  BY DEF IInv, NothingLeftRunning, Ending, AllGone, Accounted, OnlyConnections
<1> QED
  BY <1>1, Inductive, PTL
=============================================================================
