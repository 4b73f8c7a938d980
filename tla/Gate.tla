--------------------------------- MODULE Gate ---------------------------------
(***************************************************************************)
(* The production gate (run_v2_prod_tests.sh) and the qualification runs    *)
(* (make qual): each case of the suites, on a machine of its own.  For the  *)
(* first the machine is LeapMachine with LeapTape, for the second Compiler  *)
(* and VM; what the cases expect is translated from the suites' Python.     *)
(***************************************************************************)
EXTENDS Production

Arrays == INSTANCE ProdArrays
Regress == INSTANCE ProdRegress
SaveAllSuite == INSTANCE ProdSaveAll
CodeSuite == INSTANCE ProdCode
Suites == [arrays |-> Arrays!cases, gate |-> Regress!cases, saveall |-> SaveAllSuite!cases, code |-> CodeSuite!cases]

\* The qualification corpus in its groups, and the scenarios of the session.
Tests == INSTANCE Corpus
Edges == INSTANCE VmEdge
Corpora == [numbers |-> Tests!NumberCases, screen |-> Tests!ScreenCases, programs |-> Tests!ProgramCases,
            limits |-> Tests!LimitCases, edges |-> Edges!cases]
Life == INSTANCE Lifecycle

\* A suite started with one case selected: its exit status; no case is marked as a known defect.
run_suite(verdicts, case) == run_cases(case :> verdicts[case], {}).exit
=============================================================================
