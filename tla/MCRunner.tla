------------------------------ MODULE MCRunner ------------------------------
(***************************************************************************)
(* Two workers share four cases.  In the first instance one worker has two  *)
(* cases of the same package and the other a tape case and one that is not  *)
(* applicable; in the second (qrun.py) every case runs on the worker's own  *)
(* machine.                                                                *)
(***************************************************************************)
EXTENDS Runner

MCIds == <<"package", "tape", "package again", "other">>
MCKind == [i \in Cases |-> CASE i = "tape" -> "tape" [] i = "other" -> "run" [] OTHER -> "package"]
MCNotFor == {<<"enhanced", "other">>}
MCKnown == {<<"enhanced", "tape">>}

RunIds == <<"plain", "known", "again", "other">>
RunKind == [i \in Cases |-> "run"]
RunKnown == {<<"enhanced", "known">>}
=============================================================================
