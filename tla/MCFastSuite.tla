---------------------------- MODULE MCFastSuite -----------------------------
(***************************************************************************)
(* Five fixtures in three harness ROMs, each leaving any border; one        *)
(* debugger command fails at any point.                                    *)
(***************************************************************************)
EXTENDS FastSuite

MCFixtures == <<"err1", "fill", "gfx4", "hit_new_clear", "hit_unloaded">>
=============================================================================
