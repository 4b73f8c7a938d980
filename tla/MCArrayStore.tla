---------------------------- MODULE MCArrayStore ----------------------------
(***************************************************************************)
(* A segment of seven cells: an entry of two elements and one of one fit,  *)
(* two of two elements do not; the arena holds one array.                  *)
(***************************************************************************)
EXTENDS ArrayStore
=============================================================================
