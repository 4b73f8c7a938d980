----------------------------- MODULE MCSession -----------------------------
(***************************************************************************)
(* Small instances of Session: a pool of ten bytes and a segment 2 of three, *)
(* so that every border meets every other one.                             *)
(***************************************************************************)
EXTENDS Session

\* A session of a one-line program with a one-byte store and an array in the
\* arena; one saved after a RUN whose tables did not fit; and one whose program
\* shrank under it.
SavedTape(p, b, e, n, t, s, s2) ==
  [PROG_END |-> p, SYM_BASE_V |-> b, SYM_END_V |-> e, SESS_ARENA_BASE |-> e + SESS_GAP + 1,
   ARRAYS_END |-> e + SESS_GAP + 1 + n, VM_CSP |-> TableBase(t), RT_SYMTAB_PTR |-> TableBase(t),
   tab |-> t, PAS_END |-> s, ARR2_END |-> s2, ARRSYM |-> t > 0,
   carved |-> e + SESS_GAP + 1 + n <= TableBase(t)]

MCTapes ==
  LET line == PROG_AREA_START + 3 IN
  { SavedTape(line, line, line + 1, 1, 1, ARR2_BASE + 1, ARR2_BASE + 1),
    SavedTape(line + 3, line + 3, line + 4, 0, 1, ARR2_BASE + 1, ARR2_BASE),
    SavedTape(PROG_AREA_START, line, line, 0, 0, ARR2_BASE, ARR2_BASE) }
=============================================================================
