------------------------------ MODULE ArrayMap ------------------------------
(***************************************************************************)
(* Arrays as a program and its user know them, with no addresses: stored   *)
(* arrays that live until NEW or a LOAD of the same name, and ordinary     *)
(* arrays that live until the next RUN.  A name never has both.            *)
(* The abstract counterpart of ArrayStore.                                 *)
(***************************************************************************)
EXTENDS Integers

CONSTANTS
  Names,
  Bodies,   \* what a tape can bring
  Fresh,    \* what a DIM can leave
  None

VARIABLES
  stored,    \* the Array Store: name -> elements, or None
  ordinary   \* arrays made by DIM since the last RUN: name -> elements, or None

vars == <<stored, ordinary>>

Nothing == [n \in Names |-> None]

\* RUN, CLEAR, an edit, a LOAD that fails: ordinary arrays go, stored ones stay.
Discard == ordinary' = Nothing /\ UNCHANGED stored

\* LOAD ... ARRAY: one entry is new or replaced as a whole, the others stay.
Load ==
  /\ \E n \in Names, b \in Bodies : stored' = [stored EXCEPT ![n] = b]
  /\ ordinary' = Nothing

\* DIM of a name that is not stored: a fresh array.
Make ==
  /\ \E n \in Names, z \in Fresh :
       stored[n] = None /\ ordinary' = [ordinary EXCEPT ![n] = z]
  /\ UNCHANGED stored

\* An assignment changes one element of one array, wherever it lives.
OneElement(old, new) ==
  \E n \in Names :
    /\ old[n] # None /\ new[n] # None
    /\ DOMAIN new[n] = DOMAIN old[n]
    /\ \E i \in DOMAIN old[n] : \A j \in DOMAIN old[n] \ {i} : new[n][j] = old[n][j]
    /\ \A m \in Names \ {n} : new[m] = old[m]

Assign ==
  \/ OneElement(stored, stored') /\ UNCHANGED ordinary
  \/ OneElement(ordinary, ordinary') /\ UNCHANGED stored

New == stored' = Nothing /\ ordinary' = Nothing

Init == stored = Nothing /\ ordinary = Nothing

Next == Discard \/ Load \/ Make \/ Assign \/ New

Spec == Init /\ [][Next]_vars
=============================================================================
