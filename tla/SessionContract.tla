-------------------------- MODULE SessionContract --------------------------
(***************************************************************************)
(* What a variable session promises its user, with no addresses in it:     *)
(* the names, tables and arrays of the last RUN stay as the program left    *)
(* them until something replaces or discards them as a whole; an immediate *)
(* statement adds names or does nothing at all; and the Array Store never   *)
(* changes under a live session.  The abstract counterpart of Session.     *)
(***************************************************************************)
EXTENDS Integers

CONSTANTS Saved      \* the sessions on the SAVE ... ALL tapes, with their stores

VARIABLES
  live,      \* TRUE while there is a session
  session,   \* the sizes of what it holds
  store      \* bytes in the Array Store

vars == <<live, session, store>>

Sessions == [names : Nat, tables : Nat, arena : Nat, overflow : Nat]

\* RUN, or the first immediate statement or SAVE ... ALL: everything fresh.
StartSession ==
  /\ live' = TRUE /\ session' \in Sessions
  /\ session'.arena = 0 /\ session'.overflow = 0
  /\ UNCHANGED store

\* An immediate statement that was accepted brings its new names with it.
AcceptStatement ==
  /\ live /\ live' /\ session' \in Sessions
  /\ session.names <= session'.names /\ session.tables <= session'.tables
  /\ session'.arena = session.arena /\ session'.overflow = session.overflow
  /\ UNCHANGED store

\* Bytecode makes arrays or clears them; it declares nothing.
UseArrays ==
  /\ live /\ live' /\ session' \in Sessions
  /\ session'.names = session.names /\ session'.tables = session.tables
  /\ UNCHANGED store

\* An edit, a LOAD, NEW: no session, and only now may the store change.
EndSession ==
  /\ live' = FALSE
  /\ store' \in Nat

\* LOAD of a SAVE ... ALL tape: a whole saved session and its whole store.
RestoreSaved ==
  /\ live' = TRUE
  /\ \E s \in Saved : session' = s.session /\ store' = s.store

Init == live = FALSE /\ store = 0

Next == StartSession \/ AcceptStatement \/ UseArrays \/ EndSession \/ RestoreSaved

Spec == Init /\ [][Next]_vars
=============================================================================
