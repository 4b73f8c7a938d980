------------------------------ MODULE Keyboard ------------------------------
(***************************************************************************)
(* The keyboard interrupt (kernel/interrupt/interrupt.asm) beside the code  *)
(* it interrupts: it debounces, repeats and latches one key in a one-key    *)
(* buffer and raises BREAK; the foreground -- editor, or the VM running a   *)
(* program -- takes keys from the buffer and polls the BREAK request.       *)
(*                                                                         *)
(* One frame interrupt is one step; the foreground's steps lie between the  *)
(* loads and stores of cells that the two share.  Tape transfers and        *)
(* packages that switch interrupts off are outside this module.             *)
(***************************************************************************)
EXTENDS Integers

CONSTANTS
  KBD_DEBOUNCE_TICKS,   \* ticks a key must be seen before it is accepted
  KBD_REPDEL,           \* ticks from there to the first repeat
  KBD_REPPER,           \* ticks from repeat to repeat
  MaxFrames             \* longest PAUSE or BEEP, in frames

ASSUME TimingAssumption ==
  /\ KBD_DEBOUNCE_TICKS \in Nat /\ KBD_DEBOUNCE_TICKS > 1
  /\ KBD_REPDEL \in 1..255 /\ KBD_REPPER \in 1..KBD_REPDEL
  /\ MaxFrames \in Nat \ {0}

VARIABLES
  down,          \* the keys held down
  KBD_CUR,       \* KBD_CUR_ROW/BIT: the key being tracked, or None
  KBD_DEBOUNCE,  \* ticks until it is accepted
  KBD_REPEAT,    \* then: ticks until it repeats
  KBD_LASTK,     \* code of the latched key
  KBD_KEYHIT,    \* TRUE: not yet read
  VM_HALTED, VM_ERROR_CODE,
  pc,            \* where the foreground is
  reader,        \* who waits for a key: "editor", "input", "pause0", "inkey"
  a,             \* the accumulator: the code just read, until it is used
  frames,        \* frames left of a PAUSE
  seen,          \* history: ticks the tracked key has been seen (see Due)
  fresh          \* history: the latched key has been returned to no reader

interrupt == <<KBD_CUR, KBD_DEBOUNCE, KBD_REPEAT, KBD_LASTK>>
vars == <<down, interrupt, KBD_KEYHIT, VM_HALTED, VM_ERROR_CODE, pc, reader, a, frames,
          seen, fresh>>

None == "none"
CAPS == "caps shift"
Keys == {"space", "enter"}
BreakKeys == {CAPS, "space"}
Codes == {None, "space", "enter", "insert line", "break"}
BREAK == 66      \* the error code of BREAK
ERROR == 5       \* any other run-time error

-----------------------------------------------------------------------------
\* The keys are the user's: any of them, at any time, also between two ticks.
Press == \E k \in (Keys \cup {CAPS}) \ down : down' = down \cup {k}
Release == \E k \in down : down' = down \ {k}
User ==
  /\ Press \/ Release
  /\ UNCHANGED <<interrupt, KBD_KEYHIT, VM_HALTED, VM_ERROR_CODE, pc, reader, a, frames,
                 seen, fresh>>

\* IO_DECODE_KEY: with the shift state of this moment.
IO_DECODE_KEY(k) ==
  IF CAPS \notin down THEN k ELSE IF k = "space" THEN "break" ELSE "insert line"

\* IO_FIND_KEY: a key only if it is the only one besides the shifts.
Findable == {k \in Keys : down \cap Keys = {k}}

Latch ==
  /\ KBD_LASTK' = IO_DECODE_KEY(KBD_CUR) /\ KBD_KEYHIT' = TRUE
  /\ fresh' = TRUE

NoLatch == UNCHANGED <<KBD_LASTK, KBD_KEYHIT, fresh>>

\* The next debounce ticks and repeats of a held key start over from here.
Wrap(n) == IF n > KBD_DEBOUNCE_TICKS + KBD_REPDEL THEN n - KBD_REPPER ELSE n

\* A tracked key that is still down.  Only its first acceptance raises BREAK.
StillDown ==
  /\ KBD_CUR \in down
  /\ seen' = Wrap(seen + 1)
  /\ \/ /\ KBD_DEBOUNCE > 1
        /\ KBD_DEBOUNCE' = KBD_DEBOUNCE - 1
        /\ NoLatch /\ UNCHANGED <<KBD_REPEAT, VM_HALTED, VM_ERROR_CODE>>
     \/ /\ KBD_DEBOUNCE = 1
        /\ Latch
        /\ IF IO_DECODE_KEY(KBD_CUR) = "break"
           THEN VM_ERROR_CODE' = BREAK /\ VM_HALTED' = TRUE
           ELSE UNCHANGED <<VM_ERROR_CODE, VM_HALTED>>
        /\ KBD_DEBOUNCE' = 0 /\ KBD_REPEAT' = KBD_REPDEL
     \/ /\ KBD_DEBOUNCE = 0
        /\ LET left == (KBD_REPEAT - 1) % 256 IN
             IF left # 0 THEN KBD_REPEAT' = left /\ NoLatch
             ELSE KBD_REPEAT' = KBD_REPPER /\ Latch
        /\ UNCHANGED <<KBD_DEBOUNCE, VM_HALTED, VM_ERROR_CODE>>
  /\ UNCHANGED KBD_CUR

\* (Mutant of FirstCount: the first sighting is counted twice.)
FirstCountEarly == KBD_DEBOUNCE_TICKS - 2

\* .new_key: this tick is the first sighting.
FirstCount == KBD_DEBOUNCE_TICKS - 1

\* No key tracked, or the tracked one released: a new one is taken up at once.
LookForNew ==
  /\ KBD_CUR \notin down
  /\ IF Findable = {} THEN KBD_CUR' = None /\ seen' = 0 /\ UNCHANGED KBD_DEBOUNCE
     ELSE KBD_CUR' \in Findable /\ seen' = 1 /\ KBD_DEBOUNCE' = FirstCount
  /\ NoLatch /\ UNCHANGED <<KBD_REPEAT, VM_HALTED, VM_ERROR_CODE>>

\* (Mutant of KBD_ISR_TICK: the first draft, which looked for a single key at every
\* tick and so lost the tracked one when a second went down.)
TickFindsAlways ==
  /\ \/ Findable = {KBD_CUR} /\ StillDown
     \/ /\ Findable # {KBD_CUR}
        /\ IF Findable = {} THEN KBD_CUR' = None /\ seen' = 0 /\ UNCHANGED KBD_DEBOUNCE
           ELSE KBD_CUR' \in Findable /\ seen' = 1 /\ KBD_DEBOUNCE' = FirstCount
        /\ NoLatch /\ UNCHANGED <<KBD_REPEAT, VM_HALTED, VM_ERROR_CODE>>
  /\ IF pc = "halted"
     THEN frames' = frames - 1 /\ pc' = IF frames = 1 THEN "poll" ELSE "pause"
     ELSE UNCHANGED <<frames, pc>>
  /\ UNCHANGED <<down, reader, a>>

\* KBD_ISR_TICK.  The interrupt also ends the HALT instruction of a waiting PAUSE.
KBD_ISR_TICK ==
  /\ StillDown \/ LookForNew
  /\ IF pc = "halted"
     THEN frames' = frames - 1 /\ pc' = IF frames = 1 THEN "poll" ELSE "pause"
     ELSE UNCHANGED <<frames, pc>>
  /\ UNCHANGED <<down, reader, a>>

-----------------------------------------------------------------------------
\* The foreground.
Quiet == UNCHANGED <<down, interrupt, seen>>

\* IO_READ_KEY and IO_LATCH_AND_CLEAR: the code is read first, ...
ReadKey ==
  /\ pc = "wait" /\ KBD_KEYHIT
  /\ a' = KBD_LASTK /\ fresh' = FALSE /\ pc' = "latched"
  /\ UNCHANGED <<KBD_KEYHIT, VM_HALTED, VM_ERROR_CODE, reader, frames>> /\ Quiet

\* ... then KEYHIT is cleared.  INPUT goes on until ENTER; the editor may take any
\* key for an edit and ENTER for a RUN.
AfterKey ==
  CASE reader = "editor" -> IF a = "enter" THEN {"wait", "start"} ELSE {"wait"}
    [] reader = "input" -> IF a = "enter" THEN {"poll"} ELSE {"wait"}
    [] OTHER -> {"poll"}

\* (Mutant of ClearKeyHit: a key that INPUT has no use for stays in the buffer.)
ClearKeyHitIfUsed ==
  /\ pc = "latched"
  /\ KBD_KEYHIT' = (reader = "input" /\ a # "enter") /\ pc' \in AfterKey /\ a' = None
  /\ UNCHANGED <<fresh, VM_HALTED, VM_ERROR_CODE, reader, frames>> /\ Quiet

ClearKeyHit ==
  /\ pc = "latched"
  /\ KBD_KEYHIT' = FALSE /\ pc' \in AfterKey /\ a' = None
  /\ UNCHANGED <<fresh, VM_HALTED, VM_ERROR_CODE, reader, frames>> /\ Quiet

\* VM_INIT_REGS clears the error, then the request to stop.
InitError ==
  /\ pc = "start" /\ pc' = "init"
  /\ VM_ERROR_CODE' = 0
  /\ UNCHANGED <<KBD_KEYHIT, VM_HALTED, reader, a, frames, fresh>> /\ Quiet

InitHalted ==
  /\ pc = "init" /\ pc' = "poll"
  /\ VM_HALTED' = FALSE
  /\ UNCHANGED <<KBD_KEYHIT, VM_ERROR_CODE, reader, a, frames, fresh>> /\ Quiet

\* VM_RUN.loop.
Poll ==
  /\ pc = "poll" /\ pc' = IF VM_HALTED THEN "stopped" ELSE "op"
  /\ UNCHANGED <<KBD_KEYHIT, VM_HALTED, VM_ERROR_CODE, reader, a, frames, fresh>> /\ Quiet

\* Opcodes up to the next one that ends at .loop: always a finite number.  A wait for
\* frames, a wait for a key, INKEY$, a run-time error or the end of the program.
Opcode ==
  /\ pc = "op"
  /\ \/ pc' = "poll" /\ UNCHANGED <<reader, frames, VM_HALTED, VM_ERROR_CODE>>
     \/ /\ pc' = "pause" /\ frames' \in 1..MaxFrames
        /\ UNCHANGED <<reader, VM_HALTED, VM_ERROR_CODE>>
     \/ /\ pc' = "wait" /\ reader' \in {"input", "pause0"}
        /\ UNCHANGED <<frames, VM_HALTED, VM_ERROR_CODE>>
     \/ /\ KBD_KEYHIT /\ pc' = "wait" /\ reader' = "inkey"
        /\ UNCHANGED <<frames, VM_HALTED, VM_ERROR_CODE>>
     \/ /\ pc' = "erring" /\ VM_ERROR_CODE' = ERROR
        /\ UNCHANGED <<reader, frames, VM_HALTED>>
     \/ /\ pc' = "stopped" /\ VM_HALTED' = TRUE
        /\ UNCHANGED <<reader, frames, VM_ERROR_CODE>>
  /\ UNCHANGED <<KBD_KEYHIT, a, fresh>> /\ Quiet

\* AY_WAIT_FRAMES: the request is tested before every HALT instruction.
PauseTest ==
  /\ pc = "pause" /\ pc' = IF VM_HALTED THEN "poll" ELSE "halt"
  /\ UNCHANGED <<KBD_KEYHIT, VM_HALTED, VM_ERROR_CODE, reader, a, frames, fresh>> /\ Quiet

Halt ==
  /\ pc = "halt" /\ pc' = "halted"
  /\ UNCHANGED <<KBD_KEYHIT, VM_HALTED, VM_ERROR_CODE, reader, a, frames, fresh>> /\ Quiet

\* VM_ERR_COMMON: the second store, and straight back to VM_RUN's caller.
ErrorHalt ==
  /\ pc = "erring" /\ pc' = "stopped"
  /\ VM_HALTED' = TRUE
  /\ UNCHANGED <<KBD_KEYHIT, VM_ERROR_CODE, reader, a, frames, fresh>> /\ Quiet

\* The shell reports VM_ERROR_CODE and waits for a key.
Report ==
  /\ pc = "stopped" /\ pc' = "wait" /\ reader' = "editor"
  /\ UNCHANGED <<KBD_KEYHIT, VM_HALTED, VM_ERROR_CODE, a, frames, fresh>> /\ Quiet

Foreground ==
  \/ ReadKey \/ ClearKeyHit \/ InitError \/ InitHalted
  \/ Poll \/ Opcode \/ PauseTest \/ Halt \/ ErrorHalt \/ Report

-----------------------------------------------------------------------------
Init ==
  /\ down = {}
  /\ KBD_CUR = None /\ KBD_DEBOUNCE = 0 /\ KBD_REPEAT = 0
  /\ KBD_LASTK = None /\ KBD_KEYHIT = FALSE
  /\ VM_HALTED = FALSE /\ VM_ERROR_CODE = 0
  /\ pc = "wait" /\ reader = "editor" /\ a = None /\ frames = 0
  /\ seen = 0 /\ fresh = FALSE

Next == User \/ KBD_ISR_TICK \/ Foreground

\* The frame interrupt keeps coming and the processor keeps working between two of
\* them; nothing is assumed of the user.
Spec == Init /\ [][Next]_vars /\ WF_vars(KBD_ISR_TICK) /\ WF_vars(Foreground)

-----------------------------------------------------------------------------
\* Properties.

TypeOK ==
  /\ down \subseteq Keys \cup {CAPS} /\ KBD_CUR \in Keys \cup {None}
  /\ KBD_DEBOUNCE \in 0..(KBD_DEBOUNCE_TICKS - 1) /\ KBD_REPEAT \in 0..KBD_REPDEL
  /\ KBD_LASTK \in Codes /\ KBD_KEYHIT \in BOOLEAN
  /\ VM_HALTED \in BOOLEAN /\ VM_ERROR_CODE \in {0, ERROR, BREAK}
  /\ pc \in {"wait", "latched", "start", "init", "poll", "op", "pause", "halt", "halted",
             "erring", "stopped"}
  /\ reader \in {"editor", "input", "pause0", "inkey"} /\ a \in Codes
  /\ frames \in 0..MaxFrames
  /\ seen \in 0..(KBD_DEBOUNCE_TICKS + KBD_REPDEL) /\ fresh \in BOOLEAN

\* A held key is latched at its KBD_DEBOUNCE_TICKS-th sighting in a row, then
\* KBD_REPDEL ticks later, then every KBD_REPPER -- and at no other tick -- whatever
\* other keys come and go meanwhile.
Due(n) == n \in {KBD_DEBOUNCE_TICKS, KBD_DEBOUNCE_TICKS + KBD_REPDEL}
LatchedWhenDue ==
  [][seen' # seen => /\ ~KBD_KEYHIT => (KBD_KEYHIT' <=> Due(seen'))
                     /\ KBD_CUR \in down => KBD_CUR' = KBD_CUR]_vars

\* No acceptance of a key is returned to two readers.
ReadOnce == pc = "wait" /\ KBD_KEYHIT => fresh

\* A program is running (INPUT, which BREAK ends only after ENTER, is set apart).
Running ==
  \/ pc \in {"poll", "op", "pause", "halt", "halted", "erring"}
  \/ pc \in {"wait", "latched"} /\ reader \in {"pause0", "inkey"}

\* SPACE pressed with CAPS SHIFT held and no other key in the way: the program stops,
\* whatever it does -- a tight loop, PAUSE, PAUSE 0 -- if both stay down.
FreshBreakStops ==
  Running /\ down = BreakKeys /\ KBD_CUR = None ~> ~Running \/ down # BreakKeys

\* "Hold both keys while a program is running and it stops", whichever goes down
\* first.
HeldBreakStops ==
  Running /\ down = BreakKeys /\ KBD_LASTK # "break" ~> ~Running \/ down # BreakKeys
=============================================================================
