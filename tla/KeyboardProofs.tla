--------------------------- MODULE KeyboardProofs ---------------------------
(***************************************************************************)
(* The keyboard interrupt's safety for every debounce and repeat time.      *)
(***************************************************************************)
EXTENDS Keyboard, TLAPS

\* A latched key that nobody has been given, or one whose reader is about to clear
\* the flag.
Buffer == KBD_KEYHIT => fresh \/ pc = "latched"

\* What the two counters say of the sightings of the tracked key.
Debouncing == KBD_DEBOUNCE > 0 => seen = KBD_DEBOUNCE_TICKS - KBD_DEBOUNCE
Repeating ==
  KBD_DEBOUNCE = 0 =>
    /\ KBD_REPEAT > 0
    /\ \/ seen = KBD_DEBOUNCE_TICKS + KBD_REPDEL - KBD_REPEAT
       \/ KBD_REPEAT = KBD_REPPER /\ seen = KBD_DEBOUNCE_TICKS + KBD_REPDEL
Counts == KBD_CUR # None => Debouncing /\ Repeating

\* A PAUSE that has not ended has frames left.
Waiting == pc \in {"pause", "halt", "halted"} => frames > 0

IInv == TypeOK /\ Buffer /\ Counts /\ Waiting

LEMMA InitIInv == Init => IInv
<1> SUFFICES ASSUME Init PROVE IInv
  OBVIOUS
<1>1. /\ 0 \in 0..(KBD_DEBOUNCE_TICKS - 1) /\ 0 \in 0..KBD_REPDEL /\ 0 \in 0..MaxFrames
      /\ 0 \in 0..(KBD_DEBOUNCE_TICKS + KBD_REPDEL)
  BY TimingAssumption
<1>2. TypeOK
  BY <1>1, Zenon DEF Init, TypeOK, None, Codes
<1>3. Buffer /\ Counts /\ Waiting
  BY DEF Init, Buffer, Counts, Waiting
<1> QED
  BY <1>2, <1>3 DEF IInv

\* The byte arithmetic of the repeat counter never wraps below 1.
LEMMA RepeatCountsDown ==
  ASSUME NEW r \in 1..255 PROVE (r - 1) % 256 = r - 1
  OBVIOUS

LEMMA DecodeType == \A k \in Keys : IO_DECODE_KEY(k) \in Codes
  BY DEF Keys, IO_DECODE_KEY, Codes

\* A tick at which the tracked key is still down: types, counters, and the latch
\* exactly when it is due.
LEMMA StillDownStep ==
  ASSUME IInv, StillDown
  PROVE  /\ KBD_CUR' \in Keys /\ KBD_CUR' = KBD_CUR
         /\ KBD_DEBOUNCE' \in 0..(KBD_DEBOUNCE_TICKS - 1) /\ KBD_REPEAT' \in 0..KBD_REPDEL
         /\ KBD_LASTK' \in Codes /\ KBD_KEYHIT' \in BOOLEAN /\ fresh' \in BOOLEAN
         /\ VM_HALTED' \in BOOLEAN /\ VM_ERROR_CODE' \in {0, ERROR, BREAK}
         /\ seen' \in 0..(KBD_DEBOUNCE_TICKS + KBD_REPDEL)
         /\ Debouncing' /\ Repeating'
         /\ KBD_KEYHIT' => fresh' \/ (KBD_KEYHIT /\ fresh' = fresh)
         /\ ~KBD_KEYHIT => (KBD_KEYHIT' <=> Due(seen'))
<1> DEFINE T == KBD_DEBOUNCE_TICKS
<1> DEFINE R == KBD_REPDEL
<1> DEFINE P == KBD_REPPER
<1>0. /\ KBD_CUR \in Keys /\ KBD_CUR # None /\ KBD_CUR' = KBD_CUR
      /\ KBD_DEBOUNCE \in 0..(T - 1) /\ KBD_REPEAT \in 0..R
      /\ seen \in 0..(T + R) /\ seen' = Wrap(seen + 1)
      /\ KBD_LASTK \in Codes /\ KBD_KEYHIT \in BOOLEAN /\ fresh \in BOOLEAN
      /\ VM_HALTED \in BOOLEAN /\ VM_ERROR_CODE \in {0, ERROR, BREAK}
      /\ Debouncing /\ Repeating
  BY DEF IInv, TypeOK, StillDown, Counts, None, Keys, CAPS
<1>1. T \in Nat /\ T > 1 /\ R \in 1..255 /\ P \in 1..R
  BY TimingAssumption
<1>2. IO_DECODE_KEY(KBD_CUR) \in Codes
  BY <1>0, DecodeType
<1>3. CASE KBD_DEBOUNCE > 1
  <2>1. /\ KBD_DEBOUNCE' = KBD_DEBOUNCE - 1 /\ KBD_REPEAT' = KBD_REPEAT
        /\ KBD_LASTK' = KBD_LASTK /\ KBD_KEYHIT' = KBD_KEYHIT /\ fresh' = fresh
        /\ VM_HALTED' = VM_HALTED /\ VM_ERROR_CODE' = VM_ERROR_CODE
    BY <1>0, <1>1, <1>3 DEF StillDown, NoLatch
  <2>2. seen = T - KBD_DEBOUNCE /\ seen' = seen + 1
    BY <1>0, <1>1, <1>3 DEF Debouncing, Wrap
  <2>3. /\ KBD_DEBOUNCE' \in 0..(T - 1) /\ KBD_DEBOUNCE' > 0
        /\ seen' = T - KBD_DEBOUNCE' /\ seen' \in 0..(T + R) /\ seen' < T
    BY <1>0, <1>1, <1>3, <2>1, <2>2
  <2>4. \A n, t, r \in Int : n < t /\ r > 0 => n # t /\ n # t + r
    OBVIOUS
  <2>5. seen' \in Int /\ T \in Int /\ R \in Int /\ R > 0
    BY <1>1, <2>3
  <2>6. seen' # T /\ seen' # T + R
    BY <2>3, <2>4, <2>5, Zenon
  <2>7. ~Due(seen')
    BY <2>6, Zenon DEF Due
  <2> QED
    BY <1>0, <2>1, <2>3, <2>7 DEF Debouncing, Repeating
<1>4. CASE KBD_DEBOUNCE = 1
  <2>1. /\ KBD_DEBOUNCE' = 0 /\ KBD_REPEAT' = R
        /\ KBD_LASTK' = IO_DECODE_KEY(KBD_CUR) /\ KBD_KEYHIT' = TRUE /\ fresh' = TRUE
        /\ \/ VM_ERROR_CODE' = BREAK /\ VM_HALTED' = TRUE
           \/ VM_ERROR_CODE' = VM_ERROR_CODE /\ VM_HALTED' = VM_HALTED
    BY <1>4 DEF StillDown, Latch
  <2>2. seen = T - 1 /\ seen' = T
    BY <1>0, <1>1, <1>4 DEF Debouncing, Wrap
  <2>3. /\ KBD_DEBOUNCE' \in 0..(T - 1) /\ KBD_REPEAT' \in 0..R /\ KBD_REPEAT' > 0
        /\ seen' \in 0..(T + R) /\ seen' = T + R - KBD_REPEAT'
    BY <1>1, <2>1, <2>2
  <2>4. Due(seen')
    BY <2>2 DEF Due
  <2>5. Debouncing' /\ Repeating'
    BY <2>1, <2>3 DEF Debouncing, Repeating
  <2>6. KBD_LASTK' \in Codes /\ KBD_KEYHIT' \in BOOLEAN /\ fresh' \in BOOLEAN
    BY <1>2, <2>1
  <2>7. VM_HALTED' \in BOOLEAN /\ VM_ERROR_CODE' \in {0, ERROR, BREAK}
    BY <1>0, <2>1, Zenon
  <2> QED
    BY <1>0, <2>1, <2>3, <2>4, <2>5, <2>6, <2>7, Zenon
<1>5. CASE KBD_DEBOUNCE = 0
  <2>1. /\ KBD_DEBOUNCE' = 0
        /\ VM_HALTED' = VM_HALTED /\ VM_ERROR_CODE' = VM_ERROR_CODE
        /\ \/ /\ (KBD_REPEAT - 1) % 256 # 0
              /\ KBD_REPEAT' = (KBD_REPEAT - 1) % 256
              /\ KBD_LASTK' = KBD_LASTK /\ KBD_KEYHIT' = KBD_KEYHIT /\ fresh' = fresh
           \/ /\ (KBD_REPEAT - 1) % 256 = 0
              /\ KBD_REPEAT' = P
              /\ KBD_LASTK' = IO_DECODE_KEY(KBD_CUR) /\ KBD_KEYHIT' = TRUE /\ fresh' = TRUE
    BY <1>5 DEF StillDown, Latch, NoLatch
  <2>2. KBD_REPEAT \in 1..255 /\ KBD_REPEAT \in 1..R
    BY <1>0, <1>1, <1>5 DEF Repeating
  <2>3. (KBD_REPEAT - 1) % 256 = KBD_REPEAT - 1
    BY <2>2, RepeatCountsDown
  <2>4. \/ seen = T + R - KBD_REPEAT
        \/ KBD_REPEAT = P /\ seen = T + R
    BY <1>0, <1>5 DEF Repeating
  <2>5. seen' = T + R - (KBD_REPEAT - 1)
    <3>1. CASE seen = T + R - KBD_REPEAT
      BY <1>0, <1>1, <2>2, <3>1 DEF Wrap
    <3>2. CASE KBD_REPEAT = P /\ seen = T + R
      BY <1>0, <1>1, <2>2, <3>2 DEF Wrap
    <3> QED  BY <2>4, <3>1, <3>2
  <2>6. KBD_DEBOUNCE' \in 0..(T - 1) /\ seen' \in 0..(T + R)
    BY <1>1, <2>1, <2>2, <2>5
  <2>7. CASE KBD_REPEAT = 1
    <3>1. KBD_REPEAT' = P /\ seen' = T + R
      BY <1>1, <2>1, <2>3, <2>5, <2>7
    <3>2. Due(seen')
      BY <3>1 DEF Due
    <3>3. KBD_REPEAT' \in 0..R /\ KBD_REPEAT' > 0
      BY <1>1, <3>1
    <3>4. KBD_KEYHIT' = TRUE /\ fresh' = TRUE /\ KBD_LASTK' \in Codes
      BY <1>2, <2>1, <2>3, <2>7
    <3> QED
      BY <1>0, <2>1, <2>6, <3>1, <3>2, <3>3, <3>4 DEF Debouncing, Repeating
  <2>8. CASE KBD_REPEAT # 1
    <3>1. /\ KBD_REPEAT' = KBD_REPEAT - 1
          /\ KBD_LASTK' = KBD_LASTK /\ KBD_KEYHIT' = KBD_KEYHIT /\ fresh' = fresh
      BY <2>1, <2>2, <2>3, <2>8
    <3>2. KBD_REPEAT' \in 0..R /\ KBD_REPEAT' > 0 /\ seen' = T + R - KBD_REPEAT'
      BY <1>1, <2>2, <2>5, <2>8, <3>1
    <3>3. seen' # T /\ seen' # T + R
      BY <1>1, <2>2, <2>5, <2>8
    <3>4. ~Due(seen')
      BY <3>3 DEF Due
    <3> QED
      BY <1>0, <2>1, <2>6, <3>1, <3>2, <3>4 DEF Debouncing, Repeating
  <2> QED  BY <2>7, <2>8
<1> QED
  <2>1. KBD_DEBOUNCE > 1 \/ KBD_DEBOUNCE = 1 \/ KBD_DEBOUNCE = 0
    BY <1>0, <1>1
  <2> QED  BY <2>1, <1>3, <1>4, <1>5

\* A tick with no key tracked, or a released one.
LEMMA LookForNewStep ==
  ASSUME IInv, LookForNew
  PROVE  /\ KBD_CUR \notin down
         /\ KBD_CUR' \in Keys \cup {None}
         /\ KBD_DEBOUNCE' \in 0..(KBD_DEBOUNCE_TICKS - 1) /\ KBD_REPEAT' = KBD_REPEAT
         /\ KBD_LASTK' = KBD_LASTK /\ KBD_KEYHIT' = KBD_KEYHIT /\ fresh' = fresh
         /\ VM_HALTED' = VM_HALTED /\ VM_ERROR_CODE' = VM_ERROR_CODE
         /\ seen' \in 0..(KBD_DEBOUNCE_TICKS + KBD_REPDEL)
         /\ Counts'
         /\ ~Due(seen')
<1>1. /\ KBD_CUR \notin down /\ KBD_REPEAT' = KBD_REPEAT
      /\ KBD_LASTK' = KBD_LASTK /\ KBD_KEYHIT' = KBD_KEYHIT /\ fresh' = fresh
      /\ VM_HALTED' = VM_HALTED /\ VM_ERROR_CODE' = VM_ERROR_CODE
  BY DEF LookForNew, NoLatch
<1>2. \/ KBD_CUR' = None /\ seen' = 0 /\ KBD_DEBOUNCE' = KBD_DEBOUNCE
      \/ KBD_CUR' \in Keys /\ seen' = 1 /\ KBD_DEBOUNCE' = KBD_DEBOUNCE_TICKS - 1
  BY DEF LookForNew, Findable, FirstCount
<1>3. /\ KBD_DEBOUNCE_TICKS \in Nat /\ KBD_DEBOUNCE_TICKS > 1 /\ KBD_REPDEL \in 1..255
      /\ KBD_DEBOUNCE \in 0..(KBD_DEBOUNCE_TICKS - 1)
  BY TimingAssumption DEF IInv, TypeOK
<1>4. /\ KBD_DEBOUNCE' \in 0..(KBD_DEBOUNCE_TICKS - 1)
      /\ seen' \in 0..(KBD_DEBOUNCE_TICKS + KBD_REPDEL)
      /\ seen' # KBD_DEBOUNCE_TICKS /\ seen' # KBD_DEBOUNCE_TICKS + KBD_REPDEL
  BY <1>2, <1>3
<1>5. Counts'
  BY <1>2, <1>3 DEF Counts, Debouncing, Repeating
<1> QED
  BY <1>1, <1>2, <1>4, <1>5, Zenon DEF Due

\* The interrupt and the HALT it ends.
LEMMA TickStep == IInv /\ KBD_ISR_TICK => IInv'
<1> SUFFICES ASSUME IInv, KBD_ISR_TICK PROVE IInv'
  OBVIOUS
<1>1. /\ down' = down /\ reader' = reader /\ a' = a
      /\ StillDown \/ LookForNew
      /\ \/ pc = "halted" /\ frames' = frames - 1 /\ pc' = "poll" /\ frames = 1
         \/ pc = "halted" /\ frames' = frames - 1 /\ pc' = "pause" /\ frames # 1
         \/ pc # "halted" /\ frames' = frames /\ pc' = pc
  BY DEF KBD_ISR_TICK
<1>2. /\ KBD_CUR' \in Keys \cup {None}
      /\ KBD_DEBOUNCE' \in 0..(KBD_DEBOUNCE_TICKS - 1) /\ KBD_REPEAT' \in 0..KBD_REPDEL
      /\ KBD_LASTK' \in Codes /\ KBD_KEYHIT' \in BOOLEAN /\ fresh' \in BOOLEAN
      /\ VM_HALTED' \in BOOLEAN /\ VM_ERROR_CODE' \in {0, ERROR, BREAK}
      /\ seen' \in 0..(KBD_DEBOUNCE_TICKS + KBD_REPDEL)
      /\ Counts'
      /\ KBD_KEYHIT' => fresh' \/ (KBD_KEYHIT /\ fresh' = fresh)
  <2>1. CASE StillDown
    <3>1. Counts'
      BY <2>1, StillDownStep, Zenon DEF Counts
    <3>2. KBD_CUR' \in Keys \cup {None}
      BY <2>1, StillDownStep
    <3> QED  BY <2>1, <3>1, <3>2, StillDownStep, Zenon
  <2>2. CASE LookForNew
    <3>1. /\ KBD_REPEAT \in 0..KBD_REPDEL /\ KBD_LASTK \in Codes /\ KBD_KEYHIT \in BOOLEAN
          /\ fresh \in BOOLEAN /\ VM_HALTED \in BOOLEAN /\ VM_ERROR_CODE \in {0, ERROR, BREAK}
      BY Zenon DEF IInv, TypeOK
    <3>2. /\ KBD_REPEAT' \in 0..KBD_REPDEL /\ KBD_LASTK' \in Codes
          /\ KBD_KEYHIT' \in BOOLEAN /\ fresh' \in BOOLEAN
          /\ VM_HALTED' \in BOOLEAN /\ VM_ERROR_CODE' \in {0, ERROR, BREAK}
      BY <2>2, <3>1, LookForNewStep, Zenon
    <3>3. KBD_KEYHIT' => fresh' \/ (KBD_KEYHIT /\ fresh' = fresh)
      BY <2>2, LookForNewStep
    <3> QED  BY <2>2, <3>2, <3>3, LookForNewStep, Zenon
  <2> QED  BY <1>1, <2>1, <2>2
<1>3. frames \in 0..MaxFrames /\ (pc = "halted" => frames > 0)
  BY DEF IInv, TypeOK, Waiting
<1>4. frames' \in 0..MaxFrames /\ Waiting'
  BY <1>1, <1>3, TimingAssumption DEF Waiting, IInv
<1>5. TypeOK'
  BY <1>1, <1>2, <1>4, Zenon DEF TypeOK, IInv
<1>6. Buffer'
  <2>1. pc = "latched" => pc' = "latched"
    BY <1>1
  <2>2. SUFFICES ASSUME KBD_KEYHIT' PROVE fresh' \/ pc' = "latched"
    BY DEF Buffer
  <2>3. CASE KBD_KEYHIT /\ fresh' = fresh
    BY <2>1, <2>3 DEF Buffer, IInv
  <2> QED
    BY <1>2, <2>2, <2>3, Zenon
<1> QED
  BY <1>2, <1>4, <1>5, <1>6, Zenon DEF IInv

LEMMA UserStep == IInv /\ User => IInv'
<1> SUFFICES ASSUME IInv, User PROVE IInv'
  OBVIOUS
<1>1. down' \subseteq Keys \cup {CAPS}
  BY DEF User, Press, Release, IInv, TypeOK
<1>2. UNCHANGED <<KBD_CUR, KBD_DEBOUNCE, KBD_REPEAT, KBD_LASTK, KBD_KEYHIT, VM_HALTED,
                  VM_ERROR_CODE, pc, reader, a, frames, seen, fresh>>
  BY DEF User, interrupt
<1>3. TypeOK'
  BY SMTT(60), <1>1, <1>2, Zenon DEF IInv, TypeOK
<1>4. Buffer' /\ Waiting'
  BY <1>2, Zenon DEF IInv, Buffer, Waiting
<1>5. Counts'
  BY <1>2, Zenon DEF IInv, Counts, Debouncing, Repeating
<1> QED
  BY <1>3, <1>4, <1>5, Zenon DEF IInv

LEMMA AfterKeyType == AfterKey \subseteq {"wait", "start", "poll"}
  BY DEF AfterKey

LEMMA ForegroundStep == IInv /\ Foreground => IInv'
<1> SUFFICES ASSUME IInv, Foreground PROVE IInv'
  OBVIOUS
<1>1. /\ UNCHANGED <<down, KBD_CUR, KBD_DEBOUNCE, KBD_REPEAT, KBD_LASTK, seen>>
  BY DEF Foreground, ReadKey, ClearKeyHit, InitError, InitHalted, Poll, Opcode, PauseTest,
         Halt, ErrorHalt, Report, Quiet, interrupt
<1>2. Counts'
  BY <1>1, Zenon DEF IInv, Counts, Debouncing, Repeating
<1>3. CASE ReadKey
  BY <1>1, <1>2, <1>3, Zenon DEF ReadKey, IInv, TypeOK, Buffer, Waiting
<1>4. CASE ClearKeyHit
  <2>1. pc' \in {"wait", "start", "poll"}
    BY <1>4, AfterKeyType DEF ClearKeyHit
  <2>2. /\ KBD_KEYHIT' = FALSE /\ a' = None
        /\ UNCHANGED <<fresh, VM_HALTED, VM_ERROR_CODE, reader, frames>>
    BY <1>4 DEF ClearKeyHit
  <2>3. TypeOK'
    BY ZenonT(60), <1>1, <2>1, <2>2 DEF IInv, TypeOK, Codes
  <2>4. Buffer' /\ Waiting'
    BY <2>1, <2>2 DEF Buffer, Waiting
  <2> QED
    BY <1>2, <2>3, <2>4 DEF IInv
<1>5. CASE InitError \/ InitHalted
  <2>1. /\ pc \in {"start", "init"} /\ pc' \in {"init", "poll"}
        /\ VM_HALTED' \in {VM_HALTED, FALSE} /\ VM_ERROR_CODE' \in {VM_ERROR_CODE, 0}
        /\ UNCHANGED <<KBD_KEYHIT, reader, a, frames, fresh>>
    BY <1>5 DEF InitError, InitHalted
  <2>2. TypeOK'
    BY <1>1, <2>1 DEF IInv, TypeOK
  <2>3. Buffer' /\ Waiting'
    BY <2>1 DEF IInv, Buffer, Waiting
  <2> QED
    BY <1>2, <2>2, <2>3 DEF IInv
<1>6. CASE Poll
  BY <1>1, <1>2, <1>6, Zenon DEF Poll, IInv, TypeOK, Buffer, Waiting
<1>7. CASE Opcode
  <2>1. /\ pc = "op" /\ pc' \in {"poll", "pause", "wait", "erring", "stopped"}
        /\ UNCHANGED <<KBD_KEYHIT, a, fresh>>
        /\ pc' = "pause" => frames' \in 1..MaxFrames
        /\ pc' # "pause" => frames' = frames
        /\ reader' \in {reader, "input", "pause0", "inkey"}
        /\ VM_HALTED' \in {VM_HALTED, TRUE} /\ VM_ERROR_CODE' \in {VM_ERROR_CODE, ERROR}
    BY <1>7 DEF Opcode
  <2>2. frames' \in 0..MaxFrames /\ Waiting'
    BY <2>1, TimingAssumption DEF Waiting, IInv, TypeOK
  <2>3. reader' \in {"editor", "input", "pause0", "inkey"} /\ VM_HALTED' \in BOOLEAN
        /\ VM_ERROR_CODE' \in {0, ERROR, BREAK}
    BY <2>1 DEF IInv, TypeOK
  <2> QED
    BY <1>1, <1>2, <2>1, <2>2, <2>3, Zenon DEF IInv, TypeOK, Buffer
<1>8. CASE PauseTest \/ Halt
  <2>1. pc \in {"pause", "halt"} /\ pc' \in {"poll", "halt", "halted"}
    BY <1>8 DEF PauseTest, Halt
  <2>2. UNCHANGED <<KBD_KEYHIT, VM_HALTED, VM_ERROR_CODE, reader, a, frames, fresh>>
    BY <1>8 DEF PauseTest, Halt
  <2>3. TypeOK'
    BY <1>1, <2>1, <2>2 DEF IInv, TypeOK
  <2>4. Buffer' /\ Waiting'
    BY <2>1, <2>2 DEF IInv, Buffer, Waiting
  <2> QED
    BY <1>2, <2>3, <2>4 DEF IInv
<1>9. CASE ErrorHalt \/ Report
  <2>1. /\ pc \in {"erring", "stopped"} /\ pc' \in {"stopped", "wait"}
        /\ VM_HALTED' \in {VM_HALTED, TRUE} /\ reader' \in {reader, "editor"}
        /\ UNCHANGED <<KBD_KEYHIT, VM_ERROR_CODE, a, frames, fresh>>
    BY <1>9 DEF ErrorHalt, Report
  <2>2. TypeOK'
    BY <1>1, <2>1 DEF IInv, TypeOK
  <2>3. Buffer' /\ Waiting'
    BY <2>1 DEF IInv, Buffer, Waiting
  <2> QED
    BY <1>2, <2>2, <2>3 DEF IInv
<1> QED
  BY <1>3, <1>4, <1>5, <1>6, <1>7, <1>8, <1>9 DEF Foreground

LEMMA IInvStep == IInv /\ [Next]_vars => IInv'
<1>1. ASSUME IInv, UNCHANGED vars PROVE IInv'
  <2>1. TypeOK'
    BY SMTT(60), <1>1, Zenon DEF vars, interrupt, IInv, TypeOK
  <2>2. Buffer' /\ Waiting'
    BY <1>1, Zenon DEF vars, interrupt, IInv, Buffer, Waiting
  <2>3. Counts'
    BY <1>1, Zenon DEF vars, interrupt, IInv, Counts, Debouncing, Repeating
  <2> QED
    BY <2>1, <2>2, <2>3, Zenon DEF IInv
<1> QED
  BY <1>1, UserStep, TickStep, ForegroundStep, Zenon DEF Next

LEMMA Invariance == Spec => []IInv
  BY InitIInv, IInvStep, PTL DEF Spec

\* The interrupt's cells and the foreground's keep their types, for every timing.
THEOREM TypeCorrect == Spec => []TypeOK
<1>1. IInv => TypeOK
  BY DEF IInv
<1> QED
  BY <1>1, Invariance, PTL

\* No acceptance of a key is returned to two readers, although the interrupt may come
\* between reading the code and clearing the flag.
THEOREM KeysReadOnce == Spec => []ReadOnce
<1>1. IInv => ReadOnce
  BY DEF IInv, Buffer, ReadOnce
<1> QED
  BY <1>1, Invariance, PTL

\* Debounce and repeat: a held key is latched at exactly the ticks the constants say,
\* and no other key disturbs it.
THEOREM LatchTiming == Spec => LatchedWhenDue
<1> DEFINE Due1 == seen' # seen => /\ ~KBD_KEYHIT => (KBD_KEYHIT' <=> Due(seen'))
                                   /\ KBD_CUR \in down => KBD_CUR' = KBD_CUR
<1>1. IInv /\ [Next]_vars => [Due1]_vars
  <2> SUFFICES ASSUME IInv, Next, seen' # seen PROVE Due1
    BY DEF vars
  <2>1. KBD_ISR_TICK
    BY DEF Next, User, Foreground, ReadKey, ClearKeyHit, InitError, InitHalted, Poll,
           Opcode, PauseTest, Halt, ErrorHalt, Report, Quiet
  <2>2. CASE StillDown
    BY <2>2, StillDownStep, Zenon
  <2>3. CASE LookForNew
    BY <2>3, LookForNewStep, Zenon
  <2> QED
    BY <2>1, <2>2, <2>3 DEF KBD_ISR_TICK
<1> QED
  BY <1>1, Invariance, PTL DEF Spec, LatchedWhenDue
=============================================================================
