\* Two keys and CAPS SHIFT; the repeat delays are shortened to a few ticks, still different from each other and from
\* the debounce time.
SPECIFICATION Spec
CONSTANTS
  KBD_DEBOUNCE_TICKS = 2
  KBD_REPDEL = 3
  KBD_REPPER = 2
  MaxFrames = 2
INVARIANTS TypeOK ReadOnce
PROPERTIES LatchedWhenDue FreshBreakStops
