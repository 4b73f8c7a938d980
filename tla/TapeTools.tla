----------------------------- MODULE TapeTools ------------------------------
(***************************************************************************)
(* The tape tools: make_extension_tzx.py and tape_synth.py write tapes (the *)
(* second with faults on request, and qtapetol.py with distorted pulses),   *)
(* check_tape_fixture.py decodes one and validates it.  Samples are kept as *)
(* runs <<level, number of samples>>; a byte is a number below 256.         *)
(***************************************************************************)
EXTENDS Integers, Sequences, SequencesExt, FiniteSetsExt, Bitwise

CONSTANTS
  PILOT_PULSES,   \* pulses of a pilot (3200 in the source)
  MIN_PILOT       \* what the decoder asks for (3000 in the source), at most PILOT_PULSES

PILOT_SAMPLES == 27
SYNC_SAMPLES == <<8, 9>>
ZERO_SAMPLES == 11
ONE_SAMPLES == 22
SILENCE_SAMPLES == 1200

Parity(bytes) == FoldLeft(LAMBDA a, b : a ^^ b, 0, bytes)
framed(flag, payload) == LET body == <<flag>> \o payload IN Append(body, Parity(body))
little(n) == <<n % 256, n \div 256>>

\* Type, name (ten characters in the source), length, autostart or ABI word, program length.
header_payload(htype, name, length, autostart, proglen) ==
  <<htype>> \o name \o little(length) \o little(autostart) \o little(proglen)

-----------------------------------------------------------------------------
(* make_extension_tzx.py *)

one(value, shift) == (value \div 2^shift) % 2 = 1
\* The sixteen half-pulses of a byte, high bit first.
widths(value) ==
  [i \in 1 .. 16 |-> IF one(value, 7 - ((i - 1) \div 2)) THEN ONE_SAMPLES ELSE ZERO_SAMPLES]
pulses(block) ==
  [i \in 1 .. PILOT_PULSES |-> PILOT_SAMPLES] \o SYNC_SAMPLES
    \o FlattenSeq([i \in DOMAIN block |-> widths(block[i])])

\* Runs of alternating level from `level` on.
alternating(ws, level) == [i \in DOMAIN ws |-> <<(level + i - 1) % 2, ws[i]>>]

\* The silence has a level too; the trailing pulse does not count for the level returned.
append_block(bits, block, level) ==
  LET ws == <<SILENCE_SAMPLES>> \o pulses(block)
  IN  [bits |-> bits \o alternating(Append(ws, ZERO_SAMPLES), level),
       level |-> (level + Len(ws)) % 2]

\* The samples of a tape, summed by halves: a tape has hundreds of runs.
RECURSIVE samples(_)
samples(runs) ==
  CASE Len(runs) = 0 -> 0
    [] Len(runs) = 1 -> runs[1][2]
    [] OTHER -> LET half == Len(runs) \div 2
                IN  samples(SubSeq(runs, 1, half)) + samples(SubSeq(runs, half + 1, Len(runs)))

\* Eight samples to a byte, the last one filled with zeros; `used` is what it holds.
pack(runs) ==
  LET used == samples(runs) % 8
  IN  [runs |-> IF used = 0 THEN runs ELSE Append(runs, <<0, 8 - used>>), used |-> used]

extension_tzx(name, module, word) ==
  LET header == header_payload(4, name, Len(module), word, Len(module))
      first == append_block(<<>>, framed(0, header), 0)
  IN  pack(append_block(first.bits, framed(255, module), first.level).bits)

-----------------------------------------------------------------------------
(* tape_synth.py: class Tape, a list of runs and a running level. *)

NoTape == [runs |-> <<>>, level |-> 0]
flat(t, n) == [t EXCEPT !.runs = Append(@, <<t.level, n>>)]
pulsed(t, ws) == [runs |-> t.runs \o alternating(ws, t.level), level |-> (t.level + Len(ws)) % 2]

None == [none |-> TRUE]
\* The bytes of the block: those of a dropout are a flat stretch as long; a truncated block
\* ends in silence without its trailing pulse.
block(t, data, dropout, truncate_after) ==
  LET lost(i) == dropout # None /\ i - 1 >= dropout.first /\ i - 1 < dropout.first + dropout.count
      cost(i) == FoldLeft(LAMBDA n, w : n + w, 0, widths(data[i]))
      byte(u, i) == IF lost(i) THEN flat(u, cost(i)) ELSE pulsed(u, widths(data[i]))
      sent == IF truncate_after = None \/ truncate_after.n >= Len(data)
              THEN Len(data) ELSE truncate_after.n
      lead == pulsed(flat(t, SILENCE_SAMPLES), pulses(<<>>))
      body == FoldLeft(byte, lead, [i \in 1 .. sent |-> i])
  IN  IF sent < Len(data) THEN flat(body, SILENCE_SAMPLES) ELSE pulsed(body, <<ZERO_SAMPLES>>)

\* The options o: htype, header_length, autostart, data_flag, bad_checksum, dropout, truncate_after.
nominal(autostart) == [htype |-> 0, header_length |-> None, autostart |-> autostart, data_flag |-> 255,
                       bad_checksum |-> FALSE, dropout |-> None, truncate_after |-> None]
program_tape(name, source, o) ==
  LET length == IF o.header_length = None THEN Len(source) ELSE o.header_length.n
      header == header_payload(o.htype, name, length, o.autostart, length)
      data == framed(o.data_flag, source)
      sent == IF o.bad_checksum THEN [data EXCEPT ![Len(data)] = @ ^^ 1] ELSE data
  IN  block(block(NoTape, framed(0, header), None, None), sent, o.dropout, o.truncate_after)

\* Point samples at 15600 Hz of runs in units of 80 T-states at 3528000 Hz: 40/113 of them
\* (2940/13 T-states each), counted from the start of the tape.
sample_at(n) == (n * 80 * 13) \div 2940
to_rwa(t, lead) ==
  LET emit(acc, r) == LET at == acc.at + r[2]
                          till == Max({sample_at(at), acc.n})
                      IN  [at |-> at, n |-> till, out |-> Append(acc.out, <<r[1], till - acc.n>>)]
      start == [at |-> lead, n |-> sample_at(lead), out |-> <<<<"idle", sample_at(lead)>>>>]
  IN  FoldLeft(emit, start, t.runs).out

-----------------------------------------------------------------------------
(* qtapetol.py: every width scaled by percentages that may differ from pulse to pulse. *)

w_(n, speed, bits, jitter) == (n * speed * bits * (100 + jitter)) \div 1000000
\* d: speed, bits (percent), jitter (the deviation of odd and of even pulses), pilot, gap.
distorted_block(t, data, d, gap_here) ==
  LET jitter(i) == IF i % 2 = 1 THEN d.jitter[1] ELSE d.jitter[2]
      plain(ws, bits) == [i \in DOMAIN ws |-> w_(ws[i], d.speed, bits, jitter(i))]
      pilot == [i \in 1 .. d.pilot |-> PILOT_SAMPLES]
      half == d.pilot \div 2
      before == pulsed(flat(t, SILENCE_SAMPLES), plain(SubSeq(pilot, 1, half), 100))
      gapped == IF gap_here /\ d.gap # 0 THEN flat(before, d.gap) ELSE before
      synced == pulsed(gapped, plain(SubSeq(pilot, half + 1, d.pilot) \o SYNC_SAMPLES, 100))
      body == FoldLeft(LAMBDA u, v : pulsed(u, plain(widths(v), d.bits)), synced, data)
  IN  pulsed(body, plain(<<ZERO_SAMPLES>>, 100))

tape_for(name, source, autostart, d) ==
  LET header == header_payload(0, name, Len(source), autostart, Len(source))
  IN  distorted_block(distorted_block(NoTape, framed(0, header), d, FALSE),
                      framed(255, source), d, TRUE)

-----------------------------------------------------------------------------
(* check_tape_fixture.py *)

\* Lengths of the runs of equal samples, without the zeros that fill the last byte.
sample_runs(packed) ==
  LET fill == IF packed.used = 0 THEN 0 ELSE 8 - packed.used
      rs == packed.runs
      cut == IF fill = 0 THEN rs ELSE [rs EXCEPT ![Len(rs)] = <<@[1], @[2] - fill>>]
      some == SelectSeq(cut, LAMBDA r : r[2] > 0)
      starts == SelectSeq([i \in DOMAIN some |-> i], LAMBDA i : i = 1 \/ some[i][1] # some[i - 1][1])
      till(k) == IF k = Len(starts) THEN Len(some) ELSE starts[k + 1] - 1
  IN  [k \in DOMAIN starts |-> samples(SubSeq(some, starts[k], till(k)))]

\* The runs between the gaps (runs of more than 100 samples).
segments(runs) ==
  LET gaps == <<0>> \o SelectSeq([i \in DOMAIN runs |-> i], LAMBDA i : runs[i] > 100) \o <<Len(runs) + 1>>
      between == [k \in 1 .. Len(gaps) - 1 |-> SubSeq(runs, gaps[k] + 1, gaps[k + 1] - 1)]
  IN  SelectSeq(between, LAMBDA segment : segment # <<>>)

pilot_of(segment) ==
  Max({p \in 0 .. Len(segment) : \A i \in 1 .. p : segment[i] \in 24 .. 30})
\* The whole bytes after the syncs; the sender's trailing pulse is not part of one.
data_pulses(segment) ==
  LET rest == SubSeq(segment, pilot_of(segment) + 3, Len(segment))
  IN  SubSeq(rest, 1, (Len(rest) \div 16) * 16)
decodes(segment) ==
  LET p == pilot_of(segment)  ds == data_pulses(segment) IN
  /\ p >= MIN_PILOT /\ Len(segment) >= p + 2
  /\ \A i \in {p + 1, p + 2} : segment[i] \in 7 .. 10
  /\ \A i \in 1 .. Len(ds) \div 2 :
       LET a == ds[2 * i - 1]  b == ds[2 * i] IN
       a - b \in -2 .. 2 /\ (a + b \in 18 .. 24 \/ a + b \in 40 .. 46)
\* (Mutant of decoded: the low bit comes first.)
decodedReversed(segment) ==
  LET ds == data_pulses(segment)
      bit(i) == IF ds[2 * i - 1] + ds[2 * i] >= 32 THEN 1 ELSE 0
  IN  [n \in 1 .. Len(ds) \div 16 |->
        FoldLeft(LAMBDA v, k : 2 * v + bit(8 * n - k + 1), 0, [k \in 1 .. 8 |-> k])]

decoded(segment) ==
  LET ds == data_pulses(segment)
      bit(i) == IF ds[2 * i - 1] + ds[2 * i] >= 32 THEN 1 ELSE 0
  IN  [n \in 1 .. Len(ds) \div 16 |->
        FoldLeft(LAMBDA v, k : 2 * v + bit(8 * (n - 1) + k), 0, [k \in 1 .. 8 |-> k])]

Failed == <<"assertion">>
decode_blocks(runs) ==
  LET ss == segments(runs)
  IN  IF \A i \in DOMAIN ss : decodes(ss[i]) THEN [i \in DOMAIN ss |-> decoded(ss[i])] ELSE Failed

\* main(): the fixture is one program of that name and contents, both checksums valid.
fixture_valid(packed, name, source, autostart) ==
  LET blocks == decode_blocks(sample_runs(packed)) IN
  /\ blocks # Failed /\ Len(blocks) = 2
  /\ LET header == blocks[1]  data == blocks[2] IN
     /\ Len(header) = Len(name) + 9 /\ header[1] = 0
     /\ Len(data) >= 1 /\ data[1] = 255
     /\ Front(header) = <<0>> \o header_payload(0, name, Len(source), autostart, Len(source))
     /\ Len(data) = Len(source) + 2 /\ SubSeq(data, 2, Len(data) - 1) = source
     /\ Parity(header) = 0 /\ Parity(data) = 0

-----------------------------------------------------------------------------
(* The record formats of program text: preload_gen.py, debug_suite_run.py, tape_synth.py.  A *)
(* line is a sequence of characters below 256.                                               *)

CR == 13
record(line) == little(Len(line) + 1) \o Append(line, CR)
source_records(lines) == FlattenSeq([i \in DOMAIN lines |-> record(lines[i])])
\* preload_gen.encode_program refuses what the editor's buffer could not hold; limit is 126.
encode_program(lines, limit) ==
  IF \E i \in DOMAIN lines : Len(lines[i]) > limit THEN Failed ELSE source_records(lines)
\* main() of preload_gen.py skips blank lines and listing comments before it encodes.
listed(lines, blank(_)) == SelectSeq(lines, LAMBDA l : ~blank(l))
=============================================================================
