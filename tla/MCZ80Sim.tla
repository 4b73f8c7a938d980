------------------------------ MODULE MCZ80Sim ------------------------------
(* Small instance of Z80Sim: four lines, labels in DE and HL, one data cell. *)
EXTENDS Z80Sim

I(mn, x, y, n) == [mn |-> mn, x |-> x, y |-> y, n |-> n]
Cell == 32768

MCPool ==
  { I("ld16l", "DE", "", 3), I("ld16l", "HL", "", 2), I("ld16n", "HL", "", Cell),
    I("ld16m", "HL", "", Cell), I("st16", "HL", "", Cell), I("ld8n", "D", "", 9),
    I("push", "DE", "", 0), I("pop", "HL", "", 0), I("popaf", "", "", 0),
    I("exx", "", "", 0), I("exdehl", "", "", 0), I("add16", "BC", "", 0),
    I("dec8", "B", "", 0), I("rl", "C", "", 0),
    I("jphl", "", "", 0), I("call", "", "", 2), I("retc", "nz", "", 0), I("ret", "", "", 0),
    I("djnz", "", "", 0), I("callout", "", "", 0), I("ldir", "", "", 0), I("out", "", "", 7) }

MCScripts == << [A |-> 1, HL |-> Cell], [A |-> 0, HL |-> 3] >>

Marking == [NewSim EXCEPT !.regs.B = 1, !.alt_regs.H = 128,
                         !.tuple_regs16 = [p \in {"HL"} |-> RETIDX(1)],
                         !.alt_tuple_regs16 = [p \in {"DE"} |-> RETIDX(2)]]
Debugged == build_state([NewSim.regs EXCEPT !.C = 1, !.H = 128], 65, 7, 1, [a \in {Cell} |-> 2])
MCSeeds == {Marking, Debugged}
MCRanges == Cell..(Cell + 3)
=============================================================================
