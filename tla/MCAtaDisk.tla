----------------------------- MODULE MCAtaDisk -----------------------------
(* Instances of AtaDisk for TLC. *)
EXTENDS AtaDisk, AtaAddress

\* Over every geometry and every address of the small registers.
ASSUME ConsecutiveSectors

Control(s, n) == [srst |-> s, nien |-> n]
Srst == {Control(FALSE, FALSE), Control(TRUE, FALSE)}

\* One disk and transfers of every length, in blocks of every size, by a host
\* that writes the task file whenever it likes.
MC_Transfers ==
    [slots |-> {0},
     commands |-> {"read", "readmul", "write", "writemul", "verify", "writedma",
                   "setblock"},
     counts |-> 0..(MaxSectors - 1), addresses |-> {1},
     controls |-> {}, patient |-> FALSE, resets |-> 0]

\* One disk and the commands that move one sector or none.
MC_Others ==
    [slots |-> {0},
     commands |-> {"readbuf", "readdma", "writebuf", "identify", "disablepw",
                   "idle", "unknown"} \cup Features,
     counts |-> {}, addresses |-> {},
     controls |-> {}, patient |-> FALSE, resets |-> 0]

\* One disk, reset in the middle of anything.
MC_Resets ==
    [slots |-> {0}, commands |-> {"write", "disablepw", "diagnostic"},
     counts |-> {}, addresses |-> {},
     controls |-> Srst, patient |-> FALSE, resets |-> 1]

\* Two disks, selected in turn and reset in every way, before and after the
\* diagnostic.
MC_PairResets ==
    [slots |-> {0, 1}, commands |-> {"recalibrate", "diagnostic"},
     counts |-> {}, addresses |-> {},
     controls |-> Srst \cup {Control(FALSE, TRUE)}, patient |-> TRUE, resets |-> 1]

\* Two disks, left and reselected in the middle of a data phase.
MC_PairData ==
    [slots |-> {0, 1}, commands |-> {"disablepw"},
     counts |-> {}, addresses |-> {},
     controls |-> Srst, patient |-> TRUE, resets |-> 0]

MC_Hosts == {MC_Transfers, MC_Others, MC_Resets, MC_PairResets, MC_PairData}
=============================================================================
