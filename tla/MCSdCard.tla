------------------------------ MODULE MCSdCard ------------------------------
(* Instances of SdCard for TLC.  A run has several kinds of host; a         *)
(* behaviour has one of them, with its vocabulary and its images.           *)
EXTENDS SdCard

\* The capacity register, for sizes on both sides of every limit.
Csd == INSTANCE SdCsd
CsdSizes == {256, 512, 768, 1024, 2048, 4096}
CsdBlocks ==
    0..600 \cup {2^e : e \in 0..28}
    \cup {m * 2^e : m \in {3, 5, 255, 1023, 2047, 4093, 4095, 4097}, e \in 0..16}
    \cup {m * 2^e : m \in {32767, 65535, 65537}, e \in 0..12}
ASSUME Csd!CsdReportsCapacity(CsdBlocks, CsdSizes)

CONSTANT Hosts
VARIABLE host

Kind(bs, t, n) == [blksize |-> bs, type |-> t, blocks |-> n]
Cmd(c) == 64 + c

\* An SD card, one of each type, and two sector sizes.
MC_V2    == {Kind(2, "V2", 1)}
MC_Types == {Kind(2, "V2", 1), Kind(2, "HC", 1)}
MC_Sizes == {Kind(1, "V2", 1), Kind(2, "V2", 1)}

\* Writing, with the transfer length changed in between.  254 is the token, and
\* data too.
MC_Writer == [units |-> {0, 1, Cmd(16), Cmd(24)}, data |-> {254, 7},
              kinds |-> MC_V2]

\* Reading: single blocks, whole or partial, of either type of card, and
\* multiple blocks, broken off by other commands.
MC_Reader == [units |-> {0, 1, Cmd(16), Cmd(17)}, data |-> {},
              kinds |-> MC_Types]
MC_Streamer == [units |-> {0, 1, Cmd(12), Cmd(16), Cmd(18)}, data |-> {},
                kinds |-> MC_Types]

\* Writing past the end of an image that can grow.
MC_Grower == [units |-> {0, 1, Cmd(24)}, data |-> {254, 7},
              kinds |-> {Kind(1, "HC", 1)}]

\* Block writes the user changes the image under.
MC_Swapper == [units |-> {0, Cmd(24)}, data |-> {254}, kinds |-> MC_Sizes]

\* Initialisation and registers, and a command the card does not know.
MC_Initialiser ==
    [units |-> {255, 0} \cup {Cmd(c) : c \in {0, 6, 9, 12, 41, 55, 59}},
     data |-> {}, kinds |-> MC_Types]

MC_Transfers == {MC_Writer, MC_Reader, MC_Streamer, MC_Grower}
MC_Sessions  == {MC_Swapper, MC_Initialiser}

MC_CmdUnits  == UNION {h.units : h \in Hosts}
MC_DataUnits == UNION {h.data : h \in Hosts}
MC_Images    == UNION {h.kinds : h \in Hosts}

MCInit ==
    /\ Init
    /\ host \in Hosts
    /\ mounted => \E k \in host.kinds : m_type = k.type /\ m_blksize = k.blksize
MCNext == CardStep(host.units, host.data, host.kinds) /\ UNCHANGED host
MCSpec == MCInit /\ [][MCNext]_<<vars, host>>
=============================================================================
