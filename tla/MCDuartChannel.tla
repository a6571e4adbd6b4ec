--------------------------- MODULE MCDuartChannel ---------------------------
(* Instances of DuartChannel for TLC: the firmware's vocabulary per run. *)
EXTENDS DuartChannel

CONSTANTS a, b, nul

MC_Chars  == {a, nul}
MC_Frames == {[char |-> a, errs |-> {}], [char |-> b, errs |-> {"FE"}]}
MC_RxChars == {a, b, nul}
MC_NoFrames == {}

CRByte(cmd, bits) == [cmd |-> cmd, rxon |-> "rxon" \in bits,
    rxoff |-> "rxoff" \in bits, txon |-> "txon" \in bits,
    txoff |-> "txoff" \in bits]

\* Receiver commands; break is looped back, so it needs no transmitter.
MC_RxCR == {CRByte(c, {}) : c \in {2, 4, 6}} \cup
           {CRByte(0, {"rxon"}), CRByte(0, {"rxoff"}), CRByte(2, {"rxon"})}

\* Transmitter commands, alone and combined with a transmitter reset.
MC_TxCR == {CRByte(c, {}) : c \in {0, 1, 3, 5, 8}} \cup
           {CRByte(0, {"txon"}), CRByte(0, {"txoff"}), CRByte(3, {"txon"}),
            CRByte(0, {"txon", "txoff"}), CRByte(8, {"txon"})}

MR1Byte(ffull, blk, w) ==
    [rxint |-> ffull, block |-> blk, word |-> w, parity |-> "none"]

MC_RxMR1 == {MR1Byte(i, e, 8) : i \in BOOLEAN, e \in BOOLEAN}
MC_TxMR1 == {MR1Byte(FALSE, FALSE, 5)}
MC_RxMR2 == {[mode |-> m, stop |-> 1] : m \in {"normal", "loopback"}}
MC_TxMR2 == {[mode |-> m, stop |-> 1] : m \in Modes}
MC_SafeMR2 == {[mode |-> m, stop |-> s] : m \in TransmitModes, s \in 1..2}

MC_Brg    == {"brg"}
MC_Clocks == {"brg", "timer"}
=============================================================================
