SPECIFICATION FairSpec
CONSTANTS
    a = a
    b = b
    nul = nul
    Null = nul
    FifoSize = 1
    Chars <- MC_Chars
    RxFrames <- MC_NoFrames
    MR1Values <- MC_TxMR1
    MR2Values <- MC_TxMR2
    CRValues <- MC_TxCR
    ClockSelects <- MC_Clocks
INVARIANTS TxHandshake
PROPERTIES TxBufferBehindShift TxImplementsPipe TxLossNeedsInterruption TxStaysReadyOrBusy TxBufferDrains TxRdyRecovers
