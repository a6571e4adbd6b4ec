SPECIFICATION Spec
CONSTANTS
    a = a
    b = b
    nul = nul
    Null = nul
    FifoSize = 2
    Chars <- MC_RxChars
    RxFrames <- MC_Frames
    MR1Values <- MC_RxMR1
    MR2Values <- MC_RxMR2
    CRValues <- MC_RxCR
    ClockSelects <- MC_Brg
INVARIANT RxRdyTracksFifo
