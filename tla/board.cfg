SPECIFICATION Spec
CONSTANTS
    W = 3
    Replies <- MC_Replies
    MaxBits = 6
    Window = 2
    Banks = {0, 1}
INVARIANTS BytesIntact ReplyAligned OneBusError BankSurvivesIrq
