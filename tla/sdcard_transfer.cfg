SPECIFICATION MCSpec
CONSTANTS
    MaxBlk = 2
    DefaultBlk = 2
    RegSize = 1
    Hosts <- MC_Transfers
    CmdUnits <- MC_CmdUnits
    DataUnits <- MC_DataUnits
    Images <- MC_Images
    LbaLimit = 2
    HotSwap = FALSE
CHECK_DEADLOCK FALSE
INVARIANTS ReplyBeforeData WriteInBounds PartialOnlyOnV2 OnlyWriteMeetsNoImage
PROPERTIES SdImplementsStore
