SPECIFICATION MCSpec
CONSTANTS
    MaxBlk = 2
    DefaultBlk = 1
    RegSize = 1
    Hosts <- MC_Sessions
    CmdUnits <- MC_CmdUnits
    DataUnits <- MC_DataUnits
    Images <- MC_Images
    LbaLimit = 1
    HotSwap = TRUE
CHECK_DEADLOCK FALSE
INVARIANTS ReplyFits
