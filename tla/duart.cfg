SPECIFICATION FairSpec
CONSTANTS
    WiredIPs <- MC_IPs
    WiredBits <- MC_Bits
    ACRValues <- MC_ACR
    IMRValues <- MC_IMR
    OPCRValues <- MC_OPCR
    OPMasks <- MC_OP
INVARIANTS IrqIsLevel IpChangeConsistent TimerModeTicks PinsFollowOPR
PROPERTIES TickRecurs
