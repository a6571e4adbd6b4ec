SPECIFICATION Spec
CONSTANTS
    WiredIPs <- MC_IPs
    WiredBits <- MC_Bits
    ACRValues <- MC_ACR
    IMRValues <- MC_IMR
    OPCRValues <- MC_OPCR
    OPMasks <- MC_OP
PROPERTY ResetStopsTimer
