SPECIFICATION Spec
CONSTANTS
    Hosts <- MC_Hosts
    SectorSize = 2
    MaxSectors = 3
    AddrSpace = 3
    DiagTime = 2
    CommandTime = 1
    IntWrap = 5
    Byte = 4
    HeadSize = 3
CHECK_DEADLOCK FALSE
INVARIANTS TypeOK BusyTimed BufferInBounds SelectionSound DiagnosisRight TransferInOrder InterruptSchedule
PROPERTIES WakesOnlyWaiter NoSilentEnd BusyEnds
