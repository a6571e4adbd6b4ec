SPECIFICATION Spec
CONSTANTS
    Ordinary = {"x"}
    Settings <- MC_Settings
    MaxInput = 4
INVARIANTS PollOrSend StreamConverted
PROPERTIES FlowHolds InputMoves
