CONSTANTS
    FactoryPrograms = {kefir}
    UserPrograms = {own}
    NoProgram = none
    Pages <- MCPages
    Boots <- MCBoots
    PinDigits = 1
    HoldTicks = 2
    MaxDepth = 6
    MaxEdits = 1
    MaxWorld = 1
SPECIFICATION PanelSpec
PROPERTIES ResetDeliberate RunningProgramKept
CHECK_DEADLOCK FALSE
