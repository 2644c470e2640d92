SPECIFICATION DisassemblerSpec
CONSTANTS
    Alphabet <- JumpAlphabet
    MaxBytes = 6
    Inputs <- JumpInputs
    StrayBytes = {0, 2}
    ASSERT_ENABLED = FALSE
    Options = {"NONE"}
    LabelNumbers = 2
INVARIANTS
    OnlyTheLastOverruns
    LabelsAreTargets
    JumpsFindTheirLabel
    LabelsMarkTheirTargets
PROPERTIES
    LabelsAreStable
    DisassemblyEnds
CHECK_DEADLOCK FALSE
