SPECIFICATION DisassemblerSpec
CONSTANTS
    Alphabet = {}
    MaxBytes = 0
    Inputs <- ImmediateInputs
    StrayBytes = {0}
    ASSERT_ENABLED = TRUE
    Options = {"NONE"}
    LabelNumbers = 65536
INVARIANT WordImmediatesAreListed
CHECK_DEADLOCK FALSE
