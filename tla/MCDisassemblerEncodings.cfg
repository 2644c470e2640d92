SPECIFICATION DisassemblerSpec
CONSTANTS
    Alphabet = {}
    MaxBytes = 0
    Inputs <- EncodingInputs
    StrayBytes = {0}
    ASSERT_ENABLED = TRUE
    Options = {"NONE", "HEX", "SIGNED", "UNSIGNED"}
    LabelNumbers = 65536
INVARIANTS
    DecoderTypeOK
    EncoderTypeOK
    Lossless
    NumbersReadBack
CHECK_DEADLOCK FALSE
