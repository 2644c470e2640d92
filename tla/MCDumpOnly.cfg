SPECIFICATION PipelineSpec
CONSTANTS
    Inputs <- Files
    StrayBytes = {0}
    ASSERT_ENABLED = TRUE
    Options = {"NONE", "HEX", "SIGNED", "UNSIGNED"}
    LabelNumbers = 65536
    CommandLines <- AllCommandLines
    MEGABYTE = 8
    EMULATOR_MEMORY_SIZE = 8
    Programs = {}
    BUFFER_LINES = 4
INVARIANT DumpMemoryTurnsOutputOff
CHECK_DEADLOCK FALSE
