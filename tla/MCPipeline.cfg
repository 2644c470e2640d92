SPECIFICATION PipelineSpec
CONSTANTS
    Inputs <- Files
    StrayBytes = {0}
    ASSERT_ENABLED = TRUE
    Options = {"NONE", "HEX", "SIGNED", "UNSIGNED"}
    LabelNumbers = 65536
    CommandLines <- AllCommandLines
    MEGABYTE = 8
    EMULATOR_MEMORY_SIZE = 8
    Programs = {}
    BUFFER_LINES = 4
INVARIANTS
    PipelineTypeOK
    DumpRangeIsOrdered
    RefusedForAReason
    DumpIsAlone
    TraceLeadsToTheFinalRegisters
    TablesAreOverrunForACause
    ListingMeansWhatRuns
PROPERTY PipelineEnds
CHECK_DEADLOCK FALSE
