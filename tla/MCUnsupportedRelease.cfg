SPECIFICATION Spec
CONSTANTS
    Programs <- UnsupportedPrograms
    EMULATOR_MEMORY_SIZE = 8
    ASSERT_ENABLED = FALSE
PROPERTY UnsupportedInstructionEndsTheRun
CHECK_DEADLOCK FALSE
