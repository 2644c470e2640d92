SPECIFICATION Spec
CONSTANTS
    Programs <- ControlPrograms
    EMULATOR_MEMORY_SIZE = 8
    ASSERT_ENABLED = TRUE
PROPERTY CountedProgramsEnd
CHECK_DEADLOCK FALSE
