SPECIFICATION Spec
CONSTANTS
    Programs <- DirectionPrograms
    EMULATOR_MEMORY_SIZE = 8
    ASSERT_ENABLED = TRUE
PROPERTY DirectionBitNamesTheDestination
CHECK_DEADLOCK FALSE
