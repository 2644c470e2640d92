SPECIFICATION Spec
CONSTANTS
    Programs <- LoadPrograms
    EMULATOR_MEMORY_SIZE = 8
    ASSERT_ENABLED = TRUE
PROPERTY AccumulatorAddressIsItsData
CHECK_DEADLOCK FALSE
