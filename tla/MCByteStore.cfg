SPECIFICATION Spec
CONSTANTS
    Programs <- StorePrograms
    EMULATOR_MEMORY_SIZE = 8
    ASSERT_ENABLED = TRUE
PROPERTY ByteStoreGoesToItsAddress
CHECK_DEADLOCK FALSE
