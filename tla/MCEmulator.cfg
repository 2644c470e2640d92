SPECIFICATION Spec
CONSTANTS
    Programs <- AllPrograms
    EMULATOR_MEMORY_SIZE = 8
    ASSERT_ENABLED = TRUE
INVARIANTS
    TypeOK
    StopsAtTheEnd
PROPERTIES
    ImplementsMachine
    ByteInstructionsChangeOneByte
    OnlyArithmeticSetsFlags
    TraceTellsTheStep
CHECK_DEADLOCK FALSE
