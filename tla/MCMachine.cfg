SPECIFICATION FairSpec
CONSTANTS
    Programs <- StraightPrograms
    MemorySize = 8
    IpValues = 9
PROPERTIES
    ShortProgramsEnd
    FullProgramsStartOver
CHECK_DEADLOCK FALSE
