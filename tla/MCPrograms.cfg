\* Two programs on two lines, each with at most one fault.
SPECIFICATION Spec
CONSTANTS
    Byte = 8
    Nibble = 4
    Lines = 2
    MaxPrograms = 2
    MaxFaults = 1
INVARIANTS
    AnsweredMeansSet
    
    NoTroubleNoTrace
    OneLossLeavesNoSpin
    ProfileIsPrefix
CHECK_DEADLOCK FALSE
