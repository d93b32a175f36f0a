SPECIFICATION Spec

CONSTANTS
    Modules <- MCModules
    RamEnd = 112
    MaxDepth = 6
    Habits <- Careless

PROPERTIES
    OthersUseOriginalCode

CHECK_DEADLOCK FALSE
