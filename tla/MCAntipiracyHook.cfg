SPECIFICATION Spec

CONSTANTS
    Modules <- MCModules
    RamEnd = 112
    MaxDepth = 6
    Habits <- MCHabits

INVARIANTS
    ControlIntact
    StopScreenNever

PROPERTIES
    OrdinaryCallsEnter
    CheckEnds
