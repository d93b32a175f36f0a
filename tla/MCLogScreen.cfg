SPECIFICATION Spec

CONSTANTS
    Messages <- MCMessages
    LogLines = 3
    ScreenHeight = 130
    SignBit = 12
    MaxRepeats = 13

INVARIANTS
    HeadingStands
    BuffersHold

PROPERTIES
    ScreenIsBook
