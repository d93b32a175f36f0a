SPECIFICATION Spec

CONSTANTS
    MaxLength = 4
    Formats <- MCFormats
    Ints <- MCInts
    HexDigits = 2
    Buffer = 3

INVARIANTS
    InBounds
    NumbersReadBack

PROPERTIES
    Returns
