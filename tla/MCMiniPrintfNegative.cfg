SPECIFICATION Spec

CONSTANTS
    MaxLength = 2
    Formats <- MCFormats
    Ints <- MCInts
    HexDigits = 2
    Buffer = 3

INVARIANTS
    DigitsAreDigits
