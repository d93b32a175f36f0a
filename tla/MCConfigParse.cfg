SPECIFICATION Spec

CONSTANTS
    MaxLength = 6
    Modulus = 256
    Texts <- MCTexts
    Key <- MCKey
    Digits <- MCDigits

INVARIANTS
    InsideText
    HexAsWritten
    StringAsWritten
