SPECIFICATION Spec

CONSTANTS
    Loops = 12
    SettleTime = 9

INVARIANTS
    RedOnlyByCard

PROPERTIES
    EntryEnds
