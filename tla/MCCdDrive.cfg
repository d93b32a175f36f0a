SPECIFICATION FairSpec

CONSTANTS
    DriveRegions = {"Europe", "U/C", "NETEU", "NETNA", "Japan"}
    Leftovers <- MCLeftovers
    MaxOpenings = 3

INVARIANTS
    UnlockSound
    RequestsIntact
    SwapIsReal
    ReplyRead
    ReplyFits

PROPERTIES
    CommandsAnswered
    SwapNoticed
