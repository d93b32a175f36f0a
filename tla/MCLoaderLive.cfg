SPECIFICATION FairSpec

CONSTANTS
    european = european
    american = american
    vandal = vandal
    huge = huge
    kuseg = kuseg
    invalid = invalid
    short = short
    Discs = {european, huge, kuseg}
    NoDisc = NoDisc
    Unset = Unset
    SoftUart = TRUE
    Consoles <- OneConsole
    ConfWords <- MCConfWords
    BootFiles <- MCBootFiles
    Region <- MCRegion
    SystemCnf <- MCSystemCnf
    Executable <- MCExecutable
    Strays <- MCStrays

PROPERTIES
    LidIsSeen
    AttemptEnds
