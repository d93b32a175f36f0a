SPECIFICATION Spec

CONSTANTS
    european = european
    american = american
    vandal = vandal
    huge = huge
    kuseg = kuseg
    invalid = invalid
    short = short
    Discs = {european, kuseg}
    NoDisc = NoDisc
    Unset = Unset
    SoftUart = TRUE
    Consoles <- OneConsole
    ConfWords <- MCConfWords
    BootFiles <- MCBootFiles
    Region <- MCRegion
    SystemCnf <- MCSystemCnf
    Executable <- MCExecutable
    Strays <- MCStrays

INVARIANTS
    OverlapUsesLoadAndExecute
