SPECIFICATION Spec

CONSTANTS
    european = european
    american = american
    vandal = vandal
    huge = huge
    kuseg = kuseg
    invalid = invalid
    short = short
    Discs = {european, american, vandal, huge, kuseg, invalid, short}
    NoDisc = NoDisc
    Unset = Unset
    SoftUart = TRUE
    Consoles <- MCConsoles
    ConfWords <- MCConfWords
    BootFiles <- MCBootFiles
    Region <- MCRegion
    SystemCnf <- MCSystemCnf
    Executable <- MCExecutable
    Strays <- MCStrays

INVARIANTS
    IInv
    KernelNeverTorn
    CdHandlerOnce
    ReadsCanFinish
    PollingUndisturbed
    SavedHandlerGenuine
    ReadErrorsReturn
    HandlesInUse
    LaunchClean
    LaunchCoherent
    LoaderSpared
    UartAlive

PROPERTIES
    ImplementsPromise
