SPECIFICATION ResourceSpec
CONSTANTS
    watcher = watcher
    tool = tool
    cli = cli
    server = server
    shell = shell
    Caller <- MCCaller
    Process <- MCProcess
    ProcOf <- MCProcOf
    NoFile = NoFile
    Gone = Gone
    Reused = Reused
    f1 = f1
    f2 = f2
    f3 = f3
    Source <- MCSource
    Hard <- MCHard
    Unlocked = Unlocked
    Lang <- MCLang
    Dir <- MCDir
    Stem <- MCStem
    Fixture = {"fix"}
    VarFile = {"cfg"}
    Roots <- MCRoots
    Stdlib = {"os"}
    Polymorphic = {"String"}
    Pointer <- MCPointer
    Bare <- MCBare
    Foreign = {}
    NoType = NoType
    NoStem = NoStem
    External <- MCExternal
    Synthetic <- MCSynthetic
    Symbols <- MCSymbols
    Fields <- MCFields
    BindQuestion <- MCQuestion
    Unasked = Unasked
INVARIANTS
    FlagIsExact
    ResolveAgrees
    CallsAreMeant
    ExclusionUnlessRobbed
    SlowerNeverWrong
PROPERTIES
    CrashedHolderReclaimed
    EveryCallReturns
