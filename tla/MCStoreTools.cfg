SPECIFICATION AllSpec
CONSTANTS
    old = old
    new = new
    canon = canon
    alias = alias
    former = former
    Proc = {old, new}
    Knows <- MCKnows
    Binary <- MCBinary
    Migration <- MCMigration
    Id = {canon, alias, former}
    Canon = canon
    Key = {1}
    Projects0 <- MCProjects0
    Versions0 = {0, 2}
    Attempts = 2
    Closure = TRUE
    MaxFaults = 2
    None = None
    Null = Null
    TraceQuestion <- MCTraces
    MatchQuestion <- MCMatches
    QueryQuestion <- MCQueries
    EditQuestion <- MCEdits
    ImpactQuestion <- MCImpacts
    ListQuestion <- MCListings
    WordQuestion <- MCWords
    MistakeQuestion <- MCMistakes
    Symbols <- MCSymbolsOf
    SearchQuestion <- MCSearchQuestions
    Beginnings <- MCBeginnings
    Canonical <- MCCanonical
    Stubs = {"Elm"}
    RowKeys = {"id", "name", "kind", "language", "project_id", "extraction_confidence", "snippet"}
    Crowd = 1
    CrowdFiles = 1
    DefaultLimit = 2
    LimitCap = 3
    OffsetCap = 4
    Budget = 6
    Enough = 2
    MaxRows = 2
INVARIANTS
    VersionIsEarned
    ProjectsAddUp
    WalksAgree
    QueryIsExact
    ChangesAreComplete
    ListsAreWhole
    QueryIsHeard
    MistakesAreNamed
    SilenceIsExplained
PROPERTIES
    MergeLosesNoKey
    StampNeverGoesBack
