SPECIFICATION Spec
CONSTANTS
    old = old
    new = new
    canon = canon
    alias = alias
    former = former
    Proc = {new}
    Knows <- MCKnows
    Binary <- MCBinary
    Migration <- MCMigration
    Id = {canon}
    Canon = canon
    Key = {1}
    Projects0 <- NoProjects
    Versions0 = {0, 2}
    Attempts = 2
    Closure = FALSE
    MaxFaults = 1
    None = None
INVARIANT MigrateIsIdempotent
