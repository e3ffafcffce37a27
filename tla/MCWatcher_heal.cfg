SPECIFICATION WSpec
CONSTANTS
    a = a
    b = b
    c = c
    n = n
    def = def
    use = use
    blank = blank
    File = {a, b, c}
    Content = {def, use, blank}
    Name = {n}
    Defs <- MCDefs
    Calls <- MCCalls
    Versions <- MCVersions
    Before <- MCBefore
    Kinds = {"index", "force"}
    ScopeThreshold = 2
    Faults = {}
    MaxEdits = 1
    MaxFaults = 0
    Callers = {}
    HealThreshold = 2
    MaxCalls = 0
    Absent = Absent
    None = None
CHECK_DEADLOCK FALSE
PROPERTIES
    Converges
