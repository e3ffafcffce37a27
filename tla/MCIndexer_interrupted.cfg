SPECIFICATION Spec
CONSTANTS
    a = a
    b = b
    c = c
    n = n
    m = m
    def = def
    use = use
    blank = blank
    File = {a, b, c}
    Content = {def, use, blank}
    Name = {n, m}
    Defs <- MCDefs
    Calls <- MCCalls
    Versions <- MCVersions
    Before <- MCBefore
    Kinds = {"index", "force", "heal"}
    ScopeThreshold = 2
    Faults = {"crash"}
    MaxEdits = 0
    MaxFaults = 1
    Absent = Absent
    None = None
INVARIANTS
    StampMeansIndexed
