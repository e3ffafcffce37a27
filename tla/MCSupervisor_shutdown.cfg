SPECIFICATION Spec
CONSTANTS
    r1 = r1
    p1 = p1
    p2 = p2
    Request = {r1}
    ProbeId = {p1}
    PipeCap = 2
    MaxRestarts = 1
    None = None
CHECK_DEADLOCK FALSE
PROPERTIES
    ShutdownCompletes
