SPECIFICATION CalmSpec
CONSTANTS
    watcher = watcher
    tool = tool
    cli = cli
    server = server
    shell = shell
    Caller <- MCCaller
    Process <- MCProcess
    ProcOf <- MCProcOf
    NoFile = NoFile
    Gone = Gone
    Reused = Reused
INVARIANTS
    MutualExclusion
