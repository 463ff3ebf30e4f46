\* Two daemons and two setups, two configuration files.
SPECIFICATION Spec
CONSTANTS
    None = None
    Empty = Empty
    s1 = s1
    s2 = s2
    Daemons = {d1, d2}
    Setups = {s1, s2}
    Given = "given"
    Requests <- MCRequests
    HandWritten <- MCHandWritten
    Paths <- MCPaths
    Fallbacks <- MCFallbacks
    Nets <- MCNets
    KeyOf <- MCKeyOf
SYMMETRY Symmetry
INVARIANTS
    OneDaemonUnlessRaced
    StaleFileExplained
    RunsAsEntered
    PrintedKeyOpens
CHECK_DEADLOCK FALSE
