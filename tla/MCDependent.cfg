CONSTANTS
    p = p
    x = x
    a = a
    Goals = {p, x}
    Agents = {a}
    Holders = {}
    Target <- MCTarget
    Class <- MCClass
    RetrySafe = {}
    NeedsApproval = {}
    MaxAttempts <- MCMaxAttempts
    Pairs <- MCPairs
    Kinds = {"success"}
    MaxEpoch = 1
    Faults = {"dispatch", "fsync"}
SPECIFICATION DaemonSpec
PROPERTY DependentWaits
CHECK_DEADLOCK FALSE
