CONSTANTS
    p = p
    x = x
    a = a
    Goals = {p, x}
    Agents = {a}
    Holders = {}
    Target <- MCTarget
    Class <- MCClass
    RetrySafe = {p}
    NeedsApproval = {}
    MaxAttempts <- MCMaxAttempts
    Pairs <- MCPairs
    Kinds = {"success"}
    MaxEpoch = 1
    Faults = {"dispatch", "fsync"}
SPECIFICATION FairDaemonSpec
 
PROPERTY ReportEndsRun
PROPERTY LateTurnIsHarmless
PROPERTY QueueDrains
CHECK_DEADLOCK FALSE
