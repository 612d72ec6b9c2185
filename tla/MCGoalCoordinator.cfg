CONSTANTS
    p = p
    x = x
    y = y
    a = a
    b = b
    Goals = {p, x, y}
    Agents = {a, b}
    Holders = {}
    Target <- MCTarget
    Class <- MCClass
    RetrySafe = {}
    NeedsApproval = {}
    MaxAttempts <- MCMaxAttempts
    Pairs <- MCPairs
    Kinds = {"approved"}
    MaxEpoch = 0
SPECIFICATION Spec
INVARIANT Consistent
 
PROPERTY HistoryIsKept
CHECK_DEADLOCK FALSE
