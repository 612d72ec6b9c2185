CONSTANTS
    x = x
    y = y
    f = f
    g = g
    inner = inner
    outer = outer
    Agents = {x, y}
    Assignments = {1, 2, 3}
    AttemptOf <- MCAttemptOf
    Files = {f, g}
    Resources <- MCResources
    Editors = {inner, outer}
    AgentOf <- MCAgentOf
    MaxClaims = 3
    MaxRequests = 1
    MaxTransfers = 1
    MaxEdits = 2
    MaxUses = 4
    MaxOutside = 1
    MaxFaults = 2
SPECIFICATION FairSpec
INVARIANT ValidSwarm
INVARIANT NothingOutlives
INVARIANT NoForeignWrite
 
 
PROPERTY EditsEnd
CHECK_DEADLOCK FALSE
