CONSTANTS
    p = p
    x = x
    a = a
    Goals = {p, x}
    Agents = {a}
    Holders = {graph}
    Target <- MCTarget
    Class <- MCClass
    RetrySafe = {x}
    NeedsApproval = {x}
    MaxAttempts <- MCMaxAttempts
    Pairs <- MCPairs
    Kinds = {"success"}
    MaxEpoch = 1
SPECIFICATION Spec
INVARIANT TypeOK
INVARIANT OutboxIsCurrent
INVARIANT VerificationIsExclusive
PROPERTY ImplementsLeases
CHECK_DEADLOCK FALSE
