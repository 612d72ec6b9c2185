SPECIFICATION Spec
CONSTANTS
    left = left
    right = right
    m = m
    n = n
    Nodes <- MCNodes
    Dependencies = {}
    Join <- MCJoin
    Graphs = {left, right}
    GraphOf <- MCGraphOf
    Manual = {}
    Bounces = {}
    Cap <- MCCap
    MaxConcurrent = 1
    MaxLaunched = 1
    RetryStopping = FALSE
    MaxGeneration = 0
CHECK_DEADLOCK FALSE
PROPERTY OnlyAbandonedIsInterrupted
