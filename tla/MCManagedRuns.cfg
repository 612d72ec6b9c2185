SPECIFICATION FairSpec
CONSTANTS
    plan = plan
    work = work
    gate = gate
    review = review
    Nodes <- MCNodes
    Dependencies <- MCDependencies
    Join <- MCJoin
    Graphs = {plan}
    GraphOf <- MCGraphOf
    Manual <- MCManual
    Bounces <- MCBounces
    Cap <- MCCap
    MaxConcurrent = 2
    MaxLaunched = 3
    RetryStopping = FALSE
    MaxGeneration = 1
CHECK_DEADLOCK FALSE
INVARIANTS
    TypeOK
    
    RunningHasDriver
    ParkedMeansQuiet
PROPERTIES
    FenceWins
    DriversConclude
    CallsReturn
