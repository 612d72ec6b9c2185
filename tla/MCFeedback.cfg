SPECIFICATION Spec
CONSTANTS
    work = work
    gate = gate
    publish = publish
    owner = owner
    ann = ann
    Nodes <- MCNodes
    Agents <- MCAgents
    Owner <- owner
    Edges <- MCEdges
    MaxAttempts <- MCMaxAttempts
    RequiredLevel <- MCRequiredLevel
    ReviewNodes <- MCReviewNodes
    Reports <- MCReports
    BlockFrom = {}
    MaxNumber = 2
    MaxHandoffs = 1
CHECK_DEADLOCK FALSE
PROPERTIES
    BounceReachesConsumers
