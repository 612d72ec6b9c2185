SPECIFICATION UncheckedSpec
CONSTANTS
    work = work
    gate = gate
    owner = owner
    ann = ann
    bob = bob
    Nodes <- MCNodes
    Agents <- MCAgents
    Owner <- owner
    Edges <- MCEdges
    MaxAttempts <- MCMaxAttempts
    RequiredLevel <- MCRequiredLevel
    ReviewNodes <- MCReviewNodes
    Reports <- MCReports
    BlockFrom = {"Pending", "Failed"}
    MaxNumber = 2
    MaxHandoffs = 2
SYMMETRY WorkerSymmetry
CHECK_DEADLOCK FALSE
INVARIANTS
    TypeOK
    Valid
    ExclusiveAttempt
    LiveAssignmentOwnsAttempt
    StatusAgreesWithVerdict
    LaterHandoffOutranks
    ProducerHeldTheAttempt
    NotifiedOnce
PROPERTIES
    ResultsAreFinal
