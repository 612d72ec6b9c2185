CONSTANTS
    n = n
    e = e
    u = u
    NCallers = 2
    Items = {n, e, u}
    Kind <- MCKind
    MaxFaults = 1
SPECIFICATION FairSpec
INVARIANT TypeOK
INVARIANT CommittedIsStored
INVARIANT DeliveredIsKept
INVARIANT CopiesAreBounded
INVARIANT RequestIsWellFormed
PROPERTY QueuedIsTaken
CHECK_DEADLOCK FALSE
