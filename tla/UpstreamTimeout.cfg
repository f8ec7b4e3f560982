\* A request that arrived at 1 with a budget of 2.
SPECIFICATION LiveSpec
CONSTANTS
    Timeout = 2
    Arrival = 1
    HasBudget = TRUE
    MaxNow = 4
INVARIANTS
    LateBodyIsClosed
    DeadlineMeansTimer
    ChildContextIsReleased
PROPERTIES
    ImplementsContract
    RoundTripReturns
