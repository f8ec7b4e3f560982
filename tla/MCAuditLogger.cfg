\* Two handlers and two calls of Close on a queue of one.  The sink may never
\* finish a write, except where a property assumes it does.
SPECIFICATION LiveSpec
CONSTANTS
    Handlers = {h1, h2}
    Closers = {c1, c2}
    QueueSize = 1
    EncodingMayFail = TRUE
    MaxEvents = 3
    MaxNow = 1
INVARIANTS
    TypeOK
    LossesAreConserved
    NoRecordOvertakesItsSummary
    IntakeStopsBeforeClose
    ShutdownLeavesNothingBehind
PROPERTIES
    ImplementsAuditTrail
    
    CloseReturns
    CloseDrains
