\* A moving clock and two handlers that lose an event each.
SPECIFICATION Spec
CONSTANTS
    Handlers = {h1, h2}
    Closers = {c1}
    QueueSize = 1
    EncodingMayFail = FALSE
    MaxEvents = 4
    MaxNow = 1
SYMMETRY Interchangeable
INVARIANTS
    LossWindowIsOrdered
