\* All actors, a connection to each of the audited servers, two signals.
SPECIFICATION LiveSpec
CONSTANTS
    Reloading = TRUE
    Servers = {"secure", "endpoints", "insecure"}
    Conns = {"secure", "insecure"}
    ServerOf <- OneEach
    MaxSignals = 2
INVARIANTS
    ServedRequestsAreRecorded
PROPERTIES
    OneActorEndsAll
