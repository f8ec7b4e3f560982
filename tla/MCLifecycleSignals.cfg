\* A second signal while the audit log is flushed.
SPECIFICATION Spec
CONSTANTS
    Reloading = FALSE
    Servers = {"secure"}
    Conns = {"secure"}
    ServerOf <- OneEach
    MaxSignals = 2
INVARIANTS
    GracefulShutdownDrains
