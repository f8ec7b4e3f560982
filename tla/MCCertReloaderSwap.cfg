\* Both files are swapped at once and are always readable.
SPECIFICATION Spec
CONSTANTS
    Renewals = 1
    KeyOf <- Fresh
    AtomicSwap = TRUE
    MayVanish = FALSE
INVARIANTS
    WatchSurvivesRenewal
