\* File by file renewal, the first one with the old key; the ticker fires.
SPECIFICATION LiveSpec
CONSTANTS
    Renewals = 3
    KeyOf <- KeptOnce
    AtomicSwap = FALSE
    MayVanish = TRUE
INVARIANTS
    HandshakesGetMatchingPairs
PROPERTIES
    CertificateNeverGoesBack
    RenewalIsPickedUp
