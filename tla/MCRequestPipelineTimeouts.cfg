\* --upstream-timeout shorter than --auth-timeout, two attributes a request.
SPECIFICATION Spec
CONSTANTS
    UpstreamTimeout = 2
    AuthTimeout = 3
    AuditEnabled = FALSE
    ExplicitResource <- NoMetadata
    StaticResource <- NoMetadata
    Users = {"alice"}
    NoUser = NoUser
    Values = {"a"}
    NoValue = NoValue
    MaxAttrs = 2
    MaxArrival = 1
    MaxNow = 4
INVARIANTS
    NothingSentWithoutFullGrant
    GrantsShareOneDeadline
    UpstreamBudgetIsTotal
PROPERTY
    ImplementsAccessGate
