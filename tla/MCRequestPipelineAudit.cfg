\* The audit record of a request; --upstream-timeout is the only timeout.
SPECIFICATION LiveSpec
CONSTANTS
    UpstreamTimeout = 1
    AuthTimeout = 0
    AuditEnabled = TRUE
    ExplicitResource <- FlagNamesNamespace
    StaticResource <- Format1Names
    Users = {"alice"}
    NoUser = NoUser
    Values = {"a", "b"}
    NoValue = NoValue
    MaxAttrs = 2
    MaxArrival = 0
    MaxNow = 2
INVARIANTS
    
    RecordTellsTheResponse
    RecordNamesThePrincipal
    RecordNamesTheTarget
PROPERTIES
    EveryRequestIsAnswered
