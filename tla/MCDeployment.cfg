SPECIFICATION DeploymentSpec
CONSTANTS
    Configurations <- MCConfigurations
    KnownCurves = {23, 24, 25, 29}
    MaxCurve = 65535
    FixedSize = 1300
    AddressSize = 48
    Requests <- MCRequests
    UpstreamURL <- HTTPUpstream
    FlagTexts <- MCFlagTexts
INVARIANTS
    IdleBoundIsTheFlag
    StreamsHaveTheirBuffers
    TLSListenersFollowTheFlags
    UpstreamTimeoutCoversEveryTransport
    SourceIsTheTrustedPeer
    EveryRecordFits
    BoundedRecordsTellWhatIsLeftOut
