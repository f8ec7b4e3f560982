----------------------------- MODULE Deployment -----------------------------
(***************************************************************************)
(* A process from its command line to the audit records of its requests:   *)
(* Configuration starts it, and AuditEvent makes the payload of each       *)
(* protected request from the request and the audit options of the flags.  *)
(***************************************************************************)
EXTENDS Configuration, AuditEvent
LOCAL INSTANCE SequencesExt

CONSTANTS
    Requests,       \* finished requests
    UpstreamURL,    \* port (0 for none) and scheme of --upstream
    FlagTexts       \* the texts of the audit flags

VARIABLES
    served,         \* a request
    queued          \* the payload that was made of it

deploymentVars == <<vars, served, queued>>

Request ==
    [text : [RequestFields -> Text], principal : {"none", "user", "serviceaccount"},
     groups : Nat, code : 100 .. 599, peer : [host : [ip : STRING, zone : BOOLEAN, valid : BOOLEAN],
                                              port : Int],
     forwardedFor : Seq(Seq([ip : STRING, zone : BOOLEAN, valid : BOOLEAN]))]

ASSUME RequestsAssumption == Requests \subseteq Request
ASSUME FlagTextsAssumption == FlagTexts \in [OptionFields -> Text]

DeploymentInit ==
    /\ Init
    /\ served = None
    /\ queued = None

AuditOptions(f) ==
    [text |-> [FlagTexts EXCEPT !["provider"] = IF f.aiProvider THEN @ ELSE Plain(0)],
     useForwardedFor |-> f.forwardedFor,
     upstream |-> UpstreamURL]

\* WithAuditLog, when the handlers are done.  One request shows what they all do:
\* the settings do not change any more.
Handle(r) ==
    /\ Serving
    /\ served = None
    /\ served' = r
    /\ queued' = IF logger THEN Payload(Event(r, AuditOptions(flags))) ELSE None
    /\ UNCHANGED vars

\* The process has failed, or has served.
Done == (phase = "failed" \/ served # None) /\ UNCHANGED deploymentVars

DeploymentNext ==
    \/ Next /\ UNCHANGED <<served, queued>>
    \/ \E r \in Requests : Handle(r)
    \/ Done

DeploymentSpec == DeploymentInit /\ [][DeploymentNext]_deploymentVars

-----------------------------------------------------------------------------
Recorded == served # None /\ logger

\* "By default, the TCP peer is recorded as the source"; only with
\* --audit-use-forwarded-for is it the rightmost address of the header that is
\* one, and only then is anything of the header recorded (sourceEndpoint).
SourceIsTheTrustedPeer ==
    Recorded /\ queued # Discarded =>
        LET claims == FlattenSeq(served.forwardedFor)
            usable == {i \in DOMAIN claims : claims[i].valid /\ ~claims[i].zone}
        IN  /\ IF flags.forwardedFor /\ usable # {}
               THEN \E i \in usable : /\ \A j \in usable : j <= i
                                      /\ queued.source.ip = claims[i].ip
               ELSE queued.source.ip = (IF served.peer.host.valid THEN served.peer.host.ip
                                        ELSE "unknown")
            /\ queued.chain # <<>> => flags.forwardedFor

\* Whatever texts, groups and headers a request has, its record fits: no event is
\* too large even when it is bounded (enqueue, boundedAuditEvent).
EveryRecordFits ==
    Recorded => queued # Discarded /\ Size(queued) <= MaxAuditEventSize

\* Records that are bounded "preserve core identity, target, request, response,
\* and outcome data", say so, and tell the size they had "in whole kilobytes
\* rounded up"; a text is cut between runes, as late as its limit allows
\* (boundedAuditEvent, truncateUTF8).
BoundedRecordsTellWhatIsLeftOut ==
    Recorded /\ queued # Discarded =>
        LET full == Event(served, AuditOptions(flags))
            cut == {f \in Fields : queued.text[f] # full.text[f]}
        IN  /\ cut # {} \/ queued.groups # full.groups \/ queued.chain # full.chain
                   => queued.truncated
            /\ queued.truncated =>
                   /\ Size(full) > MaxAuditEventSize
                   /\ queued.untruncatedSize * 1024 \in Size(full) .. Size(full) + 1023
            /\ \A f \in cut : queued.text[f].marked =>
                   /\ Bytes(queued.text[f]) <= Limit(f)
                   /\ Bytes(queued.text[f]) + queued.text[f].width > Limit(f)
            /\ \A f \in Fields : full.text[f].runes > 0 => queued.text[f].runes > 0
            /\ queued.userType = full.userType /\ queued.code = full.code
            /\ queued.source = full.source /\ queued.destinationPort = full.destinationPort
=============================================================================
