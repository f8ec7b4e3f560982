-------------------------- MODULE DeploymentProofs --------------------------
(* Proofs about Configuration and Deployment, for every set of command      *)
(* lines, every set of requests and every flag text.                        *)
EXTENDS Deployment, SequenceTheorems, InductionLemmas
LOCAL INSTANCE SequencesExt

-----------------------------------------------------------------------------
(* The settings are functions of the flags.                                 *)

MainServer(f) ==
    NewTLSServer([EmptyTLS EXCEPT !.certificate = IF f.cert = {} THEN "selfSigned" ELSE "reloader"],
                 f.readHeader, f.idle, FALSE)
Ready(srv) == [srv EXCEPT !.tls.protocols = {"h2", "http/1.1"}]
SecureServer(f) == Ready([MainServer(f) EXCEPT !.tls = ApplyTLSConfig(@, f)])
ProbeServer(f) == Ready(NewTLSServer(SecureServer(f).tls, f.readHeader, f.idle, TRUE))
InsecureServer(f) ==
    [kind |-> "server", tls |-> None, readHeader |-> f.readHeader, idle |-> f.idle, read |-> 0]

FlagsInv ==
    /\ flags \in Configurations
    /\ phase \notin {"flags", "failed"} => ~Errors(flags)

\* ConfigureServer finds nothing to fill in, so the shared options stay.
HTTP2Inv == phase \notin {"flags", "valid", "failed"} => http2 = HTTP2Options(flags)

TransportInv ==
    phase \notin {"flags", "valid", "completed", "authenticator", "failed"}
        => transport = UpstreamTransport(flags)

ServerInv ==
    /\ server = [l \in Listeners |-> server[l]]
    /\ server["secure"] \in
        {None, IF phase = "certificate" THEN MainServer(flags) ELSE SecureServer(flags)}
            \/ phase = "failed"
    /\ phase = "certificate" => server["secure"] = MainServer(flags)
    /\ phase = "secure" => server["secure"] = SecureServer(flags)
    /\ phase # "failed" => server["probes"] \in {None, ProbeServer(flags)}
    /\ phase # "failed" => server["insecure"] \in {None, InsecureServer(flags)}

PolicyInv ==
    /\ server["secure"] # None \/ server["probes"] # None => flags.secure
    /\ phase \in {"certificate", "secure", "probes"} => flags.secure
    /\ phase \in {"secure", "probes", "insecure", "serving"} /\ flags.secure =>
            ~PolicyRejected(flags) /\ ~SuitesTooFew(SecureServer(flags).tls)

ConfigurationInv == FlagsInv /\ HTTP2Inv /\ TransportInv /\ ServerInv /\ PolicyInv

\* What the proofs need of a command line that passes Validate.
LEMMA FlagFacts ==
    ASSUME NEW f \in Configurations
    PROVE  /\ f.idle \in Int /\ f.readHeader \in Int /\ f.upstreamTimeout \in Int
           /\ f.size \in Nat /\ f.streams \in Nat
           /\ f.secure \in BOOLEAN /\ f.insecure \in BOOLEAN /\ f.probes \in BOOLEAN
           /\ f.h2c \in BOOLEAN
           /\ ~Errors(f) => f.idle >= 0 /\ f.upstreamTimeout >= 0
<1>1. f \in Options
  BY OptionsAssumption DEF OptionsAssumption
<1> QED
  BY <1>1 DEF Options, Errors

\* The idle bound of the options is never the 0 that would be replaced.
LEMMA NothingToFillIn ==
    ASSUME NEW f \in Configurations, NEW srv
    PROVE  FilledIn(HTTP2Options(f), srv) = HTTP2Options(f)
BY FlagFacts DEF FilledIn, HTTP2Options, Sentinel

LEMMA ConfigurationInit == Init => ConfigurationInv
BY DEF Init, ConfigurationInv, FlagsInv, HTTP2Inv, TransportInv, ServerInv, PolicyInv, Listeners

LEMMA ConfigurationNext == ConfigurationInv /\ [Next]_vars => ConfigurationInv'
<1> SUFFICES ASSUME ConfigurationInv, [Next]_vars
             PROVE  ConfigurationInv'
  OBVIOUS
<1> USE DEF ConfigurationInv, settings
<1>0. ASSUME Fail
      PROVE  ConfigurationInv'
  BY <1>0 DEF Fail, FlagsInv, HTTP2Inv, TransportInv, ServerInv, PolicyInv
<1>1. CASE Validate
  BY <1>0, <1>1 DEF Validate, FlagsInv, HTTP2Inv, TransportInv, ServerInv, PolicyInv
<1>2. CASE Complete
  BY <1>0, <1>2 DEF Complete, FlagsInv, HTTP2Inv, TransportInv, ServerInv, PolicyInv
<1>3. CASE NewAuthenticator
  BY <1>0, <1>3 DEF NewAuthenticator, FlagsInv, HTTP2Inv, TransportInv, ServerInv, PolicyInv
<1>4. CASE ConnectUpstream
  BY <1>0, <1>4 DEF ConnectUpstream, FlagsInv, HTTP2Inv, TransportInv, ServerInv, PolicyInv
<1>5. CASE NewSecureServer
  <2>1. CASE Fail
    BY <1>0, <2>1
  <2>2. CASE ~Fail
    <3>1. /\ phase = "upstream" /\ flags.secure /\ phase' = "certificate"
          /\ server' = [server EXCEPT !["secure"] = MainServer(flags)]
          /\ UNCHANGED <<flags, authenticator, http2, transport, logger>>
      BY <1>5, <2>2 DEF NewSecureServer, MainServer
    <3> QED
      BY <3>1 DEF FlagsInv, HTTP2Inv, TransportInv, ServerInv, PolicyInv, Listeners
  <2> QED
    BY <2>1, <2>2
<1>6. CASE ConfigureSecure
  <2>1. CASE Fail
    BY <1>0, <2>1
  <2>2. CASE ~Fail
    <3> DEFINE srv == [server["secure"] EXCEPT !.tls = ApplyTLSConfig(@, flags)]
    <3>1. phase = "certificate" /\ ~PolicyRejected(flags) /\ ConfigureServer("secure", srv, "secure")
      BY <1>6, <2>2 DEF ConfigureSecure
    <3>2. server["secure"] = MainServer(flags) /\ http2 = HTTP2Options(flags)
      BY <3>1 DEF ServerInv, HTTP2Inv
    <3>3. srv = [MainServer(flags) EXCEPT !.tls = ApplyTLSConfig(@, flags)]
      BY <3>2
    <3>4. /\ http2' = http2 /\ phase' = "secure" /\ ~SuitesTooFew(srv.tls)
          /\ server' = [server EXCEPT !["secure"] = SecureServer(flags)]
          /\ UNCHANGED <<flags, authenticator, transport, logger>>
      BY <3>1, <3>2, <3>3, <2>2, NothingToFillIn DEF ConfigureServer, SecureServer, Ready, FlagsInv
    <3>5. SuitesTooFew(SecureServer(flags).tls) = SuitesTooFew(srv.tls)
      BY <3>3 DEF SecureServer, Ready, MainServer, NewTLSServer, ApplyTLSConfig, SuitesTooFew,
                  EmptyTLS
    <3> QED
      BY <3>1, <3>4, <3>5 DEF FlagsInv, HTTP2Inv, TransportInv, ServerInv, PolicyInv, Listeners
  <2> QED
    BY <2>1, <2>2
<1>7. CASE ConfigureProbes
  <2>1. CASE Fail
    BY <1>0, <2>1
  <2>2. CASE ~Fail
    <3>1. /\ phase = "secure"
          /\ ConfigureServer("probes",
                 NewTLSServer(server["secure"].tls, flags.readHeader, flags.idle, TRUE), "probes")
      BY <1>7 DEF ConfigureProbes, Clone
    <3>2. server["secure"] = SecureServer(flags) /\ http2 = HTTP2Options(flags)
      BY <3>1 DEF ServerInv, HTTP2Inv
    <3>3. /\ http2' = http2 /\ phase' = "probes"
          /\ server' = [server EXCEPT !["probes"] = ProbeServer(flags)]
          /\ UNCHANGED <<flags, authenticator, transport, logger>>
      BY <3>1, <3>2, <2>2, NothingToFillIn DEF ConfigureServer, ProbeServer, Ready, FlagsInv
    <3> QED
      BY <3>1, <3>3 DEF FlagsInv, HTTP2Inv, TransportInv, ServerInv, PolicyInv, Listeners
  <2> QED
    BY <2>1, <2>2
<1>8. CASE NewInsecureServer
  <2>1. CASE Fail
    BY <1>0, <2>1
  <2>2. CASE ~Fail
    <3>1. /\ SecureDone /\ phase' = "insecure"
          /\ server' = [server EXCEPT !["insecure"] = InsecureServer(flags)]
          /\ UNCHANGED <<flags, authenticator, http2, transport, logger>>
      BY <1>8, <2>2 DEF NewInsecureServer, InsecureServer
    <3>2. phase \in {"upstream", "secure", "probes"} /\ (phase = "upstream" => ~flags.secure)
      BY <3>1 DEF SecureDone
    <3> QED
      BY <3>1, <3>2 DEF FlagsInv, HTTP2Inv, TransportInv, ServerInv, PolicyInv, Listeners
  <2> QED
    BY <2>1, <2>2
<1>9. CASE StartGroup
  <2>1. CASE Fail
    BY <1>0, <2>1
  <2>2. CASE ~Fail
    <3>1. phase' = "serving" /\ UNCHANGED <<flags, settings>>
      BY <1>9, <2>2 DEF StartGroup
    <3>2. /\ phase \in {"upstream", "secure", "probes", "insecure"}
          /\ phase = "upstream" => ~flags.secure
      BY <1>9 DEF StartGroup, SecureDone
    <3> QED
      BY <3>1, <3>2 DEF FlagsInv, HTTP2Inv, TransportInv, ServerInv, PolicyInv
  <2> QED
    BY <2>1, <2>2
<1>10. CASE UNCHANGED vars
  BY <1>10 DEF vars, FlagsInv, HTTP2Inv, TransportInv, ServerInv, PolicyInv
<1> QED
  BY <1>1, <1>2, <1>3, <1>4, <1>5, <1>6, <1>7, <1>8, <1>9, <1>10 DEF Next, Run

-----------------------------------------------------------------------------
(* What is served is made of the flags' options, after all settings.        *)

ServedInv ==
    served # None =>
        /\ Serving
        /\ served \in Requests
        /\ queued = IF logger THEN Payload(Event(served, AuditOptions(flags))) ELSE None

IInv == ConfigurationInv /\ ServedInv

LEMMA InitInv == DeploymentInit => IInv
BY ConfigurationInit DEF DeploymentInit, IInv, ServedInv

LEMMA NextInv == IInv /\ [DeploymentNext]_deploymentVars => IInv'
<1> SUFFICES ASSUME IInv, [DeploymentNext]_deploymentVars
             PROVE  IInv'
  OBVIOUS
<1> USE DEF IInv
<1>1. CASE Next /\ UNCHANGED <<served, queued>>
  <2>1. ConfigurationInv'
    BY <1>1, ConfigurationNext
  <2>2. phase # "serving"
    BY <1>1 DEF Next, Run, Validate, Complete, NewAuthenticator, ConnectUpstream,
                NewSecureServer, ConfigureSecure, ConfigureProbes, NewInsecureServer,
                StartGroup, SecureDone
  <2> QED
    BY <1>1, <2>1, <2>2 DEF ServedInv, Serving
<1>2. ASSUME NEW r \in Requests, Handle(r)
      PROVE  IInv'
  <2>1. ConfigurationInv'
    BY <1>2, ConfigurationNext DEF Handle
  <2> QED
    BY <1>2, <2>1 DEF Handle, ServedInv, Serving, vars, settings
<1>3. CASE UNCHANGED deploymentVars
  <2>1. ConfigurationInv'
    BY <1>3, ConfigurationNext DEF deploymentVars
  <2> QED
    BY <1>3, <2>1 DEF deploymentVars, ServedInv, Serving, vars, settings
<1> QED
  BY <1>1, <1>2, <1>3 DEF DeploymentNext, Done

THEOREM Invariance == DeploymentSpec => []IInv
BY InitInv, NextInv, PTL DEF DeploymentSpec

-----------------------------------------------------------------------------
(* The settings of the servers.                                             *)

LEMMA ServerFacts ==
    ASSUME ConfigurationInv, Serving
    PROVE  /\ flags \in Configurations /\ ~Errors(flags)
           /\ http2 = HTTP2Options(flags)
           /\ server["secure"] # None => server["secure"] = SecureServer(flags)
           /\ server["probes"] # None => server["probes"] = ProbeServer(flags)
           /\ server["insecure"] # None => server["insecure"] = InsecureServer(flags)
           /\ transport = UpstreamTransport(flags)
BY DEF ConfigurationInv, FlagsInv, HTTP2Inv, TransportInv, ServerInv, Serving

LEMMA IdleBoundLemma == ConfigurationInv => IdleBoundIsTheFlag
<1> SUFFICES ASSUME ConfigurationInv, Serving, NEW l \in Built,
                    NEW protocol \in {"http/1.1", "h2"}
             PROVE  IdleBound(l, protocol) = flags.idle
  BY DEF IdleBoundIsTheFlag
<1>1. flags.idle \in Int /\ flags.idle >= 0
  BY ServerFacts, FlagFacts
<1>2. NoBound(Sentinel(flags.idle)) = flags.idle /\ Sentinel(flags.idle) # 0
  BY <1>1 DEF NoBound, Sentinel
<1>3. http2.idle = Sentinel(flags.idle)
  BY ServerFacts DEF HTTP2Options
<1>4. CASE protocol = "h2"
  BY <1>2, <1>3, <1>4 DEF IdleBound
<1>5. CASE protocol = "http/1.1"
  <2>1. l \in {"secure", "probes", "insecure"} /\ server[l] # None
    BY DEF Built, Listeners
  <2>2. CASE l = "secure"
    <3>1. server[l].idle = Sentinel(flags.idle)
      BY <2>1, <2>2, ServerFacts DEF SecureServer, Ready, MainServer, NewTLSServer
    <3> QED
      BY <1>2, <1>5, <3>1 DEF IdleBound
  <2>3. CASE l = "probes"
    <3>1. server[l].idle = Sentinel(flags.idle)
      BY <2>1, <2>3, ServerFacts DEF ProbeServer, Ready, NewTLSServer
    <3> QED
      BY <1>2, <1>5, <3>1 DEF IdleBound
  <2>4. CASE l = "insecure"
    <3>1. server[l].idle = flags.idle /\ server[l].read = 0
      BY <2>1, <2>4, ServerFacts DEF InsecureServer
    <3> QED
      BY <1>1, <1>5, <3>1 DEF IdleBound, NoBound
  <2> QED
    BY <2>1, <2>2, <2>3, <2>4
<1> QED
  BY <1>4, <1>5

LEMMA UpstreamLemma == ConfigurationInv => UpstreamTimeoutCoversEveryTransport
<1> SUFFICES ASSUME ConfigurationInv, Serving
             PROVE  /\ transport.limit = flags.upstreamTimeout
                    /\ transport.wait > 0 => transport.wait = transport.limit
  BY DEF UpstreamTimeoutCoversEveryTransport
<1>1. flags.upstreamTimeout \in Int /\ flags.upstreamTimeout >= 0 /\ flags.h2c \in BOOLEAN
  BY ServerFacts, FlagFacts
<1> DEFINE next == IF flags.h2c THEN H2CTransport ELSE InitTransport(flags)
<1>2. next.limit = 0 /\ next.wait \in {0, flags.upstreamTimeout}
  BY DEF H2CTransport, InitTransport
<1>3. next = [next EXCEPT !.limit = 0]
  BY DEF H2CTransport, InitTransport
<1>4. transport = WithUpstreamTimeout(next, flags.upstreamTimeout)
  BY ServerFacts DEF UpstreamTransport
<1>5. transport.limit = flags.upstreamTimeout /\ transport.wait = next.wait
  <2>1. CASE flags.h2c
    BY <1>1, <1>4, <2>1 DEF WithUpstreamTimeout, H2CTransport
  <2>2. CASE ~flags.h2c
    BY <1>1, <1>4, <2>2 DEF WithUpstreamTimeout, InitTransport
  <2> QED
    BY <2>1, <2>2
<1> QED
  BY <1>1, <1>2, <1>5

LEMMA PolicyLemma == ConfigurationInv => TLSListenersFollowTheFlags
<1> DEFINE main == SecureServer(flags).tls
<1>1. /\ main.min = NormalizeTLSVersion(flags.min)
      /\ main.suites = flags.suites /\ main.curves = flags.curves
      /\ main.certificate = (IF flags.cert = {} THEN "selfSigned" ELSE "reloader")
      /\ main.clientAuth = "request" /\ main.protocols = {"h2", "http/1.1"}
  BY DEF SecureServer, Ready, MainServer, NewTLSServer, ApplyTLSConfig, EmptyTLS
<1>2. LET probes == ProbeServer(flags).tls
      IN  /\ probes.min = main.min /\ probes.suites = main.suites /\ probes.curves = main.curves
          /\ probes.certificate = main.certificate
          /\ probes.clientAuth = main.clientAuth /\ probes.protocols = {"h2", "http/1.1"}
  BY DEF ProbeServer, Ready, SecureServer, MainServer, NewTLSServer, ApplyTLSConfig, EmptyTLS
<1> SUFFICES ASSUME ConfigurationInv, Serving, NEW l \in {"secure", "probes"}, server[l] # None
             PROVE  LET tls == server[l].tls
                    IN  /\ tls.min = NormalizeTLSVersion(flags.min) /\ tls.min >= 10
                        /\ tls.suites = flags.suites /\ tls.curves = flags.curves
                        /\ tls.certificate =
                               (IF flags.cert = {} THEN "selfSigned" ELSE "reloader")
                        /\ "h2" \in tls.protocols /\ ~SuitesTooFew(tls)
                        /\ "certificate" \in authenticator => tls.clientAuth = "request"
  BY DEF TLSListenersFollowTheFlags, Built, Listeners
<1>3. ~PolicyRejected(flags) /\ ~SuitesTooFew(main)
  BY DEF ConfigurationInv, PolicyInv, Serving
<1>4. NormalizeTLSVersion(flags.min) >= 10
  <2>1. NormalizeTLSVersion(flags.min) \in {0, 10, 11, 12, 13}
    <3> DEFINE name == flags.min
    <3>1. CASE name \in {"TLS1.0", "VersionTLS10"}
      BY <3>1 DEF NormalizeTLSVersion
    <3>2. CASE name \in {"TLS1.1", "VersionTLS11"}
      BY <3>2 DEF NormalizeTLSVersion
    <3>3. CASE name \in {"TLS1.2", "VersionTLS12", ""}
      BY <3>3 DEF NormalizeTLSVersion
    <3>4. CASE name \in {"TLS1.3", "VersionTLS13"}
      BY <3>4 DEF NormalizeTLSVersion
    <3> QED
      BY <3>1, <3>2, <3>3, <3>4 DEF NormalizeTLSVersion
  <2> QED
    BY <1>3, <2>1 DEF PolicyRejected
<1>5. CASE l = "secure"
  BY <1>1, <1>3, <1>4, <1>5, ServerFacts
<1>6. CASE l = "probes"
  <2>1. server[l].tls = ProbeServer(flags).tls
    BY <1>6, ServerFacts
  <2>2. SuitesTooFew(server[l].tls) = SuitesTooFew(main)
    BY <1>2, <2>1 DEF SuitesTooFew
  <2> QED
    BY <1>1, <1>2, <1>3, <1>4, <2>1, <2>2
<1> QED
  BY <1>5, <1>6

\* A factor of a positive product is not larger than the product.
LEMMA FactorBound ==
    ASSUME NEW a \in Nat, NEW b \in Nat, b > 0
    PROVE  a * b \in Nat /\ a <= a * b
<1>1. b - 1 \in Nat
  OBVIOUS
<1>2. \A x, y \in Nat : x * y \in Nat
  OBVIOUS
<1>3. a * b = a * (b - 1) + a
  OBVIOUS
<1> QED
  BY <1>1, <1>2, <1>3

LEMMA BufferLemma == ConfigurationInv => StreamsHaveTheirBuffers
<1> DEFINE product == flags.size * flags.streams
<1> SUFFICES ASSUME ConfigurationInv, Serving, flags.size > 0, flags.streams > 0,
                    product < 2097152
             PROVE  ConnectionWindow >= flags.streams * StreamWindow
  BY DEF StreamsHaveTheirBuffers
<1>1. flags.size \in Nat /\ flags.streams \in Nat
  BY ServerFacts, FlagFacts
<1>2. product \in Nat /\ flags.size <= product
  BY <1>1, FactorBound
<1>3. product = flags.streams * flags.size /\ flags.streams <= flags.streams * flags.size
  BY <1>1, FactorBound
<1>4. \A x \in Nat : x < 2097152 => Int32(x) = x
  BY DEF Int32
<1>5. Int32(flags.size) = flags.size /\ Int32(flags.streams) = flags.streams
  BY <1>1, <1>2, <1>3, <1>4
<1>6. Int32(product) = product
  BY <1>2, <1>4
<1>7. ConnectionBuffer(flags) = product
  BY <1>5, <1>6 DEF ConnectionBuffer
<1>8. http2.streamBuffer = flags.size /\ http2.connBuffer = product
  BY <1>5, <1>7, ServerFacts DEF HTTP2Options
<1>9. StreamWindow = flags.size
  BY <1>1, <1>8 DEF StreamWindow
<1>10. ConnectionWindow >= product
  BY <1>2, <1>8 DEF ConnectionWindow
<1> QED
  BY <1>3, <1>9, <1>10

\* IdleBoundIsTheFlag: for every command line, an idle connection lives as long
\* as --idle-timeout says, on every listener and with both protocols.
THEOREM IdleBoundTheorem == DeploymentSpec => []IdleBoundIsTheFlag
BY Invariance, IdleBoundLemma, PTL DEF IInv

\* StreamsHaveTheirBuffers: for all sizes and numbers of streams whose product
\* stays below 2^31, the connection's window is that of all its streams.
THEOREM BufferTheorem == DeploymentSpec => []StreamsHaveTheirBuffers
BY Invariance, BufferLemma, PTL DEF IInv

\* TLSListenersFollowTheFlags: no TLS listener serves without the policy of the
\* flags and the certificate.
THEOREM PolicyTheorem == DeploymentSpec => []TLSListenersFollowTheFlags
BY Invariance, PolicyLemma, PTL DEF IInv

\* UpstreamTimeoutCoversEveryTransport: also the h2c transport is limited.
THEOREM UpstreamTheorem == DeploymentSpec => []UpstreamTimeoutCoversEveryTransport
BY Invariance, UpstreamLemma, PTL DEF IInv

-----------------------------------------------------------------------------
(* The size of the records.                                                 *)

\* Six bytes of JSON for each byte of the limit are enough for what is left of a
\* text.
LEMMA TruncateBound ==
    ASSUME NEW text \in Text, NEW limit \in Nat, limit >= MarkerSize
    PROVE  /\ Escaped(TruncateUTF8(text, limit)) \in Nat
           /\ Escaped(TruncateUTF8(text, limit)) <= 6 * limit
<1> DEFINE t == ToValidUTF8(text)
<1>1. t \in Text
  BY DEF ToValidUTF8, Text
<1>2. ASSUME NEW n \in Nat
      PROVE  n * t.escaped \in Nat /\ n * t.escaped <= 6 * n
  <2>1. t.escaped \in {1, 2, 3, 4, 5, 6}
    BY <1>1 DEF Text
  <2> QED
    BY <2>1
<1>3. CASE Bytes(t) <= limit
  <2>1. TruncateUTF8(text, limit) = t
    BY <1>3 DEF TruncateUTF8
  <2>2. t.runes \in Nat /\ t.width \in 1 .. 4 /\ Marker(t) \in {0, MarkerSize}
    BY <1>1 DEF Text, Marker
  <2>3. t.runes <= t.runes * t.width /\ t.runes * t.width \in Nat
    BY <2>2, FactorBound
  <2>4. t.runes <= limit - Marker(t)
    BY <1>3, <2>2, <2>3 DEF Bytes, MarkerSize
  <2> QED
    BY <1>2, <2>1, <2>2, <2>4 DEF Escaped, MarkerSize
<1>4. CASE ~(Bytes(t) <= limit)
  <2> DEFINE room == limit - MarkerSize
             n == room \div t.width
  <2>1. room \in Nat /\ ContentLimit(limit) = room
    BY DEF ContentLimit, MarkerSize
  <2>2. t.width \in {1, 2, 3, 4}
    BY <1>1 DEF Text
  <2>3. n \in Nat /\ n <= room
    BY <2>1, <2>2
  <2>4. TruncateUTF8(text, limit) = [t EXCEPT !.runes = n, !.marked = TRUE]
    BY <1>4, <2>1 DEF TruncateUTF8
  <2>5. Escaped(TruncateUTF8(text, limit)) = n * t.escaped + MarkerSize
    BY <1>1, <2>4 DEF Escaped, Marker, Text
  <2>6. n * t.escaped \in Nat /\ n * t.escaped <= 6 * n
    BY <1>2, <2>3
  <2> HIDE DEF n
  <2> QED
    BY <2>1, <2>3, <2>5, <2>6 DEF MarkerSize
<1> QED
  BY <1>3, <1>4

\* With 1024 bytes for the path and 256 for each of the twelve other texts.
LEMMA BoundedEventFits ==
    ASSUME NEW r, NEW options, NEW size, EventText(r, options) \in [Fields -> Text]
    PROVE  Size(BoundedAuditEvent(Event(r, options), size)) <= MaxAuditEventSize
<1> DEFINE text == EventText(r, options)
           bounded == BoundedAuditEvent(Event(r, options), size)
           bytes(f) == Escaped(TruncateUTF8(text[f], Limit(f)))
<1>1. ASSUME NEW f \in Fields
      PROVE  bytes(f) \in 0 .. 6 * Limit(f)
  <2>1. text[f] \in Text
    OBVIOUS
  <2>2. Limit(f) \in Nat /\ Limit(f) >= MarkerSize
    BY DEF Limit, MaxAuditPathSize, MaxAuditDynamicStringSize, MarkerSize
  <2>3. bytes(f) \in Nat /\ bytes(f) <= 6 * Limit(f)
    BY <2>1, <2>2, TruncateBound
  <2> HIDE DEF bytes
  <2> QED
    BY <2>2, <2>3
<1>2. \A f \in Fields : Escaped(bounded.text[f]) = bytes(f)
  BY DEF BoundedAuditEvent, Event
<1>3. bounded.groups = 0 /\ bounded.chain = <<>>
  BY DEF BoundedAuditEvent, Event
<1> HIDE DEF bytes, bounded
<1>4. \A f \in Fields : Limit(f) = IF f = "path" THEN 1024 ELSE 256
  BY DEF Limit, MaxAuditPathSize, MaxAuditDynamicStringSize
<1> DEFINE part(f) == Escaped(bounded.text[f])
<1>5. \A f \in Fields \ {"path"} : part(f) \in 0 .. 1536
  BY <1>1, <1>2, <1>4
<1>6. part("path") \in 0 .. 6144
  <2>1. "path" \in Fields
    BY DEF Fields, RequestFields
  <2>2. Limit("path") = 1024
    BY <1>4, <2>1
  <2>3. \A b : b \in 0 .. 6 * Limit("path") => b \in 0 .. 6144
    BY <2>2
  <2>4. bytes("path") \in 0 .. 6144
    BY <1>1, <2>1, <2>3
  <2> QED
    BY <1>2, <2>1, <2>4
<1>7. /\ part("user") \in 0 .. 1536 /\ part("uid") \in 0 .. 1536
      /\ part("method") \in 0 .. 1536 /\ part("version") \in 0 .. 1536
      /\ part("resource") \in 0 .. 1536 /\ part("namespace") \in 0 .. 1536
      /\ part("productVersion") \in 0 .. 1536 /\ part("destination") \in 0 .. 1536
      /\ part("type") \in 0 .. 1536 /\ part("provider") \in 0 .. 1536
      /\ part("operation") \in 0 .. 1536 /\ part("model") \in 0 .. 1536
  <2>1. {"user", "uid", "method", "version", "resource", "namespace", "productVersion",
         "destination", "type", "provider", "operation", "model"} \subseteq Fields \ {"path"}
    BY DEF Fields, RequestFields, OptionFields
  <2> HIDE DEF part
  <2> QED
    BY <1>5, <2>1
<1>8. AddressSize * Len(bounded.chain) = 0
  BY <1>3, AddressSizeAssumption DEF AddressSizeAssumption
<1>9. FixedSize \in 0 .. 4096
  BY FixedSizeAssumption DEF FixedSizeAssumption
<1>10. Size(bounded) =
          FixedSize + 0 + 0
            + part("user") + part("uid") + part("method") + part("version")
            + part("path") + part("resource") + part("namespace") + part("productVersion")
            + part("destination") + part("type") + part("provider") + part("operation")
            + part("model")
  BY <1>3, <1>8 DEF Size
<1> HIDE DEF part
<1>11. Size(bounded) <= 65536
  <2> DEFINE p == part("path")
             a == part("user")      b == part("uid")
             c == part("method")    d == part("version")
             e == part("resource")  g == part("namespace")
             h == part("productVersion")  i == part("destination")
             j == part("type")      k == part("provider")
             l == part("operation") m == part("model")
  <2>1. /\ a \in 0 .. 1536 /\ b \in 0 .. 1536 /\ c \in 0 .. 1536 /\ d \in 0 .. 1536
        /\ e \in 0 .. 1536 /\ g \in 0 .. 1536 /\ h \in 0 .. 1536 /\ i \in 0 .. 1536
        /\ j \in 0 .. 1536 /\ k \in 0 .. 1536 /\ l \in 0 .. 1536 /\ m \in 0 .. 1536
        /\ p \in 0 .. 6144
    BY <1>6, <1>7
  <2>2. Size(bounded) =
          FixedSize + 0 + 0 + a + b + c + d + p + e + g + h + i + j + k + l + m
    BY <1>10
  <2> HIDE DEF a, b, c, d, e, g, h, i, j, k, l, m, p
  <2> QED
    BY <1>9, <2>1, <2>2
<1> QED
  BY <1>11 DEF bounded, MaxAuditEventSize

\* The texts of an event come from the request and the flags.
LEMMA EventTexts ==
    ASSUME NEW r \in Requests, NEW f \in Configurations
    PROVE  EventText(r, AuditOptions(f)) \in [Fields -> Text]
<1> DEFINE options == AuditOptions(f)
<1>1. r.text \in [RequestFields -> Text]
  BY RequestsAssumption DEF RequestsAssumption, Request
<1>2. \A n \in Nat : Plain(n) \in Text
  BY DEF Plain, Text
<1>3. options.text \in [OptionFields -> Text]
  BY <1>2, FlagTextsAssumption DEF FlagTextsAssumption, AuditOptions, OptionFields
<1>4. OCSFUser(r).name \in Text /\ OCSFUser(r).uid \in Text
  BY <1>1, <1>2 DEF OCSFUser, RequestFields
<1>5. \A m, p \in Text : Operation(m, p) \in Text
  BY DEF Operation, Text
<1>6. /\ r.text["path"] \in Text /\ r.text["resource"] \in Text /\ r.text["method"] \in Text
      /\ options.text["provider"] \in Text
  BY <1>1, <1>3 DEF RequestFields, OptionFields
<1> HIDE DEF options
<1> SUFFICES ASSUME NEW g \in Fields
             PROVE  EventText(r, options)[g] \in Text
  BY DEF EventText, options
<1>7. CASE g \in {"user", "uid", "operation", "model"}
  <2>1. CASE g = "user"
    BY <1>4, <2>1 DEF EventText
  <2>2. CASE g = "uid"
    BY <1>4, <2>2 DEF EventText
  <2>3. CASE g = "operation"
    BY <1>5, <1>6, <2>3 DEF EventText
  <2>4. CASE g = "model"
    BY <1>2, <1>6, <2>4 DEF EventText
  <2> QED
    BY <1>7, <2>1, <2>2, <2>3, <2>4
<1>8. CASE g \notin {"user", "uid", "operation", "model"}
  <2> DEFINE given == IF g \in OptionFields THEN options.text[g] ELSE r.text[g]
  <2>1. given \in Text
    BY <1>1, <1>3, <1>8 DEF Fields
  <2>2. EventText(r, options)[g] \in {given, Plain(0)}
    BY <1>8 DEF EventText
  <2> QED
    BY <1>2, <2>1, <2>2
<1> QED
  BY <1>7, <1>8

LEMMA RecordLemma == IInv => EveryRecordFits
<1> SUFFICES ASSUME IInv, Recorded
             PROVE  queued # Discarded /\ Size(queued) <= MaxAuditEventSize
  BY DEF EveryRecordFits
<1> DEFINE full == Event(served, AuditOptions(flags))
           bounded == BoundedAuditEvent(full, Size(full))
<1>1. served \in Requests /\ queued = Payload(full)
  BY DEF IInv, ServedInv, Recorded
<1>2. flags \in Configurations
  BY DEF IInv, ConfigurationInv, FlagsInv
<1>3. Size(bounded) <= MaxAuditEventSize
  BY <1>1, <1>2, EventTexts, BoundedEventFits
<1>4. full # Discarded /\ bounded # Discarded
  <2>1. "text" \in DOMAIN full /\ "text" \in DOMAIN bounded
    BY DEF Event, BoundedAuditEvent
  <2>2. "text" \notin DOMAIN Discarded
    BY DEF Discarded
  <2> QED
    BY <2>1, <2>2
<1> HIDE DEF full, bounded
<1> QED
  BY <1>1, <1>3, <1>4 DEF Payload, bounded

\* EveryRecordFits: whatever a request consists of, enqueue never reports a
\* bounded event that is too large, which would be lost without being counted.
THEOREM RecordTheorem == DeploymentSpec => []EveryRecordFits
BY Invariance, RecordLemma, PTL
-----------------------------------------------------------------------------
(* The source address.                                                      *)

Candidate == [ip : STRING, zone : BOOLEAN, valid : BOOLEAN]

\* One after another, sequences over a set are a sequence over it.
LEMMA FlattenType ==
    ASSUME NEW A, NEW seqs \in Seq(Seq(A))
    PROVE  FlattenSeq(seqs) \in Seq(A)
<1> DEFINE N == Len(seqs)
           B == Seq(A)
           Body(g) == [i \in 1 .. N |-> IF i = 1 THEN seqs[i] ELSE g[i - 1] \o seqs[i]]
           flatten == CHOOSE g : g = Body(g)
           step == [p \in (1 .. N) \X B |-> IF p[1] = 1 THEN seqs[p[1]] ELSE p[2] \o seqs[p[1]]]
<1>1. N \in Nat /\ \A i \in 1 .. N : seqs[i] \in B
  OBVIOUS
<1>2. CASE N = 0
  <2>1. FlattenSeq(seqs) = seqs /\ seqs = <<>>
    BY <1>2 DEF FlattenSeq
  <2> QED
    BY <2>1
<1>3. CASE N # 0
  <2>1. FlattenSeq(seqs) = flatten[N]
    BY <1>3 DEF FlattenSeq
  <2>2. <<>> \in B /\ \A b, d \in B : b \o d \in B
    OBVIOUS
  <2>3. step \in Steps(N, B)
    <3> HIDE DEF B, N
    <3> QED
      BY <1>1, <2>2 DEF Steps
  <2>4. PICK g : Recursion(N, B, <<>>, step, g)
    <3> HIDE DEF B, N, step
    <3> QED
      BY <1>1, <2>2, <2>3, RecursionExists
  <2> DEFINE h == [i \in 1 .. N |-> g[i]]
  <2>5. ASSUME NEW n \in 1 .. N
        PROVE  h[n] = IF n = 1 THEN seqs[n] ELSE h[n - 1] \o seqs[n]
    <3> HIDE DEF B, N
    <3>1. n - 1 \in 0 .. N /\ (n # 1 => n - 1 \in 1 .. N)
      BY <1>1
    <3>2. <<n, g[n - 1]>> \in (1 .. N) \X B
      BY <2>4, <3>1 DEF Recursion
    <3>3. g[n] = IF n = 1 THEN seqs[n] ELSE g[n - 1] \o seqs[n]
      BY <2>4, <3>2 DEF Recursion
    <3> QED
      BY <3>1, <3>3
  <2>6. h = Body(h)
    <3> HIDE DEF N
    <3> QED
      BY <2>5
  <2>7. flatten = Body(flatten)
    <3> HIDE DEF Body, h
    <3> QED
      BY <2>6
  <2>8. \A n \in 0 .. N : n # 0 => flatten[n] \in B
    <3> DEFINE S == {n \in 0 .. N : n # 0 => flatten[n] \in B}
    <3> HIDE DEF flatten, B
    <3>1. 0 \in S
      BY <1>1
    <3>2. ASSUME NEW n \in 0 .. N - 1, n \in S
          PROVE  n + 1 \in S
      <4>1. n + 1 \in 1 .. N /\ (n + 1) - 1 = n
        BY <1>1
      <4>2. flatten[n + 1] = IF n + 1 = 1 THEN seqs[n + 1] ELSE flatten[n] \o seqs[n + 1]
        BY <2>7, <4>1
      <4> QED
        BY <1>1, <2>2, <3>2, <4>1, <4>2
    <3>3. \A n \in 0 .. N : n \in S
      <4> HIDE DEF S, N
      <4> QED
        BY <1>1, <3>1, <3>2, UpTo
    <3> QED
      BY <3>3
  <2> HIDE DEF flatten, N, B
  <2>9. flatten[N] \in B
    BY <1>1, <1>3, <2>8
  <2> QED
    BY <2>1, <2>9 DEF B
<1> QED
  BY <1>2, <1>3

\* What is left of the first n candidates ends in the last usable one of them.
UsableUpTo(claims, n) == {i \in 1 .. n : Usable(claims[i])}
EndsInLastUsable(addresses, claims, n) ==
    /\ addresses \in Seq(STRING)
    /\ \/ addresses = <<>> /\ UsableUpTo(claims, n) = {}
       \/ /\ addresses # <<>>
          /\ \E i \in UsableUpTo(claims, n) :
                /\ \A j \in UsableUpTo(claims, n) : j <= i
                /\ addresses[Len(addresses)] = claims[i].ip

LEMMA TakeStep ==
    ASSUME NEW claims \in Seq(Candidate), NEW n \in 1 .. Len(claims), NEW addresses,
           EndsInLastUsable(addresses, claims, n - 1)
    PROVE  EndsInLastUsable(Take(addresses, claims[n]), claims, n)
<1> DEFINE before == UsableUpTo(claims, n - 1)
           after == UsableUpTo(claims, n)
<1>1. claims[n].ip \in STRING /\ addresses \in Seq(STRING)
  <2>1. claims[n] \in Candidate
    OBVIOUS
  <2> QED
    BY <2>1 DEF Candidate, EndsInLastUsable
<1>2. CASE Usable(claims[n])
  <2> DEFINE taken == Append(addresses, claims[n].ip)
  <2>1. Take(addresses, claims[n]) = taken
    BY <1>2 DEF Take
  <2>2. taken \in Seq(STRING) /\ taken # <<>> /\ taken[Len(taken)] = claims[n].ip
    BY <1>1
  <2>3. n \in after /\ \A j \in after : j <= n
    BY <1>2 DEF UsableUpTo
  <2> HIDE DEF taken
  <2> QED
    BY <2>1, <2>2, <2>3 DEF EndsInLastUsable
<1>3. CASE ~Usable(claims[n])
  <2>1. Take(addresses, claims[n]) = addresses
    BY <1>3 DEF Take
  <2>2. after = before
    BY <1>3 DEF UsableUpTo
  <2> QED
    BY <2>1, <2>2 DEF EndsInLastUsable
<1> QED
  BY <1>2, <1>3

LEMMA ForwardedFacts ==
    ASSUME NEW values \in Seq(Seq(Candidate))
    PROVE  /\ FlattenSeq(values) \in Seq(Candidate)
           /\ EndsInLastUsable(ValidatedForwardedFor(values), FlattenSeq(values),
                               Len(FlattenSeq(values)))
<1> DEFINE claims == FlattenSeq(values)
           N == Len(claims)
           A == Seq(STRING)
           Body(g) == [n \in 0 .. N |-> IF n = 0 THEN <<>> ELSE Take(g[n - 1], claims[n])]
           addresses == CHOOSE g : g = Body(g)
           step == [p \in (1 .. N) \X A |-> Take(p[2], claims[p[1]])]
<1>1. claims \in Seq(Candidate)
  BY FlattenType
<1>2. ValidatedForwardedFor(values) = addresses[N]
  BY DEF ValidatedForwardedFor
<1> HIDE DEF claims
<1>3. N \in Nat
  BY <1>1
<1>4. <<>> \in A /\ \A n \in 1 .. N, a \in A : Take(a, claims[n]) \in A
  <2>1. \A n \in 1 .. N : claims[n] \in Candidate
    BY <1>1
  <2>2. \A n \in 1 .. N : claims[n].ip \in STRING
    BY <2>1 DEF Candidate
  <2>3. ASSUME NEW n \in 1 .. N, NEW a \in Seq(STRING)
        PROVE  Take(a, claims[n]) \in Seq(STRING)
    <3> DEFINE ip == claims[n].ip
    <3>1. ip \in STRING
      BY <2>2
    <3> HIDE DEF ip
    <3>2. Append(a, ip) \in Seq(STRING)
      BY <3>1, AppendProperties
    <3> QED
      BY <3>2 DEF Take, ip
  <2> QED
    BY <2>3
<1>5. step \in Steps(N, A)
  <2> HIDE DEF A, N
  <2> QED
    BY <1>4 DEF Steps
<1>6. PICK g : Recursion(N, A, <<>>, step, g)
  <2> HIDE DEF A, N, step
  <2> QED
    BY <1>3, <1>4, <1>5, RecursionExists
<1>7. g = Body(g)
  <2> HIDE DEF A, N
  <2>1. ASSUME NEW n \in 1 .. N
        PROVE  g[n] = Take(g[n - 1], claims[n])
    <3>1. n - 1 \in 0 .. N
      BY <1>3
    <3>2. <<n, g[n - 1]>> \in (1 .. N) \X A
      BY <1>6, <3>1 DEF Recursion
    <3> QED
      BY <1>6, <3>2 DEF Recursion
  <2> HIDE DEF step
  <2> QED
    BY <1>3, <1>6, <2>1 DEF Recursion
<1>8. addresses = Body(addresses)
  <2> HIDE DEF Body
  <2> QED
    BY <1>7
<1>9. \A n \in 0 .. N : EndsInLastUsable(addresses[n], claims, n)
  <2> DEFINE S == {n \in 0 .. N : EndsInLastUsable(addresses[n], claims, n)}
  <2> HIDE DEF addresses
  <2>1. 0 \in S
    <3>1. addresses[0] = <<>> /\ 0 \in 0 .. N
      BY <1>3, <1>8
    <3>2. UsableUpTo(claims, 0) = {}
      BY DEF UsableUpTo
    <3>3. EndsInLastUsable(<<>>, claims, 0)
      BY <3>2 DEF EndsInLastUsable
    <3> QED
      BY <3>1, <3>3
  <2>2. ASSUME NEW n \in 0 .. N - 1, n \in S
        PROVE  n + 1 \in S
    <3>1. n + 1 \in 1 .. N /\ (n + 1) - 1 = n
      BY <1>3
    <3>2. addresses[n + 1] = Take(addresses[n], claims[n + 1])
      BY <1>8, <3>1
    <3>3. EndsInLastUsable(Take(addresses[n], claims[n + 1]), claims, n + 1)
      BY <1>1, <2>2, <3>1, TakeStep
    <3> QED
      BY <1>3, <3>1, <3>2, <3>3
  <2>3. \A n \in 0 .. N : n \in S
    <3> HIDE DEF S, N
    <3> QED
      BY <1>3, <2>1, <2>2, UpTo
  <2> QED
    BY <2>3
<1>10. EndsInLastUsable(addresses[N], claims, N)
  BY <1>3, <1>9
<1> HIDE DEF addresses
<1> QED
  BY <1>1, <1>2, <1>10 DEF claims

\* The record of a request is the event, whole or bounded.
LEMMA QueuedEvent ==
    ASSUME IInv, Recorded, queued # Discarded
    PROVE  LET full == Event(served, AuditOptions(flags))
           IN  /\ served \in Requests /\ flags \in Configurations
               /\ \/ queued = full /\ Size(full) <= MaxAuditEventSize
                  \/ /\ queued = BoundedAuditEvent(full, Size(full))
                     /\ ~(Size(full) <= MaxAuditEventSize)
<1>1. served \in Requests /\ queued = Payload(Event(served, AuditOptions(flags)))
  BY DEF IInv, ServedInv, Recorded
<1>2. flags \in Configurations
  BY DEF IInv, ConfigurationInv, FlagsInv
<1> QED
  BY <1>1, <1>2 DEF Payload

\* SourceIsTheTrustedPeer: for every X-Forwarded-For header, whatever its values
\* hold, the source is the peer of the connection or, if the flag says so, the
\* rightmost usable address (sourceEndpoint, validatedForwardedFor).
LEMMA SourceLemma == IInv => SourceIsTheTrustedPeer
<1> DEFINE claims == FlattenSeq(served.forwardedFor)
           usable == {i \in DOMAIN claims : claims[i].valid /\ ~claims[i].zone}
           full == Event(served, AuditOptions(flags))
           chain == ValidatedForwardedFor(served.forwardedFor)
           fromPeer == IF served.peer.host.valid THEN served.peer.host.ip ELSE "unknown"
<1> SUFFICES ASSUME IInv, Recorded, queued # Discarded
             PROVE  /\ IF flags.forwardedFor /\ usable # {}
                       THEN \E i \in usable : /\ \A j \in usable : j <= i
                                              /\ queued.source.ip = claims[i].ip
                       ELSE queued.source.ip = fromPeer
                    /\ queued.chain # <<>> => flags.forwardedFor
  BY DEF SourceIsTheTrustedPeer
<1>1. served \in Requests
  BY QueuedEvent
<1>2. served.forwardedFor \in Seq(Seq(Candidate))
  BY <1>1, RequestsAssumption DEF RequestsAssumption, Request, Candidate
<1>3. claims \in Seq(Candidate) /\ EndsInLastUsable(chain, claims, Len(claims))
  BY <1>2, ForwardedFacts
<1>4. queued.source = full.source /\ queued.chain \in {full.chain, <<>>}
  <2>1. "source" \in DOMAIN full /\ "chain" \in DOMAIN full
    BY DEF Event
  <2>2. CASE queued = full
    BY <2>2
  <2>3. CASE queued = BoundedAuditEvent(full, Size(full))
    BY <2>1, <2>3 DEF BoundedAuditEvent
  <2> QED
    BY <2>2, <2>3, QueuedEvent
<1>5. full.source = SourceEndpoint(served, flags.forwardedFor)
      /\ full.chain = ForwardedChain(served, flags.forwardedFor)
  BY DEF Event, AuditOptions
<1>6. EndpointFromAddress(served.peer).ip = fromPeer
  BY DEF EndpointFromAddress, Unknown
<1>7. usable = UsableUpTo(claims, Len(claims))
  BY <1>3 DEF UsableUpTo, Usable
<1> HIDE DEF full, claims, usable, fromPeer
<1>8. CASE flags.forwardedFor
  <2>1. full.chain = chain
    BY <1>5, <1>8 DEF ForwardedChain
  <2> HIDE DEF chain
  <2>2. CASE chain = <<>>
    <3>1. full.source = EndpointFromAddress(served.peer)
      BY <1>5, <2>1, <2>2 DEF SourceEndpoint
    <3>2. usable = {}
      BY <1>3, <1>7, <2>2 DEF EndsInLastUsable
    <3> QED
      BY <1>4, <1>6, <1>8, <3>1, <3>2
  <2>3. CASE chain # <<>>
    <3>1. full.source.ip = chain[Len(chain)]
      BY <1>5, <2>1, <2>3 DEF SourceEndpoint, Rightmost, Last
    <3>2. \E i \in usable : (\A j \in usable : j <= i) /\ chain[Len(chain)] = claims[i].ip
      BY <1>3, <1>7, <2>3 DEF EndsInLastUsable
    <3> QED
      BY <1>4, <1>8, <3>1, <3>2
  <2> QED
    BY <2>2, <2>3
<1>9. CASE ~flags.forwardedFor
  <2>1. full.chain = <<>> /\ full.source = EndpointFromAddress(served.peer)
    BY <1>5, <1>9 DEF ForwardedChain, SourceEndpoint
  <2> QED
    BY <1>4, <1>6, <1>9, <2>1
<1> QED
  BY <1>8, <1>9

\* SourceIsTheTrustedPeer, in every state.
THEOREM SourceTheorem == DeploymentSpec => []SourceIsTheTrustedPeer
BY Invariance, SourceLemma, PTL
-----------------------------------------------------------------------------
(* What a bounded record tells.                                             *)

\* Whole runes of one to four bytes fill the room up to the next rune.
LEMMA RunesFillTheRoom ==
    ASSUME NEW room \in Nat, NEW width \in 1 .. 4
    PROVE  LET n == room \div width
           IN  /\ n \in Nat
               /\ n * width <= room /\ room < n * width + width
               /\ room >= 4 => n > 0
<1>1. CASE width = 1
  BY <1>1
<1>2. CASE width = 2
  BY <1>2
<1>3. CASE width = 3
  BY <1>3
<1>4. CASE width = 4
  BY <1>4
<1> QED
  BY <1>1, <1>2, <1>3, <1>4

\* A text that is cut ends within the limit, by less than a rune, and one that
\* says something still does.
LEMMA TruncateFacts ==
    ASSUME NEW text \in Text, NEW limit \in Nat, limit >= MarkerSize + 4
    PROVE  LET left == TruncateUTF8(text, limit)
           IN  /\ (left # text /\ left.marked) =>
                    Bytes(left) <= limit /\ Bytes(left) + left.width > limit
               /\ text.runes > 0 => left.runes > 0
<1> DEFINE t == ToValidUTF8(text)
           left == TruncateUTF8(text, limit)
           room == limit - MarkerSize
           n == room \div t.width
<1>1. /\ t \in Text
      /\ t # text => ~t.marked
      /\ text.runes > 0 => t.runes > 0
  BY DEF ToValidUTF8, Text
<1>2. CASE Bytes(t) <= limit
  <2>1. left = t
    BY <1>2 DEF TruncateUTF8
  <2> HIDE DEF t, left
  <2> QED
    BY <1>1, <2>1 DEF left
<1>3. CASE ~(Bytes(t) <= limit)
  <2>1. room \in Nat /\ room >= 4 /\ ContentLimit(limit) = room /\ limit = room + MarkerSize
    BY DEF ContentLimit, MarkerSize
  <2>2. t.width \in 1 .. 4
    BY <1>1 DEF Text
  <2>3. left = [t EXCEPT !.runes = n, !.marked = TRUE]
    BY <1>3, <2>1 DEF TruncateUTF8
  <2>4. left.runes = n /\ left.marked /\ left.width = t.width
    BY <1>1, <2>3 DEF Text
  <2> DEFINE bytes == n * t.width
  <2>5. n \in Nat /\ bytes <= room /\ room < bytes + t.width /\ n > 0
    BY <2>1, <2>2, RunesFillTheRoom
  <2>6. bytes \in Int
    BY <2>2, <2>5
  <2>7. Bytes(left) = bytes + MarkerSize
    BY <2>4 DEF Bytes, Marker
  <2> HIDE DEF bytes, left, n, room, t
  <2>8. Bytes(left) <= limit /\ Bytes(left) + left.width > limit
    BY <2>1, <2>2, <2>4, <2>5, <2>6, <2>7 DEF MarkerSize
  <2> QED
    BY <2>4, <2>5, <2>8 DEF left
<1> QED
  BY <1>2, <1>3

\* The size in bytes, and the next kilobyte from there.
LEMMA KilobytesRoundUp ==
    ASSUME NEW size \in Nat
    PROVE  ((size + 1023) \div 1024) * 1024 \in size .. size + 1023
OBVIOUS

LEMMA SizeType ==
    ASSUME NEW r \in Requests, NEW f \in Configurations
    PROVE  Size(Event(r, AuditOptions(f))) \in Nat
<1> DEFINE full == Event(r, AuditOptions(f))
           part(g) == Escaped(full.text[g])
<1>1. full.text \in [Fields -> Text]
  BY EventTexts DEF Event
<1>2. full.groups \in Nat
  <2>1. r.groups \in Nat
    BY RequestsAssumption DEF RequestsAssumption, Request
  <2> QED
    BY <2>1 DEF Event, OCSFUser
<1>3. Len(full.chain) \in Nat
  <2>1. r.forwardedFor \in Seq(Seq(Candidate))
    BY RequestsAssumption DEF RequestsAssumption, Request, Candidate
  <2>2. ValidatedForwardedFor(r.forwardedFor) \in Seq(STRING)
    BY <2>1, ForwardedFacts DEF EndsInLastUsable
  <2>3. full.chain = IF f.forwardedFor THEN ValidatedForwardedFor(r.forwardedFor) ELSE <<>>
    BY DEF Event, ForwardedChain, AuditOptions
  <2> QED
    BY <2>2, <2>3
<1> HIDE DEF full
<1>4. AddressSize * Len(full.chain) \in Nat
  BY <1>3, AddressSizeAssumption DEF AddressSizeAssumption
<1>5. ASSUME NEW g \in Fields
      PROVE  part(g) \in Nat
  <2> DEFINE t == full.text[g]
  <2>1. t.runes \in Nat /\ t.escaped \in {1, 2, 3, 4, 5, 6} /\ Marker(t) \in {0, 11}
    <3>1. t \in Text
      BY <1>1
    <3> QED
      BY <3>1 DEF Text, Marker, MarkerSize
  <2>2. t.runes * t.escaped \in Nat
    BY <2>1
  <2> QED
    BY <2>1, <2>2 DEF Escaped
<1>6. {"user", "uid", "method", "version", "path", "resource", "namespace", "productVersion",
       "destination", "type", "provider", "operation", "model"} \subseteq Fields
  BY DEF Fields, RequestFields, OptionFields
<1>7. FixedSize \in Nat
  BY FixedSizeAssumption DEF FixedSizeAssumption
<1>8. Size(full) =
          FixedSize + full.groups + AddressSize * Len(full.chain)
            + part("user") + part("uid") + part("method") + part("version")
            + part("path") + part("resource") + part("namespace") + part("productVersion")
            + part("destination") + part("type") + part("provider") + part("operation")
            + part("model")
  BY DEF Size
<1> HIDE DEF part
<1>9. Size(full) \in Nat
  <2> DEFINE chain == AddressSize * Len(full.chain)
  <2>1. chain \in Nat
    BY <1>4
  <2>2. Size(full) =
          FixedSize + full.groups + chain
            + part("user") + part("uid") + part("method") + part("version")
            + part("path") + part("resource") + part("namespace") + part("productVersion")
            + part("destination") + part("type") + part("provider") + part("operation")
            + part("model")
    BY <1>8
  <2> HIDE DEF chain
  <2> QED
    BY <1>2, <1>5, <1>6, <1>7, <2>1, <2>2
<1> QED
  BY <1>9 DEF full

\* BoundedRecordsTellWhatIsLeftOut: for every request, and texts of any length
\* (boundedAuditEvent, truncateUTF8).
LEMMA BoundedLemma == IInv => BoundedRecordsTellWhatIsLeftOut
<1> DEFINE full == Event(served, AuditOptions(flags))
           bounded == BoundedAuditEvent(full, Size(full))
           cut == {f \in Fields : queued.text[f] # full.text[f]}
<1> SUFFICES ASSUME IInv, Recorded, queued # Discarded
             PROVE  /\ cut # {} \/ queued.groups # full.groups \/ queued.chain # full.chain
                            => queued.truncated
                    /\ queued.truncated =>
                            /\ Size(full) > MaxAuditEventSize
                            /\ queued.untruncatedSize * 1024 \in Size(full) .. Size(full) + 1023
                    /\ \A f \in cut : queued.text[f].marked =>
                            /\ Bytes(queued.text[f]) <= Limit(f)
                            /\ Bytes(queued.text[f]) + queued.text[f].width > Limit(f)
                    /\ \A f \in Fields : full.text[f].runes > 0 => queued.text[f].runes > 0
                    /\ queued.userType = full.userType /\ queued.code = full.code
                    /\ queued.source = full.source
                    /\ queued.destinationPort = full.destinationPort
  BY DEF BoundedRecordsTellWhatIsLeftOut
<1>1. served \in Requests /\ flags \in Configurations
      /\ \/ queued = full /\ Size(full) <= MaxAuditEventSize
         \/ queued = bounded /\ ~(Size(full) <= MaxAuditEventSize)
  BY QueuedEvent
<1>2. Size(full) \in Nat /\ full.text \in [Fields -> Text]
  BY <1>1, SizeType, EventTexts DEF Event
<1>3. CASE queued = full
  <2>1. ~full.truncated
    BY DEF Event
  <2> HIDE DEF full
  <2> QED
    BY <1>3, <2>1
<1>4. CASE queued = bounded /\ ~(Size(full) <= MaxAuditEventSize)
  <2>1. /\ bounded.truncated /\ bounded.untruncatedSize = (Size(full) + 1023) \div 1024
        /\ bounded.userType = full.userType /\ bounded.code = full.code
        /\ bounded.source = full.source /\ bounded.destinationPort = full.destinationPort
        /\ bounded.text = [f \in Fields |-> TruncateUTF8(full.text[f], Limit(f))]
    BY DEF BoundedAuditEvent, Event
  <2> HIDE DEF full, bounded
  <2>2. Size(full) > MaxAuditEventSize
    BY <1>2, <1>4 DEF MaxAuditEventSize
  <2>3. bounded.untruncatedSize * 1024 \in Size(full) .. Size(full) + 1023
    BY <1>2, <2>1, KilobytesRoundUp
  <2>4. ASSUME NEW f \in Fields
        PROVE  /\ (bounded.text[f] # full.text[f] /\ bounded.text[f].marked) =>
                    /\ Bytes(bounded.text[f]) <= Limit(f)
                    /\ Bytes(bounded.text[f]) + bounded.text[f].width > Limit(f)
               /\ full.text[f].runes > 0 => bounded.text[f].runes > 0
    <3>1. Limit(f) \in Nat /\ Limit(f) >= MarkerSize + 4
      BY DEF Limit, MaxAuditPathSize, MaxAuditDynamicStringSize, MarkerSize
    <3>2. bounded.text[f] = TruncateUTF8(full.text[f], Limit(f)) /\ full.text[f] \in Text
      BY <1>2, <2>1
    <3> QED
      BY <3>1, <3>2, TruncateFacts
  <2> QED
    BY <1>4, <2>1, <2>2, <2>3, <2>4
<1> QED
  BY <1>1, <1>3, <1>4

\* A record that leaves something out says so, was too large and tells the size it
\* had in kilobytes rounded up; its texts are cut between runes, as late as their
\* limits allow, and the principal, code and addresses stay (boundedAuditEvent,
\* truncateUTF8).
THEOREM BoundedTheorem == DeploymentSpec => []BoundedRecordsTellWhatIsLeftOut
BY Invariance, BoundedLemma, PTL
=============================================================================
