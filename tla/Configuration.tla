--------------------------- MODULE Configuration ---------------------------
(***************************************************************************)
(* From the command line to listening servers: Validate, Complete and the  *)
(* first half of Run.                                                      *)
(*                                                                         *)
(* One http2.Server value, http2Options, is shared by all listeners, and   *)
(* http2.ConfigureServer fills in what it finds missing there.  A timeout  *)
(* of 0 means "none" to the operator, but "take another one" to net/http   *)
(* and to ConfigureServer.                                                 *)
(*                                                                         *)
(* Times are in seconds, sizes in KiB: a size of 2^21 stands for 2^31      *)
(* bytes.  Files, addresses and the cluster are outside: whatever reads    *)
(* them may fail.                                                          *)
(***************************************************************************)
EXTENDS Integers, Sequences, FiniteSets

CONSTANTS
    Configurations, \* the command lines considered (a set of ProxyRunOptions)
    KnownCurves,    \* curve numbers this Go version supports
    MaxCurve        \* math.MaxUint16

ASSUME CurvesAssumption == MaxCurve \in Nat /\ KnownCurves \subseteq 1 .. MaxCurve

VARIABLES
    flags,          \* ProxyRunOptions
    phase,          \* how far the process has got
    authenticator,  \* kinds of credentials that are looked at
    http2,          \* http2Options, shared by the servers
    server,         \* the http.Server of each listener
    transport,      \* proxy.Transport
    logger          \* an audit logger runs

settings == <<authenticator, http2, server, transport, logger>>
vars == <<flags, phase, settings>>

Listeners == {"secure", "probes", "insecure"}
None == [kind |-> "none"]

Init ==
    /\ flags \in Configurations
    /\ phase = "flags"
    /\ authenticator = {}
    /\ http2 = None
    /\ server = [l \in Listeners |-> None]
    /\ transport = None
    /\ logger = FALSE

\* Whatever a phase reads or opens may fail it, and with it the process.
Fail ==
    /\ phase' = "failed"
    /\ UNCHANGED <<flags, settings>>

-----------------------------------------------------------------------------
(* Validate.  The disabled flags only cause a warning; a profile is checked *)
(* when its flag is set.                                                   *)

WellFormed(pattern) == pattern # "malformed"

Errors(f) ==
    \/ f.allow # {} /\ f.ignore # {}
    \/ \E limit \in {f.authTimeout, f.upstreamTimeout, f.readHeader, f.idle} : limit < 0
    \/ \E pattern \in f.allow \cup f.ignore : ~WellFormed(pattern)

Validate ==
    /\ phase = "flags"
    /\ IF Errors(flags) THEN Fail
       ELSE phase' = "valid" /\ UNCHANGED <<flags, settings>>

-----------------------------------------------------------------------------
(* Complete.                                                               *)

\* The two's complement value of a 32 bit product, in KiB.
Int32(kib) == LET low == kib % 4194304 IN IF low < 2097152 THEN low ELSE low - 4194304

\* Mutant: 0 is passed on.
NoSentinel(idle) == idle

\* A negative bound is none, for net/http and for ConfigureServer.
Sentinel(idle) == IF idle <= 0 THEN -1 ELSE idle

\* Mutant: the connection gets the buffer of one stream.
OneStream(f) == Int32(f.size)

ConnectionBuffer(f) == Int32(Int32(f.size) * Int32(f.streams))

HTTP2Options(f) ==
    [kind |-> "http2",
     idle |-> Sentinel(f.idle),
     streams |-> f.streams,
     frame |-> f.size,
     streamBuffer |-> Int32(f.size),
     connBuffer |-> ConnectionBuffer(f)]

\* The upstream URL, the CA bundle, the configuration file and the kubeconfig
\* are read here.
Complete ==
    /\ phase = "valid"
    /\ \/ Fail
       \/ /\ http2' = HTTP2Options(flags)
          /\ phase' = "completed"
          /\ UNCHANGED <<flags, authenticator, server, transport, logger>>

-----------------------------------------------------------------------------
(* Run: the authenticator and the way to the upstream.                     *)

\* The credentials each authenticator looks at.
OIDCAuthenticator == {"idToken"}
DelegatingAuthenticator(f) ==
    {"tokenReview"} \cup (IF f.clientCA THEN {"certificate"} ELSE {})

\* With an OIDC issuer there is no delegating authenticator, so client
\* certificates are not looked at.
NewAuthenticator ==
    /\ phase = "completed"
    /\ \/ Fail
       \/ /\ authenticator' =
                IF flags.oidc THEN OIDCAuthenticator ELSE DelegatingAuthenticator(flags)
          /\ phase' = "authenticator"
          /\ UNCHANGED <<flags, http2, server, transport, logger>>

\* Without a CA bundle the client certificate is neither loaded nor used.
InitTransport(f) ==
    [kind |-> "http", min |-> 12, wait |-> f.upstreamTimeout, limit |-> 0,
     roots |-> IF f.upstreamCA THEN "bundle" ELSE "system",
     identity |-> f.upstreamCA /\ f.upstreamCert]

\* Neither verifies nor waits for a limited time.
H2CTransport ==
    [kind |-> "h2c", min |-> 0, wait |-> 0, limit |-> 0, roots |-> "none", identity |-> FALSE]

WithUpstreamTimeout(next, timeout) ==
    IF timeout <= 0 THEN next ELSE [next EXCEPT !.limit = timeout]

\* Mutant: the h2c transport replaces the one that is limited.
LimitedFirst(f) ==
    IF f.h2c THEN H2CTransport ELSE WithUpstreamTimeout(InitTransport(f), f.upstreamTimeout)

UpstreamTransport(f) ==
    WithUpstreamTimeout(IF f.h2c THEN H2CTransport ELSE InitTransport(f), f.upstreamTimeout)

ConnectUpstream ==
    /\ phase = "authenticator"
    /\ \/ flags.upstreamCA /\ flags.upstreamCert /\ Fail
       \/ /\ transport' = UpstreamTransport(flags)
          /\ logger' = (flags.profile = "metadata")
          /\ phase' = "upstream"
          /\ UNCHANGED <<flags, authenticator, http2, server>>

-----------------------------------------------------------------------------
(* Run: the servers.                                                       *)

EmptyTLS == [min |-> 0, suites |-> {}, curves |-> <<>>, certificate |-> "none",
             clientAuth |-> "none", protocols |-> {}]

NewTLSServer(tls, readHeader, idle, boundedRead) ==
    [kind |-> "server", tls |-> tls, readHeader |-> readHeader, idle |-> Sentinel(idle),
     read |-> IF boundedRead THEN readHeader ELSE 0]

NormalizeTLSVersion(name) ==
    CASE name \in {"TLS1.0", "VersionTLS10"} -> 10
      [] name \in {"TLS1.1", "VersionTLS11"} -> 11
      [] name \in {"TLS1.2", "VersionTLS12", ""} -> 12
      [] name \in {"TLS1.3", "VersionTLS13"} -> 13
      [] OTHER -> 0

CurvesRejected(ids) ==
    \/ \E i \in DOMAIN ids : ids[i] \notin 1 .. MaxCurve \/ ids[i] \notin KnownCurves
    \/ \E i, j \in DOMAIN ids : i # j /\ ids[i] = ids[j]

PolicyRejected(f) ==
    \/ NormalizeTLSVersion(f.min) = 0
    \/ "unknown" \in f.suites
    \/ CurvesRejected(f.curves)

\* applyTLSConfig, and the request for client certificates that follows it.
ApplyTLSConfig(tls, f) ==
    [tls EXCEPT !.min = NormalizeTLSVersion(f.min), !.suites = f.suites, !.curves = f.curves,
                !.clientAuth = "request"]

\* HTTP/2 needs one of two cipher suites below TLS 1.3.
SuitesTooFew(tls) == tls.suites # {} /\ "http2" \notin tls.suites /\ tls.min < 13

\* A missing idle bound is taken from the server, and there from the read bound.
FilledIn(options, srv) ==
    IF options.idle # 0 THEN options
    ELSE [options EXCEPT !.idle = IF srv.idle # 0 THEN srv.idle ELSE srv.read]

ConfigureServer(l, srv, next) ==
    IF SuitesTooFew(srv.tls) THEN Fail
    ELSE /\ http2' = FilledIn(http2, srv)
         /\ server' = [server EXCEPT ![l] = [srv EXCEPT !.tls.protocols = {"h2", "http/1.1"}]]
         /\ phase' = next
         /\ UNCHANGED <<flags, authenticator, transport, logger>>

\* A certificate without a key, or a key without a certificate, cannot be read.
NewSecureServer ==
    /\ phase = "upstream"
    /\ flags.secure
    /\ \/ Fail
       \/ /\ Cardinality(flags.cert) # 1
          /\ server' = [server EXCEPT !["secure"] =
                NewTLSServer([EmptyTLS EXCEPT !.certificate =
                                  IF flags.cert = {} THEN "selfSigned" ELSE "reloader"],
                             flags.readHeader, flags.idle, FALSE)]
          /\ phase' = "certificate"
          /\ UNCHANGED <<flags, authenticator, http2, transport, logger>>

ConfigureSecure ==
    /\ phase = "certificate"
    /\ IF PolicyRejected(flags) THEN Fail
       ELSE ConfigureServer("secure",
                [server["secure"] EXCEPT !.tls = ApplyTLSConfig(@, flags)], "secure")

\* Mutant: the probes do not wait for the policy of the main server.
OwnTLS(main) == [EmptyTLS EXCEPT !.certificate = main.certificate]

Clone(main) == main

ConfigureProbes ==
    /\ phase = "secure"
    /\ flags.probes
    /\ ConfigureServer("probes",
            NewTLSServer(Clone(server["secure"].tls), flags.readHeader, flags.idle, TRUE),
            "probes")

SecureDone ==
    phase = IF ~flags.secure THEN "upstream" ELSE IF flags.probes THEN "probes" ELSE "secure"

NewInsecureServer ==
    /\ SecureDone
    /\ flags.insecure
    /\ \/ Fail
       \/ /\ server' = [server EXCEPT !["insecure"] =
                [kind |-> "server", tls |-> None, readHeader |-> flags.readHeader,
                 idle |-> flags.idle, read |-> 0]]
          /\ phase' = "insecure"
          /\ UNCHANGED <<flags, authenticator, http2, transport, logger>>

\* Without a listen address Run gives up here.
StartGroup ==
    /\ IF flags.insecure THEN phase = "insecure" ELSE SecureDone
    /\ IF flags.secure \/ flags.insecure
       THEN phase' = "serving" /\ UNCHANGED <<flags, settings>>
       ELSE Fail

Run ==
    \/ NewAuthenticator \/ ConnectUpstream
    \/ NewSecureServer \/ ConfigureSecure \/ ConfigureProbes
    \/ NewInsecureServer \/ StartGroup

Next == Validate \/ Complete \/ Run

Spec == Init /\ [][Next]_vars

-----------------------------------------------------------------------------
(* What the servers do with their settings.                                *)

Serving == phase = "serving"
Built == {l \in Listeners : server[l] # None}
NoBound(timeout) == IF timeout < 0 THEN 0 ELSE timeout

\* net/http: without an idle bound the read bound applies to idle connections.
IdleBound(l, protocol) ==
    NoBound(IF protocol = "h2" THEN http2.idle
            ELSE IF server[l].idle # 0 THEN server[l].idle ELSE server[l].read)

\* golang.org/x/net/http2: 1 MiB where the setting makes no sense.
StreamWindow == IF http2.streamBuffer > 0 THEN http2.streamBuffer ELSE 1024
ConnectionWindow == IF http2.connBuffer >= 64 THEN http2.connBuffer ELSE 1024

Options ==
    [secure : BOOLEAN, insecure : BOOLEAN, probes : BOOLEAN,
     cert : SUBSET {"cert", "key"}, min : STRING, suites : SUBSET STRING, curves : Seq(Int),
     idle : Int, readHeader : Int, authTimeout : Int, upstreamTimeout : Int,
     allow : SUBSET STRING, ignore : SUBSET STRING, size : Nat, streams : Nat,
     oidc : BOOLEAN, clientCA : BOOLEAN,
     h2c : BOOLEAN, upstreamCA : BOOLEAN, upstreamCert : BOOLEAN,
     profile : {"none", "metadata"}, forwardedFor : BOOLEAN, aiProvider : BOOLEAN]

ASSUME OptionsAssumption == Configurations \subseteq Options

\* "A value of 0 disables the bound": whichever listener and protocol a client
\* uses, an idle connection is closed after --idle-timeout and never because of
\* another timeout (newTLSServer, Complete, http2.ConfigureServer).
IdleBoundIsTheFlag ==
    Serving => \A l \in Built, protocol \in {"http/1.1", "h2"} :
                   IdleBound(l, protocol) = flags.idle

\* Where the buffers of all streams together stay below 2^31 bytes, no stream has
\* to wait for the connection's window while its own is open (Complete).
StreamsHaveTheirBuffers ==
    Serving /\ flags.size > 0 /\ flags.streams > 0 /\ flags.size * flags.streams < 2097152
        => ConnectionWindow >= flags.streams * StreamWindow

\* Every TLS listener, the one of the probes too, has a certificate and the
\* policy of the flags, offers HTTP/2, and asks for the client certificates the
\* authenticator may want to see (applyTLSConfig, Run).
TLSListenersFollowTheFlags ==
    Serving => \A l \in Built \ {"insecure"} :
        LET tls == server[l].tls
        IN  /\ tls.min = NormalizeTLSVersion(flags.min) /\ tls.min >= 10
            /\ tls.suites = flags.suites /\ tls.curves = flags.curves
            /\ tls.certificate = (IF flags.cert = {} THEN "selfSigned" ELSE "reloader")
            /\ "h2" \in tls.protocols /\ ~SuitesTooFew(tls)
            /\ "certificate" \in authenticator => tls.clientAuth = "request"

\* --upstream-timeout limits the request whichever transport is used, and a
\* transport that waits for response headers for a limited time is limited as a
\* whole (initTransport, withUpstreamTimeout, Run).
UpstreamTimeoutCoversEveryTransport ==
    Serving => /\ transport.limit = flags.upstreamTimeout
               /\ transport.wait > 0 => transport.wait = transport.limit
=============================================================================
