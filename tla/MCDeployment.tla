---------------------------- MODULE MCDeployment ----------------------------
(* Command lines and requests for TLC.  The command lines vary one group of *)
(* flags at a time.                                                         *)
EXTENDS Deployment

Defaults ==
    [secure |-> TRUE, insecure |-> FALSE, probes |-> TRUE,
     cert |-> {"cert", "key"}, min |-> "VersionTLS12", suites |-> {}, curves |-> <<>>,
     idle |-> 60, readHeader |-> 10, authTimeout |-> 30, upstreamTimeout |-> 30,
     allow |-> {}, ignore |-> {}, size |-> 256, streams |-> 100,
     oidc |-> FALSE, clientCA |-> FALSE,
     h2c |-> FALSE, upstreamCA |-> FALSE, upstreamCert |-> FALSE,
     profile |-> "none", forwardedFor |-> FALSE, aiProvider |-> FALSE]

Timeouts ==
    {[Defaults EXCEPT !.secure = s, !.insecure = i, !.probes = p, !.idle = t, !.readHeader = r] :
        s, i, p \in BOOLEAN, t \in {-1, 0, 60}, r \in {0, 10}}
Policies ==
    {[Defaults EXCEPT !.min = m, !.suites = s, !.cert = c, !.clientCA = a, !.oidc = o] :
        m \in {"", "TLS1.0", "TLS1.1", "TLS1.3", "SSL"},
        s \in {{}, {"http2"}, {"other"}, {"unknown", "http2"}},
        c \in {{}, {"cert"}, {"cert", "key"}}, a, o \in BOOLEAN}
Curves ==
    {[Defaults EXCEPT !.curves = c] :
        c \in {<<29>>, <<29, 23>>, <<29, 29>>, <<0>>, <<77>>, <<65536>>, <<-5, 29>>}}
Upstreams ==
    {[Defaults EXCEPT !.h2c = h, !.upstreamCA = a, !.upstreamCert = c, !.upstreamTimeout = t] :
        h, a, c \in BOOLEAN, t \in {-1, 0, 30}}
\* 256 KiB for 8191 streams just fit, for 8192 they are 2^31 bytes, for 16385 they
\* wrap to 256 KiB; two streams of 2^20 KiB are 2^31 bytes.
Buffers ==
    {[Defaults EXCEPT !.size = z, !.streams = n] : z \in {0, 16, 256}, n \in {0, 1, 100, 8191, 8192, 16385}}
        \cup {[Defaults EXCEPT !.size = 1048576, !.streams = n] : n \in {1, 2}}
Paths ==
    {[Defaults EXCEPT !.allow = a, !.ignore = i] :
        a, i \in {{}, {"ok"}, {"ok", "malformed"}}}
Audited ==
    {[Defaults EXCEPT !.profile = "metadata", !.forwardedFor = f, !.aiProvider = a] :
        f, a \in BOOLEAN}

MCConfigurations ==
    UNION {Timeouts, Policies, Curves, Upstreams, Buffers, Paths, Audited}

Texts(user, path, resource) ==
    [f \in RequestFields |->
        CASE f = "user" -> user [] f = "path" -> path [] f = "resource" -> resource
          [] f = "method" -> Plain(3)
          [] OTHER -> Plain(8)]

Runes(n, width, escaped) ==
    [runes |-> n, width |-> width, escaped |-> escaped, valid |-> TRUE, marked |-> FALSE]
NotUTF8(n) == [runes |-> n, width |-> 1, escaped |-> 6, valid |-> FALSE, marked |-> FALSE]

Addr(ip) == [ip |-> ip, zone |-> FALSE, valid |-> TRUE]
Zoned(ip) == [ip |-> ip, zone |-> TRUE, valid |-> TRUE]
Junk == [ip |-> "", zone |-> FALSE, valid |-> FALSE]

Ordinary ==
    [text |-> Texts(Plain(20), Plain(12), Plain(9)), principal |-> "user", groups |-> 40,
     code |-> 200, peer |-> [host |-> Addr("peer"), port |-> 8443], forwardedFor |-> <<>>]

Sources ==
    {[Ordinary EXCEPT !.peer = p, !.forwardedFor = x] :
        p \in [host : {Addr("peer"), Zoned("peer"), Junk}, port : {0, 8443, 65536}],
        x \in {<<>>, <<<<Addr("a")>>>>, <<<<Addr("a"), Junk>>, <<Addr("b")>>>>,
               <<<<Addr("a")>>, <<Zoned("b"), Junk>>>>, <<<<Junk>>>>}}
Sizes ==
    {[Ordinary EXCEPT !.text = Texts(u, p, n), !.groups = g, !.principal = a, !.code = c] :
        u \in {Plain(20), Runes(300, 3, 6), NotUTF8(400)},
        p \in {Plain(12), Plain(31400), Runes(12000, 1, 6), Runes(400, 4, 4)},
        n \in {Plain(0), Plain(9), Runes(20000, 2, 2)},
        g \in {0, 40, 70000}, a \in {"none", "serviceaccount"}, c \in {200, 404}}

MCRequests == Sources \cup Sizes

HTTPUpstream == [port |-> 0, scheme |-> "https"]
MCFlagTexts == [f \in OptionFields |-> Plain(8)]
=============================================================================
