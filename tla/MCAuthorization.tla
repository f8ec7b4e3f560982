-------------------------- MODULE MCAuthorization --------------------------
(* Configurations and requests for Authorization.  EndpointConfigs vary the *)
(* Format2 endpoints, valid and invalid ones; Format1Configs vary the       *)
(* rewrites and the static rules.                                           *)
EXTENDS Authorization

Template(kind, text, param) == [kind |-> kind, text |-> text, param |-> param]
Lit(v) == Template("literal", v, NoValue)
Value == Template("value", "{{.Value}}", NoValue)
Param(n) == Template("param", "{{.PathParams}}", n)
BrokenTemplate == Template("broken", "{{", NoValue)

Root(segments) == <<[kind |-> "literal", text |-> NoValue]>> \o segments
Text(t) == [kind |-> "literal", text |-> t]
Capture(n) == [kind |-> "capture", text |-> n]
Star == [kind |-> "star", text |-> "*"]
Malformed == [kind |-> "malformed", text |-> "{x"]

Rewrites(given, query, header) == [given |-> given, query |-> query, header |-> header]
NoRewrites == Rewrites(FALSE, "none", "none")
Fields(verb, namespace, name) == [verb |-> verb, namespace |-> namespace, name |-> name]
Rule(rewrites, fields) == [rewrites |-> rewrites, fields |-> fields]
Mapping(methods, rules) == [methods |-> methods, rules |-> rules]
Endpoint(path, mappings) == [path |-> path, mappings |-> mappings]

ByParams == Rule(NoRewrites, Fields(Lit(NoValue), Param("x"), Param("y")))
ByHeader == Rule(Rewrites(TRUE, "named", "named"), Fields(Lit("get"), Value, Lit("b")))
ByQuery == Rule(Rewrites(TRUE, "named", "none"), Fields(Lit(NoValue), Value, Param("x")))
Unparsable == Rule(NoRewrites, Fields(Lit(NoValue), BrokenTemplate, Lit("b")))
Unnamed == Rule(Rewrites(TRUE, "none", "unnamed"), Fields(Lit(NoValue), Value, Lit("b")))

ValidEndpoints ==
    {Endpoint(Root(p), m) :
        p \in {<<Capture("x")>>, <<Text("a")>>, <<Text("a"), Capture("x")>>,
               <<Capture("x"), Capture("y")>>, <<Star, Capture("x")>>},
        m \in {<<Mapping({"get", "connect"}, <<ByParams, ByQuery>>), Mapping({"get", "head"}, <<ByHeader>>)>>,
               <<Mapping({"head"}, <<Unparsable>>), Mapping({"post", "connect"}, <<ByParams>>)>>}}
InvalidEndpoints ==
    {Endpoint(p, <<Mapping({"get"}, <<ByParams>>)>>) :
        p \in {Root(<<Capture("x"), Capture("x")>>), Root(<<Malformed>>), Root(<<>>)}}
    \cup {Endpoint(Root(<<Capture("x")>>), m) :
        m \in {<<>>, <<Mapping({}, <<ByParams>>)>>, <<Mapping({"get"}, <<>>)>>,
               <<Mapping({"get"}, <<Unnamed>>)>>}}

Format1(given, rewrites, fields) == [given |-> given, rewrites |-> rewrites, fields |-> fields]
NonResourceOnly == Format1(FALSE, NoRewrites, Fields(Lit(NoValue), Lit(NoValue), Lit(NoValue)))
FixedResource == Format1(TRUE, NoRewrites, Fields(Lit(NoValue), Value, Lit("b")))

EndpointConfigs ==
    {[endpoints |-> e, format1 |-> f, static |-> <<>>] :
        e \in {<<a>> : a \in ValidEndpoints \cup InvalidEndpoints}
              \cup {<<a, b>> : a \in ValidEndpoints, b \in ValidEndpoints},
        f \in {NonResourceOnly, FixedResource}}

\* The mux cleans the path of a request, except for CONNECT; a trailing slash
\* stays.
CleanPaths == {<<NoValue, NoValue>>, <<NoValue, "a">>, <<NoValue, "a", NoValue>>,
               <<NoValue, "b", "a">>, <<NoValue, "a", "b", "a">>}
RawPaths == {<<NoValue, "a", "..", "b">>, <<NoValue, NoValue, "a", ".", "b">>, <<NoValue, "..">>}

Request(user, method, path, query, header) ==
    [user |-> user, method |-> method, path |-> path, query |-> query, header |-> header]

EndpointRequests ==
    {Request("alice", m, p, q, h) : m \in {"GET", "HEAD", "POST", "CONNECT"}, p \in CleanPaths,
                                    q \in {<<>>, <<"b">>}, h \in {<<>>, <<"a", "b">>}}
    \cup {Request("alice", "CONNECT", p, <<"b">>, <<"a">>) : p \in RawPaths}

StaticRule(user, resourceRequest, path) ==
    [user |-> user, verb |-> NoValue, namespace |-> IF resourceRequest THEN "a" ELSE NoValue,
     name |-> NoValue, path |-> path, resourceRequest |-> resourceRequest]

Format1Configs ==
    {[endpoints |-> <<>>, format1 |-> f, static |-> s] :
        f \in {NonResourceOnly}
              \cup {Format1(TRUE, r, Fields(v, n, Param("x"))) :
                        r \in {NoRewrites} \cup
                            {Rewrites(TRUE, q, h) : q \in {"none", "named"},
                                                    h \in {"none", "named", "unnamed"}},
                        v \in {Lit(NoValue), Lit("get")},
                        n \in {Lit("a"), Value, BrokenTemplate}},
        s \in {<<>>, <<StaticRule("alice", TRUE, NoValue)>>,
               <<StaticRule(NoValue, FALSE, <<NoValue, "a">>), StaticRule("bob", TRUE, NoValue)>>,
               <<StaticRule("alice", TRUE, <<NoValue, "a">>)>>}}

Format1Requests ==
    {r \in {Request(u, m, p, q, h) :
                u \in {"alice", "prometheus"}, m \in {"GET", "HEAD"},
                p \in {<<NoValue, "a">>, <<NoValue, "metrics">>},
                q \in {<<>>, <<"a">>, <<NoValue, "b">>},
                h \in {<<>>, <<"a">>, <<"b", "a">>}} :
        Len(r.query) + Len(r.header) <= MaxAttrs}

AllConfigs ==
    [c \in EndpointConfigs \cup Format1Configs |->
        IF c \in EndpointConfigs THEN EndpointRequests ELSE Format1Requests]
EndpointsOnly == [c \in EndpointConfigs |-> EndpointRequests]

Metrics == <<NoValue, "metrics">>
=============================================================================
