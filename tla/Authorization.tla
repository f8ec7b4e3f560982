--------------------------- MODULE Authorization ---------------------------
(***************************************************************************)
(* From the authorization configuration and a request to the attributes    *)
(* that are authorized, and from those to a decision: the loading of the   *)
(* configuration, path matching and captures of Format2 endpoints, Format1 *)
(* rewrites, and the union of the hard-coded, the static and the webhook   *)
(* authorizer.  The webhook may answer anything.                           *)
(*                                                                         *)
(* A path is the sequence of its segments as strings.Split(path, "/") has  *)
(* them: "/" is <<"", "">> and "/a/" is <<"", "a", "">>.  A template is its *)
(* raw text and what it refers to.  Of the seven fields of a rule the model *)
(* has the verb, the namespace and the name.  A rule names one header and  *)
(* one query parameter at most, so a request carries just the values of    *)
(* these two.                                                              *)
(***************************************************************************)
EXTENDS RequestPlans, FiniteSets
LOCAL INSTANCE SequencesExt

CONSTANTS
    Workload,       \* the requests to be served under each configuration
    NoRequest,      \* no request yet
    Prometheus,     \* system:serviceaccount:openshift-monitoring:prometheus-k8s
    MetricsPath     \* the path /metrics

Configs == DOMAIN Workload
Requests == UNION {Workload[c] : c \in Configs}

IsSeq(s) == s \in Seq(ToSet(s))
ASSUME WorkloadAssumption ==
    /\ \A c \in Configs :
        /\ IsSeq(c.endpoints)
        /\ \A e \in ToSet(c.endpoints) :
            /\ IsSeq(e.path) /\ IsSeq(e.mappings)
            /\ \A m \in ToSet(e.mappings) : IsSeq(m.rules)
    /\ \A r \in Requests : IsSeq(r.path) /\ IsSeq(r.query) /\ IsSeq(r.header)

\* Values has every text that a name or a namespace can be taken from.
Named == Values \cup {NoValue}
ASSUME ValuesAssumption ==
    /\ NoValue \notin {".", ".."}
    /\ \A c \in Configs : \A f \in {"namespace", "name"} :
        /\ c.format1.fields[f].text \in Named
        /\ \A e \in ToSet(c.endpoints) : \A m \in ToSet(e.mappings) :
            \A rule \in ToSet(m.rules) : rule.fields[f].text \in Named
    /\ \A r \in Requests :
        /\ ToSet(r.path) \subseteq Named \cup {".", ".."}
        /\ ToSet(r.query) \cup ToSet(r.header) \subseteq Named

\* MaxAttrs is enough for every rule of a mapping and every value of a request.
ASSUME MaxAttrsAssumption ==
    /\ \A c \in Configs : \A e \in ToSet(c.endpoints) : \A m \in ToSet(e.mappings) :
        Len(m.rules) <= MaxAttrs
    /\ \A r \in Requests : Len(r.query) + Len(r.header) <= MaxAttrs

VARIABLES
    stage,      \* "load", "refused", "ready", "authorize" or "answered"
    config,     \* the configuration of the process
    request,    \* the request being served
    plan,       \* what GetRequestAttributes made of it
    next,       \* index of the attributes being authorized
    asked,      \* history: what the webhook was asked, with its answers
    response    \* "none", "forwarded", "forbidden", "badRequest", "error" or "panic"

vars == <<stage, config, request, plan, next, asked, response>>

-----------------------------------------------------------------------------
(* Paths.                                                                  *)

\* path.Clean of a rooted path, split again: empty segments and "." go, ".."
\* takes its parent with it.
Step(kept, segment) ==
    CASE segment \in {NoValue, "."} -> kept
      [] segment = ".." -> IF kept = <<>> THEN <<>> ELSE Front(kept)
      [] OTHER -> Append(kept, segment)

Kept(path) ==
    LET kept[n \in 0 .. Len(path)] == IF n = 0 THEN <<>> ELSE Step(kept[n - 1], path[n])
    IN  kept[Len(path)]

Clean(path) == IF Kept(path) = <<>> THEN <<NoValue, NoValue>> ELSE <<NoValue>> \o Kept(path)

MatchEndpoint(path, endpoint) ==
    LET parts == Clean(path)
        pattern == endpoint.path
    IN  /\ Len(parts) = Len(pattern)
        /\ \A i \in DOMAIN pattern :
            \/ pattern[i].kind \in {"capture", "star"}
            \/ pattern[i].kind = "literal" /\ pattern[i].text = parts[i]

CaptureNames(endpoint) ==
    {s.text : s \in {t \in ToSet(endpoint.path) : t.kind = "capture"}}

\* Mutant: the captures are taken from the path as it was sent.
CapturesOfRawPath(path, endpoint) ==
    [n \in CaptureNames(endpoint) |->
        LET i == CHOOSE i \in DOMAIN endpoint.path :
                    endpoint.path[i].kind = "capture" /\ endpoint.path[i].text = n
        IN  IF i \in DOMAIN path THEN path[i] ELSE NoValue]

ExtractPathCaptures(path, endpoint) ==
    [n \in CaptureNames(endpoint) |->
        Clean(path)[CHOOSE i \in DOMAIN endpoint.path :
                        endpoint.path[i].kind = "capture" /\ endpoint.path[i].text = n]]

-----------------------------------------------------------------------------
(* Loading the configuration.                                              *)

\* Mutant: a mapping without resource rules is let through.
RulesMayBeMissing(mapping) ==
    mapping.methods # {} /\ \A rule \in ToSet(mapping.rules) :
        rule.rewrites.header # "unnamed" /\ rule.rewrites.query # "unnamed"

ValidMapping(mapping) ==
    /\ mapping.methods # {}
    /\ mapping.rules # <<>>
    /\ \A rule \in ToSet(mapping.rules) :
        rule.rewrites.header # "unnamed" /\ rule.rewrites.query # "unnamed"

\* Every capture is well formed and has a name of its own.
ValidCaptures(pattern) ==
    /\ \A s \in ToSet(pattern) : s.kind # "malformed"
    /\ \A i, j \in DOMAIN pattern :
        (/\ pattern[i].kind = "capture" /\ pattern[j].kind = "capture"
         /\ pattern[i].text = pattern[j].text) => i = j

ValidEndpoint(endpoint) ==
    /\ endpoint.path # <<[kind |-> "literal", text |-> NoValue]>>
    /\ endpoint.mappings # <<>>
    /\ ValidCaptures(endpoint.path)
    /\ \A m \in ToSet(endpoint.mappings) : ValidMapping(m)

\* NewStaticAuthorizer: resource requests have no path, others have one.
ValidStatic(rule) == rule.resourceRequest <=> rule.path = NoValue

ValidConfig(c) ==
    /\ \A e \in ToSet(c.endpoints) : ValidEndpoint(e)
    /\ \A s \in ToSet(c.static) : ValidStatic(s)

-----------------------------------------------------------------------------
(* GetRequestAttributes.                                                   *)

Lower(method) ==
    CASE method = "GET" -> "get" [] method = "POST" -> "post"
      [] method = "HEAD" -> "head" [] OTHER -> "connect"

HTTPToKubeVerb(method) ==
    CASE method = "GET" -> "get" [] method = "POST" -> "create"
      [] method = "HEAD" -> "head" [] OTHER -> NoValue

Format1Verb(method) ==
    CASE method = "GET" -> "get" [] method = "POST" -> "create" [] OTHER -> "*"

\* What a template that parses yields.  A capture the pattern does not have is
\* the empty string.
Expand(template, value, params) ==
    CASE template.kind = "literal" -> template.text
      [] template.kind = "value" -> value
      [] OTHER -> IF template.param \in DOMAIN params THEN params[template.param] ELSE NoValue

Broken(fields) == \E f \in {"verb", "namespace", "name"} : fields[f].kind = "broken"

Outcome(matched, outcome, list) == [matched |-> matched, outcome |-> outcome, list |-> list]

ResourceRecord(r, verb, namespace, name) ==
    [user |-> r.user, resourceRequest |-> TRUE, path |-> NoValue,
     verb |-> verb, namespace |-> namespace, name |-> name]

FirstValue(values) == IF values = <<>> THEN NoValue ELSE Head(values)

\* A rule wants its header to have a value, its query parameter to be there,
\* and its fields to parse.
RuleFails(rule, r) ==
    \/ rule.rewrites.header = "named" /\ FirstValue(r.header) = NoValue
    \/ rule.rewrites.query = "named" /\ r.query = <<>>
    \/ Broken(rule.fields)

RuleValue(rule, r) ==
    CASE rule.rewrites.header = "named" -> FirstValue(r.header)
      [] rule.rewrites.header # "named" /\ rule.rewrites.query = "named" -> FirstValue(r.query)
      [] OTHER -> NoValue

RuleAttributes(rule, r, params) ==
    LET Field(f) == Expand(rule.fields[f], RuleValue(rule, r), params)
        verb == IF Field("verb") = NoValue THEN HTTPToKubeVerb(r.method) ELSE Field("verb")
    IN  ResourceRecord(r, verb, Field("namespace"), Field("name"))

AttributesFromEndpointResourceRules(r, rules, params) ==
    IF \E k \in DOMAIN rules : RuleFails(rules[k], r)
    THEN Outcome(TRUE, "error", <<>>)
    ELSE Outcome(TRUE, "list", [k \in DOMAIN rules |-> RuleAttributes(rules[k], r, params)])

\* Mutant: an endpoint without the method leaves the request to later ones.
OwnerWithMethod(c, r) ==
    LET Serves(e) == /\ MatchEndpoint(r.path, e)
                     /\ \E m \in ToSet(e.mappings) : Lower(r.method) \in m.methods
    IN  SelectInSeq(c.endpoints, Serves)

\* The first endpoint that matches, 0 if none does.
Owner(c, r) ==
    LET Matches(e) == MatchEndpoint(r.path, e)
    IN  SelectInSeq(c.endpoints, Matches)

EndpointAttributesFromRequest(c, r) ==
    LET endpoint == c.endpoints[Owner(c, r)]
        Accepts(m) == Lower(r.method) \in m.methods
        mapping == SelectInSeq(endpoint.mappings, Accepts)
    IN  IF mapping = 0 THEN Outcome(TRUE, "methodNotAllowed", <<>>)
        ELSE AttributesFromEndpointResourceRules(r, endpoint.mappings[mapping].rules,
                                                 ExtractPathCaptures(r.path, endpoint))

\* Mutant: of several headers only the first one is authorized.
FirstHeaderOnly(rewrites, r) ==
    (IF rewrites.query = "named" THEN r.query ELSE <<>>)
        \o (IF rewrites.header = "named" /\ r.header # <<>> THEN <<Head(r.header)>> ELSE <<>>)

CollectRewriteParams(rewrites, r) ==
    (IF rewrites.query = "named" THEN r.query ELSE <<>>)
        \o (IF rewrites.header = "named" THEN r.header ELSE <<>>)

\* Without resource attributes the path itself is authorized, without rewrites
\* the fields are taken as they stand, else there is one record per value.
Format1Attributes(c, r) ==
    LET fields == c.format1.fields
        verb == IF c.format1.given /\ fields.verb.text # NoValue
                THEN fields.verb.text ELSE Format1Verb(r.method)
        params == CollectRewriteParams(c.format1.rewrites, r)
        Rewritten(f, k) == Expand(fields[f], params[k], <<>>)
    IN  CASE ~c.format1.given ->
                Outcome(FALSE, "list",
                    <<[user |-> r.user, resourceRequest |-> FALSE, path |-> r.path,
                       verb |-> verb, namespace |-> NoValue, name |-> NoValue]>>)
          [] c.format1.given /\ ~c.format1.rewrites.given ->
                Outcome(FALSE, "list",
                    <<ResourceRecord(r, verb, fields.namespace.text, fields.name.text)>>)
          [] OTHER ->
                IF params = <<>> THEN Outcome(FALSE, "empty", <<>>)
                ELSE IF \E f \in {"namespace", "name"} : fields[f].kind = "broken"
                THEN Outcome(FALSE, "panic", <<>>)
                ELSE Outcome(FALSE, "list",
                        [k \in DOMAIN params |->
                            ResourceRecord(r, verb, Rewritten("namespace", k), Rewritten("name", k))])

GetRequestAttributes(c, r) ==
    IF Owner(c, r) # 0 THEN EndpointAttributesFromRequest(c, r) ELSE Format1Attributes(c, r)

-----------------------------------------------------------------------------
(* The authorizers.                                                        *)

\* The user that scrapes metrics may always do so.
HardCodedAllows(a) ==
    /\ a.user = Prometheus
    /\ ~a.resourceRequest
    /\ a.verb = "get"
    /\ a.path = MetricsPath

\* What a static rule leaves open matches everything.
StaticMatches(rule, a) ==
    /\ \A f \in {"user", "verb", "namespace", "name", "path"} :
        rule[f] \in {NoValue, a[f]}
    /\ rule.resourceRequest = a.resourceRequest

LocallyAllowed(c, a) ==
    HardCodedAllows(a) \/ \E rule \in ToSet(c.static) : StaticMatches(rule, a)

\* Mutant: the webhook comes first in the union.
WebhookFirst(c, a) == FALSE

\* The local authorizers come first in the union; the first that allows decides.
DecidedLocally(c, a) == LocallyAllowed(c, a)

Answers == {"allow", "deny", "noOpinion", "error"}

Granting(answer) == answer = "allow"

-----------------------------------------------------------------------------
Init ==
    /\ stage = "load"
    /\ config \in Configs
    /\ request = NoRequest
    /\ plan = Outcome(FALSE, "empty", <<>>)
    /\ next = 1
    /\ asked = {}
    /\ response = "none"

\* Complete and Run: a configuration that is not valid ends the process.
Load ==
    /\ stage = "load"
    /\ stage' = IF ValidConfig(config) THEN "ready" ELSE "refused"
    /\ UNCHANGED <<config, request, plan, next, asked, response>>

Answer(with) ==
    /\ response' = with
    /\ stage' = "answered"

\* WithAuthorizationAttributesObserver up to its loop.
Resolve ==
    /\ stage = "ready"
    /\ \E r \in Workload[config] :
        /\ request' = r
        /\ plan' = GetRequestAttributes(config, r)
    /\ CASE plan'.outcome = "list" -> stage' = "authorize" /\ UNCHANGED response
         [] plan'.outcome = "methodNotAllowed" -> Answer("forbidden")
         [] plan'.outcome = "panic" -> Answer("panic")
         [] OTHER -> Answer("badRequest")
    /\ UNCHANGED <<config, next, asked>>

\* The record is allowed: on to the next one, or to the upstream.
Granted ==
    IF next < Len(plan.list)
    THEN next' = next + 1 /\ UNCHANGED <<stage, response>>
    ELSE Answer("forwarded") /\ UNCHANGED next

AuthorizeLocally ==
    /\ stage = "authorize"
    /\ DecidedLocally(config, plan.list[next])
    /\ Granted
    /\ UNCHANGED <<config, request, plan, asked>>

AskWebhook(answer) ==
    /\ stage = "authorize"
    /\ ~DecidedLocally(config, plan.list[next])
    /\ asked' = asked \cup {[attributes |-> plan.list[next], answer |-> answer]}
    /\ \/ Granting(answer) /\ Granted
       \/ /\ ~Granting(answer)
          /\ Answer(IF answer = "error" THEN "error" ELSE "forbidden")
          /\ UNCHANGED next
    /\ UNCHANGED <<config, request, plan>>

\* The request is answered, or the process has refused its configuration.
Finished == stage \in {"answered", "refused"} /\ UNCHANGED vars

Next ==
    \/ Load \/ Resolve \/ AuthorizeLocally
    \/ \E answer \in Answers : AskWebhook(answer)
    \/ Finished

Spec == Init /\ [][Next]_vars

-----------------------------------------------------------------------------
Verbs == {"get", "create", "head", "*", NoValue} \cup Values
Records ==
    {a \in [user : {r.user : r \in Requests}, resourceRequest : BOOLEAN,
            path : {r.path : r \in Requests} \cup {NoValue}, verb : Verbs,
            namespace : Values \cup {NoValue}, name : Values \cup {NoValue}] :
        a.resourceRequest <=> a.path = NoValue}

TypeOK ==
    /\ stage \in {"load", "refused", "ready", "authorize", "answered"}
    /\ config \in Configs
    /\ request \in Requests \cup {NoRequest}
    /\ plan.matched \in BOOLEAN
    /\ plan.outcome \in Outcomes
    /\ \A k \in DOMAIN plan.list : plan.list[k] \in Records
    /\ stage = "authorize" => next \in DOMAIN plan.list
    /\ \A q \in asked : q.attributes \in ToSet(plan.list) /\ q.answer \in Answers
    /\ response \in {"none", "forwarded", "forbidden", "badRequest", "error", "panic"}

Served == request # NoRequest

\* audit.StaticResourceMetadata.
StaticResourceMetadata(c) ==
    LET Literal(f) == IF c.format1.given /\ c.format1.fields[f].kind = "literal"
                      THEN c.format1.fields[f].text ELSE NoValue
    IN  [name |-> Literal("name"), namespace |-> Literal("namespace")]

Target(a) == [resource |-> a.resourceRequest,
              target |-> [name |-> a.name, namespace |-> a.namespace]]

\* What RequestPipeline takes for the possible outcomes covers all of them: a
\* matched endpoint with an accepted method never leaves an empty list, and a
\* literal Format1 name or namespace is in every record
\* (ValidateAuthorizationConfig, GetRequestAttributes).
OutcomesArePlanned ==
    Served => [plan EXCEPT !.list = [k \in DOMAIN plan.list |-> Target(plan.list[k])]]
                \in Plans(StaticResourceMetadata(config))

\* A pattern without "*" and with its captures filled in is the cleaned request
\* path again, so templates see the path that was matched, segment by segment
\* (matchEndpoint, extractPathCaptures).
CapturesRebuildThePath ==
    (Served /\ Owner(config, request) # 0) =>
        LET endpoint == config.endpoints[Owner(config, request)]
            params == ExtractPathCaptures(request.path, endpoint)
            filled == [i \in DOMAIN endpoint.path |->
                        LET s == endpoint.path[i]
                        IN  IF s.kind = "capture" THEN params[s.text] ELSE s.text]
        IN  (\A s \in ToSet(endpoint.path) : s.kind # "star") => filled = Clean(request.path)

\* The first endpoint with the path owns the request: neither the endpoints
\* after it nor Format1 have any say, even if it refuses the request
\* (EndpointAttributesFromRequest, GetRequestAttributes).
FirstEndpointOwnsTheRequest ==
    Served =>
        \A i \in DOMAIN config.endpoints :
            (/\ MatchEndpoint(request.path, config.endpoints[i])
             /\ \A j \in 1 .. i - 1 : ~MatchEndpoint(request.path, config.endpoints[j]))
            => /\ plan.matched
               /\ \A c \in Configs :
                    c.endpoints = <<config.endpoints[i]>>
                        => plan = GetRequestAttributes(c, request)

\* What is forwarded was granted record by record, and of several rewrite values
\* in the query and in the headers none was left out
\* (CollectRewriteParams, WithAuthorizationAttributesObserver, union).
ForwardedMeansFullyGranted ==
    response = "forwarded" =>
        /\ plan.list # <<>>
        /\ \A k \in DOMAIN plan.list :
            \/ LocallyAllowed(config, plan.list[k])
            \/ [attributes |-> plan.list[k], answer |-> "allow"] \in asked
        /\ (~plan.matched /\ config.format1.given /\ config.format1.rewrites.given) =>
            \A f \in {"namespace", "name"} :
                config.format1.fields[f].kind = "value" =>
                    {plan.list[k][f] : k \in DOMAIN plan.list} =
                        (IF config.format1.rewrites.query = "named"
                         THEN ToSet(request.query) ELSE {})
                        \cup (IF config.format1.rewrites.header = "named"
                              THEN ToSet(request.header) ELSE {})

\* What the proxy can decide on its own never depends on the webhook, so a
\* static rule holds while the API server is away (staticAuthorizer, union).
LocalGrantsNeedNoWebhook ==
    /\ \A q \in asked : ~LocallyAllowed(config, q.attributes)
    /\ response = "error" =>
        \E k \in DOMAIN plan.list : ~LocallyAllowed(config, plan.list[k])

\* "A named capture segment matches exactly one request segment; neither
\* matches zero": what a capture takes from a path is not empty (MatchEndpoint).
CapturesTakeASegment ==
    (Served /\ Owner(config, request) # 0) =>
        LET params == ExtractPathCaptures(request.path, config.endpoints[Owner(config, request)])
        IN  \A n \in DOMAIN params : params[n] # NoValue
=============================================================================
