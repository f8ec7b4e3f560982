-------------------------- MODULE RequestPipeline --------------------------
(***************************************************************************)
(* One request going through the handler chain of kube-rbac-proxy, from    *)
(* its arrival to the return of the outermost handler.                     *)
(*                                                                         *)
(* The chain is sequential Go code, but it waits on four parties that are  *)
(* free to be slow: the authenticator, the authorizer, the upstream and    *)
(* the client.  While it waits the clock moves, deadlines pass and the     *)
(* client may go away, so each wait is a control point (pc) of its own and *)
(* Tick and Disconnect may happen at every one of them.                    *)
(*                                                                         *)
(*   withRequestTimeouts -> WithAllowPaths -> ignore paths                 *)
(*     -> withSharedAuthTimeout -> WithAuditLog                            *)
(*     -> CaptureAuthorizationEndpointMatch -> WithAuthentication          *)
(*     -> CaptureUser -> WithAuthorizationAttributesObserver               *)
(*     -> ReverseProxy -> upstreamTimeoutRoundTripper -> upstream          *)
(*                                                                         *)
(* A context with a deadline is done once the clock is past the deadline;  *)
(* at the very tick of the deadline the timer and the check race, and both *)
(* outcomes are possible.                                                  *)
(***************************************************************************)
EXTENDS RequestPlans, Integers, Sequences, FiniteSets

CONSTANTS
    UpstreamTimeout,    \* --upstream-timeout, 0 disables it
    AuthTimeout,        \* --auth-timeout, 0 disables it
    AuditEnabled,       \* --audit-log-profile=metadata
    ExplicitResource,   \* --audit-resource-name and --audit-resource-namespace
    StaticResource,     \* StaticResourceMetadata(authorization.resourceAttributes)
    Users,              \* principals the authenticator may return
    NoUser,             \* no principal in the request context
    MaxArrival,         \* bound: the request arrives no later
    MaxNow              \* bound: the clock stops here

ASSUME TimeoutAssumption == UpstreamTimeout \in Nat /\ AuthTimeout \in Nat
ASSUME BoundAssumption == MaxArrival \in Nat /\ MaxNow \in Nat
ASSUME UserAssumption == NoUser \notin Users
ASSUME AuditAssumption ==
    /\ AuditEnabled \in BOOLEAN
    /\ ExplicitResource \in Resource
    /\ StaticResource \in Resource

VARIABLES
    now,        \* the clock
    pc,         \* where the handler chain is
    gone,       \* the client disconnected: the request context is cancelled
    arrival,    \* when withRequestTimeouts saw the request
    budget,     \* requestTimeoutBudget of the request context
    route,      \* what the path filters decided
    plan,       \* what GetRequestAttributes will make of the request
    next,       \* index of the attributes being authorized
    stageAt,    \* when the pending authenticator or authorizer call began
    data,       \* requestContext, the record the audit middleware shares
    metrics,    \* httpsnoop.Metrics and responseCommitted of WithAuditLog
    panicked,   \* the handler below WithAuditLog unwound by a panic
    timer,      \* when the upstream timer fires
    wire,       \* status committed to the client connection (net/http)
    sentAt,     \* when the request was handed to the upstream transport
    headersAt,  \* when the upstream response headers were accepted
    grants,     \* every positive answer the chain accepted, with its time
    audited     \* events handed to enqueue

reqVars == <<gone, arrival, budget, route, plan>>
auditVars == <<data, metrics, panicked, audited>>
upVars == <<timer, sentAt, headersAt>>
stageVars == <<next, stageAt, grants>>
vars == <<now, pc, reqVars, stageVars, auditVars, upVars, wire>>

-----------------------------------------------------------------------------
(* Deadlines.  Never is the zero time.Time.                                *)

Never == -1
Deadline == Nat \cup {Never}
NoBudget == [auth |-> Never, upstream |-> Never]

Limit(start, timeout) == IF timeout > 0 THEN start + timeout ELSE Never

\* Mutant: the auth deadline ignores the overall timeout.
UncappedBudget(start, upstreamTimeout, authTimeout) ==
    [upstream |-> Limit(start, upstreamTimeout), auth |-> Limit(start, authTimeout)]

NewRequestTimeoutBudget(start, upstreamTimeout, authTimeout) ==
    LET upstream == Limit(start, upstreamTimeout)
        auth == Limit(start, authTimeout)
    IN  [upstream |-> upstream,
         auth |-> IF upstream # Never /\ (auth = Never \/ upstream < auth)
                  THEN upstream ELSE auth]

\* A budget that is already in the context passes through untouched.
WithRequestTimeouts(existing, start, upstreamTimeout, authTimeout) ==
    IF (upstreamTimeout = 0 /\ authTimeout = 0) \/ existing # NoBudget
    THEN existing
    ELSE NewRequestTimeoutBudget(start, upstreamTimeout, authTimeout)

\* The values context.Cause(ctx) # nil may have now for a context with the
\* deadline d: FALSE only if the client is there and d has not passed.
DoneValues(d) ==
    {b \in BOOLEAN : /\ gone => b
                     /\ (d # Never /\ now > d) => b
                     /\ b => (gone \/ (d # Never /\ now >= d))}

\* Mutant: every stage gets a fresh timeout.
FreshStageDeadline == Limit(stageAt, AuthTimeout)

\* Both stages take the deadline of the budget; without one a stage would get
\* a timeout of its own.  Never means the stage runs without a deadline.
ContextAuthDeadline ==
    IF budget.auth # Never THEN budget.auth ELSE Limit(stageAt, AuthTimeout)

\* An answer that came without an error is rejected when the context of the
\* stage is done by then.  A stage without a deadline never looks.
LateValues ==
    IF ContextAuthDeadline = Never THEN {FALSE} ELSE DoneValues(ContextAuthDeadline)

-----------------------------------------------------------------------------
(* The response writer as WithAuditLog sees it.  code, headerWritten and   *)
(* written are the metrics of httpsnoop; committed is responseCommitted.   *)

NoResponse == 0
Informational(code) == code >= 100 /\ code <= 199

NoMetrics == [code |-> 200, headerWritten |-> FALSE, written |-> FALSE, committed |-> FALSE]

WriteHeader(m, code) ==
    IF Informational(code) THEN m
    ELSE [m EXCEPT !.code = IF m.headerWritten THEN m.code ELSE code,
                   !.headerWritten = TRUE,
                   !.committed = TRUE]

Write(m) == [m EXCEPT !.headerWritten = TRUE, !.written = TRUE, !.committed = TRUE]

\* What net/http puts on the wire: the first status that is not informational.
WireAfter(w, code) == IF w = NoResponse /\ ~Informational(code) THEN code ELSE w

\* http.Error: a status and a short body, and the handler returns.
Refuse(code) ==
    /\ metrics' = Write(WriteHeader(metrics, code))
    /\ wire' = WireAfter(wire, code)
    /\ pc' = "unwind"

-----------------------------------------------------------------------------
NoData == [user |-> NoUser, resource |-> Blank, matched |-> FALSE, upstream |-> NoResponse]

\* Mutant: the audit middleware is the outermost one.
CapturesEverything == AuditEnabled

\* The audit captures find a requestContext only below WithAuditLog.
Captures == AuditEnabled /\ route = "protected"

Init ==
    /\ now = 0
    /\ pc = "arrive"
    /\ gone = FALSE
    /\ arrival = 0
    /\ budget = NoBudget
    /\ route = "protected"
    /\ plan = [matched |-> FALSE, outcome |-> "empty", list |-> <<>>]
    /\ next = 1
    /\ stageAt = 0
    /\ data = NoData
    /\ metrics = NoMetrics
    /\ panicked = FALSE
    /\ timer = Never
    /\ wire = NoResponse
    /\ sentAt = Never
    /\ headersAt = Never
    /\ grants = {}
    /\ audited = <<>>

-----------------------------------------------------------------------------
(* The path filters, in front of authentication and of the audit record.   *)
(* --allow-paths rejects what it does not list; a path of --ignore-paths   *)
(* is proxied without protection.  A malformed pattern does not pass the   *)
(* validation of the flags.                                                *)

PathDecisions == {"rejected", "ignored", "protected"}

Arrive ==
    /\ pc = "arrive"
    /\ arrival' = now
    /\ \E r \in PathDecisions :
        LET outer == WithRequestTimeouts(budget, now, UpstreamTimeout, AuthTimeout) IN
        /\ route' = r
        /\ \/ /\ r = "rejected"
              /\ Refuse(404)
              /\ budget' = outer
              /\ UNCHANGED <<plan, stageAt, data>>
           \/ /\ r = "ignored"
              /\ pc' = "proxy"
              /\ budget' = outer
              /\ UNCHANGED <<plan, stageAt, data, metrics, wire>>
           \/ /\ r = "protected"
              /\ pc' = "authenticate"
              /\ budget' = WithRequestTimeouts(outer, now, 0, AuthTimeout)
              /\ stageAt' = now
              /\ plan' \in Plans(StaticResource)
              /\ data' = [data EXCEPT !.matched = AuditEnabled /\ plan'.matched]
              /\ UNCHANGED <<metrics, wire>>
    /\ UNCHANGED <<now, gone, next, grants, panicked, audited, upVars>>

-----------------------------------------------------------------------------
(* Authentication and authorization.  The authenticator and the authorizer *)
(* may answer at any time, also after the deadline of their context.       *)

\* Mutant: CaptureUser runs before WithAuthentication put a user in the context.
CapturedTooEarly(u) == NoUser

CapturedUser(u) == IF AuditEnabled THEN u ELSE NoUser

\* WithAuthentication, withAuthenticationTimeout and CaptureUser.
Authenticated(u) ==
    /\ pc = "authenticate"
    /\ FALSE \in LateValues
    /\ data' = [data EXCEPT !.user = CapturedUser(u)]
    /\ grants' = grants \cup {[index |-> 0, at |-> now]}
    /\ pc' = "resolve"
    /\ UNCHANGED <<now, reqVars, next, stageAt, metrics, panicked, audited, upVars, wire>>

\* No credentials, an error, or an answer that came too late.
Unauthenticated ==
    /\ pc = "authenticate"
    /\ Refuse(401)
    /\ UNCHANGED <<now, reqVars, stageVars, data, panicked, audited, upVars>>

FirstResource(list) ==
    LET Found == {k \in DOMAIN list : list[k].resource}
    IN  IF Found = {} THEN Blank
        ELSE list[CHOOSE k \in Found : \A j \in Found : k <= j].target

\* GetRequestAttributes and CaptureAuthorizationAttributes.
Resolve ==
    /\ pc = "resolve"
    /\ \/ /\ plan.outcome = "methodNotAllowed"
          /\ Refuse(403)
          /\ UNCHANGED <<data, panicked, stageAt>>
       \/ /\ plan.outcome \in {"error", "empty"}
          /\ Refuse(400)
          /\ UNCHANGED <<data, panicked, stageAt>>
       \/ /\ plan.outcome = "panic"
          /\ panicked' = TRUE
          /\ pc' = "unwind"
          /\ UNCHANGED <<data, metrics, wire, stageAt>>
       \/ /\ plan.outcome = "list"
          /\ data' = [data EXCEPT !.resource =
                        IF AuditEnabled THEN FirstResource(plan.list) ELSE Blank]
          /\ pc' = "authorize"
          /\ stageAt' = now
          /\ UNCHANGED <<metrics, wire, panicked>>
    /\ UNCHANGED <<now, reqVars, next, grants, audited, upVars>>

\* Mutants: the loop stops at the first allow, or runs one step too far.
FirstAllowSuffices == TRUE
OnePastTheLast == next > Len(plan.list)

LastAttribute == next = Len(plan.list)

\* The authorizer allows plan.list[next] in time.
Allow ==
    /\ pc = "authorize"
    /\ FALSE \in LateValues
    /\ grants' = grants \cup {[index |-> next, at |-> now]}
    /\ next' = next + 1
    /\ stageAt' = now
    /\ pc' = IF LastAttribute THEN "proxy" ELSE "authorize"
    /\ UNCHANGED <<now, reqVars, auditVars, upVars, wire>>

\* A deny or no opinion in time.
Deny ==
    /\ pc = "authorize"
    /\ FALSE \in LateValues
    /\ Refuse(403)
    /\ UNCHANGED <<now, reqVars, stageVars, data, panicked, audited, upVars>>

\* The authorizer failed, or answered too late.
AuthorizationError ==
    /\ pc = "authorize"
    /\ Refuse(500)
    /\ UNCHANGED <<now, reqVars, stageVars, data, panicked, audited, upVars>>

-----------------------------------------------------------------------------
(* Forwarding.  upstreamTimeoutRoundTripper sits around the transport; the *)
(* reverse proxy above it turns an error into a 502.                       *)

\* Mutant: the configured timeout starts anew at the round trip.
FullUpstreamTimeout == UpstreamTimeout

\* upstreamTimeoutRoundTripper.RoundTrip up to the call of the transport.  The
\* budget of the context comes before the configured timeout.
UpstreamRemaining ==
    IF budget.upstream # Never THEN budget.upstream - now ELSE UpstreamTimeout

StartRoundTrip ==
    /\ pc = "proxy"
    /\ IF UpstreamTimeout = 0
       THEN /\ pc' = "upstream"
            /\ sentAt' = now
            /\ UNCHANGED <<timer, metrics, wire>>
       ELSE IF UpstreamRemaining <= 0
       THEN /\ Refuse(502)
            /\ UNCHANGED <<timer, sentAt>>
       ELSE /\ pc' = "upstream"
            /\ sentAt' = now
            /\ timer' = now + UpstreamRemaining
            /\ UNCHANGED <<metrics, wire>>
    /\ UNCHANGED <<now, reqVars, stageVars, data, panicked, audited, headersAt>>

\* An informational response is passed on before the final one.
UpstreamHints ==
    /\ pc = "upstream"
    /\ metrics' = WriteHeader(metrics, 103)
    /\ wire' = WireAfter(wire, 103)
    /\ UNCHANGED <<now, pc, reqVars, stageVars, data, panicked, audited, upVars>>

\* The transport failed: refused, reset, or its context was cancelled because
\* the client left.
UpstreamFails ==
    /\ pc = "upstream"
    /\ Refuse(502)
    /\ UNCHANGED <<now, reqVars, stageVars, data, panicked, audited, upVars>>

\* The timer callback beats the response headers.
UpstreamTimesOut ==
    /\ pc = "upstream"
    /\ timer # Never /\ now >= timer
    /\ Refuse(502)
    /\ UNCHANGED <<now, reqVars, stageVars, data, panicked, audited, upVars>>

\* Response headers beat the timer: it is disarmed, the status is captured
\* (CaptureUpstreamResponse) and copied to the client.
UpstreamResponds ==
    /\ pc = "upstream"
    /\ timer # Never => now <= timer
    /\ \E code \in {200, 404} :
        /\ data' = [data EXCEPT !.upstream = IF Captures THEN code ELSE NoResponse]
        /\ metrics' = WriteHeader(metrics, code)
        /\ wire' = WireAfter(wire, code)
    /\ headersAt' = now
    /\ timer' = Never
    /\ pc' = "body"
    /\ UNCHANGED <<now, reqVars, stageVars, panicked, audited, sentAt>>

\* 101 Switching Protocols: the proxy takes the connection over, past the
\* wrapped response writer, or cannot (no upgrade was asked for, or the
\* connection cannot be taken over) and answers 502.
UpstreamUpgrades ==
    /\ pc = "upstream"
    /\ timer # Never => now <= timer
    /\ data' = [data EXCEPT !.upstream = IF Captures THEN 101 ELSE NoResponse]
    /\ headersAt' = now
    /\ timer' = Never
    /\ \/ /\ pc' = "tunnel"
          /\ wire' = 101
          /\ UNCHANGED metrics
       \/ Refuse(502)
    /\ UNCHANGED <<now, reqVars, stageVars, panicked, audited, sentAt>>

BodyChunk ==
    /\ pc = "body"
    /\ metrics' = Write(metrics)
    /\ UNCHANGED <<now, pc, reqVars, stageVars, data, panicked, audited, upVars, wire>>

BodyEnds ==
    /\ pc = "body"
    /\ pc' = "unwind"
    /\ UNCHANGED <<now, reqVars, stageVars, auditVars, upVars, wire>>

\* Copying the body failed: the reverse proxy panics with ErrAbortHandler.
BodyAborts ==
    /\ pc = "body"
    /\ panicked' = TRUE
    /\ pc' = "unwind"
    /\ UNCHANGED <<now, reqVars, stageVars, data, metrics, audited, upVars, wire>>

TunnelEnds ==
    /\ pc = "tunnel"
    /\ pc' = "unwind"
    /\ UNCHANGED <<now, reqVars, stageVars, auditVars, upVars, wire>>

-----------------------------------------------------------------------------
(* The deferred function of WithAuditLog.                                  *)

\* Mutant: a panic is a 500 whatever was sent before it.
PanicIsAlways500 ==
    IF panicked THEN 500
    ELSE IF data.upstream = 101 /\ metrics.code = 200 /\ ~metrics.written THEN 101
    ELSE metrics.code

FinalCode ==
    IF panicked /\ ~metrics.committed THEN 500
    ELSE IF data.upstream = 101 /\ metrics.code = 200 /\ ~metrics.written THEN 101
    ELSE metrics.code

\* Mutant: the static configuration fills in for a matched endpoint as well.
FieldWithStaticFallback(f) ==
    IF ExplicitResource[f] # NoValue THEN ExplicitResource[f]
    ELSE IF data.resource[f] # NoValue THEN data.resource[f]
    ELSE StaticResource[f]

\* Each field on its own: the flag, then the request, then the static
\* configuration unless a Format2 endpoint owns the request.
AuditedField(f) ==
    IF ExplicitResource[f] # NoValue THEN ExplicitResource[f]
    ELSE IF data.resource[f] # NoValue THEN data.resource[f]
    ELSE IF data.matched THEN NoValue
    ELSE StaticResource[f]

\* No name, no resources list in the event.
AuditedResource ==
    IF AuditedField("name") = NoValue THEN Blank
    ELSE [name |-> AuditedField("name"), namespace |-> AuditedField("namespace")]

Event ==
    [user |-> data.user,
     resource |-> AuditedResource,
     code |-> FinalCode,
     success |-> FinalCode < 400 /\ ~panicked]

Unwind ==
    /\ pc = "unwind"
    /\ audited' = IF Captures THEN Append(audited, Event) ELSE audited
    /\ pc' = "done"
    /\ UNCHANGED <<now, reqVars, stageVars, data, metrics, panicked, upVars, wire>>

-----------------------------------------------------------------------------
Disconnect ==
    /\ pc \notin {"arrive", "done"}
    /\ ~gone
    /\ gone' = TRUE
    /\ UNCHANGED <<now, pc, arrival, budget, route, plan, stageVars, auditVars, upVars, wire>>

Tick ==
    /\ now < MaxNow
    /\ pc = "arrive" => now < MaxArrival
    /\ now' = now + 1
    /\ UNCHANGED <<pc, reqVars, stageVars, auditVars, upVars, wire>>

Handler ==
    \/ Arrive
    \/ \E u \in Users : Authenticated(u)
    \/ Unauthenticated
    \/ Resolve
    \/ Allow \/ Deny \/ AuthorizationError
    \/ StartRoundTrip
    \/ UpstreamHints \/ UpstreamFails \/ UpstreamTimesOut
    \/ UpstreamResponds \/ UpstreamUpgrades
    \/ BodyChunk \/ BodyEnds \/ BodyAborts \/ TunnelEnds
    \/ Unwind

\* The request is over; only the clock goes on.
Finished == pc = "done" /\ UNCHANGED vars

Next == Handler \/ Disconnect \/ Tick \/ Finished

Spec == Init /\ [][Next]_vars

(***************************************************************************)
(* Fairness.  The clock runs and the handler runs when nobody keeps it     *)
(* waiting.  The authenticator and the authorizer are handed a context and *)
(* are assumed to return once it is done; the transport returns once the   *)
(* timer cancelled its context.  Nothing is assumed of a party whose       *)
(* context is not done, and nothing of a streaming body or a tunnel.       *)
(***************************************************************************)
StageGivesUp ==
    /\ FALSE \notin LateValues
    /\ Unauthenticated \/ AuthorizationError

Fairness ==
    /\ WF_vars(Tick)
    /\ WF_vars(Resolve)
    /\ WF_vars(StartRoundTrip)
    /\ WF_vars(Unwind)
    /\ WF_vars(StageGivesUp)
    /\ WF_vars(UpstreamTimesOut)

LiveSpec == Spec /\ Fairness

-----------------------------------------------------------------------------
RequestTimeoutBudget == [auth : Deadline, upstream : Deadline]
RequestContext ==
    [user : Users \cup {NoUser}, resource : Resource, matched : BOOLEAN, upstream : Nat]
Metrics == [code : Nat, headerWritten : BOOLEAN, written : BOOLEAN, committed : BOOLEAN]
Grant == [index : 0 .. MaxAttrs, at : 0 .. MaxNow]
AuditEvent ==
    [user : Users \cup {NoUser}, resource : Resource, code : Nat, success : BOOLEAN]

TypeOK ==
    /\ now \in 0 .. MaxNow
    /\ pc \in {"arrive", "authenticate", "resolve", "authorize", "proxy",
               "upstream", "body", "tunnel", "unwind", "done"}
    /\ gone \in BOOLEAN
    /\ arrival \in 0 .. MaxNow
    /\ budget \in RequestTimeoutBudget
    /\ route \in PathDecisions
    /\ plan.matched \in BOOLEAN
    /\ plan.outcome \in Outcomes
    /\ plan.list \in Seq(Attribute) /\ Len(plan.list) <= MaxAttrs
    /\ next \in 1 .. MaxAttrs + 1
    /\ stageAt \in 0 .. MaxNow
    /\ data \in RequestContext
    /\ metrics \in Metrics
    /\ panicked \in BOOLEAN
    /\ timer \in Deadline
    /\ wire \in Nat
    /\ sentAt \in Deadline
    /\ headersAt \in Deadline
    /\ grants \subseteq Grant
    /\ audited \in Seq(AuditEvent)

GrantedAt(k, limit) == \E g \in grants : g.index = k /\ g.at <= limit

\* What the README promises of a timeout: counted from the arrival of the
\* request, nothing for a timeout of 0.
Within(at, timeout) == timeout > 0 => at <= arrival + timeout

\* The upstream never sees a protected request before the authenticator
\* accepted it and the authorizer allowed every one of its attributes
\* (WithAuthentication, WithAuthorizationAttributesObserver).
NothingSentWithoutFullGrant ==
    (sentAt # Never /\ route = "protected") =>
        /\ plan.outcome = "list"
        /\ \A k \in 0 .. Len(plan.list) : GrantedAt(k, sentAt)

\* "Both stages share one deadline and do not receive fresh timeouts": however
\* long each stage took, no positive answer is accepted after the earlier of
\* the two timeouts, counted from arrival (withAuthenticationTimeout,
\* withAuthorizationTimeout, withRequestTimeouts).
GrantsShareOneDeadline ==
    \A g \in grants : Within(g.at, AuthTimeout) /\ Within(g.at, UpstreamTimeout)

\* Time spent on authentication and authorization consumes the upstream
\* budget: no request is sent once it is used up, and no response headers are
\* accepted after it (upstreamTimeoutRoundTripper.RoundTrip).
UpstreamBudgetIsTotal ==
    /\ sentAt # Never /\ UpstreamTimeout > 0 => sentAt < arrival + UpstreamTimeout
    /\ headersAt # Never => Within(headersAt, UpstreamTimeout)

\* One record for a request that reached authentication, none for a request
\* the path filters answered or let through (WithAuditLog, buildRequestHandler).
OneRecordPerProtectedRequest ==
    Len(audited) = IF pc = "done" /\ AuditEnabled /\ route = "protected" THEN 1 ELSE 0

\* The record shows the status the client got, through upgrades, panics and
\* informational responses, and calls a response a success only if it was
\* neither an error nor cut short (WithAuditLog, event).
RecordTellsTheResponse ==
    \A k \in DOMAIN audited :
        /\ audited[k].code = IF wire = NoResponse THEN 500 ELSE wire
        /\ audited[k].success <=> (wire \in 101 .. 399 /\ ~panicked)

\* The record names a principal exactly if the authenticator's answer was
\* accepted, whatever happened to the request afterwards (CaptureUser).
RecordNamesThePrincipal ==
    \A k \in DOMAIN audited :
        audited[k].user # NoUser <=> GrantedAt(0, now)

\* A name in the record is the flag's or comes from the attributes the
\* authorizer was asked about; only a request no Format2 endpoint owns may
\* fall back to static Format1 metadata, and only if nothing was resolved for
\* it (CaptureAuthorizationEndpointMatch, CaptureAuthorizationAttributes, event).
RecordNamesTheTarget ==
    \A k \in DOMAIN audited :
        LET name == audited[k].resource.name
            asked == {plan.list[j].target.name : j \in DOMAIN plan.list}
            first == FirstResource(plan.list).name
        IN  /\ ExplicitResource.name # NoValue => name = ExplicitResource.name
            /\ plan.matched => name \in {NoValue, ExplicitResource.name} \cup asked
            /\ (GrantedAt(0, now) /\ first # NoValue /\ ExplicitResource.name = NoValue)
                    => name = first

-----------------------------------------------------------------------------
(* The chain as a gate.  The checks of a request are those of the filters  *)
(* it is led through, whatever their answers: 0 is the authenticator's,    *)
(* and a request whose attributes cannot be derived has one check that     *)
(* nobody grants.                                                          *)

Checks ==
    IF pc = "arrive" \/ route # "protected" THEN {}
    ELSE 0 .. IF plan.list = <<>> THEN 1 ELSE Len(plan.list)

\* The earlier of the two timeouts, 0 if there is none.
CheckTimeout ==
    IF AuthTimeout = 0 \/ (UpstreamTimeout > 0 /\ UpstreamTimeout < AuthTimeout)
    THEN UpstreamTimeout ELSE AuthTimeout

Verdict ==
    CASE pc = "arrive" -> "none"
      [] pc # "arrive" /\ headersAt # Never -> "answered"
      [] pc \in {"unwind", "done"} /\ headersAt = Never -> "refused"
      [] pc = "upstream" /\ headersAt = Never -> "forwarded"
      [] OTHER -> "open"

Gate == INSTANCE AccessGate WITH
    CheckTime <- CheckTimeout,
    TotalTime <- UpstreamTimeout,
    MaxCheck <- MaxAttrs,
    clock <- now,
    since <- arrival,
    needed <- Checks,
    passed <- {g.index : g \in grants},
    verdict <- Verdict

\* Whatever the authenticator, the authorizer, the upstream and the client do and
\* however long they take: the stages are passed one by one, each once and in
\* time, nothing is forwarded before or after, or twice, and an answer of the
\* proxy's own is the last word (buildRequestHandler, WithAuthentication,
\* WithAuthorizationAttributesObserver, upstreamTimeoutRoundTripper.RoundTrip
\* implement AccessGate).
ImplementsAccessGate == Gate!Spec

\* A request gets response headers from the upstream or an answer of the
\* proxy's own, whoever keeps it waiting, when --upstream-timeout is set.
EveryRequestIsAnswered ==
    (pc # "arrive") ~> (headersAt # Never \/ pc = "done")
=============================================================================
