----------------------- MODULE RequestPipelineProofs -----------------------
(***************************************************************************)
(* For all timeouts, all lists of attributes and all delays: what the      *)
(* upstream may be sent and when, and what the audit record says.          *)
(*                                                                         *)
(* The inductive invariant IInv is a conjunction; there is one lemma for   *)
(* each conjunct, with a case for every action that can disturb it.        *)
(***************************************************************************)
EXTENDS RequestPipeline, SequenceTheorems, InductionLemmas

Before(at, deadline) == deadline # Never => at <= deadline

\* Attributes that led to an authorizer call are there, and next is among them.
PlanInv ==
    /\ plan.outcome = "list" => Len(plan.list) >= 1
    /\ pc \in {"arrive", "authenticate", "resolve"} => next = 1
    /\ pc = "authorize" => plan.outcome = "list" /\ next <= Len(plan.list)

\* The budget of the request counts from its arrival, and the stages before the
\* upstream are capped by both timeouts.
BudgetInv ==
    /\ arrival <= now /\ stageAt <= now
    /\ pc = "arrive" => budget = NoBudget
    /\ pc # "arrive" =>
        /\ budget.upstream = Limit(arrival, UpstreamTimeout)
        /\ AuthTimeout > 0 => budget.auth # Never /\ budget.auth <= arrival + AuthTimeout
        /\ UpstreamTimeout > 0 =>
                budget.auth # Never /\ budget.auth <= arrival + UpstreamTimeout

\* How far the grants reach at each control point.
GrantInv ==
    /\ pc \in {"arrive", "authenticate"} => grants = {}
    /\ \A g \in grants : g.at <= now
    /\ pc \in {"resolve", "authorize"} => \A k \in 0 .. next - 1 : GrantedAt(k, now)
    /\ pc \in {"arrive", "authenticate", "resolve", "authorize"} =>
            sentAt = Never /\ headersAt = Never
    /\ pc \in {"authenticate", "resolve", "authorize"} => route = "protected"
    /\ pc = "proxy" /\ route = "protected" =>
            /\ plan.outcome = "list"
            /\ \A k \in 0 .. Len(plan.list) : GrantedAt(k, now)
    /\ NothingSentWithoutFullGrant
    /\ GrantsShareOneDeadline

\* The upstream timer is set for the deadline of the request.
TimerInv ==
    /\ pc = "upstream" => timer = Limit(arrival, UpstreamTimeout)
    /\ pc \in {"arrive", "authenticate", "resolve", "authorize", "proxy"} => timer = Never
    /\ UpstreamBudgetIsTotal

\* What the client got and what the metrics know, until the handler unwinds.
ResponseInv ==
    /\ pc \in {"arrive", "authenticate", "resolve", "authorize", "proxy", "upstream"} =>
            wire = NoResponse /\ metrics = NoMetrics /\ ~panicked /\ data.upstream = NoResponse
    /\ pc = "body" =>
            /\ metrics.headerWritten /\ metrics.committed
            /\ wire = metrics.code /\ wire \in {200, 404}
            /\ data.upstream # 101 /\ ~panicked
    /\ pc = "tunnel" =>
            /\ wire = 101 /\ metrics = NoMetrics /\ ~panicked
            /\ Captures => data.upstream = 101
    /\ pc = "unwind" =>
        \/ /\ metrics.headerWritten /\ metrics.committed
           /\ wire = metrics.code /\ wire \in {200, 400, 401, 403, 404, 500, 502}
           /\ data.upstream = 101 => wire = 502 /\ metrics.written
           /\ panicked => wire \in {200, 404}
        \/ wire = NoResponse /\ ~metrics.committed /\ panicked
        \/ /\ wire = 101 /\ metrics = NoMetrics /\ ~panicked
           /\ Captures => data.upstream = 101

\* The principal in requestContext is there exactly if it was accepted.
RecordInv ==
    /\ AuditEnabled => (data.user # NoUser <=> \E g \in grants : g.index = 0)
    /\ pc = "authorize" => \E g \in grants : g.index = 0
    /\ OneRecordPerProtectedRequest
    /\ RecordTellsTheResponse
    /\ RecordNamesThePrincipal

IInv ==
    TypeOK /\ PlanInv /\ BudgetInv /\ GrantInv /\ TimerInv /\ ResponseInv /\ RecordInv

-----------------------------------------------------------------------------
(* Lemmas about the operators.                                             *)

\* The audited target is one of a request attribute, or none.
LEMMA FirstResourceType ==
    ASSUME NEW list \in Seq(Attribute)
    PROVE  FirstResource(list) \in Resource
<1> DEFINE Found == {k \in DOMAIN list : list[k].resource}
<1>1. CASE Found = {}
  BY <1>1 DEF FirstResource, Resource, Blank
<1>2. CASE Found # {}
  <2>1. \E k \in Found : \A j \in Found : k <= j
    <3>1. Found \subseteq Nat
      OBVIOUS
    <3> HIDE DEF Found
    <3> QED
      BY <3>1, <1>2, LeastElement
  <2>2. (CHOOSE k \in Found : \A j \in Found : k <= j) \in Found
    BY <2>1
  <2>3. FirstResource(list) = list[CHOOSE k \in Found : \A j \in Found : k <= j].target
    BY <1>2 DEF FirstResource
  <2>4. \A k \in Found : list[k].target \in Resource
    <3>1. \A k \in DOMAIN list : list[k] \in Attribute
      OBVIOUS
    <3> QED
      BY <3>1 DEF Attribute
  <2> QED
    BY <2>2, <2>3, <2>4
<1> QED
  BY <1>1, <1>2

\* A plan is well formed; one that reaches the authorizer is not empty.
LEMMA PlansType ==
    ASSUME NEW static, NEW p \in Plans(static)
    PROVE  /\ p.matched \in BOOLEAN
           /\ p.outcome \in Outcomes
           /\ p.list \in Seq(Attribute) /\ Len(p.list) <= MaxAttrs
           /\ p.outcome = "list" => Len(p.list) >= 1
<1>1. \A l \in AttributeLists : l \in Seq(Attribute) /\ Len(l) \in 1 .. MaxAttrs
  BY PlanAssumption DEF AttributeLists, PlanAssumption
<1>2. Format2Lists \subseteq AttributeLists /\ Format1Lists(static) \subseteq AttributeLists
  BY DEF Format2Lists, Format1Lists
<1>3. <<>> \in Seq(Attribute) /\ Len(<<>>) = 0
  OBVIOUS
<1>4. p.matched \in BOOLEAN /\ p.outcome \in Outcomes
  BY DEF Plans
<1>5. CASE p.outcome = "list"
  <2>1. p.list \in AttributeLists
    BY <1>2, <1>5 DEF Plans
  <2> QED
    BY <1>1, <1>4, <2>1
<1>6. CASE p.outcome # "list"
  <2>1. p.list = <<>>
    BY <1>6 DEF Plans
  <2> QED
    BY <1>3, <1>4, <1>6, <2>1, PlanAssumption DEF PlanAssumption
<1> QED
  BY <1>5, <1>6

\* The response writer keeps the types of the response.
LEMMA WriterType ==
    ASSUME NEW m \in Metrics, NEW code \in Nat, NEW w \in Nat
    PROVE  /\ WriteHeader(m, code) \in Metrics
           /\ Write(m) \in Metrics
           /\ WireAfter(w, code) \in Nat
BY DEF Metrics, WriteHeader, Write, WireAfter

\* http.Error keeps them as well.
LEMMA RefuseType ==
    ASSUME TypeOK, NEW code \in Nat, Refuse(code)
    PROVE  metrics' \in Metrics /\ wire' \in Nat /\ pc' = "unwind"
BY WriterType DEF Refuse, TypeOK

LEMMA EventType ==
    ASSUME TypeOK
    PROVE  Event \in AuditEvent
<1> USE DEF RequestContext, Metrics
<1>1. \A f \in {"name", "namespace"} : AuditedField(f) \in Values \cup {NoValue}
  BY AuditAssumption DEF AuditAssumption, AuditedField, TypeOK, Resource
<1>2. AuditedResource \in Resource
  BY <1>1 DEF AuditedResource, Resource, Blank
<1>3. FinalCode \in Nat
  BY DEF FinalCode, TypeOK
<1> QED
  BY <1>2, <1>3 DEF Event, AuditEvent, TypeOK

-----------------------------------------------------------------------------
(* Types, and the list of attributes.                                      *)

LEMMA TypeInit == Init => TypeOK /\ PlanInv
<1> SUFFICES ASSUME Init PROVE TypeOK /\ PlanInv
  OBVIOUS
<1>1. NoBudget \in RequestTimeoutBudget
  BY DEF NoBudget, RequestTimeoutBudget, Never, Deadline
<1>2. NoData \in RequestContext
  BY DEF NoData, RequestContext, Resource, Blank, NoResponse
<1>3. NoMetrics \in Metrics
  BY DEF NoMetrics, Metrics
<1>4. TypeOK
  <2>1. plan.matched \in BOOLEAN /\ plan.outcome = "empty" /\ plan.list = <<>>
    BY DEF Init
  <2>2. plan.list \in Seq(Attribute) /\ Len(plan.list) = 0
    BY <2>1
  <2>3. audited \in Seq(AuditEvent) /\ grants \subseteq Grant
    BY DEF Init
  <2>4. timer \in Deadline /\ sentAt \in Deadline /\ headersAt \in Deadline
    BY DEF Init, Never, Deadline
  <2>5. 0 \in 0 .. MaxNow /\ 1 \in 1 .. MaxAttrs + 1 /\ 0 <= MaxAttrs
    BY BoundAssumption, PlanAssumption DEF BoundAssumption, PlanAssumption
  <2> QED
    BY <1>1, <1>2, <1>3, <2>1, <2>2, <2>3, <2>4, <2>5
      DEF Init, TypeOK, NoResponse, PathDecisions, Outcomes
<1> QED
  BY <1>4 DEF Init, PlanInv

LEMMA BudgetType ==
    ASSUME NEW existing \in RequestTimeoutBudget,
           NEW start \in Nat, NEW up \in Nat, NEW auth \in Nat
    PROVE  WithRequestTimeouts(existing, start, up, auth) \in RequestTimeoutBudget
BY DEF RequestTimeoutBudget, WithRequestTimeouts, NewRequestTimeoutBudget, Limit, Deadline, Never

\* Every action keeps the types; only Allow and Resolve need to know where the
\* list of attributes ends.
LEMMA TypeNext == TypeOK /\ PlanInv /\ [Next]_vars => TypeOK'
<1> SUFFICES ASSUME TypeOK, PlanInv, [Next]_vars PROVE TypeOK'
  OBVIOUS
<1> USE DEF reqVars, stageVars, auditVars, upVars
<1>a. now \in Nat /\ UpstreamTimeout \in Nat /\ AuthTimeout \in Nat /\ 0 \in Nat
  BY BoundAssumption, PlanAssumption, TimeoutAssumption DEF PlanAssumption, BoundAssumption, TimeoutAssumption, TypeOK
<1>b. 200 \in Nat /\ 404 \in Nat /\ 403 \in Nat /\ 400 \in Nat /\ 401 \in Nat
      /\ 500 \in Nat /\ 502 \in Nat /\ 103 \in Nat
  OBVIOUS
<1>1. ASSUME Arrive PROVE TypeOK'
  <2>1. budget' \in RequestTimeoutBudget
    <3>1. WithRequestTimeouts(budget, now, UpstreamTimeout, AuthTimeout) \in RequestTimeoutBudget
      BY <1>a, BudgetType DEF TypeOK
    <3>2. WithRequestTimeouts(
            WithRequestTimeouts(budget, now, UpstreamTimeout, AuthTimeout), now, 0, AuthTimeout)
            \in RequestTimeoutBudget
      BY <3>1, <1>a, BudgetType
    <3> QED
      BY <1>1, <3>1, <3>2 DEF Arrive
  <2>2. metrics' \in Metrics /\ wire' \in Nat
    BY <1>1, <1>b, RefuseType DEF Arrive, TypeOK
  <2>3. data' \in RequestContext
    BY <1>1 DEF Arrive, TypeOK, RequestContext
  <2>4. /\ plan'.matched \in BOOLEAN
        /\ plan'.outcome \in Outcomes
        /\ plan'.list \in Seq(Attribute) /\ Len(plan'.list) <= MaxAttrs
    <3>1. CASE plan' \in Plans(StaticResource)
      BY <3>1, PlansType
    <3>2. CASE plan' = plan
      BY <3>2 DEF TypeOK
    <3> QED
      BY <1>1, <3>1, <3>2 DEF Arrive
  <2>5. pc' \in {"unwind", "proxy", "authenticate"} /\ stageAt' \in {now, stageAt}
    BY <1>1 DEF Arrive, Refuse
  <2>6. arrival' = now /\ route' \in PathDecisions
        /\ UNCHANGED <<now, gone, next, grants, panicked, audited, upVars>>
    BY <1>1 DEF Arrive
  <2> QED
    BY <2>1, <2>2, <2>3, <2>4, <2>5, <2>6 DEF TypeOK
<1>2. ASSUME NEW u \in Users, Authenticated(u) PROVE TypeOK'
  <2>1. data' \in RequestContext
    BY <1>2 DEF Authenticated, CapturedUser, TypeOK, RequestContext
  <2>2. grants' \subseteq Grant
    BY <1>2, BoundAssumption, PlanAssumption DEF BoundAssumption, PlanAssumption, Authenticated, TypeOK, Grant
  <2> QED
    BY <1>2, <2>1, <2>2 DEF Authenticated, TypeOK
<1>3. ASSUME Unauthenticated PROVE TypeOK'
  BY <1>3, <1>b, RefuseType DEF Unauthenticated, TypeOK
<1>4. ASSUME Resolve PROVE TypeOK'
  <2>1. metrics' \in Metrics /\ wire' \in Nat
    BY <1>4, <1>b, RefuseType DEF Resolve, TypeOK
  <2>2. data' \in RequestContext
    <3>1. FirstResource(plan.list) \in Resource /\ Blank \in Resource
      BY FirstResourceType DEF TypeOK, Blank, Resource
    <3> QED
      BY <1>4, <3>1 DEF Resolve, TypeOK, RequestContext
  <2>3. pc' \in {"unwind", "authorize"} /\ stageAt' \in {now, stageAt} /\ panicked' \in {TRUE, panicked}
    BY <1>4 DEF Resolve, Refuse
  <2>4. UNCHANGED <<now, reqVars, next, grants, audited, upVars>>
    BY <1>4 DEF Resolve
  <2> QED
    BY <2>1, <2>2, <2>3, <2>4 DEF TypeOK
<1>5. ASSUME Allow PROVE TypeOK'
  <2>1. next \in 0 .. MaxAttrs /\ next + 1 \in 1 .. MaxAttrs + 1
    BY <1>5, BoundAssumption, PlanAssumption DEF BoundAssumption, PlanAssumption, Allow, PlanInv, TypeOK
  <2>2. grants' \subseteq Grant
    BY <1>5, <2>1 DEF Allow, TypeOK, Grant
  <2> QED
    BY <1>5, <2>1, <2>2 DEF Allow, TypeOK
<1>6. ASSUME Deny PROVE TypeOK'
  BY <1>6, <1>b, RefuseType DEF Deny, TypeOK
<1>7. ASSUME AuthorizationError PROVE TypeOK'
  BY <1>7, <1>b, RefuseType DEF AuthorizationError, TypeOK
<1>8. ASSUME StartRoundTrip PROVE TypeOK'
  <2>1. metrics' \in Metrics /\ wire' \in Nat
    BY <1>8, <1>b, RefuseType DEF StartRoundTrip, TypeOK
  <2>2. timer' \in Deadline /\ sentAt' \in Deadline
    BY <1>8, <1>a
      DEF StartRoundTrip, UpstreamRemaining, TypeOK, RequestTimeoutBudget, Deadline, Never
  <2>3. pc' \in {"upstream", "unwind"}
    BY <1>8 DEF StartRoundTrip, Refuse
  <2> QED
    BY <1>8, <2>1, <2>2, <2>3 DEF StartRoundTrip, TypeOK
<1>9. ASSUME UpstreamHints PROVE TypeOK'
  <2>1. WriteHeader(metrics, 103) \in Metrics /\ WireAfter(wire, 103) \in Nat
    <3>1. metrics \in Metrics /\ wire \in Nat
      BY DEF TypeOK
    <3> QED
      BY <1>b, <3>1, WriterType
  <2> QED
    BY <1>9, <2>1 DEF UpstreamHints, TypeOK
<1>10. ASSUME UpstreamFails PROVE TypeOK'
  BY <1>10, <1>b, RefuseType DEF UpstreamFails, TypeOK
<1>11. ASSUME UpstreamTimesOut PROVE TypeOK'
  BY <1>11, <1>b, RefuseType DEF UpstreamTimesOut, TypeOK
<1>12. ASSUME UpstreamResponds PROVE TypeOK'
  <2>1. metrics' \in Metrics /\ wire' \in Nat
    <3>1. \A code \in {200, 404} :
            WriteHeader(metrics, code) \in Metrics /\ WireAfter(wire, code) \in Nat
      <4>1. metrics \in Metrics /\ wire \in Nat
        BY DEF TypeOK
      <4> QED
        BY <1>b, <4>1, WriterType
    <3> QED
      BY <1>12, <3>1 DEF UpstreamResponds
  <2>2. data' \in RequestContext
    BY <1>12 DEF UpstreamResponds, TypeOK, RequestContext, NoResponse
  <2>3. headersAt' \in Deadline /\ timer' \in Deadline
    BY <1>12, <1>a DEF UpstreamResponds, Deadline, Never
  <2> QED
    BY <1>12, <2>1, <2>2, <2>3 DEF UpstreamResponds, TypeOK
<1>13. ASSUME UpstreamUpgrades PROVE TypeOK'
  <2>1. metrics' \in Metrics /\ wire' \in Nat /\ pc' \in {"tunnel", "unwind"}
    BY <1>13, <1>b, RefuseType DEF UpstreamUpgrades, TypeOK
  <2>2. data' \in RequestContext
    BY <1>13 DEF UpstreamUpgrades, TypeOK, RequestContext, NoResponse
  <2>3. headersAt' \in Deadline /\ timer' \in Deadline
    BY <1>13, <1>a DEF UpstreamUpgrades, Deadline, Never
  <2> QED
    BY <1>13, <2>1, <2>2, <2>3 DEF UpstreamUpgrades, TypeOK
<1>14. ASSUME BodyChunk PROVE TypeOK'
  BY <1>14, <1>b, WriterType DEF BodyChunk, TypeOK
<1>15. ASSUME BodyEnds PROVE TypeOK'
  BY <1>15 DEF BodyEnds, TypeOK
<1>16. ASSUME BodyAborts PROVE TypeOK'
  BY <1>16 DEF BodyAborts, TypeOK
<1>17. ASSUME TunnelEnds PROVE TypeOK'
  BY <1>17 DEF TunnelEnds, TypeOK
<1>18. ASSUME Unwind PROVE TypeOK'
  <2>1. audited' \in Seq(AuditEvent)
    BY <1>18, EventType, AppendProperties DEF Unwind, TypeOK
  <2> QED
    BY <1>18, <2>1 DEF Unwind, TypeOK
<1>19. ASSUME Disconnect PROVE TypeOK'
  BY <1>19 DEF Disconnect, TypeOK
<1>20. ASSUME Tick PROVE TypeOK'
  BY <1>20, BoundAssumption, PlanAssumption DEF BoundAssumption, PlanAssumption, Tick, TypeOK
<1>21. CASE UNCHANGED vars
  BY <1>21 DEF vars, TypeOK
<1> QED
  BY <1>1, <1>2, <1>3, <1>4, <1>5, <1>6, <1>7, <1>8, <1>9, <1>10, <1>11, <1>12, <1>13,
     <1>14, <1>15, <1>16, <1>17, <1>18, <1>19, <1>20, <1>21
    DEF Next, Handler, Finished

\* The position in the list moves up to its end and no further.
LEMMA PlanNext == TypeOK /\ PlanInv /\ [Next]_vars => PlanInv'
<1> SUFFICES ASSUME TypeOK, PlanInv, [Next]_vars PROVE PlanInv'
  OBVIOUS
<1> USE DEF PlanInv, TypeOK, reqVars, stageVars, auditVars, upVars
<1>1. ASSUME Arrive PROVE PlanInv'
  <2>1. CASE plan' \in Plans(StaticResource) /\ next' = next
    BY <2>1, <1>1, PlansType DEF Arrive, Refuse
  <2>2. CASE plan' = plan /\ next' = next
    BY <2>2, <1>1 DEF Arrive, Refuse
  <2> QED
    BY <1>1, <2>1, <2>2 DEF Arrive, Refuse
<1>2. ASSUME NEW u \in Users, Authenticated(u) PROVE PlanInv'
  BY <1>2 DEF Authenticated
<1>3. ASSUME Resolve PROVE PlanInv'
  BY <1>3 DEF Resolve, Refuse
<1>4. ASSUME Allow PROVE PlanInv'
  BY <1>4 DEF Allow, LastAttribute
<1>5. CASE UNCHANGED <<plan, next, pc>>
  BY <1>5
<1>6. CASE UNCHANGED <<plan, next>> /\ pc' \notin {"arrive", "authenticate", "resolve", "authorize"}
  BY <1>6
<1>7. UpstreamHints \/ BodyChunk \/ Disconnect \/ Tick => UNCHANGED <<plan, next, pc>>
  BY DEF UpstreamHints, BodyChunk, Disconnect, Tick
<1>8. \/ Unauthenticated \/ Deny \/ AuthorizationError \/ StartRoundTrip \/ UpstreamFails
      \/ UpstreamTimesOut \/ UpstreamResponds \/ UpstreamUpgrades \/ BodyEnds \/ BodyAborts
      \/ TunnelEnds \/ Unwind
      => /\ UNCHANGED <<plan, next>>
         /\ pc' \notin {"arrive", "authenticate", "resolve", "authorize"}
  <2>1. \/ Unauthenticated \/ Deny \/ AuthorizationError \/ UpstreamFails \/ UpstreamTimesOut
        => UNCHANGED <<plan, next>> /\ pc' = "unwind"
    BY DEF Unauthenticated, Deny, AuthorizationError, UpstreamFails, UpstreamTimesOut, Refuse
  <2>2. StartRoundTrip => UNCHANGED <<plan, next>> /\ pc' \in {"unwind", "upstream"}
    BY DEF StartRoundTrip, Refuse
  <2>3. UpstreamResponds \/ UpstreamUpgrades
        => UNCHANGED <<plan, next>> /\ pc' \in {"body", "tunnel", "unwind"}
    BY DEF UpstreamResponds, UpstreamUpgrades, Refuse
  <2>4. BodyEnds \/ BodyAborts \/ TunnelEnds \/ Unwind
        => UNCHANGED <<plan, next>> /\ pc' \in {"unwind", "done"}
    BY DEF BodyEnds, BodyAborts, TunnelEnds, Unwind
  <2> QED
    BY <2>1, <2>2, <2>3, <2>4
<1> QED
  BY <1>1, <1>2, <1>3, <1>4, <1>5, <1>6, <1>7, <1>8 DEF Next, Handler, Finished, vars

-----------------------------------------------------------------------------
(* Deadlines.                                                              *)

\* Before the path filters nothing is done; afterwards the record of the arrival
\* stands, and only the clock, Resolve and Allow move the start of a stage.
LEMMA ArrivalOnly ==
    ASSUME [Next]_vars, ~Arrive
    PROVE  /\ UNCHANGED <<arrival, budget, route, plan>>
           /\ pc = "arrive" <=> pc' = "arrive"
BY DEF Next, Handler, Finished, vars, reqVars, stageVars, auditVars, upVars,
  Authenticated, Unauthenticated, Resolve, Allow, Deny, AuthorizationError, StartRoundTrip,
  UpstreamHints, UpstreamFails, UpstreamTimesOut, UpstreamResponds, UpstreamUpgrades,
  BodyChunk, BodyEnds, BodyAborts, TunnelEnds, Unwind, Refuse, Disconnect, Tick

LEMMA ClockOnly ==
    ASSUME TypeOK, [Next]_vars
    PROVE  now' \in Nat /\ now <= now' /\ stageAt' \in {stageAt, now} /\ (Arrive => now' = now)
<1>1. now \in Nat /\ MaxNow \in Nat
  BY BoundAssumption, PlanAssumption DEF BoundAssumption, PlanAssumption, TypeOK
<1>2. CASE Tick
  BY <1>1, <1>2 DEF Tick, Arrive, stageVars
<1>3. CASE ~Tick
  <2>1. now' = now /\ stageAt' \in {stageAt, now}
    BY <1>3 DEF Next, Handler, Finished, vars, reqVars, stageVars, auditVars, upVars,
      Arrive, Authenticated, Unauthenticated, Resolve, Allow, Deny, AuthorizationError,
      StartRoundTrip, UpstreamHints, UpstreamFails, UpstreamTimesOut, UpstreamResponds,
      UpstreamUpgrades, BodyChunk, BodyEnds, BodyAborts, TunnelEnds, Unwind, Disconnect
  <2> QED
    BY <1>1, <2>1
<1> QED
  BY <1>2, <1>3

LEMMA BudgetInit == Init => BudgetInv
BY DEF Init, BudgetInv

\* The outer middleware sets the budget, the inner one leaves it alone.
LEMMA BudgetNext == TypeOK /\ BudgetInv /\ [Next]_vars => BudgetInv'
<1> SUFFICES ASSUME TypeOK, BudgetInv, [Next]_vars PROVE BudgetInv'
  OBVIOUS
<1>1. now \in Nat /\ arrival \in Nat /\ stageAt \in Nat
      /\ UpstreamTimeout \in Nat /\ AuthTimeout \in Nat
  BY TimeoutAssumption, BoundAssumption DEF TimeoutAssumption, BoundAssumption, TypeOK
<1>2. CASE Arrive
  <2> DEFINE outer == WithRequestTimeouts(budget, now, UpstreamTimeout, AuthTimeout)
  <2>1. pc = "arrive" /\ pc' # "arrive" /\ now' = now /\ arrival' = now /\ budget = NoBudget
    BY <1>2 DEF Arrive, Refuse, BudgetInv
  <2>2. budget' = outer \/ budget' = WithRequestTimeouts(outer, now, 0, AuthTimeout)
    BY <1>2 DEF Arrive
  <2>3. /\ outer.upstream = Limit(now, UpstreamTimeout)
        /\ AuthTimeout > 0 => outer.auth # Never /\ outer.auth <= now + AuthTimeout
        /\ UpstreamTimeout > 0 => outer.auth # Never /\ outer.auth <= now + UpstreamTimeout
    BY <1>1, <2>1 DEF WithRequestTimeouts, NewRequestTimeoutBudget, Limit, NoBudget, Never
  <2>4. UpstreamTimeout > 0 \/ AuthTimeout > 0 => outer # NoBudget
    BY <2>3 DEF NoBudget, Never
  <2>5. budget' = outer
    <3>1. CASE UpstreamTimeout > 0 \/ AuthTimeout > 0
      BY <2>2, <2>4, <3>1 DEF WithRequestTimeouts
    <3>2. CASE ~(UpstreamTimeout > 0 \/ AuthTimeout > 0)
      BY <1>1, <2>2, <3>2 DEF WithRequestTimeouts
    <3> QED
      BY <3>1, <3>2
  <2>6. stageAt' <= now'
    BY <1>1, <2>1, ClockOnly DEF BudgetInv
  <2> QED
    BY <1>1, <2>1, <2>3, <2>5, <2>6 DEF BudgetInv
<1>3. CASE ~Arrive
  BY <1>1, <1>3, ArrivalOnly, ClockOnly DEF BudgetInv
<1> QED
  BY <1>2, <1>3

\* An answer that is not late came within both timeouts.
LEMMA InTime ==
    ASSUME TypeOK, BudgetInv, pc # "arrive", FALSE \in LateValues
    PROVE  Within(now, AuthTimeout) /\ Within(now, UpstreamTimeout)
<1>1. now \in Nat /\ arrival \in Nat /\ stageAt \in Nat
      /\ UpstreamTimeout \in Nat /\ AuthTimeout \in Nat /\ budget.auth \in Deadline
  BY TimeoutAssumption, BoundAssumption
    DEF TimeoutAssumption, BoundAssumption, TypeOK, RequestTimeoutBudget
<1>2. CASE budget.auth = Never
  BY <1>2, <1>1 DEF BudgetInv, Within
<1>3. CASE budget.auth # Never
  <2>1. FALSE \in DoneValues(budget.auth)
    BY <1>3, Zenon DEF LateValues, ContextAuthDeadline
  <2>2. ~(now > budget.auth)
    BY <1>3, <2>1, Zenon DEF DoneValues
  <2>3. now <= budget.auth
    BY <1>1, <1>3, <2>2 DEF Deadline, Never
  <2> QED
    BY <1>1, <1>3, <2>3 DEF BudgetInv, Within, Deadline, Never
<1> QED
  BY <1>2, <1>3

-----------------------------------------------------------------------------
(* Grants.                                                                 *)

LEMMA GrantInit == Init => GrantInv
BY DEF Init, GrantInv, NothingSentWithoutFullGrant, GrantsShareOneDeadline

\* Actions that neither grant nor send, and stay where they are or end up
\* behind the authorizer.
Quiet ==
    /\ UNCHANGED <<now, arrival, route, plan, next, grants, sentAt>>
    /\ \/ pc' = pc /\ UNCHANGED headersAt
       \/ pc' \in {"upstream", "body", "tunnel", "unwind", "done"}

LEMMA QuietActions ==
    ASSUME [Next]_vars
    PROVE  \/ Quiet \/ Arrive \/ (\E u \in Users : Authenticated(u)) \/ Resolve \/ Allow
           \/ StartRoundTrip \/ Tick
<1> USE DEF Quiet, reqVars, stageVars, auditVars, upVars
<1>1. Unauthenticated \/ Deny \/ AuthorizationError \/ UpstreamFails \/ UpstreamTimesOut => Quiet
  BY DEF Unauthenticated, Deny, AuthorizationError, UpstreamFails, UpstreamTimesOut, Refuse
<1>2. UpstreamResponds \/ UpstreamUpgrades => Quiet
  BY DEF UpstreamResponds, UpstreamUpgrades, Refuse
<1>3. UpstreamHints \/ BodyChunk \/ Disconnect => Quiet
  BY DEF UpstreamHints, BodyChunk, Disconnect
<1>4. BodyEnds \/ BodyAborts \/ TunnelEnds \/ Unwind => Quiet
  BY DEF BodyEnds, BodyAborts, TunnelEnds, Unwind
<1>5. UNCHANGED vars => Quiet
  BY DEF vars
<1> QED
  BY <1>1, <1>2, <1>3, <1>4, <1>5 DEF Next, Handler, Finished

\* Authentication opens the list of grants, each Allow adds the next attribute in
\* time, and the request is sent with the list complete.
LEMMA GrantNext ==
    TypeOK /\ PlanInv /\ BudgetInv /\ GrantInv /\ [Next]_vars => GrantInv'
<1> SUFFICES ASSUME TypeOK, PlanInv, BudgetInv, GrantInv, [Next]_vars PROVE GrantInv'
  OBVIOUS
<1> USE DEF NothingSentWithoutFullGrant, GrantsShareOneDeadline, GrantedAt
<1>a. /\ now \in Nat /\ next \in Nat /\ Len(plan.list) \in Nat
      /\ \A g \in grants : g.at \in Nat
  BY BoundAssumption, PlanAssumption DEF BoundAssumption, PlanAssumption, TypeOK, Grant
<1>1. CASE Quiet
  <2>1. CASE pc' = pc /\ UNCHANGED headersAt
    BY <1>1, <2>1 DEF Quiet, GrantInv, Within
  <2>2. CASE pc' \in {"upstream", "body", "tunnel", "unwind", "done"}
    BY <1>1, <2>2 DEF Quiet, GrantInv, Within
  <2> QED
    BY <1>1, <2>1, <2>2 DEF Quiet
<1>2. CASE Arrive
  <2>1. grants' = {} /\ sentAt' = Never /\ headersAt' = Never
    BY <1>2 DEF Arrive, GrantInv, stageVars, upVars
  <2>2. \/ pc' = "unwind" \/ (pc' = "proxy" /\ route' = "ignored")
        \/ (pc' = "authenticate" /\ route' = "protected")
    BY <1>2 DEF Arrive, Refuse
  <2> QED
    BY <2>1, <2>2 DEF GrantInv
<1>3. ASSUME NEW u \in Users, Authenticated(u) PROVE GrantInv'
  <2>1. grants' = {[index |-> 0, at |-> now]} /\ next' = 1
    BY <1>3 DEF Authenticated, GrantInv, PlanInv
  <2>2. Within(now, AuthTimeout) /\ Within(now, UpstreamTimeout)
    BY <1>3, InTime DEF Authenticated
  <2>3. /\ pc = "authenticate" /\ pc' = "resolve"
        /\ UNCHANGED <<now, arrival, route, plan, sentAt, headersAt>>
    BY <1>3 DEF Authenticated, reqVars, upVars
  <2>4. \A k \in 0 .. next' - 1 : \E g \in grants' : g.index = k /\ g.at <= now
    <3>1. [index |-> 0, at |-> now] \in grants'
      BY <2>1
    <3> QED
      BY <1>a, <2>1, <3>1
  <2>5. \A g \in grants' : g.at = now
    BY <2>1
  <2>6. route = "protected"
    BY <2>3 DEF GrantInv
  <2> QED
    BY <1>a, <2>2, <2>3, <2>4, <2>5, <2>6 DEF GrantInv, Within
<1>4. CASE Resolve
  <2>1. UNCHANGED <<now, arrival, route, plan, next, grants, sentAt, headersAt>>
    BY <1>4 DEF Resolve, reqVars, upVars
  <2>2. pc = "resolve" /\ pc' \in {"unwind", "authorize"}
    BY <1>4 DEF Resolve, Refuse
  <2> QED
    BY <2>1, <2>2 DEF GrantInv, Within
<1>5. CASE Allow
  <2>1. /\ grants' = grants \cup {[index |-> next, at |-> now]}
        /\ pc = "authorize" /\ next' = next + 1
        /\ UNCHANGED <<now, arrival, route, plan, sentAt, headersAt>>
    BY <1>5 DEF Allow, reqVars, upVars
  <2>2. \A k \in 0 .. next : \E g \in grants' : g.index = k /\ g.at <= now
    <3>1. \A k \in 0 .. next - 1 : \E g \in grants : g.index = k /\ g.at <= now
      BY <2>1 DEF GrantInv
    <3>2. [index |-> next, at |-> now] \in grants'
      BY <2>1
    <3>3. \A k \in 0 .. next : k \in 0 .. next - 1 \/ k = next
      BY <1>a
    <3>4. \E g \in grants' : g.index = next /\ g.at <= now
      BY <1>a, <3>2
    <3>5. \A k \in 0 .. next - 1 : \E g \in grants' : g.index = k /\ g.at <= now
      BY <2>1, <3>1
    <3> QED
      BY <3>3, <3>4, <3>5
  <2>3. Within(now, AuthTimeout) /\ Within(now, UpstreamTimeout)
    BY <1>5, InTime DEF Allow
  <2>4. next' - 1 = next
    BY <1>a, <2>1
  <2>5. pc' = "authorize" \/ (pc' = "proxy" /\ next = Len(plan.list))
    BY <1>5 DEF Allow, LastAttribute
  <2>6. \A g \in grants' : g.at <= now /\ Within(g.at, AuthTimeout) /\ Within(g.at, UpstreamTimeout)
    BY <1>a, <2>1, <2>3 DEF GrantInv
  <2>7. plan.outcome = "list" /\ sentAt = Never /\ headersAt = Never /\ route = "protected"
    BY <2>1 DEF GrantInv, PlanInv
  <2> QED
    BY <2>1, <2>2, <2>4, <2>5, <2>6, <2>7 DEF GrantInv, Within
<1>6. CASE StartRoundTrip
  <2>1. UNCHANGED <<now, arrival, route, plan, next, grants>> /\ sentAt' \in {sentAt, now}
    BY <1>6 DEF StartRoundTrip, reqVars, stageVars
  <2>2. pc = "proxy" /\ pc' \in {"upstream", "unwind"}
    BY <1>6 DEF StartRoundTrip, Refuse
  <2> QED
    BY <2>1, <2>2 DEF GrantInv, Within
<1>7. CASE Tick
  <2>1. UNCHANGED <<pc, arrival, route, plan, next, grants, sentAt, headersAt>> /\ now' = now + 1
    BY <1>7 DEF Tick, reqVars, stageVars, upVars
  <2>2. \A g \in grants : g.at <= now => g.at <= now'
    BY <1>a, <2>1
  <2> QED
    BY <1>a, <2>1, <2>2 DEF GrantInv, Within
<1> QED
  BY <1>1, <1>2, <1>3, <1>4, <1>5, <1>6, <1>7, QuietActions

-----------------------------------------------------------------------------
(* The upstream budget.                                                    *)

LEMMA TimerInit == Init => TimerInv
BY DEF Init, TimerInv, UpstreamBudgetIsTotal

\* The timer is set for the deadline the budget got when the request arrived.
LEMMA TimerNext ==
    TypeOK /\ BudgetInv /\ GrantInv /\ TimerInv /\ [Next]_vars => TimerInv'
<1> SUFFICES ASSUME TypeOK, BudgetInv, GrantInv, TimerInv, [Next]_vars PROVE TimerInv'
  OBVIOUS
<1> USE DEF TimerInv, UpstreamBudgetIsTotal, Within
<1>a. now \in Nat /\ arrival \in Nat /\ UpstreamTimeout \in Nat
  BY TimeoutAssumption, BoundAssumption DEF TimeoutAssumption, BoundAssumption, TypeOK
<1>1. CASE Arrive
  <2>1. sentAt' = Never /\ headersAt' = Never /\ timer' = Never
    BY <1>1 DEF Arrive, GrantInv, upVars
  <2>2. pc' # "arrive" /\ pc' # "upstream"
    BY <1>1 DEF Arrive, Refuse
  <2> QED
    BY <2>1, <2>2
<1>2. CASE StartRoundTrip
  <2>1. UNCHANGED <<arrival, headersAt>> /\ pc = "proxy" /\ pc' \in {"upstream", "unwind"}
    BY <1>2 DEF StartRoundTrip, Refuse, reqVars
  <2>2. budget.upstream = Limit(arrival, UpstreamTimeout)
    BY <2>1 DEF BudgetInv
  <2>3. CASE UpstreamTimeout = 0
    BY <1>2, <1>a, <2>1, <2>3 DEF StartRoundTrip, Limit, Never
  <2>4. CASE UpstreamTimeout > 0
    <3>1. UpstreamRemaining = arrival + UpstreamTimeout - now
      BY <1>a, <2>2, <2>4 DEF UpstreamRemaining, Limit, Never
    <3> QED
      BY <1>2, <1>a, <2>1, <2>4, <3>1 DEF StartRoundTrip, Limit, Never, Refuse
  <2> QED
    BY <1>a, <2>3, <2>4
<1>3. CASE UpstreamResponds \/ UpstreamUpgrades
  <2>1. /\ UNCHANGED <<arrival, sentAt>> /\ headersAt' = now
        /\ pc = "upstream" /\ pc' \in {"body", "tunnel", "unwind"}
        /\ timer # Never => now <= timer
    BY <1>3 DEF UpstreamResponds, UpstreamUpgrades, Refuse, reqVars
  <2> QED
    BY <1>a, <2>1 DEF Limit, Never
<1>4. CASE ~(Arrive \/ StartRoundTrip \/ UpstreamResponds \/ UpstreamUpgrades)
  <2>1. UNCHANGED <<arrival, sentAt, headersAt, timer>>
    BY <1>4 DEF Next, Handler, Finished, vars, reqVars, stageVars, auditVars, upVars,
      Authenticated, Unauthenticated, Resolve, Allow, Deny, AuthorizationError,
      UpstreamHints, UpstreamFails, UpstreamTimesOut, BodyChunk, BodyEnds, BodyAborts,
      TunnelEnds, Unwind, Disconnect, Tick
  <2>2. /\ pc' = pc \/ pc' \notin {"arrive", "authenticate", "upstream"}
        /\ pc' \in {"resolve", "authorize", "proxy"} =>
                pc \in {"authenticate", "resolve", "authorize", "proxy"}
    BY <1>4 DEF Next, Handler, Finished, vars,
      Authenticated, Unauthenticated, Resolve, Allow, Deny, AuthorizationError, Refuse,
      UpstreamHints, UpstreamFails, UpstreamTimesOut, BodyChunk, BodyEnds, BodyAborts,
      TunnelEnds, Unwind, Disconnect, Tick
  <2> QED
    BY <2>1, <2>2
<1> QED
  BY <1>1, <1>2, <1>3, <1>4

-----------------------------------------------------------------------------
(* The response and its record.                                            *)

LEMMA ResponseInit == Init => ResponseInv
BY DEF Init, ResponseInv, NoData

\* http.Error as the first thing the client gets, in a handler that did not panic.
LEMMA RefuseInv ==
    ASSUME TypeOK, wire = NoResponse, metrics = NoMetrics, ~panicked', data'.upstream \in Nat,
           NEW code \in {400, 401, 403, 404, 500, 502}, Refuse(code),
           data'.upstream = 101 => code = 502
    PROVE  ResponseInv'
<1>1. pc' = "unwind"
  BY DEF Refuse
<1>2. /\ metrics'.headerWritten /\ metrics'.committed /\ metrics'.written
      /\ metrics'.code = code /\ wire' = code
  BY DEF Refuse, WriteHeader, Write, WireAfter, NoMetrics, NoResponse, Informational
<1> QED
  BY <1>1, <1>2 DEF ResponseInv

\* Each way to answer leaves the metrics and the connection in one of the forms
\* of ResponseInv.
LEMMA ResponseNext == TypeOK /\ ResponseInv /\ [Next]_vars => ResponseInv'
<1> SUFFICES ASSUME TypeOK, ResponseInv, [Next]_vars PROVE ResponseInv'
  OBVIOUS
<1> USE DEF reqVars, stageVars, auditVars, upVars
<1> DEFINE early == {"arrive", "authenticate", "resolve", "authorize", "proxy", "upstream"}
           fresh == /\ wire = NoResponse /\ metrics = NoMetrics
                    /\ ~panicked /\ data.upstream = NoResponse
<1>a. pc \in early => fresh
  BY DEF ResponseInv
<1>b. fresh' /\ pc' \in early => ResponseInv'
  BY DEF ResponseInv
<1>c. NoResponse \in Nat /\ NoResponse # 101
  BY DEF NoResponse
<1>d. data \in RequestContext
  BY DEF TypeOK
<1>1. CASE Arrive
  <2>1. fresh /\ UNCHANGED panicked /\ data'.upstream = NoResponse
    BY <1>1, <1>a, <1>d DEF Arrive, RequestContext
  <2>2. CASE Refuse(404)
    BY <2>1, <2>2, <1>c, RefuseInv
  <2>3. CASE UNCHANGED <<metrics, wire>> /\ pc' \in {"proxy", "authenticate"}
    BY <2>1, <2>3, <1>b
  <2> QED
    BY <1>1, <2>2, <2>3 DEF Arrive
<1>2. ASSUME NEW u \in Users, Authenticated(u) PROVE ResponseInv'
  BY <1>2, <1>a, <1>b, <1>d DEF Authenticated, RequestContext
<1>3. CASE Unauthenticated \/ Deny \/ AuthorizationError \/ UpstreamFails \/ UpstreamTimesOut
  <2>1. pc \in early /\ UNCHANGED <<panicked, data>>
    BY <1>3 DEF Unauthenticated, Deny, AuthorizationError, UpstreamFails, UpstreamTimesOut
  <2>2. \E code \in {401, 403, 500, 502} : Refuse(code)
    <3>1. Refuse(401) \/ Refuse(403) \/ Refuse(500) \/ Refuse(502)
      BY <1>3 DEF Unauthenticated, Deny, AuthorizationError, UpstreamFails, UpstreamTimesOut
    <3> QED
      BY <3>1
  <2> QED
    BY <2>1, <2>2, <1>a, <1>c, RefuseInv
<1>4. CASE Resolve
  <2>1. fresh
    BY <1>4, <1>a DEF Resolve
  <2>2. ASSUME NEW code \in {400, 403}, Refuse(code), UNCHANGED <<data, panicked>>
        PROVE  ResponseInv'
    BY <2>1, <2>2, <1>c, RefuseInv
  <2>3. CASE panicked' /\ pc' = "unwind" /\ UNCHANGED <<metrics, wire>>
    BY <2>1, <2>3 DEF ResponseInv, NoMetrics
  <2>4. CASE pc' = "authorize" /\ UNCHANGED <<metrics, wire, panicked>>
             /\ data'.upstream = data.upstream
    BY <2>1, <2>4, <1>b
  <2>5. data' = [data EXCEPT !.resource = IF AuditEnabled THEN FirstResource(plan.list) ELSE Blank]
        => data'.upstream = data.upstream
    BY <1>d DEF RequestContext
  <2> QED
    BY <1>4, <2>2, <2>3, <2>4, <2>5 DEF Resolve
<1>5. CASE Allow
  BY <1>5, <1>a, <1>b DEF Allow
<1>6. CASE StartRoundTrip
  <2>1. fresh /\ UNCHANGED <<data, panicked>>
    BY <1>6, <1>a DEF StartRoundTrip
  <2>2. CASE Refuse(502)
    BY <2>1, <2>2, <1>c, RefuseInv
  <2>3. CASE UNCHANGED <<metrics, wire>> /\ pc' = "upstream"
    BY <2>1, <2>3, <1>b
  <2> QED
    BY <1>6, <2>2, <2>3 DEF StartRoundTrip
<1>7. CASE UpstreamHints
  <2>1. UNCHANGED <<metrics, wire, data, panicked, pc>>
    BY <1>7, <1>a DEF UpstreamHints, WriteHeader, WireAfter, Informational
  <2> QED
    BY <1>7, <2>1, <1>a, <1>b DEF UpstreamHints
<1>8. CASE UpstreamResponds
  <2>1. fresh /\ UNCHANGED panicked /\ pc' = "body"
    BY <1>8, <1>a DEF UpstreamResponds
  <2>2. PICK code \in {200, 404} :
            /\ data' = [data EXCEPT !.upstream = IF Captures THEN code ELSE NoResponse]
            /\ metrics' = WriteHeader(metrics, code)
            /\ wire' = WireAfter(wire, code)
    BY <1>8 DEF UpstreamResponds
  <2>3. data'.upstream # 101
    BY <2>2, <1>c, <1>d DEF RequestContext
  <2>4. metrics'.headerWritten /\ metrics'.committed /\ metrics'.code = code /\ wire' = code
    BY <2>1, <2>2 DEF WriteHeader, WireAfter, NoMetrics, NoResponse, Informational
  <2> QED
    BY <2>1, <2>3, <2>4 DEF ResponseInv
<1>9. CASE UpstreamUpgrades
  <2>1. fresh /\ UNCHANGED <<panicked, route>>
    BY <1>9, <1>a DEF UpstreamUpgrades
  <2>2. data'.upstream = IF Captures THEN 101 ELSE NoResponse
    BY <1>9, <1>d DEF UpstreamUpgrades, RequestContext
  <2>3. CASE Refuse(502)
    BY <2>1, <2>2, <2>3, <1>c, RefuseInv
  <2>4. CASE pc' = "tunnel" /\ wire' = 101 /\ UNCHANGED metrics
    BY <2>1, <2>2, <2>4 DEF ResponseInv, Captures
  <2> QED
    BY <1>9, <2>3, <2>4 DEF UpstreamUpgrades
<1>10. CASE BodyChunk
  <2>1. /\ pc = "body" /\ UNCHANGED <<pc, data, panicked, wire>>
        /\ metrics'.headerWritten /\ metrics'.committed /\ metrics'.code = metrics.code
    BY <1>10 DEF BodyChunk, Write, TypeOK, Metrics
  <2> QED
    BY <2>1 DEF ResponseInv
<1>11. CASE BodyEnds \/ BodyAborts
  <2>1. pc = "body" /\ pc' = "unwind" /\ UNCHANGED <<data, metrics, wire>>
    BY <1>11 DEF BodyEnds, BodyAborts
  <2> QED
    BY <2>1 DEF ResponseInv
<1>12. CASE TunnelEnds
  BY <1>12 DEF TunnelEnds, ResponseInv, Captures
<1>13. CASE Unwind
  BY <1>13 DEF Unwind, ResponseInv
<1>14. CASE Disconnect \/ Tick \/ UNCHANGED vars
  BY <1>14 DEF Disconnect, Tick, vars, ResponseInv, Captures
<1> QED
  BY <1>1, <1>2, <1>3, <1>4, <1>5, <1>6, <1>7, <1>8, <1>9, <1>10, <1>11, <1>12, <1>13, <1>14
    DEF Next, Handler, Finished

LEMMA RecordInit == Init => RecordInv
BY DEF Init, RecordInv, OneRecordPerProtectedRequest, RecordTellsTheResponse,
  RecordNamesThePrincipal, NoData

\* The status a record is given when the handler unwinds.
LEMMA FinalCodeInv ==
    ASSUME TypeOK, ResponseInv, pc = "unwind", Captures
    PROVE  /\ FinalCode = IF wire = NoResponse THEN 500 ELSE wire
           /\ (FinalCode < 400 /\ ~panicked) <=> (wire \in 101 .. 399 /\ ~panicked)
<1>1. CASE /\ metrics.headerWritten /\ metrics.committed
           /\ wire = metrics.code /\ wire \in {200, 400, 401, 403, 404, 500, 502}
           /\ data.upstream = 101 => wire = 502 /\ metrics.written
  BY <1>1 DEF FinalCode, NoResponse
<1>2. CASE wire = NoResponse /\ ~metrics.committed /\ panicked
  BY <1>2 DEF FinalCode, NoResponse
<1>3. CASE wire = 101 /\ metrics = NoMetrics /\ ~panicked /\ data.upstream = 101
  BY <1>3 DEF FinalCode, NoResponse, NoMetrics
<1> QED
  BY <1>1, <1>2, <1>3 DEF ResponseInv

\* A principal is captured with the first grant, and the record is written once,
\* when nothing about the response can change any more.
LEMMA RecordNext ==
    TypeOK /\ GrantInv /\ ResponseInv /\ RecordInv /\ [Next]_vars => RecordInv'
<1> SUFFICES ASSUME TypeOK, GrantInv, ResponseInv, RecordInv, [Next]_vars PROVE RecordInv'
  OBVIOUS
<1> USE DEF reqVars, stageVars, auditVars, upVars
<1> DEFINE authenticated == \E g \in grants : g.index = 0
           principal == AuditEnabled => (data.user # NoUser <=> authenticated)
           records == /\ OneRecordPerProtectedRequest
                      /\ RecordTellsTheResponse
                      /\ RecordNamesThePrincipal
<1>a. data \in RequestContext
  BY DEF TypeOK
<1>b. pc # "done" => audited = <<>>
  BY DEF RecordInv, OneRecordPerProtectedRequest, TypeOK
<1>c. audited' = <<>> /\ pc' # "done" => records'
  BY DEF OneRecordPerProtectedRequest, RecordTellsTheResponse, RecordNamesThePrincipal
<1>d. principal /\ (pc = "authorize" => authenticated) /\ records
  BY DEF RecordInv
<1>e. principal' /\ (pc' = "authorize" => authenticated') /\ records' => RecordInv'
  BY DEF RecordInv
<1>f. authenticated <=> GrantedAt(0, now)
  BY DEF GrantInv, GrantedAt
<1>g. pc \in {"resolve", "authorize"} => authenticated
  BY BoundAssumption, PlanAssumption DEF BoundAssumption, PlanAssumption, GrantInv, GrantedAt, PlanInv, TypeOK
<1>1. ASSUME NEW u \in Users, Authenticated(u) PROVE RecordInv'
  <2>1. authenticated'
    <3>1. [index |-> 0, at |-> now] \in grants'
      BY <1>1 DEF Authenticated
    <3> QED
      BY <3>1
  <2>2. AuditEnabled => data'.user # NoUser
    BY <1>1, <1>a, UserAssumption
      DEF UserAssumption, Authenticated, CapturedUser, RequestContext
  <2>3. audited' = audited /\ pc' = "resolve" /\ pc = "authenticate"
    BY <1>1 DEF Authenticated
  <2> QED
    BY <2>1, <2>2, <2>3, <1>b, <1>c, <1>e
<1>2. CASE Allow
  <2>1. authenticated /\ authenticated'
    BY <1>2, <1>d DEF Allow
  <2>2. UNCHANGED <<data, audited>> /\ pc' # "done" /\ pc = "authorize"
    BY <1>2 DEF Allow
  <2> QED
    BY <2>1, <2>2, <1>b, <1>c, <1>d, <1>e
<1>3. CASE Resolve
  <2>1. UNCHANGED <<grants, audited>> /\ data'.user = data.user /\ pc = "resolve" /\ pc' # "done"
    BY <1>3, <1>a DEF Resolve, Refuse, RequestContext
  <2>2. authenticated
    BY <2>1, <1>g
  <2> QED
    BY <2>1, <2>2, <1>b, <1>c, <1>d, <1>e
<1>4. CASE Unwind
  <2>1. UNCHANGED <<data, grants, now, wire, panicked, route>> /\ pc = "unwind" /\ pc' = "done"
    BY <1>4 DEF Unwind
  <2>2. CASE ~Captures
    <3>1. audited' = <<>>
      BY <1>4, <1>b, <2>1, <2>2 DEF Unwind
    <3> QED
      BY <2>1, <2>2, <3>1, <1>d, <1>e
        DEF OneRecordPerProtectedRequest, RecordTellsTheResponse, RecordNamesThePrincipal,
            Captures
  <2>3. CASE Captures
    <3>1. audited' = <<Event>>
      BY <1>4, <1>b, <2>1, <2>3 DEF Unwind
    <3>2. /\ Event.code = IF wire = NoResponse THEN 500 ELSE wire
          /\ Event.success <=> (wire \in 101 .. 399 /\ ~panicked)
      BY <2>1, <2>3, FinalCodeInv DEF Event
    <3>3. Event.user # NoUser <=> GrantedAt(0, now)
      BY <2>3, <1>d, <1>f DEF Event, Captures
    <3>4. Len(audited') = 1 /\ DOMAIN audited' = {1} /\ audited'[1] = Event
      BY <3>1
    <3> QED
      BY <2>1, <2>3, <3>2, <3>3, <3>4, <1>d, <1>e
        DEF OneRecordPerProtectedRequest, RecordTellsTheResponse, RecordNamesThePrincipal,
            Captures, GrantedAt
  <2> QED
    BY <2>2, <2>3
<1>5. CASE Tick \/ UNCHANGED vars
  <2>1. UNCHANGED <<pc, data, grants, wire, panicked, route, audited>> /\ now <= now' /\ now \in Int /\ now' \in Int
    BY <1>5, BoundAssumption, PlanAssumption DEF BoundAssumption, PlanAssumption, TypeOK, Tick, vars
  <2>2. GrantedAt(0, now) <=> GrantedAt(0, now)'
    BY <2>1, BoundAssumption, PlanAssumption DEF BoundAssumption, PlanAssumption, GrantedAt, GrantInv, TypeOK, Grant
  <2> QED
    BY <2>1, <2>2, <1>d, <1>e
      DEF OneRecordPerProtectedRequest, RecordTellsTheResponse, RecordNamesThePrincipal
<1>6. CASE ~(Allow \/ Resolve \/ Unwind \/ Tick \/ (\E u \in Users : Authenticated(u))
             \/ UNCHANGED vars)
  <2>1. UNCHANGED <<grants, audited>> /\ pc # "done" /\ pc' # "done"
        /\ (pc' = "authorize" => pc = "authorize")
    BY <1>6 DEF Next, Handler, Finished, Arrive, Unauthenticated, Deny,
      AuthorizationError, StartRoundTrip, UpstreamHints, UpstreamFails, UpstreamTimesOut,
      UpstreamResponds, UpstreamUpgrades, BodyChunk, BodyEnds, BodyAborts, TunnelEnds,
      Disconnect, Refuse
  <2>2. CASE Arrive \/ UpstreamResponds \/ UpstreamUpgrades
    <3>1. data'.user = data.user
      BY <2>2, <1>a DEF Arrive, UpstreamResponds, UpstreamUpgrades, RequestContext
    <3> QED
      BY <2>1, <3>1, <1>b, <1>c, <1>d, <1>e
  <2>3. CASE ~(Arrive \/ UpstreamResponds \/ UpstreamUpgrades)
    <3>1. UNCHANGED data
      BY <1>6, <2>3 DEF Next, Handler, Finished, Unauthenticated, Deny,
        AuthorizationError, StartRoundTrip, UpstreamHints, UpstreamFails, UpstreamTimesOut,
        BodyChunk, BodyEnds, BodyAborts, TunnelEnds, Disconnect
    <3> QED
      BY <2>1, <3>1, <1>b, <1>c, <1>d, <1>e
  <2> QED
    BY <2>2, <2>3
<1> QED
  BY <1>1, <1>2, <1>3, <1>4, <1>5, <1>6

-----------------------------------------------------------------------------
(* The theorems.                                                           *)

LEMMA InitInv == Init => IInv
BY TypeInit, BudgetInit, GrantInit, TimerInit, ResponseInit, RecordInit DEF IInv

LEMMA NextInv == IInv /\ [Next]_vars => IInv'
BY TypeNext, PlanNext, BudgetNext, GrantNext, TimerNext, ResponseNext, RecordNext DEF IInv

LEMMA Invariant == Spec => []IInv
BY InitInv, NextInv, PTL DEF Spec

\* Types, and next stays within the attributes of the request.
THEOREM TypeTheorem == Spec => []TypeOK
<1>1. IInv => TypeOK
  BY DEF IInv
<1> QED
  BY <1>1, Invariant, PTL

\* The upstream never sees a protected request before the authenticator accepted
\* it and the authorizer allowed every one of its attributes
\* (WithAuthentication, WithAuthorizationAttributesObserver).
THEOREM GrantTheorem == Spec => []NothingSentWithoutFullGrant
<1>1. IInv => NothingSentWithoutFullGrant
  BY DEF IInv, GrantInv
<1> QED
  BY <1>1, Invariant, PTL

\* No positive answer counts after the earlier of the two timeouts, from arrival
\* (withAuthenticationTimeout, withAuthorizationTimeout, withRequestTimeouts).
THEOREM SharedDeadlineTheorem == Spec => []GrantsShareOneDeadline
<1>1. IInv => GrantsShareOneDeadline
  BY DEF IInv, GrantInv
<1> QED
  BY <1>1, Invariant, PTL

\* Nothing is sent, and no response headers are accepted, once the upstream
\* timeout has passed since arrival (upstreamTimeoutRoundTripper.RoundTrip).
THEOREM UpstreamBudgetTheorem == Spec => []UpstreamBudgetIsTotal
<1>1. IInv => UpstreamBudgetIsTotal
  BY DEF IInv, TimerInv
<1> QED
  BY <1>1, Invariant, PTL

\* One record for a request that reached authentication, none for one the path
\* filters answered or let through (WithAuditLog, buildRequestHandler).
THEOREM OneRecordTheorem == Spec => []OneRecordPerProtectedRequest
<1>1. IInv => OneRecordPerProtectedRequest
  BY DEF IInv, RecordInv
<1> QED
  BY <1>1, Invariant, PTL

\* The record shows the status the client got, through upgrades, panics and
\* informational responses (WithAuditLog, event).
THEOREM ResponseTheorem == Spec => []RecordTellsTheResponse
<1>1. IInv => RecordTellsTheResponse
  BY DEF IInv, RecordInv
<1> QED
  BY <1>1, Invariant, PTL

\* The record names a principal exactly if the authenticator's answer was
\* accepted (CaptureUser).
THEOREM PrincipalTheorem == Spec => []RecordNamesThePrincipal
<1>1. IInv => RecordNamesThePrincipal
  BY DEF IInv, RecordInv
<1> QED
  BY <1>1, Invariant, PTL
-----------------------------------------------------------------------------
(* The target of the record.                                               *)

RecordedTarget ==
    \A k \in DOMAIN audited :
        LET name == audited[k].resource.name
            asked == {plan.list[j].target.name : j \in DOMAIN plan.list}
            first == FirstResource(plan.list).name
        IN  /\ ExplicitResource.name # NoValue => name = ExplicitResource.name
            /\ plan.matched => name \in {NoValue, ExplicitResource.name} \cup asked
            /\ ((\E g \in grants : g.index = 0) /\ first # NoValue
                    /\ ExplicitResource.name = NoValue) => name = first

\* The captures agree with the plan: whether an endpoint owns the request from
\* its arrival on, and the target once the attributes are resolved.  A request
\* refused before that has no attributes to take a target from.
TargetInv ==
    /\ plan.outcome # "list" => plan.list = <<>>
    /\ plan.list \in Seq(Attribute)
    /\ pc # "arrive" /\ Captures => data.matched = plan.matched
    /\ pc = "arrive" => data.resource = Blank
    /\ data.resource \in {Blank, FirstResource(plan.list)}
    /\ (/\ pc \notin {"arrive", "authenticate", "resolve"} /\ Captures
        /\ \E g \in grants : g.index = 0) => data.resource = FirstResource(plan.list)
    /\ RecordedTarget

\* The first resource is the target of one of the attributes, or there is none.
LEMMA FirstResourceSource ==
    ASSUME NEW list \in Seq(Attribute)
    PROVE  FirstResource(list) \in {Blank} \cup {list[j].target : j \in DOMAIN list}
<1> DEFINE Found == {k \in DOMAIN list : list[k].resource}
<1>1. CASE Found = {}
  BY <1>1 DEF FirstResource
<1>2. CASE Found # {}
  <2>1. \E k \in Found : \A j \in Found : k <= j
    <3>1. Found \subseteq Nat
      OBVIOUS
    <3> HIDE DEF Found
    <3> QED
      BY <3>1, <1>2, LeastElement
  <2>2. (CHOOSE k \in Found : \A j \in Found : k <= j) \in DOMAIN list
    BY <2>1
  <2>3. FirstResource(list) = list[CHOOSE k \in Found : \A j \in Found : k <= j].target
    BY <1>2 DEF FirstResource
  <2> QED
    BY <2>2, <2>3
<1> QED
  BY <1>1, <1>2

LEMMA FirstOfNone == FirstResource(<<>>) = Blank
BY DEF FirstResource

\* What event() makes of the captures: the name is the flag's, else the captured
\* one, else the static one of a request no endpoint owns.
LEMMA AuditedName ==
    /\ AuditedResource.name = AuditedField("name")
    /\ Event.resource = AuditedResource
BY DEF AuditedResource, Blank, Event

LEMMA TargetInit == Init => TargetInv
<1> SUFFICES ASSUME Init PROVE TargetInv
  OBVIOUS
<1>1. plan.list = <<>> /\ plan.list \in Seq(Attribute) /\ audited = <<>> /\ pc = "arrive"
  BY DEF Init
<1>2. data.resource = Blank
  BY DEF Init, NoData
<1>3. RecordedTarget
  BY <1>1 DEF RecordedTarget
<1> QED
  BY <1>1, <1>2, <1>3 DEF TargetInv

LEMMA TargetNext == IInv /\ TargetInv /\ [Next]_vars => TargetInv'
<1> SUFFICES ASSUME IInv, TargetInv, [Next]_vars PROVE TargetInv'
  OBVIOUS
<1> USE DEF reqVars, stageVars, auditVars, upVars
<1> DEFINE authenticated == \E g \in grants : g.index = 0
<1>a. data \in RequestContext
  BY DEF IInv, TypeOK
<1>b. pc # "done" => audited = <<>>
  BY DEF IInv, RecordInv, OneRecordPerProtectedRequest, TypeOK
<1>c. audited' = <<>> => RecordedTarget'
  BY DEF RecordedTarget
<1>d. pc \in {"authenticate", "resolve", "authorize"} => route = "protected"
  BY DEF IInv, GrantInv
<1>1. CASE Arrive
  <2>1. audited' = <<>> /\ pc' # "arrive" /\ UNCHANGED grants /\ data.resource = Blank
    BY <1>1, <1>b DEF Arrive, Refuse, TargetInv
  <2>2. data'.resource = Blank
    BY <1>1, <1>a, <2>1 DEF Arrive, RequestContext
  <2>3. authenticated' = FALSE
    BY <1>1, <2>1 DEF Arrive, IInv, GrantInv
  <2>4. CASE route' = "protected" /\ plan' \in Plans(StaticResource)
             /\ data' = [data EXCEPT !.matched = AuditEnabled /\ plan'.matched]
    <3>1. plan'.list \in Seq(Attribute) /\ plan'.matched \in BOOLEAN
      BY <2>4, PlansType
    <3>2. plan'.outcome # "list" => plan'.list = <<>>
      BY <2>4 DEF Plans
    <3>3. Captures' => data'.matched = plan'.matched
      BY <2>4, <3>1, <1>a DEF Captures, RequestContext
    <3> QED
      BY <2>1, <2>2, <2>3, <3>1, <3>2, <3>3, <1>c DEF TargetInv
  <2>5. CASE route' # "protected" /\ UNCHANGED <<plan, data>>
    BY <2>1, <2>2, <2>3, <2>5, <1>c DEF TargetInv, Captures
  <2> QED
    BY <1>1, <2>4, <2>5 DEF Arrive
<1>2. CASE Resolve
  <2>1. audited' = <<>> /\ UNCHANGED <<plan, grants, route>> /\ pc = "resolve" /\ pc' \notin {"arrive"}
        /\ route = "protected"
    BY <1>2, <1>b, <1>d DEF Resolve, Refuse
  <2>2. data'.matched = data.matched
    BY <1>2, <1>a DEF Resolve, RequestContext
  <2>3. CASE plan.outcome = "list"
    <3>1. data'.resource = IF AuditEnabled THEN FirstResource(plan.list) ELSE Blank
      BY <1>2, <2>3, <1>a DEF Resolve, RequestContext
    <3> QED
      BY <2>1, <2>2, <3>1, <1>c DEF TargetInv, Captures
  <2>4. CASE plan.outcome # "list"
    <3>1. UNCHANGED data
      BY <1>2, <2>4 DEF Resolve
    <3>2. FirstResource(plan.list) = Blank
      BY <2>4, FirstOfNone DEF TargetInv
    <3> QED
      BY <2>1, <3>1, <3>2, <1>c DEF TargetInv, Captures
  <2> QED
    BY <2>3, <2>4
<1>3. CASE Unwind
  <2>1. UNCHANGED <<data, grants, plan, route>> /\ pc = "unwind" /\ pc' = "done"
    BY <1>3 DEF Unwind
  <2>2. RecordedTarget'
    <3>1. CASE ~Captures
      BY <1>3, <1>b, <1>c, <2>1, <3>1 DEF Unwind
    <3>2. CASE Captures
      <4> DEFINE name == AuditedField("name")
                 first == FirstResource(plan.list).name
                 asked == {plan.list[j].target.name : j \in DOMAIN plan.list}
      <4>1. DOMAIN audited' = {1} /\ audited'[1].resource.name = name
        <5>1. audited' = <<Event>>
          BY <1>3, <1>b, <2>1, <3>2 DEF Unwind
        <5> QED
          BY <5>1, AuditedName
      <4>2. ExplicitResource.name # NoValue => name = ExplicitResource.name
        BY DEF AuditedField
      <4>3. data.resource.name \in {NoValue} \cup asked
        <5>1. FirstResource(plan.list) \in {Blank} \cup {plan.list[j].target : j \in DOMAIN plan.list}
          BY FirstResourceSource DEF TargetInv
        <5>2. data.resource \in {Blank} \cup {plan.list[j].target : j \in DOMAIN plan.list}
          BY <5>1 DEF TargetInv
        <5> QED
          BY <5>2 DEF Blank
      <4>4. plan.matched => name \in {NoValue, ExplicitResource.name} \cup asked
        BY <2>1, <3>2, <4>3 DEF AuditedField, TargetInv
      <4>5. authenticated /\ first # NoValue /\ ExplicitResource.name = NoValue => name = first
        BY <2>1, <3>2 DEF AuditedField, TargetInv
      <4> QED
        BY <2>1, <4>1, <4>2, <4>4, <4>5 DEF RecordedTarget
    <3> QED
      BY <3>1, <3>2
  <2> QED
    BY <2>1, <2>2 DEF TargetInv, Captures
<1>4. CASE Unauthenticated
  <2>1. audited' = <<>> /\ UNCHANGED <<plan, data, grants, route>> /\ grants = {}
        /\ pc = "authenticate" /\ pc' = "unwind"
    BY <1>4, <1>b DEF Unauthenticated, Refuse, IInv, GrantInv
  <2> QED
    BY <2>1, <1>c DEF TargetInv, Captures
<1>5. ASSUME NEW u \in Users, Authenticated(u) PROVE TargetInv'
  <2>1. audited' = <<>> /\ UNCHANGED <<plan, route>> /\ pc = "authenticate" /\ pc' = "resolve"
    BY <1>5, <1>b DEF Authenticated
  <2>2. data'.resource = data.resource /\ data'.matched = data.matched
    BY <1>5, <1>a DEF Authenticated, RequestContext
  <2> QED
    BY <2>1, <2>2, <1>c DEF TargetInv, Captures
<1>6. CASE Allow
  <2>1. audited' = <<>> /\ UNCHANGED <<plan, data, route>> /\ pc = "authorize"
        /\ pc' \in {"authorize", "proxy"}
    BY <1>6, <1>b DEF Allow
  <2>2. authenticated
    BY <2>1 DEF IInv, RecordInv
  <2> QED
    BY <2>1, <2>2, <1>c DEF TargetInv, Captures
<1>7. CASE UpstreamResponds \/ UpstreamUpgrades
  <2>1. audited' = <<>> /\ UNCHANGED <<plan, grants, route>> /\ pc = "upstream"
        /\ pc' \notin {"arrive", "authenticate", "resolve"}
    BY <1>7, <1>b DEF UpstreamResponds, UpstreamUpgrades, Refuse
  <2>2. data'.resource = data.resource /\ data'.matched = data.matched
    BY <1>7, <1>a DEF UpstreamResponds, UpstreamUpgrades, RequestContext
  <2> QED
    BY <2>1, <2>2, <1>c DEF TargetInv, Captures
<1>8. CASE Deny \/ AuthorizationError \/ StartRoundTrip \/ UpstreamHints \/ UpstreamFails
           \/ UpstreamTimesOut \/ BodyChunk \/ BodyEnds \/ BodyAborts \/ TunnelEnds
  <2>1. UNCHANGED <<audited, plan, data, grants, route>>
        /\ pc \notin {"arrive", "authenticate", "resolve", "done"}
        /\ pc' \notin {"arrive", "authenticate", "resolve"}
    BY <1>8 DEF Deny, AuthorizationError, StartRoundTrip, UpstreamHints, UpstreamFails,
      UpstreamTimesOut, BodyChunk, BodyEnds, BodyAborts, TunnelEnds, Refuse
  <2> QED
    BY <2>1, <1>b, <1>c DEF TargetInv, Captures
<1>9. CASE Disconnect \/ Tick \/ UNCHANGED vars
  <2>1. UNCHANGED <<audited, plan, data, grants, route, pc>>
    BY <1>9 DEF Disconnect, Tick, vars
  <2> QED
    BY <2>1 DEF TargetInv, Captures, RecordedTarget
<1> QED
  BY <1>1, <1>2, <1>3, <1>4, <1>5, <1>6, <1>7, <1>8, <1>9 DEF Next, Handler, Finished

\* The name in the record is the flag's, or one the authorizer was asked about, and
\* static metadata never fills in for a request an endpoint owns
\* (CaptureAuthorizationEndpointMatch, CaptureAuthorizationAttributes, event).
THEOREM TargetTheorem == Spec => []RecordNamesTheTarget
<1>1. TargetInv => RecordNamesTheTarget
  BY DEF TargetInv, RecordedTarget, RecordNamesTheTarget, GrantedAt
<1>2. Init => TargetInv
  BY TargetInit
<1>3. IInv /\ TargetInv /\ [Next]_vars => TargetInv'
  BY TargetNext
<1> QED
  BY <1>1, <1>2, <1>3, Invariant, PTL DEF Spec

-----------------------------------------------------------------------------
(* The chain implements the gate.                                          *)

\* What the refinement needs besides: no check is passed out of turn, and the
\* upstream has answered exactly on the control points behind its answer.
GateInv ==
    /\ route # "protected" => grants = {}
    /\ pc \in {"resolve", "authorize"} => \A g \in grants : g.index < next
    /\ pc = "proxy" => \A g \in grants : g.index <= Len(plan.list)
    /\ pc \in {"arrive", "authenticate", "resolve", "authorize", "proxy", "upstream"} =>
            headersAt = Never
    /\ pc \in {"body", "tunnel"} => headersAt # Never

LEMMA GateInit == Init => GateInv
BY DEF Init, GateInv

LEMMA GateNext ==
    TypeOK /\ PlanInv /\ GrantInv /\ GateInv /\ [Next]_vars => GateInv'
<1> SUFFICES ASSUME TypeOK, PlanInv, GrantInv, GateInv, [Next]_vars PROVE GateInv'
  OBVIOUS
<1> USE DEF reqVars, stageVars, auditVars, upVars
<1>a. /\ next \in Nat /\ now \in Nat /\ Len(plan.list) \in Nat
      /\ \A g \in grants : g.index \in Nat
  BY BoundAssumption, PlanAssumption DEF BoundAssumption, PlanAssumption, TypeOK, Grant
<1>1. CASE Arrive
  <2>1. grants' = {} /\ headersAt' = Never /\ pc' \in {"unwind", "proxy", "authenticate"}
    BY <1>1 DEF Arrive, Refuse, GrantInv
  <2> QED
    BY <2>1 DEF GateInv
<1>2. ASSUME NEW u \in Users, Authenticated(u) PROVE GateInv'
  <2>1. /\ grants' = {[index |-> 0, at |-> now]} /\ next' = 1 /\ route = "protected"
        /\ pc = "authenticate" /\ pc' = "resolve" /\ UNCHANGED <<route, headersAt>>
    BY <1>2 DEF Authenticated, GrantInv, PlanInv
  <2> QED
    BY <2>1 DEF GateInv
<1>3. CASE Resolve
  <2>1. pc = "resolve" /\ pc' \in {"unwind", "authorize"}
        /\ UNCHANGED <<route, grants, next, headersAt>>
    BY <1>3 DEF Resolve, Refuse
  <2> QED
    BY <2>1 DEF GateInv
<1>4. CASE Allow
  <2>1. /\ grants' = grants \cup {[index |-> next, at |-> now]} /\ next' = next + 1
        /\ pc = "authorize" /\ UNCHANGED <<route, plan, headersAt>>
        /\ pc' = "authorize" \/ (pc' = "proxy" /\ next = Len(plan.list))
    BY <1>4 DEF Allow, LastAttribute
  <2>2. \A g \in grants' : g.index <= next
    BY <2>1, <1>a DEF GateInv
  <2>3. \A g \in grants' : g.index \in Nat
    BY <2>1, <1>a
  <2>4. \A g \in grants' : g.index < next'
    BY <2>1, <2>2, <2>3, <1>a
  <2>5. route = "protected"
    BY <2>1 DEF GrantInv
  <2> QED
    BY <2>1, <2>2, <2>4, <2>5 DEF GateInv
<1>5. CASE UpstreamResponds \/ UpstreamUpgrades
  <2>1. /\ headersAt' = now /\ pc' \in {"body", "tunnel", "unwind"}
        /\ UNCHANGED <<route, grants>>
    BY <1>5 DEF UpstreamResponds, UpstreamUpgrades, Refuse
  <2> QED
    BY <2>1, <1>a DEF GateInv, Never
<1>6. CASE StartRoundTrip
  <2>1. pc = "proxy" /\ pc' \in {"upstream", "unwind"} /\ UNCHANGED <<route, grants, headersAt>>
    BY <1>6 DEF StartRoundTrip, Refuse
  <2> QED
    BY <2>1 DEF GateInv
<1>7. CASE Unauthenticated \/ Deny \/ AuthorizationError \/ UpstreamFails \/ UpstreamTimesOut
           \/ BodyEnds \/ BodyAborts \/ TunnelEnds \/ Unwind
  <2>1. pc' \in {"unwind", "done"} /\ UNCHANGED <<route, grants>>
    BY <1>7 DEF Unauthenticated, Deny, AuthorizationError, UpstreamFails, UpstreamTimesOut,
      BodyEnds, BodyAborts, TunnelEnds, Unwind, Refuse
  <2> QED
    BY <2>1 DEF GateInv
<1>8. CASE UpstreamHints \/ BodyChunk \/ Disconnect \/ Tick \/ UNCHANGED vars
  <2>1. UNCHANGED <<pc, route, plan, grants, next, headersAt>>
    BY <1>8 DEF UpstreamHints, BodyChunk, Disconnect, Tick, vars
  <2> QED
    BY <2>1 DEF GateInv
<1> QED
  BY <1>1, <1>2, <1>3, <1>4, <1>5, <1>6, <1>7, <1>8 DEF Next, Handler, Finished

LEMMA GateInvariant == Spec => [](IInv /\ GateInv)
<1>1. IInv /\ GateInv /\ [Next]_vars => GateInv'
  BY GateNext DEF IInv
<1> QED
  BY <1>1, GateInit, Invariant, PTL DEF Spec

Passed == {g.index : g \in grants}

\* The verdict of the gate at each control point, before and after a step.
LEMMA VerdictAt ==
    ASSUME TypeOK, GateInv
    PROVE  /\ pc = "arrive" <=> Verdict = "none"
           /\ pc \in {"authenticate", "resolve", "authorize", "proxy"} => Verdict = "open"
           /\ pc = "upstream" => Verdict = "forwarded"
           /\ pc \in {"body", "tunnel"} => Verdict = "answered"
           /\ pc \in {"unwind", "done"} =>
                    Verdict = IF headersAt = Never THEN "refused" ELSE "answered"
BY DEF TypeOK, GateInv, Verdict

LEMMA VerdictAfter ==
    ASSUME TypeOK', GateInv'
    PROVE  /\ pc' = "arrive" <=> Verdict' = "none"
           /\ pc' \in {"authenticate", "resolve", "authorize", "proxy"} => Verdict' = "open"
           /\ pc' = "upstream" => Verdict' = "forwarded"
           /\ pc' \in {"body", "tunnel"} => Verdict' = "answered"
           /\ pc' \in {"unwind", "done"} =>
                    Verdict' = IF headersAt' = Never THEN "refused" ELSE "answered"
BY DEF TypeOK, GateInv, Verdict

\* The checks are settled when the request is led past the path filters.
LEMMA ChecksSettled ==
    ASSUME [Next]_vars, ~Arrive
    PROVE  Checks' = Checks /\ arrival' = arrival
BY ArrivalOnly DEF Checks

\* What came in time for both timeouts came in time for the earlier one.
LEMMA ChecksInTime ==
    ASSUME TypeOK, BudgetInv, pc # "arrive", FALSE \in LateValues
    PROVE  Gate!InTime(CheckTimeout)
<1>1. Within(now, AuthTimeout) /\ Within(now, UpstreamTimeout)
  BY InTime
<1>2. UpstreamTimeout \in Nat /\ AuthTimeout \in Nat
  BY TimeoutAssumption DEF TimeoutAssumption
<1> QED
  BY <1>1, <1>2 DEF Within, CheckTimeout, Gate!InTime

LEMMA GateRefinesInit == Init => Gate!Init
<1> SUFFICES ASSUME Init PROVE Gate!Init
  OBVIOUS
<1>1. Verdict = "none"
  BY DEF Init, Verdict
<1>2. Checks = {} /\ Passed = {}
  BY DEF Init, Checks, Passed
<1> QED
  BY <1>1, <1>2 DEF Init, Passed, Gate!Init, Gate!Unchecked

\* Arrival: the checks are those of the filters, or the door is shut.
LEMMA ArriveEnters ==
    ASSUME IInv, GateInv, IInv', GateInv', Arrive
    PROVE  Gate!Enter
<1>1. Verdict = "none" /\ arrival' = now /\ now' = now /\ Passed' = Passed
  BY VerdictAt DEF IInv, Arrive, Passed, stageVars
<1>2. Verdict' \in {"open", "refused"}
  <2>1. pc' \in {"unwind", "proxy", "authenticate"} /\ headersAt' = Never
    BY DEF Arrive, Refuse, IInv, GateInv, upVars
  <2> QED
    BY <2>1, VerdictAfter DEF IInv
<1>3. Checks' \in Gate!Needs
  <2>1. CASE route' # "protected"
    BY <2>1 DEF Checks, Gate!Needs, Gate!Unchecked
  <2>2. CASE route' = "protected"
    <3> DEFINE n == IF plan'.list = <<>> THEN 1 ELSE Len(plan'.list)
    <3>1. pc' # "arrive" /\ plan' \in Plans(StaticResource)
      BY <2>2 DEF Arrive
    <3>2. plan'.list \in Seq(Attribute) /\ Len(plan'.list) <= MaxAttrs
      BY <3>1, PlansType
    <3>3. n \in 1 .. MaxAttrs
      BY <3>2, PlanAssumption DEF PlanAssumption
    <3>4. Checks' = 0 .. n
      BY <2>2, <3>1 DEF Checks
    <3> QED
      BY <3>3, <3>4 DEF Gate!Needs
  <2> QED
    BY <2>1, <2>2
<1> QED
  BY <1>1, <1>2, <1>3 DEF Gate!Enter, Passed

\* The authenticator's check is the first one.
LEMMA AuthenticatedPasses ==
    ASSUME IInv, GateInv, IInv', GateInv', [Next]_vars, NEW u \in Users, Authenticated(u)
    PROVE  0 \in Checks /\ Gate!Pass(0)
<1>1. /\ pc = "authenticate" /\ pc' = "resolve" /\ grants = {} /\ route = "protected"
      /\ grants' = {[index |-> 0, at |-> now]} /\ now' = now /\ FALSE \in LateValues
  BY DEF Authenticated, IInv, GrantInv
<1>2. Verdict = "open" /\ Verdict' = "open"
  BY <1>1, VerdictAt, VerdictAfter DEF IInv
<1>3. Passed = {} /\ Passed' = {0}
  BY <1>1 DEF Passed
<1>4. Checks' = Checks /\ arrival' = arrival
  BY <1>1, ChecksSettled DEF Arrive
<1>5. 0 \in Checks /\ Checks \subseteq Nat
  BY <1>1 DEF Checks, IInv, TypeOK
<1>6. Gate!InTime(CheckTimeout)
  BY <1>1, ChecksInTime DEF IInv
<1> QED
  BY <1>1, <1>2, <1>3, <1>4, <1>5, <1>6 DEF Gate!Pass, Passed

\* The grants so far are those in front of the next attribute.
LEMMA PassedSoFar ==
    ASSUME IInv, GateInv, pc = "authorize"
    PROVE  Passed = 0 .. next - 1 /\ next \in Checks
<1>1. \A k \in 0 .. next - 1 : \E g \in grants : g.index = k
  BY DEF IInv, GrantInv, GrantedAt
<1>2. \A g \in grants : g.index \in Nat /\ g.index < next
  BY PlanAssumption DEF PlanAssumption, IInv, TypeOK, Grant, GateInv
<1>3. next \in Nat /\ next <= Len(plan.list) /\ plan.list # <<>> /\ route = "protected"
  BY PlanAssumption DEF PlanAssumption, IInv, TypeOK, PlanInv, GrantInv
<1>4. Passed \subseteq 0 .. next - 1
  BY <1>2, <1>3 DEF Passed
<1>5. 0 .. next - 1 \subseteq Passed
  BY <1>1 DEF Passed
<1>6. next \in Checks
  <2>1. Len(plan.list) \in Nat
    BY DEF IInv, TypeOK
  <2>2. Checks = 0 .. Len(plan.list)
    BY <1>3 DEF Checks
  <2> QED
    BY <1>3, <2>1, <2>2
<1> QED
  BY <1>4, <1>5, <1>6

LEMMA AllowPasses ==
    ASSUME IInv, GateInv, IInv', GateInv', [Next]_vars, Allow
    PROVE  \E check \in Checks : Gate!Pass(check)
<1>1. /\ pc = "authorize" /\ pc' \in {"authorize", "proxy"} /\ now' = now
      /\ grants' = grants \cup {[index |-> next, at |-> now]} /\ FALSE \in LateValues
  BY DEF Allow
<1>2. Verdict = "open" /\ Verdict' = "open"
  BY <1>1, VerdictAt, VerdictAfter DEF IInv
<1>3. Passed = 0 .. next - 1 /\ next \in Checks
  BY <1>1, PassedSoFar
<1>4. Passed' = Passed \cup {next}
  <2> DEFINE new == [index |-> next, at |-> now]
  <2>1. new.index = next /\ grants' = grants \cup {new}
    BY <1>1
  <2> HIDE DEF new
  <2> QED
    BY <2>1 DEF Passed
<1>5. Checks' = Checks /\ arrival' = arrival
  BY <1>1, ChecksSettled DEF Arrive
<1>6. Checks \subseteq Nat /\ next \in Nat
  BY PlanAssumption DEF PlanAssumption, Checks, IInv, TypeOK
<1>7. next \notin Passed /\ \A k \in Checks : k < next => k \in Passed
  BY <1>3, <1>6
<1>8. Gate!InTime(CheckTimeout)
  BY <1>1, ChecksInTime DEF IInv
<1>9. PICK check \in Checks : check = next
  BY <1>3
<1>10. Gate!Pass(check)
  BY <1>1, <1>2, <1>4, <1>5, <1>7, <1>8, <1>9 DEF Gate!Pass, Passed
<1> QED
  BY <1>10

\* A request is forwarded with all its checks passed and time left, or refused.
LEMMA RoundTripForwards ==
    ASSUME IInv, GateInv, IInv', GateInv', [Next]_vars, StartRoundTrip
    PROVE  Gate!Forward \/ Gate!Refuse
<1>1. pc = "proxy" /\ pc' \in {"upstream", "unwind"} /\ UNCHANGED <<now, grants, headersAt>>
  BY DEF StartRoundTrip, Refuse, stageVars
<1>2. Verdict = "open" /\ headersAt = Never
  BY <1>1, VerdictAt DEF IInv, GateInv
<1>3. Checks' = Checks /\ arrival' = arrival /\ Passed' = Passed
  BY <1>1, ChecksSettled DEF Arrive, Passed
<1>4. CASE pc' = "unwind"
  <2>1. Verdict' = "refused"
    BY <1>1, <1>2, <1>4, VerdictAfter DEF IInv
  <2> QED
    BY <1>1, <1>2, <1>3, <2>1 DEF Gate!Refuse, Passed
<1>5. CASE pc' = "upstream"
  <2>1. Verdict' = "forwarded"
    BY <1>5, VerdictAfter DEF IInv
  <2>2. Passed = Checks
    <3>1. CASE route # "protected"
      BY <1>1, <3>1 DEF Checks, Passed, GateInv
    <3>2. CASE route = "protected"
      <4>1. \A k \in 0 .. Len(plan.list) : \E g \in grants : g.index = k
        BY <1>1, <3>2 DEF IInv, GrantInv, GrantedAt
      <4>2. \A g \in grants : g.index \in 0 .. Len(plan.list)
        BY <1>1, PlanAssumption DEF PlanAssumption, IInv, TypeOK, Grant, GateInv
      <4>3. Checks = 0 .. Len(plan.list)
        BY <1>1, <3>2 DEF Checks, IInv, GrantInv, PlanInv
      <4> QED
        BY <4>1, <4>2, <4>3 DEF Passed
    <3> QED
      BY <3>1, <3>2
  <2>3. UpstreamTimeout > 0 => now < arrival + UpstreamTimeout
    <3>1. now \in Nat /\ arrival \in Nat /\ UpstreamTimeout \in Nat
      BY TimeoutAssumption, BoundAssumption DEF TimeoutAssumption, BoundAssumption, IInv, TypeOK
    <3>2. budget.upstream = Limit(arrival, UpstreamTimeout)
      BY <1>1 DEF IInv, BudgetInv
    <3>3. UpstreamTimeout > 0 => ~(UpstreamRemaining <= 0)
      BY <1>5, <3>1 DEF StartRoundTrip, Refuse
    <3> QED
      BY <3>1, <3>2, <3>3 DEF UpstreamRemaining, Limit, Never
  <2> QED
    BY <1>1, <1>2, <1>3, <2>1, <2>2, <2>3 DEF Gate!Forward, Passed
<1> QED
  BY <1>1, <1>4, <1>5

\* The upstream's answer is in time for the timer was set for the deadline.
LEMMA ResponseAnswers ==
    ASSUME IInv, GateInv, IInv', GateInv', [Next]_vars, UpstreamResponds \/ UpstreamUpgrades
    PROVE  Gate!Answer
<1>1. /\ pc = "upstream" /\ pc' \in {"body", "tunnel", "unwind"} /\ UNCHANGED <<now, grants>>
      /\ headersAt' = now /\ (timer # Never => now <= timer)
  BY DEF UpstreamResponds, UpstreamUpgrades, Refuse, stageVars
<1>2. now \in Nat /\ arrival \in Nat /\ UpstreamTimeout \in Nat
  BY TimeoutAssumption, BoundAssumption DEF TimeoutAssumption, BoundAssumption, IInv, TypeOK
<1>3. Verdict = "forwarded" /\ Verdict' = "answered"
  BY <1>1, <1>2, VerdictAt, VerdictAfter DEF IInv, Never
<1>4. Checks' = Checks /\ arrival' = arrival /\ Passed' = Passed
  BY <1>1, ChecksSettled DEF Arrive, Passed
<1>5. Gate!InTime(UpstreamTimeout)
  BY <1>1, <1>2 DEF IInv, TimerInv, Limit, Never, Gate!InTime
<1> QED
  BY <1>1, <1>3, <1>4, <1>5 DEF Gate!Answer, Passed

\* Every answer of the proxy's own, in front of the upstream's.
LEMMA RefusalRefuses ==
    ASSUME IInv, GateInv, IInv', GateInv', [Next]_vars,
           Unauthenticated \/ Resolve \/ Deny \/ AuthorizationError \/ UpstreamFails
             \/ UpstreamTimesOut
    PROVE  [Gate!Refuse]_(Gate!vars)
<1>1. /\ pc \in {"authenticate", "resolve", "authorize", "upstream"}
      /\ pc' = "unwind" \/ (pc = "resolve" /\ pc' = "authorize")
      /\ UNCHANGED <<now, grants, headersAt>>
  BY DEF Unauthenticated, Resolve, Deny, AuthorizationError, UpstreamFails, UpstreamTimesOut,
    Refuse, stageVars, upVars
<1>2. Verdict \in {"open", "forwarded"} /\ (pc = "resolve" => Verdict = "open") /\ headersAt = Never
  BY <1>1, VerdictAt DEF IInv, GateInv
<1>3. Checks' = Checks /\ arrival' = arrival /\ Passed' = Passed
  BY <1>1, ChecksSettled DEF Arrive, Passed
<1>4. CASE pc' = "unwind"
  <2>1. Verdict' = "refused"
    BY <1>1, <1>2, <1>4, VerdictAfter DEF IInv
  <2> QED
    BY <1>1, <1>2, <1>3, <2>1 DEF Gate!Refuse, Passed
<1>5. CASE pc = "resolve" /\ pc' = "authorize"
  <2>1. Verdict' = Verdict
    BY <1>2, <1>5, VerdictAfter DEF IInv
  <2> QED
    BY <1>1, <1>3, <2>1 DEF Gate!vars, Passed
<1> QED
  BY <1>1, <1>4, <1>5

\* What happens behind the answer, and next to the chain, the gate does not see.
LEMMA RestStutters ==
    ASSUME IInv, GateInv, IInv', GateInv', [Next]_vars,
           UpstreamHints \/ BodyChunk \/ BodyEnds \/ BodyAborts \/ TunnelEnds \/ Unwind
             \/ Disconnect \/ UNCHANGED vars
    PROVE  UNCHANGED Gate!vars
<1>1. UNCHANGED <<now, grants, headersAt>> /\ ~Arrive
  BY DEF UpstreamHints, BodyChunk, BodyEnds, BodyAborts, TunnelEnds, Unwind, Disconnect, vars,
    stageVars, upVars, reqVars, Arrive, Refuse
<1>2. Checks' = Checks /\ arrival' = arrival /\ Passed' = Passed
  BY <1>1, ChecksSettled DEF Passed
<1>3. Verdict' = Verdict
  <2>1. CASE pc' = pc
    BY <1>1, <2>1 DEF Verdict
  <2>2. CASE pc \in {"body", "tunnel", "unwind"} /\ pc' \in {"unwind", "done"}
    BY <1>1, <2>2, VerdictAt, VerdictAfter DEF IInv, GateInv
  <2>3. pc' = pc \/ (pc \in {"body", "tunnel", "unwind"} /\ pc' \in {"unwind", "done"})
    BY DEF UpstreamHints, BodyChunk, BodyEnds, BodyAborts, TunnelEnds, Unwind, Disconnect, vars
  <2> QED
    BY <2>1, <2>2, <2>3
<1> QED
  BY <1>1, <1>2, <1>3 DEF Gate!vars, Passed

LEMMA TickTicks ==
    ASSUME IInv, [Next]_vars, Tick
    PROVE  Gate!Tick
<1>1. now' = now + 1 /\ UNCHANGED <<pc, grants, headersAt, arrival, route, plan>>
  BY DEF Tick, stageVars, upVars, reqVars
<1> QED
  BY <1>1 DEF Gate!Tick, Checks, Verdict

LEMMA GateRefinesNext ==
    IInv /\ GateInv /\ IInv' /\ GateInv' /\ [Next]_vars => [Gate!Next]_(Gate!vars)
<1> SUFFICES ASSUME IInv, GateInv, IInv', GateInv', [Next]_vars
             PROVE  [Gate!Next]_(Gate!vars)
  OBVIOUS
<1>1. CASE Arrive
  BY <1>1, ArriveEnters DEF Gate!Next
<1>2. ASSUME NEW u \in Users, Authenticated(u) PROVE Gate!Next
  BY <1>2, AuthenticatedPasses DEF Gate!Next
<1>3. CASE Allow
  BY <1>3, AllowPasses DEF Gate!Next
<1>4. CASE StartRoundTrip
  BY <1>4, RoundTripForwards DEF Gate!Next
<1>5. CASE UpstreamResponds \/ UpstreamUpgrades
  BY <1>5, ResponseAnswers DEF Gate!Next
<1>6. CASE \/ Unauthenticated \/ Resolve \/ Deny \/ AuthorizationError \/ UpstreamFails
           \/ UpstreamTimesOut
  BY <1>6, RefusalRefuses DEF Gate!Next
<1>7. CASE \/ UpstreamHints \/ BodyChunk \/ BodyEnds \/ BodyAborts \/ TunnelEnds \/ Unwind
           \/ Disconnect \/ UNCHANGED vars
  BY <1>7, RestStutters
<1>8. CASE Tick
  BY <1>8, TickTicks DEF Gate!Next
<1> QED
  BY <1>1, <1>2, <1>3, <1>4, <1>5, <1>6, <1>7, <1>8 DEF Next, Handler, Finished

\* The stages are passed one by one, each once and in time; nothing is forwarded
\* before, after or twice, and an answer of the proxy's own is the last word
\* (buildRequestHandler, WithAuthentication, WithAuthorizationAttributesObserver,
\* upstreamTimeoutRoundTripper.RoundTrip implement AccessGate).
THEOREM GateTheorem == Spec => ImplementsAccessGate
BY GateInvariant, GateRefinesInit, GateRefinesNext, PTL DEF Spec, ImplementsAccessGate, Gate!Spec
=============================================================================
