------------------------ MODULE AuthorizationProofs ------------------------
(* Proofs about Authorization, for every set of configurations and requests *)
(* and whatever the webhook answers.                                        *)
EXTENDS Authorization, InductionLemmas
LOCAL INSTANCE SequencesExt

-----------------------------------------------------------------------------
(* The first entry of a list with a property.                               *)

LEMMA MinFacts ==
    ASSUME NEW T, T \subseteq Nat, T # {}
    PROVE  Min(T) \in T /\ \A y \in T : Min(T) <= y
BY LeastElement DEF Min

LEMMA OwnerFacts ==
    ASSUME NEW c \in Configs, NEW r
    PROVE  /\ Owner(c, r) \in 0 .. Len(c.endpoints)
           /\ Owner(c, r) = 0 =>
                \A i \in DOMAIN c.endpoints : ~MatchEndpoint(r.path, c.endpoints[i])
           /\ Owner(c, r) # 0 =>
                /\ MatchEndpoint(r.path, c.endpoints[Owner(c, r)])
                /\ \A j \in 1 .. Owner(c, r) - 1 : ~MatchEndpoint(r.path, c.endpoints[j])
<1> DEFINE I == {i \in 1 .. Len(c.endpoints) : MatchEndpoint(r.path, c.endpoints[i])}
<1>1. c.endpoints \in Seq(ToSet(c.endpoints))
  BY WorkloadAssumption DEF WorkloadAssumption, IsSeq
<1>2. Len(c.endpoints) \in Nat /\ DOMAIN c.endpoints = 1 .. Len(c.endpoints)
  BY <1>1
<1>3. Owner(c, r) = IF I # {} THEN Min(I) ELSE 0
  BY DEF Owner, SelectInSeq
<1>4. I \subseteq Nat
  BY <1>2
<1>5. CASE I = {}
  BY <1>2, <1>3, <1>5
<1>6. CASE I # {}
  <2>1. Min(I) \in I /\ \A y \in I : Min(I) <= y
    BY <1>4, <1>6, MinFacts
  <2>2. Owner(c, r) = Min(I)
    BY <1>3, <1>6
  <2>3. \A j \in 1 .. Min(I) - 1 : j \notin I /\ j \in 1 .. Len(c.endpoints)
    BY <1>2, <2>1
  <2> QED
    BY <1>2, <2>1, <2>2, <2>3
<1> QED
  BY <1>5, <1>6

\* An endpoint before which nothing matches is the owner.
LEMMA OwnerIsFirst ==
    ASSUME NEW c \in Configs, NEW r, NEW i \in DOMAIN c.endpoints,
           MatchEndpoint(r.path, c.endpoints[i]),
           \A j \in 1 .. i - 1 : ~MatchEndpoint(r.path, c.endpoints[j])
    PROVE  Owner(c, r) = i
<1>1. c.endpoints \in Seq(ToSet(c.endpoints))
  BY WorkloadAssumption DEF WorkloadAssumption, IsSeq
<1>2. Len(c.endpoints) \in Nat /\ i \in 1 .. Len(c.endpoints)
  BY <1>1
<1>3. Owner(c, r) \in 1 .. Len(c.endpoints)
  BY <1>2, OwnerFacts
<1>4. ~(Owner(c, r) < i)
  BY <1>2, <1>3, OwnerFacts
<1>5. ~(i < Owner(c, r))
  BY <1>2, <1>3, OwnerFacts
<1> QED
  BY <1>2, <1>3, <1>4, <1>5

\* The attributes depend on the owner alone.
LEMMA OwnerDecides ==
    ASSUME NEW c \in Configs, NEW d \in Configs, NEW r, Owner(c, r) # 0,
           d.endpoints = <<c.endpoints[Owner(c, r)]>>
    PROVE  /\ GetRequestAttributes(c, r).matched
           /\ GetRequestAttributes(d, r) = GetRequestAttributes(c, r)
<1> DEFINE endpoint == c.endpoints[Owner(c, r)]
<1>1. MatchEndpoint(r.path, endpoint)
  BY OwnerFacts
<1>2. 1 \in DOMAIN d.endpoints /\ d.endpoints[1] = endpoint
  OBVIOUS
<1>3. Owner(d, r) = 1
  BY <1>1, <1>2, OwnerIsFirst
<1>4. EndpointAttributesFromRequest(d, r) = EndpointAttributesFromRequest(c, r)
  BY <1>2, <1>3 DEF EndpointAttributesFromRequest
<1>5. EndpointAttributesFromRequest(c, r).matched
  BY DEF EndpointAttributesFromRequest, AttributesFromEndpointResourceRules, Outcome
<1> QED
  BY <1>3, <1>4, <1>5 DEF GetRequestAttributes

-----------------------------------------------------------------------------
(* Paths.                                                                   *)

Segments(path) == ToSet(path) \ {NoValue, ".", ".."}

\* A step keeps a sequence of segments.
LEMMA StepType ==
    ASSUME NEW path, NEW kept \in Seq(Segments(path)), NEW segment \in ToSet(path)
    PROVE  Step(kept, segment) \in Seq(Segments(path))
<1> USE ValuesAssumption DEF ValuesAssumption
<1>1. CASE segment \in {NoValue, "."}
  BY <1>1 DEF Step
<1>2. CASE segment = ".." /\ segment \notin {NoValue, "."}
  <2>1. Step(kept, segment) = IF kept = <<>> THEN <<>> ELSE SubSeq(kept, 1, Len(kept) - 1)
    BY <1>2 DEF Step, Front
  <2>2. CASE kept = <<>>
    BY <2>1, <2>2
  <2>3. CASE kept # <<>>
    <3>1. Len(kept) \in Nat \ {0}
      BY <2>3
    <3>2. SubSeq(kept, 1, Len(kept) - 1) \in Seq(Segments(path))
      BY <3>1
    <3> QED
      BY <2>1, <2>3, <3>2
  <2> QED
    BY <2>2, <2>3
<1>3. CASE segment \notin {NoValue, ".", ".."}
  <2>1. segment \in Segments(path) /\ Step(kept, segment) = Append(kept, segment)
    BY <1>3 DEF Step, Segments
  <2> QED
    BY <2>1
<1> QED
  BY <1>1, <1>2, <1>3

\* What is left of a path are segments of it, none of them empty, "." or "..".
LEMMA KeptType ==
    ASSUME NEW path, IsSeq(path)
    PROVE  Kept(path) \in Seq(Segments(path))
<1> DEFINE N == Len(path)
           A == Seq(Segments(path))
           step == [p \in (1 .. N) \X A |-> Step(p[2], path[p[1]])]
           Body(g) == [n \in 0 .. N |-> IF n = 0 THEN <<>> ELSE Step(g[n - 1], path[n])]
           kept == CHOOSE g : g = Body(g)
<1>1. N \in Nat /\ \A n \in 1 .. N : path[n] \in ToSet(path)
  BY DEF IsSeq
<1>2. <<>> \in A
  OBVIOUS
<1>3. step \in Steps(N, A)
  <2>1. \A n \in 1 .. N, k \in A : Step(k, path[n]) \in A
    BY <1>1, StepType
  <2> HIDE DEF A, N
  <2> QED
    BY <2>1 DEF Steps
<1>4. PICK g : Recursion(N, A, <<>>, step, g)
  <2> HIDE DEF A, N, step
  <2> QED
    BY <1>1, <1>2, <1>3, RecursionExists
<1>5. g = Body(g)
  <2>1. ASSUME NEW n \in 1 .. N
        PROVE  step[<<n, g[n - 1]>>] = Step(g[n - 1], path[n])
    <3> HIDE DEF A, N
    <3>1. n - 1 \in 0 .. N
      BY <1>1
    <3>2. <<n, g[n - 1]>> \in (1 .. N) \X A
      BY <1>4, <3>1 DEF Recursion
    <3> QED
      BY <3>2
  <2>2. \A n \in 1 .. N : g[n] = Step(g[n - 1], path[n])
    BY <1>4, <2>1 DEF Recursion
  <2> HIDE DEF step, A, N
  <2> QED
    BY <1>1, <1>4, <2>2 DEF Recursion
<1>6. kept = Body(kept)
  <2> HIDE DEF Body
  <2> QED
    BY <1>5
<1>7. \A n \in 0 .. N : kept[n] \in A
  <2> DEFINE S == {n \in 0 .. N : kept[n] \in A}
  <2> HIDE DEF kept
  <2>1. 0 \in S
    BY <1>1, <1>2, <1>6
  <2>2. ASSUME NEW n \in 0 .. N - 1, n \in S
        PROVE  n + 1 \in S
    <3>1. n + 1 \in 1 .. N /\ (n + 1) - 1 = n
      BY <1>1
    <3>2. kept[n + 1] = Step(kept[n], path[n + 1])
      BY <1>6, <3>1
    <3>3. Step(kept[n], path[n + 1]) \in A
      BY <1>1, <2>2, <3>1, StepType
    <3> QED
      BY <3>1, <3>2, <3>3
  <2>3. \A n \in 0 .. N : n \in S
    <3> HIDE DEF S, N
    <3> QED
      BY <1>1, <2>1, <2>2, UpTo
  <2> QED
    BY <2>3
<1>8. Kept(path) = kept[N]
  BY DEF Kept
<1> QED
  BY <1>1, <1>7, <1>8

\* A cleaned path is the root, or segments of the path behind an empty one.
LEMMA CleanFacts ==
    ASSUME NEW path, IsSeq(path)
    PROVE  /\ Clean(path) \in Seq(Segments(path) \cup {NoValue})
           /\ DOMAIN Clean(path) = 1 .. Len(Clean(path))
           /\ Clean(path)[1] = NoValue
           /\ Clean(path) = <<NoValue, NoValue>>
                \/ \A i \in 2 .. Len(Clean(path)) : Clean(path)[i] \in Segments(path)
<1> DEFINE kept == Kept(path)
<1>1. kept \in Seq(Segments(path))
  BY KeptType
<1>2. CASE kept = <<>>
  <2>2. Clean(path) = <<NoValue, NoValue>>
    BY <1>2 DEF Clean
  <2>3. <<NoValue, NoValue>> \in Seq(Segments(path) \cup {NoValue})
    OBVIOUS
  <2> QED
    BY <2>2, <2>3
<1>3. CASE kept # <<>>
  <2> HIDE DEF kept
  <2>1. Clean(path) = <<NoValue>> \o kept
    BY <1>3 DEF Clean, kept
  <2>2. <<NoValue>> \in Seq({NoValue} \cup Segments(path))
        /\ kept \in Seq(Segments(path) \cup {NoValue})
        /\ Len(kept) \in Nat /\ Len(<<NoValue>>) = 1 /\ <<NoValue>>[1] = NoValue
        /\ \A i \in 1 .. Len(kept) : kept[i] \in Segments(path)
    BY <1>1
  <2>3. <<NoValue>> \o kept \in Seq(Segments(path) \cup {NoValue})
        /\ Len(<<NoValue>> \o kept) = 1 + Len(kept)
    BY <2>2
  <2>4. /\ (<<NoValue>> \o kept)[1] = NoValue
        /\ \A i \in 2 .. 1 + Len(kept) : (<<NoValue>> \o kept)[i] = kept[i - 1]
    BY <2>2
  <2>5. \A i \in 2 .. 1 + Len(kept) : i - 1 \in 1 .. Len(kept)
    BY <2>2
  <2>6. \A i \in 2 .. 1 + Len(kept) : (<<NoValue>> \o kept)[i] \in Segments(path)
    BY <2>2, <2>4, <2>5
  <2> QED
    BY <2>1, <2>3, <2>4, <2>6
<1> QED
  BY <1>2, <1>3

\* A capture is the segment at its place, as its name is used once.
LEMMA CapturedSegment ==
    ASSUME NEW path, NEW endpoint, ValidCaptures(endpoint.path), NEW i \in DOMAIN endpoint.path,
           endpoint.path[i].kind = "capture"
    PROVE  /\ endpoint.path[i].text \in CaptureNames(endpoint)
           /\ ExtractPathCaptures(path, endpoint)[endpoint.path[i].text] = Clean(path)[i]
<1> DEFINE n == endpoint.path[i].text
           Here(j) == endpoint.path[j].kind = "capture" /\ endpoint.path[j].text = n
           chosen == CHOOSE j \in DOMAIN endpoint.path : Here(j)
<1>1. n \in CaptureNames(endpoint)
  BY DEF CaptureNames, ToSet
<1>2. chosen \in DOMAIN endpoint.path /\ Here(chosen)
  <2>1. Here(i)
    OBVIOUS
  <2> HIDE DEF Here
  <2> QED
    BY <2>1
<1>3. chosen = i
  BY <1>2 DEF ValidCaptures
<1>4. ExtractPathCaptures(path, endpoint)[n] = Clean(path)[chosen]
  BY <1>1 DEF ExtractPathCaptures
<1> HIDE DEF n, chosen
<1> QED
  BY <1>1, <1>3, <1>4 DEF n

\* Every capture name has a place in a path that matches.
LEMMA CaptureHasPlace ==
    ASSUME NEW path, NEW endpoint, IsSeq(path), IsSeq(endpoint.path),
           ValidCaptures(endpoint.path), MatchEndpoint(path, endpoint),
           NEW n \in CaptureNames(endpoint)
    PROVE  \E i \in 1 .. Len(Clean(path)) :
                ExtractPathCaptures(path, endpoint)[n] = Clean(path)[i]
<1>1. PICK i \in DOMAIN endpoint.path :
        endpoint.path[i].kind = "capture" /\ endpoint.path[i].text = n
  BY DEF CaptureNames, ToSet
<1>2. ExtractPathCaptures(path, endpoint)[n] = Clean(path)[i]
  BY <1>1, CapturedSegment
<1>3. DOMAIN endpoint.path = 1 .. Len(Clean(path)) /\ Len(endpoint.path) \in Nat
  BY DEF MatchEndpoint, IsSeq
<1> QED
  BY <1>2, <1>3, CleanFacts

-----------------------------------------------------------------------------
(* The list of a request is not empty, and Format1 leaves no value out.     *)

IsList(list) == \E n \in Nat \ {0} : DOMAIN list = 1 .. n /\ Len(list) = n

\* The mapping that is chosen has rules.
LEMMA EndpointList ==
    ASSUME NEW c \in Configs, ValidConfig(c), NEW r, Owner(c, r) # 0,
           EndpointAttributesFromRequest(c, r).outcome = "list"
    PROVE  IsList(EndpointAttributesFromRequest(c, r).list)
<1> DEFINE endpoint == c.endpoints[Owner(c, r)]
           I == {i \in 1 .. Len(endpoint.mappings) : Lower(r.method) \in endpoint.mappings[i].methods}
           k == IF I # {} THEN Min(I) ELSE 0
           rules == endpoint.mappings[k].rules
           plain == AttributesFromEndpointResourceRules(r, rules, ExtractPathCaptures(r.path, endpoint))
<1>1. c.endpoints \in Seq(ToSet(c.endpoints))
  BY WorkloadAssumption DEF WorkloadAssumption, IsSeq
<1>2. endpoint \in ToSet(c.endpoints)
  BY <1>1, OwnerFacts DEF ToSet
<1>3. endpoint.mappings \in Seq(ToSet(endpoint.mappings)) /\ ValidEndpoint(endpoint)
  BY <1>2, WorkloadAssumption DEF WorkloadAssumption, IsSeq, ValidConfig
<1>4. EndpointAttributesFromRequest(c, r) =
        IF k = 0 THEN Outcome(TRUE, "methodNotAllowed", <<>>) ELSE plain
  BY DEF EndpointAttributesFromRequest, SelectInSeq
<1>a. k = IF I # {} THEN Min(I) ELSE 0
  OBVIOUS
<1>b. I \subseteq 1 .. Len(endpoint.mappings) /\ I \subseteq Nat
  BY <1>3
<1> HIDE DEF k, I, plain
<1>5. k # 0 /\ EndpointAttributesFromRequest(c, r) = plain
  <2>1. ASSUME k = 0
        PROVE  FALSE
    <3>1. EndpointAttributesFromRequest(c, r) = Outcome(TRUE, "methodNotAllowed", <<>>)
      BY <1>4, <2>1
    <3> QED
      BY <3>1 DEF Outcome
  <2> QED
    BY <1>4, <2>1
<1>6. k \in 1 .. Len(endpoint.mappings)
  BY <1>a, <1>b, <1>5, MinFacts
<1>7. endpoint.mappings[k] \in ToSet(endpoint.mappings)
  BY <1>3, <1>6 DEF ToSet
<1>8. rules \in Seq(ToSet(rules)) /\ rules # <<>>
  BY <1>2, <1>3, <1>7, WorkloadAssumption
  DEF WorkloadAssumption, IsSeq, ValidEndpoint, ValidMapping
<1> HIDE DEF rules
<1> USE DEF plain
<1>9. plain.list = [j \in DOMAIN rules |-> RuleAttributes(rules[j], r, ExtractPathCaptures(r.path, endpoint))]
  BY <1>5 DEF AttributesFromEndpointResourceRules, Outcome
<1>10. Len(rules) \in Nat \ {0} /\ DOMAIN rules = 1 .. Len(rules)
  BY <1>8
<1>11. DOMAIN plain.list = 1 .. Len(rules) /\ Len(plain.list) = Len(rules)
  BY <1>9, <1>10
<1> QED
  BY <1>5, <1>10, <1>11 DEF IsList

\* The parameters are those of the query and of the header together.
LEMMA ParamsFacts ==
    ASSUME NEW r \in Requests, NEW rewrites
    PROVE  LET params == CollectRewriteParams(rewrites, r)
           IN  /\ Len(params) \in Nat /\ DOMAIN params = 1 .. Len(params)
               /\ (params = <<>>) <=> (Len(params) = 0)
               /\ {params[k] : k \in DOMAIN params} =
                     (IF rewrites.query = "named" THEN ToSet(r.query) ELSE {})
                     \cup (IF rewrites.header = "named" THEN ToSet(r.header) ELSE {})
<1> DEFINE q == IF rewrites.query = "named" THEN r.query ELSE <<>>
           h == IF rewrites.header = "named" THEN r.header ELSE <<>>
           all == ToSet(r.query) \cup ToSet(r.header)
<1>1. r.query \in Seq(ToSet(r.query)) /\ r.header \in Seq(ToSet(r.header))
  BY WorkloadAssumption DEF WorkloadAssumption, IsSeq
<1>2. q \in Seq(all) /\ h \in Seq(all)
  BY <1>1
<1>3. CollectRewriteParams(rewrites, r) = q \o h
  BY DEF CollectRewriteParams
<1>4. /\ {q[k] : k \in DOMAIN q} = IF rewrites.query = "named" THEN ToSet(r.query) ELSE {}
      /\ {h[k] : k \in DOMAIN h} = IF rewrites.header = "named" THEN ToSet(r.header) ELSE {}
  BY DEF ToSet
<1> HIDE DEF q, h
<1>5. Len(q) \in Nat /\ Len(h) \in Nat /\ q \o h \in Seq(all) /\ Len(q \o h) = Len(q) + Len(h)
  BY <1>2
<1>6. /\ \A k \in DOMAIN q : k \in DOMAIN (q \o h) /\ (q \o h)[k] = q[k]
      /\ \A k \in DOMAIN h : Len(q) + k \in DOMAIN (q \o h) /\ (q \o h)[Len(q) + k] = h[k]
      /\ \A k \in DOMAIN (q \o h) :
            k \in DOMAIN q \/ (k - Len(q) \in DOMAIN h /\ (q \o h)[k] = h[k - Len(q)])
  BY <1>2, <1>5
<1>7. {(q \o h)[k] : k \in DOMAIN (q \o h)} = {q[k] : k \in DOMAIN q} \cup {h[k] : k \in DOMAIN h}
  BY <1>6
<1>8. DOMAIN (q \o h) = 1 .. Len(q \o h) /\ (q \o h = <<>> <=> Len(q \o h) = 0)
  BY <1>5
<1> DEFINE params == CollectRewriteParams(rewrites, r)
<1>9. Len(params) \in Nat /\ DOMAIN params = 1 .. Len(params) /\ (params = <<>> <=> Len(params) = 0)
  BY <1>3, <1>5, <1>8
<1>10. {params[k] : k \in DOMAIN params} =
          (IF rewrites.query = "named" THEN ToSet(r.query) ELSE {})
          \cup (IF rewrites.header = "named" THEN ToSet(r.header) ELSE {})
  BY <1>3, <1>4, <1>7, Zenon
<1> HIDE DEF params
<1> QED
  BY <1>9, <1>10 DEF params

\* Every value of the query and of the header is in some record.
Complete(list, c, r) ==
    \A f \in {"namespace", "name"} :
        c.format1.fields[f].kind = "value" =>
            {list[k][f] : k \in DOMAIN list} =
                (IF c.format1.rewrites.query = "named" THEN ToSet(r.query) ELSE {})
                \cup (IF c.format1.rewrites.header = "named" THEN ToSet(r.header) ELSE {})

LEMMA Format1List ==
    ASSUME NEW c \in Configs, NEW r \in Requests, Format1Attributes(c, r).outcome = "list"
    PROVE  /\ ~Format1Attributes(c, r).matched
           /\ IsList(Format1Attributes(c, r).list)
           /\ c.format1.given /\ c.format1.rewrites.given =>
                Complete(Format1Attributes(c, r).list, c, r)
<1> DEFINE p == Format1Attributes(c, r)
           params == CollectRewriteParams(c.format1.rewrites, r)
           fields == c.format1.fields
           verb == IF c.format1.given /\ fields.verb.text # NoValue
                   THEN fields.verb.text ELSE Format1Verb(r.method)
           rewritten == [k \in DOMAIN params |->
                            ResourceRecord(r, verb, Expand(fields["namespace"], params[k], <<>>),
                                           Expand(fields["name"], params[k], <<>>))]
<1>1. CASE ~(c.format1.given /\ c.format1.rewrites.given)
  <2>1. PICK a : p = Outcome(FALSE, "list", <<a>>)
    <3>1. CASE ~c.format1.given
      BY <3>1 DEF Format1Attributes
    <3>2. CASE c.format1.given /\ ~c.format1.rewrites.given
      BY <3>2 DEF Format1Attributes
    <3> QED
      BY <1>1, <3>1, <3>2
  <2>2. ~p.matched /\ p.list = <<a>>
    BY <2>1 DEF Outcome
  <2> HIDE DEF p
  <2>3. DOMAIN p.list = 1 .. 1 /\ Len(p.list) = 1
    BY <2>2
  <2> QED
    BY <1>1, <2>2, <2>3 DEF IsList, p
<1>2. CASE c.format1.given /\ c.format1.rewrites.given
  <2>1. p = IF params = <<>> THEN Outcome(FALSE, "empty", <<>>)
            ELSE IF \E f \in {"namespace", "name"} : fields[f].kind = "broken"
            THEN Outcome(FALSE, "panic", <<>>)
            ELSE Outcome(FALSE, "list", rewritten)
    BY <1>2 DEF Format1Attributes
  <2> HIDE DEF p, rewritten, params
  <2>2. params # <<>> /\ p = Outcome(FALSE, "list", rewritten)
    <3>1. p.outcome = "list"
      BY DEF p
    <3>2. /\ Outcome(FALSE, "empty", <<>>).outcome # "list"
          /\ Outcome(FALSE, "panic", <<>>).outcome # "list"
      BY DEF Outcome
    <3> QED
      BY <2>1, <3>1, <3>2
  <2>3. ~p.matched /\ p.list = rewritten
    BY <2>2 DEF Outcome
  <2>4. /\ Len(params) \in Nat \ {0} /\ DOMAIN params = 1 .. Len(params)
    BY <2>2, ParamsFacts DEF params
  <2>5. DOMAIN rewritten = 1 .. Len(params) /\ Len(rewritten) = Len(params)
    BY <2>4 DEF rewritten
  <2>6. Complete(rewritten, c, r)
    <3> SUFFICES ASSUME NEW f \in {"namespace", "name"}, fields[f].kind = "value"
                 PROVE  {rewritten[k][f] : k \in DOMAIN rewritten} =
                            {params[k] : k \in DOMAIN params}
      BY ParamsFacts DEF Complete, params
    <3>1. \A k \in DOMAIN params : rewritten[k][f] = params[k]
      <4>1. CASE f = "namespace"
        BY <4>1 DEF rewritten, ResourceRecord, Expand
      <4>2. CASE f = "name"
        BY <4>2 DEF rewritten, ResourceRecord, Expand
      <4> QED
        BY <4>1, <4>2
    <3>2. DOMAIN rewritten = DOMAIN params
      BY DEF rewritten
    <3> QED
      BY <3>1, <3>2
  <2> QED
    BY <2>3, <2>4, <2>5, <2>6 DEF IsList, p
<1> QED
  BY <1>1, <1>2

-----------------------------------------------------------------------------
(* The invariant.                                                           *)

Granted1(k) ==
    \/ LocallyAllowed(config, plan.list[k])
    \/ [attributes |-> plan.list[k], answer |-> "allow"] \in asked

StartInv ==
    stage \in {"load", "refused", "ready"} =>
        request = NoRequest /\ response = "none" /\ next = 1 /\ asked = {}

PlanInv ==
    /\ config \in Configs
    /\ stage = "ready" => ValidConfig(config)
    /\ stage \notin {"load", "refused", "ready"} =>
        /\ ValidConfig(config)
        /\ request \in Workload[config]
        /\ plan = GetRequestAttributes(config, request)

LoopInv ==
    /\ stage = "authorize" =>
        /\ plan.outcome = "list" /\ response = "none"
        /\ next \in DOMAIN plan.list
        /\ \A k \in 1 .. next - 1 : Granted1(k)
    /\ \A q \in asked : ~LocallyAllowed(config, q.attributes)
    /\ response = "forwarded" =>
        /\ stage = "answered" /\ plan.outcome = "list"
        /\ \A k \in DOMAIN plan.list : Granted1(k)
    /\ response = "error" => \E k \in DOMAIN plan.list : ~LocallyAllowed(config, plan.list[k])

IInv == StartInv /\ PlanInv /\ LoopInv

LEMMA PlanList ==
    ASSUME NEW c \in Configs, NEW r \in Workload[c], ValidConfig(c),
           GetRequestAttributes(c, r).outcome = "list"
    PROVE  /\ IsList(GetRequestAttributes(c, r).list)
           /\ (~GetRequestAttributes(c, r).matched /\ c.format1.given /\ c.format1.rewrites.given) =>
                Complete(GetRequestAttributes(c, r).list, c, r)
<1>1. r \in Requests
  BY DEF Requests
<1>2. CASE Owner(c, r) # 0
  <2>1. EndpointAttributesFromRequest(c, r).matched
    BY DEF EndpointAttributesFromRequest, AttributesFromEndpointResourceRules, Outcome
  <2> QED
    BY <1>2, <2>1, EndpointList DEF GetRequestAttributes
<1>3. CASE Owner(c, r) = 0
  BY <1>1, <1>3, Format1List DEF GetRequestAttributes
<1> QED
  BY <1>2, <1>3

LEMMA InitInv == Init => IInv
BY DEF Init, IInv, StartInv, PlanInv, LoopInv

\* A record that is granted is one more of the list, or the last one.
LEMMA GrantedInv ==
    ASSUME IInv, stage = "authorize", Granted,
           \/ LocallyAllowed(config, plan.list[next])
           \/ [attributes |-> plan.list[next], answer |-> "allow"] \in asked',
           asked \subseteq asked',
           \A q \in asked' : ~LocallyAllowed(config, q.attributes),
           UNCHANGED <<config, request, plan>>
    PROVE  IInv'
<1> DEFINE list == plan.list
<1>1. /\ ValidConfig(config) /\ request \in Workload[config] /\ config \in Configs
      /\ plan = GetRequestAttributes(config, request)
      /\ plan.outcome = "list" /\ response = "none" /\ next \in DOMAIN list
      /\ \A k \in 1 .. next - 1 : Granted1(k)
  BY DEF IInv, PlanInv, LoopInv
<1>2. PICK n \in Nat \ {0} : DOMAIN list = 1 .. n /\ Len(list) = n
  BY <1>1, PlanList DEF IsList
<1>3. \A k : Granted1(k) => Granted1(k)'
  BY DEF Granted1
<1>8. \A k : k = next => Granted1(k)'
  BY DEF Granted1
<1> HIDE DEF list
<1>4. \A k \in 1 .. next : Granted1(k)'
  BY <1>1, <1>2, <1>3, <1>8
<1>5. list' = list
  BY DEF list
<1>6. CASE next < Len(list)
  <2>1. next' = next + 1 /\ stage' = "authorize" /\ response' = "none"
    BY <1>1, <1>6 DEF Granted, list
  <2>2. next' \in DOMAIN list /\ next' - 1 = next
    BY <1>1, <1>2, <1>6, <2>1
  <2>3. StartInv' /\ PlanInv'
    BY <1>1, <2>1 DEF StartInv, PlanInv
  <2>4. LoopInv'
    BY <1>1, <1>4, <1>5, <2>1, <2>2 DEF LoopInv, list
  <2> QED
    BY <2>3, <2>4 DEF IInv
<1>7. CASE ~(next < Len(list))
  <2>1. response' = "forwarded" /\ stage' = "answered" /\ next' = next
    BY <1>7 DEF Granted, Answer, list
  <2>2. \A k \in DOMAIN list : k \in 1 .. next
    BY <1>1, <1>2, <1>7
  <2>3. StartInv' /\ PlanInv'
    BY <1>1, <2>1 DEF StartInv, PlanInv
  <2>4. LoopInv'
    BY <1>1, <1>4, <1>5, <2>1, <2>2 DEF LoopInv, list
  <2> QED
    BY <2>3, <2>4 DEF IInv
<1> QED
  BY <1>6, <1>7

LEMMA NextInv == IInv /\ [Next]_vars => IInv'
<1> SUFFICES ASSUME IInv, [Next]_vars
             PROVE  IInv'
  OBVIOUS
<1>1. CASE Load
  <2>1. stage = "load" /\ stage' \in {"ready", "refused"} /\ (stage' = "ready" => ValidConfig(config))
    BY <1>1 DEF Load
  <2>2. StartInv' /\ PlanInv'
    BY <1>1, <2>1 DEF IInv, StartInv, PlanInv, Load
  <2>3. LoopInv'
    BY <1>1, <2>1 DEF IInv, StartInv, LoopInv, Load
  <2> QED
    BY <2>2, <2>3 DEF IInv
<1>2. CASE Resolve
  <2>1. /\ stage = "ready" /\ response = "none" /\ next = 1 /\ asked = {}
        /\ ValidConfig(config) /\ config \in Configs
        /\ UNCHANGED <<config, next, asked>>
    BY <1>2 DEF Resolve, IInv, StartInv, PlanInv
  <2>2. request' \in Workload[config] /\ plan' = GetRequestAttributes(config, request')
    BY <1>2 DEF Resolve
  <2>3. \/ plan'.outcome = "list" /\ stage' = "authorize" /\ response' = "none"
        \/ stage' = "answered" /\ response' \in {"forbidden", "panic", "badRequest"}
    BY <1>2, <2>1 DEF Resolve, Answer
  <2>4. StartInv' /\ PlanInv'
    BY <2>1, <2>2, <2>3 DEF StartInv, PlanInv
  <2>5. stage' = "authorize" => next' \in DOMAIN plan'.list
    BY <2>1, <2>2, <2>3, PlanList DEF IsList
  <2>6. LoopInv'
    BY <2>1, <2>3, <2>5 DEF LoopInv
  <2> QED
    BY <2>4, <2>6 DEF IInv
<1>3. CASE AuthorizeLocally
  <2>1. /\ stage = "authorize" /\ Granted /\ LocallyAllowed(config, plan.list[next])
        /\ UNCHANGED <<config, request, plan, asked>>
    BY <1>3 DEF AuthorizeLocally, DecidedLocally
  <2>2. \A q \in asked' : ~LocallyAllowed(config, q.attributes)
    BY <2>1 DEF IInv, LoopInv
  <2> QED
    BY <2>1, <2>2, GrantedInv
<1>4. ASSUME NEW answer \in Answers, AskWebhook(answer)
      PROVE  IInv'
  <2>1. /\ stage = "authorize" /\ ~LocallyAllowed(config, plan.list[next])
        /\ asked' = asked \cup {[attributes |-> plan.list[next], answer |-> answer]}
        /\ UNCHANGED <<config, request, plan>>
    BY <1>4 DEF AskWebhook, DecidedLocally
  <2>2. asked \subseteq asked' /\ \A q \in asked' : ~LocallyAllowed(config, q.attributes)
    BY <2>1 DEF IInv, LoopInv
  <2>3. CASE answer = "allow" /\ Granted
    <3>1. [attributes |-> plan.list[next], answer |-> "allow"] \in asked'
      BY <2>1, <2>3
    <3> QED
      BY <2>1, <2>2, <2>3, <3>1, GrantedInv
  <2>4. CASE /\ response' = IF answer = "error" THEN "error" ELSE "forbidden"
             /\ stage' = "answered"
    <3>1. StartInv' /\ PlanInv'
      BY <2>1, <2>4 DEF IInv, StartInv, PlanInv
    <3>2. next \in DOMAIN plan.list
      BY <2>1 DEF IInv, LoopInv
    <3>3. LoopInv'
      BY <2>1, <2>2, <2>4, <3>2 DEF LoopInv
    <3> QED
      BY <3>1, <3>3 DEF IInv
  <2> QED
    BY <1>4, <2>3, <2>4 DEF AskWebhook, Granting, Answer
<1>5. CASE UNCHANGED vars
  BY <1>5 DEF vars, IInv, StartInv, PlanInv, LoopInv, Granted1
<1>6. CASE Finished
  BY <1>5, <1>6 DEF Finished
<1> QED
  BY <1>1, <1>2, <1>3, <1>4, <1>5, <1>6 DEF Next

\* The invariant holds in every state (Complete, WithAuthorizationAttributesObserver).
THEOREM Invariance == Spec => []IInv
BY InitInv, NextInv, PTL DEF Spec

-----------------------------------------------------------------------------
(* What follows from it.                                                    *)

\* The first endpoint with the path owns the request, whatever follows it and
\* whatever Format1 says (EndpointAttributesFromRequest).
THEOREM OwnerTheorem == Spec => []FirstEndpointOwnsTheRequest
<1>1. IInv => FirstEndpointOwnsTheRequest
  <2> SUFFICES ASSUME IInv, Served, NEW i \in DOMAIN config.endpoints,
                      MatchEndpoint(request.path, config.endpoints[i]),
                      \A j \in 1 .. i - 1 : ~MatchEndpoint(request.path, config.endpoints[j])
               PROVE  /\ plan.matched
                      /\ \A c \in Configs :
                            c.endpoints = <<config.endpoints[i]>>
                                => plan = GetRequestAttributes(c, request)
    BY DEF FirstEndpointOwnsTheRequest
  <2>1. config \in Configs /\ plan = GetRequestAttributes(config, request)
    BY DEF IInv, StartInv, PlanInv, Served
  <2>2. Owner(config, request) = i
    BY <2>1, OwnerIsFirst
  <2>3. Owner(config, request) # 0
    <3>1. config.endpoints \in Seq(ToSet(config.endpoints))
      BY <2>1, WorkloadAssumption DEF WorkloadAssumption, IsSeq
    <3> QED
      BY <2>2, <3>1
  <2>4. plan.matched
    BY <2>1, <2>3 DEF GetRequestAttributes, EndpointAttributesFromRequest,
                      AttributesFromEndpointResourceRules, Outcome
  <2>5. ASSUME NEW c \in Configs, c.endpoints = <<config.endpoints[i]>>
        PROVE  plan = GetRequestAttributes(c, request)
    BY <2>1, <2>2, <2>3, <2>5, OwnerDecides
  <2> QED
    BY <2>4, <2>5
<1> QED
  BY <1>1, Invariance, PTL

\* What is forwarded was granted record by record, and no rewrite value was
\* left out (CollectRewriteParams, WithAuthorizationAttributesObserver).
THEOREM GrantTheorem == Spec => []ForwardedMeansFullyGranted
<1>1. IInv => ForwardedMeansFullyGranted
  <2> SUFFICES ASSUME IInv, response = "forwarded"
               PROVE  ForwardedMeansFullyGranted
    BY DEF ForwardedMeansFullyGranted
  <2>1. /\ config \in Configs /\ ValidConfig(config) /\ request \in Workload[config]
        /\ plan = GetRequestAttributes(config, request) /\ plan.outcome = "list"
        /\ \A k \in DOMAIN plan.list : Granted1(k)
    BY DEF IInv, PlanInv, LoopInv
  <2>2. /\ IsList(plan.list)
        /\ (~plan.matched /\ config.format1.given /\ config.format1.rewrites.given) =>
                Complete(plan.list, config, request)
    BY <2>1, PlanList
  <2>3. plan.list # <<>>
    BY <2>2 DEF IsList
  <2> QED
    BY <2>1, <2>2, <2>3 DEF ForwardedMeansFullyGranted, Granted1, Complete
<1> QED
  BY <1>1, Invariance, PTL

\* What the proxy decides on its own is never put to the webhook
\* (staticAuthorizer, union).
THEOREM LocalTheorem == Spec => []LocalGrantsNeedNoWebhook
<1>1. IInv => LocalGrantsNeedNoWebhook
  BY DEF IInv, LoopInv, LocalGrantsNeedNoWebhook
<1> QED
  BY <1>1, Invariance, PTL

-----------------------------------------------------------------------------
(* What the captures are.                                                  *)

\* What is captured is a segment of the path that was sent, never "." or "..";
\* it is empty only for the root, or where the pattern does not begin with a
\* slash.
CapturesAreSegments ==
    (Served /\ Owner(config, request) # 0) =>
        LET endpoint == config.endpoints[Owner(config, request)]
            params == ExtractPathCaptures(request.path, endpoint)
        IN  \A i \in DOMAIN endpoint.path :
                endpoint.path[i].kind = "capture" =>
                    /\ params[endpoint.path[i].text] \in Segments(request.path) \cup {NoValue}
                    /\ (i # 1 /\ Clean(request.path) # <<NoValue, NoValue>>) =>
                            params[endpoint.path[i].text] \in Segments(request.path)

\* The owner of a request is an endpoint of the configuration that was loaded.
LEMMA ServedOwner ==
    ASSUME IInv, Served, Owner(config, request) # 0
    PROVE  LET endpoint == config.endpoints[Owner(config, request)]
           IN  /\ IsSeq(request.path) /\ IsSeq(endpoint.path)
               /\ ValidEndpoint(endpoint) /\ MatchEndpoint(request.path, endpoint)
<1> DEFINE endpoint == config.endpoints[Owner(config, request)]
<1>1. config \in Configs /\ ValidConfig(config) /\ request \in Workload[config]
  BY DEF IInv, StartInv, PlanInv, Served
<1>2. config.endpoints \in Seq(ToSet(config.endpoints))
  BY <1>1, WorkloadAssumption DEF WorkloadAssumption, IsSeq
<1>3. endpoint \in ToSet(config.endpoints) /\ MatchEndpoint(request.path, endpoint)
  BY <1>1, <1>2, OwnerFacts DEF ToSet
<1>4. ValidEndpoint(endpoint) /\ IsSeq(endpoint.path)
  BY <1>1, <1>3, WorkloadAssumption DEF WorkloadAssumption, ValidConfig
<1>5. request \in Requests
  BY <1>1 DEF Requests
<1>6. IsSeq(request.path)
  BY <1>5, WorkloadAssumption DEF WorkloadAssumption
<1> QED
  BY <1>3, <1>4, <1>6

\* The templates see the path that was matched: the pattern with its captures
\* filled in is the cleaned path (matchEndpoint, extractPathCaptures).
THEOREM CaptureTheorem == Spec => []CapturesRebuildThePath
<1>1. IInv => CapturesRebuildThePath
  <2> DEFINE endpoint == config.endpoints[Owner(config, request)]
             params == ExtractPathCaptures(request.path, endpoint)
             Filled(s) == IF s.kind = "capture" THEN params[s.text] ELSE s.text
             filled == [i \in DOMAIN endpoint.path |-> Filled(endpoint.path[i])]
             clean == Clean(request.path)
  <2> SUFFICES ASSUME IInv, Served, Owner(config, request) # 0,
                      \A s \in ToSet(endpoint.path) : s.kind # "star"
               PROVE  filled = clean
    BY DEF CapturesRebuildThePath
  <2>1. /\ IsSeq(request.path) /\ IsSeq(endpoint.path)
        /\ ValidEndpoint(endpoint) /\ MatchEndpoint(request.path, endpoint)
    BY ServedOwner
  <2> HIDE DEF endpoint
  <2>2. clean \in Seq(Segments(request.path) \cup {NoValue})
    BY <2>1, CleanFacts
  <2>3. DOMAIN endpoint.path = 1 .. Len(clean)
    BY <2>1 DEF MatchEndpoint, IsSeq
  <2>4. ASSUME NEW i \in DOMAIN endpoint.path
        PROVE  filled[i] = clean[i]
    <3>1. CASE endpoint.path[i].kind = "capture"
      BY <2>1, <3>1, CapturedSegment DEF ValidEndpoint
    <3>2. CASE endpoint.path[i].kind # "capture"
      <4>1. endpoint.path[i] \in ToSet(endpoint.path)
        BY DEF ToSet
      <4>2. endpoint.path[i].kind = "literal" /\ endpoint.path[i].text = clean[i]
        BY <2>1, <3>2, <4>1 DEF MatchEndpoint
      <4> QED
        BY <3>2, <4>2
    <3> QED
      BY <3>1, <3>2
  <2>5. DOMAIN filled = DOMAIN clean
    BY <2>2, <2>3
  <2>6. clean = [i \in DOMAIN clean |-> clean[i]]
    BY <2>2
  <2> HIDE DEF filled, clean
  <2>7. filled = [i \in DOMAIN filled |-> filled[i]]
    BY DEF filled
  <2>8. \A i \in DOMAIN clean : filled[i] = clean[i]
    BY <2>4, <2>5 DEF filled
  <2> QED
    BY <2>5, <2>6, <2>7, <2>8
<1> QED
  BY <1>1, Invariance, PTL

\* No template sees "." or "..", and a capture behind a slash is empty for the
\* root only (path.Clean, extractPathCaptures).
THEOREM SegmentTheorem == Spec => []CapturesAreSegments
<1>1. IInv => CapturesAreSegments
  <2> DEFINE endpoint == config.endpoints[Owner(config, request)]
             clean == Clean(request.path)
  <2> SUFFICES ASSUME IInv, Served, Owner(config, request) # 0,
                      NEW i \in DOMAIN endpoint.path, endpoint.path[i].kind = "capture"
               PROVE  LET captured == ExtractPathCaptures(request.path, endpoint)[endpoint.path[i].text]
                      IN  /\ captured \in Segments(request.path) \cup {NoValue}
                          /\ (i # 1 /\ clean # <<NoValue, NoValue>>) =>
                                captured \in Segments(request.path)
    BY DEF CapturesAreSegments
  <2>1. /\ IsSeq(request.path) /\ IsSeq(endpoint.path)
        /\ ValidEndpoint(endpoint) /\ MatchEndpoint(request.path, endpoint)
    BY ServedOwner
  <2> HIDE DEF endpoint
  <2>2. ExtractPathCaptures(request.path, endpoint)[endpoint.path[i].text] = clean[i]
    BY <2>1, CapturedSegment DEF ValidEndpoint
  <2>3. DOMAIN endpoint.path = 1 .. Len(clean)
    BY <2>1 DEF MatchEndpoint, IsSeq
  <2>4. clean \in Seq(Segments(request.path) \cup {NoValue})
        /\ (clean = <<NoValue, NoValue>>
              \/ \A j \in 2 .. Len(clean) : clean[j] \in Segments(request.path))
    BY <2>1, CleanFacts
  <2> HIDE DEF clean
  <2>5. i \in 1 .. Len(clean) /\ Len(clean) \in Nat
    BY <2>3, <2>4
  <2>6. clean[i] \in Segments(request.path) \cup {NoValue}
    BY <2>4, <2>5
  <2>7. i # 1 => i \in 2 .. Len(clean)
    BY <2>5
  <2> QED
    BY <2>2, <2>4, <2>6, <2>7
<1> QED
  BY <1>1, Invariance, PTL
-----------------------------------------------------------------------------
(* What is planned covers what is derived.                                  *)

\* Whatever a template makes of named values is one.
LEMMA ExpandNamed ==
    ASSUME NEW template, template.text \in Named, NEW value \in Named,
           NEW params, \A n \in DOMAIN params : params[n] \in Named
    PROVE  Expand(template, value, params) \in Named
BY DEF Expand, Named

\* So are the values a request brings: those of its header and of its query, and
\* the segments of its path.
LEMMA RequestNamed ==
    ASSUME NEW r \in Requests
    PROVE  /\ \A i \in DOMAIN r.query : r.query[i] \in Named
           /\ \A i \in DOMAIN r.header : r.header[i] \in Named
           /\ FirstValue(r.query) \in Named /\ FirstValue(r.header) \in Named
           /\ Segments(r.path) \subseteq Named
<1>1. r.query \in Seq(ToSet(r.query)) /\ r.header \in Seq(ToSet(r.header))
  BY WorkloadAssumption DEF WorkloadAssumption, IsSeq
<1>2. ToSet(r.query) \subseteq Named /\ ToSet(r.header) \subseteq Named
      /\ ToSet(r.path) \subseteq Named \cup {".", ".."}
  BY ValuesAssumption DEF ValuesAssumption
<1>3. (\A i \in DOMAIN r.query : r.query[i] \in Named)
      /\ (\A i \in DOMAIN r.header : r.header[i] \in Named)
  BY <1>2 DEF ToSet
<1>4. /\ r.query # <<>> => Head(r.query) \in ToSet(r.query)
      /\ r.header # <<>> => Head(r.header) \in ToSet(r.header)
  BY <1>1
<1>5. FirstValue(r.query) \in Named /\ FirstValue(r.header) \in Named
  BY <1>2, <1>4 DEF FirstValue, Named
<1> QED
  BY <1>2, <1>3, <1>5 DEF Segments

\* The attributes of a rule, and what the pipeline is told of them.
LEMMA RecordTarget ==
    ASSUME NEW r, NEW verb, NEW namespace \in Named, NEW name \in Named
    PROVE  /\ Target(ResourceRecord(r, verb, namespace, name)) \in Attribute
           /\ Target(ResourceRecord(r, verb, namespace, name)).resource
           /\ Target(ResourceRecord(r, verb, namespace, name)).target =
                [name |-> name, namespace |-> namespace]
BY DEF Target, ResourceRecord, Attribute, Resource, Named

LEMMA RuleTarget ==
    ASSUME NEW r \in Requests, NEW rule, NEW params,
           rule.fields["namespace"].text \in Named, rule.fields["name"].text \in Named,
           \A n \in DOMAIN params : params[n] \in Named
    PROVE  /\ Target(RuleAttributes(rule, r, params)) \in Attribute
           /\ Target(RuleAttributes(rule, r, params)).resource
<1> DEFINE namespace == Expand(rule.fields["namespace"], RuleValue(rule, r), params)
           name == Expand(rule.fields["name"], RuleValue(rule, r), params)
<1>1. RuleValue(rule, r) \in Named
  BY RequestNamed DEF RuleValue, Named
<1>2. namespace \in Named /\ name \in Named
  BY <1>1, ExpandNamed
<1>3. PICK verb : RuleAttributes(rule, r, params) = ResourceRecord(r, verb, namespace, name)
  BY DEF RuleAttributes
<1> DEFINE record == ResourceRecord(r, verb, namespace, name)
<1> HIDE DEF namespace, name
<1>4. Target(record) \in Attribute /\ Target(record).resource
  BY <1>2, RecordTarget
<1> HIDE DEF record
<1>5. RuleAttributes(rule, r, params) = record
  BY <1>3 DEF record
<1> QED
  BY <1>4, <1>5, Zenon

\* A plan as the pipeline sees it.
Planned(p) == [p EXCEPT !.list = [k \in DOMAIN p.list |-> Target(p.list[k])]]

LEMMA PlannedOutcome ==
    ASSUME NEW matched \in BOOLEAN, NEW outcome, NEW list
    PROVE  Planned(Outcome(matched, outcome, list)) =
                [matched |-> matched, outcome |-> outcome,
                 list |-> [k \in DOMAIN list |-> Target(list[k])]]
BY DEF Planned, Outcome

\* Without a list only the outcome is told.
LEMMA UnlistedPlanned ==
    ASSUME NEW matched \in BOOLEAN, NEW static,
           NEW outcome \in {"methodNotAllowed", "error", "empty", "panic"},
           matched <=> outcome \in {"methodNotAllowed", "error"}
    PROVE  Planned(Outcome(matched, outcome, <<>>)) \in Plans(static)
<1>1. [k \in DOMAIN <<>> |-> Target(<<>>[k])] = <<>>
  OBVIOUS
<1>2. Planned(Outcome(matched, outcome, <<>>)) =
        [matched |-> matched, outcome |-> outcome, list |-> <<>>]
  BY <1>1, PlannedOutcome
<1>3. outcome \in Outcomes /\ outcome # "list"
  BY DEF Outcomes
<1> QED
  BY <1>2, <1>3 DEF Plans

\* A list of resources is planned for an endpoint, and for Format1 if what is
\* literal is in every record.
LEMMA ListPlanned ==
    ASSUME NEW matched \in BOOLEAN, NEW static, NEW list, NEW n \in 1 .. MaxAttrs,
           DOMAIN list = 1 .. n,
           \A k \in 1 .. n : Target(list[k]) \in Attribute /\ Target(list[k]).resource,
           ~matched => \A k \in 1 .. n : Format1Target(Target(list[k]).target, static)
    PROVE  Planned(Outcome(matched, "list", list)) \in Plans(static)
<1> DEFINE targets == [k \in 1 .. n |-> Target(list[k])]
<1>1. Planned(Outcome(matched, "list", list)) =
        [matched |-> matched, outcome |-> "list", list |-> targets]
  BY PlannedOutcome
<1>2. targets \in [1 .. n -> Attribute]
  OBVIOUS
<1>3. targets \in AttributeLists
  BY <1>2 DEF AttributeLists
<1>4. DOMAIN targets = 1 .. n /\ \A k \in 1 .. n : targets[k] = Target(list[k])
  OBVIOUS
<1> HIDE DEF targets
<1>5. targets \in IF matched THEN Format2Lists ELSE Format1Lists(static)
  BY <1>3, <1>4 DEF Format2Lists, Format1Lists
<1>6. "list" \in Outcomes
  BY DEF Outcomes
<1> QED
  BY <1>1, <1>3, <1>5, <1>6 DEF Plans

\* An endpoint refuses the method, fails, or lists resources.
LEMMA EndpointPlanned ==
    ASSUME NEW c \in Configs, ValidConfig(c), NEW r \in Requests, Owner(c, r) # 0, NEW static
    PROVE  Planned(EndpointAttributesFromRequest(c, r)) \in Plans(static)
<1> DEFINE endpoint == c.endpoints[Owner(c, r)]
           I == {i \in 1 .. Len(endpoint.mappings) : Lower(r.method) \in endpoint.mappings[i].methods}
           k == IF I # {} THEN Min(I) ELSE 0
           rules == endpoint.mappings[k].rules
           params == ExtractPathCaptures(r.path, endpoint)
           plain == AttributesFromEndpointResourceRules(r, rules, params)
<1>1. c.endpoints \in Seq(ToSet(c.endpoints))
  BY WorkloadAssumption DEF WorkloadAssumption, IsSeq
<1>2. endpoint \in ToSet(c.endpoints) /\ MatchEndpoint(r.path, endpoint)
  BY <1>1, OwnerFacts DEF ToSet
<1>3. endpoint.mappings \in Seq(ToSet(endpoint.mappings)) /\ ValidEndpoint(endpoint)
      /\ IsSeq(endpoint.path) /\ IsSeq(r.path)
  BY <1>2, WorkloadAssumption DEF WorkloadAssumption, IsSeq, ValidConfig
<1>4. EndpointAttributesFromRequest(c, r) =
        IF k = 0 THEN Outcome(TRUE, "methodNotAllowed", <<>>) ELSE plain
  BY DEF EndpointAttributesFromRequest, SelectInSeq
<1>5. k = IF I # {} THEN Min(I) ELSE 0
  OBVIOUS
<1>6. I \subseteq 1 .. Len(endpoint.mappings) /\ I \subseteq Nat
  BY <1>3
<1>7. \A n \in DOMAIN params : params[n] \in Named
  <2>1. \A n \in CaptureNames(endpoint) :
            \E i \in 1 .. Len(Clean(r.path)) : params[n] = Clean(r.path)[i]
    BY <1>2, <1>3, CaptureHasPlace DEF ValidEndpoint
  <2>2. \A i \in 1 .. Len(Clean(r.path)) : Clean(r.path)[i] \in Segments(r.path) \cup {NoValue}
    <3>1. Clean(r.path) \in Seq(Segments(r.path) \cup {NoValue})
      BY <1>3, CleanFacts
    <3> QED
      BY <3>1
  <2>3. DOMAIN params = CaptureNames(endpoint)
    BY DEF ExtractPathCaptures
  <2> QED
    BY <2>1, <2>2, <2>3, RequestNamed DEF Named
<1> HIDE DEF k, I, plain, params
<1>8. CASE k = 0
  BY <1>4, <1>8, UnlistedPlanned
<1>9. CASE k # 0
  <2>1. k \in 1 .. Len(endpoint.mappings)
    BY <1>5, <1>6, <1>9, MinFacts
  <2>2. endpoint.mappings[k] \in ToSet(endpoint.mappings)
    BY <1>3, <2>1 DEF ToSet
  <2>3. rules \in Seq(ToSet(rules)) /\ rules # <<>>
    BY <1>2, <1>3, <2>2, WorkloadAssumption
    DEF WorkloadAssumption, IsSeq, ValidEndpoint, ValidMapping
  <2>4. Len(rules) <= MaxAttrs
    BY <1>2, <2>2, MaxAttrsAssumption DEF MaxAttrsAssumption
  <2>5. \A rule \in ToSet(rules) :
            rule.fields["namespace"].text \in Named /\ rule.fields["name"].text \in Named
    BY <1>2, <2>2, ValuesAssumption DEF ValuesAssumption
  <2> DEFINE list == [j \in DOMAIN rules |-> RuleAttributes(rules[j], r, params)]
  <2>6. plain \in {Outcome(TRUE, "error", <<>>), Outcome(TRUE, "list", list)}
    BY DEF plain, AttributesFromEndpointResourceRules
  <2> HIDE DEF rules
  <2>7. DOMAIN rules = 1 .. Len(rules) /\ Len(rules) \in 1 .. MaxAttrs
        /\ \A j \in DOMAIN rules : rules[j] \in ToSet(rules)
    BY <2>3, <2>4, PlanAssumption DEF ToSet, PlanAssumption
  <2>8. \A j \in 1 .. Len(rules) :
            Target(RuleAttributes(rules[j], r, params)) \in Attribute
            /\ Target(RuleAttributes(rules[j], r, params)).resource
    BY <1>7, <2>5, <2>7, RuleTarget
  <2>9. Planned(Outcome(TRUE, "list", list)) \in Plans(static)
    <3>1. DOMAIN list = 1 .. Len(rules)
          /\ \A j \in 1 .. Len(rules) : Target(list[j]) \in Attribute /\ Target(list[j]).resource
      BY <2>7, <2>8
    <3> HIDE DEF list
    <3> QED
      BY <2>7, <3>1, ListPlanned
  <2>10. Planned(Outcome(TRUE, "error", <<>>)) \in Plans(static)
    BY UnlistedPlanned
  <2> QED
    BY <1>4, <1>9, <2>6, <2>9, <2>10
<1> QED
  BY <1>8, <1>9
\* There are no more of them than the request has values, all of them named.
LEMMA ParamsBound ==
    ASSUME NEW r \in Requests, NEW rewrites
    PROVE  Len(CollectRewriteParams(rewrites, r)) <= MaxAttrs
<1> DEFINE q == IF rewrites.query = "named" THEN r.query ELSE <<>>
           h == IF rewrites.header = "named" THEN r.header ELSE <<>>
           all == ToSet(r.query) \cup ToSet(r.header)
<1>1. r.query \in Seq(ToSet(r.query)) /\ r.header \in Seq(ToSet(r.header))
  BY WorkloadAssumption DEF WorkloadAssumption, IsSeq
<1>2. Len(r.query) \in Nat /\ Len(r.header) \in Nat /\ MaxAttrs \in Nat
  BY <1>1, PlanAssumption DEF PlanAssumption
<1>7. Len(r.query) + Len(r.header) <= MaxAttrs
  BY MaxAttrsAssumption, Zenon DEF MaxAttrsAssumption
<1>3. q \in Seq(all) /\ h \in Seq(all) /\ Len(q) \in 0 .. Len(r.query) /\ Len(h) \in 0 .. Len(r.header)
  BY <1>1, <1>2
<1>4. CollectRewriteParams(rewrites, r) = q \o h
  BY DEF CollectRewriteParams
<1> HIDE DEF q, h
<1>5. Len(q \o h) = Len(q) + Len(h)
  BY <1>3
<1>6. Len(q) + Len(h) <= MaxAttrs
  <2> DEFINE x == Len(r.query)  y == Len(r.header)  v == Len(q)  w == Len(h)
  <2>1. x \in Nat /\ y \in Nat /\ v \in 0 .. x /\ w \in 0 .. y
    BY <1>2, <1>3
  <2>2. x + y <= MaxAttrs
    BY <1>7
  <2> HIDE DEF x, y, v, w
  <2>3. v + w <= x + y
    BY <2>1
  <2>4. v + w <= MaxAttrs
    BY <1>2, <2>1, <2>2, <2>3
  <2> QED
    BY <2>4 DEF v, w
<1> QED
  BY <1>4, <1>5, <1>6

LEMMA ParamsNamed ==
    ASSUME NEW r \in Requests, NEW rewrites,
           NEW k \in DOMAIN CollectRewriteParams(rewrites, r)
    PROVE  CollectRewriteParams(rewrites, r)[k] \in Named
<1> DEFINE params == CollectRewriteParams(rewrites, r)
<1>1. {params[i] : i \in DOMAIN params} \subseteq ToSet(r.query) \cup ToSet(r.header)
  <2> DEFINE all == (IF rewrites.query = "named" THEN ToSet(r.query) ELSE {})
                    \cup (IF rewrites.header = "named" THEN ToSet(r.header) ELSE {})
  <2>1. {params[i] : i \in DOMAIN params} = all
    BY ParamsFacts
  <2> HIDE DEF params
  <2> QED
    BY <2>1
<1>2. ToSet(r.query) \cup ToSet(r.header) \subseteq Named
  BY ValuesAssumption DEF ValuesAssumption
<1> HIDE DEF params
<1> QED
  BY <1>1, <1>2 DEF params

\* Format1 lists the path, one resource, or one resource for each value; what is
\* literal in its fields is in all of them.
LEMMA Format1Planned ==
    ASSUME NEW c \in Configs, NEW r \in Requests
    PROVE  Planned(Format1Attributes(c, r)) \in Plans(StaticResourceMetadata(c))
<1> DEFINE p == Format1Attributes(c, r)
           static == StaticResourceMetadata(c)
           params == CollectRewriteParams(c.format1.rewrites, r)
           fields == c.format1.fields
           verb == IF c.format1.given /\ fields.verb.text # NoValue
                   THEN fields.verb.text ELSE Format1Verb(r.method)
           Literal(f) == IF c.format1.given /\ c.format1.fields[f].kind = "literal"
                         THEN c.format1.fields[f].text ELSE NoValue
<1>1. static = [name |-> Literal("name"), namespace |-> Literal("namespace")]
  BY DEF StaticResourceMetadata
<1>2. fields["namespace"].text \in Named /\ fields["name"].text \in Named
  BY ValuesAssumption DEF ValuesAssumption
<1>3. CASE ~c.format1.given
  <2> DEFINE a == [user |-> r.user, resourceRequest |-> FALSE, path |-> r.path,
                   verb |-> verb, namespace |-> NoValue, name |-> NoValue]
  <2>1. p = Outcome(FALSE, "list", <<a>>)
    BY <1>3 DEF Format1Attributes
  <2>2. static = Blank
    BY <1>1, <1>3 DEF Blank
  <2>3. Target(a) = NonResource
    BY DEF Target, NonResource, Blank
  <2> HIDE DEF a, p, static
  <2>4. [k \in DOMAIN <<a>> |-> Target(<<a>>[k])] = <<NonResource>>
    BY <2>3
  <2>5. Planned(p) = [matched |-> FALSE, outcome |-> "list", list |-> <<NonResource>>]
    BY <2>1, <2>4, PlannedOutcome
  <2>6. <<NonResource>> \in AttributeLists
    <3>1. NonResource \in Attribute
      BY DEF NonResource, Blank, Attribute, Resource
    <3>2. <<NonResource>> \in [1 .. 1 -> Attribute]
      BY <3>1
    <3>3. 1 \in 1 .. MaxAttrs
      BY PlanAssumption DEF PlanAssumption
    <3> QED
      BY <3>2, <3>3 DEF AttributeLists
  <2>7. <<NonResource>> \in Format1Lists(static)
    BY <2>2, <2>6 DEF Format1Lists
  <2> QED
    BY <2>5, <2>6, <2>7 DEF Plans, Outcomes, p, static
<1>4. CASE c.format1.given /\ ~c.format1.rewrites.given
  <2> DEFINE name == fields["name"].text
             namespace == fields["namespace"].text
             a == ResourceRecord(r, verb, namespace, name)
  <2>1. p = Outcome(FALSE, "list", <<a>>)
    BY <1>4 DEF Format1Attributes
  <2>2. Target(a) \in Attribute /\ Target(a).resource
        /\ Target(a).target = [name |-> name, namespace |-> namespace]
    BY <1>2, RecordTarget
  <2>3. /\ static["name"] # NoValue => static["name"] = name
        /\ static["namespace"] # NoValue => static["namespace"] = namespace
    BY <1>1
  <2> HIDE DEF a, p, static, name, namespace
  <2>4. Format1Target(Target(a).target, static)
    BY <2>2, <2>3 DEF Format1Target
  <2>5. DOMAIN <<a>> = 1 .. 1 /\ <<a>>[1] = a /\ 1 \in 1 .. MaxAttrs
    BY PlanAssumption DEF PlanAssumption
  <2>6. \A k \in 1 .. 1 : <<a>>[k] = a
    OBVIOUS
  <2>7. Planned(Outcome(FALSE, "list", <<a>>)) \in Plans(static)
    BY <2>2, <2>4, <2>5, <2>6, ListPlanned
  <2> QED
    BY <2>1, <2>7 DEF p, static
<1>5. CASE c.format1.given /\ c.format1.rewrites.given
  <2> DEFINE Rewritten(f, k) == Expand(fields[f], params[k], <<>>)
             record(k) == ResourceRecord(r, verb, Rewritten("namespace", k), Rewritten("name", k))
             list == [k \in DOMAIN params |-> record(k)]
  <2>1. p = IF params = <<>> THEN Outcome(FALSE, "empty", <<>>)
            ELSE IF \E f \in {"namespace", "name"} : fields[f].kind = "broken"
            THEN Outcome(FALSE, "panic", <<>>)
            ELSE Outcome(FALSE, "list", list)
    BY <1>5 DEF Format1Attributes
  <2>2. ASSUME params # <<>>
        PROVE  Planned(Outcome(FALSE, "list", list)) \in Plans(static)
    <3>1. Len(params) \in 1 .. MaxAttrs /\ DOMAIN params = 1 .. Len(params)
      <4>1. Len(params) \in Nat \ {0} /\ DOMAIN params = 1 .. Len(params)
        BY <2>2, ParamsFacts
      <4>2. Len(params) <= MaxAttrs
        BY ParamsBound
      <4> QED
        BY <4>1, <4>2, PlanAssumption DEF PlanAssumption
    <3>2. ASSUME NEW k \in 1 .. Len(params)
          PROVE  /\ Target(record(k)) \in Attribute /\ Target(record(k)).resource
                 /\ Format1Target(Target(record(k)).target, static)
      <4>1. params[k] \in Named
        BY <3>1, ParamsNamed
      <4>2. Rewritten("namespace", k) \in Named /\ Rewritten("name", k) \in Named
        BY <1>2, <4>1, ExpandNamed
      <4>3. /\ static["name"] # NoValue => static["name"] = Rewritten("name", k)
            /\ static["namespace"] # NoValue => static["namespace"] = Rewritten("namespace", k)
        BY <1>1 DEF Expand
      <4> DEFINE name == Rewritten("name", k)
                 namespace == Rewritten("namespace", k)
      <4> HIDE DEF Rewritten, name, namespace, static, verb, fields
      <4>4. Target(ResourceRecord(r, verb, namespace, name)) \in Attribute
            /\ Target(ResourceRecord(r, verb, namespace, name)).resource
            /\ Target(ResourceRecord(r, verb, namespace, name)).target =
                    [name |-> name, namespace |-> namespace]
        BY <4>2, RecordTarget DEF name, namespace
      <4>5. record(k) = ResourceRecord(r, verb, namespace, name)
        BY DEF name, namespace
      <4>6. Format1Target(Target(ResourceRecord(r, verb, namespace, name)).target, static)
        BY <4>3, <4>4 DEF Format1Target, name, namespace
      <4> HIDE DEF record
      <4> QED
        BY <4>4, <4>5, <4>6, Zenon
    <3>3. DOMAIN list = 1 .. Len(params) /\ \A k \in 1 .. Len(params) : list[k] = record(k)
      BY <3>1
    <3> HIDE DEF list, record, static
    <3>4. \A k \in 1 .. Len(params) :
            /\ Target(list[k]) \in Attribute /\ Target(list[k]).resource
            /\ Format1Target(Target(list[k]).target, static)
      BY <3>2, <3>3, Zenon
    <3> HIDE DEF params
    <3> QED
      BY <3>1, <3>3, <3>4, ListPlanned
  <2>3. /\ Planned(Outcome(FALSE, "empty", <<>>)) \in Plans(static)
        /\ Planned(Outcome(FALSE, "panic", <<>>)) \in Plans(static)
    BY UnlistedPlanned
  <2> HIDE DEF list, params, static, p
  <2> QED
    BY <2>1, <2>2, <2>3 DEF p, static
<1> QED
  BY <1>3, <1>4, <1>5

\* The list of a request is within MaxAttrs and within what the request pipeline
\* takes for possible: an endpoint never leaves an empty list, and a literal
\* Format1 name is in every record (ValidateAuthorizationConfig,
\* GetRequestAttributes).
THEOREM PlanTheorem == Spec => []OutcomesArePlanned
<1>1. IInv => OutcomesArePlanned
  <2> SUFFICES ASSUME IInv, Served
               PROVE  Planned(plan) \in Plans(StaticResourceMetadata(config))
    BY DEF OutcomesArePlanned, Planned
  <2>1. /\ config \in Configs /\ ValidConfig(config) /\ request \in Workload[config]
        /\ plan = GetRequestAttributes(config, request)
    BY DEF IInv, StartInv, PlanInv, Served
  <2>2. request \in Requests
    BY <2>1 DEF Requests
  <2>3. CASE Owner(config, request) # 0
    BY <2>1, <2>2, <2>3, EndpointPlanned DEF GetRequestAttributes
  <2>4. CASE Owner(config, request) = 0
    BY <2>1, <2>2, <2>4, Format1Planned DEF GetRequestAttributes
  <2> QED
    BY <2>3, <2>4
<1> QED
  BY <1>1, Invariance, PTL
=============================================================================
