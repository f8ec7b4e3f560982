---------------------------- MODULE RequestPlans ----------------------------
(***************************************************************************)
(* What deriving the authorization attributes of a request can come to, as *)
(* far as the handler chain can tell outcomes apart.  RequestPipeline      *)
(* takes any of them; Authorization computes them and stays within them.   *)
(*                                                                         *)
(* A matched Format2 endpoint owns the request; otherwise Format1 applies. *)
(***************************************************************************)
EXTENDS Integers, Sequences

CONSTANTS
    Values,     \* nonempty resource names and namespaces
    NoValue,    \* the empty string
    MaxAttrs    \* bound: attributes derived from one request

ASSUME PlanAssumption == MaxAttrs \in Nat \ {0} /\ NoValue \notin Values

Resource == [name : Values \cup {NoValue}, namespace : Values \cup {NoValue}]
Blank == [name |-> NoValue, namespace |-> NoValue]

Attribute == [resource : BOOLEAN, target : Resource]
NonResource == [resource |-> FALSE, target |-> Blank]
AttributeLists == UNION {[1 .. n -> Attribute] : n \in 1 .. MaxAttrs}

\* A field that StaticResourceMetadata knows is literal in the Format1
\* configuration, so every attribute has it.
Format1Target(target, static) ==
    \A f \in {"name", "namespace"} : static[f] # NoValue => target[f] = static[f]

Format1Lists(static) ==
    {l \in AttributeLists :
        \/ \A k \in DOMAIN l : l[k].resource /\ Format1Target(l[k].target, static)
        \/ static = Blank /\ l = <<NonResource>>}

Format2Lists ==
    {l \in AttributeLists : \A k \in DOMAIN l : l[k].resource}

\* "error": an endpoint rule misses its header or query parameter, or a field of
\* it does not expand.  "empty": Format1 rewrites found no value.  "panic": a
\* Format1 field that does not parse makes templateWithValue execute a nil
\* template.
Outcomes == {"list", "methodNotAllowed", "error", "empty", "panic"}

Plans(static) ==
    {p \in [matched : BOOLEAN, outcome : Outcomes, list : AttributeLists \cup {<<>>}] :
        IF p.outcome = "list"
        THEN p.list \in IF p.matched THEN Format2Lists ELSE Format1Lists(static)
        ELSE p.list = <<>> /\ (p.matched <=> p.outcome \in {"methodNotAllowed", "error"})}
=============================================================================
