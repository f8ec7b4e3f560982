\* Up to two Format2 endpoints; Format1 rewrites, static rules and the webhook.
SPECIFICATION Spec
CONSTANTS
    Values = {"a", "b", "metrics", "{{.Value}}", "{{.PathParams}}", "{{"}
    NoValue = NoValue
    MaxAttrs = 3
    Workload <- AllConfigs
    NoRequest = NoRequest
    Prometheus = "prometheus"
    MetricsPath <- Metrics
INVARIANTS
    OutcomesArePlanned
    CapturesRebuildThePath
    FirstEndpointOwnsTheRequest
    
    
