\* The requests for "/" against a pattern of one capture.
SPECIFICATION Spec
CONSTANTS
    Values = {"a", "b", "metrics", "{{.Value}}", "{{.PathParams}}", "{{"}
    NoValue = NoValue
    MaxAttrs = 3
    Workload <- EndpointsOnly
    NoRequest = NoRequest
    Prometheus = "prometheus"
    MetricsPath <- Metrics
INVARIANTS
    CapturesTakeASegment
