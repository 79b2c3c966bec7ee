CONSTANTS
    p1 = p1
    e1 = e1
    e2 = e2
    m1 = m1
    Pods = {p1}
    Endpoints = {e1, e2}
    MetricIds = {m1}
    MaxMetricsPerPod = 1
    Collectors <- TwoCollectors
    Workers = {w1, w2}
    Reports <- OneMetric
    ShutsDown = FALSE
    ChanCap = 1
SPECIFICATION Spec
INVARIANTS TypeOK ActiveIsReported RunningTickersAreKnown
SYMMETRY Symmetry
