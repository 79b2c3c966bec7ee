CONSTANTS
    p1 = p1
    p2 = p2
    e1 = e1
    e2 = e2
    m1 = m1
    m2 = m2
    Pods = {p1, p2}
    Endpoints = {e1, e2}
    MetricIds = {m1, m2}
    MaxMetricsPerPod = 1
    Threads = {t1, t2}
    Collectors <- MCCollectors
    MetricSeqs <- MCMetricSeqs
SPECIFICATION Spec
INVARIANTS TypeOK CountsAreSnapshot
PROPERTIES ImplementsTracker OverflowIsExact CallsReturn
