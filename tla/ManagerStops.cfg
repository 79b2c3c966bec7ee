CONSTANTS
    p1 = p1
    e1 = e1
    e2 = e2
    m1 = m1
    Pods = {p1}
    Endpoints = {e1}
    MetricIds = {m1}
    MaxMetricsPerPod = 1
    Collectors <- OneCollector
    Workers = {w1}
    Reports <- OneMetric
    ShutsDown = TRUE
    ChanCap = 1
SPECIFICATION Spec
PROPERTIES CallsReturn StoppedWorkerQuiesces
