CONSTANTS
    Pods = {p1}
    Endpoints = {e1, e2}
    MetricIds = {m1}
    MaxMetricsPerPod = 1
    Collectors <- MCCollectors
SPECIFICATION Spec
INVARIANTS TrackerTypeOK PodLimit NoEmptyPod
PROPERTIES GaugesConverge NoEviction
