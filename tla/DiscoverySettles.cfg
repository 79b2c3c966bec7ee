CONSTANTS
    v1 = v1
    v2 = v2
    v3 = v3
    bad = bad
    bare = bare
    e1 = e1
    e2 = e2
    p1 = p1
    p2 = p2
    Pods = {p1, p2}
    Names = {"cm"}
    Versions = {v1, bad}
    Endpoints = {e1, e2}
    Content <- MCContent
    Changes = {"pod added", "config added"}
    MaxChanges = 3
    MaxTimeouts = 1
    Watchers = {1}
    ShutsDown = TRUE
SPECIFICATION Spec
CHECK_DEADLOCK FALSE
PROPERTY EventuallySettled
INVARIANT LeftoversOfOneEvent
