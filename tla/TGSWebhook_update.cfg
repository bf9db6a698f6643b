CONSTANTS
    Names = {n1, n2}
    Namespaces = {ns1, ns2}
    Services = {s1, s2}
    Requests = {r1, r2, r3}
    MaxInFlight = 1
    CacheLag = FALSE
    Ops = {"CREATE", "UPDATE"}
    None = None
SPECIFICATION Spec
INVARIANT UniqueServiceNames
CHECK_DEADLOCK FALSE

