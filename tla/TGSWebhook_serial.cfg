\* One request at a time, a cache that does not lag, creates only:
\* the environment in which Handle's uniqueness check is meant to work.
CONSTANTS
    Names = {n1, n2}
    Namespaces = {ns1, ns2}
    Services = {s1, s2}
    Requests = {r1, r2, r3}
    MaxInFlight = 1
    CacheLag = FALSE
    Ops = {"CREATE"}
    None = None
SPECIFICATION Spec
INVARIANT UniqueServiceNames
SYMMETRY Symmetry
CHECK_DEADLOCK FALSE
