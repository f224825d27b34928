CONSTANTS
    Nodes = {n1, n2}
    Reqs = {r1}
    None = None
    MaxTerms = 2
    MaxCatalogChanges = 3
SPECIFICATION Spec
PROPERTY CancelledRequestsEnd
\* Every request ends and the histories are bounded: the system stops.
CHECK_DEADLOCK FALSE
