\* Four nodes, two requests; size starts at zero, as in fresh memory, or not.
SPECIFICATION Spec
CONSTANTS
    Nodes = {n1, n2, n3, n4}
    Null = Null
    Requests = {r1, r2}
    Nothing = Nothing
    InitialSizes = {0, 2}
INVARIANTS TypeOK NoLeak
PROPERTY ImplementsFifo
\* A pop of an empty queue ends the server.
CHECK_DEADLOCK FALSE
