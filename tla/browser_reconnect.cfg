\* A client that reconnects, after onclose or before it, two workers and an
\* unknown tool.
CONSTANTS
    r1 = r1  r2 = r2  r3 = r3
    Sockets = {k1, k2, k3}
    Requests = {r1, r2, r3}
    Known = {r1, r2}
    Lost = Lost
    None = None
SPECIFICATION FairSpec
INVARIANTS CurrentSocketOnly ReadyMeansPublished
PROPERTIES LostMeansOffline BehavesAsTab ConnectSettles RequestSettles
CHECK_DEADLOCK FALSE
