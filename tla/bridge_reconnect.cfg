\* One session, two connections of it, two calls that compete for a request
\* channel with room for one.
CONSTANTS
    s1 = s1  s2 = s2  c1 = c1  c2 = c2  c3 = c3  k1 = k1  k2 = k2
    Sessions = {s1}
    Calls = {c1, c2}
    Conns = {k1, k2}
    CallSession <- OneCallSession
    ConnSession <- OneConnSession
    Outputs = {o1, o2}
    Caps = {caps}
    QueueCap = 1
    Unavailable = Unavailable
    Timeout = Timeout
    None = None
SPECIFICATION FairSpec
INVARIANTS NoChannelPanic BridgeInv
PROPERTIES HandedOutOnce KeepsPromise CancelledCallReturns DecidedCallReturns
CHECK_DEADLOCK FALSE
