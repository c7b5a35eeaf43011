\* A tab that never leaves and a call whose caller gave up.
CONSTANTS
    s1 = s1  t1 = t1  c1 = c1  c2 = c2  k1 = k1  k2 = k2
    Sessions = {s1}
    Calls = {c1, c2}
    Conns = {k1}
    CallSession <- OneCallSession
    ConnSession <- OneConnSession
    ConnTab <- OneTab
    Outputs = {o1}
    Caps = {caps}
    QueueCap = 2
    FrameCap = 1
    Unavailable = Unavailable
    Timeout = Timeout
    None = None
SPECIFICATION Spec
PROPERTY UnavailableMeansAbsent
CHECK_DEADLOCK FALSE
