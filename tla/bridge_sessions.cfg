\* Two sessions side by side, the first with two calls and a queue of two.
CONSTANTS
    s1 = s1  s2 = s2  c1 = c1  c2 = c2  c3 = c3  k1 = k1  k2 = k2
    Sessions = {s1, s2}
    Calls = {c1, c2, c3}
    Conns = {k1, k2}
    CallSession <- TwoCallSession
    ConnSession <- TwoConnSession
    Outputs = {o1}
    Caps = {}
    QueueCap = 2
    Unavailable = Unavailable
    Timeout = Timeout
    None = None
SPECIFICATION Spec
INVARIANT StaysInSession
CHECK_DEADLOCK FALSE
