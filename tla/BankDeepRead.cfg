SPECIFICATION Spec
CONSTANTS
    a1 = a1
    a2 = a2
    a3 = a3
    c1 = c1
    c2 = c2
    d1 = d1
    None = None
    Authorizations = {a1, a2, a3}
    Callbacks = {c1, c2}
    Disconnects = {d1}

INVARIANT DeepReadIsTheSessions
