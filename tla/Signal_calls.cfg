SPECIFICATION Spec
CONSTANTS
    Threads = {t1, t2}
    Callbacks = {c1, c2}
    Inside = {"connect", "disconnect", "remove"}
    Careless = {}
    MaxSignals = 3
    MaxConnects = 3
    MaxDepth = 1
INVARIANT Counted
PROPERTIES CalledAll NotAfterDisconnect
CHECK_DEADLOCK FALSE
