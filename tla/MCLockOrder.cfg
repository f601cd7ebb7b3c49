SPECIFICATION Spec
CONSTANTS
    s1 = s1
    s2 = s2
    service = service
    pool = pool
    None = None
    Threads = {t1, t2}
    Locks = {s1, s2, service, pool}
    Name <- MCName
    DepthBound <- MCDepth
    t1 = t1
    t2 = t2
INVARIANTS Consistent SearchExact DeadlockCaught
CHECK_DEADLOCK FALSE
