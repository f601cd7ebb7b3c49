SPECIFICATION FairSpec
CONSTANTS
    c1 = c1
    w1 = w1
    w2 = w2
    d1 = d1
    d2 = d2
    Clients = {c1}
    Workers = {w1, w2}
    Conns = {d1, d2}
    NoConn = NoConn
    NoTask = NoTask
    PingBound <- MCPings
    LoginBound <- MCLogins
    Creds <- MCCreds
INVARIANTS Consistent OneResult RefusesOnlyEarlyPing
PROPERTIES Answered ShutdownEnds
CHECK_DEADLOCK FALSE
