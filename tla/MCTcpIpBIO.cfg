CONSTANTS
    Conn = {c1, c2}
    OtherConn = {o1}
    Request = {1, 2, 3}
    MaxTryTimes = 2
    ServerThread = {s1, s2}
    MaxPoolNum = 1
    ServerTryTimes = 2
SPECIFICATION FairSpec
INVARIANTS
    PoolExact
    OwnReply
    ThreadsExact
PROPERTIES
    RequestsEnd
CHECK_DEADLOCK FALSE
