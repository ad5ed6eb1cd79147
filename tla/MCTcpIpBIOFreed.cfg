CONSTANTS
    Conn = {c1}
    OtherConn = {}
    Request = {1}
    MaxTryTimes = 2
    ServerThread = {s1, s2}
    MaxPoolNum = 1
    ServerTryTimes = 2
SPECIFICATION FairSpec
PROPERTIES
    ThreadsFreed
CHECK_DEADLOCK FALSE
