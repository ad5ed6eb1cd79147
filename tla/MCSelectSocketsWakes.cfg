CONSTANTS
    Conn = {c1}
    Workers = {w1}
    Loop = loop
    Server = server
    None = null
    BufSize = 1
    MaxSent = 1
SPECIFICATION MCSpec
PROPERTIES
    WakesWorker
CHECK_DEADLOCK FALSE
