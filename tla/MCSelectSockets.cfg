CONSTANTS
    Conn = {c1, c2}
    Workers = {w1, w2}
    Loop = loop
    Server = server
    None = null
    BufSize = 1
    MaxSent = 2
SPECIFICATION MCSpec
INVARIANTS
    EchoInOrder
    Custody
PROPERTIES
    AllEchoed
CHECK_DEADLOCK FALSE
