CONSTANTS
    Dir = {r, a, b, c}
    Root = r
    Workers = {w1, w2}
    Main = main
SPECIFICATION FairSpec
INVARIANTS
    LatchMeansComplete
PROPERTIES
    LatchOpens
    ImplementsSizeQuery
CHECK_DEADLOCK FALSE
