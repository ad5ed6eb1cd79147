CONSTANTS
    Dir = {r, a, b, c}
    Root = r
    Workers = {w1, w2}
    Main = main
    Capacity = 1
SPECIFICATION FairSpec
PROPERTIES
    Terminates
    ImplementsSizeQuery
CHECK_DEADLOCK FALSE
