CONSTANTS
    Dir = {0, 1, 2, 3, 4}
    Root = 0
    Workers = {w1, w2}
    BfsWorkers = {w1}
    Main = main
SPECIFICATION MCSpec
INVARIANTS
    StarvedOnlyByNesting
PROPERTIES
    QueryEnds
    ImplementsSizeQuery
CHECK_DEADLOCK FALSE
