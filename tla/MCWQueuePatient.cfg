CONSTANTS
    Dir = {r, a, b}
    Root = r
    Workers = {w1, w2}
    Main = main
    Capacity = 2
SPECIFICATION PatientSpec
INVARIANTS
    CollectingNeverFails
CHECK_DEADLOCK FALSE
