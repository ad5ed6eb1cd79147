CONSTANTS
    Table = {1, 2}
    Column = {0, 1}
    Content <- MCContent
    Contents <- MCContents
    Nodes <- MCNodes
    MaxClicks = 3
SPECIFICATION TablesSpec
INVARIANTS
    RowsStay
CHECK_DEADLOCK FALSE
