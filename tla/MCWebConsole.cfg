CONSTANTS
    Deferreds = {a1, a2, a3}
    Callbacks <- MCCallbacks
    MaxCalls <- MCMaxCalls
    Builds <- MCBuilds
    MaxPulls = 6
    Elements = {e1}
    Objects = {o1}
    Sig = {s1, s2}
    Func = {f1, f2}
    MaxObserver = 3
    Listener = {l1, l2}
    Sizes <- MCSizes
    MaxLogged = 2
    Table = {1, 2}
    Column = {0, 1}
    Content <- MCContent
    Contents <- MCContents
    Nodes <- MCNodes
    MaxClicks = 3
    EventType = {load, click}
    ScriptHandler = {h1, h2}
    MaxScriptCalls = 4
    ClassName <- MCClassName
    FirstClasses <- MCFirstClasses
    Pages <- MCPages
    PR_TAB_WIDTH = 2
    Charsets <- MCCharsets
    Codes <- MCCodes
    SetNames = {"a", "b"}
    Datasets <- MCDatasets
    Styles = {"bar", "line", "pie"}
    Options <- MCOptions
    CanvasWidth = 22
    CanvasHeight = 15
    Padding <- MCPadding
    CanvasAt <- MCCanvasAt
    ColorCount = 2
    MaxTries = 1
    MaxPlotCalls = 4
    SvgPages <- MCSvgPages
SYMMETRY Sym
SPECIFICATION Spec
INVARIANTS
    ChainsExact
    LockHeld
    ListExact
    IteratorsExact
    ListenersRecorded
    DeliveredOnce
    BrowsersAgree
    LogExact
    SortedOneWay
    ArrowTells
    HandlersOnce
    ClassesExact
    TextKept
    StylesExact
    EachPrintedOnce
    CharsetExact
    LayoutExact
    ClickFindsBar
    ShowsLastAsked
    PicturesAgree
CHECK_DEADLOCK FALSE
