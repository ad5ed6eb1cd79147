------------------------------ MODULE WebConsole ------------------------------
(***************************************************************************)
(* The scripts of the ActiveMQ web console (webapps/admin/js).  They share *)
(* no state but the page's document, of which each has its own part here:  *)
(* MochiKit's Async, Iter, Signal and Logging, the sorting of tables, the  *)
(* event and class helpers, prettify and PlotKit.  One of them runs.       *)
(***************************************************************************)
EXTENDS PrettyCharset, ConsoleScripts, TableSorting, MochiKitSignal, MochiKitLogging,
        PlotKitSVG

CONSTANTS Deferreds, Callbacks,                                   \* MochiKitAsync
          Builds, MaxPulls,                                       \* MochiKitIter
          Pages, PR_TAB_WIDTH,                                    \* PrettyPrint
          MaxCalls   \* script -> a bound of the calls a page makes

VARIABLES
    program,   \* the one that runs
    asyncPage,
    built, iters, got, ended, groups, answer, stale,
    prettyPage, isIE6, nodes, attached, elements, nodeIndex, phase, printed

Async   == INSTANCE MochiKitAsync WITH page <- asyncPage
Iter    == INSTANCE MochiKitIter
Pretty  == INSTANCE PrettyPrint WITH page <- prettyPage, k <- nodeIndex

asyncVars == <<asyncPage>>
iterVars == <<built, iters, got, ended, groups, answer, stale>>
prettyVars == <<prettyPage, isIE6, nodes, attached, elements, nodeIndex, phase,
                printed>>
chartVars == <<plotVars, svg>>
vars == <<program, asyncVars, iterVars, signalVars, logVars, tableVars, scriptVars,
                  prettyVars, charsetVars, chartVars>>

\* A script the page does not use keeps no state.  Those whose modules are extended are as they
\* begin: nobody listens, the element has no handler and no class, nothing was clicked, and no
\* set is being folded (next is 0, before the first range).
unused == "unused"
NoAsync == asyncPage = unused
NoIter == built = unused /\ iters = unused /\ got = unused /\ ended = unused /\
          groups = unused /\ answer = unused /\ stale = unused
NoSignals == SignalInit
NoLog == LogInit /\ maxSize = -1
NoTables == Page([t \in Table |-> t], CHOOSE c \in Contents : TRUE, CHOOSE n \in Nodes : TRUE)
NoScripts == ScriptsInit /\ classes = <<<<>>>> /\ \A t \in EventType : on[t] = ""
NoPretty == prettyPage = unused /\ isIE6 = unused /\ nodes = unused /\
            attached = unused /\ elements = unused /\ nodeIndex = unused /\
            phase = unused /\ printed = unused
NoCharset == /\ charset = <<>> /\ part = 1 /\ found = <<>>
             /\ ranges = <<>> /\ next = 0 /\ consolidatedRanges = <<>>
NoPlot == /\ SvgInit /\ ~isIE /\ svg.page = CHOOSE p \in SvgPages : TRUE
          /\ layout = NewLayout(CHOOSE s \in Styles : TRUE, CHOOSE o \in Options : TRUE)

Init ==
    \/ /\ program = "MochiKit.Async" /\ Async!Init
       /\ NoIter /\ NoSignals /\ NoLog /\ NoTables /\ NoScripts /\ NoPretty /\ NoCharset /\ NoPlot
    \/ /\ program = "MochiKit.Iter" /\ Iter!Init
       /\ NoAsync /\ NoSignals /\ NoLog /\ NoTables /\ NoScripts /\ NoPretty /\ NoCharset /\ NoPlot
    \/ /\ program = "MochiKit.Signal" /\ SignalInit
       /\ NoAsync /\ NoIter /\ NoLog /\ NoTables /\ NoScripts /\ NoPretty /\ NoCharset /\ NoPlot
    \/ /\ program = "MochiKit.Logging" /\ LogInit
       /\ NoAsync /\ NoIter /\ NoSignals /\ NoTables /\ NoScripts /\ NoPretty /\ NoCharset /\ NoPlot
    \/ /\ program = "standardista" /\ TablesInit
       /\ NoAsync /\ NoIter /\ NoSignals /\ NoLog /\ NoScripts /\ NoPretty /\ NoCharset /\ NoPlot
    \/ /\ program = "common" /\ ScriptsInit
       /\ NoAsync /\ NoIter /\ NoSignals /\ NoLog /\ NoTables /\ NoPretty /\ NoCharset /\ NoPlot
    \/ /\ program = "prettify" /\ Pretty!Init
       /\ NoAsync /\ NoIter /\ NoSignals /\ NoLog /\ NoTables /\ NoScripts /\ NoCharset /\ NoPlot
    \/ /\ program = "caseFoldCharset" /\ CharsetInit
       /\ NoAsync /\ NoIter /\ NoSignals /\ NoLog /\ NoTables /\ NoScripts /\ NoPretty /\ NoPlot
    \/ /\ program = "PlotKit" /\ SvgInit
       /\ NoAsync /\ NoIter /\ NoSignals /\ NoLog /\ NoTables /\ NoScripts /\ NoPretty /\ NoCharset

\* The others are not running.
OnlyAsync ==
    /\ program = "MochiKit.Async"
    /\ UNCHANGED <<program, iterVars, signalVars, logVars, tableVars, scriptVars, prettyVars,
                   charsetVars, chartVars>>
OnlyIter ==
    /\ program = "MochiKit.Iter"
    /\ UNCHANGED <<program, asyncVars, signalVars, logVars, tableVars, scriptVars,
                   prettyVars, charsetVars, chartVars>>
OnlySignal ==
    /\ program = "MochiKit.Signal"
    /\ UNCHANGED <<program, asyncVars, iterVars, logVars, tableVars, scriptVars, prettyVars,
                   charsetVars, chartVars>>
OnlyLog ==
    /\ program = "MochiKit.Logging"
    /\ UNCHANGED <<program, asyncVars, iterVars, signalVars, tableVars, scriptVars,
                   prettyVars, charsetVars, chartVars>>
OnlyTables ==
    /\ program = "standardista"
    /\ UNCHANGED <<program, asyncVars, iterVars, signalVars, logVars, scriptVars, prettyVars,
                   charsetVars, chartVars>>
OnlyScripts ==
    /\ program = "common"
    /\ UNCHANGED <<program, asyncVars, iterVars, signalVars, logVars, tableVars, prettyVars,
                   charsetVars, chartVars>>
OnlyPretty ==
    /\ program = "prettify"
    /\ UNCHANGED <<program, asyncVars, iterVars, signalVars, logVars, tableVars, scriptVars,
                   charsetVars, chartVars>>
OnlyCharset ==
    /\ program = "caseFoldCharset"
    /\ UNCHANGED <<program, asyncVars, iterVars, signalVars, logVars, tableVars, scriptVars,
                   prettyVars, chartVars>>
OnlyPlot ==
    /\ program = "PlotKit"
    /\ UNCHANGED <<program, asyncVars, iterVars, signalVars, logVars, tableVars, scriptVars,
                   prettyVars, charsetVars>>

Next ==
    \/ OnlyAsync /\ Async!Next
    \/ OnlyIter /\ Iter!Next
    \/ OnlySignal /\ SignalNext
    \/ OnlyLog /\ LogNext
    \/ OnlyTables /\ TablesNext
    \/ OnlyScripts /\ ScriptsNext
    \/ OnlyPretty /\ Pretty!Next
    \/ OnlyCharset /\ CharsetNext
    \/ OnlyPlot /\ SvgNext

Spec == Init /\ [][Next]_vars

-----------------------------------------------------------------------------
(* Properties: each is about the script that runs.  Those of the modules that are extended *)
(* are there.                                                                              *)

\* MochiKit.js, lines 2064 to 2343: a callback is given what the one before it left,
\* a chain goes on only when all it waits for has come, and nothing answers twice.
ChainsExact == program = "MochiKit.Async" => Async!ChainsExact

\* MochiKit.js, lines 2344 to 2375: one at a time has the lock, and a locked one is had
\* by somebody.
LockHeld == program = "MochiKit.Async" => Async!LockHeld

\* MochiKit.js, lines 2376 to 2432: a list counts each of its elements once and fires
\* when its options say so.
ListExact == program = "MochiKit.Async" => Async!ListExact

\* MochiKit.js, lines 907 to 1463: every iterator gives its own sequence, in order, however
\* the page asks them in turn; tee keeps what one of its readers still has to read; groups,
\* and answers about all that is left, are right.
IteratorsExact == program = "MochiKit.Iter" => Iter!IteratorsExact /\ Iter!AnswersExact

\* prettify.js, lines 226 to 302 and 1302 to 1397: a printed element reads as before.
TextKept == program = "prettify" => Pretty!TextKept

\* prettify.js, lines 764 to 1063: each character has the style of its token.
StylesExact == program = "prettify" => Pretty!StylesExact

\* prettify.js, lines 1276 to 1350: every marked element is printed once.
EachPrintedOnce == program = "prettify" => Pretty!EachPrintedOnce
=============================================================================
