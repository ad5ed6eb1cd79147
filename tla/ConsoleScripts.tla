--------------------------- MODULE ConsoleScripts ---------------------------
(***************************************************************************)
(* common.js and css.js of the console: the handlers of one element, kept  *)
(* in tables by number beside the one the browser knows of, and the        *)
(* classes of an element, kept in one text.                                *)
(***************************************************************************)
EXTENDS Integers, Sequences, Functions

CONSTANTS EventType,
          ScriptHandler,   \* the handlers a page adds
          ClassName,       \* the classes, each the words between its hyphens
          FirstClasses,    \* the class lists the element may begin with
          MaxScriptCalls   \* bounds the calls of a page and its handlers

ASSUME ScriptHandlerAssumption == "page" \notin ScriptHandler
ASSUME ClassNameAssumption == ClassName \subseteq Seq(STRING) \ {<<>>}
\* No class is there twice at first: only the first of two is ever removed.
ASSUME FirstClassesAssumption ==
    \A list \in FirstClasses :
        /\ list \in Seq(Seq(STRING))
        /\ \A i, j \in DOMAIN list : list[i] = list[j] /\ list[i] # <<>> => i = j

VARIABLES
    on,        \* type -> what the browser calls: "", "page" or "handleEvent"
    events,    \* type -> the table: number -> handler
    guid,      \* handler -> its number, 0 if it has none
    nextGuid,  \* addEvent.guid
    added,     \* type -> the handlers added and not removed
    handling,  \* the event that is handled, or the last one
    classes,   \* className, split
    want,      \* the classes added or there at first, and not removed
    misled,    \* a class was taken for there because of a word of another
    scriptCalls
eventVars == <<on, events, guid, nextGuid, added, handling>>
classVars == <<classes, want, misled>>
scriptVars == <<on, events, guid, nextGuid, added, handling, classes, want, misled,
                scriptCalls>>

\* Of an event: whether it is over, the numbers handleEvent has still to come to, the
\* handlers that ran, those there were when it began, and those that came and went since.
NoEvent ==
    [type |-> "none", over |-> TRUE, left |-> {}, who |-> <<>>, before |-> {}, came |-> {}, gone |-> {}]

ScriptsInit ==
    /\ on \in [EventType -> {"", "page"}]
    /\ events = [t \in EventType |-> <<>>]
    /\ guid = [h \in ScriptHandler |-> 0]
    /\ nextGuid = 1
    /\ added = [t \in EventType |-> IF on[t] = "page" THEN {"page"} ELSE {}]
    /\ handling = NoEvent
    /\ classes \in FirstClasses
    /\ want = Range(classes) \ {<<>>}
    /\ misled = FALSE
    /\ scriptCalls = 0

\* While an event is handled only the handler that runs can call anything.
ScriptCall ==
    /\ scriptCalls < MaxScriptCalls
    /\ scriptCalls' = scriptCalls + 1
    /\ handling.over \/ handling.who # <<>>

-----------------------------------------------------------------------------
(* common.js.  A table is a function; number 0 is the handler from before. *)

\* (Mutant: a new number every time.)
NumberAnew(h) == nextGuid

Number(h) == IF guid[h] = 0 THEN nextGuid ELSE guid[h]

\* A number that is new to the table may be come to, unless it was already.
addEvent(t, h) ==
    LET n     == Number(h)
        first == IF on[t] = "page" THEN {0} ELSE {}
        has   == DOMAIN events[t] \union first \union {n}
    IN  /\ ScriptCall
        /\ guid' = [guid EXCEPT ![h] = n]
        /\ nextGuid' = IF n = nextGuid THEN nextGuid + 1 ELSE nextGuid
        /\ events' = [events EXCEPT ![t] =
                        [i \in has |-> IF i = n THEN h ELSE IF i \in first THEN "page" ELSE @[i]]]
        /\ on' = [on EXCEPT ![t] = "handleEvent"]
        /\ added' = [added EXCEPT ![t] = @ \union {h}]
        /\ IF handling.over THEN handling' = NoEvent
           ELSE IF handling.type # t THEN UNCHANGED handling
           ELSE \E new \in IF h \in Range(handling.who) THEN {{}} ELSE {{}, {n}} :
                    handling' = [handling EXCEPT !.left = @ \union new, !.came = @ \union {h}]
        /\ UNCHANGED classVars

\* A handler that was never added has no number, and nothing is removed.
removeEvent(t, h) ==
    LET gone == {guid[h]} \ {0} IN
    /\ ScriptCall
    /\ events' = [events EXCEPT ![t] = [i \in DOMAIN @ \ gone |-> @[i]]]
    /\ added' = [added EXCEPT ![t] = @ \ {h}]
    /\ handling' = IF handling.over THEN NoEvent
                   ELSE IF handling.type # t THEN handling
                   ELSE [handling EXCEPT !.left = @ \ gone, !.gone = @ \union {h}]
    /\ UNCHANGED <<on, guid, nextGuid, classVars>>

handleEvent(t) ==
    /\ ScriptCall
    /\ handling.over
    /\ on[t] = "handleEvent"
    /\ handling' = [NoEvent EXCEPT !.type = t, !.over = FALSE, !.left = DOMAIN events[t],
                                   !.before = added[t]]
    /\ UNCHANGED <<on, events, guid, nextGuid, added, classVars>>

\* The loop goes through the numbers in the browser's order.
NextHandler(i) ==
    /\ handling' = [handling EXCEPT !.left = @ \ {i}, !.who = Append(@, events[handling.type][i])]
    /\ UNCHANGED <<on, events, guid, nextGuid, added, classVars, scriptCalls>>

NoHandlerLeft ==
    /\ ~handling.over
    /\ handling.left = {}
    /\ handling' = [handling EXCEPT !.over = TRUE]
    /\ UNCHANGED <<on, events, guid, nextGuid, added, classVars, scriptCalls>>

-----------------------------------------------------------------------------
(* css.js *)

\* A word of a class's name, between hyphens, counts as the class (\b).
elementHasClass(list, c) ==
    \E i \in DOMAIN list : \E j \in 0 .. Len(list[i]) - Len(c) :
        SubSeq(list[i], j + 1, j + Len(c)) = c

\* (Mutant: added again.)
addClassToElementTwice(c) ==
    /\ ScriptCall
    /\ classes' = Append(classes, c)
    /\ want' = want \union {c}
    /\ UNCHANGED <<eventVars, misled>>

addClassToElement(c) ==
    /\ ScriptCall
    /\ classes' = IF elementHasClass(classes, c) THEN classes ELSE Append(classes, c)
    /\ want' = want \union {c}
    /\ misled' = (misled \/ (elementHasClass(classes, c) /\ c \notin Range(classes)))
    /\ UNCHANGED eventVars

\* The first occurrence becomes an empty name, that is kept.
removeClassFromElement(c) ==
    /\ ScriptCall
    /\ IF c \notin Range(classes) THEN UNCHANGED classes
       ELSE \E i \in DOMAIN classes :
                /\ classes[i] = c
                /\ \A j \in 1 .. i - 1 : classes[j] # c
                /\ classes' = [classes EXCEPT ![i] = <<>>]
    /\ want' = want \ {c}
    /\ UNCHANGED <<eventVars, misled>>

ScriptsNext ==
    \/ \E t \in EventType, h \in ScriptHandler : addEvent(t, h)
    \/ \E t \in EventType, h \in ScriptHandler : removeEvent(t, h)
    \/ \E t \in EventType : handleEvent(t)
    \/ \E i \in handling.left : NextHandler(i)
    \/ NoHandlerLeft
    \/ \E c \in ClassName : addClassToElement(c)
    \/ \E c \in ClassName : removeClassFromElement(c)

ScriptsSpec == ScriptsInit /\ [][ScriptsNext]_scriptVars

-----------------------------------------------------------------------------
(* Properties. *)

\* addEvent, removeEvent and handleEvent, lines 10 to 53: at an event nobody runs twice or
\* without having been added, and once it is over everybody has run who was there when it
\* began, the element's first handler too, unless one that ran removed him; the table holds
\* those added and not removed.
HandlersOnce ==
    /\ IsInjective(handling.who)
    /\ Range(handling.who) \subseteq handling.before \union handling.came
    /\ handling.over => handling.before \subseteq Range(handling.who) \union handling.gone
    /\ \A t \in EventType : on[t] = "handleEvent" => Range(events[t]) = added[t]

\* css.js, lines 103 to 144: an element has the classes that were added and not removed,
\* unless a word of one of its classes passed for one that was added.
ClassesExact ==
    misled \/ Range(classes) \ {<<>>} = want
=============================================================================
