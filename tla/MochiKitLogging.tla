-------------------------- MODULE MochiKitLogging --------------------------
(***************************************************************************)
(* MochiKit.Logging: a logger keeps the last messages, and passes each to  *)
(* its listeners, who may log again before the first is done with.         *)
(***************************************************************************)
EXTENDS Integers, Sequences, SequencesExt

CONSTANTS Listener,  \* the idents
          Sizes,     \* the values of maxSize, -1 for no limit
          MaxLogged  \* bounds the messages

ASSUME SizesAssumption == Sizes \subseteq Int

VARIABLES
    counter, maxSize, messages, listeners,   \* listeners: the least level, 0 if none
    total,   \* how many messages there were
    logged,  \* every one since the last clear
    telling, \* the messages whose listeners are being told, each nested in the one before
    heard    \* what each listener was told since the page last logged
logVars == <<counter, maxSize, messages, listeners, total, logged, telling, heard>>

LogLevel == [DEBUG |-> 10, INFO |-> 20, WARNING |-> 30, ERROR |-> 40, FATAL |-> 50]
Level == {"INFO", "ERROR"}

LogInit ==
    /\ counter = 0
    /\ maxSize \in Sizes
    /\ messages = <<>>
    /\ listeners = [l \in Listener |-> 0]
    /\ total = 0
    /\ logged = <<>>
    /\ telling = <<>>
    /\ heard = [l \in Listener |-> <<>>]

-----------------------------------------------------------------------------
Newest(s, n) == SubSeq(s, IF Len(s) > n THEN Len(s) - n + 1 ELSE 1, Len(s))

\* Of the messages that are told: the last one's listeners are told first.
Telling == telling[Len(telling)]

\* While listeners are told, it is the one told last that calls.
LogCall == telling # <<>> => Telling.told # {}

\* logLevelAtLeast
Wants(l, msg) == listeners[l] > 0 /\ LogLevel[msg.level] >= listeners[l]

\* A message: its number, its level, which one it is, and those that were being told.
baseLog(level) ==
    LET msg == [num |-> counter, level |-> level, is |-> total + 1,
                during |-> {telling[k].msg.is : k \in DOMAIN telling}]
    IN  /\ LogCall
        /\ total < MaxLogged
        /\ messages' = Append(messages, msg)
        /\ logged' = Append(logged, msg)
        /\ total' = total + 1
        /\ telling' = Append(telling, [msg |-> msg, told |-> {},
                                       todo |-> {l \in Listener : listeners[l] > 0}])
        /\ heard' = IF telling = <<>> THEN [l \in Listener |-> <<>>] ELSE heard
        /\ UNCHANGED <<counter, maxSize, listeners>>

\* l has been told, after those that were passed over.
TellOne(m, l, passed) == [m EXCEPT !.todo = @ \ ({l} \union passed), !.told = @ \union {l}]

\* dispatchListeners passes over those that do not want the message.
Tell(l) ==
    /\ telling # <<>>
    /\ l \in Telling.todo
    /\ Wants(l, Telling.msg)
    /\ \E passed \in SUBSET {k \in Telling.todo : ~Wants(k, Telling.msg)} :
           telling' = [telling EXCEPT ![Len(telling)] = TellOne(@, l, passed)]
    /\ heard' = [heard EXCEPT ![l] = Append(@, Telling.msg.is)]
    /\ UNCHANGED <<counter, maxSize, messages, listeners, total, logged>>

\* (Mutant: off by one.)
EndOfMessageOneLess ==
    /\ telling # <<>>
    /\ \A l \in Telling.todo : ~Wants(l, Telling.msg)
    /\ telling' = Front(telling)
    /\ counter' = counter + 1
    /\ messages' = IF maxSize >= 0 THEN Newest(messages, maxSize - 1) ELSE messages
    /\ UNCHANGED <<maxSize, listeners, total, logged, heard>>

\* The counter is increased when the listeners have been told.
EndOfMessage ==
    /\ telling # <<>>
    /\ \A l \in Telling.todo : ~Wants(l, Telling.msg)
    /\ telling' = Front(telling)
    /\ counter' = counter + 1
    /\ messages' = IF maxSize >= 0 THEN Newest(messages, maxSize) ELSE messages
    /\ UNCHANGED <<maxSize, listeners, total, logged, heard>>

\* One that is new may be come to by the messages that have not told it.
addListener(l, level) ==
    /\ LogCall
    /\ listeners' = [listeners EXCEPT ![l] = LogLevel[level]]
    /\ \E join \in SUBSET {k \in DOMAIN telling : l \notin telling[k].told} :
           telling' = [k \in DOMAIN telling |->
                         IF k \in join THEN [telling[k] EXCEPT !.todo = @ \union {l}] ELSE telling[k]]
    /\ UNCHANGED <<counter, maxSize, messages, total, logged, heard>>

removeListener(l) ==
    /\ LogCall
    /\ listeners' = [listeners EXCEPT ![l] = 0]
    /\ telling' = [k \in DOMAIN telling |-> [telling[k] EXCEPT !.todo = @ \ {l}]]
    /\ UNCHANGED <<counter, maxSize, messages, total, logged, heard>>

clear ==
    /\ LogCall
    /\ messages' = <<>>
    /\ logged' = <<>>
    /\ UNCHANGED <<counter, maxSize, listeners, total, telling, heard>>

LogNext ==
    \/ \E level \in Level : baseLog(level)
    \/ \E l \in Listener : Tell(l)
    \/ EndOfMessage
    \/ \E l \in Listener, level \in Level : addListener(l, level)
    \/ \E l \in Listener : removeListener(l)
    \/ clear

LogSpec == LogInit /\ [][LogNext]_logVars

-----------------------------------------------------------------------------
(* Properties. *)

\* baseLog, lines 1584 to 1595: once no message is being told any more, the logger has the
\* last of them, in the order they were logged in, as many as it may; no listener is told one
\* twice; and of two messages with one number, the second was logged while the first was told.
LogExact ==
    /\ telling = <<>> => messages = IF maxSize < 0 THEN logged ELSE Newest(logged, maxSize)
    /\ \A l \in Listener : IsInjective(heard[l])
    /\ \A i, j \in DOMAIN logged :
           i < j /\ logged[i].num = logged[j].num => logged[i].is \in logged[j].during
=============================================================================
