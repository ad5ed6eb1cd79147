--------------------------- MODULE MochiKitSignal ---------------------------
(***************************************************************************)
(* MochiKit.Signal: observers of elements, whom the browser calls, and of  *)
(* plain objects; the list that remembers them all, which handlers change  *)
(* while a signal is delivered along it; and what an event says of the     *)
(* button or the key, which each browser says in a way of its own.         *)
(***************************************************************************)
EXTENDS Integers, Sequences, FiniteSets, SequencesExt

CONSTANTS Elements,   \* of the document, with listeners of their own
          Objects,    \* plain ones
          Sig,
          Func,       \* the handlers' functions
          MaxObserver \* bounds the observers a page makes

VARIABLES
    observers,  \* _observers
    unloaded,   \* 0, or when that was deleted the number of the next observer
    listening,  \* element -> the listeners the browser has
    made,       \* how many observers were made
    clearing,   \* the loop of disconnectAll: the place it is at, 0 when it is over
    sending,    \* the signal that is delivered, or the last one
    seen        \* what the last event was, and what a handler was told
signalVars == <<observers, unloaded, listening, made, clearing, sending, seen>>

Matches(o, src, sig) == o.src = src /\ o.sig = sig

NoClearing == [at |-> 0, src |-> "none", sigs |-> {}]

\* Of a signal: whether it is over, the place the loop is at, those called, those that were
\* to be called when it began, and how many were disconnected since.
NoSignal ==
    [src |-> "none", sig |-> "none", over |-> TRUE, at |-> 1, called |-> <<>>, before |-> {},
     removed |-> 0]

SignalInit ==
    /\ observers = <<>>
    /\ unloaded = 0
    /\ listening = [e \in Elements |-> {}]
    /\ made = 0
    /\ clearing = NoClearing
    /\ sending = NoSignal
    /\ seen = <<>>

\* While a signal is delivered it is the handler called last that calls.  A signal of its
\* own is to the one it is called for nothing but the calls that handlers make.
SignalCall == clearing.at = 0 /\ (sending.over \/ sending.called # <<>>)

\* A call of the page after the signal is over forgets it.
Sending(removals) ==
    sending' = IF sending.over THEN NoSignal ELSE [sending EXCEPT !.removed = @ + removals]

-----------------------------------------------------------------------------
(* The list.                                                               *)

\* After the list is deleted the listener is added and the push fails.
connect(src, sig, func) ==
    LET o == [id |-> made + 1, src |-> src, sig |-> sig, func |-> func] IN
    /\ SignalCall
    /\ made < MaxObserver
    /\ made' = made + 1
    /\ listening' = IF src \in Elements THEN [listening EXCEPT ![src] = @ \union {o}] ELSE listening
    /\ observers' = IF unloaded > 0 THEN observers ELSE Append(observers, o)
    /\ Sending(0)
    /\ seen' = <<>>
    /\ UNCHANGED <<unloaded, clearing>>

\* _disconnect: the browser no longer calls o.
Unlistened(o) ==
    IF o.src \in Elements THEN [listening EXCEPT ![o.src] = @ \ {o}] ELSE listening

\* (Mutant: forgotten, and still called by the browser.)
DisconnectedListening(i) ==
    /\ observers' = RemoveAt(observers, i)
    /\ UNCHANGED listening
    /\ Sending(1)

\* (Mutant: the next one goes with it.)
DisconnectedTwo(i) ==
    /\ listening' = Unlistened(observers[i])
    /\ observers' = IF i < Len(observers) THEN RemoveAt(RemoveAt(observers, i), i)
                    ELSE RemoveAt(observers, i)
    /\ Sending(1)

\* The i-th of the list goes, and those after it move up.
Disconnected(i) ==
    /\ listening' = Unlistened(observers[i])
    /\ observers' = RemoveAt(observers, i)
    /\ Sending(1)

disconnect(i) ==
    /\ SignalCall
    /\ Disconnected(i)
    /\ seen' = <<>>
    /\ UNCHANGED <<unloaded, made, clearing>>

\* By what it was connected with: the last such goes.
disconnectLike(src, sig, func) ==
    /\ SignalCall
    /\ LET Like(o) == Matches(o, src, sig) /\ o.func = func IN
       \E i \in DOMAIN observers :
          /\ Like(observers[i])
          /\ \A j \in i + 1 .. Len(observers) : ~Like(observers[j])
          /\ Disconnected(i)
    /\ seen' = <<>>
    /\ UNCHANGED <<unloaded, made, clearing>>

\* No sigs stands for all of them.
disconnectAll(src, sigs) ==
    /\ SignalCall
    /\ observers # <<>>
    /\ clearing' = [at |-> Len(observers), src |-> src, sigs |-> sigs]
    /\ Sending(0)
    /\ seen' = <<>>
    /\ UNCHANGED <<observers, unloaded, listening, made>>

\* From the end to the beginning, so that those which move up have been looked at.
DisconnectNext ==
    /\ clearing.at > 0
    /\ LET o == observers[clearing.at] IN
       IF o.src = clearing.src /\ (clearing.sigs = {} \/ o.sig \in clearing.sigs)
       THEN Disconnected(clearing.at)
       ELSE UNCHANGED <<observers, listening, sending>>
    /\ clearing' = IF clearing.at = 1 THEN NoClearing ELSE [clearing EXCEPT !.at = @ - 1]
    /\ UNCHANGED <<unloaded, made, seen>>

_unloadCache ==
    /\ clearing.at = 0 /\ sending.over
    /\ unloaded = 0
    /\ unloaded' = made + 1
    /\ listening' = [e \in Elements |-> listening[e] \ Range(observers)]
    /\ observers' = <<>>
    /\ sending' = NoSignal
    /\ seen' = <<>>
    /\ UNCHANGED <<made, clearing>>

-----------------------------------------------------------------------------
(* A signal goes along the list as it is at each step; an error of a handler   *)
(* is kept for the end.                                                        *)

signal(src, sig) ==
    /\ clearing.at = 0 /\ sending.over
    /\ unloaded = 0
    /\ sending' = [NoSignal EXCEPT !.src = src, !.sig = sig, !.over = FALSE,
                      !.before = {o.id : o \in {p \in Range(observers) : Matches(p, src, sig)}}]
    /\ seen' = <<>>
    /\ UNCHANGED <<observers, unloaded, listening, made, clearing>>

\* The places from the loop's on that are to be called.
ToCall == {i \in sending.at .. Len(observers) : Matches(observers[i], sending.src, sending.sig)}

Deliver ==
    /\ clearing.at = 0 /\ ~sending.over
    /\ \E i \in ToCall :
          /\ \A j \in ToCall : i <= j
          /\ sending' = [sending EXCEPT !.at = i + 1, !.called = Append(@, observers[i].id)]
    /\ UNCHANGED <<observers, unloaded, listening, made, clearing, seen>>

EndOfSignal ==
    /\ clearing.at = 0 /\ ~sending.over
    /\ ToCall = {}
    /\ sending' = [sending EXCEPT !.over = TRUE]
    /\ UNCHANGED <<observers, unloaded, listening, made, clearing, seen>>

-----------------------------------------------------------------------------
(* What an event says.  A browser gives which (1 left, 2 middle, 3 right) or   *)
(* button (1 left, 2 right, 4 middle); of a pressed key charCode, which may be *)
(* undefined, or 0, or a code of its own for a special key, or keyCode.        *)

Undefined == -1
Bit(n, b) == (n \div b) % 2 = 1

mouse(e) ==
    IF e.which > 0
    THEN {b \in {"left", "middle", "right"} :
            e.which = CASE b = "left" -> 1 [] b = "middle" -> 2 [] b = "right" -> 3}
    ELSE {b \in {"left", "middle", "right"} :
            Bit(e.button, CASE b = "left" -> 1 [] b = "right" -> 2 [] b = "middle" -> 4)}

\* (Mutant: a special key's own code taken for a character.)
keypressOfAny(e) ==
    IF e.charCode \notin {Undefined, 0} THEN e.charCode
    ELSE IF e.keyCode # 0 /\ e.charCode = Undefined THEN e.keyCode
    ELSE 0

MacArrow == 63234
Arrow == 37
keypress(e) ==
    IF e.charCode \notin {Undefined, 0, MacArrow} THEN e.charCode
    ELSE IF e.keyCode # 0 /\ e.charCode = Undefined THEN e.keyCode
    ELSE 0

\* What a browser says of a button, and of a key with character c (0: an arrow).
MouseEvent(browser, button) ==
    CASE browser = "ie" -> [which |-> 0, button |->
             CASE button = "left" -> 1 [] button = "right" -> 2 [] button = "middle" -> 4]
      [] OTHER -> [which |-> CASE button = "left" -> 1 [] button = "middle" -> 2
                               [] button = "right" -> 3,
                   button |-> CASE button = "left" -> 0 [] button = "middle" -> 1
                               [] button = "right" -> 2]
KeyEvent(browser, c) ==
    CASE browser = "ie"      -> [charCode |-> Undefined, keyCode |-> c]
      [] browser = "mozilla" -> [charCode |-> c, keyCode |-> IF c = 0 THEN Arrow ELSE 0]
      [] browser = "safari"  -> [charCode |-> IF c = 0 THEN MacArrow ELSE c, keyCode |-> c]

-----------------------------------------------------------------------------
\* The user presses a button or a key over an element someone listens to.  What the
\* listeners call in turn, a page may call at any time.
Event(src, sig, browser, pressed) ==
    /\ clearing.at = 0 /\ sending.over
    /\ \E o \in listening[src] : o.sig = sig
    /\ seen' = <<pressed, IF pressed[1] = "button" THEN mouse(MouseEvent(browser, pressed[2]))
                          ELSE {keypress(KeyEvent(browser, pressed[2]))}>>
    /\ sending' = NoSignal
    /\ UNCHANGED <<observers, unloaded, listening, made, clearing>>

Pressed == {"button"} \X {"left", "middle", "right"} \union {"key"} \X {0, 97}

SignalNext ==
    \/ \E src \in Elements \union Objects, sig \in Sig, f \in Func : connect(src, sig, f)
    \/ \E i \in DOMAIN observers : disconnect(i)
    \/ \E src \in Elements \union Objects, sig \in Sig, f \in Func : disconnectLike(src, sig, f)
    \/ \E src \in Elements \union Objects, sigs \in SUBSET Sig : disconnectAll(src, sigs)
    \/ DisconnectNext
    \/ _unloadCache
    \/ \E src \in Elements \union Objects, sig \in Sig : signal(src, sig)
    \/ Deliver
    \/ EndOfSignal
    \/ \E src \in Elements, sig \in Sig, browser \in {"ie", "mozilla", "safari"},
          pressed \in Pressed : Event(src, sig, browser, pressed)

SignalSpec == SignalInit /\ [][SignalNext]_signalVars

-----------------------------------------------------------------------------
(* Properties. *)

\* Lines 4237 to 4348: the browser calls exactly the observers the list remembers, so
\* that none can be left behind that no call could disconnect; until the list is
\* deleted, and then those connected before are gone.
ListenersRecorded ==
    \A e \in Elements :
        IF unloaded > 0 THEN \A o \in listening[e] : o.id >= unloaded
        ELSE listening[e] = {o \in Range(observers) : o.src = e}

\* signal, lines 4349 to 4373: no observer is called twice for one signal; those that are,
\* in the order they were connected in; and of those that were to be called at most as many
\* are missed as were disconnected by handlers meanwhile, whose places others have moved up
\* into; an error of one handler keeps no other from being called.
DeliveredOnce ==
    /\ \A i, j \in DOMAIN sending.called : i < j => sending.called[i] < sending.called[j]
    /\ sending.over => Cardinality(sending.before \ Range(sending.called)) <= sending.removed

\* mouse and key, lines 4056 to 4183: a handler is told the same of a button, or of a
\* character, in every browser, and no character for an arrow.
BrowsersAgree == seen # <<>> => seen[2] = {seen[1][2]}
=============================================================================
