----------------------- MODULE SelectSocketsThreadPool -----------------------
(***************************************************************************)
(* The handler of nio/channel/SelectSocketsThreadPool.java, its ThreadPool *)
(* and its WorkerThreads, together with the loop of SelectSockets.         *)
(***************************************************************************)
EXTENDS SelectSockets

Pooled == handler = "SelectSocketsThreadPool"

\* readDataFromSocket(key): getWorker() returns null, and the key stays ready.
NoWorker(c) ==
    /\ Pooled
    /\ idle = <<>>
    /\ selected' = selected \ {c}
    /\ UNCHANGED <<handler, clientVars, key, interest, watched, wakeup, poolVars, pc, task, buffer, died>>

\* ... or the first idle worker.  (Mutant: idle.get(0) for idle.remove(0).)
PeekWorker(c) ==
    /\ Pooled
    /\ idle # <<>>
    /\ worker' = Head(idle)
    /\ task' = [task EXCEPT ![Loop] = c]
    /\ Goto(Loop, "service")
    /\ UNCHANGED <<handler, clientVars, selectorVars, idle, buffer, died>>

GetWorker(c) ==
    /\ Pooled
    /\ idle # <<>>
    /\ worker' = Head(idle)
    /\ idle' = Tail(idle)
    /\ task' = [task EXCEPT ![Loop] = c]
    /\ Goto(Loop, "service")
    /\ UNCHANGED <<handler, clientVars, selectorVars, buffer, died>>

\* run() is synchronized on the worker: it holds the monitor but in wait().
MonitorFree(w) == pc[w] \in {"new", "waiting", "notified"}

\* worker.serviceChannel(key), synchronized as well.  The notify() wakes the
\* worker only if it waits: before its first wait() it is lost.
\* (Mutants: without line 181; not synchronized.)
ServiceKeepingInterest ==
    /\ pc[Loop] = "service"
    /\ MonitorFree(worker)
    /\ task' = [task EXCEPT ![worker] = task[Loop], ![Loop] = None]
    /\ IF key[task[Loop]] = "cancelled"
       THEN Die("CancelledKeyException") /\ UNCHANGED <<interest, selected>>
       ELSE /\ selected' = selected \ {task[Loop]}
            /\ pc' = [pc EXCEPT ![Loop] = "keys",
                                ![worker] = IF @ = "waiting" THEN "notified" ELSE @]
            /\ UNCHANGED <<died, interest>>
    /\ worker' = None
    /\ UNCHANGED <<handler, clientVars, key, watched, wakeup, idle, buffer>>

ServiceUnsynchronized ==
    /\ pc[Loop] = "service"
    /\ task' = [task EXCEPT ![worker] = task[Loop], ![Loop] = None]
    /\ IF key[task[Loop]] = "cancelled"
       THEN Die("CancelledKeyException") /\ UNCHANGED <<interest, selected>>
       ELSE /\ interest' = interest \ {task[Loop]}
            /\ selected' = selected \ {task[Loop]}
            /\ pc' = [pc EXCEPT ![Loop] = "keys",
                                ![worker] = IF @ = "waiting" THEN "notified" ELSE @]
            /\ UNCHANGED died
    /\ worker' = None
    /\ UNCHANGED <<handler, clientVars, key, watched, wakeup, idle, buffer>>

ServiceChannel ==
    /\ pc[Loop] = "service"
    /\ MonitorFree(worker)
    /\ task' = [task EXCEPT ![worker] = task[Loop], ![Loop] = None]
    /\ IF key[task[Loop]] = "cancelled"
       THEN Die("CancelledKeyException") /\ UNCHANGED <<interest, selected>>
       ELSE /\ interest' = interest \ {task[Loop]}
            /\ selected' = selected \ {task[Loop]}
            /\ pc' = [pc EXCEPT ![Loop] = "keys",
                                ![worker] = IF @ = "waiting" THEN "notified" ELSE @]
            /\ UNCHANGED died
    /\ worker' = None
    /\ UNCHANGED <<handler, clientVars, key, watched, wakeup, idle, buffer>>

-----------------------------------------------------------------------------
(* WorkerThread.run. *)

UnchangedByWait == UNCHANGED <<handler, clientVars, selectorVars, poolVars, task, buffer, died>>

\* The thread is running, takes its monitor and waits.
Start(w) == pc[w] = "new" /\ Goto(w, "waiting") /\ UnchangedByWait

\* wait() may return without a notify().
SpuriousWakeup(w) == pc[w] = "waiting" /\ Goto(w, "notified") /\ UnchangedByWait

\* It returns; "just in case" there is no key it waits again.
\* (Mutant: without lines 143-145.)
AwakeUnchecked(w) == pc[w] = "notified" /\ Goto(w, "read") /\ UnchangedByWait

Awake(w) ==
    /\ pc[w] = "notified"
    /\ Goto(w, IF task[w] = None THEN "waiting" ELSE "read")
    /\ UnchangedByWait

\* key = null, returnWorker(this): the worker still holds its monitor.
Return(w) ==
    /\ pc[w] = "return"
    /\ task' = [task EXCEPT ![w] = None]
    /\ idle' = Append(idle, w)
    /\ Goto(w, "returned")
    /\ UNCHANGED <<handler, clientVars, selectorVars, worker, buffer, died>>

Wait(w) == pc[w] = "returned" /\ Goto(w, "waiting") /\ UnchangedByWait

-----------------------------------------------------------------------------
(* drainChannel in a worker; the same loop in readDataFromSocket of          *)
(* SelectSockets, run by Loop.                                               *)

\* channel.read(buffer) > 0
Read(t) ==
    /\ pc[t] = "read"
    /\ LET c == task[t]
           n == IF Len(inbox[c]) < BufSize THEN Len(inbox[c]) ELSE BufSize IN
       /\ peer[c] # "reset" /\ inbox[c] # <<>>
       /\ buffer' = [buffer EXCEPT ![t] = SubSeq(inbox[c], 1, n)]
       /\ inbox' = [inbox EXCEPT ![c] = SubSeq(@, n + 1, Len(@))]
    /\ Goto(t, "write")
    /\ UNCHANGED <<handler, peer, backlog, sent, echoed, selectorVars, poolVars, task, died>>

\* channel.write(buffer) takes some of it, until nothing remains.
Write(t) ==
    /\ pc[t] = "write"
    /\ LET c == task[t] IN
       /\ peer[c] # "reset"
       /\ \E n \in 1 .. Len(buffer[t]) :
             /\ echoed' = [echoed EXCEPT ![c] = @ \o SubSeq(buffer[t], 1, n)]
             /\ buffer' = [buffer EXCEPT ![t] = SubSeq(@, n + 1, Len(@))]
             /\ Goto(t, IF n = Len(buffer[t]) THEN "read" ELSE "write")
    /\ UNCHANGED <<handler, peer, backlog, sent, inbox, selectorVars, poolVars, task, died>>

\* The loop's it.remove() after the handler.
Handled(c) ==
    /\ selected' = selected \ {c}
    /\ task' = [task EXCEPT ![Loop] = None]
    /\ Goto(Loop, "keys")

\* read returned 0: a worker switches OP_READ on again ...
Drained(t) ==
    /\ pc[t] = "read"
    /\ inbox[task[t]] = <<>> /\ peer[task[t]] = "open"
    /\ IF t = Loop
       THEN Handled(task[t]) /\ UNCHANGED interest
       ELSE interest' = interest \cup {task[t]} /\ Goto(t, "wakeup") /\ UNCHANGED <<selected, task>>
    /\ UNCHANGED <<handler, clientVars, key, watched, wakeup, poolVars, buffer, died>>

\* ... and nudges the selector.  (Mutant: without line 226.)
NoWakeup(w) ==
    /\ pc[w] = "wakeup"
    /\ Goto(w, "return")
    /\ UNCHANGED <<handler, clientVars, selectorVars, poolVars, task, buffer, died>>

Wakeup(w) ==
    /\ pc[w] = "wakeup"
    /\ wakeup' = "pending"
    /\ Goto(w, "return")
    /\ UNCHANGED <<handler, clientVars, key, interest, watched, selected, poolVars, task, buffer, died>>

\* read returned -1: the channel is closed, which cancels its key.
EndOfStream(t) ==
    /\ pc[t] = "read"
    /\ inbox[task[t]] = <<>> /\ peer[task[t]] = "fin"
    /\ key' = [key EXCEPT ![task[t]] = "cancelled"]
    /\ IF t = Loop
       THEN Handled(task[t])
       ELSE Goto(t, "return") /\ UNCHANGED <<selected, task>>
    /\ UNCHANGED <<handler, clientVars, interest, watched, wakeup, poolVars, buffer, died>>

\* read or write throws IOException.  A worker closes the channel and nudges
\* the selector; out of SelectSockets' handler the exception ends go().
ConnectionReset(t) ==
    /\ pc[t] \in Draining
    /\ peer[task[t]] = "reset"
    /\ buffer' = [buffer EXCEPT ![t] = <<>>]
    /\ IF t = Loop
       THEN Die("IOException") /\ UNCHANGED key
       ELSE /\ key' = [key EXCEPT ![task[t]] = "cancelled"]
            /\ Goto(t, "wakeup")
            /\ UNCHANGED died
    /\ UNCHANGED <<handler, clientVars, interest, watched, wakeup, selected, poolVars, task>>

Drain(t) == Read(t) \/ Write(t) \/ Drained(t) \/ EndOfStream(t) \/ ConnectionReset(t)

-----------------------------------------------------------------------------
\* The loop reaches a client's key.  isAcceptable() throws when the key is
\* cancelled; no key here is the listening one, and isReadable() is true.
Handle(c) ==
    /\ pc[Loop] = "keys" /\ c \in selected
    /\ IF key[c] = "cancelled"
       THEN /\ Die("CancelledKeyException")
            /\ UNCHANGED <<handler, clientVars, selectorVars, poolVars, task, buffer>>
       ELSE ReadDataFromSocket(c) \/ NoWorker(c) \/ GetWorker(c)

LoopStep ==
    \/ Select \/ SelectReturns \/ BatchDone \/ ServiceChannel \/ Drain(Loop)
    \/ \E c \in Conn : Accept(c) \/ AcceptNull(c) \/ Handle(c)

WorkerStep(w) == Start(w) \/ Awake(w) \/ Drain(w) \/ Wakeup(w) \/ Return(w) \/ Wait(w)

Next ==
    \/ Client
    \/ LoopStep
    \/ \E w \in Workers : WorkerStep(w) \/ SpuriousWakeup(w)

Spec == Init /\ [][Next]_vars

\* The loop and the workers are scheduled, and clients read what is written to
\* them.  Nothing makes a client speak or leave, or wait() return by itself.
Fairness == WF_vars(LoopStep) /\ \A w \in Workers : WF_vars(WorkerStep(w))

FairSpec == Spec /\ Fairness

-----------------------------------------------------------------------------
(* Why it holds: the invariant the proofs use. *)

\* Worker w has key c to serve, its OP_READ not yet switched on again.
Serving(w, c) == task[w] = c /\ pc[w] \in {"new", "waiting", "notified"} \cup Draining

\* Only the loop of SelectSockets drains, only a pool's workers do.
ByHandler ==
    IF Pooled THEN pc[Loop] \notin Draining
    ELSE /\ pc[Loop] # "service"
         /\ \A w \in Workers : task[w] = None /\ pc[w] \in {"new", "waiting", "notified"}

\* Who has something to do with a key has one.
Tasks ==
    /\ \A w \in Workers : pc[w] \in Draining \cup {"wakeup", "return"} => task[w] # None
    /\ \A w \in Workers : pc[w] = "returned" => task[w] = None
    /\ pc[Loop] \in Draining \cup {"service"} => task[Loop] # None /\ task[Loop] \in selected
    /\ worker # None <=> pc[Loop] = "service"
    /\ worker # None => task[worker] = None

\* A channel has a key from accept() on.
Accepted ==
    /\ \A c \in backlog : key[c] = "none" /\ peer[c] # "none"
    /\ \A c \in Conn : peer[c] = "none" => key[c] = "none"

\* What the selector looks at and what it has found is valid, and in the pool's
\* version of interest.
InView ==
    /\ \A c \in (watched \cup selected) \ {Server} :
          key[c] = "valid" /\ (Pooled => c \in interest)
    /\ watched # {} => pc[Loop] = "selecting"
    /\ selected # {} => pc[Loop] \in {"keys", "service", "dead"} \cup Draining

\* What is served is out of view, and by one worker; what is out of view is
\* served.
OutOfView ==
    /\ \A w \in Workers, c \in Conn : Serving(w, c) => key[c] = "valid" /\ c \notin interest
    /\ \A v, w \in Workers, c \in Conn : Serving(v, c) /\ Serving(w, c) => v = w
    /\ \A c \in Conn : key[c] = "valid" /\ c \notin interest => \E w \in Workers : Serving(w, c)

-----------------------------------------------------------------------------
(* Properties. *)

\* In the pool's version a key is out of the selector's sight exactly while one
\* worker serves it: never two on one channel, and no key is forgotten.
InterestExact ==
    handler = "SelectSocketsThreadPool" =>
        \A c \in Conn : key[c] = "valid" =>
            Cardinality({w \in Workers : Serving(w, c)}) = IF c \in interest THEN 0 ELSE 1

\* The list holds every worker without a key once, but for the one the loop is
\* about to give a key to.
IdleExact ==
    /\ \A i, j \in DOMAIN idle : idle[i] = idle[j] => i = j
    /\ \A w \in Workers :
          (\E i \in DOMAIN idle : idle[i] = w) <=> task[w] = None /\ worker # w

\* The loop and the workers agree on who may touch which key, in every order of
\* their steps.
Custody ==
    /\ TypeOK /\ ByHandler /\ Tasks /\ Accepted /\ InView /\ OutOfView /\ IdleExact
    /\ died # "CancelledKeyException"

\* What a client sent, in its order: echoed, in one thread's buffer, or unread.
\* Nothing is lost, doubled or overtaken, whoever drained which part.
EchoInOrder ==
    \A c \in Conn : peer[c] # "reset" =>
        \E t \in Threads :
            /\ \A u \in Threads \ {t} : task[u] = c => buffer[u] = <<>>
            /\ echoed[c] \o (IF task[t] = c THEN buffer[t] ELSE <<>>) \o inbox[c]
                 = [i \in 1 .. sent[c] |-> i]

\* Workers close channels while the loop goes through the selected keys; it
\* never meets a cancelled one there, which would end it.
NoCancelledKey == died # "CancelledKeyException"

\* No worker was given a key before its first wait().
NotifyHeard == \A w \in Workers : pc[w] = "new" => task[w] = None

\* If so, what clients send is echoed in the end: no notify, no wakeup and no
\* interest is lost later, and a client finding no idle worker is served when
\* there is one; unless its connection breaks, or go() died (liveness).
AllEchoed ==
    []NotifyHeard =>
        \A c \in Conn :
            sent[c] > Len(echoed[c]) ~>
                sent[c] = Len(echoed[c]) \/ peer[c] = "reset" \/ died # "no"

\* What line 58 says of serviceChannel(): it wakes up the worker thread.
WakesWorker ==
    \A w \in Workers :
        task[w] # None ~> pc[w] \in Draining \cup {"wakeup", "return"}
=============================================================================
