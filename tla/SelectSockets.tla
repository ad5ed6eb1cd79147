---------------------------- MODULE SelectSockets ----------------------------
(***************************************************************************)
(* nio/channel/SelectSockets.java, the select loop that echoes what its    *)
(* clients send, and nio/channel/SelectSocketsThreadPool.java, which       *)
(* overrides the handler of readable channels so that the loop passes the  *)
(* key to a worker thread.  (The class does not name its superclass, and   *)
(* its main is commented out; it is modelled as the comment of its handler *)
(* describes it, invoked from go in the parent class.)                     *)
(*                                                                         *)
(* A client's bytes are numbered in the order they are sent.  Java's       *)
(* selector and channels are external: a change of an interest set counts  *)
(* from the next select on, a wakeup ends the current or the next select.  *)
(***************************************************************************)
EXTENDS Naturals, Sequences, FiniteSets

CONSTANTS Conn,     \* the clients' connections
          Workers,  \* the threads of the pool: MAX_THREADS of them
          Loop,     \* the thread in go()
          Server,   \* the key of the listening channel
          None,     \* null
          BufSize,  \* of the ByteBuffer: 1024
          MaxSent   \* bound: the bytes two clients send together

ASSUME NameAssumption ==
    /\ Loop \notin Workers
    /\ Server \notin Conn
    /\ None \notin Conn \cup Workers
ASSUME PoolAssumption == IsFiniteSet(Workers)
ASSUME BoundAssumption == BufSize \in Nat \ {0} /\ MaxSent \in Nat

VARIABLES
    handler,   \* "SelectSockets" or "SelectSocketsThreadPool"
    peer,      \* the client: "none", "open", "fin" (sends no more), "reset"
    backlog,   \* connections not accepted
    sent,      \* how many bytes the client sent
    inbox,     \* bytes the channel has to read
    echoed,    \* bytes the client got back, its greeting aside
    key,       \* SelectionKey: "none", "valid", "cancelled"
    interest,  \* connections whose interest set has OP_READ
    watched,   \* what the select in progress looks at
    wakeup,    \* "pending" when no select has consumed it yet, or "none"
    selected,  \* selectedKeys() the loop has to handle
    worker,    \* the worker the loop passes a key to
    idle,      \* the pool's FIFO list
    pc,        \* where each thread is
    task,      \* the key each thread serves; a worker's field key
    buffer,    \* what each thread has read and not written
    died       \* the exception that ended go(), or "no"

clientVars == <<peer, backlog, sent, inbox, echoed>>
selectorVars == <<key, interest, watched, wakeup, selected>>
poolVars == <<worker, idle>>
vars == <<handler, clientVars, selectorVars, poolVars, pc, task, buffer, died>>

Threads == Workers \cup {Loop}
Draining == {"read", "write"}
LoopPC == {"select", "selecting", "keys", "service", "dead"} \cup Draining
WorkerPC == {"new", "waiting", "notified", "wakeup", "return", "returned"} \cup Draining

\* Every variable has its type, and who drains has a channel.
TypeOK ==
    /\ handler \in {"SelectSockets", "SelectSocketsThreadPool"}
    /\ peer \in [Conn -> {"none", "open", "fin", "reset"}]
    /\ backlog \subseteq Conn
    /\ sent \in [Conn -> 0 .. MaxSent]
    /\ inbox \in [Conn -> Seq(1 .. MaxSent)]
    /\ echoed \in [Conn -> Seq(1 .. MaxSent)]
    /\ key \in [Conn -> {"none", "valid", "cancelled"}]
    /\ interest \subseteq Conn
    /\ watched \subseteq Conn
    /\ wakeup \in {"none", "pending"}
    /\ selected \subseteq Conn \cup {Server}
    /\ worker \in Workers \cup {None}
    /\ idle \in Seq(Workers)
    /\ pc \in [Threads -> LoopPC \cup WorkerPC]
    /\ pc[Loop] \in LoopPC /\ \A w \in Workers : pc[w] \in WorkerPC
    /\ task \in [Threads -> Conn \cup {None}]
    /\ \A t \in Threads : pc[t] \in Draining => task[t] # None
    /\ buffer \in [Threads -> Seq(1 .. MaxSent)]
    /\ died \in {"no", "NullPointerException", "IOException", "CancelledKeyException"}

\* The pool's constructor started the workers, which need not run yet, and put
\* them into the list in this order; go() has registered the listening channel.
Init ==
    /\ handler \in {"SelectSockets", "SelectSocketsThreadPool"}
    /\ peer = [c \in Conn |-> "none"]
    /\ backlog = {}
    /\ sent = [c \in Conn |-> 0]
    /\ inbox = [c \in Conn |-> <<>>]
    /\ echoed = [c \in Conn |-> <<>>]
    /\ key = [c \in Conn |-> "none"]
    /\ interest = {}
    /\ watched = {}
    /\ wakeup = "none"
    /\ selected = {}
    /\ worker = None
    /\ idle \in {f \in [1 .. Cardinality(Workers) -> Workers] :
                    \A i, j \in DOMAIN f : f[i] = f[j] => i = j}
    /\ pc = [t \in Threads |-> IF t = Loop THEN "select" ELSE "new"]
    /\ task = [t \in Threads |-> None]
    /\ buffer = [t \in Threads |-> <<>>]
    /\ died = "no"

Goto(t, label) == pc' = [pc EXCEPT ![t] = label]

\* An exception leaves go().
Die(exception) ==
    /\ died' = exception
    /\ Goto(Loop, "dead")

-----------------------------------------------------------------------------
(* The clients. *)

UnchangedServer == UNCHANGED <<handler, selectorVars, poolVars, pc, task, buffer, died>>

Connect(c) ==
    /\ peer[c] = "none"
    /\ pc[Loop] # "dead"
    /\ peer' = [peer EXCEPT ![c] = "open"]
    /\ backlog' = backlog \cup {c}
    /\ UNCHANGED <<sent, inbox, echoed>>
    /\ UnchangedServer

Send(c) ==
    /\ peer[c] = "open"
    /\ \A d \in Conn \ {c} : sent[c] + sent[d] < MaxSent
    /\ sent[c] < MaxSent
    /\ sent' = [sent EXCEPT ![c] = @ + 1]
    /\ inbox' = [inbox EXCEPT ![c] = Append(@, sent[c] + 1)]
    /\ UNCHANGED <<peer, backlog, echoed>>
    /\ UnchangedServer

\* The client shuts its output down, and still reads.
Finish(c) ==
    /\ peer[c] = "open"
    /\ peer' = [peer EXCEPT ![c] = "fin"]
    /\ UNCHANGED <<backlog, sent, inbox, echoed>>
    /\ UnchangedServer

\* The connection is reset, and what was not read is gone.
Reset(c) ==
    /\ peer[c] \in {"open", "fin"}
    /\ peer' = [peer EXCEPT ![c] = "reset"]
    /\ inbox' = [inbox EXCEPT ![c] = <<>>]
    /\ UNCHANGED <<backlog, sent, echoed>>
    /\ UnchangedServer

Client == \E c \in Conn : Connect(c) \/ Send(c) \/ Finish(c) \/ Reset(c)

-----------------------------------------------------------------------------
(* go() in SelectSockets. *)

\* selector.select() begins: cancelled keys are dropped, the interest sets of
\* the others are what it looks at.
Select ==
    /\ pc[Loop] = "select"
    /\ watched' = {c \in interest : key[c] = "valid"}
    /\ Goto(Loop, "selecting")
    /\ UNCHANGED <<handler, clientVars, key, interest, wakeup, selected, poolVars, task, buffer, died>>

Ready(c) == key[c] = "valid" /\ (inbox[c] # <<>> \/ peer[c] \in {"fin", "reset"})

\* ... and returns the ready keys, or none of them after a wakeup: n == 0.
SelectReturns ==
    /\ pc[Loop] = "selecting"
    /\ selected' = {c \in watched : Ready(c)} \cup (IF backlog # {} THEN {Server} ELSE {})
    /\ selected' # {} \/ wakeup = "pending"
    /\ wakeup' = "none"
    /\ watched' = {}
    /\ Goto(Loop, IF selected' = {} THEN "select" ELSE "keys")
    /\ UNCHANGED <<handler, clientVars, key, interest, poolVars, task, buffer, died>>

\* The listening key: accept(), registerChannel and sayHello, whose write may
\* fail when the client is gone.
Accept(c) ==
    /\ pc[Loop] = "keys" /\ Server \in selected
    /\ c \in backlog
    /\ backlog' = backlog \ {c}
    /\ key' = [key EXCEPT ![c] = "valid"]
    /\ interest' = interest \cup {c}
    /\ selected' = selected \ {Server}
    /\ \/ UNCHANGED <<pc, died>>
       \/ peer[c] = "reset" /\ Die("IOException")
    /\ UNCHANGED <<handler, peer, sent, inbox, echoed, watched, wakeup, poolVars, task, buffer>>

\* The connection was reset before: accept() may return null, which
\* registerChannel expects ("could happen") and sayHello does not.
AcceptNull(c) ==
    /\ pc[Loop] = "keys" /\ Server \in selected
    /\ c \in backlog /\ peer[c] = "reset"
    /\ backlog' = backlog \ {c}
    /\ Die("NullPointerException")
    /\ UNCHANGED <<handler, peer, sent, inbox, echoed, selectorVars, poolVars, task, buffer>>

\* readDataFromSocket(key) of SelectSockets: this thread drains the channel.
ReadDataFromSocket(c) ==
    /\ handler = "SelectSockets"
    /\ task' = [task EXCEPT ![Loop] = c]
    /\ Goto(Loop, "read")
    /\ UNCHANGED <<handler, clientVars, selectorVars, poolVars, buffer, died>>

\* it.hasNext() is false.
BatchDone ==
    /\ pc[Loop] = "keys" /\ selected = {}
    /\ Goto(Loop, "select")
    /\ UNCHANGED <<handler, clientVars, selectorVars, poolVars, task, buffer, died>>
=============================================================================
