------------------------- MODULE SelectSocketsProofs -------------------------
(***************************************************************************)
(* Proofs about SelectSockets and SelectSocketsThreadPool, for every set   *)
(* of connections, every pool, every buffer and every number of bytes.     *)
(***************************************************************************)
EXTENDS SelectSocketsThreadPool, FiniteSetTheorems, SequenceTheorems, TLAPS

USE NameAssumption, PoolAssumption, BoundAssumption

\* Cutting a sequence in two.
LEMMA Pieces ==
    ASSUME NEW S, NEW s \in Seq(S), NEW n \in 1 .. Len(s)
    PROVE  /\ SubSeq(s, 1, n) \in Seq(S)
           /\ SubSeq(s, n + 1, Len(s)) \in Seq(S)
           /\ SubSeq(s, 1, n) \o SubSeq(s, n + 1, Len(s)) = s
           /\ n = Len(s) => SubSeq(s, n + 1, Len(s)) = <<>>
<1>0. Len(s) \in Nat
  BY LenProperties
<1>1. \A i \in 1 .. n : s[i] \in S
  BY ElementOfSeq
<1>2. \A i \in n + 1 .. Len(s) : s[i] \in S
  BY ElementOfSeq
<1>3. SubSeq(s, 1, n) \in Seq(S) /\ SubSeq(s, n + 1, Len(s)) \in Seq(S)
  BY <1>1, <1>2, SubSeqProperties, LenProperties
<1>4. SubSeq(s, 1, n) \o SubSeq(s, n + 1, Len(s)) = SubSeq(s, 1, Len(s))
  <2>1. 1 \in 1 .. Len(s) + 1 /\ n \in 1 - 1 .. Len(s) /\ Len(s) \in n .. Len(s)
    BY <1>0
  <2> QED BY <2>1, ConcatAdjacentSubSeq
<1>5. n = Len(s) => SubSeq(s, n + 1, Len(s)) = <<>>
  BY <1>0, SubSeqEmpty
<1> QED BY <1>3, <1>4, <1>5, SubSeqFull

-----------------------------------------------------------------------------
(* Types. *)

LEMMA InitType == Init => TypeOK
<1> SUFFICES ASSUME Init PROVE TypeOK
  OBVIOUS
<1>1. idle \in Seq(Workers)
  BY FS_CardinalityType DEF Init
<1> QED BY <1>1 DEF Init, TypeOK, Threads, LoopPC, WorkerPC, Draining

\* The clients' steps.
LEMMA ClientType == ASSUME TypeOK, Client PROVE TypeOK'
<1>1. PICK c \in Conn : Connect(c) \/ Send(c) \/ Finish(c) \/ Reset(c)
  BY DEF Client
<1>2. /\ peer' \in [Conn -> {"none", "open", "fin", "reset"}]
      /\ backlog' \subseteq Conn
  BY <1>1, ZenonT(60) DEF TypeOK, Connect, Send, Finish, Reset
<1>3. /\ sent' \in [Conn -> 0 .. MaxSent]
      /\ inbox' \in [Conn -> Seq(1 .. MaxSent)]
  <2>1. CASE Connect(c) \/ Finish(c)
    BY <2>1 DEF TypeOK, Connect, Finish
  <2>2. CASE Reset(c)
    <3>1. <<>> \in Seq(1 .. MaxSent)
      OBVIOUS
    <3> QED BY <2>2, <3>1 DEF TypeOK, Reset
  <2>3. CASE Send(c)
    <3>1. sent[c] + 1 \in 1 .. MaxSent
      BY <2>3 DEF TypeOK, Send
    <3>2. Append(inbox[c], sent[c] + 1) \in Seq(1 .. MaxSent)
      BY <3>1, AppendProperties DEF TypeOK
    <3> QED BY <2>3, <3>1, <3>2 DEF TypeOK, Send
  <2> QED BY <1>1, <2>1, <2>2, <2>3
<1>4. UNCHANGED <<echoed, handler, selectorVars, poolVars, pc, task, buffer, died>>
  BY <1>1 DEF Connect, Send, Finish, Reset, UnchangedServer
<1> QED BY <1>2, <1>3, <1>4 DEF TypeOK, selectorVars, poolVars

\* What TypeOK says of the threads.
ThreadsOK ==
    /\ pc \in [Threads -> LoopPC \cup WorkerPC]
    /\ pc[Loop] \in LoopPC /\ \A w \in Workers : pc[w] \in WorkerPC
    /\ task \in [Threads -> Conn \cup {None}]
    /\ \A t \in Threads : pc[t] \in Draining => task[t] # None

\* One thread moves on, to where it need not have a key.
LEMMA Moves ==
    ASSUME TypeOK, NEW t \in Threads, NEW label, Goto(t, label),
           label \in (IF t = Loop THEN LoopPC ELSE WorkerPC) \ Draining,
           UNCHANGED task \/ task' = [task EXCEPT ![t] = None]
    PROVE  ThreadsOK'
<1>1. pc' \in [Threads -> LoopPC \cup WorkerPC] /\ task' \in [Threads -> Conn \cup {None}]
  BY DEF TypeOK, Goto
<1>2. \A u \in Threads : u # t => pc'[u] = pc[u] /\ task'[u] = task[u]
  BY DEF TypeOK, Goto
<1>3. pc'[t] = label
  BY DEF TypeOK, Goto
<1>4. pc'[Loop] \in LoopPC /\ \A w \in Workers : pc'[w] \in WorkerPC
  BY <1>2, <1>3 DEF TypeOK, Threads
<1>5. \A u \in Threads : pc'[u] \in Draining => task'[u] # None
  BY <1>2, <1>3 DEF TypeOK
<1> QED BY <1>1, <1>4, <1>5 DEF ThreadsOK

\* The loop's own steps.
LEMMA LoopType == ASSUME TypeOK, LoopStep, ~ Drain(Loop) PROVE TypeOK'
<1> USE DEF TypeOK, Goto, Die, Threads, LoopPC, WorkerPC, Draining, clientVars, selectorVars, poolVars
<1>1. CASE Select
  BY <1>1 DEF Select
<1>2. CASE SelectReturns
  BY <1>2 DEF SelectReturns
<1>3. CASE BatchDone
  BY <1>3 DEF BatchDone
<1>4. CASE ServiceChannel
  <2>1. /\ pc[Loop] = "service" /\ MonitorFree(worker)
        /\ task' = [task EXCEPT ![worker] = task[Loop], ![Loop] = None]
        /\ worker' = None
        /\ UNCHANGED <<handler, clientVars, key, watched, wakeup, idle, buffer>>
    BY <1>4 DEF ServiceChannel
  <2>2. CASE key[task[Loop]] = "cancelled"
    <3>1. Die("CancelledKeyException") /\ UNCHANGED <<interest, selected>>
      BY <1>4, <2>2 DEF ServiceChannel
    <3> QED BY <2>1, <3>1 DEF MonitorFree
  <2>3. CASE key[task[Loop]] # "cancelled"
    <3>1. /\ selected' = selected \ {task[Loop]}
          /\ pc' = [pc EXCEPT ![Loop] = "keys",
                              ![worker] = IF @ = "waiting" THEN "notified" ELSE @]
          /\ interest' = interest \ {task[Loop]}
          /\ UNCHANGED died
      BY <1>4, <2>3 DEF ServiceChannel
    <3> QED BY <2>1, <3>1 DEF MonitorFree
  <2> QED BY <2>2, <2>3
<1>5. ASSUME NEW c \in Conn, Accept(c) \/ AcceptNull(c) PROVE TypeOK'
  <2>1. CASE Accept(c)
    BY <2>1 DEF Accept
  <2>2. CASE AcceptNull(c)
    BY <2>2 DEF AcceptNull
  <2> QED BY <1>5, <2>1, <2>2
<1>6. ASSUME NEW c \in Conn, Handle(c) PROVE TypeOK'
  <2>1. CASE ReadDataFromSocket(c)
    BY <2>1 DEF ReadDataFromSocket
  <2>2. CASE NoWorker(c)
    BY <2>2 DEF NoWorker
  <2>3. CASE GetWorker(c)
    <3>1. Head(idle) \in Workers /\ Tail(idle) \in Seq(Workers)
      BY <2>3 DEF GetWorker
    <3> QED BY <2>3, <1>6, <3>1 DEF GetWorker, Handle
  <2> QED BY <1>6, <2>1, <2>2, <2>3, ZenonT(60) DEF Handle
<1> QED BY <1>1, <1>2, <1>3, <1>4, <1>5, <1>6 DEF LoopStep

\* A worker's own steps.
LEMMA WorkerType ==
    ASSUME TypeOK, NEW w \in Workers, WorkerStep(w) \/ SpuriousWakeup(w), ~ Drain(w)
    PROVE  TypeOK'
<1> USE DEF TypeOK, Goto, Threads, LoopPC, WorkerPC, Draining, clientVars, selectorVars, poolVars
<1>1. CASE Start(w) \/ Wait(w) \/ SpuriousWakeup(w)
  <2>1. ThreadsOK'
    BY <1>1, Moves DEF Start, Wait, SpuriousWakeup, UnchangedByWait
  <2> QED BY <1>1, <2>1 DEF Start, Wait, SpuriousWakeup, UnchangedByWait, ThreadsOK
<1>4. CASE Awake(w)
  BY <1>4 DEF Awake, UnchangedByWait
<1>2. CASE Wakeup(w)
  BY <1>2 DEF Wakeup
<1>3. CASE Return(w)
  <2>1. Append(idle, w) \in Seq(Workers)
    OBVIOUS
  <2> QED BY <1>3, <2>1 DEF Return
<1> QED BY <1>1, <1>2, <1>3, <1>4 DEF WorkerStep

\* Draining a channel, in either thread.
LEMMA DrainType == ASSUME TypeOK, NEW t \in Threads, Drain(t) PROVE TypeOK'
<1> USE DEF Draining
<1> DEFINE c == task[t]
<1>1. c \in Conn /\ inbox[c] \in Seq(1 .. MaxSent) /\ buffer[t] \in Seq(1 .. MaxSent)
  BY DEF TypeOK, Drain, Read, Write, Drained, EndOfStream, ConnectionReset
<1>2. CASE Read(t)
  <2> DEFINE n == IF Len(inbox[c]) < BufSize THEN Len(inbox[c]) ELSE BufSize
  <2>1. n \in 1 .. Len(inbox[c])
    BY <1>1, <1>2, EmptySeq, LenProperties DEF Read
  <2>2. /\ SubSeq(inbox[c], 1, n) \in Seq(1 .. MaxSent)
        /\ SubSeq(inbox[c], n + 1, Len(inbox[c])) \in Seq(1 .. MaxSent)
    BY <1>1, <2>1, Pieces
  <2>3. /\ buffer' \in [Threads -> Seq(1 .. MaxSent)]
        /\ inbox' \in [Conn -> Seq(1 .. MaxSent)]
    BY <1>2, <2>2 DEF Read, TypeOK
  <2> QED BY <1>1, <1>2, <2>3 DEF Read, TypeOK, Goto, Threads, LoopPC, WorkerPC, selectorVars, poolVars
<1>3. CASE Write(t)
  <2>1. PICK n \in 1 .. Len(buffer[t]) :
           /\ echoed' = [echoed EXCEPT ![c] = @ \o SubSeq(buffer[t], 1, n)]
           /\ buffer' = [buffer EXCEPT ![t] = SubSeq(@, n + 1, Len(@))]
           /\ Goto(t, IF n = Len(buffer[t]) THEN "read" ELSE "write")
    BY <1>3 DEF Write
  <2>2. /\ SubSeq(buffer[t], 1, n) \in Seq(1 .. MaxSent)
        /\ SubSeq(buffer[t], n + 1, Len(buffer[t])) \in Seq(1 .. MaxSent)
    BY <1>1, Pieces
  <2>3. echoed[c] \o SubSeq(buffer[t], 1, n) \in Seq(1 .. MaxSent)
    BY <1>1, <2>2, ConcatProperties DEF TypeOK
  <2>4. /\ buffer' \in [Threads -> Seq(1 .. MaxSent)]
        /\ echoed' \in [Conn -> Seq(1 .. MaxSent)]
    BY <2>1, <2>2, <2>3 DEF TypeOK
  <2> QED BY <1>1, <1>3, <2>1, <2>4 DEF Write, TypeOK, Goto, Threads, LoopPC, WorkerPC, selectorVars, poolVars
<1>4. CASE Drained(t)
  <2>1. ThreadsOK'
    BY <1>4, Moves DEF Drained, Handled, LoopPC, WorkerPC
  <2>2. interest' \subseteq Conn /\ selected' \subseteq Conn \cup {Server}
    BY <1>1, <1>4 DEF Drained, Handled, TypeOK
  <2>3. UNCHANGED <<handler, clientVars, key, watched, wakeup, poolVars, buffer, died>>
    BY <1>4 DEF Drained
  <2> QED BY <2>1, <2>2, <2>3 DEF TypeOK, ThreadsOK, clientVars, poolVars
<1>5. CASE EndOfStream(t)
  <2>1. ThreadsOK'
    BY <1>5, Moves DEF EndOfStream, Handled, LoopPC, WorkerPC
  <2>2. key' \in [Conn -> {"none", "valid", "cancelled"}] /\ selected' \subseteq Conn \cup {Server}
    BY <1>1, <1>5 DEF EndOfStream, Handled, TypeOK
  <2>3. UNCHANGED <<handler, clientVars, interest, watched, wakeup, poolVars, buffer, died>>
    BY <1>5 DEF EndOfStream
  <2> QED BY <2>1, <2>2, <2>3 DEF TypeOK, ThreadsOK, clientVars, poolVars
<1>6. CASE ConnectionReset(t)
  <2>1. ThreadsOK'
    BY <1>6, Moves DEF ConnectionReset, Die, LoopPC, WorkerPC, Threads
  <2>2. <<>> \in Seq(1 .. MaxSent)
    OBVIOUS
  <2>3. /\ buffer' \in [Threads -> Seq(1 .. MaxSent)]
        /\ key' \in [Conn -> {"none", "valid", "cancelled"}]
        /\ died' \in {"no", "NullPointerException", "IOException", "CancelledKeyException"}
    BY <1>6, <2>2 DEF ConnectionReset, Die, TypeOK
  <2>4. UNCHANGED <<handler, clientVars, interest, watched, wakeup, selected, poolVars, task>>
    BY <1>6 DEF ConnectionReset
  <2> QED BY <2>1, <2>3, <2>4 DEF TypeOK, ThreadsOK, clientVars, poolVars
<1> QED BY <1>2, <1>3, <1>4, <1>5, <1>6 DEF Drain

LEMMA NextType == ASSUME TypeOK, Next PROVE TypeOK'
BY ClientType, LoopType, WorkerType, DrainType DEF Next, LoopStep, WorkerStep, Threads

-----------------------------------------------------------------------------
(* What a step of the drain loop does to the keys. *)

LEMMA Typed == ASSUME TypeOK, Next PROVE ThreadsOK /\ ThreadsOK'
BY NextType DEF TypeOK, ThreadsOK

\* In a worker it goes on, or switches OP_READ on again, or closes the channel.
LEMMA WorkerDrains ==
    ASSUME TypeOK, NEW w \in Workers, Drain(w)
    PROVE  /\ pc[w] \in Draining /\ task[w] \in Conn
           /\ UNCHANGED <<handler, peer, backlog, watched, selected, poolVars, task, died>>
           /\ \E label \in Draining \cup {"wakeup", "return"} :
                 /\ Goto(w, label)
                 /\ \/ label \in Draining /\ UNCHANGED <<key, interest>>
                    \/ /\ label \notin Draining
                       /\ interest' = interest \cup {task[w]} /\ UNCHANGED key
                    \/ /\ label \notin Draining
                       /\ key' = [key EXCEPT ![task[w]] = "cancelled"] /\ UNCHANGED interest
<1> w # Loop
  OBVIOUS
<1>0. pc[w] \in Draining /\ task[w] \in Conn
  BY DEF TypeOK, Threads, Drain, Read, Write, Drained, EndOfStream, ConnectionReset, Draining
<1>1. CASE Read(w)
  BY <1>0, <1>1 DEF Read, Draining, selectorVars, poolVars
<1>2. CASE Write(w)
  <2>1. \E label \in Draining : Goto(w, label)
    BY <1>2 DEF Write, Draining
  <2> QED BY <1>0, <1>2, <2>1 DEF Write, selectorVars, poolVars
<1>3. CASE Drained(w)
  BY <1>0, <1>3 DEF Drained, Draining, clientVars, poolVars
<1>4. CASE EndOfStream(w)
  BY <1>0, <1>4 DEF EndOfStream, Draining, clientVars, poolVars
<1>5. CASE ConnectionReset(w)
  BY <1>0, <1>5 DEF ConnectionReset, Draining, clientVars, poolVars
<1> QED BY <1>1, <1>2, <1>3, <1>4, <1>5 DEF Drain

\* In the loop it goes on, or is done with the key, or ends go().
LEMMA LoopDrains ==
    ASSUME TypeOK, Drain(Loop)
    PROVE  /\ pc[Loop] \in Draining /\ task[Loop] \in Conn
           /\ UNCHANGED <<handler, peer, backlog, interest, watched, poolVars>>
           /\ \/ /\ \E label \in Draining : Goto(Loop, label)
                 /\ UNCHANGED <<key, selected, task, died>>
              \/ /\ Handled(task[Loop])
                 /\ UNCHANGED key \/ key' = [key EXCEPT ![task[Loop]] = "cancelled"]
                 /\ UNCHANGED died
              \/ Die("IOException") /\ UNCHANGED <<key, selected, task>>
<1>0. pc[Loop] \in Draining /\ task[Loop] \in Conn
  BY DEF TypeOK, Threads, Drain, Read, Write, Drained, EndOfStream, ConnectionReset, Draining
<1>1. CASE Read(Loop)
  BY <1>0, <1>1 DEF Read, Draining, selectorVars, poolVars
<1>2. CASE Write(Loop)
  <2>1. \E label \in Draining : Goto(Loop, label)
    BY <1>2 DEF Write, Draining
  <2> QED BY <1>0, <1>2, <2>1 DEF Write, selectorVars, poolVars
<1>3. CASE Drained(Loop)
  BY <1>0, <1>3 DEF Drained, clientVars, poolVars
<1>4. CASE EndOfStream(Loop)
  BY <1>0, <1>4 DEF EndOfStream, clientVars, poolVars
<1>5. CASE ConnectionReset(Loop)
  BY <1>0, <1>5 DEF ConnectionReset, clientVars, poolVars
<1> QED BY <1>1, <1>2, <1>3, <1>4, <1>5 DEF Drain

\* The clients touch no key and no thread.
LEMMA ClientFrame ==
    ASSUME Client
    PROVE  UNCHANGED <<handler, key, interest, watched, wakeup, selected, poolVars, pc, task, died>>
BY DEF Client, Connect, Send, Finish, Reset, UnchangedServer, selectorVars

-----------------------------------------------------------------------------
(* Only the right threads drain. *)

LEMMA NextByHandler == ASSUME Custody, Next PROVE ByHandler'
<1> USE DEF Custody, ByHandler, Pooled
<1>0. ThreadsOK /\ ThreadsOK'
  BY Typed
<1>1. CASE Client
  BY <1>1, ClientFrame
<1>2. CASE Select \/ SelectReturns \/ BatchDone
  BY <1>0, <1>2 DEF Select, SelectReturns, BatchDone, Goto, ThreadsOK, Draining, Threads
<1>3. CASE ServiceChannel
  BY <1>0, <1>3 DEF ServiceChannel, Die, Goto, ThreadsOK, Draining, Threads, Tasks
<1>4. ASSUME NEW c \in Conn, Accept(c) \/ AcceptNull(c) \/ Handle(c) PROVE ByHandler'
  BY <1>0, <1>4 DEF Accept, AcceptNull, Handle, ReadDataFromSocket, NoWorker, GetWorker,
                    Die, Goto, ThreadsOK, Draining, Threads, selectorVars, poolVars
<1>5. CASE Drain(Loop)
  BY <1>0, <1>5, LoopDrains DEF Handled, Die, Goto, ThreadsOK, Draining, Threads
<1>6. ASSUME NEW w \in Workers, Drain(w) PROVE ByHandler'
  BY <1>0, <1>6, WorkerDrains DEF Goto, ThreadsOK, Draining, Threads
<1>7. ASSUME NEW w \in Workers, Start(w) \/ Awake(w) \/ Wait(w) \/ SpuriousWakeup(w) PROVE ByHandler'
  BY <1>0, <1>7 DEF Start, Awake, Wait, SpuriousWakeup, UnchangedByWait, Goto, ThreadsOK, Draining, Threads
<1>8. ASSUME NEW w \in Workers, Wakeup(w) \/ Return(w) PROVE ByHandler'
  BY <1>0, <1>8 DEF Wakeup, Return, Goto, ThreadsOK, Draining, Threads
<1> QED BY <1>1, <1>2, <1>3, <1>4, <1>5, <1>6, <1>7, <1>8 DEF Next, LoopStep, WorkerStep

-----------------------------------------------------------------------------
(* Who has something to do with a key has one. *)

LEMMA NextTasks == ASSUME Custody, Next PROVE Tasks'
<1> USE DEF Custody, Tasks
<1>0. ThreadsOK /\ ThreadsOK'
  BY Typed
<1>1. CASE Client
  BY <1>1, ClientFrame DEF poolVars
<1>2. CASE Select \/ SelectReturns \/ BatchDone
  BY <1>0, <1>2 DEF Select, SelectReturns, BatchDone, Goto, ThreadsOK, Draining, Threads, poolVars, selectorVars
<1>3. CASE ServiceChannel
  BY <1>0, <1>3 DEF ServiceChannel, MonitorFree, Die, Goto, ThreadsOK, Draining, Threads, TypeOK
<1>4. ASSUME NEW c \in Conn, Accept(c) \/ AcceptNull(c) \/ Handle(c) PROVE Tasks'
  <2>1. CASE Accept(c) \/ AcceptNull(c)
    BY <1>0, <2>1 DEF Accept, AcceptNull, Die, Goto, ThreadsOK, Draining, Threads, selectorVars, poolVars
  <2>2. CASE Handle(c) /\ key[c] = "cancelled"
    BY <1>0, <2>2 DEF Handle, Die, Goto, ThreadsOK, Draining, Threads, selectorVars, poolVars
  <2>3. CASE Handle(c) /\ ReadDataFromSocket(c)
    BY <1>0, <2>3 DEF Handle, ReadDataFromSocket, Goto, ThreadsOK, Draining, Threads, selectorVars, poolVars
  <2>4. CASE Handle(c) /\ NoWorker(c)
    BY <1>0, <2>4 DEF Handle, NoWorker, ThreadsOK, Draining, Threads, poolVars
  <2>5. CASE Handle(c) /\ GetWorker(c)
    <3>1. Head(idle) = idle[1] /\ 1 \in DOMAIN idle /\ idle[1] \in Workers
      BY <2>5 DEF GetWorker, TypeOK
    <3>2. task[Head(idle)] = None
      BY <3>1 DEF IdleExact
    <3> QED BY <1>0, <2>5, <3>1, <3>2 DEF Handle, GetWorker, Goto, ThreadsOK, Draining, Threads, selectorVars
  <2> QED BY <1>4, <2>1, <2>2, <2>3, <2>4, <2>5 DEF Handle
<1>5. CASE Drain(Loop)
  BY <1>0, <1>5, LoopDrains DEF Handled, Die, Goto, ThreadsOK, Draining, Threads, poolVars
<1>6. ASSUME NEW w \in Workers, Drain(w) PROVE Tasks'
  BY <1>0, <1>6, WorkerDrains DEF Goto, ThreadsOK, Draining, Threads, poolVars
<1>7. ASSUME NEW w \in Workers, Start(w) \/ Awake(w) \/ Wait(w) \/ SpuriousWakeup(w) PROVE Tasks'
  BY <1>0, <1>7 DEF Start, Awake, Wait, SpuriousWakeup, UnchangedByWait, Goto, ThreadsOK, Draining,
                    Threads, selectorVars, poolVars
<1>8. ASSUME NEW w \in Workers, Wakeup(w) PROVE Tasks'
  BY <1>0, <1>8 DEF Wakeup, Goto, ThreadsOK, Draining, Threads, poolVars
<1>9. ASSUME NEW w \in Workers, Return(w) PROVE Tasks'
  BY <1>0, <1>9 DEF Return, Goto, ThreadsOK, Draining, Threads, selectorVars
<1> QED BY <1>1, <1>2, <1>3, <1>4, <1>5, <1>6, <1>7, <1>8, <1>9 DEF Next, LoopStep, WorkerStep

-----------------------------------------------------------------------------
(* A drained key is valid. *)

LEMMA DrainedKey ==
    ASSUME Custody, NEW t \in Threads, Drain(t)
    PROVE  task[t] \in Conn /\ key[task[t]] = "valid"
<1>1. CASE t = Loop
  <2>1. task[t] \in Conn /\ task[t] \in selected
    BY <1>1, LoopDrains DEF Custody, Tasks
  <2> QED BY <2>1 DEF Custody, InView
<1>2. CASE t \in Workers
  <2>1. Serving(t, task[t]) /\ task[t] \in Conn
    BY <1>2, WorkerDrains DEF Custody, Serving
  <2> QED BY <1>2, <2>1 DEF Custody, OutOfView
<1> QED BY <1>1, <1>2 DEF Threads

LEMMA NextAccepted == ASSUME Custody, Next PROVE Accepted'
<1> USE DEF Custody, Accepted
<1>1. CASE Client
  <2>1. PICK c \in Conn : Connect(c) \/ Send(c) \/ Finish(c) \/ Reset(c)
    BY <1>1 DEF Client
  <2>2. UNCHANGED key
    BY <1>1, ClientFrame
  <2> QED BY <2>1, <2>2 DEF Connect, Send, Finish, Reset, TypeOK
<1>2. CASE Select \/ SelectReturns \/ BatchDone \/ ServiceChannel
  BY <1>2 DEF Select, SelectReturns, BatchDone, ServiceChannel, clientVars, selectorVars
<1>3. ASSUME NEW c \in Conn, Accept(c) \/ AcceptNull(c) \/ Handle(c) PROVE Accepted'
  BY <1>3 DEF Accept, AcceptNull, Handle, ReadDataFromSocket, NoWorker, GetWorker,
                    clientVars, selectorVars, TypeOK
<1>4. ASSUME NEW t \in Threads, Drain(t) PROVE Accepted'
  <2>1. UNCHANGED <<peer, backlog>>
    BY <1>4, LoopDrains, WorkerDrains DEF Threads
  <2>2. UNCHANGED key \/ key' = [key EXCEPT ![task[t]] = "cancelled"]
    BY <1>4, LoopDrains, WorkerDrains DEF Threads
  <2>3. key[task[t]] = "valid"
    BY <1>4, DrainedKey
  <2> QED BY <2>1, <2>2, <2>3 DEF TypeOK
<1>5. ASSUME NEW w \in Workers,
             Start(w) \/ Awake(w) \/ Wait(w) \/ SpuriousWakeup(w) \/ Wakeup(w) \/ Return(w)
      PROVE  Accepted'
  BY <1>5 DEF Start, Awake, Wait, SpuriousWakeup, UnchangedByWait, Wakeup, Return, clientVars, selectorVars
<1> QED BY <1>1, <1>2, <1>3, <1>4, <1>5 DEF Next, LoopStep, WorkerStep, Threads

-----------------------------------------------------------------------------
(* What the selector looks at, and what it found, is valid. *)

LEMMA NextInView == ASSUME Custody, Next PROVE InView'
<1> USE DEF Custody, InView, Pooled
<1>0. ThreadsOK /\ ThreadsOK'
  BY Typed
<1>1. CASE Client
  BY <1>1, ClientFrame
<1>2. CASE Select \/ SelectReturns \/ BatchDone
  BY <1>0, <1>2 DEF Select, SelectReturns, BatchDone, Goto, ThreadsOK, Draining, Threads, selectorVars
<1>3. CASE ServiceChannel
  <2>1. watched = {} /\ pc[Loop] = "service" /\ worker \in Workers
    BY <1>3 DEF ServiceChannel, Draining, Tasks, TypeOK
  <2>2. task[Loop] \in Conn /\ key[task[Loop]] = "valid"
    BY <1>0, <2>1 DEF Tasks, ThreadsOK, Threads
  <2> QED BY <1>0, <1>3, <2>1, <2>2 DEF ServiceChannel, Goto, ThreadsOK, Draining, Threads
<1>4. ASSUME NEW c \in Conn, Accept(c) \/ AcceptNull(c) PROVE InView'
  BY <1>0, <1>4 DEF Accept, AcceptNull, Die, Goto, ThreadsOK, Draining, Threads, selectorVars, Accepted, TypeOK
<1>5. ASSUME NEW c \in Conn, Handle(c) PROVE InView'
  BY <1>0, <1>5 DEF Handle, ReadDataFromSocket, NoWorker, GetWorker, Die, Goto, ThreadsOK, Draining,
                    Threads, selectorVars
<1>6. CASE Drain(Loop)
  <2>1. watched = {} /\ watched' = {} /\ UNCHANGED <<handler, interest>>
    BY <1>6, LoopDrains DEF Draining
  <2> QED BY <1>0, <1>6, <2>1, LoopDrains DEF Handled, Die, Goto, ThreadsOK, Draining, Threads, TypeOK
<1>7. ASSUME NEW w \in Workers, Drain(w) PROVE InView'
  <2>1. /\ UNCHANGED <<handler, watched, selected>> /\ pc'[Loop] = pc[Loop]
        /\ Pooled
    BY <1>0, <1>7, WorkerDrains DEF ByHandler, Goto, ThreadsOK, Threads, Draining
  <2>2. Serving(w, task[w]) /\ task[w] \in Conn
    BY <1>7, WorkerDrains DEF Serving
  <2>3. task[w] \in Conn /\ task[w] \notin interest
    BY <2>2 DEF OutOfView
  <2>4. \A c \in interest : c \in interest' /\ (c # task[w] => key'[c] = key[c])
    <3>1. key \in [Conn -> {"none", "valid", "cancelled"}] /\ interest \subseteq Conn
      BY DEF TypeOK
    <3>2. UNCHANGED key \/ key' = [key EXCEPT ![task[w]] = "cancelled"]
      BY <1>7, WorkerDrains
    <3>3. UNCHANGED interest \/ interest' = interest \cup {task[w]}
      BY <1>7, WorkerDrains
    <3> QED BY <3>1, <3>2, <3>3
  <2>5. \A c \in (watched \cup selected) \ {Server} : c # task[w] /\ c \in interest
    BY <2>1, <2>3
  <2> QED BY <2>1, <2>4, <2>5
<1>8. ASSUME NEW w \in Workers,
             Start(w) \/ Awake(w) \/ Wait(w) \/ SpuriousWakeup(w) \/ Wakeup(w) \/ Return(w)
      PROVE  InView'
  BY <1>0, <1>8 DEF Start, Awake, Wait, SpuriousWakeup, UnchangedByWait, Wakeup, Return, Goto, ThreadsOK,
                    Threads, selectorVars
<1> QED BY <1>1, <1>2, <1>3, <1>4, <1>5, <1>6, <1>7, <1>8 DEF Next, LoopStep, WorkerStep

-----------------------------------------------------------------------------
(* A key is out of view exactly while one worker serves it. *)

\* Steps that leave the keys, and who serves which, alone.
LEMMA SameServing ==
    ASSUME OutOfView, UNCHANGED <<key, interest>>,
           \A w \in Workers, c \in Conn : Serving(w, c)' <=> Serving(w, c)
    PROVE  OutOfView'
BY DEF OutOfView

LEMMA NextOutOfView == ASSUME Custody, Next PROVE OutOfView'
<1> USE DEF Custody
<1>0. ThreadsOK /\ ThreadsOK'
  BY Typed
<1>1. CASE Client
  BY <1>1, ClientFrame, SameServing DEF Serving
<1>2. CASE Select \/ SelectReturns \/ BatchDone
  BY <1>0, <1>2, SameServing DEF Serving, Select, SelectReturns, BatchDone, Goto, ThreadsOK, Threads, selectorVars
<1>3. CASE ServiceChannel
  <2> DEFINE c == task[Loop]
  <2>1. pc[Loop] = "service" /\ worker \in Workers /\ MonitorFree(worker) /\ task[worker] = None
    BY <1>3 DEF ServiceChannel, Tasks, TypeOK
  <2>2. c \in Conn /\ key[c] = "valid" /\ c \in interest
    BY <1>0, <2>1 DEF Tasks, ThreadsOK, Threads, InView, ByHandler
  <2>3. /\ interest' = interest \ {c} /\ UNCHANGED key
        /\ task' = [task EXCEPT ![worker] = c, ![Loop] = None]
        /\ pc' = [pc EXCEPT ![Loop] = "keys", ![worker] = IF @ = "waiting" THEN "notified" ELSE @]
    BY <1>3, <2>2 DEF ServiceChannel
  <2>4. \A w \in Workers : w # worker => task'[w] = task[w] /\ pc'[w] = pc[w]
    BY <1>0, <2>1, <2>3 DEF ThreadsOK, Threads
  <2>5. task'[worker] = c /\ pc'[worker] \in {"new", "waiting", "notified"}
    BY <1>0, <2>1, <2>3 DEF ThreadsOK, Threads, MonitorFree
  <2>6. \A w \in Workers, d \in Conn : Serving(w, d)' <=> Serving(w, d) \/ (w = worker /\ d = c)
    BY <2>1, <2>4, <2>5 DEF Serving
  <2> QED BY <2>1, <2>2, <2>3, <2>6 DEF OutOfView
<1>4. ASSUME NEW c \in Conn, Accept(c) PROVE OutOfView'
  <2>1. key[c] = "none" /\ key' = [key EXCEPT ![c] = "valid"] /\ interest' = interest \cup {c}
    BY <1>4 DEF Accept, Accepted
  <2>2. \A w \in Workers, d \in Conn : Serving(w, d)' <=> Serving(w, d)
    BY <1>0, <1>4 DEF Serving, Accept, Die, Goto, ThreadsOK, Threads
  <2> QED BY <2>1, <2>2 DEF OutOfView, TypeOK
<1>5. ASSUME NEW c \in Conn, AcceptNull(c) \/ Handle(c) PROVE OutOfView'
  <2>1. UNCHANGED <<key, interest>>
    BY <1>5 DEF AcceptNull, Handle, ReadDataFromSocket, NoWorker, GetWorker, selectorVars
  <2>2. \A w \in Workers : UNCHANGED <<task[w], pc[w]>>
    BY <1>0, <1>5 DEF AcceptNull, Handle, ReadDataFromSocket, NoWorker, GetWorker, Die, Goto, ThreadsOK, Threads
  <2> QED BY <2>1, <2>2, SameServing DEF Serving
<1>6. CASE Drain(Loop)
  <2>1. \A w \in Workers : task[w] = None
    BY <1>6, LoopDrains DEF ByHandler
  <2>2. \A w \in Workers : task'[w] = task[w]
    BY <1>0, <1>6, LoopDrains DEF Handled, ThreadsOK, Threads
  <2>3. \A w \in Workers, d \in Conn : ~ Serving(w, d) /\ ~ Serving(w, d)'
    BY <2>1, <2>2 DEF Serving
  <2>4. \A c \in Conn : key[c] = "valid" => c \in interest
    BY <2>3 DEF OutOfView
  <2>5. UNCHANGED interest /\ \A c \in Conn : key'[c] = "valid" => key[c] = "valid"
    BY <1>6, LoopDrains DEF TypeOK
  <2> QED BY <2>3, <2>4, <2>5 DEF OutOfView
<1>7. ASSUME NEW w \in Workers, Drain(w) PROVE OutOfView'
  <2> DEFINE c == task[w]
  <2>1. PICK label \in Draining \cup {"wakeup", "return"} :
              /\ Goto(w, label)
              /\ \/ label \in Draining /\ UNCHANGED <<key, interest>>
                 \/ /\ label \notin Draining
                    /\ interest' = interest \cup {c} /\ UNCHANGED key
                 \/ /\ label \notin Draining
                    /\ key' = [key EXCEPT ![c] = "cancelled"] /\ UNCHANGED interest
    BY <1>7, WorkerDrains
  <2>2. c \in Conn /\ Serving(w, c) /\ UNCHANGED task
    BY <1>7, WorkerDrains DEF Serving
  <2>3. \A v \in Workers, d \in Conn :
           Serving(v, d)' <=> Serving(v, d) /\ (v = w => label \in Draining)
    BY <1>0, <2>1, <2>2 DEF Serving, Goto, ThreadsOK, Threads, Draining
  <2>4. CASE label \in Draining
    BY <2>1, <2>3, <2>4, SameServing
  <2>5. CASE label \notin Draining
    <3>1. \A v \in Workers, d \in Conn : Serving(v, d)' <=> Serving(v, d) /\ d # c
      BY <2>2, <2>3, <2>5 DEF OutOfView, Serving
    <3>2. CASE interest' = interest \cup {c} /\ UNCHANGED key
      BY <3>1, <3>2 DEF OutOfView
    <3>3. CASE key' = [key EXCEPT ![c] = "cancelled"] /\ UNCHANGED interest
      <4>1. key'[c] = "cancelled" /\ \A d \in Conn \ {c} : key'[d] = key[d]
        BY <2>2, <3>3 DEF TypeOK
      <4> QED BY <3>1, <3>3, <4>1 DEF OutOfView
    <3> QED BY <2>1, <2>5, <3>2, <3>3
  <2> QED BY <2>4, <2>5
<1>8. ASSUME NEW w \in Workers,
             Start(w) \/ Awake(w) \/ Wait(w) \/ SpuriousWakeup(w) \/ Wakeup(w) \/ Return(w)
      PROVE  OutOfView'
  <2>1. UNCHANGED <<key, interest>>
    BY <1>8 DEF Start, Awake, Wait, SpuriousWakeup, UnchangedByWait, Wakeup, Return, selectorVars
  <2>2. \A v \in Workers, c \in Conn : Serving(v, c)' <=> Serving(v, c)
    BY <1>0, <1>8 DEF Start, Awake, Wait, SpuriousWakeup, UnchangedByWait, Wakeup, Return, Goto, ThreadsOK,
                      Threads, Serving, Tasks, Draining
  <2> QED BY <2>1, <2>2, SameServing
<1> QED BY <1>1, <1>2, <1>3, <1>4, <1>5, <1>6, <1>7, <1>8 DEF Next, LoopStep, WorkerStep

-----------------------------------------------------------------------------
(* The list of idle workers. *)

\* Steps that leave the list, the loop's worker and who has a key alone.
LEMMA SameIdle ==
    ASSUME IdleExact, UNCHANGED poolVars, \A w \in Workers : UNCHANGED task[w]
    PROVE  IdleExact'
BY DEF IdleExact, poolVars

LEMMA NextIdleExact == ASSUME Custody, Next PROVE IdleExact'
<1> USE DEF Custody
<1>0. ThreadsOK /\ ThreadsOK'
  BY Typed
<1>1. CASE Client
  BY <1>1, ClientFrame, SameIdle
<1>2. CASE Select \/ SelectReturns \/ BatchDone
  BY <1>2, SameIdle DEF Select, SelectReturns, BatchDone
<1>3. CASE ServiceChannel
  <2>1. /\ worker \in Workers /\ task[worker] = None /\ task[Loop] # None
        /\ worker' = None /\ UNCHANGED idle
        /\ task' = [task EXCEPT ![worker] = task[Loop], ![Loop] = None]
    BY <1>3 DEF ServiceChannel, Tasks, TypeOK
  <2>2. task'[worker] # None /\ \A w \in Workers : w # worker => task'[w] = task[w]
    BY <1>0, <2>1 DEF ThreadsOK, Threads
  <2> QED BY <2>1, <2>2 DEF IdleExact
<1>4. ASSUME NEW c \in Conn, Accept(c) \/ AcceptNull(c) PROVE IdleExact'
  BY <1>4, SameIdle DEF Accept, AcceptNull
<1>5. ASSUME NEW c \in Conn, Handle(c) PROVE IdleExact'
  <2>1. CASE UNCHANGED poolVars
    BY <1>0, <1>5, <2>1, SameIdle DEF Handle, ReadDataFromSocket, NoWorker, GetWorker, ThreadsOK, Threads
  <2>2. CASE GetWorker(c)
    <3>1. worker = None /\ idle \in Seq(Workers) /\ idle # <<>>
      BY <1>5, <2>2 DEF Handle, GetWorker, Tasks, TypeOK
    <3>2. worker' = idle[1] /\ idle' = Tail(idle) /\ \A w \in Workers : task'[w] = task[w]
      BY <1>0, <2>2, <3>1 DEF GetWorker, ThreadsOK, Threads
    <3>3. /\ Len(idle) \in Nat \ {0} /\ DOMAIN idle = 1 .. Len(idle)
          /\ DOMAIN idle' = 1 .. (Len(idle) - 1)
          /\ \A i \in DOMAIN idle' : idle'[i] = idle[i + 1]
      BY <3>1, <3>2, HeadTailProperties, LenProperties, EmptySeq
    <3>4. \A i, j \in DOMAIN idle' : idle'[i] = idle'[j] => i = j
      BY <3>3 DEF IdleExact
    <3>5. \A w \in Workers :
             (\E i \in DOMAIN idle' : idle'[i] = w) <=> (\E i \in DOMAIN idle : idle[i] = w) /\ w # idle[1]
      <4> SUFFICES ASSUME NEW w \in Workers
                   PROVE (\E i \in DOMAIN idle' : idle'[i] = w)
                            <=> (\E i \in DOMAIN idle : idle[i] = w) /\ w # idle[1]
        OBVIOUS
      <4>1. ASSUME NEW i \in DOMAIN idle', idle'[i] = w
            PROVE  (\E j \in DOMAIN idle : idle[j] = w) /\ w # idle[1]
        BY <3>3, <4>1 DEF IdleExact
      <4>2. ASSUME NEW i \in DOMAIN idle, idle[i] = w, w # idle[1]
            PROVE  \E j \in DOMAIN idle' : idle'[j] = w
        <5>1. i - 1 \in DOMAIN idle' /\ idle'[i - 1] = idle[i]
          BY <3>3, <4>2
        <5> QED BY <4>2, <5>1
      <4> QED BY <4>1, <4>2
    <3> QED BY <3>1, <3>2, <3>4, <3>5, SMTT(40) DEF IdleExact
  <2> QED BY <1>5, <2>1, <2>2 DEF Handle, ReadDataFromSocket, NoWorker
<1>6. CASE Drain(Loop)
  <2>1. \A w \in Workers : task'[w] = task[w]
    BY <1>0, <1>6, LoopDrains DEF Handled, ThreadsOK, Threads
  <2> QED BY <1>6, <2>1, LoopDrains, SameIdle
<1>7. ASSUME NEW w \in Workers, Drain(w) PROVE IdleExact'
  BY <1>7, WorkerDrains, SameIdle
<1>8. ASSUME NEW w \in Workers, Start(w) \/ Awake(w) \/ Wait(w) \/ SpuriousWakeup(w) \/ Wakeup(w)
      PROVE  IdleExact'
  BY <1>8, SameIdle DEF Start, Awake, Wait, SpuriousWakeup, UnchangedByWait, Wakeup
<1>9. ASSUME NEW w \in Workers, Return(w) PROVE IdleExact'
  <2>1. /\ task[w] # None /\ w # worker /\ idle \in Seq(Workers)
        /\ UNCHANGED worker /\ idle' = Append(idle, w)
    BY <1>9 DEF Return, Tasks, TypeOK
  <2>2. task'[w] = None /\ \A v \in Workers : v # w => task'[v] = task[v]
    BY <1>0, <1>9 DEF Return, ThreadsOK, Threads
  <2>3. /\ Len(idle) \in Nat /\ DOMAIN idle = 1 .. Len(idle) /\ DOMAIN idle' = 1 .. (Len(idle) + 1)
        /\ \A i \in DOMAIN idle : idle'[i] = idle[i]
        /\ idle'[Len(idle) + 1] = w
    BY <2>1, AppendProperties, LenProperties
  <2>4. \A i \in DOMAIN idle : idle[i] # w
    BY <2>1 DEF IdleExact
  <2>5. \A i, j \in DOMAIN idle' : idle'[i] = idle'[j] => i = j
    BY <2>3, <2>4 DEF IdleExact
  <2>6. \A v \in Workers :
           (\E i \in DOMAIN idle' : idle'[i] = v) <=> (\E i \in DOMAIN idle : idle[i] = v) \/ v = w
    BY <2>3
  <2> QED BY <2>1, <2>2, <2>5, <2>6 DEF IdleExact
<1> QED BY <1>1, <1>2, <1>3, <1>4, <1>5, <1>6, <1>7, <1>8, <1>9 DEF Next, LoopStep, WorkerStep

-----------------------------------------------------------------------------
(* The invariant. *)

LEMMA InitCustody == Init => Custody
<1> SUFFICES ASSUME Init PROVE Custody
  OBVIOUS
<1>1. TypeOK
  BY InitType
<1>2. IdleExact
  <2>1. idle \in Injection(1 .. Cardinality(Workers), Workers)
    BY DEF Init, Injection, IsInjective
  <2>2. Cardinality(1 .. Cardinality(Workers)) = Cardinality(Workers)
    BY FS_CardinalityType, FS_Interval
  <2>3. idle \in Surjection(1 .. Cardinality(Workers), Workers)
    BY <2>1, <2>2, FS_Injection
  <2> QED BY <2>3 DEF Init, Surjection, IdleExact, Threads
<1>3. ByHandler /\ Tasks
  BY DEF Init, ByHandler, Pooled, Tasks, Threads, Draining
<1>4. Accepted /\ InView
  BY DEF Init, Accepted, InView
<1>5. OutOfView
  BY DEF Init, OutOfView, Serving, Threads
<1> QED BY <1>1, <1>2, <1>3, <1>4, <1>5 DEF Custody, Init

\* The loop meets no cancelled key.
LEMMA NextNoCancelledKey == ASSUME Custody, Next PROVE died' # "CancelledKeyException"
<1> USE DEF Custody
<1>1. CASE ServiceChannel
  <2>1. key[task[Loop]] = "valid"
    BY <1>1 DEF ServiceChannel, Tasks, TypeOK, InView, Threads
  <2> QED BY <1>1, <2>1 DEF ServiceChannel
<1>2. ASSUME NEW c \in Conn, Handle(c) PROVE died' # "CancelledKeyException"
  <2>1. key[c] = "valid"
    BY <1>2 DEF Handle, InView
  <2> QED BY <1>2, <2>1 DEF Handle, ReadDataFromSocket, NoWorker, GetWorker
<1>3. CASE Client \/ Select \/ SelectReturns \/ BatchDone
  BY <1>3, ClientFrame DEF Select, SelectReturns, BatchDone
<1>4. ASSUME NEW c \in Conn, Accept(c) \/ AcceptNull(c) PROVE died' # "CancelledKeyException"
  BY <1>4 DEF Accept, AcceptNull, Die
<1>5. ASSUME NEW t \in Threads, Drain(t) PROVE died' # "CancelledKeyException"
  BY <1>5, LoopDrains, WorkerDrains DEF Threads, Die
<1>6. ASSUME NEW w \in Workers,
             Start(w) \/ Awake(w) \/ Wait(w) \/ SpuriousWakeup(w) \/ Wakeup(w) \/ Return(w)
      PROVE  died' # "CancelledKeyException"
  BY <1>6 DEF Start, Awake, Wait, SpuriousWakeup, UnchangedByWait, Wakeup, Return
<1> QED BY <1>1, <1>2, <1>3, <1>4, <1>5, <1>6 DEF Next, LoopStep, WorkerStep, Threads

LEMMA StutterCustody == Custody /\ UNCHANGED vars => Custody'
<1> SUFFICES ASSUME Custody, UNCHANGED vars PROVE Custody'
  OBVIOUS
<1>1. UNCHANGED <<handler, peer, backlog, sent, inbox, echoed, key, interest, watched, wakeup, selected,
                  worker, idle, pc, task, buffer, died>>
  BY DEF vars, clientVars, selectorVars, poolVars
<1>2. TypeOK'
  BY <1>1 DEF Custody, TypeOK
<1>3. ByHandler' /\ Tasks' /\ Accepted' /\ InView'
  BY <1>1 DEF Custody, ByHandler, Pooled, Tasks, Accepted, InView
<1>4. OutOfView' /\ IdleExact'
  BY <1>1 DEF Custody, OutOfView, Serving, IdleExact
<1> QED BY <1>1, <1>2, <1>3, <1>4 DEF Custody

\* The loop and the workers agree on who may touch which key, whatever the
\* number of clients and workers and the order of their steps.
THEOREM CustodyInvariant == Spec => []Custody
<1>1. Init => Custody
  BY InitCustody
<1>2. Custody /\ [Next]_vars => Custody'
  BY NextType, NextByHandler, NextTasks, NextAccepted, NextInView, NextOutOfView, NextIdleExact,
     NextNoCancelledKey, StutterCustody DEF Custody
<1> QED BY <1>1, <1>2, PTL DEF Spec

\* No worker closes a channel the loop has yet to look at: isAcceptable() and
\* interestOps() never throw a CancelledKeyException.
THEOREM NeverCancelled == Spec => []NoCancelledKey
<1>1. Custody => NoCancelledKey
  BY DEF Custody, NoCancelledKey
<1> QED BY <1>1, CustodyInvariant, PTL

\* The pool's list is exact: no worker is lost from it or in it twice.
THEOREM IdleList == Spec => []IdleExact
<1>1. Custody => IdleExact
  BY DEF Custody
<1> QED BY <1>1, CustodyInvariant, PTL

\* A valid key is watched by the selector or served by one worker, not both and
\* not neither.
THEOREM OneWorkerPerKey == Spec => []InterestExact
<1>1. Custody => InterestExact
  <2> SUFFICES ASSUME Custody, handler = "SelectSocketsThreadPool",
                      NEW c \in Conn, key[c] = "valid"
               PROVE  Cardinality({w \in Workers : Serving(w, c)}) = IF c \in interest THEN 0 ELSE 1
    BY DEF InterestExact
  <2>1. CASE c \in interest
    <3>1. {w \in Workers : Serving(w, c)} = {}
      BY <2>1 DEF Custody, OutOfView
    <3> QED BY <2>1, <3>1, FS_EmptySet
  <2>2. CASE c \notin interest
    <3>1. PICK v \in Workers : {w \in Workers : Serving(w, c)} = {v}
      BY <2>2 DEF Custody, OutOfView
    <3> QED BY <2>2, <3>1, FS_Singleton
  <2> QED BY <2>1, <2>2
<1> QED BY <1>1, CustodyInvariant, PTL

-----------------------------------------------------------------------------
(* What clients send comes back in order. *)

\* The first n bytes a client sends.
Nums(n) == [i \in 1 .. n |-> i]

LEMMA NumsNext ==
    ASSUME NEW n \in Nat
    PROVE  Nums(n) \in Seq(Nat) /\ Append(Nums(n), n + 1) = Nums(n + 1)
<1>1. Nums(n) \in Seq(Nat) /\ Len(Nums(n)) = n
  <2>1. Nums(n) \in [1 .. n -> Nat]
    BY DEF Nums
  <2>2. Nums(n) \in Seq(Nat)
    BY <2>1, SeqDef
  <2> QED BY <2>1, <2>2, LenProperties
<1>2. /\ Append(Nums(n), n + 1) \in Seq(Nat)
      /\ Len(Append(Nums(n), n + 1)) = n + 1
      /\ \A i \in 1 .. n : Append(Nums(n), n + 1)[i] = Nums(n)[i]
      /\ Append(Nums(n), n + 1)[n + 1] = n + 1
  BY <1>1, AppendProperties
<1>3. /\ Nums(n + 1) \in Seq(Nat) /\ Len(Nums(n + 1)) = n + 1
      /\ \A i \in 1 .. n + 1 : Nums(n + 1)[i] = i
  <2>1. Nums(n + 1) \in [1 .. n + 1 -> Nat]
    BY DEF Nums
  <2>2. Nums(n + 1) \in Seq(Nat)
    BY <2>1, SeqDef
  <2> QED BY <2>1, <2>2, LenProperties DEF Nums
<1>4. \A i \in 1 .. n + 1 : Append(Nums(n), n + 1)[i] = Nums(n + 1)[i]
  BY <1>2, <1>3 DEF Nums
<1> QED BY <1>1, <1>2, <1>3, <1>4, SeqEqual

\* Joining three.
LEMMA Joined ==
    ASSUME NEW S, NEW r \in Seq(S), NEW s \in Seq(S), NEW t \in Seq(S)
    PROVE  r \o s \in Seq(S) /\ (r \o s) \o t = r \o (s \o t)
<1>1. r \o s \in Seq(S)
  BY ConcatProperties
<1>2. (r \o s) \o t = r \o (s \o t)
  BY ConcatAssociative
<1> QED BY <1>1, <1>2

\* The first bytes of b put behind e.
LEMMA Moved ==
    ASSUME NEW S, NEW e \in Seq(S), NEW b \in Seq(S), NEW n \in 1 .. Len(b)
    PROVE  /\ e \o SubSeq(b, 1, n) \in Seq(S)
           /\ (e \o SubSeq(b, 1, n)) \o SubSeq(b, n + 1, Len(b)) = e \o b
<1> DEFINE s == SubSeq(b, 1, n)
           rest == SubSeq(b, n + 1, Len(b))
<1>1. s \in Seq(S) /\ rest \in Seq(S)
  BY Pieces
<1>2. s \o rest = b
  BY Pieces
<1> HIDE DEF s, rest
<1>3. e \o s \in Seq(S)
  BY <1>1, Joined
<1>4. (e \o s) \o rest = e \o (s \o rest)
  BY <1>1, Joined, SMTT(30)
<1> QED BY <1>2, <1>3, <1>4 DEF s, rest

\* Joining two, the last of which grows.
LEMMA JoinAppend ==
    ASSUME NEW S, NEW r \in Seq(S), NEW t \in Seq(S), NEW x \in S
    PROVE  r \o Append(t, x) = Append(r \o t, x)
<1>1. <<x>> \in Seq(S) /\ r \o t \in Seq(S)
  BY ConcatProperties
<1>2. Append(t, x) = t \o <<x>> /\ Append(r \o t, x) = (r \o t) \o <<x>>
  BY <1>1, AppendIsConcat
<1>3. (r \o t) \o <<x>> = r \o (t \o <<x>>)
  BY <1>1, ConcatAssociative
<1> QED BY <1>2, <1>3

\* Thread t has read from channel c and not written all of it.
Writes(t, c) == pc[t] = "write" /\ task[t] = c

\* What was sent is echoed, in the buffer of the thread that writes, or unread.
Whole(c) ==
    IF \E t \in Threads : Writes(t, c)
    THEN \A t \in Threads : Writes(t, c) => (echoed[c] \o buffer[t]) \o inbox[c] = Nums(sent[c])
    ELSE echoed[c] \o inbox[c] = Nums(sent[c])

EchoInv ==
    /\ \A t \in Threads : buffer[t] # <<>> => pc[t] = "write"
    /\ \A c \in Conn : peer[c] # "reset" => Whole(c)

\* One thread drains a channel.
LEMMA OneDrains ==
    ASSUME Custody, NEW c \in Conn, NEW t \in Threads, NEW u \in Threads,
           task[t] = c, task[u] = c, pc[t] \in Draining, pc[u] \in Draining
    PROVE  t = u
<1>1. CASE Pooled
  <2>1. t \in Workers /\ u \in Workers
    BY <1>1 DEF Custody, ByHandler, Threads
  <2>2. Serving(t, c) /\ Serving(u, c)
    BY <2>1 DEF Serving
  <2> QED BY <2>1, <2>2 DEF Custody, OutOfView
<1>2. CASE ~ Pooled
  BY <1>2 DEF Custody, ByHandler, Threads, Draining
<1> QED BY <1>1, <1>2

\* A step that leaves the bytes of a channel and those who write to it alone.
LEMMA SameBytes ==
    ASSUME NEW c \in Conn, peer[c] # "reset" => Whole(c),
           peer'[c] # "reset" => peer[c] # "reset",
           UNCHANGED <<sent[c], inbox[c], echoed[c]>>,
           \A t \in Threads : Writes(t, c)' <=> Writes(t, c),
           \A t \in Threads : Writes(t, c) => buffer'[t] = buffer[t]
    PROVE  peer'[c] # "reset" => Whole(c)'
BY DEF Whole

LEMMA EchoInit == Init => EchoInv
<1> SUFFICES ASSUME Init PROVE EchoInv
  OBVIOUS
<1>1. \A t \in Threads : buffer[t] = <<>> /\ pc[t] # "write"
  BY DEF Init
<1>2. Nums(0) = <<>> /\ <<>> \o <<>> = <<>>
  BY DEF Nums
<1>3. \A c \in Conn : Whole(c)
  BY <1>1, <1>2 DEF Whole, Writes, Init
<1> QED BY <1>1, <1>3 DEF EchoInv

LEMMA ClientEcho == ASSUME TypeOK, EchoInv, Client PROVE EchoInv'
<1>1. PICK c \in Conn : Connect(c) \/ Send(c) \/ Finish(c) \/ Reset(c)
  BY DEF Client
<1>2. UNCHANGED <<pc, task, buffer>>
  BY <1>1 DEF Connect, Send, Finish, Reset, UnchangedServer
<1>3. \A t \in Threads, d \in Conn : Writes(t, d)' <=> Writes(t, d)
  BY <1>2 DEF Writes
<1>4. ASSUME NEW d \in Conn, peer'[d] # "reset", ~ (d = c /\ Send(c)) PROVE Whole(d)'
  <2>1. UNCHANGED <<sent[d], inbox[d], echoed[d]>> /\ peer[d] # "reset"
    BY <1>1, <1>4 DEF Connect, Send, Finish, Reset, TypeOK
  <2> QED BY <1>2, <1>3, <1>4, <2>1, SameBytes DEF EchoInv
<1>5. ASSUME Send(c) PROVE Whole(c)'
  <2> DEFINE x == sent[c] + 1
  <2>1. /\ sent'[c] = x /\ inbox'[c] = Append(inbox[c], x) /\ UNCHANGED echoed
        /\ sent[c] \in Nat /\ x \in Nat /\ peer[c] # "reset"
    BY <1>5 DEF Send, TypeOK
  <2>2. Append(Nums(sent[c]), x) = Nums(x)
    BY <2>1, NumsNext
  <2>s. Seq(1 .. MaxSent) \subseteq Seq(Nat)
    <3>1. 1 .. MaxSent \subseteq Nat
      OBVIOUS
    <3> QED BY <3>1, SeqMonotonic
  <2>3. echoed[c] \in Seq(Nat) /\ inbox[c] \in Seq(Nat)
    BY <2>s DEF TypeOK
  <2> HIDE DEF x
  <2>j. \A r, t \in Seq(Nat) : r \o Append(t, x) = Append(r \o t, x)
    BY <2>1, JoinAppend
  <2>4. echoed[c] \o Append(inbox[c], x) = Append(echoed[c] \o inbox[c], x)
    BY <2>3, <2>j
  <2>5. ASSUME NEW t \in Threads
        PROVE  (echoed[c] \o buffer[t]) \o Append(inbox[c], x)
                  = Append((echoed[c] \o buffer[t]) \o inbox[c], x)
    <3>1. buffer[t] \in Seq(Nat)
      BY <2>s DEF TypeOK
    <3>2. \A r, u \in Seq(Nat) : r \o u \in Seq(Nat)
      BY Joined
    <3>3. echoed[c] \o buffer[t] \in Seq(Nat)
      BY <2>3, <3>1, <3>2
    <3> QED BY <2>3, <2>j, <3>3
  <2>6. Whole(c)
    BY <2>1 DEF EchoInv
  <2>7. CASE \E t \in Threads : Writes(t, c)
    <3>1. \A t \in Threads : Writes(t, c) => (echoed[c] \o buffer[t]) \o inbox[c] = Nums(sent[c])
      BY <2>6, <2>7 DEF Whole
    <3>2. \A t \in Threads : Writes(t, c) =>
             (echoed[c] \o buffer[t]) \o Append(inbox[c], x) = Nums(x)
      BY <2>2, <2>5, <3>1
    <3> QED BY <1>2, <1>3, <2>1, <2>7, <3>2 DEF Whole
  <2>8. CASE ~ \E t \in Threads : Writes(t, c)
    <3>1. echoed[c] \o Append(inbox[c], x) = Nums(x)
      BY <2>2, <2>4, <2>6, <2>8 DEF Whole
    <3> QED BY <1>3, <2>1, <2>8, <3>1 DEF Whole
  <2> QED BY <2>7, <2>8
<1> QED BY <1>2, <1>4, <1>5 DEF EchoInv

\* What thread t drains of channel c is moved on, and no one else moves any of it.
LEMMA DrainEcho == ASSUME Custody, EchoInv, NEW t \in Threads, Drain(t) PROVE EchoInv'
<1>0. TypeOK /\ TypeOK'
  BY NextType, DrainType DEF Custody
<1>p. PICK c \in Conn : c = task[t]
  BY LoopDrains, WorkerDrains DEF Custody, Threads
<1>1. c = task[t] /\ c \in Conn /\ pc[t] \in Draining /\ c # None
  BY <1>p, LoopDrains, WorkerDrains DEF Custody, Threads
<1>2. /\ UNCHANGED <<peer, sent>>
      /\ \A u \in Threads : u # t => UNCHANGED <<pc[u], task[u], buffer[u]>>
      /\ \A d \in Conn : d # c => UNCHANGED <<inbox[d], echoed[d]>>
  <2> USE <1>0, <1>1 DEF TypeOK, Goto
  <2>1. CASE Read(t)
    BY <2>1 DEF Read
  <2>2. CASE Write(t)
    BY <2>2 DEF Write
  <2>3. CASE Drained(t)
    BY <2>3 DEF Drained, Handled, clientVars
  <2>4. CASE EndOfStream(t)
    BY <2>4 DEF EndOfStream, Handled, clientVars
  <2>5. CASE ConnectionReset(t)
    BY <2>5 DEF ConnectionReset, Die, clientVars
  <2> QED BY <2>1, <2>2, <2>3, <2>4, <2>5 DEF Drain
<1>3. pc'[t] = "write" => task'[t] = c
  BY <1>0, <1>1, SMTT(40) DEF Drain, Read, Write, Drained, EndOfStream, ConnectionReset, Handled, Goto, Die, TypeOK, Threads
<1>4. ASSUME NEW d \in Conn, d # c, peer'[d] # "reset" PROVE Whole(d)'
  <2>1. \A u \in Threads : Writes(u, d)' <=> Writes(u, d)
    BY <1>1, <1>2, <1>3, <1>4 DEF Writes
  <2>2. \A u \in Threads : Writes(u, d) => buffer'[u] = buffer[u]
    BY <1>1, <1>2, <1>4 DEF Writes
  <2> QED BY <1>2, <1>4, <2>1, <2>2, SameBytes DEF EchoInv
<1>5. \A u \in Threads : u # t => ~ Writes(u, c) /\ ~ Writes(u, c)'
  <2>1. \A u \in Threads : u # t => ~ Writes(u, c)
    BY <1>1, OneDrains DEF Writes, Draining
  <2> QED BY <1>2, <2>1 DEF Writes
<1>6. /\ echoed[c] \in Seq(1 .. MaxSent) /\ inbox[c] \in Seq(1 .. MaxSent)
      /\ buffer[t] \in Seq(1 .. MaxSent)
  BY <1>0, <1>1 DEF TypeOK
<1>m. \A e, b \in Seq(1 .. MaxSent) : \A n \in 1 .. Len(b) :
         /\ e \o SubSeq(b, 1, n) \in Seq(1 .. MaxSent)
         /\ (e \o SubSeq(b, 1, n)) \o SubSeq(b, n + 1, Len(b)) = e \o b
  BY Moved
<1>7. CASE Read(t)
  <2> DEFINE n == IF Len(inbox[c]) < BufSize THEN Len(inbox[c]) ELSE BufSize
             s == SubSeq(inbox[c], 1, n)
             rest == SubSeq(inbox[c], n + 1, Len(inbox[c]))
  <2>1. /\ buffer'[t] = s /\ inbox'[c] = rest /\ UNCHANGED echoed
        /\ pc[t] = "read" /\ pc'[t] = "write" /\ peer[c] # "reset" /\ task'[t] = c
    BY <1>0, <1>1, <1>7 DEF Read, Goto, TypeOK
  <2>2. n \in 1 .. Len(inbox[c])
    BY <1>1, <1>6, <1>7, EmptySeq, LenProperties DEF Read
  <2>4. (echoed[c] \o s) \o rest = echoed[c] \o inbox[c]
    BY <1>6, <1>m, <2>2
  <2> HIDE DEF s, rest
  <2>5. ~ Writes(t, c)
    BY <2>1 DEF Writes
  <2>6. echoed[c] \o inbox[c] = Nums(sent[c])
    BY <1>1, <1>5, <2>1, <2>5 DEF EchoInv, Whole
  <2>7. (echoed'[c] \o buffer'[t]) \o inbox'[c] = Nums(sent'[c])
    BY <1>2, <2>1, <2>4, <2>6
  <2>8. Writes(t, c)'
    BY <2>1 DEF Writes
  <2>9. Whole(c)'
    BY <1>5, <2>7, <2>8 DEF Whole
  <2> QED BY <1>2, <1>4, <2>1, <2>9 DEF EchoInv
<1>8. CASE Write(t)
  <2>1. PICK n \in 1 .. Len(buffer[t]) :
           /\ echoed' = [echoed EXCEPT ![c] = @ \o SubSeq(buffer[t], 1, n)]
           /\ buffer' = [buffer EXCEPT ![t] = SubSeq(@, n + 1, Len(@))]
           /\ Goto(t, IF n = Len(buffer[t]) THEN "read" ELSE "write")
    BY <1>1, <1>8 DEF Write
  <2> DEFINE s == SubSeq(buffer[t], 1, n)
             rest == SubSeq(buffer[t], n + 1, Len(buffer[t]))
  <2>2. n = Len(buffer[t]) => rest = <<>>
    BY <1>6, Pieces
  <2>5. (echoed[c] \o s) \o rest = echoed[c] \o buffer[t] /\ echoed[c] \o s \in Seq(1 .. MaxSent)
    BY <1>6, <1>m
  <2>3. /\ buffer'[t] = rest /\ echoed'[c] = echoed[c] \o s /\ UNCHANGED <<inbox, task>>
        /\ pc'[t] = IF n = Len(buffer[t]) THEN "read" ELSE "write"
        /\ pc[t] = "write" /\ peer[c] # "reset"
    BY <1>0, <1>1, <1>8, <2>1 DEF Write, Goto, TypeOK
  <2> HIDE DEF s, rest
  <2>4. (echoed[c] \o buffer[t]) \o inbox[c] = Nums(sent[c])
    <3>1. Writes(t, c)
      BY <1>1, <2>3 DEF Writes
    <3> QED BY <1>1, <2>3, <3>1 DEF EchoInv, Whole
  <2>6. (echoed'[c] \o buffer'[t]) \o inbox'[c] = Nums(sent'[c])
    BY <1>2, <2>3, <2>4, <2>5
  <2>7. CASE n = Len(buffer[t])
    <3>1. echoed'[c] \o buffer'[t] = echoed'[c]
      BY <2>2, <2>3, <2>5, <2>7, ConcatEmptySeq
    <3>2. ~ Writes(t, c)' /\ buffer'[t] = <<>>
      BY <2>2, <2>3, <2>7 DEF Writes
    <3>3. Whole(c)'
      BY <1>5, <2>6, <3>1, <3>2 DEF Whole
    <3> QED BY <1>2, <1>4, <3>2, <3>3 DEF EchoInv
  <2>8. CASE n # Len(buffer[t])
    <3>1. Writes(t, c)' /\ pc'[t] = "write"
      BY <1>1, <2>3, <2>8 DEF Writes
    <3>2. Whole(c)'
      BY <1>5, <2>6, <3>1 DEF Whole
    <3> QED BY <1>2, <1>4, <3>1, <3>2 DEF EchoInv
  <2> QED BY <2>7, <2>8
<1>9. CASE Drained(t) \/ EndOfStream(t)
  <2>1. /\ UNCHANGED <<inbox, echoed, buffer>>
        /\ pc[t] = "read" /\ pc'[t] # "write"
    BY <1>0, <1>1, <1>9 DEF Drained, EndOfStream, Handled, Goto, TypeOK, clientVars
  <2>2. ~ Writes(t, c) /\ ~ Writes(t, c)'
    BY <2>1 DEF Writes
  <2>3. peer'[c] # "reset" => Whole(c)'
    BY <1>1, <1>2, <1>5, <2>1, <2>2, SameBytes DEF EchoInv
  <2>4. buffer[t] = <<>>
    BY <2>1 DEF EchoInv
  <2> QED BY <1>2, <1>4, <2>1, <2>3, <2>4 DEF EchoInv
<1>10. CASE ConnectionReset(t)
  <2>1. buffer'[t] = <<>> /\ peer'[c] = "reset"
    BY <1>0, <1>1, <1>2, <1>10 DEF ConnectionReset, TypeOK
  <2> QED BY <1>2, <1>4, <2>1 DEF EchoInv
<1> QED BY <1>7, <1>8, <1>9, <1>10 DEF Drain

\* The other steps move no byte, and no thread in or out of its writing.
LEMMA OtherEcho ==
    ASSUME EchoInv, UNCHANGED <<peer, sent, inbox, echoed, buffer>>,
           \A t \in Threads : pc'[t] = "write" <=> pc[t] = "write",
           \A t \in Threads : pc[t] = "write" => task'[t] = task[t]
    PROVE  EchoInv'
<1>1. \A t \in Threads, c \in Conn : Writes(t, c)' <=> Writes(t, c)
  BY DEF Writes
<1>2. \A c \in Conn : peer'[c] # "reset" => Whole(c)'
  BY <1>1, SameBytes DEF EchoInv
<1> QED BY <1>2 DEF EchoInv

LEMMA NextEcho == ASSUME Custody, EchoInv, Next PROVE EchoInv'
<1>0. ThreadsOK /\ ThreadsOK'
  BY Typed DEF Custody
<1>1. CASE Client
  BY <1>1, ClientEcho DEF Custody
<1>2. ASSUME NEW t \in Threads, Drain(t) PROVE EchoInv'
  BY <1>2, DrainEcho
<1>3. CASE Select \/ SelectReturns \/ BatchDone
  BY <1>0, <1>3, OtherEcho DEF Select, SelectReturns, BatchDone, Goto, ThreadsOK, Threads, clientVars
<1>4. CASE ServiceChannel
  <2>1. pc[Loop] = "service" /\ worker \in Workers /\ pc[worker] \in {"new", "waiting", "notified"}
    BY <1>4 DEF ServiceChannel, MonitorFree, Custody, Tasks, TypeOK
  <2>2. \A t \in Threads : t \notin {Loop, worker} => pc'[t] = pc[t] /\ task'[t] = task[t]
    BY <1>0, <1>4, <2>1 DEF ServiceChannel, Die, Goto, ThreadsOK, Threads
  <2>3. pc'[Loop] # "write" /\ pc'[worker] # "write"
    BY <1>0, <1>4, <2>1 DEF ServiceChannel, Die, Goto, ThreadsOK, Threads
  <2>4. UNCHANGED <<peer, sent, inbox, echoed, buffer>>
    BY <1>4 DEF ServiceChannel, clientVars
  <2> QED BY <2>1, <2>2, <2>3, <2>4, OtherEcho
<1>5. ASSUME NEW c \in Conn, Accept(c) \/ AcceptNull(c) \/ Handle(c) PROVE EchoInv'
  BY <1>0, <1>5, OtherEcho DEF Accept, AcceptNull, Handle, ReadDataFromSocket, NoWorker, GetWorker, Die, Goto,
                               ThreadsOK, Threads, clientVars
<1>6. ASSUME NEW w \in Workers,
             Start(w) \/ Awake(w) \/ Wait(w) \/ SpuriousWakeup(w) \/ Wakeup(w) \/ Return(w)
      PROVE  EchoInv'
  BY <1>0, <1>6, OtherEcho DEF Start, Awake, Wait, SpuriousWakeup, UnchangedByWait, Wakeup, Return, Goto,
                               ThreadsOK, Threads, clientVars
<1> QED BY <1>1, <1>2, <1>3, <1>4, <1>5, <1>6 DEF Next, LoopStep, WorkerStep, Threads

LEMMA StutterEcho == EchoInv /\ UNCHANGED vars => EchoInv'
<1> SUFFICES ASSUME EchoInv, UNCHANGED vars PROVE EchoInv'
  OBVIOUS
<1> QED BY OtherEcho DEF vars, clientVars

LEMMA EchoIsInOrder == ASSUME Custody, EchoInv PROVE EchoInOrder
<1> SUFFICES ASSUME NEW c \in Conn, peer[c] # "reset"
             PROVE  \E t \in Threads :
                       /\ \A u \in Threads \ {t} : task[u] = c => buffer[u] = <<>>
                       /\ echoed[c] \o (IF task[t] = c THEN buffer[t] ELSE <<>>) \o inbox[c] = Nums(sent[c])
  BY DEF EchoInOrder, Nums
<1>0. echoed[c] \in Seq(1 .. MaxSent) /\ Loop \in Threads
  BY DEF Custody, TypeOK, Threads
<1>1. \A u \in Threads : task[u] = c /\ ~ Writes(u, c) => buffer[u] = <<>>
  BY DEF EchoInv, Writes
<1>2. CASE \E t \in Threads : Writes(t, c)
  <2>1. PICK t \in Threads : Writes(t, c)
    BY <1>2
  <2>2. \A u \in Threads \ {t} : ~ Writes(u, c)
    BY <2>1, OneDrains DEF Writes, Draining
  <2>3. (echoed[c] \o buffer[t]) \o inbox[c] = Nums(sent[c]) /\ task[t] = c
    BY <2>1 DEF EchoInv, Whole, Writes
  <2> QED BY <1>1, <2>2, <2>3
<1>3. CASE ~ \E t \in Threads : Writes(t, c)
  <2>1. \A u \in Threads : task[u] = c => buffer[u] = <<>>
    BY <1>1, <1>3
  <2>2. (IF task[Loop] = c THEN buffer[Loop] ELSE <<>>) = <<>>
    BY <1>0, <2>1
  <2>3. echoed[c] \o <<>> = echoed[c]
    BY <1>0, ConcatEmptySeq
  <2>4. echoed[c] \o inbox[c] = Nums(sent[c])
    BY <1>3 DEF EchoInv, Whole
  <2> QED BY <1>0, <2>1, <2>2, <2>3, <2>4
<1> QED BY <1>2, <1>3

\* Whatever the loop and the workers do, and however few bytes a write takes, what
\* a client sent is echoed, in the buffer of the one thread that drains its channel,
\* or unread: every byte once, in order, whoever drained which part.
THEOREM EchoStaysInOrder == Spec => []EchoInOrder
<1>1. Init => EchoInv
  BY EchoInit
<1>2. Custody /\ EchoInv /\ [Next]_vars => EchoInv'
  BY NextEcho, StutterEcho
<1>3. Custody /\ EchoInv => EchoInOrder
  BY EchoIsInOrder
<1> QED BY <1>1, <1>2, <1>3, CustodyInvariant, PTL DEF Spec
=============================================================================
