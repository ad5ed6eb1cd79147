--------------------------- MODULE TcpIpBIOProofs ---------------------------
(***************************************************************************)
(* Proofs about the client and the server of tcpip/bio, for every number   *)
(* of connections, requests, tries and Runnables.                          *)
(***************************************************************************)
EXTENDS TcpIpBIO, FiniteSetTheorems, SequenceTheorems, TLAPS

-----------------------------------------------------------------------------
(* Why it holds: the inductive invariant. *)

Message == [clientNum : Nat, serverNum : Nat]
Question(r) == [clientNum |-> r, serverNum |-> 0]
Answer(r) == [clientNum |-> r, serverNum |-> 2 * r]

BIOType ==
    /\ link \in [AllConn -> {"none", "open", "eof", "reset"}]
    /\ backlog \subseteq AllConn
    /\ up \in [AllConn -> Seq(Message)] /\ down \in [AllConn -> Seq(Message)]
    /\ poolStatus \in {"init", "ready", "failed", "exited"}
    /\ DOMAIN socketMap \subseteq Conn
    /\ socketMap \in [DOMAIN socketMap -> BOOLEAN]
    /\ pc \in [Request -> {"try", "send", "receive", "free", "done", "noSocket"}]
    /\ socket \in [Request -> Conn \cup {NoSocket}]
    /\ reply \in [Request -> Message]
    /\ serverPc \in {"init", "accept", "assign", "exited"}
    /\ DOMAIN threadMap \subseteq ServerThread
    /\ threadMap \in [DOMAIN threadMap -> BOOLEAN]
    /\ accepted \in AllConn \cup {NoConn}
    /\ threadPc \in [ServerThread -> {"idle", "read", "write"}]
    /\ served \in [ServerThread -> AllConn \cup {NoConn}]
    /\ data \in [ServerThread -> Message]
    /\ \A r \in Request : pc[r] \in Holding => socket[r] \in Conn
    /\ \A s \in ServerThread : threadPc[s] # "idle" => served[s] \in AllConn
    /\ serverPc = "assign" => accepted \in AllConn

\* The connections that were ever made.
Made == {c \in AllConn : link[c] # "none"}

\* A socket of the pool is free, or one request holds it.
PoolInv ==
    /\ poolStatus = "init" => DOMAIN socketMap = Conn \cap Made
    /\ poolStatus = "ready" => DOMAIN socketMap = Conn /\ Conn \subseteq Made
    /\ poolStatus # "ready" => \A r \in Request : pc[r] = "try"
    /\ \A r \in Request : pc[r] \in Holding => socket[r] \in DOMAIN socketMap /\ ~ socketMap[socket[r]]
    /\ \A q, r \in Request, c \in Conn : Holds(q, c) /\ Holds(r, c) => q = r
    /\ \A c \in DOMAIN socketMap : ~ socketMap[c] => \E r \in Request : Holds(r, c)

\* A connection waits to be accepted, or to be served, or is served by one Runnable.
ServerInv ==
    /\ ~ Listening => \A s \in ServerThread : threadPc[s] = "idle"
    /\ Listening => DOMAIN threadMap = ServerThread
    /\ \A s \in DOMAIN threadMap : threadMap[s] <=> threadPc[s] = "idle"
    /\ serverPc = "assign" <=> accepted # NoConn
    /\ backlog \subseteq Made
    /\ accepted # NoConn => accepted \in Made \ backlog
    /\ \A s \in ServerThread : threadPc[s] # "idle" => served[s] \in Made \ (backlog \cup {accepted})
    /\ \A s, t \in ServerThread :
          threadPc[s] # "idle" /\ threadPc[t] # "idle" /\ served[s] = served[t] => s = t
    /\ dropped # {} => Cardinality(Made) > Cardinality(ServerThread)

Awaits(r, c) == pc[r] = "receive" /\ socket[r] = c
Answers(s, c) == threadPc[s] = "write" /\ served[s] = c

\* Nothing is on its way over connection c.
Quiet(c) == up[c] = <<>> /\ down[c] = <<>> /\ \A s \in ServerThread : ~ Answers(s, c)

\* The request of r is on its way to the server, or lost with the connection, or a
\* Runnable has it, or its answer is on its way back: and nothing else is.
Carried(r, c) ==
    \/ Connected(c) /\ up[c] = <<Question(r)>> /\ down[c] = <<>> /\ \A s \in ServerThread : ~ Answers(s, c)
    \/ Gone(c) /\ Quiet(c)
    \/ up[c] = <<>> /\ down[c] = <<>> /\ \E s \in ServerThread : Answers(s, c) /\ data[s] = Answer(r)
    \/ up[c] = <<>> /\ down[c] = <<Answer(r)>> /\ \A s \in ServerThread : ~ Answers(s, c)

Exchange(c) ==
    /\ \A r \in Request : Awaits(r, c) => Carried(r, c)
    /\ (\A r \in Request : ~ Awaits(r, c)) => Quiet(c)

\* While the client lives, only the end of the server breaks its connections, and a
\* connection carries what the request that waits on it sent, or the answer.
WireInv ==
    poolStatus # "exited" =>
        \A c \in Conn : Exchange(c) /\ (Gone(c) => serverPc = "exited")

ReplyInv == \A r \in Request : reply[r] # NoReply => reply[r] = Answer(r)

BIOInv == BIOType /\ PoolInv /\ ServerInv /\ WireInv /\ ReplyInv

-----------------------------------------------------------------------------
(* Types. *)

LEMMA NoMessages == <<>> \in Seq(Message)
OBVIOUS

\* What the end of a process does to the connections.
LEMMA Closes ==
    ASSUME BIOType, NEW conns, CloseAll(conns)
    PROVE  /\ link' \in [AllConn -> {"none", "open", "eof", "reset"}]
           /\ \A c \in AllConn : c \notin conns => link'[c] = link[c]
           /\ \A c \in AllConn \cap conns : link'[c] = IF link[c] = "none" THEN "none" ELSE link'[c]
           /\ \A c \in AllConn \cap conns : link'[c] # "open"
           /\ \A c \in AllConn : link'[c] = "none" <=> link[c] = "none"
<1>1. PICK how \in [conns -> {"eof", "reset"}] :
         link' = [c \in AllConn |-> IF c \in conns /\ Connected(c) THEN how[c] ELSE link[c]]
  BY DEF CloseAll
<1> QED BY <1>1 DEF Connected, BIOType

LEMMA InitType == Init => BIOType
BY NoMessages DEF Init, BIOType, NetInit, ClientInit, ServerInit, NoReply, NoData, Message, Holding

LEMMA ClientType == ASSUME BIOType, ClientStep PROVE BIOType'
<1> USE DEF BIOType, Holding
<1>0. UNCHANGED serverVars
  BY DEF ClientStep
<1>1. ASSUME NEW c \in Conn, Connect(c, Listening) PROVE BIOType'
  BY <1>0, <1>1 DEF Connect, NewConnection, serverVars, AllConn
<1>2. CASE PoolReady \/ ConnectRefused(Listening)
  BY <1>0, <1>2 DEF PoolReady, ConnectRefused, serverVars, netVars
<1>3. ASSUME NEW r \in Request, ClientThread(r) PROVE BIOType'
  <2>1. CASE GetSocket(r)
    BY <1>0, <2>1 DEF GetSocket, serverVars, netVars
  <2>2. CASE TryAgain(r)
    BY <1>0, <2>2 DEF TryAgain, serverVars, netVars
  <2>3. CASE Send(r)
    <3>1. [clientNum |-> r, serverNum |-> 0] \in Message
      BY RequestAssumption DEF Message
    <3>2. up' \in [AllConn -> Seq(Message)]
      <4>1. CASE UNCHANGED up
        BY <4>1
      <4>2. CASE Connected(socket[r])
        <5>1. up' = [up EXCEPT ![socket[r]] = Append(@, [clientNum |-> r, serverNum |-> 0])]
          BY <2>3, <4>2 DEF Send
        <5>2. \A c \in AllConn : Append(up[c], [clientNum |-> r, serverNum |-> 0]) \in Seq(Message)
          BY <3>1, AppendProperties
        <5> QED BY <5>1, <5>2
      <4> QED BY <2>3, <4>1, <4>2 DEF Send
    <3> QED BY <1>0, <2>3, <3>2 DEF Send, serverVars
  <2>4. CASE Receive(r)
    <3>1. socket[r] \in AllConn /\ down[socket[r]] \in Seq(Message) /\ down[socket[r]] # <<>>
      BY <2>4 DEF Receive, AllConn
    <3>4. Head(down[socket[r]]) \in Message
      BY <3>1
    <3>2. down' \in [AllConn -> Seq(Message)]
      BY <2>4, NoMessages DEF Receive
    <3>3. reply' \in [Request -> Message]
      BY <2>4, <3>4 DEF Receive
    <3> QED BY <1>0, <2>4, <3>2, <3>3 DEF Receive, serverVars
  <2>5. CASE ReceiveFails(r)
    BY <1>0, <2>5 DEF ReceiveFails, serverVars, netVars
  <2>6. CASE FreeSocket(r)
    BY <1>0, <2>6 DEF FreeSocket, serverVars, netVars
  <2> QED BY <1>3, <2>1, <2>2, <2>3, <2>4, <2>5, <2>6 DEF ClientThread
<1>4. CASE ClientExit
  <2>1. link' \in [AllConn -> {"none", "open", "eof", "reset"}]
    BY <1>4, Closes DEF ClientExit
  <2>2. NoReply \in Message
    BY DEF NoReply, Message
  <2> QED BY <1>0, <1>4, <2>1, <2>2, NoMessages DEF ClientExit, serverVars
<1> QED BY <1>1, <1>2, <1>3, <1>4 DEF ClientStep

LEMMA ServerType == ASSUME BIOType, ServerStep PROVE BIOType'
<1> USE DEF BIOType
<1>0. UNCHANGED clientVars
  BY DEF ServerStep
<1>1. CASE Listen
  BY <1>0, <1>1 DEF Listen, clientVars, netVars
<1>2. CASE AssignFails
  BY <1>0, <1>2 DEF AssignFails, clientVars, netVars
<1>3. ASSUME NEW c \in AllConn, Accept(c) PROVE BIOType'
  BY <1>0, <1>3 DEF Accept, clientVars
<1>4. ASSUME NEW s \in ServerThread, Assign(s) PROVE BIOType'
  BY <1>0, <1>4 DEF Assign, clientVars, netVars
<1>5. ASSUME NEW s \in ServerThread, Read(s) PROVE BIOType'
  <2>0. data \in [ServerThread -> Message] /\ up \in [AllConn -> Seq(Message)]
    OBVIOUS
  <2>4. served[s] \in AllConn
    BY <1>5 DEF Read
  <2> QED
    <3>1. Head(up[served[s]]) \in Message /\ Tail(up[served[s]]) \in Seq(Message)
      BY <1>5, <2>4 DEF Read
    <3>2. [clientNum |-> Head(up[served[s]]).clientNum,
           serverNum |-> Head(up[served[s]]).clientNum * 2] \in Message
      BY <3>1 DEF Message
    <3>3. data' \in [ServerThread -> Message] /\ up' \in [AllConn -> Seq(Message)]
      BY <1>5, <3>1, <3>2 DEF Read
    <3> QED BY <1>0, <1>5, <3>3 DEF Read, clientVars
<1>6. ASSUME NEW s \in ServerThread, Write(s) PROVE BIOType'
  <2>1. NoData \in Message
    BY DEF NoData, Message
  <2>2. down' \in [AllConn -> Seq(Message)]
    <3>1. \A c \in AllConn : Append(down[c], data[s]) \in Seq(Message)
      BY AppendProperties
    <3>2. CASE UNCHANGED down
      BY <3>2
    <3>3. CASE down' = [down EXCEPT ![served[s]] = Append(@, data[s])]
      BY <3>1, <3>3
    <3> QED BY <1>6, <3>2, <3>3 DEF Write
  <2> QED BY <1>0, <1>6, <2>1, <2>2 DEF Write, clientVars
<1>7. ASSUME NEW s \in ServerThread, ReadReset(s) PROVE BIOType'
  BY <1>0, <1>7 DEF ReadReset, clientVars, netVars
<1>8. CASE ServerExit
  <2>1. link' \in [AllConn -> {"none", "open", "eof", "reset"}]
    BY <1>8, Closes DEF ServerExit
  <2>2. NoData \in Message
    BY DEF NoData, Message
  <2> QED BY <1>0, <1>8, <2>1, <2>2, NoMessages DEF ServerExit, clientVars
<1> QED BY <1>1, <1>2, <1>3, <1>4, <1>5, <1>6, <1>7, <1>8 DEF ServerStep, AcceptLoop, ServeThread

LEMMA OtherType == ASSUME BIOType, OtherStep PROVE BIOType'
BY DEF BIOType, OtherStep, NewConnection, OtherClose, clientVars, serverVars, AllConn

-----------------------------------------------------------------------------
(* The client's pool. *)

\* Steps that leave the pool, and who holds what, alone.
LEMMA SamePool ==
    ASSUME BIOType, PoolInv, UNCHANGED <<poolStatus, socketMap, pc, socket>>,
           \A c \in Conn : link'[c] = "none" <=> link[c] = "none"
    PROVE  PoolInv'
<1>1. \A c \in Conn : c \in Made' <=> c \in Made
  BY DEF Made, AllConn
<1>2. (Conn \cap Made)' = Conn \cap Made /\ ((Conn \subseteq Made)' <=> Conn \subseteq Made)
  BY <1>1
<1> QED BY <1>2 DEF PoolInv, Holds

LEMMA ClientPool == ASSUME BIOType, PoolInv, ClientStep PROVE PoolInv'
<1> USE DEF Holding
<1>1. ASSUME NEW c \in Conn, Connect(c, Listening) PROVE PoolInv'
  <2>1. /\ poolStatus = "init" /\ poolStatus' = "init" /\ UNCHANGED <<pc, socket>>
        /\ link' = [link EXCEPT ![c] = "open"]
        /\ socketMap' = [d \in DOMAIN socketMap \cup {c} |-> IF d = c THEN TRUE ELSE socketMap[d]]
    BY <1>1 DEF Connect, NewConnection
  <2>2. Made' = Made \cup {c}
    BY <2>1 DEF Made, BIOType, AllConn
  <2>3. \A r \in Request : pc[r] = "try"
    BY <2>1 DEF PoolInv
  <2>4. \A d \in DOMAIN socketMap : socketMap[d]
    BY <2>3 DEF PoolInv, Holds, BIOType
  <2> QED BY <2>1, <2>2, <2>3, <2>4 DEF PoolInv, Holds
<1>2. CASE PoolReady
  <2>1. poolStatus = "init" /\ poolStatus' = "ready" /\ UNCHANGED <<socketMap, pc, socket, link>>
    BY <1>2 DEF PoolReady, netVars
  <2>2. Conn \subseteq Made /\ Made' = Made
    BY <1>2, <2>1 DEF PoolReady, Made, AllConn
  <2> QED BY <2>1, <2>2 DEF PoolInv, Holds
<1>3. CASE ConnectRefused(Listening)
  BY <1>3 DEF ConnectRefused, PoolInv, Holds
<1>4. ASSUME NEW r \in Request, GetSocket(r) PROVE PoolInv'
  <2>1. PICK c \in DOMAIN socketMap :
           /\ socketMap[c]
           /\ socketMap' = [socketMap EXCEPT ![c] = FALSE]
           /\ socket' = [socket EXCEPT ![r] = c]
    BY <1>4 DEF GetSocket
  <2>2. poolStatus = "ready" /\ poolStatus' = "ready" /\ pc[r] = "try" /\ UNCHANGED link
        /\ pc' = [pc EXCEPT ![r] = "send"]
    BY <1>4 DEF GetSocket, netVars
  <2>3. Made' = Made /\ c \in Conn
    BY <2>2 DEF Made, BIOType
  <2>4. \A q \in Request, d \in Conn : Holds(q, d)' <=> Holds(q, d) \/ (q = r /\ d = c)
    BY <2>1, <2>2 DEF Holds, BIOType
  <2>5. \A q \in Request : ~ Holds(q, c)
    BY <2>1 DEF PoolInv, Holds
  <2>6. \A q \in Request : pc'[q] \in Holding => socket'[q] \in DOMAIN socketMap' /\ ~ socketMap'[socket'[q]]
    BY <2>1, <2>2 DEF PoolInv, BIOType
  <2> QED BY <2>1, <2>2, <2>3, <2>4, <2>5, <2>6 DEF PoolInv, BIOType
<1>5. ASSUME NEW r \in Request, TryAgain(r) \/ Send(r) \/ Receive(r) \/ ReceiveFails(r) PROVE PoolInv'
  <2>1. poolStatus = "ready" /\ UNCHANGED <<poolStatus, socketMap, socket, link>>
    BY <1>5 DEF TryAgain, Send, Receive, ReceiveFails, netVars
  <2>2. \A q \in Request : pc'[q] \in Holding <=> pc[q] \in Holding
    BY <1>5 DEF TryAgain, Send, Receive, ReceiveFails, BIOType
  <2>3. \A q \in Request, d \in Conn : Holds(q, d)' <=> Holds(q, d)
    BY <2>1, <2>2 DEF Holds
  <2> QED BY <2>1, <2>2, <2>3 DEF PoolInv, Made, BIOType
<1>6. ASSUME NEW r \in Request, FreeSocket(r) PROVE PoolInv'
  <2> DEFINE c == socket[r]
  <2>1. /\ poolStatus = "ready" /\ pc[r] = "free" /\ UNCHANGED <<poolStatus, link>>
        /\ socketMap' = [socketMap EXCEPT ![c] = TRUE]
        /\ socket' = [socket EXCEPT ![r] = NoSocket]
        /\ pc' = [pc EXCEPT ![r] = "done"]
    BY <1>6 DEF FreeSocket, netVars
  <2>2. Holds(r, c) /\ c \in Conn
    BY <2>1 DEF Holds, BIOType
  <2>3. \A q \in Request : q # r => ~ Holds(q, c)
    BY <2>2 DEF PoolInv
  <2>4. \A q \in Request : pc'[q] \in Holding <=> pc[q] \in Holding /\ q # r
    BY <2>1 DEF BIOType
  <2>5. \A q \in Request : q # r => socket'[q] = socket[q]
    BY <2>1 DEF BIOType
  <2>6. \A q \in Request, d \in Conn : Holds(q, d)' <=> Holds(q, d) /\ q # r
    BY <2>4, <2>5 DEF Holds
  <2>7. \A q \in Request : pc'[q] \in Holding => socket'[q] \in DOMAIN socketMap' /\ ~ socketMap'[socket'[q]]
    BY <2>1, <2>3, <2>4, <2>5 DEF PoolInv, BIOType, Holds
  <2>8. \A d \in DOMAIN socketMap' : ~ socketMap'[d] => ~ socketMap[d] /\ d # c
    BY <2>1 DEF BIOType
  <2>9. \A d \in DOMAIN socketMap' : ~ socketMap'[d] => \E q \in Request : Holds(q, d)'
    <3> SUFFICES ASSUME NEW d \in DOMAIN socketMap', ~ socketMap'[d] PROVE \E q \in Request : Holds(q, d)'
      OBVIOUS
    <3>1. d \in Conn /\ d \in DOMAIN socketMap /\ ~ socketMap[d] /\ d # c
      BY <2>1, <2>8 DEF BIOType
    <3>2. PICK q \in Request : Holds(q, d)
      BY <3>1 DEF PoolInv
    <3> QED BY <2>6, <3>1, <3>2 DEF Holds
  <2>10. DOMAIN socketMap' = DOMAIN socketMap /\ Made' = Made
    BY <2>1 DEF Made
  <2> QED BY <2>1, <2>6, <2>7, <2>9, <2>10 DEF PoolInv
<1>7. CASE ClientExit
  BY <1>7 DEF ClientExit, PoolInv, Holds
<1> QED BY <1>1, <1>2, <1>3, <1>4, <1>5, <1>6, <1>7 DEF ClientStep, ClientThread

LEMMA ServerLinks ==
    ASSUME BIOType, ServerStep
    PROVE  /\ \A c \in AllConn : link'[c] = "none" <=> link[c] = "none"
           /\ ~ ServerExit => UNCHANGED link
<1>1. CASE ServerExit
  BY <1>1, Closes DEF ServerExit
<1>2. CASE ~ ServerExit
  BY <1>2 DEF ServerStep, AcceptLoop, ServeThread, Listen, AssignFails, Accept, Assign, Read, Write, ReadReset, netVars
<1> QED BY <1>1, <1>2

LEMMA NextPool == ASSUME BIOType, PoolInv, Next PROVE PoolInv'
<1>1. CASE ClientStep
  BY <1>1, ClientPool
<1>2. CASE ServerStep
  BY <1>2, SamePool, ServerLinks DEF ServerStep, clientVars, AllConn
<1>3. CASE OtherStep
  <2>1. UNCHANGED clientVars
    BY <1>3 DEF OtherStep
  <2>2. \A c \in Conn : link'[c] = link[c]
    BY <1>3, ConnAssumption DEF OtherStep, NewConnection, OtherClose, BIOType, AllConn
  <2> QED BY <2>1, <2>2, SamePool DEF clientVars
<1> QED BY <1>1, <1>2, <1>3 DEF Next

-----------------------------------------------------------------------------
(* The server's Runnables. *)

LEMMA MadeFinite ==
    /\ IsFiniteSet(Made) /\ Cardinality(Made) \in Nat
    /\ Cardinality(ServerThread) \in Nat
<1>1. Made \subseteq AllConn
  BY DEF Made
<1>2. IsFiniteSet(Made)
  BY <1>1, ConnAssumption, FS_Subset
<1> QED BY <1>2, FS_CardinalityType, ServerThreadAssumption

\* Steps that leave the server and the connections made alone.
LEMMA SameServer ==
    ASSUME BIOType, ServerInv, UNCHANGED <<backlog, serverVars>>,
           \A c \in AllConn : link'[c] = "none" <=> link[c] = "none"
    PROVE  ServerInv'
<1>1. Made' = Made
  BY DEF Made
<1> QED BY <1>1 DEF ServerInv, serverVars, Listening

\* A new connection is none of those the server has.
LEMMA NewServer ==
    ASSUME BIOType, ServerInv, NEW c \in AllConn, NewConnection(c), UNCHANGED serverVars
    PROVE  ServerInv'
<1>1. c \notin Made /\ Made' = Made \cup {c} /\ backlog' = backlog \cup {c}
  BY DEF NewConnection, Made, BIOType
<1>2. Cardinality(Made') = Cardinality(Made) + 1
  BY <1>1, MadeFinite, FS_AddElement
<1>3. dropped' # {} => Cardinality(Made') > Cardinality(ServerThread)
  BY <1>2, MadeFinite DEF ServerInv, serverVars
<1>4. /\ ~ Listening' => \A s \in ServerThread : threadPc'[s] = "idle"
      /\ Listening' => DOMAIN threadMap' = ServerThread
      /\ \A s \in DOMAIN threadMap' : threadMap'[s] <=> threadPc'[s] = "idle"
      /\ serverPc' = "assign" <=> accepted' # NoConn
      /\ \A s, t \in ServerThread :
            threadPc'[s] # "idle" /\ threadPc'[t] # "idle" /\ served'[s] = served'[t] => s = t
  BY DEF ServerInv, serverVars, Listening
<1>5. /\ backlog' \subseteq Made'
      /\ accepted' # NoConn => accepted' \in Made' \ backlog'
  BY <1>1 DEF ServerInv, serverVars
<1>6. \A s \in ServerThread : threadPc'[s] # "idle" => served'[s] \in Made' \ (backlog' \cup {accepted'})
  BY <1>1 DEF ServerInv, serverVars
<1> QED BY <1>3, <1>4, <1>5, <1>6 DEF ServerInv

LEMMA ServerServer == ASSUME BIOType, ServerInv, ServerStep PROVE ServerInv'
<1> USE DEF Listening
<1>m. Made' = Made
  BY ServerLinks DEF Made
<1>1. CASE Listen
  BY <1>1, <1>m DEF Listen, ServerInv, netVars, BIOType
<1>2. CASE AssignFails
  <2>1. /\ serverPc = "assign" /\ \A s \in ServerThread : ~ threadMap[s]
        /\ UNCHANGED <<backlog, threadMap, threadPc, served>>
    BY <1>2 DEF AssignFails, netVars
  <2>2. CASE serverPc' = "assign"
    BY <1>2, <1>m, <2>1, <2>2 DEF AssignFails, ServerInv
  <2>3. CASE serverPc' # "assign"
    <3>1. serverPc' = "accept" /\ accepted' = NoConn
      BY <1>2, <2>1, <2>3 DEF AssignFails
    <3>2. Cardinality(Made) > Cardinality(ServerThread)
      <4>1. \A s \in ServerThread : threadPc[s] # "idle"
        BY <2>1 DEF ServerInv, BIOType
      <4>2. accepted \in Made /\ \A s \in ServerThread : served[s] \in Made \ {accepted}
        BY <2>1, <4>1, NoConnAssumption DEF ServerInv, BIOType
      <4>3. served \in Injection(ServerThread, Made \ {accepted})
        BY <4>1, <4>2 DEF Injection, IsInjective, ServerInv, BIOType
      <4>4. IsFiniteSet(Made \ {accepted}) /\ Cardinality(Made \ {accepted}) = Cardinality(Made) - 1
        BY <4>2, MadeFinite, FS_RemoveElement
      <4>5. Cardinality(ServerThread) <= Cardinality(Made \ {accepted})
        BY <4>3, <4>4, FS_Injection
      <4> QED BY <4>4, <4>5, MadeFinite
    <3>3. NoConn \notin Made
      BY NoConnAssumption DEF Made
    <3> QED BY <1>m, <2>1, <3>1, <3>2, <3>3 DEF ServerInv
  <2> QED BY <2>2, <2>3
<1>3. ASSUME NEW c \in AllConn, Accept(c) PROVE ServerInv'
  <2>1. /\ serverPc = "accept" /\ serverPc' = "assign" /\ c \in backlog
        /\ backlog' = backlog \ {c} /\ accepted' = c /\ c # NoConn
        /\ UNCHANGED <<threadMap, threadPc, served, dropped>>
    BY <1>3, NoConnAssumption DEF Accept
  <2> QED BY <1>m, <2>1 DEF ServerInv
<1>4. ASSUME NEW s \in ServerThread, Assign(s) PROVE ServerInv'
  <2>1. /\ serverPc = "assign" /\ serverPc' = "accept" /\ threadMap[s] /\ accepted' = NoConn
        /\ threadMap' = [threadMap EXCEPT ![s] = FALSE]
        /\ served' = [served EXCEPT ![s] = accepted]
        /\ threadPc' = [threadPc EXCEPT ![s] = "read"]
        /\ UNCHANGED <<backlog, dropped>>
    BY <1>4 DEF Assign, netVars
  <2>2. threadPc[s] = "idle" /\ NoConn \notin Made
    BY <2>1, NoConnAssumption DEF ServerInv, Made
  <2>3. accepted \in Made \ backlog
    BY <2>1 DEF ServerInv
  <2>4. \A t \in ServerThread : t # s => threadPc'[t] = threadPc[t] /\ served'[t] = served[t]
    BY <2>1 DEF BIOType
  <2>5. threadPc'[s] = "read" /\ served'[s] = accepted
    BY <2>1 DEF BIOType
  <2>6. \A t \in ServerThread : threadPc'[t] # "idle" => served'[t] \in Made \ (backlog \cup {NoConn})
    BY <2>2, <2>3, <2>4, <2>5 DEF ServerInv
  <2>7. \A t, u \in ServerThread :
           threadPc'[t] # "idle" /\ threadPc'[u] # "idle" /\ served'[t] = served'[u] => t = u
    BY <2>4, <2>5 DEF ServerInv
  <2>8. DOMAIN threadMap' = ServerThread /\ \A t \in ServerThread : threadMap'[t] <=> threadPc'[t] = "idle"
    BY <2>1, <2>4, <2>5 DEF ServerInv, BIOType
  <2> QED BY <1>m, <2>1, <2>6, <2>7, <2>8 DEF ServerInv
<1>5. ASSUME NEW s \in ServerThread, Read(s) \/ Write(s) PROVE ServerInv'
  <2>1. UNCHANGED <<backlog, serverPc, threadMap, accepted, served, dropped>>
    BY <1>5 DEF Read, Write
  <2>2. \A t \in ServerThread : threadPc'[t] = "idle" <=> threadPc[t] = "idle"
    BY <1>5 DEF Read, Write, BIOType
  <2>3. DOMAIN threadMap \subseteq ServerThread
    BY DEF BIOType
  <2> QED BY <1>m, <2>1, <2>2, <2>3 DEF ServerInv
<1>6. ASSUME NEW s \in ServerThread, ReadReset(s) PROVE ServerInv'
  <2>1. /\ threadPc[s] = "read"
        /\ threadMap' = [threadMap EXCEPT ![s] = TRUE]
        /\ served' = [served EXCEPT ![s] = NoConn]
        /\ threadPc' = [threadPc EXCEPT ![s] = "idle"]
        /\ UNCHANGED <<backlog, serverPc, accepted, dropped>>
    BY <1>6 DEF ReadReset, netVars
  <2>2. \A t \in ServerThread : t # s => threadPc'[t] = threadPc[t] /\ served'[t] = served[t]
    BY <2>1 DEF BIOType
  <2>3. threadPc'[s] = "idle"
    BY <2>1 DEF BIOType
  <2>4. \A t \in DOMAIN threadMap' : threadMap'[t] <=> threadPc'[t] = "idle"
    BY <2>1, <2>2, <2>3 DEF ServerInv, BIOType
  <2> QED BY <1>m, <2>1, <2>2, <2>3, <2>4 DEF ServerInv
<1>7. CASE ServerExit
  BY <1>7 DEF ServerExit, ServerInv
<1> QED BY <1>1, <1>2, <1>3, <1>4, <1>5, <1>6, <1>7 DEF ServerStep, AcceptLoop, ServeThread

LEMMA NextServer == ASSUME BIOType, ServerInv, Next PROVE ServerInv'
<1>1. CASE ClientStep
  <2>0. UNCHANGED serverVars
    BY <1>1 DEF ClientStep
  <2>1. ASSUME NEW c \in Conn, Connect(c, Listening) PROVE ServerInv'
    BY <2>0, <2>1, NewServer DEF Connect, AllConn
  <2>2. CASE ClientExit
    <3>1. UNCHANGED backlog
      BY <2>2 DEF ClientExit
    <3>2. \A c \in AllConn : link'[c] = "none" <=> link[c] = "none"
      BY <2>2, Closes DEF ClientExit
    <3> QED BY <2>0, <3>1, <3>2, SameServer
  <2>3. CASE PoolReady \/ ConnectRefused(Listening) \/ \E r \in Request : ClientThread(r)
    <3>1. UNCHANGED <<link, backlog>>
      BY <2>3 DEF PoolReady, ConnectRefused, ClientThread, GetSocket, TryAgain, Send, Receive, ReceiveFails,
                  FreeSocket, netVars
    <3> QED BY <2>0, <3>1, SameServer
  <2> QED BY <1>1, <2>1, <2>2, <2>3 DEF ClientStep
<1>2. CASE ServerStep
  BY <1>2, ServerServer
<1>3. CASE OtherStep
  <2>1. UNCHANGED serverVars
    BY <1>3 DEF OtherStep
  <2>2. PICK c \in OtherConn : NewConnection(c) \/ OtherClose(c)
    BY <1>3 DEF OtherStep
  <2>3. CASE NewConnection(c)
    BY <2>1, <2>3, NewServer DEF AllConn
  <2>4. CASE OtherClose(c)
    BY <2>1, <2>4, SameServer DEF OtherClose, BIOType, Connected
  <2> QED BY <2>2, <2>3, <2>4
<1> QED BY <1>1, <1>2, <1>3 DEF Next

-----------------------------------------------------------------------------
(* What is on its way. *)

\* Steps that leave connection c, and what is said of it, alone.
LEMMA SameExchange ==
    ASSUME NEW c \in Conn, Exchange(c),
           UNCHANGED <<link[c], up[c], down[c]>>,
           \A r \in Request : Awaits(r, c)' <=> Awaits(r, c),
           \A s \in ServerThread : Answers(s, c)' <=> Answers(s, c),
           \A s \in ServerThread : Answers(s, c) => data'[s] = data[s]
    PROVE  Exchange(c)'
<1>1. Quiet(c)' <=> Quiet(c)
  BY DEF Quiet
<1>2. \A r \in Request : Carried(r, c) => Carried(r, c)'
  BY <1>1 DEF Carried, Connected, Gone
<1> QED BY <1>1, <1>2 DEF Exchange

\* Who waits on a connection is the only one, and holds it.
LEMMA OneAwaits ==
    ASSUME BIOType, PoolInv
    PROVE  /\ \A q, r \in Request, c \in Conn : Awaits(q, c) /\ Awaits(r, c) => q = r
           /\ \A q, r \in Request, c \in Conn : Awaits(q, c) /\ Holds(r, c) => q = r
           /\ \A r \in Request : pc[r] # "try" => poolStatus = "ready"
BY DEF PoolInv, Holds, Holding, Awaits

\* One Runnable serves a connection.
LEMMA OneAnswers ==
    ASSUME ServerInv
    PROVE  \A s, t \in ServerThread, c \in Conn :
              Answers(s, c) /\ threadPc[t] # "idle" /\ served[t] = c => s = t
BY DEF ServerInv, Answers

LEMMA ClientWire == ASSUME BIOType, PoolInv, ServerInv, WireInv, ClientStep PROVE WireInv'
<1>0. UNCHANGED serverVars
  BY DEF ClientStep
<1>a. \A c \in Conn, s \in ServerThread : Answers(s, c)' <=> Answers(s, c)
  BY <1>0 DEF Answers, serverVars
<1>d. data' = data /\ serverPc' = serverPc /\ threadPc' = threadPc
  BY <1>0 DEF serverVars
<1>1. ASSUME NEW c \in Conn, Connect(c, Listening) PROVE WireInv'
  <2>1. /\ poolStatus = "init" /\ poolStatus' = "init" /\ link[c] = "none"
        /\ link' = [link EXCEPT ![c] = "open"]
        /\ UNCHANGED <<up, down, pc, socket>>
    BY <1>1 DEF Connect, NewConnection
  <2>2. \A r \in Request, d \in Conn : ~ Awaits(r, d) /\ ~ Awaits(r, d)'
    BY <2>1 DEF PoolInv, Awaits
  <2>3. \A d \in Conn : Exchange(d)'
    <3>1. \A d \in Conn : Quiet(d)
      BY <2>1, <2>2 DEF WireInv, Exchange
    <3>2. \A d \in Conn : Quiet(d)'
      BY <1>a, <2>1, <3>1 DEF Quiet
    <3> QED BY <2>2, <3>2 DEF Exchange
  <2>4. \A d \in Conn : Gone(d)' => Gone(d)
    BY <2>1 DEF Gone, BIOType
  <2> QED BY <1>d, <2>1, <2>3, <2>4 DEF WireInv
<1>2. CASE PoolReady \/ ConnectRefused(Listening)
  <2>1. UNCHANGED <<link, up, down, pc, socket>> /\ poolStatus = "init"
    BY <1>2 DEF PoolReady, ConnectRefused, netVars
  <2>2. \A d \in Conn : Exchange(d)'
    BY <1>a, <1>d, <2>1, SameExchange DEF WireInv, Awaits
  <2> QED BY <1>d, <2>1, <2>2 DEF WireInv, Gone
<1>3. ASSUME NEW r \in Request, GetSocket(r) \/ TryAgain(r) \/ FreeSocket(r) PROVE WireInv'
  <2>1. UNCHANGED <<link, up, down, poolStatus>> /\ poolStatus = "ready"
    BY <1>3 DEF GetSocket, TryAgain, FreeSocket, netVars
  <2>2. \A q \in Request, d \in Conn : Awaits(q, d)' <=> Awaits(q, d)
    BY <1>3 DEF Awaits, GetSocket, TryAgain, FreeSocket, BIOType
  <2>3. \A d \in Conn : Exchange(d)'
    BY <1>a, <1>d, <2>1, <2>2, SameExchange DEF WireInv
  <2> QED BY <1>d, <2>1, <2>3 DEF WireInv, Gone
<1>4. ASSUME NEW r \in Request, Send(r) PROVE WireInv'
  <2>p. PICK c \in Conn : c = socket[r]
    BY <1>4 DEF Send, BIOType, Holding
  <2>1. /\ poolStatus = "ready" /\ UNCHANGED <<link, down, poolStatus, socket>> /\ pc[r] = "send"
        /\ pc' = [pc EXCEPT ![r] = "receive"]
        /\ up' = IF Connected(c) THEN [up EXCEPT ![c] = Append(@, Question(r))] ELSE up
    BY <1>4, <2>p DEF Send, Question
  <2>2. \A q \in Request, d \in Conn : Awaits(q, d)' <=> Awaits(q, d) \/ (q = r /\ d = c)
    BY <2>p, <2>1 DEF Awaits, BIOType
  <2>3. \A q \in Request : ~ Awaits(q, c)
    BY <2>p, <2>1, OneAwaits DEF Holds, Holding, Awaits
  <2>4. Quiet(c)
    BY <2>1, <2>3 DEF WireInv, Exchange
  <2>5. Carried(r, c)'
    <3>1. CASE Connected(c)
      <4>1. up'[c] = <<Question(r)>>
        BY <2>1, <2>4, <3>1 DEF Quiet, BIOType, AllConn
      <4> QED BY <1>a, <2>1, <2>4, <3>1, <4>1 DEF Quiet, Carried, Connected
    <3>2. CASE ~ Connected(c)
      <4>1. link[c] # "none"
        BY <2>1 DEF PoolInv, Made
      <4>2. Gone(c) /\ UNCHANGED up
        BY <2>1, <3>2, <4>1 DEF Gone, Connected, BIOType, AllConn
      <4> QED BY <1>a, <2>1, <2>4, <4>2 DEF Quiet, Carried, Gone
    <3> QED BY <3>1, <3>2
  <2>6. Exchange(c)'
    <3>1. Awaits(r, c)' /\ \A q \in Request : Awaits(q, c)' => q = r
      BY <2>2, <2>3
    <3> QED BY <2>5, <3>1 DEF Exchange
  <2>7. \A d \in Conn : d # c => Exchange(d)'
    <3>1. \A d \in Conn : d # c => up'[d] = up[d]
      BY <2>1 DEF BIOType
    <3> QED BY <1>a, <1>d, <2>1, <2>2, <3>1, SameExchange DEF WireInv
  <2> QED BY <1>d, <2>1, <2>6, <2>7 DEF WireInv, Gone
<1>5. ASSUME NEW r \in Request, Receive(r) \/ ReceiveFails(r) PROVE WireInv'
  <2>p. PICK c \in Conn : c = socket[r]
    BY <1>5 DEF Receive, ReceiveFails, BIOType, Holding
  <2>1. /\ poolStatus = "ready" /\ UNCHANGED <<link, up, poolStatus, socket>> /\ pc[r] = "receive"
        /\ pc' = [pc EXCEPT ![r] = "free"]
        /\ \A d \in Conn : d # c => down'[d] = down[d]
        /\ down'[c] = <<>>
    BY <1>5, <2>p DEF Receive, ReceiveFails, netVars, BIOType, AllConn
  <2>2. \A q \in Request, d \in Conn : Awaits(q, d)' <=> Awaits(q, d) /\ q # r
    BY <2>1 DEF Awaits, BIOType
  <2>3. Awaits(r, c)
    BY <2>p, <2>1 DEF Awaits
  <2>4. \A q \in Request : ~ Awaits(q, c)'
    BY <2>2, <2>3, OneAwaits
  <2>5. Carried(r, c) /\ (Gone(c) => serverPc = "exited")
    BY <2>1, <2>3 DEF WireInv, Exchange
  <2>6. up[c] = <<>> /\ \A s \in ServerThread : ~ Answers(s, c)
    <3>1. CASE Receive(r)
      BY <2>p, <2>5, <3>1 DEF Receive, Carried, Quiet
    <3>2. CASE ReceiveFails(r)
      <4>1. Gone(c) /\ \A s \in ServerThread : threadPc[s] = "idle"
        BY <2>p, <2>5, <3>2 DEF ReceiveFails, ServerInv, Listening
      <4> QED BY <2>5, <4>1 DEF Carried, Quiet, Connected, Gone, Answers
    <3> QED BY <1>5, <3>1, <3>2
  <2>7. Exchange(c)'
    BY <1>a, <2>1, <2>4, <2>6 DEF Exchange, Quiet
  <2>8. \A d \in Conn : d # c => Exchange(d)'
    <3>1. \A q \in Request, d \in Conn : d # c => (Awaits(q, d)' <=> Awaits(q, d))
      BY <2>p, <2>2 DEF Awaits
    <3> QED BY <1>a, <1>d, <2>1, <3>1, SameExchange DEF WireInv
  <2> QED BY <1>d, <2>1, <2>7, <2>8 DEF WireInv, Gone
<1>6. CASE ClientExit
  BY <1>6 DEF ClientExit, WireInv
<1> QED BY <1>1, <1>2, <1>3, <1>4, <1>5, <1>6 DEF ClientStep, ClientThread

\* A live Runnable serves a connection that is not broken, while the client lives.
LEMMA ServesConnected ==
    ASSUME BIOType, ServerInv, WireInv, NEW s \in ServerThread, ServeThread(s), poolStatus # "exited",
           served[s] \in Conn
    PROVE  Connected(served[s])
<1>1. threadPc[s] # "idle" /\ serverPc # "exited"
  BY DEF ServeThread, Read, Write, ReadReset
<1>2. link[served[s]] # "none"
  BY <1>1 DEF ServerInv, Made
<1>3. ~ Gone(served[s])
  BY <1>1 DEF WireInv
<1> QED BY <1>2, <1>3 DEF Gone, Connected, BIOType, AllConn

LEMMA ServerWire == ASSUME BIOType, PoolInv, ServerInv, WireInv, ServerStep PROVE WireInv'
<1> SUFFICES ASSUME poolStatus # "exited"
             PROVE  \A c \in Conn : (Exchange(c) /\ (Gone(c) => serverPc = "exited"))'
  BY DEF WireInv, ServerStep, clientVars
<1>0. UNCHANGED clientVars
  BY DEF ServerStep
<1>w. \A c \in Conn : Exchange(c) /\ (Gone(c) => serverPc = "exited")
  BY DEF WireInv
<1>a. \A c \in Conn, r \in Request : Awaits(r, c)' <=> Awaits(r, c)
  BY <1>0 DEF Awaits, clientVars
<1>g. ~ ServerExit => \A c \in Conn : Gone(c)' <=> Gone(c)
  BY ServerLinks DEF Gone
<1>e. serverPc = "exited" => \A s \in ServerThread : threadPc[s] = "idle"
  BY DEF ServerInv, Listening
<1>1. CASE Listen \/ AssignFails \/ (\E c \in AllConn : Accept(c)) \/ \E s \in ServerThread : Assign(s)
  <2>1. UNCHANGED <<link, up, down, data>> /\ serverPc # "exited"
    BY <1>1 DEF Listen, AssignFails, Accept, Assign, netVars
  <2>2. \A s \in ServerThread, c \in Conn : Answers(s, c)' <=> Answers(s, c)
    <3>1. CASE UNCHANGED <<threadPc, served>>
      BY <3>1 DEF Answers
    <3>2. ASSUME NEW t \in ServerThread, Assign(t)
          PROVE  \A s \in ServerThread, c \in Conn : Answers(s, c)' <=> Answers(s, c)
      <4>1. /\ threadPc[t] = "idle"
            /\ served' = [served EXCEPT ![t] = accepted]
            /\ threadPc' = [threadPc EXCEPT ![t] = "read"]
        BY <3>2 DEF Assign, ServerInv, Listening
      <4> QED BY <4>1 DEF Answers, BIOType
    <3> QED BY <1>1, <3>1, <3>2 DEF Listen, AssignFails, Accept
  <2>3. \A c \in Conn : Exchange(c)'
    BY <1>a, <1>w, <2>1, <2>2, SameExchange
  <2>4. \A c \in Conn : ~ Gone(c)'
    BY <1>w, <2>1 DEF Gone
  <2> QED BY <2>3, <2>4
<1>2. ASSUME NEW s \in ServerThread, ServeThread(s), Read(s)
      PROVE  \A c \in Conn : (Exchange(c) /\ (Gone(c) => serverPc = "exited"))'
  <2>p. PICK b \in AllConn : b = served[s]
    BY <1>2 DEF Read, BIOType
  <2>1. /\ threadPc[s] = "read" /\ threadPc' = [threadPc EXCEPT ![s] = "write"]
        /\ UNCHANGED <<link, down, served, serverPc>>
        /\ up[b] # <<>> /\ up' = [up EXCEPT ![b] = Tail(@)]
        /\ data' = [data EXCEPT ![s] = [clientNum |-> Head(up[b]).clientNum,
                                        serverNum |-> Head(up[b]).clientNum * 2]]
    BY <1>2, <2>p DEF Read
  <2>2. \A t \in ServerThread, c \in Conn : Answers(t, c)' <=> Answers(t, c) \/ (t = s /\ c = b)
    BY <2>p, <2>1 DEF Answers, BIOType
  <2>3. \A c \in Conn : c # b => Exchange(c)'
    <3> SUFFICES ASSUME NEW c \in Conn, c # b PROVE Exchange(c)'
      OBVIOUS
    <3>1. up'[c] = up[c]
      BY <2>1 DEF BIOType, AllConn
    <3>2. \A t \in ServerThread : Answers(t, c) => data'[t] = data[t]
      BY <2>p, <2>1 DEF Answers, BIOType
    <3> QED BY <1>a, <1>w, <2>1, <2>2, <3>1, <3>2, SameExchange
  <2>4. ASSUME b \in Conn PROVE Exchange(b)'
    <3>1. \A t \in ServerThread : ~ Answers(t, b)
      BY <2>p, <2>1, <2>4, OneAnswers DEF Answers
    <3>2. PICK r \in Request : Awaits(r, b)
      BY <1>w, <2>1, <2>4 DEF Exchange, Quiet
    <3>3. up[b] = <<Question(r)>> /\ down[b] = <<>>
      BY <1>w, <2>1, <2>4, <3>2 DEF Exchange, Carried, Quiet
    <3>4. /\ up'[b] = <<>>
          /\ data'[s] = [clientNum |-> Question(r).clientNum, serverNum |-> Question(r).clientNum * 2]
      BY <2>1, <3>3 DEF BIOType
    <3>5. data'[s] = Answer(r)
      <4>1. r * 2 = 2 * r
        BY RequestAssumption
      <4> QED BY <3>4, <4>1 DEF Question, Answer
    <3>6. Carried(r, b)'
      BY <2>1, <2>2, <2>4, <3>3, <3>4, <3>5 DEF Carried
    <3> QED BY <1>a, <2>4, <3>2, <3>6, OneAwaits DEF Exchange
  <2> QED BY <1>w, <2>1, <2>3, <2>4 DEF Gone
<1>3. ASSUME NEW s \in ServerThread, ServeThread(s), Write(s)
      PROVE  \A c \in Conn : (Exchange(c) /\ (Gone(c) => serverPc = "exited"))'
  <2>p. PICK b \in AllConn : b = served[s]
    BY <1>3 DEF Write, BIOType
  <2>1. /\ threadPc[s] = "write" /\ threadPc' = [threadPc EXCEPT ![s] = "read"]
        /\ UNCHANGED <<link, up, served, serverPc>>
        /\ down' = IF Connected(b) THEN [down EXCEPT ![b] = Append(@, data[s])] ELSE down
        /\ data' = [data EXCEPT ![s] = NoData]
    BY <1>3, <2>p DEF Write
  <2>2. \A t \in ServerThread, c \in Conn : Answers(t, c)' <=> Answers(t, c) /\ t # s
    BY <2>1 DEF Answers, BIOType
  <2>3. \A c \in Conn : c # b => Exchange(c)'
    <3> SUFFICES ASSUME NEW c \in Conn, c # b PROVE Exchange(c)'
      OBVIOUS
    <3>1. down'[c] = down[c]
      BY <2>1 DEF BIOType, AllConn
    <3>2. \A t \in ServerThread : Answers(t, c) => t # s /\ data'[t] = data[t]
      BY <2>p, <2>1 DEF Answers, BIOType
    <3> QED BY <1>a, <1>w, <2>1, <2>2, <3>1, <3>2, SameExchange
  <2>4. ASSUME b \in Conn PROVE Exchange(b)'
    <3>1. Answers(s, b) /\ Connected(b)
      BY <1>3, <2>p, <2>1, <2>4, ServesConnected DEF Answers
    <3>2. \A t \in ServerThread : Answers(t, b) => t = s
      BY <2>4, <3>1, OneAnswers DEF Answers
    <3>3. PICK r \in Request : Awaits(r, b)
      BY <1>w, <2>4, <3>1 DEF Exchange, Quiet
    <3>4. up[b] = <<>> /\ down[b] = <<>> /\ data[s] = Answer(r)
      BY <1>w, <2>4, <3>1, <3>2, <3>3 DEF Exchange, Carried, Quiet
    <3>5. down'[b] = <<Answer(r)>> /\ up'[b] = <<>>
      BY <2>1, <3>1, <3>4 DEF BIOType
    <3>6. \A t \in ServerThread : ~ Answers(t, b)'
      BY <2>2, <2>4, <3>2
    <3>7. Carried(r, b)'
      BY <3>5, <3>6 DEF Carried
    <3> QED BY <1>a, <2>4, <3>3, <3>7, OneAwaits DEF Exchange
  <2> QED BY <1>w, <2>1, <2>3, <2>4 DEF Gone
<1>4. ASSUME NEW s \in ServerThread, ReadReset(s)
      PROVE  \A c \in Conn : (Exchange(c) /\ (Gone(c) => serverPc = "exited"))'
  <2>1. /\ threadPc[s] = "read" /\ threadPc' = [threadPc EXCEPT ![s] = "idle"]
        /\ served' = [served EXCEPT ![s] = NoConn]
        /\ UNCHANGED <<link, up, down, data, serverPc>>
    BY <1>4 DEF ReadReset, netVars
  <2>2. \A t \in ServerThread, c \in Conn : Answers(t, c)' <=> Answers(t, c)
    BY <2>1 DEF Answers, BIOType
  <2>3. \A c \in Conn : Exchange(c)'
    BY <1>a, <1>w, <2>1, <2>2, SameExchange
  <2> QED BY <1>w, <2>1, <2>3 DEF Gone
<1>5. CASE ServerExit
  <2>1. /\ serverPc' = "exited" /\ UNCHANGED down
        /\ \A c \in AllConn : up'[c] = <<>>
        /\ \A s \in ServerThread : threadPc'[s] = "idle"
    BY <1>5 DEF ServerExit
  <2>2. \A c \in Conn : link'[c] # "open" /\ (link'[c] = "none" <=> link[c] = "none")
                        /\ link'[c] \in {"none", "open", "eof", "reset"}
    BY <1>5, Closes DEF ServerExit, AllConn
  <2>3. \A s \in ServerThread, c \in Conn : ~ Answers(s, c)'
    BY <2>1 DEF Answers
  <2>4. ASSUME NEW c \in Conn, NEW r \in Request, Awaits(r, c) PROVE Carried(r, c)'
    <3>1. Carried(r, c) /\ poolStatus = "ready"
      BY <1>w, <2>4, OneAwaits DEF Exchange, Awaits
    <3>2. Gone(c)'
      BY <2>2, <3>1 DEF PoolInv, Made, Gone
    <3>3. down'[c] = <<>> \/ down'[c] = <<Answer(r)>>
      BY <2>1, <3>1 DEF Carried, Quiet
    <3> QED BY <2>1, <2>3, <3>2, <3>3 DEF Carried, Quiet, AllConn
  <2>5. ASSUME NEW c \in Conn, \A r \in Request : ~ Awaits(r, c) PROVE Quiet(c)'
    <3>1. Quiet(c)
      BY <1>w, <2>5 DEF Exchange
    <3> QED BY <2>1, <2>3, <3>1 DEF Quiet, AllConn
  <2> QED BY <1>a, <2>1, <2>4, <2>5 DEF Exchange
<1> QED BY <1>1, <1>2, <1>3, <1>4, <1>5 DEF ServerStep, AcceptLoop, ServeThread

LEMMA NextWire == ASSUME BIOType, PoolInv, ServerInv, WireInv, Next PROVE WireInv'
<1>1. CASE ClientStep
  BY <1>1, ClientWire
<1>2. CASE ServerStep
  BY <1>2, ServerWire
<1>3. CASE OtherStep
  <2>1. UNCHANGED <<clientVars, serverVars>>
    BY <1>3 DEF OtherStep
  <2>2. \A c \in Conn : UNCHANGED <<link[c], up[c], down[c]>>
    BY <1>3, ConnAssumption DEF OtherStep, NewConnection, OtherClose, BIOType, AllConn
  <2>3. \A c \in Conn : Exchange(c) => Exchange(c)'
    BY <2>1, <2>2, SameExchange DEF Awaits, Answers, clientVars, serverVars
  <2> QED BY <2>1, <2>2, <2>3 DEF WireInv, Gone, clientVars, serverVars
<1> QED BY <1>1, <1>2, <1>3 DEF Next

\* A request receives what is on its connection: its answer.
LEMMA NextReply == ASSUME BIOType, PoolInv, WireInv, ReplyInv, Next PROVE ReplyInv'
<1>1. ASSUME NEW r \in Request, Receive(r) PROVE ReplyInv'
  <2>p. PICK c \in Conn : c = socket[r]
    BY <1>1 DEF Receive, BIOType, Holding
  <2>1. Awaits(r, c) /\ poolStatus = "ready" /\ down[c] # <<>>
    BY <1>1, <2>p DEF Awaits, Receive
  <2>2. down[c] = <<Answer(r)>>
    BY <2>1 DEF WireInv, Exchange, Carried, Quiet
  <2>3. reply' = [reply EXCEPT ![r] = Answer(r)]
    BY <1>1, <2>p, <2>2 DEF Receive
  <2> QED BY <2>3 DEF ReplyInv, BIOType
<1>2. CASE ClientExit
  BY <1>2 DEF ClientExit, ReplyInv
<1>3. CASE ~ ClientExit /\ \A r \in Request : ~ Receive(r)
  <2>1. UNCHANGED reply
    BY <1>3 DEF Next, ClientStep, ServerStep, OtherStep, Connect, PoolReady, ConnectRefused, ClientThread, GetSocket,
                TryAgain, Send, ReceiveFails, FreeSocket, clientVars
  <2> QED BY <2>1 DEF ReplyInv
<1> QED BY <1>1, <1>2, <1>3

-----------------------------------------------------------------------------
(* The theorems. *)

LEMMA InitInv == Init => BIOInv
<1> SUFFICES ASSUME Init PROVE BIOInv
  OBVIOUS
<1> USE DEF Init, NetInit, ClientInit, ServerInit
<1>1. PoolInv
  BY DEF PoolInv, Made, Holds, Holding, AllConn
<1>2. ServerInv
  BY DEF ServerInv, Made, Listening
<1>3. WireInv
  BY DEF WireInv, Exchange, Quiet, Awaits, Answers, Gone, AllConn
<1>4. ReplyInv
  BY DEF ReplyInv
<1> QED BY <1>1, <1>2, <1>3, <1>4, InitType DEF BIOInv

LEMMA NextInv == ASSUME BIOInv, [Next]_vars PROVE BIOInv'
<1> USE DEF BIOInv
<1>1. CASE Next
  <2>1. BIOType'
    BY <1>1, ClientType, ServerType, OtherType DEF Next
  <2> QED BY <1>1, <2>1, NextPool, NextServer, NextWire, NextReply
<1>2. CASE UNCHANGED vars
  <2> USE <1>2 DEF vars, netVars, clientVars, serverVars
  <2>1. BIOType'
    BY DEF BIOType
  <2>2. PoolInv'
    BY SamePool
  <2>3. ServerInv'
    BY SameServer
  <2>4. \A c \in Conn : Exchange(c) => Exchange(c)'
    BY SameExchange DEF Awaits, Answers
  <2>5. WireInv'
    BY <2>4 DEF WireInv, Gone
  <2>6. ReplyInv'
    BY DEF ReplyInv
  <2> QED BY <2>1, <2>2, <2>3, <2>5, <2>6
<1> QED BY <1>1, <1>2

LEMMA PoolIsExact == ASSUME BIOInv PROVE PoolExact
<1> SUFFICES ASSUME NEW c \in DOMAIN socketMap
             PROVE  Cardinality({r \in Request : Holds(r, c)}) = IF socketMap[c] THEN 0 ELSE 1
  BY DEF PoolExact
<1> DEFINE R == {r \in Request : Holds(r, c)}
<1>0. socketMap[c] \in BOOLEAN /\ c \in Conn
  BY DEF BIOInv, BIOType
<1>1. CASE socketMap[c]
  <2>1. R = {}
    BY <1>1 DEF BIOInv, PoolInv, Holds
  <2> QED BY <1>1, <2>1, FS_EmptySet
<1>2. CASE ~ socketMap[c]
  <2>1. PICK r \in Request : Holds(r, c)
    BY <1>2 DEF BIOInv, PoolInv
  <2>2. R = {r}
    BY <1>0, <2>1 DEF BIOInv, PoolInv
  <2> QED BY <1>2, <2>2, FS_Singleton
<1> QED BY <1>0, <1>1, <1>2

LEMMA ThreadsAreExact == ASSUME BIOInv PROVE ThreadsExact
BY DEF BIOInv, ServerInv, ThreadsExact, Made

\* On an open connection in use there is the request, its Runnable or its answer.
LEMMA OneThingOnTheWay ==
    ASSUME BIOInv, NEW c \in Conn, poolStatus = "ready", Connected(c)
    PROVE  Len(up[c]) + Len(down[c]) + Cardinality({s \in ServerThread : Answers(s, c)})
             = Cardinality({r \in Request : Awaits(r, c)})
<1> DEFINE S == {s \in ServerThread : Answers(s, c)}
           R == {r \in Request : Awaits(r, c)}
<1>0. ~ Gone(c) /\ Exchange(c) /\ Len(<<>>) = 0
  BY DEF Gone, Connected, BIOInv, WireInv
<1>1. ASSUME NEW r \in Request, Awaits(r, c)
      PROVE  Len(up[c]) + Len(down[c]) + Cardinality(S) = Cardinality(R)
  <2>1. R = {r}
    BY <1>1, OneAwaits DEF BIOInv
  <2>2. Cardinality(R) = 1
    BY <2>1, FS_Singleton
  <2>3. CASE up[c] = <<Question(r)>> /\ down[c] = <<>> /\ S = {}
    <3>1. Len(up[c]) = 1 /\ Len(down[c]) = 0 /\ Cardinality(S) = 0
      BY <2>3, FS_EmptySet
    <3> QED BY <2>2, <3>1
  <2>4. CASE up[c] = <<>> /\ down[c] = <<>> /\ \E s \in ServerThread : Answers(s, c)
    <3>1. PICK s \in ServerThread : Answers(s, c)
      BY <2>4
    <3>2. S = {s}
      BY <3>1, OneAnswers DEF BIOInv, Answers
    <3>3. Len(up[c]) = 0 /\ Len(down[c]) = 0 /\ Cardinality(S) = 1
      BY <2>4, <3>2, FS_Singleton
    <3> QED BY <2>2, <3>3
  <2>5. CASE up[c] = <<>> /\ down[c] = <<Answer(r)>> /\ S = {}
    <3>1. Len(up[c]) = 0 /\ Len(down[c]) = 1 /\ Cardinality(S) = 0
      BY <2>5, FS_EmptySet
    <3> QED BY <2>2, <3>1
  <2> QED BY <1>0, <1>1, <2>3, <2>4, <2>5 DEF Exchange, Carried
<1>2. CASE \A r \in Request : ~ Awaits(r, c)
  <2>1. R = {} /\ S = {} /\ up[c] = <<>> /\ down[c] = <<>>
    BY <1>0, <1>2 DEF Exchange, Quiet
  <2>2. Len(up[c]) = 0 /\ Len(down[c]) = 0 /\ Cardinality(S) = 0 /\ Cardinality(R) = 0
    BY <2>1, FS_EmptySet
  <2> QED BY <2>2
<1> QED BY <1>1, <1>2

LEMMA RepliesAreOwn == ASSUME BIOInv PROVE OwnReply
<1>1. \A r \in Request : reply[r] # NoReply => reply[r] = [clientNum |-> r, serverNum |-> 2 * r]
  BY DEF BIOInv, ReplyInv, Answer
<1>2. ASSUME NEW c \in Conn, poolStatus = "ready", Connected(c)
      PROVE  Len(up[c]) + Len(down[c])
                 + Cardinality({s \in ServerThread : threadPc[s] = "write" /\ served[s] = c})
               = Cardinality({r \in Request : pc[r] = "receive" /\ socket[r] = c})
  BY <1>2, OneThingOnTheWay DEF Answers, Awaits
<1> QED BY <1>1, <1>2 DEF OwnReply

LEMMA Invariant == Spec => []BIOInv
<1>1. Init => BIOInv
  BY InitInv
<1>2. BIOInv /\ [Next]_vars => BIOInv'
  BY NextInv
<1> QED BY <1>1, <1>2, PTL DEF Spec

\* For every number of connections and requests, the pool lends each socket to one
\* request at a time and gets it back on every path out of the request's thread.
THEOREM PoolStaysExact == Spec => []PoolExact
<1>1. BIOInv => PoolExact
  BY PoolIsExact
<1> QED BY <1>1, Invariant, PTL

\* For every number of connections and Runnables, also those of other clients, a
\* connection has one Runnable at most, and the accept loop gives one up only when
\* there are more than it has Runnables for.
THEOREM ThreadsStayExact == Spec => []ThreadsExact
<1>1. BIOInv => ThreadsExact
  BY ThreadsAreExact
<1> QED BY <1>1, Invariant, PTL

\* Although a line carries nothing of who sent it and connections are reused, what a
\* request receives is its own answer: at most one question or answer is on a
\* connection, the one of the request that waits there.
THEOREM RepliesStayOwn == Spec => []OwnReply
<1>1. BIOInv => OwnReply
  BY RepliesAreOwn
<1> QED BY <1>1, Invariant, PTL
=============================================================================
