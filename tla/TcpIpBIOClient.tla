--------------------------- MODULE TcpIpBIOClient ---------------------------
(***************************************************************************)
(* The client of tcpip/bio: TcpIpBIOClient.client opens the pool of        *)
(* TcpIpBIOClientSocketPool and starts a TcpIpBIOClientThread per request. *)
(* The pool's methods are synchronized, hence one step each.               *)
(***************************************************************************)
EXTENDS BIOConnection

CONSTANTS Request,     \* the numbers of the requests: startNum + i
          MaxTryTimes  \* MAX_TRY_TIMES: 10

ASSUME RequestAssumption == Request \subseteq Nat
ASSUME TryAssumption == MaxTryTimes \in Nat \ {0}

VARIABLES
    poolStatus,  \* "init", INIT_STATUS = "ready", "failed", or "exited" with the process
    socketMap,   \* TRUE: the socket is free
    pc,          \* where each client thread is
    tries,       \* i of its loop
    socket,      \* the connection it holds
    reply        \* its socketData in the end

clientVars == <<poolStatus, socketMap, pc, tries, socket, reply>>

NoSocket == "null"
ASSUME NoSocketAssumption == NoSocket \notin Conn
NoReply == [clientNum |-> 0, serverNum |-> 0]
Holding == {"send", "receive", "free"}

ClientInit ==
    /\ poolStatus = "init"
    /\ socketMap = [c \in {} |-> TRUE]
    /\ pc = [r \in Request |-> "try"]
    /\ tries = [r \in Request |-> 0]
    /\ socket = [r \in Request |-> NoSocket]
    /\ reply = [r \in Request |-> NoReply]

\* init(): one new Socket after the other.  Connecting succeeds once the server
\* listens; its backlog takes them.
Connect(c, listening) ==
    /\ poolStatus = "init"
    /\ listening
    /\ NewConnection(c)
    /\ socketMap' = [d \in DOMAIN socketMap \cup {c} |-> IF d = c THEN TRUE ELSE socketMap[d]]
    /\ UNCHANGED <<poolStatus, pc, tries, socket, reply>>

\* INIT_STATUS = true after the last one; client() then starts the threads.
PoolReady ==
    /\ poolStatus = "init"
    /\ \A c \in Conn : link[c] # "none"
    /\ poolStatus' = "ready"
    /\ UNCHANGED <<netVars, socketMap, pc, tries, socket, reply>>

\* A refused connection: the exception leaves init(), client() ends, and no
\* request is ever made.
ConnectRefused(listening) ==
    /\ poolStatus = "init"
    /\ ~listening
    /\ poolStatus' = "failed"
    /\ UNCHANGED <<netVars, socketMap, pc, tries, socket, reply>>

-----------------------------------------------------------------------------
(* TcpIpBIOClientThread.run for request r.  Locals that are dead are reset. *)

\* (Mutant: without the put at line 85.)
GetSocketKeepingFree(r) ==
    /\ poolStatus = "ready"
    /\ pc[r] = "try"
    /\ \E c \in DOMAIN socketMap :
          /\ socketMap[c]
          /\ socket' = [socket EXCEPT ![r] = c]
    /\ pc' = [pc EXCEPT ![r] = "send"]
    /\ UNCHANGED <<netVars, poolStatus, socketMap, tries, reply>>

\* getSocket() hands out a free socket, whichever the Hashtable yields first.
GetSocket(r) ==
    /\ poolStatus = "ready"
    /\ pc[r] = "try"
    /\ \E c \in DOMAIN socketMap :
          /\ socketMap[c]
          /\ socketMap' = [socketMap EXCEPT ![c] = FALSE]
          /\ socket' = [socket EXCEPT ![r] = c]
    /\ tries' = [tries EXCEPT ![r] = 0]
    /\ pc' = [pc EXCEPT ![r] = "send"]
    /\ UNCHANGED <<netVars, poolStatus, reply>>

\* ... or null; the thread sleeps and tries again, MAX_TRY_TIMES in all, and
\* then returns with freeSocket(null).
TryAgain(r) ==
    /\ poolStatus = "ready"
    /\ pc[r] = "try"
    /\ \A c \in DOMAIN socketMap : ~socketMap[c]
    /\ tries' = [tries EXCEPT ![r] = @ + 1]
    /\ pc' = [pc EXCEPT ![r] = IF tries'[r] = MaxTryTimes THEN "noSocket" ELSE "try"]
    /\ UNCHANGED <<netVars, poolStatus, socketMap, socket, reply>>

\* send.println: a PrintWriter reports no error, whatever became of the socket.
Send(r) ==
    /\ poolStatus = "ready"
    /\ pc[r] = "send"
    /\ up' = IF Connected(socket[r])
             THEN [up EXCEPT ![socket[r]] = Append(@, [clientNum |-> r, serverNum |-> 0])]
             ELSE up
    /\ pc' = [pc EXCEPT ![r] = "receive"]
    /\ UNCHANGED <<link, backlog, down, poolStatus, socketMap, tries, socket, reply>>

\* receive.readLine returns a line.  The BufferedReader is new and will be
\* dropped: what else it read ahead is lost.
Receive(r) ==
    /\ poolStatus = "ready"
    /\ pc[r] = "receive"
    /\ down[socket[r]] # <<>>
    /\ reply' = [reply EXCEPT ![r] = Head(down[socket[r]])]
    /\ down' = [down EXCEPT ![socket[r]] = <<>>]
    /\ pc' = [pc EXCEPT ![r] = "free"]
    /\ UNCHANGED <<link, backlog, up, poolStatus, socketMap, tries, socket>>

\* (Mutant: line 43 is not commented out, and the time-out expires.)
ReceiveTimeout(r) ==
    /\ poolStatus = "ready"
    /\ pc[r] = "receive"
    /\ down[socket[r]] = <<>>
    /\ pc' = [pc EXCEPT ![r] = "free"]
    /\ UNCHANGED <<netVars, poolStatus, socketMap, tries, socket, reply>>

\* The connection is gone: readLine throws IOException, or returns null, of
\* which getObjFromStr dies.  The finally block runs all the same.
ReceiveFails(r) ==
    /\ poolStatus = "ready"
    /\ pc[r] = "receive"
    /\ Gone(socket[r]) /\ down[socket[r]] = <<>>
    /\ pc' = [pc EXCEPT ![r] = "free"]
    /\ UNCHANGED <<netVars, poolStatus, socketMap, tries, socket, reply>>

\* finally: freeSocket(socket), in working order or not.
FreeSocket(r) ==
    /\ poolStatus = "ready"
    /\ pc[r] = "free"
    /\ socketMap' = [socketMap EXCEPT ![socket[r]] = TRUE]
    /\ socket' = [socket EXCEPT ![r] = NoSocket]
    /\ pc' = [pc EXCEPT ![r] = "done"]
    /\ UNCHANGED <<netVars, poolStatus, tries, reply>>

ClientThread(r) ==
    GetSocket(r) \/ TryAgain(r) \/ Send(r) \/ Receive(r) \/ ReceiveFails(r) \/ FreeSocket(r)

\* The client's process ends, after client() slept or before, and what was in
\* its memory is gone.
ClientExit ==
    /\ poolStatus # "exited"
    /\ poolStatus' = "exited"
    /\ CloseAll(Conn)
    /\ down' = [c \in AllConn |-> <<>>]
    /\ socketMap' = [c \in {} |-> TRUE]
    /\ pc' = [r \in Request |-> "try"]
    /\ tries' = [r \in Request |-> 0]
    /\ socket' = [r \in Request |-> NoSocket]
    /\ reply' = [r \in Request |-> NoReply]
    /\ UNCHANGED <<backlog, up>>
=============================================================================
