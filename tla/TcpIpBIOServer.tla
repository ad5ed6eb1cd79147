--------------------------- MODULE TcpIpBIOServer ---------------------------
(***************************************************************************)
(* The server of tcpip/bio: TcpIpBIOServer.server accepts connections and  *)
(* hands each to a Runnable of TcpIpBIOServerThreadPool, which serves that *)
(* one connection (TcpIpBIOServerThread.run) for as long as it can read.   *)
(***************************************************************************)
EXTENDS BIOConnection

CONSTANTS ServerThread,    \* the Runnables init() creates
          MaxPoolNum,      \* MAX_POOL_NUM: 50
          ServerTryTimes   \* MAX_TRY_TIMES: 20

\* The loop of init() runs from MAX_POOL_NUM down to 0, both included.
ASSUME ServerThreadAssumption ==
    IsFiniteSet(ServerThread) /\ Cardinality(ServerThread) = MaxPoolNum + 1
ASSUME ServerTryAssumption == ServerTryTimes \in Nat \ {0}

VARIABLES
    serverPc,     \* "init", "accept", "assign", or "exited" with the process
    threadMap,    \* TRUE: the Runnable is free
    accepted,     \* the connection the accept loop deals with
    serverTries,  \* i of its loop
    threadPc,     \* where the thread running each Runnable is
    served,       \* the Runnable's socket
    data,         \* the Runnable's socketData
    dropped       \* history: connections given up after the last try

serverVars == <<serverPc, threadMap, accepted, serverTries, threadPc, served, data, dropped>>

NoConn == "null"
ASSUME NoConnAssumption == NoConn \notin AllConn
NoData == [clientNum |-> 0, serverNum |-> 0]

ServerInit ==
    /\ serverPc = "init"
    /\ threadMap = [s \in {} |-> TRUE]
    /\ accepted = NoConn
    /\ serverTries = 0
    /\ threadPc = [s \in ServerThread |-> "idle"]
    /\ served = [s \in ServerThread |-> NoConn]
    /\ data = [s \in ServerThread |-> NoData]
    /\ dropped = {}

Listening == serverPc \in {"accept", "assign"}

\* TcpIpBIOServerThreadPool.init() and new ServerSocket(1314).
Listen ==
    /\ serverPc = "init"
    /\ threadMap' = [s \in ServerThread |-> TRUE]
    /\ serverPc' = "accept"
    /\ UNCHANGED <<netVars, accepted, serverTries, threadPc, served, data, dropped>>

\* serverSocket.accept(): also of a connection the client has closed meanwhile.
Accept(c) ==
    /\ serverPc = "accept"
    /\ c \in backlog
    /\ backlog' = backlog \ {c}
    /\ accepted' = c
    /\ serverPc' = "assign"
    /\ UNCHANGED <<link, up, down, threadMap, serverTries, threadPc, served, data, dropped>>

\* (Mutants: without the put at line 78; without the break at line 71.)
AssignKeepingFree(s) ==
    /\ serverPc = "assign"
    /\ threadMap[s]
    /\ served' = [served EXCEPT ![s] = accepted]
    /\ threadPc' = [threadPc EXCEPT ![s] = "read"]
    /\ serverPc' = "accept"
    /\ UNCHANGED <<netVars, threadMap, accepted, serverTries, data, dropped>>

AssignOnAndOn(s) ==
    /\ serverPc = "assign"
    /\ threadMap[s]
    /\ threadMap' = [threadMap EXCEPT ![s] = FALSE]
    /\ served' = [served EXCEPT ![s] = accepted]
    /\ threadPc' = [threadPc EXCEPT ![s] = "read"]
    /\ serverPc' = IF serverTries + 1 = ServerTryTimes THEN "accept" ELSE "assign"
    /\ serverTries' = (serverTries + 1) % ServerTryTimes
    /\ UNCHANGED <<netVars, accepted, data, dropped>>

\* getThread() yields a free Runnable; it gets the socket and a new thread.
Assign(s) ==
    /\ serverPc = "assign"
    /\ threadMap[s]
    /\ threadMap' = [threadMap EXCEPT ![s] = FALSE]
    /\ served' = [served EXCEPT ![s] = accepted]
    /\ threadPc' = [threadPc EXCEPT ![s] = "read"]
    /\ serverPc' = "accept"
    /\ accepted' = NoConn /\ serverTries' = 0
    /\ UNCHANGED <<netVars, data, dropped>>

\* ... or null: after the last try the loop continues with the next accept(),
\* and nobody serves or closes this socket.
AssignFails ==
    /\ serverPc = "assign"
    /\ \A s \in ServerThread : ~threadMap[s]
    /\ IF serverTries + 1 = ServerTryTimes
       THEN /\ dropped' = dropped \cup {accepted}
            /\ serverPc' = "accept"
            /\ accepted' = NoConn /\ serverTries' = 0
       ELSE serverTries' = serverTries + 1 /\ UNCHANGED <<dropped, accepted, serverPc>>
    /\ UNCHANGED <<netVars, threadMap, threadPc, served, data>>

-----------------------------------------------------------------------------
(* TcpIpBIOServerThread.run, in the thread that runs Runnable s.  Its fields *)
(* are reset when they are dead.                                            *)

\* (Mutant: socketData is one object shared by the Runnables.)
ReadShared(s) ==
    /\ threadPc[s] = "read"
    /\ up[served[s]] # <<>>
    /\ data' = [u \in ServerThread |->
                  [clientNum |-> Head(up[served[s]]).clientNum,
                   serverNum |-> Head(up[served[s]]).clientNum * 2]]
    /\ up' = [up EXCEPT ![served[s]] = Tail(@)]
    /\ threadPc' = [threadPc EXCEPT ![s] = "write"]
    /\ UNCHANGED <<link, backlog, down, serverPc, threadMap, accepted, serverTries, served, dropped>>

\* readLine returns a request, dealData doubles its number.
Read(s) ==
    /\ threadPc[s] = "read"
    /\ up[served[s]] # <<>>
    /\ data' = [data EXCEPT ![s] = [clientNum |-> Head(up[served[s]]).clientNum,
                                    serverNum |-> Head(up[served[s]]).clientNum * 2]]
    /\ up' = [up EXCEPT ![served[s]] = Tail(@)]
    /\ threadPc' = [threadPc EXCEPT ![s] = "write"]
    /\ UNCHANGED <<link, backlog, down, serverPc, threadMap, accepted, serverTries, served, dropped>>

\* (Mutant: a PrintWriter that does not flush.)
WriteUnflushed(s) ==
    /\ threadPc[s] = "write"
    /\ threadPc' = [threadPc EXCEPT ![s] = "read"]
    /\ UNCHANGED <<netVars, serverPc, threadMap, accepted, serverTries, served, data, dropped>>

\* sendOut.println; what is written to a closed connection is lost.
Write(s) ==
    /\ threadPc[s] = "write"
    /\ down' = IF Connected(served[s])
               THEN [down EXCEPT ![served[s]] = Append(@, data[s])] ELSE down
    /\ data' = [data EXCEPT ![s] = NoData]
    /\ threadPc' = [threadPc EXCEPT ![s] = "read"]
    /\ UNCHANGED <<link, backlog, up, serverPc, threadMap, accepted, serverTries, served, dropped>>

\* readLine throws SocketException (Connection reset), on which run() ends with
\* freeThread(this).  At the end of the stream readLine returns null instead,
\* which the while (true) loop ignores and reads again, without end: that is
\* no step here.
ReadReset(s) ==
    /\ threadPc[s] = "read"
    /\ link[served[s]] = "reset"
    /\ threadMap' = [threadMap EXCEPT ![s] = TRUE]
    /\ served' = [served EXCEPT ![s] = NoConn]
    /\ threadPc' = [threadPc EXCEPT ![s] = "idle"]
    /\ UNCHANGED <<netVars, serverPc, accepted, serverTries, data, dropped>>

\* The server's process ends, and what was in its memory is gone.
ServerExit ==
    /\ serverPc # "exited"
    /\ serverPc' = "exited"
    /\ CloseAll(AllConn)
    /\ up' = [c \in AllConn |-> <<>>]
    /\ backlog' = {}
    /\ threadMap' = [s \in {} |-> TRUE]
    /\ accepted' = NoConn
    /\ serverTries' = 0
    /\ threadPc' = [s \in ServerThread |-> "idle"]
    /\ served' = [s \in ServerThread |-> NoConn]
    /\ data' = [s \in ServerThread |-> NoData]
    /\ dropped' = {}
    /\ UNCHANGED down

AcceptLoop ==
    Listen \/ AssignFails \/ (\E c \in AllConn : Accept(c)) \/ \E s \in ServerThread : Assign(s)
ServeThread(s) == serverPc # "exited" /\ (Read(s) \/ Write(s) \/ ReadReset(s))
=============================================================================
