------------------------------ MODULE TcpIpBIO ------------------------------
(***************************************************************************)
(* The client and the server of tcpip/bio together, over the connections   *)
(* of one client process.                                                  *)
(***************************************************************************)
EXTENDS TcpIpBIOClient, TcpIpBIOServer

vars == <<netVars, clientVars, serverVars>>

Init == NetInit /\ ClientInit /\ ServerInit

ClientStep ==
    /\ \/ \E c \in Conn : Connect(c, Listening)
       \/ PoolReady
       \/ ConnectRefused(Listening)
       \/ \E r \in Request : ClientThread(r)
       \/ ClientExit
    /\ UNCHANGED serverVars

ServerStep ==
    /\ AcceptLoop \/ ServerExit \/ \E s \in ServerThread : ServeThread(s)
    /\ UNCHANGED clientVars

\* Other clients connect while the server listens.
OtherStep ==
    /\ \E c \in OtherConn : (Listening /\ NewConnection(c)) \/ OtherClose(c)
    /\ UNCHANGED <<clientVars, serverVars>>

Next == ClientStep \/ ServerStep \/ OtherStep

Spec == Init /\ [][Next]_vars

\* The threads of both processes are scheduled.  Nothing makes a
\* process end.
Fairness ==
    /\ WF_vars((\E c \in Conn : Connect(c, Listening)) /\ UNCHANGED serverVars)
    /\ WF_vars(PoolReady /\ UNCHANGED serverVars)
    /\ \A r \in Request : WF_vars(ClientThread(r) /\ UNCHANGED serverVars)
    /\ WF_vars(AcceptLoop /\ UNCHANGED clientVars)
    /\ \A s \in ServerThread : WF_vars(ServeThread(s) /\ UNCHANGED clientVars)

FairSpec == Spec /\ Fairness

-----------------------------------------------------------------------------
(* Properties. *)

Holds(r, c) == pc[r] \in Holding /\ socket[r] = c

\* The pool lends a socket to one request at a time, and a socket is free
\* exactly when no request holds it: none is lost by the retries, the failures
\* or the finally block.
PoolExact ==
    poolStatus # "init" =>
        \A c \in DOMAIN socketMap :
            Cardinality({r \in Request : Holds(r, c)}) = IF socketMap[c] THEN 0 ELSE 1

\* What a request receives is the answer to it, its own number doubled, although
\* replies carry no identity of the connection's user: on a connection in use
\* there is one request or its reply, and nothing is left on it when the next
\* request gets it.
OwnReply ==
    /\ \A r \in Request :
          reply[r] # NoReply => reply[r] = [clientNum |-> r, serverNum |-> 2 * r]
    /\ \A c \in Conn : poolStatus = "ready" /\ Connected(c) =>
          Len(up[c]) + Len(down[c])
              + Cardinality({s \in ServerThread : threadPc[s] = "write" /\ served[s] = c})
            = Cardinality({r \in Request : pc[r] = "receive" /\ socket[r] = c})

\* A connection is served by at most one Runnable at a time, a Runnable is free
\* exactly when it serves none, and a connection is given up only when there are
\* more of them than Runnables.
ThreadsExact ==
    /\ serverPc # "exited" =>
          /\ \A s \in DOMAIN threadMap : threadMap[s] <=> threadPc[s] = "idle"
          /\ \A s, t \in ServerThread :
                threadPc[s] # "idle" /\ threadPc[t] # "idle" /\ served[s] = served[t] => s = t
    /\ dropped # {} =>
          Cardinality({c \in AllConn : link[c] # "none"}) > Cardinality(ServerThread)

\* Every request of a running client comes to its end: answered, failed, or
\* without a socket after its tries; but for those on a connection the server
\* has given up, which wait for ever (liveness).
RequestsEnd ==
    poolStatus = "ready" ~>
        \/ poolStatus = "exited"
        \/ \A r \in Request :
              pc[r] \in {"done", "noSocket"} \/ (pc[r] = "receive" /\ socket[r] \in dropped)

\* What line 59 of TcpIpBIOServerThread says: a Runnable frees itself when its
\* use is over, here when the client whose connection it serves is gone.
ThreadsFreed ==
    poolStatus = "exited" ~>
        serverPc = "exited" \/ \A s \in ServerThread : threadPc[s] # "idle" => served[s] \notin Conn
=============================================================================
