---------------------------- MODULE BIOConnection ----------------------------
(***************************************************************************)
(* The TCP connections between the client and the server of tcpip/bio      *)
(* (external: java.net).  A connection carries lines in order both ways.   *)
(* When one side's process is gone, a read on the other side sees the end  *)
(* of the stream or a reset, as the operating system closes it.            *)
(***************************************************************************)
EXTENDS Naturals, Sequences, FiniteSets

CONSTANTS Conn,      \* the connections a client opens: MAX_POOL_NUM of them
          OtherConn  \* connections of other clients, which the server accepts too

AllConn == Conn \cup OtherConn

\* Each is made by one client.
ASSUME ConnAssumption == IsFiniteSet(AllConn) /\ Conn \cap OtherConn = {}

VARIABLES
    link,     \* "none", "open", or what reading meets when a side is gone
    backlog,  \* connections made, whichever their state, and not accepted
    up,       \* lines on their way to the server
    down      \* lines on their way to the client

netVars == <<link, backlog, up, down>>

NetInit ==
    /\ link = [c \in AllConn |-> "none"]
    /\ backlog = {}
    /\ up = [c \in AllConn |-> <<>>]
    /\ down = [c \in AllConn |-> <<>>]

Connected(c) == link[c] = "open"

NewConnection(c) ==
    /\ link[c] = "none"
    /\ link' = [link EXCEPT ![c] = "open"]
    /\ backlog' = backlog \cup {c}
    /\ UNCHANGED <<up, down>>

\* A process is gone and with it its end of its connections.
CloseAll(conns) ==
    \E how \in [conns -> {"eof", "reset"}] :
        link' = [c \in AllConn |-> IF c \in conns /\ Connected(c) THEN how[c] ELSE link[c]]
Gone(c) == link[c] \in {"eof", "reset"}

\* Another client, connected and silent, goes.
OtherClose(c) ==
    /\ c \in OtherConn
    /\ Connected(c)
    /\ link' \in {[link EXCEPT ![c] = l] : l \in {"eof", "reset"}}
    /\ UNCHANGED <<backlog, up, down>>
=============================================================================
