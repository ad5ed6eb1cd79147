----------------------------- MODULE TimeService -----------------------------
(***************************************************************************)
(* nio/channel/TimeClient.java and TimeServer.java, the time protocol of   *)
(* RFC 868 over datagrams.  A host is one argument of the client; each has *)
(* a server of its own.  The clock is one for all, in seconds since 1970.  *)
(* The network is external: it loses, copies and reorders datagrams.       *)
(***************************************************************************)
EXTENDS Integers, FiniteSets, Sequences, SequencesExt

CONSTANTS Host,
          Width,      \* bits of the time in a reply: 32
          Diff1900,   \* DIFF_1900
          MaxTime,    \* bound of the clock
          MaxFaults   \* bound of the losses, and of the copies

VARIABLES resolved,   \* remoteHosts
          now,        \* the clock
          clientPc,   \* "send", "receive", "done"
          unsent,     \* what the iterator of sendRequests still has
          requests,   \* datagrams on their way, by host
          replies,    \* datagrams on their way back
          answers,    \* the client's variable replies
          reports,    \* what printTime printed
          losses, copies

timeVars == <<resolved, now, clientPc, unsent, requests, replies, answers,
              reports, losses, copies>>

Reply == [host : Host, time : 0 .. 2 ^ Width - 1]
\* parseArgs has left out the hosts it cannot resolve.
Init ==
    /\ resolved \in SUBSET Host
    /\ now = 0
    /\ clientPc = "send"
    /\ unsent = resolved
    /\ requests = [h \in Host |-> 0]
    /\ replies = <<>>
    /\ answers = 0 /\ reports = {}
    /\ losses = 0 /\ copies = 0

\* One turn of sendRequests.
Send(h) ==
    /\ clientPc = "send" /\ h \in unsent
    /\ requests' = [requests EXCEPT ![h] = @ + 1]
    /\ unsent' = unsent \ {h}
    /\ UNCHANGED <<resolved, now, clientPc, replies, answers, reports, losses, copies>>

Sent ==
    /\ clientPc = "send" /\ unsent = {}
    /\ clientPc' = "receive"
    /\ UNCHANGED <<resolved, now, unsent, requests, replies, answers, reports, losses, copies>>

\* putLong, of which buffer sees the low-order bits.
Low(t) == (t + Diff1900) % 2 ^ Width

\* One turn of listen.
Listen(h) ==
    /\ requests[h] > 0
    /\ requests' = [requests EXCEPT ![h] = @ - 1]
    /\ replies' = Append(replies, [host |-> h, time |-> Low(now)])
    /\ UNCHANGED <<resolved, now, clientPc, unsent, answers, reports, losses, copies>>

\* (Mutant: the buffer is sent before the time is put: it holds another's time.)
ListenStale(h) ==
    /\ requests[h] > 0
    /\ requests' = [requests EXCEPT ![h] = @ - 1]
    /\ replies' = Append(replies, [host |-> h, time |-> 0])
    /\ UNCHANGED <<resolved, now, clientPc, unsent, answers, reports, losses, copies>>

\* (Mutant: all the arguments.)
Arguments == Cardinality(Host)
\* (Mutant: without the last.)
AllButOne == Cardinality(resolved) - 1
Expect == Cardinality(resolved)

\* (Mutant: without DIFF_1900.)
Uncorrected(t) == t
Remote(t) == t - Diff1900

\* One turn of getReplies, with receivePacket and printTime, for any reply.
GetReply(i) ==
    /\ clientPc = "receive" /\ i \in DOMAIN replies
    /\ answers' = answers + 1
    /\ reports' = reports \cup
          {[host |-> replies[i].host, there |-> Remote(replies[i].time)]}
    /\ clientPc' = IF answers' = Expect THEN "done" ELSE "receive"
    /\ replies' = RemoveAt(replies, i)
    /\ UNCHANGED <<resolved, now, unsent, requests, losses, copies>>

Tick ==
    /\ now < MaxTime
    /\ now' = now + 1
    /\ UNCHANGED <<resolved, clientPc, unsent, requests, replies, answers, reports, losses, copies>>

\* The network.
LoseRequest(h) ==
    /\ losses < MaxFaults /\ requests[h] > 0
    /\ requests' = [requests EXCEPT ![h] = @ - 1]
    /\ losses' = losses + 1
    /\ UNCHANGED <<resolved, now, clientPc, unsent, replies, answers, reports, copies>>

LoseReply(i) ==
    /\ losses < MaxFaults /\ i \in DOMAIN replies
    /\ replies' = RemoveAt(replies, i)
    /\ losses' = losses + 1
    /\ UNCHANGED <<resolved, now, clientPc, unsent, requests, answers, reports, copies>>

CopyRequest(h) ==
    /\ copies < MaxFaults /\ requests[h] > 0
    /\ requests' = [requests EXCEPT ![h] = @ + 1]
    /\ copies' = copies + 1
    /\ UNCHANGED <<resolved, now, clientPc, unsent, replies, answers, reports, losses>>

CopyReply(i) ==
    /\ copies < MaxFaults /\ i \in DOMAIN replies
    /\ replies' = Append(replies, replies[i])
    /\ copies' = copies + 1
    /\ UNCHANGED <<resolved, now, clientPc, unsent, requests, answers, reports, losses>>

ClientStep == Sent \/ (\E h \in Host : Send(h)) \/ (\E i \in DOMAIN replies : GetReply(i))
Network ==
    \/ \E h \in Host : LoseRequest(h) \/ CopyRequest(h)
    \/ \E i \in DOMAIN replies : LoseReply(i) \/ CopyReply(i)

Next == ClientStep \/ (\E h \in Host : Listen(h)) \/ Tick \/ Network

-----------------------------------------------------------------------------
(* Properties. *)

\* The time printed for a host (line 107) is a time between the client's start
\* and now, however late, copied or reordered the datagrams: exactly, while the
\* seconds since 1900 fit the reply, and up to a multiple of 2 ^ Width after.
TimeFresh ==
    \A r \in reports :
        \E t \in 0 .. now :
            /\ (t - r.there) % 2 ^ Width = 0
            /\ t + Diff1900 < 2 ^ Width => r.there = t

\* "All packets answered" (line 86): if the network made no copy, every host the
\* client asked has its time printed.
AllAnswered ==
    clientPc = "done" /\ copies = 0 => {r.host : r \in reports} = resolved

\* The client ends, if it asked somebody and no datagram was lost.
TimeClientEnds == resolved # {} => <>(clientPc = "done" \/ losses > 0)
=============================================================================
