----------------------- MODULE TotalFileSizeConcurrent -----------------------
(***************************************************************************)
(* thread/concurrent/TotalFileSizeConcurrent.java: breadth first.  The     *)
(* main thread submits one task per directory of a level, then collects    *)
(* the futures in order, each with a 100 s limit, gathering the next level *)
(* from their results.  A task only lists its own directory and waits for  *)
(* no other, so that even one pool thread is enough.                       *)
(***************************************************************************)
EXTENDS FileTree, Sequences

CONSTANT Workers  \* the threads of newFixedThreadPool(100)

VARIABLES
    sub,          \* the tree on disk, unchanged during a run
    pc,           \* main: "submit", "collect", "finally", "done"
    directories,  \* the list of directories
    future,       \* the tasks in the order of submission: directory and state
    next,         \* the first future of partialResults not yet collected
    busy,         \* what each pool thread runs: a task's number, or 0
    total,        \* main's sum of direct sizes
    outcome

vars == <<sub, pc, directories, future, next, busy, total, outcome>>

Init ==
    /\ sub \in Trees
    /\ pc = "submit"
    /\ directories = <<Root>>
    /\ future = <<>>
    /\ next = 1
    /\ busy = [w \in Workers |-> 0]
    /\ total = Nothing
    /\ outcome = "none"

\* The futures next .. Len(future) are those of the level, partialResults:
\* while main submits, none of them is collected.
Submitted == Len(future) - next + 1

\* Lines 89-96: submit a task for the next directory of the list.
Submit ==
    /\ pc = "submit"
    /\ Submitted < Len(directories)
    /\ future' = Append(future, [dir |-> directories[Submitted + 1], state |-> "queued"])
    /\ UNCHANGED <<sub, pc, directories, next, busy, total, outcome>>

\* directories.clear(), and on to the futures.
Clear ==
    /\ pc = "submit"
    /\ directories # <<>> /\ Submitted = Len(directories)
    /\ directories' = <<>>
    /\ pc' = "collect"
    /\ UNCHANGED <<sub, future, next, busy, total, outcome>>

\* while (!directories.isEmpty()) ends: the total is returned.
ReturnTotal ==
    /\ pc = "submit"
    /\ directories = <<>>
    /\ pc' = "finally"
    /\ outcome' = "returned"
    /\ UNCHANGED <<sub, directories, future, next, busy, total>>

\* partialResultFuture.get returns: the next level grows by the task's
\* subdirectories, in some order, and its size is added.
\* (Mutant: get without waiting for the task, as getNow would.)
GetNow ==
    /\ pc = "collect"
    /\ next <= Len(future)
    /\ LET d == future[next].dir IN
       IF future[next].state = "done"
       THEN /\ \E order \in [1 .. Cardinality(sub[d]) -> sub[d]] :
                  /\ \A c \in sub[d] : \E i \in DOMAIN order : order[i] = c
                  /\ directories' = directories \o order
            /\ total' = Add(total, d)
       ELSE UNCHANGED <<directories, total>>
    /\ next' = next + 1
    /\ UNCHANGED <<sub, pc, future, busy, outcome>>

Get ==
    /\ pc = "collect"
    /\ next <= Len(future)
    /\ future[next].state = "done"
    /\ LET d == future[next].dir IN
       /\ \E order \in [1 .. Cardinality(sub[d]) -> sub[d]] :
             /\ \A c \in sub[d] : \E i \in DOMAIN order : order[i] = c
             /\ directories' = directories \o order
       /\ total' = Add(total, d)
    /\ next' = next + 1
    /\ UNCHANGED <<sub, pc, future, busy, outcome>>

\* ... or it throws TimeoutException out of the method.
\* (Mutant: a caught time-out ends the loop as if the sum were complete.)
GetTimeoutReturns ==
    /\ pc = "collect"
    /\ next <= Len(future)
    /\ future[next].state # "done"
    /\ outcome' = "returned"
    /\ pc' = "finally"
    /\ UNCHANGED <<sub, directories, future, next, busy, total>>

GetTimeout ==
    /\ pc = "collect"
    /\ next <= Len(future)
    /\ future[next].state # "done"
    /\ outcome' = "TimeoutException"
    /\ pc' = "finally"
    /\ UNCHANGED <<sub, directories, future, next, busy, total>>

\* All futures of the level are collected: back to the while condition.
Level ==
    /\ pc = "collect"
    /\ next = Len(future) + 1
    /\ pc' = "submit"
    /\ UNCHANGED <<sub, directories, future, next, busy, total, outcome>>

\* finally { service.shutdown(); }: what was submitted still runs, and main
\* submits nothing after it.
Shutdown ==
    /\ pc = "finally"
    /\ pc' = "done"
    /\ UNCHANGED <<sub, directories, future, next, busy, total, outcome>>

\* A pool thread begins task i: getTotalAndSubDirs waits for nobody.
Take(w, i) ==
    /\ busy[w] = 0
    /\ future[i].state = "queued"
    /\ busy' = [busy EXCEPT ![w] = i]
    /\ future' = [future EXCEPT ![i].state = "running"]
    /\ UNCHANGED <<sub, pc, directories, next, total, outcome>>

\* ... and ends it.  (Mutant: the task visits its subdirectories itself and
\* waits for main to have submitted and collected them, as in the native version.)
FinishAfterSubDirs(w) ==
    /\ busy[w] # 0
    /\ \A c \in sub[future[busy[w]].dir] : \E i \in DOMAIN future :
          future[i].dir = c /\ future[i].state = "done"
    /\ future' = [future EXCEPT ![busy[w]].state = "done"]
    /\ busy' = [busy EXCEPT ![w] = 0]
    /\ UNCHANGED <<sub, pc, directories, next, total, outcome>>

Finish(w) ==
    /\ busy[w] # 0
    /\ future' = [future EXCEPT ![busy[w]].state = "done"]
    /\ busy' = [busy EXCEPT ![w] = 0]
    /\ UNCHANGED <<sub, pc, directories, next, total, outcome>>

PoolStep == \E w \in Workers : Finish(w) \/ \E i \in DOMAIN future : Take(w, i)
MainStep == Submit \/ Clear \/ ReturnTotal \/ Get \/ Level \/ Shutdown

Next == PoolStep \/ MainStep \/ GetTimeout

-----------------------------------------------------------------------------
(* Properties. *)

-----------------------------------------------------------------------------
(* getTotalSizeOfFilesInDir as a caller sees it. *)
Phase == IF pc # "done" THEN "running"
         ELSE IF outcome = "returned" THEN "returned" ELSE "failed"
Answer == IF Phase = "returned" THEN total ELSE Nothing
Excuse == outcome = "TimeoutException"
=============================================================================
