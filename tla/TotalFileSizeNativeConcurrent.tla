-------------------- MODULE TotalFileSizeNativeConcurrent --------------------
(***************************************************************************)
(* thread/concurrent/TotalFileSizeNativeConcurrent.java: a task per child, *)
(* and every task waits for its children's futures in a thread of the same *)
(* pool.  Deep trees exhaust the pool; the waits end only by the 100 s     *)
(* limit of Future.get, with an exception that travels up to main.         *)
(*                                                                         *)
(* Here the children of a directory are its files as well: a file is a     *)
(* leaf of the tree like an empty directory, for it is a task of its own.  *)
(***************************************************************************)
EXTENDS FileTree, Sequences

CONSTANTS Workers,  \* the threads of newFixedThreadPool(100)
          Main      \* the thread that calls getTotalSizeOfFile

VARIABLES
    sub,       \* the tree on disk, unchanged during a run
    runState,  \* of the pool: "running", or "shutdown"
    future,    \* per file, the state of the future of its task
    value,     \* per file, the value of its future once it is done
    pc,        \* where each thread is
    file,      \* parameter of getTotalSizeOfFilesInDir, per thread
    rest,      \* the children for which no task was submitted yet
    futures,   \* partialTotalFutures not collected yet, per thread
    total,     \* local sum, per thread
    outcome,
    timedOut   \* history: some get of this call timed out

vars == <<sub, runState, future, value, pc, file, rest, futures, total, outcome, timedOut>>

Threads == Workers \cup {Main}
Init ==
    /\ sub \in Trees
    /\ runState = "running"
    /\ future = [d \in Dir |-> "none"]
    /\ value = [d \in Dir |-> Nothing]
    /\ pc = [t \in Threads |-> IF t = Main THEN "start" ELSE "idle"]
    /\ file = [t \in Threads |-> Root]
    /\ rest = [t \in Threads |-> {}]
    /\ futures = [t \in Threads |-> <<>>]
    /\ total = [t \in Threads |-> Nothing]
    /\ outcome = "none"
    /\ timedOut = FALSE

\* Sum of two sums.
Plus(s, u) == [d \in Dir |-> s[d] + u[d]]

\* getTotalSizeOfFilesInDir(d) is entered by thread t; of a directory it is
\* the total of its children, which are d's own files among them, so that d
\* itself contributes its direct size only.
Enter(t, d) ==
    /\ pc' = [pc EXCEPT ![t] = "submit"]
    /\ file' = [file EXCEPT ![t] = d]
    /\ rest' = [rest EXCEPT ![t] = sub[d]]
    /\ futures' = [futures EXCEPT ![t] = <<>>]
    /\ total' = [total EXCEPT ![t] = Add(Nothing, d)]

Begin ==
    /\ pc[Main] = "start"
    /\ Enter(Main, Root)
    /\ UNCHANGED <<sub, runState, future, value, outcome, timedOut>>

Take(w, d) ==
    /\ pc[w] = "idle"
    /\ future[d] = "queued"
    /\ future' = [future EXCEPT ![d] = "running"]
    /\ Enter(w, d)
    /\ UNCHANGED <<sub, runState, value, outcome, timedOut>>

\* An exception leaves the method in t: a task's future fails, main goes on to
\* its finally block.
Throw(t) ==
    IF t = Main
    THEN /\ pc' = [pc EXCEPT ![t] = "finally"]
         /\ outcome' = "exception"
         /\ UNCHANGED future
    ELSE /\ pc' = [pc EXCEPT ![t] = "idle"]
         /\ future' = [future EXCEPT ![file[t]] = "failed"]
         /\ UNCHANGED outcome

\* service.submit for child c, rejected after shutdown().
Submit(t, c) ==
    /\ pc[t] = "submit"
    /\ c \in rest[t]
    /\ runState = "running"
    /\ future' = [future EXCEPT ![c] = "queued"]
    /\ futures' = [futures EXCEPT ![t] = Append(@, c)]
    /\ rest' = [rest EXCEPT ![t] = @ \ {c}]
    /\ UNCHANGED <<sub, runState, value, pc, file, total, outcome, timedOut>>

Rejected(t) ==
    /\ pc[t] = "submit"
    /\ rest[t] # {}
    /\ runState = "shutdown"
    /\ Throw(t)
    /\ UNCHANGED <<sub, runState, value, file, rest, futures, total, timedOut>>

SubmitDone(t) ==
    /\ pc[t] = "submit"
    /\ rest[t] = {}
    /\ pc' = [pc EXCEPT ![t] = "get"]
    /\ UNCHANGED <<sub, runState, future, value, file, rest, futures, total, outcome, timedOut>>

\* get of the first future not collected: its value is added ...
\* (Mutant: a failed child is skipped.)
GetSkipsFailed(t) ==
    /\ pc[t] = "get"
    /\ futures[t] # <<>>
    /\ future[Head(futures[t])] \in {"done", "failed"}
    /\ total' = [total EXCEPT ![t] = Plus(@, value[Head(futures[t])])]
    /\ futures' = [futures EXCEPT ![t] = Tail(@)]
    /\ UNCHANGED <<sub, runState, future, value, pc, file, rest, outcome, timedOut>>

Get(t) ==
    /\ pc[t] = "get"
    /\ futures[t] # <<>>
    /\ future[Head(futures[t])] = "done"
    /\ total' = [total EXCEPT ![t] = Plus(@, value[Head(futures[t])])]
    /\ futures' = [futures EXCEPT ![t] = Tail(@)]
    /\ UNCHANGED <<sub, runState, future, value, pc, file, rest, outcome, timedOut>>

\* ... or its exception is passed on (ExecutionException) ...
GetFailed(t) ==
    /\ pc[t] = "get"
    /\ futures[t] # <<>>
    /\ future[Head(futures[t])] = "failed"
    /\ Throw(t)
    /\ UNCHANGED <<sub, runState, value, file, rest, futures, total, timedOut>>

\* ... or 100 seconds go by: TimeoutException.  (Mutant: get() without limit.)
GetForever(t) == pc[t] = "get" /\ FALSE /\ UNCHANGED vars

GetTimeout(t) ==
    /\ pc[t] = "get"
    /\ futures[t] # <<>>
    /\ future[Head(futures[t])] \in {"queued", "running"}
    /\ Throw(t)
    /\ timedOut' = TRUE
    /\ UNCHANGED <<sub, runState, value, file, rest, futures, total>>

\* The total is returned: the value of the task's future, or main's answer.
\* (Mutant: a task on a leaf ends without a value.)
FinishUnlessLeaf(t) ==
    /\ pc[t] = "get"
    /\ futures[t] = <<>>
    /\ IF t = Main
       THEN /\ pc' = [pc EXCEPT ![t] = "finally"]
            /\ outcome' = "returned"
            /\ UNCHANGED <<future, value>>
       ELSE /\ pc' = [pc EXCEPT ![t] = "idle"]
            /\ IF sub[file[t]] = {} THEN UNCHANGED <<future, value>> ELSE
               /\ future' = [future EXCEPT ![file[t]] = "done"]
               /\ value' = [value EXCEPT ![file[t]] = total[t]]
            /\ UNCHANGED outcome
    /\ UNCHANGED <<sub, runState, file, rest, futures, total, timedOut>>

Finish(t) ==
    /\ pc[t] = "get"
    /\ futures[t] = <<>>
    /\ IF t = Main
       THEN /\ pc' = [pc EXCEPT ![t] = "finally"]
            /\ outcome' = "returned"
            /\ UNCHANGED <<future, value>>
       ELSE /\ pc' = [pc EXCEPT ![t] = "idle"]
            /\ future' = [future EXCEPT ![file[t]] = "done"]
            /\ value' = [value EXCEPT ![file[t]] = total[t]]
            /\ UNCHANGED outcome
    /\ UNCHANGED <<sub, runState, file, rest, futures, total, timedOut>>

Shutdown ==
    /\ pc[Main] = "finally"
    /\ pc' = [pc EXCEPT ![Main] = "done"]
    /\ runState' = "shutdown"
    /\ UNCHANGED <<sub, future, value, file, rest, futures, total, outcome, timedOut>>

\* A step of thread t inside getTotalSizeOfFilesInDir, time-outs apart.
Step(t) ==
    \/ \E c \in Dir : Submit(t, c)
    \/ Rejected(t) \/ SubmitDone(t) \/ Get(t) \/ GetFailed(t) \/ Finish(t)

TakeAny == \E w \in Workers, d \in Dir : Take(w, d)
ProgramStep == Begin \/ Shutdown \/ TakeAny \/ \E t \in Threads : Step(t)
TimeoutStep == \E t \in Threads : GetTimeout(t)

Next == ProgramStep \/ TimeoutStep

\* A thread inside get, whose future is not finished; a pool thread with nothing to do.
Waits(t) == pc[t] = "get" /\ futures[t] # <<>> /\ future[Head(futures[t])] \in {"queued", "running"}
NoTask(w) == pc[w] = "idle" /\ \A d \in Dir : future[d] # "queued"

\* Only the end of a limit lets anything happen: the deadlock of the class comment.
Starved == Waits(Main) /\ \A w \in Workers : Waits(w) \/ NoTask(w)

-----------------------------------------------------------------------------
(* Properties. *)

\* The deadlock the class comment describes (lines 19-22) has one cause: nothing
\* can move only if every pool thread waits inside a directory that has
\* children, so there are at least as many of those below the root as threads.
StarvedOnlyByNesting ==
    Starved =>
        /\ \A w \in Workers : pc[w] = "get" /\ sub[file[w]] # {}
        /\ Cardinality({d \in Dir \ {Root} : sub[d] # {}}) >= Cardinality(Workers)

-----------------------------------------------------------------------------
(* getTotalSizeOfFile as a caller sees it. *)
Phase == IF pc[Main] # "done" THEN "running"
         ELSE IF outcome = "returned" THEN "returned" ELSE "failed"
Answer == IF Phase = "returned" THEN total[Main] ELSE Nothing
Excuse == timedOut
=============================================================================
