------------------- MODULE TotalFileSizeConcurrentForkjoin -------------------
(***************************************************************************)
(* thread/concurrent/TotalFileSizeConcurrentForkjoin.java: a recursive     *)
(* fork/join task per directory.  invokeAll forks the tasks of the         *)
(* subdirectories but the first, which its caller runs itself, and waits   *)
(* for all; a pool thread that waits for a task runs forked tasks in the   *)
(* meantime, on top of the ones it has begun (the ForkJoinPool, external). *)
(***************************************************************************)
EXTENDS FileTree, Sequences

CONSTANT Workers  \* the threads of the ForkJoinPool, one per processor

VARIABLES
    sub,     \* the tree on disk, unchanged during a run
    task,    \* per directory, the state of its FileSizeFinder
    size,    \* per directory, what compute() returned
    stack,   \* per pool thread, the tasks it has begun, innermost last
    total    \* main's result, NoTotal before invoke returns

vars == <<sub, task, size, stack, total>>

NoTotal == [d \in Dir |-> 2]
\* main: forkJoinPool.invoke(new FileSizeFinder(root))
Init ==
    /\ sub \in Trees
    /\ task = [d \in Dir |-> IF d = Root THEN "forked" ELSE "none"]
    /\ size = [d \in Dir |-> Nothing]
    /\ stack = [w \in Workers |-> <<>>]
    /\ total = NoTotal

Top(w) == stack[w][Len(stack[w])]
Joined(d) == \A c \in sub[d] : task[c] = "done"

\* Thread w begins the forked task of d: it is free, or its innermost task
\* waits for one that is not done.  (Mutant: a waiting thread only waits.)
RunWhenFree(w, d) ==
    /\ task[d] = "forked"
    /\ stack[w] = <<>>
    /\ task' = [task EXCEPT ![d] = "invoked"]
    /\ stack' = [stack EXCEPT ![w] = Append(@, d)]
    /\ UNCHANGED <<sub, size, total>>

Run(w, d) ==
    /\ task[d] = "forked"
    /\ stack[w] # <<>> => task[Top(w)] = "joining" /\ ~Joined(Top(w))
    /\ task' = [task EXCEPT ![d] = "invoked"]
    /\ stack' = [stack EXCEPT ![w] = Append(@, d)]
    /\ UNCHANGED <<sub, size, total>>

\* compute(): list the directory, invokeAll the tasks of the subdirectories:
\* the caller runs one of them, first.
InvokeAll(w, first) ==
    /\ stack[w] # <<>>
    /\ LET d == Top(w) IN
       /\ task[d] = "invoked"
       /\ first \in sub[d]
       /\ task' = [c \in Dir |-> IF c = d THEN "joining"
                                 ELSE IF c = first THEN "invoked"
                                 ELSE IF c \in sub[d] THEN "forked"
                                 ELSE task[c]]
       /\ stack' = [stack EXCEPT ![w] = Append(@, first)]
    /\ UNCHANGED <<sub, size, total>>

\* The subdirectories' tasks are all done (or there are none): their sizes are
\* joined and added, and the task is done.
\* (Mutant: only the first subdirectory's task is waited for.)
DirectSizeAnd(d, children) ==
    Add([e \in Dir |-> Cardinality({c \in children : size[c][e] = 1})], d)

FinishOnAny(w) ==
    /\ stack[w] # <<>>
    /\ LET d == Top(w) IN
       /\ IF sub[d] = {} THEN task[d] = "invoked" ELSE task[d] = "joining"
       /\ sub[d] # {} => \E c \in sub[d] : task[c] = "done"
       /\ size' = [size EXCEPT ![d] = DirectSizeAnd(d, sub[d])]
       /\ task' = [task EXCEPT ![d] = "done"]
    /\ stack' = [stack EXCEPT ![w] = SubSeq(@, 1, Len(@) - 1)]
    /\ UNCHANGED <<sub, total>>

Finish(w) ==
    /\ stack[w] # <<>>
    /\ LET d == Top(w) IN
       /\ IF sub[d] = {} THEN task[d] = "invoked" ELSE task[d] = "joining"
       /\ Joined(d)
       /\ size' = [size EXCEPT ![d] = DirectSizeAnd(d, sub[d])]
       /\ task' = [task EXCEPT ![d] = "done"]
    /\ stack' = [stack EXCEPT ![w] = SubSeq(@, 1, Len(@) - 1)]
    /\ UNCHANGED <<sub, total>>

\* invoke returns in main.
ReturnTotal ==
    /\ task[Root] = "done"
    /\ total = NoTotal
    /\ total' = size[Root]
    /\ UNCHANGED <<sub, task, size, stack>>

Next ==
    \/ \E w \in Workers, d \in Dir : Run(w, d) \/ InvokeAll(w, d)
    \/ \E w \in Workers : Finish(w)
    \/ ReturnTotal

-----------------------------------------------------------------------------
(* compute() as a caller sees it: never an excuse. *)
Phase == IF total = NoTotal THEN "running" ELSE "returned"
Answer == IF total = NoTotal THEN Nothing ELSE total
=============================================================================
