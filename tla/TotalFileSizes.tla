--------------------------- MODULE TotalFileSizes ---------------------------
(***************************************************************************)
(* The programs of thread/concurrent whose tasks belong to one call: main  *)
(* collects futures level by level (TotalFileSizeConcurrent), every task   *)
(* collects its children's futures (TotalFileSizeNativeConcurrent), or     *)
(* fork/join tasks are joined (TotalFileSizeConcurrentForkjoin).  A query  *)
(* is put to one of them, and all owe the same answer.                     *)
(***************************************************************************)
EXTENDS FileTree, Sequences

CONSTANTS Workers,     \* pool threads of the native and the fork/join version
          BfsWorkers,  \* pool threads of the breadth-first version
          Main         \* the thread that asks

ASSUME ThreadAssumption == Main \notin Workers

VARIABLES
    program,  \* the one that is asked
    sub,      \* the tree on disk
    bfsPc, bfsDirectories, bfsFuture, bfsNext, bfsBusy, bfsTotal, bfsOutcome,
    runState, future, value, pc, file, rest, futures, total, outcome, timedOut,
    fjTask, fjSize, fjStack, fjTotal

Bfs == INSTANCE TotalFileSizeConcurrent WITH
    Workers <- BfsWorkers, pc <- bfsPc, directories <- bfsDirectories,
    future <- bfsFuture, next <- bfsNext, busy <- bfsBusy,
    total <- bfsTotal, outcome <- bfsOutcome
Native == INSTANCE TotalFileSizeNativeConcurrent
Fj == INSTANCE TotalFileSizeConcurrentForkjoin WITH
    task <- fjTask, size <- fjSize, stack <- fjStack, total <- fjTotal

bfsVars == <<bfsPc, bfsDirectories, bfsFuture, bfsNext, bfsBusy, bfsTotal, bfsOutcome>>
nativeVars == <<runState, future, value, pc, file, rest, futures, total, outcome, timedOut>>
fjVars == <<fjTask, fjSize, fjStack, fjTotal>>
vars == <<program, sub, bfsVars, nativeVars, fjVars>>

Init ==
    /\ program \in {"Concurrent", "NativeConcurrent", "ConcurrentForkjoin"}
    /\ Bfs!Init /\ Native!Init /\ Fj!Init

\* The others are not running.
OnlyBfs == program = "Concurrent" /\ UNCHANGED <<program, nativeVars, fjVars>>
OnlyNative == program = "NativeConcurrent" /\ UNCHANGED <<program, bfsVars, fjVars>>
OnlyFj == program = "ConcurrentForkjoin" /\ UNCHANGED <<program, bfsVars, nativeVars>>

Next == (OnlyBfs /\ Bfs!Next) \/ (OnlyNative /\ Native!Next) \/ (OnlyFj /\ Fj!Next)

Spec == Init /\ [][Next]_vars

\* Main and the pool's threads are scheduled.  100 seconds do pass where the
\* program depends on it, in the native version.
Fairness ==
    /\ WF_vars(OnlyBfs /\ Bfs!PoolStep) /\ WF_vars(OnlyBfs /\ Bfs!MainStep)
    /\ WF_vars(OnlyNative /\ Native!ProgramStep) /\ WF_vars(OnlyNative /\ Native!TimeoutStep)
    /\ WF_vars(OnlyFj /\ Fj!Next)

FairSpec == Spec /\ Fairness

-----------------------------------------------------------------------------
(* Properties. *)

\* Native: the documented deadlock has no cause but nesting.
StarvedOnlyByNesting == Native!StarvedOnlyByNesting

Phase == CASE program = "Concurrent" -> Bfs!Phase
           [] program = "NativeConcurrent" -> Native!Phase
           [] program = "ConcurrentForkjoin" -> Fj!Phase

\* The call ends: breadth first, even with one thread (line 22 of its class comment:
\* no deadlock), and with fork/join without any time-out, in the native version by
\* its 100 second limits if not otherwise (liveness).
QueryEnds == <>(Phase # "running")

Query == INSTANCE SizeQuery WITH
    MayBePartial <- FALSE,
    phase  <- Phase,
    answer <- CASE program = "Concurrent" -> Bfs!Answer
                [] program = "NativeConcurrent" -> Native!Answer
                [] program = "ConcurrentForkjoin" -> Fj!Answer,
    excuse <- CASE program = "Concurrent" -> Bfs!Excuse
                [] program = "NativeConcurrent" -> Native!Excuse
                [] program = "ConcurrentForkjoin" -> FALSE

\* Each program implements SizeQuery: the exact size, or an exception after a
\* wait that timed out, and never an exception with fork/join.
ImplementsSizeQuery == Query!Spec
=============================================================================
