-------------------- MODULE TotalFileSizeConcurrentWLatch --------------------
(***************************************************************************)
(* thread/concurrent/TotalFileSizeConcurrentWLatch.java: the size of a     *)
(* directory computed by tasks that spawn a task per subdirectory.  The    *)
(* main thread visits the root itself; every other directory is visited by *)
(* a thread of a fixed pool.  The AtomicLong pendingFileVisits counts the  *)
(* visits begun and not ended, and whoever brings it to 0 opens a latch    *)
(* the main thread waits on for at most 100 seconds.                       *)
(*                                                                         *)
(* One action per access to shared state; what a thread does between two   *)
(* of them is local and is part of the action before.                      *)
(***************************************************************************)
EXTENDS FileTree, Integers

CONSTANTS Workers,  \* the threads of newFixedThreadPool(100)
          Main      \* the thread that calls getTotalSizeOfFile

ASSUME ThreadAssumption == Workers # {} /\ Main \notin Workers

VARIABLES
    sub,                \* the tree on disk, unchanged during a run
    accepted,           \* tasks service.execute accepted, not begun; a task
                        \* handed to a new thread may begin after a later one
    runState,           \* of the pool: "running", or "shutdown" after shutdown()
    pc,                 \* where each thread is
    file,               \* parameter of updateTotalSizeOfFilesInDir, per thread
    rest,               \* the subdirectories of file the for loop has to reach
    child,              \* the loop's current subdirectory
    pendingFileVisits,
    totalSize,          \* a sum of direct sizes
    latch,              \* count of the CountDownLatch
    awaited,            \* how latch.await returned; the code ignores it
    result,             \* value returned by getTotalSizeOfFile
    seen, finished      \* history: visits counted, and counted out again

vars == <<sub, accepted, runState, pc, file, rest, child, pendingFileVisits,
          totalSize, latch, awaited, result, seen, finished>>

Threads == Workers \cup {Main}
poolVars == <<accepted, runState>>
visitVars == <<file, rest, child>>
countVars == <<pendingFileVisits, seen, finished>>
answerVars == <<awaited, result>>

\* Inside updateTotalSizeOfFilesInDir, the visit not yet counted out.
Visiting == {"scan", "execute", "decrement"}
PC == Visiting \cup {"start", "idle", "countDown", "await", "return", "finally", "done"}

\* Every variable has its type; the AtomicLong never becomes negative.
TypeOK ==
    /\ sub \in [Dir -> SUBSET Dir]
    /\ accepted \subseteq Dir
    /\ runState \in {"running", "shutdown"}
    /\ pc \in [Threads -> PC]
    /\ file \in [Threads -> Dir]
    /\ rest \in [Threads -> SUBSET Dir]
    /\ child \in [Threads -> Dir]
    /\ pendingFileVisits \in Nat
    /\ totalSize \in [Dir -> Nat]
    /\ latch \in {0, 1}
    /\ awaited \in {"notYet", "opened", "timedOut"}
    /\ result \in [Dir -> Nat]
    /\ seen \subseteq Dir
    /\ finished \subseteq Dir

Init ==
    /\ sub \in Trees
    /\ accepted = {}
    /\ runState = "running"
    /\ pc = [t \in Threads |-> IF t = Main THEN "start" ELSE "idle"]
    /\ file = [t \in Threads |-> Root]
    /\ rest = [t \in Threads |-> {}]
    /\ child = [t \in Threads |-> Root]
    /\ pendingFileVisits = 0
    /\ totalSize = Nothing
    /\ latch = 1
    /\ awaited = "notYet"
    /\ result = Nothing
    /\ seen = {}
    /\ finished = {}

-----------------------------------------------------------------------------
(* updateTotalSizeOfFilesInDir(d), run by thread t. *)

Goto(t, label) == pc' = [pc EXCEPT ![t] = label]

\* listFiles() of d: the loop has all its subdirectories ahead.
Enter(t, d) ==
    /\ file' = [file EXCEPT ![t] = d]
    /\ rest' = [rest EXCEPT ![t] = sub[d]]
    /\ UNCHANGED child
    /\ Goto(t, "scan")

\* The method returns: a pool thread is free again, main goes on to await.
Return(t) == Goto(t, IF t = Main THEN "await" ELSE "idle")

\* A visit of d is counted.
Count(d) ==
    /\ pendingFileVisits' = pendingFileVisits + 1
    /\ seen' = seen \cup {d}

\* getTotalSizeOfFile up to the call of updateTotalSizeOfFilesInDir.
Begin ==
    /\ pc[Main] = "start"
    /\ Count(Root)
    /\ Enter(Main, Root)
    /\ UNCHANGED <<sub, poolVars, totalSize, latch, answerVars, finished>>

\* A pool thread takes an accepted task and enters its directory; shutdown()
\* lets the accepted tasks run.
Take(w, d) ==
    /\ pc[w] = "idle"
    /\ d \in accepted
    /\ accepted' = accepted \ {d}
    /\ Enter(w, d)
    /\ UNCHANGED <<sub, runState, countVars, totalSize, latch, answerVars>>

\* The loop reaches subdirectory c and counts the visit it is about to spawn.
\* (Mutant: without line 48.)
VisitUncounted(t, c) ==
    /\ pc[t] = "scan"
    /\ c \in rest[t]
    /\ rest' = [rest EXCEPT ![t] = @ \ {c}]
    /\ child' = [child EXCEPT ![t] = c]
    /\ Goto(t, "execute")
    /\ UNCHANGED <<sub, poolVars, file, countVars, totalSize, latch, answerVars>>

Visit(t, c) ==
    /\ pc[t] = "scan"
    /\ c \in rest[t]
    /\ Count(c)
    /\ rest' = [rest EXCEPT ![t] = @ \ {c}]
    /\ child' = [child EXCEPT ![t] = c]
    /\ Goto(t, "execute")
    /\ UNCHANGED <<sub, poolVars, file, finished, totalSize, latch, answerVars>>

\* service.execute: accepted while the pool runs.  After shutdown() it throws
\* RejectedExecutionException out of updateTotalSizeOfFilesInDir: the visit
\* ends without addAndGet and without decrementAndGet.  A pool thread dies of
\* it and the pool starts another in its place.
Execute(t) ==
    /\ pc[t] = "execute"
    /\ IF runState = "shutdown"
       THEN Return(t) /\ UNCHANGED accepted
       ELSE Goto(t, "scan") /\ accepted' = accepted \cup {child[t]}
    /\ UNCHANGED <<sub, runState, visitVars, countVars, totalSize, latch, answerVars>>

\* The loop is over: totalSize.addAndGet(fileSize).
\* (Mutant: a directory without subdirectories returns early.)
AddSizeUnlessLeaf(t) ==
    /\ pc[t] = "scan"
    /\ rest[t] = {}
    /\ totalSize' = Add(totalSize, file[t])
    /\ IF sub[file[t]] = {} THEN Return(t) ELSE Goto(t, "decrement")
    /\ UNCHANGED <<sub, poolVars, visitVars, countVars, latch, answerVars>>

AddSize(t) ==
    /\ pc[t] = "scan"
    /\ rest[t] = {}
    /\ totalSize' = Add(totalSize, file[t])
    /\ Goto(t, "decrement")
    /\ UNCHANGED <<sub, poolVars, visitVars, countVars, latch, answerVars>>

\* decrementAndGet: the thread that reaches 0 goes on to countDown().
\* (Mutant: the comparison is off by one.)
DecrementToOne(t) ==
    /\ pc[t] = "decrement"
    /\ pendingFileVisits' = pendingFileVisits - 1
    /\ finished' = finished \cup {file[t]}
    /\ IF pendingFileVisits' <= 1 THEN Goto(t, "countDown") ELSE Return(t)
    /\ UNCHANGED <<sub, poolVars, visitVars, seen, totalSize, latch, answerVars>>

Decrement(t) ==
    /\ pc[t] = "decrement"
    /\ pendingFileVisits' = pendingFileVisits - 1
    /\ finished' = finished \cup {file[t]}
    /\ IF pendingFileVisits' = 0 THEN Goto(t, "countDown") ELSE Return(t)
    /\ UNCHANGED <<sub, poolVars, visitVars, seen, totalSize, latch, answerVars>>

CountDown(t) ==
    /\ pc[t] = "countDown"
    /\ latch' = 0
    /\ Return(t)
    /\ UNCHANGED <<sub, poolVars, visitVars, countVars, totalSize, answerVars>>

-----------------------------------------------------------------------------
(* The rest of getTotalSizeOfFile, in the main thread. *)

\* latch.await(100, SECONDS) returns true: the latch is open.
AwaitOpen ==
    /\ pc[Main] = "await"
    /\ latch = 0
    /\ awaited' = "opened"
    /\ Goto(Main, "return")
    /\ UNCHANGED <<sub, poolVars, visitVars, countVars, totalSize, latch, result>>

\* ... or false: 100 seconds went by.  The result of await is ignored.
AwaitTimeout ==
    /\ pc[Main] = "await"
    /\ latch = 1
    /\ awaited' = "timedOut"
    /\ Goto(Main, "return")
    /\ UNCHANGED <<sub, poolVars, visitVars, countVars, totalSize, latch, result>>

\* return totalSize.longValue()
ReturnTotal ==
    /\ pc[Main] = "return"
    /\ result' = totalSize
    /\ Goto(Main, "finally")
    /\ UNCHANGED <<sub, poolVars, visitVars, countVars, totalSize, latch, awaited>>

\* finally { service.shutdown(); }
Shutdown ==
    /\ pc[Main] = "finally"
    /\ runState' = "shutdown"
    /\ Goto(Main, "done")
    /\ UNCHANGED <<sub, accepted, visitVars, countVars, totalSize, latch, answerVars>>

-----------------------------------------------------------------------------
\* A step of updateTotalSizeOfFilesInDir in thread t.
Step(t) ==
    \/ \E c \in Dir : Visit(t, c)
    \/ Execute(t)
    \/ AddSize(t)
    \/ Decrement(t)
    \/ CountDown(t)

MainStep == Begin \/ AwaitOpen \/ ReturnTotal \/ Shutdown

Next ==
    \/ \E t \in Threads : Step(t)
    \/ \E w \in Workers, d \in Dir : Take(w, d)
    \/ MainStep
    \/ AwaitTimeout

Spec == Init /\ [][Next]_vars

\* Every thread that can run does: the JVM schedules it.  Nothing makes the
\* 100 seconds pass before the visits are over.
Fairness ==
    /\ \A t \in Threads : WF_vars(Step(t))
    /\ WF_vars(\E w \in Workers, d \in Dir : Take(w, d))
    /\ WF_vars(MainStep)

FairSpec == Spec /\ Fairness

-----------------------------------------------------------------------------
(* Properties. *)

\* updateTotalSizeOfFilesInDir is run at most once per directory, whatever
\* the threads' order and also after a timeout: no size is added twice.
NeverCountedTwice == \A d \in Dir : totalSize[d] <= 1

\* The latch opens only when the size of every directory of the tree is in
\* totalSize: a visit is counted before its task exists and counted out after
\* its size was added, so 0 is reached once, at the end.
LatchMeansComplete == latch = 0 => totalSize = ExactSize

\* Once the latch is open no visit is running or waiting to run, so nothing
\* can change what main is about to read or be rejected by shutdown().
QuietAfterLatch ==
    latch = 0 =>
        /\ accepted = {}
        /\ \A t \in Threads : pc[t] \notin Visiting \cup {"countDown"}

\* Unless the wait times out, the latch opens: the last visit is counted out
\* however the visits interleave (liveness; main would otherwise return a
\* partial sum after 100 seconds).
LatchOpens == <>(latch = 0 \/ awaited = "timedOut")

-----------------------------------------------------------------------------
(* Why it holds: the invariant the proofs use. *)

Running(t) == pc[t] \in Visiting
\* Directories counted whose visit has not begun: accepted tasks, and the
\* children about to be passed to execute.
Unbegun == accepted \cup {child[t] : t \in {u \in Threads : pc[u] = "execute"}}

\* Every directory that is waited for is counted and in one place only: one
\* task, one loop about to submit it, or one thread's visit.
OnePlace ==
    /\ finished \subseteq seen
    /\ Unbegun \subseteq seen \ finished
    /\ \A t \in Threads : Running(t) => file[t] \in (seen \ finished) \ Unbegun
    /\ \A t, u \in Threads : Running(t) /\ Running(u) /\ file[t] = file[u] => t = u
    /\ \A t, u \in Threads :
          pc[t] = "execute" /\ pc[u] = "execute" /\ child[t] = child[u] => t = u
    /\ \A t \in Threads : pc[t] = "execute" => child[t] \notin accepted

\* The walk: a directory's subdirectories are counted by its own visit only.
Walk ==
    /\ \A d \in (Dir \ seen) \cup Unbegun : sub[d] \cap seen = {}
    /\ \A t \in Threads : Running(t) => rest[t] = sub[file[t]] \ seen
    /\ \A t \in Threads : pc[t] = "decrement" => rest[t] = {}
    /\ \A d \in finished : sub[d] \subseteq seen

\* The sums: the counter, and which sizes were added.
Sums ==
    /\ pendingFileVisits = Cardinality(seen \ finished)
    /\ \A d \in Dir :
          totalSize[d] = IF \/ d \in finished
                            \/ \E t \in Threads : pc[t] = "decrement" /\ file[t] = d
                         THEN 1 ELSE 0

\* The end: 0 was reached, by one thread, and nothing is waited for.
End ==
    /\ pc[Main] = "start" =>
          seen = {} /\ latch = 1 /\ \A t \in Threads : pc[t] # "countDown"
    /\ pc[Main] # "start" => Root \in seen
    /\ \A t \in Threads : pc[t] = "countDown" => seen = finished /\ latch = 1
    /\ \A t, u \in Threads : pc[t] = "countDown" /\ pc[u] = "countDown" => t = u
    /\ latch = 0 => seen = finished

\* The answer: what main read, and on which grounds.
Answered ==
    /\ awaited = "notYet" <=> pc[Main] \notin {"return", "finally", "done"}
    /\ awaited = "opened" => latch = 0
    /\ pc[Main] \in {"finally", "done"} =>
          /\ result \in [Dir -> {0, 1}]
          /\ awaited = "opened" => result = ExactSize

\* The accounting of visits that makes pendingFileVisits = 0 mean "finished",
\* in every order of the threads' steps.
Accounting ==
    /\ TypeOK /\ sub \in Trees
    /\ OnePlace /\ Walk /\ Sums /\ End /\ Answered

-----------------------------------------------------------------------------
(* getTotalSizeOfFile as a caller sees it. *)
Query == INSTANCE SizeQuery WITH
    MayBePartial <- TRUE,
    phase  <- IF pc[Main] = "done" THEN "returned" ELSE "running",
    answer <- IF pc[Main] = "done" THEN result ELSE Nothing,
    excuse <- awaited = "timedOut"

\* The program implements SizeQuery: it returns the exact size, or, after a
\* timeout, the sizes of some of the directories, each once.
ImplementsSizeQuery == Query!Spec
=============================================================================
