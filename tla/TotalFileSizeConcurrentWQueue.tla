-------------------- MODULE TotalFileSizeConcurrentWQueue --------------------
(***************************************************************************)
(* thread/concurrent/TotalFileSizeConcurrentWQueue.java: pool threads      *)
(* explore directories and put each direct size into a bounded queue; the  *)
(* main thread collects the sizes while visits are pending or the queue    *)
(* holds something.  poll gives up after 10 seconds with null, and adding  *)
(* null to a long throws NullPointerException out of getTotalSizeOfFile.   *)
(*                                                                         *)
(* One action per access to shared state.  A size in the queue is named by *)
(* the directory it is the size of.                                        *)
(***************************************************************************)
EXTENDS FileTree, Integers, Sequences

CONSTANTS Workers,   \* the threads of newFixedThreadPool(100)
          Main,      \* the thread that calls getTotalSizeOfFile
          Capacity   \* of the ArrayBlockingQueue: 500

ASSUME ThreadAssumption == Workers # {} /\ Main \notin Workers
ASSUME CapacityAssumption == Capacity \in Nat \ {0}

VARIABLES
    sub,                \* the tree on disk, unchanged during a run
    accepted,           \* tasks service.execute accepted, not begun
    runState,           \* of the pool: "running", or "shutdown" after shutdown()
    pc,                 \* where each thread is
    file,               \* parameter of exploreDir, per thread
    rest,               \* the subdirectories of file the for loop has to reach
    child,              \* parameter of startExploreDir, per thread
    pendingFileVisits,
    fileSizes,          \* the blocking queue
    totalSize,          \* main's local sum of direct sizes
    outcome,            \* how the loop ended
    seen, finished      \* history: visits counted, and counted out again

vars == <<sub, accepted, runState, pc, file, rest, child, pendingFileVisits,
          fileSizes, totalSize, outcome, seen, finished>>

Threads == Workers \cup {Main}
poolVars == <<accepted, runState>>
visitVars == <<file, rest, child>>
countVars == <<pendingFileVisits, seen, finished>>
mainVars == <<totalSize, outcome>>

\* Inside exploreDir, the visit not yet counted out.
Exploring == {"scan", "execute", "put", "decrement"}
Collecting == {"checkPending", "checkSize", "poll"}
PC == Exploring \cup Collecting \cup {"start", "idle", "finally", "done"}

\* Every variable has its type; the queue never exceeds its capacity.
TypeOK ==
    /\ sub \in [Dir -> SUBSET Dir]
    /\ accepted \subseteq Dir
    /\ runState \in {"running", "shutdown"}
    /\ pc \in [Threads -> PC]
    /\ file \in [Threads -> Dir]
    /\ rest \in [Threads -> SUBSET Dir]
    /\ child \in [Threads -> Dir]
    /\ pendingFileVisits \in Nat
    /\ fileSizes \in Seq(Dir) /\ Len(fileSizes) <= Capacity
    /\ totalSize \in [Dir -> Nat]
    /\ outcome \in {"none", "returned", "NullPointerException"}
    /\ seen \subseteq Dir
    /\ finished \subseteq Dir

Init ==
    /\ sub \in Trees
    /\ accepted = {}
    /\ runState = "running"
    /\ pc = [t \in Threads |-> IF t = Main THEN "start" ELSE "idle"]
    /\ file = [t \in Threads |-> Root]
    /\ rest = [t \in Threads |-> {}]
    /\ child = [t \in Threads |-> Root]
    /\ pendingFileVisits = 0
    /\ fileSizes = <<>>
    /\ totalSize = Nothing
    /\ outcome = "none"
    /\ seen = {}
    /\ finished = {}

Goto(t, label) == pc' = [pc EXCEPT ![t] = label]

-----------------------------------------------------------------------------
(* startExploreDir, called by main for the root and by exploreDir. *)

\* pendingFileVisits.incrementAndGet()
Count(t, d) ==
    /\ pendingFileVisits' = pendingFileVisits + 1
    /\ seen' = seen \cup {d}
    /\ child' = [child EXCEPT ![t] = d]
    /\ Goto(t, "execute")
    /\ UNCHANGED finished

\* Main starts with the root.
Begin ==
    /\ pc[Main] = "start"
    /\ Count(Main, Root)
    /\ UNCHANGED <<sub, poolVars, file, rest, fileSizes, mainVars>>

\* The loop of exploreDir reaches subdirectory c.  (Mutant: without line 32.)
VisitUncounted(w, c) ==
    /\ pc[w] = "scan"
    /\ c \in rest[w]
    /\ rest' = [rest EXCEPT ![w] = @ \ {c}]
    /\ child' = [child EXCEPT ![w] = c]
    /\ Goto(w, "execute")
    /\ UNCHANGED <<sub, poolVars, file, countVars, fileSizes, mainVars>>

Visit(w, c) ==
    /\ pc[w] = "scan"
    /\ c \in rest[w]
    /\ rest' = [rest EXCEPT ![w] = @ \ {c}]
    /\ Count(w, c)
    /\ UNCHANGED <<sub, poolVars, file, fileSizes, mainVars>>

\* service.execute: accepted, or rejected after shutdown() with an exception
\* that ends the visit without put and without decrementAndGet.
Execute(t) ==
    /\ pc[t] = "execute"
    /\ \/ /\ runState = "running"
          /\ accepted' = accepted \cup {child[t]}
          /\ Goto(t, IF t = Main THEN "checkPending" ELSE "scan")
       \/ /\ runState = "shutdown"
          /\ Goto(t, "idle")
          /\ UNCHANGED accepted
    /\ UNCHANGED <<sub, runState, visitVars, countVars, fileSizes, mainVars>>

-----------------------------------------------------------------------------
(* exploreDir, run by pool thread w. *)

Take(w, d) ==
    /\ pc[w] = "idle"
    /\ d \in accepted
    /\ accepted' = accepted \ {d}
    /\ file' = [file EXCEPT ![w] = d]
    /\ rest' = [rest EXCEPT ![w] = sub[d]]
    /\ Goto(w, "scan")
    /\ UNCHANGED <<sub, runState, child, countVars, fileSizes, mainVars>>

\* The loop is over.
EndScan(w) ==
    /\ pc[w] = "scan"
    /\ rest[w] = {}
    /\ Goto(w, "put")
    /\ UNCHANGED <<sub, poolVars, visitVars, countVars, fileSizes, mainVars>>

\* fileSizes.put: blocks while the queue is full.
Put(w) ==
    /\ pc[w] = "put"
    /\ Len(fileSizes) < Capacity
    /\ fileSizes' = Append(fileSizes, file[w])
    /\ Goto(w, "decrement")
    /\ UNCHANGED <<sub, poolVars, visitVars, countVars, mainVars>>

Decrement(w) ==
    /\ pc[w] = "decrement"
    /\ pendingFileVisits' = pendingFileVisits - 1
    /\ finished' = finished \cup {file[w]}
    /\ Goto(w, "idle")
    /\ UNCHANGED <<sub, poolVars, visitVars, seen, fileSizes, mainVars>>

-----------------------------------------------------------------------------
(* The loop of getTotalSizeOfFile, in the main thread. *)

\* pendingFileVisits.get() > 0, the first operand of ||
CheckPending ==
    /\ pc[Main] = "checkPending"
    /\ Goto(Main, IF pendingFileVisits > 0 THEN "poll" ELSE "checkSize")
    /\ UNCHANGED <<sub, poolVars, visitVars, countVars, fileSizes, mainVars>>

\* fileSizes.size() > 0, the second; the loop ends when both are false.
\* (Mutant: the second operand is missing.)
CheckSizeSkipped ==
    /\ pc[Main] = "checkSize"
    /\ Goto(Main, "finally") /\ outcome' = "returned"
    /\ UNCHANGED <<sub, poolVars, visitVars, countVars, fileSizes, totalSize>>

CheckSize ==
    /\ pc[Main] = "checkSize"
    /\ IF Len(fileSizes) > 0
       THEN Goto(Main, "poll") /\ UNCHANGED outcome
       ELSE Goto(Main, "finally") /\ outcome' = "returned"
    /\ UNCHANGED <<sub, poolVars, visitVars, countVars, fileSizes, totalSize>>

\* fileSizes.poll(10, SECONDS) returns a size, which is added.
Poll ==
    /\ pc[Main] = "poll"
    /\ fileSizes # <<>>
    /\ totalSize' = Add(totalSize, Head(fileSizes))
    /\ fileSizes' = Tail(fileSizes)
    /\ Goto(Main, "checkPending")
    /\ UNCHANGED <<sub, poolVars, visitVars, countVars, outcome>>

\* ... or null after 10 seconds without one: totalSize += size throws.
\* (Mutants: a null taken for the end of the sizes; take() instead of poll.)
PollTimeoutReturns ==
    /\ pc[Main] = "poll"
    /\ fileSizes = <<>>
    /\ outcome' = "returned"
    /\ Goto(Main, "finally")
    /\ UNCHANGED <<sub, poolVars, visitVars, countVars, fileSizes, totalSize>>

PollTimeoutNever == pc[Main] = "poll" /\ FALSE /\ UNCHANGED vars

PollTimeout ==
    /\ pc[Main] = "poll"
    /\ fileSizes = <<>>
    /\ outcome' = "NullPointerException"
    /\ Goto(Main, "finally")
    /\ UNCHANGED <<sub, poolVars, visitVars, countVars, fileSizes, totalSize>>

\* finally { service.shutdown(); }
Shutdown ==
    /\ pc[Main] = "finally"
    /\ runState' = "shutdown"
    /\ Goto(Main, "done")
    /\ UNCHANGED <<sub, accepted, visitVars, countVars, fileSizes, mainVars>>

-----------------------------------------------------------------------------
\* A step of pool thread w inside exploreDir.
Explore(w) ==
    \/ \E c \in Dir : Visit(w, c)
    \/ Execute(w)
    \/ EndScan(w)
    \/ Put(w)
    \/ Decrement(w)

MainStep == Begin \/ Execute(Main) \/ CheckPending \/ CheckSize \/ Poll \/ Shutdown

Next ==
    \/ \E w \in Workers : Explore(w)
    \/ \E w \in Workers, d \in Dir : Take(w, d)
    \/ MainStep
    \/ PollTimeout

Spec == Init /\ [][Next]_vars

\* The JVM schedules every thread that can run, and 10 seconds do pass when
\* nothing arrives in the queue.
Fairness ==
    /\ \A w \in Workers : WF_vars(Explore(w))
    /\ WF_vars(\E w \in Workers, d \in Dir : Take(w, d))
    /\ WF_vars(MainStep)
    /\ WF_vars(PollTimeout)

FairSpec == Spec /\ Fairness

\* The pool at rest: every accepted task ran to its end.
PoolAtRest == accepted = {} /\ \A w \in Workers : pc[w] = "idle"

\* A machine on which 10 seconds are ample: a poll times out only when no
\* thread is left that could put something into the queue.
PatientNext ==
    \/ \E w \in Workers : Explore(w)
    \/ \E w \in Workers, d \in Dir : Take(w, d)
    \/ MainStep
    \/ PoolAtRest /\ PollTimeout

PatientSpec == Init /\ [][PatientNext]_vars

-----------------------------------------------------------------------------
(* Why it holds: the invariant the proofs use. *)

Running(w) == pc[w] \in Exploring
\* Directories counted whose visit has not begun: accepted tasks, and the
\* ones about to be passed to execute.
Unbegun == accepted \cup {child[t] : t \in {u \in Threads : pc[u] = "execute"}}

\* Every directory that is waited for is counted and in one place only.
OnePlace ==
    /\ finished \subseteq seen
    /\ Unbegun \subseteq seen \ finished
    /\ \A w \in Workers : Running(w) => file[w] \in (seen \ finished) \ Unbegun
    /\ \A v, w \in Workers : Running(v) /\ Running(w) /\ file[v] = file[w] => v = w
    /\ \A t, u \in Threads :
          pc[t] = "execute" /\ pc[u] = "execute" /\ child[t] = child[u] => t = u
    /\ \A t \in Threads : pc[t] = "execute" => child[t] \notin accepted

\* The walk: a directory's subdirectories are counted by its own visit only.
Walk ==
    /\ \A d \in (Dir \ seen) \cup Unbegun : sub[d] \cap seen = {}
    /\ \A w \in Workers : Running(w) => rest[w] = sub[file[w]] \ seen
    /\ \A w \in Workers : pc[w] \in {"put", "decrement"} => rest[w] = {}
    /\ \A d \in finished : sub[d] \subseteq seen

Delivered(d) ==
    d \in finished \/ \E w \in Workers : pc[w] = "decrement" /\ file[w] = d
InQueue(d) == \E i \in DOMAIN fileSizes : fileSizes[i] = d

\* Every size put into the queue is in the queue or in the sum, once: none is
\* lost, doubled or invented between put and poll.
SizesConserved ==
    /\ \A i, j \in DOMAIN fileSizes : fileSizes[i] = fileSizes[j] => i = j
    /\ \A d \in Dir : InQueue(d) => Delivered(d)
    /\ \A d \in Dir : totalSize[d] = IF Delivered(d) /\ ~InQueue(d) THEN 1 ELSE 0

\* Main's progress: what its two reads of shared state establish.
Loop ==
    /\ pc[Main] \in Collecting \cup {"start", "execute", "finally", "done"}
    /\ runState = "shutdown" => pc[Main] = "done"
    /\ IF pc[Main] = "start" THEN seen = {} ELSE Root \in seen
    /\ pc[Main] = "checkSize" => seen = finished
    /\ outcome = "none" <=> pc[Main] \notin {"finally", "done"}
    /\ outcome = "returned" => seen = finished /\ fileSizes = <<>>

\* The accounting of visits and sizes, in every order of the threads' steps.
Accounting ==
    /\ TypeOK /\ sub \in Trees
    /\ OnePlace /\ Walk /\ Loop /\ SizesConserved
    /\ pendingFileVisits = Cardinality(seen \ finished)

-----------------------------------------------------------------------------
(* Properties. *)

\* The loop reads the counter before the queue's size, and a visit puts before
\* it is counted out: when both reads are 0 the sum is exact.
ReturnsExact == outcome = "returned" => totalSize = ExactSize

\* getTotalSizeOfFile ends, whatever the sizes of the pool and of the queue:
\* main and the pool never wait for each other for ever (liveness).
Terminates == <>(pc[Main] = "done")

\* Lines 69-71 say that main blocks while the queue is empty: collecting the
\* sizes never fails.
CollectingNeverFails == outcome # "NullPointerException"

-----------------------------------------------------------------------------
(* getTotalSizeOfFile as a caller sees it. *)
Query == INSTANCE SizeQuery WITH
    MayBePartial <- FALSE,
    phase  <- IF pc[Main] # "done" THEN "running"
              ELSE IF outcome = "returned" THEN "returned" ELSE "failed",
    answer <- IF pc[Main] = "done" /\ outcome = "returned" THEN totalSize ELSE Nothing,
    excuse <- outcome = "NullPointerException"

\* The program implements SizeQuery: it returns the exact size or, after a poll
\* that timed out, fails; it never returns a partial sum.
ImplementsSizeQuery == Query!Spec
=============================================================================
