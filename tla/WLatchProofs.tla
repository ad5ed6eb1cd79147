---------------------------- MODULE WLatchProofs ----------------------------
(***************************************************************************)
(* Proofs about TotalFileSizeConcurrentWLatch, for every finite set of     *)
(* directories, every tree on it and every set of pool threads.            *)
(***************************************************************************)
EXTENDS TotalFileSizeConcurrentWLatch, FiniteSetTheorems, TLAPS

USE TreeAssumption, ThreadAssumption

\* What the proofs need of a tree: every directory but the root lies in one
\* directory, and what is reached from the root is everything.
LEMMA TreeFacts ==
    ASSUME NEW s \in Trees
    PROVE  /\ s \in [Dir -> SUBSET Dir]
           /\ \A d, e \in Dir, c \in Dir : c \in s[d] /\ c \in s[e] => d = e
           /\ \A d \in Dir : Root \notin s[d]
           /\ \A S \in SUBSET Dir : Root \in S /\ (\A d \in S : s[d] \subseteq S) => S = Dir
<1>1. PICK parent \in [Dir \ {Root} -> Dir] : s = SubDirs(parent)
  BY DEF Trees
<1>2. s = [d \in Dir |-> {c \in Dir \ {Root} : parent[c] = d}]
  BY <1>1 DEF SubDirs
<1>3. \A S \in SUBSET Dir : ClosedFromRoot(s, S) => S = Dir
  BY DEF Trees
<1> QED BY <1>2, <1>3 DEF ClosedFromRoot

\* The counter's arithmetic: counting a new visit, and counting one out.
LEMMA CountIn ==
    ASSUME NEW S \in SUBSET Dir, NEW F \in SUBSET S, NEW d \in Dir \ S
    PROVE  /\ Cardinality((S \cup {d}) \ F) = Cardinality(S \ F) + 1
           /\ Cardinality(S \ F) \in Nat
<1>1. IsFiniteSet(S \ F)
  BY FS_Subset
<1>2. (S \cup {d}) \ F = (S \ F) \cup {d} /\ d \notin S \ F
  OBVIOUS
<1> QED BY <1>1, <1>2, FS_AddElement, FS_CardinalityType

LEMMA CountOut ==
    ASSUME NEW S \in SUBSET Dir, NEW F \in SUBSET S, NEW d \in S \ F
    PROVE  /\ Cardinality(S \ (F \cup {d})) = Cardinality(S \ F) - 1
           /\ Cardinality(S \ F) \in Nat
           /\ Cardinality(S \ F) = 1 => S = F \cup {d}
<1>1. IsFiniteSet(S \ F)
  BY FS_Subset
<1>2. S \ (F \cup {d}) = (S \ F) \ {d}
  OBVIOUS
<1>3. Cardinality((S \ F) \ {d}) = Cardinality(S \ F) - 1 /\ IsFiniteSet((S \ F) \ {d})
  BY <1>1, FS_RemoveElement
<1>4. ASSUME Cardinality(S \ F) = 1 PROVE S = F \cup {d}
  <2>1. Cardinality((S \ F) \ {d}) = 0
    BY <1>3, <1>4
  <2>2. (S \ F) \ {d} = {}
    BY <1>3, <2>1, FS_EmptySet
  <2> QED BY <2>2
<1> QED BY <1>1, <1>2, <1>3, <1>4, FS_CardinalityType

-----------------------------------------------------------------------------
\* The initial states satisfy the invariant.
LEMMA InitAccounting == Init => Accounting
<1> SUFFICES ASSUME Init PROVE Accounting
  OBVIOUS
<1>1. TypeOK
  <2>1. sub \in [Dir -> SUBSET Dir]
    BY TreeFacts DEF Init
  <2>2. pc \in [Threads -> PC]
    BY DEF Init, PC
  <2>3. file \in [Threads -> Dir] /\ rest \in [Threads -> SUBSET Dir] /\ child \in [Threads -> Dir]
    BY DEF Init
  <2>4. totalSize \in [Dir -> Nat] /\ result \in [Dir -> Nat]
    BY DEF Init, Nothing
  <2>5. runState \in {"running", "shutdown"}
    BY DEF Init
  <2>6. pendingFileVisits \in Nat /\ latch \in {0, 1} /\ awaited \in {"notYet", "opened", "timedOut"}
    BY DEF Init
  <2> QED BY <2>1, <2>2, <2>3, <2>4, <2>5, <2>6 DEF Init, TypeOK
<1>2. OnePlace
  BY DEF Init, OnePlace, Unbegun, Running, Visiting, Threads
<1>3. Walk
  BY DEF Init, Walk, Unbegun, Running, Visiting, Threads
<1>4. Sums
  <2>1. Cardinality(seen \ finished) = 0
    BY FS_EmptySet DEF Init
  <2>2. \A t \in Threads : pc[t] # "decrement"
    BY DEF Init
  <2> QED BY <2>1, <2>2 DEF Init, Sums, Nothing
<1>5. End /\ Answered
  BY DEF Init, End, Answered, Threads
<1> QED BY <1>1, <1>2, <1>3, <1>4, <1>5 DEF Init, Accounting
-----------------------------------------------------------------------------
(* Each action preserves the invariant. *)

USE DEF Running, Visiting

\* An open latch, or a thread about to open it, means every size was added:
\* what is finished contains the root and is closed under subdirectories.
LEMMA CompleteAtEnd == Accounting => LatchMeansComplete /\ NeverCountedTwice /\ QuietAfterLatch
<1> SUFFICES ASSUME Accounting PROVE LatchMeansComplete /\ NeverCountedTwice /\ QuietAfterLatch
  OBVIOUS
<1>1. ASSUME latch = 0 PROVE totalSize = ExactSize
  <2>1. seen = finished /\ Root \in finished
    BY <1>1 DEF Accounting, End
  <2>2. \A d \in finished : sub[d] \subseteq finished
    BY <2>1 DEF Accounting, Walk
  <2>3. finished = Dir
    BY <2>1, <2>2, TreeFacts DEF Accounting, TypeOK
  <2> QED BY <2>3 DEF Accounting, TypeOK, Sums, ExactSize
<1>2. NeverCountedTwice
  BY DEF Accounting, Sums, NeverCountedTwice
<1>3. QuietAfterLatch
  BY DEF Accounting, OnePlace, Unbegun, End, QuietAfterLatch
<1> QED BY <1>1, <1>2, <1>3 DEF LatchMeansComplete

\* Main counts the root and enters it.
LEMMA BeginOK == ASSUME Accounting, Begin PROVE Accounting'
<1>1. TypeOK' /\ sub' \in Trees
  BY DEF Accounting, TypeOK, Begin, Goto, Enter, Count, Threads, PC, poolVars, answerVars
<1>2. OnePlace'
  BY TreeFacts DEF Accounting, TypeOK, OnePlace, Walk, End, Unbegun, Begin, Goto, Enter,
                   Count, Threads, poolVars, answerVars
<1>3. Walk'
  BY TreeFacts DEF Accounting, TypeOK, OnePlace, Walk, End, Unbegun, Begin, Goto, Enter,
                   Count, Threads, poolVars, answerVars
<1>4. Sums'
  <2>1. seen = {} /\ finished = {} /\ seen' = {Root} /\ finished' = {} /\ totalSize' = totalSize
    BY DEF Accounting, OnePlace, End, Begin, Count
  <2>2. \A u \in Threads : pc[u] # "decrement" /\ pc'[u] # "decrement"
    BY <2>1 DEF Accounting, TypeOK, OnePlace, Begin, Enter, Goto, Threads
  <2>3. Cardinality(seen \ finished) = 0 /\ Cardinality(seen' \ finished') = 1
    <3>1. seen \ finished = {} /\ seen' \ finished' = {Root}
      BY <2>1
    <3> QED BY <3>1, FS_EmptySet, FS_Singleton
  <2> QED BY <2>1, <2>2, <2>3 DEF Accounting, Sums, Begin, Count
<1>5. End'
  BY DEF Accounting, TypeOK, OnePlace, Sums, End, Begin, Goto, Enter, Count, Threads,
         poolVars, answerVars
<1>6. Answered'
  BY DEF Accounting, TypeOK, End, Answered, Begin, Goto, Enter, Count, Threads,
         poolVars, answerVars
<1> QED BY <1>1, <1>2, <1>3, <1>4, <1>5, <1>6 DEF Accounting

\* A pool thread begins a task.
LEMMA TakeOK == ASSUME Accounting, NEW w \in Workers, NEW d \in Dir, Take(w, d) PROVE Accounting'
<1>1. TypeOK' /\ sub' \in Trees
  BY DEF Accounting, TypeOK, Take, Goto, Enter, Threads, PC, countVars, answerVars
<1>2. OnePlace'
  BY TreeFacts DEF Accounting, TypeOK, OnePlace, Walk, End, Unbegun, Take, Goto, Enter,
                   Threads, countVars, answerVars
<1>3. Walk'
  <2>1. d \in Unbegun /\ Unbegun' = Unbegun \ {d} /\ sub[d] \cap seen = {}
    BY DEF Accounting, TypeOK, OnePlace, Walk, Unbegun, Take, Enter, Goto, Threads
  <2>2. UNCHANGED <<sub, seen, finished>>
    BY DEF Take, countVars
  <2>3. \A u \in Threads \ {w} : pc'[u] = pc[u] /\ file'[u] = file[u] /\ rest'[u] = rest[u]
    BY DEF Accounting, TypeOK, Take, Enter, Goto
  <2>4. pc'[w] = "scan" /\ file'[w] = d /\ rest'[w] = sub[d]
    BY DEF Accounting, TypeOK, Take, Enter, Goto, Threads
  <2> QED BY <2>1, <2>2, <2>3, <2>4 DEF Accounting, Walk
<1>4. Sums'
  BY DEF Accounting, TypeOK, OnePlace, Walk, Sums, End, Unbegun, Take, Goto, Enter,
         Threads, countVars, answerVars
<1>5. End'
  BY DEF Accounting, TypeOK, OnePlace, Sums, End, Take, Goto, Enter, Threads, countVars,
         answerVars
<1>6. Answered'
  BY DEF Accounting, TypeOK, End, Answered, Take, Goto, Enter, Threads, countVars,
         answerVars
<1> QED BY <1>1, <1>2, <1>3, <1>4, <1>5, <1>6 DEF Accounting

\* A loop counts a subdirectory.
LEMMA VisitOK == ASSUME Accounting, NEW t \in Threads, NEW c \in Dir, Visit(t, c) PROVE Accounting'
<1>1. TypeOK' /\ sub' \in Trees
  BY DEF Accounting, TypeOK, Visit, Goto, Count, Threads, PC, poolVars, answerVars
<1>2. OnePlace'
  BY TreeFacts DEF Accounting, TypeOK, OnePlace, Walk, End, Unbegun, Visit, Goto, Count,
                   Threads, poolVars, answerVars
<1>3. Walk'
  BY TreeFacts DEF Accounting, TypeOK, OnePlace, Walk, End, Unbegun, Visit, Goto, Count,
                   Threads, poolVars, answerVars
<1>4. Sums'
  <2>1. c \in Dir \ seen /\ seen' = seen \cup {c} /\ finished' = finished
    BY DEF Accounting, TypeOK, OnePlace, Walk, Visit, Count
  <2>2. Cardinality(seen' \ finished') = Cardinality(seen \ finished) + 1
    BY <2>1, CountIn DEF Accounting, TypeOK, OnePlace
  <2>3. \A u \in Threads : pc'[u] = "decrement" <=> pc[u] = "decrement"
    BY DEF Accounting, TypeOK, Visit, Goto
  <2> QED BY <2>1, <2>2, <2>3 DEF Accounting, Sums, Visit, Count
<1>5. End'
  BY DEF Accounting, TypeOK, OnePlace, Sums, End, Visit, Goto, Count, Threads, poolVars,
         answerVars
<1>6. Answered'
  BY DEF Accounting, TypeOK, End, Answered, Visit, Goto, Count, Threads, poolVars,
         answerVars
<1> QED BY <1>1, <1>2, <1>3, <1>4, <1>5, <1>6 DEF Accounting

\* A task is accepted or rejected.
LEMMA ExecuteOK == ASSUME Accounting, NEW t \in Threads, Execute(t) PROVE Accounting'
<1>1. TypeOK' /\ sub' \in Trees
  BY DEF Accounting, TypeOK, Execute, Goto, Return, Threads, PC, visitVars, countVars,
         answerVars
<1>2. /\ UNCHANGED <<sub, file, rest, child, seen, finished>>
      /\ Unbegun' \subseteq Unbegun
  BY DEF Accounting, TypeOK, Unbegun, Execute, Goto, Return, visitVars, countVars
<1>3. \A u \in Threads \ {t} : pc'[u] = pc[u]
  BY DEF Accounting, TypeOK, Execute, Goto, Return
<1>4. /\ pc[t] = "execute" /\ pc'[t] \in {"scan", "await", "idle"}
      /\ accepted' \subseteq accepted \cup {child[t]}
  BY DEF Accounting, TypeOK, Execute, Goto, Return
<1>5. OnePlace'
  BY <1>2, <1>3, <1>4 DEF Accounting, OnePlace
<1>6. Walk'
  BY <1>2, <1>3, <1>4 DEF Accounting, Walk
<1>7. Sums'
  BY DEF Accounting, TypeOK, OnePlace, Walk, Sums, End, Unbegun, Execute, Goto, Return,
         Threads, visitVars, countVars, answerVars
<1>8. End'
  BY DEF Accounting, TypeOK, OnePlace, Sums, End, Execute, Goto, Return, Threads,
         visitVars, countVars, answerVars
<1>9. Answered'
  BY DEF Accounting, TypeOK, End, Answered, Execute, Goto, Return, Threads, visitVars,
         countVars, answerVars
<1> QED BY <1>1, <1>5, <1>6, <1>7, <1>8, <1>9 DEF Accounting

\* A visit's size is added.
LEMMA AddSizeOK == ASSUME Accounting, NEW t \in Threads, AddSize(t) PROVE Accounting'
<1>1. TypeOK' /\ sub' \in Trees
  BY DEF Accounting, TypeOK, AddSize, Goto, Add, Threads, PC, poolVars, visitVars,
         countVars, answerVars
<1>2. OnePlace'
  BY TreeFacts DEF Accounting, TypeOK, OnePlace, Walk, End, Unbegun, AddSize, Goto,
                   Threads, poolVars, visitVars, countVars, answerVars
<1>3. Walk'
  BY TreeFacts DEF Accounting, TypeOK, OnePlace, Walk, End, Unbegun, AddSize, Goto,
                   Threads, poolVars, visitVars, countVars, answerVars
<1>4. Sums'
  BY DEF Accounting, TypeOK, OnePlace, Walk, Sums, End, Unbegun, AddSize, Goto, Add,
         Threads, poolVars, visitVars, countVars, answerVars
<1>5. End'
  BY DEF Accounting, TypeOK, OnePlace, Sums, End, AddSize, Goto, Threads, poolVars,
         visitVars, countVars, answerVars
<1>6. Answered'
  BY DEF Accounting, TypeOK, End, Answered, AddSize, Goto, Threads, poolVars, visitVars,
         countVars, answerVars
<1> QED BY <1>1, <1>2, <1>3, <1>4, <1>5, <1>6 DEF Accounting

\* A visit is counted out.
LEMMA DecrementOK == ASSUME Accounting, NEW t \in Threads, Decrement(t) PROVE Accounting'
<1>1. file[t] \in seen \ finished /\ Running(t) /\ finished' = finished \cup {file[t]} /\ seen' = seen
  BY DEF Accounting, OnePlace, Decrement
<1>2. /\ Cardinality(seen \ finished') = Cardinality(seen \ finished) - 1
      /\ pendingFileVisits' = Cardinality(seen' \ finished')
      /\ pendingFileVisits' = 0 => seen = finished'
      /\ pendingFileVisits' \in Nat
  <2>1. seen \in SUBSET Dir /\ finished \in SUBSET seen
    BY DEF Accounting, TypeOK, OnePlace
  <2>2. /\ Cardinality(seen \ finished') = Cardinality(seen \ finished) - 1
        /\ Cardinality(seen \ finished) \in Nat
        /\ Cardinality(seen \ finished) = 1 => seen = finished'
    BY <1>1, <2>1, CountOut
  <2>3. pendingFileVisits' = Cardinality(seen \ finished) - 1
    BY DEF Accounting, Sums, Decrement
  <2>4. Cardinality(seen \ finished') \in Nat
    <3>1. IsFiniteSet(seen \ finished')
      BY <2>1, FS_Subset
    <3> QED BY <3>1, FS_CardinalityType
  <2> QED BY <1>1, <2>2, <2>3, <2>4
<1>3. PICK label \in {"countDown", "await", "idle"} :
         pc' = [pc EXCEPT ![t] = label] /\ (label = "countDown" => seen' = finished')
  BY <1>1, <1>2 DEF Decrement, Goto, Return
<1>4. UNCHANGED <<sub, accepted, runState, file, rest, child, totalSize, latch, awaited, result>>
  BY DEF Decrement, poolVars, visitVars, answerVars
<1>5. Unbegun' = Unbegun
  BY <1>3, <1>4 DEF Unbegun, Accounting, TypeOK, Decrement
<1>6. TypeOK' /\ sub' \in Trees
  BY <1>1, <1>2, <1>3, <1>4 DEF Accounting, TypeOK, PC, Decrement
<1>7. OnePlace'
  BY <1>1, <1>3, <1>4, <1>5 DEF Accounting, TypeOK, OnePlace
<1>8. Walk'
  BY <1>1, <1>3, <1>4, <1>5 DEF Accounting, TypeOK, OnePlace, Walk, Decrement
<1>9. Sums'
  BY <1>1, <1>2, <1>3, <1>4 DEF Accounting, TypeOK, Sums, OnePlace, Decrement
<1>10. End'
  BY <1>1, <1>3, <1>4 DEF Accounting, TypeOK, OnePlace, End, Decrement
<1>11. Answered'
  BY <1>1, <1>3, <1>4 DEF Accounting, TypeOK, Answered, Threads
<1> QED BY <1>6, <1>7, <1>8, <1>9, <1>10, <1>11 DEF Accounting

\* The latch opens.
LEMMA CountDownOK == ASSUME Accounting, NEW t \in Threads, CountDown(t) PROVE Accounting'
<1>1. TypeOK' /\ sub' \in Trees
  BY DEF Accounting, TypeOK, CountDown, Goto, Return, Threads, PC, poolVars, visitVars,
         countVars, answerVars
<1>2. OnePlace'
  BY TreeFacts DEF Accounting, TypeOK, OnePlace, Walk, End, Unbegun, CountDown, Goto,
                   Return, Threads, poolVars, visitVars, countVars, answerVars
<1>3. Walk'
  BY TreeFacts DEF Accounting, TypeOK, OnePlace, Walk, End, Unbegun, CountDown, Goto,
                   Return, Threads, poolVars, visitVars, countVars, answerVars
<1>4. Sums'
  BY DEF Accounting, TypeOK, OnePlace, Walk, Sums, End, Unbegun, CountDown, Goto,
         Return, Threads, poolVars, visitVars, countVars, answerVars
<1>5. End'
  BY DEF Accounting, TypeOK, OnePlace, Sums, End, CountDown, Goto, Return, Threads,
         poolVars, visitVars, countVars, answerVars
<1>6. Answered'
  BY DEF Accounting, TypeOK, End, Answered, CountDown, Goto, Return, Threads, poolVars,
         visitVars, countVars, answerVars
<1> QED BY <1>1, <1>2, <1>3, <1>4, <1>5, <1>6 DEF Accounting

\* Main waits, reads and shuts the pool down.
LEMMA MainOK == ASSUME Accounting, AwaitOpen \/ AwaitTimeout \/ ReturnTotal \/ Shutdown PROVE Accounting'
<1>0. PICK label \in PC \ (Visiting \cup {"start", "countDown"}) : pc' = [pc EXCEPT ![Main] = label]
  BY DEF AwaitOpen, AwaitTimeout, ReturnTotal, Shutdown, Goto, PC
<1>1. TypeOK' /\ sub' \in Trees
  BY DEF Accounting, TypeOK, AwaitOpen, AwaitTimeout, ReturnTotal, Shutdown, Goto,
         Threads, PC, poolVars, visitVars, countVars, answerVars
<1>2. OnePlace'
  BY TreeFacts DEF Accounting, TypeOK, OnePlace, Walk, End, Unbegun, AwaitOpen,
                   AwaitTimeout, ReturnTotal, Shutdown, Goto, Threads, poolVars,
                   visitVars, countVars, answerVars
<1>3. Walk'
  BY TreeFacts DEF Accounting, TypeOK, OnePlace, Walk, End, Unbegun, AwaitOpen,
                   AwaitTimeout, ReturnTotal, Shutdown, Goto, Threads, poolVars,
                   visitVars, countVars, answerVars
<1>4. Sums'
  <2>1. pc[Main] # "decrement" /\ Main \in Threads
    BY DEF AwaitOpen, AwaitTimeout, ReturnTotal, Shutdown, Threads
  <2>2. \A u \in Threads : pc'[u] = "decrement" <=> pc[u] = "decrement"
    BY <1>0, <2>1 DEF Accounting, TypeOK
  <2>3. UNCHANGED <<file, countVars, totalSize>>
    BY DEF AwaitOpen, AwaitTimeout, ReturnTotal, Shutdown, visitVars, countVars
  <2> QED BY <2>2, <2>3 DEF Accounting, Sums, countVars
<1>5. End'
  BY DEF Accounting, TypeOK, OnePlace, Sums, End, AwaitOpen, AwaitTimeout, ReturnTotal,
         Shutdown, Goto, Threads, poolVars, visitVars, countVars, answerVars
<1>6. Answered'
  <2>1. CASE AwaitOpen
    BY <2>1 DEF Accounting, TypeOK, Answered, AwaitOpen, Goto, Threads
  <2>2. CASE AwaitTimeout
    BY <2>2 DEF Accounting, TypeOK, Answered, AwaitTimeout, Goto, Threads
  <2>3. CASE ReturnTotal
    <3>1. latch = 0 => totalSize = ExactSize
      BY CompleteAtEnd DEF LatchMeansComplete
    <3>2. totalSize \in [Dir -> {0, 1}]
      BY DEF Accounting, TypeOK, Sums
    <3> QED BY <2>3, <3>1, <3>2 DEF Accounting, TypeOK, Answered, ReturnTotal, Goto, Threads
  <2>4. CASE Shutdown
    BY <2>4 DEF Accounting, TypeOK, Answered, Shutdown, Goto, Threads, answerVars
  <2> QED BY <2>1, <2>2, <2>3, <2>4
<1> QED BY <1>1, <1>2, <1>3, <1>4, <1>5, <1>6 DEF Accounting

-----------------------------------------------------------------------------
(* The theorems. *)

\* The accounting of visits holds in every reachable state, for every tree
\* and every number of pool threads.
THEOREM AccountingInvariant == Spec => []Accounting
<1>1. Init => Accounting
  BY InitAccounting
<1>2. Accounting /\ [Next]_vars => Accounting'
  <2> SUFFICES ASSUME Accounting, [Next]_vars PROVE Accounting'
    OBVIOUS
  <2>1. CASE \E t \in Threads : Step(t)
    BY <2>1, VisitOK, ExecuteOK, AddSizeOK, DecrementOK, CountDownOK DEF Step
  <2>2. CASE \E w \in Workers, d \in Dir : Take(w, d)
    BY <2>2, TakeOK
  <2>3. CASE Begin
    BY <2>3, BeginOK
  <2>4. CASE AwaitOpen \/ AwaitTimeout \/ ReturnTotal \/ Shutdown
    BY <2>4, MainOK
  <2>5. CASE UNCHANGED vars
    BY <2>5 DEF vars, Accounting, TypeOK, OnePlace, Unbegun, Walk, Sums, End, Answered
  <2> QED BY <2>1, <2>2, <2>3, <2>4, <2>5 DEF Next, MainStep
<1> QED BY <1>1, <1>2, PTL DEF Spec

\* The variables keep their types.
THEOREM TypeInvariant == Spec => []TypeOK
<1>1. Accounting => TypeOK
  BY DEF Accounting
<1> QED BY <1>1, AccountingInvariant, PTL

\* The latch opens only when every directory's size is in totalSize.
THEOREM LatchOnlyWhenComplete == Spec => []LatchMeansComplete
<1>1. Accounting => LatchMeansComplete
  BY CompleteAtEnd
<1> QED BY <1>1, AccountingInvariant, PTL

\* No directory's size is ever added twice.
THEOREM NoDoubleCount == Spec => []NeverCountedTwice
<1>1. Accounting => NeverCountedTwice
  BY CompleteAtEnd
<1> QED BY <1>1, AccountingInvariant, PTL

\* Behind an open latch no visit runs or waits.
THEOREM NothingAfterLatch == Spec => []QuietAfterLatch
<1>1. Accounting => QuietAfterLatch
  BY CompleteAtEnd
<1> QED BY <1>1, AccountingInvariant, PTL

\* A step of a thread leaves main's phase, result and wait alone or is one of
\* the steps main takes between its visit of the root and its end.
LEMMA StepIsQueryStep ==
    ASSUME Accounting, Accounting', [Next]_vars
    PROVE  [Query!Next]_(Query!queryVars)
<1>1. CASE AwaitOpen \/ AwaitTimeout \/ ReturnTotal
  <2>1. pc[Main] # "done" /\ pc'[Main] # "done" /\ result' \in [Dir -> Nat]
    BY <1>1 DEF Accounting, TypeOK, AwaitOpen, AwaitTimeout, ReturnTotal, Goto, Threads
  <2>2. AwaitTimeout \/ (awaited = "timedOut" <=> awaited' = "timedOut")
    BY <1>1 DEF AwaitOpen, ReturnTotal, Accounting, Answered
  <2>3. AwaitTimeout => awaited' = "timedOut"
    BY DEF AwaitTimeout
  <2> QED BY <2>1, <2>2, <2>3 DEF Query!Next, Query!TimeOut, Query!queryVars
<1>2. CASE Shutdown
  <2>1. pc[Main] = "finally" /\ pc'[Main] = "done" /\ UNCHANGED <<awaited, result>>
    BY <1>2 DEF Accounting, TypeOK, Shutdown, Goto, Threads, answerVars
  <2>2. awaited = "timedOut" \/ result = ExactSize
    BY <2>1 DEF Accounting, TypeOK, Answered
  <2>3. result \in [Dir -> {0, 1}]
    BY <2>1 DEF Accounting, Answered
  <2>4. CASE result = ExactSize
    BY <2>1, <2>4 DEF Query!Next, Query!Answer, Query!ExactSize, ExactSize
  <2>5. CASE result # ExactSize
    BY <2>1, <2>2, <2>3, <2>5
       DEF Query!Next, Query!AnswerPartial, Query!Partial, Query!ExactSize, ExactSize
  <2> QED BY <2>4, <2>5
<1>3. CASE \/ \E t \in Threads : Step(t)
           \/ \E w \in Workers, d \in Dir : Take(w, d)
           \/ Begin
           \/ UNCHANGED vars
  <2>1. UNCHANGED <<awaited, result>>
    BY <1>3 DEF Step, Visit, Execute, AddSize, Decrement, CountDown, Take, Begin, answerVars, vars
  <2>2. pc'[Main] = "done" <=> pc[Main] = "done"
    BY <1>3 DEF Step, Visit, Execute, AddSize, Decrement, CountDown, Take, Begin, Enter,
                Goto, Return, vars, Accounting, TypeOK, Threads
  <2> QED BY <2>1, <2>2 DEF Query!queryVars
<1> QED BY <1>1, <1>2, <1>3 DEF Next, MainStep

\* getTotalSizeOfFile implements SizeQuery: the exact size, or, only after a
\* timeout, a partial one.
THEOREM Refinement == Spec => ImplementsSizeQuery
<1>1. Init => Query!Init
  BY DEF Init, Query!Init, Threads, Nothing, Query!Nothing
<1>2. Accounting /\ Accounting' /\ [Next]_vars => [Query!Next]_(Query!queryVars)
  BY StepIsQueryStep
<1> QED BY <1>1, <1>2, AccountingInvariant, PTL DEF Spec, ImplementsSizeQuery, Query!Spec
=============================================================================
