---------------------------- MODULE WQueueProofs ----------------------------
(***************************************************************************)
(* Proofs about TotalFileSizeConcurrentWQueue, for every finite set of     *)
(* directories, every tree on it, every pool and every queue capacity.     *)
(***************************************************************************)
EXTENDS TotalFileSizeConcurrentWQueue, FiniteSetTheorems, TLAPS

USE TreeAssumption, ThreadAssumption, CapacityAssumption

\* What the proofs need of a tree: every directory but the root lies in one
\* directory, and what is reached from the root is everything.
LEMMA TreeFacts ==
    ASSUME NEW s \in Trees
    PROVE  /\ s \in [Dir -> SUBSET Dir]
           /\ \A d, e \in Dir, c \in Dir : c \in s[d] /\ c \in s[e] => d = e
           /\ \A d \in Dir : Root \notin s[d]
           /\ \A S \in SUBSET Dir : Root \in S /\ (\A d \in S : s[d] \subseteq S) => S = Dir
<1>1. PICK parent \in [Dir \ {Root} -> Dir] : s = SubDirs(parent)
  BY DEF Trees
<1>2. s = [d \in Dir |-> {c \in Dir \ {Root} : parent[c] = d}]
  BY <1>1 DEF SubDirs
<1>3. \A S \in SUBSET Dir : ClosedFromRoot(s, S) => S = Dir
  BY DEF Trees
<1> QED BY <1>2, <1>3 DEF ClosedFromRoot

\* The counter's arithmetic: counting a new visit, and counting one out.
LEMMA CountIn ==
    ASSUME NEW S \in SUBSET Dir, NEW F \in SUBSET S, NEW d \in Dir \ S
    PROVE  /\ Cardinality((S \cup {d}) \ F) = Cardinality(S \ F) + 1
           /\ Cardinality(S \ F) \in Nat
<1>1. IsFiniteSet(S \ F)
  BY FS_Subset
<1>2. (S \cup {d}) \ F = (S \ F) \cup {d} /\ d \notin S \ F
  OBVIOUS
<1> QED BY <1>1, <1>2, FS_AddElement, FS_CardinalityType

LEMMA CountOut ==
    ASSUME NEW S \in SUBSET Dir, NEW F \in SUBSET S, NEW d \in S \ F
    PROVE  /\ Cardinality(S \ (F \cup {d})) = Cardinality(S \ F) - 1
           /\ Cardinality(S \ F) \in Nat
           /\ Cardinality(S \ F) = 1 => S = F \cup {d}
<1>1. IsFiniteSet(S \ F)
  BY FS_Subset
<1>2. S \ (F \cup {d}) = (S \ F) \ {d}
  OBVIOUS
<1>3. Cardinality((S \ F) \ {d}) = Cardinality(S \ F) - 1 /\ IsFiniteSet((S \ F) \ {d})
  BY <1>1, FS_RemoveElement
<1>4. ASSUME Cardinality(S \ F) = 1 PROVE S = F \cup {d}
  <2>1. Cardinality((S \ F) \ {d}) = 0
    BY <1>3, <1>4
  <2>2. (S \ F) \ {d} = {}
    BY <1>3, <2>1, FS_EmptySet
  <2> QED BY <2>2
<1> QED BY <1>1, <1>2, <1>3, <1>4, FS_CardinalityType

-----------------------------------------------------------------------------
USE DEF Running, Exploring, Collecting

\* The initial states satisfy the invariant.
LEMMA InitAccounting == Init => Accounting
<1> SUFFICES ASSUME Init PROVE Accounting
  OBVIOUS
<1>1. TypeOK
  <2>1. sub \in [Dir -> SUBSET Dir]
    BY TreeFacts DEF Init
  <2>2. pc \in [Threads -> PC]
    BY DEF Init, PC
  <2>3. totalSize \in [Dir -> Nat] /\ fileSizes \in Seq(Dir) /\ Len(fileSizes) <= Capacity
    BY DEF Init, Nothing
  <2> QED BY <2>1, <2>2, <2>3 DEF Init, TypeOK
<1>2. OnePlace /\ Walk
  BY DEF Init, OnePlace, Walk, Unbegun, Threads
<1>3. Loop
  BY DEF Init, Loop, Threads
<1>4. SizesConserved
  BY DEF Init, SizesConserved, Delivered, InQueue, Nothing, Threads
<1>5. Cardinality(seen \ finished) = 0
  BY FS_EmptySet DEF Init
<1> QED BY <1>1, <1>2, <1>3, <1>4, <1>5 DEF Init, Accounting

\* An ended loop means the sum is exact: what is finished contains the root
\* and is closed under subdirectories, and nothing is left in the queue.
LEMMA CompleteAtEnd == Accounting => ReturnsExact
<1> SUFFICES ASSUME Accounting, outcome = "returned" PROVE totalSize = ExactSize
  BY DEF ReturnsExact
<1>1. seen = finished /\ Root \in finished /\ fileSizes = <<>>
  BY DEF Accounting, Loop
<1>2. \A d \in finished : sub[d] \subseteq finished
  BY <1>1 DEF Accounting, Walk
<1>3. finished = Dir
  BY <1>1, <1>2, TreeFacts DEF Accounting, TypeOK
<1>4. \A d \in Dir : Delivered(d) /\ ~InQueue(d)
  BY <1>1, <1>3 DEF Delivered, InQueue
<1> QED BY <1>4 DEF Accounting, TypeOK, SizesConserved, ExactSize

-----------------------------------------------------------------------------
(* Each action preserves the invariant. *)

\* What a step that leaves the queue, the sum and what was delivered alone keeps.
LEMMA SameSizes ==
    ASSUME Accounting, UNCHANGED <<fileSizes, totalSize>>,
           \A d \in Dir : Delivered(d)' <=> Delivered(d)
    PROVE  SizesConserved'
BY DEF Accounting, SizesConserved, InQueue

\* Main counts the root.
LEMMA BeginOK == ASSUME Accounting, Begin PROVE Accounting'
<1>1. TypeOK' /\ sub' \in Trees
  BY DEF Accounting, TypeOK, PC, Threads, Begin, Count, Goto, poolVars, mainVars
<1>2. OnePlace'
  BY TreeFacts DEF Accounting, TypeOK, OnePlace, Walk, Loop, Unbegun, Threads, Begin,
                   Count, Goto, poolVars, mainVars
<1>3. Walk'
  BY TreeFacts DEF Accounting, TypeOK, OnePlace, Walk, Loop, Unbegun, Threads, Begin,
                   Count, Goto, poolVars, mainVars
<1>4. Loop'
  BY DEF Accounting, TypeOK, OnePlace, Loop, Threads, Begin, Count, Goto, poolVars,
         mainVars
<1>5. SizesConserved'
  BY DEF Accounting, TypeOK, OnePlace, Loop, SizesConserved, Delivered, InQueue,
         Threads, Begin, Count, Goto, poolVars, mainVars
<1>6. pendingFileVisits' = Cardinality(seen' \ finished')
  BY CountIn, CountOut DEF Accounting, TypeOK, OnePlace, Loop, Threads, Begin, Count,
                           Goto, poolVars, mainVars
<1> QED BY <1>1, <1>2, <1>3, <1>4, <1>5, <1>6 DEF Accounting

\* A loop counts a subdirectory.
LEMMA VisitOK == ASSUME Accounting, NEW w \in Workers, NEW c \in Dir, Visit(w, c) PROVE Accounting'
<1>1. /\ pc[w] = "scan" /\ c \in rest[w] /\ c \in sub[file[w]] /\ c \notin seen
      /\ c \notin Unbegun /\ file[w] \in (seen \ finished) \ Unbegun
  BY DEF Accounting, TypeOK, OnePlace, Walk, Visit
<1>2. /\ pc' = [pc EXCEPT ![w] = "execute"] /\ child' = [child EXCEPT ![w] = c]
      /\ rest' = [rest EXCEPT ![w] = @ \ {c}] /\ seen' = seen \cup {c}
      /\ pendingFileVisits' = pendingFileVisits + 1
      /\ UNCHANGED <<sub, accepted, runState, file, finished, fileSizes, totalSize, outcome>>
  BY DEF Visit, Count, Goto, poolVars, mainVars
<1>3. Unbegun' = Unbegun \cup {c}
  BY <1>1, <1>2 DEF Accounting, TypeOK, Unbegun, Threads
<1>4. TypeOK' /\ sub' \in Trees
  <2>1. pc' \in [Threads -> PC] /\ child' \in [Threads -> Dir] /\ rest' \in [Threads -> SUBSET Dir]
    BY <1>2 DEF Accounting, TypeOK, PC
  <2>2. pendingFileVisits' \in Nat /\ seen' \subseteq Dir
    BY <1>2 DEF Accounting, TypeOK
  <2> QED BY <1>2, <2>1, <2>2 DEF Accounting, TypeOK
<1>5. OnePlace'
  <2>1. \A t \in Threads \ {w} : pc'[t] = pc[t] /\ child'[t] = child[t]
    BY <1>2 DEF Accounting, TypeOK
  <2>2. pc'[w] = "execute" /\ child'[w] = c
    BY <1>2 DEF Accounting, TypeOK, Threads
  <2>3. \A t \in Threads : pc[t] = "execute" => child[t] \in Unbegun
    BY DEF Unbegun
  <2>4. accepted \subseteq Unbegun
    BY DEF Unbegun
  <2> QED BY <1>1, <1>2, <1>3, <2>1, <2>2, <2>3, <2>4, SMTT(40)
        DEF Accounting, TypeOK, OnePlace, Threads
<1>6. Walk'
  BY <1>1, <1>2, <1>3, TreeFacts, SMTT(30) DEF Accounting, TypeOK, OnePlace, Walk, Threads
<1>7. Loop'
  BY <1>1, <1>2 DEF Accounting, TypeOK, OnePlace, Loop, Threads
<1>8. SizesConserved'
  <2>1. \A v \in Workers : pc'[v] = "decrement" <=> pc[v] = "decrement"
    BY <1>1, <1>2 DEF Accounting, TypeOK, Threads
  <2> QED BY <1>2, <2>1, SameSizes DEF Delivered
<1>9. pendingFileVisits' = Cardinality(seen' \ finished')
  <2>1. seen \in SUBSET Dir /\ finished \in SUBSET seen /\ c \in Dir \ seen
    BY <1>1 DEF Accounting, TypeOK, OnePlace
  <2> QED BY <1>2, <2>1, CountIn DEF Accounting
<1> QED BY <1>4, <1>5, <1>6, <1>7, <1>8, <1>9 DEF Accounting

\* A task is accepted or rejected.
LEMMA ExecuteOK == ASSUME Accounting, NEW t \in Threads, Execute(t) PROVE Accounting'
<1>1. PICK label \in {"checkPending", "scan", "idle"} :
         /\ pc' = [pc EXCEPT ![t] = label]
         /\ t = Main => label = "checkPending"
         /\ t \in Workers => label # "checkPending"
  BY DEF Accounting, Loop, Execute, Goto, Threads
<1>2. /\ pc[t] = "execute"
      /\ accepted' \subseteq accepted \cup {child[t]}
      /\ UNCHANGED <<sub, runState, file, rest, child, pendingFileVisits, seen, finished,
                     fileSizes, totalSize, outcome>>
  BY DEF Execute, visitVars, countVars, mainVars
<1>3. Unbegun' \subseteq Unbegun
  BY <1>1, <1>2 DEF Accounting, TypeOK, Unbegun
<1>4. TypeOK' /\ sub' \in Trees
  BY <1>1, <1>2 DEF Accounting, TypeOK, PC
<1>5. OnePlace'
  <2>1. \A u \in Threads \ {t} : pc'[u] = pc[u]
    BY <1>1 DEF Accounting, TypeOK
  <2>2. pc'[t] \in {"checkPending", "scan", "idle"}
    BY <1>1 DEF Accounting, TypeOK
  <2>3. \A u \in Threads : pc'[u] = "execute" => u # t /\ pc[u] = "execute"
    BY <2>1, <2>2
  <2>4. \A w \in Workers : pc'[w] \in Exploring => pc[w] \in Exploring
    BY <1>2, <2>1, <2>2 DEF Threads
  <2> QED BY <1>2, <1>3, <2>3, <2>4 DEF Accounting, OnePlace, Threads
<1>6. Walk'
  <2>1. \A w \in Workers : pc'[w] \in Exploring => pc[w] \in Exploring
    BY <1>1, <1>2 DEF Accounting, TypeOK, Threads
  <2>2. \A w \in Workers : pc'[w] \in {"put", "decrement"} => pc[w] \in {"put", "decrement"}
    BY <1>1 DEF Accounting, TypeOK, Threads
  <2> QED BY <1>2, <1>3, <2>1, <2>2 DEF Accounting, Walk
<1>7. Loop'
  BY <1>1, <1>2 DEF Accounting, TypeOK, Loop, Threads
<1>8. SizesConserved'
  <2>1. \A v \in Workers : pc'[v] = "decrement" <=> pc[v] = "decrement"
    BY <1>1, <1>2 DEF Accounting, TypeOK, Threads
  <2> QED BY <1>2, <2>1, SameSizes DEF Delivered
<1> QED BY <1>2, <1>4, <1>5, <1>6, <1>7, <1>8 DEF Accounting

\* A pool thread begins a task.
LEMMA TakeOK ==
    ASSUME Accounting, NEW w \in Workers, NEW d \in Dir, Take(w, d) PROVE Accounting'
<1>1. /\ pc[w] = "idle" /\ d \in accepted /\ accepted' = accepted \ {d}
      /\ pc' = [pc EXCEPT ![w] = "scan"] /\ file' = [file EXCEPT ![w] = d]
      /\ rest' = [rest EXCEPT ![w] = sub[d]]
      /\ UNCHANGED <<sub, runState, child, pendingFileVisits, seen, finished, fileSizes,
                     totalSize, outcome>>
  BY DEF Take, Goto, countVars, mainVars
<1>2. /\ \A t \in Threads \ {w} : pc'[t] = pc[t] /\ file'[t] = file[t] /\ rest'[t] = rest[t]
      /\ pc'[w] = "scan" /\ file'[w] = d /\ rest'[w] = sub[d]
  BY <1>1 DEF Accounting, TypeOK, Threads
<1>3. d \in Unbegun /\ Unbegun' = Unbegun \ {d} /\ sub[d] \cap seen = {}
  BY <1>1, <1>2 DEF Accounting, TypeOK, OnePlace, Walk, Unbegun
<1>4. TypeOK' /\ sub' \in Trees
  BY <1>1 DEF Accounting, TypeOK, PC
<1>5. OnePlace'
  BY <1>1, <1>2, <1>3, SMTT(30) DEF Accounting, TypeOK, OnePlace, Threads
<1>6. Walk'
  BY <1>1, <1>2, <1>3 DEF Accounting, TypeOK, Walk, Threads
<1>7. Loop'
  BY <1>1, <1>2 DEF Accounting, TypeOK, Loop, Threads
<1>8. SizesConserved'
  <2>1. \A v \in Workers, e \in Dir :
           pc'[v] = "decrement" /\ file'[v] = e <=> pc[v] = "decrement" /\ file[v] = e
    BY <1>1, <1>2 DEF Threads
  <2> QED BY <1>1, <2>1, SameSizes DEF Delivered
<1> QED BY <1>1, <1>4, <1>5, <1>6, <1>7, <1>8 DEF Accounting

\* A visit has its size.
LEMMA EndScanOK == ASSUME Accounting, NEW w \in Workers, EndScan(w) PROVE Accounting'
<1>1. /\ pc[w] = "scan" /\ rest[w] = {} /\ pc' = [pc EXCEPT ![w] = "put"]
      /\ UNCHANGED <<sub, accepted, runState, file, rest, child, pendingFileVisits, seen,
                     finished, fileSizes, totalSize, outcome>>
  BY DEF EndScan, Goto, poolVars, visitVars, countVars, mainVars
<1>2. (\A t \in Threads \ {w} : pc'[t] = pc[t]) /\ pc'[w] = "put"
  BY <1>1 DEF Accounting, TypeOK, Threads
<1>3. Unbegun' = Unbegun
  BY <1>1, <1>2 DEF Unbegun
<1>4. TypeOK' /\ sub' \in Trees
  BY <1>1 DEF Accounting, TypeOK, PC
<1>5. OnePlace'
  BY <1>1, <1>2, <1>3 DEF Accounting, OnePlace, Threads
<1>6. Walk'
  BY <1>1, <1>2, <1>3 DEF Accounting, Walk, Threads
<1>7. Loop'
  BY <1>1, <1>2 DEF Accounting, Loop, Threads
<1>8. SizesConserved'
  <2>1. \A v \in Workers : pc'[v] = "decrement" <=> pc[v] = "decrement"
    BY <1>1, <1>2 DEF Threads
  <2> QED BY <1>1, <2>1, SameSizes DEF Delivered
<1> QED BY <1>1, <1>4, <1>5, <1>6, <1>7, <1>8 DEF Accounting

\* A size goes into the queue.
LEMMA PutOK == ASSUME Accounting, NEW w \in Workers, Put(w) PROVE Accounting'
<1>1. /\ pc[w] = "put" /\ Len(fileSizes) < Capacity /\ pc' = [pc EXCEPT ![w] = "decrement"]
      /\ fileSizes' = Append(fileSizes, file[w])
      /\ UNCHANGED <<sub, accepted, runState, file, rest, child, pendingFileVisits, seen,
                     finished, totalSize, outcome>>
  BY DEF Put, Goto, poolVars, visitVars, countVars, mainVars
<1>2. (\A t \in Threads \ {w} : pc'[t] = pc[t]) /\ pc'[w] = "decrement"
  BY <1>1 DEF Accounting, TypeOK, Threads
<1>3. Unbegun' = Unbegun
  BY <1>1, <1>2 DEF Unbegun
<1>4. TypeOK' /\ sub' \in Trees
  BY <1>1 DEF Accounting, TypeOK, PC, Threads
<1>5. OnePlace'
  BY <1>1, <1>2, <1>3 DEF Accounting, OnePlace, Threads
<1>6. Walk'
  BY <1>1, <1>2, <1>3 DEF Accounting, Walk, Threads
<1>7. Loop'
  BY <1>1, <1>2 DEF Accounting, OnePlace, Loop, Threads
<1>8. SizesConserved'
  <2>1. file[w] \in Dir /\ ~Delivered(file[w]) /\ ~InQueue(file[w])
    BY <1>1 DEF Accounting, TypeOK, OnePlace, SizesConserved, Delivered, Threads
  <2>2. \A d \in Dir : Delivered(d)' <=> Delivered(d) \/ d = file[w]
    BY <1>1, <1>2 DEF Delivered, Threads
  <2>3. /\ DOMAIN fileSizes' = DOMAIN fileSizes \cup {Len(fileSizes) + 1}
        /\ \A i \in DOMAIN fileSizes : fileSizes'[i] = fileSizes[i] /\ i # Len(fileSizes) + 1
        /\ fileSizes'[Len(fileSizes) + 1] = file[w]
    BY <1>1, <2>1 DEF Accounting, TypeOK
  <2>4. \A d \in Dir : InQueue(d)' <=> InQueue(d) \/ d = file[w]
    BY <2>3 DEF InQueue
  <2>5. \A i, j \in DOMAIN fileSizes' : fileSizes'[i] = fileSizes'[j] => i = j
    BY <2>1, <2>3 DEF Accounting, SizesConserved, InQueue
  <2> QED BY <1>1, <2>1, <2>2, <2>4, <2>5 DEF Accounting, SizesConserved
<1> QED BY <1>1, <1>4, <1>5, <1>6, <1>7, <1>8 DEF Accounting

\* A visit is counted out.
LEMMA DecrementOK == ASSUME Accounting, NEW w \in Workers, Decrement(w) PROVE Accounting'
<1>1. /\ pc[w] = "decrement" /\ pc' = [pc EXCEPT ![w] = "idle"]
      /\ finished' = finished \cup {file[w]} /\ pendingFileVisits' = pendingFileVisits - 1
      /\ UNCHANGED <<sub, accepted, runState, file, rest, child, seen, fileSizes, totalSize,
                     outcome>>
  BY DEF Decrement, Goto, poolVars, visitVars, mainVars
<1>2. (\A t \in Threads \ {w} : pc'[t] = pc[t]) /\ pc'[w] = "idle"
  BY <1>1 DEF Accounting, TypeOK, Threads
<1>3. file[w] \in seen \ finished /\ sub[file[w]] \subseteq seen /\ Unbegun' = Unbegun
  <2>1. Unbegun' = Unbegun
    BY <1>1, <1>2 DEF Unbegun
  <2> QED BY <1>1, <2>1 DEF Accounting, OnePlace, Walk
<1>4. pendingFileVisits' = Cardinality(seen' \ finished') /\ pendingFileVisits' \in Nat
  <2>1. seen \in SUBSET Dir /\ finished \in SUBSET seen
    BY DEF Accounting, TypeOK, OnePlace
  <2>2. Cardinality(seen \ finished') = Cardinality(seen \ finished) - 1
    BY <1>1, <1>3, <2>1, CountOut
  <2>3. IsFiniteSet(seen \ finished')
    BY <2>1, FS_Subset
  <2> QED BY <1>1, <2>2, <2>3, FS_CardinalityType DEF Accounting
<1>5. TypeOK' /\ sub' \in Trees
  BY <1>1, <1>3, <1>4 DEF Accounting, TypeOK, PC
<1>6. OnePlace'
  BY <1>1, <1>2, <1>3 DEF Accounting, OnePlace, Threads
<1>7. Walk'
  BY <1>1, <1>2, <1>3 DEF Accounting, Walk, Threads
<1>8. Loop'
  BY <1>1, <1>2, <1>3 DEF Accounting, Loop, Threads
<1>9. SizesConserved'
  <2>1. \A d \in Dir : Delivered(d)' <=> Delivered(d)
    BY <1>1, <1>2 DEF Delivered, Threads
  <2> QED BY <1>1, <2>1, SameSizes
<1> QED BY <1>4, <1>5, <1>6, <1>7, <1>8, <1>9 DEF Accounting

\* A step of main that leaves the pool, the visits and the counter alone keeps
\* the accounting of visits.
LEMMA MainLeavesVisits ==
    ASSUME Accounting, pc[Main] # "execute",
           NEW label \in PC \ {"execute"}, pc' = [pc EXCEPT ![Main] = label],
           UNCHANGED <<sub, accepted, file, rest, child, pendingFileVisits, seen, finished>>
    PROVE  OnePlace' /\ Walk' /\ (\A d \in Dir : Delivered(d)' <=> Delivered(d))
<1>1. (\A t \in Threads \ {Main} : pc'[t] = pc[t]) /\ pc'[Main] # "execute"
  BY DEF Accounting, TypeOK, Threads
<1>2. Unbegun' = Unbegun
  BY <1>1 DEF Unbegun, Threads
<1>3. \A w \in Workers : pc'[w] = pc[w]
  BY <1>1 DEF Threads
<1>4. OnePlace'
  BY <1>1, <1>2, <1>3 DEF Accounting, OnePlace
<1>5. Walk'
  BY <1>2, <1>3 DEF Accounting, Walk
<1> QED BY <1>3, <1>4, <1>5 DEF Delivered

\* Main's steps other than collecting a size.
LEMMA CheckOK ==
    ASSUME Accounting, CheckPending \/ CheckSize \/ PollTimeout \/ Shutdown PROVE Accounting'
<1>1. PICK label \in {"poll", "checkSize", "finally", "done"} :
         /\ pc' = [pc EXCEPT ![Main] = label]
         /\ label = "checkSize" => pc[Main] = "checkPending" /\ ~(pendingFileVisits > 0)
         /\ label = "finally" =>
               \/ pc[Main] = "poll" /\ outcome' = "NullPointerException"
               \/ pc[Main] = "checkSize" /\ ~(Len(fileSizes) > 0) /\ outcome' = "returned"
         /\ label \in {"poll", "checkSize", "done"} => outcome' = outcome
         /\ label = "done" <=> pc[Main] = "finally"
  BY DEF CheckPending, CheckSize, PollTimeout, Shutdown, Goto, mainVars
<1>2. /\ pc[Main] \in {"checkPending", "checkSize", "poll", "finally"}
      /\ runState' = IF pc[Main] = "finally" THEN "shutdown" ELSE runState
      /\ UNCHANGED <<sub, accepted, file, rest, child, pendingFileVisits, seen, finished,
                     fileSizes, totalSize>>
  BY DEF CheckPending, CheckSize, PollTimeout, Shutdown, poolVars, visitVars, countVars, mainVars
<1>3. OnePlace' /\ Walk' /\ \A d \in Dir : Delivered(d)' <=> Delivered(d)
  BY <1>1, <1>2, MainLeavesVisits DEF PC
<1>4. TypeOK' /\ sub' \in Trees
  BY <1>1, <1>2 DEF Accounting, TypeOK, PC, Loop
<1>5. ASSUME ~(pendingFileVisits > 0) PROVE seen = finished
  <2>1. IsFiniteSet(seen \ finished) /\ Cardinality(seen \ finished) = 0
    <3>1. seen \ finished \subseteq Dir
      BY DEF Accounting, TypeOK
    <3> QED BY <1>5, <3>1, FS_Subset DEF Accounting, TypeOK
  <2>2. seen \ finished = {}
    BY <2>1, FS_EmptySet
  <2> QED BY <2>2 DEF Accounting, OnePlace
<1>6. ASSUME ~(Len(fileSizes) > 0) PROVE fileSizes = <<>>
  BY <1>6 DEF Accounting, TypeOK
<1>7. Loop'
  <2>1. pc'[Main] = label
    BY <1>1 DEF Accounting, TypeOK, Threads
  <2> QED BY <1>1, <1>2, <1>5, <1>6, <2>1 DEF Accounting, Loop
<1>8. SizesConserved'
  BY <1>2, <1>3, SameSizes
<1> QED BY <1>2, <1>3, <1>4, <1>7, <1>8 DEF Accounting

\* Main collects a size.
LEMMA PollOK == ASSUME Accounting, Poll PROVE Accounting'
<1>1. /\ pc[Main] = "poll" /\ fileSizes # <<>> /\ pc' = [pc EXCEPT ![Main] = "checkPending"]
      /\ fileSizes' = Tail(fileSizes) /\ totalSize' = Add(totalSize, Head(fileSizes))
      /\ UNCHANGED <<sub, accepted, runState, file, rest, child, pendingFileVisits, seen,
                     finished, outcome>>
  BY DEF Poll, Goto, poolVars, visitVars, countVars
<1>2. OnePlace' /\ Walk' /\ \A d \in Dir : Delivered(d)' <=> Delivered(d)
  BY <1>1, MainLeavesVisits DEF PC
<1>3. Head(fileSizes) \in Dir /\ Len(fileSizes) > 0 /\ Head(fileSizes) = fileSizes[1]
  BY <1>1 DEF Accounting, TypeOK
<1>4. /\ fileSizes' \in Seq(Dir) /\ Len(fileSizes') = Len(fileSizes) - 1
      /\ \A i \in 1 .. Len(fileSizes) - 1 : fileSizes'[i] = fileSizes[i + 1]
  BY <1>1, <1>3 DEF Accounting, TypeOK
<1>5. TypeOK' /\ sub' \in Trees
  <2>1. pc' \in [Threads -> PC]
    BY <1>1 DEF Accounting, TypeOK, PC
  <2>2. totalSize' \in [Dir -> Nat]
    BY <1>1, <1>3 DEF Accounting, TypeOK, Add
  <2>3. fileSizes' \in Seq(Dir) /\ Len(fileSizes') <= Capacity
    BY <1>4 DEF Accounting, TypeOK
  <2> QED BY <1>1, <2>1, <2>2, <2>3 DEF Accounting, TypeOK
<1>6. Loop'
  BY <1>1 DEF Accounting, TypeOK, Loop, Threads
<1>7. SizesConserved'
  <2> DEFINE h == Head(fileSizes)
  <2>1. \A i, j \in 1 .. Len(fileSizes) : fileSizes[i] = fileSizes[j] => i = j
    BY DEF Accounting, TypeOK, SizesConserved
  <2>2. \A d \in Dir : InQueue(d)' <=> InQueue(d) /\ d # h
    <3>1. DOMAIN fileSizes = 1 .. Len(fileSizes) /\ DOMAIN fileSizes' = 1 .. Len(fileSizes) - 1
      BY <1>3, <1>4 DEF Accounting, TypeOK
    <3>2. ASSUME NEW i \in 1 .. Len(fileSizes) - 1
          PROVE  fileSizes'[i] # h /\ i + 1 \in 1 .. Len(fileSizes)
      <4>1. Len(fileSizes) \in Nat /\ i \in Nat /\ i >= 1 /\ i <= Len(fileSizes) - 1
        BY DEF Accounting, TypeOK
      <4>2. 1 \in 1 .. Len(fileSizes) /\ i + 1 \in 1 .. Len(fileSizes) /\ i + 1 # 1
        BY <4>1
      <4> QED BY <1>3, <1>4, <2>1, <4>2
    <3>3. ASSUME NEW i \in 1 .. Len(fileSizes), fileSizes[i] # h
          PROVE  i - 1 \in 1 .. Len(fileSizes) - 1 /\ fileSizes'[i - 1] = fileSizes[i]
      <4>1. Len(fileSizes) \in Nat
        BY DEF Accounting, TypeOK
      <4>2. i # 1
        BY <1>3, <3>3
      <4>3. i - 1 \in 1 .. Len(fileSizes) - 1 /\ (i - 1) + 1 = i
        BY <4>1, <4>2
      <4> QED BY <1>4, <4>3
    <3> QED BY <1>4, <3>1, <3>2, <3>3 DEF InQueue
  <2>3. \A i, j \in DOMAIN fileSizes' : fileSizes'[i] = fileSizes'[j] => i = j
    <3>1. Len(fileSizes) \in Nat /\ DOMAIN fileSizes' = 1 .. Len(fileSizes) - 1
      BY <1>4 DEF Accounting, TypeOK
    <3> SUFFICES ASSUME NEW i \in 1 .. Len(fileSizes) - 1, NEW j \in 1 .. Len(fileSizes) - 1,
                        fileSizes'[i] = fileSizes'[j]
                 PROVE  i = j
      BY <3>1
    <3>2. i + 1 \in 1 .. Len(fileSizes) /\ j + 1 \in 1 .. Len(fileSizes)
      BY <3>1
    <3>3. i + 1 = j + 1
      BY <1>4, <2>1, <3>2
    <3> QED BY <3>1, <3>3
  <2>4. InQueue(h) /\ Delivered(h) /\ totalSize[h] = 0
    BY <1>3 DEF Accounting, TypeOK, SizesConserved, InQueue
  <2>5. \A d \in Dir : totalSize'[d] = IF d = h THEN totalSize[d] + 1 ELSE totalSize[d]
    BY <1>1, <1>3 DEF Accounting, TypeOK, Add
  <2>6. \A d \in Dir : InQueue(d)' => Delivered(d)'
    BY <1>2, <2>2 DEF Accounting, SizesConserved
  <2>7. \A d \in Dir : totalSize'[d] = IF Delivered(d)' /\ ~InQueue(d)' THEN 1 ELSE 0
    BY <1>2, <1>3, <2>2, <2>4, <2>5 DEF Accounting, SizesConserved
  <2> QED BY <2>3, <2>6, <2>7 DEF SizesConserved
<1> QED BY <1>1, <1>2, <1>5, <1>6, <1>7 DEF Accounting

-----------------------------------------------------------------------------
(* The theorems. *)

\* The accounting of visits and sizes holds in every reachable state.
THEOREM AccountingInvariant == Spec => []Accounting
<1>1. Accounting /\ [Next]_vars => Accounting'
  <2> SUFFICES ASSUME Accounting, [Next]_vars PROVE Accounting'
    OBVIOUS
  <2>1. CASE \E w \in Workers : Explore(w)
    <3>1. PICK w \in Workers : Explore(w)
      BY <2>1
    <3>2. w \in Threads
      BY DEF Threads
    <3> QED BY <3>1, <3>2, VisitOK, ExecuteOK, EndScanOK, PutOK, DecrementOK DEF Explore
  <2>2. CASE \E w \in Workers, d \in Dir : Take(w, d)
    BY <2>2, TakeOK
  <2>3. CASE Begin \/ Execute(Main) \/ Poll
    BY <2>3, BeginOK, ExecuteOK, PollOK DEF Threads
  <2>4. CASE CheckPending \/ CheckSize \/ PollTimeout \/ Shutdown
    BY <2>4, CheckOK
  <2>5. CASE UNCHANGED vars
    <3>1. TypeOK' /\ OnePlace' /\ Walk' /\ Loop' /\ sub' \in Trees
      BY <2>5, SMTT(30) DEF vars, Accounting, TypeOK, OnePlace, Unbegun, Walk, Loop
    <3>2. SizesConserved'
      BY <2>5, SameSizes DEF vars, Delivered
    <3> QED BY <2>5, <3>1, <3>2 DEF vars, Accounting
  <2> QED BY <2>1, <2>2, <2>3, <2>4, <2>5 DEF Next, MainStep
<1> QED BY <1>1, InitAccounting, PTL DEF Spec

\* A sum that is returned is exact.
THEOREM ExactWhenReturned == Spec => []ReturnsExact
<1> QED BY CompleteAtEnd, AccountingInvariant, PTL

\* A step of main that ends the loop, or the method, is a step of SizeQuery;
\* every other step leaves phase, answer and excuse alone.
LEMMA StepIsQueryStep ==
    ASSUME Accounting, Accounting', [Next]_vars
    PROVE  [Query!Next]_(Query!queryVars)
<1>1. CASE PollTimeout
  <2>1. pc[Main] # "done" /\ pc'[Main] # "done" /\ outcome' = "NullPointerException"
    BY <1>1 DEF Accounting, TypeOK, PollTimeout, Goto, Threads
  <2> QED BY <2>1 DEF Query!Next, Query!TimeOut
<1>2. CASE Shutdown
  <2>1. /\ pc[Main] = "finally" /\ pc'[Main] = "done" /\ UNCHANGED <<totalSize, outcome>>
    BY <1>2 DEF Accounting, TypeOK, Shutdown, Goto, Threads, mainVars
  <2>2. outcome = "returned" => totalSize = ExactSize
    BY CompleteAtEnd DEF ReturnsExact
  <2>3. outcome \in {"returned", "NullPointerException"}
    BY <2>1 DEF Accounting, TypeOK, Loop
  <2>4. CASE outcome = "returned"
    BY <2>1, <2>2, <2>4 DEF Query!Next, Query!Answer, Query!ExactSize, ExactSize
  <2>5. CASE outcome = "NullPointerException"
    BY <2>1, <2>5 DEF Query!Next, Query!Fail
  <2> QED BY <2>3, <2>4, <2>5
<1>3. CASE CheckSize
  <2>1. pc[Main] # "done" /\ pc'[Main] # "done" /\ outcome # "NullPointerException"
    BY <1>3 DEF Accounting, TypeOK, Loop, CheckSize, Goto, Threads
  <2>2. outcome' # "NullPointerException"
    BY <1>3, <2>1 DEF CheckSize
  <2> QED BY <2>1, <2>2 DEF Query!queryVars
<1>4. CASE \/ Poll \/ CheckPending \/ Begin \/ Execute(Main) \/ UNCHANGED vars
           \/ \E w \in Workers : Explore(w)
           \/ \E w \in Workers, d \in Dir : Take(w, d)
  <2>1. outcome' = outcome
    BY <1>4 DEF Poll, CheckPending, Begin, Execute, Explore, Visit, EndScan, Put, Decrement,
                Take, mainVars, vars
  <2>2. pc'[Main] = "done" <=> pc[Main] = "done"
    BY <1>4 DEF Poll, CheckPending, Begin, Execute, Explore, Visit, EndScan, Put, Decrement,
                Take, Count, Goto, vars, Accounting, TypeOK, Threads, Loop
  <2>3. pc[Main] = "done" => totalSize' = totalSize
    BY <1>4 DEF Poll, CheckPending, Begin, Execute, Explore, Visit, EndScan, Put, Decrement,
                Take, mainVars, vars
  <2> QED BY <2>1, <2>2, <2>3 DEF Query!queryVars
<1> QED BY <1>1, <1>2, <1>3, <1>4 DEF Next, MainStep

\* getTotalSizeOfFile implements SizeQuery without ever using its leave to
\* return a partial sum.
THEOREM Refinement == Spec => ImplementsSizeQuery
<1>1. Init => Query!Init
  BY DEF Init, Query!Init, Threads, Nothing, Query!Nothing
<1>2. Accounting /\ Accounting' /\ [Next]_vars => [Query!Next]_(Query!queryVars)
  BY StepIsQueryStep
<1> QED BY <1>1, <1>2, AccountingInvariant, PTL DEF Spec, ImplementsSizeQuery, Query!Spec
=============================================================================
