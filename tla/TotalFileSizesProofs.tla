------------------------ MODULE TotalFileSizesProofs ------------------------
(***************************************************************************)
(* Proofs about the programs of TotalFileSizes, for every finite set of    *)
(* directories, every tree on it and every pool: breadth first, native and *)
(* fork/join, each of them implements SizeQuery.                           *)
(***************************************************************************)
EXTENDS TotalFileSizes, FiniteSetTheorems, SequenceTheorems, WellFoundedInduction, TLAPS

-----------------------------------------------------------------------------
(* The tree: what lies below a directory. *)

Closed(S) == \A d \in S : sub[d] \subseteq S

\* Every directory but the root lies in one, and what is reached from the root is
\* everything.
TreeInv ==
    /\ sub \in [Dir -> SUBSET Dir]
    /\ \A d, e \in Dir, c \in Dir : c \in sub[d] /\ c \in sub[e] => d = e
    /\ \A d \in Dir : Root \notin sub[d]
    /\ \A S \in SUBSET Dir : Root \in S /\ Closed(S) => S = Dir

\* The directories below and including d.
Below(d) == {e \in Dir : \A S \in SUBSET Dir : d \in S /\ Closed(S) => e \in S}

\* The sum in which every directory of S was added once.
Once(S) == [e \in Dir |-> IF e \in S THEN 1 ELSE 0]

LEMMA InitTree == Init => TreeInv
<1> SUFFICES ASSUME Init PROVE TreeInv
  OBVIOUS
<1>0. sub \in Bfs!Trees
  BY DEF Init, Bfs!Init
<1>1. PICK parent \in [Dir \ {Root} -> Dir] : sub = Bfs!SubDirs(parent)
  BY <1>0 DEF Bfs!Trees
<1>2. sub = [d \in Dir |-> {c \in Dir \ {Root} : parent[c] = d}]
  BY <1>1 DEF Bfs!SubDirs
<1>3. \A S \in SUBSET Dir : Root \in S /\ Closed(S) => S = Dir
  BY <1>0 DEF Bfs!Trees, Bfs!ClosedFromRoot, Closed
<1> QED BY <1>2, <1>3 DEF TreeInv

LEMMA BelowLeast ==
    ASSUME TreeInv, NEW d \in Dir
    PROVE  /\ d \in Below(d) /\ Below(d) \subseteq Dir /\ Closed(Below(d))
           /\ \A S \in SUBSET Dir : d \in S /\ Closed(S) => Below(d) \subseteq S
<1>1. ASSUME NEW x \in Below(d), NEW e \in sub[x] PROVE e \in Below(d)
  <2>1. x \in Dir /\ e \in Dir
    BY DEF Below, TreeInv
  <2>2. ASSUME NEW S \in SUBSET Dir, d \in S, Closed(S) PROVE e \in S
    <3>1. x \in S
      BY <2>2 DEF Below
    <3> QED BY <2>2, <3>1 DEF Closed
  <2> QED BY <2>1, <2>2 DEF Below
<1>2. Closed(Below(d))
  BY <1>1 DEF Closed
<1> QED BY <1>2 DEF Below

LEMMA BelowParent ==
    ASSUME TreeInv, NEW d \in Dir, NEW e \in Below(d), e # d
    PROVE  \E x \in Below(d) : e \in sub[x]
<1> SUFFICES ASSUME \A x \in Below(d) : e \notin sub[x] PROVE FALSE
  OBVIOUS
<1> DEFINE S == Below(d) \ {e}
<1>1. S \in SUBSET Dir /\ d \in S
  BY BelowLeast
<1>2. Closed(S)
  BY BelowLeast DEF Closed
<1>3. Below(d) \subseteq S
  BY <1>1, <1>2, BelowLeast
<1> QED BY <1>3

LEMMA NoCycle == ASSUME TreeInv, NEW d \in Dir, NEW c \in sub[d] PROVE d \notin Below(c) /\ c \in Dir
<1> SUFFICES ASSUME d \in Below(c) PROVE FALSE
  BY DEF TreeInv
<1>0. c \in Dir /\ c # Root
  BY DEF TreeInv
<1> DEFINE S == Dir \ Below(c)
<1>1. Root \notin Below(c)
  BY <1>0, BelowParent, BelowLeast DEF TreeInv
<1>2. ASSUME NEW x \in S, NEW y \in sub[x] PROVE y \in S
  <2> SUFFICES ASSUME y \in Below(c) PROVE FALSE
    BY DEF TreeInv
  <2>1. CASE y = c
    <3>1. x = d
      BY <2>1, <1>0 DEF TreeInv
    <3> QED BY <3>1
  <2>2. CASE y # c
    <3>1. PICK z \in Below(c) : y \in sub[z]
      BY <1>0, <2>2, BelowParent
    <3>2. z \in Dir /\ y \in Dir
      BY <1>0, <3>1, BelowLeast
    <3>3. z = x
      BY <3>1, <3>2 DEF TreeInv
    <3> QED BY <3>3
  <2> QED BY <2>1, <2>2
<1>3. S = Dir
  <2>1. Closed(S) /\ Root \in S
    BY <1>1, <1>2, TreeAssumption DEF Closed
  <2> QED BY <2>1 DEF TreeInv
<1> QED BY <1>0, <1>3, BelowLeast

LEMMA Siblings ==
    ASSUME TreeInv, NEW d \in Dir, NEW b \in sub[d], NEW c \in sub[d], b # c
    PROVE  Below(b) \cap Below(c) = {}
<1>0. b \in Dir /\ c \in Dir /\ d \notin Below(b) /\ d \notin Below(c)
  BY NoCycle
<1> DEFINE S == Below(b) \ Below(c)
<1>1. b \in S
  <2> SUFFICES ASSUME b \in Below(c) PROVE FALSE
    BY <1>0, BelowLeast
  <2>1. PICK x \in Below(c) : b \in sub[x]
    BY <1>0, BelowParent
  <2>2. x = d
    BY <1>0, <2>1, BelowLeast DEF TreeInv
  <2> QED BY <1>0, <2>2
<1>2. ASSUME NEW x \in S, NEW y \in sub[x] PROVE y \in S
  <2>1. y \in Below(b) /\ x \in Dir /\ y \in Dir
    BY <1>0, BelowLeast DEF Closed
  <2> SUFFICES ASSUME y \in Below(c) PROVE FALSE
    BY <2>1
  <2>2. CASE y = c
    <3>1. x = d
      BY <2>1, <2>2 DEF TreeInv
    <3> QED BY <1>0, <3>1
  <2>3. CASE y # c
    <3>1. PICK z \in Below(c) : y \in sub[z]
      BY <1>0, <2>3, BelowParent
    <3>2. z = x
      BY <1>0, <2>1, <3>1, BelowLeast DEF TreeInv
    <3> QED BY <3>2
  <2> QED BY <2>2, <2>3
<1>3. Below(b) \subseteq S
  <2>1. S \in SUBSET Dir /\ Closed(S)
    BY <1>0, <1>2, BelowLeast DEF Closed
  <2> QED BY <1>0, <1>1, <2>1, BelowLeast
<1> QED BY <1>3

\* What lies below a directory is itself and what lies below its subdirectories.
LEMMA BelowChildren ==
    ASSUME TreeInv, NEW d \in Dir
    PROVE  Below(d) = {d} \cup {e \in Dir : \E c \in sub[d] : e \in Below(c)}
<1> DEFINE S == {d} \cup {e \in Dir : \E c \in sub[d] : e \in Below(c)}
<1>0. sub[d] \subseteq Dir
  BY DEF TreeInv
<1>1. ASSUME NEW c \in sub[d] PROVE Below(c) \subseteq Below(d)
  <2>1. c \in Below(d)
    BY BelowLeast DEF Closed
  <2> QED BY <1>0, <2>1, BelowLeast
<1>2. ASSUME NEW x \in S, NEW y \in sub[x] PROVE y \in S
  <2>1. CASE x = d
    BY <1>0, <2>1, BelowLeast
  <2>2. CASE x # d
    <3>1. PICK c \in sub[d] : x \in Below(c)
      BY <2>2
    <3>2. y \in Below(c)
      BY <1>0, <3>1, BelowLeast DEF Closed
    <3> QED BY <1>0, <3>2, BelowLeast
  <2> QED BY <2>1, <2>2
<1>3. Below(d) \subseteq S
  <2>1. S \in SUBSET Dir /\ d \in S /\ Closed(S)
    BY <1>2 DEF Closed
  <2> QED BY <2>1, BelowLeast
<1> QED BY <1>1, <1>3, BelowLeast

LEMMA BelowTheRoot == ASSUME TreeInv PROVE Once(Below(Root)) = ExactSize
<1>1. Below(Root) = Dir
  BY TreeAssumption, BelowLeast DEF TreeInv
<1> QED BY <1>1 DEF Once, ExactSize

-----------------------------------------------------------------------------
(* Fork/join. *)

\* What a finished task returned counts each directory below its own once.
FjInv ==
    /\ fjTask \in [Dir -> {"none", "forked", "invoked", "joining", "done"}]
    /\ fjSize \in [Dir -> [Dir -> Nat]]
    /\ fjStack \in [Workers -> Seq(Dir)]
    /\ \A d \in Dir : fjTask[d] = "done" => fjSize[d] = Once(Below(d))
    /\ fjTotal \in {Fj!NoTotal, ExactSize}

\* One thread joins the sizes of the subdirectories: no directory lies in two.
LEMMA JoinedSize ==
    ASSUME TreeInv, NEW size \in [Dir -> [Dir -> Nat]], NEW d \in Dir,
           \A c \in sub[d] : size[c] = Once(Below(c))
    PROVE  Fj!Add([e \in Dir |-> Cardinality({c \in sub[d] : size[c][e] = 1})], d) = Once(Below(d))
<1> DEFINE C(e) == {c \in sub[d] : size[c][e] = 1}
<1>0. \A c \in sub[d] : c \in Dir /\ d \notin Below(c)
  BY NoCycle
<1>1. ASSUME NEW e \in Dir PROVE C(e) = {c \in sub[d] : e \in Below(c)}
  <2>1. \A c \in sub[d] : size[c][e] = IF e \in Below(c) THEN 1 ELSE 0
    BY DEF Once
  <2> QED BY <2>1
<1>2. ASSUME NEW e \in Dir, NEW c \in sub[d], e \in Below(c)
      PROVE  Cardinality(C(e)) = 1 /\ e \in Below(d) /\ e # d
  <2>1. C(e) = {c}
    BY <1>1, <1>2, Siblings
  <2>2. e \in Below(d)
    BY <1>2, BelowChildren
  <2>3. e # d
    BY <1>0, <1>2
  <2> QED BY <2>1, <2>2, <2>3, FS_Singleton
<1>3. ASSUME NEW e \in Dir, \A c \in sub[d] : e \notin Below(c)
      PROVE  Cardinality(C(e)) = 0 /\ (e \in Below(d) <=> e = d)
  <2>1. C(e) = {}
    BY <1>1, <1>3
  <2>2. e \in Below(d) <=> e = d
    BY <1>3, BelowChildren
  <2> QED BY <2>1, <2>2, FS_EmptySet
<1>4. Cardinality(C(d)) = 0 /\ d \in Below(d)
  BY <1>0, <1>3, BelowLeast
<1>5. ASSUME NEW e \in Dir, e # d PROVE Cardinality(C(e)) = IF e \in Below(d) THEN 1 ELSE 0
  BY <1>2, <1>3, <1>5
<1>6. Fj!Add([e \in Dir |-> Cardinality(C(e))], d)
        = [e \in Dir |-> IF e = d THEN Cardinality(C(d)) + 1 ELSE Cardinality(C(e))]
  BY DEF Fj!Add
<1>7. \A e \in Dir : (IF e = d THEN Cardinality(C(d)) + 1 ELSE Cardinality(C(e)))
                       = IF e \in Below(d) THEN 1 ELSE 0
  BY <1>4, <1>5
<1> HIDE DEF C
<1>8. Fj!Add([e \in Dir |-> Cardinality(C(e))], d) = Once(Below(d))
  BY <1>6, <1>7 DEF Once
<1> QED BY <1>8 DEF C

LEMMA InitFj == Init => FjInv
BY DEF Init, Fj!Init, FjInv, Fj!NoTotal, Fj!Nothing

LEMMA TopInDir == ASSUME NEW q \in Seq(Dir), q # <<>> PROVE q[Len(q)] \in Dir /\ SubSeq(q, 1, Len(q) - 1) \in Seq(Dir)
<1>1. Len(q) \in Nat \ {0}
  OBVIOUS
<1> QED BY <1>1, SubSeqProperties

LEMMA SameCardinality == \A S : Fj!Cardinality(S) = Cardinality(S) /\ Bfs!Cardinality(S) = Cardinality(S)
BY DEF Fj!Cardinality, Bfs!Cardinality, Cardinality

LEMMA FjNext == ASSUME TreeInv, FjInv, Fj!Next PROVE FjInv'
<1> USE DEF FjInv
<1>0. sub' = sub /\ \A d \in Dir : Below(d)' = Below(d)
  BY DEF Fj!Next, Fj!Run, Fj!InvokeAll, Fj!Finish, Fj!ReturnTotal, Below, Closed
<1>1. ASSUME NEW w \in Workers, NEW d \in Dir, Fj!Run(w, d) PROVE FjInv'
  <2>1. fjStack' \in [Workers -> Seq(Dir)]
    BY <1>1, AppendProperties DEF Fj!Run
  <2> QED BY <1>0, <1>1, <2>1 DEF Fj!Run, Once
<1>2. ASSUME NEW w \in Workers, NEW d \in Dir, Fj!InvokeAll(w, d) PROVE FjInv'
  <2>1. fjStack' \in [Workers -> Seq(Dir)]
    <3>1. fjStack' = [fjStack EXCEPT ![w] = Append(@, d)]
      BY <1>2 DEF Fj!InvokeAll
    <3>2. \A v \in Workers : Append(fjStack[v], d) \in Seq(Dir)
      BY AppendProperties
    <3> QED BY <3>1, <3>2
  <2>2. /\ fjTask' \in [Dir -> {"none", "forked", "invoked", "joining", "done"}]
        /\ \A e \in Dir : fjTask'[e] = "done" => fjTask[e] = "done"
    BY <1>2 DEF Fj!InvokeAll
  <2>3. UNCHANGED <<fjSize, fjTotal>>
    BY <1>2 DEF Fj!InvokeAll
  <2>4. \A e \in Dir : Once(Below(e))' = Once(Below(e))
    BY <1>0 DEF Once
  <2> QED BY <2>1, <2>2, <2>3, <2>4 DEF Fj!NoTotal
<1>3. ASSUME NEW w \in Workers, Fj!Finish(w) PROVE FjInv'
  <2> DEFINE d == Fj!Top(w)
  <2>1. d \in Dir /\ fjStack' \in [Workers -> Seq(Dir)]
    BY <1>3, TopInDir DEF Fj!Finish, Fj!Top
  <2>2. \A c \in sub[d] : fjTask[c] = "done"
    BY <1>3 DEF Fj!Finish, Fj!Joined
  <2>3. \A c \in sub[d] : fjSize[c] = Once(Below(c))
    BY <2>1, <2>2 DEF TreeInv
  <2>4. fjSize' = [fjSize EXCEPT ![d] = Once(Below(d))]
    <3>1. Fj!DirectSizeAnd(d, sub[d]) = Once(Below(d))
      <4> HIDE DEF d
      <4>1. Fj!Add([e \in Dir |-> Cardinality({c \in sub[d] : fjSize[c][e] = 1})], d) = Once(Below(d))
        BY <2>1, <2>3, JoinedSize
      <4> QED BY <4>1, SameCardinality DEF Fj!DirectSizeAnd
    <3>2. fjSize' = [fjSize EXCEPT ![d] = Fj!DirectSizeAnd(d, sub[d])]
      BY <1>3 DEF Fj!Finish
    <3> QED BY <3>1, <3>2
  <2>5. fjTask' = [fjTask EXCEPT ![d] = "done"] /\ UNCHANGED fjTotal
    BY <1>3 DEF Fj!Finish
  <2>6. Once(Below(d)) \in [Dir -> Nat]
    BY DEF Once
  <2> HIDE DEF d
  <2>7. \A e \in Dir : Once(Below(e))' = Once(Below(e))
    BY <1>0 DEF Once
  <2>8. \A e \in Dir : fjTask'[e] = "done" => fjSize'[e] = Once(Below(e))
    BY <2>1, <2>4, <2>5
  <2> QED BY <2>1, <2>4, <2>5, <2>6, <2>7, <2>8 DEF Fj!NoTotal
<1>4. CASE Fj!ReturnTotal
  <2>1. fjTotal' = ExactSize
    BY <1>4, TreeAssumption, BelowTheRoot DEF Fj!ReturnTotal
  <2> QED BY <1>0, <1>4, <2>1 DEF Fj!ReturnTotal, Once
<1> QED BY <1>1, <1>2, <1>3, <1>4 DEF Fj!Next

\* Only main's step is seen by the caller: it returns the exact size.
LEMMA FjQuery ==
    ASSUME TreeInv, FjInv, program = "ConcurrentForkjoin", program' = program, Fj!Next
    PROVE  [Query!Next]_(Query!queryVars)
<1> USE DEF Phase, Fj!Phase, Fj!Answer, Bfs!Phase, Native!Phase, Query!queryVars
<1>1. CASE Fj!ReturnTotal
  <2>1. fjTotal = Fj!NoTotal /\ fjTotal' = ExactSize
    BY <1>1, TreeAssumption, BelowTheRoot DEF Fj!ReturnTotal, FjInv
  <2>2. ExactSize # Fj!NoTotal
    BY TreeAssumption DEF Fj!NoTotal, ExactSize
  <2> QED BY <2>1, <2>2 DEF Query!Next, Query!Answer, Query!ExactSize, ExactSize
<1>2. CASE UNCHANGED fjTotal
  BY <1>2
<1> QED BY <1>1, <1>2 DEF Fj!Next, Fj!Run, Fj!InvokeAll, Fj!Finish

-----------------------------------------------------------------------------
(* The native version. *)

Active(t) == pc[t] \in {"submit", "get"}
Waited(t) == {futures[t][i] : i \in 1 .. Len(futures[t])}
Distinct(q) == \A i, j \in 1 .. Len(q) : q[i] = q[j] => i = j

\* The children whose value thread t has added, and what its sum counts.
Collected(t) == sub[file[t]] \ (rest[t] \cup Waited(t))
Counted(t) == {file[t]} \cup {e \in Dir : \E c \in Collected(t) : e \in Below(c)}

NativeType ==
    /\ runState \in {"running", "shutdown"}
    /\ future \in [Dir -> {"none", "queued", "running", "done", "failed"}]
    /\ value \in [Dir -> [Dir -> Nat]]
    /\ pc \in [Native!Threads -> {"start", "idle", "submit", "get", "finally", "done"}]
    /\ file \in [Native!Threads -> Dir]
    /\ rest \in [Native!Threads -> SUBSET Dir]
    /\ futures \in [Native!Threads -> Seq(Dir)]
    /\ total \in [Native!Threads -> [Dir -> Nat]]
    /\ outcome \in {"none", "returned", "exception"}
    /\ timedOut \in BOOLEAN

\* One thread runs the task of a file, main the root, which has no task; children are
\* submitted by the one that runs their parent.
Places ==
    /\ future[Root] = "none"
    /\ \A t \in Native!Threads : Active(t) => IF t = Main THEN file[t] = Root ELSE future[file[t]] = "running"
    /\ \A t, u \in Native!Threads : Active(t) /\ Active(u) /\ file[t] = file[u] => t = u
    /\ pc[Main] # "idle" /\ \A t \in Native!Threads \ {Main} : pc[t] \in {"idle", "submit", "get"}
    /\ pc[Main] = "start" => \A d \in Dir : future[d] = "none"
    /\ \A d \in Dir \ {Root} : future[d] \in {"none", "queued"} => \A c \in sub[d] : future[c] = "none"

\* A child is not submitted, waited for, or done and collected, and the sum counts
\* what lies below those that are collected.
Work(t) ==
    Active(t) =>
        /\ rest[t] \subseteq sub[file[t]] /\ Waited(t) \subseteq sub[file[t]]
        /\ rest[t] \cap Waited(t) = {}
        /\ Distinct(futures[t])
        /\ pc[t] = "get" => rest[t] = {}
        /\ \A c \in rest[t] : future[c] = "none"
        /\ \A c \in Collected(t) : future[c] = "done"
        /\ total[t] = Once(Counted(t))

Values ==
    \A d \in Dir : future[d] = "done" =>
        value[d] = Once(Below(d)) /\ \A c \in sub[d] : future[c] = "done"

\* Without a time-out there is no exception, and main returns the exact size.
Ends ==
    /\ runState = "shutdown" <=> pc[Main] = "done"
    /\ outcome = "none" <=> pc[Main] \in {"start", "submit", "get"}
    /\ (\E d \in Dir : future[d] = "failed") \/ outcome = "exception" => timedOut
    /\ outcome = "returned" => total[Main] = ExactSize /\ \A c \in sub[Root] : future[c] = "done"

NativeInv == NativeType /\ Places /\ (\A t \in Native!Threads : Work(t)) /\ Values /\ Ends

LEMMA EnterWork ==
    ASSUME TreeInv, NativeType, NEW t \in Native!Threads, NEW d \in Dir, Native!Enter(t, d), UNCHANGED sub,
           \A c \in sub[d] : future'[c] = "none"
    PROVE  /\ Work(t)'
           /\ pc' \in [Native!Threads -> {"start", "idle", "submit", "get", "finally", "done"}]
           /\ file' \in [Native!Threads -> Dir]
           /\ rest' \in [Native!Threads -> SUBSET Dir]
           /\ futures' \in [Native!Threads -> Seq(Dir)]
           /\ total' \in [Native!Threads -> [Dir -> Nat]]
<1> DEFINE one == Native!Add(Native!Nothing, d)
<1>1. one = [e \in Dir |-> IF e = d THEN 1 ELSE 0]
  BY DEF Native!Add, Native!Nothing
<1>2. one \in [Dir -> Nat] /\ sub[d] \in SUBSET Dir /\ <<>> \in Seq(Dir)
  BY <1>1 DEF TreeInv
<1>3. /\ pc' = [pc EXCEPT ![t] = "submit"] /\ file' = [file EXCEPT ![t] = d]
      /\ rest' = [rest EXCEPT ![t] = sub[d]] /\ futures' = [futures EXCEPT ![t] = <<>>]
      /\ total' = [total EXCEPT ![t] = one]
  BY DEF Native!Enter
<1> HIDE DEF one
<1>4. pc'[t] = "submit" /\ file'[t] = d /\ rest'[t] = sub[d] /\ futures'[t] = <<>> /\ total'[t] = one
  BY <1>3 DEF NativeType
<1>5. Waited(t)' = {} /\ Distinct(futures[t])' /\ Collected(t)' = {}
  BY <1>4 DEF Waited, Distinct, Collected
<1>6. Counted(t)' = {d}
  BY <1>4, <1>5 DEF Counted
<1>7. total'[t] = Once(Counted(t))'
  BY <1>1, <1>4, <1>6 DEF Once
<1>8. Work(t)'
  BY <1>4, <1>5, <1>7 DEF Work
<1> QED BY <1>2, <1>3, <1>8 DEF NativeType

\* What other threads do leaves the work of u alone.
LEMMA OtherWork ==
    ASSUME NativeType, NEW u \in Native!Threads, Work(u),
           UNCHANGED <<sub, pc[u], file[u], rest[u], futures[u], total[u]>>,
           \A c \in Dir : future[c] = "done" => future'[c] = "done",
           Active(u) => \A c \in rest[u] : future'[c] = "none",
           TreeInv
    PROVE  Work(u)'
<1>1. /\ Active(u)' <=> Active(u)
      /\ Waited(u)' = Waited(u) /\ Distinct(futures[u])' = Distinct(futures[u]) /\ Collected(u)' = Collected(u)
  BY DEF Active, Waited, Distinct, Collected
<1>2. Once(Counted(u))' = Once(Counted(u))
  BY <1>1 DEF Counted, Below, Closed, Once
<1>3. Collected(u) \subseteq Dir
  BY DEF Collected, TreeInv, NativeType
<1> QED BY <1>1, <1>2, <1>3 DEF Work

LEMMA InitNative == ASSUME Init PROVE NativeInv
<1> USE DEF Native!Init, Native!Nothing
<1>0. Native!Init /\ TreeInv
  BY InitTree DEF Init
<1>1. NativeType
  <2>1. <<>> \in Seq(Dir) /\ Nothing \in [Dir -> Nat]
    BY DEF Nothing
  <2>2. /\ futures \in [Native!Threads -> Seq(Dir)]
        /\ total \in [Native!Threads -> [Dir -> Nat]] /\ value \in [Dir -> [Dir -> Nat]]
    BY <1>0, <2>1 DEF Nothing
  <2>3. /\ pc \in [Native!Threads -> {"start", "idle", "submit", "get", "finally", "done"}]
        /\ file \in [Native!Threads -> Dir] /\ rest \in [Native!Threads -> SUBSET Dir]
    BY <1>0, TreeAssumption
  <2> QED BY <1>0, <2>2, <2>3 DEF NativeType
<1>2. Places
  BY <1>0, TreeAssumption DEF Places, Active, Native!Threads, TreeInv
<1>3. ASSUME NEW t \in Native!Threads PROVE Work(t)
  BY <1>0 DEF Work, Active
<1> QED BY <1>0, <1>1, <1>2, <1>3, TreeAssumption DEF NativeInv, Values, Ends, Native!Threads

\* Once main has returned, every task is done and no thread works.
LEMMA AllQuiet ==
    ASSUME TreeInv, NativeInv, outcome = "returned"
    PROVE  /\ \A d \in Dir \ {Root} : future[d] = "done"
           /\ \A t \in Native!Threads : ~ Active(t)
<1> DEFINE S == {Root} \cup {d \in Dir : future[d] = "done"}
<1>1. ASSUME NEW x \in S, NEW c \in sub[x] PROVE c \in S
  BY <1>1, TreeAssumption DEF TreeInv, NativeInv, Values, Ends
<1>2. S = Dir
  <2>1. S \in SUBSET Dir /\ Closed(S)
    BY <1>1, TreeAssumption DEF Closed
  <2> QED BY <2>1 DEF TreeInv
<1>3. \A d \in Dir \ {Root} : future[d] = "done"
  BY <1>2
<1>4. ASSUME NEW t \in Native!Threads, Active(t) PROVE FALSE
  BY <1>3, <1>4 DEF NativeInv, NativeType, Places, Ends, Active
<1> QED BY <1>3, <1>4

LEMMA NativeStarts ==
    ASSUME TreeInv, NativeInv,
           Native!Begin \/ \E w \in Workers, d \in Dir : Native!Take(w, d)
    PROVE  NativeInv'
<1> USE DEF NativeInv
<1>0. Main \in Native!Threads /\ Workers \subseteq Native!Threads
  BY DEF Native!Threads
<1>1. CASE Native!Begin
  <2>1. Native!Enter(Main, Root) /\ pc[Main] = "start" /\ UNCHANGED <<sub, runState, future, value, outcome, timedOut>>
    BY <1>1 DEF Native!Begin
  <2>2. \A c \in Dir : future[c] = "none"
    BY <2>1 DEF Places
  <2>3. \A c \in sub[Root] : future'[c] = "none"
    BY <2>1, <2>2, TreeAssumption DEF TreeInv
  <2>4. /\ pc' = [pc EXCEPT ![Main] = "submit"] /\ file' = [file EXCEPT ![Main] = Root]
        /\ \A u \in Native!Threads \ {Main} : UNCHANGED <<pc[u], file[u], rest[u], futures[u], total[u]>>
    BY <1>0, <2>1 DEF Native!Enter, NativeType
  <2>5. NativeType' /\ Work(Main)'
    BY <1>0, <2>1, <2>3, EnterWork, TreeAssumption DEF NativeType
  <2>6. \A u \in Native!Threads \ {Main} : ~ Active(u)
    BY <2>2 DEF Places, NativeType
  <2>7. \A u \in Native!Threads \ {Main} : ~ Active(u)' /\ Work(u)'
    BY <2>4, <2>6 DEF Active, Work
  <2>8. Places'
    <3>1. pc'[Main] = "submit" /\ file'[Main] = Root /\ \A u \in Native!Threads \ {Main} : pc'[u] = pc[u]
      BY <1>0, <2>4 DEF NativeType
    <3>2. \A u \in Native!Threads : Active(u)' => u = Main
      BY <2>7
    <3>3. \A d \in Dir : future'[d] = "none"
      BY <2>1, <2>2
    <3>4. \A d \in Dir : sub'[d] \subseteq Dir
      BY <2>1 DEF TreeInv
    <3> QED BY <3>1, <3>2, <3>3, <3>4, TreeAssumption DEF Places
  <2>9. Values'
    BY <2>1, <2>2 DEF Values
  <2>10. Ends'
    BY <1>0, <2>1, <2>4 DEF Ends, NativeType
  <2> QED BY <2>5, <2>7, <2>8, <2>9, <2>10
<1>2. ASSUME NEW w \in Workers, NEW d \in Dir, Native!Take(w, d) PROVE NativeInv'
  <2>1. /\ pc[w] = "idle" /\ future[d] = "queued" /\ future' = [future EXCEPT ![d] = "running"]
        /\ Native!Enter(w, d) /\ UNCHANGED <<sub, runState, value, outcome, timedOut>>
    BY <1>2 DEF Native!Take
  <2>2. w # Main /\ d # Root /\ w \in Native!Threads
    BY <1>0, <2>1 DEF Places
  <2>3. \A c \in sub[d] : future[c] = "none"
    BY <2>1, <2>2 DEF Places
  <2>3a. \A c \in sub[d] : future'[c] = "none"
    BY <2>1, <2>3 DEF TreeInv, NativeType
  <2>4. /\ pc' = [pc EXCEPT ![w] = "submit"] /\ file' = [file EXCEPT ![w] = d]
        /\ total' = [total EXCEPT ![w] = Native!Add(Native!Nothing, d)]
        /\ \A u \in Native!Threads \ {w} : UNCHANGED <<pc[u], file[u], rest[u], futures[u], total[u]>>
    BY <2>1, <2>2 DEF Native!Enter, NativeType
  <2>5. NativeType' /\ Work(w)'
    BY <2>1, <2>2, <2>3a, EnterWork DEF NativeType
  <2>6. \A c \in Dir : (future[c] \in {"done", "none", "failed"} \/ future'[c] \in {"done", "none", "failed", "queued"})
                         => future'[c] = future[c]
    BY <2>1 DEF NativeType
  <2>7. ASSUME NEW u \in Native!Threads \ {w} PROVE Work(u)'
    <3>1. Active(u) => \A c \in rest[u] : c \in Dir /\ future[c] = "none"
      BY DEF Work, NativeType
    <3> QED BY <2>1, <2>4, <2>6, <3>1, OtherWork
  <2>8. Places'
    <3>1. \A u \in Native!Threads : Active(u) /\ u # w => file[u] # d
      BY <2>1, <2>2 DEF Places
    <3>2. \A u \in Native!Threads \ {w} : Active(u)' <=> Active(u)
      BY <2>4 DEF Active
    <3>a. file'[w] = d /\ future'[d] = "running" /\ \A u \in Native!Threads \ {w} : file'[u] = file[u] /\ file[u] \in Dir
      BY <2>1, <2>2, <2>4 DEF NativeType
    <3>b. \A t \in Native!Threads : Active(t)' => IF t = Main THEN file'[t] = Root ELSE future'[file'[t]] = "running"
      <4> SUFFICES ASSUME NEW t \in Native!Threads, Active(t)'
                   PROVE  IF t = Main THEN file'[t] = Root ELSE future'[file'[t]] = "running"
        OBVIOUS
      <4>1. CASE t = w
        BY <2>2, <3>a, <4>1
      <4>2. CASE t # w
        <5>1. file'[t] = file[t] /\ file[t] # d /\ file[t] \in Dir /\ Active(t)
          BY <3>1, <3>2, <3>a, <4>2
        <5>2. future'[file[t]] = future[file[t]]
          BY <2>1, <5>1 DEF NativeType
        <5> QED BY <5>1, <5>2 DEF Places
      <4> QED BY <4>1, <4>2
    <3>c. \A t, u \in Native!Threads : Active(t)' /\ Active(u)' /\ file'[t] = file'[u] => t = u
      BY <3>1, <3>2, <3>a DEF Places
    <3>3. /\ \A t \in Native!Threads : Active(t)' => IF t = Main THEN file'[t] = Root ELSE future'[file'[t]] = "running"
          /\ \A t, u \in Native!Threads : Active(t)' /\ Active(u)' /\ file'[t] = file'[u] => t = u
      BY <3>b, <3>c
    <3>4. \A e \in Dir \ {Root} : future'[e] \in {"none", "queued"} => \A c \in sub[e] : future'[c] = "none"
      BY <2>6 DEF Places, TreeInv
    <3>5. pc'[Main] = pc[Main] /\ \A t \in Native!Threads \ {Main} : pc'[t] \in {"idle", "submit", "get"}
      BY <1>0, <2>2, <2>4 DEF Places, NativeType
    <3>6. future'[Root] = "none" /\ pc[Main] # "start"
      BY <2>1, <2>2, TreeAssumption DEF Places, NativeType
    <3> QED BY <2>1, <3>3, <3>4, <3>5, <3>6 DEF Places
  <2>9. Values'
    <3>1. \A e \in Dir : Once(Below(e))' = Once(Below(e))
      BY <2>1 DEF Once, Below, Closed
    <3>2. \A e \in Dir : sub[e] \subseteq Dir
      BY DEF TreeInv
    <3> QED BY <2>1, <2>6, <3>1, <3>2 DEF Values
  <2>10. Ends'
    <3>1. sub[Root] \subseteq Dir
      BY TreeAssumption DEF TreeInv
    <3>2. pc'[Main] = pc[Main] /\ total'[Main] = total[Main]
      BY <1>0, <2>2, <2>4
    <3> QED BY <2>1, <2>6, <3>1, <3>2 DEF Ends
  <2> QED BY <2>5, <2>7, <2>8, <2>9, <2>10
<1> QED BY <1>1, <1>2

LEMMA AppendElements ==
    ASSUME NEW q \in Seq(Dir), NEW c \in Dir, Distinct(q), c \notin {q[i] : i \in 1 .. Len(q)}
    PROVE  LET p == Append(q, c)
           IN  /\ p \in Seq(Dir) /\ Distinct(p)
               /\ {p[i] : i \in 1 .. Len(p)} = {q[i] : i \in 1 .. Len(q)} \cup {c}
<1> DEFINE p == Append(q, c)
<1>1. /\ p \in Seq(Dir) /\ Len(p) = Len(q) + 1 /\ Len(q) \in Nat
      /\ \A i \in 1 .. Len(q) : p[i] = q[i]
      /\ p[Len(q) + 1] = c
  BY AppendProperties
<1> HIDE DEF p
<1>2. Distinct(p)
  BY <1>1 DEF Distinct
<1>3. {p[i] : i \in 1 .. Len(p)} = {q[i] : i \in 1 .. Len(q)} \cup {c}
  BY <1>1
<1> QED BY <1>1, <1>2, <1>3 DEF p

LEMMA TailElements ==
    ASSUME NEW q \in Seq(Dir), q # <<>>, Distinct(q)
    PROVE  /\ Tail(q) \in Seq(Dir) /\ Distinct(Tail(q)) /\ Head(q) \in {q[i] : i \in 1 .. Len(q)}
           /\ {Tail(q)[i] : i \in 1 .. Len(Tail(q))} = {q[i] : i \in 1 .. Len(q)} \ {Head(q)}
<1>1. /\ Tail(q) \in Seq(Dir) /\ Len(Tail(q)) = Len(q) - 1 /\ Len(q) \in Nat \ {0}
      /\ \A i \in 1 .. Len(Tail(q)) : Tail(q)[i] = q[i + 1]
      /\ Head(q) = q[1]
  BY HeadTailProperties
<1>2. Distinct(Tail(q))
  BY <1>1 DEF Distinct
<1> DEFINE P == {Tail(q)[i] : i \in 1 .. Len(Tail(q))}
           Q == {q[i] : i \in 1 .. Len(q)} \ {Head(q)}
<1>3. \A x : x \in P => x \in Q
  <2>1. \A i \in 1 .. Len(Tail(q)) : i + 1 \in 1 .. Len(q) /\ Tail(q)[i] = q[i + 1] /\ q[i + 1] # q[1]
    BY <1>1 DEF Distinct
  <2> QED BY <1>1, <2>1
<1>4. \A x : x \in Q => x \in P
  <2> SUFFICES ASSUME NEW i \in 1 .. Len(q), q[i] # q[1] PROVE q[i] \in P
    BY <1>1
  <2>1. i - 1 \in 1 .. Len(Tail(q)) /\ Tail(q)[i - 1] = q[i]
    <3>1. i # 1 /\ i \in Nat /\ i <= Len(q)
      BY <1>1
    <3>2. i - 1 \in 1 .. Len(Tail(q)) /\ (i - 1) + 1 = i
      BY <1>1, <3>1
    <3> QED BY <1>1, <3>2
  <2> QED BY <2>1
<1>5. P = Q
  <2> HIDE DEF P, Q
  <2> QED BY <1>3, <1>4
<1>6. Head(q) \in {q[i] : i \in 1 .. Len(q)}
  BY <1>1
<1> QED BY <1>1, <1>2, <1>5, <1>6

\* Steps of threads that are in a task, or leave it.
LEMMA PlacesKept ==
    ASSUME TreeInv, NativeType, Places, UNCHANGED <<sub, file>>,
           \A t \in Native!Threads : Active(t)' => Active(t),
           \A t \in Native!Threads \ {Main} : Active(t)' => future'[file[t]] = future[file[t]],
           pc'[Main] \notin {"idle", "start"},
           \A t \in Native!Threads \ {Main} : pc'[t] \in {"idle", "submit", "get"},
           future'[Root] = "none",
           \A d \in Dir \ {Root} : future'[d] \in {"none", "queued"} =>
               future[d] \in {"none", "queued"} /\ \A c \in sub[d] : future[c] = "none" => future'[c] = "none"
    PROVE  Places'
<1>1. \A t \in Native!Threads : Active(t)' => IF t = Main THEN file'[t] = Root ELSE future'[file'[t]] = "running"
  BY DEF Places
<1>2. \A t, u \in Native!Threads : Active(t)' /\ Active(u)' /\ file'[t] = file'[u] => t = u
  BY DEF Places
<1>3. \A d \in Dir \ {Root} : future'[d] \in {"none", "queued"} => \A c \in sub'[d] : future'[c] = "none"
  BY DEF Places
<1> QED BY <1>1, <1>2, <1>3 DEF Places

LEMMA SubmitKeeps ==
    ASSUME TreeInv, NativeInv, NEW t \in Native!Threads, NEW c \in Dir, Native!Submit(t, c)
    PROVE  NativeInv'
<1> USE DEF NativeInv
<1>1. /\ pc[t] = "submit" /\ c \in rest[t] /\ future' = [future EXCEPT ![c] = "queued"]
      /\ futures' = [futures EXCEPT ![t] = Append(@, c)] /\ rest' = [rest EXCEPT ![t] = @ \ {c}]
      /\ UNCHANGED <<sub, runState, value, pc, file, total, outcome, timedOut>>
  BY DEF Native!Submit
<1>2. Active(t) /\ c \in sub[file[t]] /\ future[c] = "none" /\ c \notin Waited(t) /\ Distinct(futures[t])
  BY <1>1 DEF Active, Work
<1>3. file[t] \in Dir /\ c # Root /\ futures[t] \in Seq(Dir)
  BY <1>2 DEF NativeType, TreeInv
<1>4. \A e \in Dir : future'[e] = IF e = c THEN "queued" ELSE future[e]
  BY <1>1 DEF NativeType
<1>5. Append(futures[t], c) \in Seq(Dir) /\ Waited(t)' = Waited(t) \cup {c} /\ Distinct(futures[t])'
  <2>1. futures'[t] = Append(futures[t], c)
    BY <1>1 DEF NativeType
  <2> QED BY <1>2, <1>3, <2>1, AppendElements DEF Waited
<1>6. NativeType'
  BY <1>1, <1>5 DEF NativeType
<1>7. Work(t)'
  <2>1. rest'[t] = rest[t] \ {c} /\ file'[t] = file[t] /\ pc'[t] = "submit" /\ total'[t] = total[t] /\ rest[t] \subseteq Dir
    BY <1>1 DEF NativeType
  <2>2. Collected(t)' = Collected(t) /\ Collected(t) \subseteq Dir
    BY <1>1, <1>3, <1>5, <2>1 DEF Collected, TreeInv
  <2>3. Once(Counted(t))' = Once(Counted(t))
    BY <1>1, <2>1, <2>2 DEF Counted, Once, Below, Closed
  <2>4. \A e \in Collected(t) : future'[e] = "done"
    BY <1>2, <1>4, <2>2 DEF Work
  <2>5. \A e \in rest'[t] : future'[e] = "none"
    BY <1>2, <1>4, <2>1 DEF Work
  <2> QED BY <1>1, <1>2, <1>5, <2>1, <2>2, <2>3, <2>4, <2>5 DEF Work
<1>8. ASSUME NEW u \in Native!Threads \ {t} PROVE Work(u)'
  <2>1. UNCHANGED <<sub, pc[u], file[u], rest[u], futures[u], total[u]>>
    BY <1>1 DEF NativeType
  <2>2. ASSUME Active(u) PROVE c \notin rest[u]
    <3> SUFFICES ASSUME c \in rest[u] PROVE FALSE
      OBVIOUS
    <3>1. c \in sub[file[u]] /\ file[u] \in Dir
      BY <2>2 DEF Work, NativeType
    <3>2. file[u] = file[t]
      BY <1>2, <1>3, <3>1 DEF TreeInv
    <3> QED BY <1>2, <2>2, <3>2 DEF Places
  <2>3. Active(u) => \A e \in rest[u] : future'[e] = "none"
    <3>1. ASSUME Active(u), NEW e \in rest[u] PROVE future'[e] = "none"
      <4>1. e \in Dir
        BY DEF NativeType
      <4>2. future[e] = "none" /\ e # c
        BY <2>2, <3>1 DEF Work
      <4> QED BY <1>4, <4>1, <4>2
    <3> QED BY <3>1
  <2>4. \A e \in Dir : future[e] = "done" => future'[e] = "done"
    BY <1>2, <1>4
  <2> QED BY <2>1, <2>3, <2>4, OtherWork
<1>9. Places'
  <2>1. ASSUME NEW d \in Dir \ {Root}, future'[d] \in {"none", "queued"}
        PROVE  future[d] \in {"none", "queued"} /\ \A e \in sub[d] : future[e] = "none" => future'[e] = "none"
    <3>1. future[d] \in {"none", "queued"}
      BY <1>2, <1>4, <2>1
    <3>2. d # file[t]
      BY <1>2, <3>1 DEF Places
    <3>3. c \notin sub[d]
      BY <1>2, <1>3, <3>2 DEF TreeInv
    <3> QED BY <1>4, <3>1, <3>3 DEF TreeInv
  <2>2. \A u \in Native!Threads \ {Main} : Active(u) => file[u] # c /\ file[u] \in Dir
    BY <1>2 DEF Places, NativeType
  <2>3. pc[Main] \notin {"idle", "start"}
    <3>1. CASE t = Main
      BY <1>1, <3>1
    <3>2. CASE t # Main
      <4>1. future[file[t]] # "none"
        BY <1>2, <3>2 DEF Places
      <4> QED BY <1>3, <4>1 DEF Places
    <3> QED BY <3>1, <3>2
  <2>4. \A u \in Native!Threads : Active(u)' <=> Active(u)
    BY <1>1 DEF Active
  <2>5. future'[Root] = "none" /\ \A u \in Native!Threads \ {Main} : pc'[u] \in {"idle", "submit", "get"}
    BY <1>1, <1>3, <1>4, TreeAssumption DEF Places
  <2> QED BY <1>1, <1>4, <2>1, <2>2, <2>3, <2>4, <2>5, PlacesKept
<1>10. Values'
  <2>1. \A e \in Dir : Once(Below(e))' = Once(Below(e))
    BY <1>1 DEF Once, Below, Closed
  <2>2. \A e \in Dir : sub[e] \subseteq Dir
    BY DEF TreeInv
  <2> QED BY <1>1, <1>2, <1>4, <2>1, <2>2 DEF Values
<1>11. Ends'
  <2>1. sub[Root] \subseteq Dir
    BY TreeAssumption DEF TreeInv
  <2> QED BY <1>1, <1>2, <1>4, <2>1 DEF Ends
<1> QED BY <1>6, <1>7, <1>8, <1>9, <1>10, <1>11

\* An exception leaves a task or main's call, never without a time-out.
LEMMA ThrowKeeps ==
    ASSUME TreeInv, NativeInv, NEW t \in Native!Threads, Active(t), Native!Throw(t), timedOut' = TRUE,
           UNCHANGED <<sub, runState, value, file, rest, futures, total>>
    PROVE  NativeInv'
<1> USE DEF NativeInv
<1>0. Main \in Native!Threads /\ outcome # "returned"
  BY AllQuiet DEF Native!Threads
<1>1. ASSUME NEW u \in Native!Threads \ {t}, \A e \in Dir : future[e] \in {"done", "none"} => future'[e] = future[e],
             pc' = [pc EXCEPT ![t] = pc'[t]]
      PROVE  Work(u)'
  <2>1. Active(u) => \A e \in rest[u] : future'[e] = "none"
    BY <1>1 DEF Work, NativeType
  <2>2. pc'[u] = pc[u]
    BY <1>1 DEF NativeType
  <2> QED BY <1>1, <2>1, <2>2, OtherWork
<1>2. CASE t = Main
  <2>1. pc' = [pc EXCEPT ![Main] = "finally"] /\ outcome' = "exception" /\ UNCHANGED future
    BY <1>2 DEF Native!Throw
  <2>2. NativeType'
    BY <2>1 DEF NativeType
  <2>3. pc'[Main] = "finally" /\ \A u \in Native!Threads \ {Main} : pc'[u] = pc[u]
    BY <1>0, <2>1 DEF NativeType
  <2>4. \A u \in Native!Threads : Work(u)'
    <3>1. Work(t)'
      BY <1>2, <2>3 DEF Work, Active
    <3> QED BY <1>1, <1>2, <2>1, <2>3, <3>1
  <2>5. Places'
    BY <2>1, <2>3, PlacesKept DEF Places, Active
  <2>6. Values'
    BY <2>1 DEF Values, Once, Below, Closed
  <2>7. Ends'
    BY <1>2, <2>1, <2>3 DEF Ends, Active
  <2> QED BY <2>2, <2>4, <2>5, <2>6, <2>7
<1>3. CASE t # Main
  <2>1. pc' = [pc EXCEPT ![t] = "idle"] /\ future' = [future EXCEPT ![file[t]] = "failed"] /\ UNCHANGED outcome
    BY <1>3 DEF Native!Throw
  <2>2. file[t] \in Dir /\ future[file[t]] = "running"
    BY <1>3 DEF Places, NativeType
  <2>3. \A e \in Dir : future'[e] = IF e = file[t] THEN "failed" ELSE future[e]
    BY <2>1 DEF NativeType
  <2>4. pc'[t] = "idle" /\ \A u \in Native!Threads \ {t} : pc'[u] = pc[u]
    BY <2>1 DEF NativeType
  <2>5. NativeType'
    BY <2>1 DEF NativeType
  <2>6. \A u \in Native!Threads : Work(u)'
    <3>1. Work(t)'
      BY <2>4 DEF Work, Active
    <3> QED BY <1>1, <2>1, <2>2, <2>3, <2>4, <3>1
  <2>7. Places'
    <3>1. \A u \in Native!Threads : Active(u)' => Active(u) /\ u # t /\ file[u] # file[t] /\ file[u] \in Dir
      <4>1. \A u \in Native!Threads : Active(u)' => Active(u) /\ u # t
        BY <2>4 DEF Active
      <4>2. \A u \in Native!Threads : Active(u) /\ file[u] = file[t] => u = t
        BY DEF Places
      <4> QED BY <4>1, <4>2 DEF NativeType
    <3>2. \A u \in Native!Threads \ {Main} : Active(u)' => future'[file[u]] = future[file[u]]
      BY <2>3, <3>1
    <3>3. pc[Main] # "start" /\ future'[Root] = "none"
      BY <2>2, <2>3, TreeAssumption DEF Places
    <3>4. \A d \in Dir \ {Root} : future'[d] \in {"none", "queued"} =>
               future[d] \in {"none", "queued"} /\ \A c \in sub[d] : future[c] = "none" => future'[c] = "none"
      BY <2>2, <2>3 DEF TreeInv
    <3>5. pc'[Main] \notin {"idle", "start"} /\ \A u \in Native!Threads \ {Main} : pc'[u] \in {"idle", "submit", "get"}
      BY <1>0, <1>3, <2>4, <3>3 DEF Places
    <3> QED BY <3>1, <3>2, <3>3, <3>4, <3>5, PlacesKept
  <2>8. Values'
    <3>1. \A e \in Dir : Once(Below(e))' = Once(Below(e)) /\ sub[e] \subseteq Dir
      BY DEF Once, Below, Closed, TreeInv
    <3> QED BY <2>2, <2>3, <3>1 DEF Values
  <2>9. Ends'
    BY <1>0, <1>3, <2>1, <2>4 DEF Ends
  <2> QED BY <2>5, <2>6, <2>7, <2>8, <2>9
<1> QED BY <1>2, <1>3

\* Steps of t that change no future keep what is said of the others and the futures.
LEMMA SameFutures ==
    ASSUME TreeInv, NativeInv, NEW t \in Native!Threads, Active(t), pc'[t] \notin {"idle", "start"},
           pc' = [pc EXCEPT ![t] = pc'[t]], UNCHANGED <<sub, future, value, file>>,
           t = Main \/ pc'[t] = "get",
           rest' = [rest EXCEPT ![t] = rest'[t]], futures' = [futures EXCEPT ![t] = futures'[t]],
           total' = [total EXCEPT ![t] = total'[t]]
    PROVE  /\ Places' /\ Values'
           /\ \A u \in Native!Threads \ {t} : Work(u)'
<1> USE DEF NativeInv
<1>0. Main \in Native!Threads
  BY DEF Native!Threads
<1>1. \A u \in Native!Threads \ {t} : UNCHANGED <<pc[u], rest[u], futures[u], total[u]>>
  BY DEF NativeType
<1>2. \A u \in Native!Threads \ {t} : Work(u)'
  <2>1. \A u \in Native!Threads : Active(u) => \A e \in rest[u] : future[e] = "none"
    BY DEF Work
  <2> QED BY <1>1, <2>1, OtherWork
<1>3. Values'
  BY DEF Values, Once, Below, Closed
<1>4. pc[Main] # "start"
  <2>1. CASE t = Main
    BY <2>1 DEF Active
  <2>2. CASE t # Main
    BY <2>2 DEF Places, NativeType
  <2> QED BY <2>1, <2>2
<1>5. /\ \A u \in Native!Threads : Active(u)' => Active(u)
      /\ pc'[Main] \notin {"idle", "start"}
      /\ \A u \in Native!Threads \ {Main} : pc'[u] \in {"idle", "submit", "get"}
  BY <1>0, <1>1, <1>4 DEF Active, Places
<1>6. Places'
  BY <1>5, PlacesKept DEF Places
<1> QED BY <1>2, <1>3, <1>6

\* The sum over disjoint sets.
LEMMA PlusOnce ==
    ASSUME NEW S, NEW T, S \cap T = {}
    PROVE  Native!Plus(Once(S), Once(T)) = Once(S \cup T)
BY DEF Native!Plus, Once

LEMMA SubmitDoneKeeps ==
    ASSUME TreeInv, NativeInv, NEW t \in Native!Threads, Native!SubmitDone(t)
    PROVE  NativeInv'
<1> USE DEF NativeInv
<1>1. /\ pc[t] = "submit" /\ rest[t] = {} /\ pc' = [pc EXCEPT ![t] = "get"] /\ pc'[t] = "get"
      /\ UNCHANGED <<sub, runState, future, value, file, rest, futures, total, outcome, timedOut>>
  BY DEF Native!SubmitDone, NativeType
<1>2. NativeType'
  BY <1>1 DEF NativeType
<1>3. Active(t)
  BY <1>1 DEF Active
<1>4. Places' /\ Values' /\ \A u \in Native!Threads \ {t} : Work(u)'
  <2>1. /\ pc' = [pc EXCEPT ![t] = pc'[t]] /\ rest' = [rest EXCEPT ![t] = rest'[t]]
        /\ futures' = [futures EXCEPT ![t] = futures'[t]] /\ total' = [total EXCEPT ![t] = total'[t]]
    BY <1>1 DEF NativeType
  <2> QED BY <1>1, <1>3, <2>1, SameFutures
<1>5. Work(t)'
  <2>1. Waited(t)' = Waited(t) /\ Collected(t)' = Collected(t) /\ (Distinct(futures[t])' <=> Distinct(futures[t]))
    BY <1>1 DEF Waited, Collected, Distinct
  <2>2. Once(Counted(t))' = Once(Counted(t))
    BY <1>1, <2>1 DEF Counted, Once, Below, Closed
  <2>3. Collected(t) \subseteq Dir
    BY DEF Collected, NativeType, TreeInv
  <2> QED BY <1>1, <1>3, <2>1, <2>2, <2>3 DEF Work
<1>6. Ends'
  <2>1. pc'[Main] = pc[Main] \/ (pc[Main] = "submit" /\ pc'[Main] = "get")
    BY <1>1 DEF NativeType, Native!Threads
  <2> QED BY <1>1, <2>1 DEF Ends
<1> QED BY <1>2, <1>4, <1>5, <1>6

LEMMA GetKeeps ==
    ASSUME TreeInv, NativeInv, NEW t \in Native!Threads, Native!Get(t)
    PROVE  NativeInv'
<1> USE DEF NativeInv
<1> DEFINE h == Head(futures[t])
           f == file[t]
<1>1. /\ pc[t] = "get" /\ futures[t] # <<>> /\ future[h] = "done"
      /\ total' = [total EXCEPT ![t] = Native!Plus(total[t], value[h])]
      /\ futures' = [futures EXCEPT ![t] = Tail(futures[t])]
      /\ UNCHANGED <<sub, runState, future, value, pc, file, rest, outcome, timedOut>>
  BY DEF Native!Get
<1>2. Active(t) /\ rest[t] = {} /\ Distinct(futures[t]) /\ Waited(t) \subseteq sub[f] /\ total[t] = Once(Counted(t))
  BY <1>1 DEF Work, Active
<1>3. futures[t] \in Seq(Dir) /\ f \in Dir /\ sub[f] \subseteq Dir
  BY DEF NativeType, TreeInv
<1>4. Tail(futures[t]) \in Seq(Dir) /\ Distinct(futures[t])' /\ h \in Waited(t) /\ Waited(t)' = Waited(t) \ {h}
  <2>1. futures'[t] = Tail(futures[t])
    BY <1>1 DEF NativeType
  <2>2. /\ Tail(futures[t]) \in Seq(Dir) /\ Distinct(Tail(futures[t]))
        /\ h \in {futures[t][i] : i \in 1 .. Len(futures[t])}
        /\ {Tail(futures[t])[i] : i \in 1 .. Len(Tail(futures[t]))}
             = {futures[t][i] : i \in 1 .. Len(futures[t])} \ {h}
    BY <1>1, <1>2, <1>3, TailElements
  <2>3. Distinct(futures[t])'
    BY <2>1, <2>2 DEF Distinct
  <2>4. Waited(t)' = {Tail(futures[t])[i] : i \in 1 .. Len(Tail(futures[t]))}
    BY <2>1 DEF Waited
  <2> QED BY <2>2, <2>3, <2>4 DEF Waited
<1>5. h \in sub[f] /\ h \in Dir /\ h \notin Collected(t)
  BY <1>2, <1>3, <1>4 DEF Collected
<1> HIDE DEF h, f
<1>6. Collected(t)' = Collected(t) \cup {h}
  BY <1>1, <1>2, <1>4, <1>5 DEF Collected, f
<1>7. value[h] = Once(Below(h)) /\ Below(h) \subseteq Dir
  BY <1>1, <1>5, BelowLeast DEF Values
<1>8. Counted(t) \cap Below(h) = {}
  <2>1. f \notin Below(h)
    BY <1>3, <1>5, NoCycle
  <2>2. \A c \in Collected(t) : Below(c) \cap Below(h) = {}
    <3>1. \A c \in Collected(t) : c \in sub[f] /\ c # h
      BY <1>5 DEF Collected, f
    <3> QED BY <1>3, <1>5, <3>1, Siblings
  <2> QED BY <2>1, <2>2 DEF Counted, f
<1>9. Counted(t)' = Counted(t) \cup Below(h)
  <2>1. /\ file'[t] = file[t]
        /\ \A c \in Dir : Below(c)' = Below(c)
    BY <1>1 DEF Below, Closed
  <2>2. Collected(t) \subseteq Dir
    BY <1>3 DEF Collected, f
  <2>3. Counted(t)' = {f} \cup {e \in Dir : \E c \in Collected(t) \cup {h} : e \in Below(c)}
    BY <1>5, <1>6, <2>1, <2>2 DEF Counted, f
  <2> QED BY <1>7, <2>3 DEF Counted, f
<1>10. total'[t] = Once(Counted(t) \cup Below(h)) /\ total' = [total EXCEPT ![t] = Once(Counted(t) \cup Below(h))]
  <2>1. Native!Plus(total[t], value[h]) = Once(Counted(t) \cup Below(h))
    BY <1>2, <1>7, <1>8, PlusOnce
  <2> QED BY <1>1, <2>1 DEF NativeType
<1>11. total'[t] = Once(Counted(t))'
  BY <1>9, <1>10 DEF Once
<1>12. Work(t)'
  <2>1. \A c \in Collected(t)' : future'[c] = "done"
    BY <1>1, <1>2, <1>6 DEF Work
  <2> QED BY <1>1, <1>2, <1>4, <1>11, <2>1 DEF Work, f
<1>13. NativeType'
  <2>1. Once(Counted(t) \cup Below(h)) \in [Dir -> Nat]
    BY DEF Once
  <2> QED BY <1>1, <1>4, <1>10, <2>1 DEF NativeType
<1>14. Places' /\ Values' /\ \A u \in Native!Threads \ {t} : Work(u)'
  <2>1. /\ pc' = [pc EXCEPT ![t] = pc'[t]] /\ rest' = [rest EXCEPT ![t] = rest'[t]]
        /\ futures' = [futures EXCEPT ![t] = futures'[t]] /\ total' = [total EXCEPT ![t] = total'[t]]
    BY <1>1, <1>10 DEF NativeType
  <2> QED BY <1>1, <1>2, <2>1, SameFutures
<1>15. Ends'
  <2>1. outcome # "returned"
    BY <1>2, AllQuiet
  <2> QED BY <1>1, <2>1 DEF Ends
<1> QED BY <1>12, <1>13, <1>14, <1>15

LEMMA FinishKeeps ==
    ASSUME TreeInv, NativeInv, NEW t \in Native!Threads, Native!Finish(t)
    PROVE  NativeInv'
<1> USE DEF NativeInv
<1>1. /\ pc[t] = "get" /\ futures[t] = <<>> /\ Active(t)
      /\ UNCHANGED <<sub, runState, file, rest, futures, total, timedOut>>
  BY DEF Native!Finish, Active
<1>2. rest[t] = {} /\ Waited(t) = {} /\ file[t] \in Dir
  BY <1>1 DEF Work, Waited, NativeType
<1>3. Collected(t) = sub[file[t]] /\ Counted(t) = Below(file[t])
  <2>1. Collected(t) = sub[file[t]]
    BY <1>2 DEF Collected
  <2> QED BY <1>2, <2>1, BelowChildren DEF Counted
<1>4. total[t] = Once(Below(file[t])) /\ \A c \in sub[file[t]] : future[c] = "done"
  BY <1>1, <1>3 DEF Work
<1>5. CASE t = Main
  <2>1. /\ pc' = [pc EXCEPT ![Main] = "finally"] /\ outcome' = "returned" /\ UNCHANGED <<future, value>>
        /\ pc'[Main] = "finally"
    BY <1>1, <1>5 DEF Native!Finish, NativeType
  <2>2. NativeType'
    BY <1>1, <2>1 DEF NativeType
  <2>3. Places' /\ Values' /\ \A u \in Native!Threads \ {t} : Work(u)'
    <3>1. /\ pc' = [pc EXCEPT ![t] = pc'[t]] /\ rest' = [rest EXCEPT ![t] = rest'[t]]
          /\ futures' = [futures EXCEPT ![t] = futures'[t]] /\ total' = [total EXCEPT ![t] = total'[t]]
      BY <1>1, <1>5, <2>1 DEF NativeType
    <3> QED BY <1>1, <1>5, <2>1, <3>1, SameFutures
  <2>4. Work(t)'
    BY <1>5, <2>1 DEF Work, Active
  <2>5. total[Main] = ExactSize /\ file[Main] = Root
    <3>1. file[Main] = Root
      BY <1>1, <1>5 DEF Places
    <3> QED BY <1>4, <1>5, <3>1, BelowTheRoot
  <2>6. Ends'
    BY <1>1, <1>4, <1>5, <2>1, <2>5 DEF Ends
  <2> QED BY <2>2, <2>3, <2>4, <2>6
<1>6. CASE t # Main
  <2> DEFINE f == file[t]
             sum == total[t]
  <2>1. /\ pc' = [pc EXCEPT ![t] = "idle"] /\ future' = [future EXCEPT ![f] = "done"]
        /\ value' = [value EXCEPT ![f] = sum] /\ UNCHANGED outcome
    BY <1>6 DEF Native!Finish
  <2>2. f \in Dir /\ future[f] = "running" /\ sum \in [Dir -> Nat] /\ outcome # "returned"
    BY <1>1, <1>6, AllQuiet DEF Places, NativeType
  <2>3. \A e \in Dir : future'[e] = IF e = f THEN "done" ELSE future[e]
    BY <2>1 DEF NativeType
  <2>4. pc'[t] = "idle" /\ \A u \in Native!Threads \ {t} : pc'[u] = pc[u]
    BY <2>1 DEF NativeType
  <2>5. NativeType'
    BY <1>1, <2>1, <2>2 DEF NativeType
  <2>6. \A u \in Native!Threads : Work(u)'
    <3>1. Work(t)'
      BY <2>4 DEF Work, Active
    <3>2. ASSUME NEW u \in Native!Threads \ {t} PROVE Work(u)'
      <4>1. ASSUME Active(u), NEW e \in rest[u] PROVE future'[e] = "none"
        <5>1. e \in Dir
          BY DEF NativeType
        <5>2. future[e] = "none"
          BY <4>1 DEF Work
        <5> QED BY <2>2, <2>3, <5>1, <5>2
      <4>2. UNCHANGED <<sub, pc[u], file[u], rest[u], futures[u], total[u]>>
        BY <1>1, <2>4
      <4> QED BY <2>2, <2>3, <4>1, <4>2, OtherWork
    <3> QED BY <3>1, <3>2
  <2>7. Places'
    <3>1. \A u \in Native!Threads : Active(u)' => Active(u) /\ u # t /\ file[u] # f /\ file[u] \in Dir
      <4>1. \A u \in Native!Threads : Active(u)' => Active(u) /\ u # t
        BY <2>4 DEF Active
      <4>2. \A u \in Native!Threads : Active(u) /\ file[u] = f => u = t
        BY <1>1 DEF Places
      <4> QED BY <4>1, <4>2 DEF NativeType
    <3>2. \A u \in Native!Threads \ {Main} : Active(u)' => future'[file[u]] = future[file[u]]
      BY <2>3, <3>1
    <3>3. pc[Main] # "start" /\ future'[Root] = "none"
      BY <2>2, <2>3, TreeAssumption DEF Places
    <3>4. \A d \in Dir \ {Root} : future'[d] \in {"none", "queued"} =>
               future[d] \in {"none", "queued"} /\ \A c \in sub[d] : future[c] = "none" => future'[c] = "none"
      BY <2>2, <2>3 DEF TreeInv
    <3>5. pc'[Main] \notin {"idle", "start"} /\ \A u \in Native!Threads \ {Main} : pc'[u] \in {"idle", "submit", "get"}
      BY <1>6, <2>4, <3>3 DEF Places, Native!Threads
    <3> QED BY <1>1, <3>1, <3>2, <3>3, <3>4, <3>5, PlacesKept
  <2>8. Values'
    <3>1. \A e \in Dir : Once(Below(e))' = Once(Below(e)) /\ sub[e] \subseteq Dir
      BY <1>1 DEF Once, Below, Closed, TreeInv
    <3>2. \A e \in Dir : value'[e] = IF e = f THEN sum ELSE value[e]
      BY <2>1 DEF NativeType
    <3>3. \A e \in Dir : future'[e] = "done" => value'[e] = Once(Below(e))
      BY <1>4, <2>2, <2>3, <3>2 DEF Values
    <3>4. \A e \in Dir : future'[e] = "done" => \A c \in sub[e] : future'[c] = "done"
      BY <1>4, <2>2, <2>3, <3>1 DEF Values
    <3> QED BY <1>1, <3>1, <3>3, <3>4 DEF Values
  <2>9. Ends'
    <3>1. (\E d \in Dir : future'[d] = "failed") => \E d \in Dir : future[d] = "failed"
      BY <2>3
    <3>2. pc'[Main] = pc[Main]
      BY <1>6, <2>4 DEF Native!Threads
    <3> QED BY <1>1, <2>1, <2>2, <3>1, <3>2 DEF Ends
  <2> QED BY <2>5, <2>6, <2>7, <2>8, <2>9
<1> QED BY <1>5, <1>6

LEMMA NativeNext == ASSUME TreeInv, NativeInv, Native!Next PROVE NativeInv'
<1>1. CASE Native!Begin \/ Native!TakeAny
  BY <1>1, NativeStarts DEF Native!TakeAny
<1>2. CASE Native!Shutdown
  <2>1. /\ pc[Main] = "finally" /\ pc' = [pc EXCEPT ![Main] = "done"] /\ runState' = "shutdown"
        /\ UNCHANGED <<sub, future, value, file, rest, futures, total, outcome, timedOut>>
    BY <1>2 DEF Native!Shutdown
  <2>2. pc'[Main] = "done" /\ \A u \in Native!Threads \ {Main} : pc'[u] = pc[u]
    BY <2>1 DEF NativeInv, NativeType, Native!Threads
  <2>3. NativeType'
    BY <2>1 DEF NativeInv, NativeType
  <2>4. \A u \in Native!Threads : (Active(u)' <=> Active(u)) /\ (Active(u) => u # Main)
    BY <2>1, <2>2 DEF Active
  <2>5. Places'
    BY <2>1, <2>2, <2>4, PlacesKept DEF NativeInv, Places
  <2>6. \A u \in Native!Threads : Work(u)'
    <3>1. Work(Main)'
      BY <2>2 DEF Work, Active
    <3>2. \A u \in Native!Threads : Active(u) => \A e \in rest[u] : future[e] = "none"
      BY DEF NativeInv, Work
    <3> QED BY <2>1, <2>2, <3>1, <3>2, OtherWork DEF NativeInv
  <2>7. Values' /\ Ends'
    BY <2>1, <2>2 DEF NativeInv, Values, Ends, Once, Below, Closed
  <2> QED BY <2>3, <2>5, <2>6, <2>7 DEF NativeInv
<1>3. ASSUME NEW t \in Native!Threads, Native!Rejected(t) \/ Native!GetFailed(t) \/ Native!GetTimeout(t)
      PROVE  NativeInv'
  <2>1. /\ Active(t) /\ Native!Throw(t)
        /\ UNCHANGED <<sub, runState, value, file, rest, futures, total>>
        /\ timedOut' = TRUE \/ timedOut' = timedOut
    BY <1>3 DEF Native!Rejected, Native!GetFailed, Native!GetTimeout, Active
  <2>2. outcome # "returned"
    BY <2>1, AllQuiet
  <2>3. CASE Native!GetTimeout(t)
    BY <2>1, <2>3, ThrowKeeps DEF Native!GetTimeout
  <2>4. CASE Native!Rejected(t)
    <3>1. outcome = "exception"
      BY <2>2, <2>4 DEF Native!Rejected, NativeInv, NativeType, Ends
    <3> QED BY <2>1, <2>4, <3>1, ThrowKeeps DEF Native!Rejected, NativeInv, Ends, NativeType
  <2>5. CASE Native!GetFailed(t)
    <3>1. futures[t] # <<>> /\ futures[t] \in Seq(Dir) /\ future[Head(futures[t])] = "failed" /\ timedOut' = timedOut
      BY <2>5 DEF Native!GetFailed, NativeInv, NativeType
    <3>2. Head(futures[t]) \in Dir
      BY <3>1
    <3>3. timedOut
      BY <3>1, <3>2 DEF NativeInv, Ends
    <3> QED BY <2>1, <3>1, <3>3, ThrowKeeps DEF NativeInv, NativeType
  <2> QED BY <1>3, <2>3, <2>4, <2>5
<1>4. ASSUME NEW t \in Native!Threads, Native!Step(t) PROVE NativeInv'
  BY <1>3, <1>4, SubmitKeeps, SubmitDoneKeeps, GetKeeps, FinishKeeps DEF Native!Step
<1> QED BY <1>1, <1>2, <1>3, <1>4 DEF Native!Next, Native!ProgramStep, Native!TimeoutStep

\* What the caller sees of the native version.
LEMMA NativeQuery ==
    ASSUME TreeInv, NativeInv, program = "NativeConcurrent", program' = program, Native!Next
    PROVE  [Query!Next]_(Query!queryVars)
<1> USE DEF Phase, Native!Phase, Native!Answer, Native!Excuse, Bfs!Phase, Fj!Phase, Query!queryVars
<1>0. Main \in Native!Threads /\ Native!Nothing = Nothing
  BY DEF Native!Threads, Native!Nothing, Nothing
<1>1. CASE Native!Shutdown
  <2>1. pc[Main] = "finally" /\ pc'[Main] = "done" /\ UNCHANGED <<total, outcome, timedOut>>
    BY <1>0, <1>1 DEF Native!Shutdown, NativeInv, NativeType
  <2>2. CASE outcome = "returned"
    <3>1. total[Main] = ExactSize
      BY <2>2 DEF NativeInv, Ends
    <3> QED BY <2>1, <2>2, <3>1 DEF Query!Next, Query!Answer, Query!ExactSize, ExactSize
  <2>3. CASE outcome = "exception"
    <3>1. timedOut
      BY <2>3 DEF NativeInv, Ends
    <3> QED BY <2>1, <2>3, <3>1 DEF Query!Next, Query!Fail
  <2> QED BY <2>1, <2>2, <2>3 DEF NativeInv, NativeType, Ends
<1>2. ASSUME NEW t \in Native!Threads, Native!Step(t) \/ Native!GetTimeout(t)
      PROVE  [Query!Next]_(Query!queryVars)
  <2>1. Active(t) /\ outcome # "returned"
    BY <1>2, AllQuiet DEF Native!Step, Native!Submit, Native!Rejected, Native!SubmitDone, Native!Get,
             Native!GetFailed, Native!Finish, Native!GetTimeout, Active
  <2>2. /\ pc'[Main] = "done" <=> pc[Main] = "done"
        /\ pc[Main] = "done" => outcome' = outcome
    BY <1>0, <1>2, <2>1 DEF Native!Step, Native!Submit, Native!Rejected, Native!SubmitDone, Native!Get,
             Native!GetFailed, Native!Finish, Native!GetTimeout, Native!Throw, Active, NativeInv, NativeType
  <2>3. timedOut' = timedOut \/ timedOut' = TRUE
    BY <1>2 DEF Native!Step, Native!Submit, Native!Rejected, Native!SubmitDone, Native!Get,
             Native!GetFailed, Native!Finish, Native!GetTimeout
  <2>4. CASE pc[Main] = "done"
    <3>1. outcome = "exception" /\ timedOut = TRUE
      BY <2>1, <2>4 DEF NativeInv, NativeType, Ends
    <3> QED BY <2>2, <2>3, <2>4, <3>1
  <2>5. CASE pc[Main] # "done"
    BY <2>2, <2>3, <2>5 DEF Query!Next, Query!TimeOut
  <2> QED BY <2>4, <2>5
<1>3. CASE Native!Begin \/ Native!TakeAny
  <2>1. /\ pc'[Main] = "done" <=> pc[Main] = "done"
        /\ UNCHANGED <<outcome, timedOut>>
    BY <1>0, <1>3 DEF Native!Begin, Native!TakeAny, Native!Take, Native!Enter, NativeInv, NativeType, Places, Native!Threads
  <2>2. pc[Main] = "done" => total'[Main] = total[Main]
    BY <1>0, <1>3 DEF Native!Begin, Native!TakeAny, Native!Take, Native!Enter, NativeInv, NativeType, Places, Native!Threads
  <2> QED BY <2>1, <2>2
<1> QED BY <1>1, <1>2, <1>3 DEF Native!Next, Native!ProgramStep, Native!TimeoutStep

-----------------------------------------------------------------------------
(* Breadth first. *)

Task(i) == bfsFuture[i].dir
Gathered == {Task(i) : i \in 1 .. bfsNext - 1}
Known == {Task(i) : i \in 1 .. Len(bfsFuture)} \cup {bfsDirectories[j] : j \in 1 .. Len(bfsDirectories)}

BfsType ==
    /\ bfsPc \in {"submit", "collect", "finally", "done"}
    /\ bfsDirectories \in Seq(Dir)
    /\ bfsFuture \in Seq([dir : Dir, state : {"queued", "running", "done"}])
    /\ bfsNext \in 1 .. Len(bfsFuture) + 1
    /\ bfsBusy \in [BfsWorkers -> 0 .. Len(bfsFuture)]
    /\ bfsTotal \in [Dir -> Nat]
    /\ bfsOutcome \in {"none", "returned", "TimeoutException"}

\* A directory is once in the list, and has one task; while main submits, both are
\* about the same directories in the same order.
Levels ==
    /\ \A i, j \in 1 .. Len(bfsFuture) : Task(i) = Task(j) => i = j
    /\ Distinct(bfsDirectories)
    /\ bfsPc = "submit" => /\ Bfs!Submitted <= Len(bfsDirectories)
                           /\ \A j \in 1 .. Bfs!Submitted : Task(bfsNext - 1 + j) = bfsDirectories[j]
    /\ \A i \in 1 .. Len(bfsFuture), j \in 1 .. Len(bfsDirectories) :
          Task(i) = bfsDirectories[j] => bfsPc = "submit" /\ i = bfsNext - 1 + j

\* The directories that are known are the root and the subdirectories of those gathered.
Reach ==
    /\ Root \in Known
    /\ \A d \in Gathered : sub[d] \subseteq Known
    /\ \A c \in Known \ {Root} : \E d \in Gathered : c \in sub[d]
    /\ bfsTotal = Once(Gathered)

BfsEnds ==
    /\ bfsOutcome = "none" <=> bfsPc \in {"submit", "collect"}
    /\ bfsOutcome = "returned" => bfsTotal = ExactSize

BfsInv == BfsType /\ Levels /\ Reach /\ BfsEnds

LEMMA InitBfs == ASSUME Init PROVE BfsInv
<1>1. /\ bfsPc = "submit" /\ bfsDirectories = <<Root>> /\ bfsFuture = <<>> /\ bfsNext = 1
      /\ bfsBusy = [w \in BfsWorkers |-> 0] /\ bfsTotal = [d \in Dir |-> 0] /\ bfsOutcome = "none"
  BY DEF Init, Bfs!Init, Bfs!Nothing
<1>2. <<Root>> \in Seq(Dir) /\ Len(<<Root>>) = 1 /\ <<Root>>[1] = Root
  BY TreeAssumption
<1>3. Gathered = {} /\ Known = {Root} /\ Bfs!Submitted = 0
  BY <1>1, <1>2 DEF Gathered, Known, Bfs!Submitted
<1>4. BfsType
  BY <1>1, <1>2 DEF BfsType
<1>5. Levels
  BY <1>1, <1>2, <1>3 DEF Levels, Distinct
<1>6. Reach
  BY <1>1, <1>3 DEF Reach, Once
<1> QED BY <1>1, <1>4, <1>5, <1>6 DEF BfsInv, BfsEnds

\* A task that begins or ends changes nothing but its state.
LEMMA PoolKeeps ==
    ASSUME BfsInv, Bfs!PoolStep
    PROVE  BfsInv' /\ UNCHANGED <<sub, bfsPc, bfsDirectories, bfsNext, bfsTotal, bfsOutcome>>
<1> USE DEF BfsInv
<1>1. PICK w \in BfsWorkers : Bfs!Finish(w) \/ \E i \in DOMAIN bfsFuture : Bfs!Take(w, i)
  BY DEF Bfs!PoolStep
<1>2. UNCHANGED <<sub, bfsPc, bfsDirectories, bfsNext, bfsTotal, bfsOutcome>>
  BY <1>1 DEF Bfs!Finish, Bfs!Take
<1>3. /\ bfsFuture' \in Seq([dir : Dir, state : {"queued", "running", "done"}])
      /\ Len(bfsFuture') = Len(bfsFuture)
      /\ \A i \in 1 .. Len(bfsFuture) : Task(i)' = Task(i)
      /\ bfsBusy' \in [BfsWorkers -> 0 .. Len(bfsFuture)]
  <2> DEFINE T == [dir : Dir, state : {"queued", "running", "done"}]
  <2>0. bfsFuture \in Seq(T) /\ bfsBusy \in [BfsWorkers -> 0 .. Len(bfsFuture)]
    BY DEF BfsType
  <2>1. PICK i \in 1 .. Len(bfsFuture), s \in {"running", "done"} :
           /\ bfsFuture' = [bfsFuture EXCEPT ![i].state = s]
           /\ bfsBusy' = [bfsBusy EXCEPT ![w] = 0] \/ bfsBusy' = [bfsBusy EXCEPT ![w] = i]
    <3>1. CASE Bfs!Finish(w)
      <4>1. bfsBusy[w] \in 1 .. Len(bfsFuture)
        <5>1. Len(bfsFuture) \in Nat /\ bfsBusy[w] \in 0 .. Len(bfsFuture) /\ bfsBusy[w] # 0
          BY <2>0, <3>1, LenProperties DEF Bfs!Finish
        <5> QED BY <5>1
      <4> QED BY <3>1, <4>1 DEF Bfs!Finish
    <3>2. ASSUME NEW i \in DOMAIN bfsFuture, Bfs!Take(w, i) PROVE i \in 1 .. Len(bfsFuture)
      BY <2>0, LenProperties
    <3> QED BY <1>1, <3>1, <3>2 DEF Bfs!Take
  <2>2. bfsFuture \in [1 .. Len(bfsFuture) -> T] /\ bfsFuture[i] \in T
    BY <2>0, LenProperties
  <2> DEFINE t == [bfsFuture[i] EXCEPT !.state = s]
  <2>3. t \in T /\ t.dir = bfsFuture[i].dir /\ bfsFuture' = [bfsFuture EXCEPT ![i] = t]
    BY <2>1, <2>2
  <2>4. Len(bfsFuture) \in Nat
    BY <2>0, LenProperties
  <2>5. bfsFuture' \in Seq(T) /\ Len(bfsFuture') = Len(bfsFuture)
    <3> HIDE DEF T, t
    <3> QED BY <2>0, <2>3, ExceptSeq
  <2>6. \A j \in 1 .. Len(bfsFuture) : Task(j)' = Task(j)
    BY <2>2, <2>3 DEF Task
  <2>7. bfsBusy' \in [BfsWorkers -> 0 .. Len(bfsFuture)]
    <3>1. 0 \in 0 .. Len(bfsFuture) /\ i \in 0 .. Len(bfsFuture)
      BY <2>1, <2>4
    <3> QED BY <2>0, <2>1, <3>1
  <2> QED BY <2>5, <2>6, <2>7
<1>4. BfsType'
  BY <1>2, <1>3 DEF BfsType
<1>5. bfsNext - 1 <= Len(bfsFuture) /\ bfsNext \in Nat \ {0} /\ Len(bfsFuture) \in Nat
  BY DEF BfsType
<1>6. Gathered' = Gathered /\ Known' = Known /\ Bfs!Submitted' = Bfs!Submitted
  <2>1. \A i \in 1 .. bfsNext - 1 : Task(i)' = Task(i)
    BY <1>3, <1>5
  <2> QED BY <1>2, <1>3, <2>1 DEF Gathered, Known, Bfs!Submitted
<1>7. Levels'
  <2>1. \A j \in 1 .. Bfs!Submitted : bfsNext - 1 + j \in 1 .. Len(bfsFuture)
    BY <1>5 DEF Bfs!Submitted
  <2> QED BY <1>2, <1>3, <1>5, <1>6, <2>1 DEF Levels, Distinct
<1>8. Reach'
  BY <1>2, <1>6 DEF Reach, Once
<1> QED BY <1>2, <1>4, <1>7, <1>8 DEF BfsEnds

LEMMA BfsNumbers ==
    ASSUME BfsType
    PROVE  /\ Len(bfsFuture) \in Nat /\ Len(bfsDirectories) \in Nat /\ bfsNext \in Nat \ {0}
           /\ bfsNext <= Len(bfsFuture) + 1
           /\ Bfs!Submitted = Len(bfsFuture) - bfsNext + 1
           /\ \A i \in 1 .. Len(bfsFuture) : Task(i) \in Dir
           /\ \A j \in 1 .. Len(bfsDirectories) : bfsDirectories[j] \in Dir
<1>1. /\ Len(bfsFuture) \in Nat /\ \A i \in 1 .. Len(bfsFuture) : Task(i) \in Dir
  <2>1. /\ Len(bfsFuture) \in Nat
        /\ bfsFuture \in [1 .. Len(bfsFuture) -> [dir : Dir, state : {"queued", "running", "done"}]]
    BY LenProperties DEF BfsType
  <2> QED BY <2>1 DEF Task
<1>2. Len(bfsDirectories) \in Nat /\ \A j \in 1 .. Len(bfsDirectories) : bfsDirectories[j] \in Dir
  BY LenProperties DEF BfsType
<1> QED BY <1>1, <1>2 DEF BfsType, Bfs!Submitted

LEMMA BfsSubmitKeeps == ASSUME TreeInv, BfsInv, Bfs!Submit PROVE BfsInv'
<1> USE DEF BfsInv
<1>n. PICK n \in Nat : n = Len(bfsFuture)
  BY BfsNumbers
<1>k. PICK k \in Nat : k = Bfs!Submitted
  BY BfsNumbers
<1>1. /\ bfsPc = "submit" /\ k < Len(bfsDirectories)
      /\ bfsFuture' = Append(bfsFuture, [dir |-> bfsDirectories[k + 1], state |-> "queued"])
      /\ UNCHANGED <<sub, bfsPc, bfsDirectories, bfsNext, bfsBusy, bfsTotal, bfsOutcome>>
  BY <1>k DEF Bfs!Submit
<1>2. k = n - bfsNext + 1 /\ bfsNext \in Nat \ {0} /\ Len(bfsDirectories) \in Nat
  BY <1>n, <1>k, BfsNumbers
<1>d. PICK d \in Dir : d = bfsDirectories[k + 1]
  BY <1>1, <1>2, BfsNumbers
<1> DEFINE task == [dir |-> d, state |-> "queued"]
           T == [dir : Dir, state : {"queued", "running", "done"}]
<1>3. k + 1 \in 1 .. Len(bfsDirectories) /\ task \in T
  BY <1>1, <1>2
<1>4. /\ bfsFuture' \in Seq(T) /\ Len(bfsFuture') = n + 1
      /\ \A i \in 1 .. n : bfsFuture'[i] = bfsFuture[i]
      /\ bfsFuture'[n + 1] = task
  <2>1. bfsFuture \in Seq(T)
    BY DEF BfsType
  <2>2. bfsFuture' = Append(bfsFuture, task)
    BY <1>1, <1>d
  <2> HIDE DEF T, task
  <2> QED BY <1>n, <1>3, <2>1, <2>2, AppendProperties
<1>5. (\A i \in 1 .. n : Task(i)' = Task(i)) /\ Task(n + 1)' = d /\ n + 1 = bfsNext - 1 + (k + 1)
  <2>1. n + 1 = bfsNext - 1 + (k + 1)
    BY <1>2
  <2> QED BY <1>4, <2>1 DEF Task
<1> HIDE DEF task
<1>6. BfsType'
  <2>1. bfsNext' \in 1 .. Len(bfsFuture') + 1 /\ bfsBusy' \in [BfsWorkers -> 0 .. Len(bfsFuture')]
    BY <1>n, <1>1, <1>2, <1>4 DEF BfsType
  <2> QED BY <1>1, <1>4, <2>1 DEF BfsType
<1>7. /\ \A i \in 1 .. n : Task(i) = d => i = n + 1
      /\ \A j \in 1 .. Len(bfsDirectories) : bfsDirectories[j] = d => j = k + 1
  <2>1. \A i \in 1 .. n : Task(i) = bfsDirectories[k + 1] => i = bfsNext - 1 + (k + 1)
    BY <1>n, <1>3 DEF Levels
  <2>2. \A j \in 1 .. Len(bfsDirectories) : bfsDirectories[j] = bfsDirectories[k + 1] => j = k + 1
    BY <1>3 DEF Levels, Distinct
  <2> QED BY <1>d, <1>5, <2>1, <2>2
<1>8. Bfs!Submitted' = k + 1
  BY <1>1, <1>2, <1>4 DEF Bfs!Submitted
<1>9. Levels'
  <2>1. \A i, j \in 1 .. n + 1 : Task(i)' = Task(j)' => i = j
    <3>1. \A i, j \in 1 .. n : Task(i) = Task(j) => i = j
      BY <1>n DEF Levels
    <3>2. \A i \in 1 .. n : Task(i) # d
      BY <1>2, <1>7
    <3> QED BY <1>2, <1>5, <3>1, <3>2
  <2>2. \A j \in 1 .. k + 1 : Task(bfsNext - 1 + j)' = bfsDirectories[j]
    <3>1. \A j \in 1 .. k : bfsNext - 1 + j \in 1 .. n /\ Task(bfsNext - 1 + j) = bfsDirectories[j]
      <4>1. \A j \in 1 .. k : bfsNext - 1 + j \in 1 .. n
        BY <1>2
      <4>2. \A j \in 1 .. k : Task(bfsNext - 1 + j) = bfsDirectories[j]
        BY <1>1, <1>k DEF Levels
      <4> QED BY <4>1, <4>2
    <3> SUFFICES ASSUME NEW j \in 1 .. k + 1 PROVE Task(bfsNext - 1 + j)' = bfsDirectories[j]
      OBVIOUS
    <3>2. PICK i \in Nat : i = bfsNext - 1 + j
      BY <1>2
    <3>3. bfsNext' - 1 + j = i
      BY <1>1, <3>2
    <3>4. CASE j \in 1 .. k
      <4>1. i \in 1 .. n /\ Task(i) = bfsDirectories[j]
        BY <3>1, <3>2, <3>4
      <4>2. Task(i)' = bfsDirectories[j]
        BY <1>5, <4>1
      <4> QED BY <3>3, <4>2
    <3>5. CASE j = k + 1
      <4>1. i = n + 1
        BY <1>5, <3>2, <3>5
      <4> QED BY <1>5, <1>d, <3>3, <3>5, <4>1
    <3> QED BY <3>4, <3>5
  <2>3. \A i \in 1 .. n + 1, j \in 1 .. Len(bfsDirectories) :
           Task(i)' = bfsDirectories[j] => i = bfsNext - 1 + j
    <3>1. \A i \in 1 .. n, j \in 1 .. Len(bfsDirectories) : Task(i) = bfsDirectories[j] => i = bfsNext - 1 + j
      BY <1>n DEF Levels
    <3> QED BY <1>2, <1>5, <1>7, <3>1
  <2>4. Distinct(bfsDirectories)'
    BY <1>1 DEF Levels, Distinct
  <2>5. k + 1 <= Len(bfsDirectories)
    BY <1>1, <1>2
  <2> QED BY <1>1, <1>4, <1>8, <2>1, <2>2, <2>3, <2>4, <2>5 DEF Levels
<1>10. Gathered' = Gathered
  <2>1. \A i \in 1 .. bfsNext - 1 : Task(i)' = Task(i)
    BY <1>2, <1>5
  <2> QED BY <1>1, <2>1 DEF Gathered
<1>11. Known' = Known
  <2> DEFINE B == {Task(i)' : i \in 1 .. n + 1} \cup {bfsDirectories[j] : j \in 1 .. Len(bfsDirectories)}
  <2>1. Known' = B
    BY <1>1, <1>4 DEF Known
  <2>2. \A i \in 1 .. n + 1 : Task(i)' \in Known
    <3>1. \A i \in 1 .. n : Task(i) \in Known
      BY <1>n DEF Known
    <3>2. d \in Known
      BY <1>d, <1>3 DEF Known
    <3>3. \A i \in 1 .. n + 1 : i \in 1 .. n \/ i = n + 1
      OBVIOUS
    <3> QED BY <1>5, <3>1, <3>2, <3>3
  <2>3. \A i \in 1 .. n : Task(i) \in B
    <3>1. \A i \in 1 .. n : i \in 1 .. n + 1 /\ Task(i)' = Task(i)
      BY <1>5
    <3> QED BY <3>1
  <2>4. (\A x : x \in B => x \in Known) /\ (\A x : x \in Known => x \in B)
    BY <1>n, <2>2, <2>3 DEF Known
  <2> HIDE DEF B
  <2> QED BY <2>1, <2>4
<1>12. Reach' /\ BfsEnds'
  BY <1>1, <1>10, <1>11 DEF Reach, Once, BfsEnds
<1> QED BY <1>6, <1>9, <1>12

\* The order in which a directory's subdirectories are listed has each of them once.
LEMMA ListedOnce ==
    ASSUME NEW S \in SUBSET Dir, NEW order \in [1 .. Cardinality(S) -> S],
           \A c \in S : \E i \in DOMAIN order : order[i] = c
    PROVE  /\ order \in Seq(Dir) /\ Len(order) = Cardinality(S) /\ Cardinality(S) \in Nat
           /\ Distinct(order)
           /\ {order[i] : i \in 1 .. Len(order)} = S
<1>1. IsFiniteSet(S) /\ Cardinality(S) \in Nat
  BY TreeAssumption, FS_Subset, FS_CardinalityType
<1>2. order \in Seq(Dir) /\ Len(order) = Cardinality(S)
  BY <1>1
<1>3. order \in Surjection(1 .. Cardinality(S), S)
  BY DEF Surjection
<1>4. IsFiniteSet(1 .. Cardinality(S)) /\ Cardinality(1 .. Cardinality(S)) = Cardinality(S)
  BY <1>1, FS_Interval
<1>5. order \in Injection(1 .. Cardinality(S), S)
  BY <1>3, <1>4, FS_Surjection
<1>6. Distinct(order)
  BY <1>2, <1>5 DEF Injection, IsInjective, Distinct
<1>7. {order[i] : i \in 1 .. Len(order)} = S
  BY <1>2
<1> QED BY <1>1, <1>2, <1>6, <1>7

LEMMA BfsClearKeeps == ASSUME TreeInv, BfsInv, Bfs!Clear PROVE BfsInv'
<1> USE DEF BfsInv
<1>1. /\ bfsPc = "submit" /\ Bfs!Submitted = Len(bfsDirectories) /\ bfsDirectories' = <<>> /\ bfsPc' = "collect"
      /\ UNCHANGED <<sub, bfsFuture, bfsNext, bfsBusy, bfsTotal, bfsOutcome>>
  BY DEF Bfs!Clear
<1>2. <<>> \in Seq(Dir) /\ Len(<<>>) = 0
  OBVIOUS
<1>3. BfsType'
  BY <1>1, <1>2 DEF BfsType
<1>4. Levels'
  BY <1>1, <1>2 DEF Levels, Distinct, Task
<1>5. Gathered' = Gathered
  BY <1>1 DEF Gathered, Task
<1>6. Known' = Known
  <2>1. \A j \in 1 .. Len(bfsDirectories) :
           bfsNext - 1 + j \in 1 .. Len(bfsFuture) /\ Task(bfsNext - 1 + j) = bfsDirectories[j]
    <3>1. \A j \in 1 .. Len(bfsDirectories) : bfsNext - 1 + j \in 1 .. Len(bfsFuture)
      BY <1>1, BfsNumbers
    <3>2. \A j \in 1 .. Len(bfsDirectories) : Task(bfsNext - 1 + j) = bfsDirectories[j]
      BY <1>1 DEF Levels
    <3> QED BY <3>1, <3>2
  <2>2. Known = {Task(i) : i \in 1 .. Len(bfsFuture)}
    BY <2>1 DEF Known
  <2>3. Known' = {Task(i) : i \in 1 .. Len(bfsFuture)}
    BY <1>1, <1>2 DEF Known, Task
  <2> QED BY <2>2, <2>3
<1>7. Reach' /\ BfsEnds'
  BY <1>1, <1>5, <1>6 DEF Reach, Once, BfsEnds
<1> QED BY <1>3, <1>4, <1>7

\* The loop ends when what is gathered is everything.
LEMMA BfsReturnKeeps == ASSUME TreeInv, BfsInv, Bfs!ReturnTotal PROVE BfsInv'
<1> USE DEF BfsInv
<1>1. /\ bfsPc = "submit" /\ bfsDirectories = <<>> /\ bfsPc' = "finally" /\ bfsOutcome' = "returned"
      /\ UNCHANGED <<sub, bfsDirectories, bfsFuture, bfsNext, bfsBusy, bfsTotal>>
  BY DEF Bfs!ReturnTotal
<1>2. bfsNext - 1 = Len(bfsFuture) /\ Len(bfsDirectories) = 0
  <2>1. Len(bfsDirectories) = 0
    BY <1>1
  <2>2. Bfs!Submitted <= 0
    BY <1>1, <2>1 DEF Levels
  <2> QED BY <2>1, <2>2, BfsNumbers
<1>3. Known = Gathered
  BY <1>2 DEF Known, Gathered
<1>4. Gathered = Dir
  <2>1. Gathered \in SUBSET Dir
    BY <1>2, BfsNumbers DEF Gathered
  <2>2. Root \in Gathered /\ Closed(Gathered)
    BY <1>3 DEF Reach, Closed
  <2> QED BY <2>1, <2>2 DEF TreeInv
<1>5. bfsTotal = ExactSize
  BY <1>4 DEF Reach, Once, ExactSize
<1>6. BfsType' /\ Gathered' = Gathered /\ Known' = Known
  BY <1>1 DEF BfsType, Gathered, Known, Task
<1>7. Levels'
  BY <1>1, <1>2 DEF Levels, Distinct, Task
<1>8. Reach' /\ BfsEnds'
  BY <1>1, <1>5, <1>6 DEF Reach, Once, BfsEnds
<1> QED BY <1>6, <1>7, <1>8

\* Steps of main that only move on, to the next level or to the end.
LEMMA BfsMoveKeeps ==
    ASSUME TreeInv, BfsInv, Bfs!Level \/ Bfs!Shutdown \/ Bfs!GetTimeout
    PROVE  BfsInv'
<1> USE DEF BfsInv
<1>1. /\ UNCHANGED <<sub, bfsDirectories, bfsFuture, bfsNext, bfsBusy, bfsTotal>>
      /\ bfsPc # "submit" /\ bfsPc' \in {"submit", "finally", "done"}
      /\ bfsPc' = "submit" => bfsNext = Len(bfsFuture) + 1
  BY DEF Bfs!Level, Bfs!Shutdown, Bfs!GetTimeout
<1>2. BfsType' /\ BfsEnds'
  BY DEF BfsType, BfsEnds, Bfs!Level, Bfs!Shutdown, Bfs!GetTimeout
<1>3. Gathered' = Gathered /\ Known' = Known /\ Bfs!Submitted' = Bfs!Submitted
  BY <1>1 DEF Gathered, Known, Task, Bfs!Submitted
<1>4. bfsPc' = "submit" => Bfs!Submitted = 0
  BY <1>1, BfsNumbers
<1>5. Levels'
  <2>1. \A i \in 1 .. Len(bfsFuture), j \in 1 .. Len(bfsDirectories) : Task(i) # bfsDirectories[j]
    BY <1>1 DEF Levels
  <2>2. bfsPc' = "submit" => Bfs!Submitted <= Len(bfsDirectories) /\ 1 .. Bfs!Submitted = {}
    BY <1>4, BfsNumbers
  <2> QED BY <1>1, <1>3, <2>1, <2>2 DEF Levels, Distinct, Task
<1>6. Reach'
  BY <1>1, <1>3 DEF Reach, Once
<1> QED BY <1>2, <1>5, <1>6

\* Appending a listing without anything of the list keeps each once.
LEMMA ListAppend ==
    ASSUME NEW q \in Seq(Dir), NEW r \in Seq(Dir), Distinct(q), Distinct(r),
           \A i \in 1 .. Len(q), j \in 1 .. Len(r) : q[i] # r[j]
    PROVE  /\ q \o r \in Seq(Dir) /\ Distinct(q \o r)
           /\ \A i \in 1 .. Len(q \o r) :
                 (\E j \in 1 .. Len(q) : (q \o r)[i] = q[j]) \/ (\E j \in 1 .. Len(r) : (q \o r)[i] = r[j])
           /\ \A j \in 1 .. Len(q) : \E i \in 1 .. Len(q \o r) : (q \o r)[i] = q[j]
           /\ \A j \in 1 .. Len(r) : \E i \in 1 .. Len(q \o r) : (q \o r)[i] = r[j]
<1> DEFINE p == q \o r
           a == Len(q)
           b == Len(r)
<1>1. /\ p \in Seq(Dir) /\ Len(p) = a + b /\ a \in Nat /\ b \in Nat
      /\ \A i \in 1 .. a + b : p[i] = IF i <= a THEN q[i] ELSE r[i - a]
  BY ConcatProperties, LenProperties
<1>2. /\ \A i, j \in 1 .. a : q[i] = q[j] => i = j
      /\ \A i, j \in 1 .. b : r[i] = r[j] => i = j
  BY DEF Distinct
<1>0. \A i \in 1 .. a, j \in 1 .. b : q[i] # r[j]
  OBVIOUS
<1> HIDE DEF p, a, b
<1>3. \A i \in 1 .. a + b : (i <= a /\ i \in 1 .. a /\ p[i] = q[i]) \/ (i > a /\ i - a \in 1 .. b /\ p[i] = r[i - a])
  BY <1>1
<1>4. \A i, j \in 1 .. a + b : p[i] = p[j] => i = j
  <2> SUFFICES ASSUME NEW i \in 1 .. a + b, NEW j \in 1 .. a + b, p[i] = p[j] PROVE i = j
    OBVIOUS
  <2>1. CASE i <= a /\ j <= a
    BY <1>1, <1>2, <1>3, <2>1
  <2>2. CASE i > a /\ j > a
    <3>1. i - a \in 1 .. b /\ j - a \in 1 .. b /\ r[i - a] = r[j - a]
      BY <1>1, <1>3, <2>2
    <3>2. i - a = j - a
      BY <1>2, <3>1
    <3> QED BY <1>1, <3>2
  <2>3. CASE i <= a /\ j > a
    BY <1>0, <1>1, <1>3, <2>3
  <2>4. CASE i > a /\ j <= a
    BY <1>0, <1>1, <1>3, <2>4
  <2> QED BY <1>1, <2>1, <2>2, <2>3, <2>4
<1>5. \A j \in 1 .. a : j \in 1 .. a + b /\ p[j] = q[j]
  BY <1>1
<1>6. \A j \in 1 .. b : j + a \in 1 .. a + b /\ p[j + a] = r[j]
  BY <1>1
<1> QED BY <1>1, <1>3, <1>4, <1>5, <1>6 DEF p, a, b, Distinct

LEMMA BfsGetKeeps == ASSUME TreeInv, BfsInv, Bfs!Get PROVE BfsInv'
<1> USE DEF BfsInv
<1>n. PICK n \in Nat : n = Len(bfsFuture)
  BY BfsNumbers
<1>x. PICK x \in 1 .. n : x = bfsNext
  BY <1>n, BfsNumbers DEF Bfs!Get
<1>d. PICK d \in Dir : d = Task(x)
  BY <1>n, BfsNumbers
<1>1. /\ bfsPc = "collect" /\ bfsNext' = x + 1 /\ bfsTotal' = [bfsTotal EXCEPT ![d] = @ + 1]
      /\ UNCHANGED <<sub, bfsPc, bfsFuture, bfsBusy, bfsOutcome>>
  BY <1>x, <1>d DEF Bfs!Get, Bfs!Add, Task
<1>o. PICK order \in [1 .. Cardinality(sub[d]) -> sub[d]] :
         /\ \A c \in sub[d] : \E i \in DOMAIN order : order[i] = c
         /\ bfsDirectories' = bfsDirectories \o order
  BY <1>x, <1>d, SameCardinality DEF Bfs!Get, Task
<1>2. order \in Seq(Dir) /\ Distinct(order) /\ {order[i] : i \in 1 .. Len(order)} = sub[d] /\ sub[d] \subseteq Dir
  <2>1. sub[d] \in SUBSET Dir
    BY DEF TreeInv
  <2> QED BY <1>o, <2>1, ListedOnce
<1>3. d \notin Gathered
  <2>1. \A i \in 1 .. x - 1 : i \in 1 .. n /\ i # x
    OBVIOUS
  <2> QED BY <1>n, <1>x, <1>d, <2>1 DEF Levels, Gathered
<1>4. \A c \in sub[d] : c \notin Known
  <2> SUFFICES ASSUME NEW c \in sub[d], c \in Known PROVE FALSE
    OBVIOUS
  <2>1. c # Root /\ c \in Dir
    BY <1>2 DEF TreeInv
  <2>2. PICK e \in Gathered : c \in sub[e]
    BY <2>1 DEF Reach
  <2>3. Gathered \subseteq Dir
    <3>1. \A i \in 1 .. x - 1 : i \in 1 .. n
      OBVIOUS
    <3> QED BY <1>n, <1>x, <3>1, BfsNumbers DEF Gathered
  <2> QED BY <1>3, <2>1, <2>2, <2>3 DEF TreeInv
<1>5. bfsDirectories \in Seq(Dir) /\ Distinct(bfsDirectories)
  BY DEF BfsType, Levels
<1>6. /\ bfsDirectories' \in Seq(Dir) /\ Distinct(bfsDirectories)'
      /\ {bfsDirectories'[i] : i \in 1 .. Len(bfsDirectories')}
           = {bfsDirectories[i] : i \in 1 .. Len(bfsDirectories)} \cup sub[d]
  <2>1. \A j \in 1 .. Len(order) : order[j] \in sub[d]
    BY <1>2
  <2>2. \A i \in 1 .. Len(bfsDirectories), j \in 1 .. Len(order) : bfsDirectories[i] # order[j]
    BY <1>4, <2>1 DEF Known
  <2>3. \A c \in sub[d] : \E j \in 1 .. Len(order) : order[j] = c
    BY <1>2
  <2> DEFINE l == bfsDirectories \o order
  <2>4. /\ l \in Seq(Dir) /\ Distinct(l)
        /\ \A i \in 1 .. Len(l) : (\E j \in 1 .. Len(bfsDirectories) : l[i] = bfsDirectories[j])
                                    \/ (\E j \in 1 .. Len(order) : l[i] = order[j])
        /\ \A j \in 1 .. Len(bfsDirectories) : \E i \in 1 .. Len(l) : l[i] = bfsDirectories[j]
        /\ \A j \in 1 .. Len(order) : \E i \in 1 .. Len(l) : l[i] = order[j]
    BY <1>2, <1>5, <2>2, ListAppend
  <2>5. bfsDirectories' = l
    BY <1>o
  <2> HIDE DEF l
  <2>6. {l[i] : i \in 1 .. Len(l)} = {bfsDirectories[i] : i \in 1 .. Len(bfsDirectories)} \cup sub[d]
    <3> DEFINE A == {l[i] : i \in 1 .. Len(l)}
               B == {bfsDirectories[i] : i \in 1 .. Len(bfsDirectories)} \cup sub[d]
    <3>1. \A y : y \in A => y \in B
      BY <2>1, <2>4
    <3>2. \A y : y \in B => y \in A
      <4>1. \A y \in sub[d] : \E i \in 1 .. Len(l) : l[i] = y
        <5> SUFFICES ASSUME NEW y \in sub[d] PROVE \E i \in 1 .. Len(l) : l[i] = y
          OBVIOUS
        <5>1. PICK j \in 1 .. Len(order) : order[j] = y
          BY <2>3
        <5>2. PICK i \in 1 .. Len(l) : l[i] = order[j]
          BY <2>4
        <5> QED BY <5>1, <5>2
      <4>2. \A j \in 1 .. Len(bfsDirectories) : \E i \in 1 .. Len(l) : l[i] = bfsDirectories[j]
        BY <2>4
      <4>3. \A j \in 1 .. Len(bfsDirectories) : bfsDirectories[j] \in A
        BY <4>2
      <4>4. sub[d] \subseteq A
        BY <4>1
      <4> HIDE DEF A
      <4> QED BY <4>3, <4>4
    <3>3. A = B
      <4> HIDE DEF A, B
      <4> QED BY <3>1, <3>2
    <3> QED BY <3>3
  <2>7. Distinct(bfsDirectories)'
    BY <2>4, <2>5 DEF Distinct
  <2> QED BY <2>4, <2>5, <2>6, <2>7
<1>7. BfsType'
  <2>1. x + 1 \in 1 .. n + 1
    OBVIOUS
  <2> QED BY <1>n, <1>1, <1>6, <2>1 DEF BfsType
<1>8. Gathered' = Gathered \cup {d}
  <2> DEFINE A == {Task(i) : i \in 1 .. x}
             B == {Task(i) : i \in 1 .. x - 1} \cup {Task(x)}
  <2>1. (\A y : y \in A => y \in B) /\ (\A y : y \in B => y \in A)
    <3>1. \A i \in 1 .. x : i \in 1 .. x - 1 \/ i = x
      OBVIOUS
    <3>2. (\A i \in 1 .. x - 1 : i \in 1 .. x) /\ x \in 1 .. x
      OBVIOUS
    <3> QED BY <3>1, <3>2
  <2>2. A = B
    <3> HIDE DEF A, B
    <3> QED BY <2>1
  <2>3. Gathered = {Task(i) : i \in 1 .. x - 1}
    BY <1>x DEF Gathered
  <2>4. Gathered' = A
    <3>1. bfsNext' - 1 = x
      BY <1>1
    <3> QED BY <1>1, <3>1 DEF Gathered, Task
  <2> QED BY <1>d, <2>2, <2>3, <2>4
<1>9. Known' = Known \cup sub[d]
  BY <1>1, <1>6 DEF Known, Task
<1>10. Levels'
  <2>1. ASSUME NEW i \in 1 .. Len(bfsFuture), NEW j \in 1 .. Len(bfsDirectories')
        PROVE  Task(i) # bfsDirectories'[j]
    <3>1. Task(i) \in Known
      BY DEF Known
    <3>2. bfsDirectories'[j] \in sub[d] \/ \E k \in 1 .. Len(bfsDirectories) : bfsDirectories'[j] = bfsDirectories[k]
      BY <1>6
    <3> QED BY <1>1, <1>4, <3>1, <3>2 DEF Levels
  <2> QED BY <1>1, <1>6, <2>1 DEF Levels, Task
<1>11. Reach'
  <2>1. bfsTotal' = Once(Gathered \cup {d})
    BY <1>1, <1>3 DEF Reach, Once
  <2>3. \A e \in Gathered \cup {d} : sub[e] \subseteq Known \cup sub[d]
    BY DEF Reach
  <2>4. \A c \in (Known \cup sub[d]) \ {Root} : \E e \in Gathered \cup {d} : c \in sub[e]
    BY DEF Reach
  <2> QED BY <1>1, <1>8, <1>9, <2>1, <2>3, <2>4 DEF Reach, Once
<1>12. BfsEnds'
  <2>1. bfsOutcome = "none"
    BY <1>1 DEF BfsEnds
  <2> QED BY <1>1, <2>1 DEF BfsEnds
<1> QED BY <1>7, <1>10, <1>11, <1>12

LEMMA BfsNext ==
    ASSUME TreeInv, BfsInv, Bfs!Next
    PROVE  BfsInv'
BY PoolKeeps, BfsSubmitKeeps, BfsClearKeeps, BfsReturnKeeps, BfsGetKeeps, BfsMoveKeeps DEF Bfs!Next, Bfs!MainStep

\* What the caller sees of the breadth-first version.
LEMMA BfsQuery ==
    ASSUME TreeInv, BfsInv, program = "Concurrent", program' = program, Bfs!Next
    PROVE  [Query!Next]_(Query!queryVars)
<1> USE DEF Phase, Bfs!Phase, Bfs!Answer, Bfs!Excuse, Native!Phase, Fj!Phase, Query!queryVars
<1>0. Bfs!Nothing = Nothing
  BY DEF Bfs!Nothing, Nothing
<1>1. CASE Bfs!Shutdown
  <2>1. bfsPc = "finally" /\ bfsPc' = "done" /\ UNCHANGED <<bfsTotal, bfsOutcome>>
    BY <1>1 DEF Bfs!Shutdown
  <2>2. CASE bfsOutcome = "returned"
    <3>1. bfsTotal = ExactSize
      BY <2>2 DEF BfsInv, BfsEnds
    <3> QED BY <2>1, <2>2, <3>1 DEF Query!Next, Query!Answer, Query!ExactSize, ExactSize
  <2>3. CASE bfsOutcome = "TimeoutException"
    BY <2>1, <2>3 DEF Query!Next, Query!Fail
  <2> QED BY <2>1, <2>2, <2>3 DEF BfsInv, BfsType, BfsEnds
<1>2. CASE Bfs!GetTimeout
  BY <1>2 DEF Bfs!GetTimeout, Query!Next, Query!TimeOut
<1>3. CASE Bfs!PoolStep
  BY <1>3, PoolKeeps
<1>4. CASE Bfs!Submit \/ Bfs!Clear \/ Bfs!Get \/ Bfs!Level \/ Bfs!ReturnTotal
  <2>1. /\ bfsPc # "done" /\ bfsPc' # "done"
        /\ bfsOutcome # "TimeoutException" /\ bfsOutcome' # "TimeoutException"
    BY <1>4 DEF Bfs!Submit, Bfs!Clear, Bfs!Get, Bfs!Level, Bfs!ReturnTotal, BfsInv, BfsEnds
  <2> QED BY <2>1
<1> QED BY <1>1, <1>2, <1>3, <1>4 DEF Bfs!Next, Bfs!MainStep

-----------------------------------------------------------------------------
(* The three together. *)

SizesInv ==
    /\ program \in {"Concurrent", "NativeConcurrent", "ConcurrentForkjoin"}
    /\ TreeInv /\ BfsInv /\ NativeInv /\ FjInv

LEMMA SameTree ==
    ASSUME TreeInv, sub' = sub
    PROVE  TreeInv' /\ \A d : Below(d)' = Below(d) /\ \A S : Closed(S)' = Closed(S)
BY DEF TreeInv, Below, Closed

\* What does not run stays as it is.
LEMMA BfsSame == ASSUME BfsInv, UNCHANGED <<sub, bfsVars>> PROVE BfsInv'
<1>1. Gathered' = Gathered /\ Known' = Known /\ Bfs!Submitted' = Bfs!Submitted /\ \A i : Task(i)' = Task(i)
  BY DEF bfsVars, Gathered, Known, Task, Bfs!Submitted
<1>2. Levels'
  BY <1>1 DEF bfsVars, BfsInv, Levels, Distinct, Task
<1> QED BY <1>1, <1>2 DEF BfsInv, BfsType, Reach, BfsEnds, Once, bfsVars

LEMMA NativeSame == ASSUME NativeInv, UNCHANGED <<sub, nativeVars>> PROVE NativeInv'
<1> USE DEF NativeInv, nativeVars
<1>1. NativeType' /\ Places' /\ Ends'
  BY DEF NativeType, Places, Ends, Active
<1>2. \A d : Once(Below(d))' = Once(Below(d))
  BY DEF Once, Below, Closed
<1>3. Values'
  BY <1>2 DEF Values
<1>4. ASSUME NEW t \in Native!Threads PROVE Work(t)'
  <2>1. Waited(t)' = Waited(t) /\ Collected(t)' = Collected(t) /\ (Distinct(futures[t])' <=> Distinct(futures[t]))
        /\ (Active(t)' <=> Active(t))
    BY DEF Waited, Collected, Distinct, Active
  <2>2. Once(Counted(t))' = Once(Counted(t))
    BY <2>1 DEF Counted, Once, Below, Closed
  <2> QED BY <2>1, <2>2 DEF Work
<1> QED BY <1>1, <1>3, <1>4

LEMMA FjSame == ASSUME FjInv, UNCHANGED <<sub, fjVars>> PROVE FjInv'
<1>1. \A d : Once(Below(d))' = Once(Below(d))
  BY DEF Once, Below, Closed
<1> QED BY <1>1 DEF FjInv, fjVars, Fj!NoTotal

LEMMA BfsTree == ASSUME Bfs!Next PROVE sub' = sub
BY DEF Bfs!Next, Bfs!PoolStep, Bfs!MainStep, Bfs!Submit, Bfs!Clear, Bfs!ReturnTotal, Bfs!Get, Bfs!Level,
       Bfs!Shutdown, Bfs!GetTimeout, Bfs!Take, Bfs!Finish

LEMMA NativeTree == ASSUME Native!Next PROVE sub' = sub
BY DEF Native!Next, Native!ProgramStep, Native!TimeoutStep, Native!TakeAny, Native!Step, Native!Begin,
       Native!Take, Native!Submit, Native!Rejected, Native!SubmitDone, Native!Get, Native!GetFailed,
       Native!GetTimeout, Native!Finish, Native!Shutdown

LEMMA FjTree == ASSUME Fj!Next PROVE sub' = sub
BY DEF Fj!Next, Fj!Run, Fj!InvokeAll, Fj!Finish, Fj!ReturnTotal

LEMMA SizesStep == ASSUME SizesInv, [Next]_vars PROVE SizesInv' /\ [Query!Next]_(Query!queryVars)
<1> USE DEF SizesInv
<1>1. CASE OnlyBfs /\ Bfs!Next
  <2>1. program = "Concurrent" /\ program' = program /\ UNCHANGED <<sub, nativeVars, fjVars>>
    BY <1>1, BfsTree DEF OnlyBfs
  <2>2. BfsInv' /\ NativeInv' /\ FjInv' /\ TreeInv'
    BY <1>1, <2>1, BfsNext, NativeSame, FjSame, SameTree
  <2> QED BY <1>1, <2>1, <2>2, BfsQuery
<1>2. CASE OnlyNative /\ Native!Next
  <2>1. program = "NativeConcurrent" /\ program' = program /\ UNCHANGED <<sub, bfsVars, fjVars>>
    BY <1>2, NativeTree DEF OnlyNative
  <2>2. BfsInv' /\ NativeInv' /\ FjInv' /\ TreeInv'
    BY <1>2, <2>1, NativeNext, BfsSame, FjSame, SameTree
  <2> QED BY <1>2, <2>1, <2>2, NativeQuery
<1>3. CASE OnlyFj /\ Fj!Next
  <2>1. program = "ConcurrentForkjoin" /\ program' = program /\ UNCHANGED <<sub, bfsVars, nativeVars>>
    BY <1>3, FjTree DEF OnlyFj
  <2>2. BfsInv' /\ NativeInv' /\ FjInv' /\ TreeInv'
    BY <1>3, <2>1, FjNext, BfsSame, NativeSame, SameTree
  <2> QED BY <1>3, <2>1, <2>2, FjQuery
<1>4. CASE UNCHANGED vars
  <2>1. program' = program /\ UNCHANGED <<sub, bfsVars, nativeVars, fjVars>>
    BY <1>4 DEF vars
  <2>2. SizesInv'
    BY <2>1, BfsSame, NativeSame, FjSame, SameTree
  <2>3. UNCHANGED Query!queryVars
    BY <2>1 DEF Query!queryVars, bfsVars, nativeVars, fjVars, Phase, Bfs!Phase, Bfs!Answer, Bfs!Excuse,
                Native!Phase, Native!Answer, Native!Excuse, Fj!Phase, Fj!Answer
  <2> QED BY <2>2, <2>3
<1> QED BY <1>1, <1>2, <1>3, <1>4 DEF Next

LEMMA InitQuery == Init => Query!Init
<1> SUFFICES ASSUME Init PROVE Query!Init
  OBVIOUS
<1>1. /\ program \in {"Concurrent", "NativeConcurrent", "ConcurrentForkjoin"}
      /\ bfsPc = "submit" /\ bfsOutcome = "none" /\ pc[Main] = "start" /\ timedOut = FALSE
      /\ fjTotal = Fj!NoTotal
  BY DEF Init, Bfs!Init, Native!Init, Native!Threads, Fj!Init
<1>2. Bfs!Nothing = Query!Nothing /\ Native!Nothing = Query!Nothing /\ Fj!Nothing = Query!Nothing
  BY DEF Bfs!Nothing, Native!Nothing, Fj!Nothing, Query!Nothing
<1> QED BY <1>1, <1>2 DEF Query!Init, Phase, Bfs!Phase, Bfs!Answer, Bfs!Excuse, Native!Phase, Native!Answer,
                          Native!Excuse, Fj!Phase, Fj!Answer

\* Why the three queries are exact, for every tree and every number of pool threads: the levels and
\* futures of the breadth-first one, the tasks of the native one and what they have collected, and
\* what finished fork/join tasks returned.
THEOREM SizesInvariant == Spec => []SizesInv
<1>1. Init => SizesInv
  BY InitTree, InitBfs, InitNative, InitFj DEF SizesInv, Init
<1>2. SizesInv /\ [Next]_vars => SizesInv'
  BY SizesStep
<1> QED BY <1>1, <1>2, PTL DEF Spec

\* getTotalSizeOfFile implements SizeQuery whichever of the three is asked: it returns
\* once, with every directory counted exactly once, or it throws, and only after a wait
\* that timed out; fork/join never throws.
THEOREM Refinement == Spec => ImplementsSizeQuery
<1>1. Init => Query!Init
  BY InitQuery
<1>2. SizesInv /\ [Next]_vars => [Query!Next]_(Query!queryVars)
  BY SizesStep
<1> QED BY <1>1, <1>2, SizesInvariant, PTL DEF Spec, ImplementsSizeQuery, Query!Spec

-----------------------------------------------------------------------------
(* Who starves in the native version. *)

\* A future is running because a pool thread is in its task.
Runners == \A d \in Dir : future[d] = "running" => \E w \in Workers : Active(w) /\ file[w] = d

LEMMA RunnersStay ==
    ASSUME Runners,
           \A d \in Dir : future'[d] = "running" => future[d] = "running",
           \A w \in Workers : Active(w) /\ future'[file[w]] = "running" => Active(w)' /\ file'[w] = file[w]
    PROVE  Runners'
BY DEF Runners

LEMMA RunnersLeave ==
    ASSUME NativeInv, Runners, NEW t \in Native!Threads, Active(t), UNCHANGED file,
           IF t = Main THEN pc' = [pc EXCEPT ![Main] = "finally"] /\ UNCHANGED future
           ELSE /\ pc' = [pc EXCEPT ![t] = "idle"]
                /\ \E how \in {"done", "failed"} : future' = [future EXCEPT ![file[t]] = how]
    PROVE  Runners'
<1>0. pc \in [Native!Threads -> {"start", "idle", "submit", "get", "finally", "done"}] /\ Workers \subseteq Native!Threads
      /\ future \in [Dir -> {"none", "queued", "running", "done", "failed"}] /\ \A w \in Workers : file[w] \in Dir
  BY DEF NativeInv, NativeType, Native!Threads
<1>1. CASE t = Main
  <2>1. \A w \in Workers : pc'[w] = pc[w]
    BY <1>0, <1>1, ThreadAssumption
  <2> QED BY <1>1, <2>1, RunnersStay DEF Active
<1>2. CASE t # Main
  <2>1. \A w \in Workers \ {t} : pc'[w] = pc[w]
    BY <1>0, <1>2
  <2>2. \A d \in Dir : future'[d] = "running" => future[d] = "running" /\ d # file[t]
    BY <1>0, <1>2
  <2>3. \A w \in Workers : Active(w) /\ future'[file[w]] = "running" => w # t
    BY <1>0, <2>2
  <2> QED BY <2>1, <2>2, <2>3, RunnersStay DEF Active
<1> QED BY <1>1, <1>2

LEMMA RunnersNext == ASSUME TreeInv, NativeInv, Runners, Native!Next PROVE Runners'
<1>0. /\ pc \in [Native!Threads -> {"start", "idle", "submit", "get", "finally", "done"}]
      /\ Workers \subseteq Native!Threads /\ Main \in Native!Threads
      /\ file \in [Native!Threads -> Dir]
      /\ future \in [Dir -> {"none", "queued", "running", "done", "failed"}]
  BY DEF NativeInv, NativeType, Native!Threads
<1>1. CASE Native!Begin
  <2>1. UNCHANGED future /\ \A w \in Workers : pc'[w] = pc[w] /\ file'[w] = file[w]
    BY <1>0, <1>1, ThreadAssumption DEF Native!Begin, Native!Enter
  <2> QED BY <2>1, RunnersStay DEF Active
<1>2. ASSUME NEW w \in Workers, NEW d \in Dir, Native!Take(w, d) PROVE Runners'
  <2>1. /\ pc[w] = "idle" /\ pc'[w] = "submit" /\ file'[w] = d
        /\ \A u \in Workers \ {w} : pc'[u] = pc[u] /\ file'[u] = file[u]
        /\ \A e \in Dir : future'[e] = IF e = d THEN "running" ELSE future[e]
    BY <1>0, <1>2 DEF Native!Take, Native!Enter
  <2>2. ASSUME NEW e \in Dir, future'[e] = "running" PROVE \E u \in Workers : Active(u)' /\ file'[u] = e
    <3>1. CASE e = d
      BY <2>1, <3>1 DEF Active
    <3>2. CASE e # d
      <4>1. PICK u \in Workers : Active(u) /\ file[u] = e
        BY <2>1, <2>2, <3>2 DEF Runners
      <4> QED BY <2>1, <4>1 DEF Active
    <3> QED BY <3>1, <3>2
  <2> QED BY <2>2 DEF Runners
<1>3. CASE Native!Shutdown
  <2>1. UNCHANGED <<future, file>> /\ \A w \in Workers : pc'[w] = pc[w]
    BY <1>0, <1>3, ThreadAssumption DEF Native!Shutdown
  <2> QED BY <2>1, RunnersStay DEF Active
<1>4. ASSUME NEW t \in Native!Threads, Native!Rejected(t) \/ Native!GetFailed(t) \/ Native!GetTimeout(t)
      PROVE  Runners'
  <2>1. Active(t) /\ Native!Throw(t) /\ UNCHANGED file
    BY <1>4 DEF Native!Rejected, Native!GetFailed, Native!GetTimeout, Active
  <2> QED BY <2>1, RunnersLeave DEF Native!Throw
<1>5. ASSUME NEW t \in Native!Threads, Native!Finish(t) PROVE Runners'
  <2>1. Active(t) /\ UNCHANGED file
    BY <1>5 DEF Native!Finish, Active
  <2> QED BY <1>5, <2>1, RunnersLeave DEF Native!Finish
<1>6. ASSUME NEW t \in Native!Threads, NEW c \in Dir, Native!Submit(t, c) PROVE Runners'
  <2>1. UNCHANGED <<pc, file>> /\ future' = [future EXCEPT ![c] = "queued"]
    BY <1>6 DEF Native!Submit
  <2> QED BY <1>0, <2>1, RunnersStay DEF Active
<1>7. ASSUME NEW t \in Native!Threads, Native!SubmitDone(t) \/ Native!Get(t) PROVE Runners'
  <2>1. UNCHANGED <<future, file>> /\ \A w \in Workers : pc'[w] = pc[w] \/ pc'[w] = "get"
    BY <1>0, <1>7 DEF Native!SubmitDone, Native!Get
  <2> QED BY <2>1, RunnersStay DEF Active
<1> QED BY <1>1, <1>2, <1>3, <1>4, <1>5, <1>6, <1>7
        DEF Native!Next, Native!ProgramStep, Native!TimeoutStep, Native!TakeAny, Native!Step

\* Some directory of a set has none of the set below it.
LEMMA Lowest ==
    ASSUME TreeInv, NEW A \in SUBSET Dir, A # {}
    PROVE  \E d \in A : sub[d] \cap A = {}
<1> DEFINE T == {Below(d) : d \in A}
<1>1. IsWellFoundedOn(StrictSubsetOrdering(Dir), FiniteSubsetsOf(Dir)) /\ FiniteSubsetsOf(Dir) = SUBSET Dir
  BY FS_StrictSubsetOrderingWellFounded, FS_FiniteSubsetsOfFinite, TreeAssumption
<1>2. T # {} /\ T \subseteq SUBSET Dir
  BY BelowLeast
<1> HIDE DEF T
<1>3. PICK x \in T : \A y \in T : <<y, x>> \notin StrictSubsetOrdering(Dir)
  <2>1. IsWellFoundedOn(StrictSubsetOrdering(Dir), SUBSET Dir)
    BY <1>1
  <2> QED BY <1>2, <2>1, WFMin
<1>4. PICK d \in A : x = Below(d)
  BY <1>3 DEF T
<1>5. ASSUME NEW c \in sub[d] \cap A PROVE FALSE
  <2>1. d \notin Below(c) /\ c \in Dir
    BY NoCycle
  <2>2. Below(c) \subseteq Below(d) /\ d \in Below(d) /\ Below(d) \subseteq Dir
    BY <2>1, BelowLeast DEF Closed
  <2>3. Below(c) \in T /\ <<Below(c), x>> \in StrictSubsetOrdering(Dir)
    BY <1>4, <2>1, <2>2 DEF T, StrictSubsetOrdering
  <2> QED BY <1>3, <2>3
<1> QED BY <1>5

LEMMA StarvedNested == ASSUME TreeInv, NativeInv, Runners PROVE StarvedOnlyByNesting
<1> SUFFICES ASSUME Native!Starved
             PROVE  /\ \A w \in Workers : pc[w] = "get" /\ sub[file[w]] # {}
                    /\ Cardinality({d \in Dir \ {Root} : sub[d] # {}}) >= Cardinality(Workers)
  BY DEF StarvedOnlyByNesting, Native!StarvedOnlyByNesting, Native!Cardinality, Cardinality
<1>0. Main \in Native!Threads /\ Workers \subseteq Native!Threads /\ Main \notin Workers
  BY ThreadAssumption DEF Native!Threads
<1>1. ASSUME NEW t \in Native!Threads, Native!Waits(t)
      PROVE  /\ Active(t) /\ file[t] \in Dir
             /\ \E c \in sub[file[t]] : c \in Dir /\ future[c] \in {"queued", "running"}
  <2>1. futures[t] \in Seq(Dir) /\ futures[t] # <<>> /\ Active(t) /\ file[t] \in Dir
    BY <1>1 DEF NativeInv, NativeType, Native!Waits, Active
  <2>2. Head(futures[t]) \in Waited(t) /\ Head(futures[t]) \in Dir
    BY <2>1 DEF Waited
  <2> QED BY <1>1, <2>1, <2>2 DEF NativeInv, Work, Native!Waits
<1>2. ASSUME NEW v \in Workers, Native!NoTask(v) PROVE FALSE
  <2> DEFINE A == {d \in Dir : \E t \in Native!Threads : Native!Waits(t) /\ file[t] = d}
  <2>1. file[Main] \in A
    BY <1>0, <1>1 DEF Native!Starved
  <2>2. PICK d \in A : sub[d] \cap A = {}
    BY <2>1, Lowest
  <2>3. PICK t \in Native!Threads : Native!Waits(t) /\ file[t] = d
    OBVIOUS
  <2>4. PICK c \in sub[d] : c \in Dir /\ future[c] = "running"
    BY <1>1, <1>2, <2>3 DEF Native!NoTask
  <2>5. PICK w \in Workers : Active(w) /\ file[w] = c
    BY <2>4 DEF Runners
  <2>6. Native!Waits(w)
    BY <2>5 DEF Native!Starved, Native!NoTask, Active
  <2> QED BY <1>0, <2>2, <2>4, <2>5, <2>6
<1>3. \A w \in Workers : Native!Waits(w)
  BY <1>2 DEF Native!Starved
<1>4. ASSUME NEW w \in Workers
      PROVE  pc[w] = "get" /\ sub[file[w]] # {} /\ file[w] \in Dir \ {Root} /\ Active(w)
  <2>1. Active(w) /\ file[w] \in Dir /\ sub[file[w]] # {} /\ pc[w] = "get"
    BY <1>0, <1>1, <1>3 DEF Native!Waits
  <2> QED BY <1>0, <2>1 DEF NativeInv, Places
<1>5. Cardinality({d \in Dir \ {Root} : sub[d] # {}}) >= Cardinality(Workers)
  <2> DEFINE I == {d \in Dir \ {Root} : sub[d] # {}}
             f == [w \in Workers |-> file[w]]
  <2>1. IsFiniteSet(I)
    BY TreeAssumption, FS_Subset
  <2>2. f \in Injection(Workers, I)
    <3>1. f \in [Workers -> I]
      BY <1>4
    <3>2. \A v, w \in Workers : f[v] = f[w] => v = w
      BY <1>0, <1>4 DEF NativeInv, Places
    <3> QED BY <3>1, <3>2 DEF Injection, IsInjective
  <2> HIDE DEF I, f
  <2>3. Cardinality(Workers) <= Cardinality(I) /\ IsFiniteSet(Workers)
    BY <2>1, <2>2, FS_Injection
  <2>4. Cardinality(Workers) \in Nat /\ Cardinality(I) \in Nat
    BY <2>1, <2>3, FS_CardinalityType
  <2> QED BY <2>3, <2>4 DEF I
<1> QED BY <1>4, <1>5

\* The deadlock TotalFileSizeNativeConcurrent's class comment warns of, in any pool and on any
\* tree: everyone waits only if every pool thread is in a directory of its own that has children.
\* With more threads than there are such directories below the root the query cannot starve.
THEOREM StarvationIsNesting == Spec => []StarvedOnlyByNesting
<1>1. Init => Runners
  BY TreeAssumption DEF Init, Native!Init, Runners
<1>2. SizesInv /\ Runners /\ [Next]_vars => Runners'
  <2> SUFFICES ASSUME SizesInv, Runners, [Next]_vars PROVE Runners'
    OBVIOUS
  <2>1. CASE OnlyNative /\ Native!Next
    BY <2>1, RunnersNext DEF SizesInv
  <2>2. CASE UNCHANGED nativeVars
    BY <2>2 DEF nativeVars, Runners, Active
  <2> QED BY <2>1, <2>2 DEF Next, OnlyBfs, OnlyFj, vars
<1>3. SizesInv /\ Runners => StarvedOnlyByNesting
  BY StarvedNested DEF SizesInv
<1> QED BY <1>1, <1>2, <1>3, SizesInvariant, PTL DEF Spec
=============================================================================
