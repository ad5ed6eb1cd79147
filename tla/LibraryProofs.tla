---------------------------- MODULE LibraryProofs ----------------------------
(***************************************************************************)
(* Proofs about the libraries of the console's pages.  MochiKit: handlers  *)
(* call it again from within its loops, for every number of observers,     *)
(* listeners and messages, and any calls between two steps of a loop.      *)
(* PlotKit: render and clear, which wait for a canvas, for any charts,     *)
(* number of tries and calls.                                              *)
(***************************************************************************)
EXTENDS MochiKitSignal, MochiKitLogging, PlotKitCanvas, FiniteSetTheorems, SequenceTheorems, TLAPS

LEMMA EmptyDomain == DOMAIN <<>> = {}
OBVIOUS

-----------------------------------------------------------------------------
(* MochiKit.Signal: the list of observers.                                 *)

Observer == [id : Nat \ {0}, src : Elements \union Objects, sig : Sig, func : Func]

Deliveries ==
    [src : Elements \union Objects \union {"none"}, sig : Sig \union {"none"}, over : BOOLEAN,
     at : Nat \ {0}, called : Seq(Nat), before : SUBSET Nat, removed : Nat]

Clearings == [at : Nat, src : Elements \union Objects \union {"none"}, sigs : SUBSET Sig]

SignalType ==
    /\ observers \in Seq(Observer)
    /\ unloaded \in Nat /\ made \in Nat
    /\ listening \in [Elements -> SUBSET Observer]
    /\ clearing \in Clearings
    /\ sending \in Deliveries

\* The observers are in the order they were connected in, and each is there once.
ListInOrder ==
    /\ \A i, j \in 1 .. Len(observers) : i < j => observers[i].id < observers[j].id
    /\ \A i \in 1 .. Len(observers) : observers[i].id <= made
    /\ clearing.at <= Len(observers)
    /\ unloaded > 0 => observers = <<>> /\ unloaded <= made + 1

\* Those the loop of a signal has still to come to.
Coming == {observers[k].id : k \in sending.at .. Len(observers)}

\* The loop: it has called those it called in order, all of them before those it will come to;
\* and it misses at most one for each that was disconnected.
SignalLoop ==
    ~sending.over =>
        /\ \A i \in 1 .. Len(sending.called) : sending.called[i] <= made
        /\ \A i \in 1 .. Len(sending.called) : \A x \in Coming : sending.called[i] < x
        /\ \A x \in sending.before : x <= made
        /\ \A k \in 1 .. Len(observers) :
              observers[k].id \in sending.before => Matches(observers[k], sending.src, sending.sig)
        /\ Cardinality(sending.before \ (Range(sending.called) \union Coming)) <= sending.removed

SignalInv ==
    SignalType /\ ListInOrder /\ ListenersRecorded /\ SignalLoop /\ DeliveredOnce

LEMMA RemoveAtExact ==
    ASSUME NEW S, NEW s \in Seq(S), NEW i \in 1 .. Len(s)
    PROVE  /\ RemoveAt(s, i) \in Seq(S)
           /\ Len(RemoveAt(s, i)) = Len(s) - 1
           /\ \A j \in 1 .. Len(s) - 1 : RemoveAt(s, i)[j] = IF j < i THEN s[j] ELSE s[j + 1]
<1> DEFINE front == SubSeq(s, 1, i - 1)
           back  == SubSeq(s, i + 1, Len(s))
<1>1. Len(s) \in Nat /\ \A j \in 1 .. Len(s) : s[j] \in S
  BY LenProperties, ElementOfSeq
<1>2. /\ front \in Seq(S) /\ Len(front) = i - 1
      /\ \A j \in 1 .. i - 1 : front[j] = s[j]
  <2>1. \A j \in 1 .. i - 1 : s[j] \in S
    BY <1>1
  <2>2. /\ SubSeq(s, 1, i - 1) \in Seq(S)
        /\ Len(SubSeq(s, 1, i - 1)) = IF 1 <= i - 1 THEN (i - 1) - 1 + 1 ELSE 0
        /\ \A j \in 1 .. (i - 1) - 1 + 1 : SubSeq(s, 1, i - 1)[j] = s[1 + j - 1]
    BY <1>1, <2>1, SubSeqProperties
  <2> QED BY <1>1, <2>2
<1>3. /\ back \in Seq(S) /\ Len(back) = Len(s) - i
      /\ \A j \in 1 .. Len(s) - i : back[j] = s[i + j]
  <2>1. \A j \in i + 1 .. Len(s) : s[j] \in S
    BY <1>1
  <2>2. /\ SubSeq(s, i + 1, Len(s)) \in Seq(S)
        /\ Len(SubSeq(s, i + 1, Len(s))) = IF i + 1 <= Len(s) THEN Len(s) - (i + 1) + 1 ELSE 0
        /\ \A j \in 1 .. Len(s) - (i + 1) + 1 : SubSeq(s, i + 1, Len(s))[j] = s[(i + 1) + j - 1]
    BY <1>1, <2>1, SubSeqProperties
  <2> QED BY <1>1, <2>2
<1>4. RemoveAt(s, i) = front \o back
  BY DEF RemoveAt
<1> HIDE DEF front, back
<1>5. /\ front \o back \in Seq(S) /\ Len(front \o back) = Len(front) + Len(back)
      /\ \A j \in 1 .. Len(front) + Len(back) :
            (front \o back)[j] = IF j <= Len(front) THEN front[j] ELSE back[j - Len(front)]
  BY <1>2, <1>3, ConcatProperties
<1>6. ASSUME NEW j \in 1 .. Len(s) - 1
      PROVE  (front \o back)[j] = IF j < i THEN s[j] ELSE s[j + 1]
  <2>1. CASE j < i
    BY <1>1, <1>2, <1>3, <1>5, <2>1
  <2>2. CASE ~(j < i)
    <3>1. (front \o back)[j] = back[j - (i - 1)] /\ j - (i - 1) \in 1 .. Len(s) - i
      BY <1>1, <1>2, <1>3, <1>5, <2>2
    <3>2. back[j - (i - 1)] = s[i + (j - (i - 1))] /\ i + (j - (i - 1)) = j + 1
      BY <1>1, <1>3, <3>1
    <3> QED BY <2>2, <3>1, <3>2
  <2> QED BY <2>1, <2>2
<1> QED BY <1>1, <1>2, <1>3, <1>4, <1>5, <1>6

\* No signal is like one that is over.
LEMMA NoSignalExact ==
    /\ NoSignal \in Deliveries
    /\ NoSignal.over = TRUE /\ NoSignal.called = <<>> /\ NoSignal.before = {}
    /\ NoSignal.removed = 0 /\ DOMAIN NoSignal.called = {}
    /\ Cardinality(NoSignal.before \ Range(NoSignal.called)) <= NoSignal.removed
<1>1. /\ NoSignal.over = TRUE /\ NoSignal.at = 1 /\ NoSignal.called = <<>> /\ NoSignal.before = {}
      /\ NoSignal.removed = 0 /\ NoSignal.src = "none" /\ NoSignal.sig = "none"
  BY DEF NoSignal
<1>2. NoSignal \in Deliveries
  <2>1. /\ "none" \in Elements \union Objects \union {"none"} /\ "none" \in Sig \union {"none"}
        /\ TRUE \in BOOLEAN /\ 1 \in Nat \ {0} /\ <<>> \in Seq(Nat) /\ {} \in SUBSET Nat /\ 0 \in Nat
    OBVIOUS
  <2> QED BY <2>1 DEF NoSignal, Deliveries
<1>3. Cardinality({} \ Range(<<>>)) <= 0
  BY FS_EmptySet
<1> QED BY <1>1, <1>2, <1>3, EmptyDomain

LEMMA NoSignalKeeps ==
    ASSUME sending' = NoSignal
    PROVE  sending' \in Deliveries /\ SignalLoop' /\ DeliveredOnce'
<1>1. SignalLoop'
  BY NoSignalExact DEF SignalLoop
<1>2. DeliveredOnce'
  BY NoSignalExact DEF DeliveredOnce
<1> QED BY <1>1, <1>2, NoSignalExact

LEMMA SignalInitially == SignalInit => SignalInv
<1> SUFFICES ASSUME SignalInit PROVE SignalInv
  OBVIOUS
<1>1. /\ observers = <<>> /\ unloaded = 0 /\ made = 0
      /\ listening = [e \in Elements |-> {}]
      /\ sending = NoSignal /\ clearing = NoClearing
  BY DEF SignalInit
<1>2. /\ <<>> \in Seq(Observer) /\ <<>> \in Seq(Nat) /\ Len(<<>>) = 0
  OBVIOUS
<1>3. NoClearing.at = 0 /\ NoClearing \in Clearings
  BY DEF NoClearing, Clearings
<1>4. SignalType
  <2>1. listening \in [Elements -> SUBSET Observer]
    BY <1>1
  <2> QED BY <1>1, <1>2, <1>3, <2>1, NoSignalExact DEF SignalType
<1>5. ListInOrder
  BY <1>1, <1>2, <1>3 DEF ListInOrder
<1>6. ListenersRecorded
  <2>1. Range(observers) = {}
    BY <1>1, EmptyDomain DEF Range
  <2> QED BY <1>1, <2>1 DEF ListenersRecorded
<1>7. DeliveredOnce
  BY <1>1, NoSignalExact DEF DeliveredOnce
<1>8. SignalLoop
  BY <1>1, NoSignalExact DEF SignalLoop
<1> QED BY <1>4, <1>5, <1>6, <1>7, <1>8 DEF SignalInv

LEMMA ListType ==
    ASSUME SignalInv
    PROVE  /\ Len(observers) \in Nat /\ DOMAIN observers = 1 .. Len(observers)
           /\ \A k \in 1 .. Len(observers) : observers[k] \in Observer /\ observers[k].id \in Nat \ {0}
<1>1. observers \in Seq(Observer)
  BY DEF SignalInv, SignalType
<1>2. \A o \in Observer : o.id \in Nat \ {0}
  BY DEF Observer
<1> QED BY <1>1, <1>2, LenProperties, ElementOfSeq

\* Somebody goes: what the list and the browser have is still the same.
LEMMA DisconnectedList ==
    ASSUME SignalInv, NEW i \in 1 .. Len(observers), Disconnected(i), UNCHANGED <<unloaded, made>>,
           clearing' \in Clearings, clearing'.at <= Len(observers) - 1
    PROVE  /\ observers' \in Seq(Observer) /\ listening' \in [Elements -> SUBSET Observer]
           /\ ListInOrder' /\ ListenersRecorded'
           /\ Len(observers') = Len(observers) - 1
           /\ \A j \in 1 .. Len(observers) - 1 :
                 observers'[j] = IF j < i THEN observers[j] ELSE observers[j + 1]
<1> DEFINE o == observers[i]
<1>0. Len(observers) \in Nat /\ \A k \in 1 .. Len(observers) : observers[k] \in Observer
  BY ListType
<1>1. observers \in Seq(Observer) /\ observers' = RemoveAt(observers, i)
  BY DEF SignalInv, SignalType, Disconnected
<1>2. /\ observers' \in Seq(Observer) /\ Len(observers') = Len(observers) - 1
      /\ \A j \in 1 .. Len(observers) - 1 :
            observers'[j] = IF j < i THEN observers[j] ELSE observers[j + 1]
  BY <1>1, RemoveAtExact
<1>3. /\ \A j, k \in 1 .. Len(observers) : j < k => observers[j].id < observers[k].id
      /\ \A j \in 1 .. Len(observers) : observers[j].id <= made
  BY DEF SignalInv, ListInOrder
<1>4. unloaded = 0 /\ unloaded' = 0 /\ made' = made
  <2>1. observers # <<>>
    BY <1>0
  <2> QED BY <2>1 DEF SignalInv, ListInOrder, SignalType
<1>5. ListInOrder'
  <2>1. ASSUME NEW j \in 1 .. Len(observers'), NEW k \in 1 .. Len(observers'), j < k
        PROVE  observers'[j].id < observers'[k].id
    <3> DEFINE before(n) == IF n < i THEN n ELSE n + 1
    <3>1. /\ before(j) \in 1 .. Len(observers) /\ before(k) \in 1 .. Len(observers)
          /\ before(j) < before(k)
      BY <1>0, <1>2, <2>1
    <3>2. observers'[j] = observers[before(j)] /\ observers'[k] = observers[before(k)]
      BY <1>2, <2>1
    <3> QED BY <1>3, <3>1, <3>2
  <2>2. ASSUME NEW j \in 1 .. Len(observers')
        PROVE  observers'[j].id <= made
    <3>1. j \in 1 .. Len(observers) /\ j + 1 \in 1 .. Len(observers) /\ j \in 1 .. Len(observers) - 1
      BY <1>0, <1>2
    <3> QED BY <1>2, <1>3, <3>1
  <2> QED BY <1>2, <1>4, <2>1, <2>2 DEF ListInOrder
<1>6. Range(observers') = Range(observers) \ {o}
  <2>1. DOMAIN observers = 1 .. Len(observers) /\ DOMAIN observers' = 1 .. Len(observers) - 1
    BY <1>1, <1>2, LenProperties
  <2>2. ASSUME NEW j \in 1 .. Len(observers) - 1 PROVE observers'[j] \in Range(observers) \ {o}
    <3>1. CASE j < i
      <4>1. j \in 1 .. Len(observers) /\ observers'[j] = observers[j]
        BY <1>0, <1>2, <3>1
      <4>2. observers[j].id < o.id /\ o.id \in Nat
        BY <1>3, <3>1, <4>1, ListType
      <4> QED BY <2>1, <4>1, <4>2 DEF Range
    <3>2. CASE ~(j < i)
      <4>1. j + 1 \in 1 .. Len(observers) /\ i < j + 1 /\ observers'[j] = observers[j + 1]
        BY <1>0, <1>2, <3>2
      <4>2. o.id < observers[j + 1].id /\ o.id \in Nat
        BY <1>3, <4>1, ListType
      <4> QED BY <2>1, <4>1, <4>2 DEF Range
    <3> QED BY <3>1, <3>2
  <2>3. ASSUME NEW j \in 1 .. Len(observers), observers[j] # o PROVE observers[j] \in Range(observers')
    <3>1. CASE j < i
      <4>1. j \in 1 .. Len(observers) - 1 /\ observers'[j] = observers[j]
        BY <1>0, <1>2, <3>1
      <4> QED BY <2>1, <4>1 DEF Range
    <3>2. CASE i < j
      <4>1. j - 1 \in 1 .. Len(observers) - 1 /\ ~(j - 1 < i) /\ (j - 1) + 1 = j
        BY <1>0, <3>2
      <4>2. observers'[j - 1] = observers[j]
        BY <1>2, <4>1
      <4> QED BY <2>1, <4>1, <4>2 DEF Range
    <3> QED BY <1>0, <2>3, <3>1, <3>2
  <2> QED BY <2>1, <2>2, <2>3 DEF Range
<1>7. listening \in [Elements -> SUBSET Observer]
      /\ \A e \in Elements : listening[e] = {p \in Range(observers) : p.src = e}
  BY <1>4 DEF SignalInv, SignalType, ListenersRecorded
<1>8. listening' = IF o.src \in Elements THEN [listening EXCEPT ![o.src] = @ \ {o}] ELSE listening
  BY DEF Disconnected, Unlistened
<1>9. listening' \in [Elements -> SUBSET Observer]
  BY <1>7, <1>8
<1>10. ASSUME NEW e \in Elements PROVE listening'[e] = {p \in Range(observers') : p.src = e}
  <2> HIDE DEF o
  <2>1. CASE o.src = e
    <3>1. listening'[e] = listening[e] \ {o}
      BY <1>7, <1>8, <2>1
    <3> QED BY <1>6, <1>7, <3>1
  <2>2. CASE o.src # e
    <3>1. listening'[e] = listening[e]
      BY <1>7, <1>8, <2>2
    <3> QED BY <1>6, <1>7, <2>2, <3>1
  <2> QED BY <2>1, <2>2
<1>11. ListenersRecorded'
  BY <1>4, <1>10 DEF ListenersRecorded
<1> QED BY <1>2, <1>5, <1>9, <1>11

LEMMA OneMoreMissed ==
    ASSUME NEW A, NEW B, NEW x, IsFiniteSet(A), B \subseteq A \union {x}
    PROVE  IsFiniteSet(B) /\ Cardinality(B) <= Cardinality(A) + 1
<1>1. /\ IsFiniteSet(A \union {x}) /\ Cardinality(A \union {x}) <= Cardinality(A) + 1
      /\ Cardinality(A) \in Nat /\ Cardinality(A \union {x}) \in Nat
  BY FS_AddElement, FS_CardinalityType
<1>2. IsFiniteSet(B) /\ Cardinality(B) <= Cardinality(A \union {x}) /\ Cardinality(B) \in Nat
  BY <1>1, FS_Subset, FS_CardinalityType
<1> QED BY <1>1, <1>2

LEMMA FewerMissed ==
    ASSUME NEW A, NEW B, IsFiniteSet(A), B \subseteq A
    PROVE  IsFiniteSet(B) /\ Cardinality(B) <= Cardinality(A) /\ Cardinality(A) \in Nat
           /\ Cardinality(B) \in Nat
BY FS_Subset, FS_CardinalityType

LEMMA BeforeIsFinite ==
    ASSUME SignalInv, ~sending.over
    PROVE  /\ \A T \in SUBSET sending.before : IsFiniteSet(T) /\ Cardinality(T) \in Nat
           /\ sending.removed \in Nat /\ sending.at \in Nat \ {0} /\ sending.before \in SUBSET Nat
           /\ sending.called \in Seq(Nat) /\ made \in Nat
<1>1. /\ sending.before \in SUBSET Nat /\ sending.removed \in Nat /\ sending.at \in Nat \ {0}
      /\ sending.called \in Seq(Nat) /\ made \in Nat
  BY DEF SignalInv, SignalType, Deliveries
<1>2. IsFiniteSet(sending.before)
  BY <1>1, FS_BoundedSetOfNaturals DEF SignalInv, SignalLoop
<1> QED BY <1>1, <1>2, FS_Subset, FS_CardinalityType

\* What a call of a handler does to the record of the signal it was called for.
LEMMA SendingKept ==
    ASSUME NEW n \in Nat, sending \in Deliveries, ~sending.over,
           sending' = [sending EXCEPT !.removed = @ + n]
    PROVE  /\ sending' \in Deliveries
           /\ sending'.removed = sending.removed + n /\ sending'.over = FALSE
           /\ sending'.called = sending.called /\ sending'.before = sending.before
           /\ sending'.at = sending.at /\ sending'.src = sending.src /\ sending'.sig = sending.sig
<1>1. sending.removed \in Nat /\ sending.over \in BOOLEAN
  BY DEF Deliveries
<1>2. sending.removed + n \in Nat
  BY <1>1
<1>3. sending' \in Deliveries
  BY <1>2 DEF Deliveries
<1>4. /\ sending'.removed = sending.removed + n /\ sending'.over = sending.over
      /\ sending'.called = sending.called /\ sending'.before = sending.before
      /\ sending'.at = sending.at /\ sending'.src = sending.src /\ sending'.sig = sending.sig
  BY DEF Deliveries
<1> QED BY <1>1, <1>3, <1>4

\* Somebody goes while a signal is delivered: those behind move up, and one at most is missed.
LEMMA DisconnectedLoop ==
    ASSUME SignalInv, NEW i \in 1 .. Len(observers), Disconnected(i), UNCHANGED made,
           Len(observers') = Len(observers) - 1,
           \A j \in 1 .. Len(observers) - 1 :
              observers'[j] = IF j < i THEN observers[j] ELSE observers[j + 1]
    PROVE  sending' \in Deliveries /\ SignalLoop' /\ DeliveredOnce'
<1>1. CASE sending.over
  BY <1>1, NoSignalKeeps DEF Disconnected, Sending
<1>2. CASE ~sending.over
  <2>1. sending' = [sending EXCEPT !.removed = @ + 1] /\ sending \in Deliveries
    BY <1>2 DEF Disconnected, Sending, SignalInv, SignalType
  <2>2. /\ sending'.removed = sending.removed + 1 /\ sending'.over = FALSE
        /\ sending'.called = sending.called /\ sending'.before = sending.before
        /\ sending'.at = sending.at /\ sending'.src = sending.src /\ sending'.sig = sending.sig
        /\ sending' \in Deliveries
    BY <1>2, <2>1, SendingKept
  <2>3. Len(observers) \in Nat /\ sending.at \in Nat \ {0}
    BY <1>2, ListType, BeforeIsFinite
  <2>4. ASSUME NEW j \in 1 .. Len(observers) - 1
        PROVE  \E m \in 1 .. Len(observers) : m >= j /\ observers'[j] = observers[m]
    <3>1. j \in 1 .. Len(observers) /\ j + 1 \in 1 .. Len(observers) /\ j + 1 >= j /\ j >= j
      BY <2>3
    <3>2. CASE j < i
      BY <3>1, <3>2
    <3>3. CASE ~(j < i)
      BY <3>1, <3>3
    <3> QED BY <3>2, <3>3
  <2>5. Coming' \subseteq Coming
    <3> SUFFICES ASSUME NEW j \in sending.at .. Len(observers) - 1
                 PROVE  observers'[j].id \in Coming
      BY <2>2 DEF Coming
    <3>1. j \in 1 .. Len(observers) - 1
      BY <2>3
    <3>2. PICK m \in 1 .. Len(observers) : m >= j /\ observers'[j] = observers[m]
      BY <2>4, <3>1
    <3>3. m \in sending.at .. Len(observers)
      BY <2>3, <3>2
    <3> QED BY <3>2, <3>3 DEF Coming
  <2>6. \E x : Coming \subseteq Coming' \union {x}
    <3> DEFINE x == IF i < sending.at THEN observers[sending.at].id ELSE observers[i].id
    <3>1. ASSUME NEW j \in sending.at .. Len(observers)
          PROVE  observers[j].id \in Coming' \union {x}
      <4>1. CASE (i < sending.at /\ j = sending.at) \/ (~(i < sending.at) /\ j = i)
        BY <4>1
      <4>2. CASE j > i /\ j > sending.at
        <5>1. j - 1 \in 1 .. Len(observers) - 1 /\ j - 1 \in sending.at .. Len(observers) - 1
              /\ ~(j - 1 < i) /\ (j - 1) + 1 = j
          BY <2>3, <4>2
        <5>2. observers'[j - 1] = observers[j]
          BY <5>1
        <5> QED BY <2>2, <5>1, <5>2 DEF Coming
      <4>3. CASE j < i
        <5>1. j \in 1 .. Len(observers) - 1 /\ j \in sending.at .. Len(observers) - 1
          BY <2>3, <4>3
        <5>2. observers'[j] = observers[j]
          BY <4>3, <5>1
        <5> QED BY <2>2, <5>1, <5>2 DEF Coming
      <4> QED BY <2>3, <4>1, <4>2, <4>3
    <3> HIDE DEF x
    <3>2. \A y \in Coming : \E j \in sending.at .. Len(observers) : y = observers[j].id
      BY DEF Coming
    <3>3. Coming \subseteq Coming' \union {x}
      BY <3>1, <3>2
    <3> QED BY <3>3
  <2>7. PICK x : Coming \subseteq Coming' \union {x}
    BY <2>6
  <2>8. /\ \A j \in 1 .. Len(sending.called) : sending.called[j] <= made
        /\ \A j \in 1 .. Len(sending.called) : \A y \in Coming : sending.called[j] < y
        /\ \A y \in sending.before : y <= made
        /\ \A j \in 1 .. Len(observers) :
              observers[j].id \in sending.before => Matches(observers[j], sending.src, sending.sig)
        /\ Cardinality(sending.before \ (Range(sending.called) \union Coming)) <= sending.removed
    BY <1>2 DEF SignalInv, SignalLoop
  <2>9. Cardinality(sending'.before \ (Range(sending'.called) \union Coming')) <= sending'.removed
    <3> DEFINE A == sending.before \ (Range(sending.called) \union Coming)
               B == sending'.before \ (Range(sending'.called) \union Coming')
    <3>1. IsFiniteSet(A) /\ Cardinality(A) \in Nat /\ sending.removed \in Nat
      BY <1>2, BeforeIsFinite
    <3>2. B \subseteq A \union {x}
      BY <2>2, <2>7
    <3>3. Cardinality(A) <= sending.removed
      BY <2>8
    <3>4. IsFiniteSet(B) /\ Cardinality(B) <= Cardinality(A) + 1
      <4> HIDE DEF A, B
      <4> QED BY <3>1, <3>2, OneMoreMissed
    <3>5. Cardinality(B) \in Nat
      BY <3>4, FS_CardinalityType
    <3> HIDE DEF A, B
    <3>6. Cardinality(B) <= sending.removed + 1
      BY <3>1, <3>3, <3>4, <3>5
    <3>7. Cardinality(B) <= sending'.removed
      BY <2>2, <3>6
    <3> QED BY <3>7 DEF B
  <2>10. \A j \in 1 .. Len(observers') :
           observers'[j].id \in sending.before => Matches(observers'[j], sending.src, sending.sig)
    BY <2>4, <2>8
  <2>11. SignalLoop'
    <3>1. \A j \in 1 .. Len(sending.called) : \A y \in Coming' : sending.called[j] < y
      BY <2>5, <2>8
    <3>2. \A j \in 1 .. Len(observers') :
             observers'[j].id \in sending'.before => Matches(observers'[j], sending'.src, sending'.sig)
      BY <2>2, <2>10
    <3>3. made' = made
      OBVIOUS
    <3> QED BY <2>2, <2>8, <2>9, <3>1, <3>2, <3>3 DEF SignalLoop, Matches
  <2>12. DeliveredOnce'
    BY <2>2 DEF SignalInv, DeliveredOnce
  <2> QED BY <2>2, <2>11, <2>12
<1> QED BY <1>1, <1>2

LEMMA DisconnectedExact ==
    ASSUME SignalInv, NEW i \in 1 .. Len(observers), Disconnected(i), UNCHANGED <<unloaded, made>>,
           clearing' \in Clearings, clearing'.at <= Len(observers) - 1
    PROVE  SignalInv'
<1>1. /\ observers' \in Seq(Observer) /\ listening' \in [Elements -> SUBSET Observer]
      /\ ListInOrder' /\ ListenersRecorded'
      /\ Len(observers') = Len(observers) - 1
      /\ \A j \in 1 .. Len(observers) - 1 :
            observers'[j] = IF j < i THEN observers[j] ELSE observers[j + 1]
  BY DisconnectedList
<1>2. sending' \in Deliveries /\ SignalLoop' /\ DeliveredOnce'
  BY <1>1, DisconnectedLoop
<1>3. unloaded' = unloaded /\ made' = made /\ unloaded \in Nat /\ made \in Nat
  BY DEF SignalInv, SignalType
<1> QED BY <1>1, <1>2, <1>3 DEF SignalInv, SignalType

\* A call that disconnects nobody: the signal that is delivered is as it was.
LEMMA SendingZero ==
    ASSUME SignalInv, Sending(0), ~sending.over
    PROVE  /\ sending' \in Deliveries
           /\ sending'.removed = sending.removed /\ sending'.over = FALSE
           /\ sending'.called = sending.called /\ sending'.before = sending.before
           /\ sending'.at = sending.at /\ sending'.src = sending.src /\ sending'.sig = sending.sig
           /\ DeliveredOnce'
<1>1. sending \in Deliveries /\ sending.removed \in Nat
  BY DEF SignalInv, SignalType, Deliveries
<1>2. sending' = [sending EXCEPT !.removed = @ + 0]
  BY DEF Sending
<1>3. /\ sending' \in Deliveries
      /\ sending'.removed = sending.removed + 0 /\ sending'.over = FALSE
      /\ sending'.called = sending.called /\ sending'.before = sending.before
      /\ sending'.at = sending.at /\ sending'.src = sending.src /\ sending'.sig = sending.sig
  BY <1>1, <1>2, SendingKept
<1>4. DeliveredOnce'
  BY <1>3 DEF SignalInv, DeliveredOnce
<1> QED BY <1>1, <1>3, <1>4

LEMMA ConnectList ==
    ASSUME SignalInv, NEW src \in Elements \union Objects, NEW sig \in Sig, NEW func \in Func,
           connect(src, sig, func)
    PROVE  SignalType' /\ ListInOrder' /\ ListenersRecorded'
<1> DEFINE o == [id |-> made + 1, src |-> src, sig |-> sig, func |-> func]
<1>1. /\ observers \in Seq(Observer) /\ made \in Nat /\ unloaded \in Nat
      /\ listening \in [Elements -> SUBSET Observer]
      /\ clearing \in Clearings /\ sending \in Deliveries
  BY DEF SignalInv, SignalType
<1>2. made + 1 \in Nat \ {0}
  BY <1>1
<1>3. o \in Observer /\ o.id = made + 1 /\ o.src = src
  BY <1>2 DEF Observer
<1> HIDE DEF o
<1>4. /\ clearing.at = 0 /\ made' = made + 1 /\ unloaded' = unloaded /\ clearing' = clearing
      /\ Sending(0)
      /\ listening' = IF src \in Elements THEN [listening EXCEPT ![src] = @ \union {o}] ELSE listening
      /\ observers' = IF unloaded > 0 THEN observers ELSE Append(observers, o)
  BY DEF connect, SignalCall, o
<1>5. sending' \in Deliveries
  BY <1>4, SendingZero, NoSignalKeeps DEF Sending
<1>6. /\ Append(observers, o) \in Seq(Observer) /\ Len(Append(observers, o)) = Len(observers) + 1
      /\ \A k \in 1 .. Len(observers) : Append(observers, o)[k] = observers[k]
      /\ Append(observers, o)[Len(observers) + 1] = o
  BY <1>1, <1>3, AppendProperties
<1>7. SignalType'
  <2>1. observers' \in Seq(Observer)
    BY <1>1, <1>4, <1>6
  <2>2. listening' \in [Elements -> SUBSET Observer]
    BY <1>1, <1>3, <1>4
  <2> QED BY <1>1, <1>2, <1>4, <1>5, <2>1, <2>2 DEF SignalType
<1>8. /\ \A j, k \in 1 .. Len(observers) : j < k => observers[j].id < observers[k].id
      /\ \A j \in 1 .. Len(observers) : observers[j].id <= made
      /\ unloaded > 0 => observers = <<>> /\ unloaded <= made + 1
  BY DEF SignalInv, ListInOrder
<1>9. /\ Len(observers) \in Nat /\ DOMAIN observers = 1 .. Len(observers)
      /\ \A k \in 1 .. Len(observers) : observers[k].id \in Nat \ {0}
  BY ListType
<1>10. ListInOrder'
  <2>1. CASE unloaded > 0
    <3>1. \A j \in 1 .. Len(observers) : observers[j].id <= made + 1
      BY <1>1, <1>8, <1>9
    <3> QED BY <1>1, <1>4, <1>8, <1>9, <2>1, <3>1 DEF ListInOrder
  <2>2. CASE ~(unloaded > 0)
    <3>1. observers' = Append(observers, o) /\ Len(observers') = Len(observers) + 1
      BY <1>4, <1>6, <2>2
    <3>2. \A j \in 1 .. Len(observers') : observers'[j].id <= made + 1
      <4> SUFFICES ASSUME NEW j \in 1 .. Len(observers') PROVE observers'[j].id <= made + 1
        OBVIOUS
      <4>1. CASE j \in 1 .. Len(observers)
        BY <1>1, <1>6, <1>8, <1>9, <3>1, <4>1
      <4>2. CASE j = Len(observers) + 1
        BY <1>1, <1>3, <1>6, <3>1, <4>2
      <4> QED BY <1>9, <3>1, <4>1, <4>2
    <3>3. \A j, k \in 1 .. Len(observers') : j < k => observers'[j].id < observers'[k].id
      <4> SUFFICES ASSUME NEW j \in 1 .. Len(observers'), NEW k \in 1 .. Len(observers'), j < k
                   PROVE  observers'[j].id < observers'[k].id
        OBVIOUS
      <4>1. j \in 1 .. Len(observers) /\ observers'[j] = observers[j]
        BY <1>6, <1>9, <3>1
      <4>2. CASE k \in 1 .. Len(observers)
        BY <1>6, <1>8, <3>1, <4>1, <4>2
      <4>3. CASE k = Len(observers) + 1
        BY <1>1, <1>3, <1>6, <1>8, <1>9, <3>1, <4>1, <4>3
      <4> QED BY <1>9, <3>1, <4>2, <4>3
    <3>4. clearing'.at <= Len(observers') /\ ~(unloaded' > 0)
      BY <1>4, <1>9, <2>2, <3>1
    <3> QED BY <1>4, <3>2, <3>3, <3>4 DEF ListInOrder
  <2> QED BY <2>1, <2>2
<1>11. ListenersRecorded'
  <2>1. CASE unloaded > 0
    <3>1. \A e \in Elements : \A p \in listening[e] : p.id >= unloaded
      BY <2>1 DEF SignalInv, ListenersRecorded
    <3>2. o.id >= unloaded
      BY <1>1, <1>3, <1>8, <2>1
    <3>3. \A e \in Elements : \A p \in listening'[e] : p \in listening[e] \/ p = o
      BY <1>1, <1>4
    <3>4. \A e \in Elements : \A p \in listening'[e] : p.id >= unloaded
      BY <3>1, <3>2, <3>3
    <3> QED BY <1>4, <2>1, <3>4 DEF ListenersRecorded
  <2>2. CASE ~(unloaded > 0)
    <3>1. Range(observers') = Range(observers) \union {o}
      <4>1. observers' = Append(observers, o) /\ DOMAIN observers' = 1 .. Len(observers) + 1
        BY <1>4, <1>6, <2>2, LenProperties
      <4>2. \A k \in 1 .. Len(observers) : k \in 1 .. Len(observers) + 1
        BY <1>9
      <4>3. \A k \in 1 .. Len(observers) + 1 : k \in 1 .. Len(observers) \/ k = Len(observers) + 1
        BY <1>9
      <4>4. Len(observers) + 1 \in 1 .. Len(observers) + 1
        BY <1>9
      <4>5. \A y \in Range(observers') : y \in Range(observers) \union {o}
        BY <1>6, <1>9, <4>1, <4>3 DEF Range
      <4>6. \A y \in Range(observers) : y \in Range(observers')
        BY <1>6, <1>9, <4>1, <4>2 DEF Range
      <4>7. o \in Range(observers')
        BY <1>6, <4>1, <4>4 DEF Range
      <4> QED BY <4>5, <4>6, <4>7
    <3>2. \A e \in Elements : listening[e] = {p \in Range(observers) : p.src = e}
      BY <2>2 DEF SignalInv, ListenersRecorded
    <3>3. ASSUME NEW e \in Elements PROVE listening'[e] = {p \in Range(observers') : p.src = e}
      <4>1. CASE src = e
        <5>1. listening'[e] = listening[e] \union {o}
          BY <1>1, <1>4, <4>1
        <5> QED BY <1>3, <3>1, <3>2, <4>1, <5>1
      <4>2. CASE src # e
        <5>1. listening'[e] = listening[e]
          BY <1>1, <1>4, <4>2
        <5> QED BY <1>3, <3>1, <3>2, <4>2, <5>1
      <4> QED BY <4>1, <4>2
    <3> QED BY <1>4, <2>2, <3>3 DEF ListenersRecorded
  <2> QED BY <2>1, <2>2
<1> QED BY <1>7, <1>10, <1>11

\* The loop may come to the observer that is new, and no signal was to call it.
LEMMA ConnectLoop ==
    ASSUME SignalInv, NEW src \in Elements \union Objects, NEW sig \in Sig, NEW func \in Func,
           connect(src, sig, func)
    PROVE  SignalLoop' /\ DeliveredOnce'
<1> DEFINE o == [id |-> made + 1, src |-> src, sig |-> sig, func |-> func]
<1>1. /\ made' = made + 1 /\ Sending(0)
      /\ observers' = IF unloaded > 0 THEN observers ELSE Append(observers, o)
  BY DEF connect
<1>2. CASE sending.over
  BY <1>1, <1>2, NoSignalKeeps DEF Sending
<1>3. CASE ~sending.over
  <2>1. /\ sending'.removed = sending.removed /\ sending'.over = FALSE
        /\ sending'.called = sending.called /\ sending'.before = sending.before
        /\ sending'.at = sending.at /\ sending'.src = sending.src /\ sending'.sig = sending.sig
        /\ DeliveredOnce'
    BY <1>1, <1>3, SendingZero
  <2>2. /\ made \in Nat /\ sending.at \in Nat \ {0} /\ sending.before \in SUBSET Nat
        /\ sending.called \in Seq(Nat)
        /\ \A T \in SUBSET sending.before : IsFiniteSet(T) /\ Cardinality(T) \in Nat
    BY <1>3, BeforeIsFinite
  <2>3. /\ \A j \in 1 .. Len(sending.called) : sending.called[j] <= made
        /\ \A j \in 1 .. Len(sending.called) : \A y \in Coming : sending.called[j] < y
        /\ \A y \in sending.before : y <= made
        /\ \A j \in 1 .. Len(observers) :
              observers[j].id \in sending.before => Matches(observers[j], sending.src, sending.sig)
        /\ Cardinality(sending.before \ (Range(sending.called) \union Coming)) <= sending.removed
    BY <1>3 DEF SignalInv, SignalLoop
  <2>4. o.id = made + 1
    OBVIOUS
  <2>5. /\ observers \in Seq(Observer) /\ Len(observers) \in Nat
        /\ \A k \in 1 .. Len(observers) : observers[k].id \in Nat \ {0}
    BY ListType DEF SignalInv, SignalType
  <2>6. \A j \in 1 .. Len(sending.called) : sending.called[j] \in Nat
    BY <2>2, LenProperties, ElementOfSeq
  <2>7. /\ Len(observers') = Len(observers) \/ Len(observers') = Len(observers) + 1
        /\ \A k \in 1 .. Len(observers) : observers'[k] = observers[k]
        /\ Len(observers') = Len(observers) + 1 => observers'[Len(observers) + 1].id = made + 1
    <3>1. o \in Observer
      BY <2>2 DEF Observer
    <3> HIDE DEF o
    <3>2. CASE unloaded > 0
      BY <1>1, <2>5, <3>2
    <3>3. CASE ~(unloaded > 0)
      BY <1>1, <2>4, <2>5, <3>1, <3>3, AppendProperties
    <3> QED BY <3>2, <3>3
  <2> HIDE DEF o
  <2>8. Coming \subseteq Coming'
    BY <2>1, <2>2, <2>5, <2>7 DEF Coming
  <2>9. \A y \in Coming' : y \in Coming \/ y = made + 1
    BY <2>1, <2>2, <2>5, <2>7 DEF Coming
  <2>10. Cardinality(sending'.before \ (Range(sending'.called) \union Coming')) <= sending'.removed
    <3> DEFINE A == sending.before \ (Range(sending.called) \union Coming)
               B == sending'.before \ (Range(sending'.called) \union Coming')
    <3>1. B \subseteq A /\ IsFiniteSet(A)
      BY <2>1, <2>2, <2>8
    <3>2. Cardinality(A) <= sending.removed /\ sending.removed \in Nat
      BY <1>3, <2>3, BeforeIsFinite
    <3> HIDE DEF A, B
    <3>3. Cardinality(B) <= sending'.removed
      BY <2>1, <3>1, <3>2, FewerMissed
    <3> QED BY <3>3 DEF B
  <2>11. \A j \in 1 .. Len(observers') :
           observers'[j].id \in sending.before => Matches(observers'[j], sending.src, sending.sig)
    <3> SUFFICES ASSUME NEW j \in 1 .. Len(observers'), observers'[j].id \in sending.before
                 PROVE  Matches(observers'[j], sending.src, sending.sig)
      OBVIOUS
    <3>1. observers'[j].id <= made
      BY <2>3
    <3>2. j \in 1 .. Len(observers)
      BY <2>2, <2>5, <2>7, <3>1
    <3> QED BY <2>3, <2>7, <3>2
  <2>12. SignalLoop'
    <3>1. \A j \in 1 .. Len(sending'.called) : \A y \in Coming' : sending'.called[j] < y
      BY <2>1, <2>2, <2>3, <2>6, <2>9
    <3>2. \A j \in 1 .. Len(sending'.called) : sending'.called[j] <= made'
      BY <1>1, <2>1, <2>2, <2>3, <2>6
    <3>3. \A y \in sending'.before : y <= made'
      BY <1>1, <2>1, <2>2, <2>3
    <3>4. \A j \in 1 .. Len(observers') :
             observers'[j].id \in sending'.before => Matches(observers'[j], sending'.src, sending'.sig)
      BY <2>1, <2>11
    <3> QED BY <2>10, <3>1, <3>2, <3>3, <3>4 DEF SignalLoop, Matches
  <2> QED BY <2>1, <2>12
<1> QED BY <1>2, <1>3

\* A step that leaves the list, and what the browser has, alone.
LEMMA ListAlone ==
    ASSUME SignalInv, UNCHANGED <<observers, unloaded, listening, made>>,
           clearing' \in Clearings, clearing'.at <= Len(observers),
           sending' \in Deliveries, SignalLoop', DeliveredOnce'
    PROVE  SignalInv'
<1>1. SignalType'
  BY DEF SignalInv, SignalType
<1>2. ListInOrder'
  BY DEF SignalInv, ListInOrder
<1>3. ListenersRecorded'
  BY DEF SignalInv, ListenersRecorded
<1> QED BY <1>1, <1>2, <1>3 DEF SignalInv

LEMMA DisconnectAllExact ==
    ASSUME SignalInv, NEW src \in Elements \union Objects, NEW sigs \in SUBSET Sig,
           disconnectAll(src, sigs)
    PROVE  SignalInv'
<1>1. /\ UNCHANGED <<observers, unloaded, listening, made>> /\ Sending(0)
      /\ clearing' = [at |-> Len(observers), src |-> src, sigs |-> sigs]
  BY DEF disconnectAll
<1>2. Len(observers) \in Nat
  BY ListType
<1>3. clearing' \in Clearings /\ clearing'.at <= Len(observers)
  BY <1>1, <1>2 DEF Clearings
<1>4. CASE sending.over
  <2>1. sending' = NoSignal
    BY <1>1, <1>4 DEF Sending
  <2> QED BY <1>1, <1>3, <2>1, NoSignalKeeps, ListAlone
<1>5. CASE ~sending.over
  <2>1. /\ sending' \in Deliveries
        /\ sending'.removed = sending.removed /\ sending'.over = FALSE
        /\ sending'.called = sending.called /\ sending'.before = sending.before
        /\ sending'.at = sending.at /\ sending'.src = sending.src /\ sending'.sig = sending.sig
        /\ DeliveredOnce'
    BY <1>1, <1>5, SendingZero
  <2>2. Coming' = Coming
    BY <1>1, <2>1 DEF Coming
  <2>3. SignalLoop'
    BY <1>1, <1>5, <2>1, <2>2 DEF SignalInv, SignalLoop, Matches
  <2> QED BY <1>1, <1>3, <2>1, <2>3, ListAlone
<1> QED BY <1>4, <1>5

LEMMA DisconnectNextExact == ASSUME SignalInv, DisconnectNext PROVE SignalInv'
<1>1. /\ clearing \in Clearings /\ clearing.at <= Len(observers) /\ sending \in Deliveries
      /\ SignalLoop /\ DeliveredOnce
  BY DEF SignalInv, SignalType, ListInOrder
<1>2. /\ clearing.at > 0 /\ unloaded' = unloaded /\ made' = made
      /\ clearing' = IF clearing.at = 1 THEN NoClearing ELSE [clearing EXCEPT !.at = @ - 1]
  BY DEF DisconnectNext
<1>3. Len(observers) \in Nat /\ clearing.at \in 1 .. Len(observers)
  BY <1>1, <1>2, ListType DEF Clearings
<1>4. clearing' \in Clearings /\ clearing'.at <= Len(observers) - 1
  <2>1. CASE clearing.at = 1
    <3>1. NoClearing.at = 0 /\ NoClearing \in Clearings
      BY DEF NoClearing, Clearings
    <3> QED BY <1>2, <1>3, <2>1, <3>1
  <2>2. CASE clearing.at # 1
    <3>1. clearing.at - 1 \in Nat /\ clearing.at - 1 <= Len(observers) - 1
      BY <1>1, <1>3, <2>2
    <3>2. clearing' = [clearing EXCEPT !.at = clearing.at - 1]
      BY <1>2, <2>2
    <3> QED BY <1>1, <3>1, <3>2 DEF Clearings
  <2> QED BY <2>1, <2>2
<1>5. CASE Disconnected(clearing.at)
  BY <1>2, <1>3, <1>4, <1>5, DisconnectedExact
<1>6. CASE UNCHANGED <<observers, listening, sending>>
  <2>1. SignalLoop'
    BY <1>1, <1>2, <1>6 DEF SignalLoop, Coming, Matches
  <2>2. DeliveredOnce'
    BY <1>1, <1>6 DEF DeliveredOnce
  <2>3. clearing'.at <= Len(observers)
    BY <1>3, <1>4 DEF Clearings
  <2> QED BY <1>1, <1>2, <1>4, <1>6, <2>1, <2>2, <2>3, ListAlone
<1> QED BY <1>5, <1>6 DEF DisconnectNext

LEMMA UnloadExact == ASSUME SignalInv, _unloadCache PROVE SignalInv'
<1>1. /\ made \in Nat /\ clearing \in Clearings /\ clearing.at = 0 /\ unloaded = 0
      /\ unloaded' = made + 1 /\ made' = made /\ clearing' = clearing
      /\ listening \in [Elements -> SUBSET Observer]
      /\ listening' = [e \in Elements |-> listening[e] \ Range(observers)]
      /\ observers' = <<>> /\ sending' = NoSignal
  BY DEF SignalInv, SignalType, _unloadCache
<1>2. /\ sending' \in Deliveries /\ SignalLoop' /\ DeliveredOnce'
  BY <1>1, NoSignalKeeps
<1>3. /\ observers' \in Seq(Observer) /\ Len(observers') = 0
  BY <1>1
<1>4. SignalType'
  BY <1>1, <1>2, <1>3 DEF SignalType
<1>5. ListInOrder'
  BY <1>1, <1>3 DEF ListInOrder
<1>6. \A e \in Elements : listening[e] \ Range(observers) = {}
  BY <1>1 DEF SignalInv, ListenersRecorded
<1>7. ListenersRecorded'
  BY <1>1, <1>6 DEF ListenersRecorded
<1> QED BY <1>2, <1>4, <1>5, <1>7 DEF SignalInv

LEMMA SignalExact ==
    ASSUME SignalInv, NEW src \in Elements \union Objects, NEW sig \in Sig, signal(src, sig)
    PROVE  SignalInv'
<1> DEFINE before == {o.id : o \in {p \in Range(observers) : Matches(p, src, sig)}}
<1>1. /\ clearing.at = 0 /\ UNCHANGED <<observers, unloaded, listening, made, clearing>>
      /\ sending' = [NoSignal EXCEPT !.src = src, !.sig = sig, !.over = FALSE, !.before = before]
  BY DEF signal
<1>2. /\ observers \in Seq(Observer) /\ Len(observers) \in Nat
      /\ DOMAIN observers = 1 .. Len(observers)
      /\ \A k \in 1 .. Len(observers) : observers[k].id \in Nat \ {0}
      /\ clearing \in Clearings
  BY ListType DEF SignalInv, SignalType
<1>3. /\ \A j, k \in 1 .. Len(observers) : j < k => observers[j].id < observers[k].id
      /\ \A j \in 1 .. Len(observers) : observers[j].id <= made
      /\ clearing.at <= Len(observers)
  BY DEF SignalInv, ListInOrder
<1>4. \A x \in before : \E k \in 1 .. Len(observers) :
         observers[k].id = x /\ Matches(observers[k], src, sig)
  BY <1>2 DEF Range
<1>5. before \in SUBSET Nat /\ \A x \in before : x <= made
  BY <1>2, <1>3, <1>4
<1> HIDE DEF before
<1>6. /\ sending'.src = src /\ sending'.sig = sig /\ sending'.over = FALSE /\ sending'.at = 1
      /\ sending'.called = <<>> /\ sending'.before = before /\ sending'.removed = 0
      /\ sending' = [src |-> src, sig |-> sig, over |-> FALSE, at |-> 1, called |-> <<>>,
                     before |-> before, removed |-> 0]
  BY <1>1 DEF NoSignal
<1>7. sending' \in Deliveries
  <2>1. 1 \in Nat \ {0} /\ 0 \in Nat /\ <<>> \in Seq(Nat) /\ FALSE \in BOOLEAN
    OBVIOUS
  <2> QED BY <1>5, <1>6, <2>1 DEF Deliveries
<1>8. \A k \in 1 .. Len(observers) : observers[k].id \in before => Matches(observers[k], src, sig)
  <2> SUFFICES ASSUME NEW k \in 1 .. Len(observers), observers[k].id \in before
               PROVE  Matches(observers[k], src, sig)
    OBVIOUS
  <2>1. PICK j \in 1 .. Len(observers) :
          observers[j].id = observers[k].id /\ Matches(observers[j], src, sig)
    BY <1>4
  <2>2. j = k
    BY <1>2, <1>3, <2>1
  <2> QED BY <2>1, <2>2
<1>9. before \ (Range(sending'.called) \union Coming') = {}
  <2>1. \A x \in before : x \in Coming'
    BY <1>1, <1>4, <1>6 DEF Coming
  <2> QED BY <2>1
<1>10. /\ \A i \in 1 .. Len(sending'.called) : FALSE
       /\ \A i, j \in DOMAIN sending'.called : FALSE
  BY <1>6, EmptyDomain
<1>11. SignalLoop'
  <2>1. Cardinality(sending'.before \ (Range(sending'.called) \union Coming')) <= sending'.removed
    <3>1. sending'.before \ (Range(sending'.called) \union Coming') = {} /\ sending'.removed = 0
      BY <1>6, <1>9
    <3>2. Cardinality({}) <= 0
      BY FS_EmptySet
    <3> QED BY <3>1, <3>2
  <2>2. \A x \in sending'.before : x <= made'
    BY <1>1, <1>5, <1>6
  <2>3. \A k \in 1 .. Len(observers') :
           observers'[k].id \in sending'.before => Matches(observers'[k], sending'.src, sending'.sig)
    BY <1>1, <1>6, <1>8
  <2> QED BY <1>10, <2>1, <2>2, <2>3 DEF SignalLoop, Matches
<1>12. DeliveredOnce'
  BY <1>6, <1>10 DEF DeliveredOnce
<1> QED BY <1>1, <1>2, <1>3, <1>7, <1>11, <1>12, ListAlone

\* The loop goes on to the next that is to be called; those it passes over were not to be.
LEMMA DeliverExact == ASSUME SignalInv, Deliver PROVE SignalInv'
<1>1. /\ clearing.at = 0 /\ ~sending.over
      /\ UNCHANGED <<observers, unloaded, listening, made, clearing>>
  BY DEF Deliver
<1>2. PICK i \in ToCall :
         /\ \A j \in ToCall : i <= j
         /\ sending' = [sending EXCEPT !.at = i + 1, !.called = Append(@, observers[i].id)]
  BY DEF Deliver
<1>3. /\ Len(observers) \in Nat
      /\ \A k \in 1 .. Len(observers) : observers[k].id \in Nat \ {0}
      /\ clearing \in Clearings /\ sending \in Deliveries
  BY ListType DEF SignalInv, SignalType
<1>4. /\ made \in Nat /\ sending.at \in Nat \ {0} /\ sending.before \in SUBSET Nat
      /\ sending.called \in Seq(Nat) /\ sending.removed \in Nat
      /\ \A T \in SUBSET sending.before : IsFiniteSet(T) /\ Cardinality(T) \in Nat
  BY <1>1, BeforeIsFinite
<1>5. /\ \A j, k \in 1 .. Len(observers) : j < k => observers[j].id < observers[k].id
      /\ \A j \in 1 .. Len(observers) : observers[j].id <= made
      /\ clearing.at <= Len(observers)
  BY DEF SignalInv, ListInOrder
<1>6. /\ \A j \in 1 .. Len(sending.called) : sending.called[j] <= made
      /\ \A j \in 1 .. Len(sending.called) : \A y \in Coming : sending.called[j] < y
      /\ \A y \in sending.before : y <= made
      /\ \A j \in 1 .. Len(observers) :
            observers[j].id \in sending.before => Matches(observers[j], sending.src, sending.sig)
      /\ Cardinality(sending.before \ (Range(sending.called) \union Coming)) <= sending.removed
  BY <1>1 DEF SignalInv, SignalLoop
<1>7. i \in sending.at .. Len(observers) /\ i \in 1 .. Len(observers) /\ i + 1 \in Nat \ {0}
  BY <1>3, <1>4 DEF ToCall
<1> DEFINE x == observers[i].id
<1>8. x \in Nat /\ x \in Coming /\ x <= made
  BY <1>3, <1>5, <1>7 DEF Coming
<1> DEFINE n == Len(sending.called)
           longer == Append(sending.called, x)
<1>9. /\ n \in Nat /\ longer \in Seq(Nat) /\ Len(longer) = n + 1 /\ longer[n + 1] = x
      /\ \A j \in 1 .. n : longer[j] = sending.called[j] /\ sending.called[j] \in Nat
  BY <1>4, <1>8, AppendProperties, LenProperties, ElementOfSeq
<1>10. sending' = [sending EXCEPT !.at = i + 1, !.called = longer]
  BY <1>2
<1> HIDE DEF x, n, longer
<1>11. /\ sending'.called = longer /\ sending'.at = i + 1 /\ sending'.over = sending.over
       /\ sending'.before = sending.before /\ sending'.removed = sending.removed
       /\ sending'.src = sending.src /\ sending'.sig = sending.sig
  BY <1>3, <1>10 DEF Deliveries
<1>12. sending' \in Deliveries
  BY <1>3, <1>7, <1>9, <1>10 DEF Deliveries
<1>13. DOMAIN longer = 1 .. n + 1 /\ DOMAIN sending.called = 1 .. n
  BY <1>4, <1>9, LenProperties DEF n
<1>14. Coming' \subseteq Coming /\ \A y \in Coming' : x < y
  <2>1. \A k \in i + 1 .. Len(observers) : k \in sending.at .. Len(observers) /\ i < k
                                           /\ k \in 1 .. Len(observers)
    BY <1>3, <1>4, <1>7
  <2>2. \A k \in i + 1 .. Len(observers) : x < observers[k].id
    BY <1>5, <1>7, <2>1 DEF x
  <2> QED BY <1>1, <1>11, <2>1, <2>2 DEF Coming
<1>15. \A y \in sending.before \cap Coming : y = x \/ y \in Coming'
  <2> SUFFICES ASSUME NEW k \in sending.at .. Len(observers), observers[k].id \in sending.before
               PROVE  observers[k].id = x \/ observers[k].id \in Coming'
    BY DEF Coming
  <2>1. k \in 1 .. Len(observers)
    BY <1>3, <1>4
  <2>2. k \in ToCall
    BY <1>6, <2>1 DEF ToCall
  <2>3. k = i \/ k \in i + 1 .. Len(observers)
    BY <1>2, <1>3, <1>7, <2>1, <2>2
  <2> QED BY <1>1, <1>11, <2>3 DEF Coming, x
<1>16. x \in Range(longer) /\ Range(sending.called) \subseteq Range(longer)
  <2>1. n + 1 \in 1 .. n + 1 /\ \A j \in 1 .. n : j \in 1 .. n + 1
    BY <1>9
  <2> QED BY <1>9, <1>13, <2>1 DEF Range
<1>17. \A j \in 1 .. n + 1 : longer[j] <= x
  <2>1. \A j \in 1 .. n : longer[j] < x
    BY <1>6, <1>8, <1>9 DEF n
  <2>2. \A j \in 1 .. n + 1 : j \in 1 .. n \/ j = n + 1
    BY <1>9
  <2> QED BY <1>8, <1>9, <2>1, <2>2
<1>18. \A j, k \in 1 .. n + 1 : j < k => longer[j] < longer[k]
  <2> SUFFICES ASSUME NEW j \in 1 .. n + 1, NEW k \in 1 .. n + 1, j < k
               PROVE  longer[j] < longer[k]
    OBVIOUS
  <2>1. j \in 1 .. n
    BY <1>9
  <2>2. CASE k \in 1 .. n
    <3>1. sending.called[j] < sending.called[k]
      BY <1>13, <2>1, <2>2 DEF SignalInv, DeliveredOnce
    <3> QED BY <1>9, <2>1, <2>2, <3>1
  <2>3. CASE k = n + 1
    BY <1>6, <1>8, <1>9, <2>1, <2>3 DEF n
  <2> QED BY <1>9, <2>2, <2>3
<1>19. SignalLoop'
  <2> DEFINE A == sending.before \ (Range(sending.called) \union Coming)
             B == sending'.before \ (Range(sending'.called) \union Coming')
  <2>1. B \subseteq A /\ IsFiniteSet(A) /\ Cardinality(A) <= sending.removed
    BY <1>4, <1>6, <1>11, <1>15, <1>16
  <2>2. Cardinality(B) <= sending'.removed
    <3> HIDE DEF A, B
    <3> QED BY <1>4, <1>11, <2>1, FewerMissed
  <2>3. \A j \in 1 .. Len(sending'.called) : sending'.called[j] <= made'
    <3>1. \A j \in 1 .. n + 1 : longer[j] \in Nat
      BY <1>9, ElementOfSeq
    <3> QED BY <1>1, <1>4, <1>8, <1>9, <1>11, <1>17, <3>1
  <2>4. \A j \in 1 .. Len(sending'.called) : \A y \in Coming' : sending'.called[j] < y
    <3>1. \A y \in Coming' : y \in Nat
      <4>1. \A k \in sending.at .. Len(observers) : k \in 1 .. Len(observers)
        BY <1>3, <1>4
      <4>2. \A y \in Coming : y \in Nat
        BY <1>3, <4>1 DEF Coming
      <4> QED BY <1>14, <4>2
    <3>2. \A j \in 1 .. n + 1 : longer[j] \in Nat
      BY <1>9, ElementOfSeq
    <3> QED BY <1>8, <1>9, <1>11, <1>14, <1>17, <3>1, <3>2
  <2>5. \A y \in sending'.before : y <= made'
    BY <1>1, <1>6, <1>11
  <2>6. \A k \in 1 .. Len(observers') :
           observers'[k].id \in sending'.before => Matches(observers'[k], sending'.src, sending'.sig)
    BY <1>1, <1>6, <1>11
  <2> QED BY <2>2, <2>3, <2>4, <2>5, <2>6 DEF SignalLoop, Matches
<1>20. DeliveredOnce'
  BY <1>1, <1>11, <1>13, <1>18 DEF DeliveredOnce
<1> QED BY <1>1, <1>3, <1>5, <1>12, <1>19, <1>20, ListAlone

\* Once there is none left that is to be called, those missed are the ones disconnected.
LEMMA EndOfSignalExact == ASSUME SignalInv, EndOfSignal PROVE SignalInv'
<1>1. /\ clearing.at = 0 /\ ~sending.over /\ ToCall = {}
      /\ UNCHANGED <<observers, unloaded, listening, made, clearing>>
      /\ sending' = [sending EXCEPT !.over = TRUE]
  BY DEF EndOfSignal
<1>2. /\ sending \in Deliveries /\ clearing \in Clearings /\ Len(observers) \in Nat
      /\ clearing.at <= Len(observers) /\ sending.at \in Nat \ {0}
  BY <1>1, ListType, BeforeIsFinite DEF SignalInv, SignalType, ListInOrder
<1>3. /\ sending'.called = sending.called /\ sending'.over = TRUE
      /\ sending'.before = sending.before /\ sending'.removed = sending.removed
  BY <1>1, <1>2 DEF Deliveries
<1>4. sending' \in Deliveries
  BY <1>1, <1>2 DEF Deliveries
<1>5. SignalLoop'
  BY <1>3 DEF SignalLoop
<1>6. \A y \in Coming : y \notin sending.before
  <2> SUFFICES ASSUME NEW k \in sending.at .. Len(observers), observers[k].id \in sending.before
               PROVE  FALSE
    BY DEF Coming
  <2>1. k \in 1 .. Len(observers)
    BY <1>2
  <2>2. Matches(observers[k], sending.src, sending.sig)
    BY <1>1, <2>1 DEF SignalInv, SignalLoop
  <2> QED BY <1>1, <2>2 DEF ToCall
<1>7. sending.before \ Range(sending.called)
        = sending.before \ (Range(sending.called) \union Coming)
  BY <1>6
<1>8. Cardinality(sending.before \ Range(sending.called)) <= sending.removed
  BY <1>1, <1>7 DEF SignalInv, SignalLoop
<1>9. DeliveredOnce'
  <2>1. \A i, j \in DOMAIN sending.called : i < j => sending.called[i] < sending.called[j]
    BY DEF SignalInv, DeliveredOnce
  <2> QED BY <1>3, <1>8, <2>1 DEF DeliveredOnce
<1> QED BY <1>1, <1>2, <1>4, <1>5, <1>9, ListAlone

LEMMA EventExact ==
    ASSUME SignalInv, NEW src, NEW sig, NEW browser, NEW pressed, Event(src, sig, browser, pressed)
    PROVE  SignalInv'
<1>1. UNCHANGED <<observers, unloaded, listening, made, clearing>> /\ sending' = NoSignal
  BY DEF Event
<1>2. clearing \in Clearings /\ clearing.at <= Len(observers)
  BY DEF SignalInv, SignalType, ListInOrder
<1> QED BY <1>1, <1>2, NoSignalKeeps, ListAlone

LEMMA DisconnectCallExact ==
    ASSUME SignalInv, NEW i \in 1 .. Len(observers), SignalCall, Disconnected(i),
           UNCHANGED <<unloaded, made, clearing>>
    PROVE  SignalInv'
<1>1. clearing' \in Clearings /\ clearing'.at = 0 /\ Len(observers) \in Nat
  BY ListType DEF SignalInv, SignalType, SignalCall
<1>2. clearing'.at <= Len(observers) - 1
  BY <1>1
<1> QED BY <1>1, <1>2, DisconnectedExact

LEMMA SignalStep == SignalInv /\ [SignalNext]_signalVars => SignalInv'
<1> SUFFICES ASSUME SignalInv, [SignalNext]_signalVars PROVE SignalInv'
  OBVIOUS
<1>0. DOMAIN observers = 1 .. Len(observers)
  BY ListType
<1>1. ASSUME NEW src \in Elements \union Objects, NEW sig \in Sig, NEW f \in Func,
             connect(src, sig, f)
      PROVE  SignalInv'
  BY <1>1, ConnectList, ConnectLoop DEF SignalInv
<1>2. ASSUME NEW i \in DOMAIN observers, disconnect(i) PROVE SignalInv'
  BY <1>0, <1>2, DisconnectCallExact DEF disconnect
<1>3. ASSUME NEW src, NEW sig, NEW f, disconnectLike(src, sig, f) PROVE SignalInv'
  <2>1. PICK i \in DOMAIN observers : Disconnected(i)
    BY <1>3 DEF disconnectLike
  <2>2. SignalCall /\ UNCHANGED <<unloaded, made, clearing>>
    BY <1>3 DEF disconnectLike
  <2> QED BY <1>0, <2>1, <2>2, DisconnectCallExact
<1>4. ASSUME NEW src \in Elements \union Objects, NEW sigs \in SUBSET Sig, disconnectAll(src, sigs)
      PROVE  SignalInv'
  BY <1>4, DisconnectAllExact
<1>5. CASE DisconnectNext
  BY <1>5, DisconnectNextExact
<1>6. CASE _unloadCache
  BY <1>6, UnloadExact
<1>7. ASSUME NEW src \in Elements \union Objects, NEW sig \in Sig, signal(src, sig) PROVE SignalInv'
  BY <1>7, SignalExact
<1>8. CASE Deliver
  BY <1>8, DeliverExact
<1>9. CASE EndOfSignal
  BY <1>9, EndOfSignalExact
<1>10. ASSUME NEW src, NEW sig, NEW browser, NEW pressed, Event(src, sig, browser, pressed)
       PROVE  SignalInv'
  BY <1>10, EventExact
<1>11. CASE UNCHANGED signalVars
  <2>1. UNCHANGED <<observers, unloaded, listening, made, clearing, sending>>
    BY <1>11 DEF signalVars
  <2>2. /\ clearing \in Clearings /\ clearing.at <= Len(observers) /\ sending \in Deliveries
        /\ SignalLoop /\ DeliveredOnce
    BY DEF SignalInv, SignalType, ListInOrder
  <2>3. SignalLoop'
    BY <2>1, <2>2 DEF SignalLoop, Coming, Matches
  <2>4. DeliveredOnce'
    BY <2>1, <2>2 DEF DeliveredOnce
  <2> QED BY <2>1, <2>2, <2>3, <2>4, ListAlone
<1> QED BY <1>1, <1>2, <1>3, <1>4, <1>5, <1>6, <1>7, <1>8, <1>9, <1>10, <1>11 DEF SignalNext

\* Whoever connects and disconnects, handlers in the middle of a signal among them, the browser
\* calls exactly those the list remembers.
THEOREM ListenersStayRecorded == SignalSpec => []ListenersRecorded
<1>1. SignalInv => ListenersRecorded
  BY DEF SignalInv
<1> QED BY <1>1, SignalInitially, SignalStep, PTL DEF SignalSpec

\* Nobody is called twice or out of order for a signal, and nobody is missed but in the place of
\* one that was disconnected while it was delivered.
THEOREM SignalsReachTheirObservers == SignalSpec => []DeliveredOnce
<1>1. SignalInv => DeliveredOnce
  BY DEF SignalInv
<1> QED BY <1>1, SignalInitially, SignalStep, PTL DEF SignalSpec

\* Internet Explorer tells the buttons by bits; the others number them.
LEMMA ButtonsTold ==
    ASSUME NEW browser \in {"ie", "mozilla", "safari"}, NEW b \in {"left", "middle", "right"}
    PROVE  mouse(MouseEvent(browser, b)) = {b}
<1>1. CASE browser = "ie"
  <2>1. MouseEvent(browser, b).which = 0
    BY <1>1 DEF MouseEvent
  <2>2. /\ Bit(1, 1) /\ ~Bit(1, 2) /\ ~Bit(1, 4)
        /\ ~Bit(2, 1) /\ Bit(2, 2) /\ ~Bit(2, 4)
        /\ ~Bit(4, 1) /\ ~Bit(4, 2) /\ Bit(4, 4)
    BY DEF Bit
  <2>3. CASE b = "left"
    <3>1. MouseEvent(browser, b).button = 1
      BY <1>1, <2>3 DEF MouseEvent
    <3> QED BY <2>1, <2>2, <2>3, <3>1 DEF mouse
  <2>4. CASE b = "middle"
    <3>1. MouseEvent(browser, b).button = 4
      BY <1>1, <2>4 DEF MouseEvent
    <3> QED BY <2>1, <2>2, <2>4, <3>1 DEF mouse
  <2>5. CASE b = "right"
    <3>1. MouseEvent(browser, b).button = 2
      BY <1>1, <2>5 DEF MouseEvent
    <3> QED BY <2>1, <2>2, <2>5, <3>1 DEF mouse
  <2> QED BY <2>3, <2>4, <2>5
<1>2. CASE browser # "ie"
  <2>1. MouseEvent(browser, b).which = CASE b = "left" -> 1 [] b = "middle" -> 2 [] b = "right" -> 3
    BY <1>2 DEF MouseEvent
  <2> QED BY <2>1 DEF mouse
<1> QED BY <1>1, <1>2

\* A character is told as it is, and an arrow as none.
LEMMA KeysTold ==
    ASSUME NEW browser \in {"ie", "mozilla", "safari"}, NEW c \in {0, 97}
    PROVE  keypress(KeyEvent(browser, c)) = c
<1>1. CASE browser = "ie"
  BY <1>1 DEF KeyEvent, keypress, Undefined, MacArrow
<1>2. CASE browser = "mozilla"
  BY <1>2 DEF KeyEvent, keypress, Undefined, MacArrow, Arrow
<1>3. CASE browser = "safari"
  BY <1>3 DEF KeyEvent, keypress, Undefined, MacArrow
<1> QED BY <1>1, <1>2, <1>3

\* Whatever the browser, a handler is told which button, or which character, was pressed.
THEOREM BrowsersAlwaysAgree == SignalSpec => []BrowsersAgree
<1>1. SignalInit => BrowsersAgree
  BY DEF SignalInit, BrowsersAgree
<1>2. BrowsersAgree /\ [SignalNext]_signalVars => BrowsersAgree'
  <2> SUFFICES ASSUME BrowsersAgree, [SignalNext]_signalVars PROVE BrowsersAgree'
    OBVIOUS
  <2>1. CASE seen' = <<>> \/ seen' = seen
    BY <2>1 DEF BrowsersAgree
  <2>2. ASSUME NEW src, NEW sig, NEW browser \in {"ie", "mozilla", "safari"},
               NEW pressed \in Pressed, Event(src, sig, browser, pressed)
        PROVE  BrowsersAgree'
    <3> DEFINE told == IF pressed[1] = "button" THEN mouse(MouseEvent(browser, pressed[2]))
                       ELSE {keypress(KeyEvent(browser, pressed[2]))}
    <3>1. seen' = <<pressed, told>>
      BY <2>2 DEF Event
    <3>2. CASE pressed \in {"button"} \X {"left", "middle", "right"}
      <4>1. pressed[1] = "button" /\ pressed[2] \in {"left", "middle", "right"}
        BY <3>2
      <4>2. told = {pressed[2]}
        BY <4>1, ButtonsTold
      <4> QED BY <3>1, <4>2 DEF BrowsersAgree
    <3>3. CASE pressed \in {"key"} \X {0, 97}
      <4>1. pressed[1] # "button" /\ pressed[2] \in {0, 97}
        BY <3>3
      <4>2. told = {pressed[2]}
        BY <4>1, KeysTold
      <4> QED BY <3>1, <4>2 DEF BrowsersAgree
    <3> QED BY <3>2, <3>3 DEF Pressed
  <2>3. \/ seen' = <<>> \/ seen' = seen
        \/ \E src \in Elements, sig \in Sig, browser \in {"ie", "mozilla", "safari"},
              pressed \in Pressed : Event(src, sig, browser, pressed)
    BY DEF SignalNext, signalVars, connect, disconnect, disconnectLike, disconnectAll,
           DisconnectNext, _unloadCache, signal, Deliver, EndOfSignal
  <2> QED BY <2>1, <2>2, <2>3
<1> QED BY <1>1, <1>2, PTL DEF SignalSpec

-----------------------------------------------------------------------------
(* MochiKit.Logging: the messages that are kept, and those who are told.   *)

Message == [num : Nat, level : Level, is : Nat \ {0}, during : SUBSET Nat]

Frame == [msg : Message, todo : SUBSET Listener, told : SUBSET Listener]

LogType ==
    /\ counter \in Nat /\ total \in Nat /\ maxSize \in Int
    /\ messages \in Seq(Message) /\ logged \in Seq(Message)
    /\ telling \in Seq(Frame)
    /\ heard \in [Listener -> Seq(Nat)]

\* What is kept is the end of what was logged, and too much of it only while somebody is told.
KeptExact ==
    /\ Len(messages) <= Len(logged)
    /\ \A k \in 1 .. Len(messages) : messages[k] = logged[Len(logged) - Len(messages) + k]
    /\ Len(messages) = Len(logged) \/ (maxSize >= 0 /\ Len(messages) >= maxSize)
    /\ maxSize >= 0 /\ telling = <<>> => Len(messages) <= maxSize

\* The messages that are told are different ones, and one who was not told has not heard it.
ToldOnce ==
    /\ \A i, j \in 1 .. Len(telling) : telling[i].msg.is = telling[j].msg.is => i = j
    /\ \A i \in 1 .. Len(telling) : telling[i].msg.is <= total /\ telling[i].todo \cap telling[i].told = {}
    /\ \A l \in Listener : IsInjective(heard[l]) /\ \A k \in 1 .. Len(heard[l]) : heard[l][k] <= total
    /\ \A i \in 1 .. Len(telling), l \in Listener :
          l \notin telling[i].told => \A k \in 1 .. Len(heard[l]) : heard[l][k] # telling[i].msg.is

\* A message that has the next number is still told.
NumbersExact ==
    /\ \A i \in 1 .. Len(logged) :
          /\ logged[i].num <= counter
          /\ logged[i].num = counter => \E k \in 1 .. Len(telling) : telling[k].msg.is = logged[i].is
    /\ \A i, j \in 1 .. Len(logged) :
          i < j /\ logged[i].num = logged[j].num => logged[i].is \in logged[j].during

LogInv == LogType /\ KeptExact /\ ToldOnce /\ NumbersExact

\* A function on 1 to n is a sequence.
LEMMA SequenceOf ==
    ASSUME NEW S, NEW n \in Nat, NEW f \in [1 .. n -> S]
    PROVE  f \in Seq(S) /\ Len(f) = n
<1>1. f \in Seq(S)
  BY SeqDef
<1>2. DOMAIN f = 1 .. n /\ DOMAIN f = 1 .. Len(f) /\ Len(f) \in Nat
  BY <1>1, LenProperties
<1>3. Len(f) = n
  BY <1>2
<1> QED BY <1>1, <1>3

LEMMA NewestExact ==
    ASSUME NEW S, NEW s \in Seq(S), NEW n \in Nat
    PROVE  /\ Newest(s, n) \in Seq(S)
           /\ Len(Newest(s, n)) = IF Len(s) > n THEN n ELSE Len(s)
           /\ \A k \in 1 .. Len(Newest(s, n)) :
                 Newest(s, n)[k] = s[Len(s) - Len(Newest(s, n)) + k]
<1> DEFINE m == IF Len(s) > n THEN Len(s) - n + 1 ELSE 1
<1>1. Len(s) \in Nat /\ \A j \in 1 .. Len(s) : s[j] \in S
  BY LenProperties, ElementOfSeq
<1>2. m \in Int /\ m >= 1 /\ Len(s) - m + 1 = IF Len(s) > n THEN n ELSE Len(s)
  BY <1>1
<1>3. \A j \in m .. Len(s) : s[j] \in S
  BY <1>1, <1>2
<1>4. Newest(s, n) = SubSeq(s, m, Len(s))
  BY DEF Newest
<1> HIDE DEF m
<1>5. /\ SubSeq(s, m, Len(s)) \in Seq(S)
      /\ Len(SubSeq(s, m, Len(s))) = IF m <= Len(s) THEN Len(s) - m + 1 ELSE 0
      /\ \A k \in 1 .. Len(s) - m + 1 : SubSeq(s, m, Len(s))[k] = s[m + k - 1]
  BY <1>1, <1>2, <1>3, SubSeqProperties
<1>6. Len(Newest(s, n)) = Len(s) - m + 1
  BY <1>1, <1>2, <1>4, <1>5
<1>7. ASSUME NEW k \in 1 .. Len(Newest(s, n))
      PROVE  Newest(s, n)[k] = s[Len(s) - Len(Newest(s, n)) + k]
  <2>1. Newest(s, n)[k] = s[m + k - 1]
    BY <1>4, <1>5, <1>6
  <2>2. Len(s) - Len(Newest(s, n)) + k = m + k - 1
    BY <1>1, <1>2, <1>6
  <2> QED BY <2>1, <2>2
<1> QED BY <1>2, <1>4, <1>5, <1>6, <1>7

LEMMA LogFacts ==
    ASSUME LogInv
    PROVE  /\ counter \in Nat /\ total \in Nat /\ maxSize \in Int
           /\ messages \in Seq(Message) /\ logged \in Seq(Message) /\ telling \in Seq(Frame)
           /\ Len(messages) \in Nat /\ Len(logged) \in Nat /\ Len(telling) \in Nat
           /\ \A k \in 1 .. Len(logged) :
                 logged[k] \in Message /\ logged[k].num \in Nat /\ logged[k].is \in Nat
           /\ \A k \in 1 .. Len(telling) :
                 /\ telling[k] \in Frame /\ telling[k].msg \in Message /\ telling[k].msg.is \in Nat
                 /\ telling[k].todo \in SUBSET Listener /\ telling[k].told \in SUBSET Listener
           /\ telling # <<>> => Len(telling) \in 1 .. Len(telling)
           /\ \A l \in Listener : /\ heard[l] \in Seq(Nat) /\ Len(heard[l]) \in Nat
                                  /\ DOMAIN heard[l] = 1 .. Len(heard[l])
                                  /\ \A k \in 1 .. Len(heard[l]) : heard[l][k] \in Nat
<1>1. /\ counter \in Nat /\ total \in Nat /\ maxSize \in Int
      /\ messages \in Seq(Message) /\ logged \in Seq(Message) /\ telling \in Seq(Frame)
      /\ heard \in [Listener -> Seq(Nat)]
  BY DEF LogInv, LogType
<1>2. Len(messages) \in Nat /\ Len(logged) \in Nat /\ Len(telling) \in Nat
  BY <1>1, LenProperties
<1>3. \A k \in 1 .. Len(logged) : logged[k] \in Message
  BY <1>1, ElementOfSeq
<1>4. \A m \in Message : m.num \in Nat /\ m.is \in Nat
  BY DEF Message
<1>5. \A k \in 1 .. Len(telling) : telling[k] \in Frame
  BY <1>1, ElementOfSeq
<1>6. \A f \in Frame : f.msg \in Message /\ f.todo \in SUBSET Listener /\ f.told \in SUBSET Listener
  BY DEF Frame
<1>7. telling # <<>> => Len(telling) \in 1 .. Len(telling)
  BY <1>1, <1>2, EmptySeq
<1>8. \A l \in Listener : heard[l] \in Seq(Nat)
  BY <1>1
<1>9. \A l \in Listener : /\ Len(heard[l]) \in Nat /\ DOMAIN heard[l] = 1 .. Len(heard[l])
                          /\ \A k \in 1 .. Len(heard[l]) : heard[l][k] \in Nat
  BY <1>8, LenProperties, ElementOfSeq
<1> QED BY <1>1, <1>2, <1>3, <1>4, <1>5, <1>6, <1>7, <1>8, <1>9

LEMMA LogInitially == LogInit => LogInv
<1> SUFFICES ASSUME LogInit PROVE LogInv
  OBVIOUS
<1>1. /\ counter = 0 /\ maxSize \in Sizes /\ messages = <<>> /\ total = 0 /\ logged = <<>>
      /\ telling = <<>> /\ heard = [l \in Listener |-> <<>>]
  BY DEF LogInit
<1>2. <<>> \in Seq(Message) /\ <<>> \in Seq(Frame) /\ <<>> \in Seq(Nat) /\ Len(<<>>) = 0
  OBVIOUS
<1>3. maxSize \in Int
  BY <1>1, SizesAssumption
<1>4. LogType
  BY <1>1, <1>2, <1>3 DEF LogType
<1>5. KeptExact
  BY <1>1, <1>2, <1>3 DEF KeptExact
<1>6. ToldOnce
  <2>1. \A l \in Listener : IsInjective(heard[l]) /\ Len(heard[l]) = 0
    BY <1>1, <1>2, EmptyDomain DEF IsInjective
  <2> QED BY <1>1, <1>2, <2>1 DEF ToldOnce
<1>7. NumbersExact
  BY <1>1, <1>2 DEF NumbersExact
<1> QED BY <1>4, <1>5, <1>6, <1>7 DEF LogInv

LEMMA BaseLogExact ==
    ASSUME LogInv, NEW level \in Level, baseLog(level)
    PROVE  LogInv'
<1> DEFINE now   == {telling[k].msg.is : k \in DOMAIN telling}
           msg   == [num |-> counter, level |-> level, is |-> total + 1, during |-> now]
           frame == [msg |-> msg, told |-> {}, todo |-> {l \in Listener : listeners[l] > 0}]
<1>1. /\ messages' = Append(messages, msg) /\ logged' = Append(logged, msg) /\ total' = total + 1
      /\ telling' = Append(telling, frame)
      /\ heard' = IF telling = <<>> THEN [l \in Listener |-> <<>>] ELSE heard
      /\ counter' = counter /\ maxSize' = maxSize
  BY DEF baseLog
<1>2. /\ counter \in Nat /\ total \in Nat /\ total + 1 \in Nat \ {0} /\ maxSize \in Int
      /\ messages \in Seq(Message) /\ logged \in Seq(Message) /\ telling \in Seq(Frame)
      /\ Len(messages) \in Nat /\ Len(logged) \in Nat /\ Len(telling) \in Nat
      /\ heard \in [Listener -> Seq(Nat)]
  BY LogFacts DEF LogInv, LogType
<1>3. DOMAIN telling = 1 .. Len(telling) /\ now \in SUBSET Nat
  <2>1. DOMAIN telling = 1 .. Len(telling)
    BY <1>2, LenProperties
  <2> QED BY <2>1, LogFacts
<1>4. /\ msg \in Message /\ msg.num = counter /\ msg.is = total + 1 /\ msg.during = now
  BY <1>2, <1>3 DEF Message
<1>5. /\ frame \in Frame /\ frame.msg.is = total + 1 /\ frame.told = {} /\ frame.todo \cap frame.told = {}
  BY <1>4 DEF Frame
<1>6. \A k \in 1 .. Len(telling) : telling[k].msg.is \in now
  BY <1>3
<1> HIDE DEF msg, frame, now
<1>7. /\ messages' \in Seq(Message) /\ Len(messages') = Len(messages) + 1
      /\ \A k \in 1 .. Len(messages) : messages'[k] = messages[k]
      /\ messages'[Len(messages) + 1] = msg
  BY <1>1, <1>2, <1>4, AppendProperties
<1>8. /\ logged' \in Seq(Message) /\ Len(logged') = Len(logged) + 1
      /\ \A k \in 1 .. Len(logged) : logged'[k] = logged[k]
      /\ logged'[Len(logged) + 1] = msg
  BY <1>1, <1>2, <1>4, AppendProperties
<1>9. /\ telling' \in Seq(Frame) /\ Len(telling') = Len(telling) + 1
      /\ \A k \in 1 .. Len(telling) : telling'[k] = telling[k]
      /\ telling'[Len(telling) + 1] = frame
  BY <1>1, <1>2, <1>5, AppendProperties
<1>10. /\ \A n \in 1 .. Len(messages) + 1 : n \in 1 .. Len(messages) \/ n = Len(messages) + 1
       /\ \A n \in 1 .. Len(logged) + 1 : n \in 1 .. Len(logged) \/ n = Len(logged) + 1
       /\ \A n \in 1 .. Len(telling) + 1 : n \in 1 .. Len(telling) \/ n = Len(telling) + 1
       /\ \A n \in 1 .. Len(telling) : n \in 1 .. Len(telling) + 1
       /\ Len(telling) + 1 \in 1 .. Len(telling) + 1
  BY <1>2
<1>11. heard' \in [Listener -> Seq(Nat)] /\ \A l \in Listener : heard'[l] = heard[l] \/ heard'[l] = <<>>
  <2>1. <<>> \in Seq(Nat)
    OBVIOUS
  <2> QED BY <1>1, <1>2, <2>1
<1>12. LogType'
  BY <1>1, <1>2, <1>7, <1>8, <1>9, <1>11 DEF LogType
<1>13. KeptExact'
  <2>1. /\ Len(messages) <= Len(logged)
        /\ \A k \in 1 .. Len(messages) : messages[k] = logged[Len(logged) - Len(messages) + k]
        /\ Len(messages) = Len(logged) \/ (maxSize >= 0 /\ Len(messages) >= maxSize)
    BY DEF LogInv, KeptExact
  <2>2. ASSUME NEW k \in 1 .. Len(messages')
        PROVE  messages'[k] = logged'[Len(logged') - Len(messages') + k]
    <3>1. CASE k \in 1 .. Len(messages)
      <4>1. /\ Len(logged) - Len(messages) + k \in 1 .. Len(logged)
            /\ Len(logged') - Len(messages') + k = Len(logged) - Len(messages) + k
        BY <1>2, <1>7, <1>8, <2>1, <3>1
      <4> QED BY <1>7, <1>8, <2>1, <3>1, <4>1
    <3>2. CASE k = Len(messages) + 1
      <4>1. Len(logged') - Len(messages') + k = Len(logged) + 1
        BY <1>2, <1>7, <1>8, <3>2
      <4> QED BY <1>7, <1>8, <3>2, <4>1
    <3> QED BY <1>7, <1>10, <3>1, <3>2
  <2>3. telling' # <<>>
    BY <1>2, <1>9, EmptySeq
  <2>4. /\ Len(messages') <= Len(logged')
        /\ Len(messages') = Len(logged') \/ (maxSize' >= 0 /\ Len(messages') >= maxSize')
    BY <1>1, <1>2, <1>7, <1>8, <2>1
  <2> QED BY <2>2, <2>3, <2>4 DEF KeptExact
<1>14. ToldOnce'
  <2>1. /\ \A i, j \in 1 .. Len(telling) : telling[i].msg.is = telling[j].msg.is => i = j
        /\ \A i \in 1 .. Len(telling) : telling[i].msg.is <= total /\ telling[i].todo \cap telling[i].told = {}
        /\ \A l \in Listener : IsInjective(heard[l]) /\ \A k \in 1 .. Len(heard[l]) : heard[l][k] <= total
        /\ \A i \in 1 .. Len(telling), l \in Listener :
              l \notin telling[i].told => \A k \in 1 .. Len(heard[l]) : heard[l][k] # telling[i].msg.is
    BY DEF LogInv, ToldOnce
  <2>2. \A i \in 1 .. Len(telling) : telling[i].msg.is \in Nat /\ telling[i].msg.is < total + 1
    BY <1>2, <2>1, LogFacts
  <2>3. \A i, j \in 1 .. Len(telling') : telling'[i].msg.is = telling'[j].msg.is => i = j
    BY <1>5, <1>9, <1>10, <2>1, <2>2
  <2>4. ASSUME NEW i \in 1 .. Len(telling')
        PROVE  telling'[i].msg.is <= total' /\ telling'[i].todo \cap telling'[i].told = {}
    <3>1. CASE i \in 1 .. Len(telling)
      <4>1. telling[i].msg.is <= total + 1
        BY <1>2, <2>2, <3>1
      <4> QED BY <1>1, <1>9, <2>1, <3>1, <4>1
    <3>2. CASE i = Len(telling) + 1
      <4>1. telling'[i] = frame
        BY <1>9, <3>2
      <4>2. total + 1 <= total'
        BY <1>1, <1>2
      <4> QED BY <1>5, <4>1, <4>2
    <3> QED BY <1>9, <1>10, <3>1, <3>2
  <2>5. ASSUME NEW l \in Listener
        PROVE  /\ IsInjective(heard'[l])
               /\ \A k \in 1 .. Len(heard'[l]) : heard'[l][k] <= total' /\ heard'[l][k] # total + 1
               /\ \A i \in 1 .. Len(telling) :
                     l \notin telling[i].told => \A k \in 1 .. Len(heard'[l]) : heard'[l][k] # telling[i].msg.is
    <3>1. CASE heard'[l] = heard[l]
      <4>1. \A k \in 1 .. Len(heard[l]) : heard[l][k] \in Nat /\ heard[l][k] <= total
        BY <2>1, LogFacts
      <4>2. \A k \in 1 .. Len(heard'[l]) : heard'[l][k] <= total' /\ heard'[l][k] # total + 1
        BY <1>1, <1>2, <3>1, <4>1
      <4>3. IsInjective(heard'[l])
        BY <2>1, <3>1
      <4>4. \A i \in 1 .. Len(telling) :
               l \notin telling[i].told => \A k \in 1 .. Len(heard'[l]) : heard'[l][k] # telling[i].msg.is
        BY <2>1, <3>1
      <4> QED BY <4>2, <4>3, <4>4
    <3>2. CASE heard'[l] = <<>>
      <4>1. IsInjective(<<>>) /\ Len(<<>>) = 0
        BY EmptyDomain DEF IsInjective
      <4> QED BY <3>2, <4>1
    <3> QED BY <1>11, <3>1, <3>2
  <2>6. ASSUME NEW i \in 1 .. Len(telling'), NEW l \in Listener, l \notin telling'[i].told
        PROVE  \A k \in 1 .. Len(heard'[l]) : heard'[l][k] # telling'[i].msg.is
    <3>1. CASE i \in 1 .. Len(telling)
      BY <1>9, <2>5, <2>6, <3>1
    <3>2. CASE i = Len(telling) + 1
      BY <1>5, <1>9, <2>5, <3>2
    <3> QED BY <1>9, <1>10, <3>1, <3>2
  <2> QED BY <2>3, <2>4, <2>5, <2>6 DEF ToldOnce
<1>15. NumbersExact'
  <2>1. /\ \A i \in 1 .. Len(logged) :
              /\ logged[i].num <= counter
              /\ logged[i].num = counter => \E k \in 1 .. Len(telling) : telling[k].msg.is = logged[i].is
        /\ \A i, j \in 1 .. Len(logged) :
              i < j /\ logged[i].num = logged[j].num => logged[i].is \in logged[j].during
    BY DEF LogInv, NumbersExact
  <2>2. ASSUME NEW i \in 1 .. Len(logged')
        PROVE  /\ logged'[i].num <= counter
               /\ logged'[i].num = counter => \E k \in 1 .. Len(telling') : telling'[k].msg.is = logged'[i].is
    <3>1. CASE i \in 1 .. Len(logged)
      <4>1. logged'[i] = logged[i]
        BY <1>8, <3>1
      <4> QED BY <1>9, <1>10, <2>1, <3>1, <4>1
    <3>2. CASE i = Len(logged) + 1
      <4>1. logged'[i] = msg
        BY <1>8, <3>2
      <4> QED BY <1>2, <1>4, <1>5, <1>9, <1>10, <4>1
    <3> QED BY <1>8, <1>10, <3>1, <3>2
  <2>3. ASSUME NEW i \in 1 .. Len(logged'), NEW j \in 1 .. Len(logged'), i < j,
               logged'[i].num = logged'[j].num
        PROVE  logged'[i].is \in logged'[j].during
    <3>1. i \in 1 .. Len(logged) /\ logged'[i] = logged[i]
      BY <1>2, <1>8, <2>3
    <3>2. CASE j \in 1 .. Len(logged)
      BY <1>8, <2>1, <2>3, <3>1, <3>2
    <3>3. CASE j = Len(logged) + 1
      <4>1. logged'[j] = msg
        BY <1>8, <3>3
      <4>2. \E k \in 1 .. Len(telling) : telling[k].msg.is = logged[i].is
        BY <1>4, <2>1, <2>3, <3>1, <4>1
      <4> QED BY <1>4, <1>6, <3>1, <4>1, <4>2
    <3> QED BY <1>8, <1>10, <3>2, <3>3
  <2> QED BY <1>1, <2>2, <2>3 DEF NumbersExact
<1> QED BY <1>12, <1>13, <1>14, <1>15 DEF LogInv

\* A step that leaves the messages that are told what they are.
LEMMA FramesKept ==
    ASSUME LogInv, telling' \in Seq(Frame), Len(telling') = Len(telling),
           \A k \in 1 .. Len(telling) : telling'[k].msg = telling[k].msg,
           UNCHANGED <<counter, maxSize, messages, total, logged>>,
           heard' \in [Listener -> Seq(Nat)], ToldOnce'
    PROVE  LogInv'
<1>1. LogType'
  BY DEF LogInv, LogType
<1>2. KeptExact'
  <2>1. telling \in Seq(Frame)
    BY LogFacts
  <2>2. telling' = <<>> => telling = <<>>
    BY <2>1, EmptySeq
  <2> QED BY <2>2 DEF LogInv, KeptExact
<1>3. NumbersExact'
  BY DEF LogInv, NumbersExact
<1> QED BY <1>1, <1>2, <1>3 DEF LogInv

LEMMA TellExact == ASSUME LogInv, NEW l \in Listener, Tell(l) PROVE LogInv'
<1> DEFINE n   == Len(telling)
           top == telling[n]
           is  == top.msg.is
<1>1. PICK passed \in SUBSET {k \in Telling.todo : ~Wants(k, Telling.msg)} :
        telling' = [telling EXCEPT ![n] = TellOne(@, l, passed)]
  BY DEF Tell, Telling
<1>2. /\ telling # <<>> /\ l \in top.todo
      /\ heard' = [heard EXCEPT ![l] = Append(@, is)]
      /\ UNCHANGED <<counter, maxSize, messages, listeners, total, logged>>
  BY DEF Tell, Telling
<1>3. /\ telling \in Seq(Frame) /\ n \in 1 .. n /\ n \in Nat /\ top \in Frame /\ is \in Nat
      /\ top.todo \in SUBSET Listener /\ top.told \in SUBSET Listener
      /\ heard \in [Listener -> Seq(Nat)] /\ total \in Nat
  BY <1>2, LogFacts DEF LogInv, LogType
<1> DEFINE new == TellOne(top, l, passed)
<1>4. telling' = [telling EXCEPT ![n] = new]
  BY <1>1
<1>5. /\ new \in Frame /\ new.msg = top.msg /\ new.told = top.told \union {l}
      /\ new.todo \subseteq top.todo \ {l}
  BY <1>3 DEF Frame, TellOne
<1>6. /\ \A i, j \in 1 .. n : telling[i].msg.is = telling[j].msg.is => i = j
      /\ \A i \in 1 .. n : telling[i].msg.is <= total /\ telling[i].todo \cap telling[i].told = {}
      /\ \A h \in Listener : IsInjective(heard[h]) /\ \A k \in 1 .. Len(heard[h]) : heard[h][k] <= total
      /\ \A i \in 1 .. n, h \in Listener :
            h \notin telling[i].told => \A k \in 1 .. Len(heard[h]) : heard[h][k] # telling[i].msg.is
  BY DEF LogInv, ToldOnce
<1>7. l \notin top.told /\ is <= total
  BY <1>2, <1>3, <1>6
<1>8. \A k \in 1 .. Len(heard[l]) : heard[l][k] # is /\ heard[l][k] <= total
  BY <1>3, <1>6, <1>7
<1>9. \A i \in 1 .. n : i # n => telling[i].msg.is # is
  BY <1>3, <1>6
<1> HIDE DEF new, n, top, is
<1>10. /\ telling' \in Seq(Frame) /\ Len(telling') = n
       /\ \A i \in 1 .. n : telling'[i] = IF i = n THEN new ELSE telling[i]
  BY <1>3, <1>4, <1>5, ExceptSeq DEF n
<1>11. telling[n] = top /\ top.msg.is = is /\ new.msg.is = is
  BY <1>5 DEF top, is
<1>12. \A i \in 1 .. n : telling'[i].msg = telling[i].msg
  BY <1>5, <1>10, <1>11
<1> DEFINE m == Len(heard[l])
           longer == Append(heard[l], is)
<1>13. heard[l] \in Seq(Nat) /\ m \in Nat /\ DOMAIN heard[l] = 1 .. m
  BY LogFacts
<1>14. /\ longer \in Seq(Nat) /\ Len(longer) = m + 1 /\ longer[m + 1] = is
       /\ \A k \in 1 .. m : longer[k] = heard[l][k]
  BY <1>3, <1>13, AppendProperties
<1>15. DOMAIN longer = 1 .. m + 1
  BY <1>14, LenProperties
<1>16. heard' = [heard EXCEPT ![l] = longer]
  BY <1>2
<1> HIDE DEF longer
<1>17. /\ heard' \in [Listener -> Seq(Nat)] /\ heard'[l] = longer
       /\ \A h \in Listener : h # l => heard'[h] = heard[h]
  BY <1>3, <1>14, <1>16
<1>18. \A k \in 1 .. m + 1 : k \in 1 .. m \/ k = m + 1
  BY <1>13
<1>19. IsInjective(longer)
  <2>1. \A j, k \in 1 .. m : heard[l][j] = heard[l][k] => j = k
    BY <1>6, <1>13 DEF IsInjective
  <2>2. ASSUME NEW j \in 1 .. m + 1, NEW k \in 1 .. m + 1, longer[j] = longer[k] PROVE j = k
    <3>1. CASE j \in 1 .. m /\ k \in 1 .. m
      BY <1>14, <2>1, <2>2, <3>1
    <3>2. CASE j = m + 1 \/ k = m + 1
      BY <1>8, <1>14, <1>18, <2>2, <3>2
    <3> QED BY <1>18, <3>1, <3>2
  <2> QED BY <1>15, <2>2 DEF IsInjective
<1>20. \A k \in 1 .. m + 1 : longer[k] <= total
  <2> SUFFICES ASSUME NEW k \in 1 .. m + 1 PROVE longer[k] <= total
    OBVIOUS
  <2>1. CASE k \in 1 .. m
    BY <1>8, <1>14, <2>1
  <2>2. CASE k = m + 1
    BY <1>7, <1>14, <2>2
  <2> QED BY <1>18, <2>1, <2>2
<1>21. ToldOnce'
  <2>1. \A i, j \in 1 .. n : telling'[i].msg.is = telling'[j].msg.is => i = j
    BY <1>6, <1>12
  <2>2. ASSUME NEW i \in 1 .. n
        PROVE  telling'[i].msg.is <= total /\ telling'[i].todo \cap telling'[i].told = {}
    <3>1. telling'[i].msg.is <= total
      BY <1>6, <1>12
    <3>2. telling'[i].todo \cap telling'[i].told = {}
      <4>1. CASE i = n
        BY <1>3, <1>5, <1>6, <1>10, <1>11, <4>1
      <4>2. CASE i # n
        BY <1>6, <1>10, <4>2
      <4> QED BY <4>1, <4>2
    <3> QED BY <3>1, <3>2
  <2>3. ASSUME NEW h \in Listener
        PROVE  IsInjective(heard'[h]) /\ \A k \in 1 .. Len(heard'[h]) : heard'[h][k] <= total
    <3>1. CASE h = l
      BY <1>14, <1>17, <1>19, <1>20, <3>1
    <3>2. CASE h # l
      BY <1>6, <1>17, <3>2
    <3> QED BY <3>1, <3>2
  <2>4. ASSUME NEW i \in 1 .. n, NEW h \in Listener, h \notin telling'[i].told
        PROVE  \A k \in 1 .. Len(heard'[h]) : heard'[h][k] # telling'[i].msg.is
    <3>1. h \notin telling[i].told
      <4>1. CASE i = n
        BY <1>5, <1>10, <1>11, <2>4, <4>1
      <4>2. CASE i # n
        BY <1>10, <2>4, <4>2
      <4> QED BY <4>1, <4>2
    <3>2. \A k \in 1 .. Len(heard[h]) : heard[h][k] # telling'[i].msg.is
      BY <1>6, <1>12, <3>1
    <3>3. CASE h # l
      BY <1>17, <3>2, <3>3
    <3>4. CASE h = l
      <4>1. i # n
        BY <1>5, <1>10, <2>4, <3>4
      <4>2. telling'[i].msg.is # is
        BY <1>9, <1>12, <4>1
      <4>3. ASSUME NEW k \in 1 .. m + 1 PROVE longer[k] # telling'[i].msg.is
        <5>1. CASE k \in 1 .. m
          BY <1>14, <3>2, <3>4, <5>1
        <5>2. CASE k = m + 1
          BY <1>14, <4>2, <5>2
        <5> QED BY <1>18, <5>1, <5>2
      <4> QED BY <1>14, <1>17, <3>4, <4>3
    <3> QED BY <3>3, <3>4
  <2>5. total' = total /\ Len(telling') = n
    BY <1>2, <1>10
  <2> QED BY <2>1, <2>2, <2>3, <2>4, <2>5 DEF ToldOnce
<1>22. Len(telling') = Len(telling) /\ \A i \in 1 .. Len(telling) : telling'[i].msg = telling[i].msg
  BY <1>10, <1>12 DEF n
<1> QED BY <1>2, <1>10, <1>17, <1>21, <1>22, FramesKept

\* No more than maxSize messages are kept, and what is kept is still the end of what was logged.
LEMMA EndOfMessageExact == ASSUME LogInv, EndOfMessage PROVE LogInv'
<1> DEFINE n == Len(telling)
<1>1. /\ telling # <<>> /\ telling' = Front(telling) /\ counter' = counter + 1
      /\ messages' = IF maxSize >= 0 THEN Newest(messages, maxSize) ELSE messages
      /\ UNCHANGED <<maxSize, listeners, total, logged, heard>>
  BY DEF EndOfMessage
<1>2. /\ counter \in Nat /\ total \in Nat /\ maxSize \in Int
      /\ messages \in Seq(Message) /\ logged \in Seq(Message) /\ telling \in Seq(Frame)
      /\ Len(messages) \in Nat /\ Len(logged) \in Nat /\ n \in Nat /\ n \in 1 .. n
      /\ heard \in [Listener -> Seq(Nat)]
      /\ \A k \in 1 .. n : telling[k] \in Frame
  BY <1>1, LogFacts DEF LogInv, LogType
<1>3. /\ telling' \in Seq(Frame) /\ Len(telling') = n - 1
      /\ \A k \in 1 .. n - 1 : telling'[k] = telling[k] /\ k \in 1 .. n
  <2>1. telling' = SubSeq(telling, 1, n - 1)
    BY <1>1 DEF Front
  <2>2. 1 \in Int /\ n - 1 \in Int /\ \A k \in 1 .. n - 1 : telling[k] \in Frame
    BY <1>2
  <2>3. /\ SubSeq(telling, 1, n - 1) \in Seq(Frame)
        /\ Len(SubSeq(telling, 1, n - 1)) = IF 1 <= n - 1 THEN (n - 1) - 1 + 1 ELSE 0
        /\ \A k \in 1 .. (n - 1) - 1 + 1 : SubSeq(telling, 1, n - 1)[k] = telling[1 + k - 1]
    BY <2>2, SubSeqProperties
  <2> HIDE DEF n
  <2> QED BY <1>2, <2>1, <2>3
<1>4. /\ messages' \in Seq(Message)
      /\ Len(messages') = IF maxSize >= 0 /\ Len(messages) > maxSize THEN maxSize ELSE Len(messages)
      /\ \A k \in 1 .. Len(messages') : messages'[k] = messages[Len(messages) - Len(messages') + k]
  <2>1. CASE maxSize >= 0
    <3>1. maxSize \in Nat /\ messages' = Newest(messages, maxSize)
      BY <1>1, <1>2, <2>1
    <3> QED BY <1>2, <2>1, <3>1, NewestExact
  <2>2. CASE ~(maxSize >= 0)
    <3>1. messages' = messages
      BY <1>1, <2>2
    <3>2. \A k \in 1 .. Len(messages) : Len(messages) - Len(messages) + k = k
      BY <1>2
    <3> QED BY <1>2, <2>2, <3>1, <3>2
  <2> QED BY <2>1, <2>2
<1>5. LogType'
  BY <1>1, <1>2, <1>3, <1>4 DEF LogType
<1>6. KeptExact'
  <2>1. /\ Len(messages) <= Len(logged)
        /\ \A k \in 1 .. Len(messages) : messages[k] = logged[Len(logged) - Len(messages) + k]
        /\ Len(messages) = Len(logged) \/ (maxSize >= 0 /\ Len(messages) >= maxSize)
    BY DEF LogInv, KeptExact
  <2>2. Len(messages') \in Nat /\ Len(messages') <= Len(messages)
    BY <1>2, <1>4
  <2>3. ASSUME NEW k \in 1 .. Len(messages')
        PROVE  messages'[k] = logged[Len(logged) - Len(messages') + k]
    <3>1. /\ Len(messages) - Len(messages') + k \in 1 .. Len(messages)
          /\ Len(logged) - Len(messages) + (Len(messages) - Len(messages') + k)
               = Len(logged) - Len(messages') + k
      BY <1>2, <2>2
    <3>2. messages'[k] = messages[Len(messages) - Len(messages') + k]
      BY <1>4
    <3> QED BY <2>1, <3>1, <3>2
  <2>4. /\ Len(messages') <= Len(logged)
        /\ Len(messages') = Len(logged) \/ (maxSize >= 0 /\ Len(messages') >= maxSize)
        /\ maxSize >= 0 => Len(messages') <= maxSize
    BY <1>2, <1>4, <2>1, <2>2
  <2>5. logged' = logged /\ maxSize' = maxSize
    BY <1>1
  <2> QED BY <2>3, <2>4, <2>5 DEF KeptExact
<1> HIDE DEF n
<1>7. ToldOnce'
  <2>1. /\ \A i, j \in 1 .. n : telling[i].msg.is = telling[j].msg.is => i = j
        /\ \A i \in 1 .. n : telling[i].msg.is <= total /\ telling[i].todo \cap telling[i].told = {}
        /\ \A l \in Listener : IsInjective(heard[l]) /\ \A k \in 1 .. Len(heard[l]) : heard[l][k] <= total
        /\ \A i \in 1 .. n, l \in Listener :
              l \notin telling[i].told => \A k \in 1 .. Len(heard[l]) : heard[l][k] # telling[i].msg.is
    BY DEF LogInv, ToldOnce, n
  <2>2. heard' = heard /\ total' = total
    BY <1>1
  <2>3. \A i, j \in 1 .. n - 1 : telling'[i].msg.is = telling'[j].msg.is => i = j
    BY <1>3, <2>1
  <2>4. \A i \in 1 .. n - 1 : telling'[i].msg.is <= total /\ telling'[i].todo \cap telling'[i].told = {}
    BY <1>3, <2>1
  <2>5. \A i \in 1 .. n - 1, l \in Listener :
           l \notin telling'[i].told => \A k \in 1 .. Len(heard[l]) : heard[l][k] # telling'[i].msg.is
    BY <1>3, <2>1
  <2> QED BY <1>3, <2>1, <2>2, <2>3, <2>4, <2>5 DEF ToldOnce
<1>8. NumbersExact'
  <2>1. ASSUME NEW k \in 1 .. Len(logged)
        PROVE  logged[k].num <= counter + 1 /\ logged[k].num # counter + 1
    <3>1. logged[k].num <= counter /\ logged[k].num \in Nat
      BY LogFacts DEF LogInv, NumbersExact
    <3> QED BY <1>2, <3>1
  <2> QED BY <1>1, <2>1 DEF LogInv, NumbersExact
<1> QED BY <1>5, <1>6, <1>7, <1>8 DEF LogInv

LEMMA AddListenerExact ==
    ASSUME LogInv, NEW l \in Listener, NEW level, addListener(l, level)
    PROVE  LogInv'
<1>1. PICK join \in SUBSET {k \in DOMAIN telling : l \notin telling[k].told} :
        telling' = [k \in DOMAIN telling |->
                      IF k \in join THEN [telling[k] EXCEPT !.todo = @ \union {l}] ELSE telling[k]]
  BY DEF addListener
<1>2. UNCHANGED <<counter, maxSize, messages, total, logged, heard>>
  BY DEF addListener
<1>3. /\ telling \in Seq(Frame) /\ Len(telling) \in Nat /\ DOMAIN telling = 1 .. Len(telling)
      /\ \A k \in 1 .. Len(telling) : telling[k] \in Frame
      /\ heard \in [Listener -> Seq(Nat)]
  BY LogFacts, LenProperties DEF LogInv, LogType
<1>4. ASSUME NEW k \in 1 .. Len(telling)
      PROVE  /\ telling'[k] \in Frame /\ telling'[k].msg = telling[k].msg
             /\ telling'[k].told = telling[k].told
             /\ telling'[k].todo = telling[k].todo
                \/ (l \notin telling[k].told /\ telling'[k].todo = telling[k].todo \union {l})
  <2>1. telling'[k] = IF k \in join THEN [telling[k] EXCEPT !.todo = @ \union {l}] ELSE telling[k]
    BY <1>1, <1>3
  <2>2. CASE k \in join
    <3>1. telling[k] \in Frame /\ l \notin telling[k].told
      BY <1>1, <1>3, <2>2
    <3> QED BY <2>1, <2>2, <3>1 DEF Frame
  <2>3. CASE k \notin join
    BY <1>3, <2>1, <2>3
  <2> QED BY <2>2, <2>3
<1>5. DOMAIN telling' = 1 .. Len(telling) /\ telling' \in [1 .. Len(telling) -> Frame]
  BY <1>1, <1>3, <1>4
<1>6. telling' \in Seq(Frame) /\ Len(telling') = Len(telling)
  BY <1>3, <1>5, SequenceOf
<1>7. ToldOnce'
  <2>1. \A k \in 1 .. Len(telling) : telling'[k].todo \cap telling'[k].told = {}
    BY <1>4 DEF LogInv, ToldOnce
  <2> QED BY <1>2, <1>4, <1>6, <2>1 DEF LogInv, ToldOnce
<1> QED BY <1>2, <1>3, <1>4, <1>6, <1>7, FramesKept

LEMMA RemoveListenerExact ==
    ASSUME LogInv, NEW l \in Listener, removeListener(l)
    PROVE  LogInv'
<1>1. /\ telling' = [k \in DOMAIN telling |-> [telling[k] EXCEPT !.todo = @ \ {l}]]
      /\ UNCHANGED <<counter, maxSize, messages, total, logged, heard>>
  BY DEF removeListener
<1>2. /\ telling \in Seq(Frame) /\ Len(telling) \in Nat /\ DOMAIN telling = 1 .. Len(telling)
      /\ \A k \in 1 .. Len(telling) : telling[k] \in Frame
      /\ heard \in [Listener -> Seq(Nat)]
  BY LogFacts, LenProperties DEF LogInv, LogType
<1>3. ASSUME NEW k \in 1 .. Len(telling)
      PROVE  /\ telling'[k] \in Frame /\ telling'[k].msg = telling[k].msg
             /\ telling'[k].told = telling[k].told /\ telling'[k].todo = telling[k].todo \ {l}
  <2>1. telling'[k] = [telling[k] EXCEPT !.todo = @ \ {l}]
    BY <1>1, <1>2
  <2> QED BY <1>2, <2>1 DEF Frame
<1>4. telling' \in [1 .. Len(telling) -> Frame]
  BY <1>1, <1>2, <1>3
<1>5. telling' \in Seq(Frame) /\ Len(telling') = Len(telling)
  BY <1>2, <1>4, SequenceOf
<1>6. ToldOnce'
  <2>1. \A k \in 1 .. Len(telling) : telling'[k].todo \cap telling'[k].told = {}
    BY <1>3 DEF LogInv, ToldOnce
  <2> QED BY <1>1, <1>3, <1>5, <2>1 DEF LogInv, ToldOnce
<1> QED BY <1>1, <1>2, <1>3, <1>5, <1>6, FramesKept

LEMMA ClearExact == ASSUME LogInv, clear PROVE LogInv'
<1>1. /\ messages' = <<>> /\ logged' = <<>>
      /\ UNCHANGED <<counter, maxSize, total, telling, heard>>
  BY DEF clear
<1>2. <<>> \in Seq(Message) /\ Len(<<>>) = 0
  OBVIOUS
<1>3. LogType'
  BY <1>1, <1>2 DEF LogInv, LogType
<1>4. KeptExact'
  <2>1. maxSize \in Int
    BY LogFacts
  <2> QED BY <1>1, <1>2, <2>1 DEF KeptExact
<1>5. ToldOnce'
  BY <1>1 DEF LogInv, ToldOnce
<1>6. NumbersExact'
  BY <1>1, <1>2 DEF NumbersExact
<1> QED BY <1>3, <1>4, <1>5, <1>6 DEF LogInv

LEMMA LogStep == LogInv /\ [LogNext]_logVars => LogInv'
<1> SUFFICES ASSUME LogInv, [LogNext]_logVars PROVE LogInv'
  OBVIOUS
<1>1. ASSUME NEW level \in Level, baseLog(level) PROVE LogInv'
  BY <1>1, BaseLogExact
<1>2. ASSUME NEW l \in Listener, Tell(l) PROVE LogInv'
  BY <1>2, TellExact
<1>3. CASE EndOfMessage
  BY <1>3, EndOfMessageExact
<1>4. ASSUME NEW l \in Listener, NEW level \in Level, addListener(l, level) PROVE LogInv'
  BY <1>4, AddListenerExact
<1>5. ASSUME NEW l \in Listener, removeListener(l) PROVE LogInv'
  BY <1>5, RemoveListenerExact
<1>6. CASE clear
  BY <1>6, ClearExact
<1>7. CASE UNCHANGED logVars
  <2>1. UNCHANGED <<counter, maxSize, messages, total, logged, telling, heard>>
    BY <1>7 DEF logVars
  <2>2. telling \in Seq(Frame) /\ heard \in [Listener -> Seq(Nat)] /\ ToldOnce
    BY DEF LogInv, LogType
  <2>3. ToldOnce'
    BY <2>1, <2>2 DEF ToldOnce
  <2> QED BY <2>1, <2>2, <2>3, FramesKept
<1> QED BY <1>1, <1>2, <1>3, <1>4, <1>5, <1>6, <1>7 DEF LogNext

\* Whoever logs while a message is passed on, the logger ends up with the last ones, nobody is
\* told one twice, and two that have one number were logged one within the other.
THEOREM LogStaysExact == LogSpec => []LogExact
<1>1. LogInv => LogExact
  <2> SUFFICES ASSUME LogInv PROVE LogExact
    OBVIOUS
  <2>1. /\ messages \in Seq(Message) /\ logged \in Seq(Message) /\ maxSize \in Int
        /\ Len(messages) \in Nat /\ Len(logged) \in Nat /\ DOMAIN logged = 1 .. Len(logged)
    BY LogFacts, LenProperties
  <2>2. /\ Len(messages) <= Len(logged)
        /\ \A k \in 1 .. Len(messages) : messages[k] = logged[Len(logged) - Len(messages) + k]
        /\ Len(messages) = Len(logged) \/ (maxSize >= 0 /\ Len(messages) >= maxSize)
        /\ maxSize >= 0 /\ telling = <<>> => Len(messages) <= maxSize
    BY DEF LogInv, KeptExact
  <2>3. ASSUME telling = <<>>
        PROVE  messages = IF maxSize < 0 THEN logged ELSE Newest(logged, maxSize)
    <3>1. CASE maxSize < 0
      <4>1. Len(messages) = Len(logged)
        BY <2>1, <2>2, <3>1
      <4>2. \A k \in 1 .. Len(messages) : messages[k] = logged[k]
        BY <2>1, <2>2, <4>1
      <4>3. messages = logged
        BY <2>1, <4>1, <4>2, SeqEqual
      <4> QED BY <3>1, <4>3
    <3>2. CASE ~(maxSize < 0)
      <4>1. maxSize \in Nat
        BY <2>1, <3>2
      <4>2. /\ Newest(logged, maxSize) \in Seq(Message)
            /\ Len(Newest(logged, maxSize)) = IF Len(logged) > maxSize THEN maxSize ELSE Len(logged)
            /\ \A k \in 1 .. Len(Newest(logged, maxSize)) :
                  Newest(logged, maxSize)[k] = logged[Len(logged) - Len(Newest(logged, maxSize)) + k]
        BY <2>1, <4>1, NewestExact
      <4>3. Len(messages) = Len(Newest(logged, maxSize))
        BY <2>1, <2>2, <2>3, <4>1, <4>2
      <4>4. \A k \in 1 .. Len(messages) : messages[k] = Newest(logged, maxSize)[k]
        BY <2>2, <4>2, <4>3
      <4>5. messages = Newest(logged, maxSize)
        BY <2>1, <4>2, <4>3, <4>4, SeqEqual
      <4> QED BY <3>2, <4>5
    <3> QED BY <3>1, <3>2
  <2> QED BY <2>1, <2>3 DEF LogInv, ToldOnce, NumbersExact, LogExact
<1> QED BY <1>1, LogInitially, LogStep, PTL DEF LogSpec

-----------------------------------------------------------------------------
(* PlotKit: a canvas that comes up late.  Of each kind there is at most one timer.  Unless    *)
(* the last call was carried out past an older one, it still waits, whatever waits with it,  *)
(* or it has been done and nothing of the other kind is left to undo it.                     *)

Wiped == shapes = <<>> /\ labels = <<>>

ClearToCome ==
    \/ "clear" \in Range(timers)
    \/ Wiped /\ "render" \notin Range(timers)

RenderToCome ==
    \/ "render" \in Range(timers)
    \/ shapes # <<>> /\ "clear" \notin Range(timers)

CanvasInv ==
    /\ timers \in Seq(Asked) /\ IsInjective(timers)
    /\ maxTries \in Int
    /\ \E S : shapes \in Seq(S)
    /\ asked \in Asked \union {"nothing"}
    /\ asked = "nothing" => timers = <<>>
    /\ ~overtaken /\ asked = "clear" => ClearToCome
    /\ ~overtaken /\ asked = "render" /\ ~gaveUp => RenderToCome

LEMMA RemoveFirstExact ==
    ASSUME NEW S, NEW s \in Seq(S), NEW e, IsInjective(s)
    PROVE  /\ RemoveFirst(s, e) \in Seq(S)
           /\ IsInjective(RemoveFirst(s, e))
           /\ Range(RemoveFirst(s, e)) = Range(s) \ {e}
<1>1. /\ DOMAIN s = 1 .. Len(s) /\ Len(s) \in Nat
      /\ Range(s) = {s[i] : i \in 1 .. Len(s)}
  BY DEF Range
<1>2. CASE ~\E i \in 1 .. Len(s) : s[i] = e
  <2>1. RemoveFirst(s, e) = s
    BY <1>2 DEF RemoveFirst
  <2> QED BY <1>1, <1>2, <2>1
<1>3. CASE \E i \in 1 .. Len(s) : s[i] = e
  <2>1. PICK i \in 1 .. Len(s) : s[i] = e
    BY <1>3
  <2>2. {j \in 1 .. Len(s) : s[j] = e} = {i}
    BY <1>1, <2>1 DEF IsInjective
  <2>3. SelectInSeq(s, LAMBDA v : v = e) = i
    BY <2>1, <2>2 DEF SelectInSeq, Min
  <2>4. RemoveFirst(s, e) = RemoveAt(s, i)
    BY <1>3, <2>3 DEF RemoveFirst
  <2>5. /\ RemoveAt(s, i) \in Seq(S)
        /\ Len(RemoveAt(s, i)) = Len(s) - 1
        /\ \A j \in 1 .. Len(s) - 1 : RemoveAt(s, i)[j] = IF j < i THEN s[j] ELSE s[j + 1]
    BY <2>1, RemoveAtExact
  <2>6. DOMAIN RemoveAt(s, i) = 1 .. Len(s) - 1
    BY <2>5
  <2>7. ASSUME NEW a \in 1 .. Len(s) - 1, NEW b \in 1 .. Len(s) - 1,
               RemoveAt(s, i)[a] = RemoveAt(s, i)[b]
        PROVE  a = b
    <3> DEFINE Place(j) == IF j < i THEN j ELSE j + 1
    <3>1. Place(a) \in 1 .. Len(s) /\ Place(b) \in 1 .. Len(s)
      BY <1>1, <2>1
    <3>2. s[Place(a)] = s[Place(b)]
      BY <2>5, <2>7
    <3>3. Place(a) = Place(b)
      BY <1>1, <3>1, <3>2 DEF IsInjective
    <3> QED BY <2>1, <3>3
  <2>8. ASSUME NEW v \in Range(RemoveAt(s, i)) PROVE v \in Range(s) /\ v # e
    <3>1. PICK j \in 1 .. Len(s) - 1 : v = RemoveAt(s, i)[j]
      BY <2>6, <2>8 DEF Range
    <3>2. v = IF j < i THEN s[j] ELSE s[j + 1]
      BY <2>5, <3>1
    <3> QED BY <1>1, <2>1, <3>1, <3>2 DEF IsInjective
  <2>9. ASSUME NEW v \in Range(s), v # e PROVE v \in Range(RemoveAt(s, i))
    <3>1. PICK j \in 1 .. Len(s) : v = s[j]
      BY <1>1, <2>9
    <3>2. j # i
      BY <2>1, <2>9, <3>1
    <3>3. CASE j < i
      <4>1. j \in 1 .. Len(s) - 1 /\ RemoveAt(s, i)[j] = v
        BY <1>1, <2>1, <2>5, <3>1, <3>3
      <4> QED BY <2>6, <4>1 DEF Range
    <3>4. CASE j > i
      <4>1. j - 1 \in 1 .. Len(s) - 1 /\ RemoveAt(s, i)[j - 1] = v
        BY <1>1, <2>1, <2>5, <3>1, <3>4
      <4> QED BY <2>6, <4>1 DEF Range
    <3> QED BY <3>2, <3>3, <3>4
  <2>10. IsInjective(RemoveAt(s, i))
    BY <2>6, <2>7 DEF IsInjective
  <2> QED BY <2>4, <2>5, <2>8, <2>9, <2>10
<1> QED BY <1>2, <1>3

\* A timer that is set again.
LEMMA SetAgain ==
    ASSUME timers \in Seq(Asked), IsInjective(timers), NEW e \in Asked
    PROVE  /\ Append(RemoveFirst(timers, e), e) \in Seq(Asked)
           /\ IsInjective(Append(RemoveFirst(timers, e), e))
           /\ Range(Append(RemoveFirst(timers, e), e)) = Range(timers) \union {e}
           /\ RemoveFirst(timers, e) \o <<e>> = Append(RemoveFirst(timers, e), e)
           /\ RemoveFirst(timers, e) \o <<>> = RemoveFirst(timers, e)
<1> DEFINE s == RemoveFirst(timers, e)
<1>1. s \in Seq(Asked) /\ IsInjective(s) /\ Range(s) = Range(timers) \ {e}
  BY RemoveFirstExact
<1> HIDE DEF s
<1>2. /\ DOMAIN Append(s, e) = 1 .. Len(s) + 1 /\ DOMAIN s = 1 .. Len(s) /\ Len(s) \in Nat
      /\ Append(s, e)[Len(s) + 1] = e /\ \A i \in 1 .. Len(s) : Append(s, e)[i] = s[i]
  BY <1>1, AppendProperties, LenProperties
<1>3. \A i \in DOMAIN s : s[i] # e
  BY <1>1 DEF Range
<1>4. IsInjective(Append(s, e))
  BY <1>1, <1>2, <1>3 DEF IsInjective
<1>5. Range(Append(s, e)) = Range(s) \union {e}
  BY <1>2 DEF Range
<1>6. s \o <<e>> = Append(s, e) /\ s \o <<>> = s /\ Append(s, e) \in Seq(Asked)
  BY <1>1
<1> QED BY <1>1, <1>4, <1>5, <1>6 DEF s

LEMMA CanvasInitially == CanvasInit => CanvasInv
BY TriesAssumption DEF CanvasInit, CanvasInv, Asked, IsInjective, Range

\* Drawing, or waiting to draw again, when render was called or its timer has run out.
LEMMA RenderExact ==
    ASSUME CanvasInv, Draw \/ TryRenderAgain
    PROVE  /\ timers' \in Seq(Asked) /\ IsInjective(timers')
           /\ maxTries' \in Int
           /\ \E S : shapes' \in Seq(S)
           /\ "clear" \in Range(timers') <=> "clear" \in Range(timers)
           /\ Draw => shapes' # <<>>
           /\ TryRenderAgain => "render" \in Range(timers') \/ gaveUp'
<1>1. /\ timers \in Seq(Asked) /\ IsInjective(timers) /\ maxTries \in Int
      /\ "render" \in Asked /\ "clear" # "render"
  BY DEF CanvasInv, Asked
<1>2. PICK S : shapes \in Seq(S)
  BY DEF CanvasInv
<1>3. ASSUME Draw
      PROVE  /\ shapes' # <<>> /\ \E T : shapes' \in Seq(T)
             /\ timers' = RemoveFirst(timers, "render") /\ maxTries' = maxTries
  <2> DEFINE chart == renderBackground \o Chart
  <2>1. shapes' = Append(shapes, chart)
    BY <1>3 DEF Draw
  <2> HIDE DEF chart
  <2>2. shapes \in Seq(S \union {chart}) /\ chart \in S \union {chart}
    BY <1>2
  <2>3. shapes' \in Seq(S \union {chart}) /\ shapes' # <<>>
    BY <2>1, <2>2
  <2> QED BY <1>3, <2>3 DEF Draw
<1>4. ASSUME TryRenderAgain
      PROVE  /\ \E T : shapes' \in Seq(T)
             /\ maxTries' \in Int
             /\ \/ timers' = Append(RemoveFirst(timers, "render"), "render")
                \/ timers' = RemoveFirst(timers, "render") /\ gaveUp'
  <2>1. /\ maxTries' = maxTries - 1 /\ shapes' = shapes
        /\ timers' = RemoveFirst(timers, "render") \o (IF maxTries > 0 THEN <<"render">> ELSE <<>>)
        /\ gaveUp' = (maxTries <= 0)
    BY <1>4 DEF TryRenderAgain
  <2>2. maxTries' \in Int
    BY <1>1, <2>1
  <2>3. CASE maxTries > 0
    <3>1. timers' = Append(RemoveFirst(timers, "render"), "render")
      BY <1>1, <2>1, <2>3, SetAgain
    <3> QED BY <1>2, <2>1, <2>2, <3>1
  <2>4. CASE ~(maxTries > 0)
    <3>1. timers' = RemoveFirst(timers, "render")
      BY <1>1, <2>1, <2>4, SetAgain
    <3>2. maxTries <= 0
      BY <1>1, <2>4
    <3> QED BY <1>2, <2>1, <2>2, <3>1, <3>2
  <2> QED BY <2>3, <2>4
<1>5. \/ timers' = RemoveFirst(timers, "render")
      \/ timers' = Append(RemoveFirst(timers, "render"), "render")
  BY <1>3, <1>4
<1>6. /\ timers' \in Seq(Asked) /\ IsInjective(timers')
      /\ "clear" \in Range(timers') <=> "clear" \in Range(timers)
  <2>1. CASE timers' = RemoveFirst(timers, "render")
    BY <1>1, <2>1, RemoveFirstExact
  <2>2. CASE timers' = Append(RemoveFirst(timers, "render"), "render")
    BY <1>1, <2>2, SetAgain
  <2> QED BY <1>5, <2>1, <2>2
<1>7. ASSUME TryRenderAgain PROVE "render" \in Range(timers') \/ gaveUp'
  BY <1>1, <1>4, <1>7, SetAgain
<1>8. maxTries' \in Int /\ \E T : shapes' \in Seq(T)
  BY <1>1, <1>3, <1>4
<1> QED BY <1>3, <1>6, <1>7, <1>8

LEMMA ClearChartExact ==
    ASSUME CanvasInv, Wipe \/ TryClearAgain
    PROVE  /\ timers' \in Seq(Asked) /\ IsInjective(timers')
           /\ maxTries' \in Int
           /\ \E S : shapes' \in Seq(S)
           /\ "render" \in Range(timers') <=> "render" \in Range(timers)
           /\ Wipe => Wiped'
           /\ TryClearAgain => "clear" \in Range(timers')
           /\ gaveUp' = gaveUp
<1>1. /\ timers \in Seq(Asked) /\ IsInjective(timers) /\ maxTries \in Int
      /\ "clear" \in Asked /\ "clear" # "render"
  BY DEF CanvasInv, Asked
<1>2. PICK S : shapes \in Seq(S)
  BY DEF CanvasInv
<1>3. ASSUME Wipe
      PROVE  /\ timers' = RemoveFirst(timers, "clear") /\ maxTries' = maxTries
             /\ gaveUp' = gaveUp /\ Wiped' /\ shapes' \in Seq({})
  BY <1>3 DEF Wipe, Wiped
<1>4. ASSUME TryClearAgain
      PROVE  /\ timers' = Append(RemoveFirst(timers, "clear"), "clear") /\ maxTries' = maxTries
             /\ gaveUp' = gaveUp /\ shapes' = shapes
  BY <1>4 DEF TryClearAgain
<1>5. /\ timers' \in Seq(Asked) /\ IsInjective(timers')
      /\ "render" \in Range(timers') <=> "render" \in Range(timers)
  <2>1. CASE Wipe
    BY <1>1, <1>3, <2>1, RemoveFirstExact
  <2>2. CASE TryClearAgain
    BY <1>1, <1>4, <2>2, SetAgain
  <2> QED BY <2>1, <2>2
<1>6. ASSUME TryClearAgain PROVE "clear" \in Range(timers')
  BY <1>1, <1>4, <1>6, SetAgain
<1>7. maxTries' \in Int /\ gaveUp' = gaveUp /\ \E T : shapes' \in Seq(T)
  BY <1>1, <1>2, <1>3, <1>4
<1> QED BY <1>3, <1>5, <1>6, <1>7

LEMMA CanvasStep == CanvasInv /\ [CanvasNext]_plotVars => CanvasInv'
<1> SUFFICES ASSUME CanvasInv, [CanvasNext]_plotVars PROVE CanvasInv'
  OBVIOUS
<1>1. CASE UNCHANGED canvasVars
  BY <1>1 DEF canvasVars, CanvasInv, ClearToCome, RenderToCome, Wiped
<1>2. CASE renderChart
  <2>1. /\ IF ready THEN Draw ELSE TryRenderAgain
        /\ asked' = "render" /\ overtaken' = (ready /\ "clear" \in Range(timers))
    BY <1>2 DEF renderChart
  <2>2. ~overtaken' /\ ~gaveUp' => RenderToCome'
    BY <2>1, RenderExact DEF RenderToCome
  <2> QED BY <2>1, <2>2, RenderExact DEF CanvasInv, Asked
<1>3. CASE clearChart
  <2>1. /\ IF ready THEN Wipe ELSE TryClearAgain
        /\ asked' = "clear" /\ overtaken' = (ready /\ "render" \in Range(timers))
    BY <1>3 DEF clearChart
  <2>2. ~overtaken' => ClearToCome'
    BY <2>1, ClearChartExact DEF ClearToCome, Wiped
  <2> QED BY <2>1, <2>2, ClearChartExact DEF CanvasInv, Asked
<1>4. CASE TimerFires
  <2>1. /\ timers # <<>> /\ asked' = asked
        /\ overtaken' = (overtaken \/ (ready /\ Head(timers) = asked /\ Asked \subseteq Range(timers)))
        /\ IF Head(timers) = "render" THEN IF ready THEN Draw ELSE TryRenderAgain
           ELSE IF ready THEN Wipe ELSE TryClearAgain
    BY <1>4 DEF TimerFires
  <2>2. timers \in Seq(Asked) /\ asked \in Asked
    BY <2>1 DEF CanvasInv
  <2>3. Head(timers) \in Asked /\ Head(timers) \in Range(timers)
    BY <2>1, <2>2 DEF Range
  <2>4. /\ ~overtaken' => ~overtaken
        /\ ~overtaken' /\ ready /\ Head(timers) = asked => ~(Asked \subseteq Range(timers))
    BY <2>1
  <2>5. CASE Head(timers) = "render"
    <3>1. IF ready THEN Draw ELSE TryRenderAgain
      BY <2>1, <2>5
    <3>2. Draw \/ TryRenderAgain
      BY <3>1
    <3>3. ASSUME ~overtaken', asked = "clear" PROVE ClearToCome'
      <4>1. "clear" \in Range(timers)
        BY <2>3, <2>4, <2>5, <3>3 DEF CanvasInv, ClearToCome
      <4> QED BY <3>2, <4>1, RenderExact DEF ClearToCome
    <3>4. ASSUME ~overtaken', asked = "render", ~gaveUp' PROVE RenderToCome'
      <4>1. CASE ready
        <5>1. "clear" \notin Range(timers)
          BY <2>3, <2>4, <2>5, <3>4, <4>1 DEF Asked
        <5> QED BY <3>1, <3>2, <4>1, <5>1, RenderExact DEF RenderToCome
      <4>2. CASE ~ready
        BY <3>1, <3>2, <3>4, <4>2, RenderExact DEF RenderToCome
      <4> QED BY <4>1, <4>2
    <3> QED BY <2>1, <2>2, <3>2, <3>3, <3>4, RenderExact DEF CanvasInv, Asked
  <2>6. CASE Head(timers) # "render"
    <3>1. IF ready THEN Wipe ELSE TryClearAgain
      BY <2>1, <2>6
    <3>2. (Wipe \/ TryClearAgain) /\ Head(timers) = "clear"
      BY <2>3, <2>6, <3>1 DEF Asked
    <3>3. ASSUME ~overtaken', asked = "clear" PROVE ClearToCome'
      <4>1. CASE ready
        <5>1. "render" \notin Range(timers)
          BY <2>3, <2>4, <3>2, <3>3, <4>1 DEF Asked
        <5> QED BY <3>1, <3>2, <4>1, <5>1, ClearChartExact DEF ClearToCome, Wiped
      <4>2. CASE ~ready
        BY <3>1, <3>2, <4>2, ClearChartExact DEF ClearToCome
      <4> QED BY <4>1, <4>2
    <3>4. ASSUME ~overtaken', asked = "render", ~gaveUp' PROVE RenderToCome'
      <4>1. ~gaveUp
        BY <3>2, <3>4, ClearChartExact
      <4>2. "render" \in Range(timers)
        BY <2>3, <2>4, <3>2, <3>4, <4>1 DEF CanvasInv, RenderToCome
      <4> QED BY <3>2, <4>2, ClearChartExact DEF RenderToCome
    <3> QED BY <2>1, <2>2, <3>2, <3>3, <3>4, ClearChartExact DEF CanvasInv, Asked
  <2> QED BY <2>5, <2>6
<1>5. CASE LayoutNext \/ CanvasReady \/ \E p \in ClickPoints : onclick(p[1], p[2])
  <2>1. UNCHANGED canvasVars
    BY <1>5 DEF LayoutNext, AddDataset, RemoveDataset, Evaluate, CanvasReady, onclick
  <2> QED BY <1>1, <2>1
<1>6. CASE UNCHANGED plotVars
  BY <1>1, <1>6 DEF plotVars, canvasVars
<1> QED BY <1>2, <1>3, <1>4, <1>5, <1>6 DEF CanvasNext

\* render and clear of Canvas.js: whatever the page asks and whenever the canvas comes up, once
\* nothing waits any more the canvas shows what was asked last, also after a render and a clear
\* that both waited; unless it is a render that found no try left, or a call that was carried
\* out while an older one of the other kind still waited.
THEOREM CanvasShowsLastAsked == CanvasSpec => []ShowsLastAsked
<1>1. CanvasInv => ShowsLastAsked
  <2>1. timers = <<>> => Range(timers) = {}
    BY EmptyDomain DEF Range
  <2> QED BY <2>1 DEF CanvasInv, ShowsLastAsked, ClearToCome, RenderToCome, Wiped
<1> QED BY <1>1, CanvasInitially, CanvasStep, PTL DEF CanvasSpec
=============================================================================
