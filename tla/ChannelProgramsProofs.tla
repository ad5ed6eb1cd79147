------------------------ MODULE ChannelProgramsProofs ------------------------
(***************************************************************************)
(* Proofs about the programs of nio/channel, for every source, buffer,     *)
(* line and pipe, any hosts and width of the time, any readers and writers *)
(* of the index.                                                           *)
(***************************************************************************)
EXTENDS ChannelPrograms, FiniteSetTheorems, SequenceTheorems, TLAPS

-----------------------------------------------------------------------------
(* Sequences of numbered bytes. *)

Bytes(i, j) == [k \in 1 .. j - i |-> i + k]

LEMMA BytesType ==
    ASSUME NEW i \in Nat, NEW j \in Nat, NEW n \in Nat, j = i + n
    PROVE  /\ Bytes(i, j) \in Seq(Nat) /\ Len(Bytes(i, j)) = n
           /\ \A k \in 1 .. n : Bytes(i, j)[k] = i + k
<1>1. j - i = n
  OBVIOUS
<1>2. Bytes(i, j) = [k \in 1 .. n |-> i + k]
  BY <1>1 DEF Bytes
<1>3. Bytes(i, j) \in [1 .. n -> Nat]
  BY <1>2
<1>4. Bytes(i, j) \in Seq(Nat)
  BY <1>3, SeqDef
<1>5. Len(Bytes(i, j)) = n
  BY <1>3, <1>4, LenProperties
<1> QED BY <1>2, <1>4, <1>5

\* A sequence is known by its elements, in two parts.
LEMMA Parts ==
    ASSUME NEW S, NEW s \in Seq(S), NEW t \in Seq(S), NEW u \in Seq(S),
           Len(u) = Len(s) + Len(t),
           \A k \in 1 .. Len(s) : u[k] = s[k],
           \A k \in 1 .. Len(t) : u[Len(s) + k] = t[k]
    PROVE  s \o t = u
<1>1. Len(s) \in Nat /\ Len(t) \in Nat
  BY LenProperties
<1>2. /\ s \o t \in Seq(S) /\ Len(s \o t) = Len(u)
      /\ \A k \in 1 .. Len(s) + Len(t) : (s \o t)[k] = IF k <= Len(s) THEN s[k] ELSE t[k - Len(s)]
  BY ConcatProperties
<1>3. ASSUME NEW k \in 1 .. Len(u) PROVE (s \o t)[k] = u[k]
  <2>1. CASE k <= Len(s)
    BY <1>1, <1>2, <2>1
  <2>2. CASE k > Len(s)
    <3>1. k - Len(s) \in 1 .. Len(t) /\ Len(s) + (k - Len(s)) = k
      BY <1>1, <2>2
    <3>2. (s \o t)[k] = t[k - Len(s)]
      BY <1>1, <1>2, <2>2
    <3> QED BY <3>1, <3>2
  <2> QED BY <1>1, <2>1, <2>2
<1> QED BY <1>2, <1>3, SeqEqual

\* The next bytes after the first ones.
LEMMA BytesNext ==
    ASSUME NEW i \in Nat, NEW n \in Nat, NEW m \in Nat, m = i + n
    PROVE  Bytes(0, i) \o Bytes(i, m) = Bytes(0, m)
<1>0. i = 0 + i /\ m = 0 + m
  OBVIOUS
<1>1. /\ Bytes(0, i) \in Seq(Nat) /\ Len(Bytes(0, i)) = i
      /\ \A k \in 1 .. i : Bytes(0, i)[k] = 0 + k
  BY <1>0, BytesType
<1>2. /\ Bytes(i, m) \in Seq(Nat) /\ Len(Bytes(i, m)) = n
      /\ \A k \in 1 .. n : Bytes(i, m)[k] = i + k
  BY <1>0, BytesType
<1>3. /\ Bytes(0, m) \in Seq(Nat) /\ Len(Bytes(0, m)) = m
      /\ \A k \in 1 .. m : Bytes(0, m)[k] = 0 + k
  <2>1. 0 \in Nat /\ m \in Nat
    OBVIOUS
  <2> QED BY <1>0, <2>1, BytesType, ZenonT(60)
<1>4. Len(Bytes(0, m)) = Len(Bytes(0, i)) + Len(Bytes(i, m))
  BY <1>1, <1>2, <1>3
<1>5. \A k \in 1 .. Len(Bytes(0, i)) : Bytes(0, m)[k] = Bytes(0, i)[k]
  BY <1>1, <1>3
<1>6. \A k \in 1 .. Len(Bytes(i, m)) : Bytes(0, m)[Len(Bytes(0, i)) + k] = Bytes(i, m)[k]
  <2> SUFFICES ASSUME NEW k \in 1 .. n PROVE Bytes(0, m)[i + k] = i + k
    BY <1>1, <1>2
  <2>1. i + k \in 1 .. m
    OBVIOUS
  <2> QED BY <1>3, <2>1
<1> QED BY <1>1, <1>2, <1>3, <1>4, <1>5, <1>6, Parts

\* What is left of a sequence after its first n elements are taken, n = 0 and
\* n = Len included.
LEMMA Split ==
    ASSUME NEW S, NEW s \in Seq(S), NEW n \in 0 .. Len(s)
    PROVE  /\ SubSeq(s, 1, n) \in Seq(S)
           /\ SubSeq(s, n + 1, Len(s)) \in Seq(S)
           /\ SubSeq(s, 1, n) \o SubSeq(s, n + 1, Len(s)) = s
           /\ Len(SubSeq(s, n + 1, Len(s))) = Len(s) - n
<1>0. Len(s) \in Nat
  BY LenProperties
<1>1. (\A i \in 1 .. n : s[i] \in S) /\ \A i \in n + 1 .. Len(s) : s[i] \in S
  BY <1>0, ElementOfSeq
<1>2. /\ SubSeq(s, 1, n) \in Seq(S) /\ SubSeq(s, n + 1, Len(s)) \in Seq(S)
      /\ Len(SubSeq(s, n + 1, Len(s))) = Len(s) - n
  BY <1>0, <1>1, SubSeqProperties
<1>3. SubSeq(s, 1, n) \o SubSeq(s, n + 1, Len(s)) = SubSeq(s, 1, Len(s))
  <2>1. 1 \in 1 .. Len(s) + 1 /\ n \in 1 - 1 .. Len(s) /\ Len(s) \in n .. Len(s)
    BY <1>0
  <2> QED BY <2>1, ConcatAdjacentSubSeq
<1> QED BY <1>2, <1>3, SubSeqFull

\* Joining three.
LEMMA Joined ==
    ASSUME NEW r \in Seq(Nat), NEW s \in Seq(Nat), NEW t \in Seq(Nat)
    PROVE  r \o s \in Seq(Nat) /\ (r \o s) \o t = r \o (s \o t)
<1>1. r \o s \in Seq(Nat)
  BY ConcatProperties
<1>2. (r \o s) \o t = r \o (s \o t)
  BY ConcatAssociative, SMTT(30)
<1> QED BY <1>1, <1>2

LEMMA EmptyLen == ASSUME NEW S, NEW s \in Seq(S) PROVE Len(s) \in Nat /\ (Len(s) = 0 <=> s = <<>>)
BY EmptySeq, LenProperties

-----------------------------------------------------------------------------
(* ChannelCopyTest. *)

\* Why CopyExact holds.  The second version's buffer is empty between its writes.
CopyInv ==
    /\ version \in {"channelCopy1", "channelCopy2"}
    /\ copyPc \in {"read", "write", "drain", "done"}
    /\ taken \in 0 .. Length
    /\ buffer \in Seq(Nat) /\ dest \in Seq(Nat)
    /\ dest \o buffer = Bytes(0, taken)
    /\ copyPc = "read" /\ version = "channelCopy2" => buffer = <<>>
    /\ copyPc \in {"drain", "done"} => taken = Length
    /\ copyPc = "done" => buffer = <<>>

LEMMA CopyInit == ASSUME Copy!Init PROVE CopyInv
<1>1. <<>> \in Seq(Nat) /\ <<>> \o <<>> = <<>>
  OBVIOUS
<1>2. Bytes(0, 0) = <<>>
  BY BytesType, EmptyLen
<1> QED BY <1>1, <1>2, CopyAssumption DEF CopyInv, Copy!Init

\* One write, of any number of bytes.
LEMMA CopyWrite ==
    ASSUME CopyInv, NEW n \in 0 .. Len(buffer), Copy!Write(n)
    PROVE  /\ buffer' \in Seq(Nat) /\ dest' \in Seq(Nat)
           /\ dest' \o buffer' = Bytes(0, taken)
           /\ UNCHANGED <<version, taken>>
           /\ n = Len(buffer) => buffer' = <<>>
<1> DEFINE s == SubSeq(buffer, 1, n)
           t == SubSeq(buffer, n + 1, Len(buffer))
<1>1. s \in Seq(Nat) /\ t \in Seq(Nat) /\ s \o t = buffer /\ Len(t) = Len(buffer) - n
  BY Split DEF CopyInv
<1>2. dest' = dest \o s /\ buffer' = t /\ UNCHANGED <<version, taken>>
  BY DEF Copy!Write
<1> HIDE DEF s, t
<1>3. (dest \o s) \o t = dest \o (s \o t) /\ dest \o s \in Seq(Nat)
  BY <1>1, Joined DEF CopyInv
<1>4. n = Len(buffer) => t = <<>>
  BY <1>1, EmptyLen
<1> QED BY <1>1, <1>2, <1>3, <1>4 DEF CopyInv

LEMMA CopyNext == ASSUME CopyInv, Copy!Next PROVE CopyInv'
<1>1. CASE Copy!Read
  <2>1. PICK n \in 1 .. Copy!Room :
           /\ taken + n <= Length
           /\ buffer' = buffer \o Copy!Bytes(taken, taken + n)
           /\ taken' = taken + n
    BY <1>1 DEF Copy!Read
  <2>2. n \in Nat /\ taken \in Nat /\ taken + n \in 0 .. Length /\ Copy!Room \in Int
    BY <2>1, CopyAssumption, EmptyLen DEF CopyInv, Copy!Room
  <2> DEFINE m == taken + n
             next == Bytes(taken, m)
  <2>6. m \in Nat /\ m = taken + n
    BY <2>2
  <2> HIDE DEF m
  <2>3. next \in Seq(Nat) /\ Bytes(0, taken) \o next = Bytes(0, m)
    BY <2>2, <2>6, BytesType, BytesNext
  <2>4. buffer' = buffer \o next
    BY <2>1, <2>6 DEF Bytes, Copy!Bytes
  <2> HIDE DEF next
  <2>5. dest \o (buffer \o next) = (dest \o buffer) \o next /\ buffer \o next \in Seq(Nat)
    BY <2>3, Joined DEF CopyInv
  <2> QED BY <1>1, <2>1, <2>2, <2>6, <2>3, <2>4, <2>5 DEF CopyInv, Copy!Read
<1>2. CASE Copy!ReadNothing
  BY <1>2 DEF CopyInv, Copy!ReadNothing
<1>3. CASE Copy!End
  BY <1>3 DEF CopyInv, Copy!End
<1>4. CASE Copy!WriteStep(0)
  <2>1. PICK n \in 0 .. Len(buffer) : Copy!CopyOnce(n) \/ Copy!CopyAll(n) \/ Copy!Drain(n)
    BY <1>4 DEF Copy!WriteStep
  <2>2. Copy!Write(n)
    BY <2>1 DEF Copy!CopyOnce, Copy!CopyAll, Copy!Drain
  <2>3. CASE Copy!CopyOnce(n)
    BY <2>2, <2>3, CopyWrite DEF CopyInv, Copy!CopyOnce
  <2>4. CASE Copy!CopyAll(n)
    BY <2>2, <2>4, CopyWrite DEF CopyInv, Copy!CopyAll
  <2>5. CASE Copy!Drain(n)
    BY <2>2, <2>5, CopyWrite DEF CopyInv, Copy!Drain
  <2> QED BY <2>1, <2>3, <2>4, <2>5
<1> QED BY <1>1, <1>2, <1>3, <1>4 DEF Copy!Next

LEMMA CopyIsExact == CopyInv => Copy!CopyExact
BY DEF CopyInv, Copy!CopyExact, Bytes, Copy!Bytes

-----------------------------------------------------------------------------
(* PipeTest. *)

\* Why PipeInOrder holds.  The worker's line is empty but while it writes, main's
\* page but while it prints; the worker closes the pipe after its last line.
PipeInv ==
    /\ workerPc \in {"work", "write", "closed"} /\ mainPc \in {"read", "write", "done"}
    /\ put \in Nat
    /\ {line, pipe, page, printed} \subseteq Seq(Nat)
    /\ ((printed \o page) \o pipe) \o line = Bytes(0, put)
    /\ workerPc # "write" => line = <<>>
    /\ mainPc # "write" => page = <<>>
    /\ workerPc = "closed" => lines = Reps
    /\ mainPc = "done" => workerPc = "closed" /\ pipe = <<>>

LEMMA PipeInit == ASSUME Pipe!Init PROVE PipeInv
<1>1. <<>> \in Seq(Nat) /\ ((<<>> \o <<>>) \o <<>>) \o <<>> = <<>>
  OBVIOUS
<1>2. Bytes(0, 0) = <<>>
  BY BytesType, EmptyLen
<1> QED BY <1>1, <1>2 DEF PipeInv, Pipe!Init

LEMMA PipeNext == ASSUME PipeInv, Pipe!Next PROVE PipeInv'
<1> DEFINE out == printed \o page
           all == out \o pipe
<1>0. line \in Seq(Nat) /\ pipe \in Seq(Nat) /\ page \in Seq(Nat) /\ printed \in Seq(Nat)
  BY DEF PipeInv
<1>8. out \in Seq(Nat)
  BY <1>0, Joined
<1>9. all \in Seq(Nat)
  BY <1>0, <1>8, Joined
<1>10. all \o line = Bytes(0, put)
  BY DEF PipeInv
<1> HIDE DEF all
<1>1. CASE Pipe!DoSomeWork
  <2>1. PICK n \in 1 .. MaxLine : line' = Pipe!Bytes(put, put + n) /\ put' = put + n
    BY <1>1 DEF Pipe!DoSomeWork
  <2>2. n \in Nat /\ put' \in Nat /\ put' = put + n /\ line' = Bytes(put, put')
    BY <2>1, PipeAssumption DEF PipeInv, Bytes, Pipe!Bytes
  <2>3. line' \in Seq(Nat) /\ Bytes(0, put) \o line' = Bytes(0, put')
    BY <2>2, BytesType, BytesNext DEF PipeInv
  <2>4. line = <<>> /\ all \o <<>> = all
    BY <1>1, <1>9, ConcatEmptySeq DEF Pipe!DoSomeWork, PipeInv
  <2> QED BY <1>0, <1>1, <1>10, <2>2, <2>3, <2>4 DEF PipeInv, Pipe!DoSomeWork, all
<1>2. CASE Pipe!Write
  <2>1. PICK n \in 1 .. Len(line) :
           pipe' = pipe \o SubSeq(line, 1, n) /\ line' = SubSeq(line, n + 1, Len(line))
    BY <1>2 DEF Pipe!Write
  <2> DEFINE s == SubSeq(line, 1, n)
             t == SubSeq(line, n + 1, Len(line))
  <2>2. s \in Seq(Nat) /\ t \in Seq(Nat) /\ s \o t = line
    <3>1. n \in 0 .. Len(line)
      BY <1>0, EmptyLen
    <3> QED BY <1>0, <3>1, Split
  <2>3. pipe' = pipe \o s /\ line' = t
    BY <2>1
  <2> HIDE DEF s, t
  <2> HIDE DEF out
  <2>4. pipe \o s \in Seq(Nat) /\ all \o s = out \o (pipe \o s)
    <3>1. pipe \o s \in Seq(Nat)
      BY <1>0, <2>2, ConcatProperties
    <3>2. pipe \in Seq(Nat) /\ s \in Seq(Nat)
      BY <1>0, <2>2
    <3>3. (out \o pipe) \o s = out \o (pipe \o s)
      BY <1>8, <3>2, Joined
    <3> QED BY <3>1, <3>3 DEF all
  <2>5. (all \o s) \o t = all \o (s \o t)
    BY <1>9, <2>2, Joined
  <2> QED BY <1>0, <1>2, <1>10, <2>2, <2>3, <2>4, <2>5 DEF PipeInv, Pipe!Write, out
<1>3. CASE Pipe!Written
  BY <1>3 DEF PipeInv, Pipe!Written
<1>4. CASE Pipe!Close
  BY <1>4 DEF PipeInv, Pipe!Close
<1>5. CASE Pipe!Read
  <2>1. PICK n \in 1 .. PageSize :
           /\ n <= Len(pipe)
           /\ page' = SubSeq(pipe, 1, n) /\ pipe' = SubSeq(pipe, n + 1, Len(pipe))
    BY <1>5 DEF Pipe!Read
  <2> DEFINE s == SubSeq(pipe, 1, n)
             t == SubSeq(pipe, n + 1, Len(pipe))
  <2>2. n \in 0 .. Len(pipe)
    BY <1>0, <2>1, EmptyLen, PipeAssumption
  <2>3. s \in Seq(Nat) /\ t \in Seq(Nat) /\ s \o t = pipe
    BY <1>0, <2>2, Split
  <2>4. page' = s /\ pipe' = t
    BY <2>1
  <2> HIDE DEF s, t
  <2>5. page = <<>> /\ out = printed
    BY <1>0, <1>5, ConcatEmptySeq DEF Pipe!Read, PipeInv
  <2>6. (printed \o s) \o t = printed \o pipe
    <3>1. (printed \o s) \o t = printed \o (s \o t)
      BY <1>0, <2>3, Joined, ZenonT(60)
    <3> QED BY <2>3, <3>1
  <2> QED BY <1>0, <1>5, <1>10, <2>3, <2>4, <2>5, <2>6 DEF PipeInv, Pipe!Read, all
<1>6. CASE Pipe!End
  BY <1>6 DEF PipeInv, Pipe!End
<1>7. CASE Pipe!PrintPage
  <2>1. printed' = out /\ page' = <<>> /\ out \o <<>> = out
    BY <1>0, <1>7, ConcatEmptySeq DEF Pipe!PrintPage
  <2>2. <<>> \in Seq(Nat)
    OBVIOUS
  <2> QED BY <1>0, <1>7, <1>8, <1>10, <2>1, <2>2 DEF PipeInv, Pipe!PrintPage, all
<1> QED BY <1>1, <1>2, <1>3, <1>4, <1>5, <1>6, <1>7 DEF Pipe!Next, Pipe!WorkerStep, Pipe!MainStep

LEMMA PipeIsInOrder == PipeInv => Pipe!PipeInOrder
<1> SUFFICES ASSUME PipeInv PROVE Pipe!PipeInOrder
  OBVIOUS
<1>1. Bytes(0, put) = Pipe!Bytes(0, put)
  BY DEF Bytes, Pipe!Bytes
<1>2. ASSUME mainPc = "done" PROVE Len(printed) = put /\ lines = Reps
  <2>1. page = <<>> /\ pipe = <<>> /\ line = <<>> /\ lines = Reps
    BY <1>2 DEF PipeInv
  <2>2. printed = Bytes(0, put)
    BY <2>1, ConcatEmptySeq DEF PipeInv
  <2> QED BY <2>1, <2>2, BytesType DEF PipeInv
<1> QED BY <1>1, <1>2 DEF Pipe!PipeInOrder, PipeInv

-----------------------------------------------------------------------------
(* LockTest. *)

\* Why StableUnderLock holds: a writer that has the lock is alone with it.
LockInv ==
    /\ lockPc \in [Lock!Process -> {"lock", "use", "write", "release", "killed"}]
    /\ \A r \in Reader : lockPc[r] \in {"lock", "use", "killed"}
    /\ \A w \in Writer, p \in Lock!Process :
          w # p /\ w \in Lock!Holders => p \notin Lock!Holders

LEMMA LockInit == ASSUME Lock!Init PROVE LockInv
BY DEF LockInv, Lock!Init, Lock!Process, Lock!Holders

LEMMA LockNext == ASSUME LockInv, Lock!Next PROVE LockInv'
<1> USE DEF LockInv, Lock!Process, Lock!Holders
<1>1. ASSUME NEW r \in Reader, Lock!ReaderStep(r) PROVE LockInv'
  BY <1>1, LockAssumption DEF Lock!ReaderStep, Lock!LockShared, Lock!Query, Lock!QueriesDone
<1>2. ASSUME NEW w \in Writer, Lock!WriterStep(w) PROVE LockInv'
  <2>1. CASE Lock!LockExclusive(w)
    BY <2>1, LockAssumption DEF Lock!LockExclusive
  <2>2. CASE Lock!Fill(w)
    BY <2>2, LockAssumption DEF Lock!Fill
  <2>3. CASE Lock!WriteIndex(w)
    BY <2>3, LockAssumption DEF Lock!WriteIndex
  <2>4. CASE Lock!ReleaseExclusive(w)
    BY <2>4, LockAssumption DEF Lock!ReleaseExclusive
  <2> QED BY <1>2, <2>1, <2>2, <2>3, <2>4 DEF Lock!WriterStep
<1>3. ASSUME NEW p \in Reader \cup Writer, Lock!Kill(p) PROVE LockInv'
  BY <1>3 DEF Lock!Kill
<1> QED BY <1>1, <1>2, <1>3 DEF Lock!Next

\* Only WriteIndex changes the file, and no reader has the lock then.
LEMMA LockStable ==
    ASSUME LockInv, Lock!Next, NEW r \in Reader, lockPc[r] = "use"
    PROVE  file' = file
<1>1. ASSUME NEW w \in Writer, Lock!WriteIndex(w) PROVE FALSE
  <2>1. w \in Lock!Holders /\ r \in Lock!Holders /\ r # w
    BY <1>1, LockAssumption DEF Lock!WriteIndex, Lock!Holders, Lock!Process
  <2> QED BY <2>1 DEF LockInv, Lock!Process
<1> QED BY <1>1 DEF Lock!Next, Lock!ReaderStep, Lock!LockShared, Lock!Query, Lock!QueriesDone,
                    Lock!WriterStep, Lock!LockExclusive, Lock!Fill, Lock!ReleaseExclusive, Lock!Kill

-----------------------------------------------------------------------------
(* TimeService. *)

\* What is left of a sequence of replies without one.
LEMMA Removed ==
    ASSUME NEW S, NEW s \in Seq(S), NEW i \in 1 .. Len(s)
    PROVE  /\ Time!RemoveAt(s, i) \in Seq(S)
           /\ Len(Time!RemoveAt(s, i)) = Len(s) - 1
           /\ \A j \in 1 .. Len(s) - 1 :
                 Time!RemoveAt(s, i)[j] = s[IF j < i THEN j ELSE j + 1]
<1> DEFINE a == SubSeq(s, 1, i - 1)
           b == SubSeq(s, i + 1, Len(s))
<1>0. Len(s) \in Nat
  BY LenProperties
<1>1. \A j \in 1 .. Len(s) : s[j] \in S
  BY ElementOfSeq
<1>2. /\ a \in Seq(S) /\ Len(a) = i - 1
      /\ \A j \in 1 .. i - 1 : a[j] = s[j]
  <2>1. \A j \in 1 .. i - 1 : s[j] \in S
    BY <1>0, <1>1
  <2>2. /\ a \in Seq(S)
        /\ Len(a) = IF 1 <= i - 1 THEN i - 1 - 1 + 1 ELSE 0
        /\ \A j \in 1 .. i - 1 - 1 + 1 : a[j] = s[1 + j - 1]
    BY <2>1, SubSeqProperties
  <2> QED BY <2>2
<1>3. /\ b \in Seq(S) /\ Len(b) = Len(s) - i
      /\ \A j \in 1 .. Len(s) - i : b[j] = s[i + j]
  <2>1. \A j \in i + 1 .. Len(s) : s[j] \in S
    BY <1>0, <1>1
  <2>2. /\ b \in Seq(S)
        /\ Len(b) = IF i + 1 <= Len(s) THEN Len(s) - (i + 1) + 1 ELSE 0
        /\ \A j \in 1 .. Len(s) - (i + 1) + 1 : b[j] = s[i + 1 + j - 1]
    BY <1>0, <2>1, SubSeqProperties
  <2> QED BY <1>0, <2>2
<1>4. Time!RemoveAt(s, i) = a \o b
  BY DEF Time!RemoveAt
<1> HIDE DEF a, b
<1>5. /\ a \o b \in Seq(S) /\ Len(a \o b) = Len(a) + Len(b)
      /\ \A j \in 1 .. Len(a) + Len(b) :
            (a \o b)[j] = IF j <= Len(a) THEN a[j] ELSE b[j - Len(a)]
  BY <1>2, <1>3, ConcatProperties
<1>6. ASSUME NEW j \in 1 .. Len(s) - 1
      PROVE  (a \o b)[j] = s[IF j < i THEN j ELSE j + 1]
  <2>1. CASE j < i
    BY <1>0, <1>2, <1>3, <1>5, <2>1
  <2>2. CASE j >= i
    <3> DEFINE k == j - (i - 1)
    <3>1. k \in 1 .. Len(s) - i /\ i + k = j + 1 /\ j - (i - 1) = k
      BY <1>0, <2>2
    <3>2. ~(j <= Len(a)) /\ j - Len(a) = k
      BY <1>0, <1>2, <2>2
    <3> HIDE DEF k
    <3>3. (a \o b)[j] = b[k]
      BY <1>0, <1>2, <1>3, <1>5, <3>2
    <3>4. b[k] = s[j + 1]
      BY <1>3, <3>1
    <3>5. (IF j < i THEN j ELSE j + 1) = j + 1
      BY <1>0, <2>2
    <3> QED BY <3>3, <3>4, <3>5
  <2>3. j < i \/ j >= i
    BY <1>0
  <2> QED BY <2>1, <2>2, <2>3
<1> QED BY <1>0, <1>2, <1>3, <1>4, <1>5, <1>6

Heard == {r.host : r \in reports}

TimeType ==
    /\ resolved \subseteq Host /\ unsent \subseteq resolved
    /\ now \in Nat /\ answers \in Nat /\ copies \in Nat
    /\ requests \in [Host -> Nat]
    /\ replies \in Seq([host : Host, time : Int])
    /\ reports \subseteq [host : Host, there : Int]
    /\ clientPc \in {"send", "receive", "done"}

\* A reply has the low-order bits of a time that has been.
Timely ==
    /\ \A i \in DOMAIN replies : \E t \in 0 .. now : replies[i].time = Time!Low(t)
    /\ \A r \in reports : \E t \in 0 .. now : r.there = Time!Remote(Time!Low(t))

\* Without copies, a host is still to be asked, or has one datagram on its way, there
\* or back, or is heard of, or something was lost.
Once ==
    /\ \A h \in Host : requests[h] # 0 => requests[h] = 1 /\ h \in resolved \ Heard
    /\ \A h \in unsent : requests[h] = 0 /\ h \notin Heard
    /\ \A i \in DOMAIN replies :
          /\ replies[i].host \in resolved \ (Heard \cup unsent)
          /\ requests[replies[i].host] = 0
    /\ \A i, j \in DOMAIN replies : replies[i].host = replies[j].host => i = j
    /\ Heard \subseteq resolved
    /\ answers = Cardinality(Heard)

TimeInv ==
    /\ TimeType
    /\ Timely
    /\ copies = 0 => Once
    /\ clientPc = "done" => answers = Time!Expect

LEMMA LowType == \A t \in Nat : Time!Low(t) \in Int /\ Time!Remote(Time!Low(t)) \in Int
BY TimeAssumption DEF Time!Low, Time!Remote

LEMMA TimeInit == ASSUME Time!Init PROVE TimeInv
<1>1. Heard = {} /\ Cardinality(Heard) = 0
  BY FS_EmptySet DEF Time!Init, Heard
<1>2. TimeType
  BY DEF TimeType, Time!Init
<1>3. Timely
  BY DEF Timely, Time!Init
<1>4. Once
  BY <1>1 DEF Once, Time!Init
<1> QED BY <1>2, <1>3, <1>4 DEF TimeInv, Time!Init

LEMMA TimeNext == ASSUME TimeInv, Time!Next PROVE TimeInv'
<1>0. TimeType /\ Timely
  BY DEF TimeInv
<1>r. DOMAIN replies = 1 .. Len(replies) /\ Len(replies) \in Nat
  BY <1>0, LenProperties DEF TimeType
<1>1. ASSUME NEW h \in Host, Time!Send(h) PROVE TimeInv'
  <2>1. TimeType'
    BY <1>0, <1>1 DEF TimeType, Time!Send
  <2>2. Timely'
    BY <1>0, <1>1 DEF Timely, Time!Send
  <2>3. ASSUME Once PROVE Once'
    BY <1>0, <1>1, <2>3 DEF TimeType, Once, Heard, Time!Send
  <2> QED BY <1>1, <2>1, <2>2, <2>3 DEF TimeInv, Time!Send, Time!Expect
<1>2. CASE Time!Sent
  <2>1. TimeType' /\ Timely'
    BY <1>0, <1>2 DEF TimeType, Timely, Time!Sent
  <2>3. ASSUME Once PROVE Once'
    BY <1>2, <2>3 DEF Once, Heard, Time!Sent
  <2> QED BY <1>2, <2>1, <2>3 DEF TimeInv, Time!Sent, Time!Expect
<1>3. ASSUME NEW i \in DOMAIN replies, Time!GetReply(i) PROVE TimeInv'
  <2> DEFINE rep == replies[i]
             r == [host |-> rep.host, there |-> Time!Remote(rep.time)]
             n == Len(replies) - 1
             old(j) == IF j < i THEN j ELSE j + 1
  <2>1. rep \in [host : Host, time : Int]
    BY <1>0, <1>r, ElementOfSeq DEF TimeType
  <2>2. /\ replies' \in Seq([host : Host, time : Int]) /\ Len(replies') = n
        /\ \A j \in 1 .. n : replies'[j] = replies[old(j)]
    <3>1. replies' = Time!RemoveAt(replies, i)
      BY <1>3 DEF Time!GetReply
    <3>2. replies \in Seq([host : Host, time : Int]) /\ i \in 1 .. Len(replies)
      BY <1>0, <1>r DEF TimeType
    <3> QED BY <3>1, <3>2, Removed
  <2>3. DOMAIN replies' = 1 .. n
    BY <2>2, LenProperties
  <2>4. \A j \in 1 .. n : old(j) \in DOMAIN replies /\ old(j) # i
    BY <1>r
  <2>5. \A j, k \in 1 .. n : old(j) = old(k) => j = k
    BY <1>r
  <2> HIDE DEF old
  <2>6. reports' = reports \cup {r} /\ r \in [host : Host, there : Int]
    BY <1>3, <2>1, TimeAssumption DEF Time!GetReply, Time!Remote
  <2>7. TimeType'
    BY <1>0, <1>3, <2>2, <2>6 DEF TimeType, Time!GetReply
  <2>8. Timely'
    <3>1. now' = now
      BY <1>3 DEF Time!GetReply
    <3>2. \A j \in DOMAIN replies' : \E t \in 0 .. now : replies'[j].time = Time!Low(t)
      BY <1>0, <2>2, <2>3, <2>4, ZenonT(60) DEF Timely
    <3>3. \E t \in 0 .. now : r.there = Time!Remote(Time!Low(t))
      BY <1>0 DEF Timely
    <3> QED BY <1>0, <2>6, <3>1, <3>2, <3>3 DEF Timely
  <2>9. ASSUME Once PROVE Once'
    <3>1. Heard' = Heard \cup {rep.host} /\ rep.host \notin Heard
      <4>1. \A h : h \in Heard' <=> h \in Heard \/ h = r.host
        BY <2>6 DEF Heard
      <4>2. r.host = rep.host
        OBVIOUS
      <4> QED BY <2>9, <4>1, <4>2 DEF Once
    <3>2. IsFiniteSet(Heard)
      BY <1>0, <2>9, FS_Subset, TimeAssumption DEF TimeType, Once
    <3>3. Cardinality(Heard') = Cardinality(Heard) + 1
      BY <3>1, <3>2, FS_AddElement
    <3>4. \A h \in Host : requests'[h] # 0 => requests'[h] = 1 /\ h \in resolved' \ Heard'
      BY <1>3, <2>9, <3>1 DEF Once, Time!GetReply
    <3>5. \A h \in unsent' : requests'[h] = 0 /\ h \notin Heard'
      BY <1>3, <2>9, <3>1 DEF Once, Time!GetReply
    <3>6. \A j \in DOMAIN replies' :
             /\ replies'[j].host \in resolved' \ (Heard' \cup unsent')
             /\ requests'[replies'[j].host] = 0
      <4> SUFFICES ASSUME NEW j \in 1 .. n
                   PROVE  /\ replies[old(j)].host \in resolved \ (Heard' \cup unsent)
                          /\ requests[replies[old(j)].host] = 0
        BY <1>3, <2>2, <2>3 DEF Time!GetReply
      <4>1. old(j) \in DOMAIN replies /\ old(j) # i
        BY <2>4
      <4>2. replies[old(j)].host # rep.host
        BY <2>9, <4>1 DEF Once
      <4> QED BY <2>9, <3>1, <4>1, <4>2 DEF Once
    <3>7. \A j, k \in DOMAIN replies' : replies'[j].host = replies'[k].host => j = k
      <4> SUFFICES ASSUME NEW j \in 1 .. n, NEW k \in 1 .. n,
                          replies[old(j)].host = replies[old(k)].host
                   PROVE  j = k
        BY <2>2, <2>3
      <4>1. old(j) = old(k)
        BY <2>4, <2>9 DEF Once
      <4> QED BY <2>5, <4>1
    <3>8. Heard' \subseteq resolved' /\ answers' = Cardinality(Heard')
      BY <1>3, <2>9, <3>1, <3>3 DEF Once, Time!GetReply
    <3> QED BY <3>4, <3>5, <3>6, <3>7, <3>8 DEF Once
  <2> QED BY <1>3, <2>7, <2>8, <2>9 DEF TimeInv, Time!GetReply, Time!Expect
<1>4. ASSUME NEW h \in Host, Time!Listen(h) PROVE TimeInv'
  <2> DEFINE e == [host |-> h, time |-> Time!Low(now)]
             n == Len(replies) + 1
  <2>1. e \in [host : Host, time : Int]
    BY <1>0, LowType DEF TimeType
  <2>2. /\ replies' \in Seq([host : Host, time : Int]) /\ Len(replies') = n
        /\ \A j \in 1 .. Len(replies) : replies'[j] = replies[j]
        /\ replies'[n] = e
    BY <1>0, <1>4, <2>1, AppendProperties DEF TimeType, Time!Listen
  <2>3. DOMAIN replies' = 1 .. n
    BY <2>2, LenProperties
  <2>4. \A j \in 1 .. n : j \in DOMAIN replies \/ j = n
    BY <1>r
  <2>5. TimeType'
    BY <1>0, <1>4, <2>2 DEF TimeType, Time!Listen
  <2>6. Timely'
    <3>1. e.time = Time!Low(now) /\ now \in 0 .. now
      BY <1>0 DEF TimeType
    <3> QED BY <1>0, <1>r, <1>4, <2>2, <2>3, <2>4, <3>1 DEF Timely, Time!Listen
  <2>7. ASSUME Once PROVE Once'
    <3>1. requests[h] = 1 /\ h \in resolved \ (Heard \cup unsent)
      BY <1>0, <1>4, <2>7 DEF Once, TimeType, Time!Listen
    <3>2. \A j \in DOMAIN replies : replies[j].host # h
      BY <2>7, <3>1 DEF Once
    <3>3. Heard' = Heard /\ requests' = [requests EXCEPT ![h] = 0]
      BY <1>4, <3>1 DEF Heard, Time!Listen
    <3>4. \A g \in Host : requests'[g] # 0 => requests'[g] = 1 /\ g \in resolved' \ Heard'
      BY <1>0, <1>4, <2>7, <3>3 DEF Once, TimeType, Time!Listen
    <3>5. \A g \in unsent' : requests'[g] = 0 /\ g \notin Heard'
      BY <1>0, <1>4, <2>7, <3>3 DEF Once, TimeType, Time!Listen
    <3>6. \A j \in DOMAIN replies' :
             /\ replies'[j].host \in resolved' \ (Heard' \cup unsent')
             /\ requests'[replies'[j].host] = 0
      <4> SUFFICES ASSUME NEW j \in 1 .. n
                   PROVE  /\ replies'[j].host \in resolved \ (Heard \cup unsent)
                          /\ requests'[replies'[j].host] = 0
        BY <1>4, <2>3, <3>3 DEF Time!Listen
      <4>1. CASE j = n
        BY <1>0, <2>2, <3>1, <3>3, <4>1 DEF TimeType
      <4>2. CASE j \in DOMAIN replies
        <5>1. replies'[j] = replies[j] /\ replies[j].host # h
          BY <1>r, <2>2, <3>2, <4>2
        <5> QED BY <1>0, <2>7, <3>3, <4>2, <5>1 DEF Once, TimeType
      <4> QED BY <2>4, <4>1, <4>2
    <3>7. \A j, k \in DOMAIN replies' : replies'[j].host = replies'[k].host => j = k
      <4>1. replies'[n].host = h /\ \A j \in DOMAIN replies : replies'[j] = replies[j]
        BY <1>r, <2>2
      <4> QED BY <2>3, <2>4, <2>7, <3>2, <4>1 DEF Once
    <3> QED BY <1>4, <2>7, <3>3, <3>4, <3>5, <3>6, <3>7 DEF Once, Time!Listen
  <2> QED BY <1>4, <2>5, <2>6, <2>7 DEF TimeInv, Time!Listen, Time!Expect
<1>5. CASE Time!Tick
  <2>1. 0 .. now \subseteq 0 .. now'
    BY <1>0, <1>5 DEF TimeType, Time!Tick
  <2>2. Timely'
    BY <1>0, <1>5, <2>1 DEF Timely, Time!Tick
  <2>3. TimeType'
    BY <1>0, <1>5 DEF TimeType, Time!Tick
  <2>4. ASSUME Once PROVE Once'
    BY <1>5, <2>4 DEF Once, Heard, Time!Tick
  <2> QED BY <1>5, <2>2, <2>3, <2>4 DEF TimeInv, Time!Tick, Time!Expect
<1>6. ASSUME NEW h \in Host, Time!LoseRequest(h) PROVE TimeInv'
  <2>1. TimeType'
    BY <1>0, <1>6 DEF TimeType, Time!LoseRequest
  <2>2. Timely'
    BY <1>0, <1>6 DEF Timely, Time!LoseRequest
  <2>3. ASSUME Once PROVE Once'
    BY <1>0, <1>6, <2>3 DEF TimeType, Once, Heard, Time!LoseRequest
  <2> QED BY <1>6, <2>1, <2>2, <2>3 DEF TimeInv, Time!LoseRequest, Time!Expect
<1>7. ASSUME NEW i \in DOMAIN replies, Time!LoseReply(i) PROVE TimeInv'
  <2> DEFINE n == Len(replies) - 1
             old(j) == IF j < i THEN j ELSE j + 1
  <2>2. /\ replies' \in Seq([host : Host, time : Int]) /\ Len(replies') = n
        /\ \A j \in 1 .. n : replies'[j] = replies[old(j)]
    <3>1. replies' = Time!RemoveAt(replies, i)
      BY <1>7 DEF Time!LoseReply
    <3>2. replies \in Seq([host : Host, time : Int]) /\ i \in 1 .. Len(replies)
      BY <1>0, <1>r DEF TimeType
    <3> QED BY <3>1, <3>2, Removed
  <2>3. DOMAIN replies' = 1 .. n
    BY <2>2, LenProperties
  <2>4. \A j \in 1 .. n : old(j) \in DOMAIN replies
    BY <1>r
  <2>5. \A j, k \in 1 .. n : old(j) = old(k) => j = k
    BY <1>r
  <2> HIDE DEF old
  <2>7. TimeType'
    BY <1>0, <1>7, <2>2 DEF TimeType, Time!LoseReply
  <2>8. Timely'
    <3>1. now' = now /\ reports' = reports
      BY <1>7 DEF Time!LoseReply
    <3>2. \A j \in DOMAIN replies' : \E t \in 0 .. now : replies'[j].time = Time!Low(t)
      BY <1>0, <2>2, <2>3, <2>4 DEF Timely
    <3> QED BY <1>0, <3>1, <3>2 DEF Timely
  <2>9. ASSUME Once PROVE Once'
    <3>1. UNCHANGED <<requests, resolved, unsent, answers, Heard>>
      BY <1>7 DEF Heard, Time!LoseReply
    <3>2. \A j \in DOMAIN replies' :
             /\ replies'[j].host \in resolved \ (Heard \cup unsent)
             /\ requests[replies'[j].host] = 0
      BY <2>2, <2>3, <2>4, <2>9, SMTT(30) DEF Once
    <3>3. \A j, k \in DOMAIN replies' : replies'[j].host = replies'[k].host => j = k
      <4> SUFFICES ASSUME NEW j \in 1 .. n, NEW k \in 1 .. n,
                          replies[old(j)].host = replies[old(k)].host
                   PROVE  j = k
        BY <2>2, <2>3
      <4>1. old(j) = old(k)
        BY <2>4, <2>9 DEF Once
      <4> QED BY <2>5, <4>1
    <3> QED BY <2>9, <3>1, <3>2, <3>3 DEF Once
  <2> QED BY <1>7, <2>7, <2>8, <2>9 DEF TimeInv, Time!LoseReply, Time!Expect
<1>8. ASSUME NEW h \in Host, Time!CopyRequest(h) PROVE TimeInv'
  <2>1. TimeType' /\ copies' # 0
    BY <1>0, <1>8 DEF TimeType, Time!CopyRequest
  <2>2. Timely'
    BY <1>0, <1>8 DEF Timely, Time!CopyRequest
  <2> QED BY <1>8, <2>1, <2>2 DEF TimeInv, Time!CopyRequest, Time!Expect
<1>9. ASSUME NEW i \in DOMAIN replies, Time!CopyReply(i) PROVE TimeInv'
  <2> DEFINE n == Len(replies) + 1
  <2>1. replies[i] \in [host : Host, time : Int]
    BY <1>0, <1>r, ElementOfSeq DEF TimeType
  <2>2. /\ replies' \in Seq([host : Host, time : Int]) /\ Len(replies') = n
        /\ \A j \in 1 .. Len(replies) : replies'[j] = replies[j]
        /\ replies'[n] = replies[i]
    BY <1>0, <1>9, <2>1, AppendProperties DEF TimeType, Time!CopyReply
  <2>3. DOMAIN replies' = 1 .. n
    BY <2>2, LenProperties
  <2>4. \A j \in 1 .. n : j \in DOMAIN replies \/ j = n
    BY <1>r
  <2>5. TimeType' /\ copies' # 0
    BY <1>0, <1>9, <2>2 DEF TimeType, Time!CopyReply
  <2>6. Timely'
    BY <1>0, <1>r, <1>9, <2>2, <2>3, <2>4 DEF Timely, Time!CopyReply
  <2> QED BY <1>9, <2>5, <2>6 DEF TimeInv, Time!CopyReply, Time!Expect
<1> QED BY <1>1, <1>2, <1>3, <1>4, <1>5, <1>6, <1>7, <1>8, <1>9
        DEF Time!Next, Time!ClientStep, Time!Network

\* The time of a reply differs from the one it has the low-order bits of by a
\* multiple of 2 ^ Width, and by nothing while that one fits.
LEMMA LowRight ==
    ASSUME NEW t \in Nat
    PROVE  LET there == Time!Remote(Time!Low(t)) IN
           /\ (t - there) % 2 ^ Width = 0
           /\ t + Diff1900 < 2 ^ Width => there = t
<1> DEFINE M == 2 ^ Width
           x == t + Diff1900
<1>0. M \in Nat \ {0} /\ x \in Nat /\ Diff1900 \in Nat
  BY TimeAssumption
<1> HIDE DEF M
<1> SUFFICES (t - ((x % M) - Diff1900)) % M = 0 /\ (x < M => (x % M) - Diff1900 = t)
  BY DEF Time!Remote, Time!Low, M
<1>1. t - ((x % M) - Diff1900) = x - (x % M)
  BY <1>0 DEF x
<1> HIDE DEF x
<1>2. x = (M * (x \div M)) + (x % M) /\ (x % M) \in Nat
  BY <1>0
<1>3. x \div M \in Nat
  BY <1>0
<1>4. \A k \in Nat : (M * k) % M = 0
  BY <1>0
<1>5. x - (x % M) = M * (x \div M)
  BY <1>0, <1>2, <1>3
<1>6. (x - (x % M)) % M = 0
  BY <1>3, <1>4, <1>5
<1>7. x < M => x % M = x
  BY <1>0
<1> QED BY <1>0, <1>1, <1>6, <1>7 DEF x

LEMMA TimeIsFresh == TimeInv => Time!TimeFresh
<1> SUFFICES ASSUME TimeInv, NEW r \in reports
             PROVE  \E t \in 0 .. now :
                       /\ (t - r.there) % 2 ^ Width = 0
                       /\ t + Diff1900 < 2 ^ Width => r.there = t
  BY DEF Time!TimeFresh
<1>1. PICK t \in 0 .. now : r.there = Time!Remote(Time!Low(t))
  BY DEF TimeInv, Timely
<1> QED BY <1>1, LowRight DEF TimeInv, TimeType

LEMMA SameCardinality == \A S : Time!Cardinality(S) = Cardinality(S)
BY DEF Time!Cardinality, Cardinality

LEMMA AllAreAnswered == TimeInv => Time!AllAnswered
<1> SUFFICES ASSUME TimeInv, clientPc = "done", copies = 0 PROVE Heard = resolved
  BY DEF Time!AllAnswered, Heard
<1>1. Heard \subseteq resolved /\ Cardinality(Heard) = Cardinality(resolved)
  BY SameCardinality DEF TimeInv, Once, Time!Expect
<1>2. IsFiniteSet(resolved)
  BY FS_Subset, TimeAssumption DEF TimeInv, TimeType
<1> QED BY <1>1, <1>2, FS_Subset

-----------------------------------------------------------------------------
(* The four. *)

ChannelInv == CopyInv /\ PipeInv /\ TimeInv /\ LockInv

LEMMA ChannelInit == Init => ChannelInv
BY CopyInit, PipeInit, TimeInit, LockInit DEF Init, ChannelInv

LEMMA ChannelNext == ChannelInv /\ [Next]_vars => ChannelInv'
<1> SUFFICES ASSUME ChannelInv, [Next]_vars PROVE ChannelInv'
  OBVIOUS
<1>0. CopyInv /\ PipeInv /\ TimeInv /\ LockInv
  BY DEF ChannelInv
\* The invariant of a program that does not run.
<1>1. UNCHANGED copyVars => CopyInv'
  BY <1>0 DEF copyVars, CopyInv
<1>2. UNCHANGED pipeVars => PipeInv'
  BY <1>0 DEF pipeVars, PipeInv
<1>3. UNCHANGED timeVars => TimeInv'
  BY <1>0 DEF timeVars, TimeInv, TimeType, Timely, Once, Heard, Time!Expect
<1>4. UNCHANGED lockVars => LockInv'
  BY <1>0 DEF lockVars, LockInv, Lock!Holders
<1>5. CASE OnlyCopy /\ Copy!Next
  BY <1>0, <1>2, <1>3, <1>4, <1>5, CopyNext DEF ChannelInv, OnlyCopy
<1>6. CASE OnlyPipe /\ Pipe!Next
  BY <1>0, <1>1, <1>3, <1>4, <1>6, PipeNext DEF ChannelInv, OnlyPipe
<1>7. CASE OnlyTime /\ Time!Next
  BY <1>0, <1>1, <1>2, <1>4, <1>7, TimeNext DEF ChannelInv, OnlyTime
<1>8. CASE OnlyLock /\ Lock!Next
  BY <1>0, <1>1, <1>2, <1>3, <1>8, LockNext DEF ChannelInv, OnlyLock
<1>9. CASE UNCHANGED vars
  BY <1>1, <1>2, <1>3, <1>4, <1>9 DEF ChannelInv, vars
<1> QED BY <1>5, <1>6, <1>7, <1>8, <1>9 DEF Next

\* ChannelCopyTest, lines 21 and 40, and PipeTest: whatever the sizes of the source,
\* buffer, lines, pipe and page, and however few bytes each read and write moves,
\* bytes come out once and in order, and all of them by the end.
THEOREM BytesStayInOrder == Spec => []BytesInOrder
<1>1. ChannelInv => BytesInOrder
  BY CopyIsExact, PipeIsInOrder DEF ChannelInv, BytesInOrder
<1> QED BY <1>1, ChannelInit, ChannelNext, PTL DEF Spec

\* TimeClient, line 107, and TimeServer, putLong: for any hosts, width and clock, and
\* any losses, copies and delays, a printed time is one since the client started, up
\* to the multiples of 2 ^ Width that the reply cannot hold.
THEOREM TimesAreFresh == Spec => []TimeFresh
<1>1. ChannelInv => TimeFresh
  BY TimeIsFresh DEF ChannelInv, TimeFresh
<1> QED BY <1>1, ChannelInit, ChannelNext, PTL DEF Spec

\* TimeClient, line 86: the client counts replies, and not hosts; without copies of
\* datagrams the two are the same, whatever is lost or late.
THEOREM AllHostsAnswered == Spec => []AllAnswered
<1>1. ChannelInv => AllAnswered
  BY AllAreAnswered DEF ChannelInv, AllAnswered
<1> QED BY <1>1, ChannelInit, ChannelNext, PTL DEF Spec

\* LockTest, lines 55 to 68: while a reader has the shared lock no step changes the
\* file, with any readers and writers, any of which may be killed.
THEOREM IndexIsStable == Spec => StableUnderLock
<1>1. ChannelInv /\ [Next]_vars
         => [(\E r \in Reader : lockPc[r] = "use") => file' = file]_lockVars
  <2> SUFFICES ASSUME ChannelInv, [Next]_vars, NEW r \in Reader, lockPc[r] = "use"
               PROVE  file' = file
    OBVIOUS
  <2>1. CASE OnlyLock /\ Lock!Next
    BY <2>1, LockStable DEF ChannelInv
  <2>2. CASE UNCHANGED lockVars
    BY <2>2 DEF lockVars
  <2> QED BY <2>1, <2>2 DEF Next, OnlyCopy, OnlyPipe, OnlyTime, vars
<1>2. ChannelInv /\ [Next]_vars
         => [(\E r \in Reader : lockPc[r] = "use") => file' = file]_(Lock!lockVars)
  BY <1>1 DEF lockVars, Lock!lockVars
<1> QED BY <1>2, ChannelInit, ChannelNext, PTL DEF Spec, StableUnderLock, Lock!StableUnderLock
=============================================================================
