------------------------------- MODULE LockTest -------------------------------
(***************************************************************************)
(* nio/channel/LockTest.java: processes that share an index in a file,     *)
(* writers under an exclusive lock, readers under a shared one.  A buffer  *)
(* is its ten slots.  The file and its locks are external; a process that  *)
(* is killed loses its lock.                                               *)
(***************************************************************************)
EXTENDS Naturals

CONSTANTS Reader, Writer,
          Count,       \* INDEX_COUNT: 10
          MaxUpdates,  \* bound of a writer's updates
          MaxReps      \* bound of reps: 79

Process == Reader \cup Writer
Slot == 0 .. Count - 1
VARIABLES lockPc,       \* "lock", "use", "write", "release", "killed"
          file,         \* the index, or <<>> when nobody has written one
          indexBuffer,  \* by process
          idxval,       \* by writer
          reps,         \* readings left, by reader
          entry         \* the last line a reader printed

lockVars == <<lockPc, file, indexBuffer, idxval, reps, entry>>

NoIndex == <<>>
NoEntry == [n |-> Count, value |-> 0, right |-> 0]
Entry == [n : 0 .. Count, value : Nat, right : Nat]

\* The file is new, or has the index of an earlier run.
Init ==
    /\ lockPc = [p \in Process |-> "lock"]
    /\ file \in {NoIndex, [n \in Slot |-> 2 + n]}
    /\ indexBuffer = [p \in Process |-> [n \in Slot |-> 0]]
    /\ idxval = [w \in Writer |-> 1]
    /\ reps = [r \in Reader |-> 0]
    /\ entry = [r \in Reader |-> NoEntry]

Holders == {p \in Process : lockPc[p] \in {"use", "write", "release"}}

LockShared(r) ==
    /\ lockPc[r] = "lock" /\ Holders \cap Writer = {}
    /\ lockPc' = [lockPc EXCEPT ![r] = "use"]
    /\ \E n \in 1 .. MaxReps : reps' = [reps EXCEPT ![r] = n]
    /\ UNCHANGED <<file, indexBuffer, idxval, entry>>

\* fc.read(buffer, position): the file from slot n on, as far as it goes.
ReadFrom(n, buffer) ==
    [i \in Slot |-> IF n + i \in DOMAIN file THEN file[n + i] ELSE buffer[i]]

\* One turn of the loop of doQueries, for any n; "right" is what slot n holds.
Query(r) ==
    /\ lockPc[r] = "use" /\ reps[r] > 0
    /\ \E n \in Slot :
          LET buffer == ReadFrom(n, indexBuffer[r])
          IN  /\ indexBuffer' = [indexBuffer EXCEPT ![r] = buffer]
              /\ entry' = [entry EXCEPT ![r] =
                     [n |-> n, value |-> buffer[n],
                      right |-> IF n \in DOMAIN file THEN file[n] ELSE buffer[n]]]
    /\ reps' = [reps EXCEPT ![r] = @ - 1]
    /\ UNCHANGED <<lockPc, file, idxval>>

QueriesDone(r) ==
    /\ lockPc[r] = "use" /\ reps[r] = 0
    /\ lockPc' = [lockPc EXCEPT ![r] = "lock"]
    /\ UNCHANGED <<file, indexBuffer, idxval, reps, entry>>

\* (Mutant: the lock of another region, which nobody else holds.)
LockElsewhere(w) ==
    /\ lockPc[w] = "lock" /\ idxval[w] < 1 + MaxUpdates * Count
    /\ lockPc' = [lockPc EXCEPT ![w] = "use"]
    /\ UNCHANGED <<file, indexBuffer, idxval, reps, entry>>

\* lock.isShared() is false, as asked for.
LockExclusive(w) ==
    /\ lockPc[w] = "lock" /\ Holders = {} /\ idxval[w] < 1 + MaxUpdates * Count
    /\ lockPc' = [lockPc EXCEPT ![w] = "use"]
    /\ UNCHANGED <<file, indexBuffer, idxval, reps, entry>>

\* The loop of doUpdates: one slot after the other.
Fill(w) ==
    /\ lockPc[w] = "use"
    /\ indexBuffer' = [indexBuffer EXCEPT ![w] = [n \in Slot |-> idxval[w] + 1 + n]]
    /\ idxval' = [idxval EXCEPT ![w] = @ + Count]
    /\ lockPc' = [lockPc EXCEPT ![w] = "write"]
    /\ UNCHANGED <<file, reps, entry>>

WriteIndex(w) ==
    /\ lockPc[w] = "write"
    /\ file' = indexBuffer[w]
    /\ lockPc' = [lockPc EXCEPT ![w] = "release"]
    /\ UNCHANGED <<indexBuffer, idxval, reps, entry>>

ReleaseExclusive(w) ==
    /\ lockPc[w] = "release"
    /\ lockPc' = [lockPc EXCEPT ![w] = "lock"]
    /\ UNCHANGED <<file, indexBuffer, idxval, reps, entry>>

Kill(p) ==
    /\ lockPc[p] # "killed"
    /\ lockPc' = [lockPc EXCEPT ![p] = "killed"]
    /\ UNCHANGED <<file, indexBuffer, idxval, reps, entry>>

ReaderStep(r) == LockShared(r) \/ Query(r) \/ QueriesDone(r)
WriterStep(w) == LockExclusive(w) \/ Fill(w) \/ WriteIndex(w) \/ ReleaseExclusive(w)

Next ==
    \/ \E r \in Reader : ReaderStep(r)
    \/ \E w \in Writer : WriterStep(w)
    \/ \E p \in Process : Kill(p)

-----------------------------------------------------------------------------
(* Properties. *)

\* While a reader is between lock() and release(), lines 55 and 68, the index does
\* not change, whoever writes and whoever is killed where.
StableUnderLock ==
    [][(\E r \in Reader : lockPc[r] = "use") => file' = file]_lockVars

\* Line 63 prints "Index entry n=value": the value is the one slot n has.
EntryRight == \A r \in Reader : entry[r].value = entry[r].right
=============================================================================
