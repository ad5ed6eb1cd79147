--------------------------- MODULE ChannelPrograms ---------------------------
(***************************************************************************)
(* Four programs of nio/channel that share no state: the copying loops,    *)
(* the pipe, the time service and the locked index.  One of them runs.     *)
(***************************************************************************)
EXTENDS Integers, Sequences, FiniteSets

CONSTANTS Capacity, Length,
          Reps, MaxLine, PipeSize, PageSize,
          Host, Width, Diff1900, MaxTime, MaxFaults,
          Reader, Writer, Count, MaxUpdates, MaxReps

ASSUME CopyAssumption == Capacity \in Nat /\ Length \in Nat
ASSUME PipeAssumption == {Reps, MaxLine, PipeSize, PageSize} \subseteq Nat
\* The provers know nothing of powers but what is said here.
ASSUME TimeAssumption ==
    /\ IsFiniteSet(Host)
    /\ Diff1900 \in Nat /\ 2 ^ Width \in Nat \ {0}
ASSUME LockAssumption == Reader \cap Writer = {}

VARIABLES
    program,  \* the one that runs
    version, copyPc, taken, buffer, dest,
    workerPc, lines, put, line, pipe, mainPc, page, printed,
    resolved, now, clientPc, unsent, requests, replies, answers, reports, losses, copies,
    lockPc, file, indexBuffer, idxval, reps, entry

Copy == INSTANCE ChannelCopyTest
Pipe == INSTANCE PipeTest
Time == INSTANCE TimeService
Lock == INSTANCE LockTest

copyVars == <<version, copyPc, taken, buffer, dest>>
pipeVars == <<workerPc, lines, put, line, pipe, mainPc, page, printed>>
timeVars == <<resolved, now, clientPc, unsent, requests, replies, answers,
              reports, losses, copies>>
lockVars == <<lockPc, file, indexBuffer, idxval, reps, entry>>
vars == <<program, copyVars, pipeVars, timeVars, lockVars>>

Init ==
    /\ program \in {"ChannelCopyTest", "PipeTest", "TimeService", "LockTest"}
    /\ Copy!Init /\ Pipe!Init /\ Time!Init /\ Lock!Init

\* The others are not running.
OnlyCopy == program = "ChannelCopyTest"
            /\ UNCHANGED <<program, pipeVars, timeVars, lockVars>>
OnlyPipe == program = "PipeTest"
            /\ UNCHANGED <<program, copyVars, timeVars, lockVars>>
OnlyTime == program = "TimeService"
            /\ UNCHANGED <<program, copyVars, pipeVars, lockVars>>
OnlyLock == program = "LockTest"
            /\ UNCHANGED <<program, copyVars, pipeVars, timeVars>>

Next ==
    \/ OnlyCopy /\ Copy!Next
    \/ OnlyPipe /\ Pipe!Next
    \/ OnlyTime /\ Time!Next
    \/ OnlyLock /\ Lock!Next

Spec == Init /\ [][Next]_vars

\* Threads and servers are scheduled.  A channel that is asked again and again to
\* take bytes takes some, once and again: of a write that takes none nothing more
\* than that is known, so this is strong fairness.
Fairness ==
    /\ WF_vars(OnlyCopy /\ Copy!Next)
    /\ SF_vars(OnlyCopy /\ Copy!WriteStep(1))
    /\ WF_vars(OnlyPipe /\ Pipe!WorkerStep)
    /\ WF_vars(OnlyPipe /\ Pipe!MainStep)
    /\ WF_vars(OnlyTime /\ Time!ClientStep)
    /\ WF_vars(OnlyTime /\ \E h \in Host : Time!Listen(h))

FairSpec == Spec /\ Fairness

-----------------------------------------------------------------------------
(* Properties. *)

\* Both copying loops (ChannelCopyTest, lines 21 and 40): what was read is written or
\* in the buffer, in order, and at the end all is written.  The pipe (line 16 of the
\* class comment of PipeTest): bytes come out in the order they were written in, and
\* main ends only when all are out.
BytesInOrder == Copy!CopyExact /\ Pipe!PipeInOrder

\* TimeClient, line 107: a printed time is one between the start and now.
TimeFresh == Time!TimeFresh

\* TimeClient, line 86: all the hosts asked are reported, if nothing was copied.
AllAnswered == Time!AllAnswered

\* LockTest, lines 55 to 68: the index is stable under a reader's lock.
StableUnderLock == Lock!StableUnderLock

\* LockTest, line 63: the printed value of an entry is the one its slot has.
EntryRight == Lock!EntryRight

\* A copy ends, the pipe's reader ends, and the time client does if it asked anyone
\* and nothing was lost (liveness).
ProgramEnds ==
    /\ program = "ChannelCopyTest" => <>(copyPc = "done")
    /\ program = "PipeTest" => <>(mainPc = "done")
    /\ program = "TimeService" => Time!TimeClientEnds
=============================================================================
