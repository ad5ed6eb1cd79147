------------------------------- MODULE PipeTest -------------------------------
(***************************************************************************)
(* nio/channel/PipeTest.java: a worker writes lines into a pipe, main      *)
(* copies what it reads to the standard output.  All bytes put into lines  *)
(* are numbered.  The pipe is external: it blocks its writer when it is    *)
(* full and its reader when it is empty and not closed.                    *)
(***************************************************************************)
EXTENDS Naturals, Sequences

CONSTANTS Reps,      \* lines the worker writes: 10
          MaxLine,   \* length of the longest product
          PipeSize,  \* bytes the pipe holds
          PageSize   \* main's buffer: 100

VARIABLES workerPc,  \* "work", "write", "closed"
          lines,     \* i of the worker's loop
          put,       \* bytes put into lines so far
          line,      \* the worker's buffer
          pipe,      \* bytes in the pipe
          mainPc,    \* "read", "write", "done"
          page,      \* main's buffer
          printed    \* bytes on the standard output

pipeVars == <<workerPc, lines, put, line, pipe, mainPc, page, printed>>

Bytes(i, j) == [k \in 1 .. j - i |-> i + k]
Init ==
    /\ workerPc = "work"
    /\ lines = 0 /\ put = 0
    /\ line = <<>> /\ pipe = <<>> /\ page = <<>> /\ printed = <<>>
    /\ mainPc = "read"

\* doSomeWork clears the buffer and puts a line into it.
DoSomeWork ==
    /\ workerPc = "work" /\ lines < Reps
    /\ \E n \in 1 .. MaxLine :
          /\ line' = Bytes(put, put + n)
          /\ put' = put + n
    /\ workerPc' = "write"
    /\ UNCHANGED <<lines, pipe, mainPc, page, printed>>

\* channel.write(buffer) > 0: as much as the pipe takes.
\* (Mutant: a single write, no while.)
WriteSingle ==
    /\ workerPc = "write" /\ line # <<>>
    /\ \E n \in 1 .. Len(line) :
          /\ Len(pipe) + n <= PipeSize
          /\ pipe' = pipe \o SubSeq(line, 1, n)
    /\ line' = <<>>
    /\ UNCHANGED <<workerPc, lines, put, mainPc, page, printed>>

Write ==
    /\ workerPc = "write" /\ line # <<>>
    /\ \E n \in 1 .. Len(line) :
          /\ Len(pipe) + n <= PipeSize
          /\ pipe' = pipe \o SubSeq(line, 1, n)
          /\ line' = SubSeq(line, n + 1, Len(line))
    /\ UNCHANGED <<workerPc, lines, put, mainPc, page, printed>>

\* Nothing remains: write returns 0.
Written ==
    /\ workerPc = "write" /\ line = <<>>
    /\ lines' = lines + 1
    /\ workerPc' = "work"
    /\ UNCHANGED <<put, line, pipe, mainPc, page, printed>>

\* (Mutant: the channel is not closed.)
CloseNot ==
    /\ workerPc = "work" /\ lines = Reps
    /\ UNCHANGED pipeVars

Close ==
    /\ workerPc = "work" /\ lines = Reps
    /\ workerPc' = "closed"
    /\ UNCHANGED <<lines, put, line, pipe, mainPc, page, printed>>

\* workerChannel.read(buffer)
Read ==
    /\ mainPc = "read" /\ pipe # <<>>
    /\ \E n \in 1 .. PageSize :
          /\ n <= Len(pipe)
          /\ page' = SubSeq(pipe, 1, n)
          /\ pipe' = SubSeq(pipe, n + 1, Len(pipe))
    /\ mainPc' = "write"
    /\ UNCHANGED <<workerPc, lines, put, line, printed>>

\* The pipe is closed and empty: read returns -1.
End ==
    /\ mainPc = "read" /\ pipe = <<>> /\ workerPc = "closed"
    /\ mainPc' = "done"
    /\ UNCHANGED <<workerPc, lines, put, line, pipe, page, printed>>

\* out.write(buffer): the standard output's channel takes all.
PrintPage ==
    /\ mainPc = "write"
    /\ printed' = printed \o page
    /\ page' = <<>>
    /\ mainPc' = "read"
    /\ UNCHANGED <<workerPc, lines, put, line, pipe>>

WorkerStep == DoSomeWork \/ Write \/ Written \/ Close
MainStep == Read \/ End \/ PrintPage

Next == WorkerStep \/ MainStep

-----------------------------------------------------------------------------
(* Properties. *)

\* Line 16 of the class comment: what is written to the sink comes out of the
\* source in the same order; here from the lines to the standard output, and
\* main ends only when everything is out.
PipeInOrder ==
    /\ printed \o page \o pipe \o line = Bytes(0, put)
    /\ mainPc = "done" => Len(printed) = put /\ lines = Reps
=============================================================================
