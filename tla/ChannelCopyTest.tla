--------------------------- MODULE ChannelCopyTest ---------------------------
(***************************************************************************)
(* nio/channel/ChannelCopyTest.java: the two loops that copy a source      *)
(* channel to a destination through one buffer.  The source's bytes are    *)
(* numbered.  The buffer is what it holds: flip and compact change how it  *)
(* is used and not what is in it.  The channels are external: a read       *)
(* brings at least one byte, if there is room; a write takes any number.   *)
(***************************************************************************)
EXTENDS Naturals, Sequences

CONSTANTS Capacity,  \* of the buffer: 16 * 1024
          Length     \* bytes in the source

VARIABLES version,  \* "channelCopy1" or "channelCopy2"
          copyPc,   \* "read", "write", "drain" after the end of the source, "done"
          taken,    \* bytes read from src
          buffer,   \* bytes in the buffer
          dest      \* bytes written

copyVars == <<version, copyPc, taken, buffer, dest>>

Bytes(i, j) == [k \in 1 .. j - i |-> i + k]

Init ==
    /\ version \in {"channelCopy1", "channelCopy2"}
    /\ copyPc = "read"
    /\ taken = 0
    /\ buffer = <<>>
    /\ dest = <<>>

Room == Capacity - Len(buffer)

\* src.read(buffer) > 0
Read ==
    /\ copyPc = "read"
    /\ \E n \in 1 .. Room :
          /\ taken + n <= Length
          /\ buffer' = buffer \o Bytes(taken, taken + n)
          /\ taken' = taken + n
    /\ copyPc' = "write"
    /\ UNCHANGED <<version, dest>>

\* The buffer is full, because dest takes nothing: read returns 0.
ReadNothing ==
    /\ copyPc = "read"
    /\ Room = 0
    /\ copyPc' = "write"
    /\ UNCHANGED <<version, taken, buffer, dest>>

\* read returns -1.  The first loop drains the buffer, the second has done so.
\* (Mutant: without lines 30-34.)
EndUndrained ==
    /\ copyPc = "read"
    /\ Room > 0 /\ taken = Length
    /\ copyPc' = "done"
    /\ UNCHANGED <<version, taken, buffer, dest>>

End ==
    /\ copyPc = "read"
    /\ Room > 0 /\ taken = Length
    /\ copyPc' = IF version = "channelCopy1" THEN "drain" ELSE "done"
    /\ UNCHANGED <<version, taken, buffer, dest>>

Write(n) ==
    /\ dest' = dest \o SubSeq(buffer, 1, n)
    /\ buffer' = SubSeq(buffer, n + 1, Len(buffer))
    /\ UNCHANGED <<version, taken>>

\* flip, one write, compact.  (Mutant: clear() for compact().)
CopyOnceAndClear(n) ==
    /\ version = "channelCopy1" /\ copyPc = "write"
    /\ dest' = dest \o SubSeq(buffer, 1, n)
    /\ buffer' = <<>>
    /\ copyPc' = "read"
    /\ UNCHANGED <<version, taken>>

CopyOnce(n) ==
    /\ version = "channelCopy1" /\ copyPc = "write"
    /\ Write(n)
    /\ copyPc' = "read"

\* The inner loop of the second version, and its clear().
CopyAll(n) ==
    /\ version = "channelCopy2" /\ copyPc = "write"
    /\ Write(n)
    /\ copyPc' = IF n = Len(buffer) THEN "read" ELSE "write"

\* while (buffer.hasRemaining()) dest.write(buffer)
Drain(n) ==
    /\ copyPc = "drain"
    /\ Write(n)
    /\ copyPc' = IF n = Len(buffer) THEN "done" ELSE "drain"

\* Every write of the two versions, taking at least so many bytes.
WriteStep(least) == \E n \in least .. Len(buffer) : CopyOnce(n) \/ CopyAll(n) \/ Drain(n)

Next == Read \/ ReadNothing \/ End \/ WriteStep(0)

-----------------------------------------------------------------------------
(* Properties. *)

\* What was read is written, or in the buffer, once and in order; at the end
\* nothing is left anywhere, however little each write took.
CopyExact ==
    /\ dest \o buffer = Bytes(0, taken)
    /\ copyPc = "done" => taken = Length /\ buffer = <<>>
=============================================================================
