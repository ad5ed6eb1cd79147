------------------------------ MODULE SizeQuery ------------------------------
(***************************************************************************)
(* What a caller of getTotalSizeOfFile is promised by every one of the     *)
(* TotalFileSize programs, as TotalFileSizeSequential fulfils it: one      *)
(* answer, in which every directory is counted exactly once.  The only     *)
(* excuse for another ending is a wait that timed out: then there may be   *)
(* no answer, because an exception left the method; or, of the program     *)
(* that ignores its time-out, a partial one (no directory counted twice).  *)
(***************************************************************************)
EXTENDS FileTree

CONSTANT MayBePartial  \* the program may answer after a time-out

VARIABLES phase,   \* "running", "returned" or "failed" (by an exception)
          answer,  \* what was returned, a sum of direct sizes
          excuse   \* a wait of this call timed out

queryVars == <<phase, answer, excuse>>

Partial == {size \in [Dir -> {0, 1}] : size # ExactSize}

Init == phase = "running" /\ answer = Nothing /\ excuse = FALSE

TimeOut ==
    /\ phase = "running"
    /\ excuse' = TRUE
    /\ UNCHANGED <<phase, answer>>

Answer ==
    /\ phase = "running"
    /\ phase' = "returned"
    /\ answer' = ExactSize
    /\ UNCHANGED excuse

AnswerPartial ==
    /\ phase = "running"
    /\ excuse /\ MayBePartial
    /\ phase' = "returned"
    /\ answer' \in Partial
    /\ UNCHANGED excuse

Fail ==
    /\ phase = "running"
    /\ excuse
    /\ phase' = "failed"
    /\ UNCHANGED <<answer, excuse>>

Next == TimeOut \/ Answer \/ AnswerPartial \/ Fail

Spec == Init /\ [][Next]_queryVars
=============================================================================
