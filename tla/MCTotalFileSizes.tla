-------------------------- MODULE MCTotalFileSizes --------------------------
(* The programs of TotalFileSizes on the trees of a few directories, which *)
(* are numbers, the root 0.                                                *)
EXTENDS TotalFileSizes

\* The names of directories mean nothing to the programs: it is enough to take
\* each shape of tree once, here those whose subdirectories have the greater
\* number.
Ordered == \A d \in Dir : \A c \in sub[d] : d < c
MCInit == Init /\ Ordered
MCSpec == MCInit /\ [][Next]_vars /\ Fairness
=============================================================================
