-------------------------- MODULE MCSelectSockets --------------------------
(* SelectSockets and SelectSocketsThreadPool with a few clients. *)
EXTENDS SelectSocketsThreadPool

\* Workers are interchangeable: one order of the list is enough.
MCInit == Init /\ idle = CHOOSE f \in [1 .. Cardinality(Workers) -> Workers] :
                             \A i, j \in DOMAIN f : f[i] = f[j] => i = j
MCSpec == MCInit /\ [][Next]_vars /\ Fairness
=============================================================================
