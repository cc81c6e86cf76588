---------------------------- MODULE MCWriteLock -----------------------------
EXTENDS WriteLock, Naturals

(* Units are only names: they are used up in the order 1, 2, 3, which      *)
(* leaves out renamings of the same behaviours.  No fair action starts a   *)
(* unit, so the constraint takes no step away that fairness asks for.      *)
UnitsInOrder ==
    \A u \in Units :
        status[u] = "fresh" /\ status'[u] # "fresh"
          => \A v \in Units : v < u => status[v] # "fresh"
=============================================================================
