----------------------------- MODULE MCWakeLane -----------------------------
EXTENDS WakeLane

(* The calls are alike: they come in the order of their numbers.           *)
CallsInOrder ==
    \A w \in Wakes : call[w] = "new" /\ call'[w] # "new" =>
        \A v \in Wakes : v < w => call[v] # "new"

=============================================================================
