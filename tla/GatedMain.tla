----------------------------- MODULE GatedMain -----------------------------
(* What the merge pipeline promises of the gatehouse's main: it only grows,  *)
(* by one change when the keyboard pushes, and when the broker lands a tree, *)
(* that very tree was put through the gates.  A tree is its set of changes.  *)

VARIABLES mainTree,   \* the changes on main
          gatedTrees, \* the trees a gate run has been started on
          landings    \* the trees the broker made main

vars == <<mainTree, gatedTrees, landings>>

Init == mainTree = {} /\ gatedTrees = {} /\ landings = {}

Gate == /\ \E tree \in gatedTrees' : gatedTrees' = gatedTrees \cup {tree}
        /\ UNCHANGED <<mainTree, landings>>

Land == /\ mainTree' \in gatedTrees
        /\ mainTree \subseteq mainTree'
        /\ landings' = landings \cup {mainTree'}
        /\ UNCHANGED gatedTrees

Keyboard == /\ \E change \in mainTree' \ mainTree : mainTree' = mainTree \cup {change}
            /\ UNCHANGED <<gatedTrees, landings>>

Next == Gate \/ Land \/ Keyboard

Spec == Init /\ [][Next]_vars
=============================================================================
