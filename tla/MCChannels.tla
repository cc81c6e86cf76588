----------------------------- MODULE MCChannels -----------------------------
EXTENDS Channels, TLC

(* Handlers run the same code.                                             *)
Symmetry == Permutations(Handlers)
=============================================================================
