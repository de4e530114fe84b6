--------------------------- MODULE MCBroadcaster ---------------------------
(* Instances of Broadcaster for TLC: symmetry over viewers and sizes.      *)
EXTENDS Broadcaster, TLC

ViewerSymmetry == Permutations(Sessions) \cup Permutations(Sizes)
=============================================================================
