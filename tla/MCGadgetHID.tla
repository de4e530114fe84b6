---------------------------- MODULE MCGadgetHID ----------------------------
(* Instances of GadgetHID for TLC: symmetry over what can be held.         *)
EXTENDS GadgetHID, TLC

KeySymmetry == Permutations(Keys)
=============================================================================
