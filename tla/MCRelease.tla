------------------------------ MODULE MCRelease ------------------------------
(* Two clones, which are alike.                                            *)
EXTENDS Release, TLC

Interchangeable == Permutations(Clones)
==============================================================================
