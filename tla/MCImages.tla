------------------------------- MODULE MCImages -------------------------------
(* A release, and a commit without a tag.                                 *)
EXTENDS Images, TLC

History == <<<<"v1">>, <<>>>>
Interchangeable == Permutations(Users)

(* What is pinned where counts for cleanings that are still to begin.      *)
View == <<builds, registry, old, settled, doing, begun,
          IF begun = MaxBegun THEN pin.hidden ELSE pin>>
==============================================================================
