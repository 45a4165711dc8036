------------------------- MODULE MCMediaStoreShared -------------------------
(* Instances of MediaStoreShared for TLC. *)
EXTENDS MediaStoreShared, TLC

CONSTANTS a1, a2, c1, c2, n1

SameSize == [c \in Contents |-> 1]

\* Two photos of one name.
TwoPhotos == {[asset |-> a1, content |-> c1, name |-> n1],
              [asset |-> a2, content |-> c2, name |-> n1]}

ThreadSymmetry == Permutations(Threads)
=============================================================================
