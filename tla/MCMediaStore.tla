---------------------------- MODULE MCMediaStore ----------------------------
(* Instances of MediaStore for TLC. *)
EXTENDS MediaStore, TLC

CONSTANTS a1, a2, c1, c2, n1

MCSizeOf == [c \in Contents |-> IF c = c1 THEN 1 ELSE 2]
SameSize == [c \in Contents |-> 1]

\* Two assets from cameras that number alike: the same name in the same month,
\* and the second asset either a copy of the first or an edit of its own.
SharedName == {[asset |-> a1, content |-> c1, name |-> n1],
               [asset |-> a2, content |-> c1, name |-> n1],
               [asset |-> a2, content |-> c2, name |-> n1]}

\* Two different photos of one name.
TwoPhotos == {[asset |-> a1, content |-> c1, name |-> n1],
              [asset |-> a2, content |-> c2, name |-> n1]}

OnePhoto == {[asset |-> a1, content |-> c1, name |-> n1]}

ThreadSymmetry == Permutations(Threads)
=============================================================================
