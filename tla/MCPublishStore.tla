--------------------------- MODULE MCPublishStore ---------------------------
(* Instances of PublishStore for TLC. *)
EXTENDS PublishStore

CONSTANTS i1, r1, x1

\* One photo published, given a title, unpublished, published again.
OnePhoto ==
  {[op |-> "publish", sha |-> r1, title |-> None],
   [op |-> "update", id |-> i1, title |-> x1],
   [op |-> "remove", id |-> i1]}
=============================================================================
