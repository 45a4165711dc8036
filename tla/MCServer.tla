------------------------------ MODULE MCServer ------------------------------
(* An instance of Server for TLC: two records of one item. *)
EXTENDS Server

CONSTANT i1

OneItem == <<i1, i1>>
=============================================================================
