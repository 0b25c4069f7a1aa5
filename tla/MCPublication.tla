---------------------------- MODULE MCPublication -----------------------------
(* Publication with two commits, the first one and another. *)
EXTENDS Publication

CONSTANTS c0, c1

MCCommits == {c0, c1}
===============================================================================
