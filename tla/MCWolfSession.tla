---------------------------- MODULE MCWolfSession ----------------------------
(* WolfSession on small instances: start requests and clients are model values. *)
EXTENDS WolfSession, TLC

SessionSymmetry == Permutations(Sessions)
=============================================================================
