-------------------------- MODULE MCAtlasMaintenance --------------------------
(* The work on a running Atlas with few renewals, faults and deployments. *)
EXTENDS AtlasMaintenance
===============================================================================
