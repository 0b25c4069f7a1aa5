-------------------------- MODULE MCCortexWorkflows ---------------------------
(* CortexWorkflows with one window and two backups; cfgs name them as model values. *)
EXTENDS CortexWorkflows

CONSTANTS w1, b1, b2

MCWindows == {w1}
MCBackups == {b1, b2}
===============================================================================
