------------------------------ MODULE MCRehearsal ------------------------------
(* One operator, a few cut-short commands, and a few commands beside the retries. *)
EXTENDS Rehearsal
===============================================================================
