------------------------- MODULE MCAtlasAuthorities --------------------------
(* Initialization of Atlas and of FreeIPA with few stops and losses. *)
EXTENDS AtlasFreeipa
===============================================================================
