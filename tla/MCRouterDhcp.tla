----------------------------- MODULE MCRouterDhcp -----------------------------
(* RouterDhcp with two declared scopes; cfgs give the names as model values. *)
EXTENDS RouterDhcp

CONSTANTS lan, iot

MCScopes == {lan, iot}
MCDeclared == <<lan, iot>>
===============================================================================
