-------------------------- MODULE MCCoreComponent --------------------------
(* Two callers with four calls between them. *)
EXTENDS CoreComponent

MCStatuses == {"pass", "fail"}
=============================================================================
