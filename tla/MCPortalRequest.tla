-------------------------- MODULE MCPortalRequest --------------------------
(***************************************************************************)
(* Small instances of the portal client.                                   *)
(***************************************************************************)
EXTENDS PortalRequest, TLC

CONSTANTS c1, c2

Callers == Permutations(Caller)
=============================================================================
