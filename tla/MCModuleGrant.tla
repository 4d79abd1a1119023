--------------------------- MODULE MCModuleGrant ---------------------------
(***************************************************************************)
(* Small instances of the PKCS#11 module.                                  *)
(***************************************************************************)
EXTENDS ModuleGrant, TLC

CONSTANTS p1, p2, p3

Threads == Permutations(Thread)
=============================================================================
