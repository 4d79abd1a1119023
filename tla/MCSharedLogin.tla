--------------------------- MODULE MCSharedLogin ---------------------------
(***************************************************************************)
(* Small instances of the shared login.                                    *)
(***************************************************************************)
EXTENDS SharedLogin, TLC

CONSTANTS o1, o2, o3

Operations == Permutations(Op)
=============================================================================
