----------------------------- MODULE MCImplOwner -----------------------------
\* Instances of ImplOwner: two frontends, one path used by both sessions.
EXTENDS ImplOwner, TLC

CONSTANTS f1, f2, s1, s2, p1, k1

Symmetric == Permutations(Frontend) \cup Permutations(Sess)

ShortPath == s1 :> p1
OnePath == (s1 :> p1) @@ (s2 :> p1)
=============================================================================
