------------------------------- MODULE MCCore -------------------------------
(***************************************************************************)
(* Small instances of the core: one session, and a card that may be taken  *)
(* out and put back (c1 and c2 are insertions of one token).               *)
(***************************************************************************)
EXTENDS Core, TLC

CONSTANTS s1, s2, a1, a2, g1, c1, c2, c3, t1, t2

OneSession == [r \in Request |-> s1]
TokenTable == (c1 :> t1) @@ (c2 :> t1) @@ (c3 :> t2)
Requests   == Permutations(Acquire)

Attended    == [malformed |-> {}, silent |-> {}, display |-> TRUE]
Headless    == [malformed |-> {}, silent |-> {}, display |-> FALSE]
Unheard     == [malformed |-> Sign, silent |-> Acquire, display |-> TRUE]
DesktopOnly == {Attended}
AnySetting  == {Attended, Headless, Unheard}
=============================================================================
