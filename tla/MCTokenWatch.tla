---------------------------- MODULE MCTokenWatch ----------------------------
\* Two readers, a card with a serial number and a kind of card without one.
EXTENDS TokenWatch

CONSTANTS r1, r2, c1, u1
=============================================================================
