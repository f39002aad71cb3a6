---------------------------- MODULE MCHeldSession ----------------------------
\* HeldSession for TLC: two tasks, of two statements each.
EXTENDS HeldSession

CONSTANTS t1, t2

Tasks == {t1, t2}
==============================================================================
