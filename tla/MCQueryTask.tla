----------------------------- MODULE MCQueryTask -----------------------------
\* QueryTask for TLC: one approver whose page may be stale, and one cancel at a time.
EXTENDS QueryTask

CONSTANTS a1, c1

Approvers == {a1}
Cancellers == {c1}
=============================================================================
