--------------------------- MODULE MCAuditMonitor ---------------------------
EXTENDS AuditMonitor, TLC
ContentSymmetry == Permutations(Content)
=============================================================================
