---------------------------- MODULE MCAuditChain ----------------------------
EXTENDS AuditChain
\* A digest is the sequence of events it covers.
MCDigest == UNION {[1..n -> Event] : n \in 0..MaxId}
MCGenesis == <<>>
MCRowHash(id, e, prev) == IF Len(prev) = id - 1 THEN Append(prev, e) ELSE MCGenesis
=============================================================================
