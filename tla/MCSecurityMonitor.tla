------------------------- MODULE MCSecurityMonitor -------------------------
EXTENDS SecurityMonitor
CONSTANTS k1, k2
TwoChecks == <<k1, k2>>
PostBounds == [k \in Checks |-> IF k = k1 THEN 2 ELSE 1]
=============================================================================
