--------------------------- MODULE MCSiteUnfenced ---------------------------
EXTENDS SiteExecution
CONSTANTS a, b, s1, s2, d1, ra, ra2, hb
MCEdges == {a, b}
MCSteps == {s1, s2, d1}
MCStepEdge == [s \in MCSteps |-> IF s = s2 THEN b ELSE a]
MCNormalPlan == <<s1, s2>>
MCDegradedPlan == <<d1>>
MCRunners == {ra, ra2}
MCHandlers == {hb}
MCHome == [t \in {ra, ra2, hb} |-> IF t \in {ra, ra2} THEN a ELSE b]
=============================================================================
