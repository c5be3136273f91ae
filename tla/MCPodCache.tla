----------------------------- MODULE MCPodCache -----------------------------
\* Model values for PodCache: three pods, the second with two containers.
EXTENDS PodCache

MCPodOf == [c \in Containers |-> IF c = 4 THEN 2 ELSE c]
=============================================================================
