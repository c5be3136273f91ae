--------------------------- MODULE MCProbePipeline ---------------------------
\* The constants of ProbePipeline are model values, given in Probe.cfg.  There is no
\* symmetry: the run checks liveness.
EXTENDS ProbePipeline
=============================================================================
