----------------------------- MODULE MCPipeline -----------------------------
\* Small instances of EvaluationPipeline for TLC.
EXTENDS EvaluationPipeline, TLC

CONSTANTS j1, j2, e1, e2

\* Two scripts enqueue the same execution.
MCDuplicate == j1 :> e1 @@ j2 :> e1
\* One job per execution.
MCDistinct == j1 :> e1 @@ j2 :> e2
\* One job.
MCSingle == j1 :> e1
=============================================================================
