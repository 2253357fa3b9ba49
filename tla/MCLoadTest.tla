----------------------------- MODULE MCLoadTest -----------------------------
\* Small instance of LoadTest for TLC.
EXTENDS LoadTest, TLC

CONSTANTS j1, j2, e1, e2

\* One job per execution, as the load test seeds them.
MCDistinct == j1 :> e1 @@ j2 :> e2
=============================================================================
