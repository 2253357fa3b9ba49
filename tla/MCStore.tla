------------------------------- MODULE MCStore -------------------------------
\* Small instances of PostgresStore for TLC.
EXTENDS PostgresStore, TLC

CONSTANTS q1, q2, q3, h0, h1

\* The runs that check no liveness treat the requests as interchangeable.
MCSymmetry == Permutations(Requests)
=============================================================================
