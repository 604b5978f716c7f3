------------------------- MODULE MCBackgroundLoader -------------------------
\* A small background loader for TLC.
EXTENDS BackgroundLoader, TLC

CONSTANTS t1, t2, t3, t4

\* Tasks are interchangeable; workers are not, the loops visit them in order.
TaskSymmetry == Permutations(Tasks)

=============================================================================
