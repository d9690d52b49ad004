--------------------------- MODULE MCJobLifecycle ---------------------------
\* Model values and symmetry for the runs of JobLifecycle.
EXTENDS JobLifecycle, TLC

CONSTANTS i1, i2, t1, t2, w1, w2

MCIds == {i1, i2}
MCTasks == {t1, t2}
MCWorkers == {w1, w2}
OneWorker == {w1}

\* What clients ask for: nothing, which becomes the default, or a negative number.
OnlyDefault == {0}
NoRetries == {-1}

Symmetry == Permutations(MCIds) \union Permutations(MCTasks) \union Permutations(MCWorkers)
=============================================================================
