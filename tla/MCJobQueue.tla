----------------------------- MODULE MCJobQueue -----------------------------
\* Model values for the run of JobQueue.
EXTENDS JobQueue

CONSTANTS p1, p2, c1, c2, r1, j1

MCProducers == {p1, p2}
MCConsumers == {c1, c2}
MCReaders == {r1}
MCJobs == {j1}
=============================================================================
