----------------------------- MODULE MCShutdown -----------------------------
\* Model values for the runs of Shutdown: one request that enqueues, one goroutine of
\* the process (a retry timer or the scheduler), two workers, one stats request.
EXTENDS Shutdown

CONSTANTS handler, timer, c1, c2, r1, j1, j2

MCProducers == {handler, timer}
MCHandlers == {handler}
MCConsumers == {c1, c2}
MCReaders == {r1}
MCJobs == {j1, j2}
MCJobsOf == [p \in MCProducers |-> IF p = handler THEN {j1} ELSE {j2}]
=============================================================================
