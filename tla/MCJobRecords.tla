---------------------------- MODULE MCJobRecords ----------------------------
\* Model values and symmetry for the runs of JobRecords.
EXTENDS JobRecords, TLC

CONSTANTS d1, d2

MCDoctors == {d1, d2}
Symmetry == Permutations(MCDoctors)

\* The backoffs of the first eight attempts: doubled each time up to the limit.
ASSUME BackoffTable ==
    [a \in 0..7 |-> Backoff(a)] = [a \in 0..7 |-> <<1, 2, 4, 8, 16, 32, 60, 60>>[a + 1]]
=============================================================================
