---------------------------- MODULE MCDashboard ----------------------------
\* Model values for the run of Dashboard: one job, which is there or is yet to be created,
\* and the filters "All" and "Running".
EXTENDS Dashboard

CONSTANT a

MCJobs == {a}
MCTypeOf == [id \in MCJobs |-> "monitoring"]

MCFirstRows == {"absent", "scheduled"}
MCChosen == {BlankFilter, [status |-> "running", type |-> ""]}
=============================================================================
