------------------------------ MODULE MCWebApp ------------------------------
\* Model values for the run of WebApp: one job that is there, one that can be created.
EXTENDS WebApp

CONSTANTS a, b, broken, scalar

MCJobs == {a, b}
MCPresent == {a}
MCRows == {[status |-> s, diagnosed |-> FALSE] : s \in {"running", "failed"}}
MCVisited == {"/", "/submit"}
MCTypes == {"csv_processing", "log_analysis"}
MCPriorities == {"normal"}
MCLimits == {0, 3}
MCTimes == {""}
MCLabels == {"", "label"}

\* No JSON, JSON that is no object, and an object typed with a _label of its own.
MCTyped == {broken, scalar, [of |-> "csv_processing", how |-> "hand", label |-> "label"]}
=============================================================================
