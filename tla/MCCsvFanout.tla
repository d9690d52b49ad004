---------------------------- MODULE MCCsvFanout ----------------------------
\* The kinds of rows for the runs of CsvFanout.
EXTENDS CsvFanout

AllKinds == {"valid", "short", "unkeyed"}
=============================================================================
