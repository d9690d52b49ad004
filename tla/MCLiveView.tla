----------------------------- MODULE MCLiveView -----------------------------
\* Model values for the runs of LiveView: one page, whose old and new connection may be
\* open at once, and two goroutines that announce changes.
EXTENDS LiveView

CONSTANTS c1, c2, b1, b2

MCConns == {c1, c2}
MCBroadcasters == {b1, b2}

\* The hub with and without StructuredLogger around it, and the service as it is built.
AnyWriter == BOOLEAN
LoggingWriter == {FALSE}
=============================================================================
