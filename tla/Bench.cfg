\* Three clients that publish up to two messages to warm up and two or three to measure,
\* in each mode, with and without other processes to start in step with.  With two to
\* measure, or with two to warm up, a client may measure nothing in mode recv.
CONSTANTS
    Clients <- MCClients
    Modes = {"single", "send", "recv"}
    PubIdleCounts = {0, 1, 2}
    TimesCounts = {2, 3}
SPECIFICATION FairSpec
INVARIANT MeasuredExactly
PROPERTY Finishes
CHECK_DEADLOCK FALSE
