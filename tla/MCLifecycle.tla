---------------------------- MODULE MCLifecycle -----------------------------
EXTENDS FailureLogs, SequencesExt

CONSTANTS
    MaxTime,      \* bound on the clock the failure limiter reads
    MaxCalls      \* bound on the failures reported

MCReadings == BoundedSeq(0..MaxTime, MaxCalls)
=============================================================================
