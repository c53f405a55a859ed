------------------------------- MODULE Stats --------------------------------
(***************************************************************************)
(* The statistics of stats.go: the batch loop adds to cumulative atomic    *)
(* counters, the ticker goroutine logs their growth since the last record, *)
(* and runRelay flushes once more when the loop has returned.  A logger    *)
(* reads the counters before it takes the lock on the common baseline.     *)
(***************************************************************************)
EXTENDS Integers

CONSTANTS
    MaxBatches,     \* bound on the batches of one behaviour
    MaxEvents,      \* bound on the events of a batch
    MaxTicks        \* bound on the ticks of one behaviour

Loggers == {"ticker", "flush"}

VARIABLES
    counter,      \* events sent, as counted by addCommittedBatch
    loop,         \* whether processEvents still runs
    batches,      \* batches so far
    ticks,        \* ticks so far
    pc,           \* where each logger is
    current,      \* the snapshot it has read
    lastLogged,   \* the common baseline
    record        \* the value of its last record

vars == <<counter, loop, batches, ticks, pc, current, lastLogged, record>>

Init ==
    /\ counter = 0
    /\ loop = TRUE
    /\ batches = 0
    /\ ticks = 0
    /\ pc = [l \in Loggers |-> "ready"]
    /\ current = [l \in Loggers |-> 0]
    /\ lastLogged = 0
    /\ record = [l \in Loggers |-> 0]

\* A batch commits with n events sent.
AddCommittedBatch(n) ==
    /\ loop
    /\ batches < MaxBatches
    /\ batches' = batches + 1
    /\ counter' = counter + n
    /\ UNCHANGED <<loop, ticks, pc, current, lastLogged, record>>

\* processEvents returns: cancelled, or with a fatal error that leaves the
\* ticker's context alive.
LoopReturns ==
    /\ loop
    /\ loop' = FALSE
    /\ UNCHANGED <<counter, batches, ticks, pc, current, lastLogged, record>>

\* intervalSnapshot, first half: the counters are read without the lock.
Read(l) ==
    /\ pc[l] = "ready"
    /\ CASE l = "ticker" -> ticks < MaxTicks /\ ticks' = ticks + 1
         [] l = "flush" -> ~loop /\ UNCHANGED ticks
    /\ current' = [current EXCEPT ![l] = counter]
    /\ pc' = [pc EXCEPT ![l] = "read"]
    /\ UNCHANGED <<counter, loop, batches, lastLogged, record>>

\* Second half, under the lock: log the difference and move the baseline.
Record(l) ==
    /\ pc[l] = "read"
    /\ record' = [record EXCEPT ![l] = current[l] - lastLogged]
    /\ lastLogged' = current[l]
    /\ pc' = [pc EXCEPT ![l] = IF l = "flush" THEN "done" ELSE "ready"]
    /\ UNCHANGED <<counter, loop, batches, ticks, current>>

Next ==
    \/ \E n \in 0..MaxEvents : AddCommittedBatch(n)
    \/ LoopReturns
    \/ \E l \in Loggers : Read(l) \/ Record(l)

Spec == Init /\ [][Next]_vars
-----------------------------------------------------------------------------
\* intervalSnapshot: "consecutive calls partition the cumulative counters into
\* non-overlapping intervals": no record is negative.
IntervalsPartition == \A l \in Loggers : record[l] >= 0
=============================================================================
