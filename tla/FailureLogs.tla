---------------------------- MODULE FailureLogs -----------------------------
(***************************************************************************)
(* The failure log of the process: what its readers see of failures that   *)
(* the loop and the senders report at these readings of the clock.         *)
(***************************************************************************)
EXTENDS Lifecycle, FailureLogger

CONSTANT Readings    \* clock readings, in the order in which they get the lock

ASSUME ReadingsAssumption == Readings \subseteq Seq(Nat)

\* S13, docs/logs.md (shouldLog): whichever goroutines report a failure, and in
\* whatever order their readings get the lock, it is logged at most once per window,
\* and each report is in a line, in the count of one, or in the count the next line
\* will carry.  (It does not depend on the state: the initial one stands for all.)
OncePerWindowAllCounted ==
    Init => \A readings \in Readings :
        LET log == Reported(readings)
        IN  /\ \A i, j \in DOMAIN log.lines : i < j => log.lines[j] >= log.lines[i] + Window
            /\ Len(readings) = log.counted + log.entry.suppressed
=============================================================================
