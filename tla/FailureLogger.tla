--------------------------- MODULE FailureLogger ----------------------------
(***************************************************************************)
(* The rate limiter of failure_logger.go for one signature.  Its callers   *)
(* are the loop and the senders' goroutines; each reads the clock before   *)
(* it takes the lock, so the readings enter in any order.                  *)
(***************************************************************************)
EXTENDS Naturals, Sequences

CONSTANT Window    \* failureLogWindow, in clock units

ASSUME WindowAssumption == Window \in Nat \ {0}

\* A signature nothing was reported of has no entry; time zero is over.
NewEntry == [nextLogAt |-> 0, suppressed |-> 0]

\* Mutant: the count survives the line that reports it.
ShouldLogKeepingCount(entry, now) ==
    IF now < entry.nextLogAt
    THEN [log |-> FALSE, count |-> 0, entry |-> [entry EXCEPT !.suppressed = @ + 1]]
    ELSE [log |-> TRUE, count |-> entry.suppressed, entry |-> [entry EXCEPT !.nextLogAt = now + Window]]

\* shouldLog under the lock: too early, count it; otherwise a line that carries the
\* count and opens a new window.
ShouldLog(entry, now) ==
    IF now < entry.nextLogAt
    THEN [log |-> FALSE, count |-> 0, entry |-> [entry EXCEPT !.suppressed = @ + 1]]
    ELSE [log |-> TRUE, count |-> entry.suppressed,
          entry |-> [nextLogAt |-> now + Window, suppressed |-> 0]]

\* A log of one signature: its entry, the times of its lines and the failures these
\* stand for.
NewLog == [entry |-> NewEntry, lines |-> <<>>, counted |-> 0]

\* The log after one more failure, whose caller read the clock at now.
Report(log, now) ==
    LET decision == ShouldLog(log.entry, now) IN
    [entry |-> decision.entry,
     lines |-> IF decision.log THEN Append(log.lines, now) ELSE log.lines,
     counted |-> log.counted + IF decision.log THEN 1 + decision.count ELSE 0]

\* The log after failures whose readings enter the lock in this order.
Reported(readings) ==
    LET log[n \in 0..Len(readings)] ==
            IF n = 0 THEN NewLog ELSE Report(log[n - 1], readings[n])
    IN  log[Len(readings)]
=============================================================================
