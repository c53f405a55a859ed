----------------------------- MODULE Lifecycle ------------------------------
(***************************************************************************)
(* One relay process from runRelay to its exit, as the watchdog and the    *)
(* health endpoint see it.  The process is a sequence of operations, each  *)
(* bounded in time unless it hangs: startup, the batch loop, the deferred  *)
(* cleanups.  Operations after which the code calls markProgress feed the  *)
(* watchdog, whose goroutine ends the process when the counter has not     *)
(* moved between two ticks; commits feed /healthz.                         *)
(***************************************************************************)
EXTENDS Naturals

CONSTANTS
    Interval,     \* watchdogInterval
    StaleAfter,   \* healthStaleAfter
    OpMax         \* bound on one operation: a statement, a publish, a wait, a cleanup

\* An idle relay commits within eight operations of the last commit (LISTEN, the
\* wait, closing the listener, a batch).  That leaves ten for the watchdog, whose
\* longest run without a mark is startup and its cleanups, nine.
ASSUME LifecycleAssumption ==
    /\ {Interval, StaleAfter, OpMax} \subseteq Nat
    /\ OpMax > 0
    /\ 8 * OpMax <= StaleAfter
    /\ StaleAfter + 2 * OpMax < Interval

VARIABLES
    op,          \* the operation the process is in
    spent,       \* time spent in it
    open,        \* what runRelay has to close
    cancelled,   \* the context is cancelled
    stuck,       \* the operation will never return
    outage,      \* BeginTx has failed since the last mark
    dbFailed,    \* a database error has kept a batch from committing since the last commit
    publishing,  \* time spent publishing since the last commit
    sinceCommit, \* time since lastSuccess
    moved,       \* the progress counter moved since the last tick
    sinceTick,   \* time since the last tick
    killed       \* onStall has ended the process

vars == <<op, spent, open, cancelled, stuck, outage, dbFailed, publishing,
          sinceCommit, moved, sinceTick, killed>>

Providers == {"pubsub", "sqs"}
Resources == Providers \cup {"db", "http", "listener"}
Startup == Providers \cup {"checkdb", "checkdlq", "serve"}
Statements == {"select", "insert", "delete", "commit"}
Loop == Statements \cup {"begin", "publish", "probe", "listen", "wait", "sleep", "close", "cooldown"}

\* What the window has left once a batch that publishes nothing has committed: the
\* time a batch may publish for.  Publishing is counted to just past it.
Slack == StaleAfter - 8 * OpMax

TypeOK ==
    /\ op \in Startup \cup Loop \cup {"cleanup", "exited"}
    /\ spent \in 0..(2 * Interval)
    /\ open \subseteq Resources
    /\ {cancelled, stuck, outage, dbFailed, moved, killed} \subseteq BOOLEAN
    /\ publishing \in 0..(Slack + 1)
    /\ sinceCommit \in 0..(StaleAfter + 1)
    /\ sinceTick \in 0..Interval

\* The watchdog has started and openDB has made a pool, without a connection yet.
Init ==
    /\ op = "pubsub"
    /\ spent = 0
    /\ open = {"db"}
    /\ cancelled = FALSE
    /\ stuck = FALSE
    /\ outage = FALSE
    /\ dbFailed = FALSE
    /\ publishing = 0
    /\ sinceCommit = 0
    /\ moved = FALSE
    /\ sinceTick = 0
    /\ killed = FALSE

Running == ~killed /\ op # "exited"

\* The operation returns and the process enters another.
Proceed(next) ==
    /\ ~killed
    /\ ~stuck
    /\ op' = next
    /\ spent' = 0
    /\ UNCHANGED <<cancelled, stuck, sinceTick, killed>>

\* Mutant: only a commit counts as progress.
MarkOnCommit ==
    IF op = "commit" THEN moved' = TRUE /\ outage' = FALSE
    ELSE UNCHANGED <<moved, outage>>

\* Mutant: the app was built without its watchdog.
MarkNowhere == UNCHANGED <<moved, outage>>

MarkProgress == moved' = TRUE /\ outage' = FALSE
NoMark == UNCHANGED <<moved, outage>>
NoCommit == UNCHANGED <<dbFailed, publishing, sinceCommit>>

\* The top of the loop: a cancelled context returns from processEvents.
NextBatch == IF cancelled THEN "cleanup" ELSE "begin"
-----------------------------------------------------------------------------
(* Startup.                                                                *)

\* Mutant: a fresh relay has no last success.
NewAppStatsUnseeded == sinceCommit' = StaleAfter + 1

\* A fresh relay has a whole window before a batch is demanded.
NewAppStats == sinceCommit' = 0

\* buildProviderSenders: the client of an enabled provider is built.
Build(p) ==
    /\ op = p
    /\ open' \in {open, open \cup {p}}
    /\ IF p = "pubsub" THEN Proceed("sqs") /\ UNCHANGED sinceCommit
       ELSE open' \cap Providers # {} /\ Proceed("checkdb") /\ NewAppStats
    /\ NoMark
    /\ UNCHANGED <<dbFailed, publishing>>

\* checkDBWorks, checkDLQWorks.
Check ==
    /\ op \in {"checkdb", "checkdlq"}
    /\ Proceed(IF op = "checkdb" THEN "checkdlq" ELSE "serve")
    /\ NoMark /\ NoCommit
    /\ UNCHANGED open

\* The health server, unless its port is 0; then the loop.
Serve ==
    /\ op = "serve"
    /\ open' \in {open, open \cup {"http"}}
    /\ Proceed(NextBatch)
    /\ NoMark /\ NoCommit

\* Any of it fails: runRelay returns the error and its deferred calls run.
StartupFails ==
    /\ op \in Startup
    /\ Proceed("cleanup")
    /\ NoMark /\ NoCommit
    /\ UNCHANGED open
-----------------------------------------------------------------------------
(* The loop.                                                               *)

\* BeginTx is followed by the mark at the head of processEventBatch.
Begin ==
    /\ op = "begin"
    /\ Proceed("select")
    /\ MarkProgress /\ NoCommit
    /\ UNCHANGED open

\* A failed BeginTx marks nothing; the loop cools down.
BeginFails ==
    /\ op = "begin"
    /\ Proceed("cooldown")
    /\ outage' = TRUE
    /\ dbFailed' = TRUE
    /\ UNCHANGED <<open, moved, publishing, sinceCommit>>

\* A statement or the commit fails: no mark.  The loop cools down, or ends when a
\* sender's error was fatal.
StatementFails ==
    /\ op \in Statements
    /\ \E next \in {"cooldown", "cleanup"} : Proceed(next)
    /\ dbFailed' = TRUE
    /\ NoMark
    /\ UNCHANGED <<open, publishing, sinceCommit>>

CoolDown ==
    /\ op = "cooldown"
    /\ Proceed(NextBatch)
    /\ NoMark /\ NoCommit
    /\ UNCHANGED open

\* The batch may be empty.
Select ==
    /\ op = "select"
    /\ \E next \in {"insert", "publish"} : Proceed(next)
    /\ MarkProgress /\ NoCommit
    /\ UNCHANGED open

\* A sender reports or reads a result: the callbacks mark progress each time.  A
\* cancelled context ends what is left.
Publish ==
    /\ op = "publish"
    /\ \E next \in {"insert", "publish"} : (cancelled => next = "insert") /\ Proceed(next)
    /\ MarkProgress /\ NoCommit
    /\ UNCHANGED open

\* insertDeadLetters, deleteEvents.
Write ==
    /\ op \in {"insert", "delete"}
    /\ Proceed(IF op = "insert" THEN "delete" ELSE "commit")
    /\ MarkProgress /\ NoCommit
    /\ UNCHANGED open

\* The commit, then updateBacklog's probe, the wait for events, the next batch, or
\* the end when a sender's error was fatal.
Commit ==
    /\ op = "commit"
    /\ \E next \in {NextBatch, "probe", "cleanup", IF "listener" \in open THEN "wait" ELSE "listen"} :
          Proceed(next)
    /\ MarkProgress
    /\ sinceCommit' = 0
    /\ dbFailed' = FALSE
    /\ publishing' = 0
    /\ UNCHANGED open

\* Between batches nothing is marked: a probe; LISTEN and the wait, or a sleep in
\* their place; closing the listener after a failed wait.
Between ==
    /\ \/ op = "listen" /\ Proceed("wait") /\ open' = open \cup {"listener"}
       \/ op = "listen" /\ Proceed("sleep") /\ UNCHANGED open
       \/ op = "wait" /\ Proceed("close") /\ UNCHANGED open
       \/ op \in {"probe", "wait", "sleep"} /\ Proceed(NextBatch) /\ UNCHANGED open
       \/ op = "close" /\ Proceed(NextBatch) /\ open' = open \ {"listener"}
    /\ NoMark /\ NoCommit
-----------------------------------------------------------------------------
(* The end.                                                                *)

\* What is closed next: processEvents closes the listener, then the deferred calls
\* of runRelay undo startup from its end.
Closing ==
    IF "listener" \in open THEN "listener"
    ELSE IF "http" \in open THEN "http"
    ELSE IF "sqs" \in open THEN "sqs"
    ELSE IF "pubsub" \in open THEN "pubsub"
    ELSE "db"

\* Mutant: the process exits past its deferred calls.
CleanUpSkipped ==
    /\ op = "cleanup"
    /\ Proceed("exited")
    /\ NoMark /\ NoCommit
    /\ UNCHANGED open

\* One cleanup returns; the watchdog is stopped after the last.
CleanUp ==
    /\ op = "cleanup"
    /\ open' = open \ {Closing}
    /\ Proceed(IF open' = {} THEN "exited" ELSE "cleanup")
    /\ NoMark /\ NoCommit

\* SIGTERM, or an HTTP server that failed (a.shutdown).
Cancel ==
    /\ Running
    /\ ~cancelled
    /\ cancelled' = TRUE
    /\ UNCHANGED <<op, spent, open, stuck, outage, dbFailed, publishing, sinceCommit,
                   moved, sinceTick, killed>>

\* The operation hangs: a lock, a dead peer, a bug.
Hang ==
    /\ Running
    /\ ~stuck
    /\ stuck' = TRUE
    /\ UNCHANGED <<op, spent, open, cancelled, outage, dbFailed, publishing, sinceCommit,
                   moved, sinceTick, killed>>

\* Time passes; an operation that does not hang returns in OpMax.
TimePasses ==
    /\ Running
    /\ sinceTick < Interval
    /\ ~stuck => spent < OpMax
    /\ sinceTick' = sinceTick + 1
    /\ sinceCommit' = IF sinceCommit <= StaleAfter THEN sinceCommit + 1 ELSE sinceCommit
    /\ spent' = IF spent < 2 * Interval THEN spent + 1 ELSE spent
    /\ publishing' = IF op = "publish" /\ publishing <= Slack THEN publishing + 1 ELSE publishing
    /\ UNCHANGED <<op, open, cancelled, stuck, outage, dbFailed, moved, killed>>

\* Mutant: the counter's last value is not kept, so a tick never sees it still.
TickForgetful ==
    /\ Running
    /\ sinceTick = Interval
    /\ sinceTick' = 0
    /\ UNCHANGED <<op, spent, open, cancelled, stuck, outage, dbFailed, publishing,
                   sinceCommit, moved, killed>>

\* The ticker fires: a counter that has not moved ends the process.
Tick ==
    /\ Running
    /\ sinceTick = Interval
    /\ sinceTick' = 0
    /\ killed' = ~moved
    /\ moved' = FALSE
    /\ UNCHANGED <<op, spent, open, cancelled, stuck, outage, dbFailed, publishing, sinceCommit>>

Step ==
    \/ \E p \in Providers : Build(p)
    \/ Check
    \/ Serve
    \/ StartupFails
    \/ Begin
    \/ BeginFails
    \/ StatementFails
    \/ CoolDown
    \/ Select
    \/ Publish
    \/ Write
    \/ Commit
    \/ Between
    \/ CleanUp

Next == Step \/ Cancel \/ Hang \/ TimePasses \/ Tick

Spec == Init /\ [][Next]_vars

\* Operations that do not hang return, time goes on and the ticker fires.
FairSpec == Spec /\ WF_vars(Step) /\ WF_vars(TimePasses) /\ WF_vars(Tick)
-----------------------------------------------------------------------------
(* Properties.                                                             *)

\* specs/requirements.md (markProgress): a process whose operations all return in
\* time is never ended, at startup, in the loop however long the batch, or in its
\* cleanups, unless the database refuses its transactions for an interval.
HealthySurvives == killed => stuck \/ outage

\* watchdog.start: a hang is ended within two intervals, wherever in an interval
\* it began and in whatever operation, of startup and cleanup too.
HangIsShort == Running /\ stuck /\ spent = 2 * Interval => sinceTick = Interval

\* handleHealthz; a threshold of zero turns the check off.
Unhealthy == "http" \in open /\ StaleAfter > 0 /\ sinceCommit > StaleAfter

\* healthStaleAfter is below watchdogInterval: what the watchdog ends, a hang or a
\* database that stays away, /healthz had already reported.
KilledWhenUnhealthy == killed /\ "http" \in open => Unhealthy

\* handleHealthz, newAppStats: a relay turns unhealthy only by a hang, by a database
\* error since its last commit, or because its batches have published for longer
\* than the window leaves them; a fresh relay, an idle one and one whose publishes
\* fail promptly never do.  The last cause is the provider's, which the comment at
\* config.go:121 and docs/observability.md:79 say is none: a batch commits whatever
\* its events' outcomes, but only once it has them all.
UnhealthyHasCause == Unhealthy => stuck \/ dbFailed \/ publishing > Slack

\* runRelay: a cancelled process closes all it has opened and exits; only a hang or
\* an outage leaves it to the watchdog (HealthySurvives).
CancelEnds == cancelled ~> (op = "exited" /\ open = {}) \/ killed
=============================================================================
