-------------------------- MODULE Lifecycle_proofs ---------------------------
(***************************************************************************)
(* The watchdog and the health endpoint, for every interval, staleness     *)
(* window and bound on an operation that LifecycleAssumption admits.  The  *)
(* proof is an accounting of time: how many operations can lie between the *)
(* last mark, or the last commit, and the operation the process is in.     *)
(* Then the failure log, for every window and any number of failures.      *)
(***************************************************************************)
EXTENDS FailureLogs, WellFoundedInduction, TLAPS

\* The time the operations between the last mark of progress and operation o may
\* have taken, with these resources open.  Startup marks nothing, so the loop's
\* first batch and the cleanups of a failed startup have the most behind them.
Unmarked(o, opened) ==
    CASE o \in Statements \cup {"pubsub", "publish", "probe", "listen"} -> 0
      [] o \in {"sqs", "wait", "sleep", "cooldown"} -> OpMax
      [] o \in {"checkdb", "close"} -> 2 * OpMax
      [] o = "checkdlq" -> 3 * OpMax
      [] o = "serve" -> 4 * OpMax
      [] o = "begin" -> 5 * OpMax
      [] o = "cleanup" -> IF "listener" \in opened THEN 4 * OpMax
                          ELSE IF "http" \in opened THEN 5 * OpMax
                          ELSE IF "sqs" \in opened THEN 6 * OpMax
                          ELSE IF "pubsub" \in opened THEN 7 * OpMax
                          ELSE 8 * OpMax
      [] OTHER -> 9 * OpMax

\* The time the operations between the last commit, or newAppStats, and o may have
\* taken, publishing apart, if no error kept a batch from committing; of no interest
\* before the statistics exist and after the health server is closed.
Uncommitted(o, opened) ==
    CASE o \in {"checkdb", "probe", "listen"} -> 0
      [] o \in {"checkdlq", "wait", "sleep"} -> OpMax
      [] o \in {"serve", "close"} -> 2 * OpMax
      [] o = "begin" -> 3 * OpMax
      [] o = "select" -> 4 * OpMax
      [] o \in {"publish", "insert"} -> 5 * OpMax
      [] o = "delete" -> 6 * OpMax
      [] o = "commit" -> 7 * OpMax
      [] o = "cleanup" -> IF "listener" \in opened THEN 3 * OpMax
                          ELSE IF "http" \in opened THEN 4 * OpMax
                          ELSE StaleAfter + 1
      [] OTHER -> StaleAfter + 1

\* Startup has opened neither the health server nor a listener and has not begun a
\* transaction; the process exits with everything closed; an operation that does not hang is within its bound.
Shape ==
    /\ op \in Startup => open \subseteq {"db"} \cup Providers /\ ~outage
    /\ op = "cooldown" => dbFailed
    /\ op = "exited" => open = {}
    /\ ~stuck => spent <= OpMax

\* A counter that has not moved since the tick: the tick is no older than the
\* operations since the last mark.
MarksInTime == ~stuck /\ ~outage /\ ~moved => sinceTick <= Unmarked(op, open) + spent

\* What the operation the process is in adds: publishing is counted apart.
Own(o, time) == IF o = "publish" THEN 0 ELSE time

\* No error and no long publishing since the last commit: it is no older than the
\* operations since, and the publishing among them.
CommitsInTime ==
    ~stuck /\ ~dbFailed /\ publishing <= Slack =>
        sinceCommit <= Uncommitted(op, open) + publishing + Own(op, spent)

\* One operation spans at most one tick, and none if it began with a mark.
SpansOneTick == ~killed => spent <= Interval + sinceTick /\ (moved => spent <= sinceTick)

\* Without a mark since the tick there was no commit either; only newAppStats has
\* set the clock back, two operations after the start.
TickSeenByHealth ==
    /\ ~moved => sinceTick <= sinceCommit + 2 * OpMax \/ sinceCommit > StaleAfter
    /\ killed => sinceCommit > StaleAfter

IInv ==
    /\ TypeOK
    /\ Shape
    /\ MarksInTime
    /\ CommitsInTime
    /\ SpansOneTick
    /\ TickSeenByHealth
    /\ HealthySurvives

-----------------------------------------------------------------------------
(* Operations.                                                             *)

Ops == Startup \cup Loop \cup {"cleanup", "exited"}

\* The constants are numbers, and nine operations fit in an interval.
LEMMA Constants ==
    /\ Interval \in Nat /\ StaleAfter \in Nat /\ OpMax \in Nat
    /\ OpMax > 0 /\ 8 * OpMax <= StaleAfter /\ StaleAfter + 2 * OpMax < Interval
    /\ Slack \in Nat /\ Slack + 8 * OpMax = StaleAfter
BY LifecycleAssumption DEF Slack

\* The type invariant, variable by variable.
LEMMA Types ==
    TypeOK <=>
        /\ op \in Ops
        /\ spent \in 0..(2 * Interval)
        /\ open \subseteq Resources
        /\ cancelled \in BOOLEAN /\ stuck \in BOOLEAN /\ outage \in BOOLEAN
        /\ dbFailed \in BOOLEAN /\ moved \in BOOLEAN /\ killed \in BOOLEAN
        /\ publishing \in 0..(Slack + 1)
        /\ sinceCommit \in 0..(StaleAfter + 1)
        /\ sinceTick \in 0..Interval
BY Zenon DEF TypeOK, Ops

\* The accounts are sums of operations.
LEMMA Accounts ==
    ASSUME NEW o, NEW opened
    PROVE  /\ Unmarked(o, opened) \in Nat /\ Unmarked(o, opened) <= 9 * OpMax
           /\ Uncommitted(o, opened) \in Nat
BY Constants DEF Unmarked, Uncommitted

\* What an operation's end does to the watchdog's account: a mark, a failed BeginTx,
\* or one operation more.
Accounted ==
    \/ MarkProgress
    \/ UNCHANGED moved /\ outage' = TRUE
    \/ UNCHANGED <<moved, outage>> /\ Unmarked(op', open') >= Unmarked(op, open) + OpMax

\* And to that of the health endpoint: the clock starts again, an error kept the
\* batch from committing, or one operation more, publishing apart.
Served ==
    \/ /\ sinceCommit' = 0 /\ (moved' \/ sinceTick <= 2 * OpMax)
       /\ publishing' \in {0, publishing}
    \/ UNCHANGED <<sinceCommit, publishing>> /\ dbFailed'
    \/ /\ UNCHANGED <<sinceCommit, dbFailed, publishing>>
       /\ ~dbFailed => \/ Uncommitted(op', open') >= Uncommitted(op, open) + Own(op, OpMax)
                       \/ Uncommitted(op', open') > StaleAfter

\* The process enters another operation with both accounts kept.
LEMMA ProceedInv ==
    ASSUME IInv, NEW next \in Ops, Proceed(next), Accounted, Served,
           open' \subseteq Resources, dbFailed' \in BOOLEAN,
           next \in Startup => open' \subseteq {"db"} \cup Providers /\ ~outage',
           next = "cooldown" => dbFailed',
           next = "exited" => open' = {}
    PROVE  IInv'
<1>. USE Constants
<1>1. /\ op' = next /\ spent' = 0
      /\ ~killed /\ ~stuck
      /\ UNCHANGED <<cancelled, stuck, sinceTick, killed>>
  BY DEF Proceed
<1>2. /\ spent \in 0..(2 * Interval) /\ sinceTick \in 0..Interval
      /\ sinceCommit \in 0..(StaleAfter + 1) /\ publishing \in 0..(Slack + 1)
      /\ moved \in BOOLEAN /\ outage \in BOOLEAN /\ dbFailed \in BOOLEAN
  BY Types DEF IInv
<1>3. /\ moved' \in BOOLEAN /\ outage' \in BOOLEAN /\ sinceCommit' \in {0, sinceCommit}
      /\ publishing' \in {0, publishing}
  BY <1>2 DEF Accounted, Served, MarkProgress
<1>4. Unmarked(op, open) \in Nat /\ Uncommitted(op, open) \in Nat
  BY Accounts
<1>5. Unmarked(op', open') \in Nat /\ Uncommitted(op', open') \in Nat
  BY Accounts
<1>6. TypeOK'
  <2>1. /\ spent' \in 0..(2 * Interval) /\ sinceCommit' \in 0..(StaleAfter + 1)
        /\ publishing' \in 0..(Slack + 1)
    BY <1>1, <1>2, <1>3
  <2>. QED  BY <1>1, <1>3, <2>1, Zenon DEF IInv, TypeOK, Ops
<1>7. Shape'
  BY <1>1 DEF Shape
<1>8. MarksInTime'
  <2>. SUFFICES ASSUME ~outage', ~moved' PROVE sinceTick' <= Unmarked(op', open') + spent'
    BY DEF MarksInTime
  <2>1. ~moved /\ ~outage /\ Unmarked(op', open') >= Unmarked(op, open) + OpMax
    BY <1>2, <1>3 DEF Accounted, MarkProgress
  <2>2. sinceTick <= Unmarked(op, open) + spent /\ spent <= OpMax
    BY <1>1, <2>1 DEF IInv, Shape, MarksInTime
  <2>. QED  BY <1>1, <1>2, <1>4, <1>5, <2>1, <2>2
<1>9. CommitsInTime'
  <2>. SUFFICES ASSUME ~dbFailed', publishing' <= Slack
                PROVE  sinceCommit' <= Uncommitted(op', open') + publishing'
    BY <1>1, <1>2, <1>3, <1>5 DEF CommitsInTime, Own
  <2>1. CASE sinceCommit' = 0
    BY <1>2, <1>3, <1>5, <2>1
  <2>2. CASE sinceCommit' # 0
    <3>1. /\ UNCHANGED <<sinceCommit, publishing>> /\ ~dbFailed
          /\ \/ Uncommitted(op', open') >= Uncommitted(op, open) + Own(op, OpMax)
             \/ Uncommitted(op', open') > StaleAfter
      BY <2>2 DEF Served
    <3>2. /\ sinceCommit <= Uncommitted(op, open) + publishing + Own(op, spent)
          /\ spent <= OpMax
      BY <1>1, <3>1 DEF IInv, Shape, CommitsInTime
    <3>3. Own(op, spent) \in Nat /\ Own(op, OpMax) \in Nat /\ Own(op, spent) <= Own(op, OpMax)
      BY <1>2, <3>2 DEF Own
    <3>. QED  BY <1>1, <1>2, <1>4, <1>5, <3>1, <3>2, <3>3
  <2>. QED  BY <2>1, <2>2
<1>10. SpansOneTick'
  BY <1>1, <1>2 DEF SpansOneTick
<1>11. TickSeenByHealth'
  <2>1. ~moved' => ~moved
    BY <1>2, <1>3 DEF Accounted, MarkProgress
  <2>2. CASE sinceCommit' = sinceCommit
    BY <1>1, <2>1, <2>2 DEF IInv, TickSeenByHealth
  <2>3. CASE sinceCommit' = 0 /\ (moved' \/ sinceTick <= 2 * OpMax)
    BY <1>1, <1>2, <2>3 DEF TickSeenByHealth
  <2>. QED  BY <2>2, <2>3 DEF Served
<1>12. HealthySurvives'
  BY <1>1 DEF HealthySurvives
<1>. QED  BY <1>6, <1>7, <1>8, <1>9, <1>10, <1>11, <1>12 DEF IInv

-----------------------------------------------------------------------------
(* One lemma per action of the process.                                    *)

\* buildProviderSenders, and newAppStats after the second.
LEMMA BuildInv ==
    ASSUME IInv, NEW p \in Providers, Build(p)
    PROVE  IInv'
<1>. DEFINE next == IF p = "pubsub" THEN "sqs" ELSE "checkdb"
<1>1. Proceed(next) /\ NoMark /\ UNCHANGED <<dbFailed, publishing>>
  BY DEF Build, Providers
<1>2. next \in Ops /\ next # "exited" /\ op = p /\ op \in Startup
  BY DEF Build, Providers, Ops, Startup
<1>3. open' \subseteq {"db"} \cup Providers /\ ~outage'
  BY <1>1, <1>2 DEF Build, NoMark, IInv, Shape
<1>4. Accounted
  BY <1>1, <1>2, Constants DEF Accounted, NoMark, Unmarked, Proceed, Providers, Statements
<1>5. Served
  <2>1. CASE p = "pubsub"
    BY <1>1, <1>2, <2>1, Constants DEF Build, Served, Uncommitted, Own, Proceed
  <2>2. CASE p = "sqs"
    <3>1. sinceCommit' = 0
      BY <2>2 DEF Build, NewAppStats
    <3>2. moved' = moved /\ moved \in BOOLEAN
      BY <1>1, Types DEF NoMark, IInv
    <3>3. ~moved => sinceTick <= OpMax + spent /\ spent <= OpMax
      BY <1>1, <1>2, <2>2 DEF IInv, Shape, MarksInTime, Unmarked, Statements, Proceed
    <3>4. sinceTick \in Nat /\ spent \in Nat
      BY Types, Constants DEF IInv
    <3>. QED  BY <1>1, <3>1, <3>2, <3>3, <3>4, Constants DEF Served
  <2>. QED  BY <2>1, <2>2 DEF Providers
<1>6. dbFailed' \in BOOLEAN /\ open' \subseteq Resources
  BY <1>1, <1>3, Types DEF IInv, Resources
<1>. QED  BY <1>1, <1>2, <1>3, <1>4, <1>5, <1>6, ProceedInv

\* checkDBWorks, checkDLQWorks.
LEMMA CheckInv ==
    ASSUME IInv, Check
    PROVE  IInv'
<1>. DEFINE next == IF op = "checkdb" THEN "checkdlq" ELSE "serve"
<1>1. Proceed(next) /\ NoMark /\ NoCommit /\ UNCHANGED open
  BY DEF Check
<1>2. next \in Ops /\ next # "exited" /\ op \in {"checkdb", "checkdlq"}
  BY DEF Check, Ops, Startup
<1>3. Accounted
  BY <1>1, <1>2, Constants DEF Accounted, NoMark, Unmarked, Proceed, Statements
<1>4. Served
  BY <1>1, <1>2, Constants DEF Served, NoCommit, Uncommitted, Own, Proceed
<1>5. open' \subseteq {"db"} \cup Providers /\ ~outage'
  BY <1>1, <1>2 DEF NoMark, IInv, Shape, Startup
<1>6. dbFailed' \in BOOLEAN /\ open' \subseteq Resources
  BY <1>1, Types DEF IInv, NoCommit
<1>. QED  BY <1>1, <1>2, <1>3, <1>4, <1>5, <1>6, ProceedInv

\* The health server is started, and the loop entered unless the context ended.
LEMMA ServeInv ==
    ASSUME IInv, Serve
    PROVE  IInv'
<1>1. Proceed(NextBatch) /\ NoMark /\ NoCommit /\ op = "serve"
  BY DEF Serve
<1>2. NextBatch \in {"cleanup", "begin"}
  BY DEF NextBatch
<1>3. open' \subseteq Resources /\ "listener" \notin open'
  BY <1>1 DEF Serve, IInv, Shape, Startup, Resources, Providers
<1>4. Accounted
  BY <1>1, <1>2, <1>3, Constants DEF Accounted, NoMark, Unmarked, Proceed, Statements, Closing
<1>5. Served
  BY <1>1, <1>2, <1>3, Constants DEF Served, NoCommit, Uncommitted, Own, Proceed, Closing
<1>6. NextBatch \in Ops /\ NextBatch \notin Startup /\ NextBatch # "exited" /\ NextBatch # "cooldown"
  BY <1>2 DEF Ops, Startup, Loop, Providers
<1>7. dbFailed' \in BOOLEAN
  BY <1>1, Types DEF IInv, NoCommit
<1>. QED  BY <1>1, <1>3, <1>4, <1>5, <1>6, <1>7, ProceedInv

\* A startup that fails goes to its deferred calls.
LEMMA StartupFailsInv ==
    ASSUME IInv, StartupFails
    PROVE  IInv'
<1>1. Proceed("cleanup") /\ NoMark /\ NoCommit /\ UNCHANGED open /\ op \in Startup
  BY DEF StartupFails
<1>2. open \subseteq {"db"} \cup Providers
  BY <1>1 DEF IInv, Shape
<1>3. "listener" \notin open /\ "http" \notin open
  BY <1>2 DEF Providers
<1>4. Accounted
  BY <1>1, <1>3, Constants DEF Accounted, NoMark, Unmarked, Proceed, Statements, Startup, Providers, Closing
<1>5. Served
  BY <1>1, <1>3, Constants DEF Served, NoCommit, Uncommitted, Own, Proceed, Startup, Providers, Closing
<1>6. "cleanup" \in Ops /\ "cleanup" \notin Startup /\ "cleanup" # "exited"
  BY DEF Ops, Startup, Providers
<1>7. dbFailed' \in BOOLEAN /\ open' \subseteq Resources
  BY <1>1, Types DEF IInv, NoCommit
<1>. QED  BY <1>1, <1>4, <1>5, <1>6, <1>7, ProceedInv

\* BeginTx and the mark at the head of processEventBatch, the select, the writes:
\* each is marked.
LEMMA MarkedInv ==
    ASSUME IInv, Begin \/ Select \/ Write
    PROVE  IInv'
<1>1. PICK next \in Statements \cup {"publish"} :
         /\ Proceed(next) /\ MarkProgress /\ NoCommit /\ UNCHANGED open
         /\ Uncommitted(next, open) >= Uncommitted(op, open) + OpMax
  <2>1. CASE Begin
    BY <2>1, Constants DEF Begin, Uncommitted, Statements
  <2>2. CASE Select
    BY <2>2, Constants DEF Select, Uncommitted, Statements
  <2>3. CASE Write
    BY <2>3, Constants DEF Write, Uncommitted, Statements
  <2>. QED  BY <2>1, <2>2, <2>3
<1>2. Accounted
  BY <1>1 DEF Accounted
<1>3. Served
  BY <1>1, Accounts, Constants DEF Served, NoCommit, Own, Proceed
<1>4. next \in Ops /\ next \notin Startup /\ next # "exited" /\ next # "cooldown"
  BY DEF Ops, Startup, Statements, Loop, Providers
<1>5. dbFailed' \in BOOLEAN /\ open' \subseteq Resources
  BY <1>1, Types DEF IInv, NoCommit
<1>. QED  BY <1>1, <1>2, <1>3, <1>4, <1>5, ProceedInv

\* A result of the senders is marked each time; its time is counted as publishing.
LEMMA PublishInv ==
    ASSUME IInv, Publish
    PROVE  IInv'
<1>1. PICK next \in {"insert", "publish"} : Proceed(next)
  BY DEF Publish
<1>2. MarkProgress /\ NoCommit /\ UNCHANGED open /\ op = "publish"
  BY DEF Publish
<1>3. Accounted
  BY <1>2 DEF Accounted
<1>4. Served
  BY <1>1, <1>2, Constants DEF Served, NoCommit, Uncommitted, Own, Proceed, Statements
<1>5. next \in Ops /\ next \notin Startup /\ next # "exited" /\ next # "cooldown"
  BY DEF Ops, Startup, Statements, Loop, Providers
<1>6. dbFailed' \in BOOLEAN /\ open' \subseteq Resources
  BY <1>2, Types DEF IInv, NoCommit
<1>. QED  BY <1>1, <1>3, <1>4, <1>5, <1>6, ProceedInv

\* The commit is marked and feeds the health endpoint.
LEMMA CommitInv ==
    ASSUME IInv, Commit
    PROVE  IInv'
<1>1. PICK next \in {"begin", "cleanup", "probe", "wait", "listen"} : Proceed(next)
  BY DEF Commit, NextBatch
<1>2. MarkProgress /\ sinceCommit' = 0 /\ dbFailed' = FALSE /\ publishing' = 0 /\ UNCHANGED open
  BY DEF Commit
<1>3. Accounted /\ Served
  BY <1>2 DEF Accounted, Served, MarkProgress
<1>4. next \in Ops /\ next \notin Startup /\ next # "exited" /\ next # "cooldown"
  BY DEF Ops, Startup, Statements, Loop, Providers
<1>5. open' \subseteq Resources
  BY <1>2, Types DEF IInv
<1>. QED  BY <1>1, <1>2, <1>3, <1>4, <1>5, ProceedInv

\* A failed BeginTx starts an outage.
LEMMA BeginFailsInv ==
    ASSUME IInv, BeginFails
    PROVE  IInv'
<1>1. /\ Proceed("cooldown") /\ outage' = TRUE /\ UNCHANGED <<open, moved, publishing, sinceCommit>>
      /\ dbFailed' = TRUE
  BY DEF BeginFails
<1>2. Accounted /\ Served
  BY <1>1 DEF Accounted, Served
<1>3. "cooldown" \in Ops /\ "cooldown" \notin Startup /\ "cooldown" # "exited"
  BY DEF Ops, Startup, Loop, Providers
<1>4. dbFailed' \in BOOLEAN /\ open' \subseteq Resources
  BY <1>1, Types DEF IInv
<1>. QED  BY <1>1, <1>2, <1>3, <1>4, ProceedInv

\* A failed statement is not marked: the cooldown or the cleanups come on top.
LEMMA StatementFailsInv ==
    ASSUME IInv, StatementFails
    PROVE  IInv'
<1>1. PICK next \in {"cooldown", "cleanup"} : Proceed(next)
  BY DEF StatementFails
<1>2. /\ NoMark /\ UNCHANGED <<open, publishing, sinceCommit>> /\ op \in Statements
      /\ dbFailed' = TRUE
  BY DEF StatementFails
<1>3. Accounted
  BY <1>1, <1>2, Constants DEF Accounted, NoMark, Unmarked, Proceed, Statements
<1>4. Served
  BY <1>2 DEF Served
<1>5. next \in Ops /\ next \notin Startup /\ next # "exited"
  BY DEF Ops, Startup, Statements, Loop, Providers
<1>6. dbFailed' /\ dbFailed' \in BOOLEAN /\ open' \subseteq Resources
  BY <1>2, Types DEF IInv
<1>. QED  BY <1>1, <1>3, <1>4, <1>5, <1>6, ProceedInv

\* The loop goes on after its cooldown.
LEMMA CoolDownInv ==
    ASSUME IInv, CoolDown
    PROVE  IInv'
<1>1. /\ Proceed(NextBatch) /\ NoMark /\ NoCommit /\ UNCHANGED open
      /\ op = "cooldown"
  BY DEF CoolDown
<1>2. NextBatch \in {"cleanup", "begin"}
  BY DEF NextBatch
<1>3. Accounted
  BY <1>1, <1>2, Constants DEF Accounted, NoMark, Unmarked, Proceed, Statements
<1>4. Served
  BY <1>1 DEF Served, NoCommit, IInv, Shape
<1>5. NextBatch \in Ops /\ NextBatch \notin Startup /\ NextBatch # "exited" /\ NextBatch # "cooldown"
  BY <1>2 DEF Ops, Startup, Loop, Providers
<1>6. dbFailed' \in BOOLEAN /\ open' \subseteq Resources
  BY <1>1, Types DEF IInv, NoCommit
<1>. QED  BY <1>1, <1>3, <1>4, <1>5, <1>6, ProceedInv

\* Between batches nothing is marked: at most LISTEN, the wait and closing the
\* listener follow the commit before the next batch or the cleanups.
LEMMA BetweenInv ==
    ASSUME IInv, Between
    PROVE  IInv'
<1>1. PICK next \in {"wait", "sleep", "close", "begin", "cleanup"} :
         /\ Proceed(next)
         /\ open' \subseteq open \cup {"listener"}
         /\ Unmarked(next, open') >= Unmarked(op, open) + OpMax
         /\ Uncommitted(next, open') >= Uncommitted(op, open) + OpMax \/ Uncommitted(next, open') > StaleAfter
  <2>1. CASE op = "listen"
    BY <2>1, Constants DEF Between, Unmarked, Uncommitted, Statements
  <2>2. CASE op \in {"wait", "probe", "sleep"}
    BY <2>2, Constants DEF Between, Unmarked, Uncommitted, Statements, NextBatch
  <2>3. CASE op = "close"
    BY <2>3, Constants DEF Between, Unmarked, Uncommitted, Statements, NextBatch
  <2>. QED  BY <2>1, <2>2, <2>3 DEF Between
<1>2. NoMark /\ NoCommit
  BY DEF Between
<1>3. Accounted
  BY <1>1, <1>2 DEF Accounted, NoMark, Proceed
<1>4. Served
  BY <1>1, <1>2, Accounts, Constants DEF Served, NoCommit, Own, Proceed
<1>5. next \in Ops /\ next \notin Startup /\ next # "exited" /\ next # "cooldown"
  BY DEF Ops, Startup, Statements, Loop, Providers
<1>6. dbFailed' \in BOOLEAN /\ open' \subseteq Resources
  BY <1>1, <1>2, Types DEF IInv, NoCommit, Resources
<1>. QED  BY <1>1, <1>3, <1>4, <1>5, <1>6, ProceedInv

\* The deferred calls close one thing each, the listener and the server first.
LEMMA CleanUpInv ==
    ASSUME IInv, CleanUp
    PROVE  IInv'
<1>. DEFINE next == IF open' = {} THEN "exited" ELSE "cleanup"
<1>1. /\ Proceed(next) /\ NoMark /\ NoCommit /\ op = "cleanup"
      /\ open' = open \ {Closing}
  BY DEF CleanUp
<1>2. open \subseteq Resources
  BY Types DEF IInv
<1>3. Closing = "db" => open' = {}
  BY <1>1, <1>2 DEF Closing, Resources, Providers
<1>4. Unmarked(next, open') >= Unmarked(op, open) + OpMax
  BY <1>1, <1>3, Constants DEF Unmarked, Closing, Statements
<1>5. Uncommitted(next, open') >= Uncommitted(op, open) + OpMax \/ Uncommitted(next, open') > StaleAfter
  BY <1>1, <1>3, Constants DEF Uncommitted, Closing
<1>6. Accounted
  BY <1>1, <1>4 DEF Accounted, NoMark, Proceed
<1>7. Served
  BY <1>1, <1>5, Accounts, Constants DEF Served, NoCommit, Own, Proceed
<1>8. next \in Ops /\ next \notin Startup /\ next # "cooldown"
  BY DEF Ops, Startup, Providers
<1>9. dbFailed' \in BOOLEAN /\ open' \subseteq Resources
  BY <1>1, <1>2, Types DEF IInv, NoCommit
<1>. QED  BY <1>1, <1>6, <1>7, <1>8, <1>9, ProceedInv

-----------------------------------------------------------------------------
(* Signals, hangs and time.                                                *)

\* Neither SIGTERM nor a hang touches a clock; an operation that hangs leaves the
\* accounts.
LEMMA CancelHangInv ==
    ASSUME IInv, Cancel \/ Hang
    PROVE  IInv'
<1>1. /\ UNCHANGED <<op, spent, open, outage, dbFailed, publishing, sinceCommit, moved, sinceTick, killed>>
      /\ cancelled' \in {cancelled, TRUE} /\ stuck' \in {stuck, TRUE}
      /\ stuck => stuck'
  <2>1. CASE Cancel
    BY <2>1, Zenon DEF Cancel
  <2>2. CASE Hang
    BY <2>2, Zenon DEF Hang
  <2>. QED  BY <2>1, <2>2
<1>2. TypeOK'
  BY <1>1, Zenon DEF IInv, TypeOK
<1>3. Shape' /\ MarksInTime' /\ CommitsInTime'
  BY <1>1 DEF IInv, Shape, MarksInTime, CommitsInTime
<1>4. SpansOneTick' /\ TickSeenByHealth' /\ HealthySurvives'
  BY <1>1 DEF IInv, SpansOneTick, TickSeenByHealth, HealthySurvives
<1>. QED  BY <1>2, <1>3, <1>4 DEF IInv

\* An operation that does not hang returns within its bound, so the accounts have
\* room for the time that passes.
LEMMA TimePassesInv ==
    ASSUME IInv, TimePasses
    PROVE  IInv'
<1>. USE Constants
<1>1. /\ UNCHANGED <<op, open, cancelled, stuck, outage, dbFailed, moved, killed>>
      /\ ~killed /\ sinceTick < Interval
      /\ ~stuck => spent < OpMax
      /\ sinceTick' = sinceTick + 1
  BY DEF TimePasses, Running
<1>2. /\ spent \in 0..(2 * Interval) /\ sinceTick \in 0..Interval
      /\ sinceCommit \in 0..(StaleAfter + 1) /\ publishing \in 0..(Slack + 1)
  BY Types DEF IInv
<1>3. /\ sinceCommit' = IF sinceCommit <= StaleAfter THEN sinceCommit + 1 ELSE sinceCommit
      /\ spent' = IF spent < 2 * Interval THEN spent + 1 ELSE spent
      /\ publishing' = IF op = "publish" /\ publishing <= Slack THEN publishing + 1 ELSE publishing
  BY DEF TimePasses
<1>4. /\ spent' \in 0..(2 * Interval) /\ sinceTick' \in 0..Interval
      /\ sinceCommit' \in 0..(StaleAfter + 1) /\ publishing' \in 0..(Slack + 1)
  BY <1>1, <1>2, <1>3
<1>5. Unmarked(op, open) \in Nat /\ Uncommitted(op, open) \in Nat
  BY Accounts
<1>6. TypeOK'
  BY <1>1, <1>4, Zenon DEF IInv, TypeOK
<1>7. ~stuck => spent' = spent + 1
  BY <1>1, <1>2, <1>3
<1>8. Shape'
  BY <1>1, <1>2, <1>7 DEF IInv, Shape
<1>9. MarksInTime'
  BY <1>1, <1>2, <1>5, <1>7 DEF IInv, MarksInTime
<1>10. CommitsInTime'
  <2>. SUFFICES ASSUME ~stuck, ~dbFailed, publishing' <= Slack
                PROVE  sinceCommit' <= Uncommitted(op, open) + publishing' + Own(op, spent')
    BY <1>1 DEF CommitsInTime
  <2>1. sinceCommit <= Uncommitted(op, open) + publishing + Own(op, spent)
    BY <1>2, <1>3 DEF IInv, CommitsInTime
  <2>2. publishing' + Own(op, spent') = publishing + Own(op, spent) + 1
    BY <1>2, <1>3, <1>7 DEF Own
  <2>3. Own(op, spent) \in Nat /\ Own(op, spent') \in Nat
    BY <1>2, <1>4 DEF Own
  <2>. QED  BY <1>2, <1>3, <1>4, <1>5, <2>1, <2>2, <2>3
<1>11. SpansOneTick'
  BY <1>1, <1>2, <1>3 DEF IInv, SpansOneTick
<1>12. TickSeenByHealth'
  BY <1>1, <1>2, <1>3 DEF IInv, TickSeenByHealth
<1>13. HealthySurvives'
  BY <1>1 DEF HealthySurvives
<1>. QED  BY <1>6, <1>8, <1>9, <1>10, <1>11, <1>12, <1>13 DEF IInv

\* The tick ends the process only if the counter has not moved for an interval,
\* which no run of operations that return in time takes.
LEMMA TickInv ==
    ASSUME IInv, Tick
    PROVE  IInv'
<1>. USE Constants
<1>1. /\ UNCHANGED <<op, spent, open, cancelled, stuck, outage, dbFailed, publishing, sinceCommit>>
      /\ ~killed /\ sinceTick = Interval /\ sinceTick' = 0
      /\ killed' = ~moved /\ moved' = FALSE
      /\ ~killed' => moved
      /\ killed' => ~moved
  BY Zenon DEF Tick, Running
<1>2. /\ spent \in 0..(2 * Interval) /\ sinceCommit \in 0..(StaleAfter + 1)
      /\ moved \in BOOLEAN
  BY Types DEF IInv
<1>3. Unmarked(op, open) \in Nat /\ Unmarked(op, open) <= 9 * OpMax
  BY Accounts
<1>4. TypeOK'
  <2>1. sinceTick' \in 0..Interval
    BY <1>1
  <2>. QED  BY <1>1, <2>1, Zenon DEF IInv, TypeOK
<1>5. Shape' /\ CommitsInTime'
  BY <1>1 DEF IInv, Shape, CommitsInTime
<1>6. MarksInTime'
  BY <1>1, <1>2, <1>3 DEF MarksInTime
<1>7. SpansOneTick'
  BY <1>1, <1>2 DEF IInv, SpansOneTick
<1>8. TickSeenByHealth'
  BY <1>1, <1>2 DEF IInv, TickSeenByHealth
<1>9. HealthySurvives'
  <2>. SUFFICES ASSUME ~moved, ~stuck, ~outage PROVE FALSE
    BY <1>1 DEF HealthySurvives
  <2>1. Interval <= Unmarked(op, open) + spent /\ spent <= OpMax
    BY <1>1 DEF IInv, Shape, MarksInTime
  <2>. QED  BY <1>2, <1>3, <2>1
<1>. QED  BY <1>4, <1>5, <1>6, <1>7, <1>8, <1>9 DEF IInv

\* runRelay starts with its clocks at zero.
LEMMA InitInv == Init => IInv
<1>. USE Constants
<1>. SUFFICES ASSUME Init PROVE IInv
  OBVIOUS
<1>1. TypeOK
  <2>1. /\ spent \in 0..(2 * Interval) /\ sinceCommit \in 0..(StaleAfter + 1)
        /\ publishing \in 0..(Slack + 1) /\ sinceTick \in 0..Interval
    BY DEF Init
  <2>2. op \in Ops /\ open \subseteq Resources
    BY DEF Init, Ops, Startup, Providers, Resources
  <2>. QED  BY <2>1, <2>2, Types, Zenon DEF Init
<1>2. Shape /\ SpansOneTick /\ TickSeenByHealth /\ HealthySurvives
  BY DEF Init, Shape, SpansOneTick, TickSeenByHealth, HealthySurvives
<1>3. MarksInTime /\ CommitsInTime
  BY Accounts DEF Init, MarksInTime, CommitsInTime, Own
<1>. QED  BY <1>1, <1>2, <1>3 DEF IInv

\* Every step keeps the accounts.
LEMMA NextInv == IInv /\ [Next]_vars => IInv'
<1>1. ASSUME IInv, Next
      PROVE  IInv'
  BY <1>1, BuildInv, CheckInv, ServeInv, StartupFailsInv, MarkedInv, PublishInv, CommitInv,
     BeginFailsInv, StatementFailsInv, CoolDownInv, BetweenInv, CleanUpInv, CancelHangInv,
     TimePassesInv, TickInv DEF Next, Step
<1>2. ASSUME IInv, UNCHANGED vars
      PROVE  IInv'
  BY <1>2 DEF vars, IInv, TypeOK, Shape, MarksInTime, CommitsInTime, SpansOneTick,
     TickSeenByHealth, HealthySurvives
<1>. QED  BY <1>1, <1>2

-----------------------------------------------------------------------------
(* The theorems.                                                           *)

\* The accounts of the watchdog and of the health endpoint hold throughout.
THEOREM TimeIsAccountedFor == Spec => []IInv
BY InitInv, NextInv, PTL DEF Spec

\* markProgress: the watchdog never ends a process whose operations return in time,
\* unless the database refuses its transactions.
THEOREM HealthyProcessSurvives == Spec => []HealthySurvives
<1>1. IInv => HealthySurvives
  BY DEF IInv
<1>. QED  BY <1>1, TimeIsAccountedFor, PTL

\* watchdog.start: no operation, of startup and cleanup too, hangs for longer than
\* two intervals.
THEOREM HangsAreEnded == Spec => []HangIsShort
<1>1. IInv => HangIsShort
  <2>. SUFFICES ASSUME IInv, Running, spent = 2 * Interval PROVE sinceTick = Interval
    BY DEF HangIsShort
  <2>1. 2 * Interval <= Interval + sinceTick
    BY DEF IInv, SpansOneTick, Running
  <2>2. sinceTick \in 0..Interval
    BY Types DEF IInv
  <2>. QED  BY <2>1, <2>2, Constants
<1>. QED  BY <1>1, TimeIsAccountedFor, PTL

\* handleHealthz: the health endpoint, while it is there, reports every process the
\* watchdog ends before it does so.
THEOREM KilledWasUnhealthy == Spec => []KilledWhenUnhealthy
<1>1. IInv => KilledWhenUnhealthy
  BY Constants DEF IInv, TickSeenByHealth, KilledWhenUnhealthy, Unhealthy
<1>. QED  BY <1>1, TimeIsAccountedFor, PTL

\* handleHealthz, newAppStats: a process that neither hangs nor meets a database
\* error turns unhealthy only by publishing for longer than its window leaves, a
\* fresh or an idle one never.
THEOREM NoFalseAlarm == Spec => []UnhealthyHasCause
<1>1. IInv => UnhealthyHasCause
  <2>. SUFFICES ASSUME IInv, "http" \in open, ~stuck, ~dbFailed, ~(publishing > Slack)
                PROVE  sinceCommit <= StaleAfter
    BY Types, Constants DEF UnhealthyHasCause, Unhealthy, IInv
  <2>1. publishing \in Nat /\ publishing <= Slack
    BY Types, Constants DEF IInv
  <2>2. sinceCommit <= Uncommitted(op, open) + publishing + Own(op, spent) /\ spent <= OpMax
    BY <2>1 DEF IInv, Shape, CommitsInTime
  <2>3. spent \in Nat /\ sinceCommit \in Nat /\ op \in Ops
    BY Types, Constants DEF IInv
  <2>4. op \notin {"pubsub", "sqs", "cooldown", "exited"}
    BY DEF IInv, Shape, Startup, Providers
  <2>5. Uncommitted(op, open) <= 7 * OpMax
    BY <2>3, <2>4, Constants DEF Uncommitted, Ops, Startup, Loop, Statements, Providers
  <2>6. Uncommitted(op, open) \in Nat
    BY Accounts
  <2>7. Own(op, spent) \in Nat /\ Own(op, spent) <= OpMax
    BY <2>2, <2>3, Constants DEF Own
  <2>. QED  BY <2>1, <2>2, <2>3, <2>5, <2>6, <2>7, Constants
<1>. QED  BY <1>1, TimeIsAccountedFor, PTL

-----------------------------------------------------------------------------
(* The failure log.  Induction over the readings is by the least number of *)
(* them that would be a counterexample.                                    *)

\* A set of numbers has a least one.
LEMMA LeastNumber ==
    ASSUME NEW S \in SUBSET Nat, S # {}
    PROVE  \E x \in S : \A y \in S : x <= y
<1>1. PICK x \in S : \A y \in S : ~(<<y, x>> \in OpToRel(<, Nat))
  BY WFMin, NatLessThanWellFounded
<1>2. \A y \in S : ~(y < x)
  BY <1>1 DEF OpToRel
<1>. QED  BY <1>2

\* The log after each of the first m readings.
Logs(log, readings, m) ==
    log = [n \in 0..m |-> IF n = 0 THEN NewLog ELSE Report(log[n - 1], readings[n])]

\* failureLogger.log: the log after any number of failures is defined.
LEMMA LogsExist ==
    ASSUME NEW readings \in Seq(Nat)
    PROVE  \A m \in Nat : \E log : Logs(log, readings, m)
<1>. DEFINE S == {m \in Nat : ~\E log : Logs(log, readings, m)}
<1>. SUFFICES ASSUME S # {} PROVE FALSE
  OBVIOUS
<1>1. PICK m \in S : \A y \in S : m <= y
  BY LeastNumber
<1>2. CASE m = 0
  <2>1. Logs([n \in 0..0 |-> NewLog], readings, 0)
    BY DEF Logs
  <2>. QED  BY <1>2, <2>1
<1>3. CASE m # 0
  <2>1. m - 1 \in Nat /\ m - 1 \notin S
    BY <1>1, <1>3
  <2>2. PICK g : Logs(g, readings, m - 1)
    BY <2>1
  <2>. DEFINE h == [n \in 0..m |-> IF n = m THEN Report(g[m - 1], readings[m]) ELSE g[n]]
  <2>3. \A n \in 0..(m - 1) : g[n] = IF n = 0 THEN NewLog ELSE Report(g[n - 1], readings[n])
    BY <2>1, <2>2 DEF Logs
  <2>4. ASSUME NEW n \in 0..m
        PROVE  h[n] = IF n = 0 THEN NewLog ELSE Report(h[n - 1], readings[n])
    <3>1. CASE n = m
      <4>1. h[n - 1] = g[m - 1] /\ h[n] = Report(g[m - 1], readings[m])
        BY <1>3, <3>1
      <4>. QED  BY <4>1, <3>1, <1>3
    <3>2. CASE n # m
      <4>1. n \in 0..(m - 1) /\ h[n] = g[n] /\ (n # 0 => h[n - 1] = g[n - 1])
        BY <3>2
      <4>. HIDE DEF h
      <4>. QED  BY <4>1, <2>3
    <3>. QED  BY <3>1, <3>2
  <2>5. h = [n \in 0..m |-> h[n]]
    OBVIOUS
  <2>6. Logs(h, readings, m)
    <3>. HIDE DEF h
    <3>. QED  BY <2>4, <2>5 DEF Logs
  <2>. QED  BY <2>6
<1>. QED  BY <1>2, <1>3

\* failureLogger.log: one failure after the other.
LEMMA ReportedIsLast ==
    ASSUME NEW readings \in Seq(Nat)
    PROVE  \E log : Logs(log, readings, Len(readings)) /\ Reported(readings) = log[Len(readings)]
<1>. DEFINE l == CHOOSE log : log = [n \in 0..Len(readings) |->
                    IF n = 0 THEN NewLog ELSE Report(log[n - 1], readings[n])]
<1>1. \E log : log = [n \in 0..Len(readings) |->
                    IF n = 0 THEN NewLog ELSE Report(log[n - 1], readings[n])]
  BY LogsExist DEF Logs
<1>2. Logs(l, readings, Len(readings))
  BY <1>1 DEF Logs
<1>3. Reported(readings) = l[Len(readings)]
  BY Zenon DEF Reported
<1>. HIDE DEF l
<1>. QED  BY <1>2, <1>3

\* What holds of the log after n failures: the lines are a window apart, the next
\* one is due a window after each of them, and no failure is forgotten.
LogOf(n, log) ==
    /\ log.entry \in [nextLogAt : Nat, suppressed : Nat]
    /\ log.lines \in Seq(Nat)
    /\ log.counted \in Nat
    /\ \A i \in DOMAIN log.lines : log.lines[i] + Window <= log.entry.nextLogAt
    /\ \A i, j \in DOMAIN log.lines : i < j => log.lines[j] >= log.lines[i] + Window
    /\ n = log.counted + log.entry.suppressed

\* shouldLog: a failure within the window is counted; one after it is a line that
\* carries the count and opens the next.
LEMMA OneMoreReport ==
    ASSUME NEW n \in Nat, NEW log, LogOf(n, log), NEW now \in Nat
    PROVE  LogOf(n + 1, Report(log, now))
<1>. DEFINE new == Report(log, now)
<1>. SUFFICES LogOf(n + 1, new)
  OBVIOUS
<1>0. /\ log.entry \in [nextLogAt : Nat, suppressed : Nat]
      /\ log.entry.nextLogAt \in Nat /\ log.entry.suppressed \in Nat
      /\ log.lines \in Seq(Nat)
      /\ log.counted \in Nat /\ Window \in Nat
      /\ n = log.counted + log.entry.suppressed
  BY WindowAssumption DEF LogOf
<1>1. CASE now < log.entry.nextLogAt
  <2>1. /\ new.entry = [log.entry EXCEPT !.suppressed = @ + 1]
        /\ new.lines = log.lines
        /\ new.counted = log.counted + 0
    BY <1>1 DEF Report, ShouldLog
  <2>. HIDE DEF new
  <2>2. /\ new.entry.nextLogAt = log.entry.nextLogAt
        /\ new.entry.suppressed = log.entry.suppressed + 1
        /\ new.entry \in [nextLogAt : Nat, suppressed : Nat]
    <3>. DEFINE e == log.entry
    <3>1. e \in [nextLogAt : Nat, suppressed : Nat] /\ new.entry = [e EXCEPT !.suppressed = @ + 1]
      BY <2>1, <1>0
    <3>. HIDE DEF e
    <3>2. /\ [e EXCEPT !.suppressed = @ + 1].nextLogAt = e.nextLogAt
          /\ [e EXCEPT !.suppressed = @ + 1].suppressed = e.suppressed + 1
          /\ [e EXCEPT !.suppressed = @ + 1] \in [nextLogAt : Nat, suppressed : Nat]
      BY <3>1
    <3>. QED  BY <3>1, <3>2, Zenon DEF e
  <2>3. new.counted \in Nat /\ n + 1 = new.counted + new.entry.suppressed
    BY <2>1, <2>2, <1>0
  <2>4. /\ \A i \in DOMAIN new.lines : new.lines[i] + Window <= new.entry.nextLogAt
        /\ \A i, j \in DOMAIN new.lines : i < j => new.lines[j] >= new.lines[i] + Window
        /\ new.lines \in Seq(Nat)
    BY <2>1, <2>2, Zenon DEF LogOf
  <2>. QED  BY <2>2, <2>3, <2>4, Zenon DEF LogOf
<1>2. CASE ~(now < log.entry.nextLogAt)
  <2>1. /\ new.entry = [nextLogAt |-> now + Window, suppressed |-> 0]
        /\ new.lines = Append(log.lines, now)
        /\ new.counted = log.counted + (1 + log.entry.suppressed)
    BY <1>2 DEF Report, ShouldLog
  <2>2. /\ new.entry.nextLogAt = now + Window
        /\ new.entry.suppressed = 0
        /\ new.entry \in [nextLogAt : Nat, suppressed : Nat]
    BY <2>1, <1>0
  <2>. HIDE DEF new
  <2>3. /\ new.lines \in Seq(Nat) /\ new.counted \in Nat
        /\ n + 1 = new.counted + new.entry.suppressed
    BY <2>1, <2>2, <1>0
  <2>4. /\ DOMAIN new.lines = 1..(Len(log.lines) + 1)
        /\ DOMAIN log.lines = 1..Len(log.lines) /\ Len(log.lines) \in Nat
        /\ \A i \in 1..Len(log.lines) : new.lines[i] = log.lines[i]
        /\ new.lines[Len(log.lines) + 1] = now
    BY <2>1, <1>0
  <2>5. \A i \in DOMAIN log.lines : log.lines[i] \in Nat /\ log.lines[i] + Window <= now
    BY <1>0, <1>2 DEF LogOf
  <2>6. \A i \in DOMAIN new.lines : new.lines[i] \in Nat /\ new.lines[i] <= now
    <3>. SUFFICES ASSUME NEW i \in DOMAIN new.lines PROVE new.lines[i] \in Nat /\ new.lines[i] <= now
      OBVIOUS
    <3>1. CASE i = Len(log.lines) + 1
      BY <3>1, <2>4
    <3>2. CASE i \in 1..Len(log.lines)
      <4>1. new.lines[i] = log.lines[i] /\ log.lines[i] \in Nat /\ log.lines[i] + Window <= now
        BY <3>2, <2>4, <2>5
      <4>. QED  BY <4>1, WindowAssumption
    <3>. QED  BY <3>1, <3>2, <2>4
  <2>7. \A i \in DOMAIN new.lines : new.lines[i] + Window <= new.entry.nextLogAt
    BY <2>6, <2>2, <1>0
  <2>8. ASSUME NEW i \in DOMAIN new.lines, NEW j \in DOMAIN new.lines, i < j
        PROVE  new.lines[j] >= new.lines[i] + Window
    <3>1. i \in 1..Len(log.lines)
      BY <2>4, <2>8
    <3>2. CASE j = Len(log.lines) + 1
      BY <3>1, <3>2, <2>4, <2>5
    <3>3. CASE j \in 1..Len(log.lines)
      BY <3>1, <3>3, <2>4, <2>8 DEF LogOf
    <3>. QED  BY <3>2, <3>3, <2>4
  <2>. QED  BY <2>2, <2>3, <2>7, <2>8, Zenon DEF LogOf
<1>. QED  BY <1>1, <1>2

\* failureLogger.log: the limiter keeps to it, whatever the readings.
LEMMA EveryLog ==
    ASSUME NEW readings \in Seq(Nat)
    PROVE  LogOf(Len(readings), Reported(readings))
<1>1. PICK log : Logs(log, readings, Len(readings)) /\ Reported(readings) = log[Len(readings)]
  BY ReportedIsLast
<1>2. \A n \in 0..Len(readings) : log[n] = IF n = 0 THEN NewLog ELSE Report(log[n - 1], readings[n])
  BY <1>1 DEF Logs
<1>. DEFINE S == {n \in Nat : n <= Len(readings) /\ ~LogOf(n, log[n])}
<1>3. S = {}
  <2>. SUFFICES ASSUME S # {} PROVE FALSE
    OBVIOUS
  <2>1. PICK n \in S : \A y \in S : n <= y
    BY LeastNumber
  <2>2. CASE n = 0
    <3>1. log[0] = NewLog
      BY <1>2
    <3>2. LogOf(0, NewLog)
      <4>1. /\ NewLog.entry = [nextLogAt |-> 0, suppressed |-> 0]
            /\ NewLog.lines = <<>> /\ NewLog.counted = 0
        BY DEF NewLog, NewEntry
      <4>. QED  BY <4>1 DEF LogOf
    <3>. QED  BY <2>2, <3>1, <3>2
  <2>3. CASE n # 0
    <3>1. n - 1 \in Nat /\ n - 1 <= Len(readings) /\ n \in 1..Len(readings)
      BY <2>3
    <3>2. LogOf(n - 1, log[n - 1])
      BY <3>1, <2>1
    <3>3. readings[n] \in Nat /\ log[n] = Report(log[n - 1], readings[n]) /\ (n - 1) + 1 = n
      BY <3>1, <1>2
    <3>4. LogOf((n - 1) + 1, log[n])
      BY <3>1, <3>2, <3>3, OneMoreReport
    <3>. QED  BY <3>3, <3>4
  <2>. QED  BY <2>2, <2>3
<1>. QED  BY <1>1, <1>3

\* S13, docs/logs.md (shouldLog): a failure is logged at most once per window and no
\* report is lost, for every window and any number of failures, whatever readings
\* their goroutines bring to the lock.
THEOREM FailuresAreLogged == Spec => []OncePerWindowAllCounted
<1>1. OncePerWindowAllCounted
  BY EveryLog, ReadingsAssumption DEF OncePerWindowAllCounted, LogOf
<1>. QED  BY <1>1, PTL

=============================================================================
