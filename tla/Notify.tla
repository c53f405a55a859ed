------------------------------- MODULE Notify -------------------------------
(***************************************************************************)
(* notify.go and the waiting side of processor.go: how a relay that found  *)
(* the outbox empty learns of new rows.  Batches and the LISTEN connection *)
(* share a pool of two connections (openDB).  PostgreSQL notifies only the *)
(* sessions that listen when a row is committed.                           *)
(***************************************************************************)
EXTENDS Naturals, FiniteSets

CONSTANTS
    Events,      \* rows producers may insert
    Conns,       \* slots of the connection pool
    NoConn,      \* no connection
    MaxFaults    \* bound on the connection failures of one behaviour

ASSUME NotifyAssumption ==
    /\ IsFiniteSet(Events)
    /\ IsFiniteSet(Conns) /\ Cardinality(Conns) = 2
    /\ NoConn \notin Conns
    /\ MaxFaults \in Nat

VARIABLES
    table,       \* committed rows
    inserted,    \* rows ever committed
    seen,        \* the rows of the last select's snapshot
    pc,          \* where the relay is
    conn,        \* the state of each pool slot
    alive,       \* connections whose session exists
    listening,   \* sessions subscribed to the channel
    buffered,    \* connections with an unread notification
    batchConn,   \* the connection of the batch transaction
    listener,    \* the app's listener
    early,       \* the listener was subscribed when the last snapshot was taken
    faults

vars == <<table, inserted, seen, pc, conn, alive, listening, buffered,
          batchConn, listener, early, faults>>
connVars == <<conn, alive, listening, buffered, batchConn, listener, early, faults>>

TypeOK ==
    /\ table \subseteq inserted
    /\ inserted \subseteq Events
    /\ seen \subseteq inserted
    /\ pc \in {"loop", "batch", "idle", "wait", "drain", "sleep", "exited"}
    /\ conn \in [Conns -> {"unopened", "pooled", "inUse"}]
    /\ alive \subseteq Conns
    /\ listening \subseteq alive
    /\ buffered \subseteq listening
    /\ batchConn \in Conns \cup {NoConn}
    /\ listener \in Conns \cup {NoConn}
    /\ early \in BOOLEAN
    /\ faults \in 0..MaxFaults

Init ==
    /\ table = {}
    /\ inserted = {}
    /\ seen = {}
    /\ pc = "loop"
    /\ conn = [c \in Conns |-> "unopened"]
    /\ alive = {}
    /\ listening = {}
    /\ buffered = {}
    /\ batchConn = NoConn
    /\ listener = NoConn
    /\ early = FALSE
    /\ faults = 0

Goto(label) == pc' = label
-----------------------------------------------------------------------------
(* The database.                                                           *)

\* A producer commits a row, and with it the trigger's NOTIFY.
Insert(e) ==
    /\ e \notin inserted
    /\ inserted' = inserted \cup {e}
    /\ table' = table \cup {e}
    /\ buffered' = buffered \cup listening
    /\ UNCHANGED <<seen, pc, conn, alive, listening, batchConn, listener, early, faults>>

\* A session ends: the server restarts, a proxy drops the connection.
Break(c) ==
    /\ c \in alive
    /\ faults < MaxFaults
    /\ faults' = faults + 1
    /\ alive' = alive \ {c}
    /\ listening' = listening \ {c}
    /\ buffered' = buffered \ {c}
    /\ UNCHANGED <<table, inserted, seen, pc, conn, batchConn, listener, early>>

\* The pool hands out an idle connection, or opens one; a dead idle one is replaced.
Available(c) == conn[c] \in {"unopened", "pooled"}
-----------------------------------------------------------------------------
(* The loop.                                                               *)

\* BeginTx and the select's snapshot.
BeginBatch(c) ==
    /\ pc = "loop"
    /\ Available(c)
    /\ conn' = [conn EXCEPT ![c] = "inUse"]
    /\ alive' = alive \cup {c}
    /\ batchConn' = c
    /\ seen' = table
    /\ early' = (listener \in listening)
    /\ Goto("batch")
    /\ UNCHANGED <<table, inserted, listening, buffered, listener, faults>>

\* The batch ends and its connection goes back to the pool.  Rows that were seen
\* are gone after a commit; an empty select is followed by the wait.
CommitBatch ==
    /\ pc = "batch"
    /\ batchConn \in alive
    /\ conn' = [conn EXCEPT ![batchConn] = "pooled"]
    /\ batchConn' = NoConn
    /\ table' = table \ seen
    /\ Goto(IF seen = {} THEN "idle" ELSE "loop")
    /\ UNCHANGED <<inserted, seen, alive, listening, buffered, listener, early, faults>>

\* The batch loses its session: the pool drops the connection and the loop cools down.
FailBatch ==
    /\ pc = "batch"
    /\ batchConn \notin alive
    /\ conn' = [conn EXCEPT ![batchConn] = "unopened"]
    /\ batchConn' = NoConn
    /\ Goto("loop")
    /\ UNCHANGED <<table, inserted, seen, alive, listening, buffered, listener, early, faults>>

\* The batch fails on a session that lives on (a statement, the publish or the
\* commit returns an error): it is rolled back, its connection pooled.
RollBackBatch ==
    /\ pc = "batch"
    /\ batchConn \in alive
    /\ faults < MaxFaults
    /\ faults' = faults + 1
    /\ conn' = [conn EXCEPT ![batchConn] = "pooled"]
    /\ batchConn' = NoConn
    /\ Goto("loop")
    /\ UNCHANGED <<table, inserted, seen, alive, listening, buffered, listener, early>>

\* waitForEvents without a listener: LISTEN on a connection of its own.
StartListener(c) ==
    /\ pc = "idle"
    /\ listener = NoConn
    /\ Available(c)
    /\ conn' = [conn EXCEPT ![c] = "inUse"]
    /\ alive' = alive \cup {c}
    /\ listening' = listening \cup {c}
    /\ listener' = c
    /\ Goto("wait")
    /\ UNCHANGED <<table, inserted, seen, buffered, batchConn, early, faults>>

\* LISTEN fails: conn.Close gives the connection back and this cycle sleeps.
StartFails ==
    /\ pc = "idle"
    /\ listener = NoConn
    /\ faults < MaxFaults
    /\ faults' = faults + 1
    /\ Goto("sleep")
    /\ UNCHANGED <<table, inserted, seen, conn, alive, listening, buffered,
                   batchConn, listener, early>>

\* Mutant: a notification is thrown away before the wait.
KeepListenerDrained ==
    /\ pc = "idle"
    /\ listener # NoConn
    /\ buffered' = buffered \ {listener}
    /\ Goto("wait")
    /\ UNCHANGED <<table, inserted, seen, conn, alive, listening, batchConn, listener,
                   early, faults>>

\* waitForEvents with the listener of an earlier cycle.
KeepListener ==
    /\ pc = "idle"
    /\ listener # NoConn
    /\ Goto("wait")
    /\ UNCHANGED <<table, inserted, seen, connVars>>

\* WaitForNotification returns at once if one is buffered.
Notified ==
    /\ pc = "wait"
    /\ listener \in buffered
    /\ buffered' = buffered \ {listener}
    /\ Goto("drain")
    /\ UNCHANGED <<table, inserted, seen, conn, alive, listening, batchConn, listener,
                   early, faults>>

\* drainNotifications: what has arrived meanwhile is read too.
Drain ==
    /\ pc = "drain"
    /\ buffered' = buffered \ {listener}
    /\ Goto("loop")
    /\ UNCHANGED <<table, inserted, seen, conn, alive, listening, batchConn, listener,
                   early, faults>>

\* Mutant: the wait has no timeout, and a failed listener is not polled around.
PollWhenBroken ==
    /\ pc = "wait" /\ listener \notin alive
    /\ Goto("loop")
    /\ UNCHANGED <<table, inserted, seen, connVars>>

\* The poll interval is over; both waits end without an error.
Poll ==
    /\ pc \in {"wait", "sleep"}
    /\ Goto("loop")
    /\ UNCHANGED <<table, inserted, seen, connVars>>

\* Mutant: a connection whose cleanup failed is pooled all the same.
CloseAnyway ==
    /\ listener' = NoConn
    /\ conn' = [conn EXCEPT ![listener] = "pooled"]
    /\ UNCHANGED <<alive, listening, buffered>>

\* Mutant: the connection is not given back.
CloseLeaking ==
    /\ listener' = NoConn
    /\ alive' = alive \ {listener}
    /\ listening' = listening \ {listener}
    /\ buffered' = buffered \ {listener}
    /\ UNCHANGED conn

\* close: UNLISTEN and back to the pool, or, if that fails, out of it.
Close ==
    /\ listener' = NoConn
    /\ listening' = listening \ {listener}
    /\ buffered' = buffered \ {listener}
    /\ \/ /\ listener \in alive
          /\ conn' = [conn EXCEPT ![listener] = "pooled"]
          /\ UNCHANGED alive
       \/ /\ conn' = [conn EXCEPT ![listener] = "unopened"]
          /\ alive' = alive \ {listener}

\* The wait fails with its connection: the next idle cycle starts another listener.
WaitFails ==
    /\ pc = "wait"
    /\ listener \notin alive
    /\ Close
    /\ Goto("loop")
    /\ UNCHANGED <<table, inserted, seen, batchConn, early, faults>>

\* SIGTERM between batches: processEvents closes the listener and returns.
Shutdown ==
    /\ pc = "loop"
    /\ faults < MaxFaults
    /\ faults' = faults + 1
    /\ IF listener = NoConn THEN UNCHANGED <<listener, listening, buffered, conn, alive>>
       ELSE Close
    /\ Goto("exited")
    /\ UNCHANGED <<table, inserted, seen, batchConn, early>>

\* A new process: a new pool.
Restart ==
    /\ pc = "exited"
    /\ conn' = [c \in Conns |-> "unopened"]
    /\ alive' = {}
    /\ listening' = {}
    /\ buffered' = {}
    /\ early' = FALSE
    /\ Goto("loop")
    /\ UNCHANGED <<table, inserted, seen, batchConn, listener, faults>>

Step ==
    \/ \E c \in Conns : BeginBatch(c) \/ StartListener(c)
    \/ CommitBatch
    \/ FailBatch
    \/ KeepListener
    \/ Notified
    \/ Drain
    \/ Poll
    \/ WaitFails
    \/ Restart

Next ==
    \/ Step
    \/ RollBackBatch
    \/ StartFails
    \/ Shutdown
    \/ \E e \in Events : Insert(e)
    \/ \E c \in Conns : Break(c)

Spec == Init /\ [][Next]_vars

\* The process runs on: its timers fire and it is restarted when it has stopped.
\* Nothing is assumed of producers or connections.
FairSpec == Spec /\ WF_vars(Step)
-----------------------------------------------------------------------------
(* Properties.                                                             *)

\* notifyListener: the subscription outlives the batch, so a relay whose listener
\* was there when the batch began never waits for the timer while a row it has
\* not seen is in the table: a notification is already buffered.
NoDeafWait ==
    pc = "wait" /\ early /\ listener \in alive /\ table \ seen # {} => listener \in buffered

\* close, startListener: whatever became of listeners, the pool of two always
\* has a connection for the next batch and, after it, for the next listener.
PoolSuffices ==
    /\ pc = "loop" => \E c \in Conns : Available(c)
    /\ pc = "idle" /\ listener = NoConn => \E c \in Conns : Available(c)

\* close: a pooled session never carries a subscription into a batch.
NoPooledSubscription == \A c \in listening : c = listener

\* Durability net: a committed row is collected in the end, also if its
\* notification was sent to nobody or lost with its connection.
EveryRowSeen == \A e \in Events : e \in table ~> e \notin table
=============================================================================
