------------------------------ MODULE Backlog -------------------------------
(***************************************************************************)
(* The backlog gauge of backlog.go: one relay's batches, what each leaves  *)
(* behind, and the probe that runs after a truncated batch at most once    *)
(* per statistics interval.                                                *)
(***************************************************************************)
EXTENDS Collect

CONSTANTS
    OwnRoutes,        \* the routes this relay collects
    CountLimits       \* values of BACKLOG_COUNT_LIMIT; 0 disables the probe

ASSUME BacklogAssumption ==
    /\ OwnRoutes \subseteq Routes
    /\ CountLimits \subseteq Nat

VARIABLES
    countLimit, \* the configured BACKLOG_COUNT_LIMIT
    shared,     \* whether other relays collect the same routes
    table,      \* committed rows
    inserted,   \* rows ever committed
    pc,         \* where the relay is
    snapshot,   \* routable rows of the select's snapshot
    picked,     \* ids the select picked
    batch,      \* rows it returned once they were locked
    kept,       \* rows of the committed batch that stay for a retry
    probeDue,   \* an interval has passed since the last probe
    gauge,      \* outboxer_backlog_events
    floor       \* outboxer_backlog_floor

config == <<countLimit, shared>>
vars == <<config, table, inserted, pc, snapshot, picked, batch, kept, probeDue, gauge, floor>>
gaugeVars == <<probeDue, gauge, floor>>

Init ==
    /\ countLimit \in CountLimits
    /\ shared \in BOOLEAN
    /\ table = {}
    /\ inserted = {}
    /\ pc = "loop"
    /\ snapshot = {}
    /\ picked = {}
    /\ batch = {}
    /\ kept = {}
    /\ probeDue = TRUE
    /\ gauge = 0
    /\ floor = TRUE

Insert(e) ==
    /\ e \notin inserted
    /\ inserted' = inserted \cup {e}
    /\ table' = table \cup {e}
    /\ UNCHANGED <<config, pc, snapshot, picked, batch, kept, gaugeVars>>

\* Another relay commits a batch with row e, which this one has not locked.
OtherRemoves(e) ==
    /\ shared
    /\ e \in table
    /\ pc = "send" => e \notin batch
    /\ table' = table \ {e}
    /\ UNCHANGED <<config, inserted, pc, snapshot, picked, batch, kept, gaugeVars>>

SelectEvents ==
    /\ pc = "loop"
    /\ pc' = "lock"
    /\ snapshot' = Routable(table, OwnRoutes)
    /\ picked' = Collected(table, OwnRoutes)
    /\ UNCHANGED <<config, table, inserted, batch, kept, gaugeVars>>

\* FOR UPDATE returns the picked rows that still exist.
LockRows ==
    /\ pc = "lock"
    /\ pc' = "send"
    /\ batch' = picked \cap table
    /\ UNCHANGED <<config, table, inserted, snapshot, picked, kept, gaugeVars>>

\* The batch commits with some of its events done.
CommitBatch(done) ==
    /\ pc = "send"
    /\ done \subseteq batch
    /\ table' = table \ done
    /\ kept' = batch \ done
    /\ pc' = "update"
    /\ UNCHANGED <<config, inserted, snapshot, picked, batch, gaugeVars>>

\* A database error: the loop goes on without touching the gauge.
FailBatch ==
    /\ pc \in {"lock", "send"}
    /\ pc' = "loop"
    /\ UNCHANGED <<config, table, inserted, snapshot, picked, batch, kept, gaugeVars>>

\* Mutant: a route that filled its share is taken for exhausted.
DrainedWhenFull(rows) ==
    \A e \in rows :
        Cardinality({f \in rows : RouteOf[f] = RouteOf[e]}) <= Share(Cardinality(RoutesOf(rows)))

\* batchDrained: no route of the batch filled its share.
Drained(rows) ==
    \A e \in rows :
        Cardinality({f \in rows : RouteOf[f] = RouteOf[e]}) < Share(Cardinality(RoutesOf(rows)))

SetBacklog(events, isFloor) ==
    /\ gauge' = Cardinality(events)
    /\ floor' = isFloor

\* Back to the top of the loop after updateBacklog.
Update ==
    /\ pc = "update"
    /\ pc' = "loop"
    /\ UNCHANGED <<config, table, inserted, snapshot, picked, batch, kept>>

UpdateDrained ==
    /\ Update
    /\ Drained(batch)
    /\ SetBacklog(kept, FALSE)
    /\ UNCHANGED probeDue

\* Mutant: the whole batch counts as the floor.
UnprobedBatch ==
    /\ Update
    /\ ~Drained(batch)
    /\ countLimit = 0
    /\ SetBacklog(batch, TRUE)
    /\ UNCHANGED probeDue

UpdateUnprobed ==
    /\ Update
    /\ ~Drained(batch)
    /\ countLimit = 0
    /\ SetBacklog(kept, TRUE)
    /\ UNCHANGED probeDue

\* The last probe is too recent: the gauge keeps its value.
UpdateThrottled ==
    /\ Update
    /\ ~Drained(batch)
    /\ countLimit > 0
    /\ ~probeDue
    /\ UNCHANGED gaugeVars

\* The oldest countLimit rows of the table.
Scanned == {e \in table : Cardinality({f \in table : f < e}) < countLimit}

\* Mutant: a scan that hit its cap passes for complete.
ProbeUncapped ==
    /\ Update
    /\ ~Drained(batch)
    /\ countLimit > 0
    /\ probeDue
    /\ probeDue' = FALSE
    /\ SetBacklog(Routable(Scanned, OwnRoutes), FALSE)

\* countBacklog: exact unless the scan hit its cap.
UpdateProbed ==
    /\ Update
    /\ ~Drained(batch)
    /\ countLimit > 0
    /\ probeDue
    /\ probeDue' = FALSE
    /\ SetBacklog(Routable(Scanned, OwnRoutes), Cardinality(Scanned) >= countLimit)

ProbeFails ==
    /\ Update
    /\ ~Drained(batch)
    /\ countLimit > 0
    /\ probeDue
    /\ probeDue' = FALSE
    /\ UNCHANGED <<gauge, floor>>

Interval ==
    /\ ~probeDue
    /\ probeDue' = TRUE
    /\ UNCHANGED <<config, table, inserted, pc, snapshot, picked, batch, kept, gauge, floor>>

Next ==
    \/ \E e \in Events : Insert(e) \/ OtherRemoves(e)
    \/ SelectEvents
    \/ LockRows
    \/ \E done \in SUBSET batch : CommitBatch(done)
    \/ FailBatch
    \/ UpdateDrained
    \/ UpdateUnprobed
    \/ UpdateThrottled
    \/ UpdateProbed
    \/ ProbeFails
    \/ Interval

Spec == Init /\ [][Next]_vars
-----------------------------------------------------------------------------
(* Properties.                                                             *)

\* docs/observability.md (batchDrained): on routes no other relay collects, the
\* gauge is exact after a drained batch: of the rows this relay could collect
\* when the batch was selected, as many remain as it says.  (On shared routes
\* batchDrained mistakes a batch another relay thinned out for a drained one.)
ExactWhenDrained ==
    [][UpdateDrained /\ ~shared => ~floor' /\ gauge' = Cardinality(snapshot \cap table)]_vars

\* countBacklog: a probe that does not mark its count as a floor counted every
\* row this relay could collect.
ProbeExact ==
    [][UpdateProbed /\ ~floor' => gauge' = Cardinality(Routable(table, OwnRoutes))]_vars

\* updateBacklog: without the probe, the events kept for retry "are still a true
\* floor": an update on unshared routes never writes more than there is.
NeverOverstated ==
    [][gauge' # gauge /\ ~shared => gauge' <= Cardinality(Routable(table, OwnRoutes))]_vars
=============================================================================
