--------------------------- MODULE Backlog_proofs ----------------------------
(***************************************************************************)
(* The backlog gauge, for every table, shard, batch target and scan cap:   *)
(* when its value is exact and why it is never too high.                   *)
(***************************************************************************)
EXTENDS Backlog, Collect_proofs, WellFoundedInduction

\* Where the rows of each set come from.
Rows ==
    /\ countLimit \in CountLimits
    /\ inserted \in SUBSET Events
    /\ table \in SUBSET inserted
    /\ snapshot \in SUBSET inserted
    /\ picked \in SUBSET snapshot
    /\ batch \in SUBSET inserted
    /\ kept \in SUBSET inserted

\* The batch is what the query returned for the snapshot.
Snapshot ==
    pc # "loop" =>
        /\ snapshot = Routable(snapshot, OwnRoutes)
        /\ picked = Collected(snapshot, OwnRoutes)
        /\ pc = "update" => kept \subseteq batch

\* On unshared routes no row leaves the table but by this relay's commit.
Unthinned ==
    ~shared =>
        /\ pc \in {"lock", "send"} => snapshot \subseteq table
        /\ pc \in {"send", "update"} => batch = picked
        /\ pc = "update" => snapshot \cap table = snapshot \ (batch \ kept)

IInv == Rows /\ Snapshot /\ Unthinned
-----------------------------------------------------------------------------
(* What a batch or a scan says of the rows it leaves behind.               *)

\* A set of event ids has a least one.
LEMMA FirstRow ==
    ASSUME NEW S \in SUBSET Events, S # {}
    PROVE  \E x \in S : \A y \in S : x <= y
<1>1. S \in SUBSET Nat
  BY EventsAssumption
<1>2. PICK x \in S : \A y \in S : ~(<<y, x>> \in OpToRel(<, Nat))
  BY <1>1, WFMin, NatLessThanWellFounded
<1>3. \A y \in S : ~(y < x)
  BY <1>1, <1>2 DEF OpToRel
<1>. QED  BY <1>1, <1>3

\* The query sees nothing but the rows of its own routes.
LEMMA CollectedOfRoutable ==
    ASSUME NEW rows, NEW owned
    PROVE  /\ Routable(Routable(rows, owned), owned) = Routable(rows, owned)
           /\ Collected(Routable(rows, owned), owned) = Collected(rows, owned)
<1>1. Routable(Routable(rows, owned), owned) = Routable(rows, owned)
  BY DEF Routable
<1>. QED  BY <1>1 DEF Collected

\* Every route that has a row has one in the batch.
LEMMA RoutesCollected ==
    ASSUME NEW rows \in SUBSET Events, NEW owned
    PROVE  RoutesOf(Collected(rows, owned)) = RoutesOf(Routable(rows, owned))
<1>1. Collected(rows, owned) \subseteq Routable(rows, owned)
  BY DEF Collected
<1>2. ASSUME NEW e \in Routable(rows, owned)
      PROVE  \E g \in Collected(rows, owned) : RouteOf[g] = RouteOf[e]
  <2>. DEFINE S == {f \in rows : RouteOf[f] = RouteOf[e]}
  <2>1. e \in S /\ S \in SUBSET Events /\ RouteOf[e] \in owned
    BY DEF Routable
  <2>2. PICK g \in S : \A f \in S : g <= f
    BY <2>1, FirstRow
  <2>3. g \in Collected(rows, owned)
    BY <2>1, <2>2, OldestIsCollected
  <2>. QED  BY <2>3
<1>. QED  BY <1>1, <1>2 DEF RoutesOf

\* batchDrained: a batch none of whose routes filled its share is everything there was to
\* collect.  It is told from the batch alone, the rows that were not picked unseen.
THEOREM DrainedIsWhole ==
    ASSUME NEW rows \in SUBSET Events, NEW owned, Drained(Collected(rows, owned))
    PROVE  Collected(rows, owned) = Routable(rows, owned)
<1>. DEFINE R == Routable(rows, owned)
            C == Collected(rows, owned)
            share == Share(Cardinality(RoutesOf(R)))
            Missed == R \ C
<1>. SUFFICES ASSUME Missed # {} PROVE FALSE
  BY DEF Collected
<1>1. R \in SUBSET Events /\ C \in SUBSET R /\ IsFiniteSet(R) /\ R # {}
  BY FS_Subset, EventsAssumption DEF Routable, Collected
<1>2. share \in Nat \ {0}
  BY <1>1, ShareOfRows
<1>3. PICK e \in Missed : \A f \in Missed : e <= f
  BY <1>1, FirstRow
<1>4. IsFiniteSet(Older(e, R)) /\ Cardinality(Older(e, R)) \in Nat
  BY <1>1, FS_Subset, FS_CardinalityType DEF Older
<1>5. ~(Cardinality(Older(e, R)) < share)
  BY <1>3 DEF Collected
<1>6. Older(e, R) # {}
  BY <1>2, <1>4, <1>5, FS_EmptySet
<1>7. PICK g \in Older(e, R) : TRUE
  BY <1>6
<1>8. Older(e, R) \subseteq {f \in C : RouteOf[f] = RouteOf[g]}
  <2>. SUFFICES ASSUME NEW f \in Older(e, R) PROVE f \in C /\ RouteOf[f] = RouteOf[g]
    OBVIOUS
  <2>1. f \in R /\ f < e /\ RouteOf[f] = RouteOf[g] /\ f \in Nat /\ e \in Nat
    BY <1>1, <1>3, <1>7, EventsAssumption DEF Older
  <2>. QED  BY <1>3, <2>1
<1>9. /\ IsFiniteSet({f \in C : RouteOf[f] = RouteOf[g]})
      /\ Cardinality({f \in C : RouteOf[f] = RouteOf[g]}) \in Nat
  BY <1>1, FS_Subset, FS_CardinalityType
<1>10. Cardinality(Older(e, R)) <= Cardinality({f \in C : RouteOf[f] = RouteOf[g]})
  BY <1>8, <1>9, FS_Subset
<1>11. g \in C
  BY <1>7, <1>8
<1>12. Cardinality({f \in C : RouteOf[f] = RouteOf[g]}) < share
  BY <1>11, RoutesCollected DEF Drained
<1>. HIDE DEF share, R, C
<1>. QED  BY <1>2, <1>4, <1>5, <1>9, <1>10, <1>12

\* countBacklog: a scan that returns fewer rows than its cap has seen the whole table.
LEMMA ScanIsWhole ==
    ASSUME Rows, ~(Cardinality(Scanned) >= countLimit)
    PROVE  Scanned = table
<1>. DEFINE Ahead(e) == {f \in table : f < e}
            Missed == table \ Scanned
<1>. SUFFICES ASSUME Missed # {} PROVE FALSE
  BY DEF Scanned
<1>1. table \in SUBSET Events /\ table \subseteq Nat /\ IsFiniteSet(table) /\ countLimit \in Nat
  BY FS_Subset, EventsAssumption, BacklogAssumption DEF Rows
<1>2. PICK e \in Missed : \A f \in Missed : e <= f
  BY <1>1, FirstRow
<1>3. Ahead(e) \subseteq Scanned
  <2>. SUFFICES ASSUME NEW f \in table, f < e, f \notin Scanned PROVE FALSE
    OBVIOUS
  <2>1. e <= f /\ e \in Nat /\ f \in Nat
    BY <1>1, <1>2
  <2>. QED  BY <2>1
<1>4. IsFiniteSet(Scanned) /\ IsFiniteSet(Ahead(e))
  BY <1>1, FS_Subset DEF Scanned
<1>5. Cardinality(Ahead(e)) <= Cardinality(Scanned) /\ Cardinality(Ahead(e)) \in Nat
      /\ Cardinality(Scanned) \in Nat
  BY <1>3, <1>4, FS_Subset, FS_CardinalityType
<1>6. ~(Cardinality(Ahead(e)) < countLimit)
  BY <1>2 DEF Scanned
<1>. QED  BY <1>1, <1>5, <1>6

-----------------------------------------------------------------------------
(* The invariant.                                                          *)

\* Nothing was inserted.
LEMMA InitInv == Init => IInv
BY DEF Init, IInv, Rows, Snapshot, Unthinned

\* Rows come and go behind the relay's back: producers add rows, with ids no row had, and
\* on shared routes other relays remove some.
LEMMA OthersInv ==
    ASSUME IInv, NEW e \in Events, Insert(e) \/ OtherRemoves(e)
    PROVE  IInv'
<1>1. CASE Insert(e)
  BY <1>1 DEF IInv, Insert, Rows, Snapshot, Unthinned, config
<1>2. CASE OtherRemoves(e)
  BY <1>2 DEF IInv, OtherRemoves, Rows, Snapshot, Unthinned, config
<1>. QED  BY <1>1, <1>2

\* selectEventsQuery: the picked rows are the query's result on the snapshot.
LEMMA SelectInv ==
    ASSUME IInv, SelectEvents
    PROVE  IInv'
<1>1. snapshot' = Routable(snapshot', OwnRoutes) /\ picked' = Collected(snapshot', OwnRoutes)
  BY CollectedOfRoutable DEF SelectEvents
<1>2. snapshot' \subseteq table /\ picked' \subseteq snapshot'
  BY DEF SelectEvents, Routable, Collected
<1>. QED  BY <1>1, <1>2 DEF IInv, SelectEvents, Rows, Snapshot, Unthinned, config

\* The other steps of a batch.
LEMMA BatchInv ==
    ASSUME IInv, \/ LockRows
                 \/ \E done \in SUBSET batch : CommitBatch(done)
                 \/ FailBatch
                 \/ Update
                 \/ Interval
    PROVE  IInv'
<1>1. CASE LockRows
  BY <1>1 DEF IInv, LockRows, Rows, Snapshot, Unthinned, config
<1>2. ASSUME NEW done \in SUBSET batch, CommitBatch(done)
      PROVE  IInv'
  BY <1>2 DEF IInv, CommitBatch, Rows, Snapshot, Unthinned, config
<1>3. CASE FailBatch
  BY <1>3 DEF IInv, FailBatch, Rows, Snapshot, Unthinned, config
<1>4. CASE Update
  BY <1>4 DEF IInv, Update, Rows, Snapshot, Unthinned, config
<1>5. CASE Interval
  BY <1>5 DEF IInv, Interval, Rows, Snapshot, Unthinned, config
<1>. QED  BY <1>1, <1>2, <1>3, <1>4, <1>5

\* On unshared routes, what was in the snapshot and is not in the batch is still there.
LEMMA Inductive == Spec => []IInv
<1>1. ASSUME IInv, [Next]_vars
      PROVE  IInv'
  <2>1. CASE UNCHANGED vars
    BY <1>1, <2>1 DEF vars, config, IInv, Rows, Snapshot, Unthinned
  <2>. QED  BY <1>1, <2>1, OthersInv, SelectInv, BatchInv
            DEF Next, UpdateDrained, UpdateUnprobed, UpdateThrottled, UpdateProbed, ProbeFails
<1>. QED  BY <1>1, InitInv, PTL DEF Spec

-----------------------------------------------------------------------------
(* The gauge.                                                              *)

\* What is left of the snapshot after a batch on unshared routes.
LEMMA KeptAreThere ==
    ASSUME IInv, Update, ~shared
    PROVE  /\ kept \subseteq Routable(table, OwnRoutes)
           /\ kept \subseteq snapshot \cap table
<1>1. kept \subseteq batch /\ batch \subseteq snapshot
  BY DEF IInv, Update, Rows, Snapshot, Unthinned
<1>2. kept \subseteq snapshot \cap table
  BY <1>1 DEF IInv, Update, Unthinned
<1>3. \A e \in snapshot : RouteOf[e] \in OwnRoutes
  BY DEF IInv, Update, Snapshot, Routable
<1>. QED  BY <1>2, <1>3 DEF Routable

\* docs/observability.md (batchDrained): on unshared routes the gauge is exact after a drained
\* batch, with any number of routes, rows and any batch target.
THEOREM DrainedGaugeIsExact == Spec => ExactWhenDrained
<1>1. ASSUME IInv, UpdateDrained, ~shared
      PROVE  ~floor' /\ gauge' = Cardinality(snapshot \cap table)
  <2>1. batch = Collected(snapshot, OwnRoutes) /\ snapshot = Routable(snapshot, OwnRoutes)
    BY <1>1 DEF IInv, UpdateDrained, Update, Snapshot, Unthinned
  <2>2. snapshot \in SUBSET Events
    BY <1>1 DEF IInv, Rows
  <2>3. batch = snapshot
    BY <1>1, <2>1, <2>2, DrainedIsWhole DEF UpdateDrained
  <2>4. kept = snapshot \cap table
    BY <1>1, <2>3 DEF IInv, UpdateDrained, Update, Snapshot, Unthinned
  <2>. QED  BY <1>1, <2>4 DEF UpdateDrained, SetBacklog
<1>2. IInv => (UpdateDrained /\ ~shared => ~floor' /\ gauge' = Cardinality(snapshot \cap table))
  BY <1>1
<1>. QED  BY <1>2, Inductive, PTL DEF ExactWhenDrained

\* countBacklog: a count that is not marked as a floor is the number of rows this relay could
\* collect, for any cap of the scan.
THEOREM UnmarkedProbeIsExact == Spec => ProbeExact
<1>1. ASSUME IInv, UpdateProbed, ~floor'
      PROVE  gauge' = Cardinality(Routable(table, OwnRoutes))
  <2>1. Scanned = table
    BY <1>1, ScanIsWhole DEF IInv, UpdateProbed, SetBacklog
  <2>. QED  BY <1>1, <2>1 DEF UpdateProbed, SetBacklog
<1>2. IInv => (UpdateProbed /\ ~floor' => gauge' = Cardinality(Routable(table, OwnRoutes)))
  BY <1>1
<1>. QED  BY <1>2, Inductive, PTL DEF ProbeExact

\* updateBacklog: an update on unshared routes never writes more than there is to collect.
THEOREM GaugeIsAFloor == Spec => NeverOverstated
<1>1. ASSUME IInv, Next, gauge' # gauge, ~shared
      PROVE  gauge' <= Cardinality(Routable(table, OwnRoutes))
  <2>1. IsFiniteSet(Routable(table, OwnRoutes))
    BY <1>1, FS_Subset, EventsAssumption DEF IInv, Rows, Routable
  <2>2. UpdateDrained \/ UpdateUnprobed \/ UpdateProbed
    BY <1>1 DEF Next, Insert, OtherRemoves, SelectEvents, LockRows, CommitBatch, FailBatch,
                UpdateThrottled, ProbeFails, Interval, gaugeVars
  <2>3. PICK counted \in SUBSET Routable(table, OwnRoutes) : gauge' = Cardinality(counted)
    <3>1. CASE UpdateDrained \/ UpdateUnprobed
      BY <1>1, <3>1, KeptAreThere DEF UpdateDrained, UpdateUnprobed, SetBacklog
    <3>2. CASE UpdateProbed
      <4>1. Routable(Scanned, OwnRoutes) \subseteq Routable(table, OwnRoutes)
        BY DEF Routable, Scanned
      <4>. QED  BY <3>2, <4>1 DEF UpdateProbed, SetBacklog
    <3>. QED  BY <2>2, <3>1, <3>2
  <2>. QED  BY <2>1, <2>3, FS_Subset
<1>2. IInv /\ [Next]_vars =>
         [gauge' # gauge /\ ~shared => gauge' <= Cardinality(Routable(table, OwnRoutes))]_vars
  BY <1>1 DEF vars
<1>. QED  BY <1>2, Inductive, PTL DEF NeverOverstated, Spec

=============================================================================
