--------------------------- MODULE Collect_proofs ---------------------------
(***************************************************************************)
(* What the collection query returns, for every table, shard and target.   *)
(***************************************************************************)
EXTENDS Collect, TLAPS, FiniteSetTheorems

\* The LIMIT of the picked subquery (selectEventsQuerySQL) is a positive number
\* for any number of routes.
LEMMA ShareIsPositive ==
    ASSUME NEW routeCount \in Nat \ {0}
    PROVE  Share(routeCount) \in Nat \ {0}
<1>1. (BatchTarget + routeCount - 1) \div routeCount \in Nat
  BY BatchTargetAssumption
<1>. QED  BY <1>1 DEF Share

\* The query returns rows of the table.
LEMMA CollectedAreRows ==
    ASSUME NEW rows, NEW owned
    PROVE  Collected(rows, owned) \subseteq rows
BY DEF Collected, Routable

\* The share of a non-empty selection is a number.
LEMMA ShareOfRows ==
    ASSUME NEW rows \in SUBSET Events, rows # {}
    PROVE  Share(Cardinality(RoutesOf(rows))) \in Nat \ {0}
<1>1. IsFiniteSet(rows)
  BY FS_Subset, EventsAssumption
<1>2. IsFiniteSet(RoutesOf(rows))
  <2>. DEFINE route == [e \in rows |-> RouteOf[e]]
  <2>1. route \in Surjection(rows, RoutesOf(rows))
    BY DEF RoutesOf, Surjection
  <2>. QED  BY <1>1, <2>1, FS_Surjection
<1>3. RoutesOf(rows) # {}
  BY DEF RoutesOf
<1>4. Cardinality(RoutesOf(rows)) \in Nat \ {0}
  BY <1>2, <1>3, FS_CardinalityType, FS_EmptySet
<1>. QED  BY <1>4, ShareIsPositive

\* The query never skips a row: of each route it returns the oldest rows
\* (ORDER BY id LIMIT in the picked subquery), so an older row of the route of
\* a returned row is returned with it.
THEOREM CollectedIsPrefix ==
    ASSUME NEW rows \in SUBSET Events, NEW owned,
           NEW e \in Collected(rows, owned), NEW f \in rows,
           RouteOf[f] = RouteOf[e], f < e
    PROVE  f \in Collected(rows, owned)
<1>. DEFINE R == Routable(rows, owned)
            share == Share(Cardinality(RoutesOf(R)))
<1>1. /\ e \in R
      /\ f \in R
      /\ R \in SUBSET Events
      /\ Cardinality(Older(e, R)) < share
  BY DEF Collected, Routable
<1>2. Older(f, R) \subseteq Older(e, R)
  <2>1. R \subseteq Nat
    BY <1>1, EventsAssumption
  <2>. SUFFICES ASSUME NEW g \in R, RouteOf[g] = RouteOf[f], g < f
                PROVE  RouteOf[g] = RouteOf[e] /\ g < e
    BY DEF Older
  <2>. QED  BY <1>1, <2>1
<1>3. IsFiniteSet(Older(e, R))
  BY <1>1, FS_Subset, EventsAssumption DEF Older
<1>4. /\ IsFiniteSet(Older(f, R))
      /\ Cardinality(Older(f, R)) <= Cardinality(Older(e, R))
  BY <1>2, <1>3, FS_Subset
<1>5. /\ Cardinality(Older(f, R)) \in Nat
      /\ Cardinality(Older(e, R)) \in Nat
  BY <1>3, <1>4, FS_CardinalityType
<1>6. share \in Nat
  BY <1>1, ShareOfRows
<1>7. Cardinality(Older(f, R)) < share
  BY <1>1, <1>4, <1>5, <1>6
<1>. QED  BY <1>1, <1>7 DEF Collected

\* No eligible route starves: every owned route with a row contributes at least
\* its oldest row to the batch (GREATEST(1, ...) in the picked subquery).
THEOREM OldestIsCollected ==
    ASSUME NEW rows \in SUBSET Events, NEW owned,
           NEW e \in rows, RouteOf[e] \in owned,
           \A f \in rows : RouteOf[f] = RouteOf[e] => e <= f
    PROVE  e \in Collected(rows, owned)
<1>. DEFINE R == Routable(rows, owned)
<1>1. e \in R /\ R \in SUBSET Events
  BY DEF Routable
<1>2. Older(e, R) = {}
  <2>1. rows \subseteq Nat
    BY EventsAssumption
  <2>. SUFFICES ASSUME NEW g \in R, RouteOf[g] = RouteOf[e], g < e
                PROVE  FALSE
    BY DEF Older
  <2>2. g \in rows
    BY DEF Routable
  <2>. QED  BY <2>1, <2>2
<1>3. Cardinality(Older(e, R)) = 0
  BY <1>2, FS_EmptySet
<1>4. Share(Cardinality(RoutesOf(R))) \in Nat \ {0}
  BY <1>1, ShareOfRows
<1>5. Cardinality(Older(e, R)) < Share(Cardinality(RoutesOf(R)))
  BY <1>3, <1>4
<1>. QED  BY <1>1, <1>5 DEF Collected
=============================================================================
