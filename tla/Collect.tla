------------------------------ MODULE Collect -------------------------------
(***************************************************************************)
(* The batch collection query of db.go and the drained test of backlog.go. *)
(***************************************************************************)
EXTENDS Events

CONSTANT BatchTarget    \* COLLECT_BATCH_TARGET

ASSUME BatchTargetAssumption == BatchTarget \in Nat \ {0}

\* Rows of routes this relay owns (routableSQL).
Routable(rows, owned) == {e \in rows : RouteOf[e] \in owned}

\* The distinct routes of a set of rows (the routes CTE).
RoutesOf(rows) == {RouteOf[e] : e \in rows}

\* An even part of the batch target, at least one: the LIMIT of the picked subquery.
Share(routeCount) ==
    LET even == (BatchTarget + routeCount - 1) \div routeCount
    IN  IF even > 1 THEN even ELSE 1

\* The rows of e's route that come before it.
Older(e, rows) == {f \in rows : RouteOf[f] = RouteOf[e] /\ f < e}

\* Per owned route, its oldest rows up to the route's share.
Collected(rows, owned) ==
    LET routable == Routable(rows, owned)
        share    == Share(Cardinality(RoutesOf(routable)))
    IN  {e \in routable : Cardinality(Older(e, routable)) < share}
=============================================================================
