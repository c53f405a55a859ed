------------------------------ MODULE Routing -------------------------------
(***************************************************************************)
(* How the collection query of db.go resolves, filters and matches routes, *)
(* in SQL's three-valued logic, and the routing classification it is meant *)
(* to compute.  A table is a sequence of rows; a row's position is its id. *)
(***************************************************************************)
EXTENDS Config

CONSTANTS
    Null,           \* SQL NULL
    Destinations    \* non-empty destination names

ASSUME RoutingAssumption == Null \notin {""} \cup Targets \cup Destinations /\ "" \notin Destinations

-----------------------------------------------------------------------------
(* SQL.  A WHERE clause passes a row only if it is true.                   *)

NullIfEmpty(v) == IF v = "" THEN Null ELSE v
Coalesce(v, w) == IF v = Null THEN w ELSE v

Equal(v, w) == IF v = Null \/ w = Null THEN "unknown" ELSE IF v = w THEN "true" ELSE "false"

In(v, S) == IF v = Null THEN "unknown" ELSE IF v \in S THEN "true" ELSE "false"

Not(p) == CASE p = "true" -> "false" [] p = "false" -> "true" [] OTHER -> "unknown"

\* AND and OR of a set of truth values.
AllOf(ps) == IF "false" \in ps THEN "false" ELSE IF "unknown" \in ps THEN "unknown" ELSE "true"
AnyOf(ps) == IF "true" \in ps THEN "true" ELSE IF "unknown" \in ps THEN "unknown" ELSE "false"

IsNull(v) == IF v = Null THEN "true" ELSE "false"
-----------------------------------------------------------------------------
(* The query's pieces, for configuration c and row r.                      *)

ResolvedTarget(c, r) ==
    IF Single(c) THEN IF c.EVENT_TARGET # "" THEN Coalesce(NullIfEmpty(r.target), Only(c)) ELSE Only(c)
    ELSE NullIfEmpty(r.target)

TargetPredicate(c, r) ==
    IF Single(c)
    THEN IF c.EVENT_TARGET # "" THEN Equal(ResolvedTarget(c, r), Only(c)) ELSE "true"
    ELSE In(NullIfEmpty(r.target), enabled(c))

\* CASE WHEN target = ... THEN its default ... ELSE '' END.
DefaultDestination(c, r) ==
    LET target == ResolvedTarget(c, r)
    IN  IF target \in enabled(c) THEN defaultDestination(c, target) ELSE ""

ResolvedDestination(c, r) ==
    IF c.EVENT_DESTINATION # "" THEN Coalesce(NullIfEmpty(r.destination), DefaultDestination(c, r))
    ELSE IF Single(c) THEN defaultDestination(c, Only(c)) ELSE DefaultDestination(c, r)

Sharded(c) == {t \in enabled(c) : ownedDestinations(c, t) # {}}

OwnedBy(c, r, t) ==
    AnyOf({Not(Equal(ResolvedTarget(c, r), t)), In(ResolvedDestination(c, r), ownedDestinations(c, t))})

\* Mutant: one provider's list is enough.
OwnershipOfAny(c, r) ==
    AnyOf({OwnedBy(c, r, t) : t \in Sharded(c)} \cup {"false"})

RouteOwnership(c, r) == AllOf({OwnedBy(c, r, t) : t \in Sharded(c)})

Routable(c, r) ==
    AllOf({TargetPredicate(c, r),
         Not(Equal(Coalesce(ResolvedDestination(c, r), ""), "")),
         RouteOwnership(c, r)}) = "true"

Route(c, r) == [target |-> ResolvedTarget(c, r), destination |-> ResolvedDestination(c, r)]

\* The predicate that joins a row to a route of the routes CTE.
TargetMatch(c, r, route) ==
    IF c.EVENT_TARGET # ""
    THEN IF Single(c)
         THEN AnyOf({Equal(NullIfEmpty(r.target), route.target),
                   AllOf({IsNull(NullIfEmpty(r.target)), Equal(Only(c), route.target)})})
         ELSE Equal(r.target, route.target)
    ELSE Equal(ResolvedTarget(c, r), route.target)

\* Mutant: a row that relies on its default destination matches no route.
DestinationMatchColumn(c, r, route) ==
    IF c.EVENT_DESTINATION # "" THEN Equal(NullIfEmpty(r.destination), route.destination)
    ELSE Equal(ResolvedDestination(c, r), route.destination)

DestinationMatch(c, r, route) ==
    IF c.EVENT_DESTINATION # ""
    THEN AnyOf({Equal(NullIfEmpty(r.destination), route.destination),
              AllOf({IsNull(NullIfEmpty(r.destination)),
                   Equal(DefaultDestination(c, r), route.destination)})})
    ELSE Equal(ResolvedDestination(c, r), route.destination)

RouteMatch(c, r, route) ==
    AllOf({TargetMatch(c, r, route), DestinationMatch(c, r, route)}) = "true"

\* Mutant: the share is rounded down and may be zero.
FloorShare(c, routes) == IF routes = 0 THEN 0 ELSE c.COLLECT_BATCH_TARGET \div routes

\* The LIMIT: an even part of the batch target, rounded up, at least one.
EvenShare(c, routes) ==
    LET even == IF routes = 0 THEN 0 ELSE (c.COLLECT_BATCH_TARGET + routes - 1) \div routes
    IN  IF even > 1 THEN even ELSE 1

\* WITH routes, selected: per route, the ids of its oldest matching rows.
Selected(c, t) ==
    LET routes     == {Route(c, t[e]) : e \in {f \in DOMAIN t : Routable(c, t[f])}}
        match(rt)  == {e \in DOMAIN t : Routable(c, t[e]) /\ RouteMatch(c, t[e], rt)}
        picked(rt) == {e \in match(rt) :
                          Cardinality({f \in match(rt) : f < e}) < EvenShare(c, Cardinality(routes))}
    IN  UNION {{[id |-> e, route |-> rt] : e \in picked(rt)} : rt \in routes}
-----------------------------------------------------------------------------
(* The routing classification of specs/requirements.md.                    *)

\* The provider a target value goes to, or none of them.
ClassifiedTarget(c, r) ==
    LET value == IF c.EVENT_TARGET # "" THEN r.target ELSE ""
    IN  {t \in enabled(c) : IF value \in {"", Null} THEN enabled(c) = {t} ELSE value = t}

\* The one route of a row, as a set; empty for a row to be kept (R7, R10 to R12,
\* or another shard's).
Classified(c, r) ==
    {rt \in [target : ClassifiedTarget(c, r), destination : Destinations] :
        /\ rt.destination = IF c.EVENT_DESTINATION # "" /\ r.destination \notin {"", Null}
                            THEN r.destination ELSE defaultDestination(c, rt.target)
        /\ ownedDestinations(c, rt.target) # {} => rt.destination \in ownedDestinations(c, rt.target)}

\* The ids of a route's rows in table t.
RowsOf(c, t, rt) == {e \in DOMAIN t : rt \in Classified(c, t[e])}
=============================================================================
