----------------------------- MODULE Selection ------------------------------
(***************************************************************************)
(* What the relays that run on a provisioned database select: the query of *)
(* Routing against its classification, for every relay, row and table.     *)
(***************************************************************************)
EXTENDS Provisioning, Routing

CONSTANTS
    Relays,         \* configurations of the relays
    TargetNames,    \* non-empty values of the target column
    Tables          \* contents of the event table

Rows == [target : {Null, ""} \cup TargetNames, destination : {Null, ""} \cup Destinations]

\* A relay runs with a configuration that passed validateRuntime and whose lists
\* were parsed into non-empty names.
ASSUME SelectionAssumption ==
    /\ Targets \subseteq TargetNames /\ Destinations # {}
    /\ \A c \in Relays :
        /\ validateRuntime(c)
        /\ c.COLLECT_BATCH_TARGET \in Nat
        /\ \A p \in Targets : /\ defaultDestination(c, p) \in {""} \cup Destinations
                             /\ ownedDestinations(c, p) \subseteq Destinations
    /\ Tables \subseteq Seq(Rows)

\* The query does not depend on the catalog: one initial state stands for all.
Fresh == Init /\ db = CHOOSE v \in Databases : TRUE

\* Relays that differ at most in the destinations they own.
SameRoutes(c, d) ==
    /\ enabled(c) = enabled(d)
    /\ \A p \in enabled(c) : defaultDestination(c, p) = defaultDestination(d, p)
    /\ c.EVENT_TARGET = d.EVENT_TARGET /\ c.EVENT_DESTINATION = d.EVENT_DESTINATION

-----------------------------------------------------------------------------
\* specs/requirements.md, routing classification (selectEventsQuerySQL): the
\* select returns exactly the rows whose classification gives them a route this
\* relay owns, each once and with that route, oldest first up to the route's
\* share, whatever columns are configured, empty or NULL.  So the errors of
\* triageEvents about a row without a route or sender, which would roll every batch
\* back, cannot occur.
SelectsClassified ==
    Fresh => \A c \in Relays : \A t \in Tables :
        LET routes == UNION {Classified(c, t[e]) : e \in DOMAIN t}
        IN  Selected(c, t) = {s \in [id : DOMAIN t, route : routes] :
                /\ s.id \in RowsOf(c, t, s.route)
                /\ Cardinality({f \in RowsOf(c, t, s.route) : f < s.id})
                      < EvenShare(c, Cardinality(routes))}

\* S5 (LIMIT GREATEST(1, ...)): every route this relay owns that has a row has
\* its oldest one in the batch, however many routes share the batch target.
NoRouteStarves ==
    Fresh => \A c \in Relays : \A t \in Tables : \A e \in DOMAIN t : \A rt \in Classified(c, t[e]) :
        \E s \in Selected(c, t) : s.route = rt /\ \A f \in RowsOf(c, t, rt) : s.id <= f

\* Destination sharding (routeOwnershipSQL): two relays that differ only in the
\* destinations they own, and own different ones of every provider, never collect
\* the same row.
ShardsDisjoint ==
    Fresh => \A c, d \in Relays :
        /\ SameRoutes(c, d)
        /\ \A p \in enabled(c) : /\ ownedDestinations(c, p) # {} /\ ownedDestinations(d, p) # {}
                                /\ ownedDestinations(c, p) \cap ownedDestinations(d, p) = {}
        => \A r \in Rows : ~(Routable(c, r) /\ Routable(d, r))

\* validateRuntime against the query: a relay that starts can serve each of its
\* providers, some row goes to it, unless the relay has no destination column and
\* does not own the one default destination (which validation lets pass).
ProvidersReachable ==
    Fresh => \A c \in Relays : \A p \in enabled(c) :
        \/ \E r \in Rows : Routable(c, r) /\ Route(c, r).target = p
        \/ c.EVENT_DESTINATION = "" /\ p \in Sharded(c)
              /\ defaultDestination(c, p) \notin ownedDestinations(c, p)
=============================================================================
