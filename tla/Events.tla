------------------------------- MODULE Events -------------------------------
(***************************************************************************)
(* The outbox rows as every other module sees them.  An event is its id,   *)
(* the column that gives order and identity; what routing, validation and  *)
(* the provider make of its other columns is given by the constants below. *)
(***************************************************************************)
EXTENDS Naturals, FiniteSets

CONSTANTS
    Events,      \* event ids that producers may insert
    Routes,      \* resolved (target, destination) pairs
    RouteOf,     \* the route an event's columns resolve to
    Groups,      \* ordering domains: (topic, orderingKey) or (FIFO queue, messageGroupId)
    NoGroup,     \* the group of an event without an ordering contract
    GroupOf,     \* an event's ordering domain
    Malformed,   \* events whose options do not parse (poison before any sender)
    Invalid,     \* events a sender's local validation rejects
    Rejected,    \* events whose content the provider permanently rejects
    Expirable    \* events that pass MAX_EVENT_AGE_MS at some time

ASSUME EventsAssumption ==
    /\ Events \subseteq Nat
    /\ IsFiniteSet(Events)
    /\ RouteOf \in [Events -> Routes]
    /\ NoGroup \notin Groups
    /\ GroupOf \in [Events -> Groups \cup {NoGroup}]
    /\ Malformed \subseteq Events
    /\ Invalid \subseteq Events
    /\ Rejected \subseteq Events
    /\ Expirable \subseteq Events

\* An ordering domain lives inside one destination: the senders form it from
\* the destination and the key, and events of one destination share a route.
ASSUME GroupsAreRouted ==
    \A e, f \in Events :
        GroupOf[e] = GroupOf[f] /\ GroupOf[e] # NoGroup => RouteOf[e] = RouteOf[f]

\* f and e share an ordering domain and f comes first.
Before(f, e) ==
    /\ GroupOf[f] = GroupOf[e]
    /\ GroupOf[e] # NoGroup
    /\ f < e

\* The events that may be removed without having been delivered.
Poisonous(expired) == Malformed \cup Invalid \cup Rejected \cup expired
=============================================================================
