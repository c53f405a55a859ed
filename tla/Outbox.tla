------------------------------- MODULE Outbox -------------------------------
(***************************************************************************)
(* What the relays together promise the application, without relays,       *)
(* transactions or locks: events are delivered at least once, first        *)
(* deliveries of one ordering domain follow the ids, and a row leaves the  *)
(* outbox only when its event was delivered or can never be, in which case *)
(* a dead letter, if there is a dead-letter table, is written in the same  *)
(* step.                                                                   *)
(***************************************************************************)
EXTENDS Events

CONSTANTS
    DLQEnabled,         \* DLQ_TABLE is configured
    CommitsInIdOrder    \* producers commit the rows of one ordering domain in id order

ASSUME OutboxAssumption == DLQEnabled \in BOOLEAN /\ CommitsInIdOrder \in BOOLEAN

VARIABLES
    table,       \* committed rows of the outbox table
    inserted,    \* events ever committed by a producer
    expired,     \* events older than MAX_EVENT_AGE_MS
    delivered,   \* events the provider accepted at least once
    dlq          \* dead letters per event

outboxVars == <<table, inserted, expired, delivered, dlq>>

OutboxInit ==
    /\ table = {}
    /\ inserted = {}
    /\ expired = {}
    /\ delivered = {}
    /\ dlq = [e \in Events |-> 0]

\* A producer's transaction commits the row of e.
Insert(e) ==
    /\ e \notin inserted
    /\ CommitsInIdOrder => \A f \in inserted : ~Before(e, f)
    /\ inserted' = inserted \cup {e}
    /\ table' = table \cup {e}
    /\ UNCHANGED <<expired, delivered, dlq>>

Expire(e) ==
    /\ e \in (inserted \cap Expirable) \ expired
    /\ expired' = expired \cup {e}
    /\ UNCHANGED <<table, inserted, delivered, dlq>>

\* Every event before e in its domain was delivered or is poison.
OrderedUpTo(e) ==
    \A f \in inserted : Before(f, e) => f \in delivered \cup Poisonous(expired)

\* The provider accepts e, once more or for the first time.
Deliver(e) ==
    /\ e \in inserted
    /\ CommitsInIdOrder => OrderedUpTo(e)
    /\ delivered' = delivered \cup {e}
    /\ UNCHANGED <<table, inserted, expired, dlq>>

\* A batch commits: sent events and poison leave the table together.
Remove(sent, poison) ==
    /\ sent \subseteq table \cap delivered
    /\ poison \subseteq (table \cap Poisonous(expired)) \ sent
    /\ table' = table \ (sent \cup poison)
    /\ dlq' = [e \in Events |-> IF DLQEnabled /\ e \in poison THEN dlq[e] + 1 ELSE dlq[e]]
    /\ UNCHANGED <<inserted, expired, delivered>>

OutboxNext ==
    \/ \E e \in Events : Insert(e) \/ Expire(e) \/ Deliver(e)
    \/ \E sent, poison \in SUBSET Events : Remove(sent, poison)

OutboxSpec == OutboxInit /\ [][OutboxNext]_outboxVars
=============================================================================
