------------------------------ MODULE MCRelay -------------------------------
EXTENDS Relay, TLC

\* Three events of one topic: 1 and 2 share an ordering key, 3 has none.
KeyedRoute == [e \in Events |-> "topic"]
KeyedGroup == [e \in Events |-> IF e < 3 THEN "key" ELSE NoGroup]

\* 1 and 2 share an ordering key of a topic, 3 goes to a queue.
PoisonRoute == [e \in Events |-> IF e < 3 THEN "topic" ELSE "queue"]
PoisonGroup == [e \in Events |-> IF e < 3 THEN "key" ELSE NoGroup]

AllOwned == [r \in Relays |-> Routes]
RelaySymmetry == Permutations(Relays)
=============================================================================
