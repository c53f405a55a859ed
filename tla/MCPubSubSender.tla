--------------------------- MODULE MCPubSubSender ---------------------------
EXTENDS PubSubSender

\* 1 and 2 have no key, the others share one.
OneTopic == [e \in Events |-> "topic"]
KeyedTail == [e \in Events |-> IF e < 3 THEN NoGroup ELSE "key"]
=============================================================================
