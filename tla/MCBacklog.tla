----------------------------- MODULE MCBacklog ------------------------------
EXTENDS Backlog

\* 1 to 3 share a route, 4 is alone on another, 5 belongs to another shard.
ThreeRoutes == [e \in Events |-> IF e < 4 THEN "a" ELSE IF e = 4 THEN "b" ELSE "other"]
Ungrouped == [e \in Events |-> NoGroup]
=============================================================================
