------------------------------- MODULE Sender -------------------------------
(***************************************************************************)
(* What the relay relies on when it calls provider.Sender.Send with a      *)
(* batch: the contract both providers implement.  The relay deletes what   *)
(* was reported, so a report must be true; it calls again with what was    *)
(* not, so an event must never overtake an earlier one of its group; and   *)
(* it learns from the error alone that something was left behind.          *)
(***************************************************************************)
EXTENDS Events

CONSTANT Hopeless    \* events no attempt can deliver

VARIABLES
    status,      \* what Send has reported of each event
    failed,      \* Send will return an error
    delivered    \* events the provider accepted at least once

vars == <<status, failed, delivered>>

Reports == {"confirmed", "poison", "kept"}

Init ==
    /\ status = [e \in Events |-> "outbox"]
    /\ failed = FALSE
    /\ delivered = {}

Changed == {e \in Events : status'[e] # status[e]}

\* Send is called with the rows of a batch, which skips no event of a group.
\* Poison may be known before anything is sent.
Call ==
    /\ \A e \in Events : status[e] \in {"outbox", "gone"}
    /\ \A e \in Changed :
          /\ status[e] = "outbox"
          /\ status'[e] = "pending" \/ (status'[e] = "poison" /\ e \in Hopeless)
    /\ \A e \in Changed, f \in Events : Before(f, e) /\ status[f] = "outbox" => f \in Changed
    /\ UNCHANGED <<failed, delivered>>

\* The provider accepts events, during the call or long after it gave up: for
\* the first time never ahead of an event of the group that could still come.
Accept ==
    /\ delivered \subseteq delivered'
    /\ \A e \in delivered' \ delivered :
          /\ e \notin Hopeless
          /\ \A f \in Events : Before(f, e) => f \in delivered \cup Hopeless

\* Events are reported: confirmed only if accepted, poison only if hopeless,
\* left in the outbox only with an error.  A group is reported from its head
\* on and goes no further than an event that is left.
Report ==
    /\ \A e \in Changed :
          /\ status[e] = "pending"
          /\ status'[e] \in Reports
          /\ status'[e] = "confirmed" => e \in delivered'
          /\ status'[e] = "poison" => e \in Hopeless
          /\ status'[e] = "kept" => failed'
          /\ \A f \in Events : Before(f, e) /\ status'[f] \in {"pending", "kept"} => status'[e] = "kept"
    /\ failed => failed'

Work == Accept /\ Report

\* Send returns with every event reported or kept; the relay deletes the former.
Return ==
    /\ \A e \in Events : status[e] # "pending"
    /\ status' = [e \in Events |-> CASE status[e] \in {"confirmed", "poison"} -> "gone"
                                     [] status[e] = "kept" -> "outbox"
                                     [] OTHER -> status[e]]
    /\ ~failed'
    /\ UNCHANGED delivered

Next == Call \/ Work \/ Return

Spec == Init /\ [][Next]_vars
-----------------------------------------------------------------------------
(* What the relay may conclude.                                            *)

\* A report is true, and a row that is gone was delivered or never can be.
Truthful ==
    \A e \in Events :
        /\ status[e] = "confirmed" => e \in delivered
        /\ status[e] = "poison" => e \in Hopeless
        /\ status[e] = "gone" => e \in delivered \cup Hopeless
        /\ status[e] = "kept" => failed

\* S2 at all times: behind an accepted event none of its group is missing that could
\* still come.
GroupsHaveNoGap ==
    \A e \in delivered, f \in Events : Before(f, e) => f \in delivered \cup Hopeless

Promise == Truthful /\ GroupsHaveNoGap
=============================================================================
