---------------------------- MODULE PubSubSender ----------------------------
(***************************************************************************)
(* pubsub/sender.go and the client it drives, over successive calls of     *)
(* Send: events without an ordering key are published together and awaited *)
(* one by one, then every (topic, key) group is published by a goroutine   *)
(* of its own, one event at a time.  The client bundles unordered messages *)
(* into requests that succeed or fail together, pauses a key when one of   *)
(* its publishes fails, and goes on with a publish whose result the sender *)
(* has stopped waiting for.                                                *)
(***************************************************************************)
EXTENDS Events

CONSTANT Unparsable    \* events whose orderingKey option is not a string

\* Without a key there is no group.
ASSUME UnparsableAssumption ==
    Unparsable \subseteq {e \in Invalid : GroupOf[e] = NoGroup}

VARIABLES
    phase,       \* where Send is
    stage,       \* what Send has made of each event
    result,      \* the result of each event's last publish by this process
    paused,      \* keys the client refuses until ResumePublish
    errors,      \* kinds of error Send will return
    stopping,    \* the context is cancelled
    delivered,   \* events the topic accepted at least once
    orphans      \* publishes without a reader that may still be accepted

vars == <<phase, stage, result, paused, errors, stopping, delivered, orphans>>

Sending == {"publish", "await", "groups"}
Published == {"sent", "isolated"}
Stages == Published \cup {"outbox", "waiting", "kept", "confirmed", "poison", "gone"}

TypeOK ==
    /\ phase \in Sending \cup {"idle", "exited"}
    /\ stage \in [Events -> Stages]
    /\ result \in [Events -> {"none", "pending", "ok", "permanent", "error"}]
    /\ paused \subseteq Groups
    /\ errors \subseteq {"sender", "fatal"}
    /\ stopping \in BOOLEAN
    /\ delivered \subseteq Events
    /\ orphans \subseteq Events

Init ==
    /\ phase = "idle"
    /\ stage = [e \in Events |-> "outbox"]
    /\ result = [e \in Events |-> "none"]
    /\ paused = {}
    /\ errors = {}
    /\ stopping = FALSE
    /\ delivered = {}
    /\ orphans = {}

Ordered(e) == GroupOf[e] # NoGroup
At(stages) == {e \in Events : stage[e] \in stages}
Pending == {e \in Events : result[e] = "pending"}
-----------------------------------------------------------------------------
(* The call.                                                               *)

\* The relay calls Send with a batch that skips no event of a group.  An event
\* whose ordering key cannot be read is poison before any grouping.  Unordered
\* publishes that an earlier call gave up on have lost their reader.
StartSend(batch) ==
    /\ phase = "idle"
    /\ ~stopping
    /\ batch # {} /\ batch \subseteq At({"outbox"})
    /\ \A e \in batch, f \in At({"outbox"}) : Before(f, e) => f \in batch
    /\ phase' = "publish"
    /\ stage' = [e \in Events |-> IF e \notin batch THEN stage[e]
                                  ELSE IF e \in Unparsable THEN "poison" ELSE "waiting"]
    /\ orphans' = orphans \cup {e \in Pending : ~Ordered(e)}
    /\ result' = [e \in Events |-> IF e \in Pending /\ Ordered(e) THEN "pending" ELSE "none"]
    /\ UNCHANGED <<paused, errors, stopping, delivered>>

\* Every valid unordered event is handed to the client, then the topics are flushed.
PublishUnordered ==
    LET unordered == {e \in At({"waiting"}) : ~Ordered(e)}
    IN  /\ phase = "publish"
        /\ phase' = "await"
        /\ stage' = [e \in Events |-> IF e \notin unordered THEN stage[e]
                                      ELSE IF e \in Invalid THEN "poison" ELSE "sent"]
        /\ result' = [e \in Events |-> IF e \in unordered \ Invalid THEN "pending" ELSE result[e]]
        /\ UNCHANGED <<paused, errors, stopping, delivered, orphans>>

\* All unordered results are in: the groups start.
StartGroups ==
    /\ phase = "await"
    /\ At(Published) = {}
    /\ phase' = "groups"
    /\ UNCHANGED <<stage, result, paused, errors, stopping, delivered, orphans>>

\* The group's goroutine has reached e.
Turn(e) ==
    /\ phase = "groups"
    /\ stage[e] = "waiting"
    /\ \A f \in At(Published \cup {"waiting"}) : ~Before(f, e)

RejectInvalid(e) ==
    /\ Turn(e)
    /\ e \in Invalid
    /\ stage' = [stage EXCEPT ![e] = "poison"]
    /\ UNCHANGED <<phase, result, paused, errors, stopping, delivered, orphans>>

\* Publish and Flush; the client refuses a paused key at once.
PublishOrdered(e) ==
    /\ Turn(e)
    /\ e \notin Invalid
    /\ stage' = [stage EXCEPT ![e] = "sent"]
    /\ result' = [result EXCEPT ![e] = IF GroupOf[e] \in paused THEN "error" ELSE "pending"]
    /\ UNCHANGED <<phase, paused, errors, stopping, delivered, orphans>>
-----------------------------------------------------------------------------
(* The client and the topic.                                               *)

\* A request that carries the publishes of bundle is answered.  One rejected
\* message fails the request for all; any other failure leaves open what the
\* topic made of it.  A failed publish pauses its key.
Answer(bundle, outcome) ==
    /\ result' = [e \in Events |-> IF e \in bundle THEN outcome ELSE result[e]]
    /\ delivered' = IF outcome = "ok" THEN delivered \cup bundle ELSE delivered
    /\ orphans' = IF outcome = "error" THEN orphans \cup bundle ELSE orphans
    /\ paused' = IF outcome = "ok" THEN paused
                 ELSE paused \cup {GroupOf[e] : e \in {f \in bundle : Ordered(f)}}
    /\ UNCHANGED <<phase, stage, errors, stopping>>

\* An isolated publish and an ordered one travel alone.
Bundles ==
    {{e} : e \in Pending} \cup
    {b \in SUBSET {e \in Pending : ~Ordered(e) /\ stage[e] # "isolated"} :
        \A e, f \in b : RouteOf[e] = RouteOf[f]}

Resolve(bundle) ==
    /\ bundle # {}
    /\ IF bundle \cap Rejected = {} THEN Answer(bundle, "ok") ELSE Answer(bundle, "permanent")

ResolveFails(bundle) == bundle # {} /\ Answer(bundle, "error")

\* A publish nobody waits for any more is accepted.
Land(e) ==
    /\ e \in orphans \ Rejected
    /\ delivered' = delivered \cup {e}
    /\ orphans' = orphans \ {e}
    /\ UNCHANGED <<phase, stage, result, paused, errors, stopping>>
-----------------------------------------------------------------------------
(* The sender reads a result.                                              *)

\* Send waits for e: unordered results are read in the order of publishing.
Awaits(e) ==
    /\ stage[e] \in Published
    /\ ~Ordered(e) => \A f \in At(Published) : e <= f

\* Mutant: the client is left with the key paused.
NoResume(e) == paused

\* ResumePublish on e's key; there is nothing to resume without a key.
Resumed(e) == paused \ {GroupOf[e]}

\* Mutant: the group goes on behind a failed event.
StoppedAlone(e) == [stage EXCEPT ![e] = "kept"]

\* e stays in the outbox and its group, if it has one, ends here.
Stopped(e) == [f \in Events |-> IF f = e \/ (Before(e, f) /\ stage[f] = "waiting")
                                THEN "kept" ELSE stage[f]]

Confirm(e) ==
    /\ Awaits(e)
    /\ result[e] = "ok"
    /\ stage' = [stage EXCEPT ![e] = "confirmed"]
    /\ UNCHANGED <<phase, result, paused, errors, stopping, delivered, orphans>>

\* A permanent error may be another message's: e is published again, alone.
Isolate(e) ==
    /\ Awaits(e)
    /\ result[e] = "permanent"
    /\ stage[e] = "sent"
    /\ stage' = [stage EXCEPT ![e] = "isolated"]
    /\ result' = [result EXCEPT ![e] = "pending"]
    /\ paused' = Resumed(e)
    /\ UNCHANGED <<phase, errors, stopping, delivered, orphans>>

\* Mutant: an isolated event that fails again is isolated again.
IsolateAgain(e) ==
    /\ Awaits(e)
    /\ result[e] = "permanent"
    /\ stage[e] = "isolated"
    /\ result' = [result EXCEPT ![e] = "pending"]
    /\ paused' = Resumed(e)
    /\ UNCHANGED <<phase, stage, errors, stopping, delivered, orphans>>

\* Alone and still refused: the content is at fault.  The group goes on.
Poison(e) ==
    /\ Awaits(e)
    /\ result[e] = "permanent"
    /\ stage[e] = "isolated"
    /\ stage' = [stage EXCEPT ![e] = "poison"]
    /\ paused' = Resumed(e)
    /\ UNCHANGED <<phase, result, errors, stopping, delivered, orphans>>

\* Any other error, or the cancelled context: e is kept and its key resumed.
GiveUp(e) ==
    /\ Awaits(e)
    /\ result[e] = "error" \/ (result[e] = "pending" /\ stopping)
    /\ stage' = Stopped(e)
    /\ paused' = Resumed(e)
    /\ errors' = errors \cup {"sender"}
    /\ UNCHANGED <<phase, result, stopping, delivered, orphans>>

\* Mutant: a timeout of an ordered publish is an error like any other.
TimeOutPlainly(e) ==
    /\ Awaits(e)
    /\ result[e] = "pending"
    /\ stage' = Stopped(e)
    /\ paused' = Resumed(e)
    /\ errors' = errors \cup {"sender"}
    /\ UNCHANGED <<phase, result, stopping, delivered, orphans>>

\* The result does not come in PublishTimeout plus its grace.  An ordered
\* publish is still in the client, so its key is not resumed and the process ends.
TimeOut(e) ==
    /\ Awaits(e)
    /\ result[e] = "pending"
    /\ stage' = Stopped(e)
    /\ errors' = errors \cup (IF Ordered(e) THEN {"sender", "fatal"} ELSE {"sender"})
    /\ UNCHANGED <<phase, result, paused, stopping, delivered, orphans>>

\* Every goroutine is done: Send returns, and the relay deletes what was
\* reported, then ends the process on a fatal error or a cancelled context.
\* A new process has a client of its own.
FinishSend ==
    /\ phase = "groups"
    /\ At(Published \cup {"waiting"}) = {}
    /\ stage' = [e \in Events |-> CASE stage[e] \in {"confirmed", "poison"} -> "gone"
                                    [] stage[e] = "kept" -> "outbox"
                                    [] OTHER -> stage[e]]
    /\ errors' = {}
    /\ IF "fatal" \in errors \/ stopping
       THEN /\ phase' = "exited"
            /\ orphans' = orphans \cup Pending
            /\ result' = [e \in Events |-> "none"]
            /\ paused' = {}
       ELSE /\ phase' = "idle"
            /\ UNCHANGED <<orphans, result, paused>>
    /\ UNCHANGED <<stopping, delivered>>
-----------------------------------------------------------------------------
(* The process.                                                            *)

Cancel ==
    /\ phase # "exited"
    /\ ~stopping
    /\ stopping' = TRUE
    /\ UNCHANGED <<phase, stage, result, paused, errors, delivered, orphans>>

Stop ==
    /\ phase = "idle"
    /\ stopping
    /\ phase' = "exited"
    /\ orphans' = orphans \cup Pending
    /\ result' = [e \in Events |-> "none"]
    /\ paused' = {}
    /\ UNCHANGED <<stage, errors, stopping, delivered>>

Restart ==
    /\ phase = "exited"
    /\ phase' = "idle"
    /\ stopping' = FALSE
    /\ UNCHANGED <<stage, result, paused, errors, delivered, orphans>>

\* What Send does when it can go on.
Step ==
    \/ PublishUnordered
    \/ StartGroups
    \/ \E e \in Events : RejectInvalid(e) \/ PublishOrdered(e)
    \/ \E e \in Events : Confirm(e) \/ Isolate(e) \/ Poison(e) \/ GiveUp(e)
    \/ FinishSend

\* A publish ends: with an answer, or because its reader gives up.
End(e) ==
    \/ \E b \in Bundles : e \in b /\ (Resolve(b) \/ ResolveFails(b))
    \/ TimeOut(e)

Next ==
    \/ \E batch \in SUBSET Events : StartSend(batch)
    \/ Step
    \/ \E e \in Events : End(e) \/ Land(e)
    \/ Cancel
    \/ Stop
    \/ Restart

Spec == Init /\ [][Next]_vars

\* Goroutines keep running, and a publish is answered or its reader's timer
\* fires.  Nothing is assumed of the relay, of signals or of orphans.
FairSpec ==
    /\ Spec
    /\ WF_vars(Step)
    /\ \A e \in Events : WF_vars(End(e))
-----------------------------------------------------------------------------
(* Properties.                                                             *)

\* ResumePublish: no group finds its key paused by an earlier failure, of this
\* call or of another, when its turn to publish comes.
NeverFindsKeyPaused == \A e \in Events : Turn(e) => GroupOf[e] \notin paused

\* ErrFatalAfterCommit: while the client still works on a publish of a key, this
\* process starts no other publish of the key, in this call or in a later one.
OnePublishPerKey ==
    \A e \in Pending, f \in Events :
        Ordered(e) /\ GroupOf[e] = GroupOf[f] => ~Turn(f) /\ (f \in Pending => e = f)

\* S2, S8 (provider.Sender): every step of the sender is one the relay counts on.
\* In particular what is confirmed was accepted and what is poison never can be,
\* whatever message shared its request (sendPubsubIsolated); the topic accepts an event for the first time only when each
\* earlier event of its key was accepted or is poison, in whatever call or
\* process, and what is left in the outbox is left with an error.
Contract == INSTANCE Sender WITH
    Hopeless <- Invalid \cup Rejected,
    status <- [e \in Events |-> IF stage[e] \in Published \cup {"waiting"}
                               THEN "pending" ELSE stage[e]],
    failed <- errors # {}
ImplementsSender == Contract!Spec

\* Every call of Send returns (awaitPubsubResult bounds each wait, and a refused
\* event is isolated once).
SendReturns == phase \in Sending ~> phase \notin Sending
=============================================================================
