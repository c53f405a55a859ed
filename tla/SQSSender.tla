----------------------------- MODULE SQSSender ------------------------------
(***************************************************************************)
(* sqs/sender.go over successive calls of Send.  Each chunk of a standard  *)
(* queue and each message group of a FIFO queue is a job with a goroutine  *)
(* of its own; a job's requests pass a semaphore all queues share.  A FIFO *)
(* job sends one message per request.  A request refused as a whole is     *)
(* taken apart while the job keeps its slot.                               *)
(***************************************************************************)
EXTENDS Events, SQSChunks

CONSTANTS
    FifoQueues,        \* routes whose queue URL ends in .fifo
    BadQueues,         \* routes whose queue URL is syntactically invalid
    Capacities,        \* the values SEND_CONCURRENCY may have
    Size,              \* messageSize of the events prepareSQSEvent lets pass
    Unparsable,        \* events whose messageGroupId option is not a string
    Unsendable         \* rejected events that take their whole request down

ASSUME SQSAssumption ==
    /\ FifoQueues \subseteq Routes
    /\ BadQueues \subseteq Routes
    /\ Capacities \subseteq Nat \ {0}
    /\ Size \in [Events -> 1..MaxBytes]
    /\ \A e \in Unparsable : e \in Invalid /\ GroupOf[e] = NoGroup
    /\ Unsendable \subseteq Rejected
    /\ \A e \in Events : GroupOf[e] # NoGroup => RouteOf[e] \in FifoQueues

VARIABLES
    SendConcurrency,   \* capacity of the semaphore, fixed at startup
    phase,       \* whether Send runs
    stage,       \* what Send has made of each event
    job,         \* the first event of each event's chunk or group
    holds,       \* jobs that hold a slot of the semaphore
    failed,      \* Send will return an error
    stopping,    \* the context is cancelled
    delivered,   \* events the queue accepted at least once
    orphans      \* entries of failed requests the queue may still accept

vars == <<SendConcurrency, phase, stage, job, holds, failed, stopping, delivered, orphans>>

InRequest == {"sent", "alone"}
Working == InRequest \cup {"isolate"}
Stages == Working \cup {"outbox", "waiting", "kept", "confirmed", "poison", "gone"}

Init ==
    /\ SendConcurrency \in Capacities
    /\ phase = "idle"
    /\ stage = [e \in Events |-> "outbox"]
    /\ job = [e \in Events |-> e]
    /\ holds = {}
    /\ failed = FALSE
    /\ stopping = FALSE
    /\ delivered = {}
    /\ orphans = {}

Fifo(e) == RouteOf[e] \in FifoQueues
At(stages) == {e \in Events : stage[e] \in stages}
JobOf(j) == {e \in Events : job[e] = j}
Request(j) == {e \in JobOf(j) : stage[e] \in InRequest}
-----------------------------------------------------------------------------
(* The call.                                                               *)

\* Poison before any request: the events of an unusable queue, those whose group
\* cannot be read, and invalid events of a standard queue.
PoisonAtOnce(batch) ==
    {e \in batch : \/ RouteOf[e] \in BadQueues
                   \/ e \in Unparsable
                   \/ e \in Invalid /\ ~Fifo(e)}

\* Events in the order of their selection.
InOrder(events) ==
    CHOOSE s \in [1..Cardinality(events) -> events] : \A i, j \in DOMAIN s : i < j => s[i] < s[j]

\* The requests of a queue's standard events.
ChunksOf(events) ==
    {Range(c) : c \in Range(chunkSQSStandardEvents(InOrder(events), Size))}

\* A FIFO event's job is its group (a group of its own without messageGroupId),
\* a standard event's job is its chunk; it is named by its first event.
JobsOf(events) ==
    LET standard(q) == {e \in events : RouteOf[e] = q /\ ~Fifo(e)}
        Peers(e) == IF Fifo(e) THEN {f \in events : f = e \/ Before(e, f) \/ Before(f, e)}
                    ELSE {f \in standard(RouteOf[e]) :
                            f = e \/ \E c \in ChunksOf(standard(RouteOf[e])) : {e, f} \subseteq c}
    IN  [e \in Events |-> IF e \in events THEN Min(Peers(e)) ELSE e]

StartSend(batch) ==
    /\ phase = "idle"
    /\ ~stopping
    /\ batch # {} /\ batch \subseteq At({"outbox"})
    /\ \A e \in batch, f \in At({"outbox"}) : Before(f, e) => f \in batch
    /\ job' = JobsOf(batch \ PoisonAtOnce(batch))
    /\ stage' = [e \in Events |-> IF e \notin batch THEN stage[e]
                                  ELSE IF e \in PoisonAtOnce(batch) THEN "poison" ELSE "waiting"]
    /\ phase' = "send"
    /\ UNCHANGED <<SendConcurrency, holds, failed, stopping, delivered, orphans>>

\* The job's goroutine has reached e and has no request out.
Turn(e) ==
    /\ phase = "send"
    /\ stage[e] = "waiting"
    /\ job[e] \notin holds
    /\ \A f \in JobOf(job[e]) : stage[f] = "waiting" => e <= f

RejectInvalid(e) ==
    /\ Turn(e)
    /\ e \in Invalid
    /\ stage' = [stage EXCEPT ![e] = "poison"]
    /\ UNCHANGED <<SendConcurrency, phase, job, holds, failed, stopping, delivered, orphans>>

\* e's request, e first: one message of a group or a whole chunk.
Entries(e) == IF Fifo(e) THEN {e} ELSE {f \in JobOf(job[e]) : stage[f] = "waiting"}

\* The job takes a slot and sends its next request.
Acquire(e) ==
    /\ Turn(e)
    /\ e \notin Invalid
    /\ Cardinality(holds) < SendConcurrency
    /\ holds' = holds \cup {job[e]}
    /\ stage' = [f \in Events |-> IF f \in Entries(e) THEN "sent" ELSE stage[f]]
    /\ UNCHANGED <<SendConcurrency, phase, job, failed, stopping, delivered, orphans>>

\* The context ends the wait for a slot, and the job with it.
CancelWait(e) ==
    /\ Turn(e)
    /\ e \notin Invalid
    /\ stopping
    /\ stage' = [f \in Events |-> IF job[f] = job[e] /\ stage[f] = "waiting"
                                  THEN "kept" ELSE stage[f]]
    /\ failed' = TRUE
    /\ UNCHANGED <<SendConcurrency, phase, job, holds, stopping, delivered, orphans>>
-----------------------------------------------------------------------------
(* A request's outcome.                                                    *)

\* Mutant: a FIFO job goes on behind a failed entry.
OutcomeGoesOn(j, accepted, poison) ==
    /\ delivered' = delivered \cup accepted
    /\ stage' = [e \in Events |->
                    CASE e \in accepted -> "confirmed"
                      [] e \in poison -> "poison"
                      [] e \in Request(j) \ (accepted \cup poison) -> "kept"
                      [] OTHER -> stage[e]]
    /\ failed' = (failed \/ Request(j) # accepted \cup poison)
    /\ holds' = IF \E e \in JobOf(j) : stage[e] = "isolate" THEN holds ELSE holds \ {j}

\* The reports of a request of j: accepted entries are confirmed, poison ones
\* rejected, the rest kept with an error, which ends a FIFO job.  The slot goes
\* back unless the request was one of several taken apart.
Outcome(j, accepted, poison) ==
    LET kept == Request(j) \ (accepted \cup poison)
    IN  /\ delivered' = delivered \cup accepted
        /\ stage' = [e \in Events |->
                        CASE e \in accepted -> "confirmed"
                          [] e \in poison -> "poison"
                          [] e \in kept -> "kept"
                          [] kept # {} /\ job[e] = j /\ stage[e] = "waiting" -> "kept"
                          [] OTHER -> stage[e]]
        /\ failed' = (failed \/ kept # {})
        /\ holds' = IF \E e \in JobOf(j) : stage[e] = "isolate" THEN holds ELSE holds \ {j}

\* The call succeeds: some entries are accepted, those at fault are refused
\* (SenderFault), others fail for a reason of the service's.  SQS answers for every
\* entry: one that was in neither list would be kept without an error.
Respond(j) ==
    /\ Request(j) # {}
    /\ \E accepted \in SUBSET (Request(j) \ Rejected), poison \in SUBSET (Request(j) \cap Rejected) :
          Outcome(j, accepted, poison)
    /\ UNCHANGED <<SendConcurrency, phase, job, stopping, orphans>>

\* Mutant: a refused single entry is tried alone once more.
RefuseAgain(j) ==
    /\ Cardinality(Request(j)) = 1
    /\ Request(j) \subseteq Unsendable
    /\ stage' = [e \in Events |-> IF e \in Request(j) THEN "isolate" ELSE stage[e]]
    /\ UNCHANGED <<SendConcurrency, phase, job, holds, failed, stopping, delivered, orphans>>

\* A permanent request error on one entry is the entry's own.
RefuseSingle(j) ==
    /\ Cardinality(Request(j)) = 1
    /\ Request(j) \subseteq Unsendable
    /\ Outcome(j, {}, Request(j))
    /\ UNCHANGED <<SendConcurrency, phase, job, stopping, orphans>>

\* Mutant: the slot is given back before the request is taken apart.
RefuseReleasing(j) ==
    /\ Cardinality(Request(j)) > 1
    /\ stage' = [e \in Events |-> IF e \in Request(j) THEN "isolate" ELSE stage[e]]
    /\ holds' = holds \ {j}
    /\ UNCHANGED <<SendConcurrency, phase, job, failed, stopping, delivered, orphans>>

\* On several entries it may be one entry's fault or that of the combination:
\* each is tried alone, in the slot the job already has.
Refuse(j) ==
    /\ Cardinality(Request(j)) > 1
    /\ stage' = [e \in Events |-> IF e \in Request(j) THEN "isolate" ELSE stage[e]]
    /\ UNCHANGED <<SendConcurrency, phase, job, holds, failed, stopping, delivered, orphans>>

\* The next entry of a request taken apart is sent.
Isolate(e) ==
    /\ stage[e] = "isolate"
    /\ Request(job[e]) = {}
    /\ \A f \in JobOf(job[e]) : stage[f] = "isolate" => e <= f
    /\ stage' = [stage EXCEPT ![e] = "alone"]
    /\ UNCHANGED <<SendConcurrency, phase, job, holds, failed, stopping, delivered, orphans>>

\* Any other error, a timeout or the cancelled context: what the queue made of
\* the entries is not known.
Fail(j) ==
    /\ Request(j) # {}
    /\ Outcome(j, {}, {})
    /\ orphans' = orphans \cup Request(j)
    /\ UNCHANGED <<SendConcurrency, phase, job, stopping>>

Land(e) ==
    /\ e \in orphans \ Rejected
    /\ delivered' = delivered \cup {e}
    /\ orphans' = orphans \ {e}
    /\ UNCHANGED <<SendConcurrency, phase, stage, job, holds, failed, stopping>>
-----------------------------------------------------------------------------
(* Returning, and the process.                                             *)

\* Send returns and the relay deletes what was reported.
FinishSend ==
    /\ phase = "send"
    /\ At(Working \cup {"waiting"}) = {}
    /\ phase' = "idle"
    /\ stage' = [e \in Events |-> CASE stage[e] \in {"confirmed", "poison"} -> "gone"
                                    [] stage[e] = "kept" -> "outbox"
                                    [] OTHER -> stage[e]]
    /\ job' = [e \in Events |-> e]
    /\ failed' = FALSE
    /\ UNCHANGED <<SendConcurrency, holds, stopping, delivered, orphans>>

Cancel ==
    /\ ~stopping
    /\ stopping' = TRUE
    /\ UNCHANGED <<SendConcurrency, phase, stage, job, holds, failed, delivered, orphans>>

\* A new process takes the place of the cancelled one.
Restart ==
    /\ phase = "idle"
    /\ stopping
    /\ stopping' = FALSE
    /\ UNCHANGED <<SendConcurrency, phase, stage, job, holds, failed, delivered, orphans>>

\* What Send does when it can go on.
Step ==
    \/ \E e \in Events : RejectInvalid(e) \/ Acquire(e) \/ CancelWait(e) \/ Isolate(e)
    \/ FinishSend

\* A request ends (PublishTimeout bounds it).
End(j) == Respond(j) \/ RefuseSingle(j) \/ Refuse(j) \/ Fail(j)

Next ==
    \/ \E batch \in SUBSET Events : StartSend(batch)
    \/ Step
    \/ \E e \in Events : End(e) \/ Land(e)
    \/ Cancel
    \/ Restart

Spec == Init /\ [][Next]_vars

\* Goroutines keep running and requests end; nothing is assumed of the relay,
\* of signals or of orphans.
FairSpec ==
    /\ Spec
    /\ WF_vars(Step)
    /\ \A j \in Events : WF_vars(End(j))
-----------------------------------------------------------------------------
(* Properties.                                                             *)

TypeOK ==
    /\ SendConcurrency \in Capacities
    /\ phase \in {"idle", "send"}
    /\ stage \in [Events -> Stages]
    /\ job \in [Events -> Events]
    /\ holds \subseteq Events
    /\ failed \in BOOLEAN
    /\ stopping \in BOOLEAN
    /\ delivered \subseteq Events
    /\ orphans \subseteq Events

\* sendSQSBatchWithSemaphore: a slot stands for a request on its way or a request
\* being taken apart, and no request is sent without one.
SlotsMatchRequests == holds = {job[e] : e \in At(Working)}

\* S2, S8 (provider.Sender): every step of the sender is one the relay counts on.
\* In particular confirmed entries were accepted and poison, never a neighbour in a
\* refused request, can never be; a FIFO queue accepts an event for the first time only when each
\* earlier event of its group was accepted or is poison, and what is left in the
\* outbox comes with an error, also where a group ends without returning one.
Contract == INSTANCE Sender WITH
    Hopeless <- Invalid \cup Rejected \cup {e \in Events : RouteOf[e] \in BadQueues},
    status <- [e \in Events |-> IF stage[e] \in Working \cup {"waiting"}
                               THEN "pending" ELSE stage[e]]
ImplementsSender == Contract!Spec

\* Every call of Send returns, however few slots there are: a request that is
\* taken apart while every slot is in use does not wait for another.
SendReturns == phase = "send" ~> phase = "idle"
=============================================================================
