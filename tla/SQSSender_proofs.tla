-------------------------- MODULE SQSSender_proofs ---------------------------
(***************************************************************************)
(* The SQS sender, for every set of events, queues, groups, sizes and      *)
(* capacities of the semaphore: slots stand for requests, and every step   *)
(* is one that the contract of Sender allows.  Then the contents of an     *)
(* event: poison is what SQS can never accept, and ids are told apart.     *)
(* Then the chunks: no request is larger than SQS takes.                   *)
(***************************************************************************)
EXTENDS SQSEntries, SequenceTheorems, FiniteSetTheorems, WellFoundedInduction, TLAPS

Hopeless == Invalid \cup Rejected \cup {e \in Events : RouteOf[e] \in BadQueues}
Unfinished == Working \cup {"waiting"}

\* Between calls every event is in the outbox or gone.
Phases == phase = "idle" => \A e \in Events : stage[e] \in {"outbox", "gone"}

\* A job is all FIFO or all standard, and a group's unfinished events are one job.
Jobs ==
    /\ \A e \in Events : Fifo(job[e]) <=> Fifo(e)
    /\ \A e, f \in At(Unfinished) : Before(f, e) => job[f] = job[e]

\* A FIFO job has one message on its way, which is never taken apart.
FifoAlone ==
    /\ \A e, f \in At(Working) : Fifo(e) /\ job[e] = job[f] => e = f
    /\ \A e \in At({"isolate", "alone"}) : ~Fifo(e)

\* A group is worked off from its head: behind an event that is done only events
\* that are done, behind one that is kept nothing but kept ones.
Heads ==
    \A e, f \in Events : Before(f, e) =>
        /\ stage[e] = "gone" => stage[f] = "gone"
        /\ stage[e] \in Working \cup {"confirmed", "poison"} => stage[f] \in {"confirmed", "poison", "gone"}
        /\ stage[e] = "waiting" => stage[f] \in Unfinished \cup {"confirmed", "poison", "gone"}
        /\ stage[e] = "kept" => stage[f] \in {"kept", "confirmed", "poison", "gone"}

\* Every earlier event of e's group was accepted or never can be.
Clear(e) == \A f \in Events : Before(f, e) => f \in delivered \cup Hopeless

\* What is on its way, or may yet be accepted unseen, passed validation and is in
\* order.
Requests ==
    \A e \in Events :
        /\ stage[e] \in Unfinished => RouteOf[e] \notin BadQueues
        /\ stage[e] \in Unfinished /\ ~Fifo(e) => e \notin Invalid
        /\ stage[e] \in Working \/ e \in orphans =>
              e \notin Invalid /\ RouteOf[e] \notin BadQueues /\ Clear(e)

\* What was reported is true.
Reports ==
    \A e \in Events :
        /\ stage[e] = "confirmed" => e \in delivered
        /\ stage[e] = "poison" => e \in Hopeless
        /\ stage[e] = "gone" => e \in delivered \cup Hopeless

IInv ==
    /\ TypeOK
    /\ Phases
    /\ Jobs
    /\ FifoAlone
    /\ Heads
    /\ Requests
    /\ Reports
    /\ SlotsMatchRequests
-----------------------------------------------------------------------------
(* The jobs of a call.                                                     *)

\* A set of numbers has a least one.
LEMMA LeastNumber ==
    ASSUME NEW S \in SUBSET Nat, S # {}
    PROVE  \E x \in S : \A y \in S : x <= y
<1>1. PICK x \in S : \A y \in S : ~(<<y, x>> \in OpToRel(<, Nat))
  BY WFMin, NatLessThanWellFounded
<1>2. \A y \in S : ~(y < x)
  BY <1>1 DEF OpToRel
<1>. QED  BY <1>2

\* So has a set of event ids.
LEMMA Least ==
    ASSUME NEW S \in SUBSET Nat, S # {}
    PROVE  Min(S) \in S
BY LeastNumber DEF Min

\* sendSQSQueueEvents, sendSQSFIFOEvents: a job has events of one kind, and a group is one job.
LEMMA JobsOfEvents ==
    ASSUME NEW events \in SUBSET Events
    PROVE  /\ JobsOf(events) \in [Events -> Events]
           /\ \A e \in Events : Fifo(JobsOf(events)[e]) <=> Fifo(e)
           /\ \A e, f \in events : Before(f, e) => JobsOf(events)[f] = JobsOf(events)[e]
<1>. DEFINE standard(q) == {e \in events : RouteOf[e] = q /\ ~Fifo(e)}
            Peers(e) == IF Fifo(e) THEN {f \in events : f = e \/ Before(e, f) \/ Before(f, e)}
                        ELSE {f \in standard(RouteOf[e]) :
                                f = e \/ \E c \in ChunksOf(standard(RouteOf[e])) : {e, f} \subseteq c}
<1>1. JobsOf(events) = [e \in Events |-> IF e \in events THEN Min(Peers(e)) ELSE e]
  BY Zenon DEF JobsOf
<1>2. ASSUME NEW e \in events
      PROVE  /\ Peers(e) \in SUBSET events
             /\ e \in Peers(e)
             /\ \A f \in Peers(e) : Fifo(f) <=> Fifo(e)
  <2>1. CASE Fifo(e)
    BY <2>1, GroupsAreRouted DEF Fifo, Before
  <2>2. CASE ~Fifo(e)
    BY <2>2
  <2>. QED  BY <2>1, <2>2
<1>3. \A e \in events : Min(Peers(e)) \in Peers(e)
  <2>. SUFFICES ASSUME NEW e \in events PROVE Min(Peers(e)) \in Peers(e)
    OBVIOUS
  <2>1. Peers(e) \in SUBSET Nat /\ Peers(e) # {}
    BY <1>2, EventsAssumption
  <2>. HIDE DEF Peers
  <2>. QED  BY <2>1, Least
<1>4. ASSUME NEW e \in events, NEW f \in events, Before(f, e)
      PROVE  Peers(f) = Peers(e)
  <2>1. Fifo(e) /\ Fifo(f)
    BY <1>4, SQSAssumption DEF Fifo, Before
  <2>2. \A g \in events : (g = e \/ Before(e, g) \/ Before(g, e)) <=> GroupOf[g] = GroupOf[e]
    BY <1>4, EventsAssumption DEF Before
  <2>3. \A g \in events : (g = f \/ Before(f, g) \/ Before(g, f)) <=> GroupOf[g] = GroupOf[e]
    BY <1>4, EventsAssumption DEF Before
  <2>. QED  BY <2>1, <2>2, <2>3
<1>. HIDE DEF Peers
<1>. QED  BY <1>1, <1>2, <1>3, <1>4

-----------------------------------------------------------------------------
(* What the invariant says of a job that has reached an event.             *)

\* Of a queue without groups nothing comes before anything.
LEMMA StandardUnordered ==
    ASSUME NEW e \in Events, NEW f \in Events, Before(f, e)
    PROVE  Fifo(e) /\ Fifo(f)
BY SQSAssumption DEF Fifo, Before

\* It has no request on its way.
LEMMA TurnIsAlone ==
    ASSUME IInv, NEW e \in Events, Turn(e), NEW f \in Events, job[f] = job[e]
    PROVE  stage[f] \notin Working
BY DEF IInv, SlotsMatchRequests, At, Turn

\* Everything ahead of the event is done.
LEMMA TurnIsFirst ==
    ASSUME IInv, NEW e \in Events, Turn(e), NEW f \in Events, Before(f, e)
    PROVE  stage[f] \in {"confirmed", "poison", "gone"}
<1>1. stage[f] \in Unfinished => job[f] = job[e]
  BY DEF IInv, Jobs, At, Turn, Unfinished
<1>2. stage[f] # "waiting"
  BY <1>1, EventsAssumption DEF Turn, JobOf, Unfinished, Before
<1>3. stage[f] \notin Working
  BY <1>1, TurnIsAlone DEF Unfinished
<1>. QED  BY <1>2, <1>3 DEF IInv, Heads, Turn, Unfinished

\* And was accepted or never can be.
LEMMA TurnIsClear ==
    ASSUME IInv, NEW e \in Events, Turn(e)
    PROVE  Clear(e)
BY TurnIsFirst DEF Clear, IInv, Reports

-----------------------------------------------------------------------------
(* One lemma per action.                                                   *)

\* A call starts with nothing on its way.
LEMMA StartSendInv ==
    ASSUME IInv, NEW batch \in SUBSET Events, StartSend(batch)
    PROVE  IInv'
<1>. DEFINE live == batch \ PoisonAtOnce(batch)
<1>. USE DEF Working, InRequest
<1>1. /\ job' = JobsOf(live)
      /\ job' \in [Events -> Events]
      /\ \A e \in Events : Fifo(job'[e]) <=> Fifo(e)
      /\ \A e, f \in live : Before(f, e) => job'[f] = job'[e]
  BY JobsOfEvents DEF StartSend
<1>2. \A e \in Events : stage[e] \in {"outbox", "gone"}
  BY DEF IInv, Phases, StartSend
<1>3. \A e \in Events : stage'[e] = IF e \notin batch THEN stage[e]
                                   ELSE IF e \in live THEN "waiting" ELSE "poison"
  BY DEF StartSend
<1>4. \A e \in Events : /\ stage'[e] = "waiting" <=> e \in live
                        /\ stage'[e] = "poison" <=> e \in batch \ live
                        /\ stage'[e] \in {"outbox", "gone", "waiting", "poison"}
                        /\ stage'[e] = "gone" <=> stage[e] = "gone"
  BY <1>2, <1>3 DEF StartSend, At
<1>5. TypeOK'
  BY <1>1 DEF IInv, TypeOK, Stages, StartSend
<1>6. Phases'
  BY DEF Phases, StartSend
<1>7. Jobs'
  BY <1>1, <1>4 DEF Jobs, Unfinished, At
<1>8. FifoAlone'
  BY <1>4 DEF FifoAlone, At
<1>9. Heads'
  <2>. SUFFICES ASSUME NEW e \in Events, NEW f \in Events, Before(f, e)
                PROVE  /\ stage'[e] = "gone" => stage'[f] = "gone"
                       /\ stage'[e] = "waiting" => stage'[f] \in {"waiting", "poison", "gone"}
                       /\ stage'[e] = "poison" => stage'[f] \in {"poison", "gone"}
    BY <1>4 DEF Heads, Unfinished
  <2>1. stage[e] = "gone" => stage[f] = "gone"
    BY DEF IInv, Heads
  <2>2. e \in batch => stage[f] = "gone" \/ f \in batch
    BY <1>2 DEF StartSend, At
  <2>3. e \in PoisonAtOnce(batch) /\ f \in batch => f \in PoisonAtOnce(batch)
    BY StandardUnordered, GroupsAreRouted, SQSAssumption DEF PoisonAtOnce, Before
  <2>. QED  BY <1>2, <1>4, <2>1, <2>2, <2>3
<1>10. Requests'
  BY <1>4 DEF Requests, Unfinished, Clear, PoisonAtOnce, IInv, StartSend
<1>11. Reports'
  BY <1>4, SQSAssumption DEF Reports, Hopeless, PoisonAtOnce, IInv, StartSend
<1>12. SlotsMatchRequests'
  BY <1>2, <1>4 DEF SlotsMatchRequests, At, IInv, StartSend
<1>. QED  BY <1>5, <1>6, <1>7, <1>8, <1>9, <1>10, <1>11, <1>12 DEF IInv

\* prepareSQSEvent: what is ahead of a group's next event is done.
LEMMA RejectInvalidInv ==
    ASSUME IInv, NEW e \in Events, RejectInvalid(e)
    PROVE  IInv'
<1>. USE DEF Working, InRequest
<1>1. TypeOK'
  BY DEF IInv, TypeOK, Stages, RejectInvalid, Turn, At
<1>2. Phases'
  BY DEF IInv, TypeOK, Phases, RejectInvalid, Turn, At
<1>3. Jobs'
  BY DEF IInv, TypeOK, Jobs, Unfinished, RejectInvalid, Turn, At
<1>4. FifoAlone'
  BY DEF IInv, TypeOK, FifoAlone, RejectInvalid, Turn, At
<1>5. Heads'
  BY TurnIsFirst, EventsAssumption DEF IInv, TypeOK, Heads, Unfinished, RejectInvalid, Turn, Before
<1>6. Requests'
  BY DEF IInv, TypeOK, Requests, Unfinished, Clear, RejectInvalid, Turn, At
<1>7. Reports'
  BY DEF IInv, TypeOK, Reports, Hopeless, RejectInvalid, Turn, At
<1>8. SlotsMatchRequests'
  BY DEF IInv, TypeOK, SlotsMatchRequests, RejectInvalid, Turn, At
<1>. QED  BY <1>1, <1>2, <1>3, <1>4, <1>5, <1>6, <1>7, <1>8 DEF IInv

\* sendSQSBatchWithSemaphore: the job had no slot, hence no request.
LEMMA AcquireInv ==
    ASSUME IInv, NEW e \in Events, Acquire(e)
    PROVE  IInv'
<1>. USE DEF Working, InRequest
<1>1. /\ \A f \in Entries(e) : f \in Events /\ stage[f] = "waiting" /\ job[f] = job[e]
      /\ e \in Entries(e)
      /\ \A f \in Entries(e) : Fifo(e) => f = e
      /\ \A f \in Entries(e) : Fifo(f) <=> Fifo(e)
  BY DEF Entries, Turn, Acquire, JobOf, IInv, Jobs
<1>2. \A f \in Events : stage'[f] = IF f \in Entries(e) THEN "sent" ELSE stage[f]
  BY DEF Acquire
<1>3. \A f \in Events : job[f] = job[e] => stage[f] \notin Working
  BY TurnIsAlone DEF Acquire
<1>4. TypeOK'
  BY <1>1 DEF IInv, TypeOK, Stages, Acquire
<1>5. Phases'
  BY DEF IInv, Phases, Acquire, Turn
<1>6. Jobs'
  <2>1. At(Unfinished)' = At(Unfinished)
    BY <1>1, <1>2 DEF At, Unfinished
  <2>. QED  BY <2>1 DEF IInv, Jobs, Acquire
<1>7. FifoAlone'
  <2>1. ASSUME NEW g \in At(Working)', NEW f \in At(Working)', Fifo(g), job[g] = job[f]
        PROVE  g = f
    <3>1. CASE job[g] = job[e]
      BY <1>1, <1>2, <1>3, <2>1, <3>1 DEF At, IInv, Jobs
    <3>2. CASE job[g] # job[e]
      BY <1>1, <1>2, <2>1, <3>2 DEF At, IInv, FifoAlone
    <3>. QED  BY <3>1, <3>2
  <2>2. \A g \in At({"isolate", "alone"})' : ~Fifo(g)
    BY <1>2 DEF At, IInv, FifoAlone
  <2>. QED  BY <2>1, <2>2 DEF FifoAlone, Acquire
<1>8. Heads'
  <2>. SUFFICES ASSUME NEW g \in Events, NEW f \in Events, Before(f, g)
                PROVE  /\ stage'[g] = "gone" => stage'[f] = "gone"
                       /\ stage'[g] \in Working \cup {"confirmed", "poison"} =>
                             stage'[f] \in {"confirmed", "poison", "gone"}
                       /\ stage'[g] = "waiting" =>
                             stage'[f] \in Unfinished \cup {"confirmed", "poison", "gone"}
                       /\ stage'[g] = "kept" => stage'[f] \in {"kept", "confirmed", "poison", "gone"}
    BY DEF Heads
  <2>1. CASE g \in Entries(e)
    <3>1. g = e
      BY <1>1, <2>1, StandardUnordered
    <3>2. stage[f] \in {"confirmed", "poison", "gone"}
      BY <3>1, TurnIsFirst DEF Acquire
    <3>. QED  BY <1>1, <1>2, <2>1, <3>2
  <2>2. CASE g \notin Entries(e)
    BY <1>1, <1>2, <2>2 DEF IInv, Heads, Unfinished
  <2>. QED  BY <2>1, <2>2
<1>9. Requests'
  <2>1. \A f \in Entries(e) : f \notin Invalid /\ RouteOf[f] \notin BadQueues
    BY <1>1 DEF Acquire, IInv, Requests, Unfinished
  <2>2. \A f \in Entries(e) : Clear(f)
    BY <1>1, TurnIsClear, StandardUnordered DEF Acquire, Clear
  <2>. QED  BY <1>1, <1>2, <2>1, <2>2 DEF IInv, Requests, Unfinished, Clear, Acquire
<1>10. Reports'
  BY <1>2 DEF IInv, Reports, Acquire
<1>11. SlotsMatchRequests'
  BY <1>1, <1>2 DEF IInv, SlotsMatchRequests, At, Acquire
<1>. QED  BY <1>4, <1>5, <1>6, <1>7, <1>8, <1>9, <1>10, <1>11 DEF IInv

\* A job that gives up its wait keeps all it has left.
LEMMA CancelWaitInv ==
    ASSUME IInv, NEW e \in Events, CancelWait(e)
    PROVE  IInv'
<1>. USE DEF Working, InRequest
<1>1. TypeOK'
  BY DEF IInv, TypeOK, Stages, CancelWait, Turn, At
<1>2. Phases'
  BY DEF IInv, TypeOK, Phases, CancelWait, Turn, At
<1>3. Jobs'
  BY DEF IInv, TypeOK, Jobs, Unfinished, CancelWait, Turn, At
<1>4. FifoAlone'
  BY DEF IInv, TypeOK, FifoAlone, CancelWait, Turn, At
<1>5. Heads'
  <2>. SUFFICES ASSUME NEW g \in Events, NEW f \in Events, Before(f, g)
                PROVE  /\ stage'[g] = "gone" => stage'[f] = "gone"
                       /\ stage'[g] \in Working \cup {"confirmed", "poison"} =>
                             stage'[f] \in {"confirmed", "poison", "gone"}
                       /\ stage'[g] = "waiting" =>
                             stage'[f] \in Unfinished \cup {"confirmed", "poison", "gone"}
                       /\ stage'[g] = "kept" => stage'[f] \in {"kept", "confirmed", "poison", "gone"}
    BY DEF Heads
  <2>1. stage[g] = "waiting" /\ stage[f] \in Unfinished => job[f] = job[g]
    BY DEF IInv, Jobs, At, Unfinished
  <2>2. job[f] = job[e] => stage[f] \notin Working
    BY TurnIsAlone DEF CancelWait
  <2>3. \A h \in Events : stage'[h] = IF job[h] = job[e] /\ stage[h] = "waiting" THEN "kept" ELSE stage[h]
    BY DEF CancelWait
  <2>. QED  BY <2>1, <2>2, <2>3 DEF IInv, Heads, Unfinished
<1>6. Requests'
  BY DEF IInv, TypeOK, Requests, Unfinished, Clear, CancelWait, Turn, At
<1>7. Reports'
  BY DEF IInv, TypeOK, Reports, Hopeless, CancelWait, Turn, At
<1>8. SlotsMatchRequests'
  BY DEF IInv, TypeOK, SlotsMatchRequests, CancelWait, Turn, At
<1>. QED  BY <1>1, <1>2, <1>3, <1>4, <1>5, <1>6, <1>7, <1>8 DEF IInv

\* The reports of a request: a FIFO group's single message, or entries of a standard queue,
\* which have no order.
LEMMA OutcomeInv ==
    ASSUME IInv, NEW j \in Events, NEW accepted \in SUBSET (Request(j) \ Rejected),
           NEW poison \in SUBSET (Request(j) \cap Rejected), Outcome(j, accepted, poison),
           UNCHANGED <<SendConcurrency, phase, job, stopping>>,
           orphans' \subseteq orphans \cup Request(j), Request(j) # {}
    PROVE  IInv'
<1>. USE DEF Working, InRequest
<1>1. TypeOK'
  BY DEF IInv, TypeOK, Stages, Outcome, Request, JobOf, At
<1>2. Phases'
  BY DEF IInv, TypeOK, Phases, Outcome, Request, JobOf, At
<1>3. Jobs'
  BY DEF IInv, TypeOK, Jobs, Unfinished, Outcome, Request, JobOf, At
<1>4. FifoAlone'
  BY DEF IInv, TypeOK, FifoAlone, Outcome, Request, JobOf, At
<1>5. Heads'
  <2>. SUFFICES ASSUME NEW g \in Events, NEW f \in Events, Before(f, g)
                PROVE  /\ stage'[g] = "gone" => stage'[f] = "gone"
                       /\ stage'[g] \in Working \cup {"confirmed", "poison"} =>
                             stage'[f] \in {"confirmed", "poison", "gone"}
                       /\ stage'[g] = "waiting" =>
                             stage'[f] \in Unfinished \cup {"confirmed", "poison", "gone"}
                       /\ stage'[g] = "kept" => stage'[f] \in {"kept", "confirmed", "poison", "gone"}
    BY DEF Heads
  <2>. DEFINE kept == Request(j) \ (accepted \cup poison)
  <2>1. stage[g] = "waiting" /\ stage[f] \in Unfinished => job[f] = job[g]
    BY DEF IInv, Jobs, At, Unfinished
  <2>2. job[f] = j /\ stage[f] \in Working => Request(j) = {f}
    BY StandardUnordered DEF IInv, FifoAlone, At, Request, JobOf
  <2>3. \A h \in Events : h \notin Request(j) =>
           stage'[h] = IF kept # {} /\ job[h] = j /\ stage[h] = "waiting" THEN "kept" ELSE stage[h]
    BY DEF Outcome
  <2>4. \A h \in Request(j) : /\ stage[h] \in Working /\ job[h] = j
                              /\ stage'[h] = IF h \in accepted THEN "confirmed"
                                             ELSE IF h \in poison THEN "poison" ELSE "kept"
    BY DEF Outcome, Request, JobOf
  <2>5. /\ stage[g] = "gone" => stage[f] = "gone"
        /\ stage[g] \in Working \cup {"confirmed", "poison"} => stage[f] \in {"confirmed", "poison", "gone"}
        /\ stage[g] = "waiting" => stage[f] \in Unfinished \cup {"confirmed", "poison", "gone"}
        /\ stage[g] = "kept" => stage[f] \in {"kept", "confirmed", "poison", "gone"}
    BY DEF IInv, Heads
  <2>. HIDE DEF kept
  <2>6. CASE g \in Request(j)
    BY <2>3, <2>4, <2>5, <2>6
  <2>7. CASE g \notin Request(j)
    <3>1. kept = Request(j) \ (accepted \cup poison)
      BY DEF kept
    <3>. QED  BY <2>1, <2>2, <2>3, <2>4, <2>5, <2>7, <3>1 DEF Unfinished
  <2>. QED  BY <2>6, <2>7
<1>6. Requests'
  BY DEF IInv, TypeOK, Requests, Unfinished, Clear, Outcome, Request, JobOf, At
<1>7. Reports'
  BY DEF IInv, TypeOK, Reports, Hopeless, Outcome, Request, JobOf, At
<1>8. SlotsMatchRequests'
  BY DEF IInv, TypeOK, SlotsMatchRequests, Outcome, Request, JobOf, At
<1>. QED  BY <1>1, <1>2, <1>3, <1>4, <1>5, <1>6, <1>7, <1>8 DEF IInv

\* Only a standard queue's request has several entries; its job keeps the slot.
LEMMA RefuseInv ==
    ASSUME IInv, NEW j \in Events, Refuse(j)
    PROVE  IInv'
<1>. USE DEF Working, InRequest
<1>1. TypeOK'
  BY DEF IInv, TypeOK, Stages, Refuse, Request, JobOf, At
<1>2. Phases'
  BY DEF IInv, TypeOK, Phases, Refuse, Request, JobOf, At
<1>3. Jobs'
  BY DEF IInv, TypeOK, Jobs, Unfinished, Refuse, Request, JobOf, At
<1>4. FifoAlone'
  <2>1. \A e \in Request(j) : ~Fifo(e)
    <3>. SUFFICES ASSUME NEW e \in Request(j), Fifo(e) PROVE FALSE
      OBVIOUS
    <3>1. Request(j) = {e}
      BY DEF IInv, FifoAlone, Request, JobOf, At
    <3>2. Cardinality({e}) = 1
      BY FS_Singleton
    <3>. QED  BY <3>1, <3>2 DEF Refuse
  <2>. QED  BY <2>1 DEF IInv, FifoAlone, Refuse, Request, JobOf, At
<1>5. Heads'
  BY DEF IInv, TypeOK, Heads, Unfinished, Refuse, Request, JobOf, At
<1>6. Requests'
  BY DEF IInv, TypeOK, Requests, Unfinished, Clear, Refuse, Request, JobOf, At
<1>7. Reports'
  BY DEF IInv, TypeOK, Reports, Hopeless, Refuse, Request, JobOf, At
<1>8. SlotsMatchRequests'
  BY DEF IInv, TypeOK, SlotsMatchRequests, Refuse, Request, JobOf, At
<1>. QED  BY <1>1, <1>2, <1>3, <1>4, <1>5, <1>6, <1>7, <1>8 DEF IInv

\* An entry of a request taken apart is sent in the job's slot.
LEMMA IsolateInv ==
    ASSUME IInv, NEW e \in Events, Isolate(e)
    PROVE  IInv'
<1>. USE DEF Working, InRequest
<1>1. TypeOK'
  BY DEF IInv, TypeOK, Stages, Isolate, Request, JobOf, At
<1>2. Phases'
  BY DEF IInv, TypeOK, Phases, Isolate, Request, JobOf, At
<1>3. Jobs'
  BY DEF IInv, TypeOK, Jobs, Unfinished, Isolate, Request, JobOf, At
<1>4. FifoAlone'
  BY DEF IInv, TypeOK, FifoAlone, Isolate, Request, JobOf, At
<1>5. Heads'
  BY DEF IInv, TypeOK, Heads, Unfinished, Isolate, Request, JobOf, At
<1>6. Requests'
  BY DEF IInv, TypeOK, Requests, Unfinished, Clear, Isolate, Request, JobOf, At
<1>7. Reports'
  BY DEF IInv, TypeOK, Reports, Hopeless, Isolate, Request, JobOf, At
<1>8. SlotsMatchRequests'
  BY DEF IInv, TypeOK, SlotsMatchRequests, Isolate, Request, JobOf, At
<1>. QED  BY <1>1, <1>2, <1>3, <1>4, <1>5, <1>6, <1>7, <1>8 DEF IInv

\* An entry the queue accepts unseen was in order when it was sent.
LEMMA LandInv ==
    ASSUME IInv, NEW e \in Events, Land(e)
    PROVE  IInv'
<1>. USE DEF Working, InRequest
<1>1. TypeOK'
  BY DEF IInv, TypeOK, Stages, Land, At
<1>2. Phases'
  BY DEF IInv, TypeOK, Phases, Land, At
<1>3. Jobs'
  BY DEF IInv, TypeOK, Jobs, Unfinished, Land, At
<1>4. FifoAlone'
  BY DEF IInv, TypeOK, FifoAlone, Land, At
<1>5. Heads'
  BY DEF IInv, TypeOK, Heads, Unfinished, Land, At
<1>6. Requests'
  BY DEF IInv, TypeOK, Requests, Unfinished, Clear, Land, At
<1>7. Reports'
  BY DEF IInv, TypeOK, Reports, Hopeless, Land, At
<1>8. SlotsMatchRequests'
  BY DEF IInv, TypeOK, SlotsMatchRequests, Land, At
<1>. QED  BY <1>1, <1>2, <1>3, <1>4, <1>5, <1>6, <1>7, <1>8 DEF IInv

\* Send returns when no request is out.
LEMMA FinishSendInv ==
    ASSUME IInv, FinishSend
    PROVE  IInv'
<1>. USE DEF Working, InRequest
<1>1. TypeOK'
  BY DEF IInv, TypeOK, Stages, FinishSend, At
<1>2. Phases'
  BY DEF IInv, TypeOK, Stages, Phases, FinishSend, At
<1>3. Jobs'
  BY DEF IInv, TypeOK, Jobs, Unfinished, FinishSend, At
<1>4. FifoAlone'
  BY DEF IInv, TypeOK, FifoAlone, FinishSend, At
<1>5. Heads'
  BY DEF IInv, TypeOK, Heads, Unfinished, FinishSend, At
<1>6. Requests'
  BY DEF IInv, TypeOK, Requests, Unfinished, Clear, FinishSend, At
<1>7. Reports'
  BY DEF IInv, TypeOK, Reports, Hopeless, FinishSend, At
<1>8. SlotsMatchRequests'
  BY DEF IInv, TypeOK, SlotsMatchRequests, FinishSend, At
<1>. QED  BY <1>1, <1>2, <1>3, <1>4, <1>5, <1>6, <1>7, <1>8 DEF IInv

\* The context and the process.
LEMMA SignalInv ==
    ASSUME IInv, Cancel \/ Restart
    PROVE  IInv'
<1>. USE DEF Working, InRequest
<1>1. TypeOK'
  BY DEF IInv, TypeOK, Stages, Cancel, Restart, At
<1>2. Phases'
  BY DEF IInv, TypeOK, Phases, Cancel, Restart, At
<1>3. Jobs'
  BY DEF IInv, TypeOK, Jobs, Unfinished, Cancel, Restart, At
<1>4. FifoAlone'
  BY DEF IInv, TypeOK, FifoAlone, Cancel, Restart, At
<1>5. Heads'
  BY DEF IInv, TypeOK, Heads, Unfinished, Cancel, Restart, At
<1>6. Requests'
  BY DEF IInv, TypeOK, Requests, Unfinished, Clear, Cancel, Restart, At
<1>7. Reports'
  BY DEF IInv, TypeOK, Reports, Hopeless, Cancel, Restart, At
<1>8. SlotsMatchRequests'
  BY DEF IInv, TypeOK, SlotsMatchRequests, Cancel, Restart, At
<1>. QED  BY <1>1, <1>2, <1>3, <1>4, <1>5, <1>6, <1>7, <1>8 DEF IInv

-----------------------------------------------------------------------------
(* The invariant.                                                          *)

\* Nothing was sent.
LEMMA InitInv ==
    ASSUME Init
    PROVE  IInv
<1>1. \A e \in Events : stage[e] = "outbox" /\ job[e] = e
  BY DEF Init
<1>2. TypeOK
  BY SQSAssumption DEF Init, TypeOK, Stages
<1>3. Phases /\ Jobs /\ FifoAlone
  BY <1>1 DEF Phases, Jobs, FifoAlone, At, Unfinished, Working, InRequest
<1>4. Heads /\ Requests /\ Reports
  BY <1>1 DEF Heads, Requests, Reports, Unfinished, Working, InRequest, Init
<1>5. SlotsMatchRequests
  BY <1>1 DEF SlotsMatchRequests, At, Working, InRequest, Init
<1>. QED  BY <1>2, <1>3, <1>4, <1>5 DEF IInv

\* However a request ends, its entries are reported or taken apart.
LEMMA EndInv ==
    ASSUME IInv, NEW j \in Events, End(j)
    PROVE  IInv'
<1>1. CASE Respond(j)
  <2>1. PICK accepted \in SUBSET (Request(j) \ Rejected), poison \in SUBSET (Request(j) \cap Rejected) :
           Outcome(j, accepted, poison)
    BY <1>1 DEF Respond
  <2>. QED  BY <1>1, <2>1, OutcomeInv DEF Respond
<1>2. CASE RefuseSingle(j)
  <2>1. Request(j) # {}
    BY <1>2, FS_EmptySet DEF RefuseSingle
  <2>2. {} \in SUBSET (Request(j) \ Rejected) /\ Request(j) \in SUBSET (Request(j) \cap Rejected)
    BY <1>2, SQSAssumption DEF RefuseSingle
  <2>. QED  BY <1>2, <2>1, <2>2, OutcomeInv DEF RefuseSingle
<1>3. CASE Refuse(j)
  BY <1>3, RefuseInv
<1>4. CASE Fail(j)
  <2>1. {} \in SUBSET (Request(j) \ Rejected) /\ {} \in SUBSET (Request(j) \cap Rejected)
    OBVIOUS
  <2>. QED  BY <1>4, <2>1, OutcomeInv DEF Fail
<1>. QED  BY <1>1, <1>2, <1>3, <1>4 DEF End

\* Every step keeps it.
LEMMA NextInv ==
    ASSUME IInv, [Next]_vars
    PROVE  IInv'
<1>1. CASE \E batch \in SUBSET Events : StartSend(batch)
  BY <1>1, StartSendInv
<1>2. CASE Step
  BY <1>2, RejectInvalidInv, AcquireInv, CancelWaitInv, IsolateInv, FinishSendInv DEF Step
<1>3. CASE \E e \in Events : End(e) \/ Land(e)
  BY <1>3, EndInv, LandInv
<1>4. CASE Cancel \/ Restart
  BY <1>4, SignalInv
<1>5. CASE UNCHANGED vars
  BY <1>5 DEF vars, IInv, TypeOK, Phases, Jobs, FifoAlone, Heads, Requests, Clear, Reports, SlotsMatchRequests, At
<1>. QED  BY <1>1, <1>2, <1>3, <1>4, <1>5 DEF Next

\* A group is worked off from its head, one message at a time; what was reported is true;
\* what is on its way, or lost there, passed validation and overtakes nothing.
THEOREM SQSInvariant == Spec => []IInv
BY InitInv, NextInv, PTL DEF Spec

\* sendSQSBatchWithSemaphore: a slot stands for a request on its way or taken apart, and no
\* request is sent without one, with any number of slots and jobs.
THEOREM SlotsStandForRequests == Spec => []SlotsMatchRequests
<1>1. IInv => SlotsMatchRequests
  BY DEF IInv
<1>. QED  BY <1>1, SQSInvariant, PTL

-----------------------------------------------------------------------------
(* The contract.                                                           *)

\* What the contract sees of an event.
Status == [e \in Events |-> IF stage[e] \in Working \cup {"waiting"} THEN "pending" ELSE stage[e]]

\* A step of the contract's work: acceptances in order, and reports that are true.
LEMMA WorkStep ==
    ASSUME delivered \subseteq delivered',
           \A e \in delivered' \ delivered : e \notin Hopeless /\ Clear(e),
           \A e \in Events : Status'[e] # Status[e] =>
               /\ Status[e] = "pending"
               /\ \/ Status'[e] = "confirmed" /\ e \in delivered'
                  \/ Status'[e] = "poison" /\ e \in Hopeless
                  \/ Status'[e] = "kept" /\ failed'
               /\ \A f \in Events : Before(f, e) /\ Status'[f] \in {"pending", "kept"} =>
                     Status'[e] = "kept",
           failed => failed'
    PROVE  Contract!Next
<1>1. Contract!Accept
  BY DEF Contract!Accept, Contract!Before, Before, Clear, Hopeless
<1>2. Contract!Report
  BY DEF Contract!Report, Contract!Changed, Contract!Reports, Contract!Before, Before, Status, Hopeless
<1>. QED  BY <1>1, <1>2 DEF Contract!Next, Contract!Work

\* The relay's call: a batch that skips no event of a group.
LEMMA CallStep ==
    ASSUME IInv, NEW batch \in SUBSET Events, StartSend(batch)
    PROVE  Contract!Next
<1>. USE DEF Working, InRequest
<1>1. \A e \in Events : stage[e] \in {"outbox", "gone"}
  BY DEF IInv, Phases, StartSend
<1>2. \A e \in Events : Status[e] = stage[e]
  BY <1>1 DEF Status
<1>3. \A e \in Events : Status'[e] = IF e \notin batch THEN stage[e]
                                    ELSE IF e \in PoisonAtOnce(batch) THEN "poison" ELSE "pending"
  BY <1>1 DEF Status, StartSend
<1>4. \A e \in batch : stage[e] = "outbox"
  BY DEF StartSend, At
<1>5. PoisonAtOnce(batch) \subseteq Hopeless
  BY SQSAssumption DEF PoisonAtOnce, Hopeless
<1>6. Contract!Call
  BY <1>1, <1>2, <1>3, <1>4, <1>5
     DEF Contract!Call, Contract!Changed, Contract!Before, Before, Status, Hopeless, StartSend, At
<1>. QED  BY <1>6 DEF Contract!Next

\* The reports of a request.
LEMMA OutcomeStep ==
    ASSUME IInv, NEW j \in Events, NEW accepted \in SUBSET (Request(j) \ Rejected),
           NEW poison \in SUBSET (Request(j) \cap Rejected), Outcome(j, accepted, poison), IInv'
    PROVE  Contract!Next
<1>. USE DEF Working, InRequest
<1>1. \A e \in Request(j) : e \in Events /\ stage[e] \in Working /\ e \notin Invalid
                            /\ RouteOf[e] \notin BadQueues /\ Clear(e)
  BY DEF Request, JobOf, IInv, Requests
<1>2. \A e \in Events : Status'[e] # Status[e] =>
         /\ Status[e] = "pending"
         /\ \/ Status'[e] = "confirmed" /\ e \in accepted
            \/ Status'[e] = "poison" /\ e \in poison
            \/ Status'[e] = "kept" /\ failed'
  BY <1>1 DEF Status, Outcome
<1>3. \A e, f \in Events : Before(f, e) /\ Status'[f] \in {"pending", "kept"} =>
         Status'[e] \notin {"confirmed", "poison"}
  BY DEF IInv, Heads, Status, TypeOK, Stages
<1>4. delivered' = delivered \cup accepted /\ (failed => failed')
  BY DEF Outcome
<1>. QED  BY <1>1, <1>2, <1>3, <1>4, WorkStep DEF Hopeless

\* Send returns, and the relay deletes what was reported.
LEMMA ReturnStep ==
    ASSUME IInv, FinishSend
    PROVE  Contract!Next
<1>. USE DEF Working, InRequest
<1>1. \A e \in Events : stage[e] \notin Working \cup {"waiting"}
  BY DEF FinishSend, At
<1>2. \A e \in Events : Status[e] = stage[e] /\ Status[e] # "pending"
  BY <1>1 DEF Status, IInv, TypeOK, Stages
<1>3. Status' = [e \in Events |-> CASE Status[e] \in {"confirmed", "poison"} -> "gone"
                                    [] Status[e] = "kept" -> "outbox"
                                    [] OTHER -> Status[e]]
  BY <1>1, <1>2 DEF Status, FinishSend
<1>4. Contract!Return
  BY <1>2, <1>3 DEF Contract!Return, Status, FinishSend
<1>. QED  BY <1>4 DEF Contract!Next

\* Every step is one the contract allows, or changes nothing it speaks of.
LEMMA StepRefines ==
    ASSUME IInv, [Next]_vars, IInv'
    PROVE  [Contract!Next]_Contract!vars
<1>. USE DEF Working, InRequest
<1>1. ASSUME NEW e \in Events, RejectInvalid(e)
      PROVE  Contract!Next
  BY <1>1, TurnIsFirst, WorkStep DEF RejectInvalid, Turn, Status, IInv, TypeOK, Hopeless
<1>2. ASSUME NEW e \in Events, CancelWait(e)
      PROVE  Contract!Next
  BY <1>2, WorkStep DEF CancelWait, Status
<1>3. ASSUME NEW e \in Events, Acquire(e)
      PROVE  UNCHANGED Contract!vars
  <2>1. \A f \in Events : stage'[f] # stage[f] => stage[f] = "waiting" /\ stage'[f] = "sent"
    BY <1>3 DEF Acquire, Entries, Turn
  <2>2. UNCHANGED <<Status, failed, delivered>>
    BY <1>3, <2>1 DEF Status, Acquire
  <2>. QED  BY <2>2 DEF Contract!vars, Status
<1>4. ASSUME NEW e \in Events, Isolate(e)
      PROVE  UNCHANGED Contract!vars
  BY <1>4 DEF Isolate, Contract!vars
<1>5. ASSUME NEW j \in Events, Refuse(j)
      PROVE  UNCHANGED Contract!vars
  BY <1>5 DEF Refuse, Request, Contract!vars
<1>6. ASSUME NEW j \in Events, Respond(j)
      PROVE  Contract!Next
  BY <1>6, OutcomeStep DEF Respond
<1>7. ASSUME NEW j \in Events, RefuseSingle(j)
      PROVE  Contract!Next
  <2>1. {} \in SUBSET (Request(j) \ Rejected) /\ Request(j) \in SUBSET (Request(j) \cap Rejected)
    BY <1>7, SQSAssumption DEF RefuseSingle
  <2>. QED  BY <1>7, <2>1, OutcomeStep DEF RefuseSingle
<1>8. ASSUME NEW j \in Events, Fail(j)
      PROVE  Contract!Next
  <2>1. {} \in SUBSET (Request(j) \ Rejected) /\ {} \in SUBSET (Request(j) \cap Rejected)
    OBVIOUS
  <2>. QED  BY <1>8, <2>1, OutcomeStep DEF Fail
<1>9. ASSUME NEW e \in Events, Land(e)
      PROVE  Contract!Next
  BY <1>9, WorkStep DEF Land, Status, IInv, Requests, Hopeless
<1>10. CASE Cancel \/ Restart \/ UNCHANGED vars
  BY <1>10 DEF Cancel, Restart, vars, Contract!vars
<1>11. CASE Step
  BY <1>1, <1>2, <1>3, <1>4, <1>11, ReturnStep DEF Step
<1>12. CASE \E e \in Events : End(e) \/ Land(e)
  BY <1>5, <1>6, <1>7, <1>8, <1>9, <1>12 DEF End
<1>. QED  BY <1>10, <1>11, <1>12, CallStep DEF Next

\* S2, S8 (provider.Sender): the SQS sender implements the contract the relay relies on.
THEOREM SQSImplementsSender == Spec => ImplementsSender
<1>1. Init => Contract!Init
  BY DEF Init, Contract!Init, Working, InRequest
<1>2. IInv /\ IInv' /\ [Next]_vars => [Contract!Next]_Contract!vars
  BY StepRefines
<1>. QED  BY <1>1, <1>2, SQSInvariant, PTL DEF Spec, ImplementsSender, Contract!Spec
-----------------------------------------------------------------------------
(* Contents and ids.                                                       *)

\* sqsMessageAttributeValue and validSQSAttributes together refuse what SQS refuses,
\* but for the length of a type name and the digits of a Number.
LEMMA AttributeIsSendable ==
    ASSUME NEW a \in Attributes
    PROVE  ~MalformedAttribute(a) /\ ValidAttribute(a) <=> SendableAttribute(a, FALSE)
<1>. DEFINE type == a.DataType
            string == a.StringValue
            binary == a.BinaryValue
<1>1. /\ type \in {"absent", "null", "object", "scalar", "", "String", "String.long", "Number", "Binary", "Date"}
      /\ string \in {"absent", "null", "object", "scalar", "", "ok", "number", "control"}
      /\ binary \in {"absent", "null", "object", "scalar", "", "ok", "number", "control", "encoded"}
      /\ a.object \in BOOLEAN
  BY DEF Attributes, Forms, Missing, NotString, Strings
<1>2. MalformedAttribute(a) <=>
          \/ ~a.object \/ type \in {"absent", "null", "object", "scalar", ""}
          \/ string \in {"object", "scalar"} \/ binary \notin {"absent", "null", "", "encoded"}
          \/ a.StringListValues # "absent" \/ a.BinaryListValues # "absent"
  BY DEF MalformedAttribute, Missing, NotString
<1>3. ValidAttribute(a) <=>
          /\ a.name = "ok" /\ type \in {"String", "String.long", "Number", "Binary"} /\ binary # ""
          /\ type = "Binary" => binary \notin {"absent", "null"} /\ string \in {"absent", "null"}
          /\ type # "Binary" => /\ string \notin {"absent", "null", "", "control"}
                                /\ binary \in {"absent", "null"}
  BY DEF ValidAttribute, Missing
<1>4. SendableAttribute(a, FALSE) <=>
          /\ a.object /\ a.name = "ok" /\ a.StringListValues = "absent" /\ a.BinaryListValues = "absent"
          /\ \/ /\ type \in {"String", "String.long", "Number"}
                /\ string \in {"ok", "number"} /\ binary \in {"absent", "null"}
             \/ type = "Binary" /\ binary = "encoded" /\ string \in {"absent", "null"}
  BY DEF SendableAttribute, Missing
<1>. HIDE DEF type, string, binary
<1>. QED  BY <1>1, <1>2, <1>3, <1>4

\* requirements.md, P3 to P6: what SQS takes is within what the sender may send.
LEMMA StrictlySendable ==
    ASSUME NEW ev, Sendable(ev, TRUE)
    PROVE  Sendable(ev, FALSE)
<1>1. ASSUME NEW a, SendableAttribute(a, TRUE) PROVE SendableAttribute(a, FALSE)
  BY <1>1 DEF SendableAttribute
<1>2. ASSUME NEW o, SendableOptions(o, TRUE) PROVE SendableOptions(o, FALSE)
  <2>1. \A a \in o.entries : SendableAttribute(a, FALSE)
    BY <1>1, <1>2, Zenon DEF SendableOptions
  <2>2. o.messageSystemAttributes = "trace" => o.AWSTraceHeader \in {"ok", "number", "control"}
    BY <1>2, Zenon DEF SendableOptions
  <2>. QED  BY <1>2, <2>1, <2>2, Zenon DEF SendableOptions
<1>. QED  BY <1>2, Zenon DEF Sendable

\* A limit is kept or exceeded.
LEMMA Limits == \A m, n \in Nat : (~(m > n) => m <= n) /\ (m <= n => ~(m > n))
OBVIOUS

\* sqsDelaySeconds: the two comparisons are the range.
LEMMA DelayLimits ==
    ASSUME NEW o, o.delay \in Int
    PROVE  o.delay \in 0..MaxDelay <=> 0 <= o.delay /\ o.delay <= MaxDelay
<1>1. MaxDelay \in Nat
  BY EntriesAssumption, Zenon
<1>. QED  BY <1>1

\* parseSQSCandidate and isSQSPoison together refuse the options SQS refuses.
LEMMA OptionsAreSendable ==
    ASSUME NEW o \in Sections, NEW s \in Nat, NEW b \in {"", "text", "control"}
    PROVE  ~Unreadable(o) /\ ~isSQSPoison(o, b, s)
             <=> b = "text" /\ s <= MaxSize /\ SendableOptions(o, FALSE)
<1>1. /\ o.messageGroupId \in {"absent", "null", "object", "scalar", "", "ok", "number", "control"}
      /\ o.messageDeduplicationId \in {"absent", "null", "object", "scalar", "", "ok", "number", "control"}
      /\ o.AWSTraceHeader \in {"absent", "null", "object", "scalar", "", "ok", "number", "control"}
      /\ o.entries \subseteq Attributes /\ IsFiniteSet(o.entries) /\ o.delay \in Int
      /\ o.attributes # "object" => o.entries = {}
  BY DEF Sections, Forms, Missing, NotString, Strings
<1>2. Cardinality(o.entries) \in Nat /\ MaxSize \in Nat /\ MaxAttributes \in Nat /\ MaxDelay \in Nat
  BY <1>1, FS_CardinalityType, EntriesAssumption
<1>3. (o.attributes = "object" => \A a \in o.entries : ~MalformedAttribute(a)) /\ (\A a \in o.entries : ValidAttribute(a))
        <=> \A a \in o.entries : SendableAttribute(a, FALSE)
  BY <1>1, AttributeIsSendable
<1>4. ASSUME NEW v \in {"absent", "null", "object", "scalar", "", "ok", "number", "control"}
      PROVE  /\ v \notin NotString /\ StringOption(v) # "control" <=> v \in Missing \cup {"", "ok", "number"}
             /\ v \notin Missing \cup NotString \cup {""} <=> v \in {"ok", "number", "control"}
  BY DEF NotString, StringOption, Missing
<1>5. {o.messageGroupId, o.messageDeduplicationId} \subseteq Missing \cup {"", "ok", "number"}
        <=> /\ o.messageGroupId \notin NotString /\ StringOption(o.messageGroupId) # "control"
            /\ o.messageDeduplicationId \notin NotString /\ StringOption(o.messageDeduplicationId) # "control"
  BY <1>1, <1>4
<1>6. o.delay \in 0..MaxDelay <=> 0 <= o.delay /\ o.delay <= MaxDelay
  BY <1>1, DelayLimits, Zenon
<1>7. /\ ~(s > MaxSize) <=> s <= MaxSize
      /\ ~(Cardinality(o.entries) > MaxAttributes) <=> Cardinality(o.entries) <= MaxAttributes
  BY <1>2, Limits, Zenon
<1>8. ~isSQSPoison(o, b, s) <=>
          /\ b = "text" /\ s <= MaxSize /\ Cardinality(o.entries) <= MaxAttributes
          /\ \A a \in o.entries : ValidAttribute(a)
          /\ StringOption(o.messageGroupId) # "control" /\ StringOption(o.messageDeduplicationId) # "control"
          /\ o.delaySeconds = "integer" => o.delay \in 0..MaxDelay
  BY <1>6, <1>7 DEF isSQSPoison
<1>9. ~Unreadable(o) <=>
          /\ o.messageGroupId \notin NotString /\ o.messageDeduplicationId \notin NotString
          /\ o.attributes \in Missing \cup {"object"}
          /\ o.attributes = "object" => \A a \in o.entries : ~MalformedAttribute(a)
          /\ o.delaySeconds \in Missing \cup {"integer"}
          /\ o.messageSystemAttributes \in Missing \cup {"empty", "trace"}
          /\ o.messageSystemAttributes = "trace" => o.AWSTraceHeader \in {"ok", "number", "control"}
  BY <1>1, <1>4, Zenon DEF Unreadable
<1>. QED  BY <1>3, <1>5, <1>8, <1>9, Zenon DEF SendableOptions

\* prepareSQSEvent: nothing SQS takes is poison and nothing is sent that breaks more than the
\* three rules left to SQS, for every content, every number of attributes and all limits.
THEOREM OnlyUnsendableIsPoison == Spec => []PoisonIsUnsendable
<1>1. ASSUME NEW ev \in Contents PROVE Prepared(ev) <=> Sendable(ev, FALSE)
  <2>. DEFINE parsed == eventOptions(ev.column, ev.section)
  <2>1. ev \in [column : Forms, section : Forms, options : Sections, body : {"", "text", "control"}, size : Nat]
    BY EntriesAssumption
  <2>2. /\ parsed = "none" <=> ev.column \in Missing \cup {""} \/ (ev.column = "object" /\ ev.section \in Missing)
        /\ parsed = "section" <=> ev.column = "object" /\ ev.section = "object"
        /\ parsed \in {"none", "section", "malformed"}
    BY DEF eventOptions, Missing
  <2>3. Prepared(ev) <=>
            \/ parsed = "none" /\ ~isSQSPoison(NoOptions, ev.body, ev.size)
            \/ parsed = "section" /\ ~Unreadable(ev.options) /\ ~isSQSPoison(ev.options, ev.body, ev.size)
    BY <2>2 DEF Prepared
  <2>4. ~isSQSPoison(NoOptions, ev.body, ev.size) <=> ev.body = "text" /\ ev.size <= MaxSize
    <3>1. /\ NoOptions.entries = {} /\ NoOptions.delaySeconds = "absent"
          /\ StringOption(NoOptions.messageGroupId) = "" /\ StringOption(NoOptions.messageDeduplicationId) = ""
      BY DEF NoOptions, StringOption, Missing
    <3>2. Cardinality(NoOptions.entries) = 0 /\ MaxAttributes \in Nat /\ MaxSize \in Nat
      BY <3>1, FS_EmptySet, EntriesAssumption
    <3>3. ev.size \in Nat /\ ev.body \in {"", "text", "control"}
      BY <2>1
    <3>4. ~(ev.size > MaxSize) <=> ev.size <= MaxSize
      BY <3>2, <3>3, Limits, Zenon
    <3>5. ~(Cardinality(NoOptions.entries) > MaxAttributes)
      BY <3>2
    <3>. QED  BY <3>1, <3>3, <3>4, <3>5 DEF isSQSPoison
  <2>5. ~Unreadable(ev.options) /\ ~isSQSPoison(ev.options, ev.body, ev.size)
          <=> ev.body = "text" /\ ev.size <= MaxSize /\ SendableOptions(ev.options, FALSE)
    BY <2>1, OptionsAreSendable
  <2>6. Missing = {"absent", "null"}
    BY DEF Missing
  <2>. HIDE DEF parsed
  <2>. QED  BY <2>2, <2>3, <2>4, <2>5, <2>6 DEF Sendable
<1>2. PoisonIsUnsendable
  BY <1>1, StrictlySendable DEF PoisonIsUnsendable
<1>. QED  BY <1>2, PTL

\* providerSafeID: a digest and a raw id differ, and each tells values apart.
LEMMA SafeIDsDiffer ==
    ASSUME NEW x \in Ids, NEW y \in Ids, x.value # y.value, NEW where
    PROVE  providerSafeID(x, where) # providerSafeID(y, where)
BY DEF providerSafeID, Raw, Digest

\* prepareSQSEvent: the entries of two events never share an id, for any values of the id
\* column and wherever they fit.
THEOREM EntryIdsAreUnique == Spec => []IdsTellEventsApart
<1>1. ASSUME NEW x \in Ids, NEW y \in Ids, NEW isFIFO \in BOOLEAN, x.value # y.value
      PROVE  LET ex == entry(NoOptions, x, isFIFO)
                 ey == entry(NoOptions, y, isFIFO)
             IN  /\ ex.ID # ey.ID
                 /\ isFIFO => ex.DeduplicationID # ey.DeduplicationID /\ ex.MessageGroupID # ey.MessageGroupID
  <2>1. StringOption(NoOptions.messageGroupId) = "" /\ StringOption(NoOptions.messageDeduplicationId) = ""
    BY DEF NoOptions, StringOption, Missing
  <2>2. ASSUME NEW z \in Ids
        PROVE  /\ entry(NoOptions, z, isFIFO).ID = providerSafeID(z, "entry")
               /\ isFIFO => /\ entry(NoOptions, z, isFIFO).DeduplicationID = providerSafeID(z, "dedup")
                            /\ entry(NoOptions, z, isFIFO).MessageGroupID = Digest(z)
    BY <2>1 DEF entry
  <2>3. Digest(x) # Digest(y)
    BY <1>1 DEF Digest
  <2>. QED  BY <1>1, <2>2, <2>3, SafeIDsDiffer
<1>2. IdsTellEventsApart
  BY <1>1 DEF IdsTellEventsApart
<1>. QED  BY <1>2, PTL

-----------------------------------------------------------------------------
(* The chunks of a call.  Induction over the events is by the least number *)
(* of them that would be a counterexample.                                 *)

\* g is what m steps make of x.
Iterates(g, x, step, m) == g[0] = x /\ \A n \in 1..m : g[n] = step[n][g[n - 1]]

\* Any number of steps can be taken.
LEMMA IteratesExist ==
    ASSUME NEW T, NEW x \in T, NEW k \in Nat, NEW step \in [1..k -> [T -> T]]
    PROVE  \E g \in [0..k -> T] : Iterates(g, x, step, k)
<1>. DEFINE S == {m \in Nat : m <= k /\ ~\E g \in [0..m -> T] : Iterates(g, x, step, m)}
<1>. SUFFICES ASSUME S # {} PROVE FALSE
  OBVIOUS
<1>1. PICK m \in S : \A y \in S : m <= y
  BY LeastNumber
<1>2. CASE m = 0
  <2>1. Iterates([n \in 0..0 |-> x], x, step, 0)
    BY DEF Iterates
  <2>. QED  BY <1>2, <2>1
<1>3. CASE m # 0
  <2>1. m - 1 \in Nat /\ m - 1 \notin S /\ m \in 1..k
    BY <1>1, <1>3
  <2>2. PICK g \in [0..(m - 1) -> T] : Iterates(g, x, step, m - 1)
    BY <2>1
  <2>. DEFINE h == [n \in 0..m |-> IF n = m THEN step[m][g[m - 1]] ELSE g[n]]
  <2>3. h \in [0..m -> T]
    BY <2>1
  <2>4. h[0] = x
    BY <1>3, <2>2 DEF Iterates
  <2>5. ASSUME NEW n \in 1..m PROVE h[n] = step[n][h[n - 1]]
    <3>1. CASE n = m
      BY <3>1
    <3>2. CASE n # m
      <4>1. n \in 1..(m - 1) /\ h[n] = g[n] /\ h[n - 1] = g[n - 1]
        BY <3>2
      <4>. HIDE DEF h
      <4>. QED  BY <4>1, <2>2 DEF Iterates
    <3>. QED  BY <3>1, <3>2
  <2>. HIDE DEF h
  <2>. QED  BY <2>3, <2>4, <2>5 DEF Iterates
<1>. QED  BY <1>2, <1>3

\* In one way only: two that take the same m steps end alike.
LEMMA IteratesAgree ==
    ASSUME NEW f, NEW g, NEW m \in Nat, f[0] = g[0],
           \A n \in 1..m : f[n - 1] = g[n - 1] => f[n] = g[n]
    PROVE  f[m] = g[m]
<1>. DEFINE S == {n \in Nat : n <= m /\ f[n] # g[n]}
<1>. SUFFICES ASSUME S # {} PROVE FALSE
  OBVIOUS
<1>1. PICK n \in S : \A y \in S : n <= y
  BY LeastNumber
<1>2. n \in 1..m /\ n - 1 \in Nat /\ n - 1 <= m /\ n - 1 \notin S
  BY <1>1
<1>. QED  BY <1>2

\* The running total of the sizes of a chunk.
Totals(total, chunk, size) ==
    /\ total \in [0..Len(chunk) -> Nat]
    /\ total[0] = 0
    /\ \A n \in 1..Len(chunk) : total[n] = total[n - 1] + size[chunk[n]]

\* It ends with the size of the chunk.
LEMMA BytesIsTotal ==
    ASSUME NEW E, NEW chunk \in Seq(E), NEW size \in [E -> Nat]
    PROVE  \E total : Totals(total, chunk, size) /\ Bytes(chunk, size) = total[Len(chunk)]
<1>. DEFINE k == Len(chunk)
            step == [n \in 1..k |-> [t \in Nat |-> t + size[chunk[n]]]]
            Eq(l) == l = [n \in 0..k |-> IF n = 0 THEN 0 ELSE l[n - 1] + size[chunk[n]]]
            l == CHOOSE total : total =
                    [n \in 0..Len(chunk) |-> IF n = 0 THEN 0 ELSE total[n - 1] + size[chunk[n]]]
<1>1. k \in Nat /\ \A n \in 1..k : size[chunk[n]] \in Nat
  OBVIOUS
<1>2. step \in [1..k -> [Nat -> Nat]]
  BY <1>1
<1>3. PICK g \in [0..k -> Nat] : Iterates(g, 0, step, k)
  <2>. HIDE DEF step, k
  <2>. QED  BY <1>1, <1>2, IteratesExist
<1>4. g[0] = 0 /\ \A n \in 1..k : g[n] = g[n - 1] + size[chunk[n]]
  <2>1. \A n \in 1..k : n - 1 \in 0..k /\ g[n - 1] \in Nat /\ g[n] = step[n][g[n - 1]]
    <3>. HIDE DEF step, k
    <3>. QED  BY <1>1, <1>3 DEF Iterates
  <2>2. \A n \in 1..k, t \in Nat : step[n][t] = t + size[chunk[n]]
    OBVIOUS
  <2>. HIDE DEF step
  <2>. QED  BY <1>3, <2>1, <2>2 DEF Iterates
<1>5. Eq(g)
  <2>. HIDE DEF k
  <2>. QED  BY <1>1, <1>4
<1>6. Eq(l)
  BY <1>5, Zenon
<1>7. Bytes(chunk, size) = l[k]
  BY Zenon DEF Bytes
<1>8. g[k] = l[k]
  <2>. HIDE DEF l, k, step
  <2>1. l[0] = 0 /\ \A n \in 1..k : l[n] = l[n - 1] + size[chunk[n]]
    BY <1>1, <1>6
  <2>. HIDE DEF Eq
  <2>2. \A n \in 1..k : g[n - 1] = l[n - 1] => g[n] = l[n]
    BY <1>4, <2>1
  <2>3. g[0] = l[0]
    BY <1>4, <2>1
  <2>. QED  BY ONLY <1>1, <2>2, <2>3, IteratesAgree
<1>9. Totals(g, chunk, size)
  BY <1>3, <1>4 DEF Totals
<1>. QED  BY <1>7, <1>8, <1>9

\* An empty chunk has no bytes.
LEMMA BytesOfNone ==
    ASSUME NEW E, NEW size \in [E -> Nat]
    PROVE  Bytes(<<>>, size) = 0
<1>1. <<>> \in Seq(E) /\ Len(<<>>) = 0
  OBVIOUS
<1>. QED  BY <1>1, BytesIsTotal DEF Totals

\* An event that joins a chunk adds its size.
LEMMA BytesOfMore ==
    ASSUME NEW E, NEW chunk \in Seq(E), NEW size \in [E -> Nat], NEW e \in E
    PROVE  /\ Bytes(chunk, size) \in Nat
           /\ Bytes(Append(chunk, e), size) = Bytes(chunk, size) + size[e]
<1>. DEFINE c == Append(chunk, e)
            k == Len(chunk)
<1>1. /\ c \in Seq(E) /\ Len(c) = k + 1 /\ k \in Nat
      /\ \A n \in 1..k : c[n] = chunk[n]
      /\ c[k + 1] = e
  BY AppendProperties
<1>2. PICK f : Totals(f, chunk, size) /\ Bytes(chunk, size) = f[k]
  BY BytesIsTotal
<1>3. PICK g : Totals(g, c, size) /\ Bytes(c, size) = g[k + 1]
  <2>. HIDE DEF c
  <2>. QED  BY <1>1, BytesIsTotal
<1>. HIDE DEF c, k
<1>4. f[k] \in Nat /\ f[0] = 0 /\ \A n \in 1..k : f[n] = f[n - 1] + size[chunk[n]]
  BY <1>1, <1>2 DEF Totals, k
<1>5. g[0] = 0 /\ \A n \in 1..(k + 1) : g[n] = g[n - 1] + size[c[n]]
  BY <1>1, <1>3 DEF Totals
<1>6. f[k] = g[k]
  <2>1. \A n \in 1..k : f[n - 1] = g[n - 1] => f[n] = g[n]
    BY <1>1, <1>4, <1>5
  <2>. QED  BY <1>1, <1>4, <1>5, <2>1, IteratesAgree
<1>7. g[k + 1] = g[k] + size[e]
  <2>1. k + 1 \in 1..(k + 1) /\ (k + 1) - 1 = k
    BY <1>1
  <2>. QED  BY <1>1, <1>5, <2>1
<1>. QED  BY <1>2, <1>3, <1>4, <1>6, <1>7 DEF c

\* The chunks up to each one, put together.
Joins(flat, cs, E) ==
    /\ flat \in [0..Len(cs) -> Seq(E)]
    /\ flat[0] = <<>>
    /\ \A n \in 1..Len(cs) : flat[n] = flat[n - 1] \o cs[n]

\* They end with the flattened sequence.
LEMMA FlattenIsJoin ==
    ASSUME NEW E, NEW cs \in Seq(Seq(E))
    PROVE  \E flat : Joins(flat, cs, E) /\ FlattenSeq(cs) = flat[Len(cs)]
<1>. DEFINE k == Len(cs)
            step == [n \in 1..k |-> [t \in Seq(E) |-> t \o cs[n]]]
            Eq(l) == l = [i \in 1..k |-> IF i = 1 THEN cs[i] ELSE l[i - 1] \o cs[i]]
            l == CHOOSE flatten : flatten =
                    [i \in 1..Len(cs) |-> IF i = 1 THEN cs[i] ELSE flatten[i - 1] \o cs[i]]
            l0 == [n \in 0..k |-> IF n = 0 THEN <<>> ELSE l[n]]
<1>1. k \in Nat /\ \A n \in 1..k : cs[n] \in Seq(E)
  OBVIOUS
<1>2. step \in [1..k -> [Seq(E) -> Seq(E)]]
  BY <1>1, ConcatProperties
<1>3. PICK g \in [0..k -> Seq(E)] : Iterates(g, <<>>, step, k)
  <2>1. <<>> \in Seq(E)
    OBVIOUS
  <2>. HIDE DEF step, k
  <2>. QED  BY <1>1, <1>2, <2>1, IteratesExist
<1>4. g[0] = <<>> /\ \A n \in 1..k : g[n] = g[n - 1] \o cs[n]
  <2>1. \A n \in 1..k : n - 1 \in 0..k /\ g[n - 1] \in Seq(E) /\ g[n] = step[n][g[n - 1]]
    <3>. HIDE DEF step, k
    <3>. QED  BY <1>1, <1>3 DEF Iterates
  <2>2. \A n \in 1..k, t \in Seq(E) : step[n][t] = t \o cs[n]
    OBVIOUS
  <2>. HIDE DEF step
  <2>. QED  BY <1>3, <2>1, <2>2 DEF Iterates
<1>5. Joins(g, cs, E)
  BY <1>3, <1>4 DEF Joins
<1>6. k # 0 => g[1] = cs[1]
  <2>. SUFFICES ASSUME k # 0 PROVE g[1] = cs[1]
    OBVIOUS
  <2>. HIDE DEF k, step
  <2>1. 1 \in 1..k /\ 1 - 1 = 0
    BY <1>1
  <2>2. g[1] = <<>> \o cs[1]
    BY <1>4, <2>1
  <2>3. <<>> \o cs[1] = cs[1]
    BY <1>1, <2>1, ConcatEmptySeq
  <2>. QED  BY <2>2, <2>3
<1>7. CASE k = 0
  BY <1>4, <1>5, <1>7 DEF FlattenSeq
<1>8. CASE k # 0
  <2>1. \E h : Eq(h)
    <3>. DEFINE h == [n \in 1..k |-> g[n]]
    <3>. HIDE DEF k
    <3>1. ASSUME NEW n \in 1..k PROVE h[n] = IF n = 1 THEN cs[n] ELSE h[n - 1] \o cs[n]
      <4>1. CASE n = 1
        BY <1>8, <1>6, <4>1
      <4>2. CASE n # 1
        <5>1. n - 1 \in 1..k
          BY <1>1, <4>2
        <5>. QED  BY <1>4, <4>2, <5>1
      <4>. QED  BY <4>1, <4>2
    <3>2. h = [n \in 1..k |-> h[n]]
      OBVIOUS
    <3>. HIDE DEF h
    <3>. QED  BY <3>1, <3>2
  <2>2. Eq(l)
    BY <2>1, Zenon
  <2>3. FlattenSeq(cs) = l[k]
    BY <1>8, Zenon DEF FlattenSeq
  <2>. HIDE DEF l, k, step
  <2>4. \A n \in 1..k : l[n] = IF n = 1 THEN cs[n] ELSE l[n - 1] \o cs[n]
    BY <2>2
  <2>. HIDE DEF Eq
  <2>5. \A n \in 1..k : g[n - 1] = l0[n - 1] => g[n] = l0[n]
    <3>. SUFFICES ASSUME NEW n \in 1..k, g[n - 1] = l0[n - 1] PROVE g[n] = l0[n]
      OBVIOUS
    <3>1. l0[n] = l[n] /\ n - 1 \in 0..k /\ l0[n - 1] = IF n - 1 = 0 THEN <<>> ELSE l[n - 1]
      BY <1>1
    <3>. HIDE DEF l0
    <3>2. CASE n = 1
      BY <1>8, <1>6, <2>4, <3>1, <3>2
    <3>3. CASE n # 1
      <4>1. g[n] = g[n - 1] \o cs[n] /\ l[n] = l[n - 1] \o cs[n]
        BY <1>4, <2>4, <3>3, Zenon
      <4>2. l0[n - 1] = l[n - 1]
        BY <3>1, <3>3
      <4>. QED  BY <3>1, <4>1, <4>2
    <3>. QED  BY <3>2, <3>3
  <2>6. g[0] = l0[0] /\ l0[k] = l[k]
    BY <1>1, <1>4, <1>8
  <2>. HIDE DEF l0
  <2>7. g[k] = l0[k]
    BY ONLY <1>1, <2>5, <2>6, IteratesAgree
  <2>. QED  BY <1>5, <2>3, <2>6, <2>7 DEF k
<1>. QED  BY <1>7, <1>8

\* A chunk that is appended comes last.
LEMMA FlattenOfMore ==
    ASSUME NEW E, NEW cs \in Seq(Seq(E)), NEW c \in Seq(E)
    PROVE  /\ FlattenSeq(cs) \in Seq(E)
           /\ FlattenSeq(Append(cs, c)) = FlattenSeq(cs) \o c
<1>. DEFINE ds == Append(cs, c)
            k == Len(cs)
<1>1. /\ ds \in Seq(Seq(E)) /\ Len(ds) = k + 1 /\ k \in Nat
      /\ \A n \in 1..k : ds[n] = cs[n]
      /\ ds[k + 1] = c
  BY AppendProperties
<1>2. PICK f : Joins(f, cs, E) /\ FlattenSeq(cs) = f[k]
  BY FlattenIsJoin
<1>3. PICK g : Joins(g, ds, E) /\ FlattenSeq(ds) = g[k + 1]
  <2>. HIDE DEF ds
  <2>. QED  BY <1>1, FlattenIsJoin
<1>. HIDE DEF ds, k
<1>4. f[k] \in Seq(E) /\ f[0] = <<>> /\ \A n \in 1..k : f[n] = f[n - 1] \o cs[n]
  <2>1. k \in 0..k
    BY <1>1
  <2>. QED  BY <1>2, <2>1, Zenon DEF Joins, k
<1>5. g[0] = <<>> /\ \A n \in 1..(k + 1) : g[n] = g[n - 1] \o ds[n]
  BY <1>1, <1>3 DEF Joins
<1>6. f[k] = g[k]
  <2>1. \A n \in 1..k : n \in 1..(k + 1)
    BY <1>1
  <2>2. \A n \in 1..k : f[n - 1] = g[n - 1] => f[n] = g[n]
    BY <1>1, <1>4, <1>5, <2>1, Zenon
  <2>3. f[0] = g[0]
    BY <1>4, <1>5
  <2>. QED  BY ONLY <1>1, <2>2, <2>3, IteratesAgree
<1>7. g[k + 1] = g[k] \o c
  <2>1. k + 1 \in 1..(k + 1) /\ (k + 1) - 1 = k
    BY <1>1
  <2>. QED  BY <1>1, <1>5, <2>1
<1>. QED  BY <1>2, <1>3, <1>4, <1>6, <1>7 DEF ds

\* What is appended to the last part is appended to the whole.
LEMMA ConcatAppend ==
    ASSUME NEW E, NEW s \in Seq(E), NEW t \in Seq(E), NEW e \in E
    PROVE  s \o Append(t, e) = Append(s \o t, e)
<1>1. Append(t, e) = t \o <<e>> /\ Append(s \o t, e) = (s \o t) \o <<e>>
  BY AppendIsConcat, ConcatProperties
<1>2. \A u \in Seq(E) : (s \o t) \o u = s \o (t \o u)
  BY ConcatAssociative
<1>3. <<e>> \in Seq(E)
  OBVIOUS
<1>. QED  BY <1>1, <1>2, <1>3, Zenon

\* SQS takes the chunk as one request.
FitsRequest(chunk, size) == Len(chunk) \in 1..MaxEntries /\ Bytes(chunk, size) <= MaxBytes

\* What holds of the loop after n events: it has cut these, every chunk fits, and so
\* does the current one as soon as it has an event.
Looped(n, loop, events, size, E) ==
    /\ loop.chunks \in Seq(Seq(E)) /\ loop.current \in Seq(E)
    /\ loop.bytes = Bytes(loop.current, size)
    /\ FlattenSeq(loop.chunks) \o loop.current = SubSeq(events, 1, n)
    /\ \A i \in DOMAIN loop.chunks : FitsRequest(loop.chunks[i], size)
    /\ n = 0 => loop.chunks = <<>> /\ loop.current = <<>>
    /\ n > 0 => FitsRequest(loop.current, size)

\* chunkSQSStandardEvents: one event more, which by itself is no larger than a request.
LEMMA OneMoreEvent ==
    ASSUME NEW E, NEW events \in Seq(E), NEW size \in [E -> 1..MaxBytes],
           NEW n \in Nat, n < Len(events), NEW loop, Looped(n, loop, events, size, E)
    PROVE  Looped(n + 1, Take(loop, events[n + 1], size[events[n + 1]]), events, size, E)
<1>. DEFINE e == events[n + 1]
            new == Take(loop, e, size[e])
            chunks == loop.chunks
            current == loop.current
<1>. SUFFICES Looped(n + 1, new, events, size, E)
  OBVIOUS
<1>1. /\ e \in E /\ size[e] \in 1..MaxBytes /\ size[e] \in Nat /\ size \in [E -> Nat]
      /\ MaxBytes \in Nat /\ MaxEntries \in Nat /\ MaxEntries >= 1 /\ n + 1 \in 1..Len(events)
  BY ChunksAssumption
<1>2. /\ chunks \in Seq(Seq(E)) /\ current \in Seq(E)
      /\ loop.bytes = Bytes(current, size) /\ Bytes(current, size) \in Nat
      /\ FlattenSeq(chunks) \in Seq(E)
      /\ FlattenSeq(chunks) \o current = SubSeq(events, 1, n)
  <2>1. current \in Seq(E) /\ chunks \in Seq(Seq(E))
    BY DEF Looped
  <2>2. Bytes(current, size) \in Nat
    BY <1>1, <2>1, BytesOfMore
  <2>3. FlattenSeq(chunks) \in Seq(E)
    BY <2>1, FlattenOfMore
  <2>. QED  BY <2>1, <2>2, <2>3 DEF Looped
<1>3. /\ SubSeq(events, 1, n + 1) = SubSeq(events, 1, n) \o <<e>>
      /\ SubSeq(events, 1, n + 1) = Append(SubSeq(events, 1, n), e)
  <2>1. 1 \in 1..Len(events) /\ (n + 1) - 1 = n /\ n + 1 \in 1..Len(events)
    BY <1>1
  <2>2. SubSeq(events, 1, n + 1) = SubSeq(events, 1, n) \o <<e>>
    BY <2>1, SubSeqRecursiveSecond
  <2>3. SubSeq(events, 1, n) \in Seq(E)
    BY <1>1
  <2>4. Append(SubSeq(events, 1, n), e) = SubSeq(events, 1, n) \o <<e>>
    BY <1>1, <2>3, AppendIsConcat
  <2>. QED  BY <2>2, <2>4
<1>4. Bytes(<<e>>, size) = size[e] /\ <<e>> \in Seq(E) /\ Len(<<e>>) = 1
  <2>1. <<>> \in Seq(E) /\ Append(<<>>, e) = <<e>> /\ <<e>> \in Seq(E) /\ Len(<<e>>) = 1
    BY <1>1
  <2>2. Bytes(<<>>, size) = 0
    BY <1>1, BytesOfNone
  <2>3. Bytes(Append(<<>>, e), size) = Bytes(<<>>, size) + size[e]
    BY <1>1, <2>1, BytesOfMore
  <2>. QED  BY <1>1, <2>1, <2>2, <2>3
<1>. HIDE DEF e
<1>5. CASE Full(loop, size[e])
  <2>1. new.chunks = Append(chunks, current) /\ new.current = <<e>> /\ new.bytes = size[e]
    BY <1>5 DEF Take
  <2>2. FitsRequest(current, size)
    <3>1. Len(current) > 0
      BY <1>5 DEF Full
    <3>2. n # 0
      BY <3>1 DEF Looped
    <3>. QED  BY <3>2 DEF Looped
  <2>. HIDE DEF new, current, chunks
  <2>3. new.chunks \in Seq(Seq(E)) /\ \A i \in DOMAIN new.chunks : FitsRequest(new.chunks[i], size)
    <3>1. /\ new.chunks \in Seq(Seq(E)) /\ Len(new.chunks) = Len(chunks) + 1
          /\ \A i \in 1..Len(chunks) : new.chunks[i] = chunks[i]
          /\ new.chunks[Len(chunks) + 1] = current
      BY <1>2, <2>1, AppendProperties
    <3>2. DOMAIN new.chunks = 1..(Len(chunks) + 1) /\ Len(chunks) \in Nat
      BY <1>2, <3>1
    <3>3. \A i \in 1..Len(chunks) : FitsRequest(chunks[i], size)
      BY <1>2 DEF Looped, chunks
    <3>4. \A i \in 1..(Len(chunks) + 1) : i \in 1..Len(chunks) \/ i = Len(chunks) + 1
      BY <3>2
    <3>. QED  BY <2>2, <3>1, <3>2, <3>3, <3>4, Zenon
  <2>4. FlattenSeq(new.chunks) \o new.current = SubSeq(events, 1, n + 1)
    <3>1. FlattenSeq(new.chunks) = FlattenSeq(chunks) \o current
      BY <1>2, <2>1, FlattenOfMore
    <3>. QED  BY <1>2, <1>3, <2>1, <3>1, Zenon
  <2>5. FitsRequest(new.current, size)
    BY <1>1, <1>4, <2>1 DEF FitsRequest
  <2>6. n + 1 # 0
    OBVIOUS
  <2>7. new.current \in Seq(E) /\ new.bytes = Bytes(new.current, size)
    BY <1>4, <2>1
  <2>. QED  BY <2>3, <2>4, <2>5, <2>6, <2>7, Zenon DEF Looped
<1>6. CASE ~Full(loop, size[e])
  <2>1. /\ new.chunks = chunks /\ new.current = Append(current, e)
        /\ new.bytes = loop.bytes + size[e]
    BY <1>6 DEF Take
  <2>2. Len(current) = 0 \/ (Len(current) < MaxEntries /\ Bytes(current, size) + size[e] <= MaxBytes)
    BY <1>1, <1>2, <1>6 DEF Full
  <2>. HIDE DEF new, current, chunks
  <2>3. Bytes(new.current, size) = Bytes(current, size) + size[e]
    BY <1>1, <1>2, <2>1, BytesOfMore
  <2>4. new.current \in Seq(E) /\ Len(new.current) = Len(current) + 1
    BY <1>1, <1>2, <2>1
  <2>5. FitsRequest(new.current, size)
    <3>1. CASE Len(current) = 0
      <4>1. current = <<>>
        BY <1>2, <3>1
      <4>2. Bytes(current, size) = 0
        BY <1>1, <4>1, BytesOfNone
      <4>. QED  BY <1>1, <2>3, <2>4, <3>1, <4>2 DEF FitsRequest
    <3>2. CASE Len(current) # 0
      <4>1. Len(current) \in Nat
        BY <1>2
      <4>. QED  BY <1>1, <2>2, <2>3, <2>4, <3>2, <4>1 DEF FitsRequest
    <3>. QED  BY <3>1, <3>2
  <2>6. FlattenSeq(new.chunks) \o new.current = SubSeq(events, 1, n + 1)
    <3>. DEFINE flat == FlattenSeq(chunks)
    <3>1. flat \in Seq(E) /\ current \in Seq(E) /\ e \in E
      BY <1>1, <1>2
    <3>. HIDE DEF flat
    <3>2. flat \o Append(current, e) = Append(flat \o current, e)
      BY ONLY <3>1, ConcatAppend
    <3>. QED  BY <1>2, <1>3, <2>1, <3>2, Zenon DEF flat
  <2>7. new.chunks \in Seq(Seq(E)) /\ \A i \in DOMAIN new.chunks : FitsRequest(new.chunks[i], size)
    BY <1>2, <2>1 DEF Looped, chunks
  <2>8. n + 1 # 0
    OBVIOUS
  <2>9. new.bytes = Bytes(new.current, size)
    BY <1>2, <2>1, <2>3
  <2>. QED  BY <2>4, <2>5, <2>6, <2>7, <2>8, <2>9, Zenon DEF Looped
<1>. QED  BY <1>5, <1>6

\* The loop after each of the events.
Loops(loop, events, size) ==
    /\ loop[0] = [chunks |-> <<>>, current |-> <<>>, bytes |-> 0]
    /\ \A n \in 1..Len(events) : loop[n] = Take(loop[n - 1], events[n], size[events[n]])

\* chunkSQSStandardEvents: the chunks are those of the loop when it ends.
LEMMA ChunksAreLast ==
    ASSUME NEW E, NEW events \in Seq(E), NEW size \in [E -> Nat]
    PROVE  \E loop : /\ Loops(loop, events, size)
                     /\ chunkSQSStandardEvents(events, size) =
                            IF loop[Len(events)].current = <<>> THEN loop[Len(events)].chunks
                            ELSE Append(loop[Len(events)].chunks, loop[Len(events)].current)
<1>. DEFINE k == Len(events)
            x == [chunks |-> <<>>, current |-> <<>>, bytes |-> 0]
            T == [chunks : Seq(Seq(E)), current : Seq(E), bytes : Nat]
            step == [n \in 1..k |-> [t \in T |-> Take(t, events[n], size[events[n]])]]
            Eq(l) == l = [n \in 0..k |-> IF n = 0 THEN x ELSE Take(l[n - 1], events[n], size[events[n]])]
            l == CHOOSE loop : loop = [n \in 0..Len(events) |->
                    IF n = 0 THEN [chunks |-> <<>>, current |-> <<>>, bytes |-> 0]
                    ELSE Take(loop[n - 1], events[n], size[events[n]])]
<1>1. x \in T /\ k \in Nat
  OBVIOUS
<1>2. step \in [1..k -> [T -> T]]
  <2>. SUFFICES ASSUME NEW n \in 1..k, NEW t \in T PROVE Take(t, events[n], size[events[n]]) \in T
    OBVIOUS
  <2>1. events[n] \in E /\ size[events[n]] \in Nat
    OBVIOUS
  <2>2. Append(t.chunks, t.current) \in Seq(Seq(E)) /\ Append(t.current, events[n]) \in Seq(E)
    BY <2>1
  <2>3. <<events[n]>> \in Seq(E) /\ t.bytes + size[events[n]] \in Nat
    BY <2>1
  <2>. QED  BY <2>1, <2>2, <2>3 DEF Take
<1>3. PICK g \in [0..k -> T] : Iterates(g, x, step, k)
  <2>. HIDE DEF step, k, T, x
  <2>. QED  BY <1>1, <1>2, IteratesExist
<1>4. \A n \in 1..k : n - 1 \in 0..k /\ g[n - 1] \in T /\ g[n] = step[n][g[n - 1]]
  <2>. HIDE DEF step, k, T, x
  <2>. QED  BY <1>1, <1>3 DEF Iterates
<1>5. \A n \in 1..k, t \in T : step[n][t] = Take(t, events[n], size[events[n]])
  <2>. HIDE DEF T
  <2>. QED  OBVIOUS
<1>6. Eq(g)
  <2>. HIDE DEF step, k, T, x
  <2>1. \A n \in 0..k : n = 0 \/ n \in 1..k
    BY <1>1
  <2>2. \A n \in 0..k : g[n] = IF n = 0 THEN x ELSE Take(g[n - 1], events[n], size[events[n]])
    BY <1>3, <1>4, <1>5, <2>1, Zenon DEF Iterates
  <2>. QED  BY <1>3, <2>2
<1>7. Eq(l)
  BY <1>6, Zenon
<1>8. chunkSQSStandardEvents(events, size) =
         IF l[k].current = <<>> THEN l[k].chunks ELSE Append(l[k].chunks, l[k].current)
  BY Zenon DEF chunkSQSStandardEvents
<1>9. Loops(l, events, size)
  <2>. HIDE DEF l, step
  <2>1. 0 \in 0..k /\ \A n \in 1..k : n \in 0..k /\ n # 0
    BY <1>1
  <2>. QED  BY <1>7, <2>1, Zenon DEF Loops
<1>. HIDE DEF l
<1>. QED  BY <1>8, <1>9, Zenon

\* chunkSQSStandardEvents: the chunks are the events in order, and SQS takes each as
\* one request.
LEMMA ChunksFit ==
    ASSUME NEW E, NEW events \in Seq(E), NEW size \in [E -> 1..MaxBytes]
    PROVE  /\ chunkSQSStandardEvents(events, size) \in Seq(Seq(E))
           /\ FlattenSeq(chunkSQSStandardEvents(events, size)) = events
           /\ \A i \in DOMAIN chunkSQSStandardEvents(events, size) :
                 FitsRequest(chunkSQSStandardEvents(events, size)[i], size)
<1>. DEFINE k == Len(events)
            cs == chunkSQSStandardEvents(events, size)
<1>1. size \in [E -> Nat] /\ k \in Nat
  BY ChunksAssumption
<1>2. PICK loop : /\ Loops(loop, events, size)
                  /\ cs = IF loop[k].current = <<>> THEN loop[k].chunks
                          ELSE Append(loop[k].chunks, loop[k].current)
  BY <1>1, ChunksAreLast
<1>. DEFINE S == {n \in Nat : n <= k /\ ~Looped(n, loop[n], events, size, E)}
<1>. HIDE DEF cs
<1>3. S = {}
  <2>. SUFFICES ASSUME S # {} PROVE FALSE
    OBVIOUS
  <2>1. PICK n \in S : \A y \in S : n <= y
    BY LeastNumber
  <2>2. CASE n = 0
    <3>1. loop[0].chunks = <<>> /\ loop[0].current = <<>> /\ loop[0].bytes = 0
      BY <1>2 DEF Loops
    <3>2. Bytes(<<>>, size) = 0
      BY <1>1, BytesOfNone
    <3>3. /\ FlattenSeq(<<>>) = <<>> /\ <<>> \o <<>> = <<>> /\ SubSeq(events, 1, 0) = <<>>
          /\ <<>> \in Seq(Seq(E)) /\ <<>> \in Seq(E) /\ DOMAIN <<>> = {} /\ ~(0 > 0)
      BY SubSeqEmpty DEF FlattenSeq
    <3>4. Looped(0, loop[0], events, size, E)
      BY <3>1, <3>2, <3>3, Zenon DEF Looped
    <3>. QED  BY <2>2, <3>4
  <2>3. CASE n # 0
    <3>1. n - 1 \in Nat /\ n - 1 < k /\ n \in 1..k /\ (n - 1) + 1 = n
      BY <1>1, <2>3
    <3>2. Looped(n - 1, loop[n - 1], events, size, E)
      BY <2>1, <3>1
    <3>3. loop[n] = Take(loop[n - 1], events[n], size[events[n]])
      BY <1>2, <3>1 DEF Loops
    <3>4. Looped((n - 1) + 1, Take(loop[n - 1], events[(n - 1) + 1], size[events[(n - 1) + 1]]), events, size, E)
      BY <3>1, <3>2, OneMoreEvent
    <3>5. Looped(n, loop[n], events, size, E)
      BY <3>1, <3>3, <3>4
    <3>. QED  BY <3>5
  <2>. QED  BY <2>2, <2>3
<1>4. Looped(k, loop[k], events, size, E)
  BY <1>1, <1>3
<1>5. SubSeq(events, 1, k) = events
  BY SubSeqFull
<1>. DEFINE chunks == loop[k].chunks
            current == loop[k].current
<1>6. /\ chunks \in Seq(Seq(E)) /\ current \in Seq(E)
      /\ FlattenSeq(chunks) \o current = events
      /\ \A i \in DOMAIN chunks : FitsRequest(chunks[i], size)
  BY <1>4, <1>5, Zenon DEF Looped
<1>. SUFFICES /\ cs \in Seq(Seq(E))
              /\ FlattenSeq(cs) = events
              /\ \A i \in DOMAIN cs : FitsRequest(cs[i], size)
  BY DEF cs
<1>7. CASE current = <<>>
  <2>1. FlattenSeq(chunks) \in Seq(E)
    BY <1>6, FlattenOfMore
  <2>2. FlattenSeq(chunks) \o <<>> = FlattenSeq(chunks)
    BY <2>1, ConcatEmptySeq
  <2>. QED  BY <1>2, <1>6, <1>7, <2>2, Zenon
<1>8. CASE current # <<>>
  <2>1. cs = Append(chunks, current)
    BY <1>2, <1>8
  <2>2. FitsRequest(current, size)
    BY <1>1, <1>4, <1>8 DEF Looped
  <2>. HIDE DEF chunks, current
  <2>3. /\ cs \in Seq(Seq(E)) /\ Len(cs) = Len(chunks) + 1
        /\ \A i \in 1..Len(chunks) : cs[i] = chunks[i]
        /\ cs[Len(chunks) + 1] = current
    BY <1>6, <2>1, AppendProperties
  <2>4. /\ DOMAIN cs = 1..(Len(chunks) + 1) /\ DOMAIN chunks = 1..Len(chunks)
        /\ \A i \in 1..(Len(chunks) + 1) : i \in 1..Len(chunks) \/ i = Len(chunks) + 1
    BY <1>6, <2>3
  <2>5. \A i \in DOMAIN cs : FitsRequest(cs[i], size)
    BY <1>6, <2>2, <2>3, <2>4, Zenon
  <2>6. FlattenSeq(cs) = events
    BY <1>6, <2>1, FlattenOfMore
  <2>. QED  BY <2>3, <2>5, <2>6
<1>. QED  BY <1>7, <1>8

\* chunkSQSStandardEvents: a request of a standard queue has neither too many entries
\* nor too many bytes nor none at all, and no event is lost, repeated or out of its
\* place, for every limit and any number of events of any sizes up to it.
THEOREM ChunksAreRequests == Spec => []ChunksFitRequest
<1>1. ChunksFitRequest
  <2>. SUFFICES ASSUME NEW sizes \in Calls
                PROVE  /\ FlattenSeq(Cut(sizes)) = [i \in DOMAIN sizes |-> i]
                       /\ \A chunk \in Range(Cut(sizes)) : FitsRequest(chunk, sizes)
    BY Zenon DEF ChunksFitRequest, FitsRequest
  <2>1. sizes \in Seq(1..MaxBytes)
    BY EntriesAssumption, Zenon
  <2>. DEFINE E == DOMAIN sizes
              events == [i \in E |-> i]
  <2>2. sizes \in [E -> 1..MaxBytes] /\ events \in Seq(E)
    <3>1. sizes \in [E -> 1..MaxBytes] /\ E = 1..Len(sizes) /\ Len(sizes) \in Nat
      BY <2>1, LenProperties, Zenon
    <3>2. events \in [1..Len(sizes) -> E]
      BY <3>1
    <3>. HIDE DEF E, events
    <3>. QED  BY <3>1, <3>2, SeqDef
  <2>. HIDE DEF E
  <2>3. FlattenSeq(Cut(sizes)) = events /\ \A i \in DOMAIN Cut(sizes) : FitsRequest(Cut(sizes)[i], sizes)
    BY <2>2, ChunksFit, Zenon DEF Cut, E
  <2>. QED  BY <2>3 DEF Range, E
<1>. QED  BY <1>1, PTL

-----------------------------------------------------------------------------
(* The requests on their way.                                              *)

\* How many events are selected no later than e.
Rank(events, e) == Cardinality({f \in events : f <= e})

\* Events that are selected one after the other have ranks that follow each other.
LEMMA Ranks ==
    ASSUME NEW events \in SUBSET Events
    PROVE  /\ \A e \in events : Rank(events, e) \in 1..Cardinality(events)
           /\ \A e, f \in events : e < f => Rank(events, e) < Rank(events, f)
<1>1. events \in SUBSET Nat /\ IsFiniteSet(events)
  BY EventsAssumption, FS_Subset
<1>. DEFINE upto(e) == {f \in events : f <= e}
<1>2. ASSUME NEW e \in events
      PROVE  Cardinality(upto(e)) \in 1..Cardinality(events)
  <2>1. upto(e) \in SUBSET events /\ e \in upto(e)
    BY <1>1
  <2>. HIDE DEF upto
  <2>2. /\ IsFiniteSet(upto(e)) /\ Cardinality(upto(e)) <= Cardinality(events)
        /\ Cardinality(upto(e)) \in Nat /\ Cardinality(events) \in Nat
    BY <1>1, <2>1, FS_Subset, FS_CardinalityType
  <2>3. Cardinality(upto(e)) # 0
    BY <2>1, <2>2, FS_EmptySet
  <2>. QED  BY <2>2, <2>3
<1>3. ASSUME NEW e \in events, NEW f \in events, e < f
      PROVE  Cardinality(upto(e)) < Cardinality(upto(f))
  <2>1. upto(e) \in SUBSET upto(f) /\ f \in upto(f) /\ f \notin upto(e) /\ upto(f) \in SUBSET events
    <3>1. \A g \in events : g \in Nat
      BY <1>1
    <3>2. \A g \in events : g <= e => g <= f
      BY <1>3, <3>1
    <3>. QED  BY <1>3, <3>1, <3>2
  <2>. HIDE DEF upto
  <2>2. IsFiniteSet(upto(f))
    BY <1>1, <2>1, FS_Subset
  <2>3. /\ Cardinality(upto(e)) <= Cardinality(upto(f))
        /\ Cardinality(upto(f)) # Cardinality(upto(e))
    BY <2>1, <2>2, FS_Subset
  <2>4. Cardinality(upto(e)) \in Nat /\ Cardinality(upto(f)) \in Nat
    BY <1>2
  <2>. QED  BY <2>3, <2>4
<1>. QED  BY <1>2, <1>3 DEF Rank

\* sendSQSQueueEvents: the events of a queue can be put in order, each once.
LEMMA EventsInOrder ==
    ASSUME NEW events \in SUBSET Events
    PROVE  /\ InOrder(events) \in Seq(Events)
           /\ \A i, j \in DOMAIN InOrder(events) : i # j => InOrder(events)[i] # InOrder(events)[j]
<1>. DEFINE n == Cardinality(events)
            r == [e \in events |-> Rank(events, e)]
            s == [i \in 1..n |-> CHOOSE e \in events : r[e] = i]
<1>1. events \in SUBSET Nat /\ IsFiniteSet(events) /\ n \in Nat
  BY EventsAssumption, FS_Subset, FS_CardinalityType
<1>2. r \in [events -> 1..n]
  BY Ranks
<1>3. \A e, f \in events : e < f => r[e] < r[f]
  BY Ranks
<1>4. r \in Injection(events, 1..n)
  <2>. HIDE DEF r, n
  <2>1. \A e, f \in events : r[e] \in Nat /\ r[f] \in Nat
    BY <1>1, <1>2
  <2>2. \A e, f \in events : r[e] = r[f] => e = f
    BY <1>1, <1>3, <2>1
  <2>. QED  BY <1>2, <2>2 DEF Injection, IsInjective
<1>5. IsFiniteSet(1..n) /\ Cardinality(1..n) = n
  <2>. HIDE DEF n
  <2>. QED  BY <1>1, FS_Interval
<1>6. r \in Surjection(events, 1..n)
  <2>. HIDE DEF r
  <2>. QED  BY <1>1, <1>4, <1>5, FS_Injection
<1>7. \A i \in 1..n : \E e \in events : r[e] = i
  <2>. HIDE DEF r, n
  <2>. QED  BY <1>6 DEF Surjection
<1>. HIDE DEF r
<1>8. \A i \in 1..n : s[i] \in events /\ r[s[i]] = i
  BY <1>7
<1>9. s \in [1..n -> events] /\ DOMAIN s = 1..n
  BY <1>7
<1>. HIDE DEF s
<1>10. \A i, j \in DOMAIN s : i < j => s[i] < s[j]
  <2>. SUFFICES ASSUME NEW i \in 1..n, NEW j \in 1..n, i < j, ~(s[i] < s[j]) PROVE FALSE
    BY <1>9
  <2>1. s[i] \in Nat /\ s[j] \in Nat /\ s[i] \in events /\ s[j] \in events
    BY <1>1, <1>8
  <2>2. s[j] < s[i] \/ s[j] = s[i]
    BY <2>1
  <2>3. r[s[i]] = i /\ r[s[j]] = j
    BY <1>8
  <2>. QED  BY <1>1, <1>3, <2>1, <2>2, <2>3
<1>. DEFINE o == InOrder(events)
<1>11. o \in [1..n -> events] /\ \A i, j \in DOMAIN o : i < j => o[i] < o[j]
  BY <1>9, <1>10, Zenon DEF InOrder
<1>. HIDE DEF n
<1>12. o \in [1..n -> Events]
  BY <1>11, Zenon
<1>. HIDE DEF o
<1>13. o \in Seq(Events)
  BY <1>1, <1>12, SeqDef
<1>14. ASSUME NEW i \in DOMAIN o, NEW j \in DOMAIN o, i # j PROVE o[i] # o[j]
  <2>1. i \in 1..n /\ j \in 1..n /\ o[i] \in events /\ o[j] \in events
    BY <1>11, <1>14
  <2>2. i \in Nat /\ j \in Nat
    BY <1>1, <2>1
  <2>3. o[i] \in Nat /\ o[j] \in Nat
    BY <1>1, <2>1, Zenon
  <2>. QED  BY <1>11, <1>14, <2>2, <2>3
<1>. QED  BY <1>13, <1>14 DEF o

\* What is put behind something leaves it in its place and has its own.
LEMMA ConcatPlaces ==
    ASSUME NEW E, NEW s \in Seq(E), NEW t \in Seq(E)
    PROVE  /\ Len(s) \in Nat /\ Len(t) \in Nat /\ Len(s \o t) = Len(s) + Len(t)
           /\ \A i \in 1..Len(s) : (s \o t)[i] = s[i]
           /\ \A i \in 1..Len(t) : (s \o t)[Len(s) + i] = t[i]
<1>1. Len(s) \in Nat /\ Len(t) \in Nat
  OBVIOUS
<1>. DEFINE u == s \o t
<1>2. /\ Len(u) = Len(s) + Len(t)
      /\ \A i \in 1..(Len(s) + Len(t)) : u[i] = IF i <= Len(s) THEN s[i] ELSE t[i - Len(s)]
  BY ConcatProperties
<1>. HIDE DEF u
<1>3. \A i \in 1..Len(s) : u[i] = s[i]
  BY <1>1, <1>2
<1>4. ASSUME NEW i \in 1..Len(t) PROVE u[Len(s) + i] = t[i]
  <2>1. /\ Len(s) + i \in 1..(Len(s) + Len(t)) /\ ~(Len(s) + i <= Len(s))
        /\ (Len(s) + i) - Len(s) = i
    BY <1>1
  <2>. QED  BY <1>2, <2>1
<1>. QED  BY <1>1, <1>2, <1>3, <1>4 DEF u

\* u is s with t behind it.
Placed(s, t, u, E) ==
    /\ s \in Seq(E) /\ t \in Seq(E) /\ u \in Seq(E)
    /\ Len(s) \in Nat /\ Len(t) \in Nat /\ Len(u) \in Nat /\ Len(u) = Len(s) + Len(t)
    /\ \A i \in 1..Len(s) : u[i] = s[i]
    /\ \A i \in 1..Len(t) : u[Len(s) + i] = t[i]

\* chunkSQSStandardEvents: a chunk is behind the chunks before it.
LEMMA JoinsPlaces ==
    ASSUME NEW E, NEW cs \in Seq(Seq(E)), NEW flat, Joins(flat, cs, E), NEW n \in 1..Len(cs)
    PROVE  Placed(flat[n - 1], cs[n], flat[n], E)
<1>1. n - 1 \in 0..Len(cs) /\ n \in 0..Len(cs)
  OBVIOUS
<1>2. flat[n - 1] \in Seq(E) /\ flat[n] \in Seq(E) /\ flat[n] = flat[n - 1] \o cs[n]
  BY <1>1, Zenon DEF Joins
<1>3. cs[n] \in Seq(E)
  BY ElementOfSeq
<1>. DEFINE s == flat[n - 1]
            t == cs[n]
            u == flat[n]
<1>. HIDE DEF s, t, u
<1>4. s \in Seq(E) /\ t \in Seq(E) /\ u = s \o t /\ u \in Seq(E)
  BY <1>2, <1>3 DEF s, t, u
<1>5. /\ Len(s) \in Nat /\ Len(t) \in Nat /\ Len(s \o t) = Len(s) + Len(t)
      /\ \A i \in 1..Len(s) : (s \o t)[i] = s[i]
      /\ \A i \in 1..Len(t) : (s \o t)[Len(s) + i] = t[i]
  BY ONLY <1>4, ConcatPlaces
<1>6. /\ Len(s) \in Nat /\ Len(t) \in Nat /\ Len(u) = Len(s) + Len(t) /\ Len(u) \in Nat
      /\ \A i \in 1..Len(s) : u[i] = s[i]
      /\ \A i \in 1..Len(t) : u[Len(s) + i] = t[i]
  <2>1. Len(u) \in Nat
    BY <1>4
  <2>. QED  BY <1>4, <1>5, <2>1, Zenon
<1>. QED  BY <1>4, <1>6, Zenon DEF Placed, s, t, u

\* What was put together stays in its place.
LEMMA JoinsKeep ==
    ASSUME NEW E, NEW cs \in Seq(Seq(E)), NEW flat, Joins(flat, cs, E),
           NEW m \in 1..Len(cs), NEW n \in 1..Len(cs), m <= n
    PROVE  /\ Len(flat[m]) \in Nat /\ Len(flat[n]) \in Nat /\ Len(flat[m]) <= Len(flat[n])
           /\ \A i \in 1..Len(flat[m]) : flat[n][i] = flat[m][i]
<1>. DEFINE k == Len(cs)
            Keeps(l) == /\ Len(flat[m]) <= Len(flat[l])
                        /\ \A i \in 1..Len(flat[m]) : flat[l][i] = flat[m][i]
            S == {l \in Nat : m <= l /\ l <= k /\ ~Keeps(l)}
<1>1. k \in Nat
  OBVIOUS
<1>2. \A l \in 1..k : Len(flat[l]) \in Nat
  BY JoinsPlaces, Zenon DEF Placed
<1>3. S = {}
  <2>. SUFFICES ASSUME S # {} PROVE FALSE
    OBVIOUS
  <2>1. PICK l \in S : \A y \in S : l <= y
    BY LeastNumber
  <2>2. Keeps(m)
    BY <1>2
  <2>3. l - 1 \in Nat /\ m <= l - 1 /\ l - 1 <= k /\ l \in 1..k
    <3>. HIDE DEF k, Keeps
    <3>. QED  BY <1>1, <2>2
  <2>4. Keeps(l - 1)
    <3>. HIDE DEF k, Keeps
    <3>. QED  BY <2>1, <2>3
  <2>. DEFINE a == flat[l - 1]
              b == flat[l]
              c == cs[l]
              d == flat[m]
  <2>5. /\ Len(a) \in Nat /\ Len(b) \in Nat /\ Len(c) \in Nat /\ Len(b) = Len(a) + Len(c)
        /\ \A i \in 1..Len(a) : b[i] = a[i]
    <3>1. Placed(a, c, b, E)
      BY <2>3, JoinsPlaces
    <3>. HIDE DEF a, b, c
    <3>. QED  BY <3>1 DEF Placed
  <2>6. Len(d) \in Nat /\ Len(d) <= Len(a) /\ \A i \in 1..Len(d) : a[i] = d[i]
    BY <1>2, <2>4
  <2>7. Keeps(l)
    <3>. SUFFICES Len(d) <= Len(b) /\ \A i \in 1..Len(d) : b[i] = d[i]
      OBVIOUS
    <3>. HIDE DEF a, b, c, d
    <3>. QED  BY <2>5, <2>6
  <2>. QED  BY <2>7
<1>. QED
  <2>. HIDE DEF Keeps
  <2>1. n \in Nat /\ n <= k
    OBVIOUS
  <2>2. Keeps(n)
    BY <1>3, <2>1, Zenon
  <2>. QED  BY <1>2, <2>2 DEF Keeps

\* chunkSQSStandardEvents: where the events of a chunk are among all events.
LEMMA ChunkPlaces ==
    ASSUME NEW E, NEW cs \in Seq(Seq(E)), NEW flat, Joins(flat, cs, E),
           NEW n \in 1..Len(cs), NEW i \in DOMAIN cs[n]
    PROVE  /\ i \in Nat /\ i >= 1 /\ Len(flat[n - 1]) \in Nat /\ Len(flat[n]) \in Nat
           /\ Len(flat[n - 1]) + i <= Len(flat[n])
           /\ Len(flat[n - 1]) + i \in DOMAIN flat[Len(cs)]
           /\ flat[Len(cs)][Len(flat[n - 1]) + i] = cs[n][i]
<1>. DEFINE k == Len(cs)
            s == flat[n - 1]
            t == cs[n]
            u == flat[n]
            w == flat[k]
<1>1. k \in 1..k /\ k \in Nat /\ n <= k
  OBVIOUS
<1>2. /\ t \in Seq(E)
      /\ Len(s) \in Nat /\ Len(t) \in Nat /\ Len(u) \in Nat /\ Len(u) = Len(s) + Len(t)
      /\ \A l \in 1..Len(t) : u[Len(s) + l] = t[l]
  <2>1. Placed(s, t, u, E)
    BY JoinsPlaces
  <2>. HIDE DEF s, t, u
  <2>. QED  BY <2>1 DEF Placed
<1>3. w \in Seq(E)
  <2>1. Placed(flat[k - 1], cs[k], w, E)
    BY <1>1, JoinsPlaces
  <2>. HIDE DEF w
  <2>. QED  BY <2>1 DEF Placed
<1>4. Len(w) \in Nat /\ Len(u) <= Len(w) /\ \A l \in 1..Len(u) : w[l] = u[l]
  BY <1>1, JoinsKeep
<1>. HIDE DEF s, t, u, w, k
<1>5. i \in 1..Len(t) /\ DOMAIN w = 1..Len(w)
  BY <1>2, <1>3 DEF t
<1>6. /\ i \in Nat /\ i >= 1 /\ Len(s) + i <= Len(u)
      /\ Len(s) + i \in DOMAIN w /\ w[Len(s) + i] = t[i]
  <2>1. Len(s) + i \in 1..Len(u) /\ Len(s) + i \in 1..Len(w) /\ i \in Nat /\ i >= 1 /\ Len(s) + i <= Len(u)
    BY <1>2, <1>4, <1>5
  <2>2. w[Len(s) + i] = u[Len(s) + i] /\ u[Len(s) + i] = t[i]
    BY <1>2, <1>4, <1>5, <2>1
  <2>. QED  BY <1>5, <2>1, <2>2
<1>. QED  BY <1>2, <1>6 DEF s, t, u, w, k

\* chunkSQSStandardEvents: an event is in one chunk only.
LEMMA ChunksAreApart ==
    ASSUME NEW E, NEW cs \in Seq(Seq(E)), NEW a \in DOMAIN cs, NEW b \in DOMAIN cs, a < b,
           \A i, j \in DOMAIN FlattenSeq(cs) : i # j => FlattenSeq(cs)[i] # FlattenSeq(cs)[j]
    PROVE  Range(cs[a]) \cap Range(cs[b]) = {}
<1>. SUFFICES ASSUME NEW i \in DOMAIN cs[a], NEW j \in DOMAIN cs[b], cs[a][i] = cs[b][j] PROVE FALSE
  BY DEF Range
<1>1. PICK flat : Joins(flat, cs, E) /\ FlattenSeq(cs) = flat[Len(cs)]
  BY FlattenIsJoin
<1>. DEFINE k == Len(cs)
            p == Len(flat[a - 1]) + i
            q == Len(flat[b - 1]) + j
<1>2. a \in 1..k /\ b \in 1..k /\ b - 1 \in 1..k /\ a <= b - 1
  OBVIOUS
<1>3. /\ i \in Nat /\ Len(flat[a - 1]) \in Nat
      /\ p <= Len(flat[a]) /\ p \in DOMAIN flat[k] /\ flat[k][p] = cs[a][i]
  BY <1>1, <1>2, ChunkPlaces
<1>4. /\ j \in Nat /\ j >= 1 /\ Len(flat[b - 1]) \in Nat
      /\ q \in DOMAIN flat[k] /\ flat[k][q] = cs[b][j]
  BY <1>1, <1>2, ChunkPlaces
<1>5. Len(flat[a]) <= Len(flat[b - 1]) /\ Len(flat[a]) \in Nat
  BY <1>1, <1>2, JoinsKeep
<1>6. p # q
  BY <1>3, <1>4, <1>5
<1>. HIDE DEF p, q
<1>. QED  BY <1>1, <1>3, <1>4, <1>6

\* Some request takes all these events.
OneRequest(events) == \E chunk \in Seq(Events) : FitsRequest(chunk, Size) /\ events \subseteq Range(chunk)

\* messageSize: an event by itself is no larger than a request.
LEMMA SingleFits ==
    ASSUME NEW e \in Events
    PROVE  OneRequest({e})
<1>. DEFINE c == <<e>>
<1>1. c \in Seq(Events) /\ Len(c) = 1 /\ c = Append(<<>>, e) /\ <<>> \in Seq(Events)
  OBVIOUS
<1>2. {e} \subseteq Range(c)
  BY DEF Range
<1>. HIDE DEF c
<1>3. Size \in [Events -> Nat] /\ Size[e] \in Nat /\ Size[e] <= MaxBytes /\ MaxEntries >= 1 /\ MaxEntries \in Nat
  BY SQSAssumption, ChunksAssumption
<1>4. Bytes(<<>>, Size) = 0
  BY <1>3, BytesOfNone
<1>5. Bytes(c, Size) = Bytes(<<>>, Size) + Size[e]
  BY <1>1, <1>3, BytesOfMore
<1>6. FitsRequest(c, Size)
  BY <1>1, <1>3, <1>4, <1>5 DEF FitsRequest
<1>. QED  BY <1>1, <1>2, <1>6 DEF OneRequest

\* sendSQSStandardEvents: the chunks of a queue's events share none of them, and each
\* is one request.
LEMMA ChunksOfEvents ==
    ASSUME NEW events \in SUBSET Events
    PROVE  /\ \A c \in ChunksOf(events) : OneRequest(c)
           /\ \A c, d \in ChunksOf(events) : c = d \/ c \cap d = {}
<1>. DEFINE cs == chunkSQSStandardEvents(InOrder(events), Size)
<1>1. InOrder(events) \in Seq(Events) /\ Size \in [Events -> 1..MaxBytes]
  BY EventsInOrder, SQSAssumption
<1>2. /\ cs \in Seq(Seq(Events)) /\ FlattenSeq(cs) = InOrder(events)
      /\ \A i \in DOMAIN cs : FitsRequest(cs[i], Size)
  BY <1>1, ChunksFit
<1>3. \A c \in ChunksOf(events) : \E i \in DOMAIN cs : c = Range(cs[i])
  BY DEF ChunksOf, Range
<1>. HIDE DEF cs
<1>4. DOMAIN cs \subseteq Nat /\ \A i \in DOMAIN cs : cs[i] \in Seq(Events)
  BY <1>2
<1>5. \A i \in DOMAIN cs : OneRequest(Range(cs[i]))
  BY <1>2, <1>4, Zenon DEF OneRequest
<1>6. \A a, b \in DOMAIN cs : a < b => Range(cs[a]) \cap Range(cs[b]) = {}
  <2>1. \A i, j \in DOMAIN FlattenSeq(cs) : i # j => FlattenSeq(cs)[i] # FlattenSeq(cs)[j]
    BY <1>2, EventsInOrder, Zenon
  <2>. QED  BY <1>2, <2>1, ChunksAreApart, Zenon
<1>7. ASSUME NEW a \in DOMAIN cs, NEW b \in DOMAIN cs
      PROVE  Range(cs[a]) = Range(cs[b]) \/ Range(cs[a]) \cap Range(cs[b]) = {}
  <2>1. a < b \/ b < a \/ a = b
    BY <1>4
  <2>. QED  BY <1>6, <2>1, Zenon
<1>. QED  BY <1>3, <1>5, <1>7, Zenon

\* sendSQSQueueEvents: a job of a standard queue is one request.
LEMMA JobsOfRequests ==
    ASSUME NEW events \in SUBSET Events, NEW j \in Events, ~Fifo(j)
    PROVE  OneRequest({e \in Events : JobsOf(events)[e] = j})
<1>. DEFINE standard(q) == {e \in events : RouteOf[e] = q /\ ~Fifo(e)}
            Peers(e) == IF Fifo(e) THEN {f \in events : f = e \/ Before(e, f) \/ Before(f, e)}
                        ELSE {f \in standard(RouteOf[e]) :
                                f = e \/ \E c \in ChunksOf(standard(RouteOf[e])) : {e, f} \subseteq c}
            J == {e \in Events : JobsOf(events)[e] = j}
            chunks == ChunksOf(standard(RouteOf[j]))
<1>1. JobsOf(events) = [e \in Events |-> IF e \in events THEN Min(Peers(e)) ELSE e]
  BY Zenon DEF JobsOf
<1>2. ASSUME NEW e \in events
      PROVE  Min(Peers(e)) \in Peers(e)
  <2>1. Peers(e) \in SUBSET Nat /\ e \in Peers(e)
    BY EventsAssumption
  <2>. HIDE DEF Peers
  <2>. QED  BY <2>1, Least
<1>3. ASSUME NEW e \in J
      PROVE  e = j \/ \E c \in chunks : {e, j} \subseteq c
  <2>1. CASE e \notin events
    BY <1>1, <2>1
  <2>2. CASE e \in events
    <3>1. j \in Peers(e)
      <4>. HIDE DEF Peers
      <4>. QED  BY <1>1, <1>2, <2>2
    <3>2. ~Fifo(e)
      BY <2>2, <3>1, GroupsAreRouted DEF Fifo, Before
    <3>3. j \in standard(RouteOf[e])
      BY <3>1, <3>2
    <3>4. RouteOf[e] = RouteOf[j]
      BY <3>3
    <3>. QED  BY <3>1, <3>2, <3>4, Zenon
  <2>. QED  BY <2>1, <2>2
<1>4. standard(RouteOf[j]) \in SUBSET Events
  OBVIOUS
<1>5. /\ \A c \in chunks : OneRequest(c)
      /\ \A c, d \in chunks : c = d \/ c \cap d = {}
  BY <1>4, ChunksOfEvents, Zenon
<1>. HIDE DEF J, chunks
<1>6. CASE \E c \in chunks : j \in c
  <2>1. PICK c \in chunks : j \in c
    BY <1>6
  <2>2. \A d \in chunks : j \in d => d = c
    BY <1>5, <2>1
  <2>3. J \subseteq c
    BY <1>3, <2>1, <2>2
  <2>. QED  BY <1>5, <2>1, <2>3 DEF OneRequest, J
<1>7. CASE ~\E c \in chunks : j \in c
  <2>1. J \subseteq {j}
    BY <1>3, <1>7
  <2>. QED  BY <2>1, SingleFits DEF OneRequest, J
<1>. QED  BY <1>6, <1>7

\* Each job of a standard queue is one request, also of events that have none yet.
JobsFit == \A j \in Events : ~Fifo(j) => OneRequest(JobOf(j))

\* sendSQSBatchWithSemaphore: whatever is sent in one request, SQS takes as one: not
\* too many entries and not too many bytes.
RequestsFit == \A j \in Events : Cardinality(Request(j)) <= MaxEntries /\ OneRequest(Request(j))

\* Without a call every event is a job of its own.
LEMMA OwnJobs ==
    ASSUME NEW j \in Events
    PROVE  OneRequest({e \in Events : [f \in Events |-> f][e] = j})
<1>1. {e \in Events : [f \in Events |-> f][e] = j} = {j}
  OBVIOUS
<1>. QED  BY <1>1, SingleFits

\* sendSQSQueueEvents: jobs are made when a call starts and stay the same until it
\* returns.
THEOREM JobsAreRequests == Spec => []JobsFit
<1>1. Init => JobsFit
  BY OwnJobs DEF Init, JobsFit, JobOf
<1>2. JobsFit /\ [Next]_vars => JobsFit'
  <2>. SUFFICES ASSUME JobsFit, [Next]_vars PROVE JobsFit'
    OBVIOUS
  <2>1. CASE job' = job
    BY <2>1 DEF JobsFit, JobOf
  <2>2. ASSUME NEW batch \in SUBSET Events, StartSend(batch) PROVE JobsFit'
    <3>1. batch \ PoisonAtOnce(batch) \in SUBSET Events /\ job' = JobsOf(batch \ PoisonAtOnce(batch))
      BY <2>2 DEF StartSend
    <3>. QED  BY <3>1, JobsOfRequests DEF JobsFit, JobOf
  <2>3. CASE FinishSend
    BY <2>3, OwnJobs DEF FinishSend, JobsFit, JobOf
  <2>4. \/ job' = job
        \/ FinishSend
        \/ \E batch \in SUBSET Events : StartSend(batch)
    BY DEF Next, vars, Step, End, RejectInvalid, Acquire, CancelWait, Isolate, Respond, RefuseSingle,
           Refuse, Fail, Land, Cancel, Restart
  <2>. QED  BY <2>1, <2>2, <2>3, <2>4
<1>. QED  BY <1>1, <1>2, PTL DEF Spec

\* Events that one request takes are no more than its entries.
LEMMA OneRequestEntries ==
    ASSUME NEW events, OneRequest(events)
    PROVE  Cardinality(events) <= MaxEntries
<1>1. PICK chunk \in Seq(Events) : FitsRequest(chunk, Size) /\ events \subseteq Range(chunk)
  BY DEF OneRequest
<1>. DEFINE n == Len(chunk)
<1>2. n \in Nat /\ n <= MaxEntries /\ DOMAIN chunk = 1..n /\ MaxEntries \in Nat
  BY <1>1, ChunksAssumption DEF FitsRequest
<1>3. chunk \in Surjection(1..n, Range(chunk))
  BY <1>2 DEF Surjection, Range
<1>4. IsFiniteSet(1..n) /\ Cardinality(1..n) = n
  <2>. HIDE DEF n
  <2>. QED  BY <1>2, FS_Interval
<1>5. IsFiniteSet(Range(chunk)) /\ Cardinality(Range(chunk)) <= n
  BY <1>3, <1>4, FS_Surjection
<1>6. IsFiniteSet(events) /\ Cardinality(events) <= Cardinality(Range(chunk))
  BY <1>1, <1>5, FS_Subset
<1>7. Cardinality(events) \in Nat /\ Cardinality(Range(chunk)) \in Nat
  BY <1>5, <1>6, FS_CardinalityType
<1>. QED  BY <1>2, <1>5, <1>6, <1>7

\* sendSQSBatchWithSemaphore: no request, of a call, of one after it or of one that is
\* taken apart, has more entries or bytes than SQS takes.
THEOREM RequestsAreTaken == Spec => []RequestsFit
<1>1. IInv /\ JobsFit => RequestsFit
  <2>. SUFFICES ASSUME IInv, JobsFit, NEW j \in Events PROVE OneRequest(Request(j))
    BY OneRequestEntries DEF RequestsFit
  <2>1. CASE ~Fifo(j)
    <3>1. Request(j) \subseteq JobOf(j)
      BY DEF Request
    <3>. QED  BY <2>1, <3>1 DEF JobsFit, OneRequest
  <2>2. CASE Fifo(j)
    <3>1. \A e, f \in Request(j) : e = f
      BY <2>2 DEF Request, JobOf, IInv, FifoAlone, Jobs, At, Working
    <3>2. \E e \in Events : Request(j) \subseteq {e}
      <4>1. Request(j) \subseteq Events
        BY DEF Request, JobOf
      <4>. QED  BY <3>1, <4>1
    <3>. QED  BY <3>2, SingleFits DEF OneRequest
  <2>. QED  BY <2>1, <2>2
<1>. QED  BY <1>1, JobsAreRequests, SQSInvariant, PTL

-----------------------------------------------------------------------------
(* What the relay may conclude from the contract alone.                    *)

\* provider.Sender: the contract's steps keep its promise.
LEMMA ContractKeeps ==
    ASSUME Contract!Promise, [Contract!Next]_Contract!vars
    PROVE  Contract!Promise'
<1>. USE DEF Contract!Promise, Contract!Truthful, Contract!GroupsHaveNoGap
<1>1. CASE Contract!Call
  BY <1>1 DEF Contract!Call, Contract!Changed
<1>2. CASE Contract!Work
  BY <1>2 DEF Contract!Work, Contract!Accept, Contract!Report, Contract!Changed, Contract!Reports
<1>3. CASE Contract!Return
  BY <1>3 DEF Contract!Return
<1>4. CASE UNCHANGED Contract!vars
  BY <1>4 DEF Contract!vars
<1>. QED  BY <1>1, <1>2, <1>3, <1>4 DEF Contract!Next

\* S0, S2 (provider.Sender): what the SQS sender reported, in this call or an
\* earlier one, is true, and nothing it delivered has a gap before it in its group.
THEOREM SQSKeepsPromise == Spec => []Contract!Promise
<1>1. Contract!Init => Contract!Promise
  BY DEF Contract!Init, Contract!Promise, Contract!Truthful, Contract!GroupsHaveNoGap
<1>2. Contract!Promise /\ [Contract!Next]_Contract!vars => Contract!Promise'
  BY ContractKeeps
<1>. QED  BY <1>1, <1>2, SQSImplementsSender, PTL DEF ImplementsSender, Contract!Spec
=============================================================================
