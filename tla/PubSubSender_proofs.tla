------------------------- MODULE PubSubSender_proofs -------------------------
(***************************************************************************)
(* The Pub/Sub sender, for every set of events, keys and faults: no group  *)
(* finds its key paused, no key has two publishes under way, and every     *)
(* step is one that the contract of Sender allows.                         *)
(***************************************************************************)
EXTENDS PubSubSender, TLAPS

Hopeless == Invalid \cup Rejected
Unfinished == Published \cup {"waiting"}

\* Send will end the process: a publish of a key timed out, or the context is
\* cancelled.
Ending == "fatal" \in errors \/ stopping

\* Between calls every event is in the outbox or gone; unordered events are over
\* before the groups start.
Phases ==
    \A e \in Events :
        /\ phase \in {"idle", "exited"} => stage[e] \in {"outbox", "gone"}
        /\ phase \in {"publish", "await"} /\ Ordered(e) => stage[e] \in {"outbox", "gone", "waiting"}
        /\ phase = "publish" /\ ~Ordered(e) => stage[e] \in {"outbox", "gone", "waiting", "poison"}
        /\ phase = "await" /\ ~Ordered(e) => stage[e] # "waiting"
        /\ phase = "groups" /\ ~Ordered(e) => stage[e] \notin Unfinished

\* A group is worked off from its head: behind an event that is done only events
\* that are done, behind one that is kept nothing but kept ones.
Heads ==
    \A e, f \in Events : Before(f, e) =>
        /\ stage[e] = "gone" => stage[f] = "gone"
        /\ stage[e] \in Published \cup {"confirmed", "poison"} => stage[f] \in {"confirmed", "poison", "gone"}
        /\ stage[e] = "waiting" => stage[f] \in Unfinished \cup {"confirmed", "poison", "gone"}
        /\ stage[e] = "kept" => stage[f] \in {"kept", "confirmed", "poison", "gone"}

\* Every earlier event of e's key was accepted or never can be.
Clear(e) == \A f \in Events : Before(f, e) => f \in delivered \cup Hopeless

\* A publish that is under way, or may yet be accepted unseen, is in order; with a
\* key it has a reader or the process is ending.
Publishes ==
    \A e \in Events :
        /\ result[e] = "pending" \/ stage[e] \in Published \/ e \in orphans =>
              e \notin Invalid /\ Clear(e)
        /\ result[e] = "pending" /\ Ordered(e) =>
              stage[e] \in Published \/ (stage[e] = "kept" /\ Ending)

\* What was reported is true.
Reports ==
    \A e \in Events :
        /\ result[e] = "ok" => e \in delivered
        /\ result[e] = "permanent" /\ stage[e] = "isolated" => e \in Rejected
        /\ stage[e] = "confirmed" => e \in delivered
        /\ stage[e] = "poison" => e \in Hopeless
        /\ stage[e] = "gone" => e \in delivered \cup Hopeless

\* A key is paused only while its failed publish has not been read, or until the
\* process ends.
PausedForCause ==
    \A g \in paused : \E e \in Events :
        /\ GroupOf[e] = g
        /\ \/ stage[e] \in Published /\ result[e] \in {"permanent", "error"}
           \/ stage[e] = "kept" /\ Ending

\* At most one publish of a key is under way.
OnePending ==
    \A e, f \in Pending : Ordered(e) /\ GroupOf[e] = GroupOf[f] => e = f

IInv == TypeOK /\ Phases /\ Heads /\ Publishes /\ Reports /\ PausedForCause /\ OnePending
-----------------------------------------------------------------------------
(* What the invariant says of the event a group has reached.               *)

\* Whatever is ahead of it was accepted or never can be.
LEMMA TurnIsClear ==
    ASSUME IInv, NEW e \in Events, Turn(e)
    PROVE  Clear(e)
<1>. SUFFICES ASSUME NEW f \in Events, Before(f, e) PROVE f \in delivered \cup Hopeless
  BY DEF Clear
<1>1. stage[f] \in {"confirmed", "poison", "gone"}
  BY DEF Turn, At, IInv, Heads, Unfinished, Before
<1>. QED  BY <1>1 DEF IInv, Reports

\* No event of its key is with the client or kept.
LEMMA TurnIsFirst ==
    ASSUME IInv, NEW e \in Events, Turn(e), Ordered(e),
           NEW f \in Events, GroupOf[f] = GroupOf[e]
    PROVE  stage[f] \notin Published \cup {"kept"}
<1>1. f = e \/ Before(f, e) \/ Before(e, f)
  BY EventsAssumption DEF Before, Ordered
<1>2. CASE f = e
  BY <1>2 DEF Turn, Published
<1>3. CASE Before(f, e)
  BY <1>3 DEF Turn, At, IInv, Heads, Unfinished, Published
<1>4. CASE Before(e, f)
  BY <1>4 DEF Turn, IInv, Heads, Published
<1>. QED  BY <1>1, <1>2, <1>3, <1>4

\* Its key has no publish under way.
LEMMA TurnIsAlone ==
    ASSUME IInv, NEW e \in Events, Turn(e), Ordered(e)
    PROVE  \A f \in Pending : GroupOf[f] # GroupOf[e]
<1>. SUFFICES ASSUME NEW f \in Pending, GroupOf[f] = GroupOf[e] PROVE FALSE
  OBVIOUS
<1>1. f \in Events /\ Ordered(f) /\ result[f] = "pending"
  BY DEF Pending, Ordered
<1>. QED  BY <1>1, TurnIsFirst DEF IInv, Publishes

\* A publish whose result is awaited is its key's only one.
LEMMA PublishedIsAlone ==
    ASSUME IInv, NEW e \in Events, stage[e] \in Published, Ordered(e)
    PROVE  \A f \in Pending : GroupOf[f] = GroupOf[e] => f = e
<1>. SUFFICES ASSUME NEW f \in Pending, GroupOf[f] = GroupOf[e], f # e PROVE FALSE
  OBVIOUS
<1>1. f \in Events /\ Ordered(f) /\ stage[f] \in Published \cup {"kept"}
  BY DEF Pending, Ordered, IInv, Publishes
<1>2. Before(f, e) \/ Before(e, f)
  BY <1>1, EventsAssumption DEF Before, Ordered
<1>. QED  BY <1>1, <1>2 DEF IInv, Heads, Published

-----------------------------------------------------------------------------
(* One lemma per action.                                                   *)

\* Send is called between calls: every event is in the outbox or gone, and no key is
\* paused.
LEMMA StartSendInv ==
    ASSUME IInv, NEW batch \in SUBSET Events, StartSend(batch)
    PROVE  IInv'
<1>. USE EventsAssumption, UnparsableAssumption
<1>1. TypeOK'
  BY DEF IInv, StartSend, TypeOK, At, Pending, Ordered, Published, Stages, Sending
<1>2. Phases'
  BY DEF IInv, TypeOK, StartSend, Phases, Unfinished, At, Pending, Ordered, Published, Stages, Sending
<1>3. Heads'
  BY DEF IInv, TypeOK, StartSend, Heads, Unfinished, Before, At, Pending, Ordered, Published, Stages, Sending, Phases
<1>4. Publishes'
  BY DEF IInv, TypeOK, StartSend, Publishes, Clear, Hopeless, Ending, At, Pending, Ordered, Published, Stages, Sending
<1>5. Reports'
  BY DEF IInv, TypeOK, StartSend, Reports, Hopeless, At, Pending, Ordered, Published, Stages, Sending
<1>6. PausedForCause'
  BY DEF IInv, TypeOK, StartSend, PausedForCause, Ending, At, Pending, Ordered, Published, Stages, Sending, Phases
<1>7. OnePending'
  BY DEF IInv, TypeOK, StartSend, OnePending, Pending, At, Ordered, Published, Stages, Sending
<1>. QED  BY <1>1, <1>2, <1>3, <1>4, <1>5, <1>6, <1>7 DEF IInv

\* Publishes without a key touch no group.
LEMMA PublishUnorderedInv ==
    ASSUME IInv, PublishUnordered
    PROVE  IInv'
<1>. USE EventsAssumption, UnparsableAssumption
<1>1. TypeOK'
  BY DEF IInv, PublishUnordered, TypeOK, At, Ordered, Published, Stages, Sending
<1>2. Phases'
  BY DEF IInv, TypeOK, PublishUnordered, Phases, Unfinished, At, Ordered, Published, Stages, Sending
<1>3. Heads'
  BY DEF IInv, TypeOK, PublishUnordered, Heads, Unfinished, Before, At, Ordered, Published, Stages, Sending
<1>4. Publishes'
  BY DEF IInv, TypeOK, PublishUnordered, Publishes, Clear, Hopeless, Ending, At, Ordered, Published, Stages, Sending, Before
<1>5. Reports'
  BY DEF IInv, TypeOK, PublishUnordered, Reports, Hopeless, At, Ordered, Published, Stages, Sending
<1>6. PausedForCause'
  BY DEF IInv, TypeOK, PublishUnordered, PausedForCause, Ending, At, Ordered, Published, Stages, Sending
<1>7. OnePending'
  BY DEF IInv, TypeOK, PublishUnordered, OnePending, Pending, At, Ordered, Published, Stages, Sending
<1>. QED  BY <1>1, <1>2, <1>3, <1>4, <1>5, <1>6, <1>7 DEF IInv

\* The groups start when no unordered publish is left.
LEMMA StartGroupsInv ==
    ASSUME IInv, StartGroups
    PROVE  IInv'
<1>. USE EventsAssumption, UnparsableAssumption
<1>1. TypeOK'
  BY DEF IInv, StartGroups, TypeOK, At, Published, Stages, Sending
<1>2. Phases'
  BY DEF IInv, TypeOK, StartGroups, Phases, Unfinished, At, Published, Stages, Sending
<1>3. Heads'
  BY DEF IInv, TypeOK, StartGroups, Heads, Unfinished, Before, At, Published, Stages, Sending
<1>4. Publishes'
  BY DEF IInv, TypeOK, StartGroups, Publishes, Clear, Hopeless, Ending, At, Published, Stages, Sending
<1>5. Reports'
  BY DEF IInv, TypeOK, StartGroups, Reports, Hopeless, At, Published, Stages, Sending
<1>6. PausedForCause'
  BY DEF IInv, TypeOK, StartGroups, PausedForCause, Ending, At, Published, Stages, Sending
<1>7. OnePending'
  BY DEF IInv, TypeOK, StartGroups, OnePending, Pending, At, Published, Stages, Sending
<1>. QED  BY <1>1, <1>2, <1>3, <1>4, <1>5, <1>6, <1>7 DEF IInv

\* Everything ahead of a group's next event is done.
LEMMA RejectInvalidInv ==
    ASSUME IInv, NEW e \in Events, RejectInvalid(e)
    PROVE  IInv'
<1>. USE EventsAssumption, UnparsableAssumption
<1>1. TypeOK'
  BY DEF IInv, RejectInvalid, TypeOK, Turn, At, Published, Stages, Sending
<1>2. Phases'
  BY DEF IInv, TypeOK, RejectInvalid, Phases, Unfinished, Turn, At, Published, Stages, Sending
<1>3. Heads'
  BY DEF IInv, TypeOK, RejectInvalid, Heads, Unfinished, Before, Turn, At, Published, Stages, Sending
<1>4. Publishes'
  BY DEF IInv, TypeOK, RejectInvalid, Publishes, Clear, Hopeless, Ending, Turn, At, Published, Stages, Sending
<1>5. Reports'
  BY DEF IInv, TypeOK, RejectInvalid, Reports, Hopeless, Turn, At, Published, Stages, Sending
<1>6. PausedForCause'
  BY DEF IInv, TypeOK, RejectInvalid, PausedForCause, Ending, Turn, At, Published, Stages, Sending
<1>7. OnePending'
  BY DEF IInv, TypeOK, RejectInvalid, OnePending, Pending, Turn, At, Published, Stages, Sending
<1>. QED  BY <1>1, <1>2, <1>3, <1>4, <1>5, <1>6, <1>7 DEF IInv

\* A group publishes when everything ahead of the event is done.
LEMMA PublishOrderedInv ==
    ASSUME IInv, NEW e \in Events, PublishOrdered(e)
    PROVE  IInv'
<1>. USE EventsAssumption, UnparsableAssumption
<1>1. TypeOK'
  BY DEF IInv, PublishOrdered, TypeOK, Turn, At, Ordered, Published, Stages, Sending
<1>2. Phases'
  BY DEF IInv, TypeOK, PublishOrdered, Phases, Unfinished, Turn, At, Ordered, Published, Stages, Sending
<1>3. Heads'
  BY DEF IInv, TypeOK, PublishOrdered, Heads, Unfinished, Before, Turn, At, Ordered, Published, Stages, Sending
<1>4. Publishes'
  BY TurnIsClear DEF IInv, TypeOK, PublishOrdered, Publishes, Clear, Ending, Turn, Published
<1>5. Reports'
  BY DEF IInv, TypeOK, PublishOrdered, Reports, Hopeless, Turn, At, Ordered, Published, Stages, Sending
<1>6. PausedForCause'
  BY DEF IInv, TypeOK, PublishOrdered, PausedForCause, Ending, Turn, At, Ordered, Published, Stages, Sending
<1>7. OnePending'
  BY TurnIsAlone DEF IInv, TypeOK, PublishOrdered, OnePending, Pending, Ordered
<1>. QED  BY <1>1, <1>2, <1>3, <1>4, <1>5, <1>6, <1>7 DEF IInv

\* A confirmed publish was accepted.
LEMMA ConfirmInv ==
    ASSUME IInv, NEW e \in Events, Confirm(e)
    PROVE  IInv'
<1>. USE EventsAssumption, UnparsableAssumption
<1>1. TypeOK'
  BY DEF IInv, Confirm, TypeOK, Awaits, At, Ordered, Published, Stages, Sending
<1>2. Phases'
  BY DEF IInv, TypeOK, Confirm, Phases, Unfinished, Awaits, At, Ordered, Published, Stages, Sending
<1>3. Heads'
  BY DEF IInv, TypeOK, Confirm, Heads, Unfinished, Before, Awaits, At, Ordered, Published, Stages, Sending
<1>4. Publishes'
  BY DEF IInv, TypeOK, Confirm, Publishes, Clear, Hopeless, Ending, Awaits, At, Ordered, Published, Stages, Sending
<1>5. Reports'
  BY DEF IInv, TypeOK, Confirm, Reports, Hopeless, Awaits, At, Ordered, Published, Stages, Sending
<1>6. PausedForCause'
  BY DEF IInv, TypeOK, Confirm, PausedForCause, Ending, Awaits, At, Ordered, Published, Stages, Sending
<1>7. OnePending'
  BY DEF IInv, TypeOK, Confirm, OnePending, Pending, Awaits, At, Ordered, Published, Stages, Sending
<1>. QED  BY <1>1, <1>2, <1>3, <1>4, <1>5, <1>6, <1>7 DEF IInv

\* An isolated publish is its key's only one, and the key is resumed.
LEMMA IsolateInv ==
    ASSUME IInv, NEW e \in Events, Isolate(e)
    PROVE  IInv'
<1>. USE EventsAssumption, UnparsableAssumption
<1>1. TypeOK'
  BY DEF IInv, Isolate, TypeOK, Awaits, At, Ordered, Resumed, Published, Stages, Sending
<1>2. Phases'
  BY DEF IInv, TypeOK, Isolate, Phases, Unfinished, Awaits, At, Ordered, Resumed, Published, Stages, Sending
<1>3. Heads'
  BY DEF IInv, TypeOK, Isolate, Heads, Unfinished, Before, Awaits, At, Ordered, Resumed, Published, Stages, Sending
<1>4. Publishes'
  BY DEF IInv, TypeOK, Isolate, Publishes, Clear, Hopeless, Ending, Awaits, At, Ordered, Resumed, Published, Stages, Sending
<1>5. Reports'
  BY DEF IInv, TypeOK, Isolate, Reports, Hopeless, Awaits, At, Ordered, Resumed, Published, Stages, Sending
<1>6. PausedForCause'
  BY DEF IInv, TypeOK, Isolate, PausedForCause, Ending, Awaits, At, Ordered, Resumed, Published, Stages, Sending
<1>7. OnePending'
  <2>1. \A f \in Pending : Ordered(e) /\ GroupOf[f] = GroupOf[e] => f = e
    BY PublishedIsAlone DEF Isolate, Awaits
  <2>. QED  BY <2>1 DEF IInv, TypeOK, Isolate, OnePending, Pending, Ordered
<1>. QED  BY <1>1, <1>2, <1>3, <1>4, <1>5, <1>6, <1>7 DEF IInv

\* Refused alone, the content is at fault.
LEMMA PoisonInv ==
    ASSUME IInv, NEW e \in Events, Poison(e)
    PROVE  IInv'
<1>. USE EventsAssumption, UnparsableAssumption
<1>1. TypeOK'
  BY DEF IInv, Poison, TypeOK, Awaits, At, Ordered, Resumed, Published, Stages, Sending
<1>2. Phases'
  BY DEF IInv, TypeOK, Poison, Phases, Unfinished, Awaits, At, Ordered, Resumed, Published, Stages, Sending
<1>3. Heads'
  BY DEF IInv, TypeOK, Poison, Heads, Unfinished, Before, Awaits, At, Ordered, Resumed, Published, Stages, Sending
<1>4. Publishes'
  BY DEF IInv, TypeOK, Poison, Publishes, Clear, Hopeless, Ending, Awaits, At, Ordered, Resumed, Published, Stages, Sending
<1>5. Reports'
  BY DEF IInv, TypeOK, Poison, Reports, Hopeless, Awaits, At, Ordered, Resumed, Published, Stages, Sending
<1>6. PausedForCause'
  BY DEF IInv, TypeOK, Poison, PausedForCause, Ending, Awaits, At, Ordered, Resumed, Published, Stages, Sending
<1>7. OnePending'
  BY DEF IInv, TypeOK, Poison, OnePending, Pending, Awaits, At, Ordered, Resumed, Published, Stages, Sending
<1>. QED  BY <1>1, <1>2, <1>3, <1>4, <1>5, <1>6, <1>7 DEF IInv

\* A publish that is given up ends its group and resumes the key.
LEMMA GiveUpInv ==
    ASSUME IInv, NEW e \in Events, GiveUp(e)
    PROVE  IInv'
<1>. USE EventsAssumption, UnparsableAssumption
<1>1. TypeOK'
  BY DEF IInv, GiveUp, TypeOK, Awaits, At, Ordered, Resumed, Stopped, Published, Stages, Sending
<1>2. Phases'
  BY DEF IInv, TypeOK, GiveUp, Phases, Unfinished, Awaits, At, Ordered, Resumed, Stopped, Published, Stages, Sending, Before
<1>3. Heads'
  BY DEF IInv, TypeOK, GiveUp, Heads, Unfinished, Before, Awaits, At, Ordered, Resumed, Stopped, Published, Stages, Sending
<1>4. Publishes'
  BY DEF IInv, TypeOK, GiveUp, Publishes, Clear, Hopeless, Ending, Awaits, At, Ordered, Resumed, Stopped, Published, Stages, Sending
<1>5. Reports'
  BY DEF IInv, TypeOK, GiveUp, Reports, Hopeless, Awaits, At, Ordered, Resumed, Stopped, Published, Stages, Sending
<1>6. PausedForCause'
  BY DEF IInv, TypeOK, GiveUp, PausedForCause, Ending, Awaits, At, Ordered, Resumed, Stopped, Published, Stages, Sending
<1>7. OnePending'
  BY DEF IInv, TypeOK, GiveUp, OnePending, Pending, Awaits, At, Ordered, Resumed, Stopped, Published, Stages, Sending
<1>. QED  BY <1>1, <1>2, <1>3, <1>4, <1>5, <1>6, <1>7 DEF IInv

\* A publish of a key that times out stays with the client: the process will end.
LEMMA TimeOutInv ==
    ASSUME IInv, NEW e \in Events, TimeOut(e)
    PROVE  IInv'
<1>. USE EventsAssumption, UnparsableAssumption
<1>1. TypeOK'
  BY DEF IInv, TimeOut, TypeOK, Awaits, At, Ordered, Stopped, Published, Stages, Sending
<1>2. Phases'
  BY DEF IInv, TypeOK, TimeOut, Phases, Unfinished, Awaits, At, Ordered, Stopped, Published, Stages, Sending, Before
<1>3. Heads'
  BY DEF IInv, TypeOK, TimeOut, Heads, Unfinished, Before, Awaits, At, Ordered, Stopped, Published, Stages, Sending
<1>4. Publishes'
  BY DEF IInv, TypeOK, TimeOut, Publishes, Clear, Hopeless, Ending, Awaits, At, Ordered, Stopped, Published, Stages, Sending
<1>5. Reports'
  BY DEF IInv, TypeOK, TimeOut, Reports, Hopeless, Awaits, At, Ordered, Stopped, Published, Stages, Sending
<1>6. PausedForCause'
  BY DEF IInv, TypeOK, TimeOut, PausedForCause, Ending, Awaits, At, Ordered, Stopped, Published, Stages, Sending
<1>7. OnePending'
  BY DEF IInv, TypeOK, TimeOut, OnePending, Pending, Awaits, At, Ordered, Stopped, Published, Stages, Sending
<1>. QED  BY <1>1, <1>2, <1>3, <1>4, <1>5, <1>6, <1>7 DEF IInv

\* An answer concerns publishes that were pending, keys one by one.
LEMMA AnswerInv ==
    ASSUME IInv, NEW bundle \in Bundles, Resolve(bundle) \/ ResolveFails(bundle)
    PROVE  IInv'
<1>. USE EventsAssumption, UnparsableAssumption
<1>1. TypeOK'
  BY DEF IInv, TypeOK, Resolve, ResolveFails, Answer, Bundles, Pending, Ordered, Published, Stages, Sending
<1>2. Phases'
  BY DEF IInv, TypeOK, Phases, Unfinished, Resolve, ResolveFails, Answer, Bundles, Pending, Ordered, Published, Stages, Sending
<1>3. Heads'
  BY DEF IInv, TypeOK, Heads, Unfinished, Before, Resolve, ResolveFails, Answer, Bundles, Pending, Ordered, Published, Stages, Sending
<1>4. Publishes'
  BY DEF IInv, TypeOK, Publishes, Clear, Hopeless, Ending, Resolve, ResolveFails, Answer, Bundles, Pending, Ordered, Published, Stages, Sending
<1>5. Reports'
  BY DEF IInv, TypeOK, Reports, Hopeless, Resolve, ResolveFails, Answer, Bundles, Pending, Ordered, Published, Stages, Sending
<1>6. PausedForCause'
  BY DEF IInv, TypeOK, PausedForCause, Ending, Resolve, ResolveFails, Answer, Bundles, Pending, Ordered, Published, Stages, Sending, Publishes
<1>7. OnePending'
  BY DEF IInv, TypeOK, OnePending, Pending, Resolve, ResolveFails, Answer, Bundles, Ordered, Published, Stages, Sending
<1>. QED  BY <1>1, <1>2, <1>3, <1>4, <1>5, <1>6, <1>7 DEF IInv

\* An orphan that lands was in order when it was published.
LEMMA LandInv ==
    ASSUME IInv, NEW e \in Events, Land(e)
    PROVE  IInv'
<1>. USE EventsAssumption, UnparsableAssumption
<1>1. TypeOK'
  BY DEF IInv, Land, TypeOK, Published, Stages, Sending
<1>2. Phases'
  BY DEF IInv, TypeOK, Land, Phases, Unfinished, Published, Stages, Sending
<1>3. Heads'
  BY DEF IInv, TypeOK, Land, Heads, Unfinished, Before, Published, Stages, Sending
<1>4. Publishes'
  BY DEF IInv, TypeOK, Land, Publishes, Clear, Hopeless, Ending, Published, Stages, Sending
<1>5. Reports'
  BY DEF IInv, TypeOK, Land, Reports, Hopeless, Published, Stages, Sending
<1>6. PausedForCause'
  BY DEF IInv, TypeOK, Land, PausedForCause, Ending, Published, Stages, Sending
<1>7. OnePending'
  BY DEF IInv, TypeOK, Land, OnePending, Pending, Published, Stages, Sending
<1>. QED  BY <1>1, <1>2, <1>3, <1>4, <1>5, <1>6, <1>7 DEF IInv

\* Send returns with every key resumed, unless the process ends.
LEMMA FinishSendInv ==
    ASSUME IInv, FinishSend
    PROVE  IInv'
<1>. USE EventsAssumption, UnparsableAssumption
<1>1. TypeOK'
  BY DEF IInv, FinishSend, TypeOK, At, Pending, Ordered, Published, Stages, Sending
<1>2. Phases'
  BY DEF IInv, TypeOK, FinishSend, Phases, Unfinished, At, Pending, Ordered, Published, Stages, Sending
<1>3. Heads'
  BY DEF IInv, TypeOK, FinishSend, Heads, Unfinished, Before, At, Pending, Ordered, Published, Stages, Sending
<1>4. Publishes'
  BY DEF IInv, TypeOK, FinishSend, Publishes, Clear, Hopeless, Ending, At, Pending, Ordered, Published, Stages, Sending
<1>5. Reports'
  BY DEF IInv, TypeOK, FinishSend, Reports, Hopeless, At, Pending, Ordered, Published, Stages, Sending
<1>6. PausedForCause'
  BY DEF IInv, TypeOK, FinishSend, PausedForCause, Ending, At, Pending, Ordered, Published, Stages, Sending
<1>7. OnePending'
  BY DEF IInv, TypeOK, FinishSend, OnePending, Pending, At, Ordered, Published, Stages, Sending
<1>. QED  BY <1>1, <1>2, <1>3, <1>4, <1>5, <1>6, <1>7 DEF IInv

\* The context is cancelled at any time.
LEMMA CancelInv ==
    ASSUME IInv, Cancel
    PROVE  IInv'
<1>. USE EventsAssumption, UnparsableAssumption
<1>1. TypeOK'
  BY DEF IInv, Cancel, TypeOK, Published, Stages, Sending
<1>2. Phases'
  BY DEF IInv, TypeOK, Cancel, Phases, Unfinished, Published, Stages, Sending
<1>3. Heads'
  BY DEF IInv, TypeOK, Cancel, Heads, Unfinished, Before, Published, Stages, Sending
<1>4. Publishes'
  BY DEF IInv, TypeOK, Cancel, Publishes, Clear, Hopeless, Ending, Published, Stages, Sending
<1>5. Reports'
  BY DEF IInv, TypeOK, Cancel, Reports, Hopeless, Published, Stages, Sending
<1>6. PausedForCause'
  BY DEF IInv, TypeOK, Cancel, PausedForCause, Ending, Published, Stages, Sending
<1>7. OnePending'
  BY DEF IInv, TypeOK, Cancel, OnePending, Pending, Published, Stages, Sending
<1>. QED  BY <1>1, <1>2, <1>3, <1>4, <1>5, <1>6, <1>7 DEF IInv

\* An idle process that stops leaves its pending publishes to the service.
LEMMA StopInv ==
    ASSUME IInv, Stop
    PROVE  IInv'
<1>. USE EventsAssumption, UnparsableAssumption
<1>1. TypeOK'
  BY DEF IInv, Stop, TypeOK, Pending, Published, Stages, Sending
<1>2. Phases'
  BY DEF IInv, TypeOK, Stop, Phases, Unfinished, Pending, Published, Stages, Sending
<1>3. Heads'
  BY DEF IInv, TypeOK, Stop, Heads, Unfinished, Before, Pending, Published, Stages, Sending
<1>4. Publishes'
  BY DEF IInv, TypeOK, Stop, Publishes, Clear, Hopeless, Ending, Pending, Published, Stages, Sending
<1>5. Reports'
  BY DEF IInv, TypeOK, Stop, Reports, Hopeless, Pending, Published, Stages, Sending
<1>6. PausedForCause'
  BY DEF IInv, TypeOK, Stop, PausedForCause, Ending, Pending, Published, Stages, Sending
<1>7. OnePending'
  BY DEF IInv, TypeOK, Stop, OnePending, Pending, Published, Stages, Sending
<1>. QED  BY <1>1, <1>2, <1>3, <1>4, <1>5, <1>6, <1>7 DEF IInv

\* A new process has no publish of a key under way and no paused key.
LEMMA RestartInv ==
    ASSUME IInv, Restart
    PROVE  IInv'
<1>. USE EventsAssumption, UnparsableAssumption
<1>1. TypeOK'
  BY DEF IInv, Restart, TypeOK, Published, Stages, Sending
<1>2. Phases'
  BY DEF IInv, TypeOK, Restart, Phases, Unfinished, Published, Stages, Sending
<1>3. Heads'
  BY DEF IInv, TypeOK, Restart, Heads, Unfinished, Before, Published, Stages, Sending
<1>4. Publishes'
  BY DEF IInv, TypeOK, Restart, Publishes, Clear, Hopeless, Ending, Published, Stages, Sending, Phases
<1>5. Reports'
  BY DEF IInv, TypeOK, Restart, Reports, Hopeless, Published, Stages, Sending
<1>6. PausedForCause'
  BY DEF IInv, TypeOK, Restart, PausedForCause, Ending, Published, Stages, Sending, Phases
<1>7. OnePending'
  BY DEF IInv, TypeOK, Restart, OnePending, Pending, Published, Stages, Sending
<1>. QED  BY <1>1, <1>2, <1>3, <1>4, <1>5, <1>6, <1>7 DEF IInv

\* The sender starts with every event in the outbox and a new client.
LEMMA InitInv == Init => IInv
<1>. SUFFICES ASSUME Init PROVE IInv
  OBVIOUS
<1>1. TypeOK
  <2>1. stopping \in BOOLEAN
    BY Zenon DEF Init
  <2>. QED  BY <2>1 DEF Init, TypeOK, Sending, Stages
<1>2. Phases /\ Heads /\ Reports
  BY DEF Init, Phases, Heads, Reports, Published, Unfinished
<1>3. Publishes /\ PausedForCause /\ OnePending
  BY DEF Init, Publishes, PausedForCause, OnePending, Pending, Published
<1>. QED  BY <1>1, <1>2, <1>3 DEF IInv

\* Every step of the sender, the client and the process preserves the invariant.
LEMMA NextInv == IInv /\ [Next]_vars => IInv'
<1>1. ASSUME IInv, Next
      PROVE  IInv'
  <2>1. ASSUME Step PROVE IInv'
    BY <1>1, <2>1, PublishUnorderedInv, StartGroupsInv, RejectInvalidInv, PublishOrderedInv,
       ConfirmInv, IsolateInv, PoisonInv, GiveUpInv, FinishSendInv DEF Step
  <2>2. ASSUME NEW e \in Events, End(e) PROVE IInv'
    BY <1>1, <2>2, AnswerInv, TimeOutInv DEF End
  <2>. QED
    BY <1>1, <2>1, <2>2, StartSendInv, LandInv, CancelInv, StopInv, RestartInv DEF Next
<1>2. ASSUME IInv, UNCHANGED vars
      PROVE  IInv'
  BY <1>2 DEF vars, IInv, TypeOK, Phases, Heads, Publishes, Reports, PausedForCause, OnePending,
     Pending, Clear, Ending
<1>. QED  BY <1>1, <1>2

-----------------------------------------------------------------------------
(* The theorems.                                                           *)

\* The invariant holds for every set of events, keys, bad contents and faults.
THEOREM SenderInvariant == Spec => []IInv
BY InitInv, NextInv, PTL DEF Spec

\* ResumePublish: a group never finds its key paused when its turn comes, so a
\* failure of an earlier event or call is never mistaken for one of its own.
THEOREM KeysAreResumed == Spec => []NeverFindsKeyPaused
<1>1. ASSUME IInv PROVE NeverFindsKeyPaused
  <2>. SUFFICES ASSUME NEW e \in Events, Turn(e), GroupOf[e] \in paused PROVE FALSE
    BY DEF NeverFindsKeyPaused
  <2>1. Ordered(e)
    BY <1>1, EventsAssumption DEF IInv, TypeOK, Ordered
  <2>2. PICK f \in Events : GroupOf[f] = GroupOf[e] /\ stage[f] \in Published \cup {"kept"}
    BY <1>1 DEF IInv, PausedForCause
  <2>. QED  BY <1>1, <2>1, <2>2, TurnIsFirst
<1>. QED  BY <1>1, SenderInvariant, PTL

\* ErrFatalAfterCommit: one publish of a key at a time, across calls, also when the
\* sender has stopped waiting for one.
THEOREM OnePublishAtATime == Spec => []OnePublishPerKey
<1>1. ASSUME IInv PROVE OnePublishPerKey
  <2>. SUFFICES ASSUME NEW e \in Pending, NEW f \in Events, Ordered(e), GroupOf[e] = GroupOf[f]
                PROVE  ~Turn(f) /\ (f \in Pending => e = f)
    BY DEF OnePublishPerKey
  <2>1. ~Turn(f)
    BY <1>1, TurnIsAlone DEF Ordered
  <2>2. f \in Pending => e = f
    BY <1>1 DEF IInv, OnePending
  <2>. QED  BY <2>1, <2>2
<1>. QED  BY <1>1, SenderInvariant, PTL

-----------------------------------------------------------------------------
(* The contract.                                                           *)

\* What the relay sees of an event.
Status == [e \in Events |-> IF stage[e] \in Published \cup {"waiting"} THEN "pending" ELSE stage[e]]

\* A step that accepts some events and reports others is one of the contract's, if
\* what it reports is true, in order and the error is kept.
LEMMA WorkStep ==
    ASSUME delivered \subseteq delivered',
           \A e \in delivered' \ delivered : e \notin Hopeless /\ Clear(e),
           \A e \in Events : Status'[e] # Status[e] =>
               /\ Status[e] = "pending"
               /\ \/ Status'[e] = "confirmed" /\ e \in delivered'
                  \/ Status'[e] = "poison" /\ e \in Hopeless
                  \/ Status'[e] = "kept" /\ errors' # {}
               /\ \A f \in Events : Before(f, e) /\ Status'[f] \in {"pending", "kept"} =>
                     Status'[e] = "kept",
           errors # {} => errors' # {}
    PROVE  Contract!Next
<1>1. Contract!Accept
  BY DEF Contract!Accept, Contract!Before, Before, Clear, Hopeless
<1>2. Contract!Report
  BY DEF Contract!Report, Contract!Changed, Contract!Reports, Contract!Before, Before, Status, Hopeless
<1>. QED  BY <1>1, <1>2 DEF Contract!Next, Contract!Work

\* The relay's call: a batch that skips no event of a group.
LEMMA CallStep ==
    ASSUME IInv, NEW batch \in SUBSET Events, StartSend(batch)
    PROVE  Contract!Next
<1>1. \A e \in Events : stage[e] \in {"outbox", "gone"}
  BY DEF IInv, Phases, StartSend
<1>2. \A e \in Events : Status[e] = stage[e]
  BY <1>1 DEF Status, Published
<1>3. \A e \in Events : Status'[e] = IF e \notin batch THEN stage[e]
                                    ELSE IF e \in Unparsable THEN "poison" ELSE "pending"
  BY <1>1 DEF Status, Published, StartSend
<1>4. \A e \in batch : stage[e] = "outbox"
  BY DEF StartSend, At
<1>5. Contract!Call
  BY <1>1, <1>2, <1>3, <1>4, UnparsableAssumption
     DEF Contract!Call, Contract!Changed, Contract!Before, Before, Status, StartSend, At
<1>. QED  BY <1>5 DEF Contract!Next

\* Send returns, and the relay deletes what was reported.
LEMMA ReturnStep ==
    ASSUME IInv, FinishSend
    PROVE  Contract!Next
<1>1. \A e \in Events : stage[e] \notin Published \cup {"waiting"}
  BY DEF FinishSend, At
<1>2. \A e \in Events : Status[e] = stage[e] /\ Status[e] # "pending"
  BY <1>1 DEF Status, IInv, TypeOK, Stages, Published
<1>3. Status' = [e \in Events |-> CASE Status[e] \in {"confirmed", "poison"} -> "gone"
                                    [] Status[e] = "kept" -> "outbox"
                                    [] OTHER -> Status[e]]
  BY <1>1, <1>2 DEF Status, FinishSend, Published
<1>4. Contract!Return
  BY <1>2, <1>3 DEF Contract!Return, Status, FinishSend
<1>. QED  BY <1>4 DEF Contract!Next

\* Every step is one the contract allows, or changes nothing it speaks of.
LEMMA StepRefines ==
    ASSUME IInv, [Next]_vars
    PROVE  [Contract!Next]_Contract!vars
<1>. USE DEF Contract!vars
<1>1. ASSUME NEW e \in Events, RejectInvalid(e)
      PROVE  Contract!Next
  BY <1>1, WorkStep DEF RejectInvalid, Turn, Status, IInv, TypeOK, Heads, Unfinished, Published, Hopeless, At
<1>2. CASE PublishUnordered
  BY <1>2, WorkStep DEF PublishUnordered, Status, IInv, TypeOK, Published, Hopeless, At, Ordered, Before
<1>3. ASSUME NEW e \in Events, Confirm(e) \/ Poison(e)
      PROVE  Contract!Next
  BY <1>3, WorkStep DEF Confirm, Poison, Awaits, Status, IInv, TypeOK, Heads, Reports, Published, Hopeless
<1>4. ASSUME NEW e \in Events, GiveUp(e) \/ TimeOut(e)
      PROVE  Contract!Next
  BY <1>4, WorkStep DEF GiveUp, TimeOut, Awaits, Stopped, Status, IInv, TypeOK, Published, Before
<1>5. ASSUME NEW bundle \in Bundles, Resolve(bundle) \/ ResolveFails(bundle)
      PROVE  Contract!Next
  BY <1>5, WorkStep DEF Resolve, ResolveFails, Answer, Bundles, Pending, Status, IInv, Publishes, Hopeless
<1>6. ASSUME NEW e \in Events, Land(e)
      PROVE  Contract!Next
  BY <1>6, WorkStep DEF Land, Status, IInv, Publishes, Hopeless
<1>7. ASSUME NEW e \in Events, PublishOrdered(e) \/ Isolate(e)
      PROVE  Contract!Next
  BY <1>7, WorkStep DEF PublishOrdered, Isolate, Turn, Awaits, Status, IInv, TypeOK, Published
<1>8. CASE StartGroups \/ Cancel \/ Stop \/ Restart \/ UNCHANGED vars
  BY <1>8 DEF StartGroups, Cancel, Stop, Restart, vars
<1>9. CASE Step
  BY <1>1, <1>2, <1>3, <1>4, <1>7, <1>8, <1>9, ReturnStep DEF Step
<1>10. ASSUME NEW e \in Events, End(e)
       PROVE  Contract!Next
  BY <1>4, <1>5, <1>10 DEF End
<1>. QED  BY <1>6, <1>8, <1>9, <1>10, CallStep DEF Next

\* S2, S8 (provider.Sender): the Pub/Sub sender implements the contract the relay
\* relies on.
THEOREM PubSubImplementsSender == Spec => ImplementsSender
<1>1. Init => Contract!Init
  BY DEF Init, Contract!Init, Published
<1>. QED  BY <1>1, StepRefines, SenderInvariant, PTL DEF Spec, ImplementsSender, Contract!Spec

-----------------------------------------------------------------------------
(* What the relay may conclude from the contract alone.                    *)

\* provider.Sender: the contract's steps keep its promise.
LEMMA ContractKeeps ==
    ASSUME Contract!Promise, [Contract!Next]_Contract!vars
    PROVE  Contract!Promise'
<1>. USE DEF Contract!Promise, Contract!Truthful, Contract!GroupsHaveNoGap
<1>1. CASE Contract!Call
  BY <1>1 DEF Contract!Call, Contract!Changed
<1>2. CASE Contract!Work
  BY <1>2 DEF Contract!Work, Contract!Accept, Contract!Report, Contract!Changed, Contract!Reports
<1>3. CASE Contract!Return
  BY <1>3 DEF Contract!Return
<1>4. CASE UNCHANGED Contract!vars
  BY <1>4 DEF Contract!vars
<1>. QED  BY <1>1, <1>2, <1>3, <1>4 DEF Contract!Next

\* S0, S2 (provider.Sender): what the Pub/Sub sender reported, in this call or an
\* earlier one, is true, and nothing it delivered has a gap before it in its group.
THEOREM PubSubKeepsPromise == Spec => []Contract!Promise
<1>1. Contract!Init => Contract!Promise
  BY DEF Contract!Init, Contract!Promise, Contract!Truthful, Contract!GroupsHaveNoGap
<1>2. Contract!Promise /\ [Contract!Next]_Contract!vars => Contract!Promise'
  BY ContractKeeps
<1>. QED  BY <1>1, <1>2, PubSubImplementsSender, PTL DEF ImplementsSender, Contract!Spec
=============================================================================
