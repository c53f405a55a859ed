------------------------------- MODULE Relay --------------------------------
(***************************************************************************)
(* The batch loop of processor.go, run by several relay processes over one *)
(* outbox table: select and lock a batch in a transaction, publish it,     *)
(* dead-letter the poison, delete what is done, commit.  Publishing sits   *)
(* inside the transaction, so a lost connection, a failed commit, a        *)
(* shutdown or a crash leaves events published but not deleted, and        *)
(* another relay may lock the rows of a batch that is still being sent.    *)
(***************************************************************************)
EXTENDS Outbox, Collect

CONSTANTS
    Relays,      \* relay processes
    NoRelay,     \* holder of an unlocked row
    Owned,       \* the routes each relay collects (all of them, or its shard)
    PubSub,      \* events sent by the Pub/Sub sender
    Unwritable,  \* poison whose dead letter PostgreSQL refuses
    MaxFaults    \* bound on the faults of one behaviour

ASSUME RelayAssumption ==
    /\ NoRelay \notin Relays
    /\ Owned \in [Relays -> SUBSET Routes]
    /\ PubSub \subseteq Events
    /\ Unwritable \subseteq Events
    /\ MaxFaults \in Nat

VARIABLES
    holder,      \* row locks: the relay whose transaction holds FOR UPDATE on the row
    late,        \* abandoned publishes the provider may still accept
    pc,          \* where each relay is in its loop
    tx,          \* whether its batch transaction is open on the server
    want,        \* selected ids it has yet to lock
    batch,       \* rows its select returned
    todo,        \* events handed to a sender and not yet attempted
    inflight,    \* publishes whose result the sender awaits
    confirmed,   \* AddConfirmedID reports
    poison,      \* triage verdicts and AddPoisonID reports
    err,         \* kinds of error joined into the batch error
    unknown,     \* ordered publishes the process gave up waiting for
    stopping,    \* the process context is cancelled
    faults       \* faults so far

relayVars == <<holder, late, pc, tx, want, batch, todo, inflight, confirmed,
               poison, err, unknown, stopping, faults>>
vars == <<outboxVars, relayVars>>

InBatch == {"lock", "send", "delete", "commit"}
Labels == InBatch \cup {"loop", "idle", "cooldown", "exited"}
Errors == {"sender", "fatal"}

TypeOK ==
    /\ table \subseteq Events
    /\ inserted \subseteq Events
    /\ expired \subseteq Events
    /\ delivered \subseteq Events
    /\ dlq \in [Events -> Nat]
    /\ holder \in [Events -> Relays \cup {NoRelay}]
    /\ late \subseteq Events
    /\ pc \in [Relays -> Labels]
    /\ tx \in [Relays -> BOOLEAN]
    /\ want \in [Relays -> SUBSET Events]
    /\ batch \in [Relays -> SUBSET Events]
    /\ todo \in [Relays -> SUBSET Events]
    /\ inflight \in [Relays -> SUBSET Events]
    /\ confirmed \in [Relays -> SUBSET Events]
    /\ poison \in [Relays -> SUBSET Events]
    /\ err \in [Relays -> SUBSET Errors]
    /\ unknown \in [Relays -> SUBSET Events]
    /\ stopping \in [Relays -> BOOLEAN]
    /\ faults \in 0..MaxFaults

Init ==
    /\ OutboxInit
    /\ holder = [e \in Events |-> NoRelay]
    /\ late = {}
    /\ pc = [r \in Relays |-> "loop"]
    /\ tx = [r \in Relays |-> FALSE]
    /\ want = [r \in Relays |-> {}]
    /\ batch = [r \in Relays |-> {}]
    /\ todo = [r \in Relays |-> {}]
    /\ inflight = [r \in Relays |-> {}]
    /\ confirmed = [r \in Relays |-> {}]
    /\ poison = [r \in Relays |-> {}]
    /\ err = [r \in Relays |-> {}]
    /\ unknown = [r \in Relays |-> {}]
    /\ stopping = [r \in Relays |-> FALSE]
    /\ faults = 0
-----------------------------------------------------------------------------
(* Producers and time.                                                     *)

Producer(e) == Insert(e) /\ UNCHANGED relayVars

Age(e) == Expire(e) /\ UNCHANGED relayVars
-----------------------------------------------------------------------------
(* Locks, faults and the end of a batch.                                   *)

\* The row locks once r's transaction has ended.
Released(r) == [e \in Events |-> IF holder[e] = r THEN NoRelay ELSE holder[e]]

Fault ==
    /\ faults < MaxFaults
    /\ faults' = faults + 1

\* r forgets its batch: the variables of processEventBatch go out of scope.
ForgetBatch(r) ==
    /\ want' = [want EXCEPT ![r] = {}]
    /\ batch' = [batch EXCEPT ![r] = {}]
    /\ todo' = [todo EXCEPT ![r] = {}]
    /\ confirmed' = [confirmed EXCEPT ![r] = {}]
    /\ poison' = [poison EXCEPT ![r] = {}]
    /\ err' = [err EXCEPT ![r] = {}]

\* r's batch is over and r goes on to label.  A process that returns from
\* processEvents abandons the publishes it no longer waits for.
EndBatch(r, label) ==
    /\ tx' = [tx EXCEPT ![r] = FALSE]
    /\ ForgetBatch(r)
    /\ pc' = [pc EXCEPT ![r] = label]
    /\ IF label = "exited"
       THEN /\ late' = late \cup unknown[r]
            /\ unknown' = [unknown EXCEPT ![r] = {}]
       ELSE UNCHANGED <<late, unknown>>
    /\ UNCHANGED <<inflight, stopping>>

\* Mutant: a database error hides the fatal one joined to it.
CooldownFirst(r) == "cooldown"

\* The switch of processEvents on the batch error: a fatal sender error wins
\* over a database error joined to it.
AfterFailure(r) == IF "fatal" \in err[r] THEN "exited" ELSE "cooldown"

AfterCommit(r) ==
    IF "fatal" \in err[r] THEN "exited"
    ELSE IF batch[r] = {} THEN "idle" ELSE "loop"
-----------------------------------------------------------------------------
(* Collection.                                                             *)

\* BeginTx, and the snapshot on which the select picks the ids to lock.
BeginBatch(r) ==
    /\ pc[r] = "loop"
    /\ ~stopping[r]
    /\ pc' = [pc EXCEPT ![r] = "lock"]
    /\ tx' = [tx EXCEPT ![r] = TRUE]
    /\ want' = [want EXCEPT ![r] = Collected(table, Owned[r])]
    /\ UNCHANGED <<outboxVars, holder, late, batch, todo, inflight, confirmed,
                   poison, err, unknown, stopping, faults>>

\* BeginTx fails.
BeginFails(r) ==
    /\ pc[r] = "loop"
    /\ ~stopping[r]
    /\ Fault
    /\ pc' = [pc EXCEPT ![r] = "cooldown"]
    /\ UNCHANGED <<outboxVars, holder, late, tx, want, batch, todo, inflight,
                   confirmed, poison, err, unknown, stopping>>

\* Mutant: the outer ORDER BY is dropped.
NextRowUnordered(r, e) == e \in want[r]

\* ORDER BY id FOR UPDATE takes the locks one row at a time, in id order; the
\* next row is the lowest id still wanted.
NextRow(r, e) == e \in want[r] /\ \A f \in want[r] : e <= f

\* Mutant: the select does not lock.
ReadRow(r, e) ==
    /\ pc[r] = "lock"
    /\ tx[r]
    /\ NextRow(r, e)
    /\ want' = [want EXCEPT ![r] = @ \ {e}]
    /\ batch' = [batch EXCEPT ![r] = @ \cup ({e} \cap table)]
    /\ UNCHANGED <<outboxVars, holder, late, pc, tx, todo, inflight, confirmed,
                   poison, err, unknown, stopping, faults>>

\* A free row is locked and returned; a row deleted since the snapshot is
\* skipped; a row locked by another transaction is waited for.
LockRow(r, e) ==
    /\ pc[r] = "lock"
    /\ tx[r]
    /\ NextRow(r, e)
    /\ holder[e] = NoRelay
    /\ want' = [want EXCEPT ![r] = @ \ {e}]
    /\ IF e \in table
       THEN /\ holder' = [holder EXCEPT ![e] = r]
            /\ batch' = [batch EXCEPT ![r] = @ \cup {e}]
       ELSE UNCHANGED <<holder, batch>>
    /\ UNCHANGED <<outboxVars, late, pc, tx, todo, inflight, confirmed, poison,
                   err, unknown, stopping, faults>>

\* triageEvents: expired events and unparsable options are poison, the rest
\* goes to the senders.
Triage(r) ==
    /\ pc[r] = "lock"
    /\ tx[r]
    /\ want[r] = {}
    /\ pc' = [pc EXCEPT ![r] = "send"]
    /\ poison' = [poison EXCEPT ![r] = batch[r] \cap (expired \cup Malformed)]
    /\ todo' = [todo EXCEPT ![r] = batch[r] \ (expired \cup Malformed)]
    /\ UNCHANGED <<outboxVars, holder, late, tx, want, batch, inflight,
                   confirmed, err, unknown, stopping, faults>>
-----------------------------------------------------------------------------
(* Publishing: what both senders do for one event.                         *)

\* Mutant: the next event of a group is published without awaiting the last.
InTurnUnawaited(r, e) == \A f \in todo[r] : ~Before(f, e)

\* It is e's turn: no earlier event of its group is unattempted or in flight.
InTurn(r, e) == \A f \in todo[r] \cup inflight[r] : ~Before(f, e)

\* Mutant: a failed publish does not stop its group.
HeldBackAlone(e) == {e}

\* e and the events behind it in its group, which a failed publish of e holds back.
HeldBack(e) == {e} \cup {g \in Events : Before(e, g)}

\* Mutant: an event that fails validation is only logged.
LogInvalid(r, e) ==
    /\ pc[r] = "send"
    /\ e \in todo[r] \cap Invalid
    /\ InTurn(r, e)
    /\ todo' = [todo EXCEPT ![r] = @ \ {e}]
    /\ UNCHANGED <<outboxVars, holder, late, pc, tx, want, batch, inflight,
                   confirmed, poison, err, unknown, stopping, faults>>

\* Local validation fails: e is poison and its group goes on.
RejectLocally(r, e) ==
    /\ pc[r] = "send"
    /\ e \in todo[r] \cap Invalid
    /\ InTurn(r, e)
    /\ todo' = [todo EXCEPT ![r] = @ \ {e}]
    /\ poison' = [poison EXCEPT ![r] = @ \cup {e}]
    /\ UNCHANGED <<outboxVars, holder, late, pc, tx, want, batch, inflight,
                   confirmed, err, unknown, stopping, faults>>

Publish(r, e) ==
    /\ pc[r] = "send"
    /\ e \in todo[r] \ Invalid
    /\ InTurn(r, e)
    /\ todo' = [todo EXCEPT ![r] = @ \ {e}]
    /\ inflight' = [inflight EXCEPT ![r] = @ \cup {e}]
    /\ UNCHANGED <<outboxVars, holder, late, pc, tx, want, batch, confirmed,
                   poison, err, unknown, stopping, faults>>

\* The provider accepts e and the sender reads the acknowledgement.
Acknowledge(r, e) ==
    /\ e \in inflight[r] \ Rejected
    /\ delivered' = delivered \cup {e}
    /\ inflight' = [inflight EXCEPT ![r] = @ \ {e}]
    /\ confirmed' = [confirmed EXCEPT ![r] = @ \cup {e}]
    /\ UNCHANGED <<table, inserted, expired, dlq, holder, late, pc, tx, want,
                   batch, todo, poison, err, unknown, stopping, faults>>

\* The provider refuses e for good and the refusal is e's own: e is poison and
\* its group goes on.
RejectAtProvider(r, e) ==
    /\ e \in inflight[r] \cap Rejected
    /\ inflight' = [inflight EXCEPT ![r] = @ \ {e}]
    /\ poison' = [poison EXCEPT ![r] = @ \cup {e}]
    /\ UNCHANGED <<outboxVars, holder, late, pc, tx, want, batch, todo,
                   confirmed, err, unknown, stopping, faults>>

\* Mutant: every failure is taken for a permanent one.
PoisonOnFailure(r, e) ==
    /\ e \in inflight[r]
    /\ Fault \/ (stopping[r] /\ UNCHANGED faults)
    /\ inflight' = [inflight EXCEPT ![r] = @ \ {e}]
    /\ poison' = [poison EXCEPT ![r] = @ \cup {e}]
    /\ late' = late \cup {e}
    /\ UNCHANGED <<outboxVars, holder, pc, tx, want, batch, todo, confirmed, err,
                   unknown, stopping>>

\* Any other failure: e's group stops for this batch.  The provider may have
\* accepted e, or may yet accept it.
PublishFails(r, e) ==
    /\ e \in inflight[r]
    /\ Fault \/ (stopping[r] /\ UNCHANGED faults)
    /\ inflight' = [inflight EXCEPT ![r] = @ \ {e}]
    /\ todo' = [todo EXCEPT ![r] = @ \ HeldBack(e)]
    /\ err' = [err EXCEPT ![r] = @ \cup {"sender"}]
    /\ late' = late \cup {e}
    /\ UNCHANGED <<outboxVars, holder, pc, tx, want, batch, confirmed, poison,
                   unknown, stopping>>

\* The cancelled context ends e's group before e is published.
Interrupt(r, e) ==
    /\ stopping[r]
    /\ e \in todo[r]
    /\ InTurn(r, e)
    /\ todo' = [todo EXCEPT ![r] = @ \ HeldBack(e)]
    /\ err' = [err EXCEPT ![r] = @ \cup {"sender"}]
    /\ UNCHANGED <<outboxVars, holder, late, pc, tx, want, batch, inflight,
                   confirmed, poison, unknown, stopping, faults>>

\* The result of an ordered Pub/Sub publish does not arrive in time: the
\* publish is still in the client, so the process must not go on with the key.
PublishUnknown(r, e) ==
    /\ e \in inflight[r] \cap PubSub
    /\ GroupOf[e] # NoGroup
    /\ Fault
    /\ inflight' = [inflight EXCEPT ![r] = @ \ {e}]
    /\ todo' = [todo EXCEPT ![r] = @ \ HeldBack(e)]
    /\ err' = [err EXCEPT ![r] = @ \cup {"sender", "fatal"}]
    /\ unknown' = [unknown EXCEPT ![r] = @ \cup {e}]
    /\ UNCHANGED <<outboxVars, holder, late, pc, tx, want, batch, confirmed,
                   poison, stopping>>

\* An abandoned publish reaches the provider after all.
Land(e) ==
    /\ e \in (late \cup UNION {unknown[r] : r \in Relays}) \ Rejected
    /\ delivered' = delivered \cup {e}
    /\ late' = late \ {e}
    /\ UNCHANGED <<table, inserted, expired, dlq, holder, pc, tx, want, batch,
                   todo, inflight, confirmed, poison, err, unknown, stopping,
                   faults>>
-----------------------------------------------------------------------------
(* Writing the outcome.                                                    *)

Sent(r) == pc[r] = "send" /\ todo[r] = {} /\ inflight[r] = {}

\* PostgreSQL takes the dead letters of the batch, if it has any to write.
DeadLettersWritable(r) == DLQEnabled => poison[r] \cap Unwritable = {}

\* wg.Wait has returned: insertDeadLetters, then deleteEvents, in the open
\* transaction; their effect is CommitBatch's.
InsertDeadLetters(r) ==
    /\ Sent(r)
    /\ tx[r]
    /\ DeadLettersWritable(r)
    /\ pc' = [pc EXCEPT ![r] = "delete"]
    /\ UNCHANGED <<outboxVars, holder, late, tx, want, batch, todo, inflight,
                   confirmed, poison, err, unknown, stopping, faults>>

DeleteEvents(r) ==
    /\ pc[r] = "delete"
    /\ tx[r]
    /\ pc' = [pc EXCEPT ![r] = "commit"]
    /\ UNCHANGED <<outboxVars, holder, late, tx, want, batch, todo, inflight,
                   confirmed, poison, err, unknown, stopping, faults>>

\* Mutant: the whole selection is deleted, reported or not.
CommitSelection(r) ==
    /\ pc[r] = "commit"
    /\ tx[r]
    /\ table' = table \ batch[r]
    /\ dlq' = [e \in Events |->
                  IF DLQEnabled /\ e \in poison[r] THEN dlq[e] + 1 ELSE dlq[e]]
    /\ holder' = Released(r)
    /\ UNCHANGED <<inserted, expired, delivered>>

\* Mutant: whatever was not confirmed is dead-lettered.
CommitUnconfirmed(r) ==
    /\ pc[r] = "commit"
    /\ tx[r]
    /\ table' = table \ (confirmed[r] \cup poison[r])
    /\ dlq' = [e \in Events |->
                  IF DLQEnabled /\ e \in batch[r] \ confirmed[r] THEN dlq[e] + 1 ELSE dlq[e]]
    /\ holder' = Released(r)
    /\ UNCHANGED <<inserted, expired, delivered>>

\* What the server does when r's transaction commits.
CommitOnServer(r) ==
    /\ pc[r] = "commit"
    /\ tx[r]
    /\ table' = table \ (confirmed[r] \cup poison[r])
    /\ dlq' = [e \in Events |->
                  IF DLQEnabled /\ e \in poison[r] THEN dlq[e] + 1 ELSE dlq[e]]
    /\ holder' = Released(r)
    /\ UNCHANGED <<inserted, expired, delivered>>

CommitBatch(r) ==
    /\ CommitOnServer(r)
    /\ EndBatch(r, AfterCommit(r))
    /\ UNCHANGED faults

\* The server commits, but the connection fails before the relay learns of it.
CommitAnswerLost(r) ==
    /\ CommitOnServer(r)
    /\ Fault
    /\ EndBatch(r, AfterFailure(r))

\* The batch fails in a statement or in the commit and is rolled back.
RollBack(r) ==
    /\ pc[r] \in {"lock", "delete", "commit"} \/ Sent(r)
    /\ holder' = Released(r)
    /\ EndBatch(r, AfterFailure(r))
    /\ UNCHANGED outboxVars

\* It must fail: its transaction is gone or a dead letter cannot be written.
AbandonBatch(r) ==
    /\ ~tx[r] \/ (Sent(r) /\ ~DeadLettersWritable(r))
    /\ RollBack(r)
    /\ UNCHANGED faults

\* It fails for a reason of the server's: a timeout, a full disk.
FailBatch(r) ==
    /\ Fault
    /\ RollBack(r)
-----------------------------------------------------------------------------
(* The loop, and what happens to processes.                                *)

\* The cooldown after a database error, or the wait for events, is over.
Resume(r) ==
    /\ pc[r] \in {"cooldown", "idle"}
    /\ pc' = [pc EXCEPT ![r] = "loop"]
    /\ UNCHANGED <<outboxVars, holder, late, tx, want, batch, todo, inflight,
                   confirmed, poison, err, unknown, stopping, faults>>

\* r's transaction ends on the server while r is still working on the batch.
LoseTransaction(r) ==
    /\ tx' = [tx EXCEPT ![r] = FALSE]
    /\ holder' = Released(r)

LoseConnection(r) ==
    /\ tx[r]
    /\ Fault
    /\ LoseTransaction(r)
    /\ UNCHANGED <<outboxVars, late, pc, want, batch, todo, inflight, confirmed,
                   poison, err, unknown, stopping>>

\* SIGTERM cancels the context; database/sql rolls the transaction back at once.
Cancel(r) ==
    /\ pc[r] # "exited"
    /\ ~stopping[r]
    /\ Fault
    /\ stopping' = [stopping EXCEPT ![r] = TRUE]
    /\ LoseTransaction(r)
    /\ UNCHANGED <<outboxVars, late, pc, want, batch, todo, inflight, confirmed,
                   poison, err, unknown>>

\* The top of the loop sees the cancelled context: processEvents returns.
Stop(r) ==
    /\ pc[r] = "loop"
    /\ stopping[r]
    /\ EndBatch(r, "exited")
    /\ UNCHANGED <<outboxVars, holder, faults>>

\* The process dies (or the watchdog ends it), publishes in flight included.
Crash(r) ==
    /\ pc[r] # "exited"
    /\ Fault
    /\ LoseTransaction(r)
    /\ ForgetBatch(r)
    /\ inflight' = [inflight EXCEPT ![r] = {}]
    /\ unknown' = [unknown EXCEPT ![r] = {}]
    /\ late' = late \cup inflight[r] \cup unknown[r]
    /\ pc' = [pc EXCEPT ![r] = "exited"]
    /\ UNCHANGED <<outboxVars, stopping>>

\* The orchestrator starts the process again.
Restart(r) ==
    /\ pc[r] = "exited"
    /\ pc' = [pc EXCEPT ![r] = "loop"]
    /\ stopping' = [stopping EXCEPT ![r] = FALSE]
    /\ UNCHANGED <<outboxVars, holder, late, tx, want, batch, todo, inflight,
                   confirmed, poison, err, unknown, faults>>
-----------------------------------------------------------------------------
\* A sender step for one event.
Send(r, e) ==
    \/ RejectLocally(r, e)
    \/ Publish(r, e)
    \/ Acknowledge(r, e)
    \/ RejectAtProvider(r, e)

\* What r's process does of its own accord when nothing goes wrong.
Work(r) ==
    \/ BeginBatch(r)
    \/ \E e \in Events : LockRow(r, e) \/ Send(r, e)
    \/ Triage(r)
    \/ InsertDeadLetters(r)
    \/ DeleteEvents(r)
    \/ CommitBatch(r)
    \/ AbandonBatch(r)
    \/ Resume(r)
    \/ Stop(r)

Trouble(r) ==
    \/ BeginFails(r)
    \/ \E e \in Events : PublishFails(r, e) \/ PublishUnknown(r, e) \/ Interrupt(r, e)
    \/ CommitAnswerLost(r)
    \/ FailBatch(r)
    \/ LoseConnection(r)
    \/ Cancel(r)
    \/ Crash(r)

Next ==
    \/ \E e \in Events : Producer(e) \/ Age(e) \/ Land(e)
    \/ \E r \in Relays : Work(r) \/ Trouble(r) \/ Restart(r)

Spec == Init /\ [][Next]_vars

\* Processes keep running and exited ones are started again; nothing is
\* assumed of producers, time, faults or abandoned publishes.
FairSpec ==
    /\ Spec
    /\ \A r \in Relays : WF_vars(Work(r)) /\ WF_vars(Restart(r))
-----------------------------------------------------------------------------
(* Properties.                                                             *)

\* S0 (processEventBatch deletes only what a sender reported): a row that is
\* gone was accepted by the provider or can never be sent, whatever crashed,
\* was cancelled or lost its transaction on the way.
NeverLost == inserted \ table \subseteq delivered \cup Poisonous(expired)

\* docs/dlq.md (insertDeadLetters and deleteEvents share the transaction): with
\* a dead-letter table, an undelivered event that is gone has exactly one dead
\* letter and a row that is still there, and will be tried again, has none.
DeadLetteredOnce ==
    DLQEnabled =>
        /\ \A e \in Events : dlq[e] <= 1
        /\ \A e \in table : dlq[e] = 0
        /\ \A e \in (inserted \ table) \ delivered : dlq[e] = 1

\* FOR UPDATE (selectEventsQuerySQL): as long as their transactions live, no two
\* relays work on the same event, and no event of a live batch was already
\* removed by somebody else.
BatchesExclusive ==
    \A r \in Relays : tx[r] =>
        /\ batch[r] \subseteq table
        /\ \A s \in Relays \ {r} : tx[s] => batch[r] \cap batch[s] = {}

\* S2 (sendPubsubOrderedGroup, sendSQSFIFOEvents): a process never has an event
\* in flight while an earlier event of its group is in flight or, in the same
\* process, was given up on without a result (fatal-after-commit).
KnownOutcomeFirst ==
    \A r \in Relays : \A e \in inflight[r], f \in inflight[r] \cup unknown[r] :
        ~Before(f, e)

\* S2 across processes: when the provider accepts an event for the first time,
\* every earlier event of its group was accepted before or is poison.
FirstDeliveryInOrder ==
    [][\A e \in delivered' \ delivered : OrderedUpTo(e)]_vars

\* r waits for a row that s has locked.
WaitsFor(r, s) ==
    /\ pc[r] = "lock"
    /\ tx[r]
    /\ \E e \in Events : NextRow(r, e) /\ holder[e] = s

\* ORDER BY id FOR UPDATE (selectEventsQuerySQL): relays never wait for each
\* other in a circle, however their batches overlap.
NoLockCycle ==
    \A S \in SUBSET Relays : S # {} => \E r \in S : \A s \in S : ~WaitsFor(r, s)

\* S0, S5, S11: a row some relay owns is eventually removed.
EventuallyRemoved ==
    \A e \in Events :
        (\E r \in Relays : RouteOf[e] \in Owned[r]) =>
            (e \in table ~> e \notin table)

\* S11 (insertDeadLetters): an event that can never be sent does not stay.
PoisonRemoved ==
    \A e \in Malformed \cup Invalid \cup Rejected :
        (\E r \in Relays : RouteOf[e] \in Owned[r]) =>
            (e \in table ~> e \notin table)
-----------------------------------------------------------------------------
(* The inductive invariant behind the safety properties.                   *)

Settled == delivered \cup Poisonous(expired)

\* Everything that is delivered, expired or may still land was committed once.
OnlyInserted ==
    /\ table \subseteq inserted
    /\ late \subseteq inserted
    /\ expired \subseteq inserted
    /\ delivered \subseteq inserted

\* A row lock is exactly a returned row of an open transaction, and locked rows
\* stay in the table.
LocksMatch ==
    /\ \A r \in Relays, e \in Events : holder[e] = r <=> tx[r] /\ e \in batch[r]
    /\ \A e \in Events : holder[e] # NoRelay => e \in table

\* What a relay remembers in each phase of its loop.
Phases ==
    \A r \in Relays :
        /\ pc[r] \notin InBatch =>
              /\ ~tx[r]
              /\ batch[r] = {}
              /\ err[r] = {}
        /\ pc[r] # "lock" => want[r] = {}
        /\ pc[r] # "send" => todo[r] = {} /\ inflight[r] = {}
        /\ pc[r] = "lock" => err[r] = {} /\ confirmed[r] = {} /\ poison[r] = {}
        /\ unknown[r] # {} => "fatal" \in err[r]

\* The senders' reports: each event of a batch has at most one standing.
Reports ==
    \A r \in Relays :
        /\ want[r] \cup batch[r] \subseteq inserted
        /\ todo[r] \cup inflight[r] \cup confirmed[r] \cup poison[r] \cup unknown[r]
              \subseteq batch[r]
        /\ confirmed[r] \subseteq delivered
        /\ poison[r] \subseteq Poisonous(expired)
        /\ confirmed[r] \cap poison[r] = {}
        /\ (confirmed[r] \cup poison[r]) \cap (todo[r] \cup inflight[r] \cup unknown[r]) = {}
        /\ todo[r] \cap (inflight[r] \cup unknown[r]) = {}
        /\ inflight[r] \cap unknown[r] = {}

\* Within a batch a group is sent from its head on.
GroupRuns ==
    \A r \in Relays :
        /\ \A e \in todo[r], f \in batch[r] :
              Before(f, e) => f \in todo[r] \cup inflight[r] \cup confirmed[r] \cup poison[r]
        /\ \A e \in inflight[r], f \in batch[r] :
              Before(f, e) => f \in confirmed[r] \cup poison[r]

\* No batch skips an unsettled event of a group, and nothing that was sent was
\* sent ahead of one.
GroupPrefixes ==
    CommitsInIdOrder =>
        /\ \A r \in Relays : \A e \in want[r] \cup batch[r], f \in inserted :
              Before(f, e) => f \in want[r] \cup batch[r] \cup Settled
        /\ \A r \in Relays : \A e \in inflight[r] \cup unknown[r] : OrderedUpTo(e)
        /\ \A e \in late \cup delivered : OrderedUpTo(e)

DeadLetters ==
    \A e \in Events :
        /\ e \in table \/ e \notin inserted => dlq[e] = 0
        /\ dlq[e] <= 1
        /\ DLQEnabled /\ e \in inserted \ table => e \in delivered \/ dlq[e] = 1

\* Rows are locked in ascending order.
LocksAscend ==
    \A r \in Relays : \A e \in batch[r], f \in want[r] : e < f

\* The conjunction each step of the relays preserves.
IInv ==
    /\ TypeOK
    /\ OnlyInserted
    /\ LocksMatch
    /\ Phases
    /\ Reports
    /\ GroupRuns
    /\ GroupPrefixes
    /\ DeadLetters
    /\ LocksAscend
    /\ NeverLost
=============================================================================
