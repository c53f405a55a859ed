---------------------------- MODULE Relay_proofs ----------------------------
(***************************************************************************)
(* The relays preserve IInv, whatever their number, the events, the shards *)
(* and the faults; the safety properties and the refinement of Outbox      *)
(* follow from it.  One lemma per action, one step per conjunct of IInv.   *)
(***************************************************************************)
EXTENDS Relay, Collect_proofs, WellFoundedInduction

\* What EndBatch leaves behind: the batch is forgotten, its transaction is over,
\* and the results nobody waits for stay with the process or become late.
BatchEnded(r, label) ==
    /\ tx' = [tx EXCEPT ![r] = FALSE]
    /\ want' = [want EXCEPT ![r] = {}]
    /\ batch' = [batch EXCEPT ![r] = {}]
    /\ todo' = [todo EXCEPT ![r] = {}]
    /\ confirmed' = [confirmed EXCEPT ![r] = {}]
    /\ poison' = [poison EXCEPT ![r] = {}]
    /\ err' = [err EXCEPT ![r] = {}]
    /\ pc' = [pc EXCEPT ![r] = label]
    /\ late' \in SUBSET (late \cup unknown[r])
    /\ unknown' \in [Relays -> SUBSET Events]
    /\ \A s \in Relays \ {r} : unknown'[s] = unknown[s]
    /\ unknown'[r] = IF label = "exited" THEN {} ELSE unknown[r]
    /\ inflight' = inflight
    /\ stopping' = stopping

\* EndBatch, with its alternatives summed up.
LEMMA EndBatchEffect ==
    ASSUME TypeOK, NEW r \in Relays, NEW label \in Labels, EndBatch(r, label)
    PROVE  BatchEnded(r, label)
<1>1. CASE label = "exited"
  BY <1>1 DEF EndBatch, ForgetBatch, BatchEnded, TypeOK
<1>2. CASE label # "exited"
  BY <1>2 DEF EndBatch, ForgetBatch, BatchEnded, TypeOK
<1>. QED  BY <1>1, <1>2

\* Ending a batch keeps all of the invariant that does not speak of the table's
\* writes and locks.
LEMMA EndBatchInv ==
    ASSUME IInv, NEW r \in Relays, NEW label \in {"loop", "idle", "cooldown", "exited"},
           EndBatch(r, label), unknown[r] # {} => label = "exited", inflight[r] = {},
           table' \subseteq table, UNCHANGED <<inserted, expired, delivered>>
    PROVE  /\ BatchEnded(r, label) /\ OnlyInserted' /\ Phases' /\ Reports' /\ GroupRuns'
           /\ GroupPrefixes' /\ LocksAscend'
<1>1. BatchEnded(r, label)
  BY EndBatchEffect DEF IInv, Labels
<1>2. OnlyInserted'
  BY <1>1 DEF BatchEnded, IInv, TypeOK, OnlyInserted, Reports
<1>3. Phases'
  BY <1>1 DEF BatchEnded, IInv, TypeOK, Phases, InBatch
<1>4. Reports'
  BY <1>1 DEF BatchEnded, IInv, TypeOK, Reports, Poisonous
<1>5. GroupRuns'
  BY <1>1 DEF BatchEnded, IInv, TypeOK, GroupRuns, Before
<1>6. GroupPrefixes'
  <2>. SUFFICES ASSUME CommitsInIdOrder
                PROVE  GroupPrefixes'
    BY DEF GroupPrefixes
  <2>1. Settled' = Settled /\ inserted' = inserted
    BY DEF Settled, Poisonous
  <2>2. \A e : OrderedUpTo(e) => OrderedUpTo(e)'
    BY DEF OrderedUpTo, Poisonous, Before
  <2>3. \A s \in Relays : \A e \in want'[s] \cup batch'[s], f \in inserted :
           Before(f, e) => f \in want'[s] \cup batch'[s] \cup Settled
    BY <1>1 DEF BatchEnded, IInv, TypeOK, GroupPrefixes
  <2>4. \A s \in Relays : unknown'[s] \subseteq unknown[s] /\ inflight'[s] = inflight[s]
    BY <1>1 DEF BatchEnded, IInv, TypeOK
  <2>5. \A s \in Relays : \A e \in inflight'[s] \cup unknown'[s] : OrderedUpTo(e)'
    BY <2>2, <2>4 DEF IInv, GroupPrefixes
  <2>6. \A e \in late' \cup delivered' : OrderedUpTo(e)'
    BY <1>1, <2>2 DEF BatchEnded, IInv, GroupPrefixes
  <2>. QED  BY <2>1, <2>3, <2>5, <2>6 DEF GroupPrefixes, Before
<1>7. LocksAscend'
  BY <1>1 DEF BatchEnded, IInv, TypeOK, LocksAscend
<1>. QED  BY <1>1, <1>2, <1>3, <1>4, <1>5, <1>6, <1>7

\* The commit's writes are well typed.
LEMMA CommitTypes ==
    ASSUME TypeOK, NEW r \in Relays, CommitOnServer(r)
    PROVE  table' \subseteq Events /\ dlq' \in [Events -> Nat]
<1>1. CASE DLQEnabled
  BY <1>1 DEF TypeOK, CommitOnServer
<1>2. CASE ~DLQEnabled
  BY <1>2 DEF TypeOK, CommitOnServer
<1>. QED  BY <1>1, <1>2

\* Producer: a producer commits a row; nothing behind it in its group is there yet.
LEMMA ProducerInv ==
    ASSUME IInv, NEW e \in Events, Producer(e)
    PROVE  IInv'
<1>. USE EventsAssumption, OutboxAssumption, RelayAssumption
<1>1. TypeOK'
  BY DEF Producer, Insert, relayVars, IInv, TypeOK, InBatch, Labels, Errors
<1>2. OnlyInserted'
  BY DEF Producer, Insert, relayVars, IInv, TypeOK, OnlyInserted, Reports,
         Phases
<1>3. LocksMatch'
  BY DEF Producer, Insert, relayVars, IInv, TypeOK, LocksMatch, Phases,
         Reports
<1>4. Phases'
  BY DEF Producer, Insert, relayVars, IInv, TypeOK, Phases, InBatch, Labels
<1>5. Reports'
  BY DEF Producer, Insert, relayVars, IInv, TypeOK, Reports, Poisonous,
         Phases, OnlyInserted, LocksMatch
<1>6. GroupRuns'
  BY DEF Producer, Insert, relayVars, IInv, TypeOK, GroupRuns, Reports,
         Phases, Before
<1>7. GroupPrefixes'
  BY DEF Producer, Insert, relayVars, IInv, TypeOK, GroupPrefixes,
         OrderedUpTo, Settled, Poisonous, Before, GroupRuns, Reports, Phases,
         OnlyInserted, NeverLost
<1>8. DeadLetters'
  BY DEF Producer, Insert, relayVars, IInv, TypeOK, DeadLetters, Reports,
         LocksMatch, OnlyInserted, Phases
<1>9. LocksAscend'
  BY DEF Producer, Insert, relayVars, IInv, TypeOK, LocksAscend, Reports,
         Phases
<1>10. NeverLost'
  BY DEF Producer, Insert, relayVars, IInv, TypeOK, NeverLost, Poisonous,
         Reports, OnlyInserted
<1>. QED
  BY <1>1, <1>2, <1>3, <1>4, <1>5, <1>6, <1>7, <1>8, <1>9, <1>10 DEF IInv

\* Age: an event passes MAX_EVENT_AGE_MS.
LEMMA AgeInv ==
    ASSUME IInv, NEW e \in Events, Age(e)
    PROVE  IInv'
<1>. USE EventsAssumption, OutboxAssumption, RelayAssumption
<1>1. TypeOK'
  BY DEF Age, Expire, relayVars, IInv, TypeOK, InBatch, Labels, Errors
<1>2. OnlyInserted'
  BY DEF Age, Expire, relayVars, IInv, TypeOK, OnlyInserted, Reports, Phases
<1>3. LocksMatch'
  BY DEF Age, Expire, relayVars, IInv, TypeOK, LocksMatch, Phases, Reports
<1>4. Phases'
  BY DEF Age, Expire, relayVars, IInv, TypeOK, Phases, InBatch, Labels
<1>5. Reports'
  BY DEF Age, Expire, relayVars, IInv, TypeOK, Reports, Poisonous, Phases,
         OnlyInserted, LocksMatch
<1>6. GroupRuns'
  BY DEF Age, Expire, relayVars, IInv, TypeOK, GroupRuns, Reports, Phases,
         Before
<1>7. GroupPrefixes'
  BY DEF Age, Expire, relayVars, IInv, TypeOK, GroupPrefixes, OrderedUpTo,
         Settled, Poisonous, Before, GroupRuns, Reports, Phases,
         OnlyInserted, NeverLost
<1>8. DeadLetters'
  BY DEF Age, Expire, relayVars, IInv, TypeOK, DeadLetters, Reports,
         LocksMatch, OnlyInserted, Phases
<1>9. LocksAscend'
  BY DEF Age, Expire, relayVars, IInv, TypeOK, LocksAscend, Reports, Phases
<1>10. NeverLost'
  BY DEF Age, Expire, relayVars, IInv, TypeOK, NeverLost, Poisonous, Reports,
         OnlyInserted
<1>. QED
  BY <1>1, <1>2, <1>3, <1>4, <1>5, <1>6, <1>7, <1>8, <1>9, <1>10 DEF IInv

\* Land: an abandoned publish is accepted late.
LEMMA LandInv ==
    ASSUME IInv, NEW e \in Events, Land(e)
    PROVE  IInv'
<1>. USE EventsAssumption, OutboxAssumption, RelayAssumption
<1>1. TypeOK'
  BY DEF Land, IInv, TypeOK, InBatch, Labels, Errors
<1>2. OnlyInserted'
  BY DEF Land, IInv, TypeOK, OnlyInserted, Reports, Phases
<1>3. LocksMatch'
  BY DEF Land, IInv, TypeOK, LocksMatch, Phases, Reports
<1>4. Phases'
  BY DEF Land, IInv, TypeOK, Phases, InBatch, Labels
<1>5. Reports'
  BY DEF Land, IInv, TypeOK, Reports, Poisonous, Phases, OnlyInserted,
         LocksMatch
<1>6. GroupRuns'
  BY DEF Land, IInv, TypeOK, GroupRuns, Reports, Phases, Before
<1>7. GroupPrefixes'
  BY DEF Land, IInv, TypeOK, GroupPrefixes, OrderedUpTo, Settled, Poisonous,
         Before, GroupRuns, Reports, Phases, OnlyInserted, NeverLost
<1>8. DeadLetters'
  BY DEF Land, IInv, TypeOK, DeadLetters, Reports, LocksMatch, OnlyInserted,
         Phases
<1>9. LocksAscend'
  BY DEF Land, IInv, TypeOK, LocksAscend, Reports, Phases
<1>10. NeverLost'
  BY DEF Land, IInv, TypeOK, NeverLost, Poisonous, Reports, OnlyInserted
<1>. QED
  BY <1>1, <1>2, <1>3, <1>4, <1>5, <1>6, <1>7, <1>8, <1>9, <1>10 DEF IInv

\* BeginBatch: the ids come from one snapshot, which CollectedIsPrefix says skips nothing.
LEMMA BeginBatchInv ==
    ASSUME IInv, NEW r \in Relays, BeginBatch(r)
    PROVE  IInv'
<1>. USE EventsAssumption, OutboxAssumption, RelayAssumption
<1>. DEFINE ids == Collected(table, Owned[r])
<1>a. ids \subseteq table /\ ids \subseteq Events
  BY CollectedAreRows DEF IInv, TypeOK
<1>b. want' = [want EXCEPT ![r] = ids]
  BY DEF BeginBatch
<1>c. \A e \in ids, f \in table : Before(f, e) => f \in ids
  BY <1>a, CollectedIsPrefix, GroupsAreRouted DEF Before, IInv, TypeOK
<1>. HIDE DEF ids
<1>1. TypeOK'
  BY <1>a, <1>b DEF BeginBatch, outboxVars, IInv, TypeOK, InBatch, Labels,
         Errors
<1>2. OnlyInserted'
  BY <1>a, <1>b DEF BeginBatch, outboxVars, IInv, TypeOK, OnlyInserted,
         Reports, Phases
<1>3. LocksMatch'
  BY <1>a, <1>b DEF BeginBatch, outboxVars, IInv, TypeOK, LocksMatch, Phases,
         Reports, InBatch, OnlyInserted
<1>4. Phases'
  <2>1. \A s \in Relays \ {r} :
           /\ pc'[s] = pc[s] /\ tx'[s] = tx[s] /\ want'[s] = want[s]
    BY <1>b DEF BeginBatch, IInv, TypeOK
  <2>2. pc'[r] = "lock"
    BY DEF BeginBatch, IInv, TypeOK
  <2>3. /\ batch' = batch /\ err' = err /\ todo' = todo /\ inflight' = inflight
        /\ confirmed' = confirmed /\ poison' = poison /\ unknown' = unknown
    BY DEF BeginBatch
  <2>4. /\ pc[r] \notin InBatch /\ pc[r] # "send" /\ batch[r] = {} /\ err[r] = {}
        /\ confirmed[r] = {} /\ poison[r] = {}
    BY DEF BeginBatch, IInv, Phases, Reports, InBatch
  <2>. QED
    BY <2>1, <2>2, <2>3, <2>4 DEF IInv, Phases, InBatch
<1>5. Reports'
  <2>1. \A s \in Relays : want'[s] \subseteq inserted
    BY <1>a, <1>b DEF IInv, TypeOK, Reports, OnlyInserted
  <2>. QED
    BY <2>1 DEF BeginBatch, outboxVars, IInv, Reports, Poisonous
<1>6. GroupRuns'
  BY <1>a, <1>b DEF BeginBatch, outboxVars, IInv, TypeOK, GroupRuns, Reports,
         Phases, Before
<1>7. GroupPrefixes'
  BY <1>a, <1>b, <1>c DEF BeginBatch, outboxVars, IInv, TypeOK,
         GroupPrefixes, OrderedUpTo, Settled, Poisonous, Reports, Phases,
         OnlyInserted, NeverLost, InBatch
<1>8. DeadLetters'
  BY <1>a, <1>b DEF BeginBatch, outboxVars, IInv, TypeOK, DeadLetters,
         Reports, LocksMatch, OnlyInserted, Phases
<1>9. LocksAscend'
  BY <1>a, <1>b DEF BeginBatch, outboxVars, IInv, TypeOK, LocksAscend,
         Reports, Phases, InBatch, OnlyInserted
<1>10. NeverLost'
  BY <1>a, <1>b DEF BeginBatch, outboxVars, IInv, TypeOK, NeverLost,
         Poisonous, Reports, OnlyInserted
<1>. QED
  BY <1>1, <1>2, <1>3, <1>4, <1>5, <1>6, <1>7, <1>8, <1>9, <1>10 DEF IInv

\* BeginFails: BeginTx fails before anything is selected.
LEMMA BeginFailsInv ==
    ASSUME IInv, NEW r \in Relays, BeginFails(r)
    PROVE  IInv'
<1>. USE EventsAssumption, OutboxAssumption, RelayAssumption
<1>1. TypeOK'
  BY DEF BeginFails, outboxVars, Fault, IInv, TypeOK, InBatch, Labels, Errors
<1>2. OnlyInserted'
  BY DEF BeginFails, outboxVars, Fault, IInv, TypeOK, OnlyInserted, Reports,
         Phases
<1>3. LocksMatch'
  BY DEF BeginFails, outboxVars, Fault, IInv, TypeOK, LocksMatch, Phases,
         Reports
<1>4. Phases'
  BY DEF BeginFails, outboxVars, Fault, IInv, TypeOK, Phases, InBatch, Labels
<1>5. Reports'
  BY DEF BeginFails, outboxVars, Fault, IInv, TypeOK, Reports, Poisonous,
         Phases, OnlyInserted, LocksMatch
<1>6. GroupRuns'
  BY DEF BeginFails, outboxVars, Fault, IInv, TypeOK, GroupRuns, Reports,
         Phases, Before
<1>7. GroupPrefixes'
  BY DEF BeginFails, outboxVars, Fault, IInv, TypeOK, GroupPrefixes,
         OrderedUpTo, Settled, Poisonous, Before, GroupRuns, Reports, Phases,
         OnlyInserted, NeverLost
<1>8. DeadLetters'
  BY DEF BeginFails, outboxVars, Fault, IInv, TypeOK, DeadLetters, Reports,
         LocksMatch, OnlyInserted, Phases
<1>9. LocksAscend'
  BY DEF BeginFails, outboxVars, Fault, IInv, TypeOK, LocksAscend, Reports,
         Phases
<1>10. NeverLost'
  BY DEF BeginFails, outboxVars, Fault, IInv, TypeOK, NeverLost, Poisonous,
         Reports, OnlyInserted
<1>. QED
  BY <1>1, <1>2, <1>3, <1>4, <1>5, <1>6, <1>7, <1>8, <1>9, <1>10 DEF IInv

\* LockRow: the next row is locked, or skipped because it was deleted meanwhile.
LEMMA LockRowInv ==
    ASSUME IInv, NEW r \in Relays, NEW e \in Events, LockRow(r, e)
    PROVE  IInv'
<1>. USE EventsAssumption, OutboxAssumption, RelayAssumption
<1>1. TypeOK'
  BY DEF LockRow, NextRow, outboxVars, IInv, TypeOK, InBatch, Labels, Errors
<1>2. OnlyInserted'
  BY DEF LockRow, NextRow, outboxVars, IInv, TypeOK, OnlyInserted, Reports,
         Phases
<1>3. LocksMatch'
  BY DEF LockRow, NextRow, outboxVars, IInv, TypeOK, LocksMatch, Phases,
         Reports
<1>4. Phases'
  BY DEF LockRow, NextRow, outboxVars, IInv, TypeOK, Phases, InBatch, Labels
<1>5. Reports'
  BY DEF LockRow, NextRow, outboxVars, IInv, TypeOK, Reports, Poisonous,
         Phases, OnlyInserted, LocksMatch
<1>6. GroupRuns'
  <2>. SUFFICES ASSUME NEW s \in Relays
                PROVE  /\ \A g \in todo[s]', f \in batch[s]' : Before(f, g) =>
                              f \in (todo[s] \cup inflight[s] \cup confirmed[s] \cup poison[s])'
                       /\ \A g \in inflight[s]', f \in batch[s]' : Before(f, g) =>
                              f \in (confirmed[s] \cup poison[s])'
    BY DEF GroupRuns, Before
  <2>1. CASE s = r
    BY <2>1 DEF LockRow, IInv, Phases
  <2>2. CASE s # r
    BY <2>2 DEF LockRow, IInv, TypeOK, GroupRuns
  <2>. QED  BY <2>1, <2>2
<1>7. GroupPrefixes'
  BY DEF LockRow, NextRow, outboxVars, IInv, TypeOK, GroupPrefixes,
         OrderedUpTo, Settled, Poisonous, Before, GroupRuns, Reports, Phases,
         OnlyInserted, NeverLost
<1>8. DeadLetters'
  BY DEF LockRow, NextRow, outboxVars, IInv, TypeOK, DeadLetters, Reports,
         LocksMatch, OnlyInserted, Phases
<1>9. LocksAscend'
  <2>. SUFFICES ASSUME NEW s \in Relays, NEW g \in batch[s]', NEW f \in want[s]'
                PROVE  g < f
    BY DEF LocksAscend
  <2>1. f \in want[s] /\ f \in Nat
    BY DEF LockRow, IInv, TypeOK
  <2>2. CASE g \in batch[s]
    BY <2>1, <2>2 DEF IInv, LocksAscend
  <2>3. CASE g \notin batch[s]
    <3>1. s = r /\ g = e /\ f # e
      BY <2>3 DEF LockRow, IInv, TypeOK
    <3>2. e \in Nat /\ e <= f
      BY <2>1, <3>1 DEF LockRow, NextRow
    <3>. QED  BY <2>1, <3>1, <3>2
  <2>. QED  BY <2>2, <2>3
<1>10. NeverLost'
  BY DEF LockRow, NextRow, outboxVars, IInv, TypeOK, NeverLost, Poisonous,
         Reports, OnlyInserted
<1>. QED
  BY <1>1, <1>2, <1>3, <1>4, <1>5, <1>6, <1>7, <1>8, <1>9, <1>10 DEF IInv

\* Triage: triageEvents.
LEMMA TriageInv ==
    ASSUME IInv, NEW r \in Relays, Triage(r)
    PROVE  IInv'
<1>. USE EventsAssumption, OutboxAssumption, RelayAssumption
<1>1. TypeOK'
  BY DEF Triage, outboxVars, IInv, TypeOK, InBatch, Labels, Errors
<1>2. OnlyInserted'
  BY DEF Triage, outboxVars, IInv, TypeOK, OnlyInserted, Reports, Phases
<1>3. LocksMatch'
  BY DEF Triage, outboxVars, IInv, TypeOK, LocksMatch, Phases, Reports
<1>4. Phases'
  BY DEF Triage, outboxVars, IInv, TypeOK, Phases, InBatch, Labels
<1>5. Reports'
  BY DEF Triage, outboxVars, IInv, TypeOK, Reports, Poisonous, Phases,
         OnlyInserted, LocksMatch
<1>6. GroupRuns'
  BY DEF Triage, outboxVars, IInv, TypeOK, GroupRuns, Reports, Phases, Before
<1>7. GroupPrefixes'
  BY DEF Triage, outboxVars, IInv, TypeOK, GroupPrefixes, OrderedUpTo,
         Settled, Poisonous, Before, GroupRuns, Reports, Phases,
         OnlyInserted, NeverLost
<1>8. DeadLetters'
  BY DEF Triage, outboxVars, IInv, TypeOK, DeadLetters, Reports, LocksMatch,
         OnlyInserted, Phases
<1>9. LocksAscend'
  BY DEF Triage, outboxVars, IInv, TypeOK, LocksAscend, Reports, Phases
<1>10. NeverLost'
  BY DEF Triage, outboxVars, IInv, TypeOK, NeverLost, Poisonous, Reports,
         OnlyInserted
<1>. QED
  BY <1>1, <1>2, <1>3, <1>4, <1>5, <1>6, <1>7, <1>8, <1>9, <1>10 DEF IInv

\* RejectLocally: a sender validates an event and finds it poison.
LEMMA RejectLocallyInv ==
    ASSUME IInv, NEW r \in Relays, NEW e \in Events, RejectLocally(r, e)
    PROVE  IInv'
<1>. USE EventsAssumption, OutboxAssumption, RelayAssumption
<1>1. TypeOK'
  BY DEF RejectLocally, InTurn, outboxVars, IInv, TypeOK, InBatch, Labels,
         Errors
<1>2. OnlyInserted'
  BY DEF RejectLocally, InTurn, outboxVars, IInv, TypeOK, OnlyInserted,
         Reports, Phases
<1>3. LocksMatch'
  BY DEF RejectLocally, InTurn, outboxVars, IInv, TypeOK, LocksMatch, Phases,
         Reports
<1>4. Phases'
  BY DEF RejectLocally, InTurn, outboxVars, IInv, TypeOK, Phases, InBatch,
         Labels
<1>5. Reports'
  BY DEF RejectLocally, InTurn, outboxVars, IInv, TypeOK, Reports, Poisonous,
         Phases, OnlyInserted, LocksMatch
<1>6. GroupRuns'
  BY DEF RejectLocally, InTurn, outboxVars, IInv, TypeOK, GroupRuns, Reports,
         Phases, Before
<1>7. GroupPrefixes'
  BY DEF RejectLocally, InTurn, outboxVars, IInv, TypeOK, GroupPrefixes,
         OrderedUpTo, Settled, Poisonous, Before, GroupRuns, Reports, Phases,
         OnlyInserted, NeverLost
<1>8. DeadLetters'
  BY DEF RejectLocally, InTurn, outboxVars, IInv, TypeOK, DeadLetters,
         Reports, LocksMatch, OnlyInserted, Phases
<1>9. LocksAscend'
  BY DEF RejectLocally, InTurn, outboxVars, IInv, TypeOK, LocksAscend,
         Reports, Phases
<1>10. NeverLost'
  BY DEF RejectLocally, InTurn, outboxVars, IInv, TypeOK, NeverLost,
         Poisonous, Reports, OnlyInserted
<1>. QED
  BY <1>1, <1>2, <1>3, <1>4, <1>5, <1>6, <1>7, <1>8, <1>9, <1>10 DEF IInv

\* Publish: the head of a group, or an unordered event, is published.
LEMMA PublishInv ==
    ASSUME IInv, NEW r \in Relays, NEW e \in Events, Publish(r, e)
    PROVE  IInv'
<1>. USE EventsAssumption, OutboxAssumption, RelayAssumption
<1>1. TypeOK'
  BY DEF Publish, InTurn, outboxVars, IInv, TypeOK, InBatch, Labels, Errors
<1>2. OnlyInserted'
  BY DEF Publish, InTurn, outboxVars, IInv, TypeOK, OnlyInserted, Reports,
         Phases
<1>3. LocksMatch'
  BY DEF Publish, InTurn, outboxVars, IInv, TypeOK, LocksMatch, Phases,
         Reports
<1>4. Phases'
  BY DEF Publish, InTurn, outboxVars, IInv, TypeOK, Phases, InBatch, Labels
<1>5. Reports'
  BY DEF Publish, InTurn, outboxVars, IInv, TypeOK, Reports, Poisonous,
         Phases, OnlyInserted, LocksMatch
<1>6. GroupRuns'
  BY DEF Publish, InTurn, outboxVars, IInv, TypeOK, GroupRuns, Reports,
         Phases, Before
<1>7. GroupPrefixes'
  BY DEF Publish, InTurn, outboxVars, IInv, TypeOK, GroupPrefixes,
         OrderedUpTo, Settled, Poisonous, Before, GroupRuns, Reports, Phases,
         OnlyInserted, NeverLost
<1>8. DeadLetters'
  BY DEF Publish, InTurn, outboxVars, IInv, TypeOK, DeadLetters, Reports,
         LocksMatch, OnlyInserted, Phases
<1>9. LocksAscend'
  BY DEF Publish, InTurn, outboxVars, IInv, TypeOK, LocksAscend, Reports,
         Phases
<1>10. NeverLost'
  BY DEF Publish, InTurn, outboxVars, IInv, TypeOK, NeverLost, Poisonous,
         Reports, OnlyInserted
<1>. QED
  BY <1>1, <1>2, <1>3, <1>4, <1>5, <1>6, <1>7, <1>8, <1>9, <1>10 DEF IInv

\* Acknowledge: the provider confirms a publish.
LEMMA AcknowledgeInv ==
    ASSUME IInv, NEW r \in Relays, NEW e \in Events, Acknowledge(r, e)
    PROVE  IInv'
<1>. USE EventsAssumption, OutboxAssumption, RelayAssumption
<1>1. TypeOK'
  BY DEF Acknowledge, IInv, TypeOK, InBatch, Labels, Errors
<1>2. OnlyInserted'
  BY DEF Acknowledge, IInv, TypeOK, OnlyInserted, Reports, Phases
<1>3. LocksMatch'
  BY DEF Acknowledge, IInv, TypeOK, LocksMatch, Phases, Reports
<1>4. Phases'
  BY DEF Acknowledge, IInv, TypeOK, Phases, InBatch, Labels
<1>5. Reports'
  BY DEF Acknowledge, IInv, TypeOK, Reports, Poisonous, Phases, OnlyInserted,
         LocksMatch
<1>6. GroupRuns'
  BY DEF Acknowledge, IInv, TypeOK, GroupRuns, Reports, Phases, Before
<1>7. GroupPrefixes'
  BY DEF Acknowledge, IInv, TypeOK, GroupPrefixes, OrderedUpTo, Settled,
         Poisonous, Before, GroupRuns, Reports, Phases, OnlyInserted,
         NeverLost
<1>8. DeadLetters'
  BY DEF Acknowledge, IInv, TypeOK, DeadLetters, Reports, LocksMatch,
         OnlyInserted, Phases
<1>9. LocksAscend'
  BY DEF Acknowledge, IInv, TypeOK, LocksAscend, Reports, Phases
<1>10. NeverLost'
  BY DEF Acknowledge, IInv, TypeOK, NeverLost, Poisonous, Reports,
         OnlyInserted
<1>. QED
  BY <1>1, <1>2, <1>3, <1>4, <1>5, <1>6, <1>7, <1>8, <1>9, <1>10 DEF IInv

\* RejectAtProvider: the provider refuses an event for good.
LEMMA RejectAtProviderInv ==
    ASSUME IInv, NEW r \in Relays, NEW e \in Events, RejectAtProvider(r, e)
    PROVE  IInv'
<1>. USE EventsAssumption, OutboxAssumption, RelayAssumption
<1>1. TypeOK'
  BY DEF RejectAtProvider, outboxVars, IInv, TypeOK, InBatch, Labels, Errors
<1>2. OnlyInserted'
  BY DEF RejectAtProvider, outboxVars, IInv, TypeOK, OnlyInserted, Reports,
         Phases
<1>3. LocksMatch'
  BY DEF RejectAtProvider, outboxVars, IInv, TypeOK, LocksMatch, Phases,
         Reports
<1>4. Phases'
  BY DEF RejectAtProvider, outboxVars, IInv, TypeOK, Phases, InBatch, Labels
<1>5. Reports'
  BY DEF RejectAtProvider, outboxVars, IInv, TypeOK, Reports, Poisonous,
         Phases, OnlyInserted, LocksMatch
<1>6. GroupRuns'
  BY DEF RejectAtProvider, outboxVars, IInv, TypeOK, GroupRuns, Reports,
         Phases, Before
<1>7. GroupPrefixes'
  BY DEF RejectAtProvider, outboxVars, IInv, TypeOK, GroupPrefixes,
         OrderedUpTo, Settled, Poisonous, Before, GroupRuns, Reports, Phases,
         OnlyInserted, NeverLost
<1>8. DeadLetters'
  BY DEF RejectAtProvider, outboxVars, IInv, TypeOK, DeadLetters, Reports,
         LocksMatch, OnlyInserted, Phases
<1>9. LocksAscend'
  BY DEF RejectAtProvider, outboxVars, IInv, TypeOK, LocksAscend, Reports,
         Phases
<1>10. NeverLost'
  BY DEF RejectAtProvider, outboxVars, IInv, TypeOK, NeverLost, Poisonous,
         Reports, OnlyInserted
<1>. QED
  BY <1>1, <1>2, <1>3, <1>4, <1>5, <1>6, <1>7, <1>8, <1>9, <1>10 DEF IInv

\* PublishFails: a publish fails and its group stops.
LEMMA PublishFailsInv ==
    ASSUME IInv, NEW r \in Relays, NEW e \in Events, PublishFails(r, e)
    PROVE  IInv'
<1>. USE EventsAssumption, OutboxAssumption, RelayAssumption
<1>1. TypeOK'
  BY DEF PublishFails, Fault, HeldBack, outboxVars, IInv, TypeOK, InBatch,
         Labels, Errors
<1>2. OnlyInserted'
  BY DEF PublishFails, Fault, HeldBack, outboxVars, IInv, TypeOK,
         OnlyInserted, Reports, Phases
<1>3. LocksMatch'
  BY DEF PublishFails, Fault, HeldBack, outboxVars, IInv, TypeOK, LocksMatch,
         Phases, Reports
<1>4. Phases'
  BY DEF PublishFails, Fault, HeldBack, outboxVars, IInv, TypeOK, Phases,
         InBatch, Labels
<1>5. Reports'
  BY DEF PublishFails, Fault, HeldBack, outboxVars, IInv, TypeOK, Reports,
         Poisonous, Phases, OnlyInserted, LocksMatch
<1>6. GroupRuns'
  BY DEF PublishFails, Fault, HeldBack, outboxVars, IInv, TypeOK, GroupRuns,
         Reports, Phases, Before
<1>7. GroupPrefixes'
  BY DEF PublishFails, Fault, HeldBack, outboxVars, IInv, TypeOK,
         GroupPrefixes, OrderedUpTo, Settled, Poisonous, Before, GroupRuns,
         Reports, Phases, OnlyInserted, NeverLost
<1>8. DeadLetters'
  BY DEF PublishFails, Fault, HeldBack, outboxVars, IInv, TypeOK,
         DeadLetters, Reports, LocksMatch, OnlyInserted, Phases
<1>9. LocksAscend'
  BY DEF PublishFails, Fault, HeldBack, outboxVars, IInv, TypeOK,
         LocksAscend, Reports, Phases
<1>10. NeverLost'
  BY DEF PublishFails, Fault, HeldBack, outboxVars, IInv, TypeOK, NeverLost,
         Poisonous, Reports, OnlyInserted
<1>. QED
  BY <1>1, <1>2, <1>3, <1>4, <1>5, <1>6, <1>7, <1>8, <1>9, <1>10 DEF IInv

\* Interrupt: the cancelled context stops a group.
LEMMA InterruptInv ==
    ASSUME IInv, NEW r \in Relays, NEW e \in Events, Interrupt(r, e)
    PROVE  IInv'
<1>. USE EventsAssumption, OutboxAssumption, RelayAssumption
<1>1. TypeOK'
  BY DEF Interrupt, InTurn, HeldBack, outboxVars, IInv, TypeOK, InBatch,
         Labels, Errors
<1>2. OnlyInserted'
  BY DEF Interrupt, InTurn, HeldBack, outboxVars, IInv, TypeOK, OnlyInserted,
         Reports, Phases
<1>3. LocksMatch'
  BY DEF Interrupt, InTurn, HeldBack, outboxVars, IInv, TypeOK, LocksMatch,
         Phases, Reports
<1>4. Phases'
  BY DEF Interrupt, InTurn, HeldBack, outboxVars, IInv, TypeOK, Phases,
         InBatch, Labels
<1>5. Reports'
  BY DEF Interrupt, InTurn, HeldBack, outboxVars, IInv, TypeOK, Reports,
         Poisonous, Phases, OnlyInserted, LocksMatch
<1>6. GroupRuns'
  BY DEF Interrupt, InTurn, HeldBack, outboxVars, IInv, TypeOK, GroupRuns,
         Reports, Phases, Before
<1>7. GroupPrefixes'
  BY DEF Interrupt, InTurn, HeldBack, outboxVars, IInv, TypeOK,
         GroupPrefixes, OrderedUpTo, Settled, Poisonous, Before, GroupRuns,
         Reports, Phases, OnlyInserted, NeverLost
<1>8. DeadLetters'
  BY DEF Interrupt, InTurn, HeldBack, outboxVars, IInv, TypeOK, DeadLetters,
         Reports, LocksMatch, OnlyInserted, Phases
<1>9. LocksAscend'
  BY DEF Interrupt, InTurn, HeldBack, outboxVars, IInv, TypeOK, LocksAscend,
         Reports, Phases
<1>10. NeverLost'
  BY DEF Interrupt, InTurn, HeldBack, outboxVars, IInv, TypeOK, NeverLost,
         Poisonous, Reports, OnlyInserted
<1>. QED
  BY <1>1, <1>2, <1>3, <1>4, <1>5, <1>6, <1>7, <1>8, <1>9, <1>10 DEF IInv

\* PublishUnknown: an ordered Pub/Sub result does not arrive.
LEMMA PublishUnknownInv ==
    ASSUME IInv, NEW r \in Relays, NEW e \in Events, PublishUnknown(r, e)
    PROVE  IInv'
<1>. USE EventsAssumption, OutboxAssumption, RelayAssumption
<1>1. TypeOK'
  BY DEF PublishUnknown, Fault, HeldBack, outboxVars, IInv, TypeOK, InBatch,
         Labels, Errors
<1>2. OnlyInserted'
  BY DEF PublishUnknown, Fault, HeldBack, outboxVars, IInv, TypeOK,
         OnlyInserted, Reports, Phases
<1>3. LocksMatch'
  BY DEF PublishUnknown, Fault, HeldBack, outboxVars, IInv, TypeOK,
         LocksMatch, Phases, Reports
<1>4. Phases'
  BY DEF PublishUnknown, Fault, HeldBack, outboxVars, IInv, TypeOK, Phases,
         InBatch, Labels
<1>5. Reports'
  BY DEF PublishUnknown, Fault, HeldBack, outboxVars, IInv, TypeOK, Reports,
         Poisonous, Phases, OnlyInserted, LocksMatch
<1>6. GroupRuns'
  BY DEF PublishUnknown, Fault, HeldBack, outboxVars, IInv, TypeOK,
         GroupRuns, Reports, Phases, Before
<1>7. GroupPrefixes'
  BY DEF PublishUnknown, Fault, HeldBack, outboxVars, IInv, TypeOK,
         GroupPrefixes, OrderedUpTo, Settled, Poisonous, Before, GroupRuns,
         Reports, Phases, OnlyInserted, NeverLost
<1>8. DeadLetters'
  BY DEF PublishUnknown, Fault, HeldBack, outboxVars, IInv, TypeOK,
         DeadLetters, Reports, LocksMatch, OnlyInserted, Phases
<1>9. LocksAscend'
  BY DEF PublishUnknown, Fault, HeldBack, outboxVars, IInv, TypeOK,
         LocksAscend, Reports, Phases
<1>10. NeverLost'
  BY DEF PublishUnknown, Fault, HeldBack, outboxVars, IInv, TypeOK,
         NeverLost, Poisonous, Reports, OnlyInserted
<1>. QED
  BY <1>1, <1>2, <1>3, <1>4, <1>5, <1>6, <1>7, <1>8, <1>9, <1>10 DEF IInv

\* InsertDeadLetters: the dead letters are written in the transaction.
LEMMA InsertDeadLettersInv ==
    ASSUME IInv, NEW r \in Relays, InsertDeadLetters(r)
    PROVE  IInv'
<1>. USE EventsAssumption, OutboxAssumption, RelayAssumption
<1>1. TypeOK'
  BY DEF InsertDeadLetters, Sent, outboxVars, IInv, TypeOK, InBatch, Labels,
         Errors
<1>2. OnlyInserted'
  BY DEF InsertDeadLetters, Sent, outboxVars, IInv, TypeOK, OnlyInserted,
         Reports, Phases
<1>3. LocksMatch'
  BY DEF InsertDeadLetters, Sent, outboxVars, IInv, TypeOK, LocksMatch,
         Phases, Reports
<1>4. Phases'
  BY DEF InsertDeadLetters, Sent, outboxVars, IInv, TypeOK, Phases, InBatch,
         Labels
<1>5. Reports'
  BY DEF InsertDeadLetters, Sent, outboxVars, IInv, TypeOK, Reports,
         Poisonous, Phases, OnlyInserted, LocksMatch
<1>6. GroupRuns'
  BY DEF InsertDeadLetters, Sent, outboxVars, IInv, TypeOK, GroupRuns,
         Reports, Phases, Before
<1>7. GroupPrefixes'
  BY DEF InsertDeadLetters, Sent, outboxVars, IInv, TypeOK, GroupPrefixes,
         OrderedUpTo, Settled, Poisonous, Before, GroupRuns, Reports, Phases,
         OnlyInserted, NeverLost
<1>8. DeadLetters'
  BY DEF InsertDeadLetters, Sent, outboxVars, IInv, TypeOK, DeadLetters,
         Reports, LocksMatch, OnlyInserted, Phases
<1>9. LocksAscend'
  BY DEF InsertDeadLetters, Sent, outboxVars, IInv, TypeOK, LocksAscend,
         Reports, Phases
<1>10. NeverLost'
  BY DEF InsertDeadLetters, Sent, outboxVars, IInv, TypeOK, NeverLost,
         Poisonous, Reports, OnlyInserted
<1>. QED
  BY <1>1, <1>2, <1>3, <1>4, <1>5, <1>6, <1>7, <1>8, <1>9, <1>10 DEF IInv

\* DeleteEvents: the rows are deleted in the transaction.
LEMMA DeleteEventsInv ==
    ASSUME IInv, NEW r \in Relays, DeleteEvents(r)
    PROVE  IInv'
<1>. USE EventsAssumption, OutboxAssumption, RelayAssumption
<1>1. TypeOK'
  BY DEF DeleteEvents, outboxVars, IInv, TypeOK, InBatch, Labels, Errors
<1>2. OnlyInserted'
  BY DEF DeleteEvents, outboxVars, IInv, TypeOK, OnlyInserted, Reports, Phases
<1>3. LocksMatch'
  BY DEF DeleteEvents, outboxVars, IInv, TypeOK, LocksMatch, Phases, Reports
<1>4. Phases'
  BY DEF DeleteEvents, outboxVars, IInv, TypeOK, Phases, InBatch, Labels
<1>5. Reports'
  BY DEF DeleteEvents, outboxVars, IInv, TypeOK, Reports, Poisonous, Phases,
         OnlyInserted, LocksMatch
<1>6. GroupRuns'
  BY DEF DeleteEvents, outboxVars, IInv, TypeOK, GroupRuns, Reports, Phases,
         Before
<1>7. GroupPrefixes'
  BY DEF DeleteEvents, outboxVars, IInv, TypeOK, GroupPrefixes, OrderedUpTo,
         Settled, Poisonous, Before, GroupRuns, Reports, Phases,
         OnlyInserted, NeverLost
<1>8. DeadLetters'
  BY DEF DeleteEvents, outboxVars, IInv, TypeOK, DeadLetters, Reports,
         LocksMatch, OnlyInserted, Phases
<1>9. LocksAscend'
  BY DEF DeleteEvents, outboxVars, IInv, TypeOK, LocksAscend, Reports, Phases
<1>10. NeverLost'
  BY DEF DeleteEvents, outboxVars, IInv, TypeOK, NeverLost, Poisonous,
         Reports, OnlyInserted
<1>. QED
  BY <1>1, <1>2, <1>3, <1>4, <1>5, <1>6, <1>7, <1>8, <1>9, <1>10 DEF IInv

\* CommitBatch: the transaction commits.
LEMMA CommitBatchInv ==
    ASSUME IInv, NEW r \in Relays, CommitBatch(r)
    PROVE  IInv'
<1>. USE EventsAssumption, OutboxAssumption, RelayAssumption
<1>1. /\ EndBatch(r, AfterCommit(r))
      /\ AfterCommit(r) \in {"loop", "idle", "cooldown", "exited"}
      /\ unknown[r] # {} => AfterCommit(r) = "exited"
      /\ inflight[r] = {}
      /\ table' \subseteq table
      /\ UNCHANGED <<inserted, expired, delivered>>
  BY DEF CommitBatch, CommitOnServer, IInv, Phases, InBatch, AfterCommit
<1>2. BatchEnded(r, AfterCommit(r)) /\ OnlyInserted' /\ Phases' /\ Reports' /\ GroupRuns'
        /\ GroupPrefixes' /\ LocksAscend'
  BY <1>1, EndBatchInv
<1>3. TypeOK'
  <2>1. table' \subseteq Events /\ dlq' \in [Events -> Nat]
    BY CommitTypes DEF CommitBatch, IInv
  <2>2. holder' \in [Events -> Relays \cup {NoRelay}]
    BY DEF CommitBatch, CommitOnServer, Released, IInv, TypeOK
  <2>3. faults' \in 0..MaxFaults
    BY DEF CommitBatch, IInv, TypeOK
  <2>. QED
    BY <1>1, <1>2, <2>1, <2>2, <2>3 DEF BatchEnded, outboxVars, IInv, TypeOK, Labels,
       InBatch
<1>4. LocksMatch'
  BY <1>2 DEF CommitBatch, CommitOnServer, Released, BatchEnded, IInv, TypeOK, LocksMatch,
     Reports
<1>5. DeadLetters'
  BY DEF CommitBatch, CommitOnServer, IInv, TypeOK, DeadLetters, LocksMatch, Reports,
     OnlyInserted
<1>6. NeverLost'
  BY DEF CommitBatch, CommitOnServer, IInv, Reports, NeverLost, Poisonous
<1>. QED
  BY <1>2, <1>3, <1>4, <1>5, <1>6 DEF IInv

\* CommitAnswerLost: the transaction commits but the relay sees an error.
LEMMA CommitAnswerLostInv ==
    ASSUME IInv, NEW r \in Relays, CommitAnswerLost(r)
    PROVE  IInv'
<1>. USE EventsAssumption, OutboxAssumption, RelayAssumption
<1>1. /\ EndBatch(r, AfterFailure(r))
      /\ AfterFailure(r) \in {"loop", "idle", "cooldown", "exited"}
      /\ unknown[r] # {} => AfterFailure(r) = "exited"
      /\ inflight[r] = {}
      /\ table' \subseteq table
      /\ UNCHANGED <<inserted, expired, delivered>>
  BY DEF CommitAnswerLost, CommitOnServer, IInv, Phases, InBatch, AfterFailure
<1>2. BatchEnded(r, AfterFailure(r)) /\ OnlyInserted' /\ Phases' /\ Reports' /\ GroupRuns'
        /\ GroupPrefixes' /\ LocksAscend'
  BY <1>1, EndBatchInv
<1>3. TypeOK'
  <2>1. table' \subseteq Events /\ dlq' \in [Events -> Nat]
    BY CommitTypes DEF CommitAnswerLost, IInv
  <2>2. holder' \in [Events -> Relays \cup {NoRelay}]
    BY DEF CommitAnswerLost, CommitOnServer, Released, IInv, TypeOK
  <2>3. faults' \in 0..MaxFaults
    BY DEF CommitAnswerLost, Fault, IInv, TypeOK
  <2>. QED
    BY <1>1, <1>2, <2>1, <2>2, <2>3 DEF BatchEnded, outboxVars, IInv, TypeOK, Labels,
       InBatch
<1>4. LocksMatch'
  BY <1>2 DEF CommitAnswerLost, CommitOnServer, Released, BatchEnded, IInv, TypeOK, LocksMatch,
     Reports
<1>5. DeadLetters'
  BY DEF CommitAnswerLost, CommitOnServer, IInv, TypeOK, DeadLetters, LocksMatch, Reports,
     OnlyInserted
<1>6. NeverLost'
  BY DEF CommitAnswerLost, CommitOnServer, IInv, Reports, NeverLost, Poisonous
<1>. QED
  BY <1>2, <1>3, <1>4, <1>5, <1>6 DEF IInv

\* AbandonBatch: the batch cannot be committed.
LEMMA AbandonBatchInv ==
    ASSUME IInv, NEW r \in Relays, AbandonBatch(r)
    PROVE  IInv'
<1>. USE EventsAssumption, OutboxAssumption, RelayAssumption
<1>1. /\ EndBatch(r, AfterFailure(r))
      /\ AfterFailure(r) \in {"loop", "idle", "cooldown", "exited"}
      /\ unknown[r] # {} => AfterFailure(r) = "exited"
      /\ inflight[r] = {}
      /\ table' \subseteq table
      /\ UNCHANGED <<inserted, expired, delivered>>
  BY DEF AbandonBatch, RollBack, Sent, outboxVars, IInv, Phases, InBatch, AfterFailure
<1>2. BatchEnded(r, AfterFailure(r)) /\ OnlyInserted' /\ Phases' /\ Reports' /\ GroupRuns'
        /\ GroupPrefixes' /\ LocksAscend'
  BY <1>1, EndBatchInv
<1>3. TypeOK'
  <2>1. UNCHANGED outboxVars
    BY DEF AbandonBatch, RollBack
  <2>2. holder' \in [Events -> Relays \cup {NoRelay}]
    BY DEF AbandonBatch, RollBack, Released, IInv, TypeOK
  <2>3. faults' \in 0..MaxFaults
    BY DEF AbandonBatch, IInv, TypeOK
  <2>. QED
    BY <1>1, <1>2, <2>1, <2>2, <2>3 DEF BatchEnded, outboxVars, IInv, TypeOK, Labels,
       InBatch
<1>4. LocksMatch'
  BY <1>2 DEF AbandonBatch, RollBack, Released, outboxVars, BatchEnded, IInv, TypeOK,
     LocksMatch
<1>5. DeadLetters'
  BY DEF AbandonBatch, RollBack, outboxVars, IInv, DeadLetters
<1>6. NeverLost'
  BY DEF AbandonBatch, RollBack, outboxVars, IInv, NeverLost, Poisonous
<1>. QED
  BY <1>2, <1>3, <1>4, <1>5, <1>6 DEF IInv

\* FailBatch: a statement or the commit fails.
LEMMA FailBatchInv ==
    ASSUME IInv, NEW r \in Relays, FailBatch(r)
    PROVE  IInv'
<1>. USE EventsAssumption, OutboxAssumption, RelayAssumption
<1>1. /\ EndBatch(r, AfterFailure(r))
      /\ AfterFailure(r) \in {"loop", "idle", "cooldown", "exited"}
      /\ unknown[r] # {} => AfterFailure(r) = "exited"
      /\ inflight[r] = {}
      /\ table' \subseteq table
      /\ UNCHANGED <<inserted, expired, delivered>>
  BY DEF FailBatch, RollBack, Sent, outboxVars, IInv, Phases, InBatch, AfterFailure
<1>2. BatchEnded(r, AfterFailure(r)) /\ OnlyInserted' /\ Phases' /\ Reports' /\ GroupRuns'
        /\ GroupPrefixes' /\ LocksAscend'
  BY <1>1, EndBatchInv
<1>3. TypeOK'
  <2>1. UNCHANGED outboxVars
    BY DEF FailBatch, RollBack
  <2>2. holder' \in [Events -> Relays \cup {NoRelay}]
    BY DEF FailBatch, RollBack, Released, IInv, TypeOK
  <2>3. faults' \in 0..MaxFaults
    BY DEF FailBatch, Fault, IInv, TypeOK
  <2>. QED
    BY <1>1, <1>2, <2>1, <2>2, <2>3 DEF BatchEnded, outboxVars, IInv, TypeOK, Labels,
       InBatch
<1>4. LocksMatch'
  BY <1>2 DEF FailBatch, RollBack, Released, outboxVars, BatchEnded, IInv, TypeOK,
     LocksMatch
<1>5. DeadLetters'
  BY DEF FailBatch, RollBack, outboxVars, IInv, DeadLetters
<1>6. NeverLost'
  BY DEF FailBatch, RollBack, outboxVars, IInv, NeverLost, Poisonous
<1>. QED
  BY <1>2, <1>3, <1>4, <1>5, <1>6 DEF IInv

\* Resume: cooldown or idle wait ends.
LEMMA ResumeInv ==
    ASSUME IInv, NEW r \in Relays, Resume(r)
    PROVE  IInv'
<1>. USE EventsAssumption, OutboxAssumption, RelayAssumption
<1>1. TypeOK'
  BY DEF Resume, outboxVars, IInv, TypeOK, InBatch, Labels, Errors
<1>2. OnlyInserted'
  BY DEF Resume, outboxVars, IInv, TypeOK, OnlyInserted, Reports, Phases
<1>3. LocksMatch'
  BY DEF Resume, outboxVars, IInv, TypeOK, LocksMatch, Phases, Reports
<1>4. Phases'
  BY DEF Resume, outboxVars, IInv, TypeOK, Phases, InBatch, Labels
<1>5. Reports'
  BY DEF Resume, outboxVars, IInv, TypeOK, Reports, Poisonous, Phases,
         OnlyInserted, LocksMatch
<1>6. GroupRuns'
  BY DEF Resume, outboxVars, IInv, TypeOK, GroupRuns, Reports, Phases, Before
<1>7. GroupPrefixes'
  BY DEF Resume, outboxVars, IInv, TypeOK, GroupPrefixes, OrderedUpTo,
         Settled, Poisonous, Before, GroupRuns, Reports, Phases,
         OnlyInserted, NeverLost
<1>8. DeadLetters'
  BY DEF Resume, outboxVars, IInv, TypeOK, DeadLetters, Reports, LocksMatch,
         OnlyInserted, Phases
<1>9. LocksAscend'
  BY DEF Resume, outboxVars, IInv, TypeOK, LocksAscend, Reports, Phases
<1>10. NeverLost'
  BY DEF Resume, outboxVars, IInv, TypeOK, NeverLost, Poisonous, Reports,
         OnlyInserted
<1>. QED
  BY <1>1, <1>2, <1>3, <1>4, <1>5, <1>6, <1>7, <1>8, <1>9, <1>10 DEF IInv

\* LoseConnection: the transaction ends under a relay that is still sending.
LEMMA LoseConnectionInv ==
    ASSUME IInv, NEW r \in Relays, LoseConnection(r)
    PROVE  IInv'
<1>. USE EventsAssumption, OutboxAssumption, RelayAssumption
<1>1. TypeOK'
  BY DEF LoseConnection, LoseTransaction, Released, Fault, outboxVars, IInv,
         TypeOK, InBatch, Labels, Errors
<1>2. OnlyInserted'
  BY DEF LoseConnection, LoseTransaction, Released, Fault, outboxVars, IInv,
         TypeOK, OnlyInserted, Reports, Phases
<1>3. LocksMatch'
  BY DEF LoseConnection, LoseTransaction, Released, Fault, outboxVars, IInv,
         TypeOK, LocksMatch, Phases, Reports
<1>4. Phases'
  BY DEF LoseConnection, LoseTransaction, Released, Fault, outboxVars, IInv,
         TypeOK, Phases, InBatch, Labels
<1>5. Reports'
  BY DEF LoseConnection, LoseTransaction, Released, Fault, outboxVars, IInv,
         TypeOK, Reports, Poisonous, Phases, OnlyInserted, LocksMatch
<1>6. GroupRuns'
  BY DEF LoseConnection, LoseTransaction, Released, Fault, outboxVars, IInv,
         TypeOK, GroupRuns, Reports, Phases, Before
<1>7. GroupPrefixes'
  BY DEF LoseConnection, LoseTransaction, Released, Fault, outboxVars, IInv,
         TypeOK, GroupPrefixes, OrderedUpTo, Settled, Poisonous, Before,
         GroupRuns, Reports, Phases, OnlyInserted, NeverLost
<1>8. DeadLetters'
  BY DEF LoseConnection, LoseTransaction, Released, Fault, outboxVars, IInv,
         TypeOK, DeadLetters, Reports, LocksMatch, OnlyInserted, Phases
<1>9. LocksAscend'
  BY DEF LoseConnection, LoseTransaction, Released, Fault, outboxVars, IInv,
         TypeOK, LocksAscend, Reports, Phases
<1>10. NeverLost'
  BY DEF LoseConnection, LoseTransaction, Released, Fault, outboxVars, IInv,
         TypeOK, NeverLost, Poisonous, Reports, OnlyInserted
<1>. QED
  BY <1>1, <1>2, <1>3, <1>4, <1>5, <1>6, <1>7, <1>8, <1>9, <1>10 DEF IInv

\* Cancel: shutdown rolls the transaction back at once.
LEMMA CancelInv ==
    ASSUME IInv, NEW r \in Relays, Cancel(r)
    PROVE  IInv'
<1>. USE EventsAssumption, OutboxAssumption, RelayAssumption
<1>1. TypeOK'
  BY DEF Cancel, LoseTransaction, Released, Fault, outboxVars, IInv, TypeOK,
         InBatch, Labels, Errors
<1>2. OnlyInserted'
  BY DEF Cancel, LoseTransaction, Released, Fault, outboxVars, IInv, TypeOK,
         OnlyInserted, Reports, Phases
<1>3. LocksMatch'
  BY DEF Cancel, LoseTransaction, Released, Fault, outboxVars, IInv, TypeOK,
         LocksMatch, Phases, Reports
<1>4. Phases'
  BY DEF Cancel, LoseTransaction, Released, Fault, outboxVars, IInv, TypeOK,
         Phases, InBatch, Labels
<1>5. Reports'
  BY DEF Cancel, LoseTransaction, Released, Fault, outboxVars, IInv, TypeOK,
         Reports, Poisonous, Phases, OnlyInserted, LocksMatch
<1>6. GroupRuns'
  BY DEF Cancel, LoseTransaction, Released, Fault, outboxVars, IInv, TypeOK,
         GroupRuns, Reports, Phases, Before
<1>7. GroupPrefixes'
  BY DEF Cancel, LoseTransaction, Released, Fault, outboxVars, IInv, TypeOK,
         GroupPrefixes, OrderedUpTo, Settled, Poisonous, Before, GroupRuns,
         Reports, Phases, OnlyInserted, NeverLost
<1>8. DeadLetters'
  BY DEF Cancel, LoseTransaction, Released, Fault, outboxVars, IInv, TypeOK,
         DeadLetters, Reports, LocksMatch, OnlyInserted, Phases
<1>9. LocksAscend'
  BY DEF Cancel, LoseTransaction, Released, Fault, outboxVars, IInv, TypeOK,
         LocksAscend, Reports, Phases
<1>10. NeverLost'
  BY DEF Cancel, LoseTransaction, Released, Fault, outboxVars, IInv, TypeOK,
         NeverLost, Poisonous, Reports, OnlyInserted
<1>. QED
  BY <1>1, <1>2, <1>3, <1>4, <1>5, <1>6, <1>7, <1>8, <1>9, <1>10 DEF IInv

\* Stop: processEvents returns on a cancelled context.
LEMMA StopInv ==
    ASSUME IInv, NEW r \in Relays, Stop(r)
    PROVE  IInv'
<1>. USE EventsAssumption, OutboxAssumption, RelayAssumption
<1>1. /\ EndBatch(r, "exited")
      /\ "exited" \in {"loop", "idle", "cooldown", "exited"}
      /\ unknown[r] # {} => "exited" = "exited"
      /\ inflight[r] = {}
      /\ table' \subseteq table
      /\ UNCHANGED <<inserted, expired, delivered>>
  BY DEF Stop, outboxVars, IInv, Phases, InBatch
<1>2. BatchEnded(r, "exited") /\ OnlyInserted' /\ Phases' /\ Reports' /\ GroupRuns'
        /\ GroupPrefixes' /\ LocksAscend'
  BY <1>1, EndBatchInv
<1>3. TypeOK'
  <2>1. UNCHANGED outboxVars
    BY DEF Stop
  <2>2. holder' \in [Events -> Relays \cup {NoRelay}]
    BY DEF Stop, IInv, TypeOK
  <2>3. faults' \in 0..MaxFaults
    BY DEF Stop, IInv, TypeOK
  <2>. QED
    BY <1>1, <1>2, <2>1, <2>2, <2>3 DEF BatchEnded, outboxVars, IInv, TypeOK, Labels,
       InBatch
<1>4. LocksMatch'
  BY <1>2 DEF Stop, outboxVars, BatchEnded, IInv, TypeOK, LocksMatch, Phases, InBatch
<1>5. DeadLetters'
  BY DEF Stop, outboxVars, IInv, DeadLetters
<1>6. NeverLost'
  BY DEF Stop, outboxVars, IInv, NeverLost, Poisonous
<1>. QED
  BY <1>2, <1>3, <1>4, <1>5, <1>6 DEF IInv

\* Crash: the process dies.
LEMMA CrashInv ==
    ASSUME IInv, NEW r \in Relays, Crash(r)
    PROVE  IInv'
<1>. USE EventsAssumption, OutboxAssumption, RelayAssumption
<1>1. TypeOK'
  <2>1. holder' \in [Events -> Relays \cup {NoRelay}]
    BY DEF Crash, LoseTransaction, Released, IInv, TypeOK
  <2>2. faults' \in 0..MaxFaults
    BY DEF Crash, Fault, IInv, TypeOK
  <2>3. late' \subseteq Events
    BY DEF Crash, IInv, TypeOK
  <2>. QED
    BY <2>1, <2>2, <2>3 DEF Crash, LoseTransaction, ForgetBatch, outboxVars, IInv,
       TypeOK, Labels, InBatch
<1>2. OnlyInserted'
  BY DEF Crash, LoseTransaction, ForgetBatch, Released, Fault, outboxVars,
         IInv, TypeOK, OnlyInserted, Reports, Phases
<1>3. LocksMatch'
  BY DEF Crash, LoseTransaction, ForgetBatch, Released, Fault, outboxVars,
         IInv, TypeOK, LocksMatch, Phases, Reports
<1>4. Phases'
  BY DEF Crash, LoseTransaction, ForgetBatch, Released, Fault, outboxVars,
         IInv, TypeOK, Phases, InBatch, Labels
<1>5. Reports'
  BY DEF Crash, LoseTransaction, ForgetBatch, Released, Fault, outboxVars,
         IInv, TypeOK, Reports, Poisonous, Phases, OnlyInserted, LocksMatch
<1>6. GroupRuns'
  BY DEF Crash, LoseTransaction, ForgetBatch, Released, Fault, outboxVars,
         IInv, TypeOK, GroupRuns, Reports, Phases, Before
<1>7. GroupPrefixes'
  BY DEF Crash, LoseTransaction, ForgetBatch, Released, Fault, outboxVars,
         IInv, TypeOK, GroupPrefixes, OrderedUpTo, Settled, Poisonous,
         Before, GroupRuns, Reports, Phases, OnlyInserted, NeverLost
<1>8. DeadLetters'
  BY DEF Crash, LoseTransaction, ForgetBatch, Released, Fault, outboxVars,
         IInv, TypeOK, DeadLetters, Reports, LocksMatch, OnlyInserted, Phases
<1>9. LocksAscend'
  BY DEF Crash, LoseTransaction, ForgetBatch, Released, Fault, outboxVars,
         IInv, TypeOK, LocksAscend, Reports, Phases
<1>10. NeverLost'
  BY DEF Crash, LoseTransaction, ForgetBatch, Released, Fault, outboxVars,
         IInv, TypeOK, NeverLost, Poisonous, Reports, OnlyInserted
<1>. QED
  BY <1>1, <1>2, <1>3, <1>4, <1>5, <1>6, <1>7, <1>8, <1>9, <1>10 DEF IInv

\* Restart: the process is started again.
LEMMA RestartInv ==
    ASSUME IInv, NEW r \in Relays, Restart(r)
    PROVE  IInv'
<1>. USE EventsAssumption, OutboxAssumption, RelayAssumption
<1>1. TypeOK'
  BY DEF Restart, outboxVars, IInv, TypeOK, InBatch, Labels, Errors
<1>2. OnlyInserted'
  BY DEF Restart, outboxVars, IInv, TypeOK, OnlyInserted, Reports, Phases
<1>3. LocksMatch'
  BY DEF Restart, outboxVars, IInv, TypeOK, LocksMatch, Phases, Reports
<1>4. Phases'
  BY DEF Restart, outboxVars, IInv, TypeOK, Phases, InBatch, Labels
<1>5. Reports'
  BY DEF Restart, outboxVars, IInv, TypeOK, Reports, Poisonous, Phases,
         OnlyInserted, LocksMatch
<1>6. GroupRuns'
  BY DEF Restart, outboxVars, IInv, TypeOK, GroupRuns, Reports, Phases, Before
<1>7. GroupPrefixes'
  BY DEF Restart, outboxVars, IInv, TypeOK, GroupPrefixes, OrderedUpTo,
         Settled, Poisonous, Before, GroupRuns, Reports, Phases,
         OnlyInserted, NeverLost
<1>8. DeadLetters'
  BY DEF Restart, outboxVars, IInv, TypeOK, DeadLetters, Reports, LocksMatch,
         OnlyInserted, Phases
<1>9. LocksAscend'
  BY DEF Restart, outboxVars, IInv, TypeOK, LocksAscend, Reports, Phases
<1>10. NeverLost'
  BY DEF Restart, outboxVars, IInv, TypeOK, NeverLost, Poisonous, Reports,
         OnlyInserted
<1>. QED
  BY <1>1, <1>2, <1>3, <1>4, <1>5, <1>6, <1>7, <1>8, <1>9, <1>10 DEF IInv

\* Every step of the relays, their producers and their provider preserves IInv.
LEMMA NextInv == IInv /\ [Next]_vars => IInv'
<1>. SUFFICES ASSUME IInv, [Next]_vars PROVE IInv'
  OBVIOUS
<1>1. ASSUME NEW e \in Events, Producer(e) \/ Age(e) \/ Land(e)
      PROVE  IInv'
  BY <1>1, ProducerInv, AgeInv, LandInv
<1>2. ASSUME NEW r \in Relays, Work(r)
      PROVE  IInv'
  BY <1>2, BeginBatchInv, LockRowInv, TriageInv, RejectLocallyInv, PublishInv,
     AcknowledgeInv, RejectAtProviderInv, InsertDeadLettersInv, DeleteEventsInv,
     CommitBatchInv, AbandonBatchInv, ResumeInv, StopInv DEF Work, Send
<1>3. ASSUME NEW r \in Relays, Trouble(r)
      PROVE  IInv'
  BY <1>3, BeginFailsInv, PublishFailsInv, PublishUnknownInv, InterruptInv,
     CommitAnswerLostInv, FailBatchInv, LoseConnectionInv, CancelInv, CrashInv
     DEF Trouble
<1>4. ASSUME NEW r \in Relays, Restart(r)
      PROVE  IInv'
  BY <1>4, RestartInv
<1>5. CASE UNCHANGED vars
  BY <1>5 DEF vars, outboxVars, relayVars, IInv, TypeOK, OnlyInserted, LocksMatch,
     Phases, Reports, GroupRuns, GroupPrefixes, OrderedUpTo, Settled, DeadLetters,
     LocksAscend, NeverLost, Poisonous, Before
<1>. QED
  BY <1>1, <1>2, <1>3, <1>4, <1>5 DEF Next

\* A fresh outbox and fresh relay processes satisfy IInv.
LEMMA InitInv == Init => IInv
<1>. USE RelayAssumption, OutboxAssumption, EventsAssumption
<1>. SUFFICES ASSUME Init PROVE IInv
  OBVIOUS
<1>1. TypeOK
  BY DEF Init, OutboxInit, TypeOK, Labels, InBatch
<1>2. OnlyInserted /\ LocksMatch /\ NeverLost /\ DeadLetters
  BY DEF Init, OutboxInit, OnlyInserted, LocksMatch, NeverLost, DeadLetters
<1>3. Phases /\ Reports /\ LocksAscend
  BY DEF Init, OutboxInit, Phases, Reports, LocksAscend, InBatch
<1>4. GroupRuns /\ GroupPrefixes
  BY DEF Init, OutboxInit, GroupRuns, GroupPrefixes
<1>. QED  BY <1>1, <1>2, <1>3, <1>4 DEF IInv

\* The relays keep the inductive invariant, the type invariant included.
THEOREM Inductive == Spec => []IInv
<1>. QED  BY InitInv, NextInv, PTL DEF Spec

\* S0: whatever crashes, loses its transaction or is cancelled, only delivered
\* events and poison ever leave the outbox (processEventBatch, deleteEvents).
THEOREM NothingLost == Spec => []NeverLost
<1>1. IInv => NeverLost
  BY DEF IInv
<1>. QED  BY <1>1, Inductive, PTL

\* docs/dlq.md: a removed undelivered event has exactly one dead letter, a
\* remaining row none (insertDeadLetters in the batch transaction).
THEOREM DeadLettersExact == Spec => []DeadLetteredOnce
<1>1. IInv => DeadLetteredOnce
  BY DEF IInv, TypeOK, DeadLetters, DeadLetteredOnce
<1>. QED  BY <1>1, Inductive, PTL

\* Row locks keep live batches apart and their rows in the table (FOR UPDATE in
\* selectEventsQuerySQL).
THEOREM LiveBatchesExclusive == Spec => []BatchesExclusive
<1>1. IInv => BatchesExclusive
  BY RelayAssumption DEF IInv, TypeOK, LocksMatch, BatchesExclusive
<1>. QED  BY <1>1, Inductive, PTL

\* S2 in one process: no event is in flight behind one whose outcome is open
\* (sendPubsubOrderedGroup, sendSQSFIFOEvents, the fatal stop of processEvents).
THEOREM OutcomeKnownFirst == Spec => []KnownOutcomeFirst
<1>1. IInv => KnownOutcomeFirst
  BY DEF IInv, TypeOK, Reports, GroupRuns, KnownOutcomeFirst
<1>. QED  BY <1>1, Inductive, PTL

\* A set of events has a greatest one.
LEMMA GreatestEvent ==
    ASSUME NEW N \in SUBSET Events, N # {}
    PROVE  \E e \in N : \A f \in N : f <= e
<1>. DEFINE Above(e) == {g \in Events : e < g}
            T == {Cardinality(Above(e)) : e \in N}
<1>1. Events \subseteq Nat /\ IsFiniteSet(Events)
  BY EventsAssumption
<1>2. \A e \in Events : IsFiniteSet(Above(e)) /\ Cardinality(Above(e)) \in Nat
  BY <1>1, FS_Subset, FS_CardinalityType
<1>3. T \subseteq Nat /\ T # {}
  BY <1>2
<1>4. \E x \in T : \A y \in T : ~(<<y, x>> \in OpToRel(<, Nat))
  <2>. HIDE DEF T
  <2>. QED  BY <1>3, WFMin, NatLessThanWellFounded
<1>5. PICK e \in N : \A f \in N : ~(Cardinality(Above(f)) < Cardinality(Above(e)))
  BY <1>2, <1>3, <1>4 DEF OpToRel
<1>6. ASSUME NEW f \in N, ~(f <= e)
      PROVE  FALSE
  <2>1. e \in Nat /\ f \in Nat /\ e < f
    BY <1>1, <1>6
  <2>2. \A g \in Events : f < g => e < g
    BY <1>1, <2>1
  <2>3. Above(f) \subseteq Above(e)
    BY <2>2
  <2>4. f \in Above(e) /\ f \notin Above(f)
    BY <2>1
  <2>5. Cardinality(Above(f)) <= Cardinality(Above(e))
        /\ Cardinality(Above(f)) # Cardinality(Above(e))
    BY <1>2, <2>3, <2>4, FS_Subset
  <2>6. Cardinality(Above(f)) \in Nat /\ Cardinality(Above(e)) \in Nat
    BY <1>2
  <2>. HIDE DEF Above
  <2>. QED  BY <1>5, <2>5, <2>6
<1>. QED  BY <1>6

\* Relays never wait for each other's row locks in a circle (ORDER BY id FOR
\* UPDATE): in a circle, who waits for the greatest row would wait for a relay
\* that already holds a row above the one it waits for.
THEOREM NoDeadlockOnRows == Spec => []NoLockCycle
<1>1. ASSUME IInv, NEW S \in SUBSET Relays, S # {},
             \A r \in S : \E s \in S : WaitsFor(r, s)
      PROVE  FALSE
  <2>. DEFINE N == {e \in Events : \E r \in S : NextRow(r, e)}
  <2>1. N \in SUBSET Events /\ N # {}
    BY <1>1 DEF WaitsFor
  <2>2. PICK e \in N : \A f \in N : f <= e
    BY <2>1, GreatestEvent
  <2>3. PICK r \in S : NextRow(r, e)
    OBVIOUS
  <2>4. PICK s \in S : WaitsFor(r, s)
    BY <1>1
  <2>5. Events \subseteq Nat /\ want[r] \subseteq Events
    BY <1>1, EventsAssumption DEF IInv, TypeOK
  <2>6. holder[e] = s
    <3>1. PICK g \in Events : NextRow(r, g) /\ holder[g] = s
      BY <2>4 DEF WaitsFor
    <3>2. g <= e /\ e <= g /\ g \in Nat /\ e \in Nat
      BY <2>3, <2>5, <3>1 DEF NextRow
    <3>. QED  BY <3>1, <3>2
  <2>7. e \in batch[s]
    BY <1>1, <2>6 DEF IInv, LocksMatch
  <2>8. PICK f \in Events : NextRow(s, f)
    BY <1>1 DEF WaitsFor
  <2>9. e < f
    BY <1>1, <2>7, <2>8 DEF IInv, LocksAscend, NextRow
  <2>. QED  BY <2>2, <2>5, <2>8, <2>9
<1>2. IInv => NoLockCycle
  BY <1>1 DEF NoLockCycle
<1>. QED  BY <1>2, Inductive, PTL

\* The outbox's view of a relay step: an outbox step or none.
LEMMA StepRefines ==
    ASSUME IInv, [Next]_vars
    PROVE  [OutboxNext]_outboxVars
<1>1. ASSUME NEW e \in Events, Producer(e) \/ Age(e)
      PROVE  OutboxNext
  BY <1>1 DEF Producer, Age, OutboxNext
<1>2. ASSUME NEW e \in Events, Land(e)
      PROVE  OutboxNext
  <2>1. e \in inserted /\ (CommitsInIdOrder => OrderedUpTo(e))
    BY <1>2 DEF Land, IInv, TypeOK, OnlyInserted, Reports, GroupPrefixes
  <2>. QED  BY <1>2, <2>1 DEF Land, Deliver, OutboxNext
<1>3. ASSUME NEW r \in Relays, NEW e \in Events, Acknowledge(r, e)
      PROVE  OutboxNext
  <2>1. e \in inserted /\ (CommitsInIdOrder => OrderedUpTo(e))
    BY <1>3 DEF Acknowledge, IInv, TypeOK, Reports, GroupPrefixes
  <2>. QED  BY <1>3, <2>1 DEF Acknowledge, Deliver, OutboxNext
<1>4. ASSUME NEW r \in Relays, CommitOnServer(r)
      PROVE  OutboxNext
  <2>1. confirmed[r] \in SUBSET Events /\ poison[r] \in SUBSET Events
    BY DEF IInv, TypeOK
  <2>2. batch[r] \subseteq table
    BY <1>4, RelayAssumption DEF CommitOnServer, IInv, TypeOK, LocksMatch
  <2>3. /\ confirmed[r] \subseteq table \cap delivered
        /\ poison[r] \subseteq (table \cap Poisonous(expired)) \ confirmed[r]
    BY <2>2 DEF IInv, Reports
  <2>4. Remove(confirmed[r], poison[r])
    BY <1>4, <2>3, Zenon DEF CommitOnServer, Remove
  <2>. QED  BY <2>1, <2>4 DEF OutboxNext
<1>5. ASSUME NEW r \in Relays, Work(r)
      PROVE  OutboxNext \/ UNCHANGED outboxVars
  BY <1>3, <1>4, <1>5 DEF Work, Send, BeginBatch, LockRow, Triage, RejectLocally,
     Publish, RejectAtProvider, InsertDeadLetters, DeleteEvents, CommitBatch,
     AbandonBatch, RollBack, Resume, Stop
<1>6. ASSUME NEW r \in Relays, Trouble(r) \/ Restart(r)
      PROVE  OutboxNext \/ UNCHANGED outboxVars
  BY <1>4, <1>6 DEF Trouble, BeginFails, PublishFails, PublishUnknown, Interrupt,
     CommitAnswerLost, FailBatch, RollBack, LoseConnection, Cancel, Crash, Restart
<1>7. CASE UNCHANGED vars
  BY <1>7 DEF vars
<1>. QED
  BY <1>1, <1>2, <1>5, <1>6, <1>7 DEF Next

\* The relays implement the outbox: at-least-once, in order, removed only when
\* done, dead-lettered in the same step.
THEOREM RelaysImplementOutbox == Spec => OutboxSpec
<1>1. Init => OutboxInit
  BY DEF Init
<1>. QED  BY <1>1, StepRefines, Inductive, PTL DEF Spec, OutboxSpec

\* S2 across processes: first deliveries of one ordering domain follow the ids,
\* provided producers commit them in that order.
THEOREM DeliveredInOrder ==
    ASSUME CommitsInIdOrder
    PROVE  Spec => FirstDeliveryInOrder
<1>1. ASSUME IInv, [Next]_vars
      PROVE  [\A e \in delivered' \ delivered : OrderedUpTo(e)]_vars
  BY <1>1, StepRefines DEF OutboxNext, outboxVars, Insert, Expire, Deliver, Remove
<1>. QED  BY <1>1, Inductive, PTL DEF Spec, FirstDeliveryInOrder

-----------------------------------------------------------------------------
(* The outbox by itself.                                                   *)

\* S2, as a reader of the provider sees it at any time: behind an event that was
\* delivered no committed event of its domain is missing, unless it is poison.
DomainsDelivered == CommitsInIdOrder => \A e \in delivered : OrderedUpTo(e)

\* Rows are committed events, and those the provider has were committed.
OutboxTypes ==
    /\ table \subseteq inserted /\ inserted \subseteq Events
    /\ delivered \subseteq inserted
    /\ dlq \in [Events -> Nat]

\* A row that was never there has no dead letter either.
OutboxInv ==
    /\ OutboxTypes
    /\ NeverLost
    /\ DLQEnabled => \A e \in Events \ inserted : dlq[e] = 0
    /\ DeadLetteredOnce
    /\ DomainsDelivered

\* A producer's row is behind what was delivered of its domain.
LEMMA InsertKeeps ==
    ASSUME OutboxInv, NEW e \in Events, Insert(e)
    PROVE  OutboxInv'
<1>1. OutboxTypes'
  BY DEF OutboxInv, OutboxTypes, Insert
<1>2. NeverLost'
  BY DEF OutboxInv, OutboxTypes, NeverLost, Insert
<1>3. (DLQEnabled => \A f \in Events \ inserted : dlq[f] = 0)'
  BY DEF OutboxInv, OutboxTypes, Insert
<1>4. DeadLetteredOnce'
  BY DEF OutboxInv, OutboxTypes, DeadLetteredOnce, Insert
<1>5. DomainsDelivered'
  BY DEF OutboxInv, OutboxTypes, DomainsDelivered, OrderedUpTo, Insert
<1>. QED  BY <1>1, <1>2, <1>3, <1>4, <1>5 DEF OutboxInv

\* Time and the provider only add to what an event may be removed for.
LEMMA ProviderKeeps ==
    ASSUME OutboxInv, NEW e \in Events, Expire(e) \/ Deliver(e)
    PROVE  OutboxInv'
<1>1. /\ table' = table /\ inserted' = inserted /\ dlq' = dlq
      /\ delivered \subseteq delivered' /\ expired \subseteq expired'
      /\ delivered' \subseteq delivered \cup {e}
      /\ e \in delivered' => e \in delivered \/ (e \in inserted /\ (CommitsInIdOrder => OrderedUpTo(e)))
  BY DEF Expire, Deliver
<1>2. OutboxTypes'
  BY <1>1 DEF OutboxInv, OutboxTypes
<1>3. NeverLost'
  BY <1>1 DEF OutboxInv, NeverLost, Poisonous
<1>4. DeadLetteredOnce'
  BY <1>1 DEF OutboxInv, DeadLetteredOnce
<1>5. DomainsDelivered'
  BY <1>1 DEF OutboxInv, DomainsDelivered, OrderedUpTo, Poisonous
<1>. QED  BY <1>1, <1>2, <1>3, <1>4, <1>5 DEF OutboxInv

\* A batch takes only what is done, and writes the dead letters of the rest.
LEMMA RemoveKeeps ==
    ASSUME OutboxInv, NEW sent \in SUBSET Events, NEW gone \in SUBSET Events, Remove(sent, gone)
    PROVE  OutboxInv'
<1>1. /\ inserted' = inserted /\ delivered' = delivered /\ expired' = expired
      /\ table' = table \ (sent \cup gone)
      /\ sent \subseteq table \cap delivered
      /\ gone \subseteq table \cap Poisonous(expired)
      /\ \A e \in Events : dlq'[e] = IF DLQEnabled /\ e \in gone THEN dlq[e] + 1 ELSE dlq[e]
  BY DEF Remove
<1>2. \A e \in Events : dlq[e] \in Nat
  BY DEF OutboxInv, OutboxTypes
<1>3. OutboxTypes'
  BY <1>1, <1>2 DEF OutboxInv, OutboxTypes, Remove
<1>4. NeverLost'
  BY <1>1 DEF OutboxInv, NeverLost
<1>5. ASSUME DLQEnabled
      PROVE  /\ \A e \in gone : dlq'[e] = 1
             /\ \A e \in Events \ gone : dlq'[e] = dlq[e]
  <2>1. \A e \in gone : e \in table /\ e \in Events /\ dlq[e] = 0
    BY <1>1, <1>5 DEF OutboxInv, DeadLetteredOnce
  <2>. QED  BY <1>1, <1>5, <2>1
<1>6. DeadLetteredOnce'
  BY <1>1, <1>2, <1>5 DEF OutboxInv, OutboxTypes, DeadLetteredOnce
<1>7. (DLQEnabled => \A e \in Events \ inserted : dlq[e] = 0)'
  BY <1>1, <1>5 DEF OutboxInv, OutboxTypes
<1>8. DomainsDelivered'
  BY <1>1 DEF OutboxInv, DomainsDelivered, OrderedUpTo
<1>. QED  BY <1>3, <1>4, <1>6, <1>7, <1>8 DEF OutboxInv

\* What the application may rely on is in the contract: nothing is lost, every loss
\* has its dead letter, and no domain has a gap.
THEOREM OutboxPromises == OutboxSpec => [](NeverLost /\ DeadLetteredOnce /\ DomainsDelivered)
<1>1. OutboxInit => OutboxInv
  BY DEF OutboxInit, OutboxInv, OutboxTypes, NeverLost, DeadLetteredOnce, DomainsDelivered, OrderedUpTo
<1>2. OutboxInv /\ [OutboxNext]_outboxVars => OutboxInv'
  <2>1. OutboxInv /\ UNCHANGED outboxVars => OutboxInv'
    BY DEF outboxVars, OutboxInv, OutboxTypes, NeverLost, DeadLetteredOnce, DomainsDelivered, OrderedUpTo
  <2>. QED  BY <2>1, InsertKeeps, ProviderKeeps, RemoveKeeps DEF OutboxNext
<1>3. OutboxInv => NeverLost /\ DeadLetteredOnce /\ DomainsDelivered
  BY DEF OutboxInv
<1>. QED  BY <1>1, <1>2, <1>3, PTL DEF OutboxSpec

\* S2 across processes, at all times: whichever relays delivered them and however often
\* they crashed, the delivered events of a domain have no gap.
THEOREM DomainsHaveNoGap == Spec => []DomainsDelivered
BY OutboxPromises, RelaysImplementOutbox, PTL

=============================================================================
