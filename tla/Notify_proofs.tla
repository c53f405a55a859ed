---------------------------- MODULE Notify_proofs ----------------------------
(***************************************************************************)
(* The waiting side of the relay, for every set of rows, any number of     *)
(* faults and every way the connections may break: the pool of two always  *)
(* suffices, no pooled session is subscribed, and a relay whose listener   *)
(* was there before its batch never waits for the timer with an unseen row *)
(* in the table.                                                           *)
(***************************************************************************)
EXTENDS Notify, FiniteSetTheorems, TLAPS

\* Who holds which connection: the batch transaction and the listener, never the
\* same one, and nobody else; only the listener's session is subscribed.
ConnsHeld ==
    /\ \A c \in Conns : conn[c] = "inUse" <=> c \in {batchConn, listener}
    /\ batchConn # NoConn => batchConn # listener
    /\ pc = "batch" <=> batchConn # NoConn
    /\ pc \in {"wait", "drain"} => listener # NoConn
    /\ pc = "exited" => listener = NoConn
    /\ NoPooledSubscription

\* From the snapshot to the end of the wait, a listener that was subscribed when
\* the snapshot was taken stays so while its session lives, and a row that came
\* after the snapshot has left it a notification.
Covered ==
    early /\ pc \in {"batch", "idle", "wait"} =>
        /\ listener # NoConn
        /\ listener \in alive => listener \in listening
        /\ listener \in alive /\ table \ seen # {} => listener \in buffered

IInv == TypeOK /\ ConnsHeld /\ Covered

\* The assumption on the pool, as the proofs use it.
LEMMA AnotherConn == ASSUME NEW x PROVE \E c \in Conns : c # x
<1>. SUFFICES ASSUME Conns \subseteq {x} PROVE FALSE
  OBVIOUS
<1>1. Cardinality(Conns) <= Cardinality({x})
  BY FS_Singleton, FS_Subset
<1>. QED  BY <1>1, FS_Singleton, NotifyAssumption

\* The process starts with an unopened pool, no batch and no listener.
LEMMA InitInv == Init => IInv
<1>. SUFFICES ASSUME Init PROVE IInv
  OBVIOUS
<1>1. TypeOK
  <2>1. early \in BOOLEAN
    BY Zenon DEF Init
  <2>2. faults \in 0..MaxFaults
    BY NotifyAssumption DEF Init
  <2>3. conn \in [Conns -> {"unopened", "pooled", "inUse"}]
    BY DEF Init
  <2>. QED  BY <2>1, <2>2, <2>3, Zenon DEF Init, TypeOK
<1>2. ConnsHeld
  BY NotifyAssumption DEF Init, ConnsHeld, NoPooledSubscription
<1>3. Covered
  BY DEF Init, Covered
<1>. QED  BY <1>1, <1>2, <1>3 DEF IInv

-----------------------------------------------------------------------------
(* One lemma per action.                                                   *)

\* What Close does to the connections: the listener's goes back to the pool or out
\* of it, and its subscription is gone either way.
LEMMA CloseEffect ==
    ASSUME IInv, listener # NoConn, Close, pc # "batch"
    PROVE  /\ listener' = NoConn /\ listening' = {} /\ buffered' = {}
           /\ alive' \subseteq alive
           /\ conn' \in [Conns -> {"unopened", "pooled", "inUse"}]
           /\ \A c \in Conns : conn'[c] # "inUse"
<1>1. listener \in Conns
  BY DEF IInv, TypeOK
<1>2. listening' = {} /\ buffered' = {}
  BY DEF IInv, TypeOK, ConnsHeld, NoPooledSubscription, Close
<1>3. batchConn = NoConn
  BY DEF IInv, ConnsHeld
<1>4. PICK state \in {"pooled", "unopened"} : conn' = [conn EXCEPT ![listener] = state]
  BY DEF Close
<1>5. \A c \in Conns : conn'[c] # "inUse"
  BY <1>1, <1>3, <1>4, NotifyAssumption DEF IInv, TypeOK, ConnsHeld
<1>6. listener' = NoConn /\ alive' \subseteq alive
  BY DEF Close
<1>. QED  BY <1>1, <1>2, <1>4, <1>5, <1>6 DEF IInv, TypeOK

\* A producer's row leaves a notification with every subscribed session, the
\* listener's among them if it is alive.
LEMMA InsertInv ==
    ASSUME IInv, NEW e \in Events, Insert(e)
    PROVE  IInv'
<1>1. TypeOK'
  BY DEF IInv, TypeOK, Insert
<1>2. ConnsHeld'
  BY DEF IInv, ConnsHeld, NoPooledSubscription, Insert
<1>3. Covered'
  BY DEF IInv, TypeOK, Covered, Insert
<1>. QED  BY <1>1, <1>2, <1>3 DEF IInv

\* A session that breaks takes its subscription and its notifications with it.
LEMMA BreakInv ==
    ASSUME IInv, NEW c \in Conns, Break(c)
    PROVE  IInv'
<1>1. TypeOK'
  BY NotifyAssumption DEF IInv, TypeOK, Break
<1>2. ConnsHeld'
  BY DEF IInv, ConnsHeld, NoPooledSubscription, Break
<1>3. Covered'
  BY DEF IInv, TypeOK, Covered, Break
<1>. QED  BY <1>1, <1>2, <1>3 DEF IInv

\* BeginTx takes a connection the listener does not hold.
LEMMA BeginBatchInv ==
    ASSUME IInv, NEW c \in Conns, BeginBatch(c)
    PROVE  IInv'
<1>1. TypeOK'
  BY DEF IInv, TypeOK, BeginBatch, Goto
<1>2. ConnsHeld'
  BY NotifyAssumption DEF IInv, TypeOK, ConnsHeld, NoPooledSubscription, BeginBatch, Goto, Available
<1>3. Covered'
  BY NotifyAssumption DEF IInv, TypeOK, Covered, BeginBatch, Goto
<1>. QED  BY <1>1, <1>2, <1>3 DEF IInv

\* A committed batch gives its connection back; the wait follows an empty one.
LEMMA CommitBatchInv ==
    ASSUME IInv, CommitBatch
    PROVE  IInv'
<1>1. TypeOK'
  BY DEF IInv, TypeOK, CommitBatch, Goto
<1>2. ConnsHeld'
  BY NotifyAssumption DEF IInv, TypeOK, ConnsHeld, NoPooledSubscription, CommitBatch, Goto
<1>3. Covered'
  BY DEF IInv, Covered, CommitBatch, Goto
<1>. QED  BY <1>1, <1>2, <1>3 DEF IInv

\* A batch that lost its session gives its connection up.
LEMMA FailBatchInv ==
    ASSUME IInv, FailBatch
    PROVE  IInv'
<1>1. TypeOK'
  BY DEF IInv, TypeOK, FailBatch, Goto
<1>2. ConnsHeld'
  BY NotifyAssumption DEF IInv, TypeOK, ConnsHeld, NoPooledSubscription, FailBatch, Goto
<1>3. Covered'
  BY DEF Covered, FailBatch, Goto
<1>. QED  BY <1>1, <1>2, <1>3 DEF IInv

\* A batch rolled back on a live session gives its connection back.
LEMMA RollBackBatchInv ==
    ASSUME IInv, RollBackBatch
    PROVE  IInv'
<1>1. TypeOK'
  BY NotifyAssumption DEF IInv, TypeOK, RollBackBatch, Goto
<1>2. ConnsHeld'
  BY NotifyAssumption DEF IInv, TypeOK, ConnsHeld, NoPooledSubscription, RollBackBatch, Goto
<1>3. Covered'
  BY DEF Covered, RollBackBatch, Goto
<1>. QED  BY <1>1, <1>2, <1>3 DEF IInv

\* startListener takes a connection of its own after the batch has returned its one.
LEMMA StartListenerInv ==
    ASSUME IInv, NEW c \in Conns, StartListener(c)
    PROVE  IInv'
<1>1. TypeOK'
  BY DEF IInv, TypeOK, StartListener, Goto
<1>2. ConnsHeld'
  BY NotifyAssumption
     DEF IInv, TypeOK, ConnsHeld, NoPooledSubscription, StartListener, Goto, Available
<1>3. Covered'
  BY DEF IInv, Covered, StartListener, Goto
<1>. QED  BY <1>1, <1>2, <1>3 DEF IInv

\* A failed LISTEN keeps nothing.
LEMMA StartFailsInv ==
    ASSUME IInv, StartFails
    PROVE  IInv'
<1>1. TypeOK'
  BY NotifyAssumption DEF IInv, TypeOK, StartFails, Goto
<1>2. ConnsHeld'
  BY DEF IInv, ConnsHeld, NoPooledSubscription, StartFails, Goto
<1>3. Covered'
  BY DEF Covered, StartFails, Goto
<1>. QED  BY <1>1, <1>2, <1>3 DEF IInv

\* waitForEvents and drainNotifications touch only what is buffered for the listener.
LEMMA WaitingInv ==
    ASSUME IInv, KeepListener \/ Notified \/ Drain \/ Poll
    PROVE  IInv'
<1>1. TypeOK'
  BY DEF IInv, TypeOK, KeepListener, Notified, Drain, Poll, connVars, Goto
<1>2. ConnsHeld'
  BY DEF IInv, ConnsHeld, NoPooledSubscription, KeepListener, Notified, Drain, Poll, connVars, Goto
<1>3. Covered'
  <2>1. CASE KeepListener
    BY <2>1 DEF IInv, Covered, KeepListener, connVars, Goto
  <2>2. CASE Notified \/ Drain \/ Poll
    BY <2>2 DEF Covered, Notified, Drain, Poll, Goto
  <2>. QED  BY <2>1, <2>2
<1>. QED  BY <1>1, <1>2, <1>3 DEF IInv

\* A failed wait closes the listener.
LEMMA WaitFailsInv ==
    ASSUME IInv, WaitFails
    PROVE  IInv'
<1>1. /\ listener' = NoConn /\ listening' = {} /\ buffered' = {}
      /\ alive' \subseteq alive
      /\ conn' \in [Conns -> {"unopened", "pooled", "inUse"}]
      /\ \A c \in Conns : conn'[c] # "inUse"
  BY CloseEffect DEF IInv, ConnsHeld, WaitFails
<1>2. TypeOK'
  BY <1>1 DEF IInv, TypeOK, WaitFails, Goto
<1>3. ConnsHeld'
  BY <1>1, NotifyAssumption DEF IInv, ConnsHeld, NoPooledSubscription, WaitFails, Goto
<1>4. Covered'
  BY DEF Covered, WaitFails, Goto
<1>. QED  BY <1>2, <1>3, <1>4 DEF IInv

\* processEvents closes the listener, if there is one, before it returns.
LEMMA ShutdownInv ==
    ASSUME IInv, Shutdown
    PROVE  IInv'
<1>1. /\ listener' = NoConn /\ listening' = {} /\ buffered' = {}
      /\ alive' \subseteq alive
      /\ conn' \in [Conns -> {"unopened", "pooled", "inUse"}]
      /\ \A c \in Conns : conn'[c] # "inUse"
  <2>1. CASE listener = NoConn
    BY <2>1, NotifyAssumption DEF IInv, TypeOK, ConnsHeld, NoPooledSubscription, Shutdown
  <2>2. CASE listener # NoConn
    BY <2>2, CloseEffect DEF Shutdown
  <2>. QED  BY <2>1, <2>2
<1>2. TypeOK'
  BY <1>1, NotifyAssumption DEF IInv, TypeOK, Shutdown, Goto
<1>3. ConnsHeld'
  BY <1>1, NotifyAssumption DEF IInv, ConnsHeld, NoPooledSubscription, Shutdown, Goto
<1>4. Covered'
  BY DEF Covered, Shutdown, Goto
<1>. QED  BY <1>2, <1>3, <1>4 DEF IInv

\* A new process has a new pool.
LEMMA RestartInv ==
    ASSUME IInv, Restart
    PROVE  IInv'
<1>1. TypeOK'
  BY DEF IInv, TypeOK, Restart, Goto
<1>2. ConnsHeld'
  BY NotifyAssumption DEF IInv, ConnsHeld, NoPooledSubscription, Restart, Goto
<1>3. Covered'
  BY DEF Covered, Restart, Goto
<1>. QED  BY <1>1, <1>2, <1>3 DEF IInv

\* Every step preserves the invariant.
LEMMA NextInv == IInv /\ [Next]_vars => IInv'
<1>1. ASSUME IInv, Next
      PROVE  IInv'
  BY <1>1, InsertInv, BreakInv, BeginBatchInv, CommitBatchInv, FailBatchInv, RollBackBatchInv, StartListenerInv,
     StartFailsInv, WaitingInv, WaitFailsInv, ShutdownInv, RestartInv DEF Next, Step
<1>2. ASSUME IInv, UNCHANGED vars
      PROVE  IInv'
  BY <1>2 DEF vars, IInv, TypeOK, ConnsHeld, NoPooledSubscription, Covered
<1>. QED  BY <1>1, <1>2

-----------------------------------------------------------------------------
(* The theorems.                                                           *)

\* notify.go and waitForEvents preserve the invariant, whatever breaks and whenever.
THEOREM ListenerInvariant == Spec => []IInv
BY InitInv, NextInv, PTL DEF Spec

\* close, startListener: the pool of two (openDB) always has a connection for the
\* next batch and for the next listener.
THEOREM TwoConnectionsSuffice == Spec => []PoolSuffices
<1>1. IInv => PoolSuffices
  BY AnotherConn, NotifyAssumption DEF IInv, TypeOK, ConnsHeld, PoolSuffices, Available
<1>. QED  BY <1>1, ListenerInvariant, PTL

\* close: a pooled session never carries a subscription into a batch.
THEOREM NothingPooledListens == Spec => []NoPooledSubscription
<1>1. IInv => NoPooledSubscription
  BY DEF IInv, ConnsHeld
<1>. QED  BY <1>1, ListenerInvariant, PTL

\* notifyListener: a subscription that outlives the batch leaves no window in which
\* a row is committed and the wait that follows does not hear of it.
THEOREM WaitHearsOfRows == Spec => []NoDeafWait
<1>1. IInv => NoDeafWait
  BY DEF IInv, Covered, NoDeafWait
<1>. QED  BY <1>1, ListenerInvariant, PTL
=============================================================================
