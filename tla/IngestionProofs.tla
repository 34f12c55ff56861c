--------------------------- MODULE IngestionProofs ---------------------------
(***************************************************************************)
(* Proofs about module Ingestion, for every number of jobs, relays, slots, *)
(* attempts and faults, from what OutboxProofs, WorkerProofs and        *)
(* LifecycleProofs say of the steps of the two components.                 *)
(***************************************************************************)
EXTENDS Ingestion, TLAPS

A == INSTANCE OutboxProofs

W == INSTANCE LifecycleProofs WITH MaxCopies <- 1

USE AttemptsAssumption, IngestionAssumption

-----------------------------------------------------------------------------
(***************************************************************************)
(* Api and A, Ingest and W, are instances of the same modules, so a step   *)
(* of the one is a step of the other.                                      *)
(***************************************************************************)
LEMMA SameCounts ==
  /\ \A S : Api!Cardinality(S) = A!Cardinality(S) /\ Ingest!Cardinality(S) = W!Cardinality(S)
  /\ \A S : IsFiniteSet(S) => A!IsFiniteSet(S) /\ W!IsFiniteSet(S)
  BY DEF Api!Cardinality, A!Cardinality, Ingest!Cardinality, W!Cardinality,
         IsFiniteSet, A!IsFiniteSet, W!IsFiniteSet

LEMMA SameCreate == \A j : Api!CreateJob(j) => A!CreateJob(j)
  BY SameCounts DEF Api!CreateJob, A!CreateJob, Api!BeginCreate, A!BeginCreate,
     Api!CommitCreate, A!CommitCreate, Api!AbortCreate, A!AbortCreate, Api!Answer, A!Answer,
     Api!Committed, A!Committed

LEMMA SameBatch ==
  /\ Api!Claimable = A!Claimable
  /\ \A S, n : Api!Oldest(S, n) = A!Oldest(S, n)
  BY SameCounts DEF Api!Claimable, A!Claimable, Api!Locked, A!Locked, Api!Oldest, A!Oldest

LEMMA SameDispatch == \A r : Api!DispatchBatch(r) => A!DispatchBatch(r)
<1>1. \A r : Api!Claim(r) => A!Claim(r)
  BY SameBatch DEF Api!Claim, A!Claim
<1>2. \A r : Api!PublishNext(r) => A!PublishNext(r)
  BY SameBatch DEF Api!PublishNext, A!PublishNext, Api!PublishOk, A!PublishOk,
     Api!PublishError, A!PublishError, Api!PublishTimeout, A!PublishTimeout, Api!Published,
     A!Published, Api!Fault, A!Fault, Api!Put, A!Put, Api!FirstMessage, A!FirstMessage
<1>3. \A r : Api!Commit(r) \/ Api!RollBack(r) => A!Commit(r) \/ A!RollBack(r)
  BY DEF Api!Commit, A!Commit, Api!RollBack, A!RollBack, Api!EndTransaction,
         A!EndTransaction, Api!Fault, A!Fault
<1>. QED BY <1>1, <1>2, <1>3 DEF Api!DispatchBatch, A!DispatchBatch

LEMMA SameEnvironment == \A r : Api!Environment(r) => A!Environment(r)
  BY DEF Api!Environment, A!Environment, Api!Crash, A!Crash, Api!LoseConnection,
         A!LoseConnection, Api!NoticeLoss, A!NoticeLoss, Api!EndTransaction,
         A!EndTransaction, Api!Fault, A!Fault

LEMMA SameRunJob == \A t : Ingest!RunJob(t) => W!RunJob(t)
<1>1. \A t : Ingest!CheckReady(t) => W!CheckReady(t)
  BY DEF Ingest!CheckReady, W!CheckReady, Ingest!JobOf, W!JobOf, Ingest!Goto, W!Goto,
         Ingest!AfterError, W!AfterError, Ingest!PgOutcomes, W!PgOutcomes, Ingest!Continue,
         W!Continue, Ingest!jobVars, W!jobVars, Ingest!taskVars, W!taskVars
<1>2. \A t, s, next : Ingest!SetStatus(t, s, next) => W!SetStatus(t, s, next)
  BY DEF Ingest!SetStatus, W!SetStatus, Ingest!JobOf, W!JobOf, Ingest!Goto, W!Goto,
         Ingest!AfterError, W!AfterError, Ingest!PgOutcomes, W!PgOutcomes, Ingest!Continue,
         W!Continue, Ingest!jobVars, W!jobVars, Ingest!taskVars, W!taskVars
<1>3. \A t : Ingest!Describe(t) => W!Describe(t)
  BY DEF Ingest!Describe, W!Describe, Ingest!Goto, W!Goto, Ingest!AfterError, W!AfterError,
         Ingest!ChError, W!ChError, Ingest!jobVars, W!jobVars, Ingest!taskVars, W!taskVars
<1>4. \A t : Ingest!DropTable(t) => W!DropTable(t)
  BY DEF Ingest!DropTable, W!DropTable, Ingest!JobOf, W!JobOf, Ingest!Goto, W!Goto,
         Ingest!AfterError, W!AfterError, Ingest!ChError, W!ChError, Ingest!Null, W!Null,
         Ingest!jobVars, W!jobVars, Ingest!taskVars, W!taskVars
<1>5. \A t : Ingest!CreateTable(t) => W!CreateTable(t)
  BY DEF Ingest!CreateTable, W!CreateTable, Ingest!JobOf, W!JobOf, Ingest!Goto, W!Goto,
         Ingest!AfterError, W!AfterError, Ingest!ChError, W!ChError, Ingest!Null, W!Null,
         Ingest!jobVars, W!jobVars, Ingest!taskVars, W!taskVars
<1>6. \A t : Ingest!Insert(t) => W!Insert(t)
  BY DEF Ingest!Insert, W!Insert, Ingest!JobOf, W!JobOf, Ingest!Goto, W!Goto,
         Ingest!AfterError, W!AfterError, Ingest!ChError, W!ChError, Ingest!MissingTable,
         W!MissingTable, Ingest!Null, W!Null, Ingest!jobVars, W!jobVars, Ingest!taskVars,
         W!taskVars
<1>7. \A t : Ingest!CountRows(t) => W!CountRows(t)
  BY DEF Ingest!CountRows, W!CountRows, Ingest!JobOf, W!JobOf, Ingest!Goto, W!Goto,
         Ingest!AfterError, W!AfterError, Ingest!ChError, W!ChError, Ingest!MissingTable,
         W!MissingTable, Ingest!Null, W!Null, Ingest!jobVars, W!jobVars, Ingest!taskVars,
         W!taskVars
<1>8. \A t : Ingest!Generate(t) => W!Generate(t)
  BY DEF Ingest!Generate, W!Generate, Ingest!JobOf, W!JobOf, Ingest!Goto, W!Goto,
         Ingest!AfterError, W!AfterError, Ingest!ChError, W!ChError, Ingest!MissingTable,
         W!MissingTable, Ingest!Null, W!Null, Ingest!jobVars, W!jobVars, Ingest!taskVars,
         W!taskVars
<1>9. \A t : Ingest!StoreDashboard(t) => W!StoreDashboard(t)
  BY DEF Ingest!StoreDashboard, W!StoreDashboard, Ingest!JobOf, W!JobOf, Ingest!Goto,
         W!Goto, Ingest!AfterError, W!AfterError, Ingest!PgOutcomes, W!PgOutcomes,
         Ingest!Continue, W!Continue, Ingest!jobVars, W!jobVars, Ingest!taskVars, W!taskVars
<1>10. \A t : Ingest!MarkReady(t) => W!MarkReady(t)
  BY DEF Ingest!MarkReady, W!MarkReady, Ingest!JobOf, W!JobOf, Ingest!Goto, W!Goto,
         Ingest!AfterError, W!AfterError, Ingest!PgOutcomes, W!PgOutcomes, Ingest!Continue,
         W!Continue, Ingest!jobVars, W!jobVars, Ingest!taskVars, W!taskVars
<1>. QED BY <1>1, <1>2, <1>3, <1>4, <1>5, <1>6, <1>7, <1>8, <1>9, <1>10
         DEF Ingest!RunJob, W!RunJob

LEMMA SameDispose == \A t : Ingest!Dispose(t) => W!Dispose(t)
<1>1. \A t : Ingest!Ack(t) => W!Ack(t)
  BY DEF Ingest!Ack, W!Ack, Ingest!Finished, W!Finished, Ingest!Goto, W!Goto,
         Ingest!jobVars, W!jobVars
<1>2. \A t : Ingest!Bump(t) => W!Bump(t)
  BY DEF Ingest!Bump, W!Bump, Ingest!Goto, W!Goto, Ingest!PgOutcomes, W!PgOutcomes,
         Ingest!JobOf, W!JobOf, Ingest!taskVars, W!taskVars
<1>3. \A t : Ingest!Republish(t) => W!Republish(t)
  BY DEF Ingest!Republish, W!Republish, Ingest!Goto, W!Goto, Ingest!Put, W!Put,
         Ingest!jobVars, W!jobVars, Ingest!taskVars, W!taskVars
<1>4. \A t : Ingest!MarkFailed(t) => W!MarkFailed(t)
  BY DEF Ingest!MarkFailed, W!MarkFailed, Ingest!Goto, W!Goto, Ingest!PgOutcomes,
         W!PgOutcomes, Ingest!JobOf, W!JobOf, Ingest!taskVars, W!taskVars
<1>5. \A t : Ingest!DeadLetter(t) => W!DeadLetter(t)
  BY DEF Ingest!DeadLetter, W!DeadLetter, Ingest!Finished, W!Finished, Ingest!Goto, W!Goto,
         Ingest!Put, W!Put, Ingest!jobVars, W!jobVars
<1>. QED BY <1>1, <1>2, <1>3, <1>4, <1>5 DEF Ingest!Dispose, W!Dispose

LEMMA SameBroker ==
  /\ Ingest!Consume => W!Consume
  /\ \A w : Ingest!LoseChannel(w) \/ Ingest!Restart(w) => W!LoseChannel(w) \/ W!Restart(w)
<1>1. Ingest!Consume => W!Consume
  BY DEF Ingest!Consume, W!Consume, Ingest!Deliver, W!Deliver, Ingest!Goto, W!Goto,
         Ingest!Take, W!Take, Ingest!Tasks, W!Tasks, Ingest!Message, W!Message,
         Ingest!jobVars, W!jobVars
<1>2. \A w, m : Ingest!Unacked(w, m) = W!Unacked(w, m)
  BY DEF Ingest!Unacked, W!Unacked, Ingest!TasksOf, W!TasksOf, Ingest!Tasks, W!Tasks
<1>3. \A w : Ingest!LoseChannel(w) => W!LoseChannel(w)
  BY <1>2, SameCounts DEF Ingest!LoseChannel, W!LoseChannel, Ingest!Message, W!Message,
     Ingest!jobVars, W!jobVars
<1>4. \A w : Ingest!Restart(w) => W!Restart(w)
  BY DEF Ingest!Restart, W!Restart, Ingest!Tasks, W!Tasks, Ingest!jobVars, W!jobVars
<1>. QED BY <1>1, <1>3, <1>4

LEMMA SameStep ==
  /\ Api!Next => A!Next
  /\ Ingest!Next => W!Next
<1>1. Api!Next => A!Next
  BY SameCreate, SameDispatch, SameEnvironment DEF Api!Next, A!Next
<1>2. Ingest!Next => W!Next
  BY SameRunJob, SameDispose, SameBroker DEF Ingest!Next, W!Next, Ingest!Tasks, W!Tasks
<1>. QED BY <1>1, <1>2

\* The initial states are those of the two components, but with an empty queue.
LEMMA SameInit ==
  Init => /\ A!Init
          /\ queue = A!EmptyQueue
          /\ dlq = W!EmptyQueue
          /\ status = [j \in Jobs |-> "queued"]
          /\ pc = [t \in W!Tasks |-> "idle"]
  BY DEF Init, Api!Init, A!Init, Api!EmptyQueue, A!EmptyQueue, W!EmptyQueue, EmptyQueue,
         Api!Message, A!Message, W!Message, Message, Ingest!Tasks, W!Tasks

\* Both components mean the same by a message and a queue.
LEMMA SameMessages ==
  /\ A!Message = Message /\ W!Message = Message
  /\ A!Queues = W!Queues
  BY DEF A!Message, W!Message, Message, A!Queues, W!Queues

\* Both components' assumptions on their constants hold.
LEMMA SameAssumptions ==
  /\ A!AttemptsAssumption /\ A!OutboxAssumption
  /\ W!AttemptsAssumption /\ W!WorkerAssumption
  BY SameCounts, SameMessages

-----------------------------------------------------------------------------
(***************************************************************************)
(* Each component keeps its invariant beside the other, which only puts    *)
(* messages into the queue they share, or takes them out of it.            *)
(***************************************************************************)
BaseInv == A!LockInv /\ W!TypeInv

\* A step of the whole is a step of one component that the other does not notice.
LEMMA StepSplits ==
  ASSUME [Next]_vars
  PROVE  \/ [A!Next]_(A!vars) /\ UNCHANGED ingestVars
         \/ [W!Next]_(W!vars) /\ UNCHANGED apiVars
  BY SameStep DEF Next, vars, apiVars, ingestVars, A!vars, A!outboxVars, W!vars, W!workerVars,
                  W!jobVars, W!taskVars

\* What the invariants of a component say of the queue is that it is one.
LEMMA QueueIsShared ==
  /\ A!LockInv => queue \in A!Queues
  /\ A!LockInv /\ UNCHANGED apiVars /\ queue' \in A!Queues => A!LockInv'
  /\ W!TypeInv => queue \in W!Queues
  /\ W!TypeInv /\ UNCHANGED ingestVars /\ queue' \in W!Queues => W!TypeInv'
<1>1. A!LockInv => queue \in A!Queues
  BY DEF A!LockInv, A!TypeOK
<1>2. A!LockInv /\ UNCHANGED apiVars /\ queue' \in A!Queues => A!LockInv'
  BY DEF apiVars, A!LockInv, A!TypeOK, A!LocksExclude, A!ClaimsAreOpen, A!LinksHold
<1>3. W!TypeInv => queue \in W!Queues
  BY DEF W!TypeInv, W!TypeOK
<1>4. W!TypeInv /\ UNCHANGED ingestVars /\ queue' \in W!Queues => W!TypeInv'
  BY DEF ingestVars, W!TypeInv, W!TypeOK, W!RetryHasAttempt
<1>. QED BY <1>1, <1>2, <1>3, <1>4

LEMMA InitBase == Init => BaseInv
<1>. SUFFICES ASSUME Init PROVE BaseInv
  OBVIOUS
<1>1. A!LockInv
  BY SameInit, SameAssumptions, A!InitLocks
<1>2. queue \in W!Queues /\ dlq \in W!Queues
  BY SameInit, SameMessages DEF A!EmptyQueue, W!EmptyQueue, W!Queues
<1>3. W!TypeInv
  BY <1>2 DEF Init, W!TypeInv, W!TypeOK, W!RetryHasAttempt, Ingest!Tasks, W!Tasks, W!Statuses,
              W!Labels, Ingest!Null, W!Null
<1>. QED BY <1>1, <1>3 DEF BaseInv

LEMMA StepBase == BaseInv /\ [Next]_vars => BaseInv'
<1>. SUFFICES ASSUME BaseInv, [Next]_vars PROVE BaseInv'
  OBVIOUS
<1>1. CASE [A!Next]_(A!vars) /\ UNCHANGED ingestVars
  <2>1. A!LockInv'
    BY <1>1, SameAssumptions, A!StepLocks DEF BaseInv
  <2>2. queue' \in W!Queues
    BY <2>1, SameMessages DEF A!LockInv, A!TypeOK, A!Queues, W!Queues
  <2>. QED BY <1>1, <2>1, <2>2, QueueIsShared DEF BaseInv
<1>2. CASE [W!Next]_(W!vars) /\ UNCHANGED apiVars
  <2>1. W!TypeInv'
    BY <1>2, SameAssumptions, W!StepType DEF BaseInv
  <2>2. queue' \in A!Queues
    BY <2>1, SameMessages DEF W!TypeInv, W!TypeOK, A!Queues, W!Queues
  <2>. QED BY <1>2, <2>1, <2>2, QueueIsShared DEF BaseInv
<1>. QED BY <1>1, <1>2, StepSplits

\* Every reachable state is well typed.
THEOREM TypeCorrect == Spec => []TypeOK
<1>1. BaseInv => TypeOK
  BY DEF BaseInv, TypeOK, A!LockInv, A!TypeOK, Api!TypeOK, W!TypeInv, W!TypeOK, Ingest!TypeOK,
         A!Queues, Api!Queues, A!Message, Api!Message, W!Queues, Ingest!Queues, W!Message,
         Ingest!Message, A!RowStates, Api!RowStates, W!Statuses, Ingest!Statuses, W!Null,
         Ingest!Null, W!Tasks, Ingest!Tasks, W!Labels, Ingest!Labels, W!Pipeline,
         Ingest!Pipeline, W!Disposal, Ingest!Disposal
<1>. QED BY InitBase, StepBase, <1>1, PTL DEF Spec

-----------------------------------------------------------------------------
(***************************************************************************)
(* A job is worked on only once it is stored: the API publishes messages   *)
(* of stored jobs only, and the worker works on what it got as a message.  *)
(***************************************************************************)
StoredInv == \A j \in Jobs : W!Present(j) => A!Committed(j)

LEMMA InitStored == Init => StoredInv
<1>. SUFFICES ASSUME Init, NEW j \in Jobs, W!Present(j) PROVE FALSE
  BY DEF StoredInv
<1>1. \A m \in W!Message : queue[m] = 0
  BY SameInit, SameMessages DEF A!EmptyQueue
<1>2. \A t \in W!Tasks : pc[t] = "idle"
  BY SameInit
<1>. QED BY <1>1, <1>2 DEF W!Present

LEMMA StepStored == BaseInv /\ StoredInv /\ [Next]_vars => StoredInv'
<1>. SUFFICES ASSUME BaseInv, StoredInv, [Next]_vars PROVE StoredInv'
  OBVIOUS
<1>0. BaseInv'
  BY StepBase
<1>1. CASE [A!Next]_(A!vars) /\ UNCHANGED ingestVars
  <2>1. /\ \A j \in Jobs : A!Committed(j) => A!Committed(j)'
        /\ \A m \in A!Message : queue'[m] > queue[m] => A!Committed(m.job)
    BY <1>0, <1>1, SameAssumptions, A!StepPublishes DEF BaseInv
  <2>2. \A m \in A!Message : queue[m] \in Nat /\ queue'[m] \in Nat
    BY <1>0 DEF BaseInv, A!LockInv, A!TypeOK, A!Queues
  <2>3. ASSUME NEW j \in Jobs, W!Present(j)' PROVE A!Committed(j)
    <3>1. CASE \E m \in A!Message : m.job = j /\ queue'[m] > 0
      <4>1. PICK m \in A!Message : m.job = j /\ queue'[m] > 0
        BY <3>1
      <4>2. CASE queue[m] > 0
        BY <4>1, <4>2, SameMessages DEF StoredInv, W!Present
      <4>3. CASE queue[m] = 0
        BY <2>1, <4>1, <4>3
      <4>. QED BY <2>2, <4>2, <4>3
    <3>2. CASE \E t \in W!Tasks : pc'[t] # "idle" /\ W!JobOf(t)' = j
      BY <1>1, <3>2 DEF ingestVars, StoredInv, W!Present, W!JobOf
    <3>. QED BY <2>3, <3>1, <3>2, SameMessages DEF W!Present
  <2>. QED BY <2>1, <2>3 DEF StoredInv
<1>2. CASE [W!Next]_(W!vars) /\ UNCHANGED apiVars
  <2>1. \A j \in Jobs : W!Present(j)' => W!Present(j)
    BY <1>2, SameAssumptions, W!StepBringsNone DEF BaseInv
  <2>. QED BY <1>2, <2>1 DEF apiVars, StoredInv, A!Committed
<1>. QED BY <1>1, <1>2, StepSplits

\* handlers.rs:41-65: the message of a job never overtakes the transaction that
\* stored it, whichever relays and workers are at it.
THEOREM OnlyStored == Spec => []OnlyStoredJobsRun
<1>1. BaseInv /\ StoredInv => OnlyStoredJobsRun
  <2>. SUFFICES ASSUME BaseInv, StoredInv, NEW t \in Ingest!Tasks, pc[t] # "idle"
                PROVE  Api!Committed(Ingest!JobOf(t))
    BY DEF OnlyStoredJobsRun
  <2>1. t \in W!Tasks /\ W!JobOf(t) = Ingest!JobOf(t)
    BY DEF W!Tasks, Ingest!Tasks, W!JobOf, Ingest!JobOf
  <2>2. W!JobOf(t) \in Jobs
    BY <2>1 DEF BaseInv, W!TypeInv, W!TypeOK, W!Message, W!JobOf
  <2>3. A!Committed(W!JobOf(t))
    BY <2>1, <2>2 DEF StoredInv, W!Present
  <2>. QED BY <2>1, <2>3 DEF A!Committed, Api!Committed
<1>. QED BY InitBase, StepBase, InitStored, StepStored, <1>1, PTL DEF Spec

-----------------------------------------------------------------------------
(***************************************************************************)
(* No accepted job is forgotten.  Until its row is stamped the relay has   *)
(* it; the stamp follows the message into the queue; and from there on it  *)
(* is safe with the worker.                                                *)
(***************************************************************************)
SingleWorker == \A v, w \in Workers : v = w

CustodyInv ==
    /\ W!HeldInv
    /\ losses = 0 => \A j \in Jobs : A!HandedOver(j) => W!Safe(j)

LEMMA InitHandedOver == Init => CustodyInv
<1>. SUFFICES ASSUME Init PROVE CustodyInv
  OBVIOUS
<1>1. W!HeldInv
  BY SameInit DEF W!HeldInv
<1>2. \A j \in Jobs : ~A!HandedOver(j)
  BY SameInit DEF A!Init, A!HandedOver, A!Stamping
<1>. QED BY <1>1, <1>2 DEF CustodyInv

LEMMA StepHandedOver ==
  ASSUME SingleWorker, BaseInv, CustodyInv, [Next]_vars
  PROVE  CustodyInv'
<1>0. BaseInv'
  BY StepBase
<1>1. CASE [A!Next]_(A!vars) /\ UNCHANGED ingestVars
  <2>1. \A m \in A!Message : queue[m] \in Nat /\ queue'[m] \in Nat /\ queue'[m] >= queue[m]
    BY <1>0, <1>1, SameAssumptions, A!StepPublishes
       DEF BaseInv, A!LockInv, A!TypeOK, A!Queues
  <2>2. \A m \in W!Message : dlq[m] \in Nat
    BY DEF BaseInv, W!TypeInv, W!TypeOK, W!Queues
  <2>3. W!HeldInv'
    <3>1. \A t \in W!Tasks : pc[t] # "idle" => msg[t] \in A!Message
      BY SameMessages DEF BaseInv, W!TypeInv, W!TypeOK
    <3>. QED BY <1>1, <2>1, <3>1 DEF ingestVars, CustodyInv, W!HeldInv
  <2>4. ASSUME NEW j \in Jobs, W!Safe(j) PROVE W!Safe(j)'
    <3>1. CASE \E m \in A!Message : m.job = j /\ queue[m] + dlq[m] > 0
      <4>1. PICK m \in A!Message : m.job = j /\ queue[m] + dlq[m] > 0
        BY <3>1
      <4>2. queue'[m] + dlq'[m] > 0
        BY <1>1, <2>1, <2>2, <4>1, SameMessages DEF ingestVars
      <4>. QED BY <4>1, <4>2, SameMessages DEF W!Safe, W!InCustody
    <3>2. CASE ~ \E m \in A!Message : m.job = j /\ queue[m] + dlq[m] > 0
      BY <1>1, <2>4, <3>2, SameMessages
         DEF ingestVars, W!Safe, W!InCustody, W!JobOf, W!IsTerminal
    <3>. QED BY <3>1, <3>2
  <2>5. ASSUME losses' = 0, NEW j \in Jobs, A!HandedOver(j)' PROVE W!Safe(j)'
    <3>1. \/ losses = 0 /\ A!HandedOver(j)
          \/ queue'[A!FirstMessage(j)] > 0
      BY <1>0, <1>1, <2>5, SameAssumptions, A!StampsDeliver DEF BaseInv, A!HandedOver
    <3>2. CASE losses = 0 /\ A!HandedOver(j)
      BY <2>4, <3>2 DEF CustodyInv
    <3>3. CASE queue'[A!FirstMessage(j)] > 0
      <4>1. A!FirstMessage(j) \in W!Message /\ A!FirstMessage(j).job = j
        BY SameMessages, SameAssumptions DEF A!FirstMessage, Message
      <4>2. queue'[A!FirstMessage(j)] + dlq'[A!FirstMessage(j)] > 0
        BY <1>1, <2>1, <2>2, <3>3, <4>1, SameMessages DEF ingestVars
      <4>. QED BY <4>1, <4>2 DEF W!Safe, W!InCustody
    <3>. QED BY <3>1, <3>2, <3>3
  <2>. QED BY <2>3, <2>5 DEF CustodyInv
<1>2. CASE [W!Next]_(W!vars) /\ UNCHANGED apiVars
  <2>1. W!KeepsSafe
    BY <1>2, SameAssumptions, W!StepCustody DEF BaseInv, CustodyInv, SingleWorker, W!SingleWorker
  <2>2. \A j \in Jobs : A!HandedOver(j)' <=> A!HandedOver(j)
    BY <1>2 DEF apiVars, A!HandedOver, A!Stamping
  <2>. QED BY <1>2, <2>1, <2>2 DEF apiVars, CustodyInv, W!KeepsSafe
<1>. QED BY <1>1, <1>2, StepSplits

\* relay.rs:1, consumer.rs:85-88: a stored job is over, or its row is still to
\* be published, or somebody has a message for it, with any number of relays
\* and slots, whatever crashes and whichever calls fail, short of a relay
\* connection lost unnoticed.
THEOREM NobodyForgets == ASSUME SingleWorker PROVE Spec => []NeverForgotten
<1>1. CustodyInv => NeverForgotten
  <2>. SUFFICES ASSUME CustodyInv, losses = 0, NEW j \in Jobs, row[j] = "published"
                PROVE  IsTerminal(status[j]) \/ Ingest!InCustody(j)
    BY DEF NeverForgotten, Api!Committed
  <2>1. W!Safe(j)
    BY DEF CustodyInv, A!HandedOver
  <2>. QED BY <2>1 DEF W!Safe, W!InCustody, Ingest!InCustody, W!IsTerminal, IsTerminal, W!Message,
                       Ingest!Message, W!Tasks, Ingest!Tasks, W!JobOf, Ingest!JobOf
<1>2. BaseInv /\ CustodyInv /\ [Next]_vars => CustodyInv'
  BY StepHandedOver
<1>. QED BY InitBase, StepBase, InitHandedOver, <1>1, <1>2, PTL DEF Spec

-----------------------------------------------------------------------------
(***************************************************************************)
(* Calm: no relay fault and no lost channel so far.  Then the relays       *)
(* publish the message of a job once, while nobody has the job, and it     *)
(* keeps one holder, whatever the databases do.                            *)
(***************************************************************************)
Calm == faults = 0 /\ channelLosses = 0

CalmInv ==
    Calm =>
        /\ W!OneHolder
        /\ \A j \in Jobs : ~A!HandedOver(j) => W!New(j)
        /\ W!AttemptsInv
        /\ "pg_error" \notin Faults => W!FailedInv
        /\ "body_lost" \notin Faults => W!ExactInv
        /\ Faults \subseteq {"body_lost"} => W!StageInv

LEMMA InitCalm == Init => CalmInv
<1>. SUFFICES ASSUME Init PROVE CalmInv
  OBVIOUS
<1>1. /\ \A m \in W!Message : queue[m] = 0 /\ dlq[m] = 0 /\ W!Copies(m) = 0
      /\ \A t \in W!Tasks : pc[t] = "idle"
      /\ \A j \in Jobs : status[j] = "queued" /\ attempts[j] = 0
      /\ \A w \in Workers : up[w]
  BY SameInit, SameMessages DEF Init, A!EmptyQueue, W!EmptyQueue, W!Copies
<1>2. W!OneHolder
  BY <1>1 DEF W!OneHolder, W!AllUp, W!OneMessage, W!OneTask, W!TaskOrMessage, W!Active
<1>3. \A j \in Jobs : W!New(j)
  <2>1. \A m \in W!Message : ~(W!Copies(m) > 0)
    BY <1>1
  <2>2. \A t \in W!Tasks : ~W!Active(t)
    BY <1>1 DEF W!Active
  <2>. QED BY <1>1, <2>1, <2>2 DEF W!New, W!HasHolder
<1>4. W!AttemptsInv
  BY <1>1 DEF W!AttemptsInv, W!AttemptsAreLimited, W!Active
<1>5. W!FailedInv /\ W!ExactInv /\ W!StageInv
  BY <1>1 DEF W!FailedInv, W!DeadLetterIsRecorded, W!ExactInv, W!ExactJob, W!ExactTask,
              W!Pipeline, W!StageInv, W!Stage
<1>. QED BY <1>2, <1>3, <1>4, <1>5 DEF CalmInv

LEMMA StepCalm == BaseInv /\ CalmInv /\ [Next]_vars => CalmInv'
<1>. SUFFICES ASSUME BaseInv, CalmInv, [Next]_vars, Calm'
              PROVE  CalmInv'
  BY DEF CalmInv
<1>0. BaseInv'
  BY StepBase
<1>1. CASE [A!Next]_(A!vars) /\ UNCHANGED ingestVars
  <2>1. faults \in Nat /\ channelLosses = 0
    BY <1>1 DEF Calm, ingestVars, BaseInv, A!LockInv, A!TypeOK
  <2>2. faults' = faults /\ Calm
    <3>1. faults' \in {faults, faults + 1}
      BY <1>1, SameAssumptions, A!FaultsGrow
    <3>. QED BY <2>1, <3>1 DEF Calm
  <2>3. /\ \A j \in Jobs : A!HandedOver(j) => A!HandedOver(j)'
        /\ \/ queue' = queue
           \/ \E j \in Jobs : /\ ~A!HandedOver(j) /\ A!HandedOver(j)'
                              /\ queue' = A!Put(queue, A!FirstMessage(j))
    BY <1>1, <2>2, SameAssumptions, A!StepHandsOver DEF BaseInv
  <2>4. UNCHANGED W!workerVars
    BY <1>1 DEF ingestVars, W!workerVars, W!jobVars, W!taskVars
  <2>5. W!ExactInv => W!ExactInv'
    BY <2>4 DEF W!workerVars, W!jobVars, W!taskVars, W!ExactInv, W!ExactJob, W!ExactTask, W!JobOf
  <2>6. CASE queue' = queue
    BY <2>2, <2>3, <2>4, <2>5, <2>6
       DEF CalmInv, W!workerVars, W!jobVars, W!taskVars, W!OneHolder, W!AllUp, W!OneMessage,
           W!OneTask, W!TaskOrMessage, W!New, W!HasHolder, W!Copies, W!Active, W!JobOf,
           W!AttemptsInv, W!AttemptsAreLimited, W!FailedInv, W!DeadLetterIsRecorded,
           W!StageInv, W!Stage, W!MayStart
  <2>7. CASE queue' # queue
    <3>1. PICK j \in Jobs : /\ ~A!HandedOver(j) /\ A!HandedOver(j)'
                            /\ queue' = W!Put(queue, W!FirstMessage(j))
      BY <2>3, <2>7 DEF A!Put, W!Put, A!FirstMessage, W!FirstMessage
    <3>2. W!TypeInv /\ W!OneHolder /\ W!New(j)
      BY <2>2, <3>1 DEF CalmInv, BaseInv
    <3>3. /\ W!OneHolder'
          /\ \A i \in Jobs : i # j /\ W!New(i) => W!New(i)'
          /\ W!AttemptsInv => W!AttemptsInv'
          /\ W!FailedInv => W!FailedInv'
          /\ W!StageInv => W!StageInv'
      BY <2>4, <3>1, <3>2, SameAssumptions, W!PublishNew
    <3>4. \A i \in Jobs : ~A!HandedOver(i)' => i # j /\ ~A!HandedOver(i)
      BY <2>3, <3>1
    <3>. QED BY <2>2, <2>5, <3>3, <3>4 DEF CalmInv
  <2>. QED BY <2>6, <2>7
<1>2. CASE [W!Next]_(W!vars) /\ UNCHANGED apiVars
  <2>1. faults = 0 /\ channelLosses \in Nat
    BY <1>2 DEF Calm, apiVars, BaseInv, W!TypeInv, W!TypeOK
  <2>2. channelLosses' = channelLosses /\ Calm
    <3>1. channelLosses' \in {channelLosses, channelLosses + 1}
      BY <1>2, SameAssumptions, W!LossesGrow
    <3>. QED BY <2>1, <3>1 DEF Calm
  <2>3. W!TypeInv /\ W!OneHolder /\ W!NoOverlap
    BY <2>2, SameAssumptions, W!HolderExcludes DEF CalmInv, BaseInv
  <2>4. W!OneHolder'
    BY <1>2, <2>2, <2>3, SameAssumptions, W!StepHolder
  <2>5. ASSUME NEW j \in Jobs, ~A!HandedOver(j)' PROVE W!New(j)'
    <3>1. ~A!HandedOver(j)
      BY <1>2, <2>5 DEF apiVars, A!HandedOver, A!Stamping
    <3>. QED BY <1>2, <2>2, <2>3, <3>1, SameAssumptions, W!StepLeavesNew DEF CalmInv
  <2>6. W!AttemptsInv'
    BY <1>2, <2>2, <2>3, SameAssumptions, W!StepAttempts DEF CalmInv
  <2>7. "pg_error" \notin Faults => W!FailedInv'
    BY <1>2, <2>2, <2>3, SameAssumptions, W!StepFailed DEF CalmInv
  <2>8. "body_lost" \notin Faults => W!ExactInv'
    BY <1>2, <2>2, <2>3, SameAssumptions, W!StepExact DEF CalmInv
  <2>9. Faults \subseteq {"body_lost"} => W!StageInv'
    BY <1>2, <2>2, <2>3, SameAssumptions, W!StepStage DEF CalmInv
  <2>. QED BY <2>4, <2>5, <2>6, <2>7, <2>8, <2>9 DEF CalmInv
<1>. QED BY <1>1, <1>2, StepSplits

\* relay.rs:4, consumer.rs:85-88: two tasks work on one job at once only after
\* a relay fault or a lost channel, whatever the databases answer.
THEOREM OverlapIsAFault == Spec => []OverlapNeedsFault
<1>1. BaseInv /\ CalmInv => OverlapNeedsFault
  <2>. SUFFICES ASSUME BaseInv, CalmInv, Calm PROVE OverlapNeedsFault
    BY DEF OverlapNeedsFault, Calm
  <2>1. W!NoOverlap
    BY SameAssumptions, W!HolderExcludes DEF BaseInv, CalmInv
  <2>. QED BY <2>1 DEF W!NoOverlap, OverlapNeedsFault, W!Tasks, Ingest!Tasks, W!Pipeline,
                       Ingest!Pipeline, W!JobOf, Ingest!JobOf
<1>. QED BY InitBase, StepBase, InitCalm, StepCalm, <1>1, PTL DEF Spec

\* ingest.rs:67: until a relay fails or a channel is lost, a ready job's table,
\* row count and dashboard are those of its source, also when PostgreSQL fails.
THEOREM CalmIsExact ==
  ASSUME "body_lost" \notin Faults
  PROVE  Spec => [](Calm => ReadyIsExact)
<1>1. CalmInv => (Calm => ReadyIsExact)
  BY DEF CalmInv, W!ExactInv, W!ExactJob, ReadyIsExact, Ingest!ReadyIsExact
<1>. QED BY InitBase, StepBase, InitCalm, StepCalm, <1>1, PTL DEF Spec

\* lib.rs:27: and the attempts recorded for a job stay below the limit.
THEOREM CalmAttempts == Spec => [](Calm => AttemptsAreLimited)
<1>1. CalmInv => (Calm => AttemptsAreLimited)
  BY DEF CalmInv, W!AttemptsInv, W!AttemptsAreLimited, AttemptsAreLimited,
         Ingest!AttemptsAreLimited
<1>. QED BY InitBase, StepBase, InitCalm, StepCalm, <1>1, PTL DEF Spec

\* consumer.rs:97: and a dead-lettered job is failed, with its reason, unless
\* PostgreSQL did not take it.
THEOREM CalmDeadLetters ==
  ASSUME "pg_error" \notin Faults
  PROVE  Spec => [](Calm => DeadLetterIsRecorded)
<1>1. CalmInv => (Calm => DeadLetterIsRecorded)
  BY DEF CalmInv, W!FailedInv, W!DeadLetterIsRecorded, DeadLetterIsRecorded,
         Ingest!DeadLetterIsRecorded, W!Message, Ingest!Message
<1>. QED BY InitBase, StepBase, InitCalm, StepCalm, <1>1, PTL DEF Spec

\* domain.rs:42: and a job moves along the documented transitions or starts
\* over for a recorded retry, in every behaviour that stays calm, as long as
\* PostgreSQL answers.
THEOREM CalmLifecycle ==
  ASSUME Faults \subseteq {"body_lost"}
  PROVE  Spec /\ []Calm => LifecycleOrRetry
<1>1. ASSUME BaseInv, CalmInv, Calm, Calm', [Next]_vars
      PROVE  [\A j \in Jobs :
                  \/ status'[j] = status[j]
                  \/ Ingest!CanTransitionTo(status[j], status'[j])
                  \/ /\ ~Ingest!IsTerminal(status[j])
                     /\ status'[j] = "downloading"
                     /\ attempts[j] > 0]_(Ingest!vars)
  <2>1. CASE [A!Next]_(A!vars) /\ UNCHANGED ingestVars
    BY <2>1 DEF ingestVars
  <2>2. CASE [W!Next]_(W!vars) /\ UNCHANGED apiVars
    <3>1. W!TypeInv /\ W!OneHolder /\ W!StageInv /\ channelLosses' = channelLosses
      BY <1>1 DEF BaseInv, CalmInv, Calm
    <3>2. \A j \in Jobs : W!LegalStep(j)
      BY <2>2, <3>1, SameAssumptions, W!StepStage
    <3>. QED BY <3>2 DEF W!LegalStep, W!CanTransitionTo, Ingest!CanTransitionTo, W!IsTerminal,
                         Ingest!IsTerminal, W!HappyPath, Ingest!HappyPath
  <2>. QED BY <1>1, <2>1, <2>2, StepSplits
<1>. QED BY InitBase, StepBase, InitCalm, StepCalm, <1>1, PTL
         DEF Spec, LifecycleOrRetry, Ingest!LifecycleOrRetry
=============================================================================
